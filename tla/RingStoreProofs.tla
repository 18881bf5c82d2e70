-------------------------- MODULE RingStoreProofs --------------------------
(***************************************************************************)
(* Proofs about RingStore, for every number of slots, partition size,      *)
(* block size, generation limit and set of contracts, and with every way   *)
(* of ending a session: the type invariant, the order of generations over  *)
(* the slots, and the room reserved for a block under construction.        *)
(***************************************************************************)
EXTENDS RingMediumProofs, FiniteSetTheorems

\* A set of naturals that is not empty has a least element.
LEMMA Least == WellOrdered
  <1> SUFFICES ASSUME NEW S \in SUBSET Nat, S # {}
               PROVE  \E m \in S : \A n \in S : m <= n
    BY DEF WellOrdered
  <1>1. PICK m \in S : \A n \in S : ~ (<<n, m>> \in OpToRel(<, Nat))
    BY WFMin, NatLessThanWellFounded
  <1>2. ASSUME NEW n \in S PROVE m <= n
    <2>1. m \in Nat /\ n \in Nat  OBVIOUS
    <2>2. ~ (n < m)  BY <1>1, <2>1 DEF OpToRel
    <2> QED  BY <2>1, <2>2
  <1> QED  BY <1>2

-----------------------------------------------------------------------------
(* Storage *)

LEMMA DamageSound == ASSUME NEW r \in Region PROVE Damage \subseteq Sound(r)
  BY DEF Sound, Contents, Damage, Blank, Torn, Blot

LEMMA WriteSound ==
  ASSUME MediaInv, NEW r \in Region, NEW v \in Sound(r), Write(r, v)
  PROVE  MediaInv'
  BY DEF MediaInv, Write

LEMMA WriteErrorSound ==
  ASSUME MediaInv, NEW r \in Region, WriteError(r)
  PROVE  MediaInv'
  <1>1. CASE UNCHANGED storageVars  BY <1>1 DEF MediaInv, storageVars
  <1>2. CASE \E t \in TornOver(r, cache[r]) : Write(r, t)
    <2>1. TornOver(r, cache[r]) \subseteq Sound(r)  BY DamageSound DEF TornOver, Damage
    <2> QED  BY <1>2, <2>1, WriteSound
  <1> QED  BY <1>1, <1>2 DEF WriteError

LEMMA FlushSound == ASSUME MediaInv, Flush PROVE MediaInv'
  BY DEF MediaInv, Flush

LEMMA PowerLossSound == ASSUME MediaInv, PowerLoss PROVE MediaInv'
  <1>1. PICK left : /\ \A r \in Unflushed : left[r] \in AfterPowerLoss(r)
                    /\ disk' = [r \in Region |-> IF r \in Unflushed THEN left[r] ELSE disk[r]]
                    /\ cache' = disk'
                    /\ pending' = [r \in Region |-> {}]
    BY DEF PowerLoss
  <1>2. ASSUME NEW r \in Region PROVE AfterPowerLoss(r) \subseteq Sound(r)
    BY DamageSound DEF MediaInv, AfterPowerLoss, TornOver, Damage
  <1> QED  BY <1>1, <1>2 DEF MediaInv

-----------------------------------------------------------------------------
(* What recovery computes *)

\* A scan admits the frames up to some point: its count tells which.
LEMMA ScanPrefix ==
  ASSUME NEW img, NEW s
  PROVE  /\ Cardinality(Scanned(img, s)) \in 0 .. Cap
         /\ Scanned(img, s) = 0 .. Cardinality(Scanned(img, s)) - 1
  <1> DEFINE S == Scanned(img, s)
  <1>1. S \subseteq 0 .. Cap - 1  BY CapAssumption DEF Scanned
  <1>2. ASSUME NEW n \in S, NEW k \in 0 .. n PROVE k \in S
    <2>1. k \in Pos /\ 0 .. k \subseteq 0 .. n  BY <1>1, CapAssumption
    <2> QED  BY <2>1 DEF Scanned
  <1>3. PICK m \in 0 .. Cap : S = 0 .. m - 1
    <2>1. CASE S = 0 .. Cap - 1  BY <2>1, CapAssumption
    <2>2. CASE S # 0 .. Cap - 1
      <3> DEFINE T == {n \in 0 .. Cap - 1 : n \notin S}
      <3>1. T \in SUBSET Nat  OBVIOUS
      <3>2. T # {}  BY <1>1, <2>2
      <3>3. PICK m \in T : \A n \in T : m <= n  BY <3>1, <3>2, Least DEF WellOrdered
      <3>4. ASSUME NEW n \in 0 .. m - 1 PROVE n \in S  BY <3>3, CapAssumption
      <3>5. ASSUME NEW n \in S PROVE n \in 0 .. m - 1
        <4>1. ~ (m <= n)  BY <1>1, <1>2, <3>3
        <4> QED  BY <1>1, <3>3, <4>1, CapAssumption
      <3>6. S = 0 .. m - 1  BY <3>4, <3>5
      <3> QED  BY <3>3, <3>6, CapAssumption
    <2> QED  BY <2>1, <2>2
  <1>4. Cardinality(0 .. m - 1) = m  BY FS_Interval, CapAssumption
  <1> QED  BY <1>3, <1>4

\* If there are partitions, one is the newest.
LEMMA Newest ==
  ASSUME MediaInv, Headers # {}
  PROVE  /\ NewestSlot \in Headers
         /\ \A t \in Headers : cache[H(t)].gen <= cache[H(NewestSlot)].gen
  <1>1. ASSUME NEW s \in Headers PROVE cache[H(s)].gen \in 1 .. MaxGen
    <2>1. s \in Slot /\ cache[H(s)].kind = "hdr"  BY DEF Headers, HeaderValid
    <2>2. cache[H(s)] \in Damage \cup HeaderSet
      BY <2>1, Regions, RegionContents DEF MediaInv, Sound
    <2> QED  BY <2>1, <2>2 DEF Damage, Blank, Torn, Blot, HeaderSet
  <1> DEFINE S == {MaxGen - cache[H(s)].gen : s \in Headers}
  <1>2. S \in SUBSET Nat /\ S # {}  BY <1>1, BoundsAssumption
  <1>3. PICK m \in S : \A n \in S : m <= n  BY <1>2, Least DEF WellOrdered
  <1>4. PICK s \in Headers : m = MaxGen - cache[H(s)].gen  BY <1>3
  <1>5. ASSUME NEW t \in Headers PROVE cache[H(t)].gen <= cache[H(s)].gen
    <2>1. m <= MaxGen - cache[H(t)].gen  BY <1>3
    <2> QED  BY <1>1, <1>4, <2>1, BoundsAssumption
  <1>6. \E x \in Headers : \A t \in Headers : cache[H(t)].gen <= cache[H(x)].gen
    BY <1>4, <1>5
  <1> QED  BY <1>6 DEF NewestSlot

-----------------------------------------------------------------------------
(* Every step preserves RInv. *)

LEMMA CreatedPart ==
  ASSUME NEW g \in 0 .. MaxGen, NEW o \in Options \cup {NoContract}
  PROVE  Created(g, o) \in PartSet
  <1>1. <<>> \in Seq([writer : Nat, n : Nat])  OBVIOUS
  <1> QED  BY <1>1 DEF Created, PartSet

LEMMA AbsentPart == Absent \in PartSet /\ Absent.gen = 0 /\ ~ Absent.sealed
  <1>1. 0 \in 0 .. MaxGen  BY BoundsAssumption
  <1> QED  BY <1>1, CreatedPart DEF Absent, Created

LEMMA NothingOpen ==
  /\ [s \in Slot |-> Absent] \in [Slot -> PartSet]
  /\ NoOp \in [kind : OpKinds, arg : Options \cup {NoContract}]
  /\ 0 \in Slot /\ "idle" \in Steps
  /\ <<>> \in Seq(Nat) /\ <<>> \in Seq(Options \cup {NoContract})
  BY AbsentPart, FirstInPlace DEF NoOp, OpKinds, Steps

LEMMA InitRInv == ASSUME Init PROVE RInv
  <1>1. MediaInv
    BY DamageSound DEF Init, StorageInit, MediaInv, Damage
  <1>2. SessionOK
    BY NothingOpen DEF Init, SessionOK
  <1>3. ControlInv  BY DEF Init, ControlInv, Rotating, Sealing, Creating, NoOp
  <1>4. ActiveInv  BY DEF Init, ActiveInv, Sealing, Creating
  <1>5. CatInPlace  BY DEF Init, CatInPlace, Absent, Created
  <1> QED  BY <1>1, <1>2, <1>3, <1>4, <1>5 DEF RInv

\* The end of a session, whatever becomes of the medium.
LEMMA DiscardStep ==
  ASSUME RInv, Discard, MediaInv', UNCHANGED <<writer, contracts>>
  PROVE  RInv'
  <1>1. writer' \in Nat /\ contracts' \in Seq(Options \cup {NoContract})
    BY DEF RInv, SessionOK
  <1>2. SessionOK'
    BY <1>1, NothingOpen DEF Discard, SessionOK
  <1>3. ControlInv'  BY DEF Discard, ControlInv, Rotating, Sealing, Creating, NoOp
  <1>4. ActiveInv'  BY DEF Discard, ActiveInv, Sealing, Creating
  <1>5. CatInPlace'  BY DEF Discard, CatInPlace, Absent, Created
  <1> QED  BY <1>2, <1>3, <1>4, <1>5 DEF RInv

\* A call in progress fails.
LEMMA FailStep ==
  ASSUME RInv, pc # "idle", Fail, MediaInv', UNCHANGED <<writer, contracts>>
  PROVE  RInv'
  <1>1. CASE op.kind = "open"  BY <1>1, DiscardStep DEF Fail
  <1>2. CASE op.kind # "open"
    <2>1. SessionOK'  BY <1>2 DEF RInv, Fail, Goto, SessionOK, NoOp, OpKinds, Steps
    <2>2. ControlInv'
      BY <1>2 DEF RInv, Fail, Goto, ControlInv, NoOp, Rotating, Sealing, Creating
    <2>3. ActiveInv'
      BY <1>2 DEF RInv, Fail, Goto, ControlInv, ActiveInv, Empty, Full, Sealing, Creating
    <2>4. CatInPlace'  BY <1>2 DEF RInv, Fail, CatInPlace
    <2> QED  BY <2>1, <2>2, <2>3, <2>4 DEF RInv
  <1> QED  BY <1>1, <1>2

\* A function on 1 .. n is a sequence.
LEMMA FunctionIsSeq ==
  ASSUME NEW S, NEW n \in Nat, NEW f \in [1 .. n -> S] PROVE f \in Seq(S)
  OBVIOUS

\* What open() recovers is a catalogue.
LEMMA RecoveredParts ==
  ASSUME RInv, NEW s \in Slot
  PROVE  /\ Recovered(s) \in PartSet
         /\ Recovered(s).gen # 0 => InPlace(s, Recovered(s).gen)
         /\ s \in Headers => Recovered(s).gen = cache[H(s)].gen /\ Recovered(s).gen # 0
         /\ s \notin Headers => Recovered(s).gen = 0
         /\ s \in Headers => Recovered(s).sealed = SealValid(cache, s)
  <1>1. CASE s \notin Headers
    BY <1>1, AbsentPart DEF Recovered
  <1>2. CASE s \in Headers
    <2>1. cache[H(s)] \in HeaderSet /\ InPlace(s, cache[H(s)].gen)
      <3>1. cache[H(s)].kind = "hdr"  BY <1>2 DEF Headers, HeaderValid
      <3>2. cache[H(s)] \in Damage \cup HeaderSet
        BY Regions, RegionContents DEF RInv, MediaInv, Sound
      <3>3. InPlace(s, cache[H(s)].gen)
        <4>1. cache[H(s)] \in Sound(H(s))  BY Regions DEF RInv, MediaInv
        <4> QED  BY <3>1, <4>1 DEF Sound, H
      <3> QED  BY <3>1, <3>2, <3>3 DEF Damage, Blank, Torn, Blot
    <2>2. ASSUME NEW k \in 1 .. Cardinality(Scanned(cache, s))
          PROVE  /\ cache[B(s, k - 1)].writer \in Nat
                 /\ Len(cache[B(s, k - 1)].recs) \in Nat
      <3>1. k - 1 \in Scanned(cache, s)  BY ScanPrefix
      <3>2. k - 1 \in Pos /\ k - 1 \in 0 .. k - 1
        BY <3>1, CapAssumption DEF Scanned
      <3>3. cache[B(s, k - 1)].kind = "blk"  BY <3>1, <3>2 DEF Scanned, FrameFollows
      <3>4. cache[B(s, k - 1)] \in Damage \cup BlockSet
        BY <3>2, Regions, RegionContents DEF RInv, MediaInv, Sound
      <3>5. cache[B(s, k - 1)] \in BlockSet
        BY <3>3, <3>4 DEF Damage, Blank, Torn, Blot
      <3> QED  BY <3>5 DEF BlockSet
    <2> DEFINE found == [k \in 1 .. Cardinality(Scanned(cache, s)) |->
                           [writer |-> cache[B(s, k - 1)].writer,
                            n      |-> Len(cache[B(s, k - 1)].recs)]]
    <2>3. found \in Seq([writer : Nat, n : Nat])
      <3>1. Cardinality(Scanned(cache, s)) \in Nat  BY ScanPrefix
      <3>2. found \in [1 .. Cardinality(Scanned(cache, s)) -> [writer : Nat, n : Nat]]
        BY <2>2
      <3> HIDE DEF found
      <3> QED  BY <3>1, <3>2, FunctionIsSeq
    <2>4. <<>> \in Seq([writer : Nat, n : Nat])  OBVIOUS
    <2> DEFINE kept == IF s # NewestSlot \/ SealValid(cache, s) THEN <<>> ELSE found
    <2>5. kept \in Seq([writer : Nat, n : Nat])  BY <2>3, <2>4
    <2>6. Recovered(s) = [gen    |-> cache[H(s)].gen,
                          opts   |-> cache[H(s)].opts,
                          sealed |-> SealValid(cache, s),
                          blocks |-> kept]
      BY <1>2 DEF Recovered
    <2>7. SealValid(cache, s) \in BOOLEAN  BY DEF SealValid
    <2> HIDE DEF kept
    <2> QED  BY <1>2, <2>1, <2>5, <2>6, <2>7, BoundsAssumption DEF HeaderSet, PartSet
  <1> QED  BY <1>1, <1>2

LEMMA OpenContinueStep == ASSUME RInv, OpenContinue PROVE RInv'
  <1>1. NewestSlot \in Headers /\ NewestSlot \in Slot
    BY Newest DEF RInv, OpenContinue, Headers
  <1>2. cat' \in [Slot -> PartSet]  BY RecoveredParts DEF OpenContinue
  <1>3. cat'[act'].gen # 0 /\ ~ cat'[act'].sealed
    BY <1>1, RecoveredParts DEF OpenContinue
  <1>4. pc = "idle" /\ builder = <<>>
    BY DEF RInv, ControlInv, OpenContinue, MayOpen
  <1>5. MediaInv'  BY DEF RInv, OpenContinue, storageVars, MediaInv
  <1>6. SessionOK'  BY <1>1, <1>2 DEF RInv, OpenContinue, history, SessionOK
  <1>7. ControlInv'  BY <1>4 DEF RInv, OpenContinue, ControlInv, Rotating, Sealing, Creating
  <1>8. ActiveInv'  BY <1>3, <1>4 DEF OpenContinue, ActiveInv, Sealing, Creating
  <1>9. CatInPlace'  BY RecoveredParts DEF OpenContinue, CatInPlace
  <1> QED  BY <1>5, <1>6, <1>7, <1>8, <1>9 DEF RInv

LEMMA OpenCreateStep == ASSUME RInv, OpenCreate PROVE RInv'
  <1>1. act' \in Slot  BY Newest, NothingOpen DEF RInv, OpenCreate, Headers
  <1>2. cat' \in [Slot -> PartSet]  BY RecoveredParts DEF OpenCreate
  <1>3. \/ Empty'
        \/ cat'[act'].gen # 0 /\ cat'[act'].gen < MaxGen
    <2>1. CASE Headers = {}  BY <2>1, RecoveredParts DEF OpenCreate, Empty
    <2>2. CASE Headers # {}
      <3>1. NewestSlot \in Headers /\ NewestSlot \in Slot
        BY <2>2, Newest DEF RInv, Headers
      <3> QED  BY <2>2, <3>1, RecoveredParts DEF OpenCreate
    <2> QED  BY <2>1, <2>2
  <1>4. builder = <<>> /\ ~ faulted
    BY DEF RInv, ControlInv, OpenCreate, MayOpen
  <1>5. MediaInv'  BY DEF RInv, OpenCreate, storageVars, MediaInv
  <1>6. SessionOK'
    <2>1. op' \in [kind : OpKinds, arg : Options \cup {NoContract}] /\ pc' \in Steps
      BY DEF OpenCreate, NoOp, OpKinds, Steps
    <2> QED  BY <1>1, <1>2, <2>1 DEF RInv, OpenCreate, history, SessionOK
  <1>7. ControlInv'
    BY <1>4 DEF RInv, OpenCreate, ControlInv, NoOp, CallersOf, Rotating, Sealing, Creating
  <1>8. ActiveInv'
    BY <1>3, <1>4 DEF OpenCreate, ActiveInv, NoOp, Sealing, Creating
  <1>9. CatInPlace'  BY RecoveredParts DEF OpenCreate, CatInPlace
  <1> QED  BY <1>5, <1>6, <1>7, <1>8, <1>9 DEF RInv

\* A call begins: it changes no more than where the session is.
LEMMA BeginStep ==
  ASSUME RInv, Ready, NEW k \in OpKinds, NEW a \in Options \cup {NoContract}, NEW p \in Steps,
         Begin(k, a, p),
         p # "idle" => k \in CallersOf(p), p \notin Sealing \cup Creating,
         k = "rotate" => a \in Options,
         p = "emit" => builder # <<>>, p \in Rotating => builder = <<>>,
         p = "accept" => builder # <<>> \/ ~ Full,
         closed' \in BOOLEAN,
         UNCHANGED <<storageVars, contracts, up, faulted, cat, act, nextOpts, writer, builder,
                     dirty, accepted, durable>>
  PROVE  RInv'
  <1>1. MediaInv'  BY DEF RInv, storageVars, MediaInv
  <1>2. SessionOK'
    <2>1. op' \in [kind : OpKinds, arg : Options \cup {NoContract}] /\ pc' \in Steps
      BY NothingOpen DEF Begin
    <2> QED  BY <2>1 DEF RInv, SessionOK
  <1>3. ControlInv'  BY DEF RInv, Ready, Begin, ControlInv, NoOp
  <1>4. ActiveInv'
    <2>1. /\ UNCHANGED <<up, faulted, cat, act, builder>> /\ pc' = p
          /\ Empty' = Empty /\ Full' = Full
      BY DEF Begin, Empty, Full
    <2>2. op.kind # "open" /\ ~ cat[act].sealed
      BY DEF RInv, Ready, ControlInv, ActiveInv, NoOp, Creating
    <2> QED  BY <2>1, <2>2 DEF RInv, Ready, ActiveInv
  <1>5. CatInPlace'  BY DEF RInv, CatInPlace
  <1> QED  BY <1>1, <1>2, <1>3, <1>4, <1>5 DEF RInv

LEMMA AppendImplStep ==
  ASSUME RInv, NEW c \in Options \cup {NoContract}, AppendImpl(c)
  PROVE  RInv'
  <1> DEFINE room == builder # <<>> \/ ~ Full
             p    == Onward("append", room, dirty)
  <1>1. CASE Begin("append", c, p)
    <2>1. p = IF room THEN "accept" ELSE "rotate"  BY DEF Onward
    <2> HIDE DEF p
    <2> QED
      BY <1>1, <2>1, BeginStep
      DEF RInv, AppendImpl, history, OpKinds, Steps, CallersOf, Rotating, Sealing, Creating,
          SessionOK
  <1>2. CASE builder # <<>> /\ Begin("append", c, "emit")
    BY <1>2, BeginStep
    DEF RInv, AppendImpl, history, OpKinds, Steps, CallersOf, Rotating, Sealing, Creating,
        SessionOK
  <1> QED  BY <1>1, <1>2 DEF AppendImpl

LEMMA PublishStep == ASSUME RInv, Publish PROVE RInv'
  BY BeginStep
  DEF RInv, Publish, history, OpKinds, Steps, CallersOf, Rotating, Sealing, Creating, SessionOK

\* checkpoint() and close() begin alike.
LEMMA FlushingCallStep ==
  ASSUME RInv, Checkpoint \/ Close
  PROVE  RInv'
  <1>1. PICK k \in {"checkpoint", "close"}, p \in Steps :
          /\ p = IF builder # <<>> THEN "emit" ELSE Onward(k, TRUE, dirty)
          /\ Begin(k, NoContract, p)
    BY DEF Checkpoint, Close, Onward, Steps
  <1>2. /\ p \in {"emit", "sync", "idle"} /\ (p = "emit" => builder # <<>>)
    BY <1>1 DEF Onward
  <1>3. closed' \in BOOLEAN  BY DEF RInv, SessionOK, Checkpoint, Close
  <1>4. /\ Ready
        /\ UNCHANGED <<storageVars, contracts, up, faulted, cat, act, nextOpts, writer,
                       builder, dirty, accepted, durable>>
    BY DEF Checkpoint, Close
  <1>5. k \in OpKinds /\ k # "rotate"  BY DEF OpKinds
  <1>6. /\ p # "idle" => k \in CallersOf(p)
        /\ p \notin Rotating /\ p \notin Sealing \cup Creating /\ p # "accept"
    BY <1>2 DEF CallersOf, Rotating, Sealing, Creating
  <1> QED  BY <1>1, <1>2, <1>3, <1>4, <1>5, <1>6, BeginStep

LEMMA RotateStep == ASSUME RInv, NEW o \in Options, Rotate(o) PROVE RInv'
  BY BeginStep
  DEF RInv, Rotate, history, OpKinds, Steps, CallersOf, Rotating, Sealing, Creating, SessionOK

LEMMA SetNextPartitionOptionsStep ==
  ASSUME RInv, NEW o \in Options, SetNextPartitionOptions(o)
  PROVE  RInv'
  <1>1. MediaInv'  BY DEF RInv, SetNextPartitionOptions, storageVars, MediaInv
  <1>2. SessionOK'  BY DEF RInv, SetNextPartitionOptions, history, SessionOK
  <1>3. ControlInv'  BY DEF RInv, SetNextPartitionOptions, ControlInv
  <1>4. ActiveInv'  BY DEF RInv, SetNextPartitionOptions, ActiveInv, Empty, Full
  <1>5. CatInPlace'  BY DEF RInv, SetNextPartitionOptions, CatInPlace
  <1> QED  BY <1>1, <1>2, <1>3, <1>4, <1>5 DEF RInv

LEMMA EmitBuilderStep == ASSUME RInv, EmitBuilder PROVE RInv'
  <1> DEFINE i    == Len(cat[act].blocks)
             prev == IF i = 0 THEN 0 ELSE cat[act].blocks[i].writer
             b    == Block(cat[act].gen, i, prev, writer, builder)
             e    == [writer |-> writer, n |-> Len(builder)]
             p    == Onward(op.kind, i + 1 < Cap, TRUE)
  <1>1. /\ up /\ ~ faulted /\ builder # <<>> /\ ~ Full /\ ~ cat[act].sealed
        /\ op.kind \in {"append", "publish", "checkpoint", "close", "rotate"}
    BY DEF RInv, ControlInv, ActiveInv, EmitBuilder, CallersOf, Sealing, Creating
  <1>2. cat[act].gen \in 1 .. MaxGen /\ cat[act] \in PartSet  BY <1>1, ActiveGen
  <1>3. i \in Pos /\ act \in Slot /\ prev \in Nat
    <2>1. cat[act].blocks \in Seq([writer : Nat, n : Nat])  BY <1>2 DEF PartSet
    <2>2. i \in Nat /\ i < Cap /\ act \in Slot
      BY <1>1, <2>1, CapAssumption DEF RInv, SessionOK, Full
    <2>3. ASSUME i # 0 PROVE cat[act].blocks[i] \in [writer : Nat, n : Nat]
      <3>1. i \in 1 .. Len(cat[act].blocks)  BY <2>2, <2>3
      <3> QED  BY <2>1, <3>1, Element
    <2> QED  BY <2>2, <2>3, CapAssumption
  <1>4. MediaInv'
    <2>1. b \in BlockSet  BY <1>2, <1>3 DEF RInv, SessionOK, Block, BlockSet
    <2>2. B(act, i) \in Region /\ b \in Sound(B(act, i))
      BY <1>3, <2>1, Regions, RegionContents DEF Sound, B
    <2>3. Write(B(act, i), b)  BY DEF EmitBuilder
    <2> QED  BY <2>2, <2>3, WriteSound DEF RInv
  <1>5. cat' = [cat EXCEPT ![act] = [cat[act] EXCEPT !.blocks = Append(cat[act].blocks, e)]]
    BY DEF EmitBuilder
  <1>6. /\ [cat[act] EXCEPT !.blocks = Append(cat[act].blocks, e)] \in PartSet
        /\ Len(Append(cat[act].blocks, e)) = i + 1
    <2>1. e \in [writer : Nat, n : Nat]  BY DEF RInv, SessionOK
    <2>2. cat[act].blocks \in Seq([writer : Nat, n : Nat])  BY <1>2 DEF PartSet
    <2> HIDE DEF e
    <2>3. /\ Append(cat[act].blocks, e) \in Seq([writer : Nat, n : Nat])
          /\ Len(Append(cat[act].blocks, e)) = i + 1
      BY <2>1, <2>2
    <2> QED  BY <1>2, <2>3 DEF PartSet
  <1>7. /\ cat' \in [Slot -> PartSet] /\ cat'[act].gen = cat[act].gen
        /\ ~ cat'[act].sealed /\ Len(cat'[act].blocks) = i + 1
        /\ \A s \in Slot : cat'[s].gen = cat[s].gen
    BY <1>1, <1>2, <1>3, <1>5, <1>6 DEF RInv, SessionOK, PartSet
  <1>8. /\ p \in {"accept", "rotate", "sync", "idle"}
        /\ p # "idle" => op.kind \in CallersOf(p)
        /\ p = "accept" => i + 1 < Cap
    BY <1>1 DEF Onward, CallersOf, Sealing, Creating
  <1>9. pc' = p /\ op' = (IF p = "idle" THEN NoOp ELSE op) /\ builder' = <<>>
    BY DEF EmitBuilder, Goto
  <1> HIDE DEF p, i, prev, b, e
  <1>10. SessionOK'
    BY <1>7, <1>8, <1>9, NothingOpen
    DEF RInv, SessionOK, EmitBuilder, history, Steps
  <1>11. ControlInv'
    BY <1>1, <1>8, <1>9 DEF RInv, EmitBuilder, ControlInv, NoOp
  <1>12. ActiveInv'
    <2>1. cat'[act'].gen # 0 /\ ~ cat'[act'].sealed  BY <1>2, <1>7 DEF EmitBuilder
    <2>2. pc' = "accept" => ~ Full'
      BY <1>3, <1>7, <1>8, <1>9, CapAssumption DEF EmitBuilder, Full
    <2> QED  BY <1>8, <1>9, <2>1, <2>2 DEF ActiveInv, Sealing, Creating
  <1>13. CatInPlace'  BY <1>7 DEF RInv, CatInPlace
  <1> QED  BY <1>4, <1>10, <1>11, <1>12, <1>13 DEF RInv

\* A step that moves on and leaves the catalogue and the builder alone.
LEMMA MoveStep ==
  ASSUME RInv, pc # "idle", NEW p \in Steps, Goto(p), MediaInv',
         p # "idle" => op.kind \in CallersOf(p), p # "emit", p # "accept",
         op.kind = "open" => p # "idle",
         p \in Rotating => builder = <<>>,
         p \in Sealing \cup Creating => Empty \/ cat[act].gen < MaxGen,
         cat[act].sealed => p \in Creating,
         nextOpts' \in Options,
         closed' \in BOOLEAN, dirty' \in BOOLEAN, durable' \in Nat,
         UNCHANGED <<contracts, up, faulted, cat, act, writer, builder, accepted>>
  PROVE  RInv'
  <1>1. SessionOK'
    <2>1. op' \in [kind : OpKinds, arg : Options \cup {NoContract}] /\ pc' \in Steps
      BY NothingOpen DEF RInv, SessionOK, Goto
    <2> QED  BY <2>1 DEF RInv, SessionOK
  <1>2. ControlInv'  BY DEF RInv, Goto, ControlInv, NoOp
  <1>3. ActiveInv'  BY DEF RInv, Goto, ActiveInv, Empty, Full, NoOp
  <1>4. CatInPlace'  BY DEF RInv, CatInPlace
  <1> QED  BY <1>1, <1>2, <1>3, <1>4 DEF RInv

LEMMA SyncMediaStep == ASSUME RInv, SyncMedia PROVE RInv'
  <1>1. MediaInv'  BY FlushSound DEF RInv, SyncMedia
  <1>2. op.kind \in {"checkpoint", "close"} /\ up /\ ~ faulted /\ nextOpts \in Options
    BY DEF RInv, ControlInv, SyncMedia, CallersOf, Sealing, Creating
  <1>3. ~ cat[act].sealed  BY <1>2 DEF RInv, ActiveInv, SyncMedia, Creating
  <1>4. closed' \in BOOLEAN /\ durable' \in Nat
    BY DEF RInv, SessionOK, SyncMedia, ClaimDurable
  <1> QED
    BY <1>1, <1>2, <1>3, <1>4, MoveStep
    DEF SyncMedia, Steps, Rotating, Sealing, Creating

LEMMA RotateInternalStep == ASSUME RInv, RotateInternal PROVE RInv'
  <1> DEFINE p == IF dirty THEN "sealSync"
                  ELSE IF cat[act].blocks # <<>> THEN "index" ELSE "footer"
  <1>1. MediaInv'  BY DEF RInv, RotateInternal, storageVars, MediaInv
  <1>2. p \in Sealing /\ p \in Steps /\ p \notin {"idle", "emit", "accept"}
    BY DEF Sealing, Steps
  <1>3. op.kind \in CallersOf(p)  BY <1>2, AtSealing DEF RotateInternal, CallersOf, Sealing
  <1>4. nextOpts' \in Options
    BY AtSealing DEF RInv, ControlInv, RotateInternal
  <1>5. Goto(p)  BY DEF RotateInternal
  <1> HIDE DEF p
  <1> QED
    BY <1>1, <1>2, <1>3, <1>4, <1>5, MoveStep, AtSealing
    DEF RInv, SessionOK, RotateInternal, history

LEMMA SealSyncStep == ASSUME RInv, SealSync PROVE RInv'
  <1>1. MediaInv'  BY FlushSound DEF RInv, SealSync
  <1>2. durable' \in Nat  BY DEF RInv, SessionOK, SealSync, ClaimDurable
  <1>3. Empty \/ cat[act].gen < MaxGen  BY DEF RInv, ActiveInv, SealSync, Sealing
  <1> QED
    BY <1>1, <1>2, <1>3, MoveStep, AtSealing
    DEF RInv, SessionOK, SealSync, Steps, CallersOf, Sealing

\* A structure written in its own region is sound; only a header could fail to.
LEMMA StructureSound ==
  ASSUME NEW s \in Slot
  PROVE  /\ IndexSet \subseteq Sound(I(s)) /\ FooterSet \subseteq Sound(F(s))
         /\ \A h \in HeaderSet : InPlace(s, h.gen) => h \in Sound(H(s))
  <1>1. IndexSet \subseteq Sound(I(s))  BY RegionContents DEF Sound, I
  <1>2. FooterSet \subseteq Sound(F(s))  BY RegionContents DEF Sound, F
  <1>3. \A h \in HeaderSet : InPlace(s, h.gen) => h \in Sound(H(s))
    BY RegionContents DEF Sound, H
  <1> QED  BY <1>1, <1>2, <1>3

\* The sizes of the blocks of a partition, as an index lists them.
LEMMA SizesTyped ==
  ASSUME NEW part \in PartSet
  PROVE  BlockSizes(part.blocks) \in Seq(Nat)
  <1>1. part.blocks \in Seq([writer : Nat, n : Nat])  BY DEF PartSet
  <1>2. Len(part.blocks) \in Nat  BY <1>1
  <1>3. ASSUME NEW k \in 1 .. Len(part.blocks) PROVE part.blocks[k].n \in Nat
    <2>1. part.blocks[k] \in [writer : Nat, n : Nat]  BY <1>1, Element
    <2> QED  BY <2>1
  <1>4. BlockSizes(part.blocks) \in [1 .. Len(part.blocks) -> Nat]
    BY <1>3 DEF BlockSizes
  <1> QED  BY <1>2, <1>4

LEMMA WriteIndexStep == ASSUME RInv, WriteIndex PROVE RInv'
  <1>1. Index(BlockSizes(cat[act].blocks)) \in IndexSet
    BY SizesTyped, AtSealing DEF WriteIndex, Sealing, Index, IndexSet
  <1>2. MediaInv'
    BY <1>1, AtSealing, Regions, StructureSound, WriteSound DEF RInv, WriteIndex, Sealing
  <1>3. Empty \/ cat[act].gen < MaxGen  BY DEF RInv, ActiveInv, WriteIndex, Sealing
  <1> QED
    BY <1>2, <1>3, MoveStep, AtSealing
    DEF RInv, SessionOK, WriteIndex, history, Steps, CallersOf, Sealing

LEMMA WriteFooterStep == ASSUME RInv, WriteFooter PROVE RInv'
  <1>1. Footer(cat[act].gen, BlockSizes(cat[act].blocks)) \in FooterSet
    BY SizesTyped, AtSealing DEF WriteFooter, Sealing, Footer, FooterSet
  <1>2. MediaInv'
    BY <1>1, AtSealing, Regions, StructureSound, WriteSound DEF RInv, WriteFooter, Sealing
  <1>3. Empty \/ cat[act].gen < MaxGen  BY DEF RInv, ActiveInv, WriteFooter, Sealing
  <1> QED
    BY <1>2, <1>3, MoveStep, AtSealing
    DEF RInv, SessionOK, WriteFooter, history, Steps, CallersOf, Sealing

LEMMA FooterSyncStep == ASSUME RInv, FooterSync PROVE RInv'
  <1>1. MediaInv'  BY FlushSound DEF RInv, FooterSync
  <1>2. /\ up /\ ~ faulted /\ op.kind \in {"append", "rotate"} /\ builder = <<>>
        /\ act \in Slot /\ cat[act] \in PartSet /\ cat[act].gen \in 1 .. MaxGen
    BY AtSealing DEF FooterSync, Sealing
  <1>3. cat[act].gen < MaxGen  BY AtSealing DEF RInv, ActiveInv, FooterSync, Sealing
  <1>4. /\ cat' \in [Slot -> PartSet]
        /\ \A s \in Slot : cat'[s].gen = cat[s].gen
    BY <1>2 DEF RInv, SessionOK, FooterSync, PartSet
  <1>5. pc' = "header" /\ op' = op  BY DEF FooterSync, Goto
  <1>6. SessionOK'  BY <1>4, <1>5 DEF RInv, SessionOK, FooterSync, history, Steps
  <1>7. ControlInv'
    BY <1>2, <1>5 DEF RInv, ControlInv, FooterSync, CallersOf, Rotating, Sealing, Creating
  <1>8. ActiveInv'
    BY <1>2, <1>3, <1>4, <1>5 DEF ActiveInv, FooterSync, Creating
  <1>9. CatInPlace'  BY <1>4 DEF RInv, CatInPlace
  <1> QED  BY <1>1, <1>6, <1>7, <1>8, <1>9 DEF RInv

LEMMA WriteHeaderStep == ASSUME RInv, WriteHeader PROVE RInv'
  <1>1. Header(TargetGen, nextOpts) \in HeaderSet /\ pc \in Creating
    BY AtCreating DEF WriteHeader, Creating, Header, HeaderSet
  <1>2. Header(TargetGen, nextOpts).gen = TargetGen  BY DEF Header
  <1>3. MediaInv'
    BY <1>1, <1>2, AtCreating, Regions, StructureSound, WriteSound DEF RInv, WriteHeader
  <1>4. Empty \/ cat[act].gen < MaxGen  BY <1>1 DEF RInv, ActiveInv
  <1> QED
    BY <1>1, <1>3, <1>4, MoveStep, AtCreating
    DEF RInv, SessionOK, WriteHeader, Steps, CallersOf, Sealing, Creating

LEMMA HeaderSyncStep == ASSUME RInv, HeaderSync PROVE RInv'
  <1> DEFINE new == Created(TargetGen, nextOpts)
             p   == IF op.kind = "append" THEN "accept" ELSE "idle"
  <1>1. pc \in Creating  BY DEF HeaderSync, Creating
  <1>2. MediaInv'  BY FlushSound DEF RInv, HeaderSync
  <1>3. /\ new \in PartSet /\ new.gen = TargetGen /\ ~ new.sealed /\ new.blocks = <<>>
    <2>1. TargetGen \in 0 .. MaxGen /\ nextOpts \in Options  BY <1>1, AtCreating
    <2> QED  BY <2>1, CreatedPart DEF Created
  <1>4. cat' = [cat EXCEPT ![TargetSlot] = new] /\ act' = TargetSlot
    BY DEF HeaderSync
  <1>5. pc' = p /\ op' = (IF p = "idle" THEN NoOp ELSE op)  BY DEF HeaderSync, Goto
  <1> HIDE DEF new
  <1>6. /\ cat' \in [Slot -> PartSet] /\ cat'[act'] = new
        /\ \A s \in Slot : s # TargetSlot => cat'[s] = cat[s]
    BY <1>1, <1>3, <1>4, AtCreating DEF RInv, SessionOK
  <1>7. SessionOK'
    BY <1>1, <1>4, <1>5, <1>6, NothingOpen, AtCreating
    DEF RInv, SessionOK, HeaderSync, history, Steps
  <1>8. ControlInv'
    BY <1>1, <1>5, AtCreating
    DEF RInv, ControlInv, HeaderSync, NoOp, CallersOf, Rotating, Sealing, Creating
  <1>9. ActiveInv'
    <2>1. cat'[act'].gen # 0 /\ ~ cat'[act'].sealed  BY <1>1, <1>3, <1>6, AtCreating
    <2>2. ~ Full'  BY <1>3, <1>6, CapAssumption DEF Full
    <2> QED  BY <1>5, <2>1, <2>2 DEF ActiveInv, Sealing, Creating
  <1>10. CatInPlace'
    BY <1>1, <1>3, <1>4, <1>6, AtCreating DEF RInv, CatInPlace
  <1> QED  BY <1>2, <1>7, <1>8, <1>9, <1>10 DEF RInv

LEMMA AcceptRecordStep == ASSUME RInv, AcceptRecord PROVE RInv'
  <1> DEFINE r == Len(contracts) + 1
  <1>1. up /\ ~ faulted /\ op.kind = "append"
    BY DEF RInv, ControlInv, AcceptRecord, CallersOf, Sealing, Creating
  <1>2. /\ builder' = Append(builder, r) /\ accepted' = Append(accepted, r)
        /\ contracts' = Append(contracts, op.arg)
    BY DEF AcceptRecord
  <1>3. /\ builder' \in Seq(Nat) /\ accepted' \in Seq(Nat)
        /\ contracts' \in Seq(Options \cup {NoContract})
    <2>1. r \in Nat  BY DEF RInv, SessionOK
    <2> HIDE DEF r
    <2> QED  BY <1>2, <2>1 DEF RInv, SessionOK
  <1>4. pc' = "idle" /\ op' = NoOp  BY DEF AcceptRecord, Goto
  <1>5. MediaInv'  BY DEF RInv, AcceptRecord, storageVars, MediaInv
  <1>6. SessionOK'  BY <1>3, <1>4, NothingOpen DEF RInv, SessionOK, AcceptRecord
  <1>7. ControlInv'
    BY <1>1, <1>4 DEF RInv, ControlInv, AcceptRecord, NoOp, Rotating, Sealing, Creating
  <1>8. ActiveInv'
    BY <1>1, <1>4 DEF RInv, ActiveInv, AcceptRecord, Empty, Full, Sealing, Creating
  <1>9. CatInPlace'  BY DEF RInv, AcceptRecord, CatInPlace
  <1> QED  BY <1>5, <1>6, <1>7, <1>8, <1>9 DEF RInv

LEMMA RejectRecordStep == ASSUME RInv, RejectRecord PROVE RInv'
  <1>1. MediaInv'  BY DEF RInv, RejectRecord, storageVars, MediaInv
  <1>2. up /\ ~ faulted /\ op.kind = "append" /\ nextOpts \in Options
    BY DEF RInv, ControlInv, RejectRecord, CallersOf, Sealing, Creating
  <1>3. ~ cat[act].sealed  BY <1>2 DEF RInv, ActiveInv, RejectRecord, Creating
  <1> QED
    BY <1>1, <1>2, <1>3, MoveStep
    DEF RInv, SessionOK, RejectRecord, history, Steps, Rotating, Sealing, Creating

LEMMA WriteFailsStep == ASSUME RInv, WriteFails PROVE RInv'
  <1>1. Target \in Region
    <2>1. CASE pc = "emit"
      <3>1. up /\ op.kind # "open" /\ builder # <<>> /\ ~ Full /\ act \in Slot
        BY <2>1 DEF RInv, SessionOK, ControlInv, ActiveInv, CallersOf, Sealing, Creating
      <3>2. cat[act].blocks \in Seq([writer : Nat, n : Nat])
        BY <3>1, ActiveGen DEF PartSet
      <3>3. Len(cat[act].blocks) \in Pos  BY <3>1, <3>2, CapAssumption DEF Full
      <3> QED  BY <2>1, <3>1, <3>3, Regions DEF Target
    <2>2. CASE pc \in {"index", "footer"}
      BY <2>2, AtSealing, Regions DEF Target, Sealing
    <2>3. CASE pc = "header"  BY <2>3, AtCreating, Regions DEF Target, Creating
    <2> QED  BY <2>1, <2>2, <2>3 DEF WriteFails
  <1>2. MediaInv'  BY <1>1, WriteErrorSound DEF RInv, WriteFails
  <1> QED  BY <1>2, FailStep DEF WriteFails

LEMMA NextRInv == ASSUME RInv, [Next]_vars PROVE RInv'
  <1>1. CASE UNCHANGED vars
    <2>1. UNCHANGED <<storageVars, sessionVars, writer, contracts>>
      BY <1>1 DEF vars, history
    <2>2. MediaInv'  BY <2>1 DEF storageVars, RInv, MediaInv
    <2>3. SessionOK'  BY <2>1 DEF sessionVars, RInv, SessionOK
    <2>4. ControlInv'  BY <2>1 DEF sessionVars, RInv, ControlInv
    <2>5. ActiveInv'  BY <2>1 DEF sessionVars, RInv, ActiveInv, Empty, Full
    <2>6. CatInPlace'  BY <2>1 DEF sessionVars, RInv, CatInPlace
    <2> QED  BY <2>2, <2>3, <2>4, <2>5, <2>6 DEF RInv
  <1>2. CASE Call
    BY <1>2, AppendImplStep, PublishStep, FlushingCallStep, RotateStep,
       SetNextPartitionOptionsStep
    DEF Call
  <1>3. CASE GenerationExhausted
    <2>1. MediaInv'  BY <1>3 DEF RInv, GenerationExhausted, storageVars, MediaInv
    <2> QED  BY <1>3, <2>1, FailStep DEF GenerationExhausted, history
  <1>4. CASE FlushFails
    <2>1. MediaInv'  BY <1>4 DEF RInv, FlushFails, FlushError, storageVars, MediaInv
    <2> QED  BY <1>4, <2>1, FailStep DEF FlushFails, history
  <1>5. CASE Step
    BY <1>3, <1>4, <1>5, EmitBuilderStep, SyncMediaStep, RotateInternalStep, SealSyncStep,
       WriteIndexStep, WriteFooterStep, FooterSyncStep, WriteHeaderStep, HeaderSyncStep,
       AcceptRecordStep, RejectRecordStep, WriteFailsStep
    DEF Step
  <1>6. CASE Drop
    <2>1. MediaInv'  BY <1>6 DEF RInv, Drop, storageVars, MediaInv
    <2> QED  BY <1>6, <2>1, DiscardStep DEF Drop, history
  <1>7. CASE PowerCut
    BY <1>7, PowerLossSound, DiscardStep DEF RInv, PowerCut, history
  <1> QED
    BY <1>1, <1>2, <1>5, <1>6, <1>7, OpenContinueStep, OpenCreateStep DEF Next

-----------------------------------------------------------------------------
(***************************************************************************)
(* RInv is an invariant, and inductive.                                    *)
(***************************************************************************)
THEOREM RingInductive == Spec => []RInv
  <1>1. Init => RInv  BY InitRInv
  <1>2. RInv /\ [Next]_vars => RInv'  BY NextRInv
  <1> QED  BY <1>1, <1>2, PTL DEF Spec

(***************************************************************************)
(* The type invariant: whatever faults, power cuts and restarts occur,     *)
(* every region of the medium holds a structure of its own kind or damage, *)
(* and no generation exceeds the largest.                                  *)
(***************************************************************************)
THEOREM RingTypeCorrect == Spec => []TypeOK
  <1>1. RInv => TypeOK  BY DEF RInv, MediaInv, Sound, TypeOK, StorageOK
  <1> QED  BY <1>1, RingInductive, PTL

(***************************************************************************)
(* create_partition puts each generation in the slot the rotation order    *)
(* gives it, also after damaged and lost headers: two slots never carry    *)
(* one generation, which open() would refuse.                              *)
(***************************************************************************)
THEOREM GenerationOrder == Spec => []GenerationsInPlace
  <1>1. RInv => GenerationsInPlace
    <2> SUFFICES ASSUME RInv, NEW s \in Slot
                 PROVE  /\ \A v \in {cache[H(s)], disk[H(s)]} \cup pending[H(s)] :
                             v.kind = "hdr" => InPlace(s, v.gen)
                        /\ cat[s].gen # 0 => InPlace(s, cat[s].gen)
      BY DEF GenerationsInPlace
    <2>1. {cache[H(s)], disk[H(s)]} \cup pending[H(s)] \subseteq Sound(H(s))
      BY Regions DEF RInv, MediaInv
    <2>2. \A v \in Sound(H(s)) : v.kind = "hdr" => InPlace(s, v.gen)  BY DEF Sound, H
    <2> QED  BY <2>1, <2>2 DEF RInv, CatInPlace
  <1> QED  BY <1>1, RingInductive, PTL

(***************************************************************************)
(* ensure_empty_builder_capacity keeps its promise: a block under          *)
(* construction always fits in the active partition, which is not sealed.  *)
(***************************************************************************)
THEOREM RoomForTheBlock == Spec => []CapacityReserved
  <1>1. RInv => CapacityReserved  BY DEF RInv, ActiveInv, CapacityReserved
  <1> QED  BY <1>1, RingInductive, PTL

=============================================================================
