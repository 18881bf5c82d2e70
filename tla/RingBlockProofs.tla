-------------------------- MODULE RingBlockProofs ---------------------------
(***************************************************************************)
(* The steps of RingStore that emit a block preserve PInv.                 *)
(***************************************************************************)
EXTENDS RingSessionProofs

-----------------------------------------------------------------------------
(* What the block makes of the records *)

\* What the emitted frame makes of the headers and frames that are read back.
LEMMA EmittedFrames ==
  ASSUME MediaInv, NEW a \in Slot, NEW n \in Pos, NEW v, Write(B(a, n), v),
         HeaderValid(cache, a), Scanned(cache, a) = 0 .. n - 1, Scanned(cache', a) = 0 .. n
  PROVE  /\ disk' = disk /\ cache'[B(a, n)] = v
         /\ \A s \in Slot : cache'[H(s)] = cache[H(s)] /\ pending'[H(s)] = pending[H(s)]
         /\ Frames(cache', a) = 0 .. n
         /\ \A s \in Slot : \A i \in Frames(cache, s) :
              i \in Frames(cache', s) /\ cache'[B(s, i)] = cache[B(s, i)]
         /\ \A s \in Slot : \A i \in Frames(cache', s) :
              (s = a /\ i = n) \/ i \in Frames(cache, s)
  <1>1. B(a, n) \in Region /\ B(a, n)[2] = a /\ n \in Nat  BY Regions, CapAssumption DEF B
  <1>2. /\ disk' = disk /\ cache'[B(a, n)] = v
        /\ \A q \in Region \ {B(a, n)} : cache'[q] = cache[q] /\ pending'[q] = pending[q]
    BY <1>1, WriteEffect
  <1>3. \A s \in Slot : /\ H(s) \in Region \ {B(a, n)}
                        /\ \A i \in Pos : (s # a \/ i # n) => B(s, i) \in Region \ {B(a, n)}
    BY Regions, Apart
  <1>4. \A s \in Slot : cache'[H(s)] = cache[H(s)] /\ pending'[H(s)] = pending[H(s)]
    BY <1>2, <1>3
  <1>5. \A s \in Slot, i \in Pos : (s # a \/ i # n) => cache'[B(s, i)] = cache[B(s, i)]
    BY <1>2, <1>3
  <1>6. \A s \in Slot \ {a} : Scanned(cache', s) = Scanned(cache, s)  BY <1>1, OtherSlots
  <1>7. /\ \A s \in Slot \ {a} : Frames(cache', s) = Frames(cache, s)
        /\ Frames(cache', a) = 0 .. n /\ Frames(cache, a) = 0 .. n - 1
    BY <1>4, <1>6 DEF Frames, HeaderValid
  <1>8. \A s \in Slot : Frames(cache, s) \subseteq Pos  BY DEF Frames, Scanned
  <1>9. ASSUME NEW s \in Slot, NEW i \in Frames(cache, s)
        PROVE  i \in Frames(cache', s) /\ cache'[B(s, i)] = cache[B(s, i)]
    <2>1. s = a => i \in 0 .. n - 1  BY <1>7
    <2>2. i \in Frames(cache', s) /\ (s # a \/ i # n)  BY <1>1, <1>7, <2>1
    <2> QED  BY <1>5, <1>8, <2>2
  <1>10. ASSUME NEW s \in Slot, NEW i \in Frames(cache', s)
         PROVE  (s = a /\ i = n) \/ i \in Frames(cache, s)
    BY <1>1, <1>7
  <1> QED  BY <1>2, <1>4, <1>7, <1>9, <1>10

\* Frame n of the newest partition, a, is new and comes last, and its records
\* after all others.
ComesLast(a, n) ==
  /\ Frames(cache', a) = 0 .. n
  /\ \A s \in Slot :
       /\ cache'[H(s)] = cache[H(s)]
       /\ HeaderValid(cache, s) => cache[H(s)].gen <= cache[H(a)].gen
       /\ \A i \in Frames(cache, s) : cache'[B(s, i)] = cache[B(s, i)]
       /\ \A i \in Frames(cache', s) : (s = a /\ i = n) \/ i \in Frames(cache, s)
  /\ \A x \in Stored(cache), y \in RecsOf(cache'[B(a, n)].recs) : x < y

\* Such a frame keeps the records in order.
LEMMA EmittedLast ==
  ASSUME MediaInv, NEW a \in Slot, NEW n \in Nat, Ordered(cache), ComesLast(a, n)
  PROVE  Ordered(cache')
  <1> USE DEF ComesLast
  <1> SUFFICES ASSUME NEW s \in Slot, NEW t \in Slot,
                      NEW i \in Frames(cache', s), NEW j \in Frames(cache', t),
                      cache'[H(s)].gen < cache'[H(t)].gen \/ (s = t /\ i < j),
                      NEW x \in RecsOf(cache'[B(s, i)].recs),
                      NEW y \in RecsOf(cache'[B(t, j)].recs)
               PROVE  x < y
    BY DEF Ordered
  <1>1. CASE s = a /\ i = n
    <2>1. HeaderValid(cache, t) /\ HeaderValid(cache, a)
      BY <1>1 DEF Frames, HeaderValid
    <2>2. cache[H(t)].gen \in Nat /\ cache[H(a)].gen \in Nat
      BY <2>1, HeadValues, BoundsAssumption DEF HeaderValid
    <2>3. cache[H(t)].gen <= cache[H(a)].gen  BY <2>1
    <2>4. s = t /\ i < j  BY <1>1, <2>2, <2>3
    <2>5. j \in 0 .. n  BY <1>1, <2>4
    <2> QED  BY <1>1, <2>4, <2>5
  <1>2. CASE i \in Frames(cache, s) /\ t = a /\ j = n
    <2>1. x \in Stored(cache)  BY <1>2 DEF Stored, Recs
    <2> QED  BY <1>2, <2>1
  <1>3. CASE i \in Frames(cache, s) /\ j \in Frames(cache, t)
    <2>1. x \in RecsOf(cache[B(s, i)].recs) /\ y \in RecsOf(cache[B(t, j)].recs)  BY <1>3
    <2> QED  BY <1>3, <2>1 DEF Ordered
  <1> QED  BY <1>1, <1>2, <1>3

-----------------------------------------------------------------------------
(* What the block makes of the medium *)

LEMMA BlockWritten ==
  ASSUME WellOrdered, MediaInv, MediumInv, NEW a \in Slot, NEW n \in Pos, NEW v, Write(B(a, n), v),
         writer \in Nat, UNCHANGED <<writer, contracts>>, BlockDue(a, n, v)
  PROVE  MediumInv'
  <1> B(a, n) \in Region /\ B(a, n)[2] = a  BY Regions DEF B
  <1> /\ disk' = disk /\ cache'[B(a, n)] = v /\ pending'[B(a, n)] = pending[B(a, n)] \cup {v}
      /\ \A q \in Region \ {B(a, n)} : cache'[q] = cache[q] /\ pending'[q] = pending[q]
    BY WriteEffect
  <1>3. /\ cache'[H(a)] = cache[H(a)] /\ pending'[H(a)] = pending[H(a)]
        /\ pending'[I(a)] = pending[I(a)] /\ pending'[F(a)] = pending[F(a)]
        /\ \A i \in Pos : i # n => /\ cache'[B(a, i)] = cache[B(a, i)]
                                   /\ pending'[B(a, i)] = pending[B(a, i)]
    BY Regions, Apart
  <1>4. HeadQuiet(a)' /\ SealQuiet(a)' /\ Unsealed(a)'
    BY <1>3, SameDisk DEF HeadQuiet, SealQuiet, BlockDue
  <1>5. /\ n \in Nat /\ Used(a) /\ HeadQuiet(a) /\ cache[H(a)] = disk[H(a)]
        /\ Scanned(cache, a) = 0 .. n - 1
    BY Regions, CapAssumption DEF MediumInv, CacheInv, HeadQuiet, Unsealed, BlockDue
  <1>6. \A t \in Slot \ {a} : Quiet(t)'  BY OtherSlots DEF BlockDue
  <1>7. CacheInv'  BY WriteCache DEF MediumInv
  <1>8. StageInv'
    BY <1>4, <1>6 DEF StageInv, Quiet
  <1>9. ComingInv'
    <2>1. \A s \in Slot : pending'[H(s)] = {}  BY <1>4, <1>6 DEF Quiet, HeadQuiet
    <2> QED  BY <2>1 DEF ComingInv
  <1>10. StampInv'
    <2>1. \A s \in Slot : Vals(F(s))' = Vals(F(s))
      BY <1>3, OtherSlots DEF Vals
    <2>2. \A s \in Slot : \A i \in Pos : B(s, i) # B(a, n) => Vals(B(s, i))' = Vals(B(s, i))
      BY Regions DEF Vals
    <2>3. Vals(B(a, n))' = Vals(B(a, n)) \cup {v}  BY DEF Vals
    <2>4. v.kind = "blk" => /\ ~ Unused(a) /\ v.gen <= disk[H(a)].gen
                            /\ v.prev <= v.writer /\ v.writer <= writer
                            /\ RecsOf(v.recs) \subseteq 1 .. Len(contracts)
      <3> HAVE v.kind = "blk"
      <3>1. v.writer = writer /\ Follows(cache, v, a, n) /\ v.prev <= writer
            /\ RecsOf(v.recs) \subseteq 1 .. Len(contracts)
        BY DEF Torn, BlockDue
      <3>2. v.gen = disk[H(a)].gen /\ disk[H(a)].gen \in 1 .. MaxGen
        BY <1>5, <3>1, HeadValues DEF Follows, Vals, Used, HeaderValid
      <3>3. writer <= writer  OBVIOUS
      <3> QED  BY <1>5, <3>1, <3>2, <3>3, BoundsAssumption DEF Used, Unused, HeaderValid
    <2>5. \A s \in Slot : \A i \in Pos : \A w \in Vals(B(s, i))' : w.kind = "blk" =>
            /\ ~ Unused(s) /\ (Used(s) => w.gen <= disk[H(s)].gen)
            /\ w.prev <= w.writer /\ w.writer <= writer
            /\ RecsOf(w.recs) \subseteq 1 .. Len(contracts)
      BY <2>2, <2>3, <2>4, Apart DEF MediumInv, StampInv
    <2> QED  BY <2>1, <2>5, SameDisk DEF MediumInv, StampInv
  <1>11. FrameInv'
    <2> SUFFICES ASSUME NEW s \in Slot, Used(s), NEW i \in Pos, HeadQuiet(s)'
                 PROVE  /\ i \in Scanned(disk, s) => pending'[B(s, i)] = {}
                        /\ (i = 0 \/ i - 1 \in Scanned(cache', s)) =>
                             \A w \in Vals(B(s, i))' :
                               w = cache'[B(s, i)] \/ ~ Follows(cache', w, s, i)
      BY SameDisk DEF FrameInv
    <2>1. CASE s # a
      <3>1. pending'[B(s, i)] = {} /\ cache'[B(s, i)] = disk'[B(s, i)]
        BY <1>6, <1>7, <2>1, Regions DEF Quiet, BlocksQuiet, CacheInv
      <3> QED  BY <3>1 DEF Vals
    <2>2. CASE s = a
      <3> i \in Nat  BY CapAssumption
      <3>2. n \notin Scanned(cache, a) /\ n \notin Scanned(disk, a)
        <4>1. n \notin Scanned(cache, a)  BY <1>5
        <4> QED  BY <1>5, <4>1, DiskPossible, ImageScan DEF MediumInv
      <3>3. i \in Scanned(disk, a) => pending'[B(a, i)] = {}
        BY <1>3, <1>5, <3>2 DEF MediumInv, FrameInv
      <3>4. ASSUME i = 0 \/ i - 1 \in Scanned(cache', a), NEW w \in Vals(B(a, i))'
            PROVE  w = cache'[B(a, i)] \/ ~ Follows(cache', w, a, i)
        <4>1. Scanned(cache', a) = IF v = Torn THEN 0 .. n - 1 ELSE 0 .. n
          BY <1>5, BlockScan
        <4>2. CASE i < n
          <5>1. w \in Vals(B(a, i))  BY <1>3, <3>4, <4>2 DEF Vals
          <5>2. i = 0 \/ i - 1 \in Scanned(cache, a)  BY <1>5, <4>2
          <5>3. w = cache[B(a, i)] \/ ~ Follows(cache, w, a, i)
            BY <1>5, <5>1, <5>2 DEF MediumInv, FrameInv
          <5>4. i # 0 => i - 1 \in Pos /\ i - 1 # n  BY <1>5, <4>2, CapAssumption
          <5> QED  BY <1>3, <1>5, <4>2, <5>3, <5>4 DEF Follows
        <4>3. CASE i = n
          <5>1. w = v \/ w \in Vals(B(a, n))  BY <3>4, <4>3 DEF Vals
          <5> n = 0 \/ n - 1 \in Scanned(cache, a)  BY <1>5
          <5>3. ASSUME w \in Vals(B(a, n)) PROVE ~ Follows(cache, w, a, n)
            <6>1. w = cache[B(a, n)] \/ ~ Follows(cache, w, a, n)
              BY <1>5, <5>3 DEF MediumInv, FrameInv
            <6>2. ~ FrameFollows(cache, a, n)  BY <3>2, ScanStep
            <6>3. n # 0 => cache[B(a, n - 1)].kind = "blk"  BY ScanFrames
            <6> QED  BY <6>1, <6>2, <6>3 DEF Follows, FrameFollows
          <5>4. n # 0 => n - 1 \in Pos /\ n - 1 # n  BY <1>5, CapAssumption
          <5> QED  BY <1>3, <4>3, <5>1, <5>3, <5>4 DEF Follows
        <4>4. CASE i > n
          <5>1. v # Torn /\ i = n + 1  BY <1>5, <3>4, <4>1, <4>4
          <5>2. w \in Vals(B(a, i))  BY <1>3, <1>5, <3>4, <5>1 DEF Vals
          <5> QED  BY <1>5, <5>1, <5>2, BlockScan
        <4> QED  BY <1>5, <4>2, <4>3, <4>4
      <3> QED  BY <2>2, <3>3, <3>4
    <2> QED  BY <2>1, <2>2
  <1>12. SealInv'
    <2>1. \A s \in Slot : Vals(F(s))' = Vals(F(s))
      BY <1>3, OtherSlots DEF Vals
    <2> QED  BY <2>1, SameDisk DEF MediumInv, SealInv
  <1> QED
    BY <1>7, <1>8, <1>9, <1>10, <1>11, <1>12, SameDisk DEF MediumInv

-----------------------------------------------------------------------------
(* Emitting a block *)

LEMMA AtEmit ==
  ASSUME RInv, PInv, pc = "emit", NEW a, a = act, NEW n, n = Len(cat[act].blocks)
  PROVE  /\ a \in Slot /\ n \in Pos /\ up /\ ~ faulted /\ writer \in Nat /\ op.kind # "open"
         /\ MediaInv /\ MediumInv /\ CacheInv /\ RecordInv
         /\ \A s \in Slot : /\ HeadQuiet(s) /\ SealQuiet(s) /\ cache[H(s)] = disk[H(s)]
                            /\ s # a => Quiet(s) /\ BlocksQuiet(s)
  <1> up /\ ~ faulted /\ op.kind # "open" /\ pc \notin AfterData  BY AtAccept
  <1> MediaInv /\ MediumInv /\ CacheInv /\ RecordInv  BY DEF RInv, PInv, MediumInv
  <1> a \in Slot /\ writer \in Nat /\ cat[a] \in PartSet  BY DEF RInv, SessionOK
  <1>1. n \in Pos
    <2>1. builder # <<>>  BY DEF RInv, ControlInv
    <2>2. ~ Full  BY <2>1 DEF RInv, ActiveInv
    <2> QED  BY <2>2, CapAssumption DEF Full, PartSet
  <1>2. \A s \in Slot : HeadQuiet(s) /\ SealQuiet(s) /\ (s # a => BlocksQuiet(s) /\ Quiet(s))
    BY OnlyBlocks DEF Quiet
  <1>3. \A s \in Slot : cache[H(s)] = disk[H(s)]  BY <1>2, Regions DEF CacheInv, HeadQuiet
  <1> QED  BY <1>1, <1>2, <1>3

LEMMA AtEmitPart ==
  ASSUME RInv, PInv, pc = "emit", NEW a, a = act
  PROVE  /\ Unsealed(a) /\ disk[H(a)].gen = cat[a].gen /\ disk[H(a)].opts = cat[a].opts
         /\ \A s \in Slot : Used(s) => disk[H(s)].gen <= disk[H(a)].gen
         /\ up /\ ~ faulted /\ ~ cat[a].sealed /\ cat[a].gen # 0 /\ a \in Slot
  <1>1. up /\ ~ faulted /\ op.kind # "open" /\ CatInv  BY AtAccept DEF PInv
  <1>2. a \in Slot /\ cat[a].gen # 0
    <2>1. cat[act].gen \in 1 .. MaxGen  BY <1>1, ActiveGen
    <2> QED  BY <2>1, BoundsAssumption DEF RInv, SessionOK
  <1>3. ~ cat[a].sealed
    <2>1. builder # <<>>  BY DEF RInv, ControlInv
    <2> QED  BY <2>1 DEF RInv, ActiveInv
  <1>4. Used(a)  BY <1>1, <1>2 DEF CatInv, Absent, Created
  <1>5. /\ cat[a].sealed = SealValid(disk, a)
        /\ disk[H(a)].gen = cat[a].gen /\ disk[H(a)].opts = cat[a].opts
    BY <1>1, <1>2, <1>4 DEF CatInv
  <1>6. \A s \in Slot : Used(s) => disk[H(s)].gen <= disk[H(a)].gen
    BY <1>1, <1>5 DEF CatInv
  <1> QED  BY <1>1, <1>2, <1>3, <1>4, <1>5, <1>6 DEF Unsealed

LEMMA AtEmitFrames ==
  ASSUME RInv, PInv, pc = "emit", NEW a, a = act, NEW n, n = Len(cat[act].blocks)
  PROVE  /\ Scanned(cache, a) = 0 .. n - 1
         /\ \A k \in 1 .. n : /\ cat[a].blocks[k].writer = cache[B(a, k - 1)].writer
                              /\ cat[a].blocks[k].n = Len(cache[B(a, k - 1)].recs)
         /\ \A i \in Pos : i >= n => \A w \in Vals(B(a, i)) :
              (w.kind = "blk" /\ w.gen = cat[a].gen) => w.writer < writer
  BY AtEmitPart DEF PInv, ActInv

LEMMA EmitFailsPInv == ASSUME WellOrdered, RInv, PInv, WriteFails, pc = "emit" PROVE PInv'
  <1>1. PICK a : a = act  OBVIOUS
  <1>2. PICK n : n = Len(cat[act].blocks)  OBVIOUS
  <1>3. /\ WriteError(B(a, n)) /\ Fail /\ evicted' = evicted
        /\ UNCHANGED <<promised, contracts, writer>>
    BY <1>1, <1>2 DEF WriteFails, Target
  <1>4. CASE UNCHANGED storageVars
    BY <1>3, <1>4, QuietFailPInv DEF history
  <1>5. CASE \E t \in TornOver(B(a, n), cache[B(a, n)]) : Write(B(a, n), t)
    <2>1. Write(B(a, n), Torn)  BY <1>5 DEF TornOver, B
    <2> /\ a \in Slot /\ n \in Pos /\ writer \in Nat /\ MediaInv /\ MediumInv /\ RecordInv
        /\ HeadQuiet(a) /\ SealQuiet(a) /\ Unsealed(a) /\ Scanned(cache, a) = 0 .. n - 1
        /\ \A t \in Slot \ {a} : Quiet(t)
      BY <1>1, <1>2, AtEmit, AtEmitPart, AtEmitFrames
    <2>0. BlockDue(a, n, Torn)  BY DEF BlockDue
    <2>3. MediumInv'  BY <1>3, <2>0, <2>1, BlockWritten
    <2>4. Scanned(cache', a) = Scanned(cache, a)  BY <2>0, <2>1, BlockScan
    <2>5. B(a, n) \in Region /\ B(a, n)[2] = a  BY Regions DEF B
    <2> /\ disk' = disk
        /\ \A s \in Slot : /\ cache'[H(s)] = cache[H(s)] /\ pending'[H(s)] = pending[H(s)]
                           /\ \A i \in Pos : (s # a \/ i # n) =>
                                cache'[B(s, i)] = cache[B(s, i)]
      BY <2>1, <2>5, WriteEffect, Regions, Apart
    <2>7. \A s \in Slot : Frames(cache', s) = Frames(cache, s)
      <3>1. \A s \in Slot : Scanned(cache', s) = Scanned(cache, s)
        BY <2>1, <2>4, <2>5, OtherSlots
      <3> QED  BY <3>1 DEF Frames, HeaderValid
    <2>8. \A s \in Slot : \A i \in Frames(cache, s) : cache'[B(s, i)] = cache[B(s, i)]
      <3>1. \A i \in Frames(cache, a) : i # n
        BY CapAssumption DEF Frames
      <3>2. \A s \in Slot : Frames(cache, s) \subseteq Pos  BY DEF Frames, Scanned
      <3> QED  BY <3>1, <3>2
    <2>9. Stored(cache') = Stored(cache)  BY <2>7, <2>8 DEF Stored, Recs
    <2>10. Kept' = Kept  BY SameKept
    <2>11. Ordered(cache')
      <3>1. Ordered(cache)  BY DEF RecordInv
      <3> QED  BY <2>7, <2>8, <3>1 DEF Ordered
    <2>12. Contracted(cache)'
      <3>1. Contracted(cache)  BY DEF RecordInv
      <3> QED  BY <1>3, <2>7, <2>8, <3>1 DEF Contracted
    <2> QED  BY <1>3, <2>3, <2>9, <2>10, <2>11, <2>12, FailPInv
  <1> QED  BY <1>3, <1>4, <1>5 DEF WriteError

\* The frame emitted follows those a scan admits, and comes from this session.
LEMMA EmittedFollows ==
  ASSUME RInv, PInv, pc = "emit", NEW a, a = act, NEW n, n = Len(cat[act].blocks),
         NEW p, n = 0 => p = 0, n # 0 => p = cat[act].blocks[n].writer,
         NEW v, v = Block(cat[act].gen, n, p, writer, builder)
  PROVE  /\ v.writer = writer /\ v # Torn /\ Follows(cache, v, a, n) /\ v.prev <= writer
         /\ v.recs = builder /\ RecsOf(v.recs) \subseteq 1 .. Len(contracts)
  <1> /\ a \in Slot /\ n \in Pos /\ writer \in Nat /\ MediaInv /\ MediumInv /\ CacheInv
      /\ RecordInv /\ Scanned(cache, a) = 0 .. n - 1 /\ cache[H(a)] = disk[H(a)]
      /\ disk[H(a)].gen = cat[a].gen
      /\ \A k \in 1 .. n : cat[a].blocks[k].writer = cache[B(a, k - 1)].writer
    BY AtEmit, AtEmitPart, AtEmitFrames
  <1>2. n \in Nat /\ (n # 0 => n \in 1 .. n /\ n - 1 \in Scanned(cache, a))
    BY CapAssumption
  <1>3. /\ v.kind = "blk" /\ v.gen = cat[a].gen /\ v.seq = n /\ v.writer = writer
        /\ v.prev = p /\ v.recs = builder
    BY DEF Block
  <1>4. Follows(cache, v, a, n)  BY <1>2, <1>3 DEF Follows
  <1>5. v.prev <= writer
    <2>1. CASE n = 0  BY <1>3, <2>1
    <2>2. CASE n # 0
      <3>1. n - 1 \in Pos /\ cache[B(a, n - 1)].kind = "blk"  BY <1>2, <2>2, ScanFrames
      <3>2. cache[B(a, n - 1)] \in Vals(B(a, n - 1))
        BY <3>1, Regions DEF CacheInv, Vals
      <3>3. cache[B(a, n - 1)].writer <= writer
        BY <3>1, <3>2 DEF MediumInv, StampInv
      <3> QED  BY <1>2, <1>3, <2>2, <3>3
    <2> QED  BY <2>1, <2>2
  <1>6. RecsOf(v.recs) \subseteq 1 .. Len(contracts)
    BY <1>3 DEF RecordInv, BuilderInv
  <1>7. v # Torn  BY <1>3 DEF Torn
  <1> QED  BY <1>3, <1>4, <1>5, <1>6, <1>7

\* What the emitted frame makes of the records.
LEMMA EmittedRecords ==
  ASSUME RInv, PInv, pc = "emit", NEW a, a = act, NEW n, n = Len(cat[act].blocks), NEW v,
         v.recs = builder, Write(B(a, n), v), Scanned(cache', a) = 0 .. n,
         UNCHANGED contracts
  PROVE  /\ Stored(cache') = Stored(cache) \cup RecsOf(builder) /\ Kept' = Kept
         /\ Ordered(cache') /\ Contracted(cache)' /\ Ordered(disk)' /\ Contracted(disk)'
  <1>1. /\ a \in Slot /\ n \in Pos /\ n \in Nat /\ MediaInv /\ RecordInv
        /\ Scanned(cache, a) = 0 .. n - 1
    <2>1. a \in Slot /\ n \in Pos /\ MediaInv /\ RecordInv  BY AtEmit
    <2>2. Scanned(cache, a) = 0 .. n - 1  BY AtEmitFrames
    <2> QED  BY <2>1, <2>2, CapAssumption
  <1>2. /\ \A s \in Slot : /\ cache[H(s)] = disk[H(s)]
                           /\ Used(s) => disk[H(s)].gen <= disk[H(a)].gen
        /\ Used(a) /\ disk[H(a)].opts = cat[a].opts
    <2>1. \A s \in Slot : cache[H(s)] = disk[H(s)]  BY AtEmit
    <2>2. /\ \A s \in Slot : Used(s) => disk[H(s)].gen <= disk[H(a)].gen
          /\ Used(a) /\ disk[H(a)].opts = cat[a].opts
      BY AtEmitPart DEF Unsealed
    <2> QED  BY <2>1, <2>2
  <1>3. HeaderValid(cache, a)  BY <1>1, <1>2 DEF Used, HeaderValid
  <1>4. /\ disk' = disk /\ cache'[B(a, n)] = v
        /\ \A s \in Slot : cache'[H(s)] = cache[H(s)] /\ pending'[H(s)] = pending[H(s)]
        /\ Frames(cache', a) = 0 .. n
    BY <1>1, <1>3, EmittedFrames
  <1>5. \A s \in Slot : \A i \in Frames(cache, s) :
          i \in Frames(cache', s) /\ cache'[B(s, i)] = cache[B(s, i)]
    BY <1>1, <1>3, EmittedFrames
  <1>6. \A s \in Slot : \A i \in Frames(cache', s) :
          (s = a /\ i = n) \/ i \in Frames(cache, s)
    BY <1>1, <1>3, EmittedFrames
  <1>7. Stored(cache') = Stored(cache) \cup RecsOf(builder)
    <2>1. ASSUME NEW x \in Stored(cache') PROVE x \in Stored(cache) \cup RecsOf(builder)
      <3>1. PICK s \in Slot : \E i \in Frames(cache', s) : x \in RecsOf(cache'[B(s, i)].recs)
        BY <2>1 DEF Stored, Recs
      <3>2. PICK i \in Frames(cache', s) : x \in RecsOf(cache'[B(s, i)].recs)  BY <3>1
      <3>3. CASE s = a /\ i = n  BY <1>4, <3>2, <3>3
      <3>4. CASE i \in Frames(cache, s)
        <4>1. x \in RecsOf(cache[B(s, i)].recs)  BY <1>5, <3>2, <3>4
        <4> QED  BY <3>4, <4>1 DEF Stored, Recs
      <3> QED  BY <1>6, <3>3, <3>4
    <2>2. ASSUME NEW x \in Stored(cache) PROVE x \in Stored(cache')
      <3>1. PICK s \in Slot : \E i \in Frames(cache, s) : x \in RecsOf(cache[B(s, i)].recs)
        BY <2>2 DEF Stored, Recs
      <3>2. PICK i \in Frames(cache, s) : x \in RecsOf(cache[B(s, i)].recs)  BY <3>1
      <3>3. i \in Frames(cache', s) /\ x \in RecsOf(cache'[B(s, i)].recs)  BY <1>5, <3>2
      <3> QED  BY <3>3 DEF Stored, Recs
    <2>3. ASSUME NEW x \in RecsOf(builder) PROVE x \in Stored(cache')
      <3>1. n \in Frames(cache', a) /\ x \in RecsOf(cache'[B(a, n)].recs)
        BY <1>1, <1>4, <2>3
      <3> QED  BY <1>1, <3>1 DEF Stored, Recs
    <2> QED  BY <2>1, <2>2, <2>3
  <1>8. Kept' = Kept  BY <1>4, SameKept
  <1>9. Ordered(disk)' /\ Contracted(disk)'  BY <1>1, <1>4, SameDiskRecords DEF RecordInv
  <1>10. Contracted(cache)'
    <2> SUFFICES ASSUME NEW s \in Slot, NEW i \in Frames(cache', s),
                        NEW r \in RecsOf(cache'[B(s, i)].recs)
                 PROVE  contracts[r] \in {NoContract, cache'[H(s)].opts}
      BY DEF Contracted
    <2>1. CASE s = a /\ i = n
      <3>1. r \in RecsOf(builder)  BY <1>4, <2>1
      <3>2. contracts[r] \in {NoContract, cat[act].opts}
        BY <1>1, <3>1 DEF RecordInv, BuilderInv
      <3> QED  BY <1>1, <1>2, <1>4, <2>1, <3>2
    <2>2. CASE i \in Frames(cache, s)
      <3>1. r \in RecsOf(cache[B(s, i)].recs)  BY <1>5, <2>2
      <3> QED  BY <1>1, <1>4, <2>2, <3>1 DEF RecordInv, Contracted
    <2> QED  BY <1>6, <2>1, <2>2
  <1>11. Ordered(cache')
    <2>1. Ordered(cache) /\ \A x \in Stored(cache), y \in RecsOf(builder) : x < y
      BY <1>1 DEF RecordInv, BuilderInv
    <2>2. RecsOf(cache'[B(a, n)].recs) = RecsOf(builder)  BY <1>4
    <2>3. \A s \in Slot : HeaderValid(cache, s) => cache[H(s)].gen <= cache[H(a)].gen
      BY <1>1, <1>2 DEF Used, HeaderValid
    <2>4. \A x \in Stored(cache), y \in RecsOf(cache'[B(a, n)].recs) : x < y  BY <2>1, <2>2
    <2>5. ComesLast(a, n)  BY <1>4, <1>5, <1>6, <2>3, <2>4 DEF ComesLast
    <2> QED  BY <1>1, <2>1, <2>5, EmittedLast
  <1> QED  BY <1>7, <1>8, <1>9, <1>10, <1>11

\* The catalogue lists the emitted frame as the medium holds it.
LEMMA EmittedListed ==
  ASSUME RInv, PInv, pc = "emit", NEW a, a = act, NEW n, n = Len(cat[act].blocks), NEW v,
         v.writer = writer, v.recs = builder, Write(B(a, n), v), Scanned(cache', a) = 0 .. n,
         cat' = [cat EXCEPT ![a].blocks = Append(@, [writer |-> writer, n |-> Len(builder)])],
         UNCHANGED <<act, writer>>
  PROVE  ActInv'
  <1>1. a \in Slot /\ n \in Pos /\ n \in Nat /\ MediaInv /\ disk[H(a)].gen = cat[a].gen
    BY AtEmit, AtEmitPart, CapAssumption
  <1>2. \A k \in 1 .. n : /\ cat[a].blocks[k].writer = cache[B(a, k - 1)].writer
                          /\ cat[a].blocks[k].n = Len(cache[B(a, k - 1)].recs)
    BY AtEmitFrames
  <1>3. \A i \in Pos : i > n => \A w \in Vals(B(a, i)) :
          (w.kind = "blk" /\ w.gen = cat[a].gen) => w.writer < writer
    BY <1>1, AtEmitFrames, CapAssumption
  <1>4. /\ disk' = disk /\ cache'[B(a, n)] = v
        /\ \A i \in Pos : i # n => /\ cache'[B(a, i)] = cache[B(a, i)]
                                   /\ pending'[B(a, i)] = pending[B(a, i)]
    BY <1>1, WriteEffect, Regions, Apart
  <1>5. cat[a].blocks \in Seq([writer : Nat, n : Nat])
    BY <1>1 DEF RInv, SessionOK, PartSet
  <1>6. /\ cat'[a].gen = cat[a].gen
        /\ cat'[a].blocks = Append(cat[a].blocks, [writer |-> writer, n |-> Len(builder)])
    BY <1>1 DEF RInv, SessionOK, PartSet
  <1>7. /\ Len(cat'[a].blocks) = n + 1
        /\ \A k \in 1 .. n : cat'[a].blocks[k] = cat[a].blocks[k]
        /\ cat'[a].blocks[n + 1] = [writer |-> writer, n |-> Len(builder)]
    BY <1>5, <1>6
  <1>8. \A k \in 1 .. n + 1 : /\ cat'[a].blocks[k].writer = cache'[B(a, k - 1)].writer
                              /\ cat'[a].blocks[k].n = Len(cache'[B(a, k - 1)].recs)
    <2> SUFFICES ASSUME NEW k \in 1 .. n + 1
                 PROVE  /\ cat'[a].blocks[k].writer = cache'[B(a, k - 1)].writer
                        /\ cat'[a].blocks[k].n = Len(cache'[B(a, k - 1)].recs)
      OBVIOUS
    <2>1. CASE k \in 1 .. n
      <3>1. k - 1 \in Pos /\ k - 1 # n  BY <1>1, <2>1, CapAssumption
      <3> QED  BY <1>2, <1>4, <1>7, <2>1, <3>1
    <2>2. CASE k = n + 1
      <3>1. k - 1 = n  BY <1>1, <2>2
      <3> QED  BY <1>4, <1>7, <2>2, <3>1
    <2> QED  BY <1>1, <2>1, <2>2
  <1>9. \A i \in Pos : i >= n + 1 => \A w \in {disk'[B(a, i)]} \cup pending'[B(a, i)] :
          (w.kind = "blk" /\ w.gen = cat'[a].gen) => w.writer < writer
    <2>1. \A i \in Pos : i >= n + 1 => i > n /\ i # n  BY <1>1, CapAssumption
    <2> QED  BY <1>3, <1>4, <1>6, <2>1 DEF Vals
  <1>10. /\ act' = a /\ writer' = writer /\ Len(cat'[act'].blocks) - 1 = n
         /\ Scanned(cache, act)' = Scanned(cache', a)
    BY <1>1, <1>7
  <1>11. Scanned(cache, act)' = 0 .. Len(cat'[act'].blocks) - 1  BY <1>10
  <1> QED  BY <1>7, <1>8, <1>9, <1>10, <1>11 DEF ActInv, Vals

LEMMA EmitBuilderPInv == ASSUME WellOrdered, RInv, PInv, EmitBuilder PROVE PInv'
  <1> PICK a : a = act  OBVIOUS
  <1> PICK n : n = Len(cat[act].blocks)  OBVIOUS
  <1> DEFINE p == IF n = 0 THEN 0 ELSE cat[act].blocks[n].writer
  <1>1. (n = 0 => p = 0) /\ (n # 0 => p = cat[act].blocks[n].writer)  OBVIOUS
  <1>2. PICK v : v = Block(cat[act].gen, n, p, writer, builder)  OBVIOUS
  <1>3. /\ pc = "emit" /\ Write(B(a, n), v) /\ dirty' /\ builder' = <<>>
        /\ cat' = [cat EXCEPT ![a].blocks = Append(@, [writer |-> writer, n |-> Len(builder)])]
        /\ pc' = Onward(op.kind, n + 1 < Cap, TRUE)
        /\ UNCHANGED <<promised, evicted, contracts, up, faulted, act, writer, accepted>>
    BY <1>2 DEF EmitBuilder, Goto, history
  <1> HIDE DEF p
  <1>4. /\ a \in Slot /\ n \in Pos /\ up /\ ~ faulted /\ MediaInv /\ MediumInv /\ Used(a)
        /\ \A s \in Slot : HeadQuiet(s) /\ SealQuiet(s) /\ (s # a => Quiet(s) /\ BlocksQuiet(s))
    BY <1>3, AtEmit, AtEmitPart DEF Unsealed
  <1>5. /\ v.writer = writer /\ v # Torn /\ Follows(cache, v, a, n) /\ v.prev <= writer
        /\ v.recs = builder /\ RecsOf(v.recs) \subseteq 1 .. Len(contracts)
    BY <1>1, <1>2, <1>3, EmittedFollows
  <1>6. BlockDue(a, n, v)
    <2>1. Unsealed(a) /\ Scanned(cache, a) = 0 .. n - 1  BY <1>3, AtEmitPart, AtEmitFrames
    <2>2. \A i \in Pos : i > n => \A w \in Vals(B(a, i)) :
            (w.kind = "blk" /\ w.gen = disk[H(a)].gen) => w.writer < writer
      BY <1>3, <1>4, AtEmitPart, AtEmitFrames, CapAssumption
    <2> QED  BY <1>4, <1>5, <2>1, <2>2 DEF BlockDue
  <1>7. MediumInv'
    <2>1. writer \in Nat  BY <1>3, AtEmit
    <2> QED  BY <1>3, <1>4, <1>6, <2>1, BlockWritten
  <1>8. Scanned(cache', a) = 0 .. n  BY <1>3, <1>4, <1>5, <1>6, BlockScan
  <1>9. /\ Stored(cache') = Stored(cache) \cup RecsOf(builder) /\ Kept' = Kept
        /\ Ordered(cache') /\ Contracted(cache)' /\ Ordered(disk)' /\ Contracted(disk)'
    BY <1>3, <1>5, <1>8, EmittedRecords
  <1>10. ActInv'  BY <1>3, <1>5, <1>8, EmittedListed
  <1>11. CatInv'
    <2>1. disk' = disk  BY <1>3, <1>4, WriteEffect, Regions
    <2>2. /\ cat'[a].gen = cat[a].gen /\ cat'[a].opts = cat[a].opts
          /\ cat'[a].sealed = cat[a].sealed
          /\ \A s \in Slot \ {a} : cat'[s] = cat[s]
      BY <1>3, <1>4 DEF RInv, SessionOK, PartSet
    <2> QED  BY <1>3, <1>4, <2>1, <2>2 DEF PInv, CatInv, Used
  <1>12. PhaseInv'
    <2>1. op.kind \in CallersOf("emit")  BY <1>3 DEF RInv, ControlInv
    <2>2. op.kind \in {"append", "publish", "checkpoint", "close", "rotate"}
      BY <2>1 DEF CallersOf, Sealing, Creating
    <2>3. pc' \in {"accept", "rotate", "idle", "sync"}  BY <1>3, <2>2 DEF Onward
    <2>4. \A s \in Slot : /\ pending'[H(s)] = pending[H(s)] /\ pending'[I(s)] = pending[I(s)]
                          /\ pending'[F(s)] = pending[F(s)]
                          /\ \A i \in Pos : s # a => pending'[B(s, i)] = pending[B(s, i)]
      BY <1>3, <1>4, WriteEffect, Regions, Apart
    <2>5. \A s \in Slot : /\ HeadQuiet(s)' /\ SealQuiet(s)' /\ (s # a => BlocksQuiet(s)')
      BY <1>4, <2>4 DEF HeadQuiet, SealQuiet, BlocksQuiet
    <2> QED  BY <1>3, <2>3, <2>5 DEF PhaseInv, AfterData, Creating
  <1>13. RecsOf(builder') = {}  BY <1>3 DEF RecsOf
  <1>14. AccountInv'  BY <1>3, <1>9, <1>13 DEF PInv, RecordInv, AccountInv
  <1>15. BuilderInv'  BY <1>13 DEF BuilderInv
  <1> QED  BY <1>7, <1>9, <1>10, <1>11, <1>12, <1>14, <1>15 DEF PInv, RecordInv

=============================================================================
