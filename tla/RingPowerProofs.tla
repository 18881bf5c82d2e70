-------------------------- MODULE RingPowerProofs --------------------------
(***************************************************************************)
(* What power cuts, faults and restarts leave of a volume: the invariant   *)
(* PInv of RingInvariant holds in every state, and with it the             *)
(* properties of RingStore, when a volume is opened only over a medium     *)
(* without unflushed writes ("warm" \notin Restarts).                      *)
(***************************************************************************)
EXTENDS RingBlockProofs, RingRotateProofs, RingStoreProofs

-----------------------------------------------------------------------------
(* Opening a volume *)

LEMMA OpenPInv ==
  ASSUME RInv, PInv, "warm" \notin Restarts, MayOpen, up', writer' = writer + 1,
         cat' = [s \in Slot |-> Recovered(s)], act' = IF Headers = {} THEN 0 ELSE NewestSlot,
         UNCHANGED <<storageVars, history, faulted, builder, dirty, accepted>>,
         \/ Headers # {} /\ pc' = pc
         \/ pc' = "header" /\ (Headers # {} => SealValid(cache, NewestSlot))
  PROVE  PInv'
  <1>1. /\ ~ up /\ ~ dirty /\ accepted = <<>> /\ builder = <<>> /\ ~ faulted /\ pc = "idle"
        /\ writer \in Nat /\ MediaInv /\ MediumInv /\ RecordInv
        /\ UNCHANGED <<promised, evicted, contracts>>
    BY DEF MayOpen, RInv, ControlInv, SessionOK, PInv, CatInv, history
  <1>2. \A s \in Slot : Quiet(s) /\ HeadQuiet(s) /\ SealQuiet(s) /\ BlocksQuiet(s)
    BY Regions DEF MayOpen, Unflushed, Quiet, HeadQuiet, SealQuiet, BlocksQuiet
  <1>3. \A s \in Slot : /\ cache[H(s)] = disk[H(s)] /\ cache[F(s)] = disk[F(s)]
                        /\ \A i \in Pos : cache[B(s, i)] = disk[B(s, i)]
    BY <1>1, <1>2, AllQuiet
  <1>4. MediumInv'
    <2>1. Len(contracts) \in Nat  BY DEF RInv, SessionOK
    <2> QED  BY <1>1, <2>1, SameMedium
  <1>5. act' \in Slot /\ (Headers # {} => act' \in Headers)
    BY <1>1, Newest, NothingOpen DEF Headers
  <1>6. \A s \in Slot : /\ s \in Headers <=> Used(s)
                        /\ SealValid(cache, s) = SealValid(disk, s)
    BY <1>3 DEF Headers, Used, HeaderValid, SealValid
  <1>7. \A s \in Slot :
          /\ s \in Headers => /\ cat'[s].gen = cache[H(s)].gen /\ cat'[s].gen # 0
                              /\ cat'[s].opts = cache[H(s)].opts
                              /\ cat'[s].sealed = SealValid(cache, s)
          /\ s \notin Headers => cat'[s] = Absent /\ cat'[s].gen = 0
          /\ cat'[s].gen \in Nat
    <2>1. \A s \in Slot : cat'[s] = Recovered(s)  OBVIOUS
    <2>2. \A s \in Slot : s \in Headers => Recovered(s).opts = cache[H(s)].opts  BY DEF Recovered
    <2>3. \A s \in Slot : s \notin Headers => Recovered(s) = Absent  BY DEF Recovered
    <2>4. \A s \in Slot : Recovered(s).gen \in Nat
      BY RecoveredParts, BoundsAssumption DEF PartSet
    <2> QED  BY <2>1, <2>2, <2>3, <2>4, RecoveredParts
  <1>8. CatInv'
    <2>1. \A s \in Slot : disk[H(s)].kind # "torn"  BY <1>3 DEF MayOpen, HeaderDamaged
    <2>2. \A s \in Slot : cat'[s].gen <= cat'[act'].gen
      <3>1. CASE Headers = {}  BY <1>5, <1>7, <3>1
      <3>2. CASE Headers # {}
        <4>1. \A s \in Headers : cache[H(s)].gen <= cache[H(act')].gen
          BY <1>1, <3>2, Newest
        <4> QED  BY <1>5, <1>7, <3>2, <4>1
      <3> QED  BY <3>1, <3>2
    <2> QED  BY <1>3, <1>6, <1>7, <2>1, <2>2 DEF CatInv, Used, storageVars
  <1>9. ActInv'
    <2> SUFFICES ASSUME cat'[act'].gen # 0, ~ cat'[act'].sealed
                 PROVE  ActInv'
      BY DEF ActInv
    <2>1. PICK a \in Slot : a = act'  BY <1>5
    <2>2. a \in Headers /\ a = NewestSlot /\ ~ SealValid(cache, a)
      BY <1>5, <1>7, <2>1
    <2>3. PICK n : n = Cardinality(Scanned(cache, a))  OBVIOUS
    <2>4. n \in 0 .. Cap /\ Scanned(cache, a) = 0 .. n - 1  BY <2>3, ScanPrefix
    <2>5. cat'[a].blocks = [k \in 1 .. n |-> [writer |-> cache[B(a, k - 1)].writer,
                                              n      |-> Len(cache[B(a, k - 1)].recs)]]
      BY <2>2, <2>3 DEF Recovered
    <2>6. Len(cat'[a].blocks) = n  BY <2>4, <2>5, CapAssumption
    <2>7. \A i \in Pos : \A v \in Vals(B(a, i)) : v.kind = "blk" => v.writer < writer'
      <3> SUFFICES ASSUME NEW i \in Pos, NEW v \in Vals(B(a, i)), v.kind = "blk"
                   PROVE  v.writer < writer'
        OBVIOUS
      <3>1. v.writer \in Nat  BY <1>1, BlockValues DEF BlockSet
      <3>2. v.writer <= writer  BY <1>1 DEF MediumInv, StampInv
      <3> QED  BY <1>1, <3>1, <3>2
    <2>8. Scanned(cache, act)' = Scanned(cache, a)  BY <2>1 DEF storageVars
    <2>9. \A k \in 1 .. n : /\ cat'[a].blocks[k].writer = cache[B(a, k - 1)].writer
                            /\ cat'[a].blocks[k].n = Len(cache[B(a, k - 1)].recs)
      <3> SUFFICES ASSUME NEW k \in 1 .. n
                   PROVE  /\ cat'[a].blocks[k].writer = cache[B(a, k - 1)].writer
                          /\ cat'[a].blocks[k].n = Len(cache[B(a, k - 1)].recs)
        OBVIOUS
      <3>1. cat'[a].blocks[k] = [writer |-> cache[B(a, k - 1)].writer,
                                 n      |-> Len(cache[B(a, k - 1)].recs)]
        BY <2>5
      <3> QED  BY <3>1
    <2> QED  BY <2>1, <2>4, <2>6, <2>7, <2>8, <2>9 DEF ActInv, Vals, storageVars
  <1>10. PhaseInv'
    <2>1. \A s \in Slot : (HeadQuiet(s) /\ SealQuiet(s) /\ BlocksQuiet(s))'
      BY <1>2 DEF HeadQuiet, SealQuiet, BlocksQuiet, storageVars
    <2>2. pc' = "header" => Empty' \/ cat'[act'].sealed
      <3>1. CASE Headers = {}  BY <1>7, <3>1 DEF Empty
      <3>2. CASE Headers # {}  BY <1>1, <1>5, <1>7, <3>2
      <3> QED  BY <3>1, <3>2
    <2> QED  BY <1>1, <2>1, <2>2 DEF PhaseInv, AfterData, Creating
  <1>11. RecsOf(builder) = {} /\ RecsOf(accepted) = {}  BY <1>1 DEF RecsOf
  <1>12. RecordInv'
    BY <1>1, <1>11, SameRecords DEF RecordInv, AccountInv, BuilderInv
  <1> QED  BY <1>4, <1>8, <1>9, <1>10, <1>12 DEF PInv

LEMMA OpensPInv ==
  ASSUME RInv, PInv, "warm" \notin Restarts, OpenContinue \/ OpenCreate
  PROVE  PInv'
  BY OpenPInv DEF OpenContinue, OpenCreate

-----------------------------------------------------------------------------
LEMMA WriteFailsPInv == ASSUME WellOrdered, RInv, PInv, WriteFails PROVE PInv'
  BY EmitFailsPInv, SealFailsPInv, HeaderFailsPInv DEF WriteFails

(* Every step *)

LEMMA NextPInv ==
  ASSUME WellOrdered, RInv, PInv, "warm" \notin Restarts, [Next]_vars
  PROVE  PInv'
  <1>1. CASE UNCHANGED vars
    <2>1. UNCHANGED <<storageVars, up, faulted, cat, act, nextOpts, writer, builder, dirty,
                      accepted, promised, evicted, contracts, pc>>
      BY <1>1 DEF vars, sessionVars, history
    <2>2. PhaseInv'
      BY <2>1 DEF PInv, PhaseInv, HeadQuiet, SealQuiet, BlocksQuiet, storageVars, TargetSlot,
                  TargetGen, Empty
    <2> QED  BY <2>1, <2>2, StayPInv DEF PInv, RecordInv, AccountInv
  <1>2. CASE Step
    BY <1>2, EmitBuilderPInv, SyncMediaPInv, RotateInternalPInv, GenerationExhaustedPInv,
       SealSyncPInv, WriteIndexPInv, WriteFooterPInv, FooterSyncPInv, WriteHeaderPInv,
       HeaderSyncPInv, AcceptRecordPInv, RejectRecordPInv, WriteFailsPInv, FlushFailsPInv
    DEF Step
  <1> QED  BY <1>1, <1>2, OpensPInv, CallsPInv, DropPInv, PowerCutPInv DEF Next

-----------------------------------------------------------------------------
(***************************************************************************)
(* RInv and PInv together are inductive when no volume is opened over      *)
(* unflushed writes.                                                       *)
(***************************************************************************)
THEOREM PowerInductive == ASSUME "warm" \notin Restarts PROVE Spec => [](RInv /\ PInv)
  <1>1. Init => RInv /\ PInv  BY InitRInv, InitPInv
  <1>2. RInv /\ PInv /\ [Next]_vars => (RInv /\ PInv)'  BY NextRInv, NextPInv, Least
  <1> QED  BY <1>1, <1>2, PTL DEF Spec

(***************************************************************************)
(* What checkpoint(), close() or the durable_records metric has claimed    *)
(* durable can be read back after any sequence of power cuts, failed       *)
(* writes and flushes and restarts, until the ring has reused its slot.    *)
(***************************************************************************)
THEOREM PowerDurable == ASSUME "warm" \notin Restarts PROVE Spec => []DurableSurvives
  <1>1. RInv /\ PInv => DurableSurvives
    <2> SUFFICES ASSUME RInv, PInv PROVE DurableSurvives  OBVIOUS
    <2>1. MediaInv /\ MediumInv /\ Possible(cache)
      BY CachePossible DEF RInv, PInv, MediumInv
    <2>2. Kept \subseteq Stored(cache) /\ Readable(cache) = Stored(cache)
      BY <2>1, ImageKept, ImageReadable, Least
    <2> QED  BY <2>2 DEF PInv, RecordInv, AccountInv, DurableSurvives
  <1> QED  BY <1>1, PowerInductive, PTL

(***************************************************************************)
(* Reading back by generation and position returns records in the order    *)
(* they were accepted, none twice: the chain of writer ids stops every     *)
(* scan before a frame that an earlier session left behind.                *)
(***************************************************************************)
THEOREM PowerOrdered == ASSUME "warm" \notin Restarts PROVE Spec => []OrderedReadback
  <1>1. RInv /\ PInv => OrderedReadback
    <2> SUFFICES ASSUME RInv, PInv PROVE OrderedReadback  OBVIOUS
    <2>1. \A s \in Slot : Delivered(cache, s) = Frames(cache, s)
      BY CachePossible, ImageDelivered DEF RInv, PInv, MediumInv
    <2>2. Ordered(cache)  BY DEF PInv, RecordInv
    <2> QED  BY <2>1, <2>2 DEF Ordered, OrderedReadback
  <1> QED  BY <1>1, PowerInductive, PTL

(***************************************************************************)
(* append_checked() keeps its contract: a record appended under one is     *)
(* stored in, or being built for, a partition with that contract.          *)
(***************************************************************************)
THEOREM PowerContracts == ASSUME "warm" \notin Restarts PROVE Spec => []ContractKept
  <1>1. RInv /\ PInv => ContractKept
    <2> SUFFICES ASSUME RInv, PInv PROVE ContractKept  OBVIOUS
    <2>1. \A s \in Slot : Delivered(cache, s) = Frames(cache, s)
      BY CachePossible, ImageDelivered DEF RInv, PInv, MediumInv
    <2>2. Contracted(cache) /\ BuilderInv  BY DEF PInv, RecordInv
    <2> QED  BY <2>1, <2>2 DEF Contracted, BuilderInv, ContractKept
  <1> QED  BY <1>1, PowerInductive, PTL

(***************************************************************************)
(* seal_active_only flushes the data before it writes the seal: a durable  *)
(* footer covers durable blocks only.                                      *)
(***************************************************************************)
THEOREM PowerSeals == ASSUME "warm" \notin Restarts PROVE Spec => []SealAfterData
  <1>1. PInv => SealAfterData
    <2> SUFFICES ASSUME PInv, NEW s \in Slot, HeaderValid(disk, s), SealValid(disk, s)
                 PROVE  0 .. Len(disk[F(s)].ns) - 1 \subseteq Scanned(disk, s)
      BY DEF SealAfterData
    <2>1. Seals(disk, disk[F(s)].ns, s)
      BY DEF PInv, MediumInv, SealInv, Vals, Used, SealValid
    <2> QED  BY <2>1 DEF Seals
  <1> QED  BY <1>1, PowerInductive, PTL

(***************************************************************************)
(* rotate_internal flushes the seal before create_partition writes the     *)
(* next header: on the medium at most the newest partition is unsealed.    *)
(***************************************************************************)
THEOREM PowerHeaders == ASSUME "warm" \notin Restarts PROVE Spec => []HeaderAfterSeal
  <1>1. PInv => HeaderAfterSeal
    BY DEF PInv, MediumInv, HeaderInv, Used, HeaderAfterSeal
  <1> QED  BY <1>1, PowerInductive, PTL

(***************************************************************************)
(* checkpoint() may return at once when nothing is dirty: then every       *)
(* record that can be read is on the medium.                               *)
(***************************************************************************)
THEOREM PowerCheckpoint == ASSUME "warm" \notin Restarts PROVE Spec => []CheckpointIsDurable
  <1>1. RInv /\ PInv => CheckpointIsDurable
    <2> SUFFICES ASSUME RInv, PInv, Ready, builder = <<>>, ~ dirty
                 PROVE  Readable(cache) \subseteq Readable(disk)
      BY DEF CheckpointIsDurable
    <2>1. MediaInv /\ MediumInv /\ Possible(cache) /\ Possible(disk)
      BY CachePossible, DiskPossible DEF RInv, PInv, MediumInv
    <2>2. \A s \in Slot : Quiet(s)  BY OnlyBlocks DEF Ready, AfterData, Quiet
    <2>3. Stored(cache) = Stored(disk)  BY <2>1, <2>2, AllQuiet
    <2> QED  BY <2>1, <2>3, ImageReadable
  <1> QED  BY <1>1, PowerInductive, PTL

(***************************************************************************)
(* The ring has no holes: the generations of the headers, also of one not  *)
(* yet flushed or torn over an old one, are consecutive.                   *)
(***************************************************************************)
THEOREM PowerContiguous == ASSUME "warm" \notin Restarts PROVE Spec => []RetainedContiguous
  <1>1. RInv /\ PInv => RetainedContiguous
    <2> SUFFICES ASSUME RInv, PInv, NEW s \in Headers, NEW t \in Headers,
                        NEW g \in cache[H(s)].gen .. cache[H(t)].gen
                 PROVE  \E u \in Headers : cache[H(u)].gen = g
      BY DEF RetainedContiguous
    <2>1. s \in Slot /\ t \in Slot /\ HeaderValid(cache, s) /\ HeaderValid(cache, t)
      BY DEF Headers
    <2>2. MediaInv /\ CacheInv /\ StageInv /\ HeaderInv /\ ComingInv
      BY DEF RInv, PInv, MediumInv
    <2>3. \A u \in Slot : /\ HeadQuiet(u) => cache[H(u)] = disk[H(u)]
                          /\ ~ HeadQuiet(u) => cache[H(u)] \in pending[H(u)]
      BY <2>2, Regions DEF CacheInv, HeadQuiet
    <2>4. \A u \in Slot : /\ Used(u) => disk[H(u)].gen \in Nat
                          /\ HeaderValid(cache, u) => cache[H(u)].gen \in Nat
      <3>1. \A u \in Slot : cache[H(u)] \in Vals(H(u)) /\ disk[H(u)] \in Vals(H(u))
        BY <2>3 DEF Vals
      <3> QED  BY <2>2, <3>1, HeadValues, BoundsAssumption DEF Used, HeaderValid
    <2>5. g \in Nat  BY <2>1, <2>4
    \* What the medium holds of g stands if a partition no newer than g does.
    <2>6. ASSUME NEW v \in Slot, NEW w \in Slot, HeadQuiet(v), HeadQuiet(w), Used(v), Used(w),
                 disk[H(v)].gen <= g, g <= disk[H(w)].gen
          PROVE  \E u \in Headers : cache[H(u)].gen = g
      <3>1. g \in disk[H(v)].gen .. disk[H(w)].gen  BY <2>4, <2>5, <2>6
      <3>2. PICK u \in Slot : Used(u) /\ disk[H(u)].gen = g
        BY <2>2, <2>6, <3>1 DEF HeaderInv
      <3>3. HeadQuiet(u)
        <4> SUFFICES ASSUME ~ HeadQuiet(u) PROVE FALSE  OBVIOUS
        <4>1. u # v /\ disk[H(u)].gen < disk[H(v)].gen
          BY <2>2, <2>6, <3>2 DEF StageInv
        <4> QED  BY <2>4, <2>5, <2>6, <3>2, <4>1
      <3>4. cache[H(u)] = disk[H(u)]  BY <2>3, <3>3
      <3> QED  BY <3>2, <3>4 DEF Headers, Used, HeaderValid
    <2>7. CASE HeadQuiet(s) /\ HeadQuiet(t)
      BY <2>1, <2>3, <2>4, <2>5, <2>6, <2>7 DEF Used, HeaderValid
    <2>8. CASE ~ HeadQuiet(s)
      <3>1. CASE t = s  BY <2>4, <2>1, <2>5, <3>1
      <3>2. CASE t # s
        <4>1. HeadQuiet(t) /\ Used(t) /\ cache[H(t)] = disk[H(t)]
          BY <2>1, <2>2, <2>3, <2>8, <3>2 DEF StageInv, Quiet, Used, HeaderValid
        <4>2. cache[H(s)] \in pending[H(s)] /\ cache[H(s)].kind = "hdr"
          BY <2>1, <2>3, <2>8 DEF HeaderValid
        <4>3. disk[H(t)].gen < cache[H(s)].gen
          BY <2>1, <2>2, <3>2, <4>1, <4>2 DEF ComingInv
        <4> QED  BY <2>1, <2>4, <2>5, <4>1, <4>3
      <3> QED  BY <3>1, <3>2
    <2>9. CASE ~ HeadQuiet(t) /\ s # t
      <3>1. HeadQuiet(s) /\ Used(s) /\ cache[H(s)] = disk[H(s)]
        BY <2>1, <2>2, <2>3, <2>9 DEF StageInv, Quiet, Used, HeaderValid
      <3>2. cache[H(t)] \in pending[H(t)] /\ cache[H(t)].kind = "hdr"
        BY <2>1, <2>3, <2>9 DEF HeaderValid
      <3>3. CASE g = cache[H(t)].gen  BY <3>3
      <3>4. CASE g # cache[H(t)].gen
        <4>1. disk[H(s)].gen < cache[H(t)].gen
          BY <2>1, <2>2, <2>9, <3>1, <3>2 DEF ComingInv
        <4>2. /\ disk[H(s)].gen \in Nat /\ cache[H(t)].gen \in Nat /\ disk[H(s)].gen <= g
              /\ g <= cache[H(t)].gen - 1
          BY <2>1, <2>4, <2>5, <3>1, <3>4
        <4>3. cache[H(t)].gen = 1
              \/ \E w \in Slot \ {t} : Used(w) /\ disk[H(w)].gen = cache[H(t)].gen - 1
          BY <2>1, <2>2, <3>2 DEF ComingInv
        <4>4. disk[H(s)].gen # 0
          BY <2>1, <2>2, <3>1, HeadValues DEF Vals, Used, HeaderValid
        <4>5. PICK w \in Slot \ {t} : Used(w) /\ disk[H(w)].gen = cache[H(t)].gen - 1
          BY <4>1, <4>2, <4>3, <4>4
        <4>6. HeadQuiet(w)  BY <2>1, <2>2, <2>9, <4>5 DEF StageInv, Quiet
        <4> QED  BY <2>1, <2>6, <3>1, <4>2, <4>5, <4>6
      <3> QED  BY <3>3, <3>4
    <2> QED  BY <2>7, <2>8, <2>9
  <1> QED  BY <1>1, PowerInductive, PTL

(***************************************************************************)
(* Between calls open() would find the catalogue the running writer has.   *)
(***************************************************************************)
THEOREM PowerRecovery == ASSUME "warm" \notin Restarts PROVE Spec => []RecoveryAgrees
  <1>1. RInv /\ PInv => RecoveryAgrees
    <2> SUFFICES ASSUME RInv, PInv, up, pc = "idle", ~ faulted
                 PROVE  /\ act = NewestSlot
                        /\ cat[act].blocks = Recovered(act).blocks
                        /\ \A s \in Slot : /\ cat[s].gen = Recovered(s).gen
                                           /\ cat[s].opts = Recovered(s).opts
                                           /\ cat[s].sealed = Recovered(s).sealed
      BY DEF RecoveryAgrees
    <2>1. \A s \in Slot : HeadQuiet(s) /\ SealQuiet(s)  BY OnlyBlocks DEF AfterData
    <2>2. \A s \in Slot : cache[H(s)] = disk[H(s)] /\ cache[F(s)] = disk[F(s)]
      BY <2>1, Regions DEF PInv, MediumInv, CacheInv, HeadQuiet, SealQuiet
    <2>3. \A s \in Slot : /\ s \in Headers <=> Used(s)
                          /\ SealValid(cache, s) = SealValid(disk, s)
      BY <2>2 DEF Headers, Used, HeaderValid, SealValid
    <2>4. /\ act \in Slot /\ cat[act].gen # 0 /\ ~ cat[act].sealed
          /\ cat[act].blocks \in Seq([writer : Nat, n : Nat])
      BY DEF RInv, SessionOK, ControlInv, NoOp, ActiveInv, PartSet, Creating
    <2>5. \A s \in Slot : /\ cat[s].gen = Recovered(s).gen /\ cat[s].opts = Recovered(s).opts
                          /\ cat[s].sealed = Recovered(s).sealed
      <3> SUFFICES ASSUME NEW s \in Slot
                   PROVE  /\ cat[s].gen = Recovered(s).gen /\ cat[s].opts = Recovered(s).opts
                          /\ cat[s].sealed = Recovered(s).sealed
        OBVIOUS
      <3>1. CASE s \notin Headers  BY <2>3, <3>1 DEF PInv, CatInv, Recovered
      <3>2. CASE s \in Headers
        <4>1. /\ cat[s].gen = disk[H(s)].gen /\ cat[s].opts = disk[H(s)].opts
              /\ cat[s].sealed = SealValid(disk, s)
          BY <2>3, <3>2 DEF PInv, CatInv
        <4>2. /\ Recovered(s).gen = cache[H(s)].gen /\ Recovered(s).opts = cache[H(s)].opts
              /\ Recovered(s).sealed = SealValid(cache, s)
          BY <3>2 DEF Recovered
        <4> QED  BY <2>2, <2>3, <4>1, <4>2
      <3> QED  BY <3>1, <3>2
    <2>6. act \in Headers /\ ~ SealValid(cache, act)
      <3>1. CatInv  BY DEF PInv
      <3>2. Used(act)  BY <2>4, <3>1 DEF CatInv, Absent, Created
      <3>3. cat[act].sealed = SealValid(disk, act)  BY <2>4, <3>1, <3>2 DEF CatInv
      <3> QED  BY <2>3, <2>4, <3>2, <3>3
    <2>7. act = NewestSlot
      <3>1. PICK m : m = NewestSlot  OBVIOUS
      <3>2. m \in Slot /\ m \in Headers /\ cache[H(act)].gen <= cache[H(m)].gen
        BY <2>6, <3>1, Newest DEF RInv, Headers
      <3>3. cat[m].gen = cache[H(m)].gen /\ cat[act].gen = cache[H(act)].gen
        BY <2>2, <2>3, <2>4, <2>6, <3>2 DEF PInv, CatInv
      <3>4. cat[m].gen <= cat[act].gen /\ cat[m].gen \in Nat /\ cat[act].gen \in Nat
        BY <2>4, <3>2, BoundsAssumption DEF PInv, CatInv, RInv, SessionOK, PartSet
      <3>5. cat[m].gen = cat[act].gen  BY <3>2, <3>3, <3>4
      <3>6. InPlace(m, cat[m].gen) /\ InPlace(act, cat[act].gen)
        BY <2>4, <3>2, <3>5 DEF RInv, CatInPlace
      <3> QED  BY <3>1, <3>5, <3>6 DEF InPlace
    <2>8. cat[act].blocks = Recovered(act).blocks
      <3>1. PICK n : n = Cardinality(Scanned(cache, act))  OBVIOUS
      <3>2. n \in Nat /\ Scanned(cache, act) = 0 .. n - 1
        BY <3>1, ScanPrefix, CapAssumption
      <3>3. /\ Scanned(cache, act) = 0 .. Len(cat[act].blocks) - 1
            /\ \A k \in 1 .. Len(cat[act].blocks) :
                 /\ cat[act].blocks[k].writer = cache[B(act, k - 1)].writer
                 /\ cat[act].blocks[k].n = Len(cache[B(act, k - 1)].recs)
        BY <2>4 DEF PInv, ActInv
      <3>4. Len(cat[act].blocks) = n
        <4>1. PICK m \in Nat : m = Len(cat[act].blocks)  BY <2>4
        <4>2. 0 .. n - 1 = 0 .. m - 1  BY <3>2, <3>3, <4>1
        <4>3. n - 1 \in 0 .. n - 1 \/ n = 0  BY <3>2
        <4>4. m - 1 \in 0 .. m - 1 \/ m = 0  BY <4>1
        <4> QED  BY <3>2, <4>1, <4>2, <4>3, <4>4
      <3>5. Recovered(act).blocks = [k \in 1 .. n |-> [writer |-> cache[B(act, k - 1)].writer,
                                                       n      |-> Len(cache[B(act, k - 1)].recs)]]
        BY <2>6, <2>7, <3>1 DEF Recovered
      <3>6. ASSUME NEW k \in 1 .. n
            PROVE  cat[act].blocks[k] = [writer |-> cache[B(act, k - 1)].writer,
                                         n      |-> Len(cache[B(act, k - 1)].recs)]
        <4>1. cat[act].blocks[k] \in [writer : Nat, n : Nat]  BY <2>4, <3>4, Element
        <4> QED  BY <3>3, <3>4, <4>1
      <3>7. cat[act].blocks = [k \in 1 .. n |-> cat[act].blocks[k]]  BY <2>4, <3>4
      <3> QED  BY <3>5, <3>6, <3>7
    <2> QED  BY <2>5, <2>7, <2>8
  <1> QED  BY <1>1, PowerInductive, PTL

-----------------------------------------------------------------------------
(* What a step may never do *)

\* A step changes what is read by a write at its place, or else by a power cut.
LEMMA StepOnMedium ==
  ASSUME [Next]_vars
  PROVE  \/ UNCHANGED cache \/ pending' = [r \in Region |-> {}]
         \/ pc \in {"emit", "index", "footer", "header"} /\ \E v : Write(Target, v)
  <1>1. CASE UNCHANGED vars  BY <1>1 DEF vars, storageVars
  <1>2. CASE EmitBuilder  BY <1>2 DEF EmitBuilder, Target
  <1>3. CASE WriteIndex  BY <1>3 DEF WriteIndex, Target
  <1>4. CASE WriteFooter  BY <1>4 DEF WriteFooter, Target
  <1>5. CASE WriteHeader  BY <1>5 DEF WriteHeader, Target
  <1>6. CASE WriteFails  BY <1>6 DEF WriteFails, WriteError, storageVars
  <1>7. CASE SyncMedia \/ SealSync \/ FooterSync \/ HeaderSync
    BY <1>7 DEF SyncMedia, SealSync, FooterSync, HeaderSync, Flush
  <1>8. CASE \/ RotateInternal \/ GenerationExhausted \/ AcceptRecord \/ RejectRecord
             \/ FlushFails \/ OpenContinue \/ OpenCreate \/ Drop
    BY <1>8 DEF RotateInternal, GenerationExhausted, AcceptRecord, RejectRecord, FlushFails,
                FlushError, OpenContinue, OpenCreate, Drop, storageVars
  <1>9. CASE Call
    BY <1>9 DEF Call, AppendImpl, Publish, Checkpoint, Close, Rotate, SetNextPartitionOptions,
                storageVars
  <1>10. CASE PowerCut  BY <1>10 DEF PowerCut, PowerLoss
  <1> QED  BY <1>1, <1>2, <1>3, <1>4, <1>5, <1>6, <1>7, <1>8, <1>9, <1>10 DEF Next, Step

\* The region whose content a step changes, without flushing it, is its target.
LEMMA ChangedRegion ==
  ASSUME RInv, [Next]_vars, NEW r \in Region, cache'[r] # cache[r], pending'[r] # {}
  PROVE  pc \in {"emit", "index", "footer", "header"} /\ r = Target
  <1>1. pc \in {"emit", "index", "footer", "header"} /\ \E v : Write(Target, v)
    BY StepOnMedium
  <1>2. PICK q, v : q = Target /\ Write(q, v)  BY <1>1
  <1>3. q = r  BY <1>2 DEF RInv, MediaInv, Write
  <1> QED  BY <1>1, <1>2, <1>3

(***************************************************************************)
(* emit_builder appends: a frame that a scan admits is never written over  *)
(* while its partition stands; only a power cut may take it, unflushed.    *)
(***************************************************************************)
THEOREM PowerFrames == ASSUME "warm" \notin Restarts PROVE Spec => FrameImmutable
  <1>1. ASSUME RInv, PInv, [Next]_vars, NEW s \in Slot, NEW i \in Pos, HeaderValid(cache, s),
               i \in Scanned(cache, s), cache'[B(s, i)] # cache[B(s, i)]
        PROVE  pending'[B(s, i)] = {}
    <2> SUFFICES ASSUME pending'[B(s, i)] # {} PROVE FALSE  OBVIOUS
    <2>1. pc \in {"emit", "index", "footer", "header"} /\ B(s, i) = Target
      BY <1>1, Regions, ChangedRegion
    <2>2. pc = "emit" /\ B(s, i) = B(act, Len(cat[act].blocks))
      BY <2>1 DEF Target, B, I, F, H
    <2>3. PICK a, n : a = act /\ n = Len(cat[act].blocks)  OBVIOUS
    <2>4. s = a /\ i = n  BY <2>2, <2>3 DEF B
    <2>5. Scanned(cache, a) = 0 .. n - 1  BY <1>1, <2>2, <2>3, AtEmitFrames
    <2> QED  BY <1>1, <2>4, <2>5, CapAssumption
  <1>2. RInv /\ PInv /\ [Next]_vars =>
          [\A s \in Slot : \A i \in Pos :
             (HeaderValid(cache, s) /\ i \in Scanned(cache, s) /\ cache'[B(s, i)] # cache[B(s, i)])
               => pending'[B(s, i)] = {}]_vars
    BY <1>1
  <1> QED  BY <1>2, PowerInductive, PTL DEF Spec, FrameImmutable

(***************************************************************************)
(* create_partition writes over a partition only when every slot is in     *)
(* use, and then over the oldest.                                          *)
(***************************************************************************)
THEOREM PowerEvicts == ASSUME "warm" \notin Restarts PROVE Spec => EvictsOldest
  <1>1. ASSUME RInv, PInv, [Next]_vars, NEW s \in Slot, HeaderValid(cache, s),
               cache'[H(s)] # cache[H(s)], pending'[H(s)] # {}, NEW t \in Slot
        PROVE  HeaderValid(cache, t) /\ cache[H(s)].gen <= cache[H(t)].gen
    <2>1. pc = "header" /\ s = TargetSlot
      <3>1. pc \in {"emit", "index", "footer", "header"} /\ H(s) = Target
        BY <1>1, Regions, ChangedRegion
      <3> QED  BY <3>1 DEF Target, B, I, F, H
    <2>2. /\ up /\ ~ faulted /\ pc \in Creating /\ MediaInv /\ MediumInv /\ CacheInv /\ CatInv
          /\ TargetGen \in Nat \ {0} /\ InPlace(TargetSlot, TargetGen)
      BY <1>1, <2>1, AtCreating, BoundsAssumption DEF Creating, RInv, PInv, MediumInv
    <2>3. \A u \in Slot : HeadQuiet(u)  BY <1>1, <2>1, <2>2 DEF PInv, PhaseInv
    <2>4. \A u \in Slot : cache[H(u)] = disk[H(u)]
      BY <2>2, <2>3, Regions DEF CacheInv, HeadQuiet
    <2>5. \A u \in Slot : /\ Used(u) => disk[H(u)].gen \in Nat \ {0} /\ InPlace(u, disk[H(u)].gen)
                          /\ Used(u) \/ Unused(u)
      BY <2>2, HeadValues, BoundsAssumption DEF Vals, Used, Unused, HeaderValid, CatInv
    <2>6. Used(s)  BY <1>1, <2>4 DEF Used, HeaderValid
    <2>7. CASE t = s  BY <2>4, <2>5, <2>6, <2>7 DEF Used, HeaderValid
    <2>8. CASE t # s
      <3>1. PICK g : g = TargetGen  OBVIOUS
      <3>2. /\ disk[H(s)].gen < g
            /\ Used(t) => disk[H(s)].gen < disk[H(t)].gen
            /\ Unused(t) => g <= t
        BY <1>1, <2>1, <2>2, <2>6, <2>8, <3>1, TargetTurn
      <3>3. ~ Unused(t)
        <4> SUFFICES ASSUME Unused(t) PROVE FALSE  OBVIOUS
        <4>1. g <= disk[H(s)].gen + NSlots  BY <2>5, <2>6, <2>2, <3>1, <3>2, SlotAssumption
        <4>2. InPlace(s, g) /\ g \in Nat \ {0}  BY <2>1, <2>2, <3>1
        <4>3. g = disk[H(s)].gen + NSlots  BY <2>5, <2>6, <3>2, <4>1, <4>2, SlotPeriod
        <4> QED  BY <2>5, <2>6, <3>2, <4>3, SlotAssumption
      <3>4. Used(t) /\ disk[H(s)].gen < disk[H(t)].gen  BY <2>5, <3>2, <3>3
      <3> QED  BY <2>4, <2>5, <2>6, <3>4 DEF Used, HeaderValid
    <2> QED  BY <2>7, <2>8
  <1>2. RInv /\ PInv /\ [Next]_vars =>
          [\A s \in Slot :
             (HeaderValid(cache, s) /\ cache'[H(s)] # cache[H(s)] /\ pending'[H(s)] # {}) =>
               \A t \in Slot : HeaderValid(cache, t) /\ cache[H(s)].gen <= cache[H(t)].gen]_vars
    BY <1>1
  <1> QED  BY <1>2, PowerInductive, PTL DEF Spec, EvictsOldest

=============================================================================
