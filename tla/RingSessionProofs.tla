------------------------- MODULE RingSessionProofs --------------------------
(***************************************************************************)
(* What a write of a block, a seal or a header makes of the medium, and    *)
(* the steps of RingStore that leave the medium alone: the calls, the      *)
(* acceptance of a record, failures and the end of a session preserve PInv.*)
(***************************************************************************)
EXTENDS RingMediumProofs

-----------------------------------------------------------------------------
(* A block is written *)

\* A frame v, whole or torn, goes to the first position of an unsealed slot that
\* a scan does not admit, with no header or seal on its way.
BlockDue(a, n, v) ==
  /\ Unsealed(a) /\ HeadQuiet(a) /\ SealQuiet(a) /\ \A t \in Slot \ {a} : Quiet(t)
  /\ Scanned(cache, a) = 0 .. n - 1
  /\ \/ v = Torn
     \/ /\ v.writer = writer /\ Follows(cache, v, a, n)
        /\ v.prev <= writer /\ RecsOf(v.recs) \subseteq 1 .. Len(contracts)
        /\ \A i \in Pos : i > n => \A w \in Vals(B(a, i)) :
             (w.kind = "blk" /\ w.gen = disk[H(a)].gen) => w.writer < writer

LEMMA BlockScan ==
  ASSUME MediaInv, MediumInv, NEW a \in Slot, NEW n \in Pos, NEW v, Write(B(a, n), v),
         BlockDue(a, n, v)
  PROVE  /\ Scanned(cache', a) = IF v = Torn THEN 0 .. n - 1 ELSE 0 .. n
         /\ \A i \in Pos : (v # Torn /\ i = n + 1) =>
              \A w \in Vals(B(a, i)) : ~ Follows(cache', w, a, i)
  <1>1. n \in Nat /\ cache[H(a)] = disk[H(a)] /\ Scanned(cache, a) = 0 .. n - 1
    BY Regions, CapAssumption DEF MediumInv, CacheInv, HeadQuiet, BlockDue
  <1>2. /\ cache'[H(a)] = cache[H(a)] /\ cache'[B(a, n)] = v
        /\ \A i \in Pos : i # n => cache'[B(a, i)] = cache[B(a, i)]
    BY WriteEffect, Regions, Apart
  <1> \A j \in 0 .. n - 1 : j \in Scanned(cache', a)
    <2> TAKE j \in 0 .. n - 1
    <2>1. j \in Pos /\ j \in Scanned(cache, a)
          /\ \A i \in 0 .. j : cache'[B(a, i)] = cache[B(a, i)]
      BY <1>1, <1>2, CapAssumption
    <2> QED  BY <1>2, <2>1, ScanAgrees
  <1>4. CASE v = Torn
    <2>1. n \notin Scanned(cache', a)
      BY <1>2, <1>4, ScanFrames DEF Torn
    <2>2. \A i \in Scanned(cache', a) : i \in 0 .. n - 1
      <3> TAKE i \in Scanned(cache', a)
      <3>1. i \in Nat /\ ~ (n \in 0 .. i)  BY <2>1, ScanDown, ScanFrames
      <3> QED  BY <1>1, <3>1
    <2> QED  BY <1>4, <2>2
  <1>5. CASE v # Torn
    <2> /\ v.writer = writer /\ Follows(cache, v, a, n)
        /\ \A i \in Pos : i > n => \A w \in Vals(B(a, i)) :
             (w.kind = "blk" /\ w.gen = disk[H(a)].gen) => w.writer < writer
      BY <1>5 DEF BlockDue
    <2>2. n \in Scanned(cache', a)
      <3>1. n # 0 => n - 1 \in Pos /\ n - 1 \in 0 .. n - 1  BY <1>1, CapAssumption
      <3>2. n # 0 => cache[B(a, n - 1)].kind = "blk" /\ cache'[B(a, n - 1)] = cache[B(a, n - 1)]
        BY <1>1, <1>2, <3>1, ScanFrames
      <3>3. FrameFollows(cache', a, n)
        BY <1>2, <3>2 DEF FrameFollows, Follows
      <3> QED  BY <3>1, <3>3, ScanStep
    <2>3. ASSUME NEW i \in Pos, i = n + 1, NEW w \in Vals(B(a, i)) PROVE ~ Follows(cache', w, a, i)
      <3> SUFFICES ASSUME Follows(cache', w, a, i) PROVE FALSE  OBVIOUS
      <3>1. w.kind = "blk" /\ w.gen = disk[H(a)].gen /\ w.prev = writer
        BY <1>1, <1>2, <2>3 DEF Follows
      <3>2. w.writer < writer /\ w.prev <= w.writer
        BY <1>1, <2>3, <3>1 DEF MediumInv, StampInv
      <3>3. w \in BlockSet  BY <3>1, BlockValues
      <3> QED  BY <3>1, <3>2, <3>3 DEF BlockSet
    <2>4. n + 1 \notin Scanned(cache', a)
      <3> SUFFICES ASSUME n + 1 \in Scanned(cache', a) PROVE FALSE  OBVIOUS
      <3>1. n + 1 \in Pos /\ FrameFollows(cache', a, n + 1)  BY ScanFrames
      <3>2. cache'[B(a, n + 1)] \in Vals(B(a, n + 1))
        BY <1>1, <1>2, <3>1, Regions DEF MediumInv, CacheInv, Vals
      <3>3. Follows(cache', cache'[B(a, n + 1)], a, n + 1)
        BY <1>1, <3>1 DEF FrameFollows, Follows
      <3> QED  BY <2>3, <3>1, <3>2, <3>3
    <2>5. \A i \in Scanned(cache', a) : i \in 0 .. n
      <3> TAKE i \in Scanned(cache', a)
      <3>1. i \in Nat /\ ~ (n + 1 \in 0 .. i)  BY <2>4, ScanDown, ScanFrames
      <3> QED  BY <1>1, <3>1
    <2>6. Scanned(cache', a) = 0 .. n
      <3>1. \A j \in 0 .. n : j = n \/ j \in 0 .. n - 1  BY <1>1
      <3> QED  BY <2>2, <2>5, <3>1
    <2> QED  BY <1>5, <2>3, <2>6
  <1> QED  BY <1>4, <1>5

-----------------------------------------------------------------------------
(* A seal is written *)

\* An index or a footer v is written when the data is flushed.
SealDue(a, r, v) ==
  /\ Unsealed(a) /\ HeadQuiet(a) /\ BlocksQuiet(a) /\ \A t \in Slot \ {a} : Quiet(t)
  /\ (r = F(a) /\ v.kind = "ftr") => v.gen = disk[H(a)].gen /\ Seals(disk, v.ns, a)

LEMMA SealWritten ==
  ASSUME MediaInv, MediumInv, NEW a \in Slot, NEW r \in {I(a), F(a)}, NEW v, Write(r, v),
         UNCHANGED <<writer, contracts>>,
         SealDue(a, r, v)
  PROVE  /\ MediumInv'
         /\ \A s \in Slot : /\ cache'[H(s)] = cache[H(s)] /\ Scanned(cache', s) = Scanned(cache, s)
                            /\ \A i \in Pos : cache'[B(s, i)] = cache[B(s, i)]
  <1>1. r \in Region /\ r[2] = a
    <2>1. I(a)[2] = a /\ F(a)[2] = a  BY DEF I, F
    <2> QED  BY <2>1, Regions
  <1>2. /\ disk' = disk
        /\ \A q \in Region \ {r} : cache'[q] = cache[q] /\ pending'[q] = pending[q]
    BY <1>1, WriteEffect
  <1>3. /\ \A s \in Slot : cache'[H(s)] = cache[H(s)] /\ pending'[H(s)] = pending[H(s)]
        /\ \A s \in Slot, i \in Pos : /\ cache'[B(s, i)] = cache[B(s, i)]
                                      /\ pending'[B(s, i)] = pending[B(s, i)]
    BY <1>2, Regions, Apart
  <1>4. \A s \in Slot : Scanned(cache', s) = Scanned(cache, s)  BY <1>3, ScanSame
  <1>5. \A t \in Slot \ {a} : Quiet(t)'  BY <1>1, OtherSlots DEF SealDue
  <1>6. HeadQuiet(a)' /\ BlocksQuiet(a)' /\ Unsealed(a)'
    BY <1>2, <1>3, SameDisk DEF HeadQuiet, BlocksQuiet, SealDue
  <1>7. CacheInv'  BY <1>1, WriteCache DEF MediumInv
  <1>8. StageInv'  BY <1>5, <1>6 DEF StageInv, Quiet
  <1>9. ComingInv'  BY <1>5, <1>6 DEF Quiet, HeadQuiet, ComingInv
  <1>10. /\ \A s \in Slot, i \in Pos : Vals(B(s, i))' = Vals(B(s, i))
         /\ \A s \in Slot : \A f \in Vals(F(s))' : f \in Vals(F(s)) \/ (s = a /\ r = F(a) /\ f = v)
    BY Apart, WriteEffect, Regions DEF Vals
  <1>11. StampInv'
    <2>1. (r = F(a) /\ v.kind = "ftr") => v.gen = disk[H(a)].gen  BY DEF SealDue
    <2>2. ~ Unused(a) /\ disk[H(a)].gen <= disk[H(a)].gen
      BY HeadValues, BoundsAssumption
      DEF SealDue, Vals, Unsealed, Used, Unused, HeaderValid
    <2>3. \A s \in Slot : \A f \in Vals(F(s))' : f.kind = "ftr" =>
            ~ Unused(s) /\ (Used(s) => f.gen <= disk[H(s)].gen)
      BY <1>10, <2>1, <2>2 DEF MediumInv, StampInv
    <2> QED  BY <1>2, <1>10, <2>3, SameDisk DEF MediumInv, StampInv
  <1>12. FrameInv'
    BY <1>5, <1>6, <1>7, Regions DEF FrameInv, Quiet, BlocksQuiet, Vals, CacheInv
  <1>13. SealInv'  BY <1>2, <1>10, SameDisk DEF MediumInv, SealInv, SealDue
  <1> QED
    BY <1>2, <1>3, <1>4, <1>7, <1>8, <1>9, <1>11, <1>12, <1>13, SameDisk DEF MediumInv

-----------------------------------------------------------------------------
(* A header is written *)

\* A header v, whole or torn, is written when everything is flushed and the
\* partitions that remain are sealed.
HeaderDue(n, v) ==
  /\ \A s \in Slot : Quiet(s) /\ disk[H(s)].kind # "torn"
  /\ \A t \in Slot \ {n} : Used(t) => /\ SealValid(disk, t)
                                      /\ Used(n) => disk[H(n)].gen < disk[H(t)].gen
  /\ v.kind \in {"blank", "blot"} => Unused(n)
  /\ v.kind = "hdr" =>
       /\ Used(n) => disk[H(n)].gen < v.gen
       /\ v.gen = 1 \/ \E t \in Slot \ {n} : Used(t) /\ disk[H(t)].gen = v.gen - 1
       /\ \A t \in Slot \ {n} :
            /\ Used(t) => disk[H(t)].gen < v.gen /\ v.gen < disk[H(t)].gen + NSlots
            /\ Unused(t) => v.gen <= t

LEMMA HeadWritten ==
  ASSUME MediaInv, MediumInv, NEW n \in Slot, NEW v, Write(H(n), v),
         UNCHANGED <<writer, contracts>>, HeaderDue(n, v)
  PROVE  /\ MediumInv'
         /\ \A s \in Slot \ {n} : /\ cache'[H(s)] = cache[H(s)]
                                  /\ Scanned(cache', s) = Scanned(cache, s)
         /\ \A s \in Slot, i \in Pos : cache'[B(s, i)] = cache[B(s, i)]
         /\ cache'[H(n)] = v /\ disk' = disk
  <1>1. H(n) \in Region /\ H(n)[2] = n  BY Regions DEF H
  <1>2. /\ disk' = disk /\ cache'[H(n)] = v /\ pending'[H(n)] = pending[H(n)] \cup {v}
        /\ \A q \in Region \ {H(n)} : cache'[q] = cache[q] /\ pending'[q] = pending[q]
    BY <1>1, WriteEffect
  <1>3. /\ \A s \in Slot : /\ pending'[I(s)] = pending[I(s)] /\ pending'[F(s)] = pending[F(s)]
                           /\ s # n => cache'[H(s)] = cache[H(s)] /\ pending'[H(s)] = pending[H(s)]
        /\ \A s \in Slot, i \in Pos : /\ cache'[B(s, i)] = cache[B(s, i)]
                                      /\ pending'[B(s, i)] = pending[B(s, i)]
    BY <1>2, Regions, Apart
  <1>4. \A s \in Slot \ {n} : Scanned(cache', s) = Scanned(cache, s)  BY <1>3, ScanSame
  <1>5. \A t \in Slot \ {n} : Quiet(t)'  BY <1>1, OtherSlots DEF HeaderDue
  <1>6. \A s \in Slot : SealQuiet(s)' /\ BlocksQuiet(s)'
    BY <1>3 DEF Quiet, SealQuiet, BlocksQuiet, HeaderDue
  <1>7. CacheInv'  BY <1>1, WriteCache DEF MediumInv
  <1>8. StageInv'  BY <1>5, <1>2, <1>6, SameDisk DEF Quiet, StageInv, HeaderDue
  <1>9. ComingInv'  BY <1>5, <1>2, SameDisk DEF Quiet, HeadQuiet, ComingInv, HeaderDue
  <1>10. \A s \in Slot : /\ Vals(F(s))' = Vals(F(s))
                         /\ \A i \in Pos : Vals(B(s, i))' = Vals(B(s, i))
    BY <1>2, <1>3 DEF Vals
  <1>11. StampInv'  BY <1>2, <1>10, SameDisk DEF MediumInv, StampInv
  <1>12. FrameInv'  BY <1>6, <1>7, Regions DEF FrameInv, BlocksQuiet, Vals, CacheInv
  <1>13. SealInv'  BY <1>2, <1>10, SameDisk DEF MediumInv, SealInv
  <1> QED
    BY <1>2, <1>3, <1>4, <1>7, <1>8, <1>9, <1>11, <1>12, <1>13, SameDisk DEF MediumInv

-----------------------------------------------------------------------------
(* Steps that leave the medium alone *)

LEMMA SameMedium ==
  ASSUME MediaInv, MediumInv, UNCHANGED storageVars, writer \in Nat, writer' \in Nat,
         writer <= writer', Len(contracts) \in Nat, Len(contracts') \in Nat,
         Len(contracts) <= Len(contracts')
  PROVE  MediumInv'
  <1> UNCHANGED <<cache, disk, pending>>  BY DEF storageVars
  <1>2. CacheInv'  BY DEF MediumInv, CacheInv
  <1>3. StageInv'
    BY DEF MediumInv, StageInv, Quiet, HeadQuiet, SealQuiet, BlocksQuiet, Unsealed, Used
  <1>4. HeaderInv'  BY DEF MediumInv, HeaderInv, Used, Unused
  <1>5. ComingInv'  BY DEF MediumInv, ComingInv, Used, Unused
  <1>6. StampInv'
    <2>1. \A s \in Slot : /\ Vals(F(s))' = Vals(F(s)) /\ Used(s)' = Used(s)
                          /\ Unused(s)' = Unused(s)
                          /\ \A i \in Pos : Vals(B(s, i))' = Vals(B(s, i))
      BY DEF Vals, Used, Unused
    <2>2. 1 .. Len(contracts) \subseteq 1 .. Len(contracts')  OBVIOUS
    <2>3. \A s \in Slot : \A i \in Pos : \A v \in Vals(B(s, i)) :
            (v.kind = "blk" /\ v.writer <= writer) => v.writer <= writer'
      BY BlockValues DEF BlockSet
    <2> QED  BY <2>1, <2>2, <2>3 DEF MediumInv, StampInv
  <1>7. FrameInv'  BY DEF MediumInv, FrameInv, Used, HeadQuiet, Vals
  <1>8. SealInv'  BY DEF MediumInv, SealInv, Used, Vals
  <1> QED  BY <1>2, <1>3, <1>4, <1>5, <1>6, <1>7, <1>8 DEF MediumInv

\* With everything flushed, what is stored is kept.
LEMMA AllQuiet ==
  ASSUME MediumInv, \A s \in Slot : Quiet(s)
  PROVE  /\ Stored(cache) = Stored(disk) /\ Kept = Stored(disk)
         /\ \A s \in Slot : /\ Frames(cache, s) = Frames(disk, s) /\ cache[H(s)] = disk[H(s)]
                            /\ cache[F(s)] = disk[F(s)]
                            /\ \A i \in Pos : cache[B(s, i)] = disk[B(s, i)]
  <1> \A s \in Slot : /\ cache[H(s)] = disk[H(s)] /\ cache[F(s)] = disk[F(s)]
                        /\ \A i \in Pos : cache[B(s, i)] = disk[B(s, i)]
    BY Regions DEF MediumInv, CacheInv, Quiet, HeadQuiet, SealQuiet, BlocksQuiet
  <1>2. \A s \in Slot : Frames(cache, s) = Frames(disk, s)
    BY ScanSame DEF Frames, HeaderValid
  <1>3. \A s \in Slot : Frames(disk, s) \subseteq Pos  BY DEF Frames, Scanned
  <1>4. \A s \in Slot : Recs(cache, s) = Recs(disk, s)  BY <1>2, <1>3 DEF Recs
  <1> QED  BY <1>2, <1>4 DEF Stored, Kept, Quiet

\* The records a step leaves where they are.
LEMMA SameRecords ==
  ASSUME UNCHANGED <<storageVars, contracts>>
  PROVE  /\ Stored(cache)' = Stored(cache) /\ Kept' = Kept
         /\ Ordered(cache)' = Ordered(cache) /\ Ordered(disk)' = Ordered(disk)
         /\ Contracted(cache)' = Contracted(cache) /\ Contracted(disk)' = Contracted(disk)
  <1>1. UNCHANGED <<cache, disk, pending, contracts>>  BY DEF storageVars
  <1> QED  BY <1>1, SameKept DEF Contracted

-----------------------------------------------------------------------------
(* The first state, and the end of a session *)

LEMMA InitPInv == ASSUME Init PROVE PInv
  <1>1. \A s \in Slot :
          /\ cache[H(s)] = Blank /\ disk[H(s)] = Blank /\ disk[F(s)] = Blank
          /\ \A i \in Pos : disk[B(s, i)] = Blank
          /\ pending[H(s)] = {} /\ pending[I(s)] = {} /\ pending[F(s)] = {}
          /\ \A i \in Pos : pending[B(s, i)] = {}
    BY Regions DEF Init, StorageInit
  <1>2. \A s \in Slot : /\ Quiet(s) /\ HeadQuiet(s) /\ SealQuiet(s) /\ BlocksQuiet(s)
                        /\ ~ Used(s) /\ ~ HeaderValid(cache, s) /\ ~ HeaderValid(disk, s)
    BY <1>1 DEF Quiet, HeadQuiet, SealQuiet, BlocksQuiet, Used, HeaderValid, Blank
  <1>3. \A s \in Slot : /\ \A v \in Vals(F(s)) : v.kind # "ftr"
                        /\ \A i \in Pos : \A v \in Vals(B(s, i)) : v.kind # "blk"
    BY <1>1 DEF Vals, Blank
  <1>4. CacheInv  BY DEF Init, StorageInit, CacheInv
  <1>5. StageInv /\ HeaderInv /\ FrameInv /\ SealInv
    BY <1>2 DEF StageInv, HeaderInv, FrameInv, SealInv
  <1>6. ComingInv /\ StampInv  BY <1>1, <1>3 DEF ComingInv, StampInv
  <1>7. /\ Stored(cache) = {} /\ Ordered(cache) /\ Ordered(disk)
        /\ Contracted(cache) /\ Contracted(disk)
    BY <1>2 DEF Stored, Recs, Frames, Ordered, Contracted
  <1>8. RecsOf(builder) = {} /\ RecsOf(accepted) = {} /\ promised = {}
    BY DEF Init, RecsOf
  <1>9. RecordInv  BY <1>7, <1>8 DEF RecordInv, AccountInv, BuilderInv
  <1> QED
    BY <1>4, <1>5, <1>6, <1>9 DEF Init, PInv, MediumInv, CatInv, ActInv, PhaseInv

LEMMA DiscardPInv ==
  ASSUME Discard, MediumInv', Ordered(cache)', Ordered(disk)', Contracted(cache)',
         Contracted(disk)', promised' \ evicted' \subseteq Kept'
  PROVE  PInv'
  <1>1. RecsOf(builder') = {} /\ RecsOf(accepted') = {}  BY DEF Discard, RecsOf
  <1>2. RecordInv'  BY <1>1 DEF RecordInv, AccountInv, BuilderInv
  <1> QED  BY <1>2 DEF Discard, PInv, CatInv, ActInv, PhaseInv

LEMMA DropPInv == ASSUME RInv, PInv, Drop PROVE PInv'
  <1>1. UNCHANGED <<storageVars, contracts, writer, promised, evicted>> /\ Discard
    BY DEF Drop, history
  <1>2. MediumInv'  BY <1>1, SameMedium DEF RInv, SessionOK, PInv
  <1> QED  BY <1>1, <1>2, SameRecords, DiscardPInv DEF PInv, RecordInv, AccountInv

-----------------------------------------------------------------------------
(* Steps without I/O, and failures *)

\* A step that changes neither the medium nor the catalogue.
LEMMA StayPInv ==
  ASSUME RInv, PInv, UNCHANGED <<storageVars, up, cat, act, writer, builder, dirty, accepted,
                                 evicted, contracts>>,
         faulted => faulted', PhaseInv', promised' \ evicted \subseteq Kept
  PROVE  PInv'
  <1>1. MediumInv'  BY SameMedium DEF RInv, SessionOK, PInv
  <1>2. CatInv'  BY DEF PInv, CatInv, storageVars, Used
  <1>3. ActInv'  BY DEF PInv, ActInv, storageVars, Vals
  <1>4. AccountInv'  BY SameRecords DEF PInv, RecordInv, AccountInv
  <1>5. BuilderInv'  BY SameRecords DEF PInv, RecordInv, BuilderInv
  <1>6. RecordInv'  BY <1>4, <1>5, SameRecords DEF PInv, RecordInv
  <1> QED  BY <1>1, <1>2, <1>3, <1>6 DEF PInv

\* A failed step, which may have changed the cache.
LEMMA FailPInv ==
  ASSUME RInv, PInv, pc # "idle", Fail, MediumInv', UNCHANGED <<disk, writer, contracts, promised>>,
         Ordered(cache)', Contracted(cache)', evicted \subseteq evicted',
         Kept \subseteq Kept' \cup evicted', Stored(cache) \subseteq Stored(cache)' \cup evicted',
         Stored(cache)' \subseteq Stored(cache)
  PROVE  PInv'
  <1>1. Ordered(disk)' /\ Contracted(disk)'
    BY DEF PInv, RecordInv, Ordered, Contracted, Frames
  <1>2. promised' \ evicted' \subseteq Kept'  BY DEF PInv, RecordInv, AccountInv
  <1>3. CASE op.kind = "open"  BY <1>1, <1>2, <1>3, DiscardPInv DEF Fail
  <1>4. CASE op.kind # "open"
    <2> faulted' /\ UNCHANGED <<up, cat, act, builder, dirty, accepted>>
      BY <1>4 DEF Fail
    <2>2. CatInv'  BY DEF PInv, CatInv, Used
    <2>3. ActInv' /\ PhaseInv'  BY DEF ActInv, PhaseInv
    <2>4. AccountInv'  BY <1>2 DEF PInv, RecordInv, AccountInv
    <2>5. BuilderInv'  BY DEF PInv, RecordInv, BuilderInv
    <2> QED  BY <1>1, <2>2, <2>3, <2>4, <2>5 DEF PInv, RecordInv
  <1> QED  BY <1>3, <1>4

\* A failure without I/O.
LEMMA QuietFailPInv ==
  ASSUME RInv, PInv, pc # "idle", Fail, UNCHANGED <<storageVars, writer, history>>
  PROVE  PInv'
  <1> UNCHANGED <<contracts, promised, evicted>> /\ UNCHANGED disk  BY DEF history, storageVars
  <1>2. MediumInv'  BY SameMedium DEF RInv, SessionOK, PInv
  <1>3. Ordered(cache)' /\ Contracted(cache)' /\ Kept' = Kept /\ Stored(cache)' = Stored(cache)
    BY SameRecords DEF PInv, RecordInv
  <1> QED  BY <1>2, <1>3, FailPInv

-----------------------------------------------------------------------------
(* Calls *)

\* Outside the sealing and creating steps of a rotation only blocks of the
\* active partition may be unflushed, and only when the store knows it.
LEMMA OnlyBlocks ==
  ASSUME PInv, up, ~ faulted, pc \notin AfterData
  PROVE  \A s \in Slot : HeadQuiet(s) /\ SealQuiet(s) /\ (BlocksQuiet(s) \/ (dirty /\ s = act))
  BY DEF PInv, PhaseInv, AfterData

LEMMA StayPhase ==
  ASSUME PInv, up, ~ faulted, pc \notin AfterData, pc' \notin AfterData,
         UNCHANGED <<storageVars, act, dirty>>, pc' = "sync" => builder' = <<>>
  PROVE  PhaseInv'
  <1>1. \A s \in Slot : /\ HeadQuiet(s)' /\ SealQuiet(s)'
                        /\ BlocksQuiet(s)' \/ (dirty' /\ s = act')
    BY OnlyBlocks DEF HeadQuiet, SealQuiet, BlocksQuiet, storageVars
  <1> QED  BY <1>1 DEF PhaseInv, AfterData, Creating

\* With nothing dirty and nothing being built, all that was accepted is kept.
LEMMA AcceptedKept ==
  ASSUME PInv, up, ~ faulted, pc \notin AfterData, builder = <<>>, ~ dirty
  PROVE  RecsOf(accepted) \ evicted \subseteq Kept
  <1>1. \A s \in Slot : Quiet(s)  BY OnlyBlocks DEF Quiet
  <1>2. Stored(cache) = Kept  BY <1>1, AllQuiet DEF PInv
  <1>3. RecsOf(builder) = {}  BY DEF RecsOf
  <1> QED  BY <1>2, <1>3 DEF PInv, RecordInv, AccountInv

LEMMA CallPInv ==
  ASSUME RInv, PInv, Ready, pc' \notin AfterData, pc' = "sync" => builder = <<>>,
         UNCHANGED <<storageVars, up, faulted, cat, act, writer, builder, dirty, accepted,
                     evicted, contracts>>,
         promised' = promised \/ (/\ builder = <<>> /\ ~ dirty
                                  /\ promised' = promised \cup RecsOf(accepted))
  PROVE  PInv'
  <1> up /\ ~ faulted /\ pc \notin AfterData  BY DEF Ready, AfterData
  <1>2. PhaseInv'  BY StayPhase
  <1>3. promised' \ evicted \subseteq Kept
    BY AcceptedKept DEF PInv, RecordInv, AccountInv
  <1> QED  BY <1>2, <1>3, StayPInv

LEMMA CallsPInv == ASSUME RInv, PInv, Call PROVE PInv'
  <1>1. ASSUME NEW c \in Options \cup {NoContract}, AppendImpl(c) PROVE PInv'
    BY <1>1, CallPInv DEF AppendImpl, Begin, Onward, AfterData, history
  <1>2. CASE Publish
    BY <1>2, CallPInv DEF Publish, Begin, AfterData, history
  <1>3. CASE Checkpoint
    BY <1>3, CallPInv DEF Checkpoint, Begin, Onward, AfterData
  <1>4. CASE Close
    BY <1>4, CallPInv DEF Close, Begin, Onward, AfterData
  <1>5. ASSUME NEW o \in Options, Rotate(o) PROVE PInv'
    BY <1>5, CallPInv DEF Rotate, Begin, AfterData, history
  <1>6. ASSUME NEW o \in Options, SetNextPartitionOptions(o) PROVE PInv'
    BY <1>6, CallPInv DEF SetNextPartitionOptions, Ready, AfterData, history
  <1> QED  BY <1>1, <1>2, <1>3, <1>4, <1>5, <1>6 DEF Call

LEMMA AtAccept ==
  ASSUME RInv, pc \in {"accept", "emit", "sync", "rotate", "sealSync"}
  PROVE  up /\ ~ faulted /\ op.kind # "open" /\ pc \notin AfterData
  <1>1. up /\ ~ faulted /\ op.kind \in CallersOf(pc)  BY DEF RInv, ControlInv
  <1> QED  BY <1>1 DEF CallersOf, Sealing, Creating, AfterData

LEMMA RejectRecordPInv == ASSUME RInv, PInv, RejectRecord PROVE PInv'
  <1>1. up /\ ~ faulted /\ pc \notin AfterData  BY AtAccept DEF RejectRecord
  <1>2. PhaseInv'  BY <1>1, StayPhase DEF RejectRecord, Goto, AfterData
  <1> QED  BY <1>2, StayPInv DEF RejectRecord, history, PInv, RecordInv, AccountInv

LEMMA RotateInternalPInv == ASSUME RInv, PInv, RotateInternal PROVE PInv'
  <1>1. up /\ ~ faulted /\ pc \notin AfterData  BY AtAccept DEF RotateInternal
  <1>2. /\ \A s \in Slot : /\ HeadQuiet(s)' /\ SealQuiet(s)'
                           /\ BlocksQuiet(s)' \/ (dirty' /\ s = act')
        /\ pc' \in {"sealSync", "index", "footer"} /\ (pc' \in {"index", "footer"} => ~ dirty')
    BY <1>1, OnlyBlocks DEF RotateInternal, Goto, HeadQuiet, SealQuiet, BlocksQuiet, storageVars
  <1>3. PhaseInv'  BY <1>2 DEF PhaseInv, AfterData, Creating
  <1> QED  BY <1>3, StayPInv DEF RotateInternal, history, PInv, RecordInv, AccountInv

LEMMA GenerationExhaustedPInv == ASSUME RInv, PInv, GenerationExhausted PROVE PInv'
  BY QuietFailPInv DEF GenerationExhausted

LEMMA FlushFailsPInv == ASSUME RInv, PInv, FlushFails PROVE PInv'
  BY QuietFailPInv DEF FlushFails, FlushError

-----------------------------------------------------------------------------
(* Accepting a record *)

LEMMA RecsAppend ==
  ASSUME NEW S, NEW seq \in Seq(S), NEW x \in S
  PROVE  RecsOf(Append(seq, x)) = RecsOf(seq) \cup {x}
  <1> /\ Len(seq) \in Nat /\ Len(Append(seq, x)) = Len(seq) + 1
      /\ \A k \in 1 .. Len(seq) : Append(seq, x)[k] = seq[k]
      /\ Append(seq, x)[Len(seq) + 1] = x
    OBVIOUS
  <1> HIDE DEF RecsOf
  <1>2. ASSUME NEW y \in RecsOf(Append(seq, x)) PROVE y \in RecsOf(seq) \cup {x}
    <2>1. PICK k \in 1 .. Len(seq) + 1 : y = Append(seq, x)[k]  BY DEF RecsOf
    <2>2. CASE k = Len(seq) + 1  BY <2>1, <2>2
    <2>3. CASE k # Len(seq) + 1
      <3>1. k \in 1 .. Len(seq)  BY <2>3
      <3> QED  BY <2>1, <3>1 DEF RecsOf
    <2> QED  BY <2>2, <2>3
  <1>3. ASSUME NEW y \in RecsOf(seq) \cup {x} PROVE y \in RecsOf(Append(seq, x))
    <2>1. CASE y = x
      <3>1. Len(seq) + 1 \in 1 .. Len(Append(seq, x))  OBVIOUS
      <3> QED  BY <2>1, <3>1 DEF RecsOf
    <2>2. CASE y \in RecsOf(seq)
      <3>1. PICK k \in 1 .. Len(seq) : y = seq[k]  BY <2>2 DEF RecsOf
      <3>2. k \in 1 .. Len(Append(seq, x))  OBVIOUS
      <3> QED  BY <3>1, <3>2 DEF RecsOf
    <2> QED  BY <2>1, <2>2
  <1> QED  BY <1>2, <1>3

\* What is stored has been accepted.
LEMMA StoredBounded ==
  ASSUME MediumInv, NEW img, Possible(img), NEW s \in Slot, NEW i \in Frames(img, s)
  PROVE  RecsOf(img[B(s, i)].recs) \subseteq 1 .. Len(contracts)
  <1>1. i \in Pos /\ img[B(s, i)].kind = "blk"
    <2>1. i \in Scanned(img, s)  BY DEF Frames
    <2> QED  BY <2>1, ScanFrames
  <1>2. img[B(s, i)] \in Vals(B(s, i)) \cup {Torn}  BY <1>1, PossibleValues
  <1>3. img[B(s, i)] # Torn  BY <1>1 DEF Torn
  <1> QED  BY <1>1, <1>2, <1>3 DEF MediumInv, StampInv

\* More contracts leave those of the stored records as they were.
LEMMA ContractedMore ==
  ASSUME MediumInv, NEW img, Possible(img), Contracted(img), NEW more,
         \A r \in 1 .. Len(contracts) : more[r] = contracts[r]
  PROVE  \A s \in Slot : \A i \in Frames(img, s) : \A r \in RecsOf(img[B(s, i)].recs) :
           more[r] \in {NoContract, img[H(s)].opts}
  <1> SUFFICES ASSUME NEW s \in Slot, NEW i \in Frames(img, s), NEW r \in RecsOf(img[B(s, i)].recs)
               PROVE  more[r] \in {NoContract, img[H(s)].opts}
    OBVIOUS
  <1>1. r \in 1 .. Len(contracts)  BY StoredBounded
  <1>2. contracts[r] \in {NoContract, img[H(s)].opts}  BY DEF Contracted
  <1> QED  BY <1>1, <1>2

LEMMA AcceptRecordPInv == ASSUME RInv, PInv, AcceptRecord PROVE PInv'
  <1> DEFINE r == Len(contracts) + 1
  <1>1. /\ UNCHANGED <<storageVars, promised, evicted, up, faulted, cat, act, writer, dirty>>
        /\ builder' = Append(builder, r) /\ accepted' = Append(accepted, r)
        /\ contracts' = Append(contracts, op.arg) /\ pc' = "idle"
        /\ op.arg \in {NoContract, cat[act].opts}
    BY DEF AcceptRecord, Goto
  <1>2. up /\ ~ faulted /\ pc \notin AfterData  BY AtAccept DEF AcceptRecord
  <1>3. /\ builder \in Seq(Nat) /\ accepted \in Seq(Nat) /\ Len(contracts) \in Nat
        /\ Len(contracts') = Len(contracts) + 1 /\ contracts'[r] = op.arg
        /\ \A k \in 1 .. Len(contracts) : contracts'[k] = contracts[k]
        /\ r \in Nat /\ writer \in Nat
    BY <1>1 DEF RInv, SessionOK
  <1> HIDE DEF r
  <1>4. MediumInv /\ CatInv /\ ActInv /\ RecordInv  BY DEF PInv
  <1>5. UNCHANGED <<cache, disk, pending>>  BY <1>1 DEF storageVars
  <1>6. MediumInv'
    <2>1. Len(contracts) <= Len(contracts') /\ writer <= writer'  BY <1>1, <1>3
    <2> QED  BY <1>1, <1>3, <1>4, <2>1, SameMedium DEF RInv
  <1>7. CatInv' /\ ActInv'
    <2>1. CatInv'  BY <1>1, <1>2, <1>4, <1>5 DEF CatInv, Used
    <2>2. ActInv'  BY <1>1, <1>2, <1>4, <1>5 DEF ActInv, Vals
    <2> QED  BY <2>1, <2>2
  <1>8. PhaseInv'  BY <1>1, <1>2, StayPhase DEF AfterData
  <1>9. /\ Stored(cache)' = Stored(cache) /\ Kept' = Kept
        /\ Ordered(cache)' = Ordered(cache) /\ Ordered(disk)' = Ordered(disk)
    BY <1>5, SameKept
  <1>10. Contracted(cache)'
    <2>1. Possible(cache) /\ Contracted(cache)
      BY <1>4, CachePossible DEF MediumInv, RecordInv
    <2>2. \A s \in Slot : \A i \in Frames(cache, s) : \A x \in RecsOf(cache[B(s, i)].recs) :
            contracts'[x] \in {NoContract, cache[H(s)].opts}
      BY <1>3, <1>4, <2>1, ContractedMore
    <2> QED  BY <1>5, <2>2 DEF Contracted, Frames
  <1>11. Contracted(disk)'
    <2>1. \A s \in Slot : \A i \in Frames(disk, s) : \A x \in RecsOf(disk[B(s, i)].recs) :
            contracts'[x] \in {NoContract, disk[H(s)].opts}
      BY <1>3, <1>4, DiskPossible, ContractedMore DEF RecordInv
    <2> QED  BY <1>5, <2>1 DEF Contracted, Frames
  <1>12. /\ RecsOf(builder') = RecsOf(builder) \cup {r}
         /\ RecsOf(accepted') = RecsOf(accepted) \cup {r}
    <2>1. builder \in Seq(Nat) /\ accepted \in Seq(Nat) /\ r \in Nat  BY <1>3
    <2>2. RecsOf(Append(builder, r)) = RecsOf(builder) \cup {r}  BY <2>1, RecsAppend
    <2>3. RecsOf(Append(accepted, r)) = RecsOf(accepted) \cup {r}  BY <2>1, RecsAppend
    <2> QED  BY <1>1, <2>2, <2>3
  <1>13. AccountInv'
    BY <1>1, <1>4, <1>9, <1>12 DEF RecordInv, AccountInv
  <1>14. BuilderInv'
    <2> SUFFICES ASSUME NEW b \in RecsOf(builder')
                 PROVE  /\ b \in 1 .. Len(contracts')
                        /\ contracts'[b] \in {NoContract, cat[act].opts}
                        /\ \A a \in Stored(cache) : a < b
      BY <1>1, <1>9 DEF BuilderInv
    <2>1. CASE b \in RecsOf(builder)
      <3>1. /\ b \in 1 .. Len(contracts) /\ contracts[b] \in {NoContract, cat[act].opts}
            /\ \A a \in Stored(cache) : a < b
        BY <1>4, <2>1 DEF RecordInv, BuilderInv
      <3>2. b \in 1 .. Len(contracts') /\ contracts'[b] = contracts[b]  BY <1>3, <3>1
      <3> QED  BY <3>1, <3>2
    <2>2. CASE b = r
      <3>1. \A a \in Stored(cache) : a \in 1 .. Len(contracts)
        BY <1>4, CachePossible, StoredBounded DEF Stored, Recs, MediumInv
      <3> QED  BY <1>1, <1>3, <2>2, <3>1 DEF r
    <2> QED  BY <1>12, <2>1, <2>2
  <1> QED  BY <1>4, <1>6, <1>7, <1>8, <1>9, <1>10, <1>11, <1>13, <1>14 DEF PInv, RecordInv

=============================================================================
