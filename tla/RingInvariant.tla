--------------------------- MODULE RingInvariant ----------------------------
(***************************************************************************)
(* The inductive invariants of RingStore.  RInv holds whatever restarts are*)
(* admitted: what the regions hold, and the control state of the calls.    *)
(* PInv, from which the durability theorems follow, holds when a volume is *)
(* opened only over a medium without unflushed writes: after a power cut, or*)
(* after sessions that left nothing unflushed.                             *)
(***************************************************************************)
EXTENDS RingStore

\* What a region may hold: a header names a generation of its slot.
Sound(r) ==
  {v \in Contents(r) : (r[1] = "hdr" /\ v.kind = "hdr") => InPlace(r[2], v.gen)}

MediaInv ==
  /\ DOMAIN cache = Region /\ DOMAIN disk = Region /\ DOMAIN pending = Region
  /\ \A r \in Region : /\ cache[r] \in Sound(r) /\ disk[r] \in Sound(r)
                       /\ pending[r] \subseteq Sound(r)

\* The steps of a rotation, and those past its check of the generation.
Creating == {"header", "headerSync"}
Sealing  == {"sealSync", "index", "footer", "footerSync"}
Rotating == {"rotate"} \cup Sealing \cup Creating

\* The calls a step may belong to.
CallersOf(p) ==
  CASE p = "emit"   -> {"append", "publish", "checkpoint", "close", "rotate"}
    [] p = "sync"   -> {"checkpoint", "close"}
    [] p = "accept" -> {"append"}
    [] p \in {"rotate"} \cup Sealing -> {"append", "rotate"}
    [] p \in Creating -> {"append", "rotate", "open"}

\* Where a call may be, and in what state of the session.
ControlInv ==
  /\ pc # "idle" => up /\ ~ faulted /\ op.kind \in CallersOf(pc)
  /\ pc = "idle" => op = NoOp
  /\ op.kind = "rotate" => op.arg \in Options
  /\ up => nextOpts \in Options
  /\ ~ up => builder = <<>> /\ ~ faulted /\ ~ closed
  /\ pc = "emit" => builder # <<>>
  /\ pc \in Rotating => builder = <<>>

\* The active partition: it exists once the store is open, has a successor
\* when it is sealed, takes no records after that, and has room for the block
\* under construction.
ActiveInv ==
  /\ up => cat[act].gen # 0 \/ (Empty /\ op.kind = "open")
  /\ pc \in Sealing \cup Creating => Empty \/ cat[act].gen < MaxGen
  /\ (up /\ cat[act].sealed) => faulted \/ pc \in Creating
  /\ builder # <<>> => ~ Full /\ ~ cat[act].sealed
  /\ pc = "accept" => builder # <<>> \/ ~ Full

CatInPlace == \A s \in Slot : cat[s].gen # 0 => InPlace(s, cat[s].gen)

RInv == MediaInv /\ SessionOK /\ ControlInv /\ ActiveInv /\ CatInPlace

-----------------------------------------------------------------------------
(* The medium: what is flushed, and what is on its way *)

HeadQuiet(s)   == pending[H(s)] = {}
SealQuiet(s)   == pending[I(s)] = {} /\ pending[F(s)] = {}
BlocksQuiet(s) == \A i \in Pos : pending[B(s, i)] = {}
Quiet(s)       == HeadQuiet(s) /\ SealQuiet(s) /\ BlocksQuiet(s)

\* The values, apart from torn ones, that region r may hold after a power cut.
Vals(r) == {disk[r]} \cup pending[r]

\* Reading returns the last value written.
CacheInv ==
  \A r \in Region : IF pending[r] = {} THEN cache[r] = disk[r] ELSE cache[r] \in pending[r]

Used(s)     == HeaderValid(disk, s)
Unused(s)   == disk[H(s)].kind \in {"blank", "blot"}
Unsealed(s) == Used(s) /\ ~ SealValid(disk, s)

\* Unflushed writes are all in one slot, and all of one stage: blocks, or the
\* seal, of the partition being written, or the header that replaces the
\* oldest partition, when all the others are sealed.
StageInv ==
  \A s \in Slot :
    /\ \A t \in Slot \ {s} : Quiet(s) \/ Quiet(t)
    /\ ~ BlocksQuiet(s) => HeadQuiet(s) /\ SealQuiet(s) /\ Unsealed(s)
    /\ ~ SealQuiet(s) => HeadQuiet(s) /\ Unsealed(s)
    /\ ~ HeadQuiet(s) =>
         \A t \in Slot \ {s} : Used(t) =>
           SealValid(disk, t) /\ (Used(s) => disk[H(s)].gen < disk[H(t)].gen)

\* The partitions on the medium: consecutive generations, fewer than NSlots
\* apart, in slots filled from the first, and only the newest unsealed.
HeaderInv ==
  \A s, t \in Slot : Used(s) =>
    /\ Used(t) => /\ disk[H(t)].gen < disk[H(s)].gen + NSlots
                  /\ disk[H(s)].gen < disk[H(t)].gen => SealValid(disk, s)
                  /\ \A g \in disk[H(s)].gen .. disk[H(t)].gen :
                       \E u \in Slot : Used(u) /\ disk[H(u)].gen = g
    /\ Unused(t) => disk[H(s)].gen <= t

\* A header on its way carries the generation after the newest, and what may
\* be left of it in a slot never used still shows no sign of the volume.
ComingInv ==
  \A s \in Slot : \A v \in pending[H(s)] :
    /\ disk[H(s)].kind # "torn" /\ (v.kind \in {"blank", "blot"} => Unused(s))
    /\ v.kind = "hdr" =>
         /\ Used(s) => disk[H(s)].gen < v.gen
         /\ v.gen = 1 \/ \E t \in Slot \ {s} : Used(t) /\ disk[H(t)].gen = v.gen - 1
         /\ \A t \in Slot \ {s} :
              /\ Used(t) => disk[H(t)].gen < v.gen /\ v.gen < disk[H(t)].gen + NSlots
              /\ Unused(t) => v.gen <= t

\* No block or footer is of a later generation than its slot, and no block of
\* a later session than this one.
StampInv ==
  \A s \in Slot :
    /\ \A i \in Pos : \A v \in Vals(B(s, i)) : v.kind = "blk" =>
         /\ ~ Unused(s) /\ (Used(s) => v.gen <= disk[H(s)].gen)
         /\ v.prev <= v.writer /\ v.writer <= writer
         /\ RecsOf(v.recs) \subseteq 1 .. Len(contracts)
    /\ \A v \in Vals(F(s)) : v.kind = "ftr" =>
         ~ Unused(s) /\ (Used(s) => v.gen <= disk[H(s)].gen)

\* Frame v would follow the frame that precedes position i of slot s.
Follows(img, v, s, i) ==
  /\ v.kind = "blk" /\ v.gen = img[H(s)].gen /\ v.seq = i
  /\ v.prev = IF i = 0 THEN 0 ELSE img[B(s, i - 1)].writer

\* A frame that a scan of the flushed medium admits is not written again; and
\* in place of a frame that a scan admits, a power cut leaves none that the
\* scan would admit in its stead.
FrameInv ==
  \A s \in Slot : (Used(s) /\ HeadQuiet(s)) => \A i \in Pos :
    /\ i \in Scanned(disk, s) => pending[B(s, i)] = {}
    /\ (i = 0 \/ i - 1 \in Scanned(cache, s)) =>
         \A v \in Vals(B(s, i)) : v = cache[B(s, i)] \/ ~ Follows(cache, v, s, i)

\* A seal, also one on its way, covers exactly the flushed frames.
Seals(img, ns, s) ==
  /\ Scanned(img, s) = 0 .. Len(ns) - 1
  /\ \A i \in 0 .. Len(ns) - 1 : Len(img[B(s, i)].recs) = ns[i + 1]

SealInv ==
  \A s \in Slot : Used(s) =>
    \A f \in Vals(F(s)) : (f.kind = "ftr" /\ f.gen = disk[H(s)].gen) => Seals(disk, f.ns, s)

MediumInv == CacheInv /\ StageInv /\ HeaderInv /\ ComingInv /\ StampInv /\ FrameInv /\ SealInv

-----------------------------------------------------------------------------
(* The records *)

\* The frames of a partition and their records.  That a query delivers these,
\* and no others, follows from SealInv.
Frames(img, s) == IF HeaderValid(img, s) THEN Scanned(img, s) ELSE {}
Recs(img, s)   == UNION {RecsOf(img[B(s, i)].recs) : i \in Frames(img, s)}
Stored(img)    == UNION {Recs(img, s) : s \in Slot}

\* What a power cut cannot take.
Kept == UNION {Recs(disk, s) : s \in {t \in Slot : HeadQuiet(t)}}

Ordered(img) ==
  \A s, t \in Slot : \A i \in Frames(img, s), j \in Frames(img, t) :
    (img[H(s)].gen < img[H(t)].gen \/ (s = t /\ i < j)) =>
      \A a \in RecsOf(img[B(s, i)].recs), b \in RecsOf(img[B(t, j)].recs) : a < b

Contracted(img) ==
  \A s \in Slot : \A i \in Frames(img, s) : \A r \in RecsOf(img[B(s, i)].recs) :
    contracts[r] \in {NoContract, img[H(s)].opts}

-----------------------------------------------------------------------------
(* The session *)

\* The catalogue is that of the flushed medium, and act its newest partition.
CatInv ==
  IF up
  THEN \A s \in Slot :
         /\ disk[H(s)].kind # "torn"
         /\ IF Used(s) THEN /\ cat[s].gen = disk[H(s)].gen /\ cat[s].opts = disk[H(s)].opts
                            /\ cat[s].sealed = SealValid(disk, s)
            ELSE cat[s] = Absent
         /\ cat[s].gen <= cat[act].gen
  ELSE ~ dirty /\ accepted = <<>>

\* The blocks the catalogue lists are those a scan admits; what else the
\* partition holds of its generation is of an earlier session.
ActInv ==
  (up /\ ~ faulted /\ cat[act].gen # 0 /\ ~ cat[act].sealed) =>
    /\ Scanned(cache, act) = 0 .. Len(cat[act].blocks) - 1
    /\ \A k \in 1 .. Len(cat[act].blocks) :
         /\ cat[act].blocks[k].writer = cache[B(act, k - 1)].writer
         /\ cat[act].blocks[k].n = Len(cache[B(act, k - 1)].recs)
    /\ \A i \in Pos : i >= Len(cat[act].blocks) =>
         \A v \in Vals(B(act, i)) : (v.kind = "blk" /\ v.gen = cat[act].gen) => v.writer < writer

\* The steps of a rotation that follow the flush of the data.
AfterData == {"index", "footer", "footerSync", "header", "headerSync"}

\* What may be unflushed at each step.
PhaseInv ==
  (up /\ ~ faulted) =>
    /\ \A s \in Slot : /\ HeadQuiet(s) \/ (pc = "headerSync" /\ s = TargetSlot)
                       /\ SealQuiet(s) \/ (pc \in {"footer", "footerSync"} /\ s = act)
                       /\ BlocksQuiet(s) \/ (dirty /\ s = act)
    /\ pc \in AfterData => ~ dirty
    /\ pc = "footerSync" => cache[F(act)] = Footer(cat[act].gen, BlockSizes(cat[act].blocks))
    /\ pc = "headerSync" => cache[H(TargetSlot)] = Header(TargetGen, nextOpts)
    /\ pc \in Creating => Empty \/ cat[act].sealed
    /\ pc = "sync" => builder = <<>>

\* What was accepted is being built, stored or evicted, and what was promised
\* is where a power cut cannot take it.
AccountInv ==
  /\ RecsOf(accepted) \subseteq RecsOf(builder) \cup Stored(cache) \cup evicted
  /\ promised \ evicted \subseteq Kept

BuilderInv ==
  \A b \in RecsOf(builder) :
    /\ b \in 1 .. Len(contracts) /\ contracts[b] \in {NoContract, cat[act].opts}
    /\ \A a \in Stored(cache) : a < b

RecordInv ==
  /\ AccountInv /\ BuilderInv
  /\ Ordered(cache) /\ Ordered(disk)
  /\ Contracted(cache) /\ Contracted(disk)

PInv == MediumInv /\ CatInv /\ ActInv /\ PhaseInv /\ RecordInv

=============================================================================
