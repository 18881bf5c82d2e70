----------------------------- MODULE RingStore -----------------------------
(***************************************************************************)
(* The writing side of tfdb::RingStore over one Storage: recovery in       *)
(* open(), append, publish, checkpoint, rotate, close, the seal/create     *)
(* sequence of a rotation, and the ways a session can end.                 *)
(*                                                                         *)
(* RingStore runs every writing call under one mutex, so a call is one     *)
(* sequence of steps with nothing between them but I/O.  A step here is    *)
(* one write_exact() or one flush() with the bookkeeping up to the next    *)
(* one; power may be lost, or the process may end, between any two steps.  *)
(*                                                                         *)
(* A partition holds Cap equal block frames.  Cap stands for both limits   *)
(* ensure_empty_builder_capacity() tests, the data region and the index    *)
(* reserve.  Records are numbered 1, 2, ... in the order they are accepted *)
(* over the life of the volume.  The volume header is intact throughout.   *)
(***************************************************************************)
EXTENDS Storage, Integers, Sequences

CONSTANTS
  NSlots,      \* volume.partition_count
  Cap,         \* block frames a partition holds
  BlockRecs,   \* records a block holds at most (max_block_payload)
  MaxGen,      \* the largest generation (UINT64_MAX)
  Options,     \* partition contracts (record format, version, time domain)
  NoContract,  \* append() as opposed to append_checked()
  MaxRecords,  \* bound: records accepted over the life of the volume
  MaxSessions, \* bound: writable opens
  Restarts     \* how sessions may end and begin: "power" if power may be lost,
               \* "warm" if a volume may be opened again while the backend
               \* still holds unflushed writes of an earlier session

ASSUME SlotAssumption     == NSlots \in Nat \ {0, 1} /\ Slot = 0 .. NSlots - 1
ASSUME CapAssumption      == Cap \in Nat \ {0} /\ Pos = 0 .. Cap - 1
ASSUME BoundsAssumption   == /\ BlockRecs \in Nat \ {0} /\ MaxGen \in Nat \ {0}
                             /\ MaxRecords \in Nat /\ MaxSessions \in Nat
ASSUME ContractAssumption == NoContract \notin Options /\ Options # {}
ASSUME RestartAssumption  == Restarts \subseteq {"power", "warm"}

VARIABLES
  up,        \* a RingStore object exists (or is being opened)
  faulted, closed,
  cat,       \* the catalogue: partitions, by slot
  act,       \* active_slot
  nextOpts,  \* next_options
  writer,    \* writer id of this session; sessions are numbered
  builder,   \* the records of the block being built
  dirty,
  accepted,  \* the records accepted in this session, in order
  durable,   \* metrics.durable_records
  op, pc,    \* the call in progress, and its next I/O step
  \* History, not state of the program:
  promised,  \* records some call or metric has claimed durable
  evicted,   \* records of partitions whose slot has been reused
  contracts  \* for each record, the contract it was appended under

sessionVars == <<up, faulted, closed, cat, act, nextOpts, builder, dirty,
                 accepted, durable, op, pc>>
history     == <<promised, evicted, contracts>>
vars        == <<storageVars, sessionVars, writer, history>>

-----------------------------------------------------------------------------
(* On-media structures *)

Header(g, o) == [kind |-> "hdr", gen |-> g, opts |-> o]
Block(g, i, p, w, recs) ==
  [kind |-> "blk", gen |-> g, seq |-> i, prev |-> p, writer |-> w, recs |-> recs]
Index(ns)     == [kind |-> "idx", ns |-> ns]
Footer(g, ns) == [kind |-> "ftr", gen |-> g, ns |-> ns]

(***************************************************************************)
(* An index entry on the medium names a block by its metadata, without its *)
(* writer id.  Of the metadata the record count is kept: nothing prevents  *)
(* two blocks of one size from covering the same times.  The footer holds  *)
(* the CRC of the index, that is, the index it is the footer of.           *)
(***************************************************************************)
HeaderValid(img, s) == img[H(s)].kind = "hdr"

\* read_footer: a footer of an earlier generation of the slot does not count.
SealValid(img, s) ==
  img[F(s)].kind = "ftr" /\ img[F(s)].gen = img[H(s)].gen

\* Mutant: the scan ignores the chain of writer ids.
FrameFollows_NoChain(img, s, i) ==
  LET b == img[B(s, i)] IN b.kind = "blk" /\ b.gen = img[H(s)].gen /\ b.seq = i

\* scan_partition: the checks that admit the frame at position i, given that
\* the frames before it were admitted.  The chain of writer ids is what stops
\* the scan at a frame left over from before the writer resumed.
FrameFollows(img, s, i) ==
  LET b == img[B(s, i)] IN
  /\ b.kind = "blk"
  /\ b.gen = img[H(s)].gen
  /\ b.seq = i
  /\ IF i = 0 THEN b.prev = 0
     ELSE img[B(s, i - 1)].kind = "blk" /\ b.prev = img[B(s, i - 1)].writer

\* The positions a scan of slot s admits: it ends at the first misfit.
Scanned(img, s) == {n \in Pos : \A i \in 0 .. n : FrameFollows(img, s, i)}

\* load_index: the index matches the CRC in the footer; an empty one is not read.
IndexValid(img, s) ==
  img[F(s)].ns = <<>> \/ img[I(s)] = Index(img[F(s)].ns)

\* read_block for entry i of a loaded index.
FrameMatches(img, s, i) ==
  LET b == img[B(s, i)] IN
  /\ b.kind = "blk"
  /\ b.gen = img[H(s)].gen
  /\ b.seq = i
  /\ Len(b.recs) = img[F(s)].ns[i + 1]

\* The positions whose blocks a query delivers from slot s of a quiet image:
\* by the index if the partition is sealed and the index sound, otherwise by
\* a scan, which a seal limits to the sealed length.
Delivered(img, s) ==
  IF ~ HeaderValid(img, s) THEN {}
  ELSE IF SealValid(img, s)
    THEN LET n == Len(img[F(s)].ns) IN
         IF IndexValid(img, s) THEN {i \in 0 .. n - 1 : FrameMatches(img, s, i)}
         ELSE {i \in Scanned(img, s) : i < n}
    ELSE Scanned(img, s)

RecsOf(seq) == {seq[k] : k \in 1 .. Len(seq)}

SlotRecords(img, s) ==
  UNION {RecsOf(img[B(s, i)].recs) : i \in Delivered(img, s)}

Readable(img) == UNION {SlotRecords(img, s) : s \in Slot}

\* What open() asks of slot s beyond the header with verify_payloads_on_open:
\* a seal has a sound index that names exactly the frames a scan admits up to
\* the sealed length.  Without a seal, what the scan admits is what there is.
StrictOpen(img, s) ==
  SealValid(img, s) =>
    /\ IndexValid(img, s)
    /\ \A i \in 0 .. Len(img[F(s)].ns) - 1 : i \in Scanned(img, s) /\ FrameMatches(img, s, i)

-----------------------------------------------------------------------------
(* The catalogue *)

Created(g, o) == [gen |-> g, opts |-> o, sealed |-> FALSE, blocks |-> <<>>]
Absent == Created(0, NoContract)
NoOp   == [kind |-> "none", arg |-> NoContract]

Headers   == {s \in Slot : HeaderValid(cache, s)}
NewestSlot ==
  CHOOSE s \in Headers : \A t \in Headers : cache[H(t)].gen <= cache[H(s)].gen

\* Mutant: open() forgets the blocks of the partition it continues.
Recovered_Forgetful(s) ==
  IF s \notin Headers THEN Absent
  ELSE [Created(cache[H(s)].gen, cache[H(s)].opts) EXCEPT !.sealed = SealValid(cache, s)]

\* What open() learns of slot s.  Only the newest partition keeps the index
\* its scan rebuilt: it is the only one a writer may continue.
Recovered(s) ==
  IF s \notin Headers THEN Absent
  ELSE [gen    |-> cache[H(s)].gen,
        opts   |-> cache[H(s)].opts,
        sealed |-> SealValid(cache, s),
        blocks |-> IF s # NewestSlot \/ SealValid(cache, s) THEN <<>>
                   ELSE [k \in 1 .. Cardinality(Scanned(cache, s)) |->
                           [writer |-> cache[B(s, k - 1)].writer,
                            n      |-> Len(cache[B(s, k - 1)].recs)]]]

\* An unreadable header that shows signs of having belonged to this volume.
HeaderDamaged(s) ==
  \/ cache[H(s)].kind = "torn"
  \/ cache[H(s)].kind = "blot" /\ (cache[F(s)].kind = "ftr" \/ cache[B(s, 0)].kind = "blk")

GenerationsDiffer ==
  \A s, t \in Headers : s # t => cache[H(s)].gen # cache[H(t)].gen

\* Where create_partition goes: the slot after the active one, one
\* generation on; slot 0 and generation 1 on an empty volume.
Empty      == \A s \in Slot : cat[s].gen = 0
TargetSlot_SkipsFirst ==   \* Mutant: the ring wraps to slot 1.
  IF Empty THEN 0 ELSE IF act + 1 < NSlots THEN act + 1 ELSE 1
TargetSlot == IF Empty THEN 0 ELSE (act + 1) % NSlots
TargetGen  == IF Empty THEN 1 ELSE cat[act].gen + 1

Full == Len(cat[act].blocks) >= Cap
BlockSizes_Uniform(blocks) ==   \* Mutant: every entry is made from the first block.
  [k \in 1 .. Len(blocks) |-> blocks[1].n]
BlockSizes(blocks) == [k \in 1 .. Len(blocks) |-> blocks[k].n]

-----------------------------------------------------------------------------
(* The ends of a step *)

\* The session's memory is gone; the next open starts from the medium.
Discard ==
  /\ up' = FALSE /\ faulted' = FALSE /\ closed' = FALSE
  /\ cat' = [s \in Slot |-> Absent] /\ act' = 0
  /\ nextOpts' = NoContract
  /\ builder' = <<>> /\ dirty' = FALSE
  /\ accepted' = <<>> /\ durable' = 0
  /\ op' = NoOp /\ pc' = "idle"

\* The call goes on with I/O step p.
Goto(p) == pc' = p /\ op' = IF p = "idle" THEN NoOp ELSE op

\* fail(): the store is latched, and every later call returns the error.  A
\* store that fails while it is opened is never handed out.
Fail ==
  IF op.kind = "open" THEN Discard
  ELSE /\ faulted' = TRUE
       /\ Goto("idle")
       /\ UNCHANGED <<up, closed, cat, act, nextOpts, builder, dirty, accepted, durable>>

\* Mutant: an append does not ask for room.
Onward_NoRoom(k, room, isDirty) ==
  CASE k = "append"                  -> "accept"
    [] k = "publish"                 -> "idle"
    [] k \in {"checkpoint", "close"} -> IF isDirty THEN "sync" ELSE "idle"
    [] k = "rotate"                  -> "rotate"

\* What a call of kind k does once the builder is as it needs it: the first
\* step left, "idle" if it may return.  There is room for a block under
\* construction, or for a new one, or else an append has to rotate.
Onward(k, room, isDirty) ==
  CASE k = "append"                  -> IF room THEN "accept" ELSE "rotate"
    [] k = "publish"                 -> "idle"
    [] k \in {"checkpoint", "close"} -> IF isDirty THEN "sync" ELSE "idle"
    [] k = "rotate"                  -> "rotate"

\* sync_media(true): all that was accepted is now claimed durable.
ClaimDurable ==
  /\ durable' = Len(accepted)
  /\ promised' = promised \cup RecsOf(accepted)

-----------------------------------------------------------------------------
(* Opening for writing *)

\* open() refuses a volume on which it cannot tell the newest partition.
MayOpen ==
  /\ ~ up /\ writer < MaxSessions
  /\ "warm" \in Restarts \/ Unflushed = {}
  /\ \A s \in Slot : ~ HeaderDamaged(s)
  /\ GenerationsDiffer

\* open() on a volume whose newest partition a writer may continue.
OpenContinue ==
  /\ MayOpen
  /\ Headers # {} /\ ~ SealValid(cache, NewestSlot)
  /\ up' = TRUE
  /\ cat' = [s \in Slot |-> Recovered(s)]
  /\ act' = NewestSlot
  /\ nextOpts' \in Options
  /\ writer' = writer + 1
  /\ UNCHANGED <<storageVars, history, faulted, closed, builder, dirty, accepted,
                 durable, op, pc>>

\* open() on a volume that is empty, or whose newest partition is sealed: a
\* partition has to be created before the store is handed out.
OpenCreate ==
  /\ MayOpen
  /\ Headers # {} => /\ SealValid(cache, NewestSlot)
                     /\ cache[H(NewestSlot)].gen < MaxGen
  /\ up' = TRUE
  /\ cat' = [s \in Slot |-> Recovered(s)]
  /\ act' = IF Headers = {} THEN 0 ELSE NewestSlot
  /\ nextOpts' \in Options
  /\ writer' = writer + 1
  /\ op' = [NoOp EXCEPT !.kind = "open"] /\ pc' = "header"
  /\ UNCHANGED <<storageVars, history, faulted, closed, builder, dirty, accepted,
                 durable>>

-----------------------------------------------------------------------------
(* Calls *)

\* A call passes its checks on the state of the store.
Ready == up /\ pc = "idle" /\ ~ faulted /\ ~ closed

Begin(k, a, p) ==
  /\ pc' = p
  /\ op' = IF p = "idle" THEN NoOp ELSE [kind |-> k, arg |-> a]

\* append and append_checked.  A record that does not fit with those in the
\* builder has the builder emitted first.
AppendImpl(contract) ==
  /\ Ready
  /\ Len(contracts) < MaxRecords
  /\ \/ /\ Len(builder) < BlockRecs
        /\ Begin("append", contract, Onward("append", builder # <<>> \/ ~ Full, dirty))
     \/ builder # <<>> /\ Begin("append", contract, "emit")
  /\ UNCHANGED <<storageVars, history, up, faulted, closed, cat, act, nextOpts, writer,
                 builder, dirty, accepted, durable>>

Publish ==
  /\ Ready /\ builder # <<>>
  /\ Begin("publish", NoContract, "emit")
  /\ UNCHANGED <<storageVars, history, up, faulted, closed, cat, act, nextOpts, writer,
                 builder, dirty, accepted, durable>>

\* With nothing to emit and nothing dirty, checkpoint() returns at once; what
\* was accepted is then as good as claimed durable.
Checkpoint ==
  /\ Ready
  /\ LET p == IF builder # <<>> THEN "emit" ELSE Onward("checkpoint", TRUE, dirty) IN
     /\ Begin("checkpoint", NoContract, p)
     /\ promised' = IF p = "idle" THEN promised \cup RecsOf(accepted) ELSE promised
  /\ UNCHANGED <<storageVars, evicted, contracts, up, faulted, closed, cat, act, nextOpts,
                 writer, builder, dirty, accepted, durable>>

Close ==
  /\ Ready
  /\ LET p == IF builder # <<>> THEN "emit" ELSE Onward("close", TRUE, dirty) IN
     /\ Begin("close", NoContract, p)
     /\ closed' = (p = "idle")
     /\ promised' = IF p = "idle" THEN promised \cup RecsOf(accepted) ELSE promised
  /\ UNCHANGED <<storageVars, evicted, contracts, up, faulted, cat, act, nextOpts, writer,
                 builder, dirty, accepted, durable>>

Rotate(next) ==
  /\ Ready
  /\ Begin("rotate", next, IF builder # <<>> THEN "emit" ELSE "rotate")
  /\ UNCHANGED <<storageVars, history, up, faulted, closed, cat, act, nextOpts, writer,
                 builder, dirty, accepted, durable>>

SetNextPartitionOptions(options) ==
  /\ Ready
  /\ nextOpts' = options
  /\ UNCHANGED <<storageVars, history, up, faulted, closed, cat, act, writer, builder,
                 dirty, accepted, durable, op, pc>>

-----------------------------------------------------------------------------
(* I/O steps of a call *)

\* emit_builder: the frame goes to the end of the active partition.
EmitBuilder ==
  /\ pc = "emit"
  /\ LET part == cat[act]
         i    == Len(part.blocks)
         prev == IF i = 0 THEN 0 ELSE part.blocks[i].writer
     IN /\ Write(B(act, i), Block(part.gen, i, prev, writer, builder))
        /\ cat' = [cat EXCEPT ![act].blocks =
                     Append(@, [writer |-> writer, n |-> Len(builder)])]
  /\ dirty' = TRUE
  /\ builder' = <<>>
  /\ Goto(Onward(op.kind, Len(cat[act].blocks) + 1 < Cap, TRUE))
  /\ UNCHANGED <<history, up, faulted, closed, act, nextOpts, writer, accepted, durable>>

\* Mutant: checkpoint() returns without its flush.
SyncMedia_NoFlush ==
  /\ pc = "sync"
  /\ dirty' = FALSE
  /\ ClaimDurable
  /\ closed' = (op.kind = "close")
  /\ Goto("idle")
  /\ UNCHANGED <<storageVars, evicted, contracts, up, faulted, cat, act, nextOpts, writer,
                 builder, accepted>>

\* The flush of checkpoint() and close().
SyncMedia ==
  /\ pc = "sync"
  /\ Flush
  /\ dirty' = FALSE
  /\ ClaimDurable
  /\ closed' = (op.kind = "close")
  /\ Goto("idle")
  /\ UNCHANGED <<evicted, contracts, up, faulted, cat, act, nextOpts, writer, builder,
                 accepted>>

\* Mutants: the generation is not checked; the data is not flushed before the seal.
RotateInternal_Unchecked ==
  /\ pc = "rotate"
  /\ nextOpts' = IF op.kind = "rotate" THEN op.arg ELSE nextOpts
  /\ Goto(IF dirty THEN "sealSync" ELSE IF cat[act].blocks # <<>> THEN "index" ELSE "footer")
  /\ UNCHANGED <<storageVars, history, up, faulted, closed, cat, act, writer, builder,
                 dirty, accepted, durable>>

RotateInternal_NoSync ==
  /\ pc = "rotate"
  /\ cat[act].gen < MaxGen
  /\ nextOpts' = IF op.kind = "rotate" THEN op.arg ELSE nextOpts
  /\ Goto(IF cat[act].blocks # <<>> THEN "index" ELSE "footer")
  /\ UNCHANGED <<storageVars, history, up, faulted, closed, cat, act, writer, builder,
                 dirty, accepted, durable>>

\* rotate_internal and the start of seal_active_only, up to the first I/O.
RotateInternal ==
  /\ pc = "rotate"
  /\ cat[act].gen < MaxGen
  /\ nextOpts' = IF op.kind = "rotate" THEN op.arg ELSE nextOpts
  /\ Goto(IF dirty THEN "sealSync" ELSE IF cat[act].blocks # <<>> THEN "index" ELSE "footer")
  /\ UNCHANGED <<storageVars, history, up, faulted, closed, cat, act, writer, builder,
                 dirty, accepted, durable>>

\* The last generation cannot be followed: the store faults before any I/O.
GenerationExhausted ==
  /\ pc = "rotate"
  /\ cat[act].gen = MaxGen
  /\ Fail
  /\ UNCHANGED <<storageVars, history, writer>>

\* seal_active_only: the data is flushed before the seal is written.
SealSync ==
  /\ pc = "sealSync"
  /\ Flush
  /\ dirty' = FALSE
  /\ ClaimDurable
  /\ Goto("index")
  /\ UNCHANGED <<evicted, contracts, up, faulted, closed, cat, act, nextOpts, writer,
                 builder, accepted>>

WriteIndex ==
  /\ pc = "index"
  /\ Write(I(act), Index(BlockSizes(cat[act].blocks)))
  /\ Goto("footer")
  /\ UNCHANGED <<history, up, faulted, closed, cat, act, nextOpts, writer, builder, dirty,
                 accepted, durable>>

WriteFooter ==
  /\ pc = "footer"
  /\ Write(F(act), Footer(cat[act].gen, BlockSizes(cat[act].blocks)))
  /\ Goto("footerSync")
  /\ UNCHANGED <<history, up, faulted, closed, cat, act, nextOpts, writer, builder, dirty,
                 accepted, durable>>

\* Mutant: the new header follows the footer without a flush.
FooterSync_NoFlush ==
  /\ pc = "footerSync"
  /\ cat' = [cat EXCEPT ![act].sealed = TRUE]
  /\ Goto("header")
  /\ UNCHANGED <<storageVars, history, up, faulted, closed, act, nextOpts, writer, builder,
                 dirty, accepted, durable>>

FooterSync ==
  /\ pc = "footerSync"
  /\ Flush
  /\ cat' = [cat EXCEPT ![act].sealed = TRUE]
  /\ Goto("header")
  /\ UNCHANGED <<history, up, faulted, closed, act, nextOpts, writer, builder, dirty,
                 accepted, durable>>

\* create_partition: the new header overwrites whatever the slot held.
WriteHeader ==
  /\ pc = "header"
  /\ Write(H(TargetSlot), Header(TargetGen, nextOpts))
  /\ evicted' = evicted \cup SlotRecords(cache, TargetSlot)
  /\ Goto("headerSync")
  /\ UNCHANGED <<promised, contracts, up, faulted, closed, cat, act, nextOpts, writer,
                 builder, dirty, accepted, durable>>

\* The rest of create_partition, and of the call it was made for.
HeaderSync ==
  /\ pc = "headerSync"
  /\ Flush
  /\ cat' = [cat EXCEPT ![TargetSlot] = Created(TargetGen, nextOpts)]
  /\ act' = TargetSlot
  /\ dirty' = FALSE
  /\ Goto(IF op.kind = "append" THEN "accept" ELSE "idle")
  /\ UNCHANGED <<history, up, faulted, closed, nextOpts, writer, builder, accepted, durable>>

\* Mutant: the contract is checked before the rotation only.
AcceptRecord_Unchecked ==
  /\ pc = "accept"
  /\ LET r == Len(contracts) + 1 IN
     /\ builder' = Append(builder, r)
     /\ accepted' = Append(accepted, r)
     /\ contracts' = Append(contracts, op.arg)
  /\ Goto("idle")
  /\ UNCHANGED <<storageVars, promised, evicted, up, faulted, closed, cat, act, nextOpts,
                 writer, dirty, durable>>

\* The end of append_impl: the contract is checked against the partition that
\* is active now, then the record enters the builder.
AcceptRecord ==
  /\ pc = "accept"
  /\ op.arg \in {NoContract, cat[act].opts}
  /\ LET r == Len(contracts) + 1 IN
     /\ builder' = Append(builder, r)
     /\ accepted' = Append(accepted, r)
     /\ contracts' = Append(contracts, op.arg)
  /\ Goto("idle")
  /\ UNCHANGED <<storageVars, promised, evicted, up, faulted, closed, cat, act, nextOpts,
                 writer, dirty, durable>>

RejectRecord ==
  /\ pc = "accept"
  /\ op.arg \notin {NoContract, cat[act].opts}
  /\ Goto("idle")
  /\ UNCHANGED <<storageVars, history, up, faulted, closed, cat, act, nextOpts, writer,
                 builder, dirty, accepted, durable>>

\* The region the step at pc writes.
Target == CASE pc = "emit"   -> B(act, Len(cat[act].blocks))
            [] pc = "index"  -> I(act)
            [] pc = "footer" -> F(act)
            [] pc = "header" -> H(TargetSlot)

\* A write fails.  A header torn over an old partition costs it its slot.
WriteFails ==
  /\ pc \in {"emit", "index", "footer", "header"}
  /\ WriteError(Target)
  /\ Fail
  /\ evicted' = IF pc = "header" /\ cache' # cache
                THEN evicted \cup SlotRecords(cache, TargetSlot) ELSE evicted
  /\ UNCHANGED <<promised, contracts, writer>>

FlushFails ==
  /\ pc \in {"sync", "sealSync", "footerSync", "headerSync"}
  /\ FlushError
  /\ Fail
  /\ UNCHANGED <<history, writer>>

-----------------------------------------------------------------------------
(* The ends of a session *)

\* The store object is destroyed, in good order or not, or the process dies;
\* ~RingStore writes and flushes nothing.  The backend keeps what it has.
Drop ==
  /\ up
  /\ Discard
  /\ UNCHANGED <<storageVars, history, writer>>

PowerCut ==
  /\ "power" \in Restarts
  /\ PowerLoss
  /\ Discard
  /\ UNCHANGED <<history, writer>>

-----------------------------------------------------------------------------
Init ==
  /\ StorageInit
  /\ up = FALSE /\ faulted = FALSE /\ closed = FALSE
  /\ cat = [s \in Slot |-> Absent] /\ act = 0
  /\ nextOpts = NoContract
  /\ writer = 0
  /\ builder = <<>> /\ dirty = FALSE
  /\ accepted = <<>> /\ durable = 0
  /\ op = NoOp /\ pc = "idle"
  /\ promised = {} /\ evicted = {} /\ contracts = <<>>

Call ==
  \/ \E c \in Options \cup {NoContract} : AppendImpl(c)
  \/ Publish \/ Checkpoint \/ Close
  \/ \E o \in Options : Rotate(o)
  \/ \E o \in Options : SetNextPartitionOptions(o)

\* The steps a call in progress takes.
Step ==
  \/ EmitBuilder \/ SyncMedia \/ RotateInternal \/ GenerationExhausted
  \/ SealSync \/ WriteIndex \/ WriteFooter \/ FooterSync
  \/ WriteHeader \/ HeaderSync \/ AcceptRecord \/ RejectRecord
  \/ WriteFails \/ FlushFails

Next == OpenContinue \/ OpenCreate \/ Call \/ Step \/ Drop \/ PowerCut

Spec == Init /\ [][Next]_vars

-----------------------------------------------------------------------------
(* Properties *)

Damage    == {Blank, Torn, Blot}
HeaderSet == [kind : {"hdr"}, gen : 1 .. MaxGen, opts : Options]
BlockSet  == [kind : {"blk"}, gen : 1 .. MaxGen, seq : Pos, prev : Nat, writer : Nat,
              recs : Seq(Nat)]
IndexSet  == [kind : {"idx"}, ns : Seq(Nat)]
FooterSet == [kind : {"ftr"}, gen : 1 .. MaxGen, ns : Seq(Nat)]

\* What a region may hold.
Contents(r) ==
  Damage \cup CASE r[1] = "hdr" -> HeaderSet [] r[1] = "blk" -> BlockSet
                [] r[1] = "idx" -> IndexSet  [] r[1] = "ftr" -> FooterSet

PartSet == [gen : 0 .. MaxGen, opts : Options \cup {NoContract}, sealed : BOOLEAN,
            blocks : Seq([writer : Nat, n : Nat])]

OpKinds == {"none", "open", "append", "publish", "checkpoint", "close", "rotate"}
Steps   == {"idle", "emit", "sync", "rotate", "sealSync", "index", "footer",
            "footerSync", "header", "headerSync", "accept"}

StorageOK ==
  /\ DOMAIN cache = Region /\ DOMAIN disk = Region /\ DOMAIN pending = Region
  /\ \A r \in Region : /\ cache[r] \in Contents(r) /\ disk[r] \in Contents(r)
                       /\ pending[r] \subseteq Contents(r)

SessionOK ==
  /\ up \in BOOLEAN /\ faulted \in BOOLEAN /\ closed \in BOOLEAN /\ dirty \in BOOLEAN
  /\ cat \in [Slot -> PartSet] /\ act \in Slot
  /\ nextOpts \in Options \cup {NoContract}
  /\ writer \in Nat /\ durable \in Nat
  /\ builder \in Seq(Nat) /\ accepted \in Seq(Nat)
  /\ op \in [kind : OpKinds, arg : Options \cup {NoContract}] /\ pc \in Steps
  /\ contracts \in Seq(Options \cup {NoContract})

\* Every variable has its type, every region holds a structure of its own kind
\* or damage, and no generation leaves its range.
TypeOK == StorageOK /\ SessionOK

(***************************************************************************)
(* DurableSurvives.  A record that checkpoint(), close() or the            *)
(* durable_records metric has claimed durable can be read back from the    *)
(* medium in every later state, after power cuts, faults and restarts,     *)
(* until the ring has reused the slot of its partition.                    *)
(***************************************************************************)
DurableSurvives == promised \ evicted \subseteq Readable(cache)

(***************************************************************************)
(* OrderedReadback.  Reading the partitions by generation and their blocks *)
(* by position returns records in the order they were accepted, none       *)
(* twice: no frame left behind by a crash comes back among later ones.     *)
(***************************************************************************)
OrderedReadback ==
  \A s, t \in Slot : \A i \in Delivered(cache, s), j \in Delivered(cache, t) :
    (cache[H(s)].gen < cache[H(t)].gen \/ (s = t /\ i < j)) =>
      \A a \in RecsOf(cache[B(s, i)].recs), b \in RecsOf(cache[B(t, j)].recs) : a < b

(***************************************************************************)
(* RecoveryAgrees.  Between calls, opening the volume anew would find the  *)
(* catalogue the running writer has: the same partitions, and in the       *)
(* active one exactly the blocks the writer published or recovered.        *)
(***************************************************************************)
RecoveryAgrees ==
  (up /\ pc = "idle" /\ ~ faulted) =>
    /\ act = NewestSlot
    /\ cat[act].blocks = Recovered(act).blocks
    /\ \A s \in Slot : /\ cat[s].gen = Recovered(s).gen
                       /\ cat[s].opts = Recovered(s).opts
                       /\ cat[s].sealed = Recovered(s).sealed

(***************************************************************************)
(* StrictAgrees.  While power holds, strict verification never rejects a   *)
(* volume that a lazy open() accepts: no failed write, no session cut off  *)
(* at any step and no resumed one leaves a seal whose index or frames do   *)
(* not match it.                                                           *)
(***************************************************************************)
StrictAgrees ==
  (\A s \in Slot : ~ HeaderDamaged(s)) => \A s \in Headers : StrictOpen(cache, s)

(***************************************************************************)
(* SealAfterData.  A footer is durable only when every block it seals is:  *)
(* the first flush of seal_active_only.                                    *)
(***************************************************************************)
SealAfterData ==
  \A s \in Slot : (HeaderValid(disk, s) /\ SealValid(disk, s)) =>
                    0 .. Len(disk[F(s)].ns) - 1 \subseteq Scanned(disk, s)

(***************************************************************************)
(* HeaderAfterSeal.  A durable header of a new generation never precedes   *)
(* the durable seal of the generation before it, so at most one retained   *)
(* partition is unsealed, the newest.                                      *)
(***************************************************************************)
HeaderAfterSeal ==
  \A s, t \in Slot :
    (HeaderValid(disk, s) /\ HeaderValid(disk, t) /\ disk[H(s)].gen < disk[H(t)].gen) =>
      SealValid(disk, s)

\* The slot a generation lives in is fixed by the rotation order.
InPlace(s, g) == (g - 1) % NSlots = s

(***************************************************************************)
(* GenerationsInPlace.  Every header on the medium or on its way there     *)
(* carries a generation of its own slot's residue class, so two slots      *)
(* never hold one generation and open() never meets the duplicate it would *)
(* refuse.                                                                 *)
(***************************************************************************)
GenerationsInPlace ==
  \A s \in Slot :
    /\ \A v \in {cache[H(s)], disk[H(s)]} \cup pending[H(s)] :
         v.kind = "hdr" => InPlace(s, v.gen)
    /\ cat[s].gen # 0 => InPlace(s, cat[s].gen)

(***************************************************************************)
(* RetainedContiguous.  The retained generations are consecutive.          *)
(***************************************************************************)
RetainedContiguous ==
  \A s, t \in Headers : \A g \in cache[H(s)].gen .. cache[H(t)].gen :
    \E u \in Headers : cache[H(u)].gen = g

(***************************************************************************)
(* ContractKept.  A record appended under a contract is stored in, or      *)
(* being built for, a partition with that contract, whatever rotations     *)
(* came between.                                                           *)
(***************************************************************************)
ContractKept ==
  /\ \A s \in Slot : \A i \in Delivered(cache, s) : \A r \in RecsOf(cache[B(s, i)].recs) :
       contracts[r] \in {NoContract, cache[H(s)].opts}
  /\ \A r \in RecsOf(builder) : contracts[r] \in {NoContract, cat[act].opts}

(***************************************************************************)
(* CapacityReserved.  A block under construction always has a place in the *)
(* active partition: emit_builder never meets its internal error           *)
(* "builder capacity was not reserved before accepting records".           *)
(***************************************************************************)
CapacityReserved == (builder # <<>> /\ ~ faulted) => ~ Full /\ ~ cat[act].sealed

(***************************************************************************)
(* CheckpointIsDurable.  When checkpoint() returns without I/O because     *)
(* nothing is dirty, every readable record is durable.                     *)
(***************************************************************************)
CheckpointIsDurable ==
  (Ready /\ builder = <<>> /\ ~ dirty) => Readable(cache) \subseteq Readable(disk)

(***************************************************************************)
(* FrameImmutable.  A frame that a scan admits is never written over while *)
(* its partition stands.                                                   *)
(***************************************************************************)
FrameImmutable ==
  [][\A s \in Slot : \A i \in Pos :
       (HeaderValid(cache, s) /\ i \in Scanned(cache, s) /\ cache'[B(s, i)] # cache[B(s, i)])
         => pending'[B(s, i)] = {}]_vars

(***************************************************************************)
(* EvictsOldest.  A rotation writes over a partition only when every slot  *)
(* is in use, and then over the oldest.                                    *)
(***************************************************************************)
EvictsOldest ==
  [][\A s \in Slot :
       (HeaderValid(cache, s) /\ cache'[H(s)] # cache[H(s)] /\ pending'[H(s)] # {}) =>
         \A t \in Slot : HeaderValid(cache, t) /\ cache[H(s)].gen <= cache[H(t)].gen]_vars

=============================================================================
