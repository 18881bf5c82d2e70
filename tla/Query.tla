------------------------------- MODULE Query -------------------------------
(***************************************************************************)
(* A reader of a live volume: RingStore::query_blocks and scan_blocks,     *)
(* with the read-only open() of a reader outside the writer's process.     *)
(* The reader holds no lock on the medium.  It works from a snapshot of    *)
(* the catalogue while the writer of RingStore goes on publishing,         *)
(* sealing and reusing slots under it, so every read_exact() of the reader *)
(* is a step of its own.                                                   *)
(*                                                                         *)
(* An inside reader shares the writer's RingStore: its snapshot is a copy  *)
(* of the catalogue made under the mutex, which it takes again to count a  *)
(* gap.  An outside reader has a RingStore of its own, whose catalogue is  *)
(* read slot by slot and never refreshed.                                  *)
(*                                                                         *)
(* Which partitions are of the time domain a query asks for, and which of  *)
(* their blocks meet its range, depends on data this module does not have: *)
(* a query wants an arbitrary set of block positions and passes over       *)
(* arbitrary partitions.  Frames are read in two parts, header and         *)
(* payload.  A scan reads both in one step: a frame changes only by being  *)
(* replaced, and then the scan stops whichever part it sees changed.       *)
(*                                                                         *)
(* Every read may fail.  In open(), of an index, in a scan and in the      *)
(* recheck that ends the call; in read_block() it makes a gap, whose       *)
(* detail says why, and the query goes on.                                 *)
(***************************************************************************)
EXTENDS RingStore, SequencesExt

CONSTANTS
  Readers,   \* kinds of readers: a subset of {"inside", "outside"}
  Wants,     \* the sets of block positions a query may ask for
  TornReads, \* a read that overlaps a write of the same region may be torn
  MaxDamage  \* bound: regions damaged before another may decay

ASSUME ReaderAssumption == /\ Readers \subseteq {"inside", "outside"}
                           /\ Wants \subseteq SUBSET Pos
                           /\ TornReads \in BOOLEAN /\ MaxDamage \in Nat

VARIABLES
  extents,    \* the block sizes the writer's catalogue has of partitions other
              \* than the active one: by their extents, or by open()'s scan
  rd,         \* the reader
  \* History:
  published,  \* every block frame ever written
  hurt        \* regions that failed writes or decay have damaged

queryVars == <<vars, extents, rd, published, hurt>>

-----------------------------------------------------------------------------
(* The reader's state *)

NoPart  == [slot |-> 0, gen |-> 0, sealed |-> FALSE, count |-> 0,
            ns |-> <<>>, index |-> <<>>]
NoEvent == [kind |-> "none", why |-> "ok", slot |-> 0, gen |-> 0, seq |-> -1,
            recs |-> <<>>, of |-> 0]
NoFrame == Block(0, 0, 0, 0, <<>>)

Idle == [who     |-> "none",
         at      |-> "idle",   \* the next step
         slot    |-> 0,        \* open(): the slot being read
         view    |-> {},       \* open(): the partitions catalogued
         bad     |-> <<>>,     \* corrupt_slots
         want    |-> {},       \* the block positions asked for
         all     |-> TRUE,     \* scan_blocks, as opposed to query_blocks
         todo    |-> <<>>,     \* partitions not yet read, by generation
         part    |-> NoPart,   \* the partition in hand
         entries |-> <<>>,     \* its selected index entries
         lost    |-> FALSE,    \* invalid_sealed_index
         cut     |-> FALSE,    \* corrupt_scan
         k       |-> 1,        \* the entry in hand
         frame   |-> NoFrame,  \* the block header read for it
         payload |-> <<>>,     \* the stored bytes read for it
         why     |-> "ok",     \* the failure to be classified
         out     |-> NoEvent,  \* the event about to be delivered,
         next    |-> "idle",   \* and where the query goes on after it
         gap     |-> FALSE,    \* whether a gap has been delivered
         log     |-> <<>>,     \* history: the last two events delivered,
         due     |-> {},       \* and the blocks readable when the reader began
                               \* that no event has accounted for
         result  |-> "none"]

Goes(at) == [rd EXCEPT !.at = at]

\* What a read of region r may return: what is there, or an I/O error.
Failed  == [kind |-> "failed"]
Sees(r) ==
  {cache[r], Failed} \cup (IF /\ TornReads /\ pc \in {"emit", "index", "footer", "header"}
                     /\ r = Target
                  THEN TornOver(r, cache[r]) ELSE {})

\* read_partition_header refuses a sound header whose codec the reader does
\* not have.  An outside reader has those of the partitions it catalogued;
\* whether it has that of another generation is left open.
Unsupported == [kind |-> "unsupported"]
ReadPartitionHeader(s) ==
  Sees(H(s)) \cup (IF rd.who = "outside" /\ HeaderValid(cache, s) /\ cache[H(s)].gen # rd.part.gen
                   THEN {Unsupported} ELSE {})

\* The status a failed read or check of x comes back with.
StatusOf(x) == CASE x.kind = "failed" -> "io_error"
                 [] x.kind = "unsupported" -> "unsupported"
                 [] OTHER -> "corrupt"

\* The header on the slot of the partition in hand, and what the header h
\* returned says of that partition.
PartHeader  == ReadPartitionHeader(rd.part.slot)
Standing(h) == h.kind = "hdr" /\ h.gen = rd.part.gen
Reused(h)   == h.kind = "hdr" /\ h.gen # rd.part.gen

PartFrame == Sees(B(rd.part.slot, rd.k - 1))

Due == {[gen |-> cache[H(x[1])].gen, slot |-> x[1], seq |-> x[2]] :
          x \in {y \in Slot \X Pos : y[2] \in Delivered(cache, y[1])}}

\* open() or query() returns.
Ends(r, result) ==
  [Idle EXCEPT !.who = r.who, !.at = "done", !.log = r.log, !.result = result,
               !.due = IF result = "ok" THEN r.due ELSE {}]

-----------------------------------------------------------------------------
(* Opening read-only: the catalogue is read slot by slot *)

OpenReadOnly ==
  /\ rd.at = "idle" /\ "outside" \in Readers
  /\ rd' = [Idle EXCEPT !.who = "outside", !.at = "header", !.due = Due]

NextSlot(r) ==
  IF r.slot + 1 < NSlots THEN [r EXCEPT !.slot = @ + 1, !.at = "header"]
  ELSE [r EXCEPT !.slot = 0, !.at = "opened"]

\* Mutant: the bounds of an older footerless partition go with its index.
KeepNewestIndex_Forgets(parts) ==
  {IF \E q \in parts : q.gen > p.gen
   THEN [p EXCEPT !.index = <<>>, !.count = IF p.sealed THEN @ ELSE 0] ELSE p : p \in parts}

\* Only the newest partition keeps the index a scan has built.
KeepNewestIndex(parts) ==
  {[p EXCEPT !.index = IF \E q \in parts : q.gen > p.gen THEN <<>> ELSE @] : p \in parts}

Catalogue(p) ==
  NextSlot([rd EXCEPT !.view = KeepNewestIndex(@ \cup {p}), !.entries = <<>>])

\* open()'s evidence that an unreadable header h belonged to this volume.
DamagedHeader(h, s) ==
  \/ h.kind = "torn"
  \/ h.kind = "blot" /\ (cache[F(s)].kind = "ftr" \/ cache[B(s, 0)].kind = "blk")

ReadHeader ==
  /\ rd.at = "header"
  /\ \E h \in ReadPartitionHeader(rd.slot) :
     rd' = IF h.kind \in {"failed", "unsupported"} THEN Ends(rd, "error")
           ELSE IF h.kind = "hdr"
           THEN [rd EXCEPT !.at = "footer",
                           !.part = [NoPart EXCEPT !.slot = rd.slot, !.gen = h.gen]]
           ELSE NextSlot([rd EXCEPT !.bad = IF DamagedHeader(h, rd.slot)
                                            THEN Append(@, rd.slot) ELSE @])

ReadFooter ==
  /\ rd.at = "footer"
  /\ \E f \in Sees(F(rd.slot)) :
     rd' = IF f = Failed THEN Ends(rd, "error")
           ELSE IF f.kind = "ftr" /\ f.gen = rd.part.gen
           THEN Catalogue([rd.part EXCEPT !.sealed = TRUE, !.count = Len(f.ns), !.ns = f.ns])
           ELSE Goes("scan")

-----------------------------------------------------------------------------
(* scan_partition: of a footerless partition in open(), or again in a query *)
(* for want of an index, then only as far as the catalogue knows it         *)

ScanLimit == IF rd.at = "scan" THEN Cap ELSE rd.part.count

ScanFrame == Sees(B(rd.part.slot, Len(rd.entries)))

\* The scan goes on with frame b.
Admits(b) ==
  LET i == Len(rd.entries) IN
  /\ b.kind = "blk" /\ b.gen = rd.part.gen /\ b.seq = i
  /\ b.prev = IF i = 0 THEN 0 ELSE rd.entries[i].writer

ScanAdmits ==
  /\ rd.at \in {"scan", "rescan"} /\ Len(rd.entries) < ScanLimit
  /\ \E b \in ScanFrame :
     /\ Admits(b)
     /\ rd' = [rd EXCEPT !.entries = Append(@, [writer |-> b.writer, n |-> Len(b.recs)])]

ScanEnds ==
  /\ rd.at \in {"scan", "rescan"}
  /\ \/ Len(rd.entries) = ScanLimit
     \/ Len(rd.entries) < ScanLimit /\ \E b \in ScanFrame : b # Failed /\ ~ Admits(b)
  /\ rd' = IF rd.at = "scan"
           THEN Catalogue([rd.part EXCEPT !.count = Len(rd.entries), !.index = rd.entries])
           ELSE [rd EXCEPT !.at = "recheck", !.cut = Len(rd.entries) < ScanLimit]

ScanFails ==
  /\ rd.at \in {"scan", "rescan"} /\ Len(rd.entries) < ScanLimit
  /\ rd' = Ends(rd, "error")

-----------------------------------------------------------------------------
(* A query *)

ByGeneration(parts) == SetToSortSeq(parts, LAMBDA p, q : p.gen < q.gen)

\* query() up to the snapshot, which an inside reader takes under the mutex.
Snapshot(who, parts, bad, due) ==
  \E all \in BOOLEAN : \E want \in IF all THEN {Pos} ELSE Wants :
    rd' = [Idle EXCEPT !.who = who, !.at = "bad", !.bad = bad, !.all = all, !.want = want,
                       !.todo = ByGeneration(parts), !.due = {b \in due : b.seq \in want}]

\* The writer's catalogue entry for slot s.
PartitionState(s) ==
  LET active == s = act /\ ~ cat[s].sealed IN
  [slot |-> s, gen |-> cat[s].gen, sealed |-> cat[s].sealed,
   count |-> IF active THEN Len(cat[s].blocks) ELSE Len(extents[s]),
   ns    |-> IF cat[s].sealed THEN extents[s] ELSE <<>>,
   index |-> IF active THEN cat[s].blocks ELSE <<>>]

QueryInside ==
  /\ rd.at = "idle" /\ "inside" \in Readers
  /\ up /\ pc = "idle"
  /\ Snapshot("inside", {PartitionState(s) : s \in {t \in Slot : cat[t].gen # 0}}, <<>>, Due)

\* The slot of block b was reused before open() came to it.
ReusedBefore(b) == \E p \in rd.view : p.slot = b.slot /\ p.gen > b.gen

QueryOutside ==
  /\ rd.at = "opened"
  /\ Snapshot("outside", rd.view, rd.bad, {b \in rd.due : ~ ReusedBefore(b)})

\* An event is formed; a gap is counted under the mutex before it is delivered.
Report(kind, why, seq, recs, next) ==
  [rd EXCEPT !.at = "report", !.next = next, !.k = rd.k + 1,
             !.frame = NoFrame, !.payload = <<>>, !.why = "ok",
             !.out = [kind |-> kind, why |-> why, slot |-> rd.part.slot, gen |-> rd.part.gen,
                      seq |-> seq, recs |-> recs, of |-> rd.part.count]]

\* Headers open() could not read come first.
ReportBadSlot ==
  /\ rd.at = "bad"
  /\ rd' = IF rd.bad = <<>> THEN Goes("part")
           ELSE [rd EXCEPT !.at = "report", !.next = "bad", !.bad = Tail(@),
                           !.out = [NoEvent EXCEPT !.kind = "corrupt", !.why = "corrupt",
                                                   !.slot = Head(rd.bad)]]

\* The two kinds of gap, and a block.
Overwritten(seq)        == Report("overwritten", "overwritten", seq, <<>>, "part")
Corrupt(why, seq, next) == Report("corrupt", why, seq, <<>>, next)
Data(seq, recs)         == Report("data", "ok", seq, recs, "block")

MutexFree == rd.who = "outside" \/ pc = "idle"

\* Event e accounts for block b: as data, or as a gap that covers it.
Accounts(e, b) ==
  IF e.gen = 0 THEN e.slot = b.slot
  ELSE /\ e.gen = b.gen
       /\ e.seq \in {-1, b.seq} \/ e.kind = "overwritten"

Recent(log) == IF Len(log) > 2 THEN Tail(log) ELSE log

\* The visitor gets the event and may end the query.  Unless the caller asked
\* to continue on gaps, the first one ends it.
Visit ==
  /\ rd.at = "report"
  /\ LET isGap     == rd.out.kind # "data"
         delivered == [rd EXCEPT !.log = Recent(Append(@, rd.out)), !.out = NoEvent,
                                 !.next = "idle", !.gap = @ \/ isGap,
                                 !.due = {b \in @ : ~ Accounts(rd.out, b)}]
     IN /\ isGap => MutexFree
        /\ \/ rd' = Ends(delivered, "stopped")
           \/ isGap /\ ~ rd.gap /\ rd' = Ends(delivered, "gap")
           \/ rd' = [delivered EXCEPT !.at = rd.next]

\* A partition of another time domain is passed over.
PassOver ==
  /\ rd.at = "part" /\ rd.todo # <<>> /\ ~ rd.all
  /\ rd' = [rd EXCEPT !.todo = Tail(@), !.due = {b \in @ : b.gen # Head(rd.todo).gen}]

\* The next partition, and its index: from memory, from the medium if its CRC
\* is the footer's, or from a scan.
AcquireIndex ==
  /\ rd.at = "part" /\ rd.todo # <<>>
  /\ LET p == Head(rd.todo)
         r == [rd EXCEPT !.todo = Tail(@), !.part = p, !.k = 1, !.entries = <<>>,
                         !.lost = FALSE, !.cut = FALSE]
     IN \E x \in Sees(I(p.slot)) :
        rd' = IF p.count = 0 \/ p.index # <<>>
                THEN [r EXCEPT !.at = "recheck", !.entries = p.index]
              ELSE IF p.sealed /\ x = Failed THEN Ends(r, "error")
              ELSE IF p.sealed /\ x = Index(p.ns)
                THEN [r EXCEPT !.at = "recheck",
                               !.entries = [i \in 1 .. p.count |-> [writer |-> 0, n |-> p.ns[i]]]]
              ELSE [r EXCEPT !.at = "rescan", !.lost = p.sealed]

QueryEnds ==
  /\ rd.at = "part" /\ rd.todo = <<>>
  /\ rd' = Ends(rd, "ok")

\* The slot is checked again before a defect of the index is believed.
BadPrefix == rd.lost \/ rd.cut \/ Len(rd.entries) # rd.part.count

RecheckGeneration ==
  /\ rd.at = "recheck"
  /\ \E h \in PartHeader :
     rd' = IF Reused(h) THEN Overwritten(-1)
           ELSE IF h.kind \in {"failed", "unsupported"} THEN Ends(rd, "error")
           ELSE IF ~ Standing(h) THEN Corrupt("corrupt", -1, "part")
           ELSE IF BadPrefix THEN [Corrupt("corrupt", -1, "block") EXCEPT !.k = 1]
           ELSE Goes("block")

\* read_block goes on to classify_snapshot_failure.
Suspect(why) == [rd EXCEPT !.at = "classify", !.why = why]

\* Mutant: the query goes on with a partition it has found overwritten.
ReadBlock_GoesOn ==
  /\ rd.at = "block"
  /\ \E h \in PartHeader :
     rd' = IF rd.k > Len(rd.entries) THEN Goes("part")
           ELSE IF rd.k - 1 \notin rd.want THEN [rd EXCEPT !.k = @ + 1]
           ELSE IF Standing(h) THEN Goes("frame")
           ELSE IF Reused(h) THEN [Overwritten(rd.k - 1) EXCEPT !.next = "block"]
           ELSE Suspect(StatusOf(h))

\* read_block for the entry in hand: the partition header first.
ReadBlock ==
  /\ rd.at = "block"
  /\ \E h \in PartHeader :
     rd' = IF rd.k > Len(rd.entries) THEN Goes("part")
           ELSE IF rd.k - 1 \notin rd.want THEN [rd EXCEPT !.k = @ + 1]
           ELSE IF Standing(h) THEN Goes("frame")
           ELSE IF Reused(h) THEN Overwritten(rd.k - 1)
           ELSE Suspect(StatusOf(h))

\* The block header, checked against partition and entry.  An entry from the
\* medium has no writer id.
FrameFits(b) ==
  LET e == rd.entries[rd.k] IN
  /\ b.kind = "blk" /\ b.gen = rd.part.gen /\ b.seq = rd.k - 1
  /\ e.writer # 0 => b.writer = e.writer
  /\ Len(b.recs) = e.n

ReadFrame ==
  /\ rd.at = "frame"
  /\ \E b \in PartFrame :
     rd' = IF b = Failed THEN Corrupt("io_error", rd.k - 1, "block")
           ELSE IF FrameFits(b) THEN [rd EXCEPT !.at = "payload", !.frame = b]
           ELSE Suspect("corrupt")

\* The stored bytes, from whatever frame is there now.
ReadPayload ==
  /\ rd.at = "payload"
  /\ \E b \in PartFrame :
     rd' = IF b = Failed THEN Corrupt("io_error", rd.k - 1, "block")
           ELSE [rd EXCEPT !.at = "after", !.payload = IF b.kind = "blk" THEN b.recs ELSE <<>>]

\* Mutant: the bytes are delivered as they were read.
VerifyPayload_Trusting ==
  /\ rd.at = "after"
  /\ rd' = Data(rd.k - 1, rd.payload)

\* The partition header again, then the payload CRC.
VerifyPayload ==
  /\ rd.at = "after"
  /\ \E h \in PartHeader :
     rd' = IF Reused(h) THEN Overwritten(rd.k - 1)
           ELSE IF Standing(h) /\ rd.payload = rd.frame.recs
             THEN Data(rd.k - 1, rd.payload)
           ELSE Suspect(StatusOf(h))


\* classify_snapshot_failure: one more look at the header.  What was found
\* before stands unless that look shows the slot reused or itself fails.
Classify ==
  /\ rd.at = "classify"
  /\ \E h \in PartHeader :
     rd' = IF Reused(h) THEN Overwritten(rd.k - 1)
           ELSE IF h.kind \in {"failed", "unsupported"}
             THEN Corrupt(StatusOf(h), rd.k - 1, "block")
           ELSE Corrupt(rd.why, rd.k - 1, "block")

\* The query has returned.  It leaves nothing behind, so another one would
\* begin as this one did.
Return == rd.at = "done" /\ rd' = [Idle EXCEPT !.at = "gone"]

ReaderStep ==
  /\ \/ OpenReadOnly \/ ReadHeader \/ ReadFooter \/ ScanAdmits \/ ScanEnds \/ ScanFails
     \/ QueryInside \/ QueryOutside \/ ReportBadSlot \/ Visit \/ PassOver
     \/ AcquireIndex \/ QueryEnds \/ RecheckGeneration \/ ReadBlock \/ ReadFrame \/ ReadPayload
     \/ VerifyPayload \/ Classify \/ Return
  /\ UNCHANGED <<vars, extents, published, hurt>>

-----------------------------------------------------------------------------
(* The writer, and the medium *)

Frames == {r \in Region : r[1] = "blk"}

\* Of the writer's calls, append_checked(), checkpoint() and close() show a
\* reader nothing that append() and publish() do not, and a resumed session
\* nothing that its predecessor would not have (RecoveryAgrees).  A power cut
\* ends reader and writer alike; what it leaves is RingStore's matter.
WriterNext ==
  \/ OpenCreate
  \/ AppendImpl(NoContract) \/ Publish \/ \E o \in Options : Rotate(o)
  \/ Step \/ Drop

\* What open() finds in slot s, and what a rotation seals in it.
FoundExtent(s) ==
  IF s \notin Headers THEN <<>>
  ELSE IF SealValid(cache, s) THEN cache[F(s)].ns
  ELSE [k \in 1 .. Cardinality(Scanned(cache, s)) |-> Len(cache[B(s, k - 1)].recs)]

KeepExtents ==
  extents' = [s \in Slot |-> IF ~ up THEN FoundExtent(s)
                             ELSE IF cat'[s].sealed /\ ~ cat[s].sealed
                               THEN BlockSizes(cat[s].blocks) ELSE extents[s]]

\* An inside reader does not outlive its store.
WriterStep ==
  /\ WriterNext
  /\ KeepExtents
  /\ rd' = IF rd.who = "inside" /\ ~ up' THEN [Idle EXCEPT !.at = "gone"] ELSE rd
  /\ published' = published \cup {cache'[r] : r \in {q \in Frames : cache'[q].kind = "blk"}}
  /\ hurt' = hurt \cup {r \in Region : cache'[r] # cache[r] /\ cache'[r].kind \in {"torn", "blot"}}

\* The regions the reader's next step may read.
NextReads ==
  CASE rd.at = "header" -> {H(rd.slot), F(rd.slot), B(rd.slot, 0)}
    [] rd.at = "footer" -> {F(rd.slot)}
    [] rd.at \in {"scan", "rescan"} -> {B(rd.part.slot, Len(rd.entries))}
    [] rd.at = "part" /\ rd.todo # <<>> -> {I(Head(rd.todo).slot)}
    [] rd.at \in {"recheck", "block", "after", "classify"} -> {H(rd.part.slot)}
    [] rd.at \in {"frame", "payload"} -> {B(rd.part.slot, rd.k - 1)}
    [] OTHER -> {}

\* The medium loses what a region held.  Only readers are to notice, so it may
\* as well be lost just before it is read.
Decay(r) ==
  /\ r \in NextReads
  /\ Cardinality(hurt) < MaxDamage
  /\ cache[r].kind \notin {"blank", "torn", "blot"}
  /\ cache' = [cache EXCEPT ![r] = Torn]
  /\ disk' = [disk EXCEPT ![r] = Torn]
  /\ hurt' = hurt \cup {r}
  /\ UNCHANGED <<pending, sessionVars, writer, history, extents, rd, published>>

QueryInit ==
  /\ Init
  /\ extents = [s \in Slot |-> <<>>] /\ rd = Idle
  /\ published = {} /\ hurt = {}

QueryNext == ReaderStep \/ WriterStep \/ \E r \in Region : Decay(r)

QuerySpec == QueryInit /\ [][QueryNext]_queryVars

-----------------------------------------------------------------------------
(* Properties *)

Events == {rd.log[j] : j \in DOMAIN rd.log}

(***************************************************************************)
(* DataIsGenuine.  A block delivered as data was published under exactly   *)
(* that generation and sequence with exactly those records: read_block     *)
(* never joins header and payload of two generations, however the writer   *)
(* overtakes it.                                                           *)
(***************************************************************************)
DataIsGenuine ==
  \A e \in Events : e.kind = "data" =>
    \E b \in published : b.gen = e.gen /\ b.seq = e.seq /\ b.recs = e.recs

\* The regions whose damage explains a corrupt gap.
Suspects(e) ==
  {H(e.slot)} \cup (IF e.seq >= 0 THEN {B(e.slot, e.seq)}
                    ELSE {I(e.slot), F(e.slot)} \cup {B(e.slot, i) : i \in {j \in Pos : j < e.of}})

(***************************************************************************)
(* GapsAreTrue.  query() reports a partition overwritten only if its slot  *)
(* has gone to a later generation.  A corrupt gap whose detail is corrupt  *)
(* means that a structure it had to read was damaged, never that the slot  *)
(* was reused or that a read failed; one whose detail is unsupported means *)
(* that the slot has gone to a generation whose codec the reader lacks.  A *)
(* failed read is reported as io_error, which says nothing of the medium.  *)
(***************************************************************************)
GapsAreTrue ==
  \A e \in Events :
    /\ e.why \in {"overwritten", "unsupported"} =>
         (HeaderValid(cache, e.slot) => cache[H(e.slot)].gen > e.gen)
    /\ e.why = "corrupt" => Suspects(e) \cap hurt # {}

(***************************************************************************)
(* EventsInOrder.  Events come by generation and block sequence, none      *)
(* twice, and nothing follows the overwrite gap of a partition: "exactly   *)
(* one overwrite event for this snapshotted partition".                    *)
(***************************************************************************)
EventsInOrder ==
  (Len(rd.log) = 2 /\ rd.log[1].gen # 0) =>
    \/ rd.log[1].gen < rd.log[2].gen
    \/ /\ rd.log[1].gen = rd.log[2].gen
       /\ rd.log[1].kind # "overwritten" /\ rd.log[1].seq < rd.log[2].seq

(***************************************************************************)
(* NothingMissing.  A query that ran to its end has delivered every block  *)
(* of the asked domain and range that was readable when the reader began,  *)
(* or has reported a gap in its place: no block is lost in silence.  Only  *)
(* the scan of a read-only open() may stop short, at damage.               *)
(***************************************************************************)
NothingMissing ==
  rd.result = "ok" =>
    \A b \in rd.due : rd.who = "outside" /\ \E i \in 0 .. b.seq : B(b.slot, i) \in hurt

=============================================================================
