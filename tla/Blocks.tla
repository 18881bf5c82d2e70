------------------------------- MODULE Blocks ------------------------------
(***************************************************************************)
(* What the store does with the contents of records: a record is framed    *)
(* (FramedRecordV1::encode, append_framed_record), packed into the block   *)
(* under construction with the block's time envelope and flags             *)
(* (append_impl), compressed and placed (emit_builder), and found again by *)
(* time and selector (query_blocks, query_records).                        *)
(*                                                                         *)
(* Partitions are rotated but never reused here, and nothing is damaged:   *)
(* rings, crashes and concurrent readers are RingStore, Volume and Query.  *)
(***************************************************************************)
EXTENDS Codec, FiniteSets

CONSTANTS
    Width,             \* bits of a time, 64 in the code
    BlockHeaderSize,   \* kBlockHeaderEncodedSize
    Quantum,           \* volume.persistence_quantum
    Workloads          \* what is stored in which volume, see MCBlocks

VARIABLES
    load,       \* the workload of this behaviour
    store,      \* RingStore::Impl: parts, builder, last, next_options, fault
    session,    \* how often the store has been opened
    accepted    \* history: every record that was accepted, in order

vars == <<load, store, session, accepted>>

Times == -(2 ^ (Width - 1)) .. 2 ^ (Width - 1) - 1

-----------------------------------------------------------------------------
(* FramedRecordV1: a field of the 32-byte header is one symbol.            *)

FrameHeaderSize == 7

\* internal::crc32c: any function of all the bytes.
Crc(bytes) == FoldLeft(LAMBDA sum, byte : (2 * sum + byte) % 31, 1, bytes)

\* static_cast<std::uint64_t>(time), and the way back in decode_block.
TimeWord(time) == time % 2 ^ Width

WordTime(word) ==
    IF word < 2 ^ (Width - 1) THEN word
    ELSE LET magnitude == (2 ^ Width - 1 - word) + 1 IN -magnitude

Encode(record) ==
    LET size == Len(record.payload)
        Frame(crc) == <<FrameHeaderSize + size, FrameHeaderSize, record.flags,
                        TimeWord(record.time), record.selector, size, crc>>
                          \o record.payload
    IN  Frame(Crc(Frame(0)))

\* The records of a decoded block from position p on, and whether all of it
\* could be read.
RECURSIVE DecodeBlock(_, _)
DecodeBlock(block, p) ==
    LET Frame(size) == SubSeq(block, p, p + size - 1)
        Record(frame) == [time |-> WordTime(frame[4]), selector |-> frame[5],
                          flags |-> frame[3],
                          payload |-> SubSeq(frame, FrameHeaderSize + 1, Len(frame))]
        Before(rest) == [rest EXCEPT !.records = <<Record(Frame(block[p]))>> \o @]
    IN  IF p > Len(block) THEN [ok |-> TRUE, records |-> <<>>]
        ELSE IF \/ Len(block) - p + 1 < FrameHeaderSize
                \/ block[p + 1] # FrameHeaderSize
                \/ block[p] # FrameHeaderSize + block[p + 5]
                \/ block[p] > Len(block) - p + 1
                \/ Crc([Frame(block[p]) EXCEPT ![7] = 0]) # block[p + 6]
        THEN [ok |-> FALSE, records |-> <<>>]
        ELSE Before(DecodeBlock(block, p + block[p]))

-----------------------------------------------------------------------------
(* The block under construction and the blocks of the partitions.          *)

EmptyBuilder == [bytes |-> <<>>, records |-> 0, min |-> 0, max |-> 0, flags |-> {}]

Partition(options) == [options |-> options, data_end |-> 0, index |-> <<>>]

Active(s) == s.parts[Len(s.parts)]

\* internal::align_up; the values are below 2^33 wherever it is called.
AlignUp(value) == ((value + Quantum - 1) \div Quantum) * Quantum

Fail(s, why) == [s EXCEPT !.fault = why]

\* A bug for the model checker to find: what was compressed is stored.
Selected_Always(codec, raw, compressed) == [codec |-> codec, bytes |-> compressed]

\* The payload of the block: compressed only where that is shorter.
Selected(codec, raw, compressed) ==
    IF codec # "none" /\ Len(compressed) < Len(raw)
    THEN [codec |-> codec, bytes |-> compressed]
    ELSE [codec |-> "none", bytes |-> raw]

NoRoom(s, span) ==
    \/ span > load.region - Active(s).data_end
    \/ Len(Active(s).index) + 1 > load.index_cap

\* The end of emit_builder(): the frame is written behind the others.
Place(s, payload, span) ==
    LET b == s.builder
        block == [codec |-> payload.codec, stored |-> payload.bytes,
                  raw_size |-> Len(b.bytes), count |-> b.records,
                  min |-> b.min, max |-> b.max, flags |-> b.flags]
    IN  IF NoRoom(s, span) THEN Fail(s, "builder capacity was not reserved")
        ELSE [s EXCEPT !.parts[Len(s.parts)].index = Append(@, block),
                       !.parts[Len(s.parts)].data_end = @ + span,
                       !.builder = EmptyBuilder]

\* emit_builder()
EmitBuilder(s) ==
    LET raw == s.builder.bytes
        codec == Active(s).options.codec
        Store(payload) == Place(s, payload, AlignUp(BlockHeaderSize + Len(payload.bytes)))
        Emit(compressed) ==
            IF Len(compressed) > MaxCompressedSize(codec, Len(raw))
            THEN Fail(s, "compression codec exceeded declared bound")
            ELSE Store(Selected(codec, raw, compressed))
    IN  IF raw = <<>> THEN s ELSE Emit(Compress(codec, raw))

\* rotate_internal(): the active partition is sealed and another one begun.
RotateInternal(s, options) ==
    [s EXCEPT !.parts = Append(@, Partition(options)),
              !.last.have = @ /\ Active(s).options.domain = options.domain]

\* ensure_empty_builder_capacity()
EnsureCapacity(s) ==
    IF s.builder.bytes = <<>>
           /\ NoRoom(s, AlignUp(BlockHeaderSize + load.max_block_payload))
    THEN RotateInternal(s, s.next_options) ELSE s

\* A bug for the model checker to find: the difference of two times as a time.
DeltaExceeds_Signed(earlier, later, allowed) ==
    /\ allowed >= 0
    /\ \/ later < earlier
       \/ WordTime((later - earlier) % 2 ^ Width) > allowed

\* delta_exceeds(), in unsigned arithmetic of the width of a time.
DeltaExceeds(earlier, later, allowed) ==
    /\ allowed >= 0
    /\ \/ later < earlier
       \/ (TimeWord(later) - TimeWord(earlier)) % 2 ^ Width > allowed

Anomaly(s, time) ==
    /\ s.last.have
    /\ \/ /\ time < s.last.time
          /\ DeltaExceeds(time, s.last.time, Active(s).options.skew)
       \/ /\ time > s.last.time
          /\ DeltaExceeds(s.last.time, time, Active(s).options.step)

\* The part of append_impl() that takes the record in.
TakeIn(s, bytes, time, flags) ==
    LET b == s.builder
        first == b.bytes = <<>>
    IN  [s EXCEPT
           !.builder = [bytes |-> b.bytes \o bytes,
                        records |-> b.records + 1,
                        min |-> IF first THEN time ELSE Min({b.min, time}),
                        max |-> IF first THEN time ELSE Max({b.max, time}),
                        flags |-> b.flags \union flags \union
                                  IF Anomaly(s, time) THEN {"anomaly"} ELSE {}],
           !.last = [have |-> TRUE, time |-> time]]

-----------------------------------------------------------------------------
(* The calls of the application.                                           *)

Working == store.fault = "none"

TotalBlocks(s) == FoldLeft(LAMBDA n, p : n + Len(p.index), 0, s.parts)

\* No more blocks than the workload asks for, the pending one included.
Bounded(s) == /\ TotalBlocks(s) + (IF s.builder.bytes = <<>> THEN 0 ELSE 1)
                    <= load.max_blocks
              /\ Len(s.parts) <= load.max_parts

\* The end of append_impl(): the store is ready for a record that was framed
\* for a partition with the options `before`.  It refuses a framed one if the
\* partition it would reach by now is of another kind.
Accept(record, bytes, before, ready) ==
    LET now == Active(ready).options
        unsync == IF record.flags = 1 THEN {"unsync"} ELSE {}
    IN  IF \/ ready.fault # "none"
           \/ before.framed /\ ~(now.framed /\ now.domain = before.domain)
        THEN /\ store' = ready
             /\ UNCHANGED accepted
        ELSE /\ store' = TakeIn(ready, bytes, record.time, unsync)
             /\ accepted' = Append(accepted,
                                   [record |-> record, bytes |-> bytes,
                                    session |-> session,
                                    part |-> Len(ready.parts)])

\* append_framed_record() in a framed partition, append() in another one.
\* On its way it may emit the full block and rotate.
AppendRecord(record) ==
    LET before == Active(store).options
        bytes == IF before.framed THEN Encode(record) ELSE record.payload
        full == Len(bytes) > load.max_block_payload - Len(store.builder.bytes)
    IN  /\ Working
        /\ Len(accepted) < load.max_records
        /\ bytes # <<>> /\ Len(bytes) <= load.max_block_payload
        /\ Accept(record, bytes, before,
                  EnsureCapacity(IF full THEN EmitBuilder(store) ELSE store))
        /\ Bounded(store')
        /\ UNCHANGED <<load, session>>

\* publish(), and the emit_builder() of checkpoint().
Publish ==
    /\ Working
    /\ store.builder.bytes # <<>>
    /\ store' = EmitBuilder(store)
    /\ UNCHANGED <<load, session, accepted>>

\* rotate()
Rotate(next) ==
    LET Onward(emitted) ==
            IF emitted.fault # "none" THEN emitted
            ELSE RotateInternal([emitted EXCEPT !.next_options = next], next)
    IN  /\ Working
        /\ store' = Onward(EmitBuilder(store))
        /\ Bounded(store')
        /\ UNCHANGED <<load, session, accepted>>

SetNextPartitionOptions(next) ==
    /\ Working
    /\ store' = [store EXCEPT !.next_options = next]
    /\ UNCHANGED <<load, session, accepted>>

\* close() and open(): the session's memory of the last time is lost.
Reopen(next) ==
    /\ Working
    /\ session < load.max_sessions
    /\ session' = session + 1
    /\ store' = [EmitBuilder(store) EXCEPT !.last = [have |-> FALSE, time |-> 0],
                                           !.next_options = next]
    /\ UNCHANGED <<load, accepted>>

Init ==
    /\ load \in Workloads
    /\ \E options \in load.options :
          store = [parts |-> <<Partition(options)>>, builder |-> EmptyBuilder,
                   last |-> [have |-> FALSE, time |-> 0],
                   next_options |-> options, fault |-> "none"]
    /\ session = 1
    /\ accepted = <<>>

Next ==
    \/ \E record \in load.records : AppendRecord(record)
    \/ Publish
    \/ \E options \in load.options : \/ Rotate(options)
                                     \/ SetNextPartitionOptions(options)
                                     \/ Reopen(options)

Spec == Init /\ [][Next]_vars

-----------------------------------------------------------------------------
(* Queries.                                                                *)

\* Every published block with the options of its partition, oldest first.
Published ==
    FoldLeft(LAMBDA all, part :
                 all \o [i \in DOMAIN part.index |->
                            part.index[i] @@ [options |-> part.options]],
             <<>>, store.parts)

ReadBlock(block) == Decompress(block.codec, block.stored, block.raw_size)

\* A bug for the model checker to find: both are taken as half-open.
RangesIntersect_Open(block, range) ==
    block.min < range.end /\ block.max > range.begin

\* ranges_intersect(): the envelope is closed, the range half-open.
RangesIntersect(block, range) ==
    block.min < range.end /\ block.max >= range.begin

\* query_blocks() for a time range of one domain.
QueryBlocks(range) ==
    SelectSeq(Published, LAMBDA block :
                  /\ block.options.domain = range.domain
                  /\ RangesIntersect(block, range))

\* What the block visitor of query_records() does with one block.  The
\* record visitor asks for no more after `limit` records.
VisitBlock(range, selectors, limit, q, block) ==
    LET Wanted(record) ==
            /\ range.begin <= record.time /\ record.time < range.end
            /\ selectors = {} \/ record.selector \in selectors
        Result(out, sound) ==
            [out |-> out, going |-> Len(out) < limit,
             status |-> IF Len(out) < limit /\ ~sound THEN "corrupt" ELSE "ok"]
        Deliver(hits, sound) ==
            Result(q.out \o SubSeq(hits, 1, Min({Len(hits), limit - Len(q.out)})), sound)
        Visit(decoded) == Deliver(SelectSeq(decoded.records, Wanted),
                                  decoded.ok /\ Len(decoded.records) = block.count)
    IN  IF ~q.going \/ q.status # "ok" THEN q
        ELSE IF ~block.options.framed THEN [q EXCEPT !.status = "unsupported"]
        ELSE Visit(DecodeBlock(ReadBlock(block).bytes, 1))

\* query_records()
QueryRecords(range, selectors, limit) ==
    FoldLeft(LAMBDA q, block : VisitBlock(range, selectors, limit, q, block),
             [out |-> <<>>, going |-> TRUE, status |-> "ok"],
             QueryBlocks(range))

-----------------------------------------------------------------------------
(* Properties.                                                             *)

\* The records accepted[i] of the n-th published block.
RecordsOf(n) ==
    LET before == FoldLeft(LAMBDA k, b : k + b.count, 0, SubSeq(Published, 1, n - 1))
    IN  before + 1 .. before + Published[n].count

\* Nothing is lost or altered between append() and a block read back by
\* read_block(): the blocks decompress, and their bytes followed by those of
\* the block under construction are the bytes of the accepted records in the
\* order of the calls, whatever the codec, the partition and the session.
BytesKept ==
    LET raw == [n \in DOMAIN Published |-> ReadBlock(Published[n])]
    IN  /\ \A n \in DOMAIN raw : raw[n].ok
        /\ FoldLeft(LAMBDA all, r : all \o r.bytes, <<>>, raw) \o store.builder.bytes
             = FoldLeft(LAMBDA all, a : all \o a.bytes, <<>>, accepted)

\* The two internal errors of emit_builder() are never raised: no codec
\* exceeds its max_compressed_size(), and the room that append_impl()
\* reserves for a block that is just begun is enough for the block it
\* becomes, compressed, framed and aligned.
ReserveSuffices == store.fault = "none"

\* A decoder that is given all but the end of a block, or a block with a
\* byte too many, refuses it: the raw size of the block header is reached
\* by exactly the bytes that were stored, by no others in front or behind.
CutBlockRefused ==
    \A n \in DOMAIN Published :
        LET block == Published[n]
            Reads(stored) == Decompress(block.codec, stored, block.raw_size).ok
        IN  /\ \A k \in 0 .. Len(block.stored) - 1 :
                  ~Reads(SubSeq(block.stored, 1, k))
            /\ \A byte \in 0 .. Byte - 1 : ~Reads(Append(block.stored, byte))

\* query_records() visits exactly the published records of the time domain
\* whose time lies in [begin, end) and whose selector was asked for, each
\* with the fields it was framed with, in the order of the append calls, and
\* fewer only if the visitor stops it.  No record is missed because a block
\* was passed over on its time envelope, with times that run backwards and
\* in partitions of either codec.
QueryExact ==
    LET published == SubSeq(accepted, 1, FoldLeft(LAMBDA k, b : k + b.count, 0, Published))
        DomainOf(a) == store.parts[a.part].options.domain
    IN  \A range \in load.ranges, selectors \in load.selectors, limit \in load.limits :
            LET due == SelectSeq(published, LAMBDA a :
                           /\ DomainOf(a) = range.domain
                           /\ a.record.time \in range.begin .. range.end - 1
                           /\ selectors = {} \/ a.record.selector \in selectors)
                result == QueryRecords(range, selectors, limit)
            IN  /\ result.status = "ok"
                /\ result.out = [i \in 1 .. Min({limit, Len(due)}) |-> due[i].record]

\* Record i is out of line: the record accepted before it in the same session
\* and, without a change in between, in the same time domain, is further away
\* than the partition of record i allows in that direction.
OutOfLine(i) ==
    LET a == accepted[i]
        b == accepted[i - 1]
        options == store.parts[a.part].options
        delta == a.record.time - b.record.time
    IN  /\ i > 1
        /\ a.session = b.session
        /\ \A p \in b.part .. a.part : store.parts[p].options.domain = options.domain
        /\ \/ delta < 0 /\ options.skew >= 0 /\ -delta > options.skew
           \/ delta > 0 /\ options.step >= 0 /\ delta > options.step

\* A published block carries the time-anomaly flag exactly if one of its
\* records is out of line, also where the distance of two times has no
\* representation as a time, across blocks, rotations and sessions.
AnomalyMarked ==
    \A n \in DOMAIN Published :
        "anomaly" \in Published[n].flags <=> \E i \in RecordsOf(n) : OutOfLine(i)
=============================================================================
