# TLA+ models of TFDB

TFDB is an embedded store for telemetry: one writer appends records to a volume
that is a ring of equal partitions on flash, and any number of readers query
them. This directory holds a formal model of it: what the ring store does to the
medium, what survives when power or a process fails, what a reader sees of a
volume that is being written, how volumes are formatted and found, how records
become bytes and come back, and what the asynchronous writer in front of it all
promises to its callers. TLC checks the models on small instances; TLAPS proves
the theorems of section 4 for every instance.

## 1. The system

| Part | Source | Modelled by | Extent |
|---|---|---|---|
| Ring store, writing and recovery | `src/ring_store.cpp` | `RingStore` | all writing calls, `open()` for writing, strict verification |
| Queries | `src/ring_store.cpp` (`query`, `read_block`, read-only `open`) | `Query` | one step per read, beside the writer |
| On-media format | `src/internal_format.cpp` | `RingStore`, `Volume`, `Storage` | structures and their validity, not their bytes |
| Storage contract, memory backend | `src/memory_storage.cpp`, `include/tfdb/storage.hpp` | `Storage` | write, flush, failures, crash images |
| POSIX storage, volume format | `src/storage_posix.cpp`, `RingStore::format`, `tools/tfdb_format.cpp` | `Volume` | one step per system call |
| Asynchronous writer | `src/async_writer.cpp` | `AsyncWriter`, `DurableQueue` | all calls, the worker |
| Health | `src/ring_store.cpp` (`health`) | `Health` | one step per atomic load or store |
| Record profile, block building | `src/record_profile.cpp`, `src/ring_store.cpp` | `Blocks` | framing, blocks, time anomalies, record queries |
| Codecs | `src/codec.cpp` | `Codec` | PackBits and LZ4 block, both directions |
| Load generator | `tools/tfdb_loadgen.cpp` | `LoadOracle` | its persistence oracle |
| Rust reader | `rust/tfdb-reader` | none | see section 6 |
| Counting storage, status, version, other tools, benchmarks | `src/`, `tools/` | none | no behaviour a property would be about |

A volume is `partition_count` slots. A partition is a header with a generation
number, block frames, and, once sealed, an index and a footer. The writer fills
the newest partition; a rotation seals it and writes a header of the next
generation into the next slot, over the oldest partition. Every structure has a
CRC. A block names the writer session that wrote it and the session of the
block before it. `AsyncWriter` puts a bounded queue and a worker thread in
front of a `RingStore` and offers a `checkpoint()` barrier to many threads.

## 2. Modules

* `Storage` is the byte store. A region is the target of one `write_exact()`
  call and holds one value. `cache` is what a read returns, `disk` what the last
  flush left, `pending` what has been written to each region since. A power
  loss leaves in each region its old value, any pending one, or a torn one,
  independently of the others, as `MemoryStorage::crash_materialize` can.
* `RingStore` is the ring store over `Storage`. Every writing call runs under
  one mutex, so a call is a sequence of I/O steps: `op` is the call, `pc` its next
  step. A step is one write or flush with the bookkeeping up to the next one. Any
  step may fail, and a session may end between any two steps.

  | Variable | Code |
  |---|---|
  | `cat`, `act`, `nextOpts` | `partitions`, `active_slot`, `next_options` |
  | `builder`, `dirty`, `faulted`, `closed` | members of the same name |
  | `writer` | the random writer id of a session, numbered |
  | `accepted`, `durable` | `metrics.accepted_records`, `metrics.durable_records` |
  | `promised`, `evicted`, `contracts` | history: what was claimed durable, what a rotation wrote over, each record's contract |

  `Recovered`, `Scanned` and `Delivered` are the recovery rules of `open()`,
  `scan_partition` and `query` as functions of an image, so that the properties
  can ask what a reopened store would find in any state.
* `AsyncWriter` has one step per acquisition of `mutex_` and one per store call
  made outside it. The store is seen through its interface (an append or a
  checkpoint succeeds, is rejected or faults), the clock through the one question
  the worker asks, whether the interval has elapsed.
* `DurableQueue` is what `AsyncWriter` promises, without queue, worker or
  counters. `AsyncWriter!Queue` instantiates it; `ImplementsQueue` is the claim.
* `Query` extends `RingStore` with a reader. Every `read_exact()` of the reader is
  a step, so the writer may publish, seal or reuse a slot between any two. An
  inside reader shares the writer's store and snapshots its catalogue under the
  mutex; an outside reader is another process, whose read-only `open()` reads the
  catalogue slot by slot. `rd` is the reader: the partition and entry in hand, what
  it has read of them, the last events delivered; `due` is history, the blocks that
  were readable when it began and have not been accounted for. Any read may fail,
  and an outside reader may lack the codec of a generation it meets only while it
  reads. A medium that decays is an action of its own (`Decay`); nobody but the
  reader notices, so a region decays just before it is read.
* `LoadOracle` composes `RingStore` with `PersistenceOracleStorage`, which sees
  every write, in pieces, and works out from the writes alone what must remain
  readable.
* `Volume` is the path on which volumes live: `FileStorage::create` and
  `open_existing`, the advisory lock, `RingStore::format`, and `open()` up to the
  list of partitions. Several processes take turns, one system call at a time
  (`open_existing` opens and locks in one step, since nothing is done in between;
  the slots up to the next one ever used are read in one). `after` is, per item of
  the medium, what may be there once power is lost.
* `Health` is `health()` against the writer's stores to the atomics. A location is
  the sequence of stores made to it; a load returns any store not older than what
  the watchdog has seen; release stores and acquire loads hand on what was seen.
* `Codec` holds the codecs as functions on sequences of symbols. The constants of
  the formats are parameters: a nibble has two values, a byte four, so that escape
  bytes, maximal runs and overlapping matches occur in inputs of 13 bytes.
* `Blocks` takes records through framing, the block under construction, the codec,
  the partition and back through `query_records`.
* `RingInvariant` defines the inductive invariants of `RingStore`. The modules that
  end in `Proofs` hold the theorems and their lemmas (section 4), the modules that
  begin with `MC` the instances for TLC.

The two halves meet at one interface. `AsyncWriter` takes from the ring store
that a successful checkpoint makes every appended record durable, and that an
append that rotates makes the earlier ones durable; `DurableSurvives` in
`RingStore` is that promise from the other side.

`RingStore` treats a block as a list of record numbers and its frame as valid or
not; that the bytes of a block are the bytes that were appended, and that a
reserved block fits, is what `Blocks` shows. `RingStore` starts from a formatted
volume with one writer; that there is one, and that its volume stays, is what
`Volume` shows. `Query` and `LoadOracle` run against the writer of `RingStore`
itself, step by step.

Operators whose names end in `_Something` after a definition's name
(`SyncMedia_NoFlush`, `Covered_Submitted`, ...) are plausible mistakes in that
definition. No specification uses them; substituting one for the definition
makes TLC violate the property `PROJECT.json` pairs it with.

## 3. What is checked

### Ring store

The word *power* in a run's `Restarts` allows power cuts. *warm* allows a volume to
be opened again while the backend still holds unflushed writes of an earlier
session: the process died, or a failed store was destroyed, and the page cache
lives on.

| Run | Instance | Shows |
|---|---|---|
| `ring_power` | 2 slots of 2 blocks, 3 generations, 3 records, 3 sessions, power | claimed records survive, read back in order; seal after data, header after seal; recovery finds what the writer has; published frames are never written over |
| `ring_wrap` | 3 slots of 1 block, 5 generations, power, writes in up to 2 pieces | a rotation costs only the oldest partition; retained generations are consecutive; the load generator's oracle expects exactly what can be read |
| `ring_contract` | 2 slots of 1 block of 2 records, 2 contracts, 3 sessions, power | records land under their contract, a builder always has room, generations stay in their slots |
| `ring_process` | 2 slots of 2 blocks of 2 records, warm | without power cuts, reopening over unflushed writes loses nothing, and a strict open finds nothing to reject |

Bounds. Two slots make every rotation past the first an eviction; three, with
five generations, let the ring go round one and two thirds times. A partition of
two frames can hold a torn or stale frame behind a good one, which the chain of
writer ids is about; a block of two records can be extended or emitted. Three
sessions are a crash, a recovery that resumes, and a second recovery, the
shortest history in which a stale frame could come back. `MaxGen` stands for
`UINT64_MAX` and is reached. `CHECK_DEADLOCK FALSE`: the bounded history ends,
and a volume with a torn header is refused by every later writable open, as
`docs/` and the tests have it.

`StrictAgrees` is claimed while power holds. A power cut between the writes of
index and footer and their flush may keep the footer and tear the index; lazy
opening tolerates that ("Footer is a provisional seal. Index CRC is checked
lazily on query.") and a query scans instead and reports a gap, while a strict
open rejects the volume.

`warm_durable` shows the code disagreeing with its documentation. It begins with an
`open()` over unflushed writes of an earlier session, followed by a power cut;
`open()` adopts those writes and starts with `dirty == false`. An adopted,
unflushed header of generation g is sealed empty; power keeps the footer and loses
the header; g is created again and a record in it checkpointed; the next open takes
the old footer of g for its seal and the record is gone: `DurableSurvives` is
violated.

The same cause violates five more properties once `Restarts` holds both words, four of
them in the instance of `ring_power`: `SealAfterData` (adopted blocks are sealed with
no flush before the footer, against the comment at `ring_store.cpp:559`),
`HeaderAfterSeal` (an adopted footer is followed by the next header with no flush
between), `CheckpointIsDurable` (`checkpoint()` returns success with no flush over
adopted blocks) and, with `MaxGen = 2` and `MaxRecords = 4`, `OrderedReadback` (a
footer that came before its data makes a frame of a previous session readable again,
because index entries on the medium carry no writer id; it takes two blocks with equal
metadata). The fifth is `ContractKept`, in the instance of `ring_contract`. With a
flush added to `OpenContinue` and `OpenCreate`, ahead of any write, TLC finds none of
the six in these instances.

### Readers

| Run | Instance | Shows |
|---|---|---|
| `query_live` | 2 slots of 2 blocks, 3 generations, 3 records, one reader of either kind, one damaged region, any number of failed reads | what is delivered as data was published so; a gap is called overwritten or corrupt as it is; events come in order; a query that ends well accounts for every block readable when it began |
| `query_torn` | the same, inside reader, no damage, reads may be torn | violates `GapsAreTrue` |

Bounds. Three generations over two slots let the writer reuse the slot under the
reader; with two blocks the reader can be overtaken between two blocks of a
partition or in the middle of one. One damaged region is enough to force each
fallback: scan for index, scan for footer, gap for header or block. A query asks
for everything or for the second block. `NothingMissing` makes one exception, which
the code makes too: the scan of a footerless partition by a read-only `open()` ends
in silence at a damaged block, because nothing on the medium says that more should
follow. A failed write counts as damage.

A failed read ends a read-only `open()`, and it ends a query when it is that of an
index, of a scan or of the recheck (`ring_store.cpp:907`, `913`, `923`). In
`read_block()` it becomes a corrupt gap whose detail is `io_error`, and the query
goes on with the next block; a failed read of block header or payload is reported
so at once, without a look at whether the slot was reused (`771`, `816`).
`unsupported` goes the same two ways when the slot has passed to a generation whose
codec the reader lacks. `GapsAreTrue` therefore goes by the detail of a gap:
`overwritten` and `unsupported` mean that the slot has gone to a later generation,
`corrupt` that something the reader had to read is damaged, and `io_error` makes no
claim about the medium.

`query_torn` lets a read overlap the writer's write of a header, as nothing in the
storage contract excludes ("A one-call `write()` is not assumed atomic",
`docs/architecture.md:131`). The header read is then neither the old nor the new
one, and the recheck in `query()` reports a corrupt gap for a slot that is being
reused on a sound medium, where `docs/architecture.md:302` promises an overwritten
gap. Nothing false is delivered as data. `tfdb_loadgen` counts such a gap in its
concurrent reader as a failure (`tools/tfdb_loadgen.cpp:682`).

### Volumes

| Run | Instance | Shows |
|---|---|---|
| `volume` | 2 processes, file or device, sizes 2 and 3, 3 formats, 2 faults, one decayed header copy | a writer's volume stays in place; what `format()` completed is what `open()` finds, until the next format begins, and never anything older; partitions of a volume stay with it |

Bounds. Three formats give an older volume, a completed one and one that is cut off;
two sizes a replacement that is larger, smaller or equal; the one slot in which
partitions are created is the one the smaller size lacks. A fault is a power cut or
the end of a process in the middle of `create()`, `format()` or the creation of a
partition; with two of them a format can be cut off and power be lost over what it
left. Power may be cut before any system call and keeps any subset of what was not
synchronised.

`tfdb_format --device` opens the path with `open_existing()`, which takes a regular
file as well. Such a format in place does not sync the parent directory, so it
relies on whoever made the file. `OpensAsFormatted` makes that exception: a file whose
`create()` was cut off before its directory sync, then formatted in place, may still
vanish with its entry at a power cut. In every other case the file is there and opens
as it was formatted.

`spent` marks volumes that lost partitions rightly: to a smaller size, or to a writer
of another volume, whose unflushed header a power cut may revoke after that writer has
put partitions over the old ones.

### Contents

| Run | Instance | Shows |
|---|---|---|
| `blocks` | every block of up to 13 bytes over two symbols, for both codecs; 3 framed records out of 4 in 2 time domains, 3 partitions, 2 sessions | bytes come back; a reserved block fits; any proper prefix of a stored block is refused; a record query returns exactly the matching records, in order; anomalies are marked where the thresholds say, and only there |

Bounds. 13 symbols hold two maximal PackBits runs or literal groups and an LZ4 match
with an extended length in front of the last literals. Times have three bits and
include both extremes, so that their distance overflows; 64 bits differ in nothing
the code can see.

### Health

| Run | Instance | Shows |
|---|---|---|
| `health` | 3 episodes of undurable records, clock to 4, fair watchdog | a fault is never seen without its code; the age of the oldest undurable record is never overstated; `health()` returns while a flush, also that of `close()`, hangs, and the stall becomes visible |

Bounds. With three episodes a watchdog can combine the flag of one with the time of
another, earlier or later. Fairness: the watchdog keeps calling, time passes, and
stores become visible in the end, as the C++ standard asks of atomics. Nothing is
assumed of the writer; a flush may hang for ever. Two things a reader might expect
do not hold and are documented as such ("Fields are sampled independently"): the
last flush may be longer than the maximum, and errors may exceed calls.

### Asynchronous writer

| Run | Instance | Shows |
|---|---|---|
| `async` | 2 callers, capacity 2, 3 records in all, 2 runs of the worker, fair | successful barriers are sound, records are appended in order, metrics are honest; `AsyncWriter` implements `DurableQueue`, in which a clean stop leaves nothing undurable; barriers and `stop()` return, accepted records become durable unless the worker fails |
| `async_comment` | capacity 2 | violates `FailureFaultsStore`: a contract mismatch ends the worker without faulting the store, against the comment at `async_writer.cpp:52` |

Bounds. Two callers give two barriers with different targets, a third adds no
new relation between a target and the counters. A queue of two has an order that
could be got wrong, and three records fill it with one record in flight. Two runs of the worker show the
reset of the counters in `start()`. The safety properties and the refinement are
proved for every capacity and any number of records; so are `StopDrains` and
`NoIdleTurn` (the worker never spins), which no run repeats.

Fairness. A thread that can take the mutex eventually does and a store call
returns: weak fairness of the worker, of a caller whose wait is over, of the join
in `stop()`. Time passes: weak fairness of `Interval`. `Dequeue` has strong
fairness: the worker prefers a due checkpoint to a queued record, so if every
checkpoint outlasted the interval it would never dequeue. The interval restarts
when a checkpoint ends, so this is the assumption that the interval is not
always over by the time the worker looks. No fairness is assumed of producers,
callers or the owner's calls.

`BarrierReturns` is about a barrier of the current run of the worker. A
`checkpoint()` that is not scheduled between the end of one run and the `start()`
of the next finds the counters reset and may wait for ever; `docs/api.md` leaves
checkpoint and shutdown to one integration owner, which excludes it. Such a call
never returns a false success: `BarrierSound` is checked and proved over any number
of runs.

## 4. What is proved

All theorems are for arbitrary constants under the named assumptions: at least
two slots, at least one frame, at least one record to a block, at least one
generation, a nonempty set of contracts without the marker for an unchecked
append; a queue capacity of at least one. The bounds `MaxRecords`, `MaxSessions`,
`MaxEpisodes` and `MaxClock` are arbitrary too.

`AsyncWriterProofs`

* `Inductive`: `IInv` is inductive. `BarrierSound` is not inductive on its own: that
  a completed barrier covers durable records depends on the store having exactly
  the processed records (`StoreInv`), on the queue holding exactly the numbers
  after them (`QueueInv`), on the worker's phases (`WorkerInv`), and, over a
  restart, on a waiting caller's records belonging to this run or to one that
  drained (`CallerInv`, `StopDrains`).
* `TypeCorrect`, `BarrierTheorem`, `OrderTheorem`, `MetricsTheorem`,
  `DrainTheorem`, `NoSpinTheorem` follow from it.
* `Refinement`: `Spec => ImplementsQueue`, step by step. Store calls are `Persist`
  or stutter, the worker's end is `Stop`, a return is `ReturnOk` or `ReturnError`.

`RingStoreProofs`, for both kinds of restart and every failure

* `RingInductive`: `RInv` is inductive. It says what a region may hold, headers
  carrying a generation of their slot (`MediaInv`); which call may be at which step
  (`ControlInv`); and that the active partition exists, is unsealed except within a
  rotation, has a successor generation when it is being sealed, and has room for the
  builder (`ActiveInv`). The generations need the medium and the catalogue
  together: `open()` rebuilds the second from the first, and a rotation writes the
  first from the second.
* `RingTypeCorrect`, `GenerationOrder` (`GenerationsInPlace`) and `RoomForTheBlock`
  (`CapacityReserved`) follow from it.

`RingPowerProofs`, for power cuts and every failure, under `"warm" \notin Restarts`:
a volume is opened only over a medium without unflushed writes. `warm_durable` shows
that this hypothesis is needed.

* `PowerInductive`: `RInv /\ PInv` is inductive.

  | Part of `PInv` | Says |
  |---|---|
  | `StageInv` | unflushed writes are all in one slot and of one stage: blocks, or a seal, of an unsealed partition, or a header when all other partitions are sealed |
  | `HeaderInv`, `ComingInv` | flushed generations are consecutive and only the newest is unsealed; a header on its way carries the next generation, over the oldest |
  | `FrameInv`, `StampInv` | a frame a scan admits is not written again, and in its place a power cut leaves none that the chain of writer ids would admit |
  | `SealInv` | a footer, also one on its way, covers exactly the flushed frames |
  | `CatInv`, `ActInv` | the catalogue is that of the flushed medium; the blocks it lists are those a scan admits |
  | `PhaseInv` | what may be unflushed at each step of a call |
  | `RecordInv` | accepted records are in the builder, on the medium or evicted, promised ones where a power cut cannot take them; order and contracts |

  None of the properties is inductive alone. That a record survives depends on what
  a power cut may leave of every unflushed region, hence on the order of the writes;
  that a new block does not revive an old one behind it depends on frames of earlier
  sessions carrying older writer ids; and both depend on what `open()` rebuilds.
* From it: `PowerDurable` (`DurableSurvives`), `PowerOrdered` (`OrderedReadback`),
  `PowerRecovery` (`RecoveryAgrees`), `PowerSeals` (`SealAfterData`), `PowerHeaders`
  (`HeaderAfterSeal`), `PowerCheckpoint` (`CheckpointIsDurable`), `PowerContiguous`
  (`RetainedContiguous`), `PowerContracts` (`ContractKept`), and the action
  properties `PowerFrames` (`FrameImmutable`) and `PowerEvicts` (`EvictsOldest`).
* The lemmas are in a tree of modules. `RingMediumProofs` has the facts about
  regions, generations, scans, writes, flushes and power cuts; `RingSessionProofs`
  what a written block, seal or header makes of the medium, and the steps that write
  nothing; `RingBlockProofs` the steps that emit a block, `RingRotateProofs` the
  power cut, the flushes and the steps of a rotation. `RingPowerProofs` adds
  `open()`.

`HealthProofs`, for any number of episodes and any clock

* `HealthInductive`: `HInv` is inductive. Whoever sees `faulted` has seen a code other
  than `ok` (`FaultInv`); the mark of an episode is stored after its time, and times
  do not decrease (`EpisodeInv`); a watchdog between two loads has seen the time of
  the episode it read, or of a later one (`WatchInv`).
* `FaultTheorem` (`FaultHasCode`) and `AgeTheorem` (`AgeNotOverstated`) follow.

Model-checked only:

* all liveness (`BarrierReturns`, `AcceptedPersists`, `StopReturns`, `StallIsSeen`),
  which is beyond the prover;
* `DurableSurvives` with warm restarts and no power cuts, and `StrictAgrees`, which is
  claimed for the same executions: neither follows from `PInv`, which is about a
  medium that was settled when it was opened;
* `OracleAgrees` and `Blocks`: they fold over sequences, and what a fold or a
  recursive codec computes for every input would need induction over sequences;
* `Query` and `Volume`. Nothing known stands in the way of a proof. The reader needs
  an invariant of its own for each of its steps, over a medium that also decays, so
  that `PInv` does not carry over; `Volume` one of what each item may be after a power
  cut.

## 5. What is abstracted

* A partition holds `Cap` frames, whatever their size: `Cap` stands for both limits
  of `ensure_empty_builder_capacity`, data region and index reserve. A block that
  leaves room for another is decided by count.
* A record is a number, a contract a model value (record format, version, time
  domain). An index entry keeps the record count of its block: other metadata may
  coincide between two blocks.
* Header, block, index and footer are each written by one `write_exact()` and are
  valid, torn or blank as a whole: their CRCs are taken to detect every mixture.
  Writer ids are taken to be distinct.
* A torn header over a slot never used may lack the bytes that identify the volume
  (`Blot`); `open()` then looks for a footer or a first block, as the code does.
* A failed flush leaves writes pending; a failed write leaves the region as it was
  or torn.
* A read fails or is whole unless `TornReads` says otherwise. In `Query` the index, scan and
  event order are the code's; which partitions belong to the time domain asked for
  and which blocks meet the range is an arbitrary choice.
* A volume header copy is the number of its volume, or 0 if its CRC fails.
* A CRC in `Blocks` is a sum over all bytes; record fields are one symbol each.
* The byte capacity of the asynchronous queue and its latency maxima are left out.

## 6. Not modelled

* *Read errors of a writable `open()`.* They end it, and all its reads come before its
  first write. (Those of a reader are modelled.)
* *Exceptions in `submit()`.* `submitted_sequence_` and `queued_bytes_` are advanced
  before `queue_.push_back` (`async_writer.cpp:110`-`115`). Should that throw
  `bad_alloc`, a number is left without a record, and a `checkpoint()` with that target
  waits until a later record has been processed or the worker ends.
* *A codec missing in `read_block()`* (`ring_store.cpp:830`). The block's codec is none
  or that of its partition header, which was refused if the codec was missing, so the
  branch is not taken. A codec that fails on a payload with a sound CRC is not modelled.
* *Gaps in `query_records()`.* `Blocks` reads a sound medium, so the forwarding of gap
  events to the record visitor (`record_profile.cpp:144`-`151`) does not occur in it.
* *Rust reader.* It follows the recovery rules of the read-only `open()` and `query()`
  in `Query`, in code of its own that is not translated.
* *Getters and printing.* `inspect()`, `metrics()`, the dump, inspect and verify tools,
  the examples and benchmarks copy or print state. `CountingStorage` counts calls.
* *Load generator* apart from its oracle: payload generation, rate, latency samples.
* *Unreachable arithmetic.* `align_up` is called with values below 2^33, so its
  overflow branch is not taken; the same holds of the saturation in
  `max_compressed_size` and of the match length overflow in the LZ4 decoder.
* *Byte layout* of the structures, feature descriptors and CRC-32C itself.

What would come next: `AsyncWriter` over `RingStore` in place of its interface, and
proofs of the properties of `Query` and `Volume`.
