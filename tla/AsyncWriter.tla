---------------------------- MODULE AsyncWriter ----------------------------
(***************************************************************************)
(* tfdb::AsyncWriter: a bounded queue in front of one RingStore, a worker  *)
(* thread that appends and checkpoints, a synchronous checkpoint() barrier *)
(* for any number of threads, and start()/stop() called by one owner.      *)
(*                                                                         *)
(* A step is what happens under one acquisition of mutex_, or one call of  *)
(* the store made outside it.  The store is seen through its interface: an *)
(* append or a checkpoint succeeds or returns an error, a successful       *)
(* checkpoint makes all appended records durable, and an append may make   *)
(* earlier ones durable when it rotates.  The clock is seen through the    *)
(* one question the worker asks of it: has the interval elapsed?           *)
(*                                                                         *)
(* Sequence numbers start at 1 again in every start(); base is the number  *)
(* of records submitted before the last one, so that base + sequence       *)
(* numbers a record for good.                                              *)
(***************************************************************************)
EXTENDS Naturals, Sequences

CONSTANTS
  Callers,     \* threads that call checkpoint()
  QueueCap,    \* queue_capacity_records
  MaxSubmits,  \* bound: records submitted in all runs of the worker
  MaxStarts    \* bound: successful calls of start()

ASSUME QueueAssumption == QueueCap \in Nat \ {0}
ASSUME AsyncBounds     == MaxSubmits \in Nat /\ MaxStarts \in Nat

VARIABLES
  \* Guarded by mutex_:
  queue, running, stopping, checkpoint_requested,
  submitted, processed, requested_barrier, completed_barrier, durable_sequence,
  have_oldest, oldest,   \* the record whose submission time oldest_undurable_ns_ holds
  background,            \* background_status_: "ok" or "error"
  \* The worker thread:
  worker,                \* "none", "lock", "call", "finish" or "done"
  item, do_checkpoint, exit_after,
  result,                \* the status the store call returned
  due,                   \* the checkpoint interval has elapsed
  \* The threads that call:
  owner,                 \* "idle", or "joining" inside stop()
  answer, target,        \* checkpoint(), by caller
  \* The store:
  appended, persisted,   \* records appended, and how many of them are durable
  store_faulted,
  \* History:
  base, goal, starts     \* goal: target, numbered for good

locked   == <<queue, running, stopping, checkpoint_requested, submitted, processed,
              requested_barrier, completed_barrier, durable_sequence, have_oldest,
              oldest, background>>
turn     == <<item, do_checkpoint, exit_after, result>>
calls    == <<answer, target, goal>>
store    == <<appended, persisted, store_faulted>>
lifetime == <<owner, base, starts>>
vars     == <<locked, worker, turn, due, calls, store, lifetime>>

Init ==
  /\ queue = <<>> /\ running = FALSE /\ stopping = FALSE /\ checkpoint_requested = FALSE
  /\ submitted = 0 /\ processed = 0 /\ requested_barrier = 0 /\ completed_barrier = 0
  /\ durable_sequence = 0 /\ have_oldest = FALSE /\ oldest = 0 /\ background = "ok"
  /\ worker = "none" /\ item = 0 /\ do_checkpoint = FALSE /\ exit_after = FALSE
  /\ result = "ok" /\ due = FALSE
  /\ owner = "idle"
  /\ answer = [c \in Callers |-> "none"]
  /\ target = [c \in Callers |-> 0] /\ goal = [c \in Callers |-> 0]
  /\ appended = 0 /\ persisted = 0 /\ store_faulted = FALSE
  /\ base = 0 /\ starts = 0

-----------------------------------------------------------------------------
(* The owner *)

\* start(): joins a finished worker, refuses after a failure or on a faulted
\* store, and otherwise begins from a clean slate.
Start ==
  /\ owner = "idle" /\ ~ running /\ worker \in {"none", "done"}
  /\ background = "ok" /\ ~ store_faulted
  /\ starts < MaxStarts
  /\ stopping' = FALSE /\ checkpoint_requested' = FALSE /\ queue' = <<>>
  /\ submitted' = 0 /\ processed' = 0 /\ requested_barrier' = 0 /\ completed_barrier' = 0
  /\ durable_sequence' = 0 /\ have_oldest' = FALSE /\ oldest' = 0
  /\ running' = TRUE
  /\ worker' = "lock" /\ due' = FALSE
  /\ item' = 0 /\ do_checkpoint' = FALSE /\ exit_after' = FALSE /\ result' = "ok"
  /\ base' = base + submitted /\ starts' = starts + 1
  /\ UNCHANGED <<background, calls, store, owner>>

\* stop(), up to the join.
StopRequest ==
  /\ owner = "idle"
  /\ owner' = "joining"
  /\ IF running
     THEN /\ stopping' = TRUE
          /\ requested_barrier' = submitted
          /\ checkpoint_requested' = TRUE
     ELSE UNCHANGED <<stopping, requested_barrier, checkpoint_requested>>
  /\ UNCHANGED <<queue, running, submitted, processed, completed_barrier, durable_sequence,
                 have_oldest, oldest, background, worker, turn, due, calls, store, base,
                 starts>>

\* Mutant: stop() waits for a thread that was never started.
StopReturn_NeverStarted ==
  /\ owner = "joining" /\ worker = "done"
  /\ owner' = "idle" /\ worker' = "none"
  /\ UNCHANGED <<locked, turn, due, calls, store, base, starts>>

\* stop(), from the join on.
StopReturn ==
  /\ owner = "joining" /\ worker \in {"none", "done"}
  /\ owner' = "idle" /\ worker' = "none"
  /\ UNCHANGED <<locked, turn, due, calls, store, base, starts>>

-----------------------------------------------------------------------------
(* Producers and callers *)

Accepting == background = "ok" /\ running /\ ~ stopping

\* Mutant: the capacity test is off by one.
Submit_OneTooMany ==
  /\ Accepting
  /\ Len(queue) <= QueueCap
  /\ base + submitted < MaxSubmits
  /\ submitted' = submitted + 1
  /\ queue' = Append(queue, submitted + 1)
  /\ have_oldest' = TRUE
  /\ oldest' = IF have_oldest THEN oldest ELSE submitted + 1
  /\ UNCHANGED <<running, stopping, checkpoint_requested, processed, requested_barrier,
                 completed_barrier, durable_sequence, background, worker, turn, due, calls,
                 store, lifetime>>

\* submit_impl, when there is room; without room it changes nothing.
Submit ==
  /\ Accepting
  /\ Len(queue) < QueueCap
  /\ base + submitted < MaxSubmits
  /\ submitted' = submitted + 1
  /\ queue' = Append(queue, submitted + 1)
  /\ have_oldest' = TRUE
  /\ oldest' = IF have_oldest THEN oldest ELSE submitted + 1
  /\ UNCHANGED <<running, stopping, checkpoint_requested, processed, requested_barrier,
                 completed_barrier, durable_sequence, background, worker, turn, due, calls,
                 store, lifetime>>

\* checkpoint(), up to the wait.
CheckpointCall(c) ==
  /\ answer[c] # "waiting"
  /\ background = "ok" /\ running
  /\ target' = [target EXCEPT ![c] = submitted]
  /\ goal' = [goal EXCEPT ![c] = base + submitted]
  /\ answer' = [answer EXCEPT ![c] = "waiting"]
  /\ requested_barrier' = IF requested_barrier < submitted THEN submitted
                          ELSE requested_barrier
  /\ checkpoint_requested' = TRUE
  /\ UNCHANGED <<queue, running, stopping, submitted, processed, completed_barrier,
                 durable_sequence, have_oldest, oldest, background, worker, turn, due,
                 store, lifetime>>

\* Mutant: the wait does not end when the worker fails.
CheckpointReturn_BarrierOnly(c) ==
  /\ answer[c] = "waiting"
  /\ completed_barrier >= target[c]
  /\ answer' = [answer EXCEPT ![c] = IF background = "ok" THEN "ok" ELSE "error"]
  /\ UNCHANGED <<locked, worker, turn, due, target, goal, store, lifetime>>

\* checkpoint(), once its wait is over.
CheckpointReturn(c) ==
  /\ answer[c] = "waiting"
  /\ completed_barrier >= target[c] \/ background # "ok" \/ ~ running
  /\ answer' = [answer EXCEPT ![c] =
       IF background = "ok" /\ completed_barrier >= target[c] THEN "ok" ELSE "error"]
  /\ UNCHANGED <<locked, worker, turn, due, target, goal, store, lifetime>>

-----------------------------------------------------------------------------
(* The worker: run_loop *)

Interval ==
  /\ running /\ ~ due
  /\ due' = TRUE
  /\ UNCHANGED <<locked, worker, turn, calls, store, lifetime>>

\* The conditions under which a turn of the loop is a checkpoint.
WantsCheckpoint ==
  \/ due
  \/ checkpoint_requested /\ processed >= requested_barrier
  \/ stopping /\ queue = <<>>

\* The worker wakes for any of the wait predicate's conditions.
Awake == stopping \/ checkpoint_requested \/ queue # <<>> \/ due

\* Mutant: the queue is taken from its end.
Dequeue_Newest ==
  /\ worker = "lock" /\ Awake /\ ~ WantsCheckpoint
  /\ queue # <<>>
  /\ item' = queue[Len(queue)] /\ queue' = SubSeq(queue, 1, Len(queue) - 1)
  /\ do_checkpoint' = FALSE /\ exit_after' = FALSE /\ result' = "ok"
  /\ worker' = "call"
  /\ UNCHANGED <<running, stopping, checkpoint_requested, submitted, processed,
                 requested_barrier, completed_barrier, durable_sequence, have_oldest,
                 oldest, background, due, calls, store, lifetime>>

Dequeue ==
  /\ worker = "lock" /\ Awake /\ ~ WantsCheckpoint
  /\ queue # <<>>
  /\ item' = Head(queue) /\ queue' = Tail(queue)
  /\ do_checkpoint' = FALSE /\ exit_after' = FALSE /\ result' = "ok"
  /\ worker' = "call"
  /\ UNCHANGED <<running, stopping, checkpoint_requested, submitted, processed,
                 requested_barrier, completed_barrier, durable_sequence, have_oldest,
                 oldest, background, due, calls, store, lifetime>>

DecideCheckpoint ==
  /\ worker = "lock" /\ Awake /\ WantsCheckpoint
  /\ item' = 0 /\ do_checkpoint' = TRUE /\ exit_after' = (stopping /\ queue = <<>>)
  /\ result' = "ok"
  /\ worker' = "call"
  /\ UNCHANGED <<locked, due, calls, store, lifetime>>

\* append or append_checked succeeds; if it rotated, all earlier records are
\* durable now.
StoreAppend ==
  /\ worker = "call" /\ ~ do_checkpoint
  /\ appended' = appended + 1
  /\ persisted' \in {persisted, appended}
  /\ worker' = "finish"
  /\ UNCHANGED <<locked, turn, due, calls, store_faulted, lifetime>>

\* Mutant: the status of the append is not looked at.
StoreReject_Ignored ==
  /\ worker = "call"
  /\ worker' = "finish"
  /\ UNCHANGED <<locked, turn, due, calls, store, lifetime>>

\* The store rejects the record (contract mismatch, oversized record), or an
\* exception (allocation, a codec) is thrown in either call: the store itself
\* is not faulted.  The append may have rotated before the contract failed.
StoreReject ==
  /\ worker = "call"
  /\ result' = "error"
  /\ persisted' \in {persisted, appended}
  /\ worker' = "finish"
  /\ UNCHANGED <<locked, item, do_checkpoint, exit_after, due, calls, appended,
                 store_faulted, lifetime>>

StoreCheckpoint ==
  /\ worker = "call" /\ do_checkpoint
  /\ persisted' = appended
  /\ worker' = "finish"
  /\ UNCHANGED <<locked, turn, due, calls, appended, store_faulted, lifetime>>

\* I/O fails in either call, and the store is faulted; a flush before the
\* failing step may have succeeded.
StoreFault ==
  /\ worker = "call"
  /\ result' = "error" /\ store_faulted' = TRUE
  /\ persisted' \in {persisted, appended}
  /\ worker' = "finish"
  /\ UNCHANGED <<locked, item, do_checkpoint, exit_after, due, calls, appended, lifetime>>

\* The error path of run_loop, and fail_background.
WorkerFails ==
  /\ worker = "finish" /\ result = "error"
  /\ background' = "error" /\ running' = FALSE /\ stopping' = TRUE
  /\ queue' = <<>>
  /\ worker' = "done"
  /\ UNCHANGED <<checkpoint_requested, submitted, processed, requested_barrier,
                 completed_barrier, durable_sequence, have_oldest, oldest, turn, due, calls,
                 store, lifetime>>

FinishAppend ==
  /\ worker = "finish" /\ result = "ok" /\ ~ do_checkpoint
  /\ processed' = item
  /\ worker' = "lock"
  /\ UNCHANGED <<queue, running, stopping, checkpoint_requested, submitted,
                 requested_barrier, completed_barrier, durable_sequence, have_oldest,
                 oldest, background, turn, due, calls, store, lifetime>>

\* Mutant: a checkpoint is taken to cover what is still in the queue.
Covered_Submitted == submitted

\* The sequence a finished checkpoint covers.
Covered == processed

FinishCheckpoint ==
  /\ worker = "finish" /\ result = "ok" /\ do_checkpoint
  /\ completed_barrier' = Covered /\ durable_sequence' = Covered
  /\ IF Covered > durable_sequence /\ have_oldest
     THEN /\ have_oldest' = (queue # <<>>)
          /\ oldest' = IF queue = <<>> THEN oldest ELSE Head(queue)
     ELSE UNCHANGED <<have_oldest, oldest>>
  /\ checkpoint_requested' = (checkpoint_requested /\ processed < requested_barrier)
  /\ due' = FALSE
  /\ running' = ~ exit_after
  /\ worker' = IF exit_after THEN "done" ELSE "lock"
  /\ UNCHANGED <<queue, stopping, submitted, processed, requested_barrier, background, turn,
                 calls, store, lifetime>>

-----------------------------------------------------------------------------
Worker ==
  \/ Dequeue \/ DecideCheckpoint
  \/ StoreAppend \/ StoreReject \/ StoreCheckpoint \/ StoreFault
  \/ WorkerFails \/ FinishAppend \/ FinishCheckpoint

Next ==
  \/ Start \/ StopRequest \/ StopReturn
  \/ Submit
  \/ \E c \in Callers : CheckpointCall(c) \/ CheckpointReturn(c)
  \/ Interval \/ Worker

Spec == Init /\ [][Next]_vars

(***************************************************************************)
(* Scheduling.  A thread that holds or can take the mutex goes on, and a   *)
(* store call returns.  Time passes, so the interval elapses.  A worker    *)
(* that keeps finding the interval elapsed would checkpoint for ever and   *)
(* never dequeue; the interval is restarted when a checkpoint ends and is  *)
(* a millisecond at least, so the worker gets back to the queue in time    *)
(* again and again: strong fairness of Dequeue.                            *)
(***************************************************************************)
Fairness ==
  /\ WF_vars(Worker) /\ SF_vars(Dequeue) /\ WF_vars(Interval) /\ WF_vars(StopReturn)
  /\ \A c \in Callers : WF_vars(CheckpointReturn(c))

FairSpec == Spec /\ Fairness

-----------------------------------------------------------------------------
(* Properties *)

\* Every variable has its type, and the queue never outgrows its capacity.
TypeOK ==
  /\ queue \in Seq(Nat) /\ Len(queue) <= QueueCap
  /\ running \in BOOLEAN /\ stopping \in BOOLEAN /\ checkpoint_requested \in BOOLEAN
  /\ submitted \in Nat /\ processed \in Nat /\ requested_barrier \in Nat
  /\ completed_barrier \in Nat /\ durable_sequence \in Nat
  /\ have_oldest \in BOOLEAN /\ oldest \in Nat /\ background \in {"ok", "error"}
  /\ worker \in {"none", "lock", "call", "finish", "done"}
  /\ item \in Nat /\ do_checkpoint \in BOOLEAN /\ exit_after \in BOOLEAN
  /\ result \in {"ok", "error"} /\ due \in BOOLEAN
  /\ owner \in {"idle", "joining"}
  /\ answer \in [Callers -> {"none", "waiting", "ok", "error"}]
  /\ target \in [Callers -> Nat] /\ goal \in [Callers -> Nat]
  /\ appended \in Nat /\ persisted \in Nat /\ store_faulted \in BOOLEAN
  /\ base \in Nat /\ starts \in Nat

(***************************************************************************)
(* BarrierSound.  Whenever a waiting checkpoint() would return success,    *)
(* every record submitted before the call is durable, even if the worker   *)
(* was stopped and started again in between.                               *)
(***************************************************************************)
BarrierSound ==
  \A c \in Callers :
    (answer[c] = "waiting" /\ background = "ok" /\ completed_barrier >= target[c]) =>
      goal[c] <= persisted

(***************************************************************************)
(* AppendedInOrder.  The record the worker hands to the store is the one   *)
(* submitted after all those the store has: none is skipped, repeated or   *)
(* overtaken.                                                              *)
(***************************************************************************)
AppendedInOrder ==
  (worker = "call" /\ ~ do_checkpoint) => base + item = appended + 1

(***************************************************************************)
(* MetricsHonest.  durable_sequence never covers a record that is not      *)
(* durable, and oldest_undurable_ns_ is the submission time of exactly the *)
(* first record it does not cover.                                         *)
(***************************************************************************)
MetricsHonest ==
  /\ base + durable_sequence <= persisted
  /\ have_oldest <=> durable_sequence < submitted
  /\ have_oldest => oldest = durable_sequence + 1

(***************************************************************************)
(* StopDrains.  Once the worker has ended without an error, every record   *)
(* ever submitted is durable.                                              *)
(***************************************************************************)
StopDrains ==
  (~ running /\ background = "ok") => queue = <<>> /\ persisted = base + submitted

(***************************************************************************)
(* NoIdleTurn.  A worker that wakes has something to do: the loop does not *)
(* spin on a barrier it cannot complete.                                   *)
(***************************************************************************)
NoIdleTurn == (worker = "lock" /\ Awake) => (WantsCheckpoint \/ queue # <<>>)

(***************************************************************************)
(* ImplementsQueue.  The writer implements the abstract durable queue.     *)
(***************************************************************************)
Queue == INSTANCE DurableQueue WITH
  accepted <- base + submitted,
  durable  <- persisted,
  status   <- IF background # "ok" THEN "failed" ELSE IF running THEN "open" ELSE "closed",
  barrier  <- goal

ImplementsQueue == Queue!Spec

\* Caller c called checkpoint() in the present run of the worker.
OfThisRun(c) == goal[c] = base + target[c]

(***************************************************************************)
(* BarrierReturns.  Every checkpoint() call returns, unless the owner has  *)
(* stopped and started the writer again before the caller woke: start()    *)
(* resets the counters such a caller waits on.                             *)
(***************************************************************************)
BarrierReturns ==
  \A c \in Callers :
    (answer[c] = "waiting" /\ OfThisRun(c)) ~> (answer[c] # "waiting" \/ ~ OfThisRun(c))

(***************************************************************************)
(* AcceptedPersists.  Every accepted record becomes durable, with or       *)
(* without a checkpoint() call, unless the worker fails.                   *)
(***************************************************************************)
AcceptedPersists ==
  \A n \in 1 .. MaxSubmits :
    (base + submitted >= n) ~> (persisted >= n \/ background # "ok")

(***************************************************************************)
(* StopReturns.  stop() always returns: the worker it joins always ends.   *)
(***************************************************************************)
StopReturns == (owner = "joining") ~> (owner = "idle")

(***************************************************************************)
(* FailureFaultsStore.  A background failure also faults RingStore, as the *)
(* comment in start() has it.                                              *)
(***************************************************************************)
FailureFaultsStore == background # "ok" => store_faulted

=============================================================================
