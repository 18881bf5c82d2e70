------------------------- MODULE AsyncWriterProofs -------------------------
(***************************************************************************)
(* Proofs about AsyncWriter, for every set of callers, queue capacity and  *)
(* bound: the type invariant, the safety properties, and that the writer   *)
(* implements DurableQueue.                                                *)
(***************************************************************************)
EXTENDS AsyncWriter, TLAPS

\* The worker has taken a record that is not yet counted as processed.
InFlight == worker \in {"call", "finish"} /\ ~ do_checkpoint
Taken    == IF InFlight THEN 1 ELSE 0

\* The worker thread exists, and is the only place an error is first seen.
WorkerInv ==
  /\ running <=> worker \in {"lock", "call", "finish"}
  /\ background # "ok" => ~ running
  /\ worker = "call" => result = "ok"
  /\ (worker \in {"call", "finish"} /\ exit_after) =>
       do_checkpoint /\ stopping /\ queue = <<>>

\* The queue holds the records after the one in flight, in order.
QueueInv ==
  /\ Len(queue) <= submitted
  /\ \A i \in 1 .. Len(queue) : queue[i] = submitted - Len(queue) + i
  /\ background = "ok" => processed + Taken + Len(queue) = submitted
  /\ InFlight => item = processed + 1
  /\ requested_barrier <= submitted

\* What the store has, and how much of it is durable.
StoreInv ==
  /\ background = "ok" =>
       appended = base + processed
                    + (IF worker = "finish" /\ ~ do_checkpoint /\ result = "ok" THEN 1 ELSE 0)
  /\ persisted <= appended
  /\ completed_barrier = durable_sequence
  /\ completed_barrier <= processed /\ processed <= submitted
  /\ base + completed_barrier <= persisted
  /\ (worker = "finish" /\ do_checkpoint /\ result = "ok") => persisted = appended

\* A waiting caller's records belong to this run, or to one that drained.
CallerInv ==
  \A c \in Callers : answer[c] = "waiting" =>
    /\ goal[c] <= base + submitted
    /\ goal[c] <= base \/ goal[c] = base + target[c]

IInv ==
  /\ TypeOK /\ WorkerInv /\ QueueInv /\ StoreInv /\ CallerInv
  /\ MetricsHonest /\ StopDrains

-----------------------------------------------------------------------------
\* Facts about the queue as a sequence.
LEMMA EmptyQueue == <<>> \in Seq(Nat) /\ Len(<<>>) = 0 /\ Len(<<>>) <= QueueCap
  BY QueueAssumption

LEMMA Enqueued ==
  ASSUME NEW q \in Seq(Nat), NEW e \in Nat
  PROVE  /\ Append(q, e) \in Seq(Nat)
         /\ Len(Append(q, e)) = Len(q) + 1
         /\ \A i \in 1 .. Len(q) : Append(q, e)[i] = q[i]
         /\ Append(q, e)[Len(q) + 1] = e
  OBVIOUS

LEMMA Dequeued ==
  ASSUME NEW q \in Seq(Nat), q # <<>>
  PROVE  /\ Tail(q) \in Seq(Nat) /\ Head(q) \in Nat /\ Head(q) = q[1]
         /\ Len(q) >= 1 /\ Len(Tail(q)) = Len(q) - 1
         /\ \A i \in 1 .. Len(Tail(q)) : Tail(q)[i] = q[i + 1]
  OBVIOUS

LEMMA InitIInv == ASSUME Init PROVE IInv
  <1>1. TypeOK
    <2>1. queue \in Seq(Nat) /\ Len(queue) <= QueueCap  BY EmptyQueue DEF Init
    <2> QED  BY <2>1 DEF Init, TypeOK
  <1>2. WorkerInv  BY DEF Init, WorkerInv
  <1>3. QueueInv  BY EmptyQueue DEF Init, QueueInv, InFlight, Taken
  <1>4. StoreInv  BY DEF Init, StoreInv
  <1>5. CallerInv  BY DEF Init, CallerInv
  <1>6. MetricsHonest  BY DEF Init, MetricsHonest
  <1>7. StopDrains  BY DEF Init, StopDrains
  <1> QED  BY <1>1, <1>2, <1>3, <1>4, <1>5, <1>6, <1>7 DEF IInv

LEMMA StartStep == ASSUME IInv, Start PROVE IInv'
  <1>1. TypeOK'
    <2>1. queue' \in Seq(Nat) /\ Len(queue') <= QueueCap  BY EmptyQueue DEF Start
    <2>2. base' \in Nat /\ starts' \in Nat  BY DEF IInv, TypeOK, Start
    <2> QED  BY <2>1, <2>2 DEF IInv, Start, calls, store, TypeOK
  <1>2. WorkerInv'  BY DEF IInv, Start, WorkerInv
  <1>3. QueueInv'  BY EmptyQueue DEF IInv, Start, QueueInv, InFlight, Taken
  <1>4. StoreInv'  BY DEF IInv, StopDrains, Start, store, TypeOK, StoreInv
  <1>5. CallerInv'  BY DEF IInv, Start, calls, CallerInv
  <1>6. MetricsHonest'  BY DEF IInv, StopDrains, Start, store, MetricsHonest
  <1>7. StopDrains'  BY DEF IInv, Start, StopDrains
  <1> QED  BY <1>1, <1>2, <1>3, <1>4, <1>5, <1>6, <1>7 DEF IInv

LEMMA StopRequestStep == ASSUME IInv, StopRequest PROVE IInv'
  <1>1. TypeOK'
    <2>1. /\ stopping' \in BOOLEAN /\ checkpoint_requested' \in BOOLEAN
          /\ requested_barrier' \in Nat
      BY DEF IInv, TypeOK, StopRequest
    <2> QED  BY <2>1 DEF IInv, StopRequest, turn, calls, store, TypeOK
  <1>2. WorkerInv'  BY DEF IInv, StopRequest, turn, WorkerInv
  <1>3. QueueInv'  BY DEF IInv, StopRequest, turn, TypeOK, QueueInv, InFlight, Taken
  <1>4. StoreInv'  BY DEF IInv, StopRequest, turn, store, StoreInv
  <1>5. CallerInv'  BY DEF IInv, StopRequest, calls, CallerInv
  <1>6. MetricsHonest'  BY DEF IInv, StopRequest, store, MetricsHonest
  <1>7. StopDrains'  BY DEF IInv, StopRequest, store, StopDrains
  <1> QED  BY <1>1, <1>2, <1>3, <1>4, <1>5, <1>6, <1>7 DEF IInv

LEMMA StopReturnStep == ASSUME IInv, StopReturn PROVE IInv'
  <1>1. TypeOK'  BY DEF IInv, StopReturn, locked, turn, calls, store, TypeOK
  <1>2. WorkerInv'  BY DEF IInv, StopReturn, locked, WorkerInv
  <1>3. QueueInv'  BY DEF IInv, StopReturn, locked, QueueInv, InFlight, Taken
  <1>4. StoreInv'  BY DEF IInv, StopReturn, locked, store, StoreInv
  <1>5. CallerInv'  BY DEF IInv, StopReturn, locked, calls, CallerInv
  <1>6. MetricsHonest'  BY DEF IInv, StopReturn, locked, store, MetricsHonest
  <1>7. StopDrains'  BY DEF IInv, StopReturn, locked, store, StopDrains
  <1> QED  BY <1>1, <1>2, <1>3, <1>4, <1>5, <1>6, <1>7 DEF IInv

LEMMA SubmitStep == ASSUME IInv, Submit PROVE IInv'
  <1>1. TypeOK'
    <2>1. queue' \in Seq(Nat) /\ Len(queue') <= QueueCap
      BY Enqueued, QueueAssumption DEF IInv, TypeOK, Submit
    <2> QED  BY <2>1 DEF IInv, Submit, turn, calls, store, lifetime, TypeOK
  <1>2. WorkerInv'  BY DEF IInv, Accepting, Submit, turn, WorkerInv
  <1>3. QueueInv'
    <2>1. Len(queue') = Len(queue) + 1 /\ submitted' = submitted + 1
      BY Enqueued DEF IInv, TypeOK, Submit
    <2>2. \A i \in 1 .. Len(queue') : queue'[i] = submitted' - Len(queue') + i
      <3> SUFFICES ASSUME NEW i \in 1 .. Len(queue')
                   PROVE  queue'[i] = submitted' - Len(queue') + i
        OBVIOUS
      <3>1. CASE i \in 1 .. Len(queue)
        BY <2>1, <3>1, Enqueued DEF IInv, TypeOK, QueueInv, Submit
      <3>2. CASE i = Len(queue) + 1
        BY <2>1, <3>2, Enqueued DEF IInv, TypeOK, QueueInv, Submit
      <3>3. Len(queue) \in Nat  BY DEF IInv, TypeOK
      <3> QED  BY <2>1, <3>1, <3>2, <3>3
    <2>3. Taken' = Taken /\ Taken \in Nat /\ (InFlight' <=> InFlight)
      BY DEF Submit, turn, InFlight, Taken
    <2>4. /\ Len(queue) \in Nat /\ submitted \in Nat /\ processed \in Nat
          /\ requested_barrier \in Nat
      BY DEF IInv, TypeOK
    <2>5. UNCHANGED <<background, processed, item, requested_barrier>>  BY DEF Submit, turn
    <2>6. QueueInv  BY DEF IInv
    <2> QED  BY <2>1, <2>2, <2>3, <2>4, <2>5, <2>6 DEF QueueInv
  <1>4. StoreInv'  BY DEF IInv, Submit, turn, store, lifetime, TypeOK, StoreInv
  <1>5. CallerInv'  BY DEF IInv, Submit, calls, lifetime, TypeOK, CallerInv
  <1>6. MetricsHonest'
    BY DEF IInv, Submit, store, lifetime, TypeOK, StoreInv, MetricsHonest
  <1>7. StopDrains'  BY DEF IInv, Accepting, Submit, StopDrains
  <1> QED  BY <1>1, <1>2, <1>3, <1>4, <1>5, <1>6, <1>7 DEF IInv

LEMMA CheckpointCallStep == ASSUME IInv, NEW c \in Callers, CheckpointCall(c) PROVE IInv'
  <1>1. TypeOK'  BY DEF IInv, CheckpointCall, turn, store, lifetime, TypeOK
  <1>2. WorkerInv'  BY DEF IInv, CheckpointCall, turn, WorkerInv
  <1>3. QueueInv'  BY DEF IInv, CheckpointCall, turn, TypeOK, QueueInv, InFlight, Taken
  <1>4. StoreInv'  BY DEF IInv, CheckpointCall, turn, store, lifetime, StoreInv
  <1>5. CallerInv'  BY DEF IInv, CheckpointCall, lifetime, TypeOK, CallerInv
  <1>6. MetricsHonest'  BY DEF IInv, CheckpointCall, store, lifetime, MetricsHonest
  <1>7. StopDrains'  BY DEF IInv, CheckpointCall, StopDrains
  <1> QED  BY <1>1, <1>2, <1>3, <1>4, <1>5, <1>6, <1>7 DEF IInv

LEMMA CheckpointReturnStep == ASSUME IInv, NEW c \in Callers, CheckpointReturn(c) PROVE IInv'
  <1>1. TypeOK'  BY DEF IInv, CheckpointReturn, locked, turn, store, lifetime, TypeOK
  <1>2. WorkerInv'  BY DEF IInv, CheckpointReturn, locked, turn, WorkerInv
  <1>3. QueueInv'  BY DEF IInv, CheckpointReturn, locked, turn, QueueInv, InFlight, Taken
  <1>4. StoreInv'  BY DEF IInv, CheckpointReturn, locked, turn, store, lifetime, StoreInv
  <1>5. CallerInv'  BY DEF IInv, CheckpointReturn, locked, lifetime, CallerInv
  <1>6. MetricsHonest'
    BY DEF IInv, CheckpointReturn, locked, store, lifetime, MetricsHonest
  <1>7. StopDrains'  BY DEF IInv, CheckpointReturn, locked, store, lifetime, StopDrains
  <1> QED  BY <1>1, <1>2, <1>3, <1>4, <1>5, <1>6, <1>7 DEF IInv

LEMMA IntervalStep == ASSUME IInv, Interval PROVE IInv'
  <1>1. TypeOK'  BY DEF IInv, Interval, locked, turn, calls, store, lifetime, TypeOK
  <1>2. WorkerInv'  BY DEF IInv, Interval, locked, turn, WorkerInv
  <1>3. QueueInv'  BY DEF IInv, Interval, locked, turn, QueueInv, InFlight, Taken
  <1>4. StoreInv'  BY DEF IInv, Interval, locked, turn, store, lifetime, StoreInv
  <1>5. CallerInv'  BY DEF IInv, Interval, locked, calls, lifetime, CallerInv
  <1>6. MetricsHonest'  BY DEF IInv, Interval, locked, store, lifetime, MetricsHonest
  <1>7. StopDrains'  BY DEF IInv, Interval, locked, StopDrains
  <1> QED  BY <1>1, <1>2, <1>3, <1>4, <1>5, <1>6, <1>7 DEF IInv

LEMMA DequeueStep == ASSUME IInv, Dequeue PROVE IInv'
  <1>1. TypeOK'
    <2>1. queue' \in Seq(Nat) /\ item' \in Nat /\ Len(queue') <= QueueCap
      BY Dequeued, QueueAssumption DEF IInv, TypeOK, Dequeue
    <2> QED  BY <2>1 DEF IInv, Dequeue, calls, store, lifetime, TypeOK
  <1>2. WorkerInv'  BY Dequeued DEF IInv, Dequeue, WorkerInv
  <1>3. QueueInv'
    <2>1. /\ Len(queue) \in Nat /\ Len(queue) >= 1 /\ Len(queue') = Len(queue) - 1
          /\ item' = queue[1] /\ \A i \in 1 .. Len(queue') : queue'[i] = queue[i + 1]
      BY Dequeued DEF IInv, TypeOK, Dequeue
    <2>2. ~ InFlight /\ Taken = 0 /\ InFlight' /\ Taken' = 1
      BY DEF Dequeue, InFlight, Taken
    <2>3. running /\ background = "ok"  BY DEF IInv, TypeOK, WorkerInv, Dequeue
    <2>4. queue[1] = submitted - Len(queue) + 1 /\ processed + Len(queue) = submitted
      BY <2>1, <2>2, <2>3 DEF IInv, TypeOK, QueueInv
    <2>5. \A i \in 1 .. Len(queue') : queue'[i] = submitted - Len(queue') + i
      BY <2>1 DEF IInv, TypeOK, QueueInv
    <2>6. item' = processed + 1 /\ processed + 1 + Len(queue') = submitted
      <3>1. submitted \in Nat /\ processed \in Nat /\ queue \in Seq(Nat)
        BY DEF IInv, TypeOK
      <3>2. item' = submitted - Len(queue) + 1 /\ Len(queue') = Len(queue) - 1
        BY <2>1, <2>4
      <3> QED  BY <2>4, <3>1, <3>2
    <2>7. UNCHANGED <<submitted, processed, requested_barrier>>  BY DEF Dequeue
    <2>8. Len(queue') <= submitted  BY <2>1, <2>4 DEF IInv, TypeOK
    <2> QED  BY <2>2, <2>5, <2>6, <2>7, <2>8 DEF IInv, QueueInv
  <1>4. StoreInv'  BY DEF IInv, Dequeue, store, lifetime, StoreInv
  <1>5. CallerInv'  BY DEF IInv, Dequeue, calls, lifetime, CallerInv
  <1>6. MetricsHonest'  BY DEF IInv, Dequeue, store, lifetime, MetricsHonest
  <1>7. StopDrains'  BY DEF IInv, Dequeue, StopDrains
  <1> QED  BY <1>1, <1>2, <1>3, <1>4, <1>5, <1>6, <1>7 DEF IInv

LEMMA DecideCheckpointStep == ASSUME IInv, DecideCheckpoint PROVE IInv'
  <1>1. TypeOK'  BY DEF IInv, DecideCheckpoint, locked, calls, store, lifetime, TypeOK
  <1>2. WorkerInv'
    <2>1. exit_after' => stopping' /\ queue' = <<>>  BY DEF DecideCheckpoint, locked
    <2>2. /\ running' /\ background' = "ok" /\ do_checkpoint'
          /\ worker' = "call" /\ result' = "ok"
      BY DEF IInv, TypeOK, WorkerInv, DecideCheckpoint, locked
    <2> QED  BY <2>1, <2>2 DEF WorkerInv
  <1>3. QueueInv'  BY DEF IInv, DecideCheckpoint, locked, QueueInv, InFlight, Taken
  <1>4. StoreInv'  BY DEF IInv, DecideCheckpoint, locked, store, lifetime, StoreInv
  <1>5. CallerInv'  BY DEF IInv, DecideCheckpoint, locked, calls, lifetime, CallerInv
  <1>6. MetricsHonest'
    BY DEF IInv, DecideCheckpoint, locked, store, lifetime, MetricsHonest
  <1>7. StopDrains'  BY DEF IInv, DecideCheckpoint, locked, store, lifetime, StopDrains
  <1> QED  BY <1>1, <1>2, <1>3, <1>4, <1>5, <1>6, <1>7 DEF IInv

LEMMA StoreAppendStep == ASSUME IInv, StoreAppend PROVE IInv'
  <1>1. TypeOK'  BY DEF IInv, StoreAppend, locked, turn, calls, lifetime, TypeOK
  <1>2. WorkerInv'  BY DEF IInv, StoreAppend, locked, turn, WorkerInv
  <1>3. QueueInv'  BY DEF IInv, StoreAppend, locked, turn, QueueInv, InFlight, Taken
  <1>4. StoreInv'
    BY DEF IInv, StoreAppend, locked, turn, lifetime, TypeOK, WorkerInv, StoreInv
  <1>5. CallerInv'  BY DEF IInv, StoreAppend, locked, calls, lifetime, CallerInv
  <1>6. MetricsHonest'
    BY DEF IInv, StoreAppend, locked, lifetime, TypeOK, StoreInv, MetricsHonest
  <1>7. StopDrains'
    BY DEF IInv, StoreAppend, locked, lifetime, TypeOK, StoreInv, StopDrains
  <1> QED  BY <1>1, <1>2, <1>3, <1>4, <1>5, <1>6, <1>7 DEF IInv

LEMMA StoreRejectStep == ASSUME IInv, StoreReject PROVE IInv'
  <1>1. TypeOK'  BY DEF IInv, StoreReject, locked, calls, lifetime, TypeOK
  <1>2. WorkerInv'  BY DEF IInv, StoreReject, locked, WorkerInv
  <1>3. QueueInv'  BY DEF IInv, StoreReject, locked, QueueInv, InFlight, Taken
  <1>4. StoreInv'  BY DEF IInv, StoreReject, locked, lifetime, TypeOK, WorkerInv, StoreInv
  <1>5. CallerInv'  BY DEF IInv, StoreReject, locked, calls, lifetime, CallerInv
  <1>6. MetricsHonest'
    BY DEF IInv, StoreReject, locked, lifetime, TypeOK, StoreInv, MetricsHonest
  <1>7. StopDrains'
    BY DEF IInv, StoreReject, locked, lifetime, TypeOK, StoreInv, StopDrains
  <1> QED  BY <1>1, <1>2, <1>3, <1>4, <1>5, <1>6, <1>7 DEF IInv

LEMMA StoreCheckpointStep == ASSUME IInv, StoreCheckpoint PROVE IInv'
  <1>1. TypeOK'  BY DEF IInv, StoreCheckpoint, locked, turn, calls, lifetime, TypeOK
  <1>2. WorkerInv'  BY DEF IInv, StoreCheckpoint, locked, turn, WorkerInv
  <1>3. QueueInv'  BY DEF IInv, StoreCheckpoint, locked, turn, QueueInv, InFlight, Taken
  <1>4. StoreInv'  BY DEF IInv, StoreCheckpoint, locked, turn, lifetime, TypeOK, StoreInv
  <1>5. CallerInv'  BY DEF IInv, StoreCheckpoint, locked, calls, lifetime, CallerInv
  <1>6. MetricsHonest'
    BY DEF IInv, StoreCheckpoint, locked, lifetime, TypeOK, StoreInv, MetricsHonest
  <1>7. StopDrains'
    BY DEF IInv, StoreCheckpoint, locked, lifetime, TypeOK, StoreInv, StopDrains
  <1> QED  BY <1>1, <1>2, <1>3, <1>4, <1>5, <1>6, <1>7 DEF IInv

LEMMA StoreFaultStep == ASSUME IInv, StoreFault PROVE IInv'
  <1>1. TypeOK'  BY DEF IInv, StoreFault, locked, calls, lifetime, TypeOK
  <1>2. WorkerInv'  BY DEF IInv, StoreFault, locked, WorkerInv
  <1>3. QueueInv'  BY DEF IInv, StoreFault, locked, QueueInv, InFlight, Taken
  <1>4. StoreInv'  BY DEF IInv, StoreFault, locked, lifetime, TypeOK, WorkerInv, StoreInv
  <1>5. CallerInv'  BY DEF IInv, StoreFault, locked, calls, lifetime, CallerInv
  <1>6. MetricsHonest'
    BY DEF IInv, StoreFault, locked, lifetime, TypeOK, StoreInv, MetricsHonest
  <1>7. StopDrains'
    BY DEF IInv, StoreFault, locked, lifetime, TypeOK, StoreInv, StopDrains
  <1> QED  BY <1>1, <1>2, <1>3, <1>4, <1>5, <1>6, <1>7 DEF IInv

LEMMA WorkerFailsStep == ASSUME IInv, WorkerFails PROVE IInv'
  <1>1. TypeOK'
    <2>1. queue' \in Seq(Nat) /\ Len(queue') <= QueueCap  BY EmptyQueue DEF WorkerFails
    <2> QED  BY <2>1 DEF IInv, WorkerFails, turn, calls, store, lifetime, TypeOK
  <1>2. WorkerInv'  BY DEF IInv, WorkerFails, WorkerInv
  <1>3. QueueInv'  BY EmptyQueue DEF IInv, WorkerFails, TypeOK, QueueInv, InFlight
  <1>4. StoreInv'  BY DEF IInv, WorkerFails, store, lifetime, StoreInv
  <1>5. CallerInv'  BY DEF IInv, WorkerFails, calls, lifetime, CallerInv
  <1>6. MetricsHonest'  BY DEF IInv, WorkerFails, store, lifetime, MetricsHonest
  <1>7. StopDrains'  BY DEF IInv, WorkerFails, StopDrains
  <1> QED  BY <1>1, <1>2, <1>3, <1>4, <1>5, <1>6, <1>7 DEF IInv

LEMMA FinishAppendStep == ASSUME IInv, FinishAppend PROVE IInv'
  <1>1. TypeOK'  BY DEF IInv, FinishAppend, turn, calls, store, lifetime, TypeOK
  <1>2. WorkerInv'  BY DEF IInv, FinishAppend, WorkerInv
  <1>3. QueueInv'  BY DEF IInv, FinishAppend, TypeOK, QueueInv, InFlight, Taken
  <1>4. StoreInv'
    BY DEF IInv, FinishAppend, store, lifetime, TypeOK, WorkerInv, QueueInv, StoreInv,
           InFlight, Taken
  <1>5. CallerInv'  BY DEF IInv, FinishAppend, calls, lifetime, CallerInv
  <1>6. MetricsHonest'  BY DEF IInv, FinishAppend, store, lifetime, MetricsHonest
  <1>7. StopDrains'  BY DEF IInv, FinishAppend, store, lifetime, StopDrains
  <1> QED  BY <1>1, <1>2, <1>3, <1>4, <1>5, <1>6, <1>7 DEF IInv

LEMMA FinishCheckpointStep == ASSUME IInv, FinishCheckpoint PROVE IInv'
  <1>1. TypeOK'
    <2>1. have_oldest' \in BOOLEAN /\ oldest' \in Nat
      BY Dequeued DEF IInv, TypeOK, FinishCheckpoint, Covered
    <2>2. checkpoint_requested' \in BOOLEAN /\ running' \in BOOLEAN
          /\ worker' \in {"lock", "done"}
      BY DEF FinishCheckpoint
    <2> QED  BY <2>1, <2>2
             DEF IInv, FinishCheckpoint, Covered, turn, calls, store, lifetime, TypeOK
  <1>2. WorkerInv'
    <2>1. running' <=> worker' \in {"lock", "call", "finish"}  BY DEF FinishCheckpoint
    <2>2. worker' \notin {"call", "finish"} /\ background' = "ok"
      BY DEF IInv, TypeOK, WorkerInv, FinishCheckpoint
    <2> QED  BY <2>1, <2>2 DEF WorkerInv
  <1>3. QueueInv'  BY DEF IInv, FinishCheckpoint, Covered, QueueInv, InFlight, Taken
  <1>4. StoreInv'
    BY DEF IInv, FinishCheckpoint, Covered, store, lifetime, TypeOK, WorkerInv, StoreInv
  <1>5. CallerInv'  BY DEF IInv, FinishCheckpoint, Covered, calls, lifetime, CallerInv
  <1>a. /\ background = "ok" /\ persisted = base + processed
        /\ processed + Len(queue) = submitted
    BY DEF IInv, FinishCheckpoint, Covered, TypeOK, WorkerInv, QueueInv, StoreInv,
           InFlight, Taken
  <1>6. MetricsHonest'
    <2>1. CASE queue = <<>>
      <3>1. processed = submitted  BY <1>a, <2>1, EmptyQueue DEF IInv, TypeOK
      <3>2. ~ have_oldest'
        BY <2>1, <3>1 DEF IInv, FinishCheckpoint, Covered, TypeOK, StoreInv, MetricsHonest
      <3> QED  BY <1>a, <3>1, <3>2
               DEF IInv, FinishCheckpoint, Covered, store, lifetime, TypeOK, MetricsHonest
    <2>2. CASE queue # <<>>
      <3>1. Head(queue) = processed + 1 /\ processed < submitted
        BY <1>a, <2>2, Dequeued DEF IInv, TypeOK, QueueInv
      <3> QED  BY <1>a, <2>2, <3>1
               DEF IInv, FinishCheckpoint, Covered, store, lifetime, TypeOK, StoreInv,
                   MetricsHonest
    <2> QED  BY <2>1, <2>2
  <1>7. StopDrains'
    <2>1. exit_after => queue = <<>> /\ processed = submitted
      BY <1>a, EmptyQueue DEF IInv, FinishCheckpoint, Covered, TypeOK, WorkerInv
    <2> QED  BY <1>a, <2>1
             DEF IInv, FinishCheckpoint, Covered, store, lifetime, TypeOK, StopDrains
  <1> QED  BY <1>1, <1>2, <1>3, <1>4, <1>5, <1>6, <1>7 DEF IInv

LEMMA StutterStep == ASSUME IInv, UNCHANGED vars PROVE IInv'
  BY DEF vars, locked, turn, calls, store, lifetime, IInv, TypeOK, WorkerInv, QueueInv,
         StoreInv, CallerInv, MetricsHonest, StopDrains, InFlight, Taken

LEMMA NextStep == ASSUME IInv, [Next]_vars PROVE IInv'
  <1>1. CASE Worker
    BY <1>1, DequeueStep, DecideCheckpointStep, StoreAppendStep, StoreRejectStep,
       StoreCheckpointStep, StoreFaultStep, WorkerFailsStep, FinishAppendStep,
       FinishCheckpointStep
    DEF Worker
  <1> QED
    BY <1>1, StutterStep, StartStep, StopRequestStep, StopReturnStep, SubmitStep,
       CheckpointCallStep, CheckpointReturnStep, IntervalStep
    DEF Next

(***************************************************************************)
(* The inductive invariant holds in every reachable state of the writer.   *)
(***************************************************************************)
THEOREM Inductive == Spec => []IInv
  <1>1. Init => IInv  BY InitIInv
  <1>2. IInv /\ [Next]_vars => IInv'  BY NextStep
  <1> QED  BY <1>1, <1>2, PTL DEF Spec

(***************************************************************************)
(* Every variable of the writer keeps its type, whatever the number of     *)
(* callers and the capacity of the queue.                                  *)
(***************************************************************************)
THEOREM TypeCorrect == Spec => []TypeOK
  <1>1. IInv => TypeOK  BY DEF IInv
  <1> QED  BY <1>1, Inductive, PTL

\* A completed barrier covers the records of every call waiting for it.
LEMMA BarrierCovers ==
  ASSUME IInv, NEW c \in Callers,
         answer[c] = "waiting", completed_barrier >= target[c]
  PROVE  goal[c] <= persisted
  <1>1. goal[c] \in Nat /\ target[c] \in Nat  BY DEF IInv, TypeOK
  <1>2. CASE goal[c] <= base
    BY <1>1, <1>2 DEF IInv, TypeOK, StoreInv
  <1>3. CASE goal[c] = base + target[c]
    BY <1>1, <1>3 DEF IInv, TypeOK, StoreInv
  <1> QED  BY <1>2, <1>3 DEF IInv, CallerInv

(***************************************************************************)
(* A checkpoint() call that returns success has made every record          *)
(* submitted before it durable, for any number of concurrent callers and   *)
(* across restarts of the worker.                                          *)
(***************************************************************************)
THEOREM BarrierTheorem == Spec => []BarrierSound
  <1>1. IInv => BarrierSound  BY BarrierCovers DEF BarrierSound
  <1> QED  BY <1>1, Inductive, PTL

(***************************************************************************)
(* The worker hands every record to the store once and in the order of     *)
(* submission.                                                             *)
(***************************************************************************)
THEOREM OrderTheorem == Spec => []AppendedInOrder
  <1>1. IInv => AppendedInOrder
    BY DEF IInv, TypeOK, WorkerInv, QueueInv, StoreInv, AppendedInOrder, InFlight
  <1> QED  BY <1>1, Inductive, PTL

(***************************************************************************)
(* durable_sequence never over-claims, and the age reported for the oldest *)
(* undurable record is the age of the first record it does not cover.      *)
(***************************************************************************)
THEOREM MetricsTheorem == Spec => []MetricsHonest
  <1>1. IInv => MetricsHonest  BY DEF IInv
  <1> QED  BY <1>1, Inductive, PTL

(***************************************************************************)
(* A worker that ended without an error has left nothing undurable.        *)
(***************************************************************************)
THEOREM DrainTheorem == Spec => []StopDrains
  <1>1. IInv => StopDrains  BY DEF IInv
  <1> QED  BY <1>1, Inductive, PTL

(***************************************************************************)
(* A worker that wakes finds a checkpoint or a record to deal with.        *)
(***************************************************************************)
THEOREM NoSpinTheorem == Spec => []NoIdleTurn
  <1>1. IInv => NoIdleTurn
    BY EmptyQueue DEF IInv, TypeOK, WorkerInv, QueueInv, NoIdleTurn, Awake, WantsCheckpoint,
                      InFlight, Taken
  <1> QED  BY <1>1, Inductive, PTL

-----------------------------------------------------------------------------
(* Refinement: every step of the writer is a step of the queue, or none. *)

LEMMA RefinesInit == ASSUME Init PROVE Queue!Init
  BY DEF Init, Queue!Init

\* Steps that show nothing to the callers.
LEMMA RefinesInternal ==
  ASSUME IInv,
         \/ StopRequest \/ StopReturn \/ Interval \/ Dequeue \/ DecideCheckpoint
         \/ FinishAppend \/ UNCHANGED vars
  PROVE  UNCHANGED Queue!queueVars
  BY DEF StopRequest, StopReturn, Interval, Dequeue, DecideCheckpoint, FinishAppend,
         vars, locked, turn, calls, store, lifetime, Queue!queueVars

LEMMA RefinesStart == ASSUME IInv, Start PROVE Queue!Start
  BY DEF IInv, TypeOK, Start, calls, store, Queue!Start

LEMMA RefinesSubmit == ASSUME IInv, Submit PROVE Queue!Accept
  BY DEF IInv, TypeOK, Submit, Accepting, calls, store, lifetime, Queue!Accept

LEMMA RefinesCall ==
  ASSUME IInv, NEW c \in Callers, CheckpointCall(c) PROVE Queue!Call(c)
  BY DEF CheckpointCall, store, lifetime, Queue!Call

\* A checkpoint() that succeeds has its records durable; one that fails does
\* so because the worker failed or has ended.
LEMMA RefinesReturn ==
  ASSUME IInv, NEW c \in Callers, CheckpointReturn(c)
  PROVE  Queue!ReturnOk(c) \/ Queue!ReturnError(c)
  <1>1. goal[c] \in Nat /\ target[c] \in Nat  BY DEF IInv, TypeOK
  <1>2. CASE background = "ok" /\ completed_barrier >= target[c]
    <2>1. goal[c] <= persisted  BY <1>2, BarrierCovers DEF CheckpointReturn
    <2> QED  BY <1>1, <1>2, <2>1
             DEF IInv, TypeOK, CheckpointReturn, locked, store, lifetime, Queue!ReturnOk
  <1>3. CASE ~ (background = "ok" /\ completed_barrier >= target[c])
    BY <1>3 DEF CheckpointReturn, locked, store, lifetime, Queue!ReturnError
  <1> QED  BY <1>2, <1>3

\* A store call makes records durable that were submitted, or changes nothing.
LEMMA RefinesPersist ==
  ASSUME IInv, StoreAppend \/ StoreCheckpoint \/ StoreReject \/ StoreFault
  PROVE  Queue!Persist \/ UNCHANGED Queue!queueVars
  <1>1. /\ running /\ background = "ok" /\ appended <= base + submitted
        /\ persisted <= appended
    BY DEF IInv, TypeOK, WorkerInv, QueueInv, StoreInv, StoreAppend, StoreCheckpoint,
           StoreReject, StoreFault, InFlight, Taken
  <1>2. persisted' \in {persisted, appended}
    BY DEF StoreAppend, StoreCheckpoint, StoreReject, StoreFault
  <1>3. UNCHANGED <<locked, calls, lifetime>>
    BY DEF StoreAppend, StoreCheckpoint, StoreReject, StoreFault
  <1>4. CASE persisted' = persisted
    BY <1>3, <1>4 DEF locked, calls, lifetime, Queue!queueVars
  <1>5. CASE persisted' # persisted
    <2>1. persisted' \in persisted + 1 .. base + submitted
      BY <1>1, <1>2, <1>5 DEF IInv, TypeOK
    <2> QED  BY <1>1, <1>3, <2>1 DEF locked, calls, lifetime, Queue!Persist
  <1> QED  BY <1>4, <1>5

LEMMA RefinesFail == ASSUME IInv, WorkerFails PROVE Queue!FailQueue
  BY DEF IInv, WorkerInv, WorkerFails, calls, store, lifetime, Queue!FailQueue

\* The worker ends only when everything accepted is durable.
LEMMA RefinesFinish ==
  ASSUME IInv, FinishCheckpoint
  PROVE  Queue!Stop \/ UNCHANGED Queue!queueVars
  <1>1. running /\ background = "ok"  BY DEF IInv, WorkerInv, FinishCheckpoint
  <1>2. CASE exit_after
    <2>1. Len(queue) = 0 /\ Taken = 0
      BY <1>2, EmptyQueue DEF IInv, WorkerInv, FinishCheckpoint, InFlight, Taken
    <2>2. processed = submitted  BY <1>1, <2>1 DEF IInv, TypeOK, QueueInv
    <2>3. persisted = base + processed
      BY <1>1 DEF IInv, TypeOK, StoreInv, FinishCheckpoint
    <2>4. ~ running'  BY <1>2 DEF FinishCheckpoint
    <2> QED  BY <1>1, <2>2, <2>3, <2>4
             DEF FinishCheckpoint, calls, store, lifetime, Queue!Stop
  <1>3. CASE ~ exit_after
    BY <1>1, <1>3 DEF IInv, TypeOK, FinishCheckpoint, calls, store, lifetime, Queue!queueVars
  <1> QED  BY <1>2, <1>3

LEMMA RefinesNext == ASSUME IInv, [Next]_vars PROVE [Queue!Next]_(Queue!queueVars)
  <1>1. CASE Worker
    BY <1>1, RefinesInternal, RefinesPersist, RefinesFail, RefinesFinish
    DEF Worker, Queue!Next
  <1>2. CASE \E c \in Callers : CheckpointCall(c) \/ CheckpointReturn(c)
    BY <1>2, RefinesCall, RefinesReturn DEF Queue!Next
  <1> QED
    BY <1>1, <1>2, RefinesInternal, RefinesStart, RefinesSubmit DEF Next, Queue!Next

(***************************************************************************)
(* AsyncWriter implements DurableQueue: what submit, checkpoint and stop   *)
(* show their callers is explained by records that become durable in the   *)
(* order of acceptance, barriers that succeed only on durable records, and *)
(* a clean stop that loses none.                                           *)
(***************************************************************************)
THEOREM Refinement == Spec => ImplementsQueue
  <1>1. Init => Queue!Init  BY RefinesInit
  <1>2. IInv /\ [Next]_vars => [Queue!Next]_(Queue!queueVars)  BY RefinesNext
  <1> QED  BY <1>1, <1>2, Inductive, PTL DEF Spec, ImplementsQueue, Queue!Spec

=============================================================================
