---------------------------- MODULE DurableQueue ----------------------------
(***************************************************************************)
(* What AsyncWriter promises its callers, without queue, worker or store:  *)
(* records are accepted one after another, become durable in that order,   *)
(* and a checkpoint() that succeeds returns only when every record         *)
(* accepted before the call is durable.  A clean stop leaves nothing       *)
(* behind; a failure is final.                                             *)
(***************************************************************************)
EXTENDS Naturals

CONSTANT Callers   \* threads that call checkpoint()

VARIABLES
  accepted,  \* records accepted so far
  durable,   \* how many of them, counted from the first, are durable
  status,    \* "closed", "open" or "failed"
  barrier,   \* for each caller, the records its checkpoint() call waits for
  answer     \* for each caller, "waiting", or what its last call returned

queueVars == <<accepted, durable, status, barrier, answer>>

Init ==
  /\ accepted = 0 /\ durable = 0
  /\ status = "closed"
  /\ barrier = [c \in Callers |-> 0]
  /\ answer = [c \in Callers |-> "none"]

Start ==
  /\ status = "closed" /\ status' = "open"
  /\ UNCHANGED <<accepted, durable, barrier, answer>>

Accept ==
  /\ status = "open"
  /\ accepted' = accepted + 1
  /\ UNCHANGED <<durable, status, barrier, answer>>

\* More of the accepted records become durable, in order.
Persist ==
  /\ status = "open"
  /\ durable' \in durable + 1 .. accepted
  /\ UNCHANGED <<accepted, status, barrier, answer>>

\* A clean stop: everything accepted is durable.
Stop ==
  /\ status = "open" /\ durable = accepted
  /\ status' = "closed"
  /\ UNCHANGED <<accepted, durable, barrier, answer>>

\* The worker fails; what is not durable is lost.
FailQueue ==
  /\ status = "open" /\ status' = "failed"
  /\ UNCHANGED <<accepted, durable, barrier, answer>>

Call(c) ==
  /\ status = "open" /\ answer[c] # "waiting"
  /\ barrier' = [barrier EXCEPT ![c] = accepted]
  /\ answer' = [answer EXCEPT ![c] = "waiting"]
  /\ UNCHANGED <<accepted, durable, status>>

ReturnOk(c) ==
  /\ answer[c] = "waiting" /\ durable >= barrier[c]
  /\ answer' = [answer EXCEPT ![c] = "ok"]
  /\ UNCHANGED <<accepted, durable, status, barrier>>

ReturnError(c) ==
  /\ answer[c] = "waiting" /\ status # "open"
  /\ answer' = [answer EXCEPT ![c] = "error"]
  /\ UNCHANGED <<accepted, durable, status, barrier>>

Next ==
  \/ Start \/ Accept \/ Persist \/ Stop \/ FailQueue
  \/ \E c \in Callers : Call(c) \/ ReturnOk(c) \/ ReturnError(c)

Spec == Init /\ [][Next]_queueVars

=============================================================================
