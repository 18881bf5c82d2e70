------------------------------- MODULE Health -------------------------------
(***************************************************************************)
(* RingStore::health(): a watchdog reads atomics while the writer, under   *)
(* the store mutex, stores to them or sits in a flush that may never       *)
(* return.                                                                 *)
(*                                                                         *)
(* The atomics follow the C++ memory model for one storing thread.  The    *)
(* stores to a location are a sequence; a load returns any element of it   *)
(* not older than what the loading thread has seen of the location.  A     *)
(* release store carries what its thread has stored before it, and an      *)
(* acquire load that returns it makes the loading thread see all of that.  *)
(* (The writing calls may come from several threads, but the mutex orders  *)
(* them, so they see each other's stores.)                                 *)
(*                                                                         *)
(* An episode is the time from the first record accepted after a           *)
(* checkpoint to the next checkpoint.  The flush counters and durations    *)
(* are further relaxed atomics, with nothing promised between them:        *)
(* "Fields are sampled independently and may not be mutually consistent".  *)
(***************************************************************************)
EXTENDS Naturals, Sequences

CONSTANTS
  MaxEpisodes, \* bound: episodes
  MaxClock     \* bound: the steady clock

ASSUME HealthBounds == MaxEpisodes \in Nat /\ MaxClock \in Nat

VARIABLES
  stores,   \* for each location, the stores made to it
  clock,    \* steady_now_ns()
  \* The writer:
  pc,       \* where the call that holds the mutex is
  undurable, faulted, closed,
  \* The watchdog:
  seen,     \* for each location, the newest store it has seen
  rd,       \* the call of health() in progress, or its result
  \* History:
  start     \* when each episode began

writerVars == <<pc, undurable, faulted, closed>>
vars       == <<stores, clock, writerVars, seen, rd, start>>

Loc == {"closed", "faulted", "code", "undurable", "oldest"}

\* The last store to location l.
Last(l) == Len(stores[l])

Nothing == [l \in Loc |-> 1]

\* A store of v to l that carries the view w.
StoreWith(l, v, w) == stores' = [stores EXCEPT ![l] = Append(@, [val |-> v, view |-> w])]

Store(l, v)        == StoreWith(l, v, Nothing)
StoreRelease(l, v) == StoreWith(l, v, [m \in Loc |-> Last(m)])

-----------------------------------------------------------------------------
(* The writer *)

Ready == pc = "idle" /\ ~ faulted /\ ~ closed

\* append_impl: the first record of an episode.
FirstRecord ==
  /\ Ready /\ undurable = 0
  /\ Len(start) < MaxEpisodes /\ clock < MaxClock
  /\ start' = Append(start, clock)
  /\ undurable' = Len(start) + 1
  /\ pc' = "since"
  /\ UNCHANGED <<stores, clock, faulted, closed, seen, rd>>

StoreOldest ==
  /\ pc = "since"
  /\ Store("oldest", clock)
  /\ pc' = "mark"
  /\ UNCHANGED <<clock, undurable, faulted, closed, seen, rd, start>>

\* Mutant: the mark is a relaxed store.
StoreUndurable_Relaxed ==
  /\ pc = "mark"
  /\ Store("undurable", undurable)
  /\ pc' = "idle"
  /\ UNCHANGED <<clock, undurable, faulted, closed, seen, rd, start>>

StoreUndurable ==
  /\ pc = "mark"
  /\ StoreRelease("undurable", undurable)
  /\ pc' = "idle"
  /\ UNCHANGED <<clock, undurable, faulted, closed, seen, rd, start>>

\* Mutant: the mark is cleared when the flush begins.
Flush_ClearsFirst(last) ==
  /\ Ready
  /\ Store("undurable", 0)
  /\ pc' = IF last THEN "closing" ELSE "flush"
  /\ UNCHANGED <<clock, undurable, faulted, closed, seen, rd, start>>

\* checkpoint(), rotate() and close() come to sync_media().
Flush(last) ==
  /\ Ready
  /\ pc' = IF last THEN "closing" ELSE "flush"
  /\ UNCHANGED <<stores, clock, undurable, faulted, closed, seen, rd, start>>

FlushOk ==
  /\ pc \in {"flush", "closing"}
  /\ IF undurable # 0 THEN Store("undurable", 0) ELSE UNCHANGED stores
  /\ undurable' = 0
  /\ pc' = IF pc = "closing" THEN "close" ELSE "idle"
  /\ UNCHANGED <<clock, faulted, closed, seen, rd, start>>

StoreClosed ==
  /\ pc = "close"
  /\ Store("closed", TRUE)
  /\ closed' = TRUE /\ pc' = "idle"
  /\ UNCHANGED <<clock, undurable, faulted, seen, rd, start>>

\* fail(): after a flush, or after a write of any call.
Fail ==
  /\ pc \in {"flush", "closing"} \/ Ready
  /\ faulted' = TRUE
  /\ Store("code", "io_error")
  /\ pc' = "fault"
  /\ UNCHANGED <<clock, undurable, closed, seen, rd, start>>

\* Mutant: the flag is a relaxed store.
StoreFaulted_Relaxed ==
  /\ pc = "fault"
  /\ Store("faulted", TRUE)
  /\ pc' = "idle"
  /\ UNCHANGED <<clock, undurable, faulted, closed, seen, rd, start>>

StoreFaulted ==
  /\ pc = "fault"
  /\ StoreRelease("faulted", TRUE)
  /\ pc' = "idle"
  /\ UNCHANGED <<clock, undurable, faulted, closed, seen, rd, start>>

-----------------------------------------------------------------------------
(* The watchdog *)

NoResult == [at |-> "closed", closed |-> FALSE, faulted |-> FALSE, code |-> "ok",
             episode |-> 0, since |-> 0, age |-> 0]

LaterOf(a, b) == IF a < b THEN b ELSE a

\* The watchdog has loaded the n-th store to l; an acquire load of a release
\* store shows it what that store carries.
SeeRelaxed(l, n) == seen' = [seen EXCEPT ![l] = n]
SeeAcquire(l, n) ==
  seen' = [m \in Loc |-> LaterOf(IF m = l THEN n ELSE seen[m], stores[l][n].view[m])]

May(at) == rd.at = at /\ UNCHANGED <<stores, clock, writerVars, start>>

\* The stores a load of l may return, and the one it will in the end.
Loads(l)  == seen[l] .. Last(l)
Newest(l) == {Last(l)}

LoadClosed(from) ==
  /\ May("closed")
  /\ \E n \in from : /\ SeeRelaxed("closed", n)
                     /\ rd' = [rd EXCEPT !.at = "faulted", !.closed = stores["closed"][n].val]

LoadFaulted(from) ==
  /\ May("faulted")
  /\ \E n \in from : /\ SeeAcquire("faulted", n)
                     /\ rd' = [rd EXCEPT !.at = "code", !.faulted = stores["faulted"][n].val]

LoadCode(from) ==
  /\ May("code")
  /\ \E n \in from : /\ SeeRelaxed("code", n)
                     /\ rd' = [rd EXCEPT !.at = "undurable", !.code = stores["code"][n].val]

LoadUndurable(from) ==
  /\ May("undurable")
  /\ \E n \in from :
       LET e == stores["undurable"][n].val IN
       /\ SeeAcquire("undurable", n)
       /\ rd' = [rd EXCEPT !.at = IF e = 0 THEN "done" ELSE "oldest", !.episode = e]

LoadOldest(from) ==
  /\ May("oldest")
  /\ \E n \in from : /\ SeeRelaxed("oldest", n)
                     /\ rd' = [rd EXCEPT !.at = "now", !.since = stores["oldest"][n].val]

ReadClock ==
  /\ May("now")
  /\ rd' = [rd EXCEPT !.at = "done", !.age = IF clock > rd.since THEN clock - rd.since ELSE 0]
  /\ UNCHANGED seen

CallAgain ==
  /\ May("done")
  /\ rd' = NoResult
  /\ UNCHANGED seen

\* Time passes; the bound leaves some for a record being stamped.
Tick ==
  /\ clock + (IF pc = "since" THEN 1 ELSE 0) < MaxClock
  /\ clock' = clock + 1
  /\ UNCHANGED <<stores, writerVars, seen, rd, start>>

-----------------------------------------------------------------------------

Init ==
  /\ stores = [l \in Loc |-> <<[val |-> CASE l \in {"closed", "faulted"} -> FALSE
                                          [] l = "code" -> "ok"
                                          [] OTHER -> 0,
                                view |-> Nothing]>>]
  /\ clock = 1
  /\ pc = "idle" /\ undurable = 0 /\ faulted = FALSE /\ closed = FALSE
  /\ seen = Nothing /\ rd = NoResult
  /\ start = <<>>

Writer ==
  \/ FirstRecord \/ StoreOldest \/ StoreUndurable
  \/ Flush(FALSE) \/ Flush(TRUE) \/ FlushOk \/ StoreClosed
  \/ Fail \/ StoreFaulted

Watchdog ==
  \/ LoadClosed(Loads("closed")) \/ LoadFaulted(Loads("faulted")) \/ LoadCode(Loads("code"))
  \/ LoadUndurable(Loads("undurable")) \/ LoadOldest(Loads("oldest"))
  \/ ReadClock \/ CallAgain

Next == Writer \/ Watchdog \/ Tick

(***************************************************************************)
(* The watchdog keeps calling, time passes, and the stores that tell of    *)
(* undurable records become visible in the end, as atomics' stores should. *)
(* Nothing is assumed of the writer: a flush may never return.             *)
(***************************************************************************)
Fairness ==
  /\ WF_vars(Watchdog) /\ WF_vars(Tick)
  /\ SF_vars(LoadUndurable(Newest("undurable")))
  /\ SF_vars(LoadOldest(Newest("oldest")))

Spec == Init /\ [][Next]_vars /\ Fairness

-----------------------------------------------------------------------------
(* Properties *)

(***************************************************************************)
(* FaultHasCode.  A watchdog that sees faulted sees the code of the fault: *)
(* fail() publishes "the associated code before faulted becomes            *)
(* observable".                                                            *)
(***************************************************************************)
FaultHasCode == (rd.at = "done" /\ rd.faulted) => rd.code # "ok"

(***************************************************************************)
(* AgeNotOverstated.  A watchdog that sees undurable records reports no    *)
(* age beyond that of the episode it saw: "A reader that observes true     *)
(* must also observe the timestamp above", never one of before.            *)
(***************************************************************************)
AgeNotOverstated ==
  (rd.at = "done" /\ rd.episode # 0) => rd.age <= clock - start[rd.episode]

(***************************************************************************)
(* StallIsSeen.  When a flush, that of close() included, does not return   *)
(* while records are not yet durable, the watchdog comes to see that       *)
(* episode and its age: health() returns although the mutex is held, and   *)
(* the mark is cleared only after a flush that succeeded.                  *)
(***************************************************************************)
Stalled     == pc \in {"flush", "closing"} /\ undurable # 0
StallIsSeen == Stalled ~> ((rd.episode = undurable /\ rd.age > 0) \/ ~ Stalled)

=============================================================================
