---------------------------- MODULE HealthProofs ----------------------------
(***************************************************************************)
(* A watchdog that calls health() never sees a fault without its code, nor *)
(* an age beyond that of the episode it saw, for any number of episodes.   *)
(***************************************************************************)
EXTENDS Health, TLAPS

-----------------------------------------------------------------------------
(* The invariant *)

Entry == [val : BOOLEAN \cup {"ok", "io_error"} \cup Nat, view : [Loc -> Nat]]

Result == [at : {"closed", "faulted", "code", "undurable", "oldest", "now", "done"},
           closed : BOOLEAN, faulted : BOOLEAN, code : {"ok", "io_error"},
           episode : Nat, since : Nat, age : Nat]

HealthType ==
  /\ stores \in [Loc -> Seq(Entry)]
  /\ \A n \in 1 .. Last("closed") : stores["closed"][n].val \in BOOLEAN
  /\ \A n \in 1 .. Last("faulted") : stores["faulted"][n].val \in BOOLEAN
  /\ \A n \in 1 .. Last("code") : stores["code"][n].val \in {"ok", "io_error"}
  /\ \A n \in 1 .. Last("undurable") : stores["undurable"][n].val \in Nat
  /\ \A n \in 1 .. Last("oldest") : stores["oldest"][n].val \in Nat
  /\ clock \in Nat /\ undurable \in Nat /\ start \in Seq(Nat)
  /\ seen \in [Loc -> Nat] /\ rd \in Result

\* No view is ahead of the stores.
ViewInv ==
  \A l \in Loc : /\ Last(l) >= 1 /\ seen[l] \in 1 .. Last(l)
                 /\ \A n \in 1 .. Last(l), m \in Loc : stores[l][n].view[m] \in 1 .. Last(m)

\* Whoever sees the flag sees the code that was stored before it.
FaultInv ==
  /\ \A n \in 2 .. Last("code") : stores["code"][n].val # "ok"
  /\ pc = "fault" => Last("code") >= 2
  /\ \A n \in 1 .. Last("faulted") : stores["faulted"][n].val = TRUE =>
       stores["faulted"][n].view["code"] >= 2
  /\ (rd.at = "code" /\ rd.faulted = TRUE) => seen["code"] >= 2
  /\ (rd.at \in {"undurable", "oldest", "now", "done"} /\ rd.faulted = TRUE) => rd.code # "ok"

\* Episode e stamps the store e + 1 to oldest_undurable, with a time not
\* before its start, and the time before the mark.
EpisodeInv ==
  /\ Last("oldest") = IF pc = "since" THEN Len(start) ELSE Len(start) + 1
  /\ pc \in {"since", "mark"} => undurable = Len(start)
  /\ \A j, k \in 1 .. Len(start) : j <= k => start[j] <= start[k]
  /\ \A k \in 1 .. Len(start) : start[k] <= clock
  /\ \A k \in 1 .. Len(start) : k + 1 <= Last("oldest") =>
       start[k] <= stores["oldest"][k + 1].val
  /\ \A n \in 1 .. Last("undurable") :
       stores["undurable"][n].val < stores["undurable"][n].view["oldest"]

\* What the watchdog has of the episode it saw.
WatchInv ==
  /\ rd.at = "oldest" => rd.episode # 0 /\ rd.episode < seen["oldest"]
  /\ (rd.at \in {"now", "done"} /\ rd.episode # 0) => rd.episode \in 1 .. Len(start)
  /\ rd.at = "now" => rd.episode # 0 /\ start[rd.episode] <= rd.since
  /\ AgeNotOverstated

HInv == HealthType /\ ViewInv /\ FaultInv /\ EpisodeInv /\ WatchInv

-----------------------------------------------------------------------------
(* Stores and loads *)

LEMMA StoreEffect ==
  ASSUME stores \in [Loc -> Seq(Entry)], NEW l \in Loc, NEW e \in Entry,
         stores' = [stores EXCEPT ![l] = Append(@, e)]
  PROVE  /\ stores' \in [Loc -> Seq(Entry)]
         /\ \A m \in Loc : Len(stores[m]) \in Nat
         /\ Len(stores'[l]) = Len(stores[l]) + 1 /\ stores'[l][Len(stores[l]) + 1] = e
         /\ \A n \in 1 .. Len(stores[l]) : stores'[l][n] = stores[l][n]
         /\ \A m \in Loc \ {l} : stores'[m] = stores[m]
  OBVIOUS

\* A store that carries nothing its thread has not stored.
LEMMA StoreViews ==
  ASSUME HealthType, ViewInv, NEW l \in Loc, NEW v \in BOOLEAN \cup {"ok", "io_error"} \cup Nat,
         NEW w \in [Loc -> Nat], \A m \in Loc : w[m] \in 1 .. Last(m), StoreWith(l, v, w),
         UNCHANGED seen
  PROVE  /\ ViewInv' /\ stores' \in [Loc -> Seq(Entry)]
         /\ \A m \in Loc : Len(stores[m]) \in Nat
         /\ Len(stores'[l]) = Len(stores[l]) + 1
         /\ stores'[l][Len(stores[l]) + 1].val = v /\ stores'[l][Len(stores[l]) + 1].view = w
         /\ \A n \in 1 .. Len(stores[l]) : stores'[l][n] = stores[l][n]
         /\ \A m \in Loc \ {l} : stores'[m] = stores[m]
  <1> DEFINE e == [val |-> v, view |-> w]
  <1>1. e \in Entry /\ e.val = v /\ e.view = w  BY DEF Entry
  <1> HIDE DEF e
  <1>2. stores' = [stores EXCEPT ![l] = Append(@, e)]  BY DEF StoreWith, e
  <1>3. /\ stores' \in [Loc -> Seq(Entry)]
        /\ \A m \in Loc : Len(stores[m]) \in Nat
        /\ Len(stores'[l]) = Len(stores[l]) + 1 /\ stores'[l][Len(stores[l]) + 1] = e
        /\ \A n \in 1 .. Len(stores[l]) : stores'[l][n] = stores[l][n]
        /\ \A m \in Loc \ {l} : stores'[m] = stores[m]
    BY <1>1, <1>2, StoreEffect DEF HealthType
  <1>4. \A m \in Loc : Len(stores'[m]) \in Nat /\ Len(stores[m]) <= Len(stores'[m])
    <2> SUFFICES ASSUME NEW m \in Loc
                 PROVE  Len(stores'[m]) \in Nat /\ Len(stores[m]) <= Len(stores'[m])
      OBVIOUS
    <2>1. CASE m = l  BY <1>3, <2>1
    <2>2. CASE m # l  BY <1>3, <2>2
    <2> QED  BY <2>1, <2>2
  <1>5. ASSUME NEW k \in Loc
        PROVE  /\ Len(stores'[k]) >= 1 /\ seen[k] \in 1 .. Len(stores'[k])
               /\ \A n \in 1 .. Len(stores'[k]), m \in Loc :
                    stores'[k][n].view[m] \in 1 .. Len(stores'[m])
    <2>1. Len(stores[k]) >= 1 /\ seen[k] \in 1 .. Len(stores[k])  BY DEF ViewInv, Last
    <2>2. Len(stores'[k]) >= 1 /\ seen[k] \in 1 .. Len(stores'[k])  BY <1>3, <1>4, <2>1
    <2>3. ASSUME NEW n \in 1 .. Len(stores'[k]), NEW m \in Loc
          PROVE  stores'[k][n].view[m] \in 1 .. Len(stores'[m])
      <3>1. stores'[k][n].view[m] \in 1 .. Len(stores[m])
        <4>1. CASE k = l /\ n = Len(stores[l]) + 1  BY <1>1, <1>3, <4>1 DEF Last
        <4>2. CASE n \in 1 .. Len(stores[k])
          <5>1. stores'[k][n] = stores[k][n]  BY <1>3, <4>2
          <5> QED  BY <4>2, <5>1 DEF ViewInv, Last
        <4>3. CASE k # l  BY <1>3, <4>2, <4>3
        <4>4. CASE k = l  BY <1>3, <4>1, <4>2, <4>4
        <4> QED  BY <4>3, <4>4
      <3>2. Len(stores[m]) \in Nat /\ Len(stores'[m]) \in Nat /\ Len(stores[m]) <= Len(stores'[m])
        BY <1>3, <1>4
      <3> QED  BY <3>1, <3>2
    <2> QED  BY <2>2, <2>3
  <1>6. ViewInv'  BY <1>5 DEF ViewInv, Last
  <1> QED  BY <1>1, <1>3, <1>6

\* What a view may say.
LEMMA OwnViews ==
  ASSUME HealthType, ViewInv
  PROVE  /\ Nothing \in [Loc -> Nat] /\ \A m \in Loc : Nothing[m] \in 1 .. Last(m)
         /\ [k \in Loc |-> Last(k)] \in [Loc -> Nat]
         /\ \A m \in Loc : [k \in Loc |-> Last(k)][m] \in 1 .. Last(m)
         /\ \A m \in Loc : Last(m) \in Nat
  BY DEF HealthType, ViewInv, Nothing, Last

LEMMA SeenRelaxed ==
  ASSUME HealthType, ViewInv, NEW l \in Loc, NEW n \in Loads(l), SeeRelaxed(l, n), UNCHANGED stores
  PROVE  /\ ViewInv' /\ seen' \in [Loc -> Nat] /\ seen'[l] = n /\ n \in 1 .. Last(l)
         /\ \A m \in Loc : seen[m] <= seen'[m]
  <1>1. Last(l) \in Nat /\ seen[l] \in 1 .. Last(l)  BY OwnViews DEF ViewInv
  <1>2. n \in Nat /\ n \in 1 .. Last(l) /\ seen[l] <= n  BY <1>1 DEF Loads
  <1>3. /\ seen' \in [Loc -> Nat] /\ seen'[l] = n
        /\ \A m \in Loc \ {l} : seen'[m] = seen[m]
    BY <1>2 DEF SeeRelaxed, HealthType
  <1>4. \A m \in Loc : Last(m)' = Last(m)  BY DEF Last
  <1>5. ViewInv'  BY <1>2, <1>3, <1>4 DEF ViewInv
  <1>6. seen \in [Loc -> Nat]  BY DEF HealthType
  <1> QED  BY <1>2, <1>3, <1>5, <1>6

LEMMA SeenAcquire ==
  ASSUME HealthType, ViewInv, NEW l \in Loc, NEW n \in Loads(l), SeeAcquire(l, n), UNCHANGED stores
  PROVE  /\ ViewInv' /\ seen' \in [Loc -> Nat] /\ n \in 1 .. Last(l)
         /\ \A m \in Loc : stores[l][n].view[m] <= seen'[m]
  <1>1. Last(l) \in Nat /\ seen[l] \in 1 .. Last(l)  BY OwnViews DEF ViewInv
  <1>2. n \in 1 .. Last(l)  BY <1>1 DEF Loads
  <1>3. ASSUME NEW m \in Loc
        PROVE  seen'[m] \in 1 .. Last(m) /\ seen'[m] \in Nat /\ stores[l][n].view[m] <= seen'[m]
    <2>1. Last(m) \in Nat /\ seen[m] \in 1 .. Last(m) /\ stores[l][n].view[m] \in 1 .. Last(m)
      BY <1>2, OwnViews DEF ViewInv
    <2>2. PICK x, y : x = (IF m = l THEN n ELSE seen[m]) /\ y = stores[l][n].view[m]  OBVIOUS
    <2>3. seen'[m] = LaterOf(x, y)  BY <2>2 DEF SeeAcquire
    <2>4. x \in 1 .. Last(m) /\ y \in 1 .. Last(m)  BY <1>2, <2>1, <2>2
    <2> QED  BY <2>1, <2>2, <2>3, <2>4 DEF LaterOf
  <1>4. seen' \in [Loc -> Nat]  BY <1>3 DEF SeeAcquire
  <1>5. \A m \in Loc : Last(m)' = Last(m)  BY DEF Last
  <1>6. ViewInv'  BY <1>3, <1>5 DEF ViewInv
  <1> QED  BY <1>2, <1>3, <1>4, <1>6

-----------------------------------------------------------------------------
(* The writer *)

LEMMA InitHInv == Init => HInv
  <1> SUFFICES ASSUME Init PROVE HInv  OBVIOUS
  <1>1. /\ \A l \in Loc : /\ stores[l] \in Seq(Entry) /\ Len(stores[l]) = 1
                          /\ stores[l][1].view = Nothing
        /\ stores \in [Loc -> Seq(Entry)]
    <2>1. Nothing \in [Loc -> Nat]  BY DEF Nothing
    <2> QED  BY <2>1 DEF Init, Entry, Loc
  <1>2. /\ stores["closed"][1].val = FALSE /\ stores["faulted"][1].val = FALSE
        /\ stores["code"][1].val = "ok" /\ stores["undurable"][1].val = 0
        /\ stores["oldest"][1].val = 0
    BY DEF Init, Loc
  <1>3. HealthType
    <2>1. /\ clock \in Nat /\ undurable \in Nat /\ start \in Seq(Nat) /\ seen \in [Loc -> Nat]
          /\ rd \in Result
      BY DEF Init, Nothing, NoResult, Result
    <2>2. /\ "closed" \in Loc /\ "faulted" \in Loc /\ "code" \in Loc /\ "undurable" \in Loc
          /\ "oldest" \in Loc
      BY DEF Loc
    <2>3. \A l \in Loc : \A n \in 1 .. Last(l) : n = 1
      <3>1. \A n \in 1 .. 1 : n = 1  OBVIOUS
      <3> QED  BY <1>1, <3>1 DEF Last
    <2>4. /\ \A n \in 1 .. Last("closed") : stores["closed"][n].val \in BOOLEAN
          /\ \A n \in 1 .. Last("faulted") : stores["faulted"][n].val \in BOOLEAN
      BY <1>2, <2>2, <2>3
    <2>5. /\ \A n \in 1 .. Last("code") : stores["code"][n].val \in {"ok", "io_error"}
          /\ \A n \in 1 .. Last("undurable") : stores["undurable"][n].val \in Nat
          /\ \A n \in 1 .. Last("oldest") : stores["oldest"][n].val \in Nat
      BY <1>2, <2>2, <2>3
    <2> QED  BY <1>1, <2>1, <2>4, <2>5 DEF HealthType
  <1>4. ViewInv  BY <1>1 DEF Init, ViewInv, Last, Nothing
  <1>5. FaultInv  BY <1>1, <1>2 DEF Init, FaultInv, Last, Loc, NoResult
  <1>6. EpisodeInv  BY <1>1, <1>2 DEF Init, EpisodeInv, Last, Loc, Nothing
  <1>7. WatchInv  BY DEF Init, WatchInv, AgeNotOverstated, NoResult
  <1> QED  BY <1>3, <1>4, <1>5, <1>6, <1>7 DEF HInv

LEMMA FirstRecordHInv == ASSUME HInv, FirstRecord PROVE HInv'
  <1> /\ HealthType /\ ViewInv /\ FaultInv /\ EpisodeInv /\ WatchInv  BY DEF HInv
  <1>1. /\ UNCHANGED <<stores, clock, seen, rd>> /\ start' = Append(start, clock)
        /\ undurable' = Len(start) + 1 /\ pc = "idle" /\ pc' = "since"
    BY DEF FirstRecord, Ready
  <1>2. start \in Seq(Nat) /\ Len(start) \in Nat /\ clock \in Nat  BY DEF HealthType
  <1>3. /\ start' \in Seq(Nat) /\ Len(start') = Len(start) + 1 /\ start'[Len(start) + 1] = clock
        /\ \A k \in 1 .. Len(start) : start'[k] = start[k]
    BY <1>1, <1>2
  <1>4. HealthType'  BY <1>1, <1>2, <1>3 DEF HealthType, Last
  <1>5. ViewInv'  BY <1>1 DEF ViewInv, Last
  <1>6. FaultInv'  BY <1>1 DEF FaultInv, Last
  <1>7. EpisodeInv'  BY <1>1, <1>2, <1>3 DEF EpisodeInv, Last
  <1>8. WatchInv'  BY <1>1, <1>2, <1>3 DEF WatchInv, AgeNotOverstated
  <1> QED  BY <1>4, <1>5, <1>6, <1>7, <1>8 DEF HInv

\* A store of the writer is a matter of the stores and its own place.
LEMMA StoreHInv ==
  ASSUME HInv, NEW l \in Loc, NEW v \in BOOLEAN \cup {"ok", "io_error"} \cup Nat,
         NEW w \in [Loc -> Nat], \A m \in Loc : w[m] \in 1 .. Last(m), StoreWith(l, v, w),
         UNCHANGED <<clock, seen, rd, start>>, undurable' \in Nat,
         l \in {"closed", "faulted"} => v \in BOOLEAN,
         l = "code" => v = "io_error",
         l \in {"undurable", "oldest"} => v \in Nat,
         (l = "faulted" /\ v = TRUE) => w["code"] >= 2,
         pc' = "fault" => l = "code",
         EpisodeInv'
  PROVE  HInv'
  <1> /\ HealthType /\ ViewInv /\ FaultInv /\ WatchInv  BY DEF HInv
  <1>1. /\ ViewInv' /\ stores' \in [Loc -> Seq(Entry)]
        /\ \A m \in Loc : Len(stores[m]) \in Nat
        /\ Len(stores'[l]) = Len(stores[l]) + 1
        /\ stores'[l][Len(stores[l]) + 1].val = v /\ stores'[l][Len(stores[l]) + 1].view = w
        /\ \A n \in 1 .. Len(stores[l]) : stores'[l][n] = stores[l][n]
        /\ \A m \in Loc \ {l} : stores'[m] = stores[m]
    BY StoreViews
  <1>2. ASSUME NEW m \in Loc, NEW n \in 1 .. Len(stores'[m])
        PROVE  \/ m = l /\ n = Len(stores[l]) + 1
               \/ n \in 1 .. Len(stores[m]) /\ stores'[m][n] = stores[m][n]
    <2>1. CASE m = l
      <3>1. n \in 1 .. Len(stores[l]) + 1 /\ Len(stores[l]) \in Nat  BY <1>1, <1>2, <2>1
      <3>2. n = Len(stores[l]) + 1 \/ n \in 1 .. Len(stores[l])  BY <3>1
      <3> QED  BY <1>1, <2>1, <3>2
    <2>2. CASE m # l
      <3>1. stores'[m] = stores[m]  BY <1>1, <2>2
      <3> QED  BY <1>2, <3>1
    <2> QED  BY <2>1, <2>2
  <1>3. HealthType'
    <2>1. \A n \in 1 .. Len(stores'["closed"]) : stores'["closed"][n].val \in BOOLEAN
      BY <1>1, <1>2 DEF HealthType, Last, Loc
    <2>2. \A n \in 1 .. Len(stores'["faulted"]) : stores'["faulted"][n].val \in BOOLEAN
      BY <1>1, <1>2 DEF HealthType, Last, Loc
    <2>3. \A n \in 1 .. Len(stores'["code"]) : stores'["code"][n].val \in {"ok", "io_error"}
      BY <1>1, <1>2 DEF HealthType, Last, Loc
    <2>4. \A n \in 1 .. Len(stores'["undurable"]) : stores'["undurable"][n].val \in Nat
      BY <1>1, <1>2 DEF HealthType, Last, Loc
    <2>5. \A n \in 1 .. Len(stores'["oldest"]) : stores'["oldest"][n].val \in Nat
      BY <1>1, <1>2 DEF HealthType, Last, Loc
    <2> QED  BY <1>1, <2>1, <2>2, <2>3, <2>4, <2>5 DEF HealthType, Last
  <1>4. FaultInv'
    <2>1. ASSUME NEW n \in 2 .. Len(stores'["code"]) PROVE stores'["code"][n].val # "ok"
      <3>1. "code" \in Loc /\ n \in 1 .. Len(stores'["code"])  BY <2>1 DEF Loc
      <3>2. CASE l = "code" /\ n = Len(stores[l]) + 1  BY <1>1, <3>2
      <3>3. CASE n \in 1 .. Len(stores["code"]) /\ stores'["code"][n] = stores["code"][n]
        BY <2>1, <3>3 DEF FaultInv, Last
      <3> QED  BY <1>2, <3>1, <3>2, <3>3
    <2>2. pc' = "fault" => Len(stores'["code"]) >= 2
      BY <1>1 DEF ViewInv, Last
    <2>3. \A n \in 1 .. Len(stores'["faulted"]) : stores'["faulted"][n].val = TRUE =>
            stores'["faulted"][n].view["code"] >= 2
      BY <1>1, <1>2 DEF FaultInv, Last, Loc
    <2> QED  BY <2>1, <2>2, <2>3 DEF FaultInv, Last
  <1>5. WatchInv'  BY DEF WatchInv, AgeNotOverstated
  <1> QED  BY <1>1, <1>3, <1>4, <1>5 DEF HInv

LEMMA StoreOldestHInv == ASSUME HInv, StoreOldest PROVE HInv'
  <1> HealthType /\ ViewInv /\ EpisodeInv  BY DEF HInv
  <1>1. "oldest" \in Loc /\ "undurable" \in Loc  BY DEF Loc
  <1>2. /\ StoreWith("oldest", clock, Nothing) /\ pc = "since" /\ pc' = "mark"
        /\ UNCHANGED <<clock, undurable, seen, rd, start>>
    BY DEF StoreOldest, Store
  <1>3. clock \in Nat /\ undurable \in Nat /\ start \in Seq(Nat) /\ Len(start) \in Nat
    BY DEF HealthType
  <1>4. Nothing \in [Loc -> Nat] /\ \A m \in Loc : Nothing[m] \in 1 .. Last(m)  BY OwnViews
  <1>5. /\ Len(stores["oldest"]) \in Nat /\ Len(stores'["oldest"]) = Len(stores["oldest"]) + 1
        /\ stores'["oldest"][Len(stores["oldest"]) + 1].val = clock
        /\ \A n \in 1 .. Len(stores["oldest"]) : stores'["oldest"][n] = stores["oldest"][n]
        /\ stores'["undurable"] = stores["undurable"]
    BY <1>1, <1>2, <1>3, <1>4, StoreViews
  <1>6. EpisodeInv'
    <2>1. Len(stores["oldest"]) = Len(start) /\ undurable = Len(start)
      BY <1>2 DEF EpisodeInv, Last
    <2>2. ASSUME NEW k \in 1 .. Len(start) PROVE start[k] <= stores'["oldest"][k + 1].val
      <3>1. CASE k = Len(start)  BY <1>5, <2>1, <3>1 DEF EpisodeInv
      <3>2. CASE k + 1 <= Len(start)
        <4>1. k + 1 \in 1 .. Len(stores["oldest"])  BY <1>3, <2>1, <3>2
        <4> QED  BY <1>5, <2>1, <3>2, <4>1 DEF EpisodeInv, Last
      <3> QED  BY <1>3, <3>1, <3>2
    <2> QED  BY <1>2, <1>5, <2>1, <2>2 DEF EpisodeInv, Last
  <1> QED  BY <1>1, <1>2, <1>3, <1>4, <1>6, StoreHInv

\* A mark, or none, carries the time of its episode.
LEMMA UndurableStored ==
  ASSUME HInv, NEW l, l = "undurable", NEW v \in Nat, NEW w \in [Loc -> Nat],
         \A m \in Loc : w[m] \in 1 .. Last(m), v < w["oldest"], StoreWith(l, v, w),
         UNCHANGED <<clock, start, seen>>, pc # "since", pc' \notin {"since", "mark"}
  PROVE  EpisodeInv'
  <1> HealthType /\ ViewInv /\ EpisodeInv  BY DEF HInv
  <1>1. /\ "oldest" \in Loc \ {l} /\ l \in Loc
        /\ v \in BOOLEAN \cup {"ok", "io_error"} \cup Nat
    BY DEF Loc
  <1>2. /\ Len(stores[l]) \in Nat /\ Len(stores'[l]) = Len(stores[l]) + 1
        /\ stores'[l][Len(stores[l]) + 1].val = v /\ stores'[l][Len(stores[l]) + 1].view = w
        /\ \A n \in 1 .. Len(stores[l]) : stores'[l][n] = stores[l][n]
        /\ \A m \in Loc \ {l} : stores'[m] = stores[m]
    BY <1>1, StoreViews
  <1> stores'["oldest"] = stores["oldest"]  BY <1>1, <1>2
  <1>3. ASSUME NEW n \in 1 .. Len(stores'[l])
        PROVE  stores'[l][n].val < stores'[l][n].view["oldest"]
    <2>1. CASE n = Len(stores[l]) + 1  BY <1>2, <2>1
    <2>2. CASE n \in 1 .. Len(stores[l])  BY <1>2, <2>2 DEF EpisodeInv, Last
    <2> QED  BY <1>2, <2>1, <2>2
  <1> QED  BY <1>2, <1>3 DEF EpisodeInv, Last

LEMMA StoreUndurableHInv == ASSUME HInv, StoreUndurable PROVE HInv'
  <1> HealthType /\ ViewInv /\ EpisodeInv  BY DEF HInv
  <1>1. "oldest" \in Loc /\ "undurable" \in Loc  BY DEF Loc
  <1> DEFINE w == [m \in Loc |-> Last(m)]
  <1>2. /\ StoreWith("undurable", undurable, w) /\ pc = "mark" /\ pc' = "idle"
        /\ UNCHANGED <<clock, undurable, seen, rd, start>>
    BY DEF StoreUndurable, StoreRelease
  <1>3. undurable \in Nat /\ Len(start) \in Nat  BY DEF HealthType
  <1>4. /\ w \in [Loc -> Nat] /\ \A m \in Loc : w[m] \in 1 .. Last(m)
        /\ w["oldest"] = Last("oldest")
    BY <1>1, OwnViews
  <1> HIDE DEF w
  <1>5. undurable < w["oldest"]  BY <1>2, <1>3, <1>4 DEF EpisodeInv
  <1>6. EpisodeInv'  BY <1>2, <1>3, <1>4, <1>5, UndurableStored
  <1> QED  BY <1>1, <1>2, <1>3, <1>4, <1>6, StoreHInv

\* Stores that are none of the episodes' business, and steps without one.
LEMMA OtherStore ==
  ASSUME HInv, NEW l \in {"closed", "faulted", "code"},
         NEW v \in BOOLEAN \cup {"ok", "io_error"} \cup Nat,
         NEW w \in [Loc -> Nat], \A m \in Loc : w[m] \in 1 .. Last(m), StoreWith(l, v, w),
         UNCHANGED <<clock, start, seen>>, pc \notin {"since", "mark"}, pc' \notin {"since", "mark"}
  PROVE  EpisodeInv'
  <1> HealthType /\ ViewInv /\ EpisodeInv  BY DEF HInv
  <1>1. "oldest" \in Loc \ {l} /\ "undurable" \in Loc \ {l} /\ l \in Loc  BY DEF Loc
  <1>2. stores'["oldest"] = stores["oldest"] /\ stores'["undurable"] = stores["undurable"]
    BY <1>1, StoreViews
  <1> QED  BY <1>2 DEF EpisodeInv, Last

LEMMA FlushHInv == ASSUME HInv, NEW last \in BOOLEAN, Flush(last) PROVE HInv'
  <1>1. /\ UNCHANGED <<stores, clock, undurable, seen, rd, start>> /\ pc = "idle"
        /\ pc' \in {"closing", "flush"}
    BY DEF Flush, Ready
  <1>2. HealthType' /\ ViewInv'  BY <1>1 DEF HInv, HealthType, ViewInv, Last
  <1>3. FaultInv'  BY <1>1 DEF HInv, FaultInv, Last
  <1>4. EpisodeInv' /\ WatchInv'
    BY <1>1 DEF HInv, EpisodeInv, WatchInv, AgeNotOverstated, Last
  <1> QED  BY <1>2, <1>3, <1>4 DEF HInv

LEMMA FlushOkHInv == ASSUME HInv, FlushOk PROVE HInv'
  <1> HealthType /\ ViewInv /\ EpisodeInv  BY DEF HInv
  <1>1. /\ pc \notin {"since", "mark", "fault"} /\ pc' \notin {"since", "mark", "fault"}
        /\ undurable' = 0 /\ UNCHANGED <<clock, seen, rd, start>>
    BY DEF FlushOk
  <1>2. CASE UNCHANGED stores
    <2>1. HealthType' /\ ViewInv'  BY <1>1, <1>2 DEF HealthType, ViewInv, Last
    <2>2. FaultInv'  BY <1>1, <1>2 DEF HInv, FaultInv, Last
    <2>3. EpisodeInv' /\ WatchInv'
      BY <1>1, <1>2 DEF HInv, EpisodeInv, WatchInv, AgeNotOverstated, Last
    <2> QED  BY <2>1, <2>2, <2>3 DEF HInv
  <1>3. CASE StoreWith("undurable", 0, Nothing)
    <2>1. "oldest" \in Loc /\ "undurable" \in Loc  BY DEF Loc
    <2>2. /\ Nothing \in [Loc -> Nat] /\ \A m \in Loc : Nothing[m] \in 1 .. Last(m)
          /\ Nothing["oldest"] = 1
      BY <2>1, OwnViews DEF Nothing
    <2>3. EpisodeInv'  BY <1>1, <1>3, <2>2, UndurableStored
    <2> QED  BY <1>1, <1>3, <2>1, <2>2, <2>3, StoreHInv
  <1> QED  BY <1>2, <1>3 DEF FlushOk, Store

LEMMA StoreClosedHInv == ASSUME HInv, StoreClosed PROVE HInv'
  <1>1. /\ StoreWith("closed", TRUE, Nothing) /\ pc = "close" /\ pc' = "idle"
        /\ UNCHANGED <<clock, undurable, seen, rd, start>>
    BY DEF StoreClosed, Store
  <1>2. /\ "closed" \in Loc /\ undurable \in Nat
        /\ Nothing \in [Loc -> Nat] /\ \A m \in Loc : Nothing[m] \in 1 .. Last(m)
    BY OwnViews DEF HInv, HealthType, Loc
  <1>3. EpisodeInv'  BY <1>1, <1>2, OtherStore
  <1> QED  BY <1>1, <1>2, <1>3, StoreHInv

LEMMA FailHInv == ASSUME HInv, Fail PROVE HInv'
  <1>1. /\ StoreWith("code", "io_error", Nothing) /\ pc \notin {"since", "mark"} /\ pc' = "fault"
        /\ UNCHANGED <<clock, undurable, seen, rd, start>>
    BY DEF Fail, Store, Ready
  <1>2. /\ "code" \in Loc /\ undurable \in Nat
        /\ Nothing \in [Loc -> Nat] /\ \A m \in Loc : Nothing[m] \in 1 .. Last(m)
    BY OwnViews DEF HInv, HealthType, Loc
  <1>3. EpisodeInv'  BY <1>1, <1>2, OtherStore
  <1> QED  BY <1>1, <1>2, <1>3, StoreHInv

LEMMA StoreFaultedHInv == ASSUME HInv, StoreFaulted PROVE HInv'
  <1> DEFINE w == [m \in Loc |-> Last(m)]
  <1>1. /\ StoreWith("faulted", TRUE, w) /\ pc = "fault" /\ pc' = "idle"
        /\ UNCHANGED <<clock, undurable, seen, rd, start>>
    BY DEF StoreFaulted, StoreRelease
  <1>2. /\ "faulted" \in Loc /\ "code" \in Loc /\ undurable \in Nat
        /\ w \in [Loc -> Nat] /\ \A m \in Loc : w[m] \in 1 .. Last(m)
    BY OwnViews DEF HInv, HealthType, Loc
  <1>3. w["code"] >= 2  BY <1>1, <1>2 DEF HInv, FaultInv
  <1> HIDE DEF w
  <1>4. EpisodeInv'  BY <1>1, <1>2, OtherStore
  <1> QED  BY <1>1, <1>2, <1>3, <1>4, StoreHInv

-----------------------------------------------------------------------------
(* The watchdog *)

\* A step of the watchdog is a matter of what it sees and of its result.
LEMMA WatchHInv ==
  ASSUME HInv, UNCHANGED <<stores, clock, writerVars, start>>, seen' \in [Loc -> Nat], ViewInv',
         rd' \in Result, WatchInv',
         (rd'.at = "code" /\ rd'.faulted = TRUE) => seen'["code"] >= 2,
         (rd'.at \in {"undurable", "oldest", "now", "done"} /\ rd'.faulted = TRUE) =>
           rd'.code # "ok"
  PROVE  HInv'
  <1>1. UNCHANGED <<stores, clock, pc, undurable, start>>  BY DEF writerVars
  <1>2. HealthType'  BY <1>1 DEF HInv, HealthType, Last
  <1>3. FaultInv'  BY <1>1 DEF HInv, FaultInv, Last
  <1>4. EpisodeInv'  BY <1>1 DEF HInv, EpisodeInv, Last
  <1> QED  BY <1>2, <1>3, <1>4 DEF HInv

LEMMA LoadClosedHInv == ASSUME HInv, LoadClosed(Loads("closed")) PROVE HInv'
  <1> HealthType /\ ViewInv /\ FaultInv /\ WatchInv  BY DEF HInv
  <1>1. UNCHANGED <<stores, clock, writerVars, start>> /\ rd.at = "closed"
    BY DEF LoadClosed, May
  <1>2. PICK n \in Loads("closed") :
          /\ SeeRelaxed("closed", n)
          /\ rd' = [rd EXCEPT !.at = "faulted", !.closed = stores["closed"][n].val]
    BY DEF LoadClosed
  <1>3. "closed" \in Loc  BY DEF Loc
  <1>4. ViewInv' /\ seen' \in [Loc -> Nat] /\ n \in 1 .. Last("closed")
    BY <1>1, <1>2, <1>3, SeenRelaxed
  <1>5. stores["closed"][n].val \in BOOLEAN  BY <1>4 DEF HealthType
  <1>6. rd' \in Result /\ rd'.at = "faulted"  BY <1>2, <1>5 DEF HealthType, Result
  <1>7. WatchInv'  BY <1>6 DEF WatchInv, AgeNotOverstated
  <1> QED  BY <1>1, <1>4, <1>6, <1>7, WatchHInv

LEMMA LoadFaultedHInv == ASSUME HInv, LoadFaulted(Loads("faulted")) PROVE HInv'
  <1> HealthType /\ ViewInv /\ FaultInv /\ WatchInv  BY DEF HInv
  <1>1. UNCHANGED <<stores, clock, writerVars, start>> /\ rd.at = "faulted"
    BY DEF LoadFaulted, May
  <1>2. PICK n \in Loads("faulted") :
          /\ SeeAcquire("faulted", n)
          /\ rd' = [rd EXCEPT !.at = "code", !.faulted = stores["faulted"][n].val]
    BY DEF LoadFaulted
  <1>3. "faulted" \in Loc /\ "code" \in Loc  BY DEF Loc
  <1>4. /\ ViewInv' /\ seen' \in [Loc -> Nat] /\ n \in 1 .. Last("faulted")
        /\ \A m \in Loc : stores["faulted"][n].view[m] <= seen'[m]
    BY <1>1, <1>2, <1>3, SeenAcquire
  <1>5. stores["faulted"][n].val \in BOOLEAN  BY <1>4 DEF HealthType
  <1>6. rd' \in Result /\ rd'.at = "code" /\ rd'.faulted = stores["faulted"][n].val
    BY <1>2, <1>5 DEF HealthType, Result
  <1>7. WatchInv'  BY <1>6 DEF WatchInv, AgeNotOverstated
  <1>8. rd'.faulted = TRUE => seen'["code"] >= 2
    <2>1. stores["faulted"][n].val = TRUE => stores["faulted"][n].view["code"] >= 2
      BY <1>4 DEF FaultInv
    <2>2. stores["faulted"][n].view["code"] \in 1 .. Last("code") /\ Last("code") \in Nat
      BY <1>3, <1>4, OwnViews DEF ViewInv
    <2> QED  BY <1>3, <1>4, <1>6, <2>1, <2>2
  <1> QED  BY <1>1, <1>4, <1>6, <1>7, <1>8, WatchHInv

LEMMA LoadCodeHInv == ASSUME HInv, LoadCode(Loads("code")) PROVE HInv'
  <1> HealthType /\ ViewInv /\ FaultInv /\ WatchInv  BY DEF HInv
  <1>1. UNCHANGED <<stores, clock, writerVars, start>> /\ rd.at = "code"
    BY DEF LoadCode, May
  <1>2. PICK n \in Loads("code") :
          /\ SeeRelaxed("code", n)
          /\ rd' = [rd EXCEPT !.at = "undurable", !.code = stores["code"][n].val]
    BY DEF LoadCode
  <1>3. "code" \in Loc  BY DEF Loc
  <1>4. /\ ViewInv' /\ seen' \in [Loc -> Nat] /\ n \in 1 .. Last("code")
        /\ seen'["code"] = n /\ seen["code"] <= n
    BY <1>1, <1>2, <1>3, SeenRelaxed
  <1>5. stores["code"][n].val \in {"ok", "io_error"}  BY <1>4 DEF HealthType
  <1>6. /\ rd' \in Result /\ rd'.at = "undurable" /\ rd'.faulted = rd.faulted
        /\ rd'.code = stores["code"][n].val
    BY <1>2, <1>5 DEF HealthType, Result
  <1>7. WatchInv'  BY <1>6 DEF WatchInv, AgeNotOverstated
  <1>8. rd'.faulted = TRUE => rd'.code # "ok"
    <2>1. seen["code"] \in Nat /\ Last("code") \in Nat  BY <1>3, OwnViews DEF HealthType
    <2>2. rd.faulted = TRUE => n \in 2 .. Last("code")  BY <1>1, <1>4, <2>1 DEF FaultInv
    <2> QED  BY <1>6, <2>2 DEF FaultInv
  <1> QED  BY <1>1, <1>4, <1>6, <1>7, <1>8, WatchHInv

LEMMA LoadUndurableHInv == ASSUME HInv, LoadUndurable(Loads("undurable")) PROVE HInv'
  <1> HealthType /\ ViewInv /\ FaultInv /\ EpisodeInv  BY DEF HInv
  <1>1. UNCHANGED <<stores, clock, writerVars, start>> /\ rd.at = "undurable"
    BY DEF LoadUndurable, May
  <1>2. PICK n \in Loads("undurable") : \E e :
          /\ e = stores["undurable"][n].val
          /\ SeeAcquire("undurable", n)
          /\ rd' = [rd EXCEPT !.at = IF e = 0 THEN "done" ELSE "oldest", !.episode = e]
    BY DEF LoadUndurable
  <1>3. PICK e :
          /\ e = stores["undurable"][n].val
          /\ SeeAcquire("undurable", n)
          /\ rd' = [rd EXCEPT !.at = IF e = 0 THEN "done" ELSE "oldest", !.episode = e]
    BY <1>2
  <1>4. "undurable" \in Loc /\ "oldest" \in Loc  BY DEF Loc
  <1>5. /\ ViewInv' /\ seen' \in [Loc -> Nat] /\ n \in 1 .. Last("undurable")
        /\ \A m \in Loc : stores["undurable"][n].view[m] <= seen'[m]
    BY <1>1, <1>2, <1>4, SeenAcquire
  <1>6. e \in Nat  BY <1>3, <1>5 DEF HealthType
  <1>7. /\ rd' \in Result /\ rd'.at = (IF e = 0 THEN "done" ELSE "oldest") /\ rd'.episode = e
        /\ rd'.faulted = rd.faulted /\ rd'.code = rd.code
    BY <1>3, <1>6 DEF HealthType, Result
  <1>8. e < seen'["oldest"]
    <2>1. e < stores["undurable"][n].view["oldest"]  BY <1>3, <1>5 DEF EpisodeInv
    <2>2. stores["undurable"][n].view["oldest"] \in 1 .. Last("oldest") /\ Last("oldest") \in Nat
      BY <1>4, <1>5, OwnViews DEF ViewInv
    <2> QED  BY <1>4, <1>5, <1>6, <2>1, <2>2
  <1>9. WatchInv'  BY <1>7, <1>8 DEF WatchInv, AgeNotOverstated
  <1>10. rd.faulted = TRUE => rd.code # "ok"  BY <1>1 DEF FaultInv
  <1> QED  BY <1>1, <1>5, <1>7, <1>9, <1>10, WatchHInv

LEMMA LoadOldestHInv == ASSUME HInv, LoadOldest(Loads("oldest")) PROVE HInv'
  <1> HealthType /\ ViewInv /\ FaultInv /\ EpisodeInv /\ WatchInv  BY DEF HInv
  <1>1. UNCHANGED <<stores, clock, writerVars, start>> /\ rd.at = "oldest"
    BY DEF LoadOldest, May
  <1>2. PICK n \in Loads("oldest") :
          /\ SeeRelaxed("oldest", n)
          /\ rd' = [rd EXCEPT !.at = "now", !.since = stores["oldest"][n].val]
    BY DEF LoadOldest
  <1>3. "oldest" \in Loc  BY DEF Loc
  <1>4. /\ ViewInv' /\ seen' \in [Loc -> Nat] /\ n \in 1 .. Last("oldest") /\ seen["oldest"] <= n
    BY <1>1, <1>2, <1>3, SeenRelaxed
  <1>5. stores["oldest"][n].val \in Nat  BY <1>4 DEF HealthType
  <1>6. /\ rd' \in Result /\ rd'.at = "now" /\ rd'.faulted = rd.faulted /\ rd'.code = rd.code
        /\ rd'.episode = rd.episode /\ rd'.since = stores["oldest"][n].val /\ rd.episode \in Nat
    BY <1>2, <1>5 DEF HealthType, Result
  \* The time loaded is of this episode or of a later one.
  <1>7. rd.episode \in 1 .. Len(start) /\ start[rd.episode] <= stores["oldest"][n].val
    <2>1. PICK e \in Nat : e = rd.episode  BY <1>6
    <2>2. /\ seen["oldest"] \in Nat /\ Last("oldest") \in Nat /\ Len(start) \in Nat
          /\ start \in Seq(Nat)
      BY <1>3, OwnViews DEF HealthType
    <2>3. e # 0 /\ e < seen["oldest"]  BY <1>1, <2>1 DEF WatchInv
    <2>4. Last("oldest") <= Len(start) + 1  BY <2>2 DEF EpisodeInv
    <2>5. PICK k \in Nat : n = k + 1 /\ k \in 1 .. Len(start) /\ e <= k
      <3>1. n - 1 \in Nat /\ n = (n - 1) + 1 /\ n - 1 \in 1 .. Len(start) /\ e <= n - 1
        BY <1>4, <2>2, <2>3, <2>4
      <3> QED  BY <3>1
    <2>6. e \in 1 .. Len(start)  BY <2>2, <2>3, <2>5
    <2>7. start[e] <= start[k]  BY <2>5, <2>6 DEF EpisodeInv
    <2>8. start[k] <= stores["oldest"][k + 1].val  BY <1>4, <2>2, <2>5 DEF EpisodeInv
    <2>9. start[e] \in Nat /\ start[k] \in Nat  BY <2>2, <2>5, <2>6
    <2> QED  BY <1>5, <2>1, <2>5, <2>6, <2>7, <2>8, <2>9
  <1>8. WatchInv'  BY <1>1, <1>6, <1>7 DEF WatchInv, AgeNotOverstated
  <1>9. rd.faulted = TRUE => rd.code # "ok"  BY <1>1 DEF FaultInv
  <1> QED  BY <1>1, <1>4, <1>6, <1>8, <1>9, WatchHInv

LEMMA ReadClockHInv == ASSUME HInv, ReadClock PROVE HInv'
  <1> HealthType /\ ViewInv /\ FaultInv /\ EpisodeInv /\ WatchInv  BY DEF HInv
  <1>1. UNCHANGED <<stores, clock, writerVars, start, seen>> /\ rd.at = "now"
    BY DEF ReadClock, May
  <1>2. clock \in Nat /\ rd.since \in Nat /\ start \in Seq(Nat)  BY DEF HealthType, Result
  <1>3. PICK a \in Nat : a = IF clock > rd.since THEN clock - rd.since ELSE 0  BY <1>2
  <1>4. /\ rd' \in Result /\ rd'.at = "done" /\ rd'.faulted = rd.faulted /\ rd'.code = rd.code
        /\ rd'.episode = rd.episode /\ rd'.age = a
    BY <1>3 DEF ReadClock, HealthType, Result
  <1>5. rd.episode \in 1 .. Len(start) /\ start[rd.episode] <= rd.since  BY <1>1 DEF WatchInv
  <1>6. start[rd.episode] \in Nat /\ start[rd.episode] <= clock
    BY <1>2, <1>5 DEF EpisodeInv
  <1>7. a <= clock - start[rd.episode]  BY <1>2, <1>3, <1>5, <1>6
  <1>8. WatchInv'  BY <1>1, <1>4, <1>5, <1>7 DEF WatchInv, AgeNotOverstated
  <1>9. rd.faulted = TRUE => rd.code # "ok"  BY <1>1 DEF FaultInv
  <1>10. ViewInv' /\ seen' \in [Loc -> Nat]  BY <1>1 DEF ViewInv, HealthType, Last
  <1> QED  BY <1>1, <1>4, <1>8, <1>9, <1>10, WatchHInv

LEMMA CallAgainHInv == ASSUME HInv, CallAgain PROVE HInv'
  <1>1. UNCHANGED <<stores, clock, writerVars, start, seen>> /\ rd' = NoResult
    BY DEF CallAgain, May
  <1>2. rd' \in Result /\ rd'.at = "closed"  BY <1>1 DEF NoResult, Result
  <1>3. ViewInv' /\ seen' \in [Loc -> Nat]  BY <1>1 DEF HInv, ViewInv, HealthType, Last
  <1>4. WatchInv'  BY <1>2 DEF WatchInv, AgeNotOverstated
  <1> QED  BY <1>1, <1>2, <1>3, <1>4, WatchHInv

LEMMA TickHInv == ASSUME HInv, Tick PROVE HInv'
  <1> HealthType /\ ViewInv /\ FaultInv /\ EpisodeInv /\ WatchInv  BY DEF HInv
  <1>1. UNCHANGED <<stores, pc, undurable, seen, rd, start>> /\ clock' = clock + 1
    BY DEF Tick, writerVars
  <1>2. clock \in Nat /\ start \in Seq(Nat) /\ rd \in Result  BY DEF HealthType
  <1>3. HealthType'  BY <1>1, <1>2 DEF HealthType, Last
  <1>4. ViewInv' /\ FaultInv'  BY <1>1 DEF ViewInv, FaultInv, Last
  <1>5. EpisodeInv'
    <2>1. \A k \in 1 .. Len(start) : start[k] <= clock'  BY <1>1, <1>2 DEF EpisodeInv
    <2> QED  BY <1>1, <2>1 DEF EpisodeInv, Last
  <1>6. WatchInv'
    <2>1. ASSUME rd.at = "done", rd.episode # 0 PROVE rd.age <= clock' - start[rd.episode]
      <3>1. start[rd.episode] \in Nat /\ rd.age \in Nat  BY <1>2, <2>1 DEF WatchInv, Result
      <3> QED  BY <1>1, <1>2, <2>1, <3>1 DEF WatchInv, AgeNotOverstated
    <2> QED  BY <1>1, <2>1 DEF WatchInv, AgeNotOverstated
  <1> QED  BY <1>3, <1>4, <1>5, <1>6 DEF HInv

-----------------------------------------------------------------------------
(***************************************************************************)
(* HInv is inductive: what a thread sees of the atomics behind health(),   *)
(* and what the watchdog may make of it, for any number of episodes.       *)
(***************************************************************************)
THEOREM HealthInductive == Spec => []HInv
  <1>1. HInv /\ [Next]_vars => HInv'
    <2> SUFFICES ASSUME HInv, [Next]_vars PROVE HInv'  OBVIOUS
    <2>1. CASE UNCHANGED vars
      <3>1. UNCHANGED <<stores, clock, pc, undurable, seen, rd, start>>
        BY <2>1 DEF vars, writerVars
      <3>2. HealthType' /\ ViewInv'  BY <3>1 DEF HInv, HealthType, ViewInv, Last
      <3>3. FaultInv' /\ EpisodeInv' /\ WatchInv'
        BY <3>1 DEF HInv, FaultInv, EpisodeInv, WatchInv, AgeNotOverstated, Last
      <3> QED  BY <3>2, <3>3 DEF HInv
    <2>2. CASE Writer
      BY <2>2, FirstRecordHInv, StoreOldestHInv, StoreUndurableHInv, FlushHInv, FlushOkHInv,
         StoreClosedHInv, FailHInv, StoreFaultedHInv
      DEF Writer
    <2>3. CASE Watchdog
      BY <2>3, LoadClosedHInv, LoadFaultedHInv, LoadCodeHInv, LoadUndurableHInv,
         LoadOldestHInv, ReadClockHInv, CallAgainHInv
      DEF Watchdog
    <2> QED  BY <2>1, <2>2, <2>3, TickHInv DEF Next
  <1> QED  BY <1>1, InitHInv, PTL DEF Spec

(***************************************************************************)
(* fail() stores the code before the flag, and health() loads them in the  *)
(* other order: a watchdog that sees faulted sees a code.                  *)
(***************************************************************************)
THEOREM FaultTheorem == Spec => []FaultHasCode
  <1>1. HInv => FaultHasCode  BY DEF HInv, FaultInv, HealthType, Result, FaultHasCode
  <1> QED  BY <1>1, HealthInductive, PTL

(***************************************************************************)
(* append_impl stores the time before the mark: the age health() reports   *)
(* is at most that of the episode whose mark it saw.                       *)
(***************************************************************************)
THEOREM AgeTheorem == Spec => []AgeNotOverstated
  <1>1. HInv => AgeNotOverstated  BY DEF HInv, WatchInv
  <1> QED  BY <1>1, HealthInductive, PTL

=============================================================================
