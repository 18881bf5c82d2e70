----------------------------- MODULE LoadOracle ----------------------------
(***************************************************************************)
(* The load generator's independent check of the ring store                *)
(* (tools/tfdb_loadgen.cpp).  PersistenceOracleStorage sits between the    *)
(* store and the backend, sees every write, and works out from the writes  *)
(* alone, with neither catalogue nor index, which records must remain      *)
(* visible; the tool then compares that with what it can query, before and *)
(* after it opens the volume again.  ShortWriteStorage below it makes the  *)
(* backend take a write in several pieces.                                 *)
(*                                                                         *)
(* The oracle watches the first session of a fresh volume, until it is     *)
(* closed and read again.  It makes no statement once an I/O operation has *)
(* failed or power was lost: the tool then ends with an error.             *)
(***************************************************************************)
EXTENDS RingStore, SequencesExt

CONSTANT MaxFragments   \* bound: pieces in which the backend takes a write

ASSUME FragmentAssumption == MaxFragments \in Nat \ {0}

VARIABLE oracle

oracleVars == <<vars, oracle>>

-----------------------------------------------------------------------------
NoSlot == [active |-> FALSE, gen |-> 0, blocks |-> <<>>]

\* The members of PersistenceOracleStorage.  `pending` is the region of the
\* write of which only `pieces` pieces have been seen.
NewOracle == [on |-> TRUE, status |-> "ok", slots |-> [s \in Slot |-> NoSlot],
              latest |-> [gen |-> 0, slot |-> 0], next |-> 1,
              pending |-> <<>>, pieces |-> 0]

Off == [NewOracle EXCEPT !.on = FALSE]

Reject(o) == [o EXCEPT !.status = "corrupt"]

\* observe_write() of a partition header: slots are replaced in turn.
ObserveHeader(o, s, header) ==
  IF \/ o.latest.gen = 0 /\ (header.gen # 1 \/ s # 0)
     \/ o.latest.gen # 0 /\ (header.gen # o.latest.gen + 1
                               \/ s # (o.latest.slot + 1) % NSlots)
  THEN Reject(o)
  ELSE [o EXCEPT !.slots[s] = [NoSlot EXCEPT !.active = TRUE, !.gen = header.gen],
                 !.latest = [gen |-> header.gen, slot |-> s]]

\* observe_write() of a block frame: it continues the partition in its slot,
\* and holds the next records that were generated.
ObserveBlock(o, s, i, block) ==
  LET state == o.slots[s]
      count == Len(block.recs)
  IN IF ~ state.active THEN o
     ELSE IF i # Len(state.blocks) \/ block.gen # state.gen \/ block.seq # i \/ count = 0
     THEN Reject(o)
     ELSE [o EXCEPT !.slots[s].blocks =
                      Append(@, [first |-> o.next, last |-> o.next + count - 1]),
                    !.next = @ + count]

\* Indexes and footers lie outside the data region.
ObserveWrite(o, r, v) ==
  CASE r[1] = "hdr" -> ObserveHeader(o, r[2], v)
    [] r[1] = "blk" -> ObserveBlock(o, r[2], r[3], v)
    [] OTHER        -> o

\* observe_fragment() of the piece that completes a write to region r.
ObserveLast(o, r, v) ==
  IF o.status # "ok" THEN o
  ELSE IF o.pending \notin {<<>>, r} THEN Reject(o)
  ELSE ObserveWrite([o EXCEPT !.pending = <<>>, !.pieces = 0], r, v)

\* The backend takes a piece of the write in progress, and not the last one.
Fragment ==
  /\ pc \in {"emit", "index", "footer", "header"}
  /\ oracle.on /\ oracle.status = "ok" /\ oracle.pieces < MaxFragments - 1
  /\ oracle' = IF oracle.pending \notin {<<>>, Target} THEN Reject(oracle)
               ELSE [oracle EXCEPT !.pending = Target, !.pieces = @ + 1]
  /\ UNCHANGED vars

-----------------------------------------------------------------------------
(* The store over the observed backend *)

Observed ==
  /\ EmitBuilder \/ WriteIndex \/ WriteFooter \/ WriteHeader
  /\ oracle' = IF oracle.on THEN ObserveLast(oracle, Target, cache'[Target]) ELSE oracle

Opened ==
  /\ OpenContinue \/ OpenCreate
  /\ oracle' = IF writer = 0 THEN NewOracle ELSE Off

Unobserved ==
  /\ \/ Call \/ SyncMedia \/ RotateInternal \/ SealSync \/ FooterSync \/ HeaderSync
     \/ AcceptRecord \/ RejectRecord
     \/ Drop /\ pc = "idle"
  /\ UNCHANGED oracle

\* The tool ends with an error, or without a word.
Abandoned ==
  /\ \/ GenerationExhausted \/ WriteFails \/ FlushFails \/ PowerCut
     \/ Drop /\ pc # "idle"
  /\ oracle' = Off

OracleInit == Init /\ oracle = Off

OracleNext == Fragment \/ Observed \/ Opened \/ Unobserved \/ Abandoned

OracleSpec == OracleInit /\ [][OracleNext]_oracleVars

-----------------------------------------------------------------------------
(* Properties *)

ByGeneration(gens) == SetToSortSeq(DOMAIN gens, LAMBDA s, t : gens[s] < gens[t])

Concat(seqs) == FoldLeft(LAMBDA all, s : all \o s, <<>>, seqs)

\* expected_summary(): the records of the slots in the order of generations.
Expected ==
  LET slots  == {s \in Slot : oracle.slots[s].active}
      sorted == ByGeneration([s \in slots |-> oracle.slots[s].gen])
      Stream(blocks) ==
        Concat([k \in DOMAIN blocks |->
                  [n \in 1 .. blocks[k].last - blocks[k].first + 1 |->
                     blocks[k].first + n - 1]])
  IN Concat([k \in DOMAIN sorted |-> Stream(oracle.slots[sorted[k]].blocks)])

\* collect_records(): the records a query of all times delivers.
Collected ==
  LET sorted == ByGeneration([s \in Headers |-> cache[H(s)].gen])
      Stream(s) == LET found == SetToSortSeq(Delivered(cache, s), <)
                   IN Concat([k \in DOMAIN found |-> cache[B(s, found[k])].recs])
  IN Concat([k \in DOMAIN sorted |-> Stream(sorted[k])])

(***************************************************************************)
(* OracleAgrees.  The load generator never rejects a store that works as   *)
(* it should: its oracle accepts every write of the session, however the   *)
(* backend cuts it up, and between calls, and after the store is opened    *)
(* again, the records a query delivers are exactly those the oracle        *)
(* expects: without a hole, and up to the last one once none is waiting in *)
(* the builder.                                                            *)
(***************************************************************************)
OracleAgrees ==
  oracle.on =>
    /\ oracle.status = "ok"
    /\ pc = "idle" =>
         /\ Collected = Expected
         /\ \A k \in DOMAIN Expected : Expected[k] = Expected[1] + k - 1
         /\ (up /\ builder = <<>> /\ Expected # <<>>) =>
              Expected[Len(Expected)] = Len(contracts)

=============================================================================
