------------------------------ MODULE Storage ------------------------------
(***************************************************************************)
(* The byte store under a TFDB volume, as tfdb::Storage promises it and as *)
(* tfdb::MemoryStorage implements it for the crash tests.                  *)
(*                                                                         *)
(* The medium is a set of regions.  A region is the target of one          *)
(* write_exact() call of the ring store (a partition header, one block     *)
(* frame, a partition index, a partition footer), and it holds one value.  *)
(* Every structure carries a CRC, so what a reader can tell of a region    *)
(* only partly written is that it does not decode: such a region holds a   *)
(* torn value.                                                             *)
(*                                                                         *)
(*   cache    what read_at() returns (volatile_)                           *)
(*   disk     what the last successful flush() left (durable_)             *)
(*   pending  for each region, the values written since that flush, in no  *)
(*            particular order (dirty_writes_)                             *)
(***************************************************************************)
EXTENDS Naturals, FiniteSets

CONSTANTS
  Slot,  \* the partition slots of the volume, 0 .. partition_count - 1
  Pos    \* the block positions of a partition

VARIABLES cache, disk, pending

storageVars == <<cache, disk, pending>>

\* The regions of slot s.
H(s)    == <<"hdr", s, 0>>
B(s, i) == <<"blk", s, i>>
I(s)    == <<"idx", s, 0>>
F(s)    == <<"ftr", s, 0>>

Region == {H(s) : s \in Slot} \cup {I(s) : s \in Slot} \cup {F(s) : s \in Slot}
            \cup {B(s, i) : s \in Slot, i \in Pos}

(***************************************************************************)
(* A region never written holds Blank (zero bytes, or a structure of       *)
(* another volume, which the ring store treats alike).  Torn is a mixture  *)
(* of two writes that fails its CRC.  A torn partition header over a slot  *)
(* that never carried one may or may not include the bytes that name this  *)
(* volume (magic and volume id); Blot is the torn header that lacks them.  *)
(***************************************************************************)
Blank == [kind |-> "blank"]
Torn  == [kind |-> "torn"]
Blot  == [kind |-> "blot"]

\* What a partly applied write may leave in region r over the value old.
TornOver(r, old) ==
  IF r[1] = "hdr" /\ old.kind \in {"blank", "blot"} THEN {Torn, Blot} ELSE {Torn}

StorageInit ==
  /\ cache = [r \in Region |-> Blank]
  /\ disk = [r \in Region |-> Blank]
  /\ pending = [r \in Region |-> {}]

\* write_at, driven by write_exact until every byte is transferred.
Write(r, v) ==
  /\ cache' = [cache EXCEPT ![r] = v]
  /\ pending' = [pending EXCEPT ![r] = @ \cup {v}]
  /\ UNCHANGED disk

\* write_exact fails before the first byte, or after some of them.
WriteError(r) ==
  \/ UNCHANGED storageVars
  \/ \E t \in TornOver(r, cache[r]) : Write(r, t)

\* A successful flush makes every preceding successful write durable.
Flush ==
  /\ disk' = cache
  /\ pending' = [r \in Region |-> {}]
  /\ UNCHANGED cache

\* A failed flush promises nothing: the writes stay pending.
FlushError == UNCHANGED storageVars

\* The values region r may hold after power is lost: writes not yet flushed
\* reach the medium whole, in part or not at all, each on its own.
AfterPowerLoss(r) ==
  {disk[r]} \cup pending[r]
    \cup (IF pending[r] = {} THEN {} ELSE TornOver(r, disk[r]))

Unflushed == {r \in Region : pending[r] # {}}

PowerLoss ==
  \E left \in [Unflushed -> UNION {AfterPowerLoss(r) : r \in Unflushed}] :
    /\ \A r \in Unflushed : left[r] \in AfterPowerLoss(r)
    /\ disk' = [r \in Region |-> IF r \in Unflushed THEN left[r] ELSE disk[r]]
    /\ cache' = disk'
    /\ pending' = [r \in Region |-> {}]

=============================================================================
