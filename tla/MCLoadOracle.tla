---------------------------- MODULE MCLoadOracle ---------------------------
(* An instance of LoadOracle for TLC. *)
EXTENDS LoadOracle

MCSlot == 0 .. NSlots - 1
MCPos  == 0 .. Cap - 1

=============================================================================
