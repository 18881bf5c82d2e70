---------------------------- MODULE MCRingStore ----------------------------
(* Instances of RingStore for TLC. *)
EXTENDS RingStore

MCSlot == 0 .. NSlots - 1
MCPos  == 0 .. Cap - 1

=============================================================================
