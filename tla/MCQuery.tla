------------------------------ MODULE MCQuery ------------------------------
(* Instances of Query for TLC. *)
EXTENDS Query

MCSlot  == 0 .. NSlots - 1
MCPos   == 0 .. Cap - 1
MCWants == {{1}}

=============================================================================
