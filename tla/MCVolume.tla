----------------------------- MODULE MCVolume -----------------------------
(* Volume for TLC.  Processes are interchangeable. *)
EXTENDS Volume, TLC

ProcSymmetry == Permutations(Procs)

=============================================================================
