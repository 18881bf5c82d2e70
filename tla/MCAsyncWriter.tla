--------------------------- MODULE MCAsyncWriter ---------------------------
(* Instances of AsyncWriter for TLC. *)
EXTENDS AsyncWriter, TLC

CallerSymmetry == Permutations(Callers)

=============================================================================
