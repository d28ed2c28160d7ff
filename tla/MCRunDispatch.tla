--------------------------- MODULE MCRunDispatch ---------------------------
(* Small instances of RunDispatch for TLC. *)
EXTENDS RunDispatch, TLC

Symmetry == Permutations(Procs)
============================================================================
