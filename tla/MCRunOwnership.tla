--------------------------- MODULE MCRunOwnership ---------------------------
(***************************************************************************)
(* Instances of RunOwnership for TLC.                                      *)
(***************************************************************************)
EXTENDS RunOwnership, TLC

Symmetry == Permutations(Runs) \cup Permutations(Recoverers)
=============================================================================
