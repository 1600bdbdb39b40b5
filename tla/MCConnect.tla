----------------------------- MODULE MCConnect -----------------------------
(* Instances of Connect for TLC.                                           *)
EXTENDS Connect, TLC

Symmetry == Permutations(Target)
=============================================================================
