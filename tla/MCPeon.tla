------------------------------- MODULE MCPeon -------------------------------
(* Instances of Peon for TLC.                                              *)
EXTENDS Peon, TLC

Symmetry == Permutations(Target) \cup Permutations(DynPeon)
=============================================================================
