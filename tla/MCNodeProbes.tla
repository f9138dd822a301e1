---------------------------- MODULE MCNodeProbes -----------------------------
(***************************************************************************)
(* Finite instances of NodeProbes.                                         *)
(***************************************************************************)
EXTENDS NodeProbes, TLC

Symmetry == Permutations(Tasks) \cup Permutations(Configs)
=============================================================================
