---------------------------- MODULE MCProbeStages -----------------------------
(***************************************************************************)
(* Finite instances of ProbeStages.                                        *)
(***************************************************************************)
EXTENDS ProbeStages, TLC

Symmetry == Permutations(Nodes)
\* Nodes meet in the slots only: while both are probed, one has no stored result.
OneStored == \E n \in Nodes : probe[n].pc = "idle" \/ evidence[n] = NoEvidence
=============================================================================
