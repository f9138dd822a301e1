--------------------------- MODULE MCNodeMonitor ------------------------------
(***************************************************************************)
(* Finite instances of NodeMonitor. No symmetry: its properties are        *)
(* liveness properties.                                                    *)
(***************************************************************************)
EXTENDS NodeMonitor
=============================================================================
