---------------------------- MODULE MCAdminLogin ------------------------------
(***************************************************************************)
(* Finite instances of AdminLogin.                                         *)
(***************************************************************************)
EXTENDS AdminLogin, FiniteSets, TLC

Symmetry == Permutations(Procs) \cup Permutations(Requests)
\* Once the last random value is drawn, requests come one after the other; in the last
\* window a request goes no further than the limiter.
Bounded ==
  /\ nextValue > MaxValue => Cardinality({r \in Requests : req[r].pc # "idle"}) <= 1
  /\ clock = 2 => \A r \in Requests : req[r].pc \in {"idle", "consume", "read"}
=============================================================================
