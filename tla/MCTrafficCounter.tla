-------------------------- MODULE MCTrafficCounter ---------------------------
(***************************************************************************)
(* A finite instance of TrafficCounter. MaxSeq bounds the numbered reports *)
(* of a collector; MaxSeen and the constants below bound the rest.         *)
(***************************************************************************)
EXTENDS TrafficCounter, FiniteSets, TLC

CONSTANTS
  MaxSeen,    \* bytes the rules may see in all, per collector
  MaxGone,    \* bytes a rule may have seen before the last reboot
  MaxNet,     \* requests in flight at once
  MaxBusy     \* accounts and requests in flight at once

\* No script reads the counters while as many requests as may be are in flight.
Bounded ==
  /\ \A c \in Collectors : Seen(c) <= MaxSeen /\ gone[c] <= MaxGone
  /\ Cardinality(net) <= MaxNet
  /\ Cardinality(net) = MaxNet =>
       \A c \in Collectors, p \in Procs : script[c][p].pc \in {"idle", "waiting"}
  /\ Cardinality(alive) + Cardinality(net) <= MaxBusy

Symmetry == Permutations(Procs) \cup Permutations(Accounts)
=============================================================================
