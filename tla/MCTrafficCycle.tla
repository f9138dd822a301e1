--------------------------- MODULE MCTrafficCycle ----------------------------
(***************************************************************************)
(* Finite instances of TrafficCycle: months of three days, numbered from   *)
(* day -3, with an expiry on the first, second or third day of a month.    *)
(***************************************************************************)
EXTENDS TrafficCycle, TLC

MonthStart(e, d) == d - ((d - e) % 3)

Symmetry == Permutations(Requests)
=============================================================================
