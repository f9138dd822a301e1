---------------------------- MODULE TrafficLedger ----------------------------
(***************************************************************************)
(* What the panel promises about metered traffic, with no protocol in it.  *)
(* For every collector there are the bytes its node has seen and the bytes *)
(* charged on account of that collector since it was bound to an account.  *)
(* A charge grows, never past what the node has seen; it starts again from *)
(* zero only when the binding is dropped with its account.                 *)
(***************************************************************************)
EXTENDS Naturals

CONSTANT Collectors

VARIABLES
  seen,     \* bytes the node's counting rules have seen, over all reboots
  charged   \* bytes charged through the collector's present binding

ledgerVars == <<seen, charged>>

LedgerInit ==
  /\ seen = [c \in Collectors |-> 0]
  /\ charged = [c \in Collectors |-> 0]

\* Traffic flows: only the node's side moves.
See(c) ==
  /\ seen'[c] >= seen[c]
  /\ seen' = [seen EXCEPT ![c] = seen'[c]]
  /\ UNCHANGED charged

\* The panel charges some of what it had not charged yet.
Charge(c) ==
  /\ charged'[c] \in charged[c] .. seen[c]
  /\ charged' = [charged EXCEPT ![c] = charged'[c]]
  /\ UNCHANGED seen

\* An account is deleted: every binding to it is dropped.
Drop ==
  /\ \E D \in SUBSET Collectors :
       charged' = [c \in Collectors |-> IF c \in D THEN 0 ELSE charged[c]]
  /\ UNCHANGED seen

LedgerNext ==
  \/ \E c \in Collectors : See(c) \/ Charge(c)
  \/ Drop

LedgerSpec == LedgerInit /\ [][LedgerNext]_ledgerVars
=============================================================================
