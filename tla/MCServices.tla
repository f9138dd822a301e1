----------------------------- MODULE MCServices ------------------------------
(***************************************************************************)
(* Finite instances of Services.                                           *)
(***************************************************************************)
EXTENDS Services, TLC

CONSTANT MaxChanges

Symmetry == Permutations(Accounts)

\* How far a state is from a panel with no services: links given out, renewals,
\* marks, changed accounts, an open page, days.
Changes ==
  today + (nextToken - 1)
  + FoldFunction(LAMBDA r, n : Len(r) + n, 0, renewals)
  + Cardinality({s \in Rows : service[s].status # "active"})
  + Cardinality({s \in Rows : service[s].reminded})
  + Cardinality({a \in Accounts : a \notin Existing \/ ~Active(a)})
  + (IF page = NoPage THEN 0 ELSE 1)

FewChanges == Changes <= MaxChanges
=============================================================================
