------------------------- MODULE MCSubscriptionExport -------------------------
(***************************************************************************)
(* Finite instances of SubscriptionExport: two letters, a reserved word,   *)
(* names that carry a number already, and rules that merge names, empty    *)
(* them, make them longer or turn them into a reserved one.                *)
(***************************************************************************)
EXTENDS SubscriptionExport

CONSTANTS a, b, direct, MaxStored, MaxFetched

SymbolsDef == {a, b, Space, direct}
DirectDef == <<direct>>
ReservedDef == {DirectDef}
DefaultDef == <<a>>

RuleTextsDef ==
  {[old |-> a, new |-> <<b>>], [old |-> a, new |-> <<>>],
   [old |-> b, new |-> <<b, b, Space>>], [old |-> b, new |-> <<direct>>]}

Letters == {<<a>>, <<b>>}
Sample == [name : Letters, dialer : Letters \cup {NoDialer}]
        \cup {[name |-> <<b, 2>>, dialer |-> NoDialer]}

StoredDef == UNION {[1 .. k -> Sample] : k \in 0 .. MaxStored}
FetchedDef == UNION {[1 .. k -> Sample] : k \in 0 .. MaxFetched}
=============================================================================
