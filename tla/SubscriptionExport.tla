-------------------------- MODULE SubscriptionExport --------------------------
(***************************************************************************)
(* What a subscription hands out: prepare_subscription selects the nodes,  *)
(* resolves the chains of dialer-proxies, renames the nodes and gives each *)
(* a name of its own. The rename rules, the filter and the nodes change    *)
(* between two fetches; a change that could make the rules inapplicable is *)
(* checked in its transaction.                                             *)
(*                                                                         *)
(* A name is a sequence of symbols. The suffix " [k]" is one symbol, the   *)
(* number k, and what a rule looks for is one too. Links, YAML and the     *)
(* limit of the response's size are left out.                              *)
(***************************************************************************)
EXTENDS Naturals, FiniteSets, SequencesExt

CONSTANTS
  Symbols,    \* letters of names, besides suffixes
  Space,      \* the symbol strip() removes
  Direct,     \* the name DIRECT: no dialer
  Reserved,   \* RESERVED_NAMES, with Direct
  Default,    \* the name of a node whose own became empty
  NoDialer,   \* no dialer-proxy in the node's configuration
  MaxChars,   \* MAX_NODE_NAME_CHARS
  MaxRules,   \* MAX_RENAME_RULES
  RuleTexts,  \* pairs of texts an administrator enters
  Keywords,   \* symbols an administrator filters by
  Stored,     \* node lists in the database at the start
  Fetched     \* node lists a sync brings

Name == Seq(Symbols \cup Nat)
Node == [name : Name, dialer : {NoDialer} \cup Name]

ASSUME ExportAssumption ==
  /\ MaxChars \in Nat \ {0} /\ MaxRules \in Nat
  /\ Space \in Symbols /\ Keywords \subseteq Symbols
  /\ Direct \in Reserved /\ IsFiniteSet(Reserved)
  /\ Default \in Name /\ Len(Default) \in 1 .. MaxChars
  /\ \A r \in RuleTexts : r.old \in Symbols /\ r.new \in Name
  /\ \A list \in Stored \cup Fetched : list \in Seq(Node)

VARIABLES
  rules,    \* rename_rules by id
  nodes,    \* the account's nodes by id
  blocked   \* node_filter: the keywords, or none while it is off

exportVars == <<rules, nodes, blocked>>

-----------------------------------------------------------------------------
(* Names.                                                                  *)

Rule(text, on) == [old |-> text.old, new |-> text.new, on |-> on]

\* str.replace with a rule's texts.
Replaced(name, r) ==
  FlattenSeq([i \in DOMAIN name |-> IF name[i] = r.old THEN r.new ELSE <<name[i]>>])

\* apply_rename: the name after each of the rules; one that makes it too long fails.
Renamed(name, rs) ==
  LET after[k \in 0 .. Len(rs)] ==
        IF k = 0 THEN name
        ELSE IF rs[k].on THEN Replaced(after[k - 1], rs[k]) ELSE after[k - 1]
  IN  after

Fits(name, rs) == \A k \in 0 .. Len(rs) : Len(Renamed(name, rs)[k]) <= MaxChars

\* validate_rename_rules: the enabled rules apply to every stored name.
Usable(rs, ns) ==
  /\ Cardinality({k \in DOMAIN rs : rs[k].on}) <= MaxRules
  /\ \A i \in DOMAIN ns : Fits(ns[i].name, rs)

Strip(name) ==
  LET kept == {i \in DOMAIN name : name[i] # Space}
  IN  IF kept = {} THEN <<>>
      ELSE SubSeq(name, CHOOSE i \in kept : \A j \in kept : i <= j,
                        CHOOSE i \in kept : \A j \in kept : i >= j)

\* The name a node should have.
Desired(i) ==
  LET s == Strip(Renamed(nodes[i].name, rules)[Len(rules)])
  IN  IF s = <<>> THEN Default ELSE s

\* A name with a number, cut so that the number fits.
Suffixed(name, k) ==
  SubSeq(name, 1, IF Len(name) < MaxChars THEN Len(name) ELSE MaxChars - 1) \o <<k>>

\* Mutant of Pick: other nodes' names are not kept free.
PickUsedOnly(name, used, kept) ==
  IF name \notin used THEN name
  ELSE LET free == {k \in 2 .. Cardinality(used) + 2 : Suffixed(name, k) \notin used}
       IN  Suffixed(name, CHOOSE k \in free : \A j \in free : k <= j)

\* The desired name if it is free, otherwise the first number that neither a
\* name given out nor one still to be given out has.
Pick(name, used, kept) ==
  IF name \notin used THEN name
  ELSE LET free == {k \in 2 .. Cardinality(used \cup kept) + 2 :
                      Suffixed(name, k) \notin used \cup kept}
       IN  Suffixed(name, CHOOSE k \in free : \A j \in free : k <= j)

-----------------------------------------------------------------------------
(* The selection.                                                          *)

Selected == {i \in DOMAIN nodes : \A j \in DOMAIN nodes[i].name : nodes[i].name[j] \notin blocked}

IsDirect(i) == nodes[i].dialer \in {NoDialer, Direct}

\* The selected nodes with the name of i's dialer.
Targets(i) == {j \in Selected : nodes[j].name = nodes[i].dialer}

\* Mutant of Ambiguous: one of several nodes of the name will do.
AmbiguousNever(i) == Targets(i) = {}

\* The dialer is blocked, missing, or not the only one of its name.
Ambiguous(i) == Cardinality(Targets(i)) # 1

\* One turn of the loop along a chain. A chain that ends directly, or in nodes known to
\* be valid, makes its nodes valid; one that ends otherwise does not.
Turn(w) ==
  CASE ~w.open -> w
    [] w.open /\ w.at \in w.valid -> [w EXCEPT !.valid = @ \cup w.chain, !.open = FALSE]
    [] w.open /\ w.at \in w.chain \ w.valid -> [w EXCEPT !.open = FALSE]
    [] w.open /\ w.at \notin w.chain \cup w.valid ->
         IF IsDirect(w.at) THEN [w EXCEPT !.valid = @ \cup w.chain \cup {w.at}, !.open = FALSE]
         ELSE IF Ambiguous(w.at) THEN [w EXCEPT !.open = FALSE]
         ELSE [w EXCEPT !.chain = @ \cup {w.at}, !.at = CHOOSE j \in Targets(w.at) : TRUE]

\* Every turn that does not end the loop adds a node to the chain, so these are enough.
Turns == Len(nodes) + 1

\* The loop that begins at node i, turn by turn.
Walk(i, valid) ==
  LET turn[k \in 0 .. Turns] ==
        IF k = 0 THEN [at |-> i, chain |-> {}, valid |-> valid, open |-> TRUE]
        ELSE Turn(turn[k - 1])
  IN  turn

\* The nodes found valid by the walks from the first nodes, in their order.
Validated ==
  LET valid[k \in 0 .. Len(nodes)] ==
        IF k = 0 THEN {}
        ELSE IF k \in Selected THEN Walk(k, valid[k - 1])[Turns].valid ELSE valid[k - 1]
  IN  valid

Valid == Validated[Len(nodes)]

\* The desired names of the nodes handed out, and the client's own.
Kept == {Desired(i) : i \in Valid} \cup Reserved

\* The nodes handed out, as a function from nodes to their names, after each node.
Naming ==
  LET names[k \in 0 .. Len(nodes)] ==
        [i \in Valid \cap (1 .. k) |->
           IF i < k THEN names[k - 1][i]
           ELSE Pick(Desired(k), Reserved \cup Range(names[k - 1]), Kept)]
  IN  names

ExportNames == Naming[Len(nodes)]

\* The name a node's dialer has in the export: that of the last node handed
\* out with the original name, which Valid has made the only one.
ExportDialer(i, names) ==
  IF IsDirect(i) THEN nodes[i].dialer
  ELSE LET named == {j \in DOMAIN names : nodes[j].name = nodes[i].dialer}
       IN  names[CHOOSE j \in named : \A k \in named : k <= j]

-----------------------------------------------------------------------------
(* Changes. Each is one transaction.                                       *)

\* No rules yet, or rules of an old release that do not apply.
ExportInit ==
  /\ nodes \in Stored
  /\ rules \in {<<>>} \cup {rs \in [1 .. 2 -> {Rule(r, TRUE) : r \in RuleTexts}] : ~Usable(rs, nodes)}
  /\ blocked = {}

AddRule(text) ==
  /\ Len(rules) < MaxRules
  /\ LET new == Append(rules, Rule(text, TRUE))
     IN  Usable(new, nodes) /\ rules' = new
  /\ UNCHANGED <<nodes, blocked>>

ToggleRule(i) ==
  /\ LET new == [rules EXCEPT ![i].on = ~@]
     IN  Usable(new, nodes) /\ rules' = new
  /\ UNCHANGED <<nodes, blocked>>

\* Mutant of DeleteRule: a rule fewer cannot do any harm.
DeleteRuleUnchecked(i) ==
  /\ rules' = RemoveAt(rules, i)
  /\ UNCHANGED <<nodes, blocked>>

\* Rules that do not apply anyway may be taken away one by one.
DeleteRule(i) ==
  /\ LET new == RemoveAt(rules, i)
     IN  (Usable(rules, nodes) => Usable(new, nodes)) /\ rules' = new
  /\ UNCHANGED <<nodes, blocked>>

\* save_node_filter; none is a filter that is off.
SaveFilter(words) ==
  /\ blocked' = words
  /\ UNCHANGED <<rules, nodes>>

\* _replace_account_nodes, in a sync or when the account is added.
Replace(list) ==
  /\ Usable(rules, list)
  /\ nodes' = list
  /\ UNCHANGED <<rules, blocked>>

DeleteNode(i) ==
  /\ nodes' = RemoveAt(nodes, i)
  /\ UNCHANGED <<rules, blocked>>

ExportNext ==
  \/ \E text \in RuleTexts : AddRule(text)
  \/ \E i \in DOMAIN rules : ToggleRule(i) \/ DeleteRule(i)
  \/ \E words \in SUBSET Keywords : SaveFilter(words)
  \/ \E list \in Fetched : Replace(list)
  \/ \E i \in DOMAIN nodes : DeleteNode(i)

ExportSpec == ExportInit /\ [][ExportNext]_exportVars

-----------------------------------------------------------------------------
(* Properties.                                                             *)

\* Once a subscription can be produced from the stored rules and names, no
\* rule added, switched or deleted and no sync leaves the panel with rules
\* that cannot be applied, so that every public subscription answers 503
\* (rename_rule_add, _toggle, _delete, _replace_account_nodes; docs/API.md:235).
StaysUsable == [][Usable(rules, nodes) => Usable(rules, nodes)']_<<rules, nodes>>

\* Exported names are different, none is a name of the client's own, and none
\* is too long; and a number never costs another node its name: the first node
\* that should have a free name has it (prepare_subscription, docs/API.md:225).
NamesAreOwn ==
  Usable(rules, nodes) =>
    LET names == ExportNames
    IN  \A i \in DOMAIN names :
          /\ names[i] \notin Reserved
          /\ Len(names[i]) \in 1 .. MaxChars
          /\ \A j \in DOMAIN names : i # j => names[i] # names[j]
          /\ \/ names[i] = Desired(i)
             \/ Desired(i) \in Reserved
             \/ \E j \in DOMAIN names : j < i /\ Desired(j) = Desired(i)

\* The reference. A set of nodes that has every node without a dialer and, with a
\* node, those whose dialer's name is that node's alone; and the least such set.
Closed(S) ==
  \A i \in Selected : IsDirect(i) \/ (\E j \in S : Targets(i) = {j}) => i \in S
Complete == {i \in Selected : \A S \in SUBSET Selected : Closed(S) => i \in S}

\* Exactly the nodes whose chain is complete and unambiguous are handed out,
\* and each is dialed through the node it was dialed through before, under
\* that node's new name: a rule, a number or the filter never reroutes a chain
\* nor turns it into a direct connection (CHANGELOG.md:139).
ChainsKept ==
  Usable(rules, nodes) =>
    LET names == ExportNames
    IN  /\ DOMAIN names = Complete
        /\ \A i \in DOMAIN names :
             IF IsDirect(i) THEN ExportDialer(i, names) = nodes[i].dialer
             ELSE \E j \in DOMAIN names : Targets(i) = {j} /\ ExportDialer(i, names) = names[j]
=============================================================================
