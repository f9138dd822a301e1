----------------------------- MODULE NodeMonitor ------------------------------
(***************************************************************************)
(* The scheduled monitor and what must come of it: every node's turn.      *)
(* node_monitor.py takes the nodes whose last attempt is oldest, a few per *)
(* run, in waves, until its time is used up; a systemd timer starts it.    *)
(* Single checks, other bulk tasks, syncs, paused accounts and killed      *)
(* tasks come between. NodeProbes has the safety of the same leases.       *)
(*                                                                         *)
(* A probe (8 s) is shorter than its lease (20 s), so here only the lease  *)
(* of a killed task expires.                                               *)
(***************************************************************************)
EXTENDS Naturals, Sequences, FiniteSets

CONSTANTS
  Nodes,
  NoNode,
  Due,       \* nodes a run takes, 32
  Wave,      \* nodes probed together, 2
  Cap,       \* leases at once, 8
  Pausable,  \* nodes of accounts that are paused and resumed
  Synced,    \* nodes that syncs replace by new rows
  MaxMishaps \* tasks killed and rows replaced in a run

ASSUME MonitorAssumption ==
  /\ NoNode \notin Nodes
  /\ Due \in Nat \ {0} /\ Wave \in Nat \ {0} /\ Cap \in Nat \ {0} /\ MaxMishaps \in Nat
  /\ Pausable \subseteq Nodes /\ Synced \subseteq Nodes

VARIABLES
  rank,     \* order of probe_attempt_at: 0 is never, equal is the same second
  recent,   \* the present second is that of the highest rank
  pending,  \* probe_error says that a check is pending
  active,   \* nodes of active accounts
  mon,      \* the monitor process
  check,    \* the lease of a single check, if one runs
  dead,     \* leases of killed tasks
  bulk,     \* holder of the .bulk.lock file
  mishaps,  \* tasks killed and rows replaced so far
  last      \* history: the node whose attempt the last step recorded

vars == <<rank, recent, pending, active, mon, check, dead, bulk, mishaps, last>>

\* A lease; stale: a sync has replaced the row it was taken on.
Item == [node : Nodes, stale : BOOLEAN]
None == [node |-> NoNode, stale |-> FALSE]

Off == [pc |-> "off", list |-> << >>, slots |-> 0, wave |-> {}]

Init ==
  /\ rank = [n \in Nodes |-> 0]
  /\ recent = FALSE
  /\ pending = [n \in Nodes |-> FALSE]
  /\ active = Nodes
  /\ mon = Off
  /\ check = None
  /\ dead = {}
  /\ bulk = "free"
  /\ mishaps = 0
  /\ last = NoNode

Silent == last' = NoNode

-----------------------------------------------------------------------------
(* _acquire_probe and _save_probe.                                         *)

Leases == mon.wave \cup dead \cup ({check} \ {None})

Refused(n) ==
  \/ [node |-> n, stale |-> FALSE] \in Leases
  \/ Cardinality(mon.wave) + Cardinality(dead) + (IF check = None THEN 0 ELSE 1) >= Cap

\* probe_attempt_at=CURRENT_TIMESTAMP, in whole seconds.
Attempted(n, same) ==
  LET top == CHOOSE r \in {rank[m] : m \in Nodes} : \A m \in Nodes : rank[m] <= r
      new == IF same THEN top ELSE top + 1
      raw == [rank EXCEPT ![n] = new]
  IN  /\ same => recent
      /\ rank' = [m \in Nodes |-> Cardinality({raw[k] : k \in {j \in Nodes : raw[j] <= raw[m]}} \ {0})]
      /\ recent' = TRUE
      /\ last' = n

\* What a finished or failed probe writes on its row; a replaced row is left.
Saved(i, same) ==
  IF i.stale
    THEN Silent /\ UNCHANGED <<rank, recent, pending>>
    ELSE pending' = [pending EXCEPT ![i.node] = FALSE] /\ Attempted(i.node, same)

-----------------------------------------------------------------------------
(* check_due_nodes.                                                        *)

\* Mutant of Listed: nodes in the order of their ids alone.
ListedById(list) ==
  /\ Len(list) = IF Cardinality(active) < Due THEN Cardinality(active) ELSE Due
  /\ \A i \in DOMAIN list : list[i] \in active
  /\ \A i, j \in DOMAIN list : i < j => list[i] # list[j]
  /\ \E out \in Nodes : \A i \in DOMAIN list : list[i] # out

\* Mutant of Listed: a node with a pending check is left to that check.
ListedIdle(list) ==
  LET idle == {n \in active : ~pending[n]}
  IN  /\ Len(list) = IF Cardinality(idle) < Due THEN Cardinality(idle) ELSE Due
      /\ \A i \in DOMAIN list : list[i] \in idle
      /\ \A i, j \in DOMAIN list : i < j => list[i] # list[j] /\ rank[list[i]] <= rank[list[j]]

\* ORDER BY attempt, id LIMIT: equal attempts in any order, for ids change.
Listed(list) ==
  /\ Len(list) = IF Cardinality(active) < Due THEN Cardinality(active) ELSE Due
  /\ \A i \in DOMAIN list : list[i] \in active
  /\ \A i, j \in DOMAIN list : i < j => list[i] # list[j] /\ rank[list[i]] <= rank[list[j]]
  /\ \A n \in active, i \in DOMAIN list :
       n \notin {list[j] : j \in DOMAIN list} => rank[list[i]] <= rank[n]

\* The timer starts a run that gets the lock; a busy lock ends the run at once.
Start ==
  /\ mon.pc = "off"
  /\ bulk = "free"
  /\ bulk' = "monitor"
  /\ \E k \in 0 .. Due : \E list \in [1 .. k -> Nodes] :
       Listed(list) /\ mon' = [pc |-> "take", list |-> list, slots |-> Wave, wave |-> {}]
  /\ recent' = FALSE
  /\ Silent
  /\ UNCHANGED <<rank, pending, active, check, dead, mishaps>>

Take ==
  LET n == Head(mon.list)
      next == [mon EXCEPT !.list = Tail(@), !.slots = @ - 1]
  IN  /\ mon.pc = "take" /\ mon.slots > 0 /\ mon.list # << >>
      /\ IF Refused(n)
           THEN mon' = next /\ Silent /\ UNCHANGED <<rank, recent, pending>>
           ELSE /\ mon' = [next EXCEPT !.wave = @ \cup {[node |-> n, stale |-> FALSE]}]
                /\ pending' = [pending EXCEPT ![n] = TRUE]
                /\ \E same \in BOOLEAN : Attempted(n, same)
      /\ UNCHANGED <<active, check, dead, bulk, mishaps>>

\* The wave's probes run and end.
Probed ==
  /\ mon.pc = "take"
  /\ mon.slots = 0 \/ mon.list = << >>
  /\ mon' = [mon EXCEPT !.pc = "save"]
  /\ Silent
  /\ UNCHANGED <<rank, recent, pending, active, check, dead, bulk, mishaps>>

Save(i) ==
  /\ mon.pc = "save"
  /\ i \in mon.wave
  /\ \E same \in BOOLEAN : Saved(i, same)
  /\ mon' = [mon EXCEPT !.wave = @ \ {i}]
  /\ UNCHANGED <<active, check, dead, bulk, mishaps>>

\* A second or more of the budget is left: the first wave always runs.
NextWave ==
  /\ mon.pc = "save" /\ mon.wave = {} /\ mon.list # << >>
  /\ mon' = [mon EXCEPT !.pc = "take", !.slots = Wave]
  /\ Silent
  /\ UNCHANGED <<rank, recent, pending, active, check, dead, bulk, mishaps>>

\* All nodes are done, or the budget is used up.
Finish ==
  /\ mon.pc = "save" /\ mon.wave = {}
  /\ mon' = Off
  /\ bulk' = "free"
  /\ Silent
  /\ UNCHANGED <<rank, recent, pending, active, check, dead, mishaps>>

Monitor == Take \/ Probed \/ (\E i \in mon.wave : Save(i)) \/ NextWave \/ Finish

-----------------------------------------------------------------------------
(* What else goes on.                                                      *)

\* api_check_node; what it returns when refused is no matter here.
BeginCheck(n) ==
  /\ check = None
  /\ ~Refused(n)
  /\ check' = [node |-> n, stale |-> FALSE]
  /\ pending' = [pending EXCEPT ![n] = TRUE]
  /\ \E same \in BOOLEAN : Attempted(n, same)
  /\ UNCHANGED <<active, mon, dead, bulk, mishaps>>

EndCheck(i) ==
  /\ check = i /\ i # None
  /\ \E same \in BOOLEAN : Saved(i, same)
  /\ check' = None
  /\ UNCHANGED <<active, mon, dead, bulk, mishaps>>

\* A bulk task of the administrator: a batch check or a sync of all accounts.
BulkBegins ==
  /\ bulk = "free"
  /\ bulk' = "task"
  /\ Silent
  /\ UNCHANGED <<rank, recent, pending, active, mon, check, dead, mishaps>>

BulkEnds ==
  /\ bulk = "task"
  /\ bulk' = "free"
  /\ Silent
  /\ UNCHANGED <<rank, recent, pending, active, mon, check, dead, mishaps>>

\* A sync gives the node a new row: attempt and pending mark are copied, a
\* running probe and its lease stay with the old id.
Replaced(i, n) == IF i.node = n THEN [i EXCEPT !.stale = TRUE] ELSE i

Sync(n) ==
  /\ mishaps < MaxMishaps
  /\ mishaps' = mishaps + 1
  /\ mon' = [mon EXCEPT !.wave = {Replaced(i, n) : i \in @}]
  /\ check' = Replaced(check, n)
  /\ dead' = {Replaced(i, n) : i \in dead}
  /\ Silent
  /\ UNCHANGED <<rank, recent, pending, active, bulk>>

\* account_edit pauses or resumes the node's account.
Toggle(n) ==
  /\ active' = IF n \in active THEN active \ {n} ELSE active \cup {n}
  /\ Silent
  /\ UNCHANGED <<rank, recent, pending, mon, check, dead, bulk, mishaps>>

\* systemd's TimeoutStartSec, a restart, a crash: the leases stay.
KillMonitor ==
  /\ mon.pc # "off" /\ mishaps < MaxMishaps
  /\ mishaps' = mishaps + 1
  /\ dead' = dead \cup mon.wave
  /\ mon' = Off
  /\ bulk' = "free"
  /\ Silent
  /\ UNCHANGED <<rank, recent, pending, active, check>>

KillCheck ==
  /\ check # None /\ mishaps < MaxMishaps
  /\ mishaps' = mishaps + 1
  /\ dead' = dead \cup {check}
  /\ check' = None
  /\ Silent
  /\ UNCHANGED <<rank, recent, pending, active, mon, bulk>>

Expire ==
  /\ dead # {}
  /\ \E i \in dead : dead' = dead \ {i}
  /\ Silent
  /\ UNCHANGED <<rank, recent, pending, active, mon, check, bulk, mishaps>>

-----------------------------------------------------------------------------
Next ==
  \/ Start \/ Monitor \/ EndCheck(check) \/ BulkBegins \/ BulkEnds
  \/ KillMonitor \/ KillCheck \/ Expire
  \/ \E n \in Nodes : BeginCheck(n)
  \/ \E n \in Synced : Sync(n)
  \/ \E n \in Pausable : Toggle(n)

\* A task that runs goes on, and leases and bulk tasks end. The timer comes
\* every minute, so it meets the lock free at some time if the lock is free
\* again and again. Kills and syncs are finitely many: what is asked is what
\* follows them, for a sync inside every probe of a node would drop its results
\* for ever.
Fairness ==
  /\ WF_vars(Monitor) /\ WF_vars(EndCheck(check)) /\ WF_vars(BulkEnds) /\ WF_vars(Expire)
  /\ SF_vars(Start)

Spec == Init /\ [][Next]_vars /\ Fairness

-----------------------------------------------------------------------------
(* Properties.                                                             *)

\* Every node of an active account is attempted again and again, although a run
\* may end after its first wave, the lock or the node may be taken, and runs
\* may be killed (check_due_nodes: fair, bounded).
EveryNodesTurn ==
  \A n \in Nodes : []<>(last = n) \/ []<>(n \notin active)

\* A row that says a check is pending does not say so for ever, also when a sync
\* copied the mark to a row no probe was started on, or the task was killed.
PendingResolves ==
  \A n \in Nodes : pending[n] ~> (~pending[n] \/ n \notin active)
=============================================================================
