----------------------------- MODULE NodeProbes ------------------------------
(***************************************************************************)
(* Node checks under leases: the single check, the check of an account,    *)
(* the scheduled monitor, and what changes the nodes meanwhile: a sync     *)
(* that replaces an account's nodes, a node or an account being deleted.   *)
(*                                                                         *)
(* A task is a request thread or the monitor process. A step is one SQLite *)
(* transaction or one read; the probe itself touches nothing shared and    *)
(* happens between two steps. Which nodes the monitor takes first, and its *)
(* time budget, decide here only what is possible.                         *)
(***************************************************************************)
EXTENDS Naturals, Sequences, FiniteSets

CONSTANTS
  MaxId,      \* node ids given out in a run (AUTOINCREMENT: never reused)
  Accounts,   \* account ids; a lease on -account_id is keyed by the account
  NoAccount,
  Configs,    \* what _node_config_key tells apart
  NoEvidence, \* probe_result is empty
  NoNode,     \* no row in nodes
  Tasks,
  NoTask,     \* nobody holds the bulk lock
  NoLease,    \* no row in node_probe_leases
  AccountWave,  \* nodes per wave of an account's check, 8
  MonitorWave,  \* of the monitor, 2
  Cap,        \* leases on nodes at once, 8
  MaxCheck,   \* MAX_CHECK_NODES: a larger account's check is refused
  MaxNodes    \* nodes of a subscription

Ids == 1 .. MaxId

VARIABLES
  node,     \* nodes
  nextId,   \* the id the next INSERT gets
  alive,    \* accounts that exist
  count,    \* accounts.node_count
  lease,    \* node_probe_leases
  bulk,     \* holder of the .bulk.lock file
  task      \* the tasks

vars == <<node, nextId, alive, count, lease, bulk, task>>

Row == [account : Accounts, config : Configs,
        evidence : Configs \cup {NoEvidence},
        error : {"", "pending", "unfinished"}]

Keys == Ids \cup Accounts
Lease == [by : Tasks, live : BOOLEAN]

ASSUME ProbeAssumption ==
  /\ MaxId \in Nat /\ Cap \in Nat
  /\ AccountWave \in Nat \ {0} /\ MonitorWave \in Nat \ {0}
  /\ MaxCheck \in Nat /\ MaxNodes \in Nat
  /\ NoAccount \notin Accounts
  /\ NoEvidence \notin Configs
  /\ NoTask \notin Tasks
  /\ NoNode \notin Row /\ NoLease \notin Lease
  /\ Accounts \cap Ids = {}

\* A node as the task read it. late is history: the task's lease expired.
Item == [id : Ids, config : Configs, late : BOOLEAN]

PC == {"idle", "enter", "list", "acquire", "save", "delete"}
Task == [pc : PC, account : Accounts \cup {NoAccount}, todo : SUBSET Item,
         slots : Nat, wave : SUBSET Item]

Idle == [pc |-> "idle", account |-> NoAccount, todo |-> {}, slots |-> 0, wave |-> {}]

Init ==
  /\ node = [n \in Ids |-> NoNode]
  /\ nextId = 1
  /\ alive = Accounts
  /\ count = [a \in Accounts |-> 0]
  /\ lease = [x \in Keys |-> NoLease]
  /\ bulk = NoTask
  /\ task = [t \in Tasks |-> Idle]

Rows == {n \in Ids : node[n] # NoNode}
NodesOf(a) == {n \in Rows : node[n].account = a}
Read(n) == [id |-> n, config |-> node[n].config, late |-> FALSE]

-----------------------------------------------------------------------------
(* Leases.                                                                 *)

\* The rows of node_probe_leases after the expired ones are deleted.
Purged == [x \in Keys |-> IF lease[x] # NoLease /\ ~lease[x].live THEN NoLease ELSE lease[x]]

\* Mutant of Refused: one lease too many.
RefusedAboveCap(x) ==
  \/ Purged[x] # NoLease
  \/ x \in Ids /\ Cardinality({n \in Ids : Purged[n] # NoLease}) > Cap

Refused(x) ==
  \/ Purged[x] # NoLease
  \/ x \in Ids /\ Cardinality({n \in Ids : Purged[n] # NoLease}) >= Cap

\* A token is random; a task's own name stands for it, because a task holds
\* one token per key and an old one of the same name blocks or is purged.
Granted(x, t) == [Purged EXCEPT ![x] = [by |-> t, live |-> TRUE]]

Owns(t, x) == lease[x] # NoLease /\ lease[x].by = t

\* Mutant of Returned: the lease of the key goes, whoever holds it.
ReturnedByKey(x, t) == [lease EXCEPT ![x] = NoLease]

Returned(x, t) == IF Owns(t, x) THEN [lease EXCEPT ![x] = NoLease] ELSE lease

\* Time passes the lease's expiry, whether its task still runs or not.
Expire(x) ==
  /\ lease[x] # NoLease
  /\ lease[x].live
  /\ lease' = [lease EXCEPT ![x].live = FALSE]
  /\ task' = [task EXCEPT ![lease[x].by].wave =
                {IF i.id = x THEN [i EXCEPT !.late = TRUE] ELSE i : i \in @}]
  /\ UNCHANGED <<node, nextId, alive, count, bulk>>

-----------------------------------------------------------------------------
(* Tasks.                                                                  *)

\* api_check_node reads the row.
BeginCheck(t, n) ==
  /\ task[t].pc = "idle"
  /\ n \in Rows
  /\ task' = [task EXCEPT ![t] =
                [Idle EXCEPT !.pc = "acquire", !.todo = {Read(n)}, !.slots = 1]]
  /\ UNCHANGED <<node, nextId, alive, count, lease, bulk>>

\* check_due_nodes takes the bulk lock and lists nodes.
BeginMonitor(t, S) ==
  /\ task[t].pc = "idle"
  /\ bulk = NoTask
  /\ S \subseteq Rows
  /\ bulk' = t
  /\ task' = [task EXCEPT ![t] =
                [Idle EXCEPT !.pc = "acquire", !.slots = MonitorWave, !.todo = {Read(n) : n \in S}]]
  /\ UNCHANGED <<node, nextId, alive, count, lease>>

\* api_check_all_nodes takes the bulk lock.
BeginAccount(t, a) ==
  /\ task[t].pc = "idle"
  /\ bulk = NoTask
  /\ a \in alive
  /\ bulk' = t
  /\ task' = [task EXCEPT ![t] = [Idle EXCEPT !.pc = "enter", !.account = a]]
  /\ UNCHANGED <<node, nextId, alive, count, lease>>

\* _acquire_probe(-account_id); a batch that crashed may still block it.
EnterAccount(t) ==
  LET a == task[t].account
  IN  /\ task[t].pc = "enter"
      /\ IF Refused(a)
           THEN /\ lease' = Purged
                /\ bulk' = NoTask
                /\ task' = [task EXCEPT ![t] = Idle]
           ELSE /\ lease' = Granted(a, t)
                /\ task' = [task EXCEPT ![t].pc = "list"]
                /\ UNCHANGED bulk
      /\ UNCHANGED <<node, nextId, alive, count>>

ListAccount(t) ==
  LET nodes == NodesOf(task[t].account)
  IN  /\ task[t].pc = "list"
      /\ task' = [task EXCEPT ![t] =
                    [@ EXCEPT !.pc = "acquire", !.slots = AccountWave,
                       !.todo = IF Cardinality(nodes) > MaxCheck THEN {}
                                ELSE {Read(n) : n \in nodes}]]
      /\ UNCHANGED <<node, nextId, alive, count, lease, bulk>>

\* _acquire_probe for the next node of the wave: its row, if it is still
\* there, says that a check is pending. A refused node is skipped.
Acquire(t, i) ==
  /\ task[t].pc = "acquire"
  /\ task[t].slots > 0
  /\ i \in task[t].todo
  /\ IF Refused(i.id)
       THEN lease' = Purged /\ UNCHANGED node
       ELSE /\ lease' = Granted(i.id, t)
            /\ node' = IF i.id \in Rows
                         THEN [node EXCEPT ![i.id].error = "pending"] ELSE node
  /\ task' = [task EXCEPT ![t] =
                [task[t] EXCEPT !.todo = @ \ {i}, !.slots = @ - 1,
                                !.wave = IF Refused(i.id) THEN @ ELSE @ \cup {i}]]
  /\ UNCHANGED <<nextId, alive, count, bulk>>

\* The wave is complete and probed; its results are saved one by one.
Probed(t) ==
  /\ task[t].pc = "acquire"
  /\ task[t].slots = 0 \/ task[t].todo = {}
  /\ task' = [task EXCEPT ![t].pc = "save"]
  /\ UNCHANGED <<node, nextId, alive, count, lease, bulk>>

\* Mutant of Stores: any unexpired lease on the node will do.
StoresUnderAnyLease(t, i) ==
  /\ lease[i.id] # NoLease
  /\ lease[i.id].live
  /\ i.id \in Rows
  /\ node[i.id].config = i.config

\* The lease is the task's and has not expired, and the row is unchanged.
Stores(t, i) ==
  /\ Owns(t, i.id)
  /\ lease[i.id].live
  /\ i.id \in Rows
  /\ node[i.id].config = i.config

\* _save_probe: finished says that the probe came to a result.
Save(t, i, finished) ==
  /\ task[t].pc = "save"
  /\ i \in task[t].wave
  /\ node' = IF ~Stores(t, i) THEN node
             ELSE IF finished
               THEN [node EXCEPT ![i.id] = [@ EXCEPT !.evidence = i.config, !.error = ""]]
               ELSE [node EXCEPT ![i.id].error = "unfinished"]
  /\ lease' = Returned(i.id, t)
  /\ task' = [task EXCEPT ![t].wave = @ \ {i}]
  /\ UNCHANGED <<nextId, alive, count, bulk>>

\* More nodes are listed and the time budget is not used up.
NextWave(t) ==
  /\ task[t].pc = "save"
  /\ task[t].wave = {}
  /\ task[t].todo # {}
  /\ task' = [task EXCEPT ![t] =
                [@ EXCEPT !.pc = "acquire",
                   !.slots = IF task[t].account = NoAccount THEN MonitorWave ELSE AccountWave]]
  /\ UNCHANGED <<node, nextId, alive, count, lease, bulk>>

Release(t) == IF bulk = t THEN NoTask ELSE bulk

\* The task ends; an account's batch returns the account's lease.
Finish(t) ==
  /\ task[t].pc = "save"
  /\ task[t].wave = {}
  /\ lease' = IF task[t].account = NoAccount THEN lease ELSE Returned(task[t].account, t)
  /\ bulk' = Release(t)
  /\ task' = [task EXCEPT ![t] = Idle]
  /\ UNCHANGED <<node, nextId, alive, count>>

\* The process dies: the kernel releases the file lock, leases stay.
Crash(t) ==
  /\ task[t].pc # "idle"
  /\ bulk' = Release(t)
  /\ task' = [task EXCEPT ![t] = Idle]
  /\ UNCHANGED <<node, nextId, alive, count, lease>>

-----------------------------------------------------------------------------
(* Changes of the nodes.                                                   *)

\* node_delete reads the row, and deletes it in a later transaction.
BeginDelete(t, n) ==
  /\ task[t].pc = "idle"
  /\ n \in Rows
  /\ task' = [task EXCEPT ![t] = [Idle EXCEPT !.pc = "delete", !.todo = {Read(n)},
                                              !.account = node[n].account]]
  /\ UNCHANGED <<node, nextId, alive, count, lease, bulk>>

\* Mutant of DeleteNode: the count goes down whether a row went or not.
DeleteNodeCounted(t, i) ==
  /\ task[t].pc = "delete"
  /\ i \in task[t].todo
  /\ node' = [node EXCEPT ![i.id] = NoNode]
  /\ count' = [count EXCEPT ![task[t].account] = @ - 1]
  /\ task' = [task EXCEPT ![t] = Idle]
  /\ UNCHANGED <<nextId, alive, lease, bulk>>

DeleteNode(t, i) ==
  /\ task[t].pc = "delete"
  /\ i \in task[t].todo
  /\ node' = [node EXCEPT ![i.id] = NoNode]
  /\ count' = IF i.id \in Rows THEN [count EXCEPT ![task[t].account] = @ - 1] ELSE count
  /\ task' = [task EXCEPT ![t] = Idle]
  /\ UNCHANGED <<nextId, alive, lease, bulk>>

Fresh == [evidence |-> NoEvidence, error |-> ""]

\* Mutant of Health: a node inherits from the one that had its place.
HealthByPlace(a, place, c) ==
  LET old == {n \in NodesOf(a) : Cardinality({m \in NodesOf(a) : m <= n}) = place}
  IN  IF old = {} THEN Fresh
      ELSE LET n == CHOOSE m \in old : TRUE
           IN  [evidence |-> node[n].evidence, error |-> node[n].error]

\* What the node in a place with configuration c inherits: of the account's
\* old nodes with it, the one inserted last.
Health(a, place, c) ==
  LET same == {n \in NodesOf(a) : node[n].config = c}
  IN  IF same = {} THEN Fresh
      ELSE LET n == CHOOSE m \in same : \A k \in same : k <= m
           IN  [evidence |-> node[n].evidence, error |-> node[n].error]

\* _replace_account_nodes and the new node_count, in the transaction of a sync
\* or of account_add (an account without nodes yet).
Replace(a, S) ==
  /\ a \in alive
  /\ nextId + Len(S) <= MaxId + 1
  /\ node' = [n \in Ids |->
       IF n \in nextId .. nextId + Len(S) - 1
         THEN LET place == n - nextId + 1
                  h == Health(a, place, S[place])
              IN  [account |-> a, config |-> S[place],
                   evidence |-> h.evidence, error |-> h.error]
         ELSE IF n \in NodesOf(a) THEN NoNode ELSE node[n]]
  /\ nextId' = nextId + Len(S)
  /\ count' = [count EXCEPT ![a] = Len(S)]
  /\ UNCHANGED <<alive, lease, bulk, task>>

\* account_delete.
DeleteAccount(a) ==
  /\ a \in alive
  /\ alive' = alive \ {a}
  /\ node' = [n \in Ids |-> IF n \in NodesOf(a) THEN NoNode ELSE node[n]]
  /\ UNCHANGED <<nextId, count, lease, bulk, task>>

-----------------------------------------------------------------------------
Next ==
  \/ \E x \in Keys : Expire(x)
  \/ \E t \in Tasks :
       \/ \E n \in Ids : BeginCheck(t, n) \/ BeginDelete(t, n)
       \/ \E S \in SUBSET Rows : BeginMonitor(t, S)
       \/ \E a \in Accounts : BeginAccount(t, a)
       \/ EnterAccount(t) \/ ListAccount(t) \/ Probed(t) \/ NextWave(t)
       \/ Finish(t) \/ Crash(t)
       \/ \E i \in task[t].todo : Acquire(t, i) \/ DeleteNode(t, i)
       \/ \E i \in task[t].wave, finished \in BOOLEAN : Save(t, i, finished)
  \/ \E a \in Accounts :
       \/ DeleteAccount(a)
       \/ \E k \in 1 .. MaxNodes : \E S \in [1 .. k -> Configs] : Replace(a, S)

Spec == Init /\ [][Next]_vars

-----------------------------------------------------------------------------
(* Properties.                                                             *)

\* Nodes, leases, the lock and the tasks hold values of their kinds.
TypeOK ==
  /\ node \in [Ids -> Row \cup {NoNode}]
  /\ nextId \in 1 .. MaxId + 1
  /\ alive \in SUBSET Accounts
  /\ count \in [Accounts -> 0 .. MaxNodes]
  /\ lease \in [Keys -> Lease \cup {NoLease}]
  /\ bulk \in Tasks \cup {NoTask}
  /\ task \in [Tasks -> Task]

\* A node never shows a result of other credentials or another server than
\* its own, however syncs replace nodes while their probes run
\* (_save_probe, _replace_account_nodes).
EvidenceOfConfig ==
  \A n \in Rows : node[n].evidence \in {NoEvidence, node[n].config}

\* Two tasks probe one node at once only after a lease expired under one of
\* them: no return or purge of a lease lets a second probe in beside a running
\* one (docs/API.md: the same node is never checked twice at once).
OneProbeAtATime ==
  \A t, u \in Tasks : \A i \in task[t].wave, j \in task[u].wave :
    t # u /\ i.id = j.id => i.late \/ j.late

\* A result that comes after the task's lease expired changes no node, although
\* another task may hold a lease on it by then (_save_probe).
LateResultsDropped ==
  [][\A t \in Tasks : \A i \in task[t].wave :
       i.late /\ i \notin task'[t].wave => node' = node]_vars

\* Probes that run under a live lease are at most Cap, over all processes.
ProbesBounded ==
  Cardinality({p \in Tasks \X Ids : \E i \in task[p[1]].wave : i.id = p[2] /\ ~i.late}) <= Cap

\* While a node is probed under a live lease its old result is never shown as
\* the present one: the row says that a check is pending.
RunningProbeShows ==
  \A t \in Tasks : \A i \in task[t].wave :
    ~i.late /\ i.id \in Rows => node[i.id].error = "pending"

\* accounts.node_count is the number of the account's nodes, although deletion
\* and sync overlap (node_delete, _store_synced_account).
CountMatches == \A a \in alive : count[a] = Cardinality(NodesOf(a))
=============================================================================
