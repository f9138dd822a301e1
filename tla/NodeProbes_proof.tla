-------------------------- MODULE NodeProbes_proof ---------------------------
(***************************************************************************)
(* Proofs about NodeProbes, for any number of ids, accounts, tasks and     *)
(* configurations, any size of waves and any limit of the leases.          *)
(***************************************************************************)
EXTENDS NodeProbes, Integers, FiniteSetTheorems, WellFoundedInduction, TLAPS

USE ProbeAssumption

TypeInv ==
  /\ node \in [Ids -> Row \cup {NoNode}]
  /\ nextId \in 1 .. MaxId + 1
  /\ alive \in SUBSET Accounts
  /\ lease \in [Keys -> Lease \cup {NoLease}]
  /\ bulk \in Tasks \cup {NoTask}
  /\ task \in [Tasks -> Task]

\* An id that is given out is not given out again, a node dies with its
\* account, and a result stays with its configuration.
RowInv ==
  \A n \in Rows : /\ n < nextId
                  /\ node[n].account \in alive
                  /\ node[n].evidence \in {NoEvidence, node[n].config}

\* Task u has a live lease on node n.
Holds(u, n) == lease[n] # NoLease /\ lease[n].by = u /\ lease[n].live

\* What a task has listed and taken: each node once.
Shape(r, next) ==
  /\ \A i \in r.todo \cup r.wave : i.id < next
  /\ \A i \in r.todo : ~i.late
  /\ \A i, j \in r.todo : i.id = j.id => i = j
  /\ \A i, j \in r.wave : i.id = j.id => i = j
  /\ \A i \in r.todo, j \in r.wave : i.id # j.id
  /\ r.pc \notin {"acquire", "save"} => r.wave = {}

\* A probe that is not late has its lease, and its row says so; one that is late
\* never gets the lease again.
Held(u) ==
  \A i \in task[u].wave :
    /\ i.late => ~Holds(u, i.id)
    /\ ~i.late => Holds(u, i.id) /\ (node[i.id] # NoNode => node[i.id].error = "pending")

\* The row that a task is about to delete is the account's it has read.
Doomed(u) ==
  task[u].pc = "delete" =>
    \A i \in task[u].todo : node[i.id] # NoNode => node[i.id].account = task[u].account

TaskInv == \A u \in Tasks : Shape(task[u], nextId) /\ Held(u) /\ Doomed(u)

CountInv ==
  /\ count \in [Accounts -> 0 .. MaxNodes]
  /\ \A a \in alive : count[a] = Cardinality(NodesOf(a))

LiveIds == {n \in Ids : lease[n] # NoLease /\ lease[n].live}

LeaseInv == Cardinality(LiveIds) <= Cap

Inv == TypeInv /\ RowInv /\ TaskInv /\ CountInv /\ LeaseInv

-----------------------------------------------------------------------------
(* Data.                                                                   *)

LEMMA Basics ==
  /\ Ids \subseteq Nat /\ Ids \subseteq Keys /\ Accounts \subseteq Keys
  /\ Idle \in Task /\ Idle.todo = {} /\ Idle.wave = {} /\ Idle.pc = "idle"
<1>1. Ids \subseteq Nat /\ Ids \subseteq Keys /\ Accounts \subseteq Keys
  BY DEF Ids, Keys
<1>2. Idle \in Task
  <2>1. {} \in SUBSET Item /\ 0 \in Nat /\ "idle" \in PC
    BY DEF PC
  <2> QED
    BY <2>1 DEF Idle, Task
<1> QED
  BY <1>1, <1>2 DEF Idle

LEMMA FiniteIds == \A S \in SUBSET Ids : IsFiniteSet(S) /\ Cardinality(S) \in Nat
<1>1. IsFiniteSet(Ids)
  BY FS_Interval DEF Ids
<1> QED
  BY <1>1, FS_Subset, FS_CardinalityType

LEMMA RowsAre ==
  ASSUME TypeInv
  PROVE  /\ Rows \subseteq Ids
         /\ \A n \in Ids : n \in Rows <=> node[n] # NoNode
         /\ \A n \in Rows : node[n] \in Row /\ node[n].account \in Accounts
         /\ \A a : NodesOf(a) \subseteq Rows
         /\ \A n \in Rows : /\ Read(n) \in Item /\ Read(n).id = n
                            /\ ~Read(n).late
BY DEF TypeInv, Rows, NodesOf, Row, Read, Item

\* A task as its fields show it.
LEMMA TaskFields ==
  ASSUME TypeInv, NEW t \in Tasks
  PROVE  /\ task[t] \in Task
         /\ task[t].pc \in PC /\ task[t].account \in Accounts \cup {NoAccount}
         /\ task[t].todo \subseteq Item /\ task[t].wave \subseteq Item
         /\ task[t].slots \in Nat
         /\ \A i \in task[t].todo \cup task[t].wave : i \in Item /\ i.id \in Ids
BY DEF TypeInv, Task, Item

LEMMA LeaseTypes ==
  ASSUME TypeInv, NEW x, NEW t \in Tasks
  PROVE  /\ Purged \in [Keys -> Lease \cup {NoLease}]
         /\ Granted(x, t) \in [Keys -> Lease \cup {NoLease}]
         /\ Returned(x, t) \in [Keys -> Lease \cup {NoLease}]
<1>1. Purged \in [Keys -> Lease \cup {NoLease}]
  BY DEF TypeInv, Purged
<1>2. [by |-> t, live |-> TRUE] \in Lease
  BY DEF Lease
<1> QED
  BY <1>1, <1>2 DEF TypeInv, Granted, Returned

\* Who holds what after each change of the leases.
LEMMA PurgeHolds ==
  ASSUME TypeInv, lease' = Purged
  PROVE  \A u \in Tasks, n \in Ids : Holds(u, n)' <=> Holds(u, n)
BY Basics DEF TypeInv, Purged, Holds

LEMMA GrantHolds ==
  ASSUME TypeInv, NEW x, NEW t \in Tasks, ~Refused(x), lease' = Granted(x, t)
  PROVE  /\ \A u \in Tasks, n \in Ids \ {x} : Holds(u, n)' <=> Holds(u, n)
         /\ x \in Ids => \A u \in Tasks : ~Holds(u, x) /\ (Holds(u, x)' <=> u = t)
<1>1. \A n \in Ids : lease[n] \in Lease \cup {NoLease}
  BY Basics DEF TypeInv
<1>2. ASSUME NEW n \in Ids, n # x, NEW u \in Tasks PROVE Holds(u, n)' <=> Holds(u, n)
  <2>1. lease'[n] = IF lease[n] # NoLease /\ ~lease[n].live THEN NoLease ELSE lease[n]
    BY <1>2, Basics DEF Granted, Purged
  <2> QED
    BY <2>1 DEF Holds
<1>3. ASSUME x \in Ids, NEW u \in Tasks PROVE ~Holds(u, x) /\ (Holds(u, x)' <=> u = t)
  <2>1. lease'[x] = [by |-> t, live |-> TRUE]
    BY <1>3, Basics DEF Granted, Purged
  <2>2. [by |-> t, live |-> TRUE] # NoLease
    <3>1. [by |-> t, live |-> TRUE] \in Lease
      BY DEF Lease
    <3> QED
      BY <3>1
  <2>3. Holds(u, x)' <=> u = t
    BY <2>1, <2>2 DEF Holds
  <2>4. ~Holds(u, x)
    <3>1. Purged[x] = NoLease /\ x \in Keys
      BY <1>3, Basics DEF Refused
    <3>2. lease[x] = NoLease \/ ~lease[x].live
      BY <3>1 DEF Purged
    <3> QED
      BY <3>2 DEF Holds
  <2> QED
    BY <2>3, <2>4
<1> QED
  BY <1>2, <1>3

LEMMA ReturnHolds ==
  ASSUME TypeInv, NEW x, NEW t \in Tasks, lease' = Returned(x, t)
  PROVE  /\ \A u \in Tasks, n \in Ids \ {x} : Holds(u, n)' <=> Holds(u, n)
         /\ \A u \in Tasks \ {t}, n \in Ids : Holds(u, n)' <=> Holds(u, n)
<1>1. ASSUME NEW n \in Ids, n # x PROVE lease'[n] = lease[n]
  BY <1>1, Basics DEF Returned, TypeInv
<1>2. ASSUME NEW u \in Tasks \ {t}, x \in Ids PROVE Holds(u, x)' <=> Holds(u, x)
  <2>1. CASE Owns(t, x)
    <3>1. lease'[x] = NoLease
      BY <1>2, <2>1, Basics DEF Returned, TypeInv
    <3> QED
      BY <2>1, <3>1 DEF Holds, Owns
  <2>2. CASE ~Owns(t, x)
    BY <2>2 DEF Returned, Holds
  <2> QED
    BY <2>1, <2>2
<1> QED
  BY <1>1, <1>2 DEF Holds

-----------------------------------------------------------------------------
(* Types.                                                                  *)

LEMMA TaskRecord ==
  ASSUME NEW r \in Task, NEW pc \in PC, NEW a \in Accounts \cup {NoAccount},
         NEW S \in SUBSET Item, NEW k \in Nat, NEW W \in SUBSET Item
  PROVE  /\ [r EXCEPT !.pc = pc] \in Task
         /\ [r EXCEPT !.pc = pc, !.slots = k] \in Task
         /\ [r EXCEPT !.pc = pc, !.slots = k, !.todo = S] \in Task
         /\ [r EXCEPT !.pc = pc, !.todo = S, !.slots = k] \in Task
         /\ [r EXCEPT !.pc = pc, !.todo = S, !.account = a] \in Task
         /\ [r EXCEPT !.pc = pc, !.account = a] \in Task
         /\ [r EXCEPT !.todo = S, !.slots = k, !.wave = W] \in Task
         /\ [r EXCEPT !.wave = W] \in Task
BY DEF Task

\* A step that gives one task a new record.
Moves(t, x) == x \in Task /\ task' = [task EXCEPT ![t] = x]

LEMMA MovesType ==
  ASSUME TypeInv, NEW t \in Tasks, NEW x, Moves(t, x)
  PROVE  /\ task' \in [Tasks -> Task]
         /\ task'[t] = x
         /\ \A u \in Tasks \ {t} : task'[u] = task[u]
BY DEF TypeInv, Moves

LEMMA ExpireMoves ==
  ASSUME TypeInv, NEW x \in Keys, Expire(x)
  PROVE  /\ lease[x].by \in Tasks
         /\ lease' \in [Keys -> Lease \cup {NoLease}]
         /\ Moves(lease[x].by, [task[lease[x].by] EXCEPT !.wave =
              {IF i.id = x THEN [i EXCEPT !.late = TRUE] ELSE i : i \in @}])
<1> DEFINE t == lease[x].by
           W == {IF i.id = x THEN [i EXCEPT !.late = TRUE] ELSE i : i \in task[t].wave}
<1>1. lease[x] \in Lease /\ t \in Tasks
  BY DEF TypeInv, Expire, Lease
<1>2. [lease[x] EXCEPT !.live = FALSE] \in Lease
  BY <1>1 DEF Lease
<1>3. lease' \in [Keys -> Lease \cup {NoLease}]
  BY <1>2 DEF TypeInv, Expire
<1>4. \A i \in Item : [i EXCEPT !.late = TRUE] \in Item
  BY DEF Item
<1>5. W \in SUBSET Item
  BY <1>1, <1>4, TaskFields
<1>6. [task[t] EXCEPT !.wave = W] \in Task
  <2> HIDE DEF W
  <2>1. task[t] \in Task
    BY <1>1 DEF TypeInv
  <2> QED
    BY <1>5, <2>1 DEF Task
<1>7. task' = [task EXCEPT ![t] = [task[t] EXCEPT !.wave = W]]
  BY DEF Expire, TypeInv
<1> QED
  BY <1>1, <1>3, <1>6, <1>7 DEF Moves

LEMMA BeginMoves ==
  ASSUME TypeInv, NEW t \in Tasks
  PROVE  /\ \A n \in Ids : BeginCheck(t, n) => 
              Moves(t, [Idle EXCEPT !.pc = "acquire", !.todo = {Read(n)}, !.slots = 1])
         /\ \A n \in Ids : BeginDelete(t, n) =>
              Moves(t, [Idle EXCEPT !.pc = "delete", !.todo = {Read(n)}, !.account = node[n].account])
         /\ \A S \in SUBSET Rows : BeginMonitor(t, S) =>
              Moves(t, [Idle EXCEPT !.pc = "acquire", !.slots = MonitorWave, !.todo = {Read(n) : n \in S}])
         /\ \A a \in Accounts : BeginAccount(t, a) =>
              Moves(t, [Idle EXCEPT !.pc = "enter", !.account = a])
<1>1. MonitorWave \in Nat /\ {} \in SUBSET Item
  OBVIOUS
<1>2. "acquire" \in PC /\ "delete" \in PC /\ "enter" \in PC
  BY DEF PC
<1>3. ASSUME NEW n \in Ids, BeginCheck(t, n) 
      PROVE  Moves(t, [Idle EXCEPT !.pc = "acquire", !.todo = {Read(n)}, !.slots = 1])
  <2>1. {Read(n)} \in SUBSET Item
    BY <1>3, RowsAre DEF BeginCheck
  <2>2. [Idle EXCEPT !.pc = "acquire", !.todo = {Read(n)}, !.slots = 1] \in Task
    BY <1>1, <1>2, <2>1, Basics, TaskRecord
  <2> QED
    BY <1>3, <2>2 DEF BeginCheck, Moves
<1>4. ASSUME NEW n \in Ids, BeginDelete(t, n)
      PROVE  Moves(t, [Idle EXCEPT !.pc = "delete", !.todo = {Read(n)}, !.account = node[n].account])
  <2>1. {Read(n)} \in SUBSET Item /\ node[n].account \in Accounts
    BY <1>4, RowsAre DEF BeginDelete
  <2>2. [Idle EXCEPT !.pc = "delete", !.todo = {Read(n)}, !.account = node[n].account] \in Task
    BY <1>1, <1>2, <2>1, Basics, TaskRecord
  <2> QED
    BY <1>4, <2>2 DEF BeginDelete, Moves
<1>5. ASSUME NEW S \in SUBSET Rows, BeginMonitor(t, S)
      PROVE  Moves(t, [Idle EXCEPT !.pc = "acquire", !.slots = MonitorWave, !.todo = {Read(n) : n \in S}])
  <2>1. {Read(n) : n \in S} \in SUBSET Item
    BY RowsAre
  <2>2. [Idle EXCEPT !.pc = "acquire", !.slots = MonitorWave, !.todo = {Read(n) : n \in S}] \in Task
    BY <1>1, <1>2, <2>1, Basics, TaskRecord
  <2> QED
    BY <1>5, <2>2 DEF BeginMonitor, Moves
<1>6. ASSUME NEW a \in Accounts, BeginAccount(t, a)
      PROVE  Moves(t, [Idle EXCEPT !.pc = "enter", !.account = a])
  <2>1. [Idle EXCEPT !.pc = "enter", !.account = a] \in Task
    BY <1>1, <1>2, Basics, TaskRecord
  <2> QED
    BY <1>6, <2>1 DEF BeginAccount, Moves
<1> QED
  BY <1>3, <1>4, <1>5, <1>6

LEMMA GoesOnMoves ==
  ASSUME TypeInv, NEW t \in Tasks
  PROVE  /\ EnterAccount(t) => Moves(t, Idle) \/ Moves(t, [task[t] EXCEPT !.pc = "list"])
         /\ ListAccount(t) => \E S \in SUBSET NodesOf(task[t].account) :
              Moves(t, [task[t] EXCEPT !.pc = "acquire", !.slots = AccountWave, !.todo = {Read(n) : n \in S}])
         /\ Probed(t) => Moves(t, [task[t] EXCEPT !.pc = "save"])
         /\ NextWave(t) => \E k \in Nat : Moves(t, [task[t] EXCEPT !.pc = "acquire", !.slots = k])
         /\ Finish(t) \/ Crash(t) => Moves(t, Idle)
<1>1. AccountWave \in Nat /\ MonitorWave \in Nat /\ {} \in SUBSET Item /\ NoAccount \in Accounts \cup {NoAccount}
  OBVIOUS
<1>2. "acquire" \in PC /\ "list" \in PC /\ "save" \in PC /\ task[t] \in Task
  BY TaskFields DEF PC
<1>3. /\ [task[t] EXCEPT !.pc = "list"] \in Task /\ [task[t] EXCEPT !.pc = "save"] \in Task
      /\ \A k \in Nat : [task[t] EXCEPT !.pc = "acquire", !.slots = k] \in Task
  BY <1>1, <1>2, TaskRecord
<1>4. ASSUME ListAccount(t)
      PROVE  \E S \in SUBSET NodesOf(task[t].account) :
        Moves(t, [task[t] EXCEPT !.pc = "acquire", !.slots = AccountWave, !.todo = {Read(n) : n \in S}])
  <2> DEFINE N == NodesOf(task[t].account)
             S == IF Cardinality(N) > MaxCheck THEN {} ELSE N
  <2>1. {Read(n) : n \in S} \in SUBSET Item /\ S \in SUBSET N
    BY RowsAre
  <2>2. (IF Cardinality(N) > MaxCheck THEN {} ELSE {Read(n) : n \in N}) = {Read(n) : n \in S}
    OBVIOUS
  <2> HIDE DEF S, N
  <2>3. [task[t] EXCEPT !.pc = "acquire", !.slots = AccountWave, !.todo = {Read(n) : n \in S}] \in Task
    BY <1>1, <1>2, <2>1, TaskRecord
  <2>4. Moves(t, [task[t] EXCEPT !.pc = "acquire", !.slots = AccountWave, !.todo = {Read(n) : n \in S}])
    BY <1>4, <2>2, <2>3 DEF ListAccount, Moves, N
  <2> QED
    BY <2>1, <2>4 DEF N
<1>5. EnterAccount(t) => Moves(t, Idle) \/ Moves(t, [task[t] EXCEPT !.pc = "list"])
  BY <1>3, Basics DEF EnterAccount, Moves, TypeInv
<1>6. /\ Probed(t) => Moves(t, [task[t] EXCEPT !.pc = "save"])
      /\ NextWave(t) => \E k \in Nat : Moves(t, [task[t] EXCEPT !.pc = "acquire", !.slots = k])
  BY <1>3 DEF Probed, NextWave, Moves, TypeInv
<1>7. Finish(t) \/ Crash(t) => Moves(t, Idle)
  BY Basics DEF Finish, Crash, Moves
<1> QED
  BY <1>4, <1>5, <1>6, <1>7

LEMMA AcquireMoves ==
  ASSUME TypeInv, NEW t \in Tasks, NEW i \in task[t].todo, Acquire(t, i)
  PROVE  Moves(t, [task[t] EXCEPT !.todo = @ \ {i}, !.slots = @ - 1,
                     !.wave = IF Refused(i.id) THEN @ ELSE @ \cup {i}])
<1> DEFINE W == IF Refused(i.id) THEN task[t].wave ELSE task[t].wave \cup {i}
<1>1. task[t].slots - 1 \in Nat
  BY TaskFields DEF Acquire
<1>2. W \in SUBSET Item /\ task[t].todo \ {i} \in SUBSET Item
  BY TaskFields
<1>3. [task[t] EXCEPT !.todo = task[t].todo \ {i}, !.slots = task[t].slots - 1, !.wave = W] \in Task
  <2> HIDE DEF W
  <2>1. task[t] \in Task
    BY DEF TypeInv
  <2> QED
    BY <1>1, <1>2, <2>1 DEF Task
<1>4. task' = [task EXCEPT ![t] = [task[t] EXCEPT !.todo = @ \ {i}, !.slots = @ - 1,
                 !.wave = IF Refused(i.id) THEN @ ELSE @ \cup {i}]]
  <2> HIDE DEF W
  <2> QED
    BY DEF Acquire, TypeInv
<1>5. [task[t] EXCEPT !.todo = @ \ {i}, !.slots = @ - 1,
                      !.wave = IF Refused(i.id) THEN @ ELSE @ \cup {i}]
      = [task[t] EXCEPT !.todo = task[t].todo \ {i}, !.slots = task[t].slots - 1, !.wave = W]
  OBVIOUS
<1> QED
  BY <1>3, <1>4, <1>5 DEF Moves

LEMMA SaveMoves ==
  ASSUME TypeInv, NEW t \in Tasks, NEW i \in task[t].wave, NEW finished \in BOOLEAN,
         Save(t, i, finished)
  PROVE  Moves(t, [task[t] EXCEPT !.wave = @ \ {i}])
<1>1. task[t].wave \ {i} \in SUBSET Item /\ "idle" \in PC
  BY TaskFields DEF PC
<1>2. [task[t] EXCEPT !.wave = task[t].wave \ {i}] \in Task
  BY <1>1, TaskFields, TaskRecord
<1> QED
  BY <1>2 DEF Save, Moves, TypeInv

-----------------------------------------------------------------------------
(* Rows.                                                                   *)

\* What remains of a row that is not removed: all but its evidence, which may
\* become a result of its own configuration, and its mark.
Kept(n) ==
  \/ node'[n] = node[n]
  \/ /\ node[n] # NoNode /\ node'[n] \in Row
     /\ node'[n].account = node[n].account /\ node'[n].config = node[n].config
     /\ node'[n].evidence \in {node[n].evidence, node[n].config}

LEMMA AcquireRows ==
  ASSUME TypeInv, NEW t \in Tasks, NEW i \in task[t].todo, Acquire(t, i)
  PROVE  /\ node' \in [Ids -> Row \cup {NoNode}]
         /\ \A n \in Ids : Kept(n) /\ (node'[n] = node[n] \/ node'[n].error = "pending")
         /\ ~Refused(i.id) /\ node'[i.id] # NoNode => node'[i.id].error = "pending"
<1>1. i.id \in Ids
  BY TaskFields
<1>2. CASE ~Refused(i.id) /\ i.id \in Rows
  <2> DEFINE x == [node[i.id] EXCEPT !.error = "pending"]
  <2>1. node[i.id] \in Row /\ node[i.id] # NoNode
    BY <1>2, RowsAre
  <2>2. /\ x \in Row /\ x.error = "pending" /\ x.account = node[i.id].account
        /\ x.config = node[i.id].config /\ x.evidence = node[i.id].evidence
    BY <2>1 DEF Row
  <2>3. node' = [node EXCEPT ![i.id] = x]
    BY <1>2 DEF Acquire
  <2> HIDE DEF x
  <2>4. node'[i.id] = x /\ \A n \in Ids \ {i.id} : node'[n] = node[n]
    BY <1>1, <2>3 DEF TypeInv
  <2> QED
    BY <2>1, <2>2, <2>3, <2>4 DEF TypeInv, Kept
<1>3. CASE Refused(i.id) \/ i.id \notin Rows
  <2>1. node' = node
    BY <1>3 DEF Acquire
  <2>2. i.id \in Rows \/ node[i.id] = NoNode
    BY <1>1, RowsAre
  <2> QED
    BY <1>3, <2>1, <2>2 DEF TypeInv, Kept
<1> QED
  BY <1>2, <1>3

LEMMA SaveRows ==
  ASSUME TypeInv, NEW t \in Tasks, NEW i \in task[t].wave, NEW finished \in BOOLEAN,
         Save(t, i, finished)
  PROVE  /\ node' \in [Ids -> Row \cup {NoNode}]
         /\ \A n \in Ids : Kept(n)
         /\ \A n \in Ids \ {i.id} : node'[n] = node[n]
         /\ ~Stores(t, i) => node' = node
<1>1. i.id \in Ids /\ i.config \in Configs
  BY TaskFields DEF Item
<1>2. CASE Stores(t, i)
  <2> DEFINE x == IF finished THEN [node[i.id] EXCEPT !.evidence = i.config, !.error = ""]
                  ELSE [node[i.id] EXCEPT !.error = "unfinished"]
  <2>1. node[i.id] \in Row /\ node[i.id] # NoNode /\ node[i.id].config = i.config
    BY <1>2, RowsAre DEF Stores
  <2>2. /\ x \in Row /\ x.account = node[i.id].account /\ x.config = node[i.id].config
        /\ x.evidence \in {node[i.id].evidence, node[i.id].config}
    BY <1>1, <2>1 DEF Row
  <2>3. node' = [node EXCEPT ![i.id] = x]
    BY <1>2 DEF Save
  <2> HIDE DEF x
  <2>4. node'[i.id] = x /\ \A n \in Ids \ {i.id} : node'[n] = node[n]
    BY <1>1, <2>3 DEF TypeInv
  <2> QED
    BY <1>2, <2>1, <2>2, <2>3, <2>4 DEF TypeInv, Kept
<1>3. CASE ~Stores(t, i)
  BY <1>3 DEF Save, TypeInv, Kept
<1> QED
  BY <1>2, <1>3

LEMMA DeleteRows ==
  ASSUME TypeInv, NEW t \in Tasks, NEW i \in task[t].todo, DeleteNode(t, i)
  PROVE  /\ node' \in [Ids -> Row \cup {NoNode}]
         /\ node'[i.id] = NoNode
         /\ \A n \in Ids \ {i.id} : node'[n] = node[n]
BY TaskFields DEF DeleteNode, TypeInv

LEMMA DeleteAccountRows ==
  ASSUME TypeInv, NEW a \in Accounts, DeleteAccount(a)
  PROVE  /\ node' \in [Ids -> Row \cup {NoNode}]
         /\ \A n \in Ids : node'[n] = IF n \in NodesOf(a) THEN NoNode ELSE node[n]
BY DEF DeleteAccount, TypeInv

\* A set of ids has a greatest element.
LEMMA Highest ==
  ASSUME NEW T, T \subseteq Ids, T # {}
  PROVE  \E m \in T : \A k \in T : k <= m
<1> DEFINE U == {MaxId - m : m \in T}
<1>1. \A m \in T : m \in Nat /\ m <= MaxId /\ MaxId - m \in Nat
  BY DEF Ids
<1>2. U \subseteq Nat /\ U # {}
  BY <1>1
<1>3. \A k \in T : MaxId - k \in U
  OBVIOUS
<1>4. \A x \in U : \E m \in T : x = MaxId - m
  OBVIOUS
<1> HIDE DEF U
<1>5. PICK x \in U : \A y \in U : ~ (<<y, x>> \in OpToRel(<, Nat))
  <2>1. \E x \in U : \A y \in U : ~ (<<y, x>> \in OpToRel(<, Nat))
    BY <1>2, NatLessThanWellFounded, WFMin
  <2> QED
    BY <2>1
<1>6. \A y \in U : ~(y < x)
  <2> SUFFICES ASSUME NEW y \in U, y < x PROVE FALSE
    OBVIOUS
  <2>1. <<y, x>> \in Nat \X Nat /\ <<y, x>>[1] < <<y, x>>[2]
    BY <1>2
  <2>2. <<y, x>> \in OpToRel(<, Nat)
    BY <2>1 DEF OpToRel
  <2> QED
    BY <2>2, <1>5
<1>7. PICK m \in T : x = MaxId - m
  BY <1>4
<1>8. ASSUME NEW k \in T PROVE k <= m
  <2>1. ~(MaxId - k < MaxId - m)
    BY <1>3, <1>6, <1>7
  <2> QED
    BY <2>1, <1>1
<1> QED
  BY <1>8

\* What a new node inherits is evidence of its own configuration.
LEMMA HealthOfConfig ==
  ASSUME TypeInv, RowInv, NEW a, NEW place, NEW c \in Configs
  PROVE  /\ Health(a, place, c).evidence \in {NoEvidence, c}
         /\ Health(a, place, c).error \in {"", "pending", "unfinished"}
<1> DEFINE same == {n \in NodesOf(a) : node[n].config = c}
           top == CHOOSE m \in same : \A k \in same : k <= m
<1>1. CASE same = {}
  BY <1>1 DEF Health, Fresh
<1>2. CASE same # {}
  <2>1. same \subseteq Ids
    BY RowsAre
  <2> HIDE DEF same
  <2>2. top \in same
    BY <1>2, <2>1, Highest
  <2> USE DEF same
  <2>3. top \in Rows /\ node[top].config = c
    BY <2>2, RowsAre
  <2> HIDE DEF top
  <2>4. node[top].evidence \in {NoEvidence, c} /\ node[top].error \in {"", "pending", "unfinished"}
    BY <2>3, RowsAre DEF RowInv, Row
  <2>5. /\ Health(a, place, c).evidence = node[top].evidence
        /\ Health(a, place, c).error = node[top].error
    BY <1>2 DEF Health, top
  <2> HIDE DEF same
  <2> QED
    BY <2>4, <2>5
<1> QED
  BY <1>1, <1>2

LEMMA LenOf ==
  ASSUME NEW k \in 1 .. MaxNodes, NEW S \in [1 .. k -> Configs]
  PROVE  Len(S) = k /\ Len(S) \in 1 .. MaxNodes /\ \A j \in 1 .. Len(S) : S[j] \in Configs
<1>1. S \in Seq(Configs) /\ Len(S) = k
  OBVIOUS
<1> QED
  BY <1>1

LEMMA ReplaceRows ==
  ASSUME TypeInv, RowInv, NEW a \in Accounts, NEW k \in 1 .. MaxNodes,
         NEW S \in [1 .. k -> Configs], Replace(a, S)
  PROVE  /\ nextId' = nextId + k /\ nextId' \in 1 .. MaxId + 1
         /\ nextId .. nextId + k - 1 \subseteq Ids
         /\ node' \in [Ids -> Row \cup {NoNode}]
         /\ \A n \in nextId .. nextId + k - 1 :
              /\ node'[n] \in Row /\ node'[n].account = a
              /\ node'[n].evidence \in {NoEvidence, node'[n].config}
         /\ \A n \in Ids : n < nextId =>
              node'[n] = IF n \in NodesOf(a) THEN NoNode ELSE node[n]
         /\ \A n \in Ids : n >= nextId + k => node'[n] = NoNode
<1> DEFINE new(n) == LET place == n - nextId + 1
                         h == Health(a, place, S[place])
                     IN  [account |-> a, config |-> S[place],
                          evidence |-> h.evidence, error |-> h.error]
<1>0. Len(S) = k /\ k \in Nat /\ nextId \in Nat /\ nextId >= 1
  BY LenOf DEF TypeInv
<1>1. nextId' = nextId + k /\ nextId' \in 1 .. MaxId + 1
  BY <1>0 DEF Replace
<1>2. nextId .. nextId + k - 1 \subseteq Ids
  BY <1>0, <1>1 DEF Ids
<1>3. ASSUME NEW n \in nextId .. nextId + k - 1
      PROVE  new(n) \in Row /\ new(n).account = a /\ new(n).evidence \in {NoEvidence, new(n).config}
  <2>1. n - nextId + 1 \in 1 .. k
    BY <1>0
  <2> DEFINE c == S[n - nextId + 1]
             h == Health(a, n - nextId + 1, c)
  <2>2. c \in Configs
    BY <2>1
  <2> HIDE DEF c
  <2>3. h.evidence \in {NoEvidence, c} /\ h.error \in {"", "pending", "unfinished"}
    BY <2>2, HealthOfConfig
  <2> HIDE DEF h
  <2>4. [account |-> a, config |-> c, evidence |-> h.evidence, error |-> h.error] \in Row
    BY <2>2, <2>3 DEF Row
  <2> QED
    BY <2>3, <2>4 DEF h, c
<1>4. \A n \in Ids : node'[n] = IF n \in nextId .. nextId + k - 1 THEN new(n)
                                ELSE IF n \in NodesOf(a) THEN NoNode ELSE node[n]
  BY <1>0 DEF Replace
<1>5. DOMAIN node' = Ids /\ node' = [n \in Ids |-> node'[n]]
  BY DEF Replace
<1> HIDE DEF new
<1>6. \A n \in Ids : node'[n] \in Row \cup {NoNode}
  BY <1>3, <1>4 DEF TypeInv
<1>7. node' \in [Ids -> Row \cup {NoNode}]
  BY <1>5, <1>6
<1>8. \A n \in nextId .. nextId + k - 1 : node'[n] = new(n)
  BY <1>2, <1>4
<1>9. \A n \in Ids : n < nextId => n \notin nextId .. nextId + k - 1
  BY <1>0, Basics
<1>10. \A n \in Ids : n >= nextId + k => n \notin nextId .. nextId + k - 1 /\ n \notin Rows
  BY <1>0, Basics DEF RowInv
<1>11. \A n \in Ids : n \notin Rows => n \notin NodesOf(a) /\ node[n] = NoNode
  BY RowsAre
<1> QED
  BY <1>1, <1>2, <1>3, <1>4, <1>7, <1>8, <1>9, <1>10, <1>11

\* Every action by itself; what the actions of the last group leave alone.
LEMMA NextCases ==
  ASSUME Next
  PROVE  \/ \E x \in Keys : Expire(x)
         \/ \E t \in Tasks, n \in Ids : BeginCheck(t, n) \/ BeginDelete(t, n)
         \/ \E t \in Tasks, S \in SUBSET Rows : BeginMonitor(t, S)
         \/ \E t \in Tasks, a \in Accounts : BeginAccount(t, a)
         \/ \E t \in Tasks : \/ EnterAccount(t) \/ ListAccount(t) \/ Probed(t) \/ NextWave(t)
                             \/ Finish(t) \/ Crash(t)
         \/ \E t \in Tasks : \E i \in task[t].todo : Acquire(t, i) \/ DeleteNode(t, i)
         \/ \E t \in Tasks : \E i \in task[t].wave, finished \in BOOLEAN : Save(t, i, finished)
         \/ \E a \in Accounts : DeleteAccount(a)
         \/ \E a \in Accounts, k \in 1 .. MaxNodes : \E S \in [1 .. k -> Configs] : Replace(a, S)
BY Zenon DEF Next

LEMMA TypeStep == TypeInv /\ RowInv /\ [Next]_vars => TypeInv'
<1> SUFFICES ASSUME TypeInv, RowInv, [Next]_vars PROVE TypeInv'
  OBVIOUS
<1>1. ASSUME NEW x \in Keys, Expire(x) PROVE TypeInv'
  BY <1>1, ExpireMoves, MovesType DEF Expire, TypeInv
<1>2. ASSUME NEW t \in Tasks, NEW n \in Ids, BeginCheck(t, n) \/ BeginDelete(t, n) PROVE TypeInv'
  <2>1. task' \in [Tasks -> Task]
    BY <1>2, BeginMoves, MovesType
  <2> QED
    BY <1>2, <2>1 DEF BeginCheck, BeginDelete, TypeInv
<1>3. ASSUME NEW t \in Tasks, NEW S \in SUBSET Rows, BeginMonitor(t, S) PROVE TypeInv'
  <2>1. task' \in [Tasks -> Task]
    BY <1>3, BeginMoves, MovesType
  <2> QED
    BY <1>3, <2>1 DEF BeginMonitor, TypeInv
<1>4. ASSUME NEW t \in Tasks, NEW a \in Accounts, BeginAccount(t, a) PROVE TypeInv'
  <2>1. task' \in [Tasks -> Task]
    BY <1>4, BeginMoves, MovesType
  <2> QED
    BY <1>4, <2>1 DEF BeginAccount, TypeInv
<1>5. ASSUME NEW t \in Tasks,
             \/ EnterAccount(t) \/ ListAccount(t) \/ Probed(t) \/ NextWave(t)
             \/ Finish(t) \/ Crash(t)
      PROVE  TypeInv'
  <2>1. task' \in [Tasks -> Task]
    BY <1>5, GoesOnMoves, MovesType
  <2>2. lease' \in [Keys -> Lease \cup {NoLease}] /\ UNCHANGED <<node, nextId, alive>>
    <3>1. CASE EnterAccount(t)
      BY <3>1, LeaseTypes DEF EnterAccount
    <3>2. CASE Finish(t)
      BY <3>2, Basics, LeaseTypes, TaskFields DEF Finish, TypeInv
    <3> QED
      BY <1>5, <3>1, <3>2 DEF ListAccount, Probed, NextWave, Crash, TypeInv
  <2>3. bulk' \in Tasks \cup {NoTask}
    BY <1>5 DEF EnterAccount, ListAccount, Probed, NextWave, Finish, Crash, Release, TypeInv
  <2> QED
    BY <2>1, <2>2, <2>3 DEF TypeInv
<1>6. ASSUME NEW t \in Tasks, NEW i \in task[t].todo, Acquire(t, i) PROVE TypeInv'
  <2>1. task' \in [Tasks -> Task]
    BY <1>6, AcquireMoves, MovesType
  <2>2. lease' \in [Keys -> Lease \cup {NoLease}]
    BY <1>6, Basics, LeaseTypes, TaskFields DEF Acquire
  <2>3. node' \in [Ids -> Row \cup {NoNode}]
    BY <1>6, AcquireRows
  <2> QED
    BY <1>6, <2>1, <2>2, <2>3 DEF Acquire, TypeInv
<1>7. ASSUME NEW t \in Tasks, NEW i \in task[t].todo, DeleteNode(t, i) PROVE TypeInv'
  <2>1. task' \in [Tasks -> Task]
    BY <1>7, Basics DEF DeleteNode, TypeInv
  <2> QED
    BY <1>7, <2>1, DeleteRows DEF DeleteNode, TypeInv
<1>8. ASSUME NEW t \in Tasks, NEW i \in task[t].wave, NEW finished \in BOOLEAN, Save(t, i, finished)
      PROVE  TypeInv'
  <2>1. task' \in [Tasks -> Task]
    BY <1>8, SaveMoves, MovesType
  <2>2. lease' \in [Keys -> Lease \cup {NoLease}]
    BY <1>8, Basics, LeaseTypes, TaskFields DEF Save
  <2>3. node' \in [Ids -> Row \cup {NoNode}]
    BY <1>8, SaveRows
  <2> QED
    BY <1>8, <2>1, <2>2, <2>3 DEF Save, TypeInv
<1>9. ASSUME NEW a \in Accounts, DeleteAccount(a) PROVE TypeInv'
  BY <1>9, DeleteAccountRows DEF DeleteAccount, TypeInv
<1>10. ASSUME NEW a \in Accounts, NEW k \in 1 .. MaxNodes, NEW S \in [1 .. k -> Configs], Replace(a, S)
       PROVE  TypeInv'
  BY <1>10, ReplaceRows DEF Replace, TypeInv
<1>11. CASE UNCHANGED vars
  BY <1>11 DEF vars, TypeInv
<1> QED
  BY <1>1, <1>2, <1>3, <1>4, <1>5, <1>6, <1>7, <1>8, <1>9, <1>10, <1>11, NextCases

\* Steps that remove no row, give out no id and delete no account.
LEMMA KeptRows ==
  ASSUME TypeInv, TypeInv', RowInv, \A n \in Ids : Kept(n), UNCHANGED <<nextId, alive>>
  PROVE  RowInv' /\ Rows' = Rows /\ \A a \in Accounts : NodesOf(a)' = NodesOf(a)
<1>1. \A n \in Ids : node'[n] # NoNode <=> node[n] # NoNode
  BY DEF Kept
<1>2. Rows' = Rows
  BY <1>1 DEF Rows
<1>3. \A n \in Rows : /\ node'[n].account = node[n].account /\ node'[n].config = node[n].config
                      /\ node'[n].evidence \in {node[n].evidence, node[n].config}
  BY RowsAre DEF Kept
<1>4. \A a \in Accounts : NodesOf(a)' = NodesOf(a)
  BY <1>2, <1>3 DEF NodesOf
<1>5. RowInv'
  BY <1>2, <1>3 DEF RowInv
<1> QED
  BY <1>2, <1>4, <1>5

LEMMA SameRows ==
  ASSUME [Next]_vars,
         \A t \in Tasks : \A i \in task[t].todo : ~Acquire(t, i) /\ ~DeleteNode(t, i),
         \A t \in Tasks : \A i \in task[t].wave, finished \in BOOLEAN : ~Save(t, i, finished),
         \A a \in Accounts : ~DeleteAccount(a),
         \A a \in Accounts, k \in 1 .. MaxNodes : \A S \in [1 .. k -> Configs] : ~Replace(a, S)
  PROVE  UNCHANGED <<node, nextId, alive, count>>
<1>1. CASE UNCHANGED vars
  BY <1>1 DEF vars
<1>2. ASSUME NEW x \in Keys, Expire(x) PROVE UNCHANGED <<node, nextId, alive, count>>
  BY <1>2 DEF Expire
<1>3. ASSUME NEW t \in Tasks,
             \/ EnterAccount(t) \/ ListAccount(t) \/ Probed(t) \/ NextWave(t)
             \/ Finish(t) \/ Crash(t)
      PROVE  UNCHANGED <<node, nextId, alive, count>>
  BY <1>3 DEF EnterAccount, ListAccount, Probed, NextWave, Finish, Crash
<1>4. ASSUME NEW t \in Tasks, NEW n \in Ids, BeginCheck(t, n) \/ BeginDelete(t, n)
      PROVE  UNCHANGED <<node, nextId, alive, count>>
  BY <1>4 DEF BeginCheck, BeginDelete
<1>5. ASSUME NEW t \in Tasks, NEW S \in SUBSET Rows, BeginMonitor(t, S)
      PROVE  UNCHANGED <<node, nextId, alive, count>>
  BY <1>5 DEF BeginMonitor
<1>6. ASSUME NEW t \in Tasks, NEW a \in Accounts, BeginAccount(t, a)
      PROVE  UNCHANGED <<node, nextId, alive, count>>
  BY <1>6 DEF BeginAccount
<1> QED
  BY <1>1, <1>2, <1>3, <1>4, <1>5, <1>6, NextCases

LEMMA RowStep == TypeInv /\ TypeInv' /\ RowInv /\ [Next]_vars => RowInv'
<1> SUFFICES ASSUME TypeInv, TypeInv', RowInv, [Next]_vars PROVE RowInv'
  OBVIOUS
<1>1. ASSUME NEW t \in Tasks, NEW i \in task[t].todo, Acquire(t, i) PROVE RowInv'
  BY <1>1, AcquireRows, KeptRows DEF Acquire
<1>2. ASSUME NEW t \in Tasks, NEW i \in task[t].wave, NEW finished \in BOOLEAN, Save(t, i, finished)
      PROVE  RowInv'
  BY <1>2, SaveRows, KeptRows DEF Save
<1>3. ASSUME NEW t \in Tasks, NEW i \in task[t].todo, DeleteNode(t, i) PROVE RowInv'
  <2>1. \A n \in Rows' : n \in Rows /\ node'[n] = node[n]
    BY <1>3, DeleteRows DEF Rows
  <2> QED
    BY <1>3, <2>1 DEF RowInv, DeleteNode
<1>4. ASSUME NEW a \in Accounts, DeleteAccount(a) PROVE RowInv'
  <2>1. \A n \in Rows' : n \in Rows /\ node'[n] = node[n] /\ node[n].account # a
    BY <1>4, DeleteAccountRows DEF Rows, NodesOf
  <2> QED
    BY <1>4, <2>1 DEF RowInv, DeleteAccount
<1>5. ASSUME NEW a \in Accounts, NEW k \in 1 .. MaxNodes, NEW S \in [1 .. k -> Configs], Replace(a, S)
      PROVE  RowInv'
  <2>0. nextId \in Nat /\ k \in Nat /\ Ids \subseteq Nat /\ Rows' \subseteq Ids
    BY Basics DEF TypeInv, Rows
  <2>1. \A n \in Rows' : n \in nextId .. nextId + k - 1 \/ (n < nextId /\ n \in Rows /\ node'[n] = node[n])
    BY <1>5, <2>0, ReplaceRows DEF Rows
  <2>2. alive' = alive /\ a \in alive /\ nextId' = nextId + k
    BY <1>5, ReplaceRows DEF Replace
  <2>3. ASSUME NEW n \in Rows', n \in nextId .. nextId + k - 1
        PROVE  /\ n < nextId' /\ node'[n].account \in alive'
               /\ node'[n].evidence \in {NoEvidence, node'[n].config}
    BY <1>5, <2>0, <2>2, <2>3, ReplaceRows
  <2>4. ASSUME NEW n \in Rows', n < nextId, n \in Rows, node'[n] = node[n]
        PROVE  /\ n < nextId' /\ node'[n].account \in alive'
               /\ node'[n].evidence \in {NoEvidence, node'[n].config}
    BY <2>0, <2>2, <2>4 DEF RowInv
  <2> QED
    BY <2>1, <2>3, <2>4 DEF RowInv
<1>6. CASE UNCHANGED <<node, nextId, alive, count>>
  BY <1>6, KeptRows DEF Kept
<1> QED
  BY <1>1, <1>2, <1>3, <1>4, <1>5, <1>6, SameRows

-----------------------------------------------------------------------------
(* Tasks.                                                                  *)

Fine(u) == Shape(task[u], nextId) /\ Held(u) /\ Doomed(u)

\* What other tasks may do to the rows task u relies on: remove them, or mark
\* them as pending; more only to rows on which u has no lease.
Mild(u, n) ==
  \/ node'[n] = NoNode
  \/ /\ node[n] # NoNode
     /\ node'[n].account = node[n].account
     /\ Holds(u, n) => node'[n].error = node[n].error \/ node'[n].error = "pending"

LEMMA ShapeOn ==
  ASSUME NEW r \in Task, NEW m \in Nat, NEW k \in Nat, k >= m, Shape(r, m)
  PROVE  Shape(r, k)
<1>1. \A i \in r.todo \cup r.wave : i.id \in Nat
  BY Basics DEF Task, Item
<1>2. \A i \in r.todo \cup r.wave : i.id < k
  BY <1>1 DEF Shape
<1> QED
  BY <1>2, Zenon DEF Shape

LEMMA OtherTask ==
  ASSUME TypeInv, TypeInv', NEW u \in Tasks, Fine(u), task'[u] = task[u], nextId' >= nextId,
         \A n \in Ids : Holds(u, n)' <=> Holds(u, n),
         \A n \in Ids : n < nextId => Mild(u, n)
  PROVE  Fine(u)'
<1>1. Shape(task[u], nextId')
  <2>1. nextId \in Nat /\ nextId' \in Nat
    BY DEF TypeInv
  <2> QED
    BY <2>1, TaskFields, ShapeOn DEF Fine
<1>2. \A i \in task[u].todo \cup task[u].wave : i.id \in Ids /\ i.id < nextId
  BY TaskFields DEF Fine, Shape
<1>3. Held(u)'
  <2> SUFFICES ASSUME NEW i \in task[u].wave
               PROVE  /\ i.late => ~Holds(u, i.id)'
                      /\ ~i.late => /\ Holds(u, i.id)'
                                    /\ node'[i.id] # NoNode => node'[i.id].error = "pending"
    BY DEF Held
  <2>1. i.id \in Ids /\ i.id < nextId /\ (Holds(u, i.id)' <=> Holds(u, i.id))
    BY <1>2
  <2>2. Mild(u, i.id)
    BY <2>1
  <2>3. i.late => ~Holds(u, i.id)
    BY DEF Fine, Held
  <2>4. ~i.late => Holds(u, i.id) /\ (node[i.id] # NoNode => node[i.id].error = "pending")
    BY DEF Fine, Held
  <2>5. Holds(u, i.id) /\ (node[i.id] # NoNode => node[i.id].error = "pending")
          => (node'[i.id] # NoNode => node'[i.id].error = "pending")
    BY <2>2 DEF Mild
  <2> QED
    BY <2>1, <2>3, <2>4, <2>5, Zenon
<1>4. Doomed(u)'
  <2> SUFFICES ASSUME task[u].pc = "delete", NEW i \in task[u].todo, node'[i.id] # NoNode
               PROVE  node'[i.id].account = task[u].account
    BY DEF Doomed
  <2>1. Mild(u, i.id)
    BY <1>2
  <2> QED
    BY <2>1 DEF Mild, Fine, Doomed
<1> QED
  BY <1>1, <1>3, <1>4 DEF Fine

\* A task without probes.
LEMMA NoProbes ==
  ASSUME TypeInv', NEW u \in Tasks, task'[u].wave = {},
         \A i \in task'[u].todo : i.id < nextId' /\ ~i.late,
         \A i, j \in task'[u].todo : i.id = j.id => i = j,
         Doomed(u)'
  PROVE  Fine(u)'
<1>1. Shape(task'[u], nextId')
  BY DEF Shape
<1> QED
  BY <1>1 DEF Held, Fine

LEMMA IdleFine ==
  ASSUME TypeInv', NEW u \in Tasks, task'[u] = Idle
  PROVE  Fine(u)'
<1>1. task'[u].wave = {} /\ task'[u].todo = {} /\ task'[u].pc # "delete"
  BY Basics
<1> QED
  BY <1>1, NoProbes DEF Doomed

\* What a task reads are different nodes that exist.
LEMMA Reads ==
  ASSUME TypeInv, RowInv, NEW S \in SUBSET Rows
  PROVE  LET T == {Read(n) : n \in S}
         IN  /\ \A i \in T : i.id < nextId /\ ~i.late
             /\ \A i, j \in T : i.id = j.id => i = j
<1>1. \A n \in S : Read(n).id = n /\ n < nextId
  BY RowsAre DEF RowInv
<1>2. \A n \in S : ~Read(n).late
  BY RowsAre
<1> QED
  BY <1>1, <1>2

\* Only the acting task's record and its leases change.
LEMMA OneTask ==
  ASSUME TypeInv, TypeInv', TaskInv, NEW t \in Tasks, NEW x, Moves(t, x), nextId' >= nextId,
         \A u \in Tasks \ {t}, n \in Ids : Holds(u, n)' <=> Holds(u, n),
         \A u \in Tasks \ {t}, n \in Ids : n < nextId => Mild(u, n),
         Fine(t)'
  PROVE  TaskInv'
<1>1. ASSUME NEW u \in Tasks, u # t PROVE Fine(u)'
  <2>1. task'[u] = task[u] /\ Fine(u)
    BY <1>1, MovesType DEF TaskInv, Fine
  <2> QED
    BY <1>1, <2>1, OtherTask
<1> QED
  BY <1>1 DEF TaskInv, Fine

LEMMA SameIsMild ==
  ASSUME TypeInv, UNCHANGED <<node, lease>>
  PROVE  \A u \in Tasks, n \in Ids : Mild(u, n) /\ (Holds(u, n)' <=> Holds(u, n))
BY DEF Mild, Holds

LEMMA ExpireStep ==
  ASSUME TypeInv, TypeInv', TaskInv, NEW x \in Keys, Expire(x)
  PROVE  TaskInv'
<1> DEFINE late(i) == IF i.id = x THEN [i EXCEPT !.late = TRUE] ELSE i
<1>1. PICK t \in Tasks : /\ t = lease[x].by
                         /\ Moves(t, [task[t] EXCEPT !.wave = {late(i) : i \in @}])
  BY ExpireMoves
<1> DEFINE W == {late(i) : i \in task[t].wave}
           r == [task[t] EXCEPT !.wave = W]
<1>2. Moves(t, r)
  BY <1>1
<1>3. node' = node /\ nextId' = nextId /\ nextId' >= nextId
  BY DEF Expire, TypeInv
<1>4. \A u \in Tasks, n \in Ids : n # x => (Holds(u, n)' <=> Holds(u, n))
  <2>1. \A n \in Ids : n # x => lease'[n] = lease[n]
    BY Basics DEF Expire, TypeInv
  <2> QED
    BY <2>1 DEF Holds
<1>5. x \in Ids => \A u \in Tasks : ~Holds(u, x)' /\ (Holds(u, x) => u = t)
  <2>1. lease[x] \in Lease /\ lease' = [lease EXCEPT ![x].live = FALSE]
    BY DEF Expire, TypeInv
  <2>2. lease'[x] = [lease[x] EXCEPT !.live = FALSE]
    BY <2>1 DEF TypeInv
  <2>3. ~lease'[x].live
    BY <2>1, <2>2 DEF Lease
  <2> QED
    BY <1>1, <2>3 DEF Holds
<1>6. \A u \in Tasks \ {t}, n \in Ids : Holds(u, n)' <=> Holds(u, n)
  BY <1>4, <1>5
<1>7. \A u \in Tasks, n \in Ids : Mild(u, n)
  BY <1>3 DEF Mild
<1>8. /\ r.wave = W /\ r.todo = task[t].todo /\ r.pc = task[t].pc /\ r.account = task[t].account
      /\ task'[t] = r
  <2> HIDE DEF W
  <2> QED
    BY <1>2, MovesType, TaskFields DEF Task
<1>9. \A i \in task[t].wave : /\ late(i).id = i.id
                              /\ i.id = x => late(i).late
                              /\ i.id # x => late(i) = i
  BY TaskFields DEF Item
<1>10. Shape(task[t], nextId) /\ Held(t) /\ Doomed(t)
  BY DEF TaskInv
<1> HIDE DEF r, late
<1>11. \A j \in W : \E i \in task[t].wave : j = late(i) /\ j.id = i.id
  BY <1>9
<1> HIDE DEF W
<1>12. Shape(r, nextId')
  <2>1. /\ \A i \in r.todo : i.id < nextId
        /\ \A i \in r.todo : ~i.late
        /\ \A i, j \in r.todo : i.id = j.id => i = j
    BY <1>8, <1>10 DEF Shape
  <2>2. \A j \in W : j.id < nextId
    BY <1>10, <1>11 DEF Shape
  <2>3. \A i, j \in W : i.id = j.id => i = j
    BY <1>10, <1>11 DEF Shape
  <2>4. \A i \in r.todo, j \in W : i.id # j.id
    BY <1>8, <1>10, <1>11 DEF Shape
  <2>5. r.pc \notin {"acquire", "save"} => W = {}
    BY <1>8, <1>10, <1>11 DEF Shape
  <2> QED
    BY <1>3, <1>8, <2>1, <2>2, <2>3, <2>4, <2>5 DEF Shape
<1>13. Held(t)'
  <2>1. ASSUME NEW j \in W
        PROVE  /\ j.late => ~Holds(t, j.id)'
               /\ ~j.late => /\ Holds(t, j.id)'
                             /\ node'[j.id] # NoNode => node'[j.id].error = "pending"
    <3>1. PICK i \in task[t].wave : j = late(i) /\ j.id = i.id
      BY <1>11
    <3>2. i.id \in Ids
      BY TaskFields
    <3>3. CASE i.id = x
      <4>1. j.late
        BY <1>9, <3>1, <3>3
      <4>2. ~Holds(t, x)'
        BY <1>5, <3>2, <3>3
      <4>3. j.id = x
        BY <3>1, <3>3
      <4> QED
        BY <4>1, <4>2, <4>3
    <3>4. CASE i.id # x
      <4>1. j = i
        BY <1>9, <3>1, <3>4
      <4>2. Holds(t, i.id)' <=> Holds(t, i.id)
        BY <1>4, <3>2, <3>4
      <4>3. /\ i.late => ~Holds(t, i.id)
            /\ ~i.late => Holds(t, i.id) /\ (node[i.id] # NoNode => node[i.id].error = "pending")
        BY <1>10 DEF Held
      <4>4. /\ i.late => ~Holds(t, i.id)'
            /\ ~i.late => /\ Holds(t, i.id)'
                          /\ node'[i.id] # NoNode => node'[i.id].error = "pending"
        BY <1>3, <4>2, <4>3
      <4> QED
        BY <4>1, <4>4
    <3> QED
      BY <3>3, <3>4
  <2> QED
    BY <1>8, <2>1 DEF Held
<1>14. Doomed(t)'
  BY <1>3, <1>8, <1>10 DEF Doomed
<1>15. Fine(t)'
  BY <1>8, <1>12, <1>13, <1>14 DEF Fine
<1> QED
  BY <1>2, <1>3, <1>6, <1>7, <1>15, OneTask

\* A task begins: it has read what exists and holds nothing.
LEMMA BeginStep ==
  ASSUME TypeInv, TypeInv', RowInv, TaskInv, NEW t \in Tasks,
         \/ \E n \in Ids : BeginCheck(t, n) \/ BeginDelete(t, n)
         \/ \E S \in SUBSET Rows : BeginMonitor(t, S)
         \/ \E a \in Accounts : BeginAccount(t, a)
  PROVE  TaskInv'
<1>1. UNCHANGED <<node, lease, nextId>> /\ nextId' >= nextId
  <2>1. node' = node /\ lease' = lease /\ nextId' = nextId
    BY DEF BeginCheck, BeginDelete, BeginMonitor, BeginAccount
  <2> QED
    BY <2>1 DEF TypeInv
<1>2. ASSUME NEW x, Moves(t, x), x.wave = {},
             \A i \in x.todo : i.id < nextId /\ ~i.late,
             \A i, j \in x.todo : i.id = j.id => i = j,
             x.pc = "delete" => \A i \in x.todo : node[i.id] # NoNode => node[i.id].account = x.account
      PROVE  TaskInv'
  <2>1. task'[t] = x
    BY <1>2, MovesType
  <2>2. Doomed(t)'
    BY <1>1, <1>2, <2>1 DEF Doomed
  <2>3. \A i \in x.todo : i.id < nextId' /\ ~i.late
    BY <1>1, <1>2
  <2>4. Fine(t)'
    BY <1>2, <2>1, <2>2, <2>3, NoProbes
  <2> QED
    BY <1>1, <1>2, <2>4, SameIsMild, OneTask
<1>3. ASSUME NEW n \in Ids, BeginCheck(t, n) PROVE TaskInv'
  <2> DEFINE x == [Idle EXCEPT !.pc = "acquire", !.todo = {Read(n)}, !.slots = 1]
  <2>1. x.wave = {} /\ x.todo = {Read(n)} /\ x.pc = "acquire"
    BY Basics DEF Idle
  <2>2. Moves(t, x)
    BY <1>3, BeginMoves
  <2>3. Read(n).id < nextId /\ ~Read(n).late
    BY <1>3, RowsAre DEF BeginCheck, RowInv
  <2> HIDE DEF x
  <2> QED
    BY <1>2, <2>1, <2>2, <2>3
<1>4. ASSUME NEW n \in Ids, BeginDelete(t, n) PROVE TaskInv'
  <2> DEFINE x == [Idle EXCEPT !.pc = "delete", !.todo = {Read(n)}, !.account = node[n].account]
  <2>1. x.wave = {} /\ x.todo = {Read(n)} /\ x.account = node[n].account
    BY Basics DEF Idle
  <2>2. Moves(t, x)
    BY <1>4, BeginMoves
  <2>3. Read(n).id = n /\ Read(n).id < nextId /\ ~Read(n).late
    BY <1>4, RowsAre DEF BeginDelete, RowInv
  <2> HIDE DEF x
  <2> QED
    BY <1>2, <2>1, <2>2, <2>3
<1>5. ASSUME NEW S \in SUBSET Rows, BeginMonitor(t, S) PROVE TaskInv'
  <2> DEFINE T == {Read(n) : n \in S}
             x == [Idle EXCEPT !.pc = "acquire", !.slots = MonitorWave, !.todo = T]
  <2>1. x.wave = {} /\ x.todo = T /\ x.pc = "acquire"
    BY Basics DEF Idle
  <2>2. Moves(t, x)
    BY <1>5, BeginMoves
  <2>3. /\ \A i \in T : i.id < nextId /\ ~i.late
        /\ \A i, j \in T : i.id = j.id => i = j
    BY Reads
  <2> HIDE DEF x, T
  <2> QED
    BY <1>2, <2>1, <2>2, <2>3
<1>6. ASSUME NEW a \in Accounts, BeginAccount(t, a) PROVE TaskInv'
  <2> DEFINE x == [Idle EXCEPT !.pc = "enter", !.account = a]
  <2>1. x.wave = {} /\ x.todo = {} /\ x.pc = "enter"
    BY Basics DEF Idle
  <2>2. Moves(t, x)
    BY <1>6, BeginMoves
  <2> HIDE DEF x
  <2> QED
    BY <1>2, <2>1, <2>2
<1> QED
  BY <1>3, <1>4, <1>5, <1>6

\* A record that changes its stage only.
LEMMA StageShape ==
  ASSUME TypeInv, NEW t \in Tasks, Shape(task[t], nextId), NEW x \in Task,
         x.todo = task[t].todo, x.wave = task[t].wave,
         x.pc \in {"acquire", "save"} \/ task[t].wave = {}
  PROVE  Shape(x, nextId)
BY Zenon DEF Shape

LEMMA GoesOnStep ==
  ASSUME TypeInv, TypeInv', RowInv, TaskInv, NEW t \in Tasks,
         \/ EnterAccount(t) \/ ListAccount(t) \/ Probed(t) \/ NextWave(t)
         \/ Finish(t) \/ Crash(t)
  PROVE  TaskInv'
<1>1. node' = node /\ nextId' = nextId /\ nextId' >= nextId
  <2>1. node' = node /\ nextId' = nextId
    BY DEF EnterAccount, ListAccount, Probed, NextWave, Finish, Crash
  <2> QED
    BY <2>1 DEF TypeInv
<1>2. \A u \in Tasks, n \in Ids : Mild(u, n)
  BY <1>1 DEF Mild
<1>3. \A u \in Tasks \ {t}, n \in Ids : Holds(u, n)' <=> Holds(u, n)
  <2>1. CASE EnterAccount(t)
    <3>0. PICK a \in Accounts \cup {NoAccount} : a = task[t].account
      BY TaskFields
    <3>1. lease' = Purged \/ (~Refused(a) /\ lease' = Granted(a, t))
      BY <2>1, <3>0 DEF EnterAccount
    <3>2. CASE lease' = Purged
      BY <3>2, PurgeHolds
    <3>3. CASE ~Refused(a) /\ lease' = Granted(a, t)
      <4>1. /\ \A u \in Tasks, n \in Ids \ {a} : Holds(u, n)' <=> Holds(u, n)
            /\ a \in Ids => \A u \in Tasks : ~Holds(u, a) /\ (Holds(u, a)' <=> u = t)
        BY <3>3, GrantHolds
      <4> QED
        BY <4>1
    <3> QED
      BY <3>1, <3>2, <3>3
  <2>2. CASE Finish(t)
    <3>1. lease' = lease \/ lease' = Returned(task[t].account, t)
      BY <2>2 DEF Finish
    <3>2. CASE lease' = lease
      BY <3>2 DEF Holds
    <3>3. CASE lease' = Returned(task[t].account, t)
      BY <3>3, ReturnHolds
    <3> QED
      BY <3>1, <3>2, <3>3
  <2>3. CASE lease' = lease
    BY <2>3 DEF Holds
  <2> QED
    BY <2>1, <2>2, <2>3 DEF ListAccount, Probed, NextWave, Crash
<1>4. Shape(task[t], nextId) /\ Held(t)
  BY DEF TaskInv
<1>5. ASSUME Moves(t, Idle) PROVE TaskInv'
  BY <1>1, <1>2, <1>3, <1>5, IdleFine, MovesType, OneTask
<1>6. ASSUME NEW x, Moves(t, x), x.todo = task[t].todo, x.wave = task[t].wave,
             x.pc \in {"acquire", "save"} \/ task[t].wave = {}, x.pc # "delete",
             lease' = lease \/ task[t].wave = {}
      PROVE  TaskInv'
  <2>1. task'[t] = x /\ x \in Task
    BY <1>6, MovesType DEF Moves
  <2>2. Shape(x, nextId')
    BY <1>1, <1>4, <1>6, <2>1, StageShape
  <2>3. Held(t)'
    <3>1. ASSUME lease' = lease PROVE \A n : Holds(t, n)' <=> Holds(t, n)
      BY <3>1 DEF Holds
    <3> QED
      BY <1>1, <1>4, <1>6, <2>1, <3>1, Zenon DEF Held
  <2>4. Doomed(t)'
    BY <1>6, <2>1 DEF Doomed
  <2>5. Fine(t)'
    BY <2>1, <2>2, <2>3, <2>4 DEF Fine
  <2> QED
    BY <1>1, <1>2, <1>3, <1>6, <2>5, OneTask
<1>7. \A pc \in PC : LET x == [task[t] EXCEPT !.pc = pc]
                     IN  x.todo = task[t].todo /\ x.wave = task[t].wave /\ x.pc = pc
  BY TaskFields DEF Task
<1>8. task[t].pc \notin {"acquire", "save"} => task[t].wave = {}
  BY <1>4 DEF Shape
<1>9. CASE EnterAccount(t)
  <2>1. CASE Moves(t, Idle)
    BY <1>5, <2>1
  <2>2. CASE Moves(t, [task[t] EXCEPT !.pc = "list"])
    <3> DEFINE x == [task[t] EXCEPT !.pc = "list"]
    <3>1. x.todo = task[t].todo /\ x.wave = task[t].wave /\ x.pc = "list"
      BY <1>7 DEF PC
    <3>2. task[t].wave = {}
      BY <1>8, <1>9 DEF EnterAccount
    <3>3. Moves(t, x)
      BY <2>2
    <3> HIDE DEF x
    <3> QED
      BY <1>6, <3>1, <3>2, <3>3
  <2> QED
    BY <1>9, <2>1, <2>2, GoesOnMoves
<1>10. CASE ListAccount(t)
  <2>1. PICK S \in SUBSET NodesOf(task[t].account) :
          Moves(t, [task[t] EXCEPT !.pc = "acquire", !.slots = AccountWave, !.todo = {Read(n) : n \in S}])
    BY <1>10, GoesOnMoves
  <2> DEFINE T == {Read(n) : n \in S}
             x == [task[t] EXCEPT !.pc = "acquire", !.slots = AccountWave, !.todo = T]
  <2>2. Moves(t, x)
    BY <2>1
  <2>3. /\ \A i \in T : i.id < nextId /\ ~i.late
        /\ \A i, j \in T : i.id = j.id => i = j
    BY RowsAre, Reads
  <2> HIDE DEF T
  <2>4. x.todo = T /\ x.wave = task[t].wave /\ x.pc = "acquire"
    BY TaskFields DEF Task
  <2>5. task[t].wave = {}
    BY <1>8, <1>10 DEF ListAccount
  <2>6. task'[t] = x
    BY <2>2, MovesType
  <2> HIDE DEF x
  <2>7. Doomed(t)'
    BY <2>4, <2>6 DEF Doomed
  <2>8. \A i \in task'[t].todo : i.id < nextId' /\ ~i.late
    BY <1>1, <2>3, <2>4, <2>6
  <2>9. \A i, j \in task'[t].todo : i.id = j.id => i = j
    BY <2>3, <2>4, <2>6
  <2>10. Fine(t)'
    BY <2>4, <2>5, <2>6, <2>7, <2>8, <2>9, NoProbes
  <2> QED
    BY <1>1, <1>2, <1>3, <2>2, <2>10, OneTask
<1>11. CASE Probed(t)
  <2> DEFINE x == [task[t] EXCEPT !.pc = "save"]
  <2>1. x.todo = task[t].todo /\ x.wave = task[t].wave /\ x.pc = "save"
    BY <1>7 DEF PC
  <2>2. Moves(t, x) /\ lease' = lease
    BY <1>11, GoesOnMoves DEF Probed
  <2> HIDE DEF x
  <2> QED
    BY <1>6, <2>1, <2>2
<1>12. CASE NextWave(t)
  <2>1. PICK k \in Nat : Moves(t, [task[t] EXCEPT !.pc = "acquire", !.slots = k])
    BY <1>12, GoesOnMoves
  <2> DEFINE x == [task[t] EXCEPT !.pc = "acquire", !.slots = k]
  <2>2. x.todo = task[t].todo /\ x.wave = task[t].wave /\ x.pc = "acquire"
    BY TaskFields DEF Task
  <2>3. Moves(t, x) /\ lease' = lease
    BY <1>12, <2>1 DEF NextWave
  <2> HIDE DEF x
  <2> QED
    BY <1>6, <2>2, <2>3
<1>13. CASE Finish(t) \/ Crash(t)
  BY <1>5, <1>13, GoesOnMoves
<1> QED
  BY <1>9, <1>10, <1>11, <1>12, <1>13

LEMMA AcquireStep ==
  ASSUME TypeInv, TypeInv', TaskInv, NEW t \in Tasks, NEW i \in task[t].todo, Acquire(t, i)
  PROVE  TaskInv'
<1> DEFINE W == IF Refused(i.id) THEN task[t].wave ELSE task[t].wave \cup {i}
           x == [task[t] EXCEPT !.todo = @ \ {i}, !.slots = @ - 1,
                   !.wave = IF Refused(i.id) THEN @ ELSE @ \cup {i}]
<1>1. nextId' = nextId /\ nextId' >= nextId
  <2>1. nextId' = nextId
    BY DEF Acquire
  <2> QED
    BY <2>1 DEF TypeInv
<1>2. i.id \in Ids /\ i \in Item
  BY TaskFields
<1>3. \A u \in Tasks, n \in Ids : Mild(u, n)
  <2>1. \A n \in Ids : Kept(n) /\ (node'[n] = node[n] \/ node'[n].error = "pending")
    BY AcquireRows
  <2>2. \A n \in Ids : node'[n] = NoNode \/ (node[n] # NoNode /\ node'[n].account = node[n].account)
    BY <2>1 DEF Kept
  <2>3. \A n \in Ids : node'[n] = NoNode \/ node'[n].error = node[n].error \/ node'[n].error = "pending"
    BY <2>1
  <2> QED
    BY <2>2, <2>3 DEF Mild
<1>4. /\ \A u \in Tasks \ {t}, n \in Ids : Holds(u, n)' <=> Holds(u, n)
      /\ \A n \in Ids \ {i.id} : Holds(t, n)' <=> Holds(t, n)
      /\ Refused(i.id) => (Holds(t, i.id)' <=> Holds(t, i.id))
      /\ ~Refused(i.id) => Holds(t, i.id)'
  <2>1. CASE Refused(i.id)
    <3>1. lease' = Purged
      BY <2>1 DEF Acquire
    <3> QED
      BY <1>2, <2>1, <3>1, PurgeHolds
  <2>2. CASE ~Refused(i.id)
    <3>1. lease' = Granted(i.id, t)
      BY <2>2 DEF Acquire
    <3>2. /\ \A u \in Tasks, n \in Ids \ {i.id} : Holds(u, n)' <=> Holds(u, n)
          /\ \A u \in Tasks : ~Holds(u, i.id) /\ (Holds(u, i.id)' <=> u = t)
      BY <1>2, <2>2, <3>1, GrantHolds
    <3> QED
      BY <2>2, <3>2
  <2> QED
    BY <2>1, <2>2
<1>5. Moves(t, x)
  BY AcquireMoves
<1>6. /\ x.todo = task[t].todo \ {i} /\ x.wave = W /\ x.pc = "acquire"
      /\ task'[t] = x
  <2>1. task'[t] = x
    BY <1>5, MovesType
  <2>2. task[t].pc = "acquire"
    BY DEF Acquire
  <2>3. task[t] \in Task
    BY TaskFields
  <2>4. x = [task[t] EXCEPT !.todo = task[t].todo \ {i}, !.slots = task[t].slots - 1, !.wave = W]
    OBVIOUS
  <2> HIDE DEF x, W
  <2>5. x.todo = task[t].todo \ {i} /\ x.wave = W /\ x.pc = task[t].pc
    BY <2>3, <2>4 DEF Task
  <2> QED
    BY <2>1, <2>2, <2>5
<1> HIDE DEF x
<1>7. Shape(task[t], nextId) /\ Held(t)
  BY DEF TaskInv
<1>8. W \subseteq task[t].wave \cup {i}
  OBVIOUS
<1>9. Shape(x, nextId')
  <2>1. \A j \in x.todo \cup x.wave : j.id < nextId'
    BY <1>1, <1>6, <1>7, <1>8 DEF Shape
  <2>2. \A j \in x.todo : ~j.late
    BY <1>6, <1>7 DEF Shape
  <2>3. \A j, k \in x.todo : j.id = k.id => j = k
    BY <1>6, <1>7 DEF Shape
  <2>4. \A j, k \in x.wave : j.id = k.id => j = k
    BY <1>6, <1>7, <1>8 DEF Shape
  <2>5. \A j \in x.todo, k \in x.wave : j.id # k.id
    BY <1>6, <1>7, <1>8 DEF Shape
  <2> QED
    BY <1>6, <2>1, <2>2, <2>3, <2>4, <2>5 DEF Shape
<1>10. Held(t)'
  <2>1. ASSUME NEW j \in task[t].wave, Holds(t, j.id)' <=> Holds(t, j.id)
        PROVE  /\ j.late => ~Holds(t, j.id)'
               /\ ~j.late => Holds(t, j.id)' /\ (node'[j.id] # NoNode => node'[j.id].error = "pending")
    <3>1. Mild(t, j.id)
      BY <1>3, TaskFields
    <3>2. /\ j.late => ~Holds(t, j.id)
          /\ ~j.late => Holds(t, j.id) /\ (node[j.id] # NoNode => node[j.id].error = "pending")
      BY <1>7 DEF Held
    <3>3. Holds(t, j.id) /\ (node[j.id] # NoNode => node[j.id].error = "pending")
            => (node'[j.id] # NoNode => node'[j.id].error = "pending")
      BY <3>1 DEF Mild
    <3> QED
      BY <2>1, <3>2, <3>3
  <2>2. \A j \in task[t].wave : j.id \in Ids /\ j.id # i.id
    BY <1>7, TaskFields DEF Shape
  <2>3. \A j \in task[t].wave : Holds(t, j.id)' <=> Holds(t, j.id)
    BY <1>4, <2>2
  <2>4. ~Refused(i.id) => Holds(t, i.id)' /\ (node'[i.id] # NoNode => node'[i.id].error = "pending")
    BY <1>4, AcquireRows
  <2>5. ~i.late
    BY <1>7 DEF Shape
  <2>6. \A j \in W : j \in task[t].wave \/ (j = i /\ ~Refused(i.id))
    OBVIOUS
  <2> HIDE DEF W
  <2>7. ASSUME NEW j \in W
        PROVE  /\ j.late => ~Holds(t, j.id)'
               /\ ~j.late => Holds(t, j.id)' /\ (node'[j.id] # NoNode => node'[j.id].error = "pending")
    <3>1. CASE j \in task[t].wave
      BY <2>1, <2>3, <3>1
    <3>2. CASE j = i /\ ~Refused(i.id)
      BY <2>4, <2>5, <3>2
    <3> QED
      BY <2>6, <3>1, <3>2
  <2> QED
    BY <1>6, <2>7 DEF Held
<1>11. Doomed(t)'
  BY <1>6 DEF Doomed
<1>12. Fine(t)'
  BY <1>6, <1>9, <1>10, <1>11 DEF Fine
<1> QED
  BY <1>1, <1>3, <1>4, <1>5, <1>12, OneTask

LEMMA SaveStep ==
  ASSUME TypeInv, TypeInv', TaskInv, NEW t \in Tasks, NEW i \in task[t].wave,
         NEW finished \in BOOLEAN, Save(t, i, finished)
  PROVE  TaskInv'
<1> DEFINE x == [task[t] EXCEPT !.wave = @ \ {i}]
<1>1. nextId' = nextId /\ nextId' >= nextId
  <2>1. nextId' = nextId
    BY DEF Save
  <2> QED
    BY <2>1 DEF TypeInv
<1>2. i.id \in Ids /\ i \in Item
  BY TaskFields
<1>3. /\ \A u \in Tasks, n \in Ids \ {i.id} : Holds(u, n)' <=> Holds(u, n)
      /\ \A u \in Tasks \ {t}, n \in Ids : Holds(u, n)' <=> Holds(u, n)
  <2>1. lease' = Returned(i.id, t)
    BY DEF Save
  <2> QED
    BY <2>1, ReturnHolds
<1>4. \A u \in Tasks \ {t}, n \in Ids : Mild(u, n)
  <2> SUFFICES ASSUME NEW u \in Tasks, u # t, NEW n \in Ids PROVE Mild(u, n)
    OBVIOUS
  <2>1. CASE node'[n] = node[n]
    BY <2>1 DEF Mild
  <2>2. CASE node'[n] # node[n]
    <3>1. n = i.id /\ Stores(t, i)
      BY <2>2, SaveRows
    <3>2. ~Holds(u, n)
      BY <2>2, <3>1 DEF Stores, Owns, Holds
    <3>3. node[n] # NoNode /\ node'[n].account = node[n].account
      BY <2>2, SaveRows DEF Kept
    <3> QED
      BY <3>2, <3>3 DEF Mild
  <2> QED
    BY <2>1, <2>2
<1>5. Moves(t, x)
  BY SaveMoves
<1>6. /\ x.todo = task[t].todo /\ x.wave = task[t].wave \ {i} /\ x.pc = "save"
      /\ task'[t] = x
  BY <1>5, MovesType, TaskFields DEF Task, Save
<1> HIDE DEF x
<1>7. Shape(task[t], nextId) /\ Held(t)
  BY DEF TaskInv
<1>8. Shape(x, nextId')
  BY <1>1, <1>6, <1>7, Zenon DEF Shape
<1>9. Held(t)'
  <2>1. \A j \in x.wave : j \in task[t].wave /\ j.id \in Ids /\ j.id # i.id
    BY <1>6, <1>7, TaskFields DEF Shape
  <2>2. \A j \in x.wave : node'[j.id] = node[j.id] /\ (Holds(t, j.id)' <=> Holds(t, j.id))
    BY <1>3, <2>1, SaveRows
  <2>3. ASSUME NEW j \in x.wave
        PROVE  /\ j.late => ~Holds(t, j.id)'
               /\ ~j.late => Holds(t, j.id)' /\ (node'[j.id] # NoNode => node'[j.id].error = "pending")
    <3>1. /\ j.late => ~Holds(t, j.id)
          /\ ~j.late => Holds(t, j.id) /\ (node[j.id] # NoNode => node[j.id].error = "pending")
      BY <1>7, <2>1 DEF Held
    <3> QED
      BY <2>2, <3>1
  <2> QED
    BY <1>6, <2>3 DEF Held
<1>10. Doomed(t)'
  BY <1>6 DEF Doomed
<1>11. Fine(t)'
  BY <1>6, <1>8, <1>9, <1>10 DEF Fine
<1> QED
  BY <1>1, <1>3, <1>4, <1>5, <1>11, OneTask

\* Deletions and syncs take rows away and leave the leases.
LEMMA RemoveStep ==
  ASSUME TypeInv, TypeInv', RowInv, TaskInv,
         \/ \E t \in Tasks : \E i \in task[t].todo : DeleteNode(t, i)
         \/ \E a \in Accounts : DeleteAccount(a)
         \/ \E a \in Accounts, k \in 1 .. MaxNodes : \E S \in [1 .. k -> Configs] : Replace(a, S)
  PROVE  TaskInv'
<1>1. \A u \in Tasks, n \in Ids : Holds(u, n)' <=> Holds(u, n)
  <2>1. lease' = lease
    BY DEF DeleteNode, DeleteAccount, Replace
  <2> QED
    BY <2>1 DEF Holds
<1>2. ASSUME NEW n \in Ids, node'[n] \in {node[n], NoNode} PROVE \A u \in Tasks : Mild(u, n)
  BY <1>2 DEF Mild
<1>3. ASSUME NEW t \in Tasks, NEW i \in task[t].todo, DeleteNode(t, i) PROVE TaskInv'
  <2>1. \A u \in Tasks, n \in Ids : Mild(u, n)
    BY <1>2, <1>3, DeleteRows
  <2>2. Moves(t, Idle)
    BY <1>3, Basics DEF DeleteNode, Moves
  <2>3. nextId' = nextId
    BY <1>3 DEF DeleteNode
  <2>4. nextId' >= nextId
    BY <2>3 DEF TypeInv
  <2> QED
    BY <1>1, <2>1, <2>2, <2>4, IdleFine, MovesType, OneTask
<1>4. ASSUME task' = task, nextId' >= nextId, \A u \in Tasks, n \in Ids : n < nextId => Mild(u, n)
      PROVE  TaskInv'
  <2>1. \A u \in Tasks : Fine(u)
    BY DEF TaskInv, Fine
  <2>2. \A u \in Tasks : Fine(u)'
    BY <1>1, <1>4, <2>1, OtherTask
  <2> QED
    BY <2>2 DEF TaskInv, Fine
<1>5. ASSUME NEW a \in Accounts, DeleteAccount(a) PROVE TaskInv'
  <2>1. \A n \in Ids : node'[n] \in {node[n], NoNode}
    BY <1>5, DeleteAccountRows
  <2>2. task' = task /\ nextId' = nextId
    BY <1>5 DEF DeleteAccount
  <2>3. nextId' >= nextId
    BY <2>2 DEF TypeInv
  <2> QED
    BY <1>2, <1>4, <2>1, <2>2, <2>3
<1>6. ASSUME NEW a \in Accounts, NEW k \in 1 .. MaxNodes, NEW S \in [1 .. k -> Configs], Replace(a, S)
      PROVE  TaskInv'
  <2>1. \A n \in Ids : n < nextId => node'[n] \in {node[n], NoNode}
    BY <1>6, ReplaceRows
  <2>2. task' = task
    BY <1>6 DEF Replace
  <2>3. nextId' = nextId + k
    BY <1>6, ReplaceRows
  <2>4. nextId' >= nextId
    BY <2>3 DEF TypeInv
  <2> QED
    BY <1>2, <1>4, <2>1, <2>2, <2>4
<1> QED
  BY <1>3, <1>5, <1>6

LEMMA TaskStep == TypeInv /\ TypeInv' /\ RowInv /\ TaskInv /\ [Next]_vars => TaskInv'
<1> SUFFICES ASSUME TypeInv, TypeInv', RowInv, TaskInv, [Next]_vars PROVE TaskInv'
  OBVIOUS
<1>1. CASE UNCHANGED vars
  BY <1>1 DEF vars, TaskInv, Held, Doomed, Holds
<1>2. ASSUME Next PROVE TaskInv'
  BY <1>2, NextCases, ExpireStep, BeginStep, GoesOnStep, AcquireStep, SaveStep, RemoveStep
<1> QED
  BY <1>1, <1>2

-----------------------------------------------------------------------------
(* The counts.                                                             *)

LEMMA CountStep ==
  TypeInv /\ TypeInv' /\ RowInv /\ RowInv' /\ TaskInv /\ CountInv /\ [Next]_vars => CountInv'
<1> SUFFICES ASSUME TypeInv, TypeInv', RowInv, RowInv', TaskInv, CountInv, [Next]_vars
             PROVE  CountInv'
  OBVIOUS
<1>1. \A a : NodesOf(a) \in SUBSET Ids /\ NodesOf(a)' \in SUBSET Ids
  BY RowsAre DEF NodesOf, Rows
<1>2. ASSUME count' = count, alive' \subseteq alive,
             \A a \in alive' : NodesOf(a)' = NodesOf(a)
      PROVE  CountInv'
  BY <1>2 DEF CountInv
<1>3. ASSUME NEW t \in Tasks, NEW i \in task[t].todo, Acquire(t, i) PROVE CountInv'
  <2>1. count' = count /\ alive' = alive /\ nextId' = nextId
    BY <1>3 DEF Acquire
  <2>2. \A a \in Accounts : NodesOf(a)' = NodesOf(a)
    BY <1>3, <2>1, AcquireRows, KeptRows
  <2> QED
    BY <1>2, <2>1, <2>2 DEF TypeInv
<1>4. ASSUME NEW t \in Tasks, NEW i \in task[t].wave, NEW finished \in BOOLEAN, Save(t, i, finished)
      PROVE  CountInv'
  <2>1. count' = count /\ alive' = alive /\ nextId' = nextId
    BY <1>4 DEF Save
  <2>2. \A a \in Accounts : NodesOf(a)' = NodesOf(a)
    BY <1>4, <2>1, SaveRows, KeptRows
  <2> QED
    BY <1>2, <2>1, <2>2 DEF TypeInv
<1>5. ASSUME NEW t \in Tasks, NEW i \in task[t].todo, DeleteNode(t, i) PROVE CountInv'
  <2>1. i.id \in Ids /\ alive' = alive
    BY <1>5, TaskFields DEF DeleteNode
  <2>2. CASE i.id \notin Rows
    <3>1. node' = node /\ count' = count
      <4>1. node[i.id] = NoNode
        BY <2>1, <2>2, RowsAre
      <4> QED
        BY <1>5, <2>2, <4>1 DEF DeleteNode, TypeInv
    <3> QED
      BY <1>2, <2>1, <3>1 DEF NodesOf, Rows
  <2>3. CASE i.id \in Rows
    <3>0. /\ node[i.id].account = task[t].account
          /\ task[t].account \in alive /\ task[t].account \in Accounts
      BY <1>5, <2>3, RowsAre DEF TaskInv, Doomed, DeleteNode, RowInv
    <3>a. PICK a \in Accounts : a = task[t].account
      BY <3>0
    <3>1. node[i.id].account = a /\ a \in alive
      BY <3>0, <3>a
    <3>2. count' = [count EXCEPT ![a] = @ - 1]
      BY <1>5, <2>3, <3>a DEF DeleteNode
    <3>3. i.id \in NodesOf(a)
      BY <2>3, <3>1 DEF NodesOf
    <3>4. \A n \in Ids : n \in Rows' <=> n \in Rows /\ n # i.id
      BY <1>5, DeleteRows DEF Rows
    <3>5. \A n \in Rows' : node'[n] = node[n]
      BY <1>5, <3>4, DeleteRows DEF Rows
    <3>6. NodesOf(a)' = NodesOf(a) \ {i.id}
      BY <3>4, <3>5 DEF NodesOf, Rows
    <3>7. \A b \in Accounts \ {a} : NodesOf(b)' = NodesOf(b)
      BY <3>1, <3>4, <3>5 DEF NodesOf, Rows
    <3>8. Cardinality(NodesOf(a)') = Cardinality(NodesOf(a)) - 1
      BY <1>1, <3>3, <3>6, FiniteIds, FS_RemoveElement
    <3>9. Cardinality(NodesOf(a)') \in Nat
      BY <1>1, FiniteIds
    <3>10. count[a] = Cardinality(NodesOf(a)) /\ count[a] \in 0 .. MaxNodes
      BY <3>1 DEF CountInv
    <3>11. count[a] - 1 \in 0 .. MaxNodes
      BY <3>8, <3>9, <3>10
    <3>12. count' \in [Accounts -> 0 .. MaxNodes]
      <4>1. count \in [Accounts -> 0 .. MaxNodes]
        BY DEF CountInv
      <4> QED
        BY <3>2, <3>11, <4>1
    <3>13. ASSUME NEW b \in alive PROVE count'[b] = Cardinality(NodesOf(b)')
      <4>1. CASE b = a
        BY <3>1, <3>2, <3>8, <3>10, <4>1 DEF CountInv
      <4>2. CASE b # a
        BY <3>1, <3>2, <3>7, <4>2 DEF CountInv, TypeInv
      <4> QED
        BY <4>1, <4>2
    <3> QED
      BY <2>1, <3>12, <3>13 DEF CountInv
  <2> QED
    BY <2>2, <2>3
<1>6. ASSUME NEW a \in Accounts, DeleteAccount(a) PROVE CountInv'
  <2>1. count' = count /\ alive' = alive \ {a}
    BY <1>6 DEF DeleteAccount
  <2>2. \A n \in Ids : n \in Rows' <=> n \in Rows /\ n \notin NodesOf(a)
    BY <1>6, DeleteAccountRows DEF Rows, NodesOf
  <2>3. \A n \in Rows' : node'[n] = node[n]
    BY <1>6, <2>2, DeleteAccountRows DEF Rows
  <2>4. \A b \in alive' : NodesOf(b)' = NodesOf(b)
    BY <2>1, <2>2, <2>3 DEF NodesOf, Rows
  <2> QED
    BY <1>2, <2>1, <2>4
<1>7. ASSUME NEW a \in Accounts, NEW k \in 1 .. MaxNodes, NEW S \in [1 .. k -> Configs], Replace(a, S)
      PROVE  CountInv'
  <2>0. nextId \in Nat /\ k \in Nat /\ Ids \subseteq Nat /\ Rows' \subseteq Ids
    BY Basics DEF TypeInv, Rows
  <2>1. Len(S) = k /\ k \in 0 .. MaxNodes
    BY LenOf
  <2>2. count' = [count EXCEPT ![a] = k] /\ alive' = alive /\ a \in alive
    BY <1>7, <2>1 DEF Replace
  <2> DEFINE new == nextId .. nextId + k - 1
  <2>3. /\ new \subseteq Ids
        /\ \A n \in new : n \in Ids /\ node'[n] # NoNode /\ node'[n].account = a
        /\ \A n \in Ids : n < nextId => node'[n] = IF n \in NodesOf(a) THEN NoNode ELSE node[n]
        /\ \A n \in Ids : n >= nextId + k => node'[n] = NoNode
    BY <1>7, ReplaceRows
  <2>4. \A n \in Ids : n \in new \/ n < nextId \/ n >= nextId + k
    BY <2>0
  <2>5. \A n \in Rows : n \notin new /\ n < nextId
    BY <2>0 DEF RowInv, Rows
  <2>6. Cardinality(new) = k
    BY <2>0, FS_Interval
  <2> HIDE DEF new
  <2>7. \A n \in Ids : n \in Rows' <=> n \in new \/ (n \in Rows /\ n \notin NodesOf(a))
    BY <2>3, <2>4, <2>5 DEF Rows
  <2>8. \A n \in Rows : n \notin NodesOf(a) => node'[n] = node[n]
    BY <2>3, <2>5, RowsAre
  <2>9. NodesOf(a)' = new
    <3>1. \A n \in new : n \in Rows' /\ node'[n].account = a
      BY <2>3, <2>7
    <3>2. \A n \in Rows : n \notin NodesOf(a) => node[n].account # a
      BY DEF NodesOf
    <3>3. \A n \in Rows' : n \notin new => node'[n].account # a
      BY <2>0, <2>7, <2>8, <3>2
    <3> QED
      BY <3>1, <3>3 DEF NodesOf
  <2>10. ASSUME NEW b \in Accounts \ {a} PROVE NodesOf(b)' = NodesOf(b)
    <3>1. \A n \in new : n \notin Rows /\ node'[n].account = a
      BY <2>3, <2>5
    <3>2. \A n \in NodesOf(b) : n \in Rows /\ n \in Ids /\ n \notin NodesOf(a)
      BY RowsAre DEF NodesOf
    <3>3. \A n \in NodesOf(b) : n \in Rows' /\ node'[n].account = b
      BY <2>7, <2>8, <3>2 DEF NodesOf
    <3>4. \A n \in Rows' : node'[n].account = b => n \in Rows /\ node[n].account = b
      BY <2>0, <2>7, <2>8, <3>1
    <3> QED
      BY <3>3, <3>4 DEF NodesOf
  <2>11. count' \in [Accounts -> 0 .. MaxNodes]
    BY <2>1, <2>2 DEF CountInv
  <2>12. ASSUME NEW b \in alive PROVE count'[b] = Cardinality(NodesOf(b)')
    <3>1. CASE b = a
      BY <2>2, <2>6, <2>9, <3>1 DEF CountInv
    <3>2. CASE b # a
      BY <2>2, <2>10, <3>2 DEF CountInv, TypeInv
    <3> QED
      BY <3>1, <3>2
  <2> QED
    BY <2>2, <2>11, <2>12 DEF CountInv
<1>8. CASE UNCHANGED <<node, nextId, alive, count>>
  BY <1>2, <1>8 DEF NodesOf, Rows
<1> QED
  BY <1>3, <1>4, <1>5, <1>6, <1>7, <1>8, SameRows

-----------------------------------------------------------------------------
(* The limit of the leases.                                                *)

LEMMA LiveAre == LiveIds \in SUBSET Ids /\ IsFiniteSet(LiveIds) /\ Cardinality(LiveIds) \in Nat
BY FiniteIds DEF LiveIds

\* Leases of other keys may go, none becomes live.
LEMMA FewerLive ==
  ASSUME LeaseInv, LiveIds' \subseteq LiveIds
  PROVE  LeaseInv'
<1>1. Cardinality(LiveIds') <= Cardinality(LiveIds)
  BY LiveAre, FS_Subset
<1>2. Cardinality(LiveIds') \in Nat
  BY LiveAre, FS_Subset, FS_CardinalityType
<1> QED
  BY <1>1, <1>2, LiveAre DEF LeaseInv

LEMMA PurgedLive ==
  ASSUME TypeInv
  PROVE  {n \in Ids : Purged[n] # NoLease} = LiveIds
<1>1. \A n \in Ids : Purged[n] # NoLease <=> lease[n] # NoLease /\ lease[n].live
  BY Basics DEF Purged
<1> QED
  BY <1>1 DEF LiveIds

LEMMA PurgeStep ==
  ASSUME TypeInv, LeaseInv, lease' = Purged
  PROVE  LeaseInv'
<1>1. \A n \in Ids : lease'[n] # NoLease /\ lease'[n].live => lease[n] # NoLease /\ lease[n].live
  BY Basics DEF Purged
<1> QED
  BY <1>1, FewerLive DEF LiveIds

LEMMA GrantStep ==
  ASSUME TypeInv, LeaseInv, NEW x, NEW t \in Tasks, ~Refused(x), lease' = Granted(x, t)
  PROVE  LeaseInv'
<1>1. \A n \in Ids : n # x => (lease'[n] # NoLease /\ lease'[n].live => n \in LiveIds)
  BY Basics DEF Granted, Purged, LiveIds
<1>2. CASE x \notin Ids
  BY <1>1, <1>2, FewerLive DEF LiveIds
<1>3. CASE x \in Ids
  <2>1. LiveIds' \subseteq LiveIds \cup {x}
    BY <1>1 DEF LiveIds
  <2>2. Cardinality(LiveIds) < Cap
    BY <1>3, PurgedLive, LiveAre DEF Refused
  <2>3. /\ IsFiniteSet(LiveIds \cup {x})
        /\ Cardinality(LiveIds \cup {x}) \in Nat
        /\ Cardinality(LiveIds \cup {x}) <= Cardinality(LiveIds) + 1
    <3>1. PICK L : L = LiveIds
      OBVIOUS
    <3>2. IsFiniteSet(L \cup {x}) /\ Cardinality(L \cup {x}) \in {Cardinality(L), Cardinality(L) + 1}
      BY <3>1, LiveAre, FS_AddElement
    <3> QED
      BY <3>1, <3>2, LiveAre, FS_CardinalityType
  <2>4. Cardinality(LiveIds') <= Cardinality(LiveIds \cup {x}) /\ Cardinality(LiveIds') \in Nat
    BY <2>1, <2>3, FS_Subset, FS_CardinalityType
  <2> QED
    BY <2>2, <2>3, <2>4, LiveAre DEF LeaseInv
<1> QED
  BY <1>2, <1>3

LEMMA ReturnStep ==
  ASSUME TypeInv, LeaseInv, NEW x, NEW t \in Tasks, lease' = Returned(x, t)
  PROVE  LeaseInv'
<1>1. \A n \in Ids : lease'[n] = lease[n] \/ lease'[n] = NoLease
  BY Basics DEF Returned, TypeInv
<1> QED
  BY <1>1, FewerLive DEF LiveIds

LEMMA LeaseStep == TypeInv /\ TypeInv' /\ LeaseInv /\ [Next]_vars => LeaseInv'
<1> SUFFICES ASSUME TypeInv, TypeInv', LeaseInv, [Next]_vars PROVE LeaseInv'
  OBVIOUS
<1>1. ASSUME NEW x \in Keys, Expire(x) PROVE LeaseInv'
  <2>1. lease[x] \in Lease /\ lease' = [lease EXCEPT ![x].live = FALSE]
    BY <1>1 DEF Expire, TypeInv
  <2>2. lease'[x] = [lease[x] EXCEPT !.live = FALSE]
    BY <2>1 DEF TypeInv
  <2>3. ~lease'[x].live
    BY <2>1, <2>2 DEF Lease
  <2>4. \A n \in Ids : n # x => lease'[n] = lease[n]
    BY <2>1, Basics DEF TypeInv
  <2> QED
    BY <2>3, <2>4, FewerLive DEF LiveIds
<1>2. ASSUME NEW t \in Tasks, EnterAccount(t) PROVE LeaseInv'
  BY <1>2, PurgeStep, GrantStep DEF EnterAccount
<1>3. ASSUME NEW t \in Tasks, NEW i \in task[t].todo, Acquire(t, i) PROVE LeaseInv'
  BY <1>3, PurgeStep, GrantStep DEF Acquire
<1>4. ASSUME NEW t \in Tasks, NEW i \in task[t].wave, NEW finished \in BOOLEAN, Save(t, i, finished)
      PROVE  LeaseInv'
  BY <1>4, ReturnStep DEF Save
<1>5. CASE lease' = lease
  BY <1>5, FewerLive DEF LiveIds
<1>6. ASSUME NEW t \in Tasks, Finish(t) PROVE LeaseInv'
  BY <1>5, <1>6, ReturnStep DEF Finish
<1>7. ASSUME NEW t \in Tasks, ListAccount(t) \/ Probed(t) \/ NextWave(t) \/ Crash(t)
      PROVE  lease' = lease
  BY <1>7 DEF ListAccount, Probed, NextWave, Crash
<1>8. ASSUME NEW t \in Tasks, \/ \E n \in Ids : BeginCheck(t, n) \/ BeginDelete(t, n)
                              \/ \E S \in SUBSET Rows : BeginMonitor(t, S)
                              \/ \E a \in Accounts : BeginAccount(t, a)
                              \/ \E i \in task[t].todo : DeleteNode(t, i)
      PROVE  lease' = lease
  BY <1>8 DEF BeginCheck, BeginDelete, BeginMonitor, BeginAccount, DeleteNode
<1>9. ASSUME NEW a \in Accounts, \/ DeleteAccount(a)
                                 \/ \E k \in 1 .. MaxNodes : \E S \in [1 .. k -> Configs] : Replace(a, S)
      PROVE  lease' = lease
  BY <1>9 DEF DeleteAccount, Replace
<1>10. CASE UNCHANGED vars
  BY <1>5, <1>10 DEF vars
<1> QED
  BY <1>1, <1>2, <1>3, <1>4, <1>5, <1>6, <1>7, <1>8, <1>9, <1>10, NextCases

-----------------------------------------------------------------------------
(* The theorems.                                                           *)

LEMMA InitInv == Init => Inv
<1> SUFFICES ASSUME Init PROVE Inv
  OBVIOUS
<1>1. TypeInv
  BY Basics DEF Init, TypeInv
<1>2. Rows = {} /\ LiveIds = {}
  BY Basics DEF Init, Rows, LiveIds
<1>3. RowInv
  BY <1>2 DEF RowInv
<1>4. \A u \in Tasks : task[u] = Idle
  BY DEF Init
<1>5. TaskInv
  <2>1. \A u \in Tasks : task[u].wave = {} /\ task[u].todo = {} /\ task[u].pc = "idle"
    BY <1>4, Basics
  <2> QED
    BY <2>1 DEF TaskInv, Shape, Held, Doomed
<1>6. CountInv
  <2>1. \A a : NodesOf(a) = {}
    BY <1>2 DEF NodesOf
  <2>2. Cardinality({}) = 0
    BY FS_EmptySet
  <2> QED
    BY <2>1, <2>2 DEF Init, CountInv
<1>7. LeaseInv
  BY <1>2, FS_EmptySet DEF LeaseInv
<1> QED
  BY <1>1, <1>3, <1>5, <1>6, <1>7 DEF Inv

LEMMA InvHolds == Spec => []Inv
<1>1. Inv /\ [Next]_vars => Inv'
  BY TypeStep, RowStep, TaskStep, CountStep, LeaseStep DEF Inv
<1> QED
  BY InitInv, <1>1, PTL DEF Spec

\* Every variable keeps its type (TypeOK).
THEOREM TypeCorrect == Spec => []TypeOK
<1>1. Inv => TypeOK
  BY DEF Inv, TypeInv, CountInv, TypeOK
<1> QED
  BY <1>1, InvHolds, PTL

\* A result shown at a node was obtained with the node's own configuration,
\* whatever syncs ran since (_replace_account_nodes, _save_probe).
THEOREM EvidenceStaysWithConfig == Spec => []EvidenceOfConfig
<1>1. Inv => EvidenceOfConfig
  BY DEF Inv, RowInv, EvidenceOfConfig
<1> QED
  BY <1>1, InvHolds, PTL

\* accounts.node_count is the number of the account's rows (node_delete,
\* _store_synced_account, account_delete).
THEOREM CountsMatch == Spec => []CountMatches
<1>1. Inv => CountMatches
  BY DEF Inv, CountInv, CountMatches
<1> QED
  BY <1>1, InvHolds, PTL

\* Two tasks probe one node at once only after a lease expired under one of
\* them (_acquire_probe, _save_probe).
THEOREM ProbedOnce == Spec => []OneProbeAtATime
<1>1. Inv => OneProbeAtATime
  <2> SUFFICES ASSUME Inv, NEW t \in Tasks, NEW u \in Tasks,
                      NEW i \in task[t].wave, NEW j \in task[u].wave,
                      i.id = j.id, ~i.late, ~j.late
               PROVE  t = u
    BY DEF OneProbeAtATime
  <2>1. Holds(t, i.id) /\ Holds(u, j.id)
    BY DEF Inv, TaskInv, Held
  <2> QED
    BY <2>1 DEF Holds
<1> QED
  BY <1>1, InvHolds, PTL

\* A node with a probe that is not late is shown as being checked.
THEOREM PendingShown == Spec => []RunningProbeShows
<1>1. Inv => RunningProbeShows
  BY RowsAre DEF Inv, TaskInv, Held, RunningProbeShows
<1> QED
  BY <1>1, InvHolds, PTL

\* Probes that are not late are at most as many as the live leases, which never
\* exceed Cap (_acquire_probe).
THEOREM ProbesLimited == Spec => []ProbesBounded
<1> DEFINE Running == {p \in Tasks \X Ids : \E i \in task[p[1]].wave : i.id = p[2] /\ ~i.late}
           of == [p \in Running |-> p[2]]
<1>1. ASSUME Inv PROVE ProbesBounded
  <2>1. \A p \in Running : p[1] \in Tasks /\ p[2] \in Ids /\ Holds(p[1], p[2])
    BY <1>1 DEF Inv, TaskInv, Held
  <2>2. \A p \in Running : p = <<p[1], p[2]>>
    OBVIOUS
  <2>3. \A p, q \in Running : p[2] = q[2] => p[1] = q[1]
    BY <2>1 DEF Holds
  <2> HIDE DEF Running
  <2>4. \A p \in Running : of[p] \in LiveIds
    BY <2>1 DEF LiveIds, Holds
  <2>5. \A p, q \in Running : of[p] = of[q] => p = q
    <3> SUFFICES ASSUME NEW p \in Running, NEW q \in Running, of[p] = of[q] PROVE p = q
      OBVIOUS
    <3>1. p[2] = q[2] /\ p[1] = q[1]
      BY <2>3
    <3> QED
      BY <2>2, <3>1
  <2>6. of \in Injection(Running, LiveIds)
    BY <2>4, <2>5 DEF Injection, IsInjective
  <2>7. IsFiniteSet(Running) /\ Cardinality(Running) <= Cardinality(LiveIds)
    BY <2>6, LiveAre, FS_Injection
  <2>8. Cardinality(Running) \in Nat
    BY <2>7, FS_CardinalityType
  <2>9. Cardinality(Running) <= Cap
    BY <1>1, <2>7, <2>8, LiveAre DEF Inv, LeaseInv
  <2> QED
    BY <2>9 DEF ProbesBounded, Running
<1> QED
  BY <1>1, InvHolds, PTL

LEMMA LateStep ==
  ASSUME Inv, [Next]_vars, NEW t \in Tasks, NEW i \in task[t].wave, i.late, i \notin task'[t].wave
  PROVE  node' = node
<1>1. TypeInv /\ TaskInv
  BY DEF Inv
<1>2. ASSUME NEW u \in Tasks, NEW j \in task[u].todo, Acquire(u, j) PROVE FALSE
  <2> DEFINE x == [task[u] EXCEPT !.todo = @ \ {j}, !.slots = @ - 1,
                     !.wave = IF Refused(j.id) THEN @ ELSE @ \cup {j}]
  <2>1. task'[u] = x /\ \A v \in Tasks \ {u} : task'[v] = task[v]
    BY <1>1, <1>2, AcquireMoves, MovesType
  <2>2. task[u].wave \subseteq x.wave
    BY <1>1, TaskFields DEF Task
  <2> HIDE DEF x
  <2> QED
    BY <2>1, <2>2
<1>3. ASSUME NEW u \in Tasks, NEW j \in task[u].todo, DeleteNode(u, j) PROVE FALSE
  <2>1. task[u].wave = {}
    BY <1>1, <1>3 DEF DeleteNode, TaskInv, Shape
  <2>2. \A v \in Tasks \ {u} : task'[v] = task[v]
    BY <1>1, <1>3 DEF DeleteNode, TypeInv
  <2> QED
    BY <2>1, <2>2
<1>4. ASSUME NEW u \in Tasks, NEW j \in task[u].wave, NEW finished \in BOOLEAN, Save(u, j, finished)
      PROVE  node' = node
  <2> DEFINE x == [task[u] EXCEPT !.wave = @ \ {j}]
  <2>1. task'[u] = x /\ \A v \in Tasks \ {u} : task'[v] = task[v]
    BY <1>1, <1>4, SaveMoves, MovesType
  <2>2. x.wave = task[u].wave \ {j}
    BY <1>1, TaskFields DEF Task
  <2> HIDE DEF x
  <2>3. u = t /\ j = i
    BY <2>1, <2>2
  <2>4. ~Holds(t, i.id)
    BY <1>1 DEF TaskInv, Held
  <2>5. ~Stores(u, j)
    BY <2>3, <2>4 DEF Stores, Owns, Holds
  <2> QED
    BY <1>1, <1>4, <2>5, SaveRows
<1>5. ASSUME NEW a \in Accounts, DeleteAccount(a) PROVE FALSE
  BY <1>5 DEF DeleteAccount
<1>6. ASSUME NEW a \in Accounts, NEW k \in 1 .. MaxNodes, NEW S \in [1 .. k -> Configs], Replace(a, S)
      PROVE  FALSE
  BY <1>6 DEF Replace
<1> QED
  BY <1>2, <1>3, <1>4, <1>5, <1>6, SameRows

\* A result whose lease expired changes no node, whoever holds the lease now
\* (_save_probe).
THEOREM LateDropped == Spec => LateResultsDropped
<1>1. Inv /\ [Next]_vars =>
        [\A t \in Tasks : \A i \in task[t].wave : i.late /\ i \notin task'[t].wave => node' = node]_vars
  BY LateStep
<1> QED
  BY <1>1, InvHolds, PTL DEF Spec, LateResultsDropped
=============================================================================
