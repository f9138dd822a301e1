--------------------------- MODULE TrafficCounter ----------------------------
(***************************************************************************)
(* Cumulative traffic reporting: traffic_collector.sh on the nodes, a      *)
(* network that delays, reorders, duplicates and loses HTTP requests, and  *)
(* the panel's POST /api/traffic/counter handler with its two tables       *)
(* (accounts, traffic_collectors).                                         *)
(*                                                                         *)
(* A collector is one COLLECTOR_ID on one node. Its cron job may start a   *)
(* new script process while an older one still runs. Steps of a process    *)
(* are the commands that read or write shared state. The panel's handler   *)
(* is one step: everything after BEGIN IMMEDIATE is serialised by SQLite.  *)
(*                                                                         *)
(* `base` in a sample or a row, and `gone`, are history: bytes counted     *)
(* before the last reboot. The program has no such field; no guard reads   *)
(* it. `billed` and `first` are history as well.                           *)
(***************************************************************************)
EXTENDS Naturals

CONSTANTS
  Collectors,   \* COLLECTOR_IDs
  Procs,        \* script processes of a node
  NoProc,       \* the lock is free
  Accounts,     \* account ids; SQLite never reuses one (AUTOINCREMENT)
  NoAccount,    \* no row in traffic_collectors
  Passwords,    \* node passwords, the legacy way to name an account
  Legacy,       \* collectors that start on a script without sample_seq
  MaxSeq,       \* the last sequence number, 9223372036854775807 in the script
  MaxTotal,     \* SQLITE_INTEGER_MAX
  Bursts        \* sizes of the traffic bursts a rule counts at once

ASSUME CounterAssumption ==
  /\ NoProc \notin Procs
  /\ NoAccount \notin Accounts
  /\ Accounts \cap Passwords = {}
  /\ Legacy \subseteq Collectors
  /\ MaxSeq \in Nat
  /\ MaxTotal \in Nat
  /\ Bursts \subseteq Nat

VARIABLES
  rawIn,        \* bytes counter of the INPUT rule
  rawOut,       \* bytes counter of the OUTPUT rule
  counting,     \* the two rules are installed
  gone,         \* history: bytes counted before the last reboot
  seqFile,      \* content of COLLECTOR_ID_FILE.sequence, 0 when absent
  lock,         \* holder of COLLECTOR_LOCK_FILE
  script,       \* the script processes
  upgraded,     \* the installed script sends sample_seq
  target,       \* ACCOUNT_ID or PASSWORD of the collector's environment file
  net,          \* requests that may still reach the panel
  alive,        \* accounts that exist
  holders,      \* accounts that have a node with the password
  used,         \* accounts.traffic_used_bytes
  row,          \* traffic_collectors
  billed        \* history: sum of the deltas of the present binding

nodeVars == <<rawIn, rawOut, counting, gone, seqFile, lock, script, upgraded, target>>
panelVars == <<alive, holders, used, row, billed>>
vars == <<rawIn, rawOut, counting, gone, seqFile, lock, script, upgraded,
          target, net, alive, holders, used, row, billed>>

Identities == Accounts \cup Passwords

\* sample_seq is absent (NULL in the table): the handler refuses 0 itself.
NoSeq == 0

Sample == [collector : Collectors, to : Identities, counter : Nat,
           seq : Nat, base : Nat]

PC == {"idle", "started", "input", "output", "reserved", "waiting"}
Process == [pc : PC, in : Nat, out : Nat, seq : Nat]
Idle == [pc |-> "idle", in |-> 0, out |-> 0, seq |-> 0]

Reading == [counter : Nat, seq : Nat, base : Nat]
Row == [account : Accounts \cup {NoAccount}, last : Reading, first : Reading]
NoReading == [counter |-> 0, seq |-> 0, base |-> 0]
NoRow == [account |-> NoAccount, last |-> NoReading, first |-> NoReading]

\* Bytes the rules of the node have seen, over all reboots.
Seen(c) == gone[c] + rawIn[c] + rawOut[c]

Init ==
  /\ rawIn = [c \in Collectors |-> 0]
  /\ rawOut = [c \in Collectors |-> 0]
  /\ counting = [c \in Collectors |-> FALSE]
  /\ gone = [c \in Collectors |-> 0]
  /\ seqFile = [c \in Collectors |-> 0]
  /\ lock = [c \in Collectors |-> NoProc]
  /\ script = [c \in Collectors |-> [p \in Procs |-> Idle]]
  /\ upgraded = [c \in Collectors |-> c \notin Legacy]
  /\ target \in [Collectors -> Identities]
  /\ net = {}
  /\ alive = Accounts
  /\ holders \in [Passwords -> SUBSET Accounts]
  /\ used = [a \in Accounts |-> 0]
  /\ row = [c \in Collectors |-> NoRow]
  /\ billed = [c \in Collectors |-> 0]

-----------------------------------------------------------------------------
(* The node.                                                               *)

\* Packets hit the INPUT or the OUTPUT rule.
Traffic(c) ==
  /\ counting[c]
  /\ \E n \in Bursts :
       \/ rawIn' = [rawIn EXCEPT ![c] = @ + n] /\ UNCHANGED rawOut
       \/ rawOut' = [rawOut EXCEPT ![c] = @ + n] /\ UNCHANGED rawIn
  /\ UNCHANGED <<counting, gone, seqFile, lock, script, upgraded, target, net, panelVars>>

\* The node reboots: rules, counters, processes and the lock are gone; the
\* sequence file stays.
Reboot(c) ==
  /\ gone' = [gone EXCEPT ![c] = Seen(c)]
  /\ rawIn' = [rawIn EXCEPT ![c] = 0]
  /\ rawOut' = [rawOut EXCEPT ![c] = 0]
  /\ counting' = [counting EXCEPT ![c] = FALSE]
  /\ lock' = [lock EXCEPT ![c] = NoProc]
  /\ script' = [script EXCEPT ![c] = [p \in Procs |-> Idle]]
  /\ UNCHANGED <<seqFile, upgraded, target, net, panelVars>>

\* Mutant of Start: the script without acquire_collector_lock.
StartUnlocked(c, p) ==
  /\ script[c][p].pc = "idle"
  /\ lock' = [lock EXCEPT ![c] = p]
  /\ counting' = [counting EXCEPT ![c] = TRUE]
  /\ script' = [script EXCEPT ![c][p] = [Idle EXCEPT !.pc = "started"]]
  /\ UNCHANGED <<rawIn, rawOut, gone, seqFile, upgraded, target, net, panelVars>>

\* flock -n, then ensure_iptables. A process that finds the lock held exits
\* and changes nothing.
Start(c, p) ==
  /\ script[c][p].pc = "idle"
  /\ lock[c] = NoProc
  /\ lock' = [lock EXCEPT ![c] = p]
  /\ counting' = [counting EXCEPT ![c] = TRUE]
  /\ script' = [script EXCEPT ![c][p] = [Idle EXCEPT !.pc = "started"]]
  /\ UNCHANGED <<rawIn, rawOut, gone, seqFile, upgraded, target, net, panelVars>>

\* get_traffic_bytes reads the two chains one after the other.
ReadInput(c, p) ==
  /\ script[c][p].pc = "started"
  /\ script' = [script EXCEPT ![c][p] = [@ EXCEPT !.pc = "input", !.in = rawIn[c]]]
  /\ UNCHANGED <<rawIn, rawOut, counting, gone, seqFile, lock, upgraded, target, net, panelVars>>

ReadOutput(c, p) ==
  /\ script[c][p].pc = "input"
  /\ script' = [script EXCEPT ![c][p] = [@ EXCEPT !.pc = "output", !.out = rawOut[c]]]
  /\ UNCHANGED <<rawIn, rawOut, counting, gone, seqFile, lock, upgraded, target, net, panelVars>>

\* reserve_sample_sequence: the file is replaced before anything is sent.
Reserve(c, p) ==
  /\ script[c][p].pc = "output"
  /\ upgraded[c]
  /\ seqFile[c] < MaxSeq
  /\ seqFile' = [seqFile EXCEPT ![c] = @ + 1]
  /\ script' = [script EXCEPT ![c][p] =
                  [@ EXCEPT !.pc = "reserved", !.seq = seqFile[c] + 1]]
  /\ UNCHANGED <<rawIn, rawOut, counting, gone, lock, upgraded, target, net, panelVars>>

\* The request process p of collector c would send now.
Report(c, p, s) ==
  [collector |-> c, to |-> target[c], seq |-> s,
   counter |-> script[c][p].in + script[c][p].out, base |-> gone[c]]

\* report_traffic: curl sends one request and waits.
Send(c, p) ==
  /\ script[c][p].pc = "reserved"
  /\ net' = net \cup {Report(c, p, script[c][p].seq)}
  /\ script' = [script EXCEPT ![c][p] = [Idle EXCEPT !.pc = "waiting"]]
  /\ UNCHANGED <<rawIn, rawOut, counting, gone, seqFile, lock, upgraded, target, panelVars>>

\* The script of a release without sample_seq sends what it read.
SendLegacy(c, p) ==
  /\ script[c][p].pc = "output"
  /\ ~upgraded[c]
  /\ net' = net \cup {Report(c, p, NoSeq)}
  /\ script' = [script EXCEPT ![c][p] = [Idle EXCEPT !.pc = "waiting"]]
  /\ UNCHANGED <<rawIn, rawOut, counting, gone, seqFile, lock, upgraded, target, panelVars>>

\* The process ends: curl answered or timed out, a command failed, or the
\* process was killed. The kernel releases its lock.
Exit(c, p) ==
  /\ script[c][p].pc # "idle"
  /\ lock' = [lock EXCEPT ![c] = NoProc]
  /\ script' = [script EXCEPT ![c][p] = Idle]
  /\ UNCHANGED <<rawIn, rawOut, counting, gone, seqFile, upgraded, target, net, panelVars>>

\* The operator installs the present script, keeping the ID; never back.
Upgrade(c) ==
  /\ ~upgraded[c]
  /\ lock[c] = NoProc
  /\ upgraded' = [upgraded EXCEPT ![c] = TRUE]
  /\ UNCHANGED <<rawIn, rawOut, counting, gone, seqFile, lock, script, target, net, panelVars>>

\* The operator points the collector at another account or password.
Reconfigure(c, i) ==
  /\ lock[c] = NoProc
  /\ target' = [target EXCEPT ![c] = i]
  /\ UNCHANGED <<rawIn, rawOut, counting, gone, seqFile, lock, script, upgraded, net, panelVars>>

-----------------------------------------------------------------------------
(* The network. A request stays deliverable after a delivery: a client or  *)
(* a proxy may repeat it, and nothing orders two requests.                 *)

Lose(m) ==
  /\ net' = net \ {m}
  /\ UNCHANGED <<nodeVars, panelVars>>

-----------------------------------------------------------------------------
(* The panel.                                                              *)

\* _resolve_traffic_account_id: an account_id is taken as it is, a password
\* must belong to the nodes of exactly one account.
Resolves(i, a) ==
  \/ i \in Accounts /\ a = i
  \/ i \in Passwords /\ holders[i] = {a}

\* Mutants of Stale: nothing is refused; a sample without a number is always
\* compared by its counter; a lower counter without a number is a reset.
StaleNever(m) == FALSE

StaleUnlessNumbered(m) ==
  LET last == row[m.collector].last
  IN  IF last.seq # NoSeq /\ m.seq # NoSeq THEN m.seq <= last.seq
                                          ELSE m.seq = NoSeq /\ m.counter < last.counter

StaleByNumberOnly(m) ==
  row[m.collector].last.seq # NoSeq /\ m.seq <= row[m.collector].last.seq

\* The sample is not newer than the last one taken: a repeat answered with
\* delta 0, or a 409. NoSeq is below every sequence number.
Stale(m) ==
  LET last == row[m.collector].last
  IN  IF last.seq # NoSeq THEN m.seq <= last.seq
                          ELSE m.seq = NoSeq /\ m.counter < last.counter

\* A lower counter is a counter that started again from zero.
Delta(last, counter) ==
  IF counter >= last.counter THEN counter - last.counter ELSE counter

Taken(m) == [counter |-> m.counter, seq |-> m.seq, base |-> m.base]

\* Mutant of Baseline: a sample for another account moves the collector to it.
BaselineMoved(m) ==
  /\ \E a \in alive \ {row[m.collector].account} :
       /\ Resolves(m.to, a)
       /\ row' = [row EXCEPT ![m.collector] =
                    [account |-> a, last |-> Taken(m), first |-> Taken(m)]]
  /\ billed' = [billed EXCEPT ![m.collector] = 0]
  /\ UNCHANGED <<nodeVars, net, alive, holders, used>>

\* First sample of a collector: a baseline, nothing is charged.
Baseline(m) ==
  /\ row[m.collector].account = NoAccount
  /\ \E a \in alive :
       /\ Resolves(m.to, a)
       /\ row' = [row EXCEPT ![m.collector] =
                    [account |-> a, last |-> Taken(m), first |-> Taken(m)]]
  /\ billed' = [billed EXCEPT ![m.collector] = 0]
  /\ UNCHANGED <<nodeVars, net, alive, holders, used>>

\* Mutant of Accept: when the total is out of range the charge is refused but
\* the sample is remembered all the same.
AcceptWithoutRollback(m) ==
  LET c == m.collector
      a == row[c].account
      delta == IF used[a] + Delta(row[c].last, m.counter) <= MaxTotal
                 THEN Delta(row[c].last, m.counter) ELSE 0
  IN  /\ a # NoAccount
      /\ Resolves(m.to, a)
      /\ ~Stale(m)
      /\ used' = [used EXCEPT ![a] = @ + delta]
      /\ row' = [row EXCEPT ![c].last = Taken(m)]
      /\ billed' = [billed EXCEPT ![c] = @ + delta]
      /\ UNCHANGED <<nodeVars, net, alive, holders>>

\* A later sample: the difference is charged and the sample remembered in
\* one transaction. A refused sample (other account, stale, total out of
\* range) is rolled back and changes nothing.
Accept(m) ==
  LET c == m.collector
      a == row[c].account
      delta == Delta(row[c].last, m.counter)
  IN  /\ a # NoAccount
      /\ Resolves(m.to, a)
      /\ ~Stale(m)
      /\ used[a] + delta <= MaxTotal
      /\ used' = [used EXCEPT ![a] = @ + delta]
      /\ row' = [row EXCEPT ![c].last = Taken(m)]
      /\ billed' = [billed EXCEPT ![c] = @ + delta]
      /\ UNCHANGED <<nodeVars, net, alive, holders>>

\* What else writes an account's total, with no regard to the collectors: a
\* new month, a batch report, an administrator's value, a value from upstream.
WriteTotal(a, n) ==
  /\ a \in alive
  /\ used' = [used EXCEPT ![a] = n]
  /\ UNCHANGED <<nodeVars, net, alive, holders, row, billed>>

\* account_delete removes the account with its nodes and its collectors.
DeleteAccount(a) ==
  /\ a \in alive
  /\ alive' = alive \ {a}
  /\ holders' = [w \in Passwords |-> holders[w] \ {a}]
  /\ row' = [c \in Collectors |-> IF row[c].account = a THEN NoRow ELSE row[c]]
  /\ billed' = [c \in Collectors |-> IF row[c].account = a THEN 0 ELSE billed[c]]
  /\ UNCHANGED <<nodeVars, net, used>>

\* A sync or a node deletion changes which accounts use a password.
NodesChange(w, S) ==
  /\ S \subseteq alive
  /\ holders' = [holders EXCEPT ![w] = S]
  /\ UNCHANGED <<nodeVars, net, alive, used, row, billed>>

-----------------------------------------------------------------------------
Next ==
  \/ \E c \in Collectors :
       \/ Traffic(c) \/ Reboot(c) \/ Upgrade(c)
       \/ \E i \in Identities : Reconfigure(c, i)
       \/ \E p \in Procs :
            \/ Start(c, p) \/ ReadInput(c, p) \/ ReadOutput(c, p)
            \/ Reserve(c, p) \/ Send(c, p) \/ SendLegacy(c, p) \/ Exit(c, p)
  \/ \E m \in net : Lose(m) \/ Baseline(m) \/ Accept(m)
  \/ \E a \in Accounts : DeleteAccount(a) \/ \E n \in 0 .. MaxTotal : WriteTotal(a, n)
  \/ \E w \in Passwords, S \in SUBSET Accounts : NodesChange(w, S)

Spec == Init /\ [][Next]_vars

-----------------------------------------------------------------------------
(* Properties.                                                             *)

Bound(c) == row[c].account # NoAccount

\* Bytes the rules had seen when the reading was taken.
At(r) == r.base + r.counter

\* Every variable holds a value of its kind: the collector's files, the
\* requests in flight and the panel's tables.
TypeOK ==
  /\ rawIn \in [Collectors -> Nat]
  /\ rawOut \in [Collectors -> Nat]
  /\ counting \in [Collectors -> BOOLEAN]
  /\ gone \in [Collectors -> Nat]
  /\ seqFile \in [Collectors -> 0 .. MaxSeq]
  /\ lock \in [Collectors -> Procs \cup {NoProc}]
  /\ script \in [Collectors -> [Procs -> Process]]
  /\ upgraded \in [Collectors -> BOOLEAN]
  /\ target \in [Collectors -> Identities]
  /\ net \in SUBSET Sample
  /\ alive \in SUBSET Accounts
  /\ holders \in [Passwords -> SUBSET Accounts]
  /\ used \in [Accounts -> 0 .. MaxTotal]
  /\ row \in [Collectors -> Row]
  /\ billed \in [Collectors -> Nat]

\* However requests are delayed, repeated, reordered or lost, and however
\* often the node reboots, an account is never charged for more bytes than
\* the rules have seen; when the baseline carried a sequence number, than
\* they have seen since the baseline was read (api_report_traffic_counter
\* with reserve_sample_sequence: a late sample is not a counter reset).
NoOverbilling ==
  \A c \in Collectors : Bound(c) =>
    billed[c] + (IF row[c].first.seq = NoSeq THEN 0 ELSE At(row[c].first))
      <= Seen(c)

\* Requests that were lost, refused or overtaken lose no bytes: the charges
\* since the baseline cover everything the last counter shows above it.
NothingLost ==
  \A c \in Collectors : Bound(c) =>
    billed[c] + row[c].first.counter >= row[c].last.counter

\* A collector is bound to one account until that account is deleted, and a
\* sequence number that was taken is never taken again nor followed by a
\* lower one or none: repeats and stragglers have no second effect.
TakenOnce ==
  [][\A c \in Collectors : Bound(c) /\ Bound(c)' =>
       /\ row'[c].account = row[c].account
       /\ row'[c].first = row[c].first
       /\ row'[c] # row[c] /\ row[c].last.seq # NoSeq =>
            row'[c].last.seq > row[c].last.seq]_vars

-----------------------------------------------------------------------------
(* The inductive invariant behind NoOverbilling: sequence numbers order    *)
(* readings in time, and time orders counters within a boot.               *)

\* Reading x was taken no later than y: within one boot its counter is no
\* higher, and otherwise all it saw was counted before y's boot.
Precedes(x, y) ==
  \/ x.base = y.base /\ x.counter <= y.counter
  \/ At(x) <= y.base

Now(c) == [base |-> gone[c], counter |-> rawIn[c] + rawOut[c]]

\* What a process would report if it read now what it has not read yet.
Pending(c, p) ==
  LET s == script[c][p]
  IN  [base |-> gone[c],
       counter |-> (IF s.pc = "started" THEN rawIn[c] ELSE s.in)
                 + (IF s.pc \in {"started", "input"} THEN rawOut[c] ELSE s.out)]

Sampling(c, p) == script[c][p].pc \in {"started", "input", "output", "reserved"}

LockInv ==
  \A c \in Collectors, p \in Procs : script[c][p].pc # "idle" => lock[c] = p

ProcessInv ==
  \A c \in Collectors, p \in Procs :
    LET s == script[c][p]
    IN  /\ s.pc \in {"input", "output", "reserved"} => s.in <= rawIn[c]
        /\ s.pc \in {"output", "reserved"} => s.out <= rawOut[c]
        /\ s.pc = "reserved" =>
             upgraded[c] /\ s.seq = seqFile[c] /\ s.seq # NoSeq

\* r was read at node c, and the numbers given out cover its own.
Past(c, r) ==
  /\ Precedes(r, Now(c))
  /\ r.seq <= seqFile[c]
  /\ r.seq # NoSeq => upgraded[c]

\* Whatever process p of c reports will be a later reading than r.
Before(r, c, p) ==
  /\ Precedes(r, Pending(c, p))
  /\ script[c][p].pc = "reserved" => r.seq < script[c][p].seq

NetInv ==
  /\ \A m \in net : Past(m.collector, m)
  /\ \A m, n \in net :
       m.collector = n.collector /\ m.seq < n.seq => Precedes(m, n)
  /\ \A m \in net : \A p \in Procs :
       Sampling(m.collector, p) => Before(m, m.collector, p)

RowInv ==
  \A c \in Collectors : Bound(c) =>
    /\ row[c].account \in alive
    /\ Past(c, row[c].last)
    /\ \A m \in net :
         m.collector = c /\ row[c].last.seq < m.seq => Precedes(row[c].last, m)
    /\ \A p \in Procs : Sampling(c, p) => Before(row[c].last, c, p)

BillInv ==
  \A c \in Collectors :
    LET first == row[c].first
        last == row[c].last
    IN  IF Bound(c)
          THEN /\ first.seq <= last.seq
               /\ first.seq # NoSeq => billed[c] + At(first) <= At(last)
               /\ first.seq = NoSeq =>
                    billed[c] <= (IF last.seq = NoSeq THEN last.counter ELSE At(last))
               /\ billed[c] + first.counter >= last.counter
          ELSE billed[c] = 0

\* TypeOK and the facts that keep each other true: one process samples at a
\* time, what is in flight or in the table was read before what will be sent
\* next, and the charges stay within the last reading.
Inv == TypeOK /\ LockInv /\ ProcessInv /\ NetInv /\ RowInv /\ BillInv

\* The abstract ledger: what the node has seen and what has been charged.
Ledger == INSTANCE TrafficLedger
            WITH seen <- [c \in Collectors |-> Seen(c)], charged <- billed

\* The protocol implements the ledger: each of its steps lets traffic flow,
\* charges bytes not charged before, drops the bindings of a deleted
\* account, or changes neither.
ImplementsLedger == Ledger!LedgerSpec
=============================================================================
