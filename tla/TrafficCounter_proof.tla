------------------------ MODULE TrafficCounter_proof -------------------------
(***************************************************************************)
(* Proofs about TrafficCounter, for every set of collectors, processes and *)
(* accounts, every MaxSeq and MaxTotal, and any number of requests,        *)
(* reboots and repeats. The only assumption is CounterAssumption.          *)
(***************************************************************************)
EXTENDS TrafficCounter, TLAPS

USE CounterAssumption

\* Precedes and At read only the base and the counter of their arguments.
LEMMA SeenType ==
  ASSUME TypeOK, NEW c \in Collectors
  PROVE  /\ Seen(c) \in Nat
         /\ Now(c).base \in Nat /\ Now(c).counter \in Nat
         /\ At(Now(c)) = Seen(c)
BY DEF TypeOK, Seen, Now, At

-----------------------------------------------------------------------------
(* Type correctness.                                                       *)

LEMMA InitType == Init => TypeOK
BY DEF Init, TypeOK, Idle, Process, PC, NoRow, NoReading, Row, Reading, Identities

LEMMA ReportType ==
  ASSUME TypeOK, NEW c \in Collectors, NEW p \in Procs, NEW s \in Nat
  PROVE  Report(c, p, s) \in Sample
BY DEF TypeOK, Report, Sample, Process, Identities

LEMMA DeltaType ==
  ASSUME NEW r \in Reading, NEW n \in Nat
  PROVE  Delta(r, n) \in Nat
BY DEF Delta, Reading

LEMMA TypeStep == TypeOK /\ [Next]_vars => TypeOK'
<1> SUFFICES ASSUME TypeOK, [Next]_vars PROVE TypeOK'
  OBVIOUS
<1>1. ASSUME NEW c \in Collectors, Traffic(c) PROVE TypeOK'
  <2>1. PICK n \in Bursts :
           \/ rawIn' = [rawIn EXCEPT ![c] = @ + n] /\ UNCHANGED rawOut
           \/ rawOut' = [rawOut EXCEPT ![c] = @ + n] /\ UNCHANGED rawIn
    BY <1>1 DEF Traffic
  <2>2. n \in Nat
    OBVIOUS
  <2>3. rawIn' \in [Collectors -> Nat] /\ rawOut' \in [Collectors -> Nat]
    BY <2>1, <2>2 DEF TypeOK
  <2> QED
    BY <1>1, <2>3 DEF TypeOK, Traffic, panelVars
<1>2. ASSUME NEW c \in Collectors, Reboot(c) PROVE TypeOK'
  BY <1>2 DEF TypeOK, Reboot, panelVars, Seen, Idle, Process, PC
<1>3. ASSUME NEW c \in Collectors, Upgrade(c) PROVE TypeOK'
  BY <1>3 DEF TypeOK, Upgrade, panelVars
<1>4. ASSUME NEW c \in Collectors, NEW i \in Identities, Reconfigure(c, i) PROVE TypeOK'
  BY <1>4 DEF TypeOK, Reconfigure, panelVars
<1>5. ASSUME NEW c \in Collectors, NEW p \in Procs, Start(c, p) PROVE TypeOK'
  <2>1. script[c][p] \in Process
    BY DEF TypeOK
  <2>2. [Idle EXCEPT !.pc = "started"] \in Process
    BY <2>1 DEF Idle, Process, PC
  <2>3. script' \in [Collectors -> [Procs -> Process]]
    BY <1>5, <2>2 DEF TypeOK, Start
  <2> QED
    BY <1>5, <2>3 DEF TypeOK, Start, panelVars
<1>6. ASSUME NEW c \in Collectors, NEW p \in Procs, ReadInput(c, p) PROVE TypeOK'
  <2>1. script[c][p] \in Process
    BY DEF TypeOK
  <2>2. [script[c][p] EXCEPT !.pc = "input", !.in = rawIn[c]] \in Process
    BY <2>1 DEF TypeOK, Process, PC
  <2>3. script' \in [Collectors -> [Procs -> Process]]
    BY <1>6, <2>2 DEF TypeOK, ReadInput
  <2> QED
    BY <1>6, <2>3 DEF TypeOK, ReadInput, panelVars
<1>7. ASSUME NEW c \in Collectors, NEW p \in Procs, ReadOutput(c, p) PROVE TypeOK'
  <2>1. script[c][p] \in Process
    BY DEF TypeOK
  <2>2. [script[c][p] EXCEPT !.pc = "output", !.out = rawOut[c]] \in Process
    BY <2>1 DEF TypeOK, Process, PC
  <2>3. script' \in [Collectors -> [Procs -> Process]]
    BY <1>7, <2>2 DEF TypeOK, ReadOutput
  <2> QED
    BY <1>7, <2>3 DEF TypeOK, ReadOutput, panelVars
<1>8. ASSUME NEW c \in Collectors, NEW p \in Procs, Reserve(c, p) PROVE TypeOK'
  <2>1. script[c][p] \in Process
    BY DEF TypeOK
  <2>2. [script[c][p] EXCEPT !.pc = "reserved", !.seq = seqFile[c] + 1] \in Process
    <3>1. seqFile[c] + 1 \in Nat
      BY DEF TypeOK
    <3> QED
      BY <2>1, <3>1 DEF Process, PC
  <2>3. script' \in [Collectors -> [Procs -> Process]]
    BY <1>8, <2>2 DEF TypeOK, Reserve
  <2>4. seqFile' \in [Collectors -> 0 .. MaxSeq]
    BY <1>8 DEF TypeOK, Reserve
  <2> QED
    BY <1>8, <2>3, <2>4 DEF TypeOK, Reserve, panelVars
<1>9. ASSUME NEW c \in Collectors, NEW p \in Procs, Send(c, p) PROVE TypeOK'
  <2>1. script[c][p].seq \in Nat
    BY DEF TypeOK, Process
  <2>2. net' \in SUBSET Sample
    BY <1>9, <2>1, ReportType DEF Send, TypeOK
  <2> QED
    BY <1>9, <2>2 DEF TypeOK, Send, panelVars, Idle, Process, PC
<1>10. ASSUME NEW c \in Collectors, NEW p \in Procs, SendLegacy(c, p) PROVE TypeOK'
  <2>1. net' \in SUBSET Sample
    <3>1. Report(c, p, NoSeq) \in Sample
      BY ReportType DEF NoSeq
    <3> QED
      BY <1>10, <3>1 DEF SendLegacy, TypeOK
  <2> QED
    BY <1>10, <2>1 DEF TypeOK, SendLegacy, panelVars, Idle, Process, PC
<1>11. ASSUME NEW c \in Collectors, NEW p \in Procs, Exit(c, p) PROVE TypeOK'
  BY <1>11 DEF TypeOK, Exit, panelVars, Idle, Process, PC
<1>12. ASSUME NEW m \in net, Lose(m) PROVE TypeOK'
  BY <1>12 DEF TypeOK, Lose, nodeVars, panelVars
<1>13. ASSUME NEW m \in net, Baseline(m) PROVE TypeOK'
  <2>1. m \in Sample
    BY DEF TypeOK
  <2>2. Taken(m) \in Reading /\ m.collector \in Collectors
    BY <2>1 DEF Taken, Reading, Sample
  <2> QED
    BY <1>13, <2>2 DEF TypeOK, Baseline, nodeVars, Row
<1>14. ASSUME NEW m \in net, Accept(m) PROVE TypeOK'
  <2>1. m \in Sample
    BY DEF TypeOK
  <2>2. Taken(m) \in Reading /\ m.collector \in Collectors /\ m.counter \in Nat
    BY <2>1 DEF Taken, Reading, Sample
  <2>3. row[m.collector] \in Row /\ row[m.collector].last \in Reading
    BY <2>2 DEF TypeOK, Row
  <2>4. Delta(row[m.collector].last, m.counter) \in Nat
    BY <2>2, <2>3, DeltaType
  <2>5. row[m.collector].account \in Accounts
    BY <1>14, <2>3 DEF Accept, Row
  <2>6. row' \in [Collectors -> Row]
    BY <1>14, <2>2 DEF TypeOK, Accept, Row
  <2>7. used' \in [Accounts -> 0 .. MaxTotal]
    BY <1>14, <2>4, <2>5 DEF TypeOK, Accept
  <2>8. billed' \in [Collectors -> Nat]
    BY <1>14, <2>2, <2>4 DEF TypeOK, Accept
  <2> QED
    BY <1>14, <2>6, <2>7, <2>8 DEF TypeOK, Accept, nodeVars
<1>15. ASSUME NEW a \in Accounts, NEW n \in 0 .. MaxTotal, WriteTotal(a, n) PROVE TypeOK'
  BY <1>15 DEF TypeOK, WriteTotal, nodeVars
<1>16. ASSUME NEW a \in Accounts, DeleteAccount(a) PROVE TypeOK'
  BY <1>16 DEF TypeOK, DeleteAccount, nodeVars, NoRow, NoReading, Row, Reading
<1>17. ASSUME NEW w \in Passwords, NEW S \in SUBSET Accounts, NodesChange(w, S)
       PROVE TypeOK'
  BY <1>17 DEF TypeOK, NodesChange, nodeVars
<1>18. CASE UNCHANGED vars
  BY <1>18 DEF TypeOK, vars
<1> QED
  BY <1>1, <1>2, <1>3, <1>4, <1>5, <1>6, <1>7, <1>8, <1>9, <1>10, <1>11, <1>12,
     <1>13, <1>14, <1>15, <1>16, <1>17, <1>18 DEF Next

\* Every variable keeps its type (see TypeOK).
THEOREM TypeCorrect == Spec => []TypeOK
BY InitType, TypeStep, PTL DEF Spec

-----------------------------------------------------------------------------
(* How one step moves a node. The proofs about readings use these two      *)
(* lemmas instead of the actions.                                          *)

\* A step lets the counters of a node grow, or reboots it; its sequence file
\* and its script never go back.
LEMMA NodeMove ==
  ASSUME TypeOK, [Next]_vars, NEW c \in Collectors
  PROVE  /\ \/ gone'[c] = gone[c] /\ rawIn'[c] >= rawIn[c] /\ rawOut'[c] >= rawOut[c]
            \/ /\ gone'[c] = Seen(c) /\ rawIn'[c] = 0 /\ rawOut'[c] = 0
               /\ \A p \in Procs : script'[c][p] = Idle
         /\ seqFile'[c] >= seqFile[c]
         /\ upgraded[c] => upgraded'[c]
<1> DEFINE Goal ==
      /\ \/ gone'[c] = gone[c] /\ rawIn'[c] >= rawIn[c] /\ rawOut'[c] >= rawOut[c]
         \/ /\ gone'[c] = Seen(c) /\ rawIn'[c] = 0 /\ rawOut'[c] = 0
            /\ \A p \in Procs : script'[c][p] = Idle
      /\ seqFile'[c] >= seqFile[c]
      /\ upgraded[c] => upgraded'[c]
<1>0. /\ gone[c] \in Nat /\ rawIn[c] \in Nat /\ rawOut[c] \in Nat /\ seqFile[c] \in Nat
      /\ rawIn \in [Collectors -> Nat] /\ rawOut \in [Collectors -> Nat]
      /\ seqFile \in [Collectors -> 0 .. MaxSeq] /\ gone \in [Collectors -> Nat]
      /\ upgraded \in [Collectors -> BOOLEAN]
      /\ script \in [Collectors -> [Procs -> Process]]
  BY DEF TypeOK
<1>1. ASSUME NEW d \in Collectors, Traffic(d) PROVE Goal
  <2>1. PICK n \in Bursts :
           \/ rawIn' = [rawIn EXCEPT ![d] = @ + n] /\ UNCHANGED rawOut
           \/ rawOut' = [rawOut EXCEPT ![d] = @ + n] /\ UNCHANGED rawIn
    BY <1>1 DEF Traffic
  <2>2. n \in Nat
    OBVIOUS
  <2>3. rawIn'[c] >= rawIn[c] /\ rawOut'[c] >= rawOut[c]
    BY <1>0, <2>1, <2>2
  <2> QED
    BY <1>0, <1>1, <2>3 DEF Traffic
<1>2. ASSUME NEW d \in Collectors, Reboot(d) PROVE Goal
  BY <1>0, <1>2 DEF Reboot
<1>3. ASSUME NEW d \in Collectors, Upgrade(d) PROVE Goal
  BY <1>0, <1>3 DEF Upgrade
<1>4. ASSUME NEW d \in Collectors, NEW i \in Identities, Reconfigure(d, i) PROVE Goal
  BY <1>0, <1>4 DEF Reconfigure
<1>5. ASSUME NEW d \in Collectors, NEW p \in Procs,
             \/ Start(d, p) \/ ReadInput(d, p) \/ ReadOutput(d, p)
             \/ Send(d, p) \/ SendLegacy(d, p) \/ Exit(d, p)
      PROVE  Goal
  BY <1>0, <1>5 DEF Start, ReadInput, ReadOutput, Send, SendLegacy, Exit
<1>6. ASSUME NEW d \in Collectors, NEW p \in Procs, Reserve(d, p) PROVE Goal
  BY <1>0, <1>6 DEF Reserve
<1>7. ASSUME UNCHANGED nodeVars PROVE Goal
  BY <1>0, <1>7 DEF nodeVars
<1>8. ASSUME NEW m \in net, Lose(m) \/ Baseline(m) \/ Accept(m) PROVE Goal
  BY <1>7, <1>8 DEF Lose, Baseline, Accept
<1>9. ASSUME NEW a \in Accounts,
             DeleteAccount(a) \/ \E n \in 0 .. MaxTotal : WriteTotal(a, n)
      PROVE  Goal
  BY <1>7, <1>9 DEF WriteTotal, DeleteAccount
<1>10. ASSUME NEW w \in Passwords, NEW S \in SUBSET Accounts, NodesChange(w, S) PROVE Goal
  BY <1>7, <1>10 DEF NodesChange
<1>11. CASE UNCHANGED vars
  BY <1>7, <1>11 DEF vars, nodeVars
<1>12. Goal
  BY <1>1, <1>2, <1>3, <1>4, <1>5, <1>6, <1>8, <1>9, <1>10, <1>11 DEF Next
<1> QED
  BY <1>12

\* What a step does to one process of a node: nothing, while the counters
\* may grow; an end or a sent request; or its next command. While it is
\* active no other process touches the sequence file or the lock.
Untouched(c, p) ==
  /\ script'[c][p] = script[c][p] /\ gone'[c] = gone[c]
  /\ rawIn'[c] >= rawIn[c] /\ rawOut'[c] >= rawOut[c]
  /\ script[c][p].pc # "idle" =>
       seqFile'[c] = seqFile[c] /\ lock'[c] = lock[c] /\ (upgraded[c] => upgraded'[c])

Advances(c, p) ==
  /\ gone'[c] = gone[c] /\ rawIn'[c] = rawIn[c] /\ rawOut'[c] = rawOut[c]
  /\ \/ script'[c][p] = [Idle EXCEPT !.pc = "started"] /\ lock'[c] = p
     \/ /\ lock'[c] = lock[c]
        /\ \/ /\ script[c][p].pc = "started"
              /\ script'[c][p] = [script[c][p] EXCEPT !.pc = "input", !.in = rawIn[c]]
           \/ /\ script[c][p].pc = "input"
              /\ script'[c][p] = [script[c][p] EXCEPT !.pc = "output", !.out = rawOut[c]]
           \/ /\ script[c][p].pc = "output"
              /\ upgraded'[c] /\ seqFile'[c] = seqFile[c] + 1
              /\ script'[c][p] = [script[c][p] EXCEPT
                                    !.pc = "reserved", !.seq = seqFile[c] + 1]
           \/ /\ script[c][p].pc # "idle"
              /\ script'[c][p] = [Idle EXCEPT !.pc = "waiting"]

LEMMA ProcessMove ==
  ASSUME TypeOK, LockInv, [Next]_vars, NEW c \in Collectors, NEW p \in Procs
  PROVE  Untouched(c, p) \/ Advances(c, p) \/ script'[c][p] = Idle
<1> DEFINE Goal == Untouched(c, p) \/ Advances(c, p) \/ script'[c][p] = Idle
<1>0. /\ gone[c] \in Nat /\ rawIn[c] \in Nat /\ rawOut[c] \in Nat /\ seqFile[c] \in Nat
      /\ rawIn \in [Collectors -> Nat] /\ rawOut \in [Collectors -> Nat]
      /\ seqFile \in [Collectors -> 0 .. MaxSeq] /\ gone \in [Collectors -> Nat]
      /\ upgraded \in [Collectors -> BOOLEAN]
      /\ lock \in [Collectors -> Procs \cup {NoProc}]
      /\ script \in [Collectors -> [Procs -> Process]]
  BY DEF TypeOK
<1>1. ASSUME NEW d \in Collectors, Traffic(d) PROVE Goal
  BY <1>0, <1>1, NodeMove DEF Traffic, Untouched
<1>2. ASSUME NEW d \in Collectors, Reboot(d) PROVE Goal
  BY <1>0, <1>2 DEF Reboot, Untouched
<1>3. ASSUME NEW d \in Collectors, Upgrade(d) PROVE Goal
  BY <1>0, <1>3 DEF Upgrade, Untouched
<1>4. ASSUME NEW d \in Collectors, NEW i \in Identities, Reconfigure(d, i) PROVE Goal
  BY <1>0, <1>4 DEF Reconfigure, Untouched
<1>5. ASSUME NEW d \in Collectors, NEW q \in Procs,
             \/ Start(d, q) \/ ReadInput(d, q) \/ ReadOutput(d, q) \/ Reserve(d, q)
             \/ Send(d, q) \/ SendLegacy(d, q) \/ Exit(d, q)
      PROVE  Goal
  <2>1. CASE d = c /\ q = p
    <3>1. CASE Start(c, p)
      BY <1>0, <3>1 DEF Start, Advances
    <3>2. CASE ReadInput(c, p)
      BY <1>0, <3>2 DEF ReadInput, Advances
    <3>3. CASE ReadOutput(c, p)
      BY <1>0, <3>3 DEF ReadOutput, Advances
    <3>4. CASE Reserve(c, p)
      BY <1>0, <3>4 DEF Reserve, Advances
    <3>5. CASE Send(c, p) \/ SendLegacy(c, p)
      <4>0. /\ script[c][p].pc = "reserved" \/ script[c][p].pc = "output"
            /\ script' = [script EXCEPT ![c][p] = [Idle EXCEPT !.pc = "waiting"]]
        BY <3>5 DEF Send, SendLegacy
      <4>1. script[c][p].pc # "idle" /\ script'[c][p] = [Idle EXCEPT !.pc = "waiting"]
        BY <1>0, <4>0
      <4> QED
        BY <3>5, <4>1 DEF Send, SendLegacy, Advances
    <3>6. CASE Exit(c, p)
      BY <1>0, <3>6 DEF Exit
    <3> QED
      BY <1>5, <2>1, <3>1, <3>2, <3>3, <3>4, <3>5, <3>6
  <2>2. CASE d # c
    <3>1. script'[c] = script[c] /\ seqFile'[c] = seqFile[c] /\ lock'[c] = lock[c]
      BY <1>0, <1>5, <2>2
         DEF Start, ReadInput, ReadOutput, Reserve, Send, SendLegacy, Exit
    <3>2. UNCHANGED <<gone, rawIn, rawOut, upgraded>>
      BY <1>5 DEF Start, ReadInput, ReadOutput, Reserve, Send, SendLegacy, Exit
    <3> QED
      BY <1>0, <3>1, <3>2 DEF Untouched
  <2>3. CASE d = c /\ q # p
    <3>1. script'[c][p] = script[c][p] /\ gone'[c] = gone[c]
          /\ rawIn'[c] = rawIn[c] /\ rawOut'[c] = rawOut[c] /\ upgraded' = upgraded
      BY <1>0, <1>5, <2>3
         DEF Start, ReadInput, ReadOutput, Reserve, Send, SendLegacy, Exit
    <3>2. ASSUME script[c][p].pc # "idle" PROVE FALSE
      <4>1. lock[c] = p
        BY <3>2 DEF LockInv
      <4>2. script[c][q].pc # "idle" \/ lock[c] = NoProc
        BY <1>5, <2>3 DEF Start, ReadInput, ReadOutput, Reserve, Send, SendLegacy, Exit
      <4>3. lock[c] = q \/ lock[c] = NoProc
        BY <4>2 DEF LockInv
      <4> QED
        BY <2>3, <4>1, <4>3 DEF CounterAssumption
    <3> QED
      BY <1>0, <3>1, <3>2 DEF Untouched
  <2> QED
    BY <2>1, <2>2, <2>3
<1>6. ASSUME UNCHANGED nodeVars PROVE Goal
  BY <1>0, <1>6 DEF nodeVars, Untouched
<1>7. ASSUME NEW m \in net, Lose(m) \/ Baseline(m) \/ Accept(m) PROVE Goal
  BY <1>6, <1>7 DEF Lose, Baseline, Accept
<1>8. ASSUME NEW a \in Accounts,
             DeleteAccount(a) \/ \E n \in 0 .. MaxTotal : WriteTotal(a, n)
      PROVE  Goal
  BY <1>6, <1>8 DEF WriteTotal, DeleteAccount
<1>9. ASSUME NEW w \in Passwords, NEW S \in SUBSET Accounts, NodesChange(w, S) PROVE Goal
  BY <1>6, <1>9 DEF NodesChange
<1>10. CASE UNCHANGED vars
  BY <1>6, <1>10 DEF vars, nodeVars
<1>11. Goal
  BY <1>1, <1>2, <1>3, <1>4, <1>5, <1>7, <1>8, <1>9, <1>10 DEF Next
<1> QED
  BY <1>11

-----------------------------------------------------------------------------
(* The parts of the inductive invariant that speak of the nodes only.      *)

LEMMA LockStep == TypeOK /\ LockInv /\ [Next]_vars => LockInv'
<1> SUFFICES ASSUME TypeOK, LockInv, [Next]_vars,
                    NEW c \in Collectors, NEW p \in Procs, script'[c][p].pc # "idle"
             PROVE  lock'[c] = p
  BY DEF LockInv
<1>1. Untouched(c, p) \/ Advances(c, p)
  BY ProcessMove DEF Idle
<1>2. CASE Untouched(c, p)
  BY <1>2 DEF Untouched, LockInv
<1>3. CASE Advances(c, p)
  BY <1>3 DEF Advances, LockInv
<1> QED
  BY <1>1, <1>2, <1>3

LEMMA ProcessStep == TypeOK /\ LockInv /\ ProcessInv /\ [Next]_vars => ProcessInv'
<1> SUFFICES ASSUME TypeOK, LockInv, ProcessInv, [Next]_vars,
                    NEW c \in Collectors, NEW p \in Procs
             PROVE  LET s == script'[c][p]
                    IN  /\ s.pc \in {"input", "output", "reserved"} => s.in <= rawIn'[c]
                        /\ s.pc \in {"output", "reserved"} => s.out <= rawOut'[c]
                        /\ s.pc = "reserved" =>
                             upgraded'[c] /\ s.seq = seqFile'[c] /\ s.seq # NoSeq
  BY DEF ProcessInv
<1>0. /\ rawIn[c] \in Nat /\ rawOut[c] \in Nat /\ seqFile[c] \in Nat
      /\ rawIn'[c] \in Nat /\ rawOut'[c] \in Nat
      /\ script[c][p] \in [pc : PC, in : Nat, out : Nat, seq : Nat]
  BY TypeStep DEF TypeOK, Process
<1>1. LET s == script[c][p]
      IN  /\ s.pc \in {"input", "output", "reserved"} => s.in <= rawIn[c]
          /\ s.pc \in {"output", "reserved"} => s.out <= rawOut[c]
          /\ s.pc = "reserved" => upgraded[c] /\ s.seq = seqFile[c] /\ s.seq # NoSeq
  BY DEF ProcessInv
<1>2. CASE Untouched(c, p)
  BY <1>0, <1>1, <1>2 DEF Untouched
<1>3. CASE Advances(c, p)
  <2>1. CASE script'[c][p] = [Idle EXCEPT !.pc = "started"]
    BY <2>1 DEF Idle
  <2>2. CASE /\ script[c][p].pc = "started"
             /\ script'[c][p] = [script[c][p] EXCEPT !.pc = "input", !.in = rawIn[c]]
    BY <1>0, <1>3, <2>2 DEF Advances
  <2>3. CASE /\ script[c][p].pc = "input"
             /\ script'[c][p] = [script[c][p] EXCEPT !.pc = "output", !.out = rawOut[c]]
    BY <1>0, <1>1, <1>3, <2>3 DEF Advances
  <2>4. CASE /\ script[c][p].pc = "output"
             /\ upgraded'[c] /\ seqFile'[c] = seqFile[c] + 1
             /\ script'[c][p] = [script[c][p] EXCEPT
                                   !.pc = "reserved", !.seq = seqFile[c] + 1]
    BY <1>0, <1>1, <1>3, <2>4 DEF Advances, NoSeq
  <2>5. CASE script'[c][p] = [Idle EXCEPT !.pc = "waiting"]
    BY <2>5 DEF Idle
  <2> QED
    BY <1>3, <2>1, <2>2, <2>3, <2>4, <2>5 DEF Advances
<1>4. CASE script'[c][p] = Idle
  BY <1>4 DEF Idle
<1> QED
  BY <1>2, <1>3, <1>4, ProcessMove

\* Fields of a reading that the order looks at.
IsReading(r) == r.base \in Nat /\ r.counter \in Nat /\ r.seq \in Nat

\* A reading of the past stays one.
LEMMA PastStep ==
  ASSUME TypeOK, [Next]_vars, NEW c \in Collectors, NEW r, IsReading(r), Past(c, r)
  PROVE  Past(c, r)'
<1>0. /\ gone[c] \in Nat /\ rawIn[c] \in Nat /\ rawOut[c] \in Nat /\ seqFile[c] \in Nat
      /\ gone'[c] \in Nat /\ rawIn'[c] \in Nat /\ rawOut'[c] \in Nat /\ seqFile'[c] \in Nat
  BY TypeStep DEF TypeOK
<1> QED
  BY <1>0, NodeMove DEF Past, Precedes, Now, At, Seen, IsReading

\* What precedes a process's report keeps preceding it.
LEMMA BeforeStep ==
  ASSUME TypeOK, LockInv, ProcessInv, [Next]_vars,
         NEW c \in Collectors, NEW p \in Procs, NEW r, IsReading(r), Past(c, r),
         Sampling(c, p) => Before(r, c, p), Sampling(c, p)'
  PROVE  Before(r, c, p)'
<1>0. /\ gone[c] \in Nat /\ rawIn[c] \in Nat /\ rawOut[c] \in Nat /\ seqFile[c] \in Nat
      /\ gone'[c] \in Nat /\ rawIn'[c] \in Nat /\ rawOut'[c] \in Nat
      /\ script[c][p] \in [pc : PC, in : Nat, out : Nat, seq : Nat]
  BY TypeStep DEF TypeOK, Process
<1>1. CASE Untouched(c, p)
  BY <1>0, <1>1
     DEF Untouched, Sampling, Before, Precedes, Pending, At, IsReading
<1>2. CASE Advances(c, p)
  <2>1. CASE script'[c][p] = [Idle EXCEPT !.pc = "started"]
    BY <1>0, <1>2, <2>1
       DEF Advances, Idle, Sampling, Before, Precedes, Pending, At, IsReading, Past, Now
  <2>2. CASE /\ script[c][p].pc = "started"
             /\ script'[c][p] = [script[c][p] EXCEPT !.pc = "input", !.in = rawIn[c]]
    BY <1>0, <1>2, <2>2
       DEF Advances, Sampling, Before, Precedes, Pending, At, IsReading
  <2>3. CASE /\ script[c][p].pc = "input"
             /\ script'[c][p] = [script[c][p] EXCEPT !.pc = "output", !.out = rawOut[c]]
    BY <1>0, <1>2, <2>3
       DEF Advances, Sampling, Before, Precedes, Pending, At, IsReading
  <2>4. CASE /\ script[c][p].pc = "output"
             /\ script'[c][p] = [script[c][p] EXCEPT
                                   !.pc = "reserved", !.seq = seqFile[c] + 1]
    BY <1>0, <1>2, <2>4
       DEF Advances, Sampling, Before, Precedes, Pending, At, IsReading, Past
  <2>5. CASE script'[c][p] = [Idle EXCEPT !.pc = "waiting"]
    BY <2>5 DEF Sampling, Idle
  <2> QED
    BY <1>2, <2>1, <2>2, <2>3, <2>4, <2>5 DEF Advances
<1>3. CASE script'[c][p] = Idle
  BY <1>3 DEF Idle, Sampling
<1> QED
  BY <1>1, <1>2, <1>3, ProcessMove

-----------------------------------------------------------------------------
(* The requests in flight.                                                 *)

\* A request sent by c is a reading of now, later than all that c sent.
LEMMA SentIsLast ==
  ASSUME Inv, NEW c \in Collectors, NEW p \in Procs, Send(c, p) \/ SendLegacy(c, p)
  PROVE  \E m \in Sample :
           /\ net' = net \cup {m} /\ m.collector = c
           /\ Past(c, m)'
           /\ \A q \in Procs : ~Sampling(c, q)'
           /\ \A n \in net : n.collector = c =>
                ~(m.seq < n.seq) /\ (n.seq < m.seq => Precedes(n, m))
           /\ Bound(c) /\ row[c].last.seq < m.seq => Precedes(row[c].last, m)
<1> DEFINE s == IF upgraded[c] /\ script[c][p].pc = "reserved" THEN script[c][p].seq ELSE NoSeq
<1>0. /\ gone[c] \in Nat /\ rawIn[c] \in Nat /\ rawOut[c] \in Nat /\ seqFile[c] \in Nat
      /\ script[c][p] \in [pc : PC, in : Nat, out : Nat, seq : Nat]
      /\ script \in [Collectors -> [Procs -> Process]]
      /\ lock \in [Collectors -> Procs \cup {NoProc}]
      /\ net \subseteq Sample
  BY DEF Inv, TypeOK, Process
<1>1. /\ script[c][p].pc \in {"output", "reserved"}
      /\ script[c][p].pc = "output" => ~upgraded[c]
      /\ script[c][p].pc = "reserved" =>
           upgraded[c] /\ script[c][p].seq = seqFile[c] /\ script[c][p].seq # NoSeq
      /\ script[c][p].in <= rawIn[c] /\ script[c][p].out <= rawOut[c]
  BY DEF Inv, ProcessInv, Send, SendLegacy
<1>2. s \in Nat /\ Report(c, p, s) \in Sample
  BY <1>0, ReportType DEF Inv, NoSeq
<1>3. net' = net \cup {Report(c, p, s)}
  BY <1>1 DEF Send, SendLegacy
<1>4. PICK m \in Sample : m = Report(c, p, s)
  BY <1>2
<1>5. /\ m.collector = c /\ m.seq = s /\ m.base = gone[c]
      /\ m.counter = script[c][p].in + script[c][p].out
  BY <1>4 DEF Report
<1>6. Past(c, m)'
  <2>1. UNCHANGED <<gone, rawIn, rawOut, seqFile, upgraded>>
    BY DEF Send, SendLegacy
  <2> QED
    BY <1>0, <1>1, <1>5, <2>1 DEF Past, Precedes, Now, NoSeq
<1>7. ASSUME NEW q \in Procs PROVE ~Sampling(c, q)'
  <2>1. CASE q = p
    BY <1>0, <2>1 DEF Send, SendLegacy, Sampling, Idle
  <2>2. CASE q # p
    <3>1. script[c][q].pc = "idle"
      BY <1>1, <2>2 DEF Inv, LockInv
    <3>2. script'[c][q] = script[c][q]
      BY <1>0, <2>2 DEF Send, SendLegacy
    <3> QED
      BY <3>1, <3>2 DEF Sampling
  <2> QED
    BY <2>1, <2>2
<1>8. Sampling(c, p) /\ Pending(c, p).base = m.base /\ Pending(c, p).counter = m.counter
  BY <1>1, <1>5 DEF Sampling, Pending
<1>9. ASSUME NEW r, IsReading(r), Past(c, r), Before(r, c, p)
      PROVE  ~(m.seq < r.seq) /\ (r.seq < m.seq => Precedes(r, m))
  BY <1>0, <1>1, <1>5, <1>8, <1>9 DEF IsReading, Past, Before, Precedes, NoSeq, At
<1>10. ASSUME NEW n \in net, n.collector = c
       PROVE  ~(m.seq < n.seq) /\ (n.seq < m.seq => Precedes(n, m))
  <2>1. IsReading(n)
    BY <1>0 DEF Sample, IsReading
  <2>2. Past(c, n) /\ Before(n, c, p)
    BY <1>8, <1>10 DEF Inv, NetInv
  <2> QED
    BY <1>9, <2>1, <2>2
<1>11. ASSUME Bound(c), row[c].last.seq < m.seq PROVE Precedes(row[c].last, m)
  <2>1. IsReading(row[c].last)
    BY DEF Inv, TypeOK, Row, Reading, IsReading
  <2>2. Past(c, row[c].last) /\ Before(row[c].last, c, p)
    BY <1>8, <1>11 DEF Inv, RowInv
  <2> QED
    BY <1>9, <1>11, <2>1, <2>2
<1> QED
  BY <1>3, <1>4, <1>5, <1>6, <1>7, <1>10, <1>11

\* No other step adds a request.
LEMMA NetMove ==
  ASSUME [Next]_vars,
         ~\E c \in Collectors, p \in Procs : Send(c, p) \/ SendLegacy(c, p)
  PROVE  net' \subseteq net
BY DEF Next, vars, nodeVars, panelVars, Traffic, Reboot, Upgrade, Reconfigure, Start,
       ReadInput, ReadOutput, Reserve, Exit, Lose, Baseline, Accept, WriteTotal,
       DeleteAccount, NodesChange

LEMMA NetStep == Inv /\ [Next]_vars => NetInv'
<1> SUFFICES ASSUME Inv, [Next]_vars PROVE NetInv'
  OBVIOUS
<1>1. net \subseteq Sample /\ \A m \in net : IsReading(m) /\ m.collector \in Collectors
  BY DEF Inv, TypeOK, Sample, IsReading
<1>2. ASSUME NEW m \in net PROVE Past(m.collector, m)'
  BY <1>1, PastStep DEF Inv, NetInv
<1>3. ASSUME NEW m \in net, NEW p \in Procs, Sampling(m.collector, p)'
      PROVE  Before(m, m.collector, p)'
  <2>1. Past(m.collector, m) /\ (Sampling(m.collector, p) => Before(m, m.collector, p))
    BY DEF Inv, NetInv
  <2> QED
    BY <1>1, <1>3, <2>1, BeforeStep DEF Inv
<1>4. ASSUME NEW m \in net, NEW n \in net, m.collector = n.collector, m.seq < n.seq
      PROVE  Precedes(m, n)
  BY <1>4 DEF Inv, NetInv
<1>5. CASE net' \subseteq net
  BY <1>2, <1>3, <1>4, <1>5 DEF NetInv
<1>6. ASSUME NEW c \in Collectors, NEW p \in Procs, Send(c, p) \/ SendLegacy(c, p)
      PROVE  NetInv'
  <2>1. PICK m \in Sample :
           /\ net' = net \cup {m} /\ m.collector = c
           /\ Past(c, m)'
           /\ \A q \in Procs : ~Sampling(c, q)'
           /\ \A n \in net : n.collector = c =>
                ~(m.seq < n.seq) /\ (n.seq < m.seq => Precedes(n, m))
    BY <1>6, SentIsLast
  <2>2. \A n \in net' : Past(n.collector, n)'
    BY <1>2, <2>1
  <2>3. \A n1, n2 \in net' :
          n1.collector = n2.collector /\ n1.seq < n2.seq => Precedes(n1, n2)
    <3>1. m.seq \in Nat
      BY DEF Sample
    <3> QED
      BY <1>4, <2>1, <3>1
  <2>4. \A n \in net' : \A q \in Procs :
          Sampling(n.collector, q)' => Before(n, n.collector, q)'
    BY <1>3, <2>1
  <2> QED
    BY <2>2, <2>3, <2>4 DEF NetInv
<1> QED
  BY <1>5, <1>6, NetMove

-----------------------------------------------------------------------------
(* The panel's table.                                                      *)

\* A step takes sample m of the collector, as its baseline or after its last.
Takes(c, m) ==
  /\ m.collector = c /\ net' = net /\ row'[c].last = Taken(m)
  /\ row'[c].account \in alive'
  /\ \/ ~Bound(c) /\ row'[c].first = Taken(m) /\ billed'[c] = 0
     \/ /\ Bound(c) /\ ~Stale(m) /\ row'[c].first = row[c].first
        /\ row'[c].account = row[c].account
        /\ billed'[c] = billed[c] + Delta(row[c].last, m.counter)

Keeps(c) ==
  row'[c] = row[c] /\ billed'[c] = billed[c] /\ (Bound(c) => row[c].account \in alive')

Unbinds(c) == row'[c] = NoRow /\ billed'[c] = 0

LEMMA RowMove ==
  ASSUME Inv, [Next]_vars, NEW c \in Collectors
  PROVE  Keeps(c) \/ Unbinds(c) \/ \E m \in net : Takes(c, m)
<1> DEFINE Goal == Keeps(c) \/ Unbinds(c) \/ \E m \in net : Takes(c, m)
<1>0. /\ row \in [Collectors -> Row] /\ billed \in [Collectors -> Nat]
      /\ net \subseteq Sample /\ alive \subseteq Accounts
      /\ Bound(c) => row[c].account \in alive
  BY DEF Inv, TypeOK, RowInv
<1>1. ASSUME UNCHANGED <<row, billed, alive>> PROVE Goal
  BY <1>0, <1>1 DEF Keeps
<1>2. ASSUME NEW m \in net, Baseline(m) PROVE Goal
  <2>1. m.collector \in Collectors
    BY <1>0 DEF Sample
  <2>2. CASE m.collector = c
    <3>1. PICK a \in alive :
             row' = [row EXCEPT ![m.collector] =
                       [account |-> a, last |-> Taken(m), first |-> Taken(m)]]
      BY <1>2 DEF Baseline
    <3>2. Takes(c, m)
      BY <1>0, <1>2, <2>2, <3>1 DEF Takes, Baseline, Bound
    <3> QED
      BY <3>2
  <2>3. CASE m.collector # c
    BY <1>0, <1>2, <2>1, <2>3 DEF Baseline, Keeps
  <2> QED
    BY <2>2, <2>3
<1>3. ASSUME NEW m \in net, Accept(m) PROVE Goal
  <2>1. m.collector \in Collectors
    BY <1>0 DEF Sample
  <2>2. CASE m.collector = c
    <3>1. row[c] \in Row
      BY <1>0
    <3>2. row'[c] = [row[c] EXCEPT !.last = Taken(m)]
      BY <1>0, <1>3, <2>1, <2>2 DEF Accept
    <3>3. /\ row'[c].last = Taken(m) /\ row'[c].first = row[c].first
          /\ row'[c].account = row[c].account
      BY <3>1, <3>2 DEF Row
    <3>4. Takes(c, m)
      BY <1>0, <1>3, <2>2, <3>3 DEF Takes, Accept, Bound
    <3> QED
      BY <3>4
  <2>3. CASE m.collector # c
    BY <1>0, <1>3, <2>1, <2>3 DEF Accept, Keeps
  <2> QED
    BY <2>2, <2>3
<1>4. ASSUME NEW a \in Accounts, DeleteAccount(a) PROVE Goal
  BY <1>0, <1>4 DEF DeleteAccount, Keeps, Unbinds
<1>5. ASSUME NEW d \in Collectors,
             \/ Traffic(d) \/ Reboot(d) \/ Upgrade(d)
             \/ \E i \in Identities : Reconfigure(d, i)
             \/ \E p \in Procs : \/ Start(d, p) \/ ReadInput(d, p) \/ ReadOutput(d, p)
                                 \/ Reserve(d, p) \/ Send(d, p) \/ SendLegacy(d, p)
                                 \/ Exit(d, p)
      PROVE  Goal
  BY <1>1, <1>5 DEF panelVars, Traffic, Reboot, Upgrade, Reconfigure, Start, ReadInput,
                    ReadOutput, Reserve, Send, SendLegacy, Exit
<1>6. ASSUME \/ \E m \in net : Lose(m)
             \/ \E a \in Accounts, n \in 0 .. MaxTotal : WriteTotal(a, n)
             \/ \E w \in Passwords, S \in SUBSET Accounts : NodesChange(w, S)
             \/ UNCHANGED vars
      PROVE  Goal
  BY <1>1, <1>6 DEF panelVars, Lose, WriteTotal, NodesChange, vars
<1>7. Goal
  BY <1>2, <1>3, <1>4, <1>5, <1>6 DEF Next
<1> QED
  BY <1>7

LEMMA RowStep == Inv /\ [Next]_vars => RowInv'
<1> SUFFICES ASSUME Inv, [Next]_vars, NEW c \in Collectors, Bound(c)'
             PROVE  /\ row'[c].account \in alive'
                    /\ Past(c, row[c].last)'
                    /\ \A m \in net' : m.collector = c /\ row'[c].last.seq < m.seq
                         => Precedes(row'[c].last, m)
                    /\ \A p \in Procs : Sampling(c, p)' => Before(row[c].last, c, p)'
  BY DEF RowInv
<1>1. CASE Keeps(c)
  <2>1. Bound(c) /\ row'[c].account \in alive'
    BY <1>1 DEF Keeps, Bound
  <2>2. PICK r \in Reading : r = row[c].last
    BY DEF Inv, TypeOK, Row
  <2>3. r = row'[c].last /\ IsReading(r) /\ Past(c, r)
    BY <1>1, <2>1, <2>2 DEF Keeps, Reading, IsReading, Inv, RowInv
  <2>4. Past(c, r)'
    BY <2>3, PastStep DEF Inv
  <2>5. ASSUME NEW p \in Procs, Sampling(c, p)' PROVE Before(r, c, p)'
    <3>1. Sampling(c, p) => Before(r, c, p)
      BY <2>1, <2>2 DEF Inv, RowInv
    <3> QED
      BY <2>3, <2>5, <3>1, BeforeStep DEF Inv
  <2>6. ASSUME NEW m \in net', m.collector = c, r.seq < m.seq PROVE Precedes(r, m)
    <3>1. CASE m \in net
      BY <2>1, <2>2, <2>6, <3>1 DEF Inv, RowInv
    <3>2. CASE m \notin net
      <4>1. PICK d \in Collectors, p \in Procs : Send(d, p) \/ SendLegacy(d, p)
        BY <3>2, NetMove
      <4>2. PICK n \in Sample :
               /\ net' = net \cup {n} /\ n.collector = d
               /\ Bound(d) /\ row[d].last.seq < n.seq => Precedes(row[d].last, n)
        BY <4>1, SentIsLast
      <4> QED
        BY <2>1, <2>2, <2>6, <3>2, <4>2
    <3> QED
      BY <3>1, <3>2
  <2> QED
    BY <2>1, <2>3, <2>4, <2>5, <2>6
<1>2. CASE Unbinds(c)
  BY <1>2 DEF Unbinds, Bound, NoRow
<1>3. ASSUME NEW m \in net, Takes(c, m)
      PROVE  /\ row'[c].account \in alive'
             /\ Past(c, row[c].last)'
             /\ \A n \in net' : n.collector = c /\ row'[c].last.seq < n.seq
                  => Precedes(row'[c].last, n)
             /\ \A p \in Procs : Sampling(c, p)' => Before(row[c].last, c, p)'
  <2>1. /\ row'[c].last.counter = m.counter /\ row'[c].last.seq = m.seq
        /\ row'[c].last.base = m.base /\ m.collector = c /\ net' = net
    BY <1>3 DEF Takes, Taken
  <2>2. Past(c, m)' /\ \A p \in Procs : Sampling(c, p)' => Before(m, c, p)'
    BY <2>1, NetStep DEF NetInv
  <2>3. \A n \in net : n.collector = c /\ m.seq < n.seq => Precedes(m, n)
    BY <2>1 DEF Inv, NetInv
  <2> QED
    BY <1>3, <2>1, <2>2, <2>3 DEF Takes, Past, Before, Precedes, At
<1> QED
  BY <1>1, <1>2, <1>3, RowMove
-----------------------------------------------------------------------------
(* The charges.                                                            *)

\* What a later reading adds is never more than the time between the two
\* can account for, and never less than the counters differ.
LEMMA DeltaBounds ==
  ASSUME NEW x, NEW y, IsReading(x), IsReading(y)
  PROVE  /\ Delta(x, y.counter) \in Nat
         /\ x.counter + Delta(x, y.counter) >= y.counter
         /\ Precedes(x, y) => At(x) + Delta(x, y.counter) <= At(y)
         /\ x.counter <= y.counter => x.counter + Delta(x, y.counter) = y.counter
BY DEF IsReading, Delta, Precedes, At

LEMMA BillStep == Inv /\ [Next]_vars => BillInv'
<1> SUFFICES ASSUME Inv, [Next]_vars, NEW c \in Collectors
             PROVE  IF Bound(c)'
                      THEN /\ row'[c].first.seq <= row'[c].last.seq
                           /\ row'[c].first.seq # NoSeq =>
                                billed'[c] + At(row'[c].first) <= At(row'[c].last)
                           /\ row'[c].first.seq = NoSeq =>
                                billed'[c] <= (IF row'[c].last.seq = NoSeq
                                                 THEN row'[c].last.counter
                                                 ELSE At(row'[c].last))
                           /\ billed'[c] + row'[c].first.counter >= row'[c].last.counter
                      ELSE billed'[c] = 0
  BY DEF BillInv, At
<1> DEFINE first == row[c].first
           last == row[c].last
<1>0. /\ first \in Reading /\ last \in Reading /\ billed[c] \in Nat
      /\ IsReading(first) /\ IsReading(last)
  <2>1. row[c] \in Row /\ billed[c] \in Nat
    BY DEF Inv, TypeOK
  <2> QED
    BY <2>1 DEF Row, Reading, IsReading
<1>1. CASE Keeps(c)
  BY <1>1 DEF Keeps, Inv, BillInv, Bound
<1>2. CASE Unbinds(c)
  BY <1>2 DEF Unbinds, Bound, NoRow
<1>3. ASSUME NEW m \in net, Takes(c, m), ~Bound(c)
      PROVE  /\ Bound(c)' /\ billed'[c] = 0 /\ row'[c].first = Taken(m)
             /\ row'[c].last = Taken(m) /\ Taken(m) \in Reading
  <2>1. row'[c].account \in Accounts /\ Taken(m) \in Reading
    BY <1>3, TypeStep DEF Inv, TypeOK, Takes, Taken, Sample, Reading
  <2> QED
    BY <1>3, <2>1 DEF Takes, Bound
<1>4. ASSUME NEW m \in net, Takes(c, m), Bound(c)
      PROVE  /\ Bound(c)' /\ row'[c].first = first /\ row'[c].last = Taken(m)
             /\ first.seq <= m.seq
             /\ first.seq # NoSeq => billed'[c] + At(first) <= At(m)
             /\ first.seq = NoSeq =>
                  billed'[c] <= (IF m.seq = NoSeq THEN m.counter ELSE At(m))
             /\ billed'[c] + first.counter >= m.counter
  <2>1. IsReading(m) /\ m.collector = c
    BY <1>4 DEF Inv, TypeOK, Sample, IsReading, Takes
  <2>2. /\ row'[c].first = first /\ row'[c].last = Taken(m) /\ ~Stale(m) /\ Bound(c)'
        /\ billed'[c] = billed[c] + Delta(last, m.counter)
    BY <1>4 DEF Takes, Bound
  <2>3. /\ last.seq # NoSeq => last.seq < m.seq
        /\ last.seq = NoSeq => m.seq # NoSeq \/ m.counter >= last.counter
    BY <1>0, <2>1, <2>2 DEF Stale, IsReading
  <2>4. last.seq < m.seq => Precedes(last, m)
    BY <1>4, <2>1 DEF Inv, RowInv
  <2>5. /\ first.seq <= last.seq
        /\ first.seq # NoSeq => billed[c] + At(first) <= At(last)
        /\ first.seq = NoSeq =>
             billed[c] <= (IF last.seq = NoSeq THEN last.counter ELSE At(last))
        /\ billed[c] + first.counter >= last.counter
    BY <1>4 DEF Inv, BillInv
  <2>6. /\ Delta(last, m.counter) \in Nat
        /\ last.counter + Delta(last, m.counter) >= m.counter
        /\ Precedes(last, m) => At(last) + Delta(last, m.counter) <= At(m)
        /\ last.counter <= m.counter => last.counter + Delta(last, m.counter) = m.counter
    BY <1>0, <2>1, DeltaBounds
  <2>7. CASE last.seq < m.seq
    BY <1>0, <2>1, <2>2, <2>4, <2>5, <2>6, <2>7 DEF IsReading, NoSeq, At
  <2>8. CASE ~(last.seq < m.seq)
    <3>1. last.seq = NoSeq /\ m.seq = NoSeq /\ m.counter >= last.counter
      BY <1>0, <2>1, <2>3, <2>8 DEF IsReading, NoSeq
    <3> QED
      BY <1>0, <2>1, <2>2, <2>5, <2>6, <3>1 DEF IsReading, NoSeq, At
  <2> QED
    BY <2>7, <2>8
<1>5. ASSUME NEW m \in net, Takes(c, m), ~Bound(c)
      PROVE  IF Bound(c)'
                      THEN /\ row'[c].first.seq <= row'[c].last.seq
                           /\ row'[c].first.seq # NoSeq =>
                                billed'[c] + At(row'[c].first) <= At(row'[c].last)
                           /\ row'[c].first.seq = NoSeq =>
                                billed'[c] <= (IF row'[c].last.seq = NoSeq
                                                 THEN row'[c].last.counter
                                                 ELSE At(row'[c].last))
                           /\ billed'[c] + row'[c].first.counter >= row'[c].last.counter
                      ELSE billed'[c] = 0
  BY <1>3, <1>5 DEF Reading, At
<1>6. ASSUME NEW m \in net, Takes(c, m), Bound(c)
      PROVE  IF Bound(c)'
                      THEN /\ row'[c].first.seq <= row'[c].last.seq
                           /\ row'[c].first.seq # NoSeq =>
                                billed'[c] + At(row'[c].first) <= At(row'[c].last)
                           /\ row'[c].first.seq = NoSeq =>
                                billed'[c] <= (IF row'[c].last.seq = NoSeq
                                                 THEN row'[c].last.counter
                                                 ELSE At(row'[c].last))
                           /\ billed'[c] + row'[c].first.counter >= row'[c].last.counter
                      ELSE billed'[c] = 0
  <2>1. Taken(m).seq = m.seq /\ Taken(m).counter = m.counter /\ At(Taken(m)) = At(m)
    BY DEF Taken, At
  <2> QED
    BY <1>4, <1>6, <2>1
<1> QED
  BY <1>1, <1>2, <1>5, <1>6, RowMove

-----------------------------------------------------------------------------
(* The theorems.                                                           *)

LEMMA InitInv == Init => Inv
<1> SUFFICES ASSUME Init PROVE Inv
  OBVIOUS
<1>1. TypeOK
  BY InitType
<1>2. \A c \in Collectors, p \in Procs : script[c][p].pc = "idle"
  BY DEF Init, Idle
<1>3. LockInv /\ ProcessInv
  BY <1>2 DEF LockInv, ProcessInv
<1>4. NetInv
  BY DEF Init, NetInv
<1>5. RowInv /\ BillInv
  BY DEF Init, RowInv, BillInv, Bound, NoRow
<1> QED
  BY <1>1, <1>3, <1>4, <1>5 DEF Inv

LEMMA InvStep == Inv /\ [Next]_vars => Inv'
BY TypeStep, LockStep, ProcessStep, NetStep, RowStep, BillStep DEF Inv

\* Sequence numbers order the readings in flight and in the table in time,
\* and the charges stay within the last reading taken (see Inv).
THEOREM InvCorrect == Spec => []Inv
BY InitInv, InvStep, PTL DEF Spec

LEMMA InvBounds == Inv => NoOverbilling
<1> SUFFICES ASSUME Inv, NEW c \in Collectors, Bound(c)
             PROVE  billed[c] + (IF row[c].first.seq = NoSeq THEN 0
                                 ELSE At(row[c].first)) <= Seen(c)
  BY DEF NoOverbilling
<1>1. /\ row[c].first \in Reading /\ row[c].last \in Reading
      /\ billed[c] \in Nat /\ gone[c] \in Nat /\ rawIn[c] \in Nat /\ rawOut[c] \in Nat
  <2>1. row[c] \in Row
    BY DEF Inv, TypeOK
  <2> QED
    BY <2>1 DEF Inv, TypeOK, Row
<1>2. At(row[c].last) <= Seen(c) /\ row[c].last.counter <= At(row[c].last)
  <2>1. Precedes(row[c].last, Now(c))
    BY DEF Inv, RowInv, Past
  <2> QED
    BY <1>1, <2>1 DEF Precedes, Now, At, Seen, Reading
<1>3. /\ row[c].first.seq # NoSeq => billed[c] + At(row[c].first) <= At(row[c].last)
      /\ row[c].first.seq = NoSeq =>
           billed[c] <= (IF row[c].last.seq = NoSeq THEN row[c].last.counter
                         ELSE At(row[c].last))
  BY DEF Inv, BillInv
<1> QED
  BY <1>1, <1>2, <1>3 DEF At, Reading, Seen

\* An account is never charged for more than its nodes' rules have seen,
\* whatever the network and the reboots do (see NoOverbilling).
THEOREM NeverOverbills == Spec => []NoOverbilling
BY InvBounds, InvCorrect, PTL

\* Lost, refused and overtaken requests lose no bytes (see NothingLost).
THEOREM LosesNothing == Spec => []NothingLost
<1>1. Inv => NothingLost
  BY DEF Inv, BillInv, NothingLost
<1> QED
  BY <1>1, InvCorrect, PTL

\* A binding lasts as long as its account and a sequence number is taken at
\* most once and never after a higher one (see TakenOnce).
THEOREM TakesOnce == Spec => TakenOnce
<1> DEFINE Step(c) ==
      Bound(c) /\ Bound(c)' =>
        /\ row'[c].account = row[c].account
        /\ row'[c].first = row[c].first
        /\ row'[c] # row[c] /\ row[c].last.seq # NoSeq => row'[c].last.seq > row[c].last.seq
<1>1. ASSUME Inv, [Next]_vars, NEW c \in Collectors PROVE Step(c)
  <2>1. CASE Keeps(c) \/ Unbinds(c)
    BY <2>1 DEF Keeps, Unbinds, Bound, NoRow
  <2>2. ASSUME NEW m \in net, Takes(c, m) PROVE Step(c)
    <3>1. row[c].last.seq \in Nat /\ m.seq \in Nat
      BY <1>1 DEF Inv, TypeOK, Row, Reading, Sample
    <3> QED
      BY <2>2, <3>1 DEF Takes, Taken, Stale, NoSeq
  <2> QED
    BY <1>1, <2>1, <2>2, RowMove
<1>2. Inv /\ [Next]_vars => [\A c \in Collectors : Step(c)]_vars
  BY <1>1
<1> QED
  BY <1>2, InvCorrect, PTL DEF Spec, TakenOnce
-----------------------------------------------------------------------------
(* Refinement: every step of the protocol is a step of the ledger.         *)

LEMMA LedgerInitially == Init => Ledger!LedgerInit
BY DEF Init, Ledger!LedgerInit, Seen

LEMMA LedgerStep ==
  ASSUME Inv, Inv', NoOverbilling', [Next]_vars
  PROVE  [Ledger!LedgerNext]_(Ledger!ledgerVars)
<1> DEFINE seen == [c \in Collectors |-> Seen(c)]
           Goal == [Ledger!LedgerNext]_(Ledger!ledgerVars)
<1>0. /\ gone \in [Collectors -> Nat] /\ rawIn \in [Collectors -> Nat]
      /\ rawOut \in [Collectors -> Nat] /\ billed \in [Collectors -> Nat]
      /\ row \in [Collectors -> Row] /\ net \subseteq Sample
      /\ billed' \in [Collectors -> Nat]
  BY DEF Inv, TypeOK
<1>1. ASSUME UNCHANGED <<seen, billed>> PROVE Goal
  BY <1>1 DEF Ledger!ledgerVars
<1>2. ASSUME UNCHANGED <<gone, rawIn, rawOut>> PROVE seen' = seen
  BY <1>2 DEF Seen
<1>3. ASSUME NEW c \in Collectors, Traffic(c) PROVE Goal
  <2>1. PICK n \in Bursts :
           \/ rawIn' = [rawIn EXCEPT ![c] = @ + n] /\ UNCHANGED rawOut
           \/ rawOut' = [rawOut EXCEPT ![c] = @ + n] /\ UNCHANGED rawIn
    BY <1>3 DEF Traffic
  <2>2. n \in Nat /\ gone' = gone /\ billed' = billed
    BY <1>3 DEF Traffic, panelVars
  <2>3. \A d \in Collectors : d # c => rawIn'[d] = rawIn[d] /\ rawOut'[d] = rawOut[d]
    BY <1>0, <2>1
  <2>4. rawIn'[c] + rawOut'[c] = rawIn[c] + rawOut[c] + n
    BY <1>0, <2>1, <2>2
  <2>5. seen'[c] >= seen[c]
    <3>1. /\ gone[c] \in Nat /\ rawIn[c] \in Nat /\ rawOut[c] \in Nat
          /\ rawIn'[c] \in Nat /\ rawOut'[c] \in Nat
      BY <1>0 DEF Inv, TypeOK
    <3>2. gone'[c] + rawIn'[c] + rawOut'[c] >= gone[c] + rawIn[c] + rawOut[c]
      BY <2>2, <2>4, <3>1
    <3> QED
      BY <3>2 DEF Seen
  <2>6. seen' = [seen EXCEPT ![c] = seen'[c]]
    BY <2>2, <2>3 DEF Seen
  <2>7. Ledger!See(c)
    BY <2>2, <2>5, <2>6 DEF Ledger!See
  <2> QED
    BY <2>7 DEF Ledger!LedgerNext
<1>4. ASSUME NEW c \in Collectors, Reboot(c) PROVE Goal
  <2>1. \A d \in Collectors : Seen(d)' = Seen(d)
    BY <1>0, <1>4 DEF Reboot, Seen
  <2> QED
    BY <1>1, <1>4, <2>1 DEF Reboot, panelVars
<1>5. ASSUME NEW c \in Collectors,
             \/ Upgrade(c)
             \/ \E i \in Identities : Reconfigure(c, i)
             \/ \E p \in Procs : \/ Start(c, p) \/ ReadInput(c, p) \/ ReadOutput(c, p)
                                 \/ Reserve(c, p) \/ Send(c, p) \/ SendLegacy(c, p)
                                 \/ Exit(c, p)
      PROVE  Goal
  <2>1. UNCHANGED <<gone, rawIn, rawOut, billed>>
    BY <1>5 DEF panelVars, Upgrade, Reconfigure, Start, ReadInput, ReadOutput, Reserve,
                Send, SendLegacy, Exit
  <2> QED
    BY <1>1, <1>2, <2>1
<1>6. ASSUME \/ \E m \in net : Lose(m)
             \/ \E a \in Accounts, n \in 0 .. MaxTotal : WriteTotal(a, n)
             \/ \E w \in Passwords, S \in SUBSET Accounts : NodesChange(w, S)
             \/ UNCHANGED vars
      PROVE  Goal
  <2>1. UNCHANGED <<gone, rawIn, rawOut, billed>>
    BY <1>6 DEF nodeVars, panelVars, Lose, WriteTotal, NodesChange, vars
  <2> QED
    BY <1>1, <1>2, <2>1
<1>7. ASSUME NEW m \in net, Baseline(m) PROVE Goal
  <2>1. UNCHANGED <<gone, rawIn, rawOut>> /\ m.collector \in Collectors
    BY <1>0, <1>7 DEF Baseline, nodeVars, Sample
  <2>2. billed[m.collector] = 0
    BY <1>7, <2>1 DEF Inv, BillInv, Bound, Baseline
  <2>3. billed' = billed
    BY <1>0, <1>7, <2>2 DEF Baseline
  <2> QED
    BY <1>1, <1>2, <2>1, <2>3
<1>8. ASSUME NEW m \in net, Accept(m) PROVE Goal
  <2> DEFINE c == m.collector
  <2>1. UNCHANGED <<gone, rawIn, rawOut>> /\ c \in Collectors /\ m.counter \in Nat
    BY <1>0, <1>8 DEF Accept, nodeVars, Sample
  <2>2. row[c].last \in Reading /\ row[c] \in Row
    BY <1>0, <2>1 DEF Row
  <2>3. Delta(row[c].last, m.counter) \in Nat
    BY <2>1, <2>2, DeltaType
  <2>4. billed' = [billed EXCEPT ![c] = @ + Delta(row[c].last, m.counter)]
    BY <1>8 DEF Accept
  <2>5. Bound(c)'
    BY <1>0, <1>8, <2>1, <2>2 DEF Accept, Bound
  <2>6. billed'[c] <= Seen(c)'
    <3>1. billed'[c] + (IF row'[c].first.seq = NoSeq THEN 0 ELSE At(row'[c].first))
            <= Seen(c)'
      BY <2>1, <2>5 DEF NoOverbilling, At
    <3>2. At(row'[c].first) \in Nat
      <4>1. row'[c] \in Row
        BY <2>1 DEF Inv, TypeOK
      <4> QED
        BY <4>1 DEF Row, Reading, At
    <3>3. Seen(c)' \in Nat /\ billed'[c] \in Nat
      BY <1>0, <2>1 DEF Seen
    <3> QED
      BY <3>1, <3>2, <3>3
  <2>7. billed'[c] \in billed[c] .. seen[c]
    <3>1. Seen(c)' = Seen(c) /\ Seen(c) \in Nat
      BY <1>0, <2>1 DEF Seen
    <3> QED
      BY <1>0, <2>1, <2>3, <2>4, <2>6, <3>1
  <2>8. billed' = [billed EXCEPT ![c] = billed'[c]]
    BY <1>0, <2>1, <2>4
  <2>9. Ledger!Charge(c)
    BY <1>2, <2>1, <2>7, <2>8 DEF Ledger!Charge
  <2> QED
    BY <2>1, <2>9 DEF Ledger!LedgerNext
<1>9. ASSUME NEW a \in Accounts, DeleteAccount(a) PROVE Goal
  <2> DEFINE D == {c \in Collectors : row[c].account = a}
  <2>1. billed' = [c \in Collectors |-> IF c \in D THEN 0 ELSE billed[c]]
    BY <1>9 DEF DeleteAccount
  <2>2. UNCHANGED <<gone, rawIn, rawOut>> /\ D \in SUBSET Collectors
    BY <1>9 DEF DeleteAccount, nodeVars
  <2>3. Ledger!Drop
    BY <1>2, <2>1, <2>2 DEF Ledger!Drop
  <2> QED
    BY <2>3 DEF Ledger!LedgerNext
<1>10. Goal
  BY <1>3, <1>4, <1>5, <1>6, <1>7, <1>8, <1>9 DEF Next
<1> QED
  BY <1>10

\* Collectors, network and panel together do no more than the ledger allows:
\* traffic flows, some of what was seen and not yet charged is charged, and a
\* deleted account drops its bindings (see ImplementsLedger).
THEOREM LedgerImplemented == Spec => ImplementsLedger
<1>1. Inv /\ Inv' /\ NoOverbilling' /\ [Next]_vars => [Ledger!LedgerNext]_(Ledger!ledgerVars)
  BY LedgerStep
<1> QED
  BY <1>1, LedgerInitially, InvCorrect, NeverOverbills, PTL
     DEF Spec, ImplementsLedger, Ledger!LedgerSpec
=============================================================================
