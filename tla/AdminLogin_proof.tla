-------------------------- MODULE AdminLogin_proof ---------------------------
(***************************************************************************)
(* Proofs about AdminLogin, for every set of processes, requests and       *)
(* passwords and every limit. The assumptions are StartupAssumption and    *)
(* LimitAssumption.                                                        *)
(*                                                                         *)
(* Five invariants, one for each concern: each is inductive together with  *)
(* the types and, where it speaks of the administrator's row, SessionInv.  *)
(***************************************************************************)
EXTENDS AdminLogin, TLAPS

USE StartupAssumption, LimitAssumption

Request == [pc : ReqPC, at : Procs \cup {NoProc}, password : Passwords \cup {NoPassword},
            new : Passwords \cup {NoPassword}, user : Admin \cup {NoAdmin}, window : Windows]

\* Where a process holds a value for a file.
Drawn == {"makeKey", "writeKey", "makePass", "writePass", "insert"}

TypeInv ==
  /\ file \in [Files -> 0 .. MaxValue + 1]
  /\ nextValue \in 1 .. MaxValue + 1
  /\ proc \in [Procs -> Proc]
  /\ \A p \in Procs : proc[p].pc \in Drawn => proc[p].value \in Values
  /\ admin \in Admin \cup {NoAdmin}
  /\ applied \in 0 .. MaxMigration
  /\ ran \in [1 .. MaxMigration -> Nat]
  /\ writer \in Procs \cup {NoProc}
  /\ clock \in Windows
  /\ bucket \in Bucket \cup {NoRow}
  /\ admitted \in [Windows -> Nat]
  /\ req \in [Requests -> Request]

\* Of the windows that no setback has crossed, those newer than the row's still have
\* their whole limit, the row counts its own, and the older ones are done.
LimitInv ==
  /\ bucket = NoRow => \A w \in Windows : admitted[w] = 0
  /\ bucket # NoRow =>
       \A w \in Windows \ crossed :
         /\ bucket.window < w => admitted[w] = 0
         /\ bucket.window = w => admitted[w] <= bucket.count
         /\ bucket.window > w => admitted[w] <= Limit

\* The one process that migrates applies exactly what is missing.
MigrationInv ==
  /\ \A v \in 1 .. MaxMigration : ran[v] = IF v <= applied THEN 1 ELSE 0
  /\ \A p \in Procs :
       /\ proc[p].pc = "migrate" => writer = p /\ proc[p].todo = applied + 1 .. MaxMigration
       /\ proc[p].pc = "ready" => applied = MaxMigration
       /\ proc[p].pc \in {"begin", "migrate", "ready"} => admin # NoAdmin

\* While a process is about to write the key file, it is alone and nobody has
\* a key; the file is never written again.
KeyInv ==
  /\ \A p \in Procs :
       /\ proc[p].pc = "writeKey" => file["secret"] = Empty
       /\ proc[p].key # Absent => proc[p].key = file["secret"]
  /\ \A p, q \in Procs : proc[p].pc = "writeKey" /\ proc[q].pc = "writeKey" => p = q

\* The first password has not been replaced.
Initial == admin = NoAdmin \/ admin.password \in Values

\* So long, the password file is written once and never removed.
PasswordInv ==
  /\ Initial =>
       /\ \A p \in Procs :
            /\ proc[p].pc = "writePass" => file["password"] = Empty
            /\ proc[p].pc = "insert" => proc[p].value = file["password"]
       /\ \A p, q \in Procs : proc[p].pc = "writePass" /\ proc[q].pc = "writePass" => p = q
  /\ admin # NoAdmin /\ admin.password \in Values => file["password"] = admin.password
  /\ \A r \in Requests : req[r].pc = "unlink" => admin # NoAdmin /\ admin.password \in Chosen

\* A request that has read the row has shown its password, and as long as the
\* version is the same, the password is too.
Shown(x, a) ==
  /\ x.pc # "idle" => a # NoAdmin
  /\ x.pc \in {"verify", "change"} => x.new \in Chosen
  /\ x.pc \in {"upgrade", "open", "change"} =>
       /\ x.user \in Admin
       /\ x.user.password = x.password
       /\ x.user.version <= a.version
       /\ x.user.version = a.version => a.password = x.password

Opened(s, a) ==
  /\ a # NoAdmin
  /\ s.version \in Nat
  /\ s.version <= a.version
  /\ s.version = a.version => s.password = a.password

SessionInv ==
  /\ \A r \in Requests : Shown(req[r], admin)
  /\ \A s \in session : Opened(s, admin)

Inv == TypeInv /\ LimitInv /\ MigrationInv /\ KeyInv /\ PasswordInv /\ SessionInv

-----------------------------------------------------------------------------
(* Types.                                                                  *)

LEMMA Types ==
  /\ Absent \in 0 .. MaxValue + 1 /\ Empty \in 0 .. MaxValue + 1
  /\ Values \subseteq 0 .. MaxValue + 1
  /\ Off \in Proc
  /\ \A w \in Chosen : w \notin Values /\ w # Absent /\ w # Empty
BY DEF Absent, Empty, Values, Off, Proc, PC

LEMMA UnsentType == Unsent \in Request
BY DEF Unsent, Request, ReqPC, Windows

LEMMA InitType == Init => TypeInv
<1> SUFFICES ASSUME Init PROVE TypeInv
  OBVIOUS
<1> USE DEF Init, StartInit, LimitInit
<1>1. file \in [Files -> 0 .. MaxValue + 1] /\ nextValue \in 1 .. MaxValue + 1
  BY Types
<1>2. proc \in [Procs -> Proc] /\ writer \in Procs \cup {NoProc}
  BY Types
<1>3. \A p \in Procs : proc[p].pc \in Drawn => proc[p].value \in Values
  BY DEF Off, Drawn
<1>4. admin \in Admin \cup {NoAdmin} /\ applied \in 0 .. MaxMigration
  <2>1. CASE admin = NoAdmin /\ applied = 0
    BY <2>1
  <2>2. ASSUME NEW w \in Chosen, applied \in 0 .. MaxMigration,
               admin = [password |-> w, legacy |-> TRUE, version |-> 1]
        PROVE  admin \in Admin
    BY <2>2 DEF Admin, Passwords
  <2> QED
    BY <2>1, <2>2
<1>5. ran \in [1 .. MaxMigration -> Nat]
  OBVIOUS
<1>6. clock \in Windows /\ admitted \in [Windows -> Nat]
  BY DEF Windows
<1>7. req \in [Requests -> Request]
  BY UnsentType
<1> QED
  BY <1>1, <1>2, <1>3, <1>4, <1>5, <1>6, <1>7 DEF TypeInv

\* The types of what a starting process may change.
StartTypes ==
  /\ file \in [Files -> 0 .. MaxValue + 1]
  /\ nextValue \in 1 .. MaxValue + 1
  /\ proc \in [Procs -> Proc]
  /\ \A p \in Procs : proc[p].pc \in Drawn => proc[p].value \in Values
  /\ admin \in Admin \cup {NoAdmin}
  /\ applied \in 0 .. MaxMigration
  /\ ran \in [1 .. MaxMigration -> Nat]
  /\ writer \in Procs \cup {NoProc}

LEMMA KilledType ==
  ASSUME StartTypes, NEW p \in Procs, Killed(p)
  PROVE  StartTypes'
BY Types DEF StartTypes, Killed, Off, Drawn

LEMMA StartType ==
  ASSUME StartTypes, NEW p \in Procs, StartNext(p)
  PROVE  StartTypes'
<1> USE DEF StartTypes
<1>0. proc[p] \in Proc
  OBVIOUS
<1>1. CASE Launch(p)
  BY <1>0, <1>1 DEF Launch, Go, Proc, PC, Drawn
<1>2. CASE CountAdmins(p)
  BY <1>0, <1>2 DEF CountAdmins, Go, Proc, PC, Drawn
<1>3. CASE InsertAdmin(p)
  <2>1. proc' \in [Procs -> Proc]
    BY <1>0, <1>3 DEF InsertAdmin, Proc, PC, Absent
  <2>2. \A q \in Procs : proc'[q].pc \in Drawn => proc'[q].value \in Values
    BY <1>0, <1>3 DEF InsertAdmin, Drawn, Proc
  <2>3. proc[p].value \in Values
    BY <1>3 DEF InsertAdmin, Drawn
  <2>4. admin' \in Admin \cup {NoAdmin}
    BY <2>3, <1>3 DEF InsertAdmin, Admin, Passwords
  <2> QED
    BY <1>3, <2>1, <2>2, <2>4 DEF InsertAdmin
<1>4. CASE BeginMigrations(p)
  <2>1. Missing \in SUBSET (1 .. MaxMigration)
    BY DEF Missing
  <2>2. proc' = [proc EXCEPT ![p] = [@ EXCEPT !.pc = "migrate", !.todo = Missing]]
    BY <1>4 DEF BeginMigrations
  <2>3. proc' \in [Procs -> Proc]
    BY <1>0, <2>1, <2>2 DEF Proc, PC
  <2>4. \A q \in Procs : proc'[q].pc \in Drawn => proc'[q].value \in Values
    BY <1>0, <2>2 DEF Drawn, Proc
  <2> QED
    BY <1>4, <2>3, <2>4 DEF BeginMigrations
<1>5. CASE CommitMigrations(p)
  <2>1. proc' \in [Procs -> Proc] /\ \A q \in Procs : proc'[q].pc \in Drawn => proc'[q].value \in Values
    BY <1>0, <1>5 DEF CommitMigrations, Proc, PC, Drawn
  <2>2. ran' \in [1 .. MaxMigration -> Nat]
    BY <1>5 DEF CommitMigrations
  <2> QED
    BY <1>5, <2>1, <2>2 DEF CommitMigrations
<1>6. ASSUME NEW f \in Files, ReadFile(p, f) PROVE StartTypes'
  <2>1. CASE file[f] \in Values
    <3>1. Known(p, f, file[f]) /\ UNCHANGED <<file, nextValue, admin, applied, ran, writer>>
      BY <1>6, <2>1 DEF ReadFile
    <3> QED
      BY <1>0, <2>1, <3>1 DEF Known, Proc, PC, Drawn, Absent
  <2>2. CASE file[f] \notin Values
    <3>1. /\ nextValue <= MaxValue /\ nextValue' = nextValue + 1
          /\ proc' = [proc EXCEPT ![p] = [@ EXCEPT !.pc = Step(f, "make"), !.value = nextValue]]
          /\ UNCHANGED <<file, admin, applied, ran, writer>>
      BY <1>6, <2>2 DEF ReadFile
    <3>2. Step(f, "make") \in PC /\ nextValue \in Values
      BY <3>1 DEF Step, Files, PC, Values
    <3>3. proc' \in [Procs -> Proc]
      BY <1>0, <3>1, <3>2 DEF Proc
    <3>4. \A q \in Procs : proc'[q].pc \in Drawn => proc'[q].value \in Values
      BY <1>0, <3>1, <3>2 DEF Drawn, Proc
    <3> QED
      BY <3>1, <3>3, <3>4
  <2> QED
    BY <2>1, <2>2
<1>7. ASSUME NEW f \in Files, MakeFile(p, f) PROVE StartTypes'
  <2>1. Step(f, "write") \in PC /\ Step(f, "poll") \in PC /\ Step(f, "poll") \notin Drawn
    BY DEF Step, Files, PC, Drawn
  <2>2. proc[p].value \in Values
    BY <1>7 DEF MakeFile, Step, Files, Drawn
  <2>3. /\ \/ file' = [file EXCEPT ![f] = Empty] \/ file' = file
        /\ \/ proc' = [proc EXCEPT ![p].pc = Step(f, "write")]
           \/ proc' = [proc EXCEPT ![p].pc = Step(f, "poll")]
        /\ UNCHANGED <<nextValue, admin, applied, ran, writer>>
    BY <1>7 DEF MakeFile, Go
  <2>4. file' \in [Files -> 0 .. MaxValue + 1]
    BY <2>3, Types
  <2>. PICK s \in PC : proc' = [proc EXCEPT ![p].pc = s]
    BY <2>1, <2>3
  <2>5. proc' \in [Procs -> Proc]
    BY <1>0 DEF Proc
  <2>6. \A q \in Procs : proc'[q].pc \in Drawn => proc'[q].value \in Values
    BY <1>0, <2>2, <2>3 DEF Proc
  <2> QED
    BY <2>3, <2>4, <2>5, <2>6
<1>8. ASSUME NEW f \in Files, WriteFile(p, f) PROVE StartTypes'
  <2>1. proc[p].value \in Values
    BY <1>8 DEF WriteFile, Step, Files, Drawn
  <2>2. file' \in [Files -> 0 .. MaxValue + 1]
    BY <1>8, <2>1, Types DEF WriteFile
  <2> QED
    BY <1>0, <1>8, <2>1, <2>2 DEF WriteFile, Known, Proc, PC, Drawn, Absent
<1>9. ASSUME NEW f \in Files, PollFile(p, f) PROVE StartTypes'
  BY <1>0, <1>9 DEF PollFile, Known, Proc, PC, Drawn, Absent
<1>10. ASSUME NEW f \in Files, GiveUp(p, f) PROVE StartTypes'
  BY <1>10, Types DEF GiveUp, Off, Drawn
<1> QED
  BY <1>1, <1>2, <1>3, <1>4, <1>5, <1>6, <1>7, <1>8, <1>9, <1>10 DEF StartNext

\* The types of what requests and the limiter may change.
RequestTypes ==
  /\ clock \in Windows
  /\ bucket \in Bucket \cup {NoRow}
  /\ admitted \in [Windows -> Nat]
  /\ req \in [Requests -> Request]

LEMMA TypeParts == TypeInv <=> StartTypes /\ RequestTypes
BY DEF TypeInv, StartTypes, RequestTypes

LEMMA ConsumeType ==
  ASSUME RequestTypes, NEW w \in Windows, Consume(w)
  PROVE  /\ clock' \in Windows
         /\ bucket' \in Bucket \cup {NoRow}
         /\ admitted' \in [Windows -> Nat]
<1> USE DEF RequestTypes
<1>1. CASE ~Admits(w)
  BY <1>1 DEF Consume
<1>2. CASE Admits(w)
  <2>1. bucket' \in Bucket
    <3>1. CASE Counted(w)
      <4>1. bucket \in Bucket /\ bucket.count < Limit /\ bucket' = [bucket EXCEPT !.count = @ + 1]
        BY <1>2, <3>1 DEF Consume, Admits, Counted
      <4> QED
        BY <4>1 DEF Bucket
    <3>2. CASE ~Counted(w)
      BY <1>2, <3>2 DEF Consume, Bucket
    <3> QED
      BY <3>1, <3>2
  <2> QED
    BY <1>2, <2>1 DEF Consume
<1> QED
  BY <1>1, <1>2

LEMMA EndType ==
  ASSUME RequestTypes, NEW r \in Requests, End(r)
  PROVE  req' \in [Requests -> Request]
BY UnsentType DEF RequestTypes, End

LEMMA TypeStep == TypeInv /\ SessionInv /\ [Next]_vars => TypeInv'
<1> SUFFICES ASSUME TypeInv, SessionInv, [Next]_vars PROVE TypeInv'
  OBVIOUS
<1> StartTypes /\ RequestTypes
  BY TypeParts
<1>0. ASSUME UNCHANGED startVars PROVE StartTypes'
  BY <1>0 DEF startVars, StartTypes
<1>1. ASSUME NEW p \in Procs, Kill(p) PROVE TypeInv'
  <2>1. StartTypes'
    BY <1>1, KilledType DEF Kill
  <2>2. RequestTypes'
    BY <1>1, UnsentType DEF Kill, RequestTypes, limitVars
  <2> QED
    BY <2>1, <2>2 DEF TypeInv, StartTypes, RequestTypes
<1>2. ASSUME NEW p \in Procs, StartNext(p), UNCHANGED <<limitVars, loginVars>> PROVE TypeInv'
  <2>1. StartTypes'
    BY <1>2, StartType
  <2>2. RequestTypes'
    BY <1>2 DEF RequestTypes, limitVars, loginVars
  <2> QED
    BY <2>1, <2>2 DEF TypeInv, StartTypes, RequestTypes
<1>3. CASE NextWindow /\ UNCHANGED <<startVars, loginVars>>
  BY <1>3, <1>0 DEF NextWindow, TypeInv, StartTypes, RequestTypes, loginVars, Windows
<1>4. ASSUME NEW r \in Requests, NEW p \in Ready, NEW w \in Typed, BeginLogin(r, p, w) PROVE TypeInv'
  <2>1. p \in Procs /\ w \in Passwords
    BY DEF Ready, Typed, Passwords
  <2>2. [Unsent EXCEPT !.pc = "consume", !.at = p, !.password = w, !.window = clock] \in Request
    BY <2>1 DEF Unsent, Request, ReqPC, RequestTypes
  <2>3. req' \in [Requests -> Request]
    BY <1>4, <2>2 DEF BeginLogin, RequestTypes
  <2> QED
    BY <1>4, <1>0, <2>3 DEF BeginLogin, TypeInv, StartTypes, RequestTypes, limitVars
<1>5. ASSUME NEW r \in Requests, ConsumeLogin(r) PROVE TypeInv'
  <2>1. req[r] \in Request /\ req[r].window \in Windows
    BY DEF RequestTypes, Request
  <2>2. [req[r] EXCEPT !.pc = "read", !.window = 0] \in Request
    <3>1. "read" \in ReqPC /\ 0 \in Windows
      BY DEF ReqPC, Windows
    <3> QED
      BY <2>1, <3>1 DEF Request
  <2>3. req' \in [Requests -> Request]
    BY <1>5, <2>2, EndType DEF ConsumeLogin, RequestTypes
  <2> QED
    BY <1>5, <1>0, <2>1, <2>3, ConsumeType DEF ConsumeLogin, TypeInv, StartTypes, RequestTypes
<1>6. ASSUME NEW r \in Requests, ReadUser(r) PROVE TypeInv'
  <2>1. req[r] \in Request
    BY DEF RequestTypes
  <2>2. PICK pc \in ReqPC : \/ End(r)
                           \/ req' = [req EXCEPT ![r] = [@ EXCEPT !.pc = pc, !.user = admin]]
    BY <1>6 DEF ReadUser, ReqPC
  <2>3. [req[r] EXCEPT !.pc = pc, !.user = admin] \in Request
    BY <2>1 DEF Request, StartTypes
  <2>4. req' \in [Requests -> Request]
    BY <2>2, <2>3, EndType DEF RequestTypes
  <2> QED
    BY <1>6, <1>0, <2>4 DEF ReadUser, TypeInv, StartTypes, RequestTypes, limitVars
<1>7. ASSUME NEW r \in Requests, UpgradeHash(r) PROVE TypeInv'
  <2>1. admin \in Admin /\ req[r].password \in Passwords /\ req[r] \in Request /\ "open" \in ReqPC
    BY <1>7 DEF UpgradeHash, SessionInv, Shown, StartTypes, RequestTypes, Admin, ReqPC
  <2>2. admin' \in Admin
    BY <1>7, <2>1 DEF UpgradeHash, Admin
  <2>3. [req[r] EXCEPT !.pc = "open"] \in Request
    BY <2>1 DEF Request
  <2>4. req' \in [Requests -> Request]
    BY <1>7, <2>3, EndType DEF UpgradeHash, RequestTypes
  <2> QED
    BY <1>7, <2>2, <2>4 DEF UpgradeHash, TypeInv, StartTypes, RequestTypes, limitVars
<1>8. ASSUME NEW r \in Requests, OpenSession(r) PROVE TypeInv'
  BY <1>8, <1>0, EndType DEF OpenSession, TypeInv, StartTypes, RequestTypes, limitVars
<1>9. ASSUME NEW r \in Requests, NEW p \in Ready, NEW s \in session,
             NEW old \in Typed, NEW new \in Chosen, BeginChange(r, p, s, old, new)
      PROVE  TypeInv'
  <2>1. p \in Procs /\ old \in Passwords /\ new \in Passwords /\ "verify" \in ReqPC
    BY DEF Ready, Typed, Passwords, ReqPC
  <2>2. [Unsent EXCEPT !.pc = "verify", !.at = p, !.password = old, !.new = new] \in Request
    BY <2>1, UnsentType DEF Request
  <2>3. req' \in [Requests -> Request]
    BY <1>9, <2>2 DEF BeginChange, RequestTypes
  <2> QED
    BY <1>9, <1>0, <2>3 DEF BeginChange, TypeInv, StartTypes, RequestTypes, limitVars
<1>10. ASSUME NEW r \in Requests, VerifyOld(r) PROVE TypeInv'
  <2>1. req[r] \in Request /\ "change" \in ReqPC
    BY DEF RequestTypes, ReqPC
  <2>2. \/ End(r)
        \/ req' = [req EXCEPT ![r] = [@ EXCEPT !.pc = "change", !.user = admin]]
    BY <1>10 DEF VerifyOld
  <2>3. [req[r] EXCEPT !.pc = "change", !.user = admin] \in Request
    BY <2>1 DEF Request, StartTypes
  <2>4. req' \in [Requests -> Request]
    BY <2>2, <2>3, EndType DEF RequestTypes
  <2> QED
    BY <1>10, <1>0, <2>4 DEF VerifyOld, TypeInv, StartTypes, RequestTypes, limitVars
<1>11. ASSUME NEW r \in Requests, ChangePassword(r) PROVE TypeInv'
  <2>1. admin \in Admin /\ req[r].new \in Passwords /\ req[r] \in Request /\ "unlink" \in ReqPC
    BY <1>11 DEF ChangePassword, SessionInv, Shown, StartTypes, RequestTypes, Passwords, ReqPC
  <2>2. admin.version + 1 \in Nat
    BY <2>1 DEF Admin
  <2>3. admin' \in Admin
    <3>1. \/ admin' = admin
          \/ admin' = [password |-> req[r].new, legacy |-> FALSE, version |-> admin.version + 1]
      BY <1>11 DEF ChangePassword
    <3>2. [password |-> req[r].new, legacy |-> FALSE, version |-> admin.version + 1] \in Admin
      BY <2>1, <2>2 DEF Admin
    <3> QED
      BY <2>1, <3>1, <3>2
  <2>4. [req[r] EXCEPT !.pc = "unlink"] \in Request
    BY <2>1 DEF Request
  <2>5. req' \in [Requests -> Request]
    BY <1>11, <2>4, EndType DEF ChangePassword, RequestTypes
  <2> QED
    BY <1>11, <2>3, <2>5 DEF ChangePassword, TypeInv, StartTypes, RequestTypes, limitVars
<1>12. ASSUME NEW r \in Requests, NEW removed \in BOOLEAN, UnlinkInitial(r, removed) PROVE TypeInv'
  <2>1. file' \in [Files -> 0 .. MaxValue + 1]
    BY <1>12, Types DEF UnlinkInitial, StartTypes
  <2> QED
    BY <1>12, <2>1, EndType DEF UnlinkInitial, TypeInv, StartTypes, RequestTypes, limitVars
<1>13. ASSUME NEW s \in session, Logout(s) PROVE TypeInv'
  BY <1>13, <1>0 DEF Logout, TypeInv, StartTypes, RequestTypes, limitVars
<1>14. CASE UNCHANGED vars
  BY <1>14, <1>0 DEF vars, loginVars, limitVars, TypeInv, StartTypes, RequestTypes
<1> QED
  BY <1>1, <1>2, <1>3, <1>4, <1>5, <1>6, <1>7, <1>8, <1>9, <1>10, <1>11, <1>12, <1>13, <1>14
     DEF Next

-----------------------------------------------------------------------------
(* The limiter.                                                            *)

LEMMA ConsumeLimit ==
  ASSUME RequestTypes, LimitInv, NEW w \in Windows, Consume(w)
  PROVE  LimitInv'
<1>0. /\ Limit \in Nat \ {0}
      /\ \A v \in Windows : v \in Nat /\ admitted[v] \in Nat
      /\ bucket # NoRow => bucket.window \in Windows /\ bucket.count \in Nat /\ bucket.count <= Limit
  BY DEF RequestTypes, Bucket, Windows
<1>1. CASE ~Admits(w)
  BY <1>1 DEF Consume, LimitInv
<1>2. CASE Admits(w) /\ Counted(w)
  <2>1. /\ bucket # NoRow /\ bucket.window = w
        /\ bucket' = [bucket EXCEPT !.count = @ + 1]
        /\ admitted' = [admitted EXCEPT ![w] = @ + 1]
        /\ crossed \subseteq crossed'
    BY <1>2 DEF Consume, Counted
  <2>2. bucket' \in Bucket /\ bucket'.window = w /\ bucket'.count = bucket.count + 1
    BY <1>2, <2>1 DEF RequestTypes, Bucket, Admits, Counted
  <2>3. bucket' # NoRow
    BY <2>2
  <2>4. \A v \in Windows : admitted'[v] = IF v = w THEN admitted[v] + 1 ELSE admitted[v]
    BY <2>1 DEF RequestTypes
  <2> QED
    BY <1>0, <2>1, <2>2, <2>3, <2>4 DEF LimitInv
<1>3. CASE Admits(w) /\ ~Counted(w)
  <2>1. /\ bucket' = [window |-> w, count |-> 1]
        /\ admitted' = [admitted EXCEPT ![w] = @ + 1]
        /\ crossed' = crossed \cup Crossed(w)
    BY <1>3 DEF Consume
  <2>2. bucket' \in Bucket /\ bucket'.window = w /\ bucket'.count = 1
    BY <1>0, <2>1 DEF Bucket
  <2>3. bucket' # NoRow
    BY <2>2
  <2>4. \A v \in Windows : admitted'[v] = IF v = w THEN admitted[v] + 1 ELSE admitted[v]
    BY <2>1 DEF RequestTypes
  <2>5. CASE bucket = NoRow
    BY <1>0, <2>2, <2>3, <2>4, <2>5 DEF LimitInv
  <2>6. CASE bucket # NoRow /\ bucket.window > w
    <3>1. \A v \in Windows \ crossed' : v \notin crossed /\ (v < w \/ bucket.window < v)
      BY <1>0, <2>1, <2>6 DEF Crossed
    <3> QED
      BY <1>0, <2>2, <2>3, <2>4, <2>6, <3>1 DEF LimitInv
  <2>7. CASE bucket # NoRow /\ bucket.window < w
    <3>1. \A v \in Windows \ crossed' : v \notin crossed
      BY <2>1
    <3> QED
      BY <1>0, <2>2, <2>3, <2>4, <2>7, <3>1 DEF LimitInv
  <2>8. bucket # NoRow => bucket.window # w
    BY <1>3 DEF Counted
  <2> QED
    BY <1>0, <2>5, <2>6, <2>7, <2>8
<1> QED
  BY <1>1, <1>2, <1>3

LEMMA LimitStep == TypeInv /\ LimitInv /\ [Next]_vars => LimitInv'
<1> SUFFICES ASSUME TypeInv, LimitInv, [Next]_vars PROVE LimitInv'
  OBVIOUS
<1>1. ASSUME NEW r \in Requests, ConsumeLogin(r) PROVE LimitInv'
  <2>1. req[r].window \in Windows /\ RequestTypes
    BY TypeParts DEF RequestTypes, Request
  <2> QED
    BY <1>1, <2>1, ConsumeLimit DEF ConsumeLogin
<1>2. CASE NextWindow
  BY <1>2 DEF NextWindow, LimitInv
<1>3. CASE UNCHANGED limitVars
  BY <1>3 DEF limitVars, LimitInv
<1> QED
  BY <1>1, <1>2, <1>3 DEF Next, vars, Kill, BeginLogin, ReadUser, UpgradeHash, OpenSession,
     BeginChange, VerifyOld, ChangePassword, UnlinkInitial, Logout

LEMMA LimitEnough == TypeInv /\ LimitInv => AttemptsInOrder
<1> SUFFICES ASSUME TypeInv, LimitInv, NEW w \in Windows \ crossed PROVE admitted[w] <= Limit
  BY DEF AttemptsInOrder
<1>1. admitted[w] \in Nat /\ w \in Nat /\ Limit \in Nat
  BY DEF TypeInv, Windows
<1>2. bucket # NoRow => bucket.window \in Nat /\ bucket.count \in Nat /\ bucket.count <= Limit
  BY DEF TypeInv, Bucket, Windows
<1> QED
  BY <1>1, <1>2 DEF LimitInv

-----------------------------------------------------------------------------
(* The administrator's row.                                                *)

LEMMA NextCases ==
  ASSUME [Next]_vars
  PROVE  \/ \E p \in Procs : Kill(p)
         \/ \E p \in Procs : StartNext(p) /\ UNCHANGED loginVars
         \/ \E r \in Requests : UpgradeHash(r) \/ ChangePassword(r)
         \/ \E r \in Requests, removed \in BOOLEAN : UnlinkInitial(r, removed)
         \/ UNCHANGED startVars
BY DEF Next, vars, BeginLogin, ConsumeLogin, ReadUser, OpenSession, BeginChange, VerifyOld, Logout

\* The row is never removed; its password is replaced only by a request that
\* has shown it, with the next version and by one that somebody chose.
Replaces(r) ==
  /\ req[r].pc = "change"
  /\ req[r].password = admin.password
  /\ admin'.version = admin.version + 1
  /\ admin'.password \in Chosen

LEMMA AdminStep ==
  ASSUME TypeInv, SessionInv, [Next]_vars, admin # NoAdmin
  PROVE  /\ admin \in Admin /\ admin' \in Admin
         /\ \/ admin'.password = admin.password /\ admin'.version = admin.version
            \/ \E r \in Requests : ChangePassword(r) /\ Replaces(r)
<1>0. admin \in Admin
  BY DEF TypeInv
<1>1. CASE UNCHANGED admin
  BY <1>0, <1>1
<1>2. ASSUME NEW p \in Procs, StartNext(p) PROVE UNCHANGED admin
  BY <1>2 DEF StartNext, Launch, CountAdmins, InsertAdmin, BeginMigrations, CommitMigrations,
     ReadFile, MakeFile, WriteFile, PollFile, GiveUp
<1>3. ASSUME NEW r \in Requests, UpgradeHash(r), ~UNCHANGED admin
      PROVE  admin' \in Admin /\ admin'.password = admin.password /\ admin'.version = admin.version
  <2>1. /\ admin = req[r].user /\ req[r].pc = "upgrade"
        /\ admin' = [admin EXCEPT !.password = req[r].password, !.legacy = FALSE]
    BY <1>3 DEF UpgradeHash, Unchanged
  <2>2. req[r].password = admin.password
    BY <2>1 DEF SessionInv, Shown
  <2> QED
    BY <1>0, <2>1, <2>2 DEF Admin
<1>4. ASSUME NEW r \in Requests, ChangePassword(r), ~UNCHANGED admin
      PROVE  admin' \in Admin /\ Replaces(r)
  <2>1. /\ admin = req[r].user /\ req[r].pc = "change"
        /\ admin' = [password |-> req[r].new, legacy |-> FALSE, version |-> admin.version + 1]
    BY <1>4 DEF ChangePassword, Unchanged
  <2>2. req[r].password = admin.password /\ req[r].new \in Chosen
    BY <2>1 DEF SessionInv, Shown
  <2>3. admin.version + 1 \in Nat
    BY <1>0 DEF Admin
  <2>4. admin' \in Admin
    BY <2>1, <2>2, <2>3 DEF Admin, Passwords
  <2> QED
    BY <2>1, <2>2, <2>4 DEF Replaces
<1>5. UNCHANGED startVars => UNCHANGED admin
  BY DEF startVars
<1>6. \/ UNCHANGED admin
      \/ \E r \in Requests : UpgradeHash(r) \/ ChangePassword(r)
  <2>1. ASSUME NEW p \in Procs, Kill(p) PROVE UNCHANGED admin
    BY <2>1 DEF Kill, Killed
  <2>2. ASSUME NEW r \in Requests, NEW removed \in BOOLEAN, UnlinkInitial(r, removed)
        PROVE  UNCHANGED admin
    BY <2>2 DEF UnlinkInitial
  <2> QED
    BY <2>1, <2>2, <1>2, <1>5, NextCases
<1> QED
  <2>1. CASE UNCHANGED admin
    BY <1>1, <2>1
  <2>2. CASE ~UNCHANGED admin
    BY <1>0, <1>3, <1>4, <1>6, <2>2
  <2> QED
    BY <2>1, <2>2

-----------------------------------------------------------------------------
(* The private files.                                                      *)

FileStep(p, f) ==
  ReadFile(p, f) \/ MakeFile(p, f) \/ WriteFile(p, f) \/ PollFile(p, f) \/ GiveUp(p, f)

\* Its process goes on with the same file, with what follows it, or stops.
LEMMA FileFrame ==
  ASSUME TypeInv, NEW p \in Procs, NEW f \in Files, FileStep(p, f)
  PROVE  /\ UNCHANGED <<admin, applied, ran, writer>>
         /\ \A q \in Procs : q # p => proc'[q] = proc[q]
         /\ proc'[p].pc \notin {"begin", "migrate", "ready"}
<1>0. proc \in [Procs -> Proc] /\ proc[p] \in Proc
  BY DEF TypeInv
<1>1. /\ \A what \in {"make", "write", "poll"} : Step(f, what) \notin {"begin", "migrate", "ready"}
      /\ Off.pc = "off"
  BY DEF Step, Files, Off
<1>2. ASSUME NEW v, Known(p, f, v)
      PROVE  /\ \A q \in Procs : q # p => proc'[q] = proc[q]
             /\ proc'[p].pc \notin {"begin", "migrate", "ready"}
  BY <1>0, <1>2 DEF Known, Proc
<1>3. CASE ReadFile(p, f)
  <2>1. CASE file[f] \in Values
    BY <1>2, <1>3, <2>1 DEF ReadFile
  <2>2. CASE file[f] \notin Values
    <3> DEFINE x == [proc[p] EXCEPT !.pc = Step(f, "make"), !.value = nextValue]
    <3>1. proc' = [proc EXCEPT ![p] = x] /\ UNCHANGED <<admin, applied, ran, writer>>
      BY <1>3, <2>2 DEF ReadFile
    <3>2. x.pc = Step(f, "make")
      BY <1>0 DEF Proc
    <3> HIDE DEF x
    <3> QED
      BY <1>0, <1>1, <3>1, <3>2
  <2> QED
    BY <2>1, <2>2
<1>4. CASE MakeFile(p, f)
  <2>1. PICK s \in {Step(f, "write"), Step(f, "poll")} : proc' = [proc EXCEPT ![p].pc = s]
    BY <1>4 DEF MakeFile, Go
  <2>2. proc'[p].pc = s
    BY <1>0, <2>1 DEF Proc
  <2> QED
    BY <1>0, <1>1, <1>4, <2>1, <2>2 DEF MakeFile
<1>5. CASE WriteFile(p, f)
  BY <1>2, <1>5 DEF WriteFile
<1>6. CASE PollFile(p, f)
  BY <1>2, <1>6 DEF PollFile
<1>7. CASE GiveUp(p, f)
  BY <1>0, <1>1, <1>7 DEF GiveUp
<1> QED
  BY <1>3, <1>4, <1>5, <1>6, <1>7 DEF FileStep

-----------------------------------------------------------------------------
(* Migrations.                                                             *)

LEMMA MigrationStep == TypeInv /\ SessionInv /\ MigrationInv /\ [Next]_vars => MigrationInv'
<1> SUFFICES ASSUME TypeInv, SessionInv, MigrationInv, [Next]_vars PROVE MigrationInv'
  OBVIOUS
<1>0. admin # NoAdmin => admin' # NoAdmin
  BY AdminStep
<1>a. \A p \in Procs : proc[p] \in Proc
  BY DEF TypeInv
<1>1. ASSUME NEW p \in Procs, Kill(p) PROVE MigrationInv'
  BY <1>0, <1>1 DEF Kill, Killed, Off, MigrationInv, TypeInv
<1>2. ASSUME NEW p \in Procs, StartNext(p) PROVE MigrationInv'
  <2>1. CASE Launch(p)
    BY <1>0, <2>1 DEF Launch, Go, MigrationInv, TypeInv, Proc
  <2>2. CASE CountAdmins(p)
    BY <1>0, <2>2 DEF CountAdmins, Go, MigrationInv, TypeInv, Proc
  <2>3. CASE InsertAdmin(p)
    <3>1. /\ proc' = [proc EXCEPT ![p] = [@ EXCEPT !.pc = "begin", !.value = Absent]]
          /\ UNCHANGED <<applied, ran, writer>>
      BY <2>3 DEF InsertAdmin
    <3>2. admin' # NoAdmin
      <4>1. CASE admin = NoAdmin
        <5>1. proc[p].value \in Values
          BY <2>3 DEF InsertAdmin, TypeInv, Drawn
        <5>2. admin' \in Admin
          BY <2>3, <4>1, <5>1 DEF InsertAdmin, Admin, Passwords
        <5> QED
          BY <5>2
      <4> QED
        BY <1>0, <4>1
    <3> QED
      BY <1>a, <3>1, <3>2 DEF MigrationInv, TypeInv, Proc
  <2>4. CASE BeginMigrations(p)
    <3>1. /\ proc[p].pc = "begin" /\ writer = NoProc /\ writer' = p
          /\ proc' = [proc EXCEPT ![p] = [@ EXCEPT !.pc = "migrate", !.todo = Missing]]
          /\ UNCHANGED <<applied, ran>>
      BY <2>4 DEF BeginMigrations
    <3>2. \A q \in Procs : proc'[q] = IF q = p THEN [proc[p] EXCEPT !.pc = "migrate", !.todo = Missing]
                                              ELSE proc[q]
      BY <3>1 DEF TypeInv
    <3>3. proc'[p].pc = "migrate" /\ proc'[p].todo = applied' + 1 .. MaxMigration
      <4>1. proc'[p].pc = "migrate" /\ proc'[p].todo = Missing
        BY <1>a, <3>2 DEF Proc
      <4>2. Missing = applied' + 1 .. MaxMigration
        BY <3>1 DEF Missing
      <4> QED
        BY <4>1, <4>2
    <3>4. admin' # NoAdmin
      BY <1>0, <3>1 DEF MigrationInv
    <3>5. \A q \in Procs : q # p => proc'[q] = proc[q] /\ proc[q].pc # "migrate"
      BY <3>1, <3>2 DEF MigrationInv
    <3> QED
      BY <1>0, <3>1, <3>3, <3>4, <3>5 DEF MigrationInv
  <2>5. CASE CommitMigrations(p)
    <3>1. /\ proc[p].pc = "migrate" /\ applied' = MaxMigration /\ writer' = NoProc
          /\ ran' = [v \in 1 .. MaxMigration |-> IF v \in proc[p].todo THEN ran[v] + 1 ELSE ran[v]]
          /\ proc' = [proc EXCEPT ![p] = [@ EXCEPT !.pc = "ready", !.todo = {}]]
      BY <2>5 DEF CommitMigrations
    <3>2. \A q \in Procs : proc'[q] = IF q = p THEN [proc[p] EXCEPT !.pc = "ready", !.todo = {}] ELSE proc[q]
      BY <3>1 DEF TypeInv
    <3>3. writer = p /\ proc[p].todo = applied + 1 .. MaxMigration /\ admin # NoAdmin
      BY <3>1 DEF MigrationInv
    <3>4. \A v \in 1 .. MaxMigration : ran'[v] = IF v <= applied' THEN 1 ELSE 0
      BY <3>1, <3>3 DEF MigrationInv, TypeInv
    <3>5. proc'[p].pc = "ready"
      BY <1>a, <3>2 DEF Proc
    <3>6. \A q \in Procs : q # p => proc'[q] = proc[q] /\ proc[q].pc # "migrate"
      BY <3>2, <3>3 DEF MigrationInv
    <3> QED
      BY <1>0, <3>1, <3>3, <3>4, <3>5, <3>6 DEF MigrationInv
  <2>6. ASSUME NEW f \in Files, FileStep(p, f) PROVE MigrationInv'
    <3>1. /\ UNCHANGED <<admin, applied, ran, writer>>
          /\ \A q \in Procs : q # p => proc'[q] = proc[q]
          /\ proc'[p].pc \notin {"begin", "migrate", "ready"}
      BY <2>6, FileFrame
    <3> QED
      BY <1>0, <3>1 DEF MigrationInv
  <2> QED
    BY <1>2, <2>1, <2>2, <2>3, <2>4, <2>5, <2>6 DEF StartNext, FileStep
<1>3. CASE UNCHANGED <<proc, applied, ran, writer>>
  BY <1>0, <1>3 DEF MigrationInv
<1> QED
  BY <1>1, <1>2, <1>3, NextCases DEF UpgradeHash, ChangePassword, UnlinkInitial, startVars

-----------------------------------------------------------------------------
(* Requests and sessions.                                                  *)

\* What a request has shown and what a session was opened with outlive every
\* change of the row.
LEMMA RowChange ==
  ASSUME NEW a \in Admin, NEW b \in Admin,
         \/ b.password = a.password /\ b.version = a.version
         \/ b.version = a.version + 1
  PROVE  /\ \A x \in Request : Shown(x, a) => Shown(x, b)
         /\ \A s : Opened(s, a) => Opened(s, b)
<1>1. a.version \in Nat /\ b.version \in Nat /\ b # NoAdmin
  BY DEF Admin
<1>2. ASSUME NEW x \in Request, Shown(x, a) PROVE Shown(x, b)
  <2>1. CASE x.pc \in {"upgrade", "open", "change"}
    <3>1. x.user.version \in Nat /\ x.user.version <= a.version
      BY <1>2, <2>1 DEF Shown, Admin
    <3> QED
      BY <1>1, <1>2, <2>1, <3>1 DEF Shown
  <2>2. CASE x.pc \notin {"upgrade", "open", "change"}
    BY <1>1, <1>2, <2>2 DEF Shown
  <2> QED
    BY <2>1, <2>2
<1>3. ASSUME NEW s, Opened(s, a) PROVE Opened(s, b)
  BY <1>1, <1>3 DEF Opened
<1> QED
  BY <1>2, <1>3

LEMMA RowStep ==
  ASSUME TypeInv, SessionInv, [Next]_vars
  PROVE  /\ \A r \in Requests : Shown(req[r], admin')
         /\ \A s \in session : Opened(s, admin')
<1>0. \A r \in Requests : req[r] \in Request
  BY DEF TypeInv
<1>1. CASE admin = NoAdmin
  <2>1. session = {}
    BY <1>1 DEF SessionInv, Opened
  <2>2. \A r \in Requests : req[r].pc = "idle"
    BY <1>1 DEF SessionInv, Shown
  <2> QED
    BY <2>1, <2>2 DEF Shown
<1>2. CASE admin # NoAdmin
  <2>1. /\ admin \in Admin /\ admin' \in Admin
        /\ \/ admin'.password = admin.password /\ admin'.version = admin.version
           \/ admin'.version = admin.version + 1
    BY <1>2, AdminStep DEF Replaces
  <2> QED
    BY <1>0, <2>1, RowChange DEF SessionInv
<1> QED
  BY <1>1, <1>2

\* A step that gives one request a new record.
LEMMA OneRequest ==
  ASSUME TypeInv, SessionInv, [Next]_vars, NEW r \in Requests, NEW x,
         req' = [req EXCEPT ![r] = x], Shown(x, admin')
  PROVE  \A q \in Requests : Shown(req'[q], admin')
BY RowStep DEF TypeInv

LEMMA UnsentShown == \A a : Shown(Unsent, a)
BY DEF Shown, Unsent

LEMMA SessionStep == TypeInv /\ SessionInv /\ [Next]_vars => SessionInv'
<1> SUFFICES ASSUME TypeInv, SessionInv, [Next]_vars PROVE SessionInv'
  OBVIOUS
<1> DEFINE Kept == \A s \in session : Opened(s, admin')
           All == \A q \in Requests : Shown(req'[q], admin')
<1>0. Kept /\ (req' = req => All)
  BY RowStep
<1>a. \A r \in Requests : req[r] \in Request /\ Shown(req[r], admin)
  BY DEF TypeInv, SessionInv
<1>b. \A r \in Requests : End(r) => All
  BY OneRequest, UnsentShown DEF End
<1>c. session' \subseteq session /\ All => SessionInv'
  BY <1>0 DEF SessionInv
<1> HIDE DEF Kept, All
<1>1. ASSUME NEW p \in Procs, Kill(p) PROVE SessionInv'
  <2>1. \A q \in Requests : req'[q] = Unsent \/ req'[q] = req[q]
    BY <1>1 DEF Kill
  <2>2. All
    BY <2>1, RowStep, UnsentShown DEF All
  <2> QED
    BY <1>1, <1>c, <2>2 DEF Kill
<1>2. CASE UNCHANGED loginVars
  BY <1>2, <1>0, <1>c DEF loginVars
<1>3. ASSUME NEW r \in Requests, NEW p \in Ready, NEW w \in Typed, BeginLogin(r, p, w)
      PROVE  SessionInv'
  <2> DEFINE x == [Unsent EXCEPT !.pc = "consume", !.at = p, !.password = w, !.window = clock]
  <2>1. req' = [req EXCEPT ![r] = x] /\ admin' # NoAdmin /\ session' = session
    BY <1>3 DEF BeginLogin, startVars
  <2>2. Shown(x, admin')
    BY <2>1 DEF Shown, Unsent
  <2> HIDE DEF x
  <2> QED
    BY <1>c, <2>1, <2>2, OneRequest DEF All
<1>4. ASSUME NEW r \in Requests, ConsumeLogin(r) PROVE SessionInv'
  <2> DEFINE x == [req[r] EXCEPT !.pc = "read", !.window = 0]
  <2>1. /\ End(r) \/ req' = [req EXCEPT ![r] = x]
        /\ req[r].pc = "consume" /\ admin' = admin /\ session' = session
    BY <1>4 DEF ConsumeLogin, startVars
  <2>2. Shown(x, admin')
    BY <1>a, <2>1 DEF Shown, Request
  <2> HIDE DEF x
  <2> QED
    BY <1>b, <1>c, <2>1, <2>2, OneRequest DEF All
<1>5. ASSUME NEW r \in Requests, ReadUser(r) PROVE SessionInv'
  <2>1. /\ req[r].pc = "read" /\ admin' = admin /\ session' = session
        /\ \/ End(r)
           \/ /\ admin.password = req[r].password
              /\ \E pc \in {"upgrade", "open"} :
                   req' = [req EXCEPT ![r] = [@ EXCEPT !.pc = pc, !.user = admin]]
    BY <1>5 DEF ReadUser, startVars
  <2>2. admin \in Admin
    BY <1>a, <2>1 DEF TypeInv, Shown
  <2>3. ASSUME NEW pc \in {"upgrade", "open"}, admin.password = req[r].password
        PROVE  Shown([req[r] EXCEPT !.pc = pc, !.user = admin], admin')
    BY <1>a, <2>1, <2>2, <2>3 DEF Shown, Request, Admin
  <2> QED
    BY <1>b, <1>c, <2>1, <2>3, OneRequest DEF All
<1>6. ASSUME NEW r \in Requests, UpgradeHash(r) PROVE SessionInv'
  <2> DEFINE x == [req[r] EXCEPT !.pc = "open"]
  <2>1. /\ End(r) \/ req' = [req EXCEPT ![r] = x]
        /\ req[r].pc = "upgrade" /\ session' = session
    BY <1>6 DEF UpgradeHash
  <2>2. Shown(x, admin')
    BY <1>a, <2>1, RowStep DEF Shown, Request
  <2> HIDE DEF x
  <2> QED
    BY <1>b, <1>c, <2>1, <2>2, OneRequest DEF All
<1>7. ASSUME NEW r \in Requests, OpenSession(r) PROVE SessionInv'
  <2> DEFINE t == [version |-> req[r].user.version, key |-> Key(r), password |-> req[r].password]
  <2>1. /\ End(r) /\ req[r].pc = "open" /\ admin' = admin
        /\ session' = session \cup {t}
    BY <1>7 DEF OpenSession, startVars
  <2>2. Shown(req[r], admin) /\ t.version = req[r].user.version /\ t.password = req[r].password
    BY <1>a
  <2>3. Opened(t, admin')
    BY <2>1, <2>2 DEF Shown, Opened, Admin
  <2> HIDE DEF t
  <2> QED
    BY <1>0, <1>b, <2>1, <2>3 DEF SessionInv, Kept, All
<1>8. ASSUME NEW r \in Requests, NEW p \in Ready, NEW s \in session,
             NEW old \in Typed, NEW new \in Chosen, BeginChange(r, p, s, old, new)
      PROVE  SessionInv'
  <2> DEFINE x == [Unsent EXCEPT !.pc = "verify", !.at = p, !.password = old, !.new = new]
  <2>1. req' = [req EXCEPT ![r] = x] /\ admin' # NoAdmin /\ session' = session
    BY <1>8 DEF BeginChange, startVars, Accepted
  <2>2. Shown(x, admin')
    BY <2>1 DEF Shown, Unsent
  <2> HIDE DEF x
  <2> QED
    BY <1>c, <2>1, <2>2, OneRequest DEF All
<1>9. ASSUME NEW r \in Requests, VerifyOld(r) PROVE SessionInv'
  <2> DEFINE x == [req[r] EXCEPT !.pc = "change", !.user = admin]
  <2>1. /\ req[r].pc = "verify" /\ admin' = admin /\ session' = session
        /\ \/ End(r)
           \/ admin.password = req[r].password /\ req' = [req EXCEPT ![r] = x]
    BY <1>9 DEF VerifyOld, startVars
  <2>2. admin \in Admin
    BY <1>a, <2>1 DEF TypeInv, Shown
  <2>3. admin.password = req[r].password => Shown(x, admin')
    BY <1>a, <2>1, <2>2 DEF Shown, Request, Admin
  <2> HIDE DEF x
  <2> QED
    BY <1>b, <1>c, <2>1, <2>3, OneRequest DEF All
<1>10. ASSUME NEW r \in Requests, ChangePassword(r) PROVE SessionInv'
  <2> DEFINE x == [req[r] EXCEPT !.pc = "unlink"]
  <2>1. /\ End(r) \/ req' = [req EXCEPT ![r] = x]
        /\ req[r].pc = "change" /\ session' = session
    BY <1>10 DEF ChangePassword
  <2>2. Shown(x, admin')
    BY <1>a, <2>1, RowStep DEF Shown, Request
  <2> HIDE DEF x
  <2> QED
    BY <1>b, <1>c, <2>1, <2>2, OneRequest DEF All
<1>11. ASSUME NEW r \in Requests, NEW removed \in BOOLEAN, UnlinkInitial(r, removed)
       PROVE  SessionInv'
  BY <1>11, <1>b, <1>c DEF UnlinkInitial
<1>12. ASSUME NEW s \in session, Logout(s) PROVE SessionInv'
  BY <1>12, <1>0, <1>c DEF Logout
<1> QED
  BY <1>1, <1>2, <1>3, <1>4, <1>5, <1>6, <1>7, <1>8, <1>9, <1>10, <1>11, <1>12
     DEF Next, vars, loginVars

-----------------------------------------------------------------------------
(* The key and the first password.                                         *)

\* A process that knows what the file holds goes on.
Goes(p, f, v) ==
  IF f = "secret" THEN proc'[p].pc = "count" /\ proc'[p].key = v
  ELSE proc'[p].pc = "insert" /\ proc'[p].value = v /\ proc'[p].key = proc[p].key

LEMMA FileCases ==
  ASSUME TypeInv, NEW p \in Procs, NEW f \in Files, FileStep(p, f)
  PROVE  \/ file' = file /\ file[f] \in Values /\ Goes(p, f, file[f])
         \/ /\ file' = file
            /\ proc'[p].pc \in {Step(f, "make"), Step(f, "poll")}
            /\ proc'[p].key = proc[p].key
         \/ /\ file[f] = Absent /\ file' = [file EXCEPT ![f] = Empty]
            /\ proc'[p].pc = Step(f, "write")
            /\ proc'[p].key = proc[p].key
         \/ /\ proc[p].pc = Step(f, "write") /\ proc[p].value \in Values
            /\ file' = IF file[f] = Absent THEN file ELSE [file EXCEPT ![f] = proc[p].value]
            /\ Goes(p, f, proc[p].value)
         \/ file' = file /\ proc'[p] = Off
<1>0. proc \in [Procs -> Proc] /\ proc[p] \in Proc
  BY DEF TypeInv
<1>1. ASSUME NEW v, Known(p, f, v) PROVE Goes(p, f, v)
  BY <1>0, <1>1 DEF Known, Goes, Proc
<1>2. ASSUME NEW s, NEW v, proc' = [proc EXCEPT ![p] = [@ EXCEPT !.pc = s, !.value = v]]
      PROVE  proc'[p].pc = s /\ proc'[p].key = proc[p].key
  BY <1>0, <1>2 DEF Proc
<1>3. ASSUME NEW s, Go(p, s) PROVE proc'[p].pc = s /\ proc'[p].key = proc[p].key
  BY <1>0, <1>3 DEF Go, Proc
<1>4. CASE ReadFile(p, f)
  BY <1>1, <1>2, <1>4 DEF ReadFile
<1>5. CASE MakeFile(p, f)
  BY <1>3, <1>5 DEF MakeFile
<1>6. CASE WriteFile(p, f)
  <2>1. proc[p].value \in Values
    BY <1>6 DEF WriteFile, Step, Files, Drawn, TypeInv
  <2> QED
    BY <1>1, <1>6, <2>1 DEF WriteFile
<1>7. CASE PollFile(p, f)
  BY <1>1, <1>7 DEF PollFile
<1>8. CASE GiveUp(p, f)
  BY <1>0, <1>8 DEF GiveUp
<1> QED
  BY <1>4, <1>5, <1>6, <1>7, <1>8 DEF FileStep

\* The starting steps that access no file.
PlainStep(p) ==
  Launch(p) \/ CountAdmins(p) \/ InsertAdmin(p) \/ BeginMigrations(p) \/ CommitMigrations(p)

LEMMA PlainFrame ==
  ASSUME TypeInv, NEW p \in Procs, PlainStep(p)
  PROVE  /\ file' = file
         /\ \A q \in Procs : q # p => proc'[q] = proc[q]
         /\ proc'[p].key = proc[p].key
         /\ proc'[p].pc \in {"readKey", "readPass", "begin", "migrate", "ready"}
<1>0. proc \in [Procs -> Proc] /\ proc[p] \in Proc
  BY DEF TypeInv
<1>1. CASE Launch(p)
  BY <1>0, <1>1 DEF Launch, Go, Proc
<1>2. CASE CountAdmins(p)
  BY <1>0, <1>2 DEF CountAdmins, Go, Proc
<1>3. CASE InsertAdmin(p)
  BY <1>0, <1>3 DEF InsertAdmin, Proc
<1>4. CASE BeginMigrations(p)
  <2>1. file' = file /\ proc' = [proc EXCEPT ![p] = [@ EXCEPT !.pc = "migrate", !.todo = Missing]]
    BY <1>4 DEF BeginMigrations
  <2> QED
    BY <1>0, <2>1 DEF Proc
<1>5. CASE CommitMigrations(p)
  BY <1>0, <1>5 DEF CommitMigrations, Proc
<1> QED
  BY <1>1, <1>2, <1>3, <1>4, <1>5 DEF PlainStep

LEMMA KilledFrame ==
  ASSUME TypeInv, NEW p \in Procs, Kill(p)
  PROVE  /\ UNCHANGED <<file, admin>>
         /\ \A q \in Procs : proc'[q] = proc[q] \/ proc'[q] = Off
BY DEF Kill, Killed, TypeInv

LEMMA KeyStep == TypeInv /\ KeyInv /\ [Next]_vars => KeyInv'
<1> SUFFICES ASSUME TypeInv, KeyInv, [Next]_vars PROVE KeyInv'
  OBVIOUS
<1>0. /\ Off.pc = "off" /\ Off.key = Absent
      /\ "secret" \in Files /\ file \in [Files -> 0 .. MaxValue + 1]
      /\ \A v \in Values : v # Absent /\ v # Empty
      /\ \A q \in Procs : proc[q].key \in Values \cup {Absent}
      /\ Absent # Empty
  BY DEF Off, Files, Values, Absent, Empty, TypeInv, Proc
<1>1. ASSUME NEW p \in Procs, Kill(p) PROVE KeyInv'
  BY <1>0, <1>1, KilledFrame DEF KeyInv
<1>2. ASSUME NEW p \in Procs, PlainStep(p) PROVE KeyInv'
  BY <1>2, PlainFrame DEF KeyInv
<1>3. ASSUME NEW p \in Procs, FileStep(p, "secret") PROVE KeyInv'
  <2>1. \A q \in Procs : q # p => proc'[q] = proc[q]
    BY <1>0, <1>3, FileFrame
  <2>2. /\ Step("secret", "make") = "makeKey" /\ Step("secret", "write") = "writeKey"
        /\ Step("secret", "poll") = "pollKey"
    BY DEF Step
  <2>3. CASE file' = file /\ file["secret"] \in Values /\ Goes(p, "secret", file["secret"])
    BY <2>1, <2>3 DEF KeyInv, Goes
  <2>4. CASE /\ file' = file /\ proc'[p].pc \in {"makeKey", "pollKey"}
             /\ proc'[p].key = proc[p].key
    BY <2>1, <2>4 DEF KeyInv
  <2>5. CASE /\ file["secret"] = Absent /\ file' = [file EXCEPT !["secret"] = Empty]
             /\ proc'[p].pc = "writeKey" /\ proc'[p].key = proc[p].key
    BY <1>0, <2>1, <2>5 DEF KeyInv
  <2>6. CASE /\ proc[p].pc = "writeKey" /\ proc[p].value \in Values
             /\ file' = IF file["secret"] = Absent THEN file ELSE [file EXCEPT !["secret"] = proc[p].value]
             /\ Goes(p, "secret", proc[p].value)
    <3>1. \A q \in Procs : q # p => proc[q].pc # "writeKey" /\ proc[q].key = Absent
      BY <1>0, <2>6 DEF KeyInv
    <3>2. file'["secret"] = proc[p].value
      BY <1>0, <2>6 DEF KeyInv
    <3> QED
      BY <2>1, <2>6, <3>1, <3>2 DEF KeyInv, Goes
  <2>7. CASE file' = file /\ proc'[p] = Off
    BY <1>0, <2>1, <2>7 DEF KeyInv
  <2> QED
    BY <1>0, <1>3, <2>2, <2>3, <2>4, <2>5, <2>6, <2>7, FileCases
<1>4. ASSUME NEW p \in Procs, FileStep(p, "password") PROVE KeyInv'
  <2>1. "password" \in Files /\ \A q \in Procs : q # p => proc'[q] = proc[q]
    BY <1>4, FileFrame DEF Files
  <2>2. /\ file'["secret"] = file["secret"]
        /\ proc'[p].key = proc[p].key \/ proc'[p].key = Absent
        /\ proc'[p].pc # "writeKey"
    BY <1>0, <1>4, <2>1, FileCases DEF Step, Goes
  <2> QED
    BY <2>1, <2>2 DEF KeyInv
<1>5. ASSUME NEW r \in Requests, NEW removed \in BOOLEAN, UnlinkInitial(r, removed) PROVE KeyInv'
  BY <1>0, <1>5 DEF UnlinkInitial, KeyInv
<1>6. CASE UNCHANGED <<file, proc>>
  BY <1>6 DEF KeyInv
<1>7. ASSUME NEW p \in Procs, StartNext(p) PROVE KeyInv'
  BY <1>2, <1>3, <1>4, <1>7 DEF StartNext, FileStep, PlainStep, Files
<1> QED
  BY <1>1, <1>5, <1>6, <1>7, NextCases DEF UpgradeHash, ChangePassword, startVars

LEMMA InitialStays ==
  TypeInv /\ SessionInv /\ [Next]_vars => (Initial' => Initial)
<1> SUFFICES ASSUME TypeInv, SessionInv, [Next]_vars, admin # NoAdmin, Initial'
             PROVE  admin.password \in Values
  BY DEF Initial
<1>1. admin' # NoAdmin
  BY AdminStep
<1> QED
  BY <1>1, AdminStep, Types DEF Initial, Replaces

\* Only a request that has changed the password comes to remove the file.
LEMMA UnlinkAfterChange ==
  ASSUME TypeInv, SessionInv, [Next]_vars, NEW q \in Requests, req'[q].pc = "unlink"
  PROVE  req[q].pc = "unlink" \/ (admin' # NoAdmin /\ admin'.password \in Chosen)
<1> DEFINE Same == \A r \in Requests : req'[r].pc = "unlink" => req[r].pc = "unlink"
           Fine == Same \/ (admin' # NoAdmin /\ admin'.password \in Chosen)
<1>0. /\ req \in [Requests -> Request] /\ Unsent.pc = "idle"
      /\ \A r \in Requests : req[r] \in Request
  BY DEF TypeInv, Unsent
<1>a. ASSUME NEW r \in Requests, NEW x, x.pc # "unlink", req' = [req EXCEPT ![r] = x] PROVE Same
  BY <1>0, <1>a
<1>b. \A r \in Requests : End(r) => Same
  BY <1>0, <1>a DEF End
<1> HIDE DEF Same
<1>1. ASSUME NEW p \in Procs, Kill(p) PROVE Same
  BY <1>0, <1>1 DEF Kill, Same
<1>2. ASSUME UNCHANGED loginVars PROVE Same
  BY <1>2 DEF loginVars, Same
<1>3. ASSUME NEW r \in Requests, NEW p \in Ready, NEW w \in Typed, BeginLogin(r, p, w) PROVE Same
  <2> DEFINE x == [Unsent EXCEPT !.pc = "consume", !.at = p, !.password = w, !.window = clock]
  <2>1. req' = [req EXCEPT ![r] = x]
    BY <1>3 DEF BeginLogin
  <2>2. x.pc = "consume"
    BY DEF Unsent
  <2> HIDE DEF x
  <2> QED
    BY <1>a, <2>1, <2>2
<1>4. ASSUME NEW r \in Requests, NEW pc \in {"read", "upgrade", "open", "change"}, NEW x,
             x = [req[r] EXCEPT !.pc = pc, !.window = 0] \/ x = [req[r] EXCEPT !.pc = pc]
               \/ x = [req[r] EXCEPT !.pc = pc, !.user = admin],
             End(r) \/ req' = [req EXCEPT ![r] = x]
      PROVE  Same
  <2>1. x.pc = pc
    BY <1>0, <1>4 DEF Request
  <2> QED
    BY <1>a, <1>b, <1>4, <2>1
<1>5. ASSUME NEW r \in Requests, ConsumeLogin(r) PROVE Same
  BY <1>4, <1>5 DEF ConsumeLogin
<1>6. ASSUME NEW r \in Requests, ReadUser(r) PROVE Same
  <2>1. PICK pc \in {"upgrade", "open"} :
          End(r) \/ req' = [req EXCEPT ![r] = [@ EXCEPT !.pc = pc, !.user = admin]]
    BY <1>6 DEF ReadUser
  <2> QED
    BY <1>4, <2>1
<1>7. ASSUME NEW r \in Requests, UpgradeHash(r) PROVE Same
  <2>1. End(r) \/ req' = [req EXCEPT ![r] = [@ EXCEPT !.pc = "open"]]
    BY <1>7 DEF UpgradeHash
  <2> QED
    BY <1>4, <2>1
<1>8. ASSUME NEW r \in Requests, OpenSession(r) PROVE Same
  BY <1>b, <1>8 DEF OpenSession
<1>9. ASSUME NEW r \in Requests, NEW p \in Ready, NEW s \in session,
             NEW old \in Typed, NEW new \in Chosen, BeginChange(r, p, s, old, new)
      PROVE  Same
  <2> DEFINE x == [Unsent EXCEPT !.pc = "verify", !.at = p, !.password = old, !.new = new]
  <2>1. req' = [req EXCEPT ![r] = x]
    BY <1>9 DEF BeginChange
  <2>2. x.pc = "verify"
    BY DEF Unsent
  <2> HIDE DEF x
  <2> QED
    BY <1>a, <2>1, <2>2
<1>10. ASSUME NEW r \in Requests, VerifyOld(r) PROVE Same
  BY <1>4, <1>10 DEF VerifyOld
<1>11. ASSUME NEW r \in Requests, ChangePassword(r)
       PROVE  Fine
  <2>1. CASE Unchanged(r)
    <3>1. /\ admin # NoAdmin /\ req[r].new \in Chosen
          /\ admin' = [password |-> req[r].new, legacy |-> FALSE, version |-> admin.version + 1]
      BY <1>11, <2>1 DEF ChangePassword, SessionInv, Shown
    <3> QED
      BY <3>1, AdminStep
  <2>2. CASE ~Unchanged(r)
    BY <1>b, <1>11, <2>2 DEF ChangePassword
  <2> QED
    BY <2>1, <2>2
<1>12. ASSUME NEW r \in Requests, NEW removed \in BOOLEAN, UnlinkInitial(r, removed) PROVE Same
  BY <1>b, <1>12 DEF UnlinkInitial
<1>13. ASSUME NEW s \in session, Logout(s) PROVE Same
  BY <1>13 DEF Logout, Same
<1>14. Fine
  <2>1. (Same => Fine) /\ \A r \in Requests : ChangePassword(r) => Fine
    BY <1>11
  <2> HIDE DEF Fine
  <2> QED
    BY <1>1, <1>2, <1>3, <1>5, <1>6, <1>7, <1>8, <1>9, <1>10, <1>12, <1>13, <2>1
       DEF Next, vars, loginVars
<1> QED
  BY <1>14 DEF Same

LEMMA PasswordStep ==
  TypeInv /\ SessionInv /\ PasswordInv /\ [Next]_vars => PasswordInv'
<1> SUFFICES ASSUME TypeInv, SessionInv, PasswordInv, [Next]_vars PROVE PasswordInv'
  OBVIOUS
<1> DEFINE
     Alone == /\ \A p \in Procs :
                   /\ proc[p].pc = "writePass" => file["password"] = Empty
                   /\ proc[p].pc = "insert" => proc[p].value = file["password"]
              /\ \A p, q \in Procs : proc[p].pc = "writePass" /\ proc[q].pc = "writePass" => p = q
     Works == admin # NoAdmin /\ admin.password \in Values => file["password"] = admin.password
     Gone == \A r \in Requests : req[r].pc = "unlink" => admin # NoAdmin /\ admin.password \in Chosen
<1>0. /\ Off.pc = "off"
      /\ "password" \in Files /\ file \in [Files -> 0 .. MaxValue + 1]
      /\ \A v \in Values : v # Absent /\ v # Empty
      /\ Absent # Empty
  BY DEF Off, Files, Values, Absent, Empty, TypeInv
<1>a. (Initial => Alone) /\ Works /\ Gone
  BY DEF PasswordInv
<1>b. Initial' => Initial
  BY InitialStays
<1>c. admin # NoAdmin => admin' # NoAdmin /\ (admin'.password = admin.password \/ admin'.password \in Chosen)
  BY AdminStep DEF Replaces
<1>d. Gone'
  <2>1. ASSUME NEW r \in Requests, req'[r].pc = "unlink"
        PROVE  admin' # NoAdmin /\ admin'.password \in Chosen
    <3>1. CASE req[r].pc = "unlink"
      BY <1>a, <1>c, <3>1
    <3> QED
      BY <2>1, <3>1, UnlinkAfterChange
  <2> QED
    BY <2>1
<1>e. (Initial' => Alone') /\ Works' => PasswordInv'
  BY <1>d DEF PasswordInv
<1>f. ASSUME UNCHANGED admin \/ admin # NoAdmin, file'["password"] = file["password"] PROVE Works'
  BY <1>a, <1>c, <1>f, Types
<1>g. ASSUME NEW p \in Procs, file'["password"] = file["password"],
             \A q \in Procs : q # p => proc'[q] = proc[q],
             proc'[p].pc \notin {"writePass", "insert"}
      PROVE  Initial' => Alone'
  BY <1>a, <1>b, <1>g
<1>h. ASSUME file'["password"] = file["password"], \A q \in Procs : proc'[q] = proc[q] \/ proc'[q] = Off
      PROVE  Initial' => Alone'
  BY <1>0, <1>a, <1>b, <1>h
<1> HIDE DEF Gone
<1>1. ASSUME NEW p \in Procs, Kill(p) PROVE PasswordInv'
  BY <1>1, <1>e, <1>f, <1>h, KilledFrame
<1>2. ASSUME NEW p \in Procs, PlainStep(p) PROVE PasswordInv'
  <2>1. Initial' => Alone'
    BY <1>2, <1>g, PlainFrame
  <2>2. Works'
    <3>1. CASE InsertAdmin(p) /\ admin = NoAdmin
      <4>1. /\ proc[p].pc = "insert" /\ file' = file
            /\ admin' = [password |-> proc[p].value, legacy |-> FALSE, version |-> 1]
        BY <3>1 DEF InsertAdmin
      <4>2. proc[p].value = file["password"]
        BY <1>a, <3>1, <4>1 DEF Initial
      <4> QED
        BY <4>1, <4>2
    <3>2. CASE UNCHANGED admin
      BY <1>2, <1>f, <3>2, PlainFrame
    <3> QED
      BY <1>2, <3>1, <3>2
         DEF PlainStep, Launch, CountAdmins, InsertAdmin, BeginMigrations, CommitMigrations
  <2> QED
    BY <1>e, <2>1, <2>2
<1>3. ASSUME NEW p \in Procs, FileStep(p, "secret") PROVE PasswordInv'
  <2>1. /\ "secret" \in Files /\ \A q \in Procs : q # p => proc'[q] = proc[q]
        /\ admin' = admin
    BY <1>3, FileFrame DEF Files
  <2>2. file'["password"] = file["password"] /\ proc'[p].pc \notin {"writePass", "insert"}
    BY <1>0, <1>3, <2>1, FileCases DEF Step, Goes
  <2> QED
    BY <1>e, <1>f, <1>g, <2>1, <2>2
<1>4. ASSUME NEW p \in Procs, FileStep(p, "password") PROVE PasswordInv'
  <2>1. (\A q \in Procs : q # p => proc'[q] = proc[q]) /\ admin' = admin
    BY <1>0, <1>4, FileFrame
  <2>2. /\ Step("password", "make") = "makePass" /\ Step("password", "write") = "writePass"
        /\ Step("password", "poll") = "pollPass"
    BY DEF Step
  <2>3. CASE /\ file' = file /\ file["password"] \in Values
             /\ Goes(p, "password", file["password"])
    <3>1. Initial' => Alone'
      BY <1>a, <1>b, <2>1, <2>3 DEF Goes
    <3> QED
      BY <1>e, <1>f, <2>1, <2>3, <3>1
  <2>4. CASE file' = file /\ proc'[p].pc \in {"makePass", "pollPass"}
    BY <1>e, <1>f, <1>g, <2>1, <2>4
  <2>5. CASE /\ file["password"] = Absent /\ file' = [file EXCEPT !["password"] = Empty]
             /\ proc'[p].pc = "writePass"
    <3>1. file'["password"] = Empty
      BY <1>0, <2>5
    <3>2. Initial => \A q \in Procs : proc[q].pc \notin {"writePass", "insert"}
      BY <1>0, <1>a, <2>5 DEF TypeInv, Drawn
    <3>3. Initial' => Alone'
      BY <1>b, <2>1, <2>5, <3>1, <3>2
    <3>4. Works'
      BY <1>0, <1>a, <2>1, <2>5
    <3> QED
      BY <1>e, <3>3, <3>4
  <2>6. CASE /\ proc[p].pc = "writePass" /\ proc[p].value \in Values
             /\ file' = IF file["password"] = Absent THEN file
                        ELSE [file EXCEPT !["password"] = proc[p].value]
             /\ Goes(p, "password", proc[p].value)
    <3>1. Initial => /\ file["password"] = Empty
                     /\ \A q \in Procs : q # p => proc[q].pc \notin {"writePass", "insert"}
      BY <1>0, <1>a, <2>6 DEF TypeInv, Drawn
    <3>2. Initial => file'["password"] = proc[p].value
      BY <1>0, <2>6, <3>1
    <3>3. Initial' => Alone'
      BY <1>b, <2>1, <2>6, <3>1, <3>2 DEF Goes
    <3>4. Works'
      BY <1>0, <1>a, <2>1, <3>1 DEF Initial
    <3> QED
      BY <1>e, <3>3, <3>4
  <2>7. CASE file' = file /\ proc'[p] = Off
    BY <1>0, <1>e, <1>f, <1>g, <2>1, <2>7
  <2> QED
    BY <1>0, <1>4, <2>2, <2>3, <2>4, <2>5, <2>6, <2>7, FileCases
<1>5. ASSUME NEW r \in Requests, NEW removed \in BOOLEAN, UnlinkInitial(r, removed)
      PROVE  PasswordInv'
  <2>1. admin' = admin /\ admin # NoAdmin /\ admin.password \in Chosen
    BY <1>5, <1>a DEF UnlinkInitial, Gone
  <2>2. ~Initial'
    BY <2>1, Types DEF Initial
  <2> QED
    BY <1>e, <2>1, <2>2 DEF Initial
<1>6. CASE UNCHANGED <<file, proc>> /\ (UNCHANGED admin \/ admin # NoAdmin)
  BY <1>e, <1>f, <1>h, <1>6
<1>7. ASSUME NEW p \in Procs, StartNext(p) PROVE PasswordInv'
  BY <1>2, <1>3, <1>4, <1>7 DEF StartNext, FileStep, PlainStep, Files
<1>8. ASSUME NEW r \in Requests, UpgradeHash(r) \/ ChangePassword(r) PROVE PasswordInv'
  <2>1. req[r].pc # "idle" /\ UNCHANGED <<file, proc>>
    BY <1>8 DEF UpgradeHash, ChangePassword
  <2> QED
    BY <1>6, <2>1 DEF SessionInv, Shown
<1> QED
  BY <1>1, <1>5, <1>6, <1>7, <1>8, NextCases DEF startVars

-----------------------------------------------------------------------------
(* Together.                                                               *)

LEMMA InitInv == Init => Inv
<1> SUFFICES ASSUME Init PROVE Inv
  OBVIOUS
<1>1. TypeInv
  BY InitType
<1>2. LimitInv
  BY DEF Init, LimitInit, LimitInv
<1>3. /\ \A p \in Procs : proc[p] = Off
      /\ \A r \in Requests : req[r] = Unsent
      /\ Off.pc = "off" /\ Off.key = Absent /\ Unsent.pc = "idle"
  BY DEF Init, StartInit, Off, Unsent
<1>4. MigrationInv
  BY <1>3 DEF Init, StartInit, MigrationInv
<1>5. KeyInv
  BY <1>3 DEF KeyInv
<1>6. PasswordInv
  <2>1. admin = NoAdmin \/ admin.password \notin Values
    BY Types DEF Init, StartInit
  <2> QED
    BY <1>3, <2>1 DEF PasswordInv
<1>7. SessionInv
  BY <1>3, UnsentShown DEF Init, SessionInv
<1> QED
  BY <1>1, <1>2, <1>4, <1>5, <1>6, <1>7 DEF Inv

\* The types of what processes, requests and the limiter hold, and the five
\* invariants, on which the properties below rest.
THEOREM InvHolds == Spec => []Inv
<1>1. Inv /\ [Next]_vars => Inv'
  BY TypeStep, LimitStep, MigrationStep, KeyStep, PasswordStep, SessionStep DEF Inv
<1> QED
  BY InitInv, <1>1, PTL DEF Spec

\* However logins queue at the boundary between two windows, a window admits no more
\* than its limit, unless it is one of those between an older window that took the row
\* back and the newer one it took it from (_consume).
THEOREM LimitInOrder == Spec => []AttemptsInOrder
<1>1. Inv => AttemptsInOrder
  BY LimitEnough DEF Inv
<1> QED
  BY <1>1, InvHolds, PTL

\* Every migration is committed once, whatever starts overlap or die, and who
\* serves requests finds all of them (apply_schema_migrations).
THEOREM MigrationsOnce == Spec => []MigratedOnce
<1>1. Inv => MigratedOnce
  BY DEF Inv, MigrationInv, MigratedOnce, Ready
<1> QED
  BY <1>1, InvHolds, PTL

\* All processes sign with the key in the file, and the file with the first
\* password tells the truth as long as that password is in use
\* (_read_or_create_private_file).
THEOREM PrivateFilesUsed == Spec => []FilesAreUsed
<1>1. Inv => FilesAreUsed
  BY DEF Inv, KeyInv, PasswordInv, FilesAreUsed
<1> QED
  BY <1>1, InvHolds, PTL

\* No process accepts a session that was opened with an earlier password
\* (login_required, change_password).
THEOREM SessionsCurrent == Spec => []AcceptedSessionsAreCurrent
<1>1. Inv => AcceptedSessionsAreCurrent
  BY DEF Inv, SessionInv, Opened, Accepted, AcceptedSessionsAreCurrent
<1> QED
  BY <1>1, InvHolds, PTL

\* Nobody replaces a password that he has not shown (login, change_password).
THEOREM PresentPasswordShown == Spec => OnlyWithPresentPassword
<1>1. Inv /\ [Next]_vars =>
        [admin # NoAdmin /\ admin'.password # admin.password =>
           \E r \in Requests : req[r].pc = "change" /\ req[r].password = admin.password]_vars
  BY AdminStep DEF Inv, Replaces
<1> QED
  BY <1>1, InvHolds, PTL DEF Spec, OnlyWithPresentPassword
=============================================================================
