--------------------------- MODULE Deployment_proof ---------------------------
(***************************************************************************)
(* What holds at every step of deploy.sh, whatever fails or is killed and  *)
(* whatever the timers do between: the panel stays down while its database *)
(* is copied and its release replaced, the file latest names a whole       *)
(* snapshot, the last release in service and its data are kept, and a      *)
(* rollback that reports success has brought back the host as it was. For  *)
(* any releases, retention, threshold and number of scripts.               *)
(***************************************************************************)
EXTENDS Deployment, SequenceTheorems, FiniteSetTheorems, TLAPS

\* The sets the variables take their values from.
Files == Releases \cup {None, Torn}
Content4 == [code : Files, db : DbValues, conf : Files, site : Files]
Disks == [code : Files, db : DbValues, conf : Files, site : Files,
          marker : BOOLEAN, data : BOOLEAN]
Sysds == [caddy : BOOLEAN, enabled : SUBSET Units, on : SUBSET (Units \ {"panel"}),
          proc : Releases \cup {None, Failing, Restarting}]
Checks == [pc : {"off", "probe", "recover", "restart"}, fails : 0 .. Threshold]
Scripts == [seq : {"none", "exit", "update", "rollback", "undo"}, at : Nat,
            by : {"op", "trap", "fail"}, failed : BOOLEAN]
FlagSets == [cutover : BOOLEAN, finished : BOOLEAN, succeeded : BOOLEAN,
             caddyTried : BOOLEAN, oldInstall : BOOLEAN, dbPresent : BOOLEAN,
             codeSaved : BOOLEAN, dbCaptured : BOOLEAN, dbSaved : BOOLEAN, confSaved : BOOLEAN]
Wases == [Units -> [here : BOOLEAN, on : BOOLEAN, enabled : BOOLEAN]]
Snapshots == [id : Nat, whole : BOOLEAN, tree : Content4, was : Wases, dbSaved : BOOLEAN]
Dirs == [rb : Content4, cur : Content4, sel : Content4 \cup Snapshots]
Vaults == [store : Seq(Snapshots), latest : Nat, left : SUBSET Content4]
Befores == [tree : Content4, marker : BOOLEAN, was : Wases, stray : BOOLEAN, missed : BOOLEAN]
Goods == [code : Files, db : DbValues]
Counts == [runs : 0 .. MaxRuns, faults : Nat, kills : Nat, updates : Nat, made : Nat]

\* The type of every variable.
Values ==
  /\ disk \in Disks /\ sysd \in Sysds /\ check \in Checks /\ bk \in BOOLEAN
  /\ script \in Scripts /\ flags \in FlagSets /\ was \in Wases
  /\ dirs \in Dirs /\ vault \in Vaults
  /\ before \in Befores /\ good \in Goods /\ raced \in BOOLEAN /\ count \in Counts

\* And of what a step reads.
Typed ==
  /\ Values
  /\ Busy => script.at \in 1 .. Len(Program[script.seq])
  /\ At("migrate") => disk.code \in Releases
  /\ script.seq = "rollback" => dirs.sel \in Snapshots

\* A directory in which nothing is saved yet, and the content of the disk.
LEMMA EmptyTyped == Empty \in Content4
BY DEF Empty, Content4, Files, DbValues, Trees

\* What is installed is a tree like those that are saved.
LEMMA ContentTyped == ASSUME disk \in Disks PROVE Content(disk) \in Content4
BY DEF Content, Content4, Disks, Trees

\* A panel that systemd keeps trying to start, or restarts, is not a stopped one.
LEMMA Distinct == Failing # None /\ Restarting # None /\ Failing # Restarting
BY DeploymentAssumption

\* How a script begins, ends and turns to the rollback.
LEMMA ScriptValues ==
  /\ Idle \in Scripts /\ Leaves \in Scripts
  /\ Undo("fail") \in Scripts /\ Undo("trap") \in Scripts
  /\ [Idle EXCEPT !.seq = "update", !.at = 1] \in Scripts
  /\ [Idle EXCEPT !.seq = "rollback", !.at = 1] \in Scripts
<1>1. Idle \in Scripts
  BY DEF Idle, Scripts
<1>2. Leaves \in Scripts
  BY <1>1 DEF Leaves, Scripts
<1>3. Undo("fail") \in Scripts /\ Undo("trap") \in Scripts
  BY DEF Undo, Scripts
<1>4. [Idle EXCEPT !.seq = "update", !.at = 1] \in Scripts
  BY <1>1 DEF Scripts
<1>5. [Idle EXCEPT !.seq = "rollback", !.at = 1] \in Scripts
  BY <1>1 DEF Scripts
<1> QED
  BY <1>1, <1>2, <1>3, <1>4, <1>5

\* Releases are numbered from 1.
LEMMA ReleaseTypes == Releases = 1 .. Len(Schema) /\ Len(Schema) \in Nat /\ 1 \in Releases
BY DeploymentAssumption DEF Releases

\* A migration by an installed release leaves a database or a torn one.
LEMMA MigratedTyped ==
  ASSUME count \in Counts, NEW db \in DbValues, NEW r \in Releases
  PROVE  Migrated(db, r) \in DbValues
<1>1. Schema[r] \in Nat
  BY DeploymentAssumption DEF Releases
<1>2. CASE db \in {None, Torn}
  <2>1. count.runs \in 0 .. MaxRuns /\ 0 \in 0 .. MaxWrites
    BY DeploymentAssumption DEF Counts
  <2> QED
    BY <1>1, <1>2, <2>1 DEF Migrated, DbValues
<1>3. CASE db \notin {None, Torn}
  <2>1. db \in [schema : Nat, born : 0..MaxRuns, writes : 0..MaxWrites]
    BY <1>3 DEF DbValues
  <2> QED
    BY <1>1, <1>3, <2>1 DEF Migrated, DbValues
<1> QED
  BY <1>2, <1>3

\* What systemctl start and Restart=always leave of the panel.
LEMMA LaunchedTyped ==
  ASSUME Typed, NEW s \in Sysds, Launched(s)
  PROVE  /\ sysd' \in Sysds /\ disk' \in Disks /\ disk'.code = disk.code
         /\ sysd'.on = s.on
<1>1. CASE disk.code \in Releases
  <2>1. Migrated(disk.db, disk.code) \in DbValues
    BY <1>1, MigratedTyped DEF Typed, Values, Disks
  <2> QED
    BY <1>1, <2>1 DEF Launched, Sysds, Disks, Typed, Values
<1>2. CASE disk.code \notin Releases
  BY <1>2 DEF Launched, Sysds, Typed, Values
<1> QED
  BY <1>1, <1>2

\* And what a start leaves, of a panel that may already run.
LEMMA StartTyped ==
  ASSUME Typed, NEW s \in Sysds, StartPanel(s)
  PROVE  /\ sysd' \in Sysds /\ disk' \in Disks /\ disk'.code = disk.code
         /\ sysd'.on = s.on
BY LaunchedTyped DEF StartPanel, Typed, Values

-----------------------------------------------------------------------------
(* The steps of the three programs by position.                            *)

\* The delayed rollback, step by step.
LEMMA RollbackAt ==
  /\ Len(Program["rollback"]) = 16
  /\ Program["rollback"][1] = "capture" /\ Program["rollback"][2] = "stopHealthTimer"
  /\ Program["rollback"][3] = "stopHealthCheck"
  /\ Program["rollback"][4] = "stopBackupTimer"
  /\ Program["rollback"][5] = "stopBackup" /\ Program["rollback"][6] = "stopPanel"
  /\ Program["rollback"][7] = "saveDb" /\ Program["rollback"][8] = "prepareState"
  /\ Program["rollback"][9] = "saveCode" /\ Program["rollback"][10] = "clear"
  /\ Program["rollback"][11] = "copySnapshot"
  /\ Program["rollback"][12] = "sumSnapshot" /\ Program["rollback"][13] = "nameLatest"
  /\ Program["rollback"][14] = "rotate" /\ Program["rollback"][15] = "switch"
  /\ Program["rollback"][16] = "load"
BY DEF Program, Cutover, Persist

\* The update, step by step.
LEMMA UpdateAt ==
  /\ Len(Program["update"]) = 27
  /\ Program["update"][1] = "ensureCaddy" /\ Program["update"][2] = "capture"
  /\ Program["update"][3] = "stopHealthTimer"
  /\ Program["update"][4] = "stopHealthCheck"
  /\ Program["update"][5] = "stopBackupTimer" /\ Program["update"][6] = "stopBackup"
  /\ Program["update"][7] = "stopPanel" /\ Program["update"][8] = "saveDb"
  /\ Program["update"][9] = "prepareState" /\ Program["update"][10] = "saveCode"
  /\ Program["update"][11] = "clear" /\ Program["update"][12] = "install"
  /\ Program["update"][13] = "migrate" /\ Program["update"][14] = "writeConf"
  /\ Program["update"][15] = "startPanel" /\ Program["update"][16] = "waitPanel"
  /\ Program["update"][17] = "writeSite" /\ Program["update"][18] = "startCaddy"
  /\ Program["update"][19] = "startHealthTimer"
  /\ Program["update"][20] = "startHealthCheck"
  /\ Program["update"][21] = "waitHealthCheck"
  /\ Program["update"][22] = "startBackups" /\ Program["update"][23] = "copySnapshot"
  /\ Program["update"][24] = "sumSnapshot" /\ Program["update"][25] = "nameLatest"
  /\ Program["update"][26] = "rotate" /\ Program["update"][27] = "succeed"
BY DEF Program, Cutover, Persist

\* The rollback after a failure, step by step.
LEMMA UndoAt ==
  /\ Len(Program["undo"]) = 17
  /\ Program["undo"][1] = "stopHealthTimer" /\ Program["undo"][2] = "stopBackupTimer"
  /\ Program["undo"][3] = "stopBackup" /\ Program["undo"][4] = "stopPanel"
  /\ Program["undo"][5] = "stopCaddy" /\ Program["undo"][6] = "disable"
  /\ Program["undo"][7] = "wipeCode" /\ Program["undo"][8] = "copyCode"
  /\ Program["undo"][9] = "wipeDb" /\ Program["undo"][10] = "copyDb"
  /\ Program["undo"][11] = "restoreConf" /\ Program["undo"][12] = "restoreSite"
  /\ Program["undo"][13] = "enable" /\ Program["undo"][14] = "restorePanel"
  /\ Program["undo"][15] = "restoreCaddy" /\ Program["undo"][16] = "restoreTimers"
  /\ Program["undo"][17] = "verify"
BY DEF Program

\* There are these three.
LEMMA Programs == DOMAIN Program = {"update", "rollback", "undo"}
BY DEF Program

\* A step of a program goes on to the next one, or ends in a rollback.
LEMMA AdvancedTyped ==
  ASSUME Typed, Busy
  PROVE  /\ Advanced \in Scripts /\ Advanced.seq \in DOMAIN Program
         /\ Advanced.at \in 1 .. Len(Program[Advanced.seq])
         /\ \/ Advanced.seq = "undo" /\ Advanced.at = 1
            \/ Advanced.seq = script.seq /\ Advanced.at = script.at + 1
<1>1. /\ script.at \in 1 .. Len(Program[script.seq])
      /\ Len(Program[script.seq]) \in Nat /\ Len(Program["undo"]) = 17
  BY RollbackAt, UpdateAt, UndoAt, Programs DEF Typed, Values, Busy
<1>2. CASE script.at < Len(Program[script.seq])
  <2>1. script \in Scripts /\ Advanced = [script EXCEPT !.at = script.at + 1]
    BY <1>2 DEF Typed, Values, Advanced
  <2>2. /\ Advanced \in Scripts /\ Advanced.seq = script.seq
        /\ Advanced.at = script.at + 1
    BY <2>1 DEF Scripts
  <2> QED
    BY <1>1, <1>2, <2>2 DEF Busy
<1>3. CASE ~(script.at < Len(Program[script.seq]))
  <2>1. /\ script \in Scripts
        /\ Advanced = [script EXCEPT !.seq = "undo", !.at = 1, !.failed = FALSE]
    BY <1>3 DEF Typed, Values, Advanced
  <2>2. Advanced \in Scripts /\ Advanced.seq = "undo" /\ Advanced.at = 1
    BY <2>1 DEF Scripts
  <2>3. 1 \in 1 .. Len(Program["undo"])
    BY <1>1
  <2> QED
    BY <2>2, <2>3, Programs
<1> QED
  BY <1>2, <1>3

\* A step of the rollback goes on and remembers what failed.
Reports == \E b \in BOOLEAN : script' = [Advanced EXCEPT !.failed = b]

\* The steps that restore the units go on whatever systemctl answers, and report it.
LEMMA RestoresReport ==
  ASSUME Enable \/ RestorePanel \/ RestoreUnits
  PROVE  Busy /\ Reports /\ Step \in {"enable", "restorePanel", "restoreCaddy", "restoreTimers"}
<1>1. Busy /\ Step \in {"enable", "restorePanel", "restoreCaddy", "restoreTimers"}
  BY DEF Enable, RestorePanel, RestoreUnits, Restoring, At, Step
<1>2. \A f : AdvanceUnless(f) => Reports
  BY DEF AdvanceUnless, Reports
<1>3. Reports
  BY <1>2 DEF Enable, RestorePanel, RestoreUnits
<1> QED
  BY <1>1, <1>3

\* The same of the step that Advance takes, and of one that may have failed.
LEMMA Advances ==
  ASSUME Typed, Busy, Advance \/ Reports
  PROVE  /\ script' \in Scripts
         /\ Busy' /\ script'.at \in 1 .. Len(Program[script'.seq])
         /\ \/ script'.seq = "undo" /\ script'.at = 1
            \/ script'.seq = script.seq /\ script'.at = script.at + 1
<1>1. CASE Advance
  BY <1>1, AdvancedTyped DEF Advance, Busy
<1>2. CASE Reports
  <2>1. PICK b \in BOOLEAN : script' = [Advanced EXCEPT !.failed = b]
    BY <1>2 DEF Reports
  <2>2. /\ script' \in Scripts /\ script'.seq = Advanced.seq /\ script'.at = Advanced.at
    BY <2>1, AdvancedTyped DEF Scripts
  <2> QED
    BY <2>2, AdvancedTyped DEF Busy
<1> QED
  BY <1>1, <1>2

\* What is captured of a unit.
LEMMA SeenTyped ==
  ASSUME Typed
  PROVE  \A u \in Units : Seen(u) \in [here : BOOLEAN, on : BOOLEAN, enabled : BOOLEAN]
<1> SUFFICES ASSUME NEW u \in Units
             PROVE  Seen(u) \in [here : BOOLEAN, on : BOOLEAN, enabled : BOOLEAN]
  OBVIOUS
<1>1. On(u) \in BOOLEAN
  <2>1. CASE u = "panel"
    BY <2>1 DEF On
  <2>2. CASE u # "panel"
    BY <2>2 DEF On
  <2> QED
    BY <2>1, <2>2
<1>2. CASE Here(u)
  BY <1>1, <1>2 DEF Seen
<1>3. CASE ~Here(u)
  BY <1>3 DEF Seen, Absent
<1> QED
  BY <1>2, <1>3

\* Every variable begins with its type.
LEMMA InitTyped == Init => Typed
<1> SUFFICES ASSUME Init PROVE Typed
  OBVIOUS
<1>1. disk \in Disks
  BY ReleaseTypes, DeploymentAssumption DEF Init, Disks, Files, DbValues
<1>2. sysd \in Sysds
  BY ReleaseTypes DEF Init, Sysds, Units, Timers
<1>3. check \in Checks /\ count \in Counts
  BY DeploymentAssumption DEF Init, Checks, Counts
<1>9. bk \in BOOLEAN /\ raced \in BOOLEAN
  BY DEF Init
<1>10. flags \in FlagSets
  <2>1. flags = NoFlags
    BY DEF Init
  <2> QED
    BY <2>1 DEF FlagSets, NoFlags
<1>4. script \in Scripts /\ ~Busy
  BY Programs DEF Init, Idle, Scripts, Busy
<1>5. was \in Wases
  BY DEF Init, Wases, Absent
<1>6. dirs \in Dirs
  BY EmptyTyped DEF Init, Dirs
<1>7. vault \in Vaults
  BY DEF Init, Vaults
<1>8. before \in Befores /\ good \in Goods
  BY <1>1, <1>5, ContentTyped DEF Init, Befores, Goods, Disks
<1> QED
  BY <1>1, <1>2, <1>3, <1>4, <1>5, <1>6, <1>7, <1>8, <1>9, <1>10
  DEF Typed, Values, At, Step, Init, Idle
\* Only the delayed rollback goes on with the selected snapshot.
LEMMA SwitchAt == ASSUME Typed, At("switch") \/ At("load") PROVE script.seq = "rollback"
<1>1. /\ Busy /\ script.at \in 1 .. Len(Program[script.seq])
      /\ Program[script.seq][script.at] \in {"switch", "load"}
  BY DEF Typed, At, Step
<1>2. ASSUME script.seq = "update" PROVE FALSE
  <2>1. script.at \in 1 .. 27 /\ Program["update"][script.at] \in {"switch", "load"}
    BY <1>1, <1>2, UpdateAt
  <2> QED
    BY <2>1, UpdateAt
<1>3. ASSUME script.seq = "undo" PROVE FALSE
  <2>1. script.at \in 1 .. 17 /\ Program["undo"][script.at] \in {"switch", "load"}
    BY <1>1, <1>3, UndoAt
  <2> QED
    BY <2>1, UndoAt
<1> QED
  BY <1>1, <1>2, <1>3, Programs DEF Busy

\* There is a release for every run of the script to install.
LEMMA NewTyped == ASSUME Typed PROVE New \in Releases
BY ReleaseTypes, DeploymentAssumption DEF New, Typed, Values, Counts

\* The snapshot that latest names has the type of one.
LEMMA SelectedTyped ==
  ASSUME Typed, \E i \in DOMAIN vault.store : vault.store[i].id = vault.latest
  PROVE  vault.store[Named(vault.latest)] \in Snapshots
<1>1. Named(vault.latest) \in DOMAIN vault.store
  BY DEF Named
<1> QED
  BY <1>1 DEF Typed, Values, Vaults

-----------------------------------------------------------------------------
(* The snapshots.                                                          *)

\* Past the copy of a snapshot it is the last one; once it has its checksums it
\* stays usable, and from then on to the end latest names it.
Stored ==
  /\ Step \in {"sumSnapshot", "nameLatest", "rotate"} => Len(vault.store) >= 1
  /\ Step \in {"nameLatest", "rotate"} => Last(vault.store).whole
  /\ Step = "rotate" => vault.latest = Last(vault.store).id
  /\ LatestUsable

\* A new snapshot comes last and leaves the others where they are.
LEMMA Appended ==
  ASSUME NEW S, NEW s \in Seq(S), NEW e \in S
  PROVE  /\ Append(s, e) \in Seq(S) /\ Len(Append(s, e)) = Len(s) + 1
         /\ \A i \in 1 .. Len(s) : Append(s, e)[i] = s[i]
         /\ Append(s, e)[Len(s) + 1] = e
OBVIOUS

\* The snapshots that rotation keeps are the last ones, in their order.
LEMMA Rotated ==
  ASSUME Typed, Rotate
  PROVE  /\ vault' \in Vaults /\ vault'.latest = vault.latest
         /\ Len(vault.store) >= 1 => /\ Len(vault'.store) >= 1
                                     /\ Last(vault'.store) = Last(vault.store)
<1> DEFINE s == vault.store
           n == Len(s)
<1>0. s \in Seq(Snapshots) /\ n \in Nat /\ Keep \in Nat /\ Keep >= 1
  BY DeploymentAssumption DEF Typed, Values, Vaults
<1>1. CASE n > Keep
  <2> DEFINE r == SubSeq(s, n - Keep + 1, n)
  <2>1. vault' = [vault EXCEPT !.store = r]
    BY <1>1 DEF Rotate
  <2>2. n - Keep + 1 \in 1 .. n /\ n \in 1 .. n
    BY <1>0, <1>1
  <2>3. r \in Seq(Snapshots) /\ Len(r) = Keep /\ r[Keep] = s[n]
    <3>1. n - Keep + 1 \in 1 .. n + 1 /\ n \in n - Keep .. n
      BY <1>0, <1>1
    <3>2. /\ r \in Seq(Snapshots) /\ Len(r) = n - (n - Keep + 1) + 1
          /\ \A i \in 1 .. n - (n - Keep + 1) + 1 : r[i] = s[n - Keep + 1 + i - 1]
      BY <1>0, <1>1
    <3>3. n - (n - Keep + 1) + 1 = Keep /\ n - Keep + 1 + Keep - 1 = n
      BY <1>0
    <3>4. Keep \in 1 .. n - (n - Keep + 1) + 1
      BY <1>0, <3>3
    <3>5. r[Keep] = s[n - Keep + 1 + Keep - 1]
      BY <3>2, <3>4
    <3> QED
      BY <3>2, <3>3, <3>5
  <2> QED
    BY <1>0, <2>1, <2>3 DEF Last, Typed, Values, Vaults
<1>2. CASE ~(n > Keep)
  BY <1>2 DEF Rotate, Typed, Values, Vaults
<1> QED
  BY <1>1, <1>2

\* A unit between two steps of the script, and a request, keep every type.
LEMMA UnitsValues ==
  ASSUME Typed, AutoRestart \/ Write \/ HealthCheckStarts \/ HealthCheckProbes
           \/ HealthCheckRecovers \/ BackupTimerFires \/ BackupRuns
           \/ PanelRestarts \/ HealthCheckReturns
  PROVE  Values'
<1>1. CASE AutoRestart
  <2>1. Launched(sysd) /\ sysd \in Sysds
    BY <1>1 DEF AutoRestart, Typed, Values
  <2>2. sysd' \in Sysds /\ disk' \in Disks
    BY <2>1, LaunchedTyped
  <2> QED
    BY <1>1, <2>2 DEF AutoRestart, shell, hist, Typed, Values
<1>2. CASE Write
  <2>1. /\ disk.db \in [schema : Nat, born : 0..MaxRuns, writes : 0..MaxWrites]
        /\ disk.db.writes < MaxWrites /\ MaxWrites \in Nat
    BY <1>2, DeploymentAssumption DEF Write, Ready, Typed, Values, Disks, DbValues
  <2>2. [disk.db EXCEPT !.writes = @ + 1] \in DbValues
    BY <2>1 DEF DbValues
  <2>3. disk' = [disk EXCEPT !.db = [disk.db EXCEPT !.writes = @ + 1]]
    BY <1>2 DEF Write
  <2>4. disk' \in Disks /\ disk'.db \in DbValues
    BY <2>2, <2>3 DEF Typed, Values, Disks
  <2>5. before' \in Befores
    <3>1. before' = [before EXCEPT !.tree.db = disk'.db] \/ before' = before
      BY <1>2 DEF Write
    <3> QED
      BY <2>4, <3>1 DEF Typed, Values, Befores, Content4
  <2>6. good' \in Goods
    <3>1. good' = [good EXCEPT !.db = disk'.db] \/ good' = good
      BY <1>2 DEF Write
    <3> QED
      BY <2>4, <3>1 DEF Typed, Values, Goods
  <2>7. UNCHANGED <<sysd, check, bk, script, flags, was, dirs, vault, raced, count>>
    BY <1>2 DEF Write, shell
  <2> QED
    BY <2>4, <2>5, <2>6, <2>7 DEF Typed, Values
<1>3. CASE HealthCheckStarts
  BY <1>3 DEF HealthCheckStarts, Values, Checks, shell, hist, Typed
<1>4. CASE HealthCheckProbes
  BY <1>4, DeploymentAssumption DEF HealthCheckProbes, Values, Checks, shell, hist, Typed
<1>5. CASE HealthCheckRecovers
  <2>1. sysd' \in Sysds /\ disk' \in Disks
    <3>1. CASE Launched(sysd)
      BY <3>1, LaunchedTyped DEF Typed, Values
    <3>2. CASE UNCHANGED <<disk, sysd>>
      BY <3>2 DEF Typed, Values
    <3>3. CASE sysd' = [sysd EXCEPT !.proc = Restarting] /\ UNCHANGED disk
      BY <3>3 DEF Typed, Values, Sysds
    <3> QED
      BY <1>5, <3>1, <3>2, <3>3 DEF HealthCheckRecovers
  <2>2. check' \in Checks
    <3>1. Threshold - 1 \in 0 .. Threshold /\ 0 \in 0 .. Threshold
      BY DeploymentAssumption
    <3>2. CASE check' = [pc |-> "off", fails |-> IF Ready' THEN 0 ELSE Threshold - 1]
      <4>1. check'.fails \in 0 .. Threshold
        BY <3>1, <3>2
      <4> QED
        BY <3>2, <4>1 DEF Checks
    <3>3. CASE check' = [check EXCEPT !.pc = "off", !.fails = Threshold - 1]
      BY <3>1, <3>3 DEF Typed, Values, Checks
    <3>4. CASE check' = [check EXCEPT !.pc = "restart"]
      BY <3>4 DEF Typed, Values, Checks
    <3> QED
      BY <1>5, <3>2, <3>3, <3>4 DEF HealthCheckRecovers
  <2>3. raced' \in BOOLEAN
    BY <1>5 DEF HealthCheckRecovers, StartedByUnit, Typed, Values
  <2>4. UNCHANGED <<bk, script, flags, was, dirs, vault, before, good, count>>
    BY <1>5 DEF HealthCheckRecovers, shell
  <2> QED
    BY <2>1, <2>2, <2>3, <2>4 DEF Typed, Values
<1>6. CASE BackupTimerFires
  BY <1>6 DEF BackupTimerFires, Values, shell, hist, Typed
<1>7. CASE BackupRuns
  <2>1. sysd' \in Sysds /\ disk' \in Disks
    BY <1>7, StartTyped DEF BackupRuns, Typed, Values
  <2>2. bk' \in BOOLEAN
    BY <1>7 DEF BackupRuns
  <2>3. raced' \in BOOLEAN
    BY <1>7 DEF BackupRuns, StartedByUnit, Typed, Values
  <2>4. UNCHANGED <<check, script, flags, was, dirs, vault, before, good, count>>
    BY <1>7 DEF BackupRuns, shell
  <2> QED
    BY <2>1, <2>2, <2>3, <2>4 DEF Typed, Values
<1>8. CASE PanelRestarts
  <2>1. sysd' \in Sysds /\ disk' \in Disks
    <3>1. CASE Launched(sysd)
      BY <3>1, LaunchedTyped DEF Typed, Values
    <3>2. CASE Stop({"panel"}) /\ UNCHANGED disk
      BY <3>2 DEF Stop, Typed, Values, Sysds
    <3> QED
      BY <1>8, <3>1, <3>2 DEF PanelRestarts
  <2>2. raced' \in BOOLEAN
    BY <1>8 DEF PanelRestarts, StartedByUnit, Typed, Values
  <2>3. UNCHANGED <<check, bk, script, flags, was, dirs, vault, before, good, count>>
    BY <1>8 DEF PanelRestarts, shell
  <2> QED
    BY <2>1, <2>2, <2>3 DEF Typed, Values
<1>9. CASE HealthCheckReturns
  <2>1. check' \in Checks
    <3>1. check' = [pc |-> "off", fails |-> 0] \/ check' = [pc |-> "off", fails |-> Threshold - 1]
      BY <1>9 DEF HealthCheckReturns
    <3> QED
      BY <3>1, DeploymentAssumption DEF Checks
  <2> QED
    BY <1>9, <2>1 DEF HealthCheckReturns, shell, hist, Typed, Values
<1> QED
  BY <1>1, <1>2, <1>3, <1>4, <1>5, <1>6, <1>7, <1>8, <1>9

\* So do the beginning and the end of a script, and what interrupts one.
LEMMA EndsValues ==
  ASSUME Typed, Launch \/ Exit \/ Interrupted \/ Fails
           \/ Killed \/ Partly \/ StepFails \/ Verify
           \/ Succeed
  PROVE  Values'
<1>1. CASE Launch
  <2>1. script' \in Scripts
    <3>1. \/ script' = [Idle EXCEPT !.seq = "update", !.at = 1]
          \/ script' = [Idle EXCEPT !.seq = "rollback", !.at = 1]
      BY <1>1 DEF Launch
    <3> QED
      BY <3>1, ScriptValues
  <2>2. dirs' \in Dirs
    <3>1. CASE UNCHANGED dirs
      BY <3>1 DEF Typed, Values
    <3>2. CASE /\ \E i \in DOMAIN vault.store : vault.store[i].id = vault.latest
               /\ dirs' = [dirs EXCEPT !.sel = vault.store[Named(vault.latest)]]
      <4>1. Named(vault.latest) \in DOMAIN vault.store
        BY <3>2 DEF Named
      <4>2. vault.store[Named(vault.latest)] \in Snapshots
        BY <4>1 DEF Typed, Values, Vaults
      <4> QED
        BY <3>2, <4>2 DEF Typed, Values, Dirs
    <3> QED
      BY <1>1, <3>1, <3>2 DEF Launch
  <2>3. flags' \in FlagSets
    BY <1>1 DEF Launch, NoFlags, FlagSets
  <2>4. was' \in Wases
    <3>1. Seen("caddy") \in [here : BOOLEAN, on : BOOLEAN, enabled : BOOLEAN]
      BY SeenTyped DEF Units
    <3>2. was' = [u \in Units |-> IF u = "caddy" THEN Seen(u) ELSE Absent]
      BY <1>1 DEF Launch
    <3> QED
      BY <3>1, <3>2 DEF Wases, Absent
  <2>5. raced' \in BOOLEAN
    BY <1>1 DEF Launch
  <2>6. count' \in Counts
    <3>1. count.runs < MaxRuns /\ count' = [count EXCEPT !.runs = @ + 1]
      BY <1>1 DEF Launch
    <3>2. count.runs + 1 \in 0 .. MaxRuns
      BY <3>1, DeploymentAssumption DEF Counts, Typed, Values
    <3> QED
      BY <3>1, <3>2 DEF Counts, Typed, Values
  <2>7. UNCHANGED <<disk, sysd, check, bk, vault, before, good>>
    BY <1>1 DEF Launch
  <2> QED
    BY <2>1, <2>2, <2>3, <2>4, <2>5, <2>6, <2>7 DEF Typed, Values
<1>2. CASE Exit
  <2>1. script' \in Scripts
    BY <1>2, Programs DEF Exit, Typed, Values, Scripts, Idle
  <2>2. sysd' \in Sysds
    <3> DEFINE On1 == IF was["caddy"].on THEN sysd.on \cup {"caddy"} ELSE sysd.on \ {"caddy"}
               Enabled1 == IF was["caddy"].enabled THEN sysd.enabled \cup {"caddy"}
                           ELSE sysd.enabled \ {"caddy"}
    <3>1. sysd' = sysd \/ sysd' = [sysd EXCEPT !.on = On1, !.enabled = Enabled1]
      BY <1>2 DEF Exit
    <3>2. On1 \in SUBSET (Units \ {"panel"}) /\ Enabled1 \in SUBSET Units
      BY DEF Typed, Values, Sysds, Units, Timers
    <3> HIDE DEF On1, Enabled1
    <3> QED
      BY <3>1, <3>2 DEF Typed, Values, Sysds
  <2>3. vault' \in Vaults
    BY <1>2 DEF Exit, Typed, Values, Vaults, Dirs
  <2>4. dirs' \in Dirs
    BY <1>2, EmptyTyped DEF Exit, Typed, Values, Dirs
  <2>5. UNCHANGED <<disk, check, bk, flags, was, before, good, raced, count>>
    BY <1>2 DEF Exit, shell, hist
  <2> QED
    BY <2>1, <2>2, <2>3, <2>4, <2>5 DEF Typed, Values
<1>3. CASE Interrupted
  <2>1. script' \in Scripts
    BY <1>3, Programs DEF Interrupted, Typed, Values, Scripts, Undo, Leaves, Idle
  <2>2. count' \in Counts
    BY <1>3 DEF Interrupted, Typed, Values, Counts, Faulty
  <2>3. UNCHANGED <<disk, sysd, check, bk, flags, was, dirs, vault, before, good, raced>>
    BY <1>3 DEF Interrupted, shell, hist
  <2> QED
    BY <2>1, <2>2, <2>3 DEF Typed, Values
<1>4. CASE Fails
  BY <1>4, Programs
    DEF Fails, Values, Scripts, Counts, Faulty, Undo, Idle, shell, hist, Typed
<1>5. CASE Killed
  <2>1. script' \in Scripts
    BY <1>5, Programs DEF Killed, Typed, Values, Scripts, Idle
  <2>2. vault' \in Vaults
    BY <1>5 DEF Killed, Typed, Values, Vaults, Dirs
  <2>3. dirs' \in Dirs
    BY <1>5, EmptyTyped DEF Killed, Typed, Values, Dirs
  <2>4. count' \in Counts
    BY <1>5 DEF Killed, Typed, Values, Counts
  <2>5. UNCHANGED <<disk, sysd, check, bk, flags, was, before, good, raced>>
    BY <1>5 DEF Killed, shell, hist
  <2> QED
    BY <2>1, <2>2, <2>3, <2>4, <2>5 DEF Typed, Values
<1>6. CASE Partly
  <2>1. UNCHANGED <<sysd, check, bk, script, flags, was, before, good, raced, count>>
    BY <1>6 DEF Partly, hist
  <2>2. CASE /\ Step \in DOMAIN Writes
             /\ \E m \in BOOLEAN : disk' = [disk EXCEPT ![Writes[Step]] = Torn, !.marker = m]
             /\ UNCHANGED <<dirs, vault>>
    <3>1. \A s \in DOMAIN Writes : Writes[s] \in {"code", "conf", "site", "db"}
      BY DEF Writes
    <3>2. disk' \in Disks
      BY <2>2, <3>1 DEF Typed, Values, Disks, Files, DbValues
    <3> QED
      BY <2>1, <2>2, <3>2 DEF Typed, Values
  <2>3. CASE /\ Step \in DOMAIN Saves
             /\ dirs' = [dirs EXCEPT !.rb[Saves[Step]] = Torn]
             /\ UNCHANGED <<disk, vault>>
    <3>1. \A s \in DOMAIN Saves : Saves[s] \in {"code", "db"}
      BY DEF Saves
    <3>2. dirs' \in Dirs
      BY <2>3, <3>1 DEF Typed, Values, Dirs, Content4, Files, DbValues
    <3> QED
      BY <2>1, <2>3, <3>2 DEF Typed, Values
  <2>4. CASE vault' = [vault EXCEPT !.latest = 0] /\ UNCHANGED <<disk, dirs>>
    <3>1. vault' \in Vaults
      BY <2>4 DEF Typed, Values, Vaults
    <3> QED
      BY <2>1, <2>4, <3>1 DEF Typed, Values
  <2> QED
    BY <1>6, <2>2, <2>3, <2>4 DEF Partly
<1>7. CASE StepFails
  <2>1. script' \in Scripts
    <3>1. Busy
      BY <1>7, Programs DEF StepFails, Undoing, Busy
    <3>2. Advanced \in Scripts
      BY <3>1, AdvancedTyped
    <3> QED
      BY <1>7, <3>2 DEF StepFails, Scripts
  <2>2. disk' \in Disks
    BY <1>7 DEF StepFails, Typed, Values, Disks, Files
  <2>3. count' \in Counts
    BY <1>7 DEF StepFails, Typed, Values, Counts
  <2>4. UNCHANGED <<sysd, check, bk, good, raced, flags, was, dirs, vault>>
    BY <1>7 DEF StepFails, shell
  <2>5. before' \in Befores
    BY <1>7 DEF StepFails, Typed, Values, Befores
  <2> QED
    BY <2>1, <2>2, <2>3, <2>4, <2>5 DEF Typed, Values
<1>8. CASE Verify
  <2>1. script' \in Scripts
    <3>1. script' = Leaves \/ script' = Undo("fail")
      BY <1>8 DEF Verify
    <3> QED
      BY <3>1, ScriptValues
  <2>2. flags' \in FlagSets
    BY <1>8 DEF Verify, Typed, Values, FlagSets, Scripts
  <2>3. dirs' \in Dirs
    BY <1>8, EmptyTyped DEF Verify, Typed, Values, Dirs
  <2>4. good' \in Goods
    BY <1>8 DEF Verify, Typed, Values, Goods, Disks
  <2>5. UNCHANGED <<disk, sysd, check, bk, was, vault, before, raced, count>>
    BY <1>8 DEF Verify, shell, hist
  <2> QED
    BY <2>1, <2>2, <2>3, <2>4, <2>5 DEF Typed, Values
<1>9. CASE Succeed
  <2>1. script' \in Scripts
    BY <1>9, Programs DEF Succeed, Typed, Values, Scripts, Leaves, Idle
  <2>2. flags' \in FlagSets
    BY <1>9 DEF Succeed, Typed, Values, FlagSets
  <2>3. good' \in Goods
    BY <1>9 DEF Succeed, Typed, Values, Goods, Disks
  <2>4. count' \in Counts
    BY <1>9 DEF Succeed, Typed, Values, Counts
  <2>5. UNCHANGED <<disk, sysd, check, bk, was, dirs, vault, before, raced>>
    BY <1>9 DEF Succeed, shell, hist
  <2> QED
    BY <2>1, <2>2, <2>3, <2>4, <2>5 DEF Typed, Values
<1> QED
  BY <1>1, <1>2, <1>3, <1>4, <1>5, <1>6, <1>7, <1>8, <1>9

\* So do the steps of the cutover.
LEMMA CutoverValues ==
  ASSUME Typed, Stored, EnsureCaddy \/ Capture \/ StopUnit \/ MissPanel \/ StopHealthCheck
           \/ StopBackup \/ SaveDb \/ PrepareState \/ SaveCode
           \/ ClearCode \/ CopySnapshot \/ SumSnapshot \/ NameLatest
           \/ Rotate \/ Switch \/ LoadMetadata
  PROVE  Values'
<1>1. CASE EnsureCaddy
  <2>0. Busy /\ Advance
    BY <1>1 DEF EnsureCaddy, At, Step
  <2>9. script' \in Scripts
    BY <2>0, Advances
  <2>1. sysd' \in Sysds
    <3>1. \/ sysd' = sysd
          \/ sysd' = [sysd EXCEPT !.caddy = TRUE, !.on = @ \cup {"caddy"},
                                  !.enabled = @ \cup {"caddy"}]
      BY <1>1 DEF EnsureCaddy
    <3>2. sysd \in Sysds
      BY DEF Typed, Values
    <3>3. "caddy" \in Units \ {"panel"}
      BY DEF Units
    <3>4. /\ sysd.on \cup {"caddy"} \in SUBSET (Units \ {"panel"})
          /\ sysd.enabled \cup {"caddy"} \in SUBSET Units
      BY <3>2, <3>3 DEF Sysds
    <3> QED
      BY <3>1, <3>2, <3>4 DEF Sysds
  <2>2. flags' \in FlagSets
    BY <1>1 DEF EnsureCaddy, Typed, Values, FlagSets
  <2>3. UNCHANGED <<disk, check, bk, was, dirs, vault, before, good, raced, count>>
    BY <1>1 DEF EnsureCaddy, shell, hist
  <2> QED
    BY <2>9, <2>1, <2>2, <2>3 DEF Typed, Values
<1>2. CASE Capture
  <2>1. Busy /\ Advance
    BY <1>2 DEF Capture, At, Step
  <2>2. script' \in Scripts
    BY <2>1, Advances
  <2>3. was' \in Wases
    BY <1>2, SeenTyped DEF Capture, Wases, Typed, Values
  <2>4. flags' \in FlagSets
    BY <1>2 DEF Capture, FlagSets, Typed, Values, Disks
  <2>5. dirs' \in Dirs
    BY <1>2, EmptyTyped DEF Capture, Dirs, Content4, Typed, Values, Disks
  <2>6. before' \in Befores
    BY <1>2, <2>3, ContentTyped DEF Capture, Befores, Typed, Values, Disks
  <2>7. UNCHANGED <<disk, sysd, check, bk, vault, good, raced, count>>
    BY <1>2 DEF Capture
  <2> QED
    BY <2>2, <2>3, <2>4, <2>5, <2>6, <2>7 DEF Typed, Values
<1>3. CASE StopUnit
  <2>1. Busy /\ Advance
    BY <1>3 DEF StopUnit, At, Step, Stopping, Restoring
  <2>2. script' \in Scripts
    BY <2>1, Advances
  <2> QED
    BY <1>3, <2>2 DEF StopUnit, Values, Sysds, Stop, Stopping, shell, hist, Typed
<1>4. CASE StopHealthCheck
  <2>1. Busy /\ Advance
    BY <1>4 DEF StopHealthCheck, At, Step, Stopping, Restoring
  <2>2. script' \in Scripts
    BY <2>1, Advances
  <2> QED
    BY <1>4, <2>2 DEF StopHealthCheck, Values, Checks, shell, hist, Typed
<1>5. CASE StopBackup
  <2>1. Busy /\ Advance
    BY <1>5 DEF StopBackup, At, Step, Stopping, Restoring
  <2>2. script' \in Scripts
    BY <2>1, Advances
  <2> QED
    BY <1>5, <2>2 DEF StopBackup, Values, shell, hist, Typed
<1>6. CASE SaveDb
  <2>1. Busy /\ Advance
    BY <1>6 DEF SaveDb, At, Step, Stopping, Restoring
  <2>2. script' \in Scripts
    BY <2>1, Advances
  <2> QED
    BY <1>6, <2>2 DEF SaveDb, Values, Dirs, FlagSets, Content4, Disks, shell, hist, Typed
<1>7. CASE PrepareState
  <2>1. Busy /\ Advance
    BY <1>7 DEF PrepareState, At, Step, Stopping, Restoring
  <2>2. script' \in Scripts
    BY <2>1, Advances
  <2> QED
    BY <1>7, <2>2 DEF PrepareState, Values, Disks, shell, hist, Typed
<1>8. CASE SaveCode
  <2>1. Busy /\ Advance
    BY <1>8 DEF SaveCode, At, Step, Stopping, Restoring
  <2>2. script' \in Scripts
    BY <2>1, Advances
  <2> QED
    BY <1>8, <2>2 DEF SaveCode, Values, Dirs, FlagSets, Content4, Disks, shell, hist, Typed
<1>9. CASE ClearCode
  <2>1. Busy /\ Advance
    BY <1>9 DEF ClearCode, At, Step, Stopping, Restoring
  <2>2. script' \in Scripts
    BY <2>1, Advances
  <2> QED
    BY <1>9, <2>2 DEF ClearCode, Values, Disks, Files, shell, hist, Typed
<1>10. CASE CopySnapshot
  <2>1. CASE Advance /\ vault' = [vault EXCEPT !.store = Append(@,
                 [id |-> count.made + 1, whole |-> FALSE, tree |-> dirs.rb, was |-> was,
                  dbSaved |-> flags.dbSaved])]
             /\ count' = [count EXCEPT !.made = @ + 1]
    <3>1. script' \in Scripts
      BY <1>10, <2>1, Advances DEF CopySnapshot, At, Step
    <3>2. [id |-> count.made + 1, whole |-> FALSE, tree |-> dirs.rb, was |-> was,
           dbSaved |-> flags.dbSaved] \in Snapshots
      BY DEF Typed, Values, Counts, Dirs, FlagSets, Snapshots
    <3>3. vault' \in Vaults
      <4>1. vault.store \in Seq(Snapshots)
        BY DEF Typed, Values, Vaults
      <4>2. Append(vault.store, [id |-> count.made + 1, whole |-> FALSE, tree |-> dirs.rb,
                                 was |-> was, dbSaved |-> flags.dbSaved]) \in Seq(Snapshots)
        BY <3>2, <4>1, Appended
      <4> QED
        BY <2>1, <4>2 DEF Typed, Values, Vaults
    <3>4. count' \in Counts
      BY <2>1 DEF Typed, Values, Counts
    <3> QED
      BY <1>10, <3>1, <3>3, <3>4 DEF CopySnapshot, Typed, Values
  <2>2. CASE script' = [script EXCEPT !.at = @ + Len(Persist)] /\ UNCHANGED <<vault, count>>
    <3>1. Len(Persist) = 4
      BY DEF Persist
    <3>2. script' \in Scripts
      BY <2>2, <3>1 DEF Typed, Values, Scripts
    <3> QED
      BY <1>10, <2>2, <3>2 DEF CopySnapshot, Typed, Values
  <2> QED
    BY <1>10, <2>1, <2>2 DEF CopySnapshot
<1>11. CASE SumSnapshot
  <2>1. Busy /\ Advance /\ Step = "sumSnapshot"
    BY <1>11 DEF SumSnapshot, At, Step
  <2>2. script' \in Scripts
    BY <2>1, Advances
  <2>3. vault' \in Vaults
    <3>1. vault.store \in Seq(Snapshots) /\ Len(vault.store) \in 1 .. Len(vault.store)
      BY <2>1 DEF Stored, Typed, Values, Vaults
    <3>2. vault.store[Len(vault.store)] \in Snapshots
      BY <3>1
    <3>3. [vault.store[Len(vault.store)] EXCEPT !.whole = TRUE] \in Snapshots
      BY <3>2 DEF Snapshots
    <3>4. vault' = [vault EXCEPT !.store = [vault.store EXCEPT ![Len(vault.store)] =
                      [vault.store[Len(vault.store)] EXCEPT !.whole = TRUE]]]
      BY <1>11 DEF SumSnapshot
    <3>5. [vault.store EXCEPT ![Len(vault.store)] =
             [vault.store[Len(vault.store)] EXCEPT !.whole = TRUE]] \in Seq(Snapshots)
      BY <3>1, <3>3, ExceptSeq
    <3> QED
      BY <3>4, <3>5 DEF Typed, Values, Vaults
  <2> QED
    BY <1>11, <2>2, <2>3 DEF SumSnapshot, hist, Typed, Values
<1>12. CASE NameLatest
  <2>1. Busy /\ Advance /\ Step = "nameLatest"
    BY <1>12 DEF NameLatest, At, Step
  <2>2. script' \in Scripts
    BY <2>1, Advances
  <2>3. vault' \in Vaults
    <3>1. Last(vault.store) \in Snapshots
      BY <2>1 DEF Stored, Typed, Values, Vaults, Last
    <3> QED
      BY <1>12, <3>1 DEF NameLatest, Typed, Values, Vaults, Snapshots
  <2> QED
    BY <1>12, <2>2, <2>3 DEF NameLatest, hist, Typed, Values
<1>13. CASE Rotate
  <2>1. Busy /\ Advance
    BY <1>13 DEF Rotate, At, Step
  <2>2. script' \in Scripts
    BY <2>1, Advances
  <2> QED
    BY <1>13, <2>2, Rotated DEF Rotate, hist, Typed, Values
<1>14. CASE Switch
  <2>0. Busy /\ Advance
    BY <1>14 DEF Switch, At, Step
  <2>9. script' \in Scripts
    BY <2>0, Advances
  <2>8. dirs.sel \in Snapshots
    BY <1>14, SwitchAt DEF Switch, Typed
  <2>1. dirs' \in Dirs
    BY <1>14, <2>8 DEF Switch, Typed, Values, Dirs, Snapshots
  <2>2. before' \in Befores
    BY <1>14, <2>8 DEF Switch, Typed, Values, Befores, Snapshots, Dirs
  <2>3. UNCHANGED <<disk, sysd, check, bk, flags, was, vault, good, raced, count>>
    BY <1>14 DEF Switch, shell, hist
  <2> QED
    BY <2>9, <2>1, <2>2, <2>3 DEF Typed, Values
<1>15. CASE LoadMetadata
  <2>0. Busy /\ Advance
    BY <1>15 DEF LoadMetadata, At, Step
  <2>9. script' \in Scripts
    BY <2>0, Advances
  <2>8. dirs.sel \in Snapshots
    BY <1>15, SwitchAt DEF LoadMetadata, Typed
  <2>1. was' \in Wases
    BY <1>15, <2>8 DEF LoadMetadata, Typed, Values, Wases, Dirs, Snapshots
  <2>2. flags' \in FlagSets
    BY <1>15, <2>8 DEF LoadMetadata, Typed, Values, FlagSets, Dirs, Snapshots
  <2>3. before' \in Befores
    BY <1>15, <2>8 DEF LoadMetadata, Typed, Values, Befores, Dirs, Snapshots
  <2>4. UNCHANGED <<disk, sysd, check, bk, dirs, vault, good, raced, count>>
    BY <1>15 DEF LoadMetadata, shell, hist
  <2> QED
    BY <2>9, <2>1, <2>2, <2>3, <2>4 DEF Typed, Values
<1>16. CASE MissPanel
  <2>0. Busy /\ Advance
    BY <1>16 DEF MissPanel, Asks, At, Step
  <2>1. script' \in Scripts
    BY <2>0, Advances
  <2>2. before' \in Befores
    BY <1>16 DEF MissPanel, Typed, Values, Befores
  <2> QED
    BY <1>16, <2>1, <2>2 DEF MissPanel, shell, Typed, Values
<1> QED
  BY <1>1, <1>2, <1>3, <1>4, <1>5, <1>6, <1>7, <1>8, <1>9, <1>10, <1>11, <1>12, <1>13,
     <1>14, <1>15, <1>16

\* So do the steps that put the new release in place.
LEMMA InstallValues ==
  ASSUME Typed, Install \/ Migrate \/ WriteConf \/ WriteSite
           \/ StartService \/ WaitForBackend \/ StartUnit \/ StartHealthCheck
           \/ HealthCheckEnds
  PROVE  Values'
<1>1. CASE Install
  <2>0. Busy /\ Advance
    BY <1>1 DEF Install, At, Step
  <2>9. script' \in Scripts
    BY <2>0, Advances
  <2>1. disk' \in Disks
    BY <1>1, ReleaseTypes, NewTyped DEF Install, Typed, Values, Disks, Files
  <2>2. UNCHANGED <<sysd, check, bk, flags, was, dirs, vault, before, good, raced, count>>
    BY <1>1 DEF Install, shell, hist
  <2> QED
    BY <2>9, <2>1, <2>2 DEF Typed, Values
<1>2. CASE Migrate
  <2>1. Busy /\ Advance
    BY <1>2 DEF Migrate, At, Step, Stopping, Restoring
  <2>2. script' \in Scripts
    BY <2>1, Advances
  <2> QED
    BY <1>2, <2>2, MigratedTyped DEF Migrate, Values, Disks, shell, hist, Typed
<1>3. CASE WriteConf
  <2>0. Busy /\ Advance
    BY <1>3 DEF WriteConf, At, Step
  <2>9. script' \in Scripts
    BY <2>0, Advances
  <2>1. disk' \in Disks
    BY <1>3, ReleaseTypes, NewTyped DEF WriteConf, Typed, Values, Disks, Files
  <2>2. UNCHANGED <<sysd, check, bk, flags, was, dirs, vault, before, good, raced, count>>
    BY <1>3 DEF WriteConf, shell, hist
  <2> QED
    BY <2>9, <2>1, <2>2 DEF Typed, Values
<1>4. CASE WriteSite
  <2>1. script' \in Scripts
    <3>1. CASE Advance
      BY <1>4, <3>1, Advances DEF WriteSite, At, Step
    <3>2. CASE script' = Undo("fail")
      BY <3>2, Programs DEF Scripts, Undo
    <3> QED
      BY <1>4, <3>1, <3>2 DEF WriteSite
  <2>2. disk' \in Disks
    BY <1>4, ReleaseTypes, NewTyped
      DEF WriteSite, Typed, Values, Disks, Files, Dirs, Content4
  <2>3. UNCHANGED <<sysd, check, bk, flags, was, dirs, vault, before, good, raced, count>>
    BY <1>4 DEF WriteSite, shell, hist
  <2> QED
    BY <2>1, <2>2, <2>3 DEF Typed, Values
<1>5. CASE StartService
  <2>1. Busy /\ Advance
    BY <1>5 DEF StartService, At, Step
  <2>2. script' \in Scripts
    BY <2>1, Advances
  <2>3. Enabled(sysd, "panel") \in Sysds
    BY DEF Enabled, Typed, Values, Sysds, Units
  <2>4. sysd' \in Sysds /\ disk' \in Disks
    BY <1>5, <2>3, LaunchedTyped DEF StartService
  <2> QED
    BY <1>5, <2>2, <2>4 DEF StartService, shell, hist, Typed, Values
<1>6. CASE WaitForBackend
  <2>1. Busy /\ Advance
    BY <1>6 DEF WaitForBackend, At, Step, Stopping, Restoring
  <2>2. script' \in Scripts
    BY <2>1, Advances
  <2> QED
    BY <1>6, <2>2 DEF WaitForBackend, Values, shell, hist, Typed
<1>7. CASE StartUnit
  <2>1. Busy /\ Advance
    BY <1>7 DEF StartUnit, At, Step, Stopping, Restoring
  <2>2. script' \in Scripts
    BY <2>1, Advances
  <2>3. sysd \in Sysds
    BY DEF Typed, Values
  <2>4. sysd' \in Sysds
    <3>1. PICK u \in {"caddy", "health", "backup"} :
            sysd' = [Enabled(sysd, u) EXCEPT !.on = @ \cup {u}]
      BY <1>7 DEF StartUnit
    <3>2. u \in Units \ {"panel"}
      BY <3>1 DEF Units, Timers
    <3>3. Enabled(sysd, u) \in Sysds
      BY <2>3, <3>2 DEF Enabled, Sysds
    <3> QED
      BY <3>1, <3>2, <3>3 DEF Sysds
  <2>5. UNCHANGED <<disk, check, bk, flags, was, dirs, vault, before, good, raced, count>>
    BY <1>7 DEF StartUnit, shell, hist
  <2> QED
    BY <2>2, <2>4, <2>5 DEF Typed, Values
<1>8. CASE StartHealthCheck
  <2>1. Busy /\ Advance
    BY <1>8 DEF StartHealthCheck, At, Step, Stopping, Restoring
  <2>2. script' \in Scripts
    BY <2>1, Advances
  <2> QED
    BY <1>8, <2>2 DEF StartHealthCheck, Values, Checks, shell, hist, Typed
<1>9. CASE HealthCheckEnds
  <2>1. Busy /\ Advance
    BY <1>9 DEF HealthCheckEnds, At, Step, Stopping, Restoring
  <2>2. script' \in Scripts
    BY <2>1, Advances
  <2> QED
    BY <1>9, <2>2 DEF HealthCheckEnds, Values, shell, hist, Typed
<1> QED
  BY <1>1, <1>2, <1>3, <1>4, <1>5, <1>6, <1>7, <1>8, <1>9

\* So do the steps of the rollback.
LEMMA UndoValues ==
  ASSUME Typed, Disable \/ WipeCode \/ CopyCode \/ WipeDb
           \/ CopyDb \/ RestoreFiles \/ Enable \/ RestorePanel
           \/ RestoreUnits
  PROVE  Values'
<1>1. CASE Disable
  <2>1. Busy /\ Advance
    BY <1>1 DEF Disable, At, Step, Stopping, Restoring
  <2>2. script' \in Scripts
    BY <2>1, Advances
  <2> QED
    BY <1>1, <2>2 DEF Disable, Values, Sysds, shell, hist, Typed
<1>2. CASE WipeCode
  <2>1. Busy /\ Advance
    BY <1>2 DEF WipeCode, At, Step, Stopping, Restoring
  <2>2. script' \in Scripts
    BY <2>1, Advances
  <2> QED
    BY <1>2, <2>2 DEF WipeCode, Values, Disks, Files, shell, hist, Typed
<1>3. CASE CopyCode
  <2>0. Busy /\ Advance
    BY <1>3 DEF CopyCode, At, Step
  <2>9. script' \in Scripts
    BY <2>0, Advances
  <2>1. disk' \in Disks
    BY <1>3 DEF CopyCode, Typed, Values, Disks, Dirs, Content4, Files, FlagSets
  <2>2. UNCHANGED <<sysd, check, bk, flags, was, dirs, vault, before, good, raced, count>>
    BY <1>3 DEF CopyCode, shell, hist
  <2> QED
    BY <2>9, <2>1, <2>2 DEF Typed, Values
<1>4. CASE WipeDb
  <2>1. Busy /\ Advance
    BY <1>4 DEF WipeDb, At, Step, Stopping, Restoring
  <2>2. script' \in Scripts
    BY <2>1, Advances
  <2> QED
    BY <1>4, <2>2 DEF WipeDb, Values, Disks, DbValues, shell, hist, Typed
<1>5. CASE CopyDb
  <2>1. Busy /\ Advance
    BY <1>5 DEF CopyDb, At, Step, Stopping, Restoring
  <2>2. script' \in Scripts
    BY <2>1, Advances
  <2> QED
    BY <1>5, <2>2 DEF CopyDb, Values, Disks, Dirs, Content4, shell, hist, Typed
<1>6. CASE RestoreFiles
  <2>1. Busy /\ Advance
    BY <1>6 DEF RestoreFiles, At, Step, Stopping, Restoring
  <2>2. script' \in Scripts
    BY <2>1, Advances
  <2> QED
    BY <1>6, <2>2 DEF RestoreFiles, Values, Disks, Dirs, Content4, shell, hist, Typed
<1>7. CASE Enable
  <2>1. Busy /\ Reports
    BY <1>7, RestoresReport
  <2>2. script' \in Scripts
    BY <2>1, Advances
  <2> QED
    BY <1>7, <2>2 DEF Enable, Values, Sysds, shell, hist, Typed
<1>8. CASE RestorePanel
  <2>1. Busy /\ Reports
    BY <1>8, RestoresReport
  <2>2. script' \in Scripts
    BY <2>1, Advances
  <2>3. sysd' \in Sysds /\ disk' \in Disks
    <3>1. CASE StartPanel(sysd)
      BY <3>1, StartTyped DEF Typed, Values
    <3>2. CASE Stop({u \in {"panel"} : KeptDown(u)}) /\ UNCHANGED disk
      BY <3>2 DEF Stop, Typed, Values, Sysds
    <3> QED
      BY <1>8, <3>1, <3>2 DEF RestorePanel
  <2> QED
    BY <1>8, <2>2, <2>3 DEF RestorePanel, shell, hist, Typed, Values
<1>9. CASE RestoreUnits
  <2>1. Busy /\ Reports
    BY <1>9, RestoresReport
  <2>2. script' \in Scripts
    BY <2>1, Advances
  <2> QED
    BY <1>9, <2>2
      DEF RestoreUnits, Values, Sysds, Restoring, Units, Timers, shell, hist, Typed
<1> QED
  BY <1>1, <1>2, <1>3, <1>4, <1>5, <1>6, <1>7, <1>8, <1>9

-----------------------------------------------------------------------------
(* What a step reads.                                                      *)

\* What the place of the script tells of the disk and of the snapshot it reads.
Places ==
  /\ Busy => script.at \in 1 .. Len(Program[script.seq])
  /\ At("migrate") => disk.code \in Releases
  /\ script.seq = "rollback" => dirs.sel \in Snapshots

\* The steps before those on which the invariants say something.
LEMMA StepBefore ==
  ASSUME Typed, Busy, Advance \/ Reports
  PROVE  /\ Step' = "migrate" => Step = "install"
         /\ Step' = "sumSnapshot" => Step = "copySnapshot"
         /\ Step' = "nameLatest" => Step = "sumSnapshot"
         /\ Step' = "rotate" => Step = "nameLatest"
<1>1. /\ Step = Program[script.seq][script.at]
      /\ Step' = Program[script'.seq][script'.at]
  BY Advances DEF Step
<1>2. CASE script'.seq = "undo" /\ script'.at = 1
  BY <1>1, <1>2, UndoAt
<1>3. CASE script'.seq = script.seq /\ script'.at = script.at + 1
  <2>1. /\ script.at \in 1 .. Len(Program[script.seq])
        /\ script.at + 1 \in 1 .. Len(Program[script.seq])
    BY <1>3, Advances DEF Typed
  <2>2. CASE script.seq = "update"
    <3>1. /\ script.at \in 1 .. 26 /\ Step = Program["update"][script.at]
          /\ Step' = Program["update"][script.at + 1]
      BY <1>1, <1>3, <2>1, <2>2, UpdateAt
    <3> QED
      BY <3>1, UpdateAt
  <2>3. CASE script.seq = "rollback"
    <3>1. /\ script.at \in 1 .. 15 /\ Step = Program["rollback"][script.at]
          /\ Step' = Program["rollback"][script.at + 1]
      BY <1>1, <1>3, <2>1, <2>3, RollbackAt
    <3> QED
      BY <3>1, RollbackAt
  <2>4. CASE script.seq = "undo"
    <3>1. script.at \in 1 .. 16 /\ Step' = Program["undo"][script.at + 1]
      BY <1>1, <1>3, <2>1, <2>4, UndoAt
    <3> QED
      BY <3>1, UndoAt
  <2> QED
    BY <2>2, <2>3, <2>4, Programs DEF Busy
<1> QED
  BY <1>2, <1>3, Advances

\* A step that goes on finds what the next one reads.
LEMMA AdvancePlaces ==
  ASSUME Typed, Busy, Advance \/ Reports, dirs'.sel = dirs.sel,
         Step = "install" => disk'.code \in Releases
  PROVE  Places'
<1>1. Busy' /\ script'.at \in 1 .. Len(Program[script'.seq])
  BY Advances
<1>2. Step' = "migrate" => Step = "install"
  BY StepBefore
<1>3. script'.seq = "rollback" => dirs.sel \in Snapshots
  BY Advances DEF Typed
<1> QED
  BY <1>1, <1>2, <1>3 DEF Places, At

\* A rollback that begins and a script that ends read nothing.
LEMMA UndoPlaces ==
  ASSUME (script'.seq = "undo" /\ script'.at = 1) \/ script'.seq \in {"none", "exit"}
  PROVE  Places'
<1>1. CASE script'.seq = "undo" /\ script'.at = 1
  <2>1. /\ Step' = "stopHealthTimer" /\ 1 \in 1 .. Len(Program["undo"])
    BY <1>1, UndoAt, Programs DEF Step, Busy
  <2> QED
    BY <1>1, <2>1 DEF Places, At
<1>2. CASE script'.seq \in {"none", "exit"}
  BY <1>2, Programs DEF Places, At, Step, Busy
<1> QED
  BY <1>1, <1>2

\* A unit between two steps takes nothing of it away.
LEMMA SamePlaces ==
  ASSUME Typed, UNCHANGED script, dirs'.sel = dirs.sel,
         disk'.code = disk.code \/ Step # "migrate"
  PROVE  Places'
BY DEF Typed, Places, At, Step, Busy

\* Where the snapshot is made, and what follows when there is none to make.
LEMMA CopiesAt ==
  ASSUME Typed, Step = "copySnapshot"
  PROVE  /\ Busy /\ script.seq \in {"update", "rollback"}
         /\ script.seq = "update" => script.at = 23
         /\ script.seq = "rollback" => script.at = 11
<1>1. /\ Busy /\ script.at \in 1 .. Len(Program[script.seq])
      /\ Program[script.seq][script.at] = "copySnapshot"
  BY DEF Step, Typed
<1>2. ASSUME script.seq = "update" PROVE script.at = 23
  <2>1. script.at \in 1 .. 27 /\ Program["update"][script.at] = "copySnapshot"
    BY <1>1, <1>2, UpdateAt
  <2> QED
    BY <2>1, UpdateAt, SMTT(60)
<1>3. ASSUME script.seq = "rollback" PROVE script.at = 11
  <2>1. script.at \in 1 .. 16 /\ Program["rollback"][script.at] = "copySnapshot"
    BY <1>1, <1>3, RollbackAt
  <2> QED
    BY <2>1, RollbackAt
<1>4. ASSUME script.seq = "undo" PROVE FALSE
  <2>1. script.at \in 1 .. 17 /\ Program["undo"][script.at] = "copySnapshot"
    BY <1>1, <1>4, UndoAt
  <2> QED
    BY <2>1, UndoAt
<1> QED
  BY <1>1, <1>2, <1>3, <1>4, Programs DEF Busy

\* Without a former installation the whole saving is left out.
LEMMA Skipped ==
  ASSUME Typed, Step = "copySnapshot", script' = [script EXCEPT !.at = @ + Len(Persist)]
  PROVE  /\ Busy' /\ script'.seq = script.seq
         /\ script'.at = script.at + 4 /\ script'.at \in 1 .. Len(Program[script'.seq])
         /\ Step' \in {"succeed", "switch"}
<1>1. Len(Persist) = 4
  BY DEF Persist
<1>2. script'.seq = script.seq /\ script'.at = script.at + 4 /\ Busy'
  BY <1>1, CopiesAt DEF Typed, Values, Scripts, Busy
<1>3. CASE script.seq = "update"
  <2>1. script'.seq = "update" /\ script'.at = 27
    BY <1>2, <1>3, CopiesAt
  <2>2. Step' = Program["update"][27]
    BY <1>2, <2>1 DEF Step
  <2>3. Program["update"][27] = "succeed" /\ 27 \in 1 .. Len(Program["update"])
    BY UpdateAt
  <2> QED
    BY <1>2, <2>1, <2>2, <2>3
<1>4. CASE script.seq = "rollback"
  <2>1. script'.seq = "rollback" /\ script'.at = 15
    BY <1>2, <1>4, CopiesAt
  <2>2. Step' = "switch" /\ 15 \in 1 .. Len(Program["rollback"])
    BY <1>2, <2>1, RollbackAt DEF Step
  <2> QED
    BY <1>2, <2>1, <2>2
<1> QED
  BY <1>3, <1>4, CopiesAt

\* Whatever happens, a step finds what it reads.
LEMMA PlacesInv == ASSUME Typed, Stored, Next PROVE Places'
<1>1. CASE EnsureCaddy
  BY <1>1, AdvancePlaces
  DEF EnsureCaddy, At, Step, shell, Typed, Values, Dirs
<1>2. CASE Capture
  BY <1>2, AdvancePlaces
  DEF Capture, At, Step, shell, Typed, Values, Dirs
<1>3. CASE StopUnit
  BY <1>3, AdvancePlaces
  DEF StopUnit, At, Step, Stopping, shell, Typed, Values, Dirs
<1>50. CASE MissPanel
  BY <1>50, AdvancePlaces
  DEF MissPanel, Asks, At, Step, shell, Typed, Values, Dirs
<1>4. CASE StopHealthCheck
  BY <1>4, AdvancePlaces
  DEF StopHealthCheck, At, Step, shell, Typed, Values, Dirs
<1>5. CASE StopBackup
  BY <1>5, AdvancePlaces
  DEF StopBackup, At, Step, shell, Typed, Values, Dirs
<1>6. CASE SaveDb
  BY <1>6, AdvancePlaces
  DEF SaveDb, At, Step, shell, Typed, Values, Dirs
<1>7. CASE PrepareState
  BY <1>7, AdvancePlaces
  DEF PrepareState, At, Step, shell, Typed, Values, Dirs
<1>8. CASE SaveCode
  BY <1>8, AdvancePlaces
  DEF SaveCode, At, Step, shell, Typed, Values, Dirs
<1>9. CASE ClearCode
  BY <1>9, AdvancePlaces
  DEF ClearCode, At, Step, shell, Typed, Values, Dirs
<1>10. CASE Migrate
  BY <1>10, AdvancePlaces
  DEF Migrate, At, Step, shell, Typed, Values, Dirs
<1>11. CASE WriteConf
  BY <1>11, AdvancePlaces
  DEF WriteConf, At, Step, shell, Typed, Values, Dirs
<1>12. CASE StartService
  BY <1>12, AdvancePlaces
  DEF StartService, At, Step, shell, Typed, Values, Dirs
<1>13. CASE WaitForBackend
  BY <1>13, AdvancePlaces
  DEF WaitForBackend, At, Step, shell, Typed, Values, Dirs
<1>14. CASE StartUnit
  BY <1>14, AdvancePlaces
  DEF StartUnit, At, Step, shell, Typed, Values, Dirs
<1>15. CASE StartHealthCheck
  BY <1>15, AdvancePlaces
  DEF StartHealthCheck, At, Step, shell, Typed, Values, Dirs
<1>16. CASE HealthCheckEnds
  BY <1>16, AdvancePlaces
  DEF HealthCheckEnds, At, Step, shell, Typed, Values, Dirs
<1>17. CASE SumSnapshot
  BY <1>17, AdvancePlaces
  DEF SumSnapshot, At, Step, shell, Typed, Values, Dirs
<1>18. CASE NameLatest
  BY <1>18, AdvancePlaces
  DEF NameLatest, At, Step, shell, Typed, Values, Dirs
<1>19. CASE Rotate
  BY <1>19, AdvancePlaces
  DEF Rotate, At, Step, shell, Typed, Values, Dirs
<1>20. CASE Switch
  BY <1>20, AdvancePlaces
  DEF Switch, At, Step, shell, Typed, Values, Dirs
<1>21. CASE LoadMetadata
  BY <1>21, AdvancePlaces
  DEF LoadMetadata, At, Step, shell, Typed, Values, Dirs
<1>22. CASE Disable
  BY <1>22, AdvancePlaces
  DEF Disable, At, Step, shell, Typed, Values, Dirs
<1>23. CASE WipeCode
  BY <1>23, AdvancePlaces
  DEF WipeCode, At, Step, shell, Typed, Values, Dirs
<1>24. CASE CopyCode
  BY <1>24, AdvancePlaces
  DEF CopyCode, At, Step, shell, Typed, Values, Dirs
<1>25. CASE WipeDb
  BY <1>25, AdvancePlaces
  DEF WipeDb, At, Step, shell, Typed, Values, Dirs
<1>26. CASE CopyDb
  BY <1>26, AdvancePlaces
  DEF CopyDb, At, Step, shell, Typed, Values, Dirs
<1>27. CASE RestoreFiles
  BY <1>27, AdvancePlaces
  DEF RestoreFiles, At, Step, shell, Typed, Values, Dirs
<1>28. CASE Enable
  BY <1>28, RestoresReport, AdvancePlaces
  DEF Enable, At, shell, Typed, Values, Dirs
<1>29. CASE RestorePanel
  BY <1>29, RestoresReport, AdvancePlaces
  DEF RestorePanel, At, shell, Typed, Values, Dirs
<1>30. CASE RestoreUnits
  BY <1>30, RestoresReport, AdvancePlaces
  DEF RestoreUnits, At, Restoring, shell, Typed, Values, Dirs
<1>31. CASE Install
  <2>1. Busy /\ Advance /\ dirs' = dirs
    BY <1>31 DEF Install, At, Step, shell
  <2>2. disk'.code \in Releases
    BY <1>31, NewTyped DEF Install, Typed, Values, Disks
  <2> QED
    BY <2>1, <2>2, AdvancePlaces
<1>32. CASE WriteSite
  <2>1. Busy /\ Step = "writeSite" /\ dirs' = dirs
    BY <1>32 DEF WriteSite, At, Step, shell
  <2>2. CASE Advance
    BY <2>1, <2>2, AdvancePlaces
  <2>3. CASE script' = Undo("fail")
    BY <2>3, UndoPlaces DEF Undo
  <2> QED
    BY <1>32, <2>2, <2>3 DEF WriteSite
<1>33. CASE CopySnapshot
  <2>1. Busy /\ Step = "copySnapshot" /\ UNCHANGED <<disk, dirs>>
    BY <1>33 DEF CopySnapshot, At, Step
  <2>2. CASE Advance
    BY <2>1, <2>2, AdvancePlaces
  <2>3. CASE script' = [script EXCEPT !.at = @ + Len(Persist)]
    BY <2>1, <2>3, Skipped DEF Places, At, Typed
  <2> QED
    BY <1>33, <2>2, <2>3 DEF CopySnapshot
<1>34. CASE Interrupted
  BY <1>34, UndoPlaces DEF Interrupted, Undo, Leaves, Idle
<1>35. CASE Fails
  BY <1>35, UndoPlaces DEF Fails, Undo
<1>36. CASE Exit
  BY <1>36, UndoPlaces DEF Exit, Idle
<1>37. CASE Killed
  BY <1>37, UndoPlaces DEF Killed, Idle
<1>38. CASE Succeed
  BY <1>38, UndoPlaces DEF Succeed, Leaves, Idle
<1>39. CASE Verify
  BY <1>39, UndoPlaces DEF Verify, Undo, Leaves, Idle
<1>40. CASE Write
  <2>1. UNCHANGED <<script, dirs>> /\ disk'.code = disk.code
    BY <1>40 DEF Write, shell, Typed, Values, Disks
  <2> QED
    BY <2>1, SamePlaces
<1>41. CASE HealthCheckStarts
  <2>1. UNCHANGED <<script, dirs>> /\ disk'.code = disk.code
    BY <1>41 DEF HealthCheckStarts, shell, Typed, Values, Disks
  <2> QED
    BY <2>1, SamePlaces
<1>42. CASE HealthCheckProbes \/ HealthCheckReturns
  <2>1. UNCHANGED <<script, dirs>> /\ disk'.code = disk.code
    BY <1>42 DEF HealthCheckProbes, HealthCheckReturns, shell, Typed, Values, Disks
  <2> QED
    BY <2>1, SamePlaces
<1>43. CASE BackupTimerFires
  <2>1. UNCHANGED <<script, dirs>> /\ disk'.code = disk.code
    BY <1>43 DEF BackupTimerFires, shell, Typed, Values, Disks
  <2> QED
    BY <2>1, SamePlaces
<1>44. CASE AutoRestart
  <2>1. UNCHANGED <<script, dirs>> /\ disk'.code = disk.code
    BY <1>44, LaunchedTyped DEF AutoRestart, shell, Typed, Values
  <2> QED
    BY <2>1, SamePlaces
<1>45. CASE HealthCheckRecovers \/ PanelRestarts
  <2>1. UNCHANGED <<script, dirs>>
    BY <1>45 DEF HealthCheckRecovers, PanelRestarts, shell
  <2>2. Launched(sysd) \/ UNCHANGED disk
    BY <1>45 DEF HealthCheckRecovers, PanelRestarts
  <2>3. disk'.code = disk.code
    BY <2>2, LaunchedTyped DEF Typed, Values
  <2> QED
    BY <2>1, <2>3, SamePlaces
<1>46. CASE BackupRuns
  <2>1. UNCHANGED <<script, dirs>> /\ disk'.code = disk.code
    BY <1>46, StartTyped DEF BackupRuns, shell, Typed, Values
  <2> QED
    BY <2>1, SamePlaces
<1>47. CASE Partly
  <2>1. UNCHANGED script /\ Step # "migrate"
    BY <1>47 DEF Partly, Writes, Saves, At
  <2>2. dirs'.sel = dirs.sel
    BY <1>47 DEF Partly, Typed, Values, Dirs
  <2> QED
    BY <2>1, <2>2, SamePlaces
<1>48. CASE StepFails
  <2>1. Busy /\ script.seq = "undo"
    BY <1>48, Programs DEF StepFails, Undoing, Busy
  <2>2. /\ Advanced \in Scripts /\ Advanced.seq = "undo"
        /\ Advanced.at \in 1 .. Len(Program["undo"])
    BY <2>1, AdvancedTyped
  <2>3. script'.seq = "undo" /\ script'.at \in 1 .. Len(Program["undo"])
    BY <1>48, <2>2 DEF StepFails, Scripts
  <2>4. Program["undo"][script'.at] # "migrate"
    BY <2>3, UndoAt
  <2> QED
    BY <2>3, <2>4 DEF Places, At, Step
<1>49. CASE Launch
  <2>1. CASE script' = [Idle EXCEPT !.seq = "update", !.at = 1]
    <3>1. /\ script'.seq = "update" /\ script'.at = 1 /\ Step' = "ensureCaddy"
          /\ 1 \in 1 .. Len(Program["update"])
      BY <2>1, UpdateAt, Programs DEF Idle, Step, Busy
    <3> QED
      BY <3>1 DEF Places, At
  <2>2. CASE /\ \E i \in DOMAIN vault.store : vault.store[i].id = vault.latest
             /\ dirs' = [dirs EXCEPT !.sel = vault.store[Named(vault.latest)]]
             /\ script' = [Idle EXCEPT !.seq = "rollback", !.at = 1]
    <3>1. /\ script'.seq = "rollback" /\ script'.at = 1 /\ Step' = "capture"
          /\ 1 \in 1 .. Len(Program["rollback"])
      BY <2>2, RollbackAt, Programs DEF Idle, Step, Busy
    <3>2. dirs'.sel \in Snapshots
      BY <2>2, SelectedTyped DEF Typed, Values, Dirs
    <3> QED
      BY <3>1, <3>2 DEF Places, At
  <2> QED
    BY <1>49, <2>1, <2>2 DEF Launch
<1> QED
  BY <1>1, <1>2, <1>3, <1>4, <1>5, <1>6, <1>7, <1>8, <1>9, <1>10, <1>11, <1>12, <1>13,
     <1>14, <1>15, <1>16, <1>17, <1>18, <1>19, <1>20, <1>21, <1>22, <1>23, <1>24, <1>25,
     <1>26, <1>27, <1>28, <1>29, <1>30, <1>31, <1>32, <1>33, <1>34, <1>35, <1>36, <1>37,
     <1>38, <1>39, <1>40, <1>41, <1>42, <1>43, <1>44, <1>45, <1>46, <1>47, <1>48, <1>49, <1>50
  DEF Next

-----------------------------------------------------------------------------
(* The panel stays down.                                                   *)

\* The cutover is past its step k, and the new release not started yet.
Past(k) ==
  \/ script.seq = "rollback" /\ script.at > k
  \/ script.seq = "update" /\ script.at > k + 1 /\ script.at <= 14

\* Every stop of the cutover keeps what it stopped: a timer that is off starts no
\* service, and a service that is off starts no panel. The panel itself may have been
\* between two states when the cutover looked.
Quiet ==
  /\ Past(2) => "health" \notin sysd.on
  /\ Past(3) => check.pc = "off"
  /\ Past(4) => "backup" \notin sysd.on
  /\ Past(5) => ~bk
  /\ Past(6) => before.missed \/ sysd.proc = None
  /\ script.seq = "rollback" /\ flags.dbCaptured => script.at > 7
  /\ script.seq = "update" /\ flags.dbCaptured => script.at > 8

\* Past its sixth step the cutover has the panel stopped, unless it has missed it.
LEMMA QuietIsDown == ASSUME Typed, Quiet PROVE PanelStaysDown
<1> SUFFICES ASSUME script.seq \in {"update", "rollback"}, flags.dbCaptured, ~before.missed,
                    script.seq = "update" => script.at <= 1 + Len(Cutover) + 3
             PROVE  sysd.proc = None
  BY DEF PanelStaysDown, Switching
<1>1. Len(Cutover) = 10 /\ script.at \in Nat
  BY DEF Cutover, Typed, Values, Scripts
<1>2. 1 + Len(Cutover) + 3 = 14
  BY <1>1
<1>3. CASE script.seq = "rollback"
  BY <1>1, <1>3 DEF Quiet, Past
<1>4. CASE script.seq = "update"
  BY <1>1, <1>2, <1>4 DEF Quiet, Past
<1> QED
  BY <1>3, <1>4

\* The cutover's step k, in either program.
In(k) ==
  \/ script.seq = "rollback" /\ script.at = k
  \/ script.seq = "update" /\ script.at = k + 1

\* What is captured and stopped in the cutover is where Past counts it.
LEMMA CutoverAt ==
  ASSUME Typed, Busy, script.seq # "undo"
  PROVE  /\ Step = "capture" <=> In(1)
         /\ Step = "stopHealthTimer" <=> In(2)
         /\ Step = "stopHealthCheck" <=> In(3)
         /\ Step = "stopBackupTimer" <=> In(4)
         /\ Step = "stopBackup" <=> In(5)
         /\ Step = "stopPanel" <=> In(6)
         /\ Step = "saveDb" <=> In(7)
<1>1. /\ script.at \in 1 .. Len(Program[script.seq])
      /\ Step = Program[script.seq][script.at]
  BY DEF Typed, Step
<1>2. CASE script.seq = "rollback"
  <2>1. script.at \in 1 .. 16 /\ Step = Program["rollback"][script.at]
    BY <1>1, <1>2, RollbackAt
  <2>2. \A k \in Nat : In(k) <=> script.at = k
    BY <1>2 DEF In
  <2>3. \A k \in 1 .. 7 : Step = Program["rollback"][k] <=> script.at = k
    BY <2>1, RollbackAt
  <2> QED
    BY <2>2, <2>3, RollbackAt
<1>3. CASE script.seq = "update"
  <2>1. script.at \in 1 .. 27 /\ Step = Program["update"][script.at]
    BY <1>1, <1>3, UpdateAt
  <2>2. \A k \in Nat : In(k) <=> script.at = k + 1
    BY <1>3 DEF In
  <2>3. \A k \in 1 .. 7 : Step = Program["update"][k + 1] <=> script.at = k + 1
    BY <2>1, UpdateAt
  <2> QED
    BY <2>2, <2>3, UpdateAt
<1> QED
  BY <1>2, <1>3, Programs DEF Busy

\* The units start again only after the new release is in place.
LEMMA StartsAt ==
  ASSUME Typed, Busy,
         Step \in {"startPanel", "startCaddy", "startHealthTimer", "startHealthCheck",
                   "startBackups"}
  PROVE  script.seq = "update" /\ script.at >= 15
<1>1. /\ script.at \in 1 .. Len(Program[script.seq])
      /\ Step = Program[script.seq][script.at]
  BY DEF Typed, Step
<1>2. ASSUME script.seq = "rollback" PROVE FALSE
  <2>1. script.at \in 1 .. 16 /\ Step = Program["rollback"][script.at]
    BY <1>1, <1>2, RollbackAt
  <2> QED
    BY <2>1, RollbackAt
<1>3. ASSUME script.seq = "undo" PROVE FALSE
  <2>1. script.at \in 1 .. 17 /\ Step = Program["undo"][script.at]
    BY <1>1, <1>3, UndoAt
  <2> QED
    BY <2>1, UndoAt
<1>4. CASE script.seq = "update"
  <2>1. script.at \in 1 .. 27 /\ Step = Program["update"][script.at]
    BY <1>1, <1>4, UpdateAt
  <2> QED
    BY <1>4, <2>1, UpdateAt
<1> QED
  BY <1>2, <1>3, <1>4, Programs DEF Busy

\* The rollback alone restores the units.
LEMMA RestoresAt ==
  ASSUME Typed, Busy,
         Step \in {"stopCaddy", "restorePanel", "restoreCaddy", "restoreTimers"}
  PROVE  script.seq = "undo"
<1>1. /\ script.at \in 1 .. Len(Program[script.seq])
      /\ Step = Program[script.seq][script.at]
  BY DEF Typed, Step
<1>2. ASSUME script.seq = "rollback" PROVE FALSE
  <2>1. script.at \in 1 .. 16 /\ Step = Program["rollback"][script.at]
    BY <1>1, <1>2, RollbackAt
  <2> QED
    BY <2>1, RollbackAt
<1>3. ASSUME script.seq = "update" PROVE FALSE
  <2>1. script.at \in 1 .. 27 /\ Step = Program["update"][script.at]
    BY <1>1, <1>3, UpdateAt
  <2> QED
    BY <2>1, UpdateAt
<1> QED
  BY <1>2, <1>3, Programs DEF Busy

\* What is past a step is past those before it.
LEMMA InOrder ==
  ASSUME Typed
  PROVE  /\ Past(6) => Past(5)
         /\ Past(5) => Past(4)
         /\ Past(4) => Past(3)
         /\ Past(3) => Past(2)
BY DEF Past, Typed, Values, Scripts

\* The steps of the cutover that stop something.
Stops == {"stopHealthTimer", "stopHealthCheck", "stopBackupTimer", "stopBackup", "stopPanel"}

\* Outside the update and the delayed rollback nothing is said.
LEMMA QuietElsewhere ==
  ASSUME script'.seq \notin {"update", "rollback"} PROVE Quiet'
BY DEF Quiet, Past

\* The rollback goes on as a rollback.
LEMMA QuietUndoing ==
  ASSUME Typed, Busy, Advance \/ Reports, script.seq = "undo" PROVE Quiet'
<1>1. script'.seq = "undo"
  BY Advances
<1> QED
  BY <1>1, QuietElsewhere

\* A step of the script that stops and starts nothing.
LEMMA QuietForward ==
  ASSUME Typed, Quiet, Busy, Advance \/ Reports,
         Step \notin Stops,
         \A u \in Timers : u \in sysd'.on => u \in sysd.on,
         sysd'.proc = sysd.proc, check'.pc = check.pc, bk' = bk,
         flags'.dbCaptured = flags.dbCaptured \/ Step = "saveDb",
         before'.missed = before.missed \/ Step = "capture"
  PROVE  Quiet'
<1>1. CASE script'.seq = "undo"
  BY <1>1, QuietElsewhere
<1>2. CASE /\ script'.seq = script.seq /\ script'.at = script.at + 1
           /\ script.seq # "undo"
  <2>1. script.at \in Nat
    BY DEF Typed, Values, Scripts
  <2>2. ~In(2) /\ ~In(3) /\ ~In(4) /\ ~In(5) /\ ~In(6)
    BY <1>2, CutoverAt DEF Stops
  <2>3. /\ Past(2)' => Past(2)
        /\ Past(3)' => Past(3)
        /\ Past(4)' => Past(4)
        /\ Past(5)' => Past(5)
        /\ Past(6)' => Past(6)
    BY <1>2, <2>1, <2>2 DEF Past, In
  <2>4. flags'.dbCaptured => flags.dbCaptured \/ In(7)
    BY <1>2, CutoverAt
  <2>5. Past(6)' => before'.missed = before.missed
    <3>1. Past(6)' => ~In(1)
      BY <1>2, <2>1 DEF Past, In
    <3> QED
      BY <1>2, <3>1, CutoverAt
  <2> QED
    BY <1>2, <2>1, <2>3, <2>4, <2>5 DEF Quiet, Timers, In
<1> QED
  BY <1>1, <1>2, Advances

\* A step that starts something: the invariant says nothing there.
LEMMA QuietLate ==
  ASSUME Typed, Busy, Advance, flags'.dbCaptured = flags.dbCaptured,
         Step \in {"startPanel", "startCaddy", "startHealthTimer", "startHealthCheck",
                   "startBackups"}
  PROVE  Quiet'
<1>1. script.seq = "update" /\ script.at >= 15 /\ script.at \in Nat
  BY StartsAt DEF Typed, Values, Scripts
<1>2. \/ script'.seq = "undo"
      \/ script'.seq = "update" /\ script'.at = script.at + 1
  BY <1>1, Advances
<1> QED
  BY <1>1, <1>2 DEF Quiet, Past

\* A unit between two steps.
LEMMA QuietBetween ==
  ASSUME Quiet, UNCHANGED <<script, flags>>,
         sysd'.on = sysd.on, Past(3) => check'.pc = check.pc,
         Past(5) => bk' = bk,
         Past(6) => before.missed \/ sysd'.proc = sysd.proc,
         before'.missed = before.missed
  PROVE  Quiet'
BY DEF Quiet, Past

\* Whatever happens, what the cutover stopped stays stopped.
LEMMA QuietInv == ASSUME Typed, Quiet, Next PROVE Quiet'
<1>1. CASE EnsureCaddy
  <2>1. /\ Busy /\ Advance /\ Step \notin Stops
    BY <1>1 DEF EnsureCaddy, At, Step, Stops
  <2>2. /\ \A u \in Timers : u \in sysd'.on => u \in sysd.on
        /\ sysd'.proc = sysd.proc /\ flags'.dbCaptured = flags.dbCaptured
        /\ UNCHANGED <<check, bk, before>>
    BY <1>1 DEF EnsureCaddy, hist, Timers, Typed, Values, Sysds, FlagSets
  <2> QED
    BY <2>1, <2>2, QuietForward
<1>2. CASE Capture
  BY <1>2, QuietForward
  DEF Capture, At, Step, Stops, shell, hist, Typed, Values, FlagSets
<1>3. CASE SaveDb
  BY <1>3, QuietForward
  DEF SaveDb, At, Step, Stops, shell, hist
<1>4. CASE PrepareState
  BY <1>4, QuietForward
  DEF PrepareState, At, Step, Stops, shell, hist
<1>5. CASE SaveCode
  BY <1>5, QuietForward
  DEF SaveCode, At, Step, Stops, shell, hist, Typed, Values, FlagSets
<1>6. CASE ClearCode
  BY <1>6, QuietForward
  DEF ClearCode, At, Step, Stops, shell, hist
<1>7. CASE Install
  BY <1>7, QuietForward
  DEF Install, At, Step, Stops, shell, hist
<1>8. CASE Migrate
  BY <1>8, QuietForward
  DEF Migrate, At, Step, Stops, shell, hist
<1>9. CASE WriteConf
  BY <1>9, QuietForward
  DEF WriteConf, At, Step, Stops, shell, hist
<1>10. CASE WaitForBackend
  BY <1>10, QuietForward
  DEF WaitForBackend, At, Step, Stops, shell, hist
<1>11. CASE HealthCheckEnds
  BY <1>11, QuietForward
  DEF HealthCheckEnds, At, Step, Stops, shell, hist
<1>12. CASE SumSnapshot
  BY <1>12, QuietForward
  DEF SumSnapshot, At, Step, Stops, shell, hist
<1>13. CASE NameLatest
  BY <1>13, QuietForward
  DEF NameLatest, At, Step, Stops, shell, hist
<1>14. CASE Rotate
  BY <1>14, QuietForward
  DEF Rotate, At, Step, Stops, shell, hist
<1>15. CASE Switch
  BY <1>15, QuietForward
  DEF Switch, At, Step, Stops, shell, hist, Typed, Values, Befores
<1>16. CASE LoadMetadata
  BY <1>16, QuietForward
  DEF LoadMetadata, At, Step, Stops, shell, hist, Typed, Values, FlagSets, Befores
<1>17. CASE Disable
  BY <1>17, QuietForward
  DEF Disable, At, Step, Stops, shell, hist, Typed, Values, Sysds
<1>18. CASE WipeCode
  BY <1>18, QuietForward
  DEF WipeCode, At, Step, Stops, shell, hist
<1>19. CASE CopyCode
  BY <1>19, QuietForward
  DEF CopyCode, At, Step, Stops, shell, hist
<1>20. CASE WipeDb
  BY <1>20, QuietForward
  DEF WipeDb, At, Step, Stops, shell, hist
<1>21. CASE CopyDb
  BY <1>21, QuietForward
  DEF CopyDb, At, Step, Stops, shell, hist
<1>22. CASE RestoreFiles
  BY <1>22, QuietForward
  DEF RestoreFiles, At, Step, Stops, shell, hist
<1>23. CASE Enable
  BY <1>23, RestoresReport, QuietForward
  DEF Enable, At, Stops, shell, hist, Typed, Values, Sysds
<1>24. CASE StopUnit
  <2>1. /\ Busy /\ Advance /\ UNCHANGED <<check, bk, flags, before>>
        /\ Step \in {"stopHealthTimer", "stopBackupTimer", "stopPanel", "stopCaddy"}
        /\ script.seq # "undo" =>
             /\ sysd'.on = sysd.on \ Stopping[Step]
             /\ sysd'.proc = IF "panel" \in Stopping[Step] THEN None ELSE sysd.proc
    BY <1>24 DEF StopUnit, Stop, Stopping, Step, shell, hist, Typed, Values, Sysds, Undoing
  <2>2. CASE script.seq = "undo" \/ script'.seq = "undo"
    BY <2>1, <2>2, QuietUndoing, QuietElsewhere
  <2>3. CASE script.seq # "undo" /\ script'.seq = script.seq /\ script'.at = script.at + 1
    <3>0. script.at \in Nat
      BY DEF Typed, Values, Scripts
    <3>1. CASE Step = "stopHealthTimer"
      <4>1. In(2) /\ Stopping[Step] = {"health"}
        BY <2>1, <2>3, <3>1, CutoverAt DEF Stopping
      <4> QED
        BY <2>1, <2>3, <3>0, <4>1 DEF Quiet, Past, In
    <3>2. CASE Step = "stopBackupTimer"
      <4>1. In(4) /\ Stopping[Step] = {"backup"}
        BY <2>1, <2>3, <3>2, CutoverAt DEF Stopping
      <4> QED
        BY <2>1, <2>3, <3>0, <4>1 DEF Quiet, Past, In
    <3>3. CASE Step = "stopPanel"
      <4>1. In(6) /\ Stopping[Step] = {"panel"}
        BY <2>1, <2>3, <3>3, CutoverAt DEF Stopping
      <4> QED
        BY <2>1, <2>3, <3>0, <4>1 DEF Quiet, Past, In
    <3>4. Step # "stopCaddy"
      BY <2>1, <2>3, RestoresAt
    <3> QED
      BY <2>1, <3>1, <3>2, <3>3, <3>4
  <2> QED
    BY <2>1, <2>2, <2>3, Advances
<1>50. CASE MissPanel
  <2>1. /\ Busy /\ Advance /\ Step = "stopPanel" /\ before'.missed
        /\ UNCHANGED <<sysd, check, bk, flags>>
    BY <1>50 DEF MissPanel, Asks, At, Step, shell, Typed, Values, Befores
  <2>2. CASE script.seq = "undo" \/ script'.seq = "undo"
    BY <2>1, <2>2, QuietUndoing, QuietElsewhere
  <2>3. CASE script.seq # "undo" /\ script'.seq = script.seq /\ script'.at = script.at + 1
    <3>1. In(6) /\ script.at \in Nat
      BY <2>1, <2>3, CutoverAt DEF Typed, Values, Scripts
    <3> QED
      BY <2>1, <2>3, <3>1 DEF Quiet, Past, In
  <2> QED
    BY <2>1, <2>2, <2>3, Advances
<1>25. CASE StopHealthCheck
  <2>1. /\ Busy /\ Advance /\ Step = "stopHealthCheck"
        /\ check'.pc = "off" /\ UNCHANGED <<sysd, bk, flags, before>>
    BY <1>25 DEF StopHealthCheck, At, Step, shell, hist, Typed, Values, Checks
  <2>2. CASE script.seq = "undo" \/ script'.seq = "undo"
    BY <2>1, <2>2, QuietUndoing, QuietElsewhere
  <2>3. CASE script.seq # "undo" /\ script'.seq = script.seq /\ script'.at = script.at + 1
    <3>1. In(3) /\ script.at \in Nat
      BY <2>1, <2>3, CutoverAt DEF Typed, Values, Scripts
    <3> QED
      BY <2>1, <2>3, <3>1 DEF Quiet, Past, In
  <2> QED
    BY <2>1, <2>2, <2>3, Advances
<1>26. CASE StopBackup
  <2>1. /\ Busy /\ Advance /\ Step = "stopBackup"
        /\ (script.seq # "undo" => ~bk') /\ UNCHANGED <<sysd, check, flags, before>>
    BY <1>26 DEF StopBackup, At, Step, shell, hist, Typed, Values, Checks, Undoing
  <2>2. CASE script.seq = "undo" \/ script'.seq = "undo"
    BY <2>1, <2>2, QuietUndoing, QuietElsewhere
  <2>3. CASE script.seq # "undo" /\ script'.seq = script.seq /\ script'.at = script.at + 1
    <3>1. In(5) /\ script.at \in Nat
      BY <2>1, <2>3, CutoverAt DEF Typed, Values, Scripts
    <3> QED
      BY <2>1, <2>3, <3>1 DEF Quiet, Past, In
  <2> QED
    BY <2>1, <2>2, <2>3, Advances
<1>27. CASE StartService
  <2>1. /\ Busy /\ Advance /\ flags' = flags
        /\ Step \in {"startPanel", "startCaddy", "startHealthTimer", "startHealthCheck",
                     "startBackups"}
    BY <1>27 DEF StartService, At, Step, shell
  <2> QED
    BY <2>1, QuietLate
<1>28. CASE StartUnit
  <2>1. /\ Busy /\ Advance /\ flags' = flags
        /\ Step \in {"startPanel", "startCaddy", "startHealthTimer", "startHealthCheck",
                     "startBackups"}
    BY <1>28 DEF StartUnit, At, Step, shell
  <2> QED
    BY <2>1, QuietLate
<1>29. CASE StartHealthCheck
  <2>1. /\ Busy /\ Advance /\ flags' = flags
        /\ Step \in {"startPanel", "startCaddy", "startHealthTimer", "startHealthCheck",
                     "startBackups"}
    BY <1>29 DEF StartHealthCheck, At, Step, shell
  <2> QED
    BY <2>1, QuietLate
<1>30. CASE RestorePanel
  <2>1. /\ Busy /\ Reports
        /\ Step \in {"stopCaddy", "restorePanel", "restoreCaddy", "restoreTimers"}
    BY <1>30, RestoresReport DEF RestorePanel, At, Restoring
  <2> QED
    BY <2>1, RestoresAt, QuietUndoing
<1>31. CASE RestoreUnits
  <2>1. /\ Busy /\ Reports
        /\ Step \in {"stopCaddy", "restorePanel", "restoreCaddy", "restoreTimers"}
    BY <1>31, RestoresReport DEF RestoreUnits, At, Restoring
  <2> QED
    BY <2>1, RestoresAt, QuietUndoing
<1>32. CASE WriteSite
  <2>1. /\ Busy /\ Step = "writeSite" /\ UNCHANGED <<sysd, check, bk, flags, before>>
    BY <1>32 DEF WriteSite, At, Step, shell, hist
  <2>2. CASE Advance
    BY <2>1, <2>2, QuietForward DEF Stops
  <2>3. CASE script' = Undo("fail")
    BY <2>3, QuietElsewhere DEF Undo
  <2> QED
    BY <1>32, <2>2, <2>3 DEF WriteSite
<1>33. CASE CopySnapshot
  <2>1. /\ Busy /\ Step = "copySnapshot" /\ UNCHANGED <<sysd, check, bk, flags, before>>
    BY <1>33 DEF CopySnapshot, At, Step
  <2>2. CASE Advance
    BY <2>1, <2>2, QuietForward DEF Stops
  <2>3. CASE script' = [script EXCEPT !.at = @ + Len(Persist)]
    <3>1. script'.seq = script.seq /\ script'.at = script.at + 4 /\ script.at \in Nat
      BY <2>1, <2>3, Skipped DEF Typed, Values, Scripts
    <3>2. script.seq = "rollback" => script.at = 11
      BY <2>1, <2>3, CopiesAt
    <3>3. script.seq = "update" => script.at = 23
      BY <2>1, <2>3, CopiesAt
    <3> QED
      BY <2>1, <3>1, <3>2, <3>3 DEF Quiet, Past
  <2> QED
    BY <1>33, <2>2, <2>3 DEF CopySnapshot
<1>34. CASE Interrupted
  BY <1>34, QuietElsewhere DEF Interrupted, Undo, Leaves, Idle
<1>35. CASE Fails
  BY <1>35, QuietElsewhere DEF Fails, Undo
<1>36. CASE Exit
  BY <1>36, QuietElsewhere DEF Exit, Idle
<1>37. CASE Killed
  BY <1>37, QuietElsewhere DEF Killed, Idle
<1>38. CASE Succeed
  BY <1>38, QuietElsewhere DEF Succeed, Leaves, Idle
<1>39. CASE Verify
  BY <1>39, QuietElsewhere DEF Verify, Undo, Leaves, Idle
<1>40. CASE StepFails
  <2>1. Busy /\ script.seq = "undo"
    BY <1>40, Programs DEF StepFails, Undoing, Busy
  <2>2. Advanced \in Scripts /\ Advanced.seq = "undo"
    BY <2>1, AdvancedTyped
  <2>3. script'.seq = "undo"
    BY <1>40, <2>2 DEF StepFails, Scripts
  <2> QED
    BY <2>3, QuietElsewhere
<1>41. CASE Launch
  <2>1. /\ flags'.dbCaptured = FALSE /\ script'.at = 1
        /\ script'.seq \in {"update", "rollback"}
    BY <1>41 DEF Launch, NoFlags, Idle
  <2> QED
    BY <2>1 DEF Quiet, Past
<1>42. CASE Write
  BY <1>42, QuietBetween DEF Write, shell, Typed, Values, Befores
<1>43. CASE Partly
  BY <1>43, QuietBetween DEF Partly, hist
<1>44. CASE HealthCheckStarts
  <2>1. "health" \in sysd.on /\ UNCHANGED <<sysd, bk, script, flags, before>>
    BY <1>44 DEF HealthCheckStarts, shell, hist
  <2>2. ~Past(2) /\ (Past(3) => Past(2))
    BY <2>1, InOrder DEF Quiet
  <2> QED
    BY <2>1, <2>2, QuietBetween
<1>45. CASE HealthCheckProbes \/ HealthCheckReturns
  <2>1. check.pc # "off" /\ UNCHANGED <<sysd, bk, script, flags, before>>
    BY <1>45 DEF HealthCheckProbes, HealthCheckReturns, shell, hist
  <2>2. ~Past(3)
    BY <2>1 DEF Quiet
  <2> QED
    BY <2>1, <2>2, QuietBetween
<1>46. CASE HealthCheckRecovers
  <2>1. /\ check.pc = "recover" /\ UNCHANGED <<bk, script, flags, before>>
        /\ Launched(sysd) \/ sysd' = sysd \/ sysd' = [sysd EXCEPT !.proc = Restarting]
    BY <1>46 DEF HealthCheckRecovers, shell
  <2>2. ~Past(3) /\ ~Past(6)
    BY <2>1, InOrder DEF Quiet
  <2>3. sysd'.on = sysd.on
    BY <2>1, LaunchedTyped DEF Typed, Values, Sysds
  <2> QED
    BY <2>1, <2>2, <2>3, QuietBetween
<1>47. CASE AutoRestart \/ PanelRestarts
  <2>1. /\ sysd.proc \in {Failing, Restarting}
        /\ UNCHANGED <<check, bk, script, flags, before>>
        /\ Launched(sysd) \/ Stop({"panel"})
    BY <1>47 DEF AutoRestart, PanelRestarts, shell, hist
  <2>2. Past(6) => before.missed
    BY <2>1, Distinct DEF Quiet
  <2>3. sysd'.on = sysd.on
    <3>1. sysd \in Sysds /\ sysd.on \subseteq Units \ {"panel"}
      BY DEF Typed, Values, Sysds
    <3>2. CASE Launched(sysd)
      BY <3>1, <3>2 DEF Launched, Sysds
    <3>3. CASE Stop({"panel"})
      <4>1. sysd'.on = sysd.on \ {"panel"}
        BY <3>1, <3>3 DEF Stop, Sysds
      <4> QED
        BY <3>1, <4>1
    <3> QED
      BY <2>1, <3>2, <3>3
  <2> QED
    BY <2>1, <2>2, <2>3, QuietBetween
<1>48. CASE BackupTimerFires
  <2>1. "backup" \in sysd.on /\ UNCHANGED <<sysd, check, script, flags, before>>
    BY <1>48 DEF BackupTimerFires, shell, hist
  <2>2. ~Past(4) /\ ~Past(5)
    BY <2>1, InOrder DEF Quiet
  <2> QED
    BY <2>1, <2>2, QuietBetween
<1>49. CASE BackupRuns
  <2>1. bk /\ UNCHANGED <<check, script, flags, before>> /\ StartPanel(sysd)
    BY <1>49 DEF BackupRuns, shell
  <2>2. ~Past(5) /\ ~Past(6)
    BY <2>1, InOrder DEF Quiet
  <2>3. sysd'.on = sysd.on
    BY <2>1, StartTyped DEF Typed, Values
  <2> QED
    BY <2>1, <2>2, <2>3, QuietBetween
<1> QED
  BY <1>1, <1>2, <1>3, <1>4, <1>5, <1>6, <1>7, <1>8, <1>9, <1>10, <1>11, <1>12, <1>13,
     <1>14, <1>15, <1>16, <1>17, <1>18, <1>19, <1>20, <1>21, <1>22, <1>23, <1>24, <1>25,
     <1>26, <1>27, <1>28, <1>29, <1>30, <1>31, <1>32, <1>33, <1>34, <1>35, <1>36, <1>37,
     <1>38, <1>39, <1>40, <1>41, <1>42, <1>43, <1>44, <1>45, <1>46, <1>47, <1>48, <1>49, <1>50
  DEF Next

-----------------------------------------------------------------------------
(* The snapshot that latest names.                                         *)

\* What leaves the snapshots alone leaves the one that latest names.
LEMMA StoredSame ==
  ASSUME Stored, vault'.store = vault.store, vault'.latest = vault.latest,
         Step' \in {"sumSnapshot", "nameLatest", "rotate"} => Step' = Step
  PROVE  Stored'
BY DEF Stored, LatestUsable, Last

\* A step of the script that is none of those of the snapshot.
LEMMA StoredForward ==
  ASSUME Typed, Stored, Busy, Advance \/ Reports,
         vault'.store = vault.store, vault'.latest = vault.latest,
         Step \notin {"copySnapshot", "sumSnapshot", "nameLatest"}
  PROVE  Stored'
BY StepBefore, StoredSame

\* A rollback that begins and a script that ends leave them alone.
LEMMA StoredElsewhere ==
  ASSUME Stored, vault'.store = vault.store, vault'.latest = vault.latest,
         (script'.seq = "undo" /\ script'.at = 1) \/ script'.seq \in {"none", "exit"}
  PROVE  Stored'
<1>1. CASE script'.seq = "undo" /\ script'.at = 1
  <2>1. Step' = "stopHealthTimer"
    BY <1>1, UndoAt, Programs DEF Step, Busy
  <2> QED
    BY <2>1, StoredSame
<1>2. CASE script'.seq \in {"none", "exit"}
  <2>1. Step' = "none"
    BY <1>2, Programs DEF Step, Busy
  <2> QED
    BY <2>1, StoredSame
<1> QED
  BY <1>1, <1>2

\* The copy of a snapshot comes after the one that latest names.
LEMMA CopyStored == ASSUME Typed, Stored, CopySnapshot PROVE Stored'
<1>1. Busy /\ Step = "copySnapshot" /\ vault.store \in Seq(Snapshots)
  BY DEF CopySnapshot, At, Step, Typed, Values, Vaults
<1>2. CASE script' = [script EXCEPT !.at = @ + Len(Persist)] /\ UNCHANGED vault
  <2>1. Step' \in {"succeed", "switch"}
    BY <1>1, <1>2, Skipped
  <2> QED
    BY <1>2, <2>1, StoredSame
<1>3. ASSUME NEW e \in Snapshots, Advance, vault' = [vault EXCEPT !.store = Append(@, e)]
      PROVE  Stored'
  <2>1. vault'.store = Append(vault.store, e) /\ vault'.latest = vault.latest
    BY <1>3 DEF Typed, Values, Vaults
  <2>2. /\ Len(vault'.store) = Len(vault.store) + 1 /\ Len(vault.store) \in Nat
        /\ \A i \in 1 .. Len(vault.store) : vault'.store[i] = vault.store[i]
    BY <1>1, <2>1, Appended
  <2>3. Step' \notin {"nameLatest", "rotate"}
    BY <1>1, <1>3, StepBefore
  <2>4. LatestUsable'
    <3>1. SUFFICES ASSUME vault.latest # 0
                   PROVE  \E i \in DOMAIN vault'.store :
                            vault'.store[i].id = vault.latest /\ vault'.store[i].whole
      BY <2>1 DEF LatestUsable
    <3>2. PICK i \in DOMAIN vault.store : vault.store[i].id = vault.latest /\ vault.store[i].whole
      BY <3>1 DEF Stored, LatestUsable
    <3>3. i \in 1 .. Len(vault.store)
      BY <1>1, <3>2
    <3>4. i \in DOMAIN vault'.store
      BY <1>1, <2>1, <2>2, <3>3, Appended
    <3> QED
      BY <2>2, <3>2, <3>3, <3>4
  <2> QED
    BY <2>2, <2>3, <2>4 DEF Stored
<1>4. [id |-> count.made + 1, whole |-> FALSE, tree |-> dirs.rb, was |-> was,
       dbSaved |-> flags.dbSaved] \in Snapshots
  BY DEF Typed, Values, Counts, Dirs, FlagSets, Snapshots
<1> QED
  BY <1>2, <1>3, <1>4 DEF CopySnapshot

\* Checksums make the last snapshot usable and none unusable.
LEMMA SumStored == ASSUME Typed, Stored, SumSnapshot PROVE Stored'
<1>1. /\ Busy /\ Advance /\ Step = "sumSnapshot"
  BY DEF SumSnapshot, At, Step
<1> DEFINE s == vault.store
           n == Len(s)
           e == [s[n] EXCEPT !.whole = TRUE]
<1>2. s \in Seq(Snapshots) /\ n \in 1 .. n /\ s[n] \in Snapshots
  BY <1>1 DEF Stored, Typed, Values, Vaults
<1>3. e \in Snapshots /\ e.whole /\ e.id = s[n].id
  BY <1>2 DEF Snapshots
<1>4. vault'.store = [s EXCEPT ![n] = e] /\ vault'.latest = vault.latest
  BY DEF SumSnapshot, Typed, Values, Vaults
<1>5. /\ Len(vault'.store) = n /\ vault'.store \in Seq(Snapshots)
      /\ \A i \in 1 .. n : vault'.store[i] = IF i = n THEN e ELSE s[i]
  BY <1>2, <1>3, <1>4, ExceptSeq
<1>6. Last(vault'.store).whole
  BY <1>2, <1>3, <1>5 DEF Last
<1>7. LatestUsable'
  <2>1. SUFFICES ASSUME vault.latest # 0
                 PROVE  \E i \in DOMAIN vault'.store :
                          vault'.store[i].id = vault.latest /\ vault'.store[i].whole
    BY <1>4 DEF LatestUsable
  <2>2. PICK i \in DOMAIN s : s[i].id = vault.latest /\ s[i].whole
    BY <2>1 DEF Stored, LatestUsable
  <2>3. i \in 1 .. n /\ i \in DOMAIN vault'.store
    BY <1>2, <1>5, <2>2
  <2> QED
    BY <1>3, <1>5, <2>2, <2>3
<1>8. Step' # "rotate"
  BY <1>1, StepBefore
<1> QED
  BY <1>2, <1>5, <1>6, <1>7, <1>8 DEF Stored

\* latest goes to a snapshot that has its checksums.
LEMMA NameStored == ASSUME Typed, Stored, NameLatest PROVE Stored'
<1>1. Busy /\ Advance /\ Step = "nameLatest"
  BY DEF NameLatest, At, Step
<1>2. vault'.store = vault.store /\ vault'.latest = Last(vault.store).id
  BY DEF NameLatest, Typed, Values, Vaults
<1>3. /\ Len(vault.store) >= 1 /\ Last(vault.store).whole
      /\ Len(vault.store) \in DOMAIN vault.store
  BY <1>1 DEF Stored, Typed, Values, Vaults
<1>4. LatestUsable'
  BY <1>2, <1>3 DEF LatestUsable, Last
<1> QED
  BY <1>2, <1>3, <1>4 DEF Stored, Last

\* Rotation keeps the last snapshot, which is the one that latest names.
LEMMA RotateStored == ASSUME Typed, Stored, Rotate PROVE Stored'
<1>1. Busy /\ Advance /\ Step = "rotate"
  BY DEF Rotate, At, Step
<1>2. /\ Len(vault.store) >= 1 /\ Last(vault.store).whole
      /\ vault.latest = Last(vault.store).id
  BY <1>1 DEF Stored
<1>3. /\ vault' \in Vaults /\ vault'.latest = vault.latest
      /\ Len(vault'.store) >= 1 /\ Last(vault'.store) = Last(vault.store)
  BY <1>2, Rotated
<1>4. Step' \notin {"sumSnapshot", "nameLatest", "rotate"}
  BY <1>1, StepBefore
<1>5. Len(vault'.store) \in DOMAIN vault'.store
  BY <1>3 DEF Vaults
<1>6. LatestUsable'
  BY <1>2, <1>3, <1>5 DEF LatestUsable, Last
<1> QED
  BY <1>4, <1>6 DEF Stored

\* Whatever happens, latest names a usable snapshot or none.
LEMMA StoredInv == ASSUME Typed, Stored, Next PROVE Stored'
<1>1. CASE EnsureCaddy
  BY <1>1, StoredForward DEF EnsureCaddy, At, Step, shell
<1>2. CASE Capture
  BY <1>2, StoredForward DEF Capture, At, Step, shell
<1>3. CASE StopUnit
  BY <1>3, StoredForward DEF StopUnit, At, Step, shell, Stopping
<1>4. CASE StopHealthCheck
  BY <1>4, StoredForward DEF StopHealthCheck, At, Step, shell
<1>5. CASE StopBackup
  BY <1>5, StoredForward DEF StopBackup, At, Step, shell
<1>6. CASE SaveDb
  BY <1>6, StoredForward DEF SaveDb, At, Step, shell
<1>7. CASE PrepareState
  BY <1>7, StoredForward DEF PrepareState, At, Step, shell
<1>8. CASE SaveCode
  BY <1>8, StoredForward DEF SaveCode, At, Step, shell
<1>9. CASE ClearCode
  BY <1>9, StoredForward DEF ClearCode, At, Step, shell
<1>10. CASE Install
  BY <1>10, StoredForward DEF Install, At, Step, shell
<1>11. CASE Migrate
  BY <1>11, StoredForward DEF Migrate, At, Step, shell
<1>12. CASE WriteConf
  BY <1>12, StoredForward DEF WriteConf, At, Step, shell
<1>13. CASE StartService
  BY <1>13, StoredForward DEF StartService, At, Step, shell
<1>14. CASE WaitForBackend
  BY <1>14, StoredForward DEF WaitForBackend, At, Step, shell
<1>15. CASE StartUnit
  BY <1>15, StoredForward DEF StartUnit, At, Step, shell
<1>16. CASE StartHealthCheck
  BY <1>16, StoredForward DEF StartHealthCheck, At, Step, shell
<1>17. CASE HealthCheckEnds
  BY <1>17, StoredForward DEF HealthCheckEnds, At, Step, shell
<1>18. CASE Switch
  BY <1>18, StoredForward DEF Switch, At, Step, shell
<1>19. CASE LoadMetadata
  BY <1>19, StoredForward DEF LoadMetadata, At, Step, shell
<1>20. CASE Disable
  BY <1>20, StoredForward DEF Disable, At, Step, shell
<1>21. CASE WipeCode
  BY <1>21, StoredForward DEF WipeCode, At, Step, shell
<1>22. CASE CopyCode
  BY <1>22, StoredForward DEF CopyCode, At, Step, shell
<1>23. CASE WipeDb
  BY <1>23, StoredForward DEF WipeDb, At, Step, shell
<1>24. CASE CopyDb
  BY <1>24, StoredForward DEF CopyDb, At, Step, shell
<1>25. CASE RestoreFiles
  BY <1>25, StoredForward DEF RestoreFiles, At, Step, shell
<1>26. CASE Enable
  BY <1>26, RestoresReport, StoredForward DEF Enable, shell
<1>27. CASE RestorePanel
  BY <1>27, RestoresReport, StoredForward DEF RestorePanel, shell
<1>28. CASE RestoreUnits
  BY <1>28, RestoresReport, StoredForward DEF RestoreUnits, shell
<1>29. CASE WriteSite
  <2>1. Busy /\ Step = "writeSite" /\ vault' = vault
    BY <1>29 DEF WriteSite, At, Step, shell
  <2>2. CASE Advance
    BY <2>1, <2>2, StoredForward
  <2>3. CASE script' = Undo("fail")
    BY <2>1, <2>3, StoredElsewhere DEF Undo
  <2> QED
    BY <1>29, <2>2, <2>3 DEF WriteSite
<1>30. CASE CopySnapshot
  BY <1>30, CopyStored
<1>31. CASE SumSnapshot
  BY <1>31, SumStored
<1>32. CASE NameLatest
  BY <1>32, NameStored
<1>33. CASE Rotate
  BY <1>33, RotateStored
<1>34. CASE Interrupted
  BY <1>34, StoredElsewhere DEF Interrupted, Undo, Leaves, Idle, shell
<1>35. CASE Fails
  BY <1>35, StoredElsewhere DEF Fails, Undo, shell
<1>36. CASE Succeed
  BY <1>36, StoredElsewhere DEF Succeed, Leaves, Idle
<1>37. CASE Verify
  BY <1>37, StoredElsewhere DEF Verify, Undo, Leaves, Idle
<1>38. CASE Exit
  <2>1. vault'.store = vault.store /\ vault'.latest = vault.latest /\ script' = Idle
    BY <1>38 DEF Exit, Typed, Values, Vaults
  <2> QED
    BY <2>1, StoredElsewhere DEF Idle
<1>39. CASE Killed
  <2>1. vault'.store = vault.store /\ vault'.latest = vault.latest /\ script' = Idle
    BY <1>39 DEF Killed, Typed, Values, Vaults
  <2> QED
    BY <2>1, StoredElsewhere DEF Idle
<1>40. CASE StepFails
  <2>1. Busy /\ script.seq = "undo" /\ vault' = vault
    BY <1>40, Programs DEF StepFails, Undoing, Busy, shell
  <2>2. /\ Advanced \in Scripts /\ Advanced.seq = "undo"
        /\ Advanced.at \in 1 .. Len(Program["undo"])
    BY <2>1, AdvancedTyped
  <2>3. script'.seq = "undo" /\ script'.at \in 1 .. Len(Program["undo"])
    BY <1>40, <2>2 DEF StepFails, Scripts
  <2>4. Program["undo"][script'.at] \notin {"sumSnapshot", "nameLatest", "rotate"}
    BY <2>3, UndoAt
  <2>5. Step' \notin {"sumSnapshot", "nameLatest", "rotate"}
    BY <2>3, <2>4, Programs DEF Step, Busy
  <2> QED
    BY <2>1, <2>5, StoredSame
<1>41. CASE Launch
  <2>1. /\ vault' = vault /\ script'.at = 1
        /\ script'.seq \in {"update", "rollback"}
    BY <1>41 DEF Launch, Idle
  <2>2. Step' \in {"ensureCaddy", "capture"}
    BY <2>1, UpdateAt, RollbackAt, Programs DEF Step, Busy
  <2> QED
    BY <2>1, <2>2, StoredSame
<1>42. CASE Partly
  <2>1. UNCHANGED script /\ Step' = Step
    BY <1>42 DEF Partly, Step, Busy
  <2>2. CASE UNCHANGED vault
    BY <2>1, <2>2, StoredSame
  <2>3. CASE At("nameLatest") /\ vault' = [vault EXCEPT !.latest = 0]
    <3>1. vault'.store = vault.store /\ vault'.latest = 0 /\ Step' = "nameLatest"
      BY <2>1, <2>3 DEF At, Typed, Values, Vaults
    <3> QED
      BY <2>1, <3>1 DEF Stored, LatestUsable, Last
  <2> QED
    BY <1>42, <2>2, <2>3 DEF Partly
<1>43. CASE Write
  BY <1>43, StoredSame DEF Write, shell, Step, Busy
<1>44. CASE HealthCheckStarts
  BY <1>44, StoredSame DEF HealthCheckStarts, shell, Step, Busy
<1>45. CASE HealthCheckProbes
  BY <1>45, StoredSame DEF HealthCheckProbes, shell, Step, Busy
<1>46. CASE HealthCheckRecovers
  BY <1>46, StoredSame DEF HealthCheckRecovers, shell, Step, Busy
<1>47. CASE AutoRestart
  BY <1>47, StoredSame DEF AutoRestart, shell, Step, Busy
<1>48. CASE BackupTimerFires
  BY <1>48, StoredSame DEF BackupTimerFires, shell, Step, Busy
<1>49. CASE BackupRuns
  BY <1>49, StoredSame DEF BackupRuns, shell, Step, Busy
<1>50. CASE MissPanel
  BY <1>50, StoredForward DEF MissPanel, Asks, At, Step, shell
<1>51. CASE PanelRestarts
  BY <1>51, StoredSame DEF PanelRestarts, shell, Step, Busy
<1>52. CASE HealthCheckReturns
  BY <1>52, StoredSame DEF HealthCheckReturns, shell, Step, Busy
<1> QED
  BY <1>1, <1>2, <1>3, <1>4, <1>5, <1>6, <1>7, <1>8, <1>9, <1>10, <1>11, <1>12, <1>13,
     <1>14, <1>15, <1>16, <1>17, <1>18, <1>19, <1>20, <1>21, <1>22, <1>23, <1>24, <1>25,
     <1>26, <1>27, <1>28, <1>29, <1>30, <1>31, <1>32, <1>33, <1>34, <1>35, <1>36, <1>37,
     <1>38, <1>39, <1>40, <1>41, <1>42, <1>43, <1>44, <1>45, <1>46, <1>47, <1>48, <1>49,
     <1>50, <1>51, <1>52
  DEF Next

-----------------------------------------------------------------------------
(* The theorems.                                                           *)

\* What holds at every step of the script.
Inv == Typed /\ Quiet /\ Stored

\* The model begins in the invariant: no script runs and no snapshot is kept.
LEMMA InitInv == Init => Inv
<1> SUFFICES ASSUME Init PROVE Inv
  OBVIOUS
<1>1. Typed
  BY InitTyped
<1>2. script.seq = "none" /\ vault.latest = 0
  BY DEF Init, Idle
<1>3. Quiet
  BY <1>2 DEF Quiet, Past
<1>4. Step = "none"
  BY <1>2, Programs DEF Step, Busy
<1>5. Stored
  BY <1>2, <1>4 DEF Stored, LatestUsable
<1> QED
  BY <1>1, <1>3, <1>5 DEF Inv

\* Every step keeps it.
LEMMA NextInv == ASSUME Inv, [Next]_vars PROVE Inv'
<1>1. CASE Next
  <2>1. Typed /\ Quiet /\ Stored
    BY DEF Inv
  <2>2. Values'
    BY <1>1, <2>1, UnitsValues, EndsValues, CutoverValues, InstallValues, UndoValues
    DEF Next
  <2>3. Places'
    BY <1>1, <2>1, PlacesInv
  <2>4. Quiet' /\ Stored'
    BY <1>1, <2>1, QuietInv, StoredInv
  <2> QED
    BY <2>2, <2>3, <2>4 DEF Inv, Typed, Places
<1>2. CASE UNCHANGED vars
  BY <1>2 DEF vars, Inv, Typed, Values, Quiet, Past, Stored, LatestUsable, Last, At, Step, Busy
<1> QED
  BY <1>1, <1>2

\* So it holds in every state.
LEMMA Invariance == Spec => []Inv
<1>1. Inv /\ [Next]_vars => Inv'
  BY NextInv
<1> QED
  BY InitInv, <1>1, PTL DEF Spec

\* The types of the proof are at least those of TypeOK.
LEMMA TypedIsTypeOK == ASSUME Typed PROVE TypeOK
<1>1. Content(disk) \in Content4
  BY ContentTyped DEF Typed, Values
<1>2. \A t \in Content4 : TreeOK(t)
  BY DEF Content4, TreeOK, Files, Trees
<1>3. disk.marker \in BOOLEAN /\ disk.data \in BOOLEAN
  BY DEF Typed, Values, Disks
<1>4. /\ sysd.proc \in Releases \cup {None, Failing, Restarting}
      /\ sysd.enabled \subseteq Units /\ sysd.on \subseteq Units \ {"panel"}
      /\ sysd.caddy \in BOOLEAN
  BY DEF Typed, Values, Sysds
<1>5. script.seq \in {"none", "exit"} \cup DOMAIN Program
  BY Programs DEF Typed, Values, Scripts
<1>6. Busy => script.at \in DOMAIN Program[script.seq]
  <2>1. ASSUME script.seq = "update" PROVE DOMAIN Program["update"] = 1 .. Len(Program["update"])
    BY DEF Program, Cutover, Persist
  <2>2. ASSUME script.seq = "rollback"
        PROVE  DOMAIN Program["rollback"] = 1 .. Len(Program["rollback"])
    BY DEF Program, Cutover, Persist
  <2>3. ASSUME script.seq = "undo" PROVE DOMAIN Program["undo"] = 1 .. Len(Program["undo"])
    BY DEF Program
  <2> QED
    BY <2>1, <2>2, <2>3, Programs DEF Typed, Busy
<1>7. TreeOK(dirs.rb) /\ TreeOK(dirs.cur)
  BY <1>2 DEF Typed, Values, Dirs
<1>8. \A t \in vault.left : TreeOK(t)
  BY <1>2 DEF Typed, Values, Vaults
<1> QED
  BY <1>1, <1>2, <1>3, <1>4, <1>5, <1>6, <1>7, <1>8 DEF TypeOK, Typed, Values, Checks, Wases

\* Whatever fails, is interrupted or killed, in any number of scripts: every variable of
\* the deployment keeps its type, and a step that reads a release finds one.
THEOREM TypeCorrect == Spec => []TypeOK
<1>1. Inv => TypeOK
  BY TypedIsTypeOK DEF Inv
<1> QED
  BY Invariance, <1>1, PTL

\* A panel that was running or stopped when the cutover looked is down between the copy
\* of the database and the start of the new release: no timer, service or restart brings
\* it up (deploy.sh:781-785). One between two states the cutover misses.
THEOREM PanelDown == Spec => []PanelStaysDown
<1>1. Inv => PanelStaysDown
  BY QuietIsDown DEF Inv
<1> QED
  BY Invariance, <1>1, PTL

\* The snapshot that the file latest names is there and passes its checksums, through
\* failures and kills in the middle of its making and through rotation.
THEOREM RollbackFindsSnapshot == Spec => []LatestUsable
<1>1. Inv => LatestUsable
  BY DEF Inv, Stored
<1> QED
  BY Invariance, <1>1, PTL
-----------------------------------------------------------------------------
(* The release and the database that went into service last are kept.      *)

\* The cutover is past its step k.
After(k) ==
  \/ script.seq = "rollback" /\ script.at > k
  \/ script.seq = "update" /\ script.at > k + 1

\* What the place of a script says of its variables and of the disk.
Placed ==
  /\ script.seq \in {"update", "rollback"} =>
       (flags.dbCaptured <=> After(7)) /\ (flags.codeSaved <=> After(9))
  /\ script.seq = "update" /\ script.at > 12 => disk.code = New
  /\ script.seq = "rollback" /\ script.at > 10 => disk.code = None
  /\ Busy => /\ flags.codeSaved \/ flags.dbSaved => flags.dbCaptured
             /\ ~flags.succeeded
  /\ script.seq \in {"none", "update"} \/ (script.seq = "rollback" /\ script.at <= 15) =>
       dirs.cur = Empty

\* A tree that n runs may have left: run k installs release k + 1.
Until(d, n) ==
  /\ d.code \in Releases => d.code <= n + 1
  /\ d.db \notin {None, Torn} => d.db.born <= n
\* The scripts that have ended.
Runs == IF Busy THEN count.runs - 1 ELSE count.runs
Aged ==
  /\ Until(good, Runs)
  /\ Until(disk, count.runs) /\ Until(dirs.rb, count.runs)
  /\ script.seq = "rollback" => Until(dirs.sel.tree, count.runs)
  /\ \A i \in DOMAIN vault.store : Until(vault.store[i].tree, count.runs)

\* An empty directory has what a host without the panel has.
EmptyLeft ==
  \/ Empty \in vault.left
  \/ dirs.cur = Empty /\ script.seq # "rollback" /\ (script = Idle => vault.store = << >>)

\* GoodDb of any release and database.
Started(g) == [g.db EXCEPT !.schema = IF @ < Schema[g.code] THEN Schema[g.code] ELSE @]
\* The database in service, with every write since, or as its release has migrated it.
GoodOf(g, db) ==
  \/ Holds(db, g.db)
  \/ g.code \in Releases /\ g.db \notin {None, Torn} /\ Holds(db, Started(g))

\* The database is in a directory that stays; or the script has saved it; or it is not
\* saved yet and installed, with no other release that could migrate it.
Aside == \E u \in vault.left \cup {dirs.cur} : GoodOf(good, u.db)
Saved == script # Idle /\ flags.dbCaptured /\ ~flags.succeeded /\ GoodOf(good, dirs.rb.db)
Served == /\ ~(Busy /\ flags.dbCaptured) /\ GoodOf(good, disk.db)
          /\ disk.code \in Releases => disk.code = good.code
DbKept == Aside \/ Saved \/ Served

\* So is the code.
CodeAside == \E u \in vault.left \cup {dirs.cur} : u.code = good.code
CodeSaved == /\ script # Idle /\ flags.codeSaved /\ ~flags.succeeded
             /\ dirs.rb.code = good.code
CodeServed == ~(Busy /\ flags.codeSaved) /\ disk.code = good.code
CodeKept == CodeAside \/ CodeSaved \/ CodeServed

\* A database that appears after the script found none is not the one to be kept.
NewDb ==
  Past(1) /\ ~flags.dbPresent /\ ~flags.dbCaptured =>
    Aside /\ (disk.db \notin {None, Torn} => disk.db.born = count.runs)

\* What is in service is kept, with what the steps need to keep it.
Keeps == Placed /\ Aged /\ EmptyLeft /\ DbKept /\ CodeKept /\ NewDb

\* What stands for no release is none.
LEMMA Outside ==
  /\ None # Torn /\ Failing # None /\ Restarting # None
  /\ None \notin Releases /\ Torn \notin Releases
  /\ Failing \notin Releases /\ Restarting \notin Releases
BY DeploymentAssumption

\* The databases there can be.
Dbs == [schema : Nat, born : 0..MaxRuns, writes : 0..MaxWrites]

\* No database is None or Torn, and there are no other values.
LEMMA NoDbs == None \notin Dbs /\ Torn \notin Dbs /\ DbValues = Dbs \cup {None, Torn}
<1>1. Dbs \subseteq [schema : Nat, born : Nat, writes : Nat]
  BY DeploymentAssumption DEF Dbs
<1> QED
  BY <1>1, DeploymentAssumption DEF DbValues, Dbs

\* Every release has a schema.
LEMMA SchemaType == \A r \in Releases : Schema[r] \in Nat
<1>1. Schema \in Seq(Nat)
  BY DeploymentAssumption
<1> QED
  BY <1>1, ElementOfSeq, ReleaseTypes

\* What the release's start makes of a database.
LEMMA StartedType ==
  ASSUME NEW g \in Goods, g.code \in Releases, g.db \notin {None, Torn}
  PROVE  /\ g.db \in Dbs /\ Started(g) \in Dbs
         /\ Started(g).born = g.db.born /\ Started(g).writes = g.db.writes
         /\ Started(g).schema = IF g.db.schema < Schema[g.code] THEN Schema[g.code] ELSE g.db.schema
<1>1. g.db \in Dbs /\ Schema[g.code] \in Nat
  BY SchemaType, NoDbs DEF Goods
<1> QED
  BY <1>1 DEF Started, Dbs

\* A database has what itself has.
LEMMA GoodItself == ASSUME NEW g PROVE GoodOf(g, g.db)
BY DEF GoodOf, Holds

\* Only a host without a database has lost nothing when there is none.
LEMMA GoodNone ==
  ASSUME NEW g \in Goods, GoodOf(g, None)
  PROVE  g.db = None
BY NoDbs, StartedType DEF GoodOf, Holds

\* The release's own start leaves it its database.
LEMMA GoodStarted ==
  ASSUME NEW g \in Goods, NEW db \in DbValues, GoodOf(g, db), g.code \in Releases, g.db # None
  PROVE  GoodOf(g, Migrated(db, g.code))
<1>1. Schema[g.code] \in Nat
  BY SchemaType
<1>2. CASE db = Torn
  BY <1>2, Outside DEF Migrated
<1>3. CASE db = None
  BY <1>3, GoodNone
<1>4. CASE db \notin {None, Torn}
  <2>1. db \in Dbs
    BY <1>4, NoDbs
  <2>2. g.db \notin {None, Torn}
    BY <1>4 DEF GoodOf, Holds
  <2>3. /\ g.db \in Dbs /\ Started(g) \in Dbs /\ Started(g) \notin {None, Torn}
        /\ Started(g).born = g.db.born /\ Started(g).writes = g.db.writes
        /\ Started(g).schema = IF g.db.schema < Schema[g.code] THEN Schema[g.code] ELSE g.db.schema
    BY <2>2, StartedType, NoDbs
  <2>4. /\ db.schema \in {g.db.schema, Started(g).schema} /\ db.born = g.db.born
        /\ db.writes >= g.db.writes
    BY <2>1, <2>3 DEF GoodOf, Holds, Dbs
  <2>5. PICK e \in {Migrated(db, g.code)} :
          e = [db EXCEPT !.schema = IF @ < Schema[g.code] THEN Schema[g.code] ELSE @]
    BY <1>4 DEF Migrated
  <2>6. /\ e \in Dbs /\ e.born = db.born /\ e.writes = db.writes
        /\ e.schema = IF db.schema < Schema[g.code] THEN Schema[g.code] ELSE db.schema
    BY <1>1, <2>1, <2>5 DEF Dbs
  <2>7. e.schema = Started(g).schema
    BY <1>1, <2>1, <2>3, <2>4, <2>6 DEF Dbs
  <2>8. e \notin {None, Torn} /\ e.writes >= Started(g).writes
    BY <2>3, <2>4, <2>6, NoDbs
  <2>9. Holds(e, Started(g))
    BY <2>3, <2>4, <2>6, <2>7, <2>8 DEF Holds
  <2> QED
    BY <2>2, <2>5, <2>9 DEF GoodOf
<1> QED
  BY <1>2, <1>3, <1>4

-----------------------------------------------------------------------------
(* How a step of the script moves it, and what the variables keep.         *)

\* The steps at which the invariant changes what it says.
Marks == {"capture", "saveDb", "saveCode", "clear", "install", "switch"}

\* The script goes on, turns to its rollback or ends.
Goes ==
  /\ Busy' => Busy
  /\ script' = Idle <=> script = Idle
  /\ script'.seq \in {script.seq, "undo", "exit"}
  /\ Past(1)' => Past(1)

\* And passes none of the marks.
Unmarked ==
  script'.seq \in {"update", "rollback"} =>
    /\ After(7)' <=> After(7)
    /\ After(9)' <=> After(9)
    /\ script'.seq = "update" /\ script'.at > 12 => script.at > 12
    /\ script'.seq = "rollback" => (script'.at > 10 <=> script.at > 10)
                                     /\ (script'.at <= 15 => script.at <= 15)

\* What such a step leaves as it was.
Stays ==
  /\ flags'.dbPresent = flags.dbPresent /\ flags'.dbCaptured = flags.dbCaptured
  /\ flags'.codeSaved = flags.codeSaved /\ flags'.succeeded = flags.succeeded
  /\ flags'.dbSaved => flags.dbSaved \/ flags.dbCaptured
  /\ UNCHANGED <<dirs, good>> /\ count'.runs = count.runs
  /\ vault'.left = vault.left /\ (script = Idle => vault'.store = vault.store)
  /\ \A i \in DOMAIN vault'.store : Until(vault'.store[i].tree, count.runs)

\* A script that runs is not the idle one.
LEMMA BusyNotIdle == (Busy => script # Idle) /\ (script.seq = "exit" => script # Idle)
BY Programs DEF Busy, Idle

\* The marks are where Placed counts them.
LEMMA MarksAt ==
  ASSUME Typed, Busy, script.seq # "undo"
  PROVE  /\ Step = "capture" <=> In(1)
         /\ Step = "saveDb" <=> In(7)
         /\ Step = "saveCode" <=> In(9)
         /\ Step = "clear" <=> In(10)
         /\ Step = "install" <=> (script.seq = "update" /\ script.at = 12)
         /\ Step = "switch" <=> (script.seq = "rollback" /\ script.at = 15)
<1>1. /\ script.at \in 1 .. Len(Program[script.seq])
      /\ Step = Program[script.seq][script.at]
  BY DEF Typed, Step
<1>2. CASE script.seq = "rollback"
  <2>1. script.at \in 1 .. 16 /\ Step = Program["rollback"][script.at]
    BY <1>1, <1>2, RollbackAt
  <2>2. \A k \in Nat : In(k) <=> script.at = k
    BY <1>2 DEF In
  <2>3. /\ Step = "capture" <=> script.at = 1
        /\ Step = "saveDb" <=> script.at = 7
        /\ Step = "saveCode" <=> script.at = 9
        /\ Step = "clear" <=> script.at = 10
        /\ Step = "switch" <=> script.at = 15
        /\ Step # "install"
    BY <2>1, RollbackAt
  <2> QED
    BY <1>2, <2>2, <2>3
<1>3. CASE script.seq = "update"
  <2>1. script.at \in 1 .. 27 /\ Step = Program["update"][script.at]
    BY <1>1, <1>3, UpdateAt
  <2>2. \A k \in Nat : In(k) <=> script.at = k + 1
    BY <1>3 DEF In
  <2>3. /\ Step = "capture" <=> script.at = 2
        /\ Step = "saveDb" <=> script.at = 8
        /\ Step = "saveCode" <=> script.at = 10
        /\ Step = "clear" <=> script.at = 11
        /\ Step = "install" <=> script.at = 12
        /\ Step # "switch"
    BY <2>1, UpdateAt
  <2> QED
    BY <1>3, <2>2, <2>3
<1> QED
  BY <1>2, <1>3, Programs DEF Busy

\* The rollback after a failure alone puts trees back.
LEMMA UndoesAt ==
  ASSUME Typed, Busy, Step \in {"wipeCode", "copyCode", "wipeDb", "copyDb", "verify"}
  PROVE  script.seq = "undo"
<1>1. /\ script.at \in 1 .. Len(Program[script.seq])
      /\ Step = Program[script.seq][script.at]
  BY DEF Typed, Step
<1>2. ASSUME script.seq = "rollback" PROVE FALSE
  <2>1. script.at \in 1 .. 16 /\ Step = Program["rollback"][script.at]
    BY <1>1, <1>2, RollbackAt
  <2> QED
    BY <2>1, RollbackAt
<1>3. ASSUME script.seq = "update" PROVE FALSE
  <2>1. script.at \in 1 .. 27 /\ Step = Program["update"][script.at]
    BY <1>1, <1>3, UpdateAt
  <2> QED
    BY <2>1, UpdateAt
<1> QED
  BY <1>2, <1>3, Programs DEF Busy

\* It has none of the marks.
LEMMA UndoUnmarked == ASSUME Typed, Busy, script.seq = "undo" PROVE Step \notin Marks
<1>1. script.at \in 1 .. 17 /\ Step = Program["undo"][script.at]
  BY UndoAt DEF Typed, Step
<1> QED
  BY <1>1, UndoAt DEF Marks

\* The load is the last step of the delayed rollback, the end that of the update, and
\* the migration comes after the installation.
LEMMA LateAt ==
  ASSUME Typed, Busy
  PROVE  /\ Step = "load" => script.seq = "rollback" /\ script.at = 16
         /\ Step = "succeed" => script.seq = "update" /\ script.at = 27
         /\ Step = "migrate" => script.seq = "update" /\ script.at = 13
<1>1. /\ script.at \in 1 .. Len(Program[script.seq])
      /\ Step = Program[script.seq][script.at]
  BY DEF Typed, Step
<1>2. CASE script.seq = "rollback"
  <2>1. script.at \in 1 .. 16 /\ Step = Program["rollback"][script.at]
    BY <1>1, <1>2, RollbackAt
  <2> QED
    BY <1>2, <2>1, RollbackAt
<1>3. CASE script.seq = "update"
  <2>1. script.at \in 1 .. 27 /\ Step = Program["update"][script.at]
    BY <1>1, <1>3, UpdateAt
  <2> QED
    BY <1>3, <2>1, UpdateAt
<1>4. CASE script.seq = "undo"
  <2>1. script.at \in 1 .. 17 /\ Step = Program["undo"][script.at]
    BY <1>1, <1>4, UndoAt
  <2> QED
    BY <2>1, UndoAt
<1> QED
  BY <1>2, <1>3, <1>4, Programs DEF Busy

\* Every step of the script goes on; if it is no mark, past none.
LEMMA AdvanceGoes ==
  ASSUME Typed, Busy, Advance \/ Reports, Step # "capture"
  PROVE  Goes /\ (Step \notin Marks => Unmarked)
<1>1. Busy' /\ script # Idle /\ script' # Idle
  BY Advances, BusyNotIdle DEF Busy, Idle, Programs
<1>2. CASE script'.seq = "undo"
  BY <1>1, <1>2 DEF Goes, Unmarked, Past
<1>3. CASE script'.seq = script.seq /\ script'.at = script.at + 1 /\ script.seq # "undo"
  <2>1. script.at \in Nat
    BY DEF Typed, Values, Scripts
  <2>2. ~In(1)
    BY <1>3, MarksAt
  <2>3. Past(1)' => Past(1)
    BY <1>3, <2>1, <2>2 DEF Past, In
  <2>4. ASSUME Step \notin Marks PROVE Unmarked
    <3>1. /\ ~In(7) /\ ~In(9) /\ ~In(10)
          /\ ~(script.seq = "update" /\ script.at = 12)
          /\ ~(script.seq = "rollback" /\ script.at = 15)
      BY <1>3, <2>4, MarksAt DEF Marks
    <3> QED
      BY <1>3, <2>1, <3>1 DEF Unmarked, After, In
  <2> QED
    BY <1>1, <1>3, <2>3, <2>4 DEF Goes
<1> QED
  BY <1>2, <1>3, Advances

\* So do a unit between two steps, a failure and the skipped steps of a first installation.
LEMMA SameGoes == ASSUME script' = script PROVE Goes /\ Unmarked
BY DEF Goes, Unmarked, Busy, Past, After

\* A script that turns to the rollback or leaves goes on, and marks no step of an update.
LEMMA TurnGoes ==
  ASSUME Busy, script' \in {Leaves, Undo("fail"), Undo("trap")}
  PROVE  Goes /\ Unmarked
BY BusyNotIdle, Programs DEF Goes, Unmarked, Busy, Past, Leaves, Undo, Idle

\* So does one that skips the snapshot.
LEMMA SkipGoes ==
  ASSUME Typed, Step = "copySnapshot", script' = [script EXCEPT !.at = @ + Len(Persist)]
  PROVE  Goes /\ Unmarked
<1>1. /\ Busy' /\ script'.seq = script.seq /\ script'.at = script.at + 4
      /\ Busy /\ script.at \in Nat
  BY Skipped DEF Step, Typed, Values, Scripts, Busy
<1>2. /\ script.seq = "rollback" => script.at = 11
      /\ script.seq = "update" => script.at = 23
  BY CopiesAt
<1>3. script # Idle /\ script' # Idle
  BY <1>1, BusyNotIdle, Programs DEF Idle, Busy
<1> QED
  BY <1>1, <1>2, <1>3 DEF Goes, Unmarked, Past, After

-----------------------------------------------------------------------------
(* What a step keeps of the invariant, part by part.                       *)

\* The flags say where the cutover is.
LEMMA PlacedOn ==
  ASSUME Typed, Placed, Goes, Unmarked, Stays,
         script'.seq \in {"update", "rollback"} => disk'.code = disk.code
  PROVE  Placed'
<1>1. Busy' => /\ flags'.codeSaved \/ flags'.dbSaved => flags'.dbCaptured
               /\ ~flags'.succeeded
  BY DEF Placed, Goes, Stays
<1>2. New' = New /\ dirs'.cur = dirs.cur
  BY DEF New, Stays
<1>3. CASE script'.seq \in {"update", "rollback"}
  <2>1. script'.seq = script.seq
    BY <1>3 DEF Goes
  <2>2. /\ After(7)' <=> After(7)
        /\ After(9)' <=> After(9)
        /\ script'.seq = "update" /\ script'.at > 12 => script.at > 12
        /\ script'.seq = "rollback" => (script'.at > 10 => script.at > 10)
                                         /\ (script'.at <= 15 => script.at <= 15)
    BY <1>3 DEF Unmarked
  <2>3. /\ flags'.dbCaptured <=> After(7)'
        /\ flags'.codeSaved <=> After(9)'
    BY <1>3, <2>1, <2>2 DEF Placed, Stays
  <2>4. /\ script'.seq = "update" /\ script'.at > 12 => disk'.code = New'
        /\ script'.seq = "rollback" /\ script'.at > 10 => disk'.code = None
    BY <1>2, <1>3, <2>1, <2>2 DEF Placed
  <2>5. script'.seq = "update" \/ (script'.seq = "rollback" /\ script'.at <= 15) =>
          dirs'.cur = Empty
    BY <1>2, <2>1, <2>2 DEF Placed
  <2> QED
    BY <1>1, <1>3, <2>3, <2>4, <2>5 DEF Placed
<1>4. CASE script'.seq \notin {"update", "rollback"}
  <2>1. script'.seq = "none" => script.seq = "none"
    BY DEF Goes
  <2>2. script'.seq = "none" => dirs'.cur = Empty
    BY <1>2, <2>1 DEF Placed
  <2> QED
    BY <1>1, <1>4, <2>2 DEF Placed
<1> QED
  BY <1>3, <1>4

\* What was left before a run was left before a later one.
LEMMA UntilLater ==
  ASSUME NEW t, NEW n \in Nat, NEW m \in Nat, n <= m, Until(t, n),
         t.code \in Files, t.db \in DbValues
  PROVE  Until(t, m)
<1>1. t.code \in Releases => t.code \in Nat
  BY ReleaseTypes
<1>2. t.db \notin {None, Torn} => t.db.born \in Nat
  BY NoDbs, DeploymentAssumption DEF Dbs
<1> QED
  BY <1>1, <1>2 DEF Until

\* What went into service before a run did so before a later one.
LEMMA GoodUntil ==
  ASSUME Typed, Aged, count'.runs = count.runs, Busy' => Busy
  PROVE  Until(good, Runs')
<1>1. Runs = Runs' \/ (Runs = count.runs - 1 /\ Runs' = count.runs)
  BY DEF Runs
<1>2. Until(good, Runs)
  BY DEF Aged
<1>3. ASSUME Runs = count.runs - 1, Runs' = count.runs PROVE Until(good, Runs')
  <2>1. good.code \in Releases => good.code \in Nat /\ good.code <= Runs + 1
    BY <1>2, ReleaseTypes DEF Until
  <2>2. good.db \notin {None, Torn} => good.db.born \in Nat /\ good.db.born <= Runs
    BY <1>2, NoDbs, DeploymentAssumption DEF Until, Typed, Values, Goods, Dbs
  <2> QED
    BY <1>3, <2>1, <2>2 DEF Until, Typed, Values, Counts
<1> QED
  BY <1>1, <1>2, <1>3

\* The directories that stay keep the database and the code.
LEMMA AsideOn ==
  ASSUME good' = good, vault.left \cup {dirs.cur} \subseteq vault'.left \cup {dirs'.cur}
  PROVE  (Aside => Aside') /\ (CodeAside => CodeAside')
BY DEF Aside, CodeAside

\* Where there was no database, none is to be kept.
LEMMA NothingAside ==
  ASSUME EmptyLeft, good.db = None PROVE Aside
<1>1. Empty \in vault.left \cup {dirs.cur} /\ Empty.db = None
  BY DEF EmptyLeft, Empty, Trees
<1> QED
  BY <1>1 DEF Aside, GoodOf, Holds

\* A step that leaves the disk to what the script has saved.
LEMMA KeepsOn ==
  ASSUME Typed, Keeps, Goes, Stays, Placed',
         Until(disk', count.runs),
         disk'.db = disk.db \/ (Busy /\ flags.dbCaptured),
         disk'.code = disk.code \/ (Busy /\ flags.codeSaved)
  PROVE  Keeps'
<1>1. /\ good' = good /\ dirs' = dirs /\ count'.runs = count.runs /\ vault'.left = vault.left
      /\ New' = New
  BY DEF Stays, New
<1>2. Busy /\ flags.codeSaved => flags.dbCaptured
  BY DEF Keeps, Placed
<1>3. Aged'
  <2>1. Until(good, Runs')
    BY <1>1, GoodUntil DEF Keeps, Goes
  <2>2. Until(dirs'.rb, count'.runs) /\ Until(disk', count'.runs)
    BY <1>1 DEF Keeps, Aged
  <2>3. script'.seq = "rollback" => Until(dirs'.sel.tree, count'.runs)
    BY <1>1 DEF Keeps, Aged, Goes
  <2>4. \A i \in DOMAIN vault'.store : Until(vault'.store[i].tree, count'.runs)
    BY <1>1 DEF Stays
  <2> QED
    BY <1>1, <2>1, <2>2, <2>3, <2>4 DEF Aged
<1>5. EmptyLeft'
  <2>1. Empty \in vault.left \/ (dirs.cur = Empty /\ script.seq # "rollback"
                                  /\ (script = Idle => vault.store = << >>))
    BY DEF Keeps, EmptyLeft
  <2>2. script'.seq = "rollback" => script.seq = "rollback"
    BY DEF Goes
  <2>3. script' = Idle => script = Idle /\ vault'.store = vault.store
    BY DEF Goes, Stays
  <2> QED
    BY <1>1, <2>1, <2>2, <2>3 DEF EmptyLeft
<1>6. (Aside => Aside') /\ (CodeAside => CodeAside')
  BY <1>1, AsideOn
<1>7. DbKept'
  <2>1. CASE Aside
    BY <1>6, <2>1 DEF DbKept
  <2>2. CASE Saved
    BY <1>1, <2>2 DEF DbKept, Saved, Goes, Stays
  <2>3. CASE Served
    <3>1. ~(Busy /\ flags.dbCaptured) /\ disk'.db = disk.db /\ disk'.code = disk.code
      BY <1>2, <2>3 DEF Served
    <3> QED
      BY <1>1, <2>3, <3>1 DEF DbKept, Served, Goes, Stays
  <2> QED
    BY <2>1, <2>2, <2>3 DEF Keeps, DbKept
<1>8. CodeKept'
  <2>1. CASE CodeAside
    BY <1>6, <2>1 DEF CodeKept
  <2>2. CASE CodeSaved
    BY <1>1, <2>2 DEF CodeKept, CodeSaved, Goes, Stays
  <2>3. CASE CodeServed
    <3>1. ~(Busy /\ flags.codeSaved) /\ disk'.code = disk.code
      BY <2>3 DEF CodeServed
    <3> QED
      BY <1>1, <2>3, <3>1 DEF CodeKept, CodeServed, Goes, Stays
  <2> QED
    BY <2>1, <2>2, <2>3 DEF Keeps, CodeKept
<1>9. NewDb'
  <2> SUFFICES ASSUME Past(1)', ~flags'.dbPresent, ~flags'.dbCaptured
               PROVE  Aside' /\ (disk'.db \notin {None, Torn} => disk'.db.born = count'.runs)
    BY DEF NewDb
  <2>1. Past(1) /\ ~flags.dbPresent /\ ~flags.dbCaptured /\ disk'.db = disk.db
    BY DEF Goes, Stays
  <2> QED
    BY <1>1, <1>6, <2>1 DEF Keeps, NewDb
<1> QED
  BY <1>3, <1>5, <1>7, <1>8, <1>9 DEF Keeps

\* The same of one that leaves the code and the database alone.
LEMMA KeepsStill ==
  ASSUME Typed, Keeps, Goes, Unmarked, Stays,
         disk'.code = disk.code, disk'.db = disk.db
  PROVE  Keeps'
<1>1. Placed'
  BY PlacedOn DEF Keeps
<1>2. Until(disk', count.runs)
  BY DEF Keeps, Aged, Until
<1> QED
  BY <1>1, <1>2, KeepsOn

-----------------------------------------------------------------------------
(* The steps that leave the code and the database alone.                   *)

\* The snapshots are as old as they were, or one is what the script has saved.
LEMMA StoreSame ==
  ASSUME Keeps, vault'.store = vault.store
  PROVE  \A i \in DOMAIN vault'.store : Until(vault'.store[i].tree, count.runs)
BY DEF Keeps, Aged

\* The steps of the three programs that stop, start, enable, write or check something.
LEMMA KeptForward ==
  ASSUME Typed, Keeps,
         EnsureCaddy \/ StopUnit \/ MissPanel \/ StopHealthCheck \/ StopBackup \/ PrepareState
           \/ WriteConf \/ WaitForBackend \/ StartUnit \/ StartHealthCheck \/ HealthCheckEnds
           \/ NameLatest \/ LoadMetadata \/ Disable \/ RestoreFiles \/ Enable \/ RestoreUnits
  PROVE  Keeps'
<1>1. Busy /\ (Advance \/ Reports) /\ Step \notin Marks
  BY RestoresReport DEF EnsureCaddy, StopUnit, MissPanel, Asks, StopHealthCheck, StopBackup, PrepareState, WriteConf,
     WaitForBackend, StartUnit, StartHealthCheck, HealthCheckEnds, NameLatest, LoadMetadata,
     Disable, RestoreFiles, At, Step, Marks, Stopping
<1>2. Goes /\ Unmarked
  BY <1>1, AdvanceGoes DEF Marks
<1>3. disk'.code = disk.code /\ disk'.db = disk.db
  BY DEF EnsureCaddy, StopUnit, MissPanel, Asks, StopHealthCheck, StopBackup, PrepareState, WriteConf,
     WaitForBackend, StartUnit, StartHealthCheck, HealthCheckEnds, NameLatest, LoadMetadata,
     Disable, RestoreFiles, Enable, RestoreUnits, Typed, Values, Disks
<1>5. UNCHANGED <<dirs, good, count>> /\ vault'.left = vault.left /\ vault'.store = vault.store
  BY DEF EnsureCaddy, StopUnit, MissPanel, Asks, StopHealthCheck, StopBackup, PrepareState, WriteConf,
     WaitForBackend, StartUnit, StartHealthCheck, HealthCheckEnds, NameLatest, LoadMetadata,
     Disable, RestoreFiles, Enable, RestoreUnits, shell, hist, Typed, Values, Vaults
<1>6. /\ flags'.dbPresent = flags.dbPresent /\ flags'.dbCaptured = flags.dbCaptured
      /\ flags'.codeSaved = flags.codeSaved /\ flags'.succeeded = flags.succeeded
  BY DEF EnsureCaddy, StopUnit, MissPanel, Asks, StopHealthCheck, StopBackup, PrepareState, WriteConf,
     WaitForBackend, StartUnit, StartHealthCheck, HealthCheckEnds, NameLatest, LoadMetadata,
     Disable, RestoreFiles, Enable, RestoreUnits, shell, Typed, Values, FlagSets
<1>7. flags'.dbSaved => flags.dbSaved \/ flags.dbCaptured
  <2>1. CASE LoadMetadata
    <3>1. script.seq = "rollback" /\ script.at = 16
      BY <1>1, <2>1, LateAt DEF LoadMetadata, At
    <3> QED
      BY <3>1 DEF Keeps, Placed, After
  <2>2. CASE ~LoadMetadata
    BY <2>2 DEF EnsureCaddy, StopUnit, MissPanel, Asks, StopHealthCheck, StopBackup, PrepareState, WriteConf,
       WaitForBackend, StartUnit, StartHealthCheck, HealthCheckEnds, NameLatest,
       Disable, RestoreFiles, Enable, RestoreUnits, shell, Typed, Values, FlagSets
  <2> QED
    BY <2>1, <2>2
<1>8. Stays
  BY <1>5, <1>6, <1>7, StoreSame DEF Stays
<1> QED
  BY <1>2, <1>3, <1>8, KeepsStill

\* The copy of a snapshot has what the script has saved.
LEMMA KeptCopy == ASSUME Typed, Keeps, CopySnapshot PROVE Keeps'
<1>1. /\ Busy /\ Step = "copySnapshot" /\ UNCHANGED <<disk, sysd, flags, dirs, good>>
      /\ count'.runs = count.runs
  BY DEF CopySnapshot, At, Step, Typed, Values, Counts
<1>2. Goes /\ Unmarked
  BY <1>1, AdvanceGoes, SkipGoes DEF CopySnapshot, Marks
<1>3. vault'.left = vault.left
  BY DEF CopySnapshot, Typed, Values, Vaults
<1>4. \A i \in DOMAIN vault'.store : Until(vault'.store[i].tree, count.runs)
  <2>1. CASE vault' = vault
    BY <2>1, StoreSame
  <2>2. CASE flags.oldInstall
    <3>1. PICK e \in Snapshots : e.tree = dirs.rb /\ vault'.store = Append(vault.store, e)
      <4> DEFINE e == [id |-> count.made + 1, whole |-> FALSE, tree |-> dirs.rb, was |-> was,
                       dbSaved |-> flags.dbSaved]
      <4>1. e \in Snapshots
        BY DEF Snapshots, Typed, Values, Counts, Dirs, FlagSets
      <4>2. vault'.store = Append(vault.store, e)
        BY <2>2 DEF CopySnapshot, Typed, Values, Vaults
      <4> QED
        BY <4>1, <4>2
    <3>2. vault.store \in Seq(Snapshots)
      BY DEF Typed, Values, Vaults
    <3>3. /\ DOMAIN vault'.store = 1 .. Len(vault.store) + 1 /\ Len(vault.store) \in Nat
          /\ DOMAIN vault.store = 1 .. Len(vault.store)
          /\ \A i \in 1 .. Len(vault.store) : vault'.store[i] = vault.store[i]
          /\ vault'.store[Len(vault.store) + 1] = e
      BY <3>1, <3>2, Appended
    <3>4. \A i \in 1 .. Len(vault.store) : Until(vault.store[i].tree, count.runs)
      BY <3>3 DEF Keeps, Aged
    <3>5. Until(e.tree, count.runs)
      BY <3>1 DEF Keeps, Aged
    <3>6. \A i \in 1 .. Len(vault.store) + 1 : i \in 1 .. Len(vault.store) \/ i = Len(vault.store) + 1
      BY <3>3
    <3> QED
      BY <3>3, <3>4, <3>5, <3>6
  <2> QED
    BY <2>1, <2>2 DEF CopySnapshot
<1>5. Stays
  BY <1>1, <1>3, <1>4, BusyNotIdle DEF Stays
<1> QED
  BY <1>1, <1>2, <1>5, KeepsStill

\* Its checksums change nothing else, and rotation only removes.
LEMMA KeptStore == ASSUME Typed, Stored, Keeps, SumSnapshot \/ Rotate PROVE Keeps'
<1>1. /\ Busy /\ Advance /\ Step \notin Marks /\ UNCHANGED <<disk, sysd, flags, dirs, good, count>>
  BY DEF SumSnapshot, Rotate, At, Step, Marks, hist
<1>2. Goes /\ Unmarked
  BY <1>1, AdvanceGoes DEF Marks
<1>3. vault'.left = vault.left
  BY DEF SumSnapshot, Rotate, Typed, Values, Vaults
<1>4. \A i \in DOMAIN vault.store : Until(vault.store[i].tree, count.runs)
  BY DEF Keeps, Aged
<1>5. /\ vault.store \in Seq(Snapshots) /\ Len(vault.store) \in Nat
      /\ DOMAIN vault.store = 1 .. Len(vault.store)
  BY DEF Typed, Values, Vaults
<1>6. \A i \in DOMAIN vault'.store : Until(vault'.store[i].tree, count.runs)
  <2>1. CASE SumSnapshot
    <3>1. vault'.store = [vault.store EXCEPT ![Len(vault.store)] =
                            [vault.store[Len(vault.store)] EXCEPT !.whole = TRUE]]
      BY <2>1 DEF SumSnapshot, Typed, Values, Vaults
    <3>2. /\ DOMAIN vault'.store = DOMAIN vault.store
          /\ \A i \in DOMAIN vault.store : vault'.store[i] =
               IF i = Len(vault.store) THEN [vault.store[i] EXCEPT !.whole = TRUE]
               ELSE vault.store[i]
      BY <3>1
    <3>3. \A i \in DOMAIN vault.store : vault.store[i] \in Snapshots
      BY <1>5
    <3>4. \A i \in DOMAIN vault.store : vault'.store[i].tree = vault.store[i].tree
      BY <3>2, <3>3 DEF Snapshots
    <3> QED
      BY <1>4, <3>2, <3>4
  <2>2. CASE Rotate
    <3>1. CASE Len(vault.store) > Keep
      <4>1. vault'.store = SubSeq(vault.store, Len(vault.store) - Keep + 1, Len(vault.store))
        BY <2>2, <3>1 DEF Rotate, Typed, Values, Vaults
      <4>2. Keep \in Nat /\ Keep >= 1
        BY DeploymentAssumption
      <4>3. /\ DOMAIN vault'.store = 1 .. Keep
            /\ \A i \in 1 .. Keep : vault'.store[i] = vault.store[Len(vault.store) - Keep + i]
        <5>1. Len(vault.store) - Keep + 1 \in 1 .. Len(vault.store) + 1
          BY <1>5, <3>1, <4>2
        <5>2. Len(vault.store) - (Len(vault.store) - Keep + 1) + 1 = Keep
          BY <1>5, <4>2
        <5>3. /\ Len(vault'.store) = Keep /\ vault'.store \in Seq(Snapshots)
              /\ \A i \in 1 .. Keep :
                   vault'.store[i] = vault.store[(Len(vault.store) - Keep + 1) + i - 1]
          BY <1>5, <4>1, <5>1, <5>2
        <5>4. \A i \in 1 .. Keep :
                (Len(vault.store) - Keep + 1) + i - 1 = Len(vault.store) - Keep + i
          BY <1>5, <4>2
        <5> QED
          BY <5>3, <5>4
      <4>4. \A i \in 1 .. Keep : Len(vault.store) - Keep + i \in DOMAIN vault.store
        BY <1>5, <3>1, <4>2
      <4> QED
        BY <1>4, <4>3, <4>4
    <3>2. CASE ~(Len(vault.store) > Keep)
      <4>1. vault'.store = vault.store
        BY <2>2, <3>2 DEF Rotate, Typed, Values, Vaults
      <4> QED
        BY <1>4, <4>1
    <3> QED
      BY <3>1, <3>2
  <2> QED
    BY <2>1, <2>2
<1>7. Stays
  BY <1>1, <1>3, <1>6, BusyNotIdle DEF Stays
<1> QED
  BY <1>1, <1>2, <1>7, KeepsStill

\* The units and a failure change nothing that is kept.
LEMMA KeptBetween ==
  ASSUME Typed, Keeps,
         HealthCheckStarts \/ HealthCheckProbes \/ HealthCheckReturns \/ BackupTimerFires \/ Interrupted \/ Fails
           \/ WriteSite
  PROVE  Keeps'
<1>1. /\ UNCHANGED <<flags, dirs, vault, good>> /\ count'.runs = count.runs
      /\ disk'.code = disk.code /\ disk'.db = disk.db
  BY DEF HealthCheckStarts, HealthCheckProbes, HealthCheckReturns, BackupTimerFires, Interrupted, Fails, Faulty,
     WriteSite, shell, hist, Typed, Values, Counts, Disks
<1>2. Goes /\ Unmarked
  <2>1. CASE script' = script
    BY <2>1, SameGoes
  <2>2. CASE Busy /\ script' \in {Leaves, Undo("fail"), Undo("trap")}
    BY <2>2, TurnGoes
  <2>3. CASE WriteSite /\ Advance
    BY <2>3, AdvanceGoes DEF WriteSite, At, Step, Marks
  <2> QED
    BY <2>1, <2>2, <2>3
    DEF HealthCheckStarts, HealthCheckProbes, HealthCheckReturns, BackupTimerFires, Interrupted, Fails, WriteSite,
        FailSteps, At, Step
<1>3. Stays
  BY <1>1, StoreSame DEF Stays
<1> QED
  BY <1>1, <1>2, <1>3, KeepsStill

-----------------------------------------------------------------------------
(* The steps that replace what has been saved.                             *)

\* A database that an installed release migrates is of its run, or from before.
LEMMA MigratedUntil ==
  ASSUME Typed, NEW db \in DbValues, NEW r \in Releases,
         db \notin {None, Torn} => db.born <= count.runs
  PROVE  /\ Migrated(db, r) \notin {None, Torn} => Migrated(db, r).born <= count.runs
         /\ db = None => Migrated(db, r).born = count.runs
         /\ db \notin {None, Torn} =>
              Migrated(db, r) \notin {None, Torn} /\ Migrated(db, r).born = db.born
         /\ db = Torn => Migrated(db, r) = Torn
<1>0. count.runs \in Nat
  BY DeploymentAssumption DEF Typed, Values, Counts
<1>1. CASE db = Torn
  BY <1>1, Outside DEF Migrated
<1>2. CASE db = None
  <2>1. Migrated(db, r) = [schema |-> Schema[r], born |-> count.runs, writes |-> 0]
    BY <1>2, Outside DEF Migrated
  <2>2. Migrated(db, r).born = count.runs
    BY <2>1
  <2> QED
    BY <1>0, <1>2, <2>2, Outside
<1>3. CASE db \notin {None, Torn}
  <2>1. db \in Dbs /\ Schema[r] \in Nat
    BY <1>3, NoDbs, SchemaType
  <2>2. Migrated(db, r) = [db EXCEPT !.schema = IF @ < Schema[r] THEN Schema[r] ELSE @]
    BY <1>3 DEF Migrated
  <2>3. Migrated(db, r) \in Dbs /\ Migrated(db, r).born = db.born
    BY <2>1, <2>2 DEF Dbs
  <2> QED
    BY <1>3, <2>3, NoDbs
<1> QED
  BY <1>1, <1>2, <1>3

\* The migration of the new release.
LEMMA KeptMigrate == ASSUME Typed, Keeps, Migrate PROVE Keeps'
<1>1. /\ Busy /\ Advance /\ Step = "migrate" /\ UNCHANGED <<sysd, flags, dirs, vault, good, count>>
      /\ disk'.code = disk.code /\ disk'.db = Migrated(disk.db, disk.code)
      /\ disk.code \in Releases
  BY DEF Migrate, At, Step, shell, hist, Typed, Values, Disks
<1>2. Goes /\ Unmarked
  BY <1>1, AdvanceGoes DEF Marks
<1>3. script.seq = "update" /\ script.at = 13
  BY <1>1, LateAt
<1>4. flags.dbCaptured
  BY <1>3 DEF Keeps, Placed, After
<1>5. Until(disk', count.runs)
  <2>1. disk.db \in DbValues /\ Until(disk, count.runs)
    BY DEF Keeps, Aged, Typed, Values, Disks
  <2> QED
    BY <1>1, <2>1, MigratedUntil DEF Until
<1>6. Stays
  BY <1>1, StoreSame DEF Stays
<1>7. Placed'
  BY <1>1, <1>2, <1>6, PlacedOn DEF Keeps
<1> QED
  BY <1>1, <1>2, <1>4, <1>5, <1>6, <1>7, KeepsOn

\* The removal of the old release and the installation of the new one.
LEMMA KeptClear == ASSUME Typed, Keeps, ClearCode PROVE Keeps'
<1>1. /\ Busy /\ Advance /\ Step = "clear" /\ UNCHANGED <<sysd, flags, dirs, vault, good, count>>
      /\ disk'.code = None /\ disk'.db = disk.db
  BY DEF ClearCode, At, Step, shell, hist, Typed, Values, Disks
<1>2. Goes
  BY <1>1, AdvanceGoes
<1>3. script.seq # "undo" /\ In(10) /\ script.at \in Nat
  BY <1>1, MarksAt, UndoUnmarked DEF Marks, Typed, Values, Scripts
<1>4. flags.dbCaptured /\ flags.codeSaved
  BY <1>3 DEF Keeps, Placed, After, In
<1>5. Stays
  BY <1>1, StoreSame DEF Stays
<1>6. \/ script'.seq = "undo"
      \/ script'.seq = script.seq /\ script'.at = script.at + 1
  BY <1>1, Advances
<1>7. Placed'
  <2>1. Busy' => /\ flags'.codeSaved \/ flags'.dbSaved => flags'.dbCaptured
                 /\ ~flags'.succeeded
    BY <1>1 DEF Keeps, Placed
  <2>2. dirs'.cur = Empty
    BY <1>1, <1>3 DEF In, Keeps, Placed
  <2>3. script'.seq \in {"update", "rollback"} => After(7)' /\ After(9)'
    BY <1>3, <1>6 DEF After, In
  <2>4. script'.seq = "update" => ~(script'.at > 12)
    BY <1>3, <1>6 DEF In
  <2> QED
    BY <1>1, <1>4, <2>1, <2>2, <2>3, <2>4 DEF Placed
<1>8. Until(disk', count.runs)
  BY <1>1, Outside DEF Keeps, Aged, Until
<1> QED
  BY <1>1, <1>2, <1>4, <1>5, <1>7, <1>8, KeepsOn

\* install_source: the new release replaces none but one that is kept.
LEMMA KeptInstall == ASSUME Typed, Keeps, Install PROVE Keeps'
<1>1. /\ Busy /\ Advance /\ Step = "install" /\ UNCHANGED <<sysd, flags, dirs, vault, good, count>>
      /\ disk'.code = New /\ disk'.db = disk.db
  BY DEF Install, At, Step, shell, hist, Typed, Values, Disks
<1>2. Goes
  BY <1>1, AdvanceGoes
<1>3. script.seq = "update" /\ script.at = 12
  BY <1>1, MarksAt, UndoUnmarked DEF Marks
<1>4. flags.dbCaptured /\ flags.codeSaved
  BY <1>3 DEF Keeps, Placed, After
<1>5. Stays
  BY <1>1, StoreSame DEF Stays
<1>6. \/ script'.seq = "undo"
      \/ script'.seq = "update" /\ script'.at = 13
  BY <1>1, <1>3, Advances
<1>7. Placed'
  <2>1. Busy' => /\ flags'.codeSaved \/ flags'.dbSaved => flags'.dbCaptured
                 /\ ~flags'.succeeded
    BY <1>1 DEF Keeps, Placed
  <2>2. dirs'.cur = Empty /\ New' = New
    BY <1>1, <1>3 DEF Keeps, Placed, New
  <2>3. script'.seq = "update" => After(7)' /\ After(9)'
    BY <1>6 DEF After
  <2> QED
    BY <1>1, <1>4, <1>6, <2>1, <2>2, <2>3 DEF Placed
<1>8. Until(disk', count.runs)
  <2>1. New <= count.runs + 1
    BY DEF New, Typed, Values, Counts
  <2> QED
    BY <1>1, <2>1 DEF Keeps, Aged, Until
<1> QED
  BY <1>1, <1>2, <1>4, <1>5, <1>7, <1>8, KeepsOn

\* The rollback, which has what it puts back.
LEMMA KeptUndo ==
  ASSUME Typed, Keeps, WipeCode \/ CopyCode \/ WipeDb \/ CopyDb \/ StepFails PROVE Keeps'
<1>1. Busy /\ script.seq = "undo" /\ UNCHANGED <<sysd, flags, dirs, vault, good>>
  <2>1. CASE StepFails
    BY <2>1, Programs DEF StepFails, Undoing, Busy, shell
  <2>2. CASE WipeCode \/ CopyCode \/ WipeDb \/ CopyDb
    BY <2>2, UndoesAt DEF WipeCode, CopyCode, WipeDb, CopyDb, At, Step, shell, hist
  <2> QED
    BY <2>1, <2>2
<1>2. count'.runs = count.runs
  BY DEF WipeCode, CopyCode, WipeDb, CopyDb, StepFails, hist, Typed, Values, Counts
<1>3. script'.seq = "undo" /\ Busy'
  <2>1. Advanced \in Scripts /\ Advanced.seq = "undo"
    BY <1>1, AdvancedTyped
  <2> QED
    BY <2>1, Programs DEF WipeCode, CopyCode, WipeDb, CopyDb, StepFails, Advance, Scripts, Busy
<1>4. Goes /\ Unmarked
  BY <1>1, <1>3, BusyNotIdle, Programs DEF Goes, Unmarked, Past, Idle, Busy
<1>5. Stays
  BY <1>1, <1>2, StoreSame DEF StepFails, Stays, WipeCode, CopyCode, WipeDb, CopyDb
<1>6. Placed'
  BY <1>3, <1>4, <1>5, PlacedOn DEF Keeps
<1>7. flags.codeSaved => flags.dbCaptured
  BY <1>1 DEF Keeps, Placed
<1>8. \/ disk'.code = disk.code
      \/ flags.codeSaved /\ disk'.code \in {None, Torn, dirs.rb.code}
  BY DEF WipeCode, CopyCode, WipeDb, CopyDb, StepFails, Typed, Values, Disks
<1>9. \/ disk'.db = disk.db
      \/ flags.dbCaptured /\ disk'.db \in {None, dirs.rb.db}
  BY DEF WipeCode, CopyCode, WipeDb, CopyDb, StepFails, Typed, Values, Disks
<1>10. Until(disk', count.runs)
  <2>1. Until(disk, count.runs) /\ Until(dirs.rb, count.runs)
    BY DEF Keeps, Aged
  <2>2. disk'.code \in Releases => disk'.code <= count.runs + 1
    BY <1>8, <2>1, Outside DEF Until
  <2>3. disk'.db \notin {None, Torn} => disk'.db.born <= count.runs
    BY <1>9, <2>1 DEF Until
  <2> QED
    BY <2>2, <2>3 DEF Until
<1> QED
  BY <1>1, <1>4, <1>5, <1>6, <1>7, <1>8, <1>9, <1>10, KeepsOn

\* The middle of a step that copies, writes or removes a tree.
LEMMA KeptPartly == ASSUME Typed, Keeps, Partly PROVE Keeps'
<1>1. UNCHANGED <<script, sysd, flags, good, count>> /\ Busy
  BY DEF Partly, hist, At, Step, Writes, Saves
<1>2. Goes /\ Unmarked
  BY <1>1, SameGoes
<1>3. vault'.left = vault.left /\ vault'.store = vault.store
  BY DEF Partly, Typed, Values, Vaults
<1>4. flags.codeSaved => flags.dbCaptured
  BY <1>1 DEF Keeps, Placed
<1>5. CASE dirs' = dirs
  <2>1. Stays
    BY <1>1, <1>3, <1>5, StoreSame DEF Stays
  <2>2. CASE disk'.code = disk.code /\ disk'.db = disk.db
    BY <1>1, <1>2, <2>1, <2>2, KeepsStill
  <2>3. CASE /\ Step = "copyDb" /\ flags.dbSaved
             /\ disk'.code = disk.code /\ disk'.db = Torn
    <3>1. flags.dbCaptured
      BY <1>1, <2>3 DEF Keeps, Placed
    <3>2. Placed'
      BY <1>2, <2>1, <2>3, PlacedOn DEF Keeps
    <3>3. Until(disk', count.runs)
      BY <2>3 DEF Keeps, Aged, Until
    <3> QED
      BY <1>1, <1>2, <2>1, <2>3, <3>1, <3>2, <3>3, KeepsOn
  <2>4. CASE /\ Step \in {"clear", "install", "wipeCode"}
             /\ Step = "wipeCode" => flags.codeSaved
             /\ disk'.code = Torn /\ disk'.db = disk.db
    <3>1. ASSUME script.seq = "undo" PROVE flags.codeSaved /\ Placed'
      <4>1. Step = "wipeCode"
        BY <1>1, <2>4, <3>1, UndoUnmarked DEF Marks
      <4>2. Placed'
        BY <1>1, <1>2, <2>1, <3>1, PlacedOn DEF Keeps
      <4> QED
        BY <2>4, <4>1, <4>2
    <3>2. ASSUME script.seq # "undo" PROVE flags.codeSaved /\ Placed'
      <4>1. In(10) \/ (script.seq = "update" /\ script.at = 12)
        BY <1>1, <2>4, <3>2, MarksAt, UndoesAt
      <4>2. flags.codeSaved
        BY <4>1 DEF In, Keeps, Placed, After
      <4>3. ~(script.seq = "update" /\ script.at > 12) /\ ~(script.seq = "rollback" /\ script.at > 10)
        BY <4>1 DEF In
      <4>4. Placed' <=> Placed
        BY <1>1, <1>5, <4>3 DEF Placed, After, Busy, New
      <4> QED
        BY <4>2, <4>4 DEF Keeps
    <3>3. flags.codeSaved /\ Placed'
      BY <3>1, <3>2
    <3>4. Until(disk', count.runs)
      BY <2>4, Outside DEF Keeps, Aged, Until
    <3> QED
      BY <1>1, <1>2, <1>4, <2>1, <2>4, <3>3, <3>4, KeepsOn
  <2>5. CASE Step \in DOMAIN Writes
    <3>1. (disk'.code = disk.code /\ disk'.db = disk.db) \/ Writes[Step] \in {"code", "db"}
      BY <2>5 DEF Partly, Writes, Saves, At, Typed, Values, Disks
    <3>2. CASE Writes[Step] = "db"
      <4>1. Step = "copyDb"
        BY <2>5, <3>2 DEF Writes
      <4> QED
        BY <2>3, <4>1 DEF Partly, Writes, Saves, At, Typed, Values, Disks
    <3>3. CASE Writes[Step] = "code"
      <4>1. Step \in {"clear", "install", "wipeCode"}
        BY <2>5, <3>3 DEF Writes
      <4>2. PICK m \in BOOLEAN : disk' = [disk EXCEPT !["code"] = Torn, !.marker = m]
        BY <3>3, <4>1 DEF Partly, Saves, At
      <4>3. disk'.code = Torn /\ disk'.db = disk.db
        BY <4>2 DEF Typed, Values, Disks
      <4>4. Step = "wipeCode" => flags.codeSaved
        BY <4>1 DEF Partly, Saves, At
      <4> QED
        BY <2>4, <4>1, <4>3, <4>4
    <3> QED
      BY <2>2, <3>1, <3>2, <3>3
  <2>6. CASE Step \notin DOMAIN Writes
    <3>1. disk' = disk
      BY <2>6 DEF Partly
    <3> QED
      BY <2>2, <3>1
  <2> QED
    BY <2>5, <2>6
<1>6. CASE Step \in DOMAIN Saves /\ disk' = disk /\ dirs' = [dirs EXCEPT !.rb[Saves[Step]] = Torn]
  <2>1. Step \in {"saveDb", "saveCode"} /\ dirs \in Dirs
    BY <1>6 DEF Saves, Typed, Values
  <2>2. script.seq # "undo"
    BY <1>1, <2>1, UndoUnmarked DEF Marks
  <2>3. /\ Step = "saveDb" => In(7)
        /\ Step = "saveCode" => In(9)
    BY <1>1, <2>2, MarksAt
  <2>4. ~flags.codeSaved /\ (Step = "saveDb" => ~flags.dbCaptured)
    BY <2>1, <2>3 DEF In, Keeps, Placed, After
  <2>5. /\ dirs'.cur = dirs.cur /\ dirs'.sel = dirs.sel
        /\ Step = "saveDb" => dirs'.rb.db = Torn /\ dirs'.rb.code = dirs.rb.code
        /\ Step = "saveCode" => dirs'.rb.code = Torn /\ dirs'.rb.db = dirs.rb.db
    <3>1. CASE Step = "saveDb"
      BY <1>6, <2>1, <3>1 DEF Saves, Dirs, Content4
    <3>2. CASE Step = "saveCode"
      BY <1>6, <2>1, <3>2 DEF Saves, Dirs, Content4
    <3> QED
      BY <2>1, <3>1, <3>2
  <2>6. Placed'
    BY <1>1, <1>6, <2>5 DEF Keeps, Placed, After, Busy, New
  <2>7. Aged'
    <3>1. Until(dirs'.rb, count.runs)
      BY <2>1, <2>5, Outside DEF Keeps, Aged, Until
    <3> QED
      BY <1>1, <1>3, <1>6, <2>5, <3>1 DEF Keeps, Aged, Runs, Busy
  <2>9. EmptyLeft'
    BY <1>1, <1>3, <2>5 DEF Keeps, EmptyLeft
  <2>10. (Aside => Aside') /\ (CodeAside => CodeAside')
    BY <1>1, <1>3, <2>5, AsideOn
  <2>11. DbKept'
    <3>1. Saved => Saved'
      BY <1>1, <2>1, <2>4, <2>5 DEF Saved
    <3>2. Served => Served'
      BY <1>1, <1>6 DEF Served, Busy
    <3> QED
      BY <2>10, <3>1, <3>2 DEF Keeps, DbKept
  <2>12. CodeKept'
    <3>1. ~CodeSaved
      BY <2>4 DEF CodeSaved
    <3>2. CodeServed => CodeServed'
      BY <1>1, <1>6 DEF CodeServed, Busy
    <3> QED
      BY <2>10, <3>1, <3>2 DEF Keeps, CodeKept
  <2>13. NewDb'
    BY <1>1, <1>6, <2>10 DEF Keeps, NewDb, Past
  <2> QED
    BY <2>6, <2>7, <2>9, <2>11, <2>12, <2>13 DEF Keeps
<1> QED
  BY <1>5, <1>6 DEF Partly

-----------------------------------------------------------------------------
(* What starts the panel, and what it writes.                              *)

\* Who starts the panel starts the installed release, which migrates the database.
LEMMA KeptLaunched ==
  ASSUME Typed, Keeps, Goes, Unmarked, Stays, NEW s \in Sysds, StartPanel(s) \/ Launched(s)
  PROVE  Keeps'
<1>1. CASE disk' = disk
  BY <1>1, KeepsStill
<1>2. CASE /\ disk.code \in Releases
           /\ disk' = [disk EXCEPT !.db = Migrated(@, disk.code)]
  <2>0. /\ good' = good /\ dirs' = dirs /\ count'.runs = count.runs /\ vault'.left = vault.left
        /\ New' = New
    BY DEF Stays, New
  <2>1. disk'.code = disk.code /\ disk'.db = Migrated(disk.db, disk.code)
    BY <1>2 DEF Typed, Values, Disks
  <2>2. disk.db \in DbValues /\ (disk.db \notin {None, Torn} => disk.db.born <= count.runs)
    BY DEF Typed, Values, Disks, Keeps, Aged, Until
  <2>3. Placed'
    BY <2>1, PlacedOn DEF Keeps
  <2>4. Until(disk', count.runs)
    BY <2>1, <2>2, <1>2, MigratedUntil DEF Keeps, Aged, Until
  <2>5. Aged'
    <3>1. Until(good, Runs')
      BY <2>0, GoodUntil DEF Keeps, Goes
    <3> QED
      BY <2>0, <2>4, <3>1 DEF Keeps, Aged, Goes, Stays
  <2>7. EmptyLeft'
    BY <2>0 DEF Keeps, EmptyLeft, Goes, Stays
  <2>8. (Aside => Aside') /\ (CodeAside => CodeAside')
    BY <2>0, AsideOn
  <2>9. DbKept'
    <3>1. CASE Aside
      BY <2>8, <3>1 DEF DbKept
    <3>2. CASE Saved
      BY <2>0, <3>2 DEF DbKept, Saved, Goes, Stays
    <3>3. CASE Served /\ good.db # None
      <4>1. good.code = disk.code /\ GoodOf(good, disk.db) /\ good \in Goods
        BY <1>2, <3>3 DEF Served, Typed, Values
      <4>2. GoodOf(good, Migrated(disk.db, disk.code))
        BY <1>2, <2>2, <3>3, <4>1, GoodStarted
      <4> QED
        BY <2>0, <2>1, <3>3, <4>1, <4>2 DEF DbKept, Served, Goes, Stays
    <3>4. CASE good.db = None
      BY <2>8, <3>4, NothingAside DEF DbKept, Keeps
    <3> QED
      BY <3>1, <3>2, <3>3, <3>4 DEF Keeps, DbKept
  <2>10. CodeKept'
    BY <2>0, <2>1, <2>8 DEF Keeps, CodeKept, CodeSaved, CodeServed, Goes, Stays
  <2>11. NewDb'
    <3> SUFFICES ASSUME Past(1)', ~flags'.dbPresent, ~flags'.dbCaptured
                 PROVE  Aside' /\ (disk'.db \notin {None, Torn} => disk'.db.born = count'.runs)
      BY DEF NewDb
    <3>1. Past(1) /\ ~flags.dbPresent /\ ~flags.dbCaptured
      BY DEF Goes, Stays
    <3>2. Aside /\ (disk.db \notin {None, Torn} => disk.db.born = count.runs)
      BY <3>1 DEF Keeps, NewDb
    <3>3. disk'.db \notin {None, Torn} => disk'.db.born = count.runs
      BY <1>2, <2>1, <2>2, <3>2, MigratedUntil
    <3> QED
      BY <2>0, <2>8, <3>2, <3>3
  <2> QED
    BY <2>3, <2>5, <2>7, <2>9, <2>10, <2>11 DEF Keeps
<1> QED
  BY <1>1, <1>2 DEF StartPanel, Launched

\* A unit, the new release and the rollback start it.
LEMMA KeptStarted ==
  ASSUME Typed, Keeps,
         AutoRestart \/ PanelRestarts \/ HealthCheckRecovers \/ BackupRuns \/ StartService
           \/ RestorePanel
  PROVE  Keeps'
<1>1. UNCHANGED <<flags, dirs, vault, good, count>> /\ sysd \in Sysds
  BY DEF AutoRestart, PanelRestarts, HealthCheckRecovers, BackupRuns, StartService, RestorePanel,
     shell, hist, Typed, Values
<1>2. Stays
  BY <1>1, StoreSame DEF Stays
<1>3. CASE AutoRestart \/ PanelRestarts \/ HealthCheckRecovers \/ BackupRuns
  <2>1. Goes /\ Unmarked
    BY <1>3, SameGoes DEF AutoRestart, PanelRestarts, HealthCheckRecovers, BackupRuns
  <2>2. CASE UNCHANGED disk
    BY <1>2, <2>1, <2>2, KeepsStill
  <2>3. CASE StartPanel(sysd) \/ Launched(sysd)
    BY <1>1, <1>2, <2>1, <2>3, KeptLaunched
  <2> QED
    BY <1>3, <2>2, <2>3 DEF AutoRestart, PanelRestarts, HealthCheckRecovers, BackupRuns
<1>4. CASE StartService
  <2>1. Busy /\ Advance /\ Step = "startPanel"
    BY <1>4 DEF StartService, At, Step
  <2>2. Goes /\ Unmarked
    BY <2>1, AdvanceGoes DEF Marks
  <2>3. Enabled(sysd, "panel") \in Sysds
    BY <1>1 DEF Enabled, Sysds, Units
  <2>4. Launched(Enabled(sysd, "panel"))
    BY <1>4 DEF StartService
  <2> QED
    BY <1>2, <2>2, <2>3, <2>4, KeptLaunched
<1>5. CASE RestorePanel
  <2>1. Busy /\ Reports /\ Step = "restorePanel"
    BY <1>5, RestoresReport DEF RestorePanel, At
  <2>2. Goes /\ Unmarked
    BY <2>1, AdvanceGoes DEF Marks
  <2>3. CASE StartPanel(sysd)
    BY <1>1, <1>2, <2>2, <2>3, KeptLaunched
  <2>4. CASE UNCHANGED disk
    BY <1>2, <2>2, <2>4, KeepsStill
  <2> QED
    BY <1>5, <2>3, <2>4 DEF RestorePanel
<1> QED
  BY <1>3, <1>4, <1>5

\* A database with one write more has what it had.
LEMMA GoodWritten ==
  ASSUME NEW g \in Goods, NEW db \in Dbs, NEW e \in Dbs, GoodOf(g, db),
         e.schema = db.schema, e.born = db.born, e.writes = db.writes + 1
  PROVE  GoodOf(g, e)
<1>1. \A old \in Dbs : Holds(db, old) => Holds(e, old)
  BY NoDbs DEF Holds, Dbs
<1>2. g.db \notin {None, Torn}
  BY NoDbs DEF GoodOf, Holds
<1>3. g.db \in Dbs /\ (g.code \in Releases => Started(g) \in Dbs)
  BY <1>2, StartedType, NoDbs DEF Goods
<1> QED
  BY <1>1, <1>3 DEF GoodOf

\* A request.
LEMMA KeptWrite == ASSUME Typed, Quiet, Keeps, Write PROVE Keeps'
<1>1. /\ UNCHANGED <<sysd, script, flags, dirs, vault, count>> /\ sysd.proc \in Releases
      /\ disk.db \in Dbs /\ count.runs \in Nat
  BY NoDbs DEF Write, shell, Ready, Typed, Values, Disks, Counts
<1>2. PICK e \in {[disk.db EXCEPT !.writes = @ + 1]} : disk' = [disk EXCEPT !.db = e]
  BY DEF Write
<1>3. e \in Dbs /\ e.schema = disk.db.schema /\ e.born = disk.db.born /\ e.writes = disk.db.writes + 1
  <2>1. disk.db.writes < MaxWrites /\ MaxWrites \in Nat
    BY DeploymentAssumption DEF Write
  <2> QED
    BY <1>1, <1>2, <2>1 DEF Dbs
<1>4. disk'.code = disk.code /\ disk'.db = e
  BY <1>2 DEF Typed, Values, Disks
<1>5. Placed' /\ EmptyLeft'
  BY <1>1, <1>4 DEF Keeps, Placed, After, Busy, New, EmptyLeft
<1>6. Until(disk', count.runs)
  BY <1>1, <1>3, <1>4, NoDbs DEF Keeps, Aged, Until
<1>7. CASE good' = good
  <2>1. Aged'
    BY <1>1, <1>4, <1>6, <1>7 DEF Keeps, Aged, Runs, Busy
  <2>2. (Aside => Aside') /\ (CodeAside => CodeAside')
    BY <1>1, <1>7, AsideOn
  <2>3. DbKept'
    <3>1. Saved => Saved'
      BY <1>1, <1>7 DEF Saved
    <3>2. GoodOf(good, disk.db) => GoodOf(good, e)
      BY <1>1, <1>3, GoodWritten DEF Typed, Values
    <3>3. Served => Served'
      BY <1>1, <1>4, <1>7, <3>2 DEF Served, Busy
    <3> QED
      BY <2>2, <3>1, <3>3 DEF Keeps, DbKept
  <2>4. CodeKept'
    BY <1>1, <1>4, <1>7, <2>2 DEF Keeps, CodeKept, CodeSaved, CodeServed, Busy
  <2>5. NewDb'
    BY <1>1, <1>3, <1>4, <2>2, NoDbs DEF Keeps, NewDb, Past
  <2> QED
    BY <1>5, <2>1, <2>3, <2>4, <2>5 DEF Keeps
<1>8. CASE /\ good' = [good EXCEPT !.db = disk'.db]
           /\ Promised /\ sysd.proc = good.code /\ disk.db = good.db
  <2>1. good'.code = good.code /\ good'.db = e /\ good \in Goods
    BY <1>4, <1>8 DEF Typed, Values, Goods
  <2>2. Until(good', Runs)
    BY <1>1, <1>3, <1>8, <2>1, NoDbs DEF Keeps, Aged, Until
  <2>3. Aged'
    BY <1>1, <1>4, <1>6, <2>1, <2>2 DEF Keeps, Aged, Runs, Busy
  <2>4. ~(Busy /\ flags.dbCaptured)
    <3> SUFFICES ASSUME Busy, flags.dbCaptured PROVE FALSE
      OBVIOUS
    <3>1. script.seq # "undo" /\ ~before.missed /\ disk.code = good.code
      BY <1>8 DEF Promised, Window, Undoing
    <3>2. ~Past(6)
      BY <1>1, <3>1, Outside DEF Quiet
    <3>3. script.seq = "update" /\ script.at > 12
      BY <3>1, <3>2, Programs DEF Busy, Keeps, Placed, After, Past, Typed, Values, Scripts
    <3>4. good.code = New /\ good.code <= (count.runs - 1) + 1
      BY <1>1, <1>8, <3>1, <3>3 DEF Keeps, Placed, Aged, Until, Runs
    <3> QED
      BY <1>1, <3>4 DEF New
  <2>5. DbKept'
    <3>1. GoodOf(good', disk'.db)
      BY <1>4, <2>1, GoodItself
    <3>2. disk.code \in Releases => disk.code = good.code
      BY <1>8 DEF Promised
    <3> QED
      BY <1>1, <1>4, <2>1, <2>4, <3>1, <3>2 DEF DbKept, Served, Busy
  <2>6. CodeKept'
    BY <1>1, <1>4, <2>1 DEF Keeps, CodeKept, CodeAside, CodeSaved, CodeServed, Busy
  <2>7. ~(Past(1) /\ ~flags.dbPresent /\ ~flags.dbCaptured)
    <3> SUFFICES ASSUME Past(1), ~flags.dbPresent, ~flags.dbCaptured PROVE FALSE
      OBVIOUS
    <3>1. Busy /\ good.db.born <= count.runs - 1
      BY <1>1, <1>8, NoDbs, Programs DEF Past, Busy, Keeps, Aged, Until, Runs
    <3>2. good.db.born = count.runs
      BY <1>1, <1>8, NoDbs DEF Keeps, NewDb
    <3> QED
      BY <1>1, <3>1, <3>2
  <2>8. NewDb'
    BY <1>1, <2>7 DEF NewDb, Past
  <2> QED
    BY <1>5, <2>3, <2>5, <2>6, <2>8 DEF Keeps
<1> QED
  BY <1>7, <1>8 DEF Write

-----------------------------------------------------------------------------
(* The marks, and where the script begins and ends.                        *)

\* The cutover is far from the end of its program.
LEMMA GoesOn ==
  ASSUME Typed, Busy, Advance, In(1) \/ In(7) \/ In(9)
  PROVE  script'.seq = script.seq /\ script'.at = script.at + 1 /\ Busy' /\ script' # Idle
<1>1. script.at < Len(Program[script.seq])
  <2>1. CASE script.seq = "rollback"
    <3>1. script.at \in {1, 7, 9}
      BY <2>1 DEF In
    <3>2. Len(Program[script.seq]) = 16
      BY <2>1, RollbackAt
    <3> QED
      BY <3>1, <3>2
  <2>2. CASE script.seq = "update"
    <3>1. script.at \in {2, 8, 10}
      BY <2>2 DEF In
    <3>2. Len(Program[script.seq]) = 27
      BY <2>2, UpdateAt
    <3> QED
      BY <3>1, <3>2
  <2> QED
    BY <2>1, <2>2 DEF In
<1>2. script'.seq = script.seq /\ script'.at = script.at + 1
  BY <1>1 DEF Advance, Advanced, Typed, Values, Scripts
<1> QED
  BY <1>2, BusyNotIdle, Programs DEF Busy, Idle

\* The capture of a host that has no database has none to lose.
LEMMA KeptCapture == ASSUME Typed, Keeps, Capture PROVE Keeps'
<1>1. /\ Busy /\ Advance /\ Step = "capture"
      /\ UNCHANGED <<disk, sysd, vault, good, count>>
      /\ flags'.codeSaved = flags.codeSaved /\ flags'.dbCaptured = flags.dbCaptured
      /\ flags'.succeeded = flags.succeeded /\ flags'.dbSaved = flags.dbSaved
      /\ flags'.dbPresent = (disk.db # None)
  BY DEF Capture, At, Step, Typed, Values, FlagSets
<1>2. dirs'.cur = dirs.cur /\ dirs'.sel = dirs.sel /\ dirs'.rb.code = None /\ dirs'.rb.db = None
  BY DEF Capture, Typed, Values, Dirs, Empty, Trees
<1>3. script.seq # "undo" /\ In(1) /\ script.at \in Nat
  BY <1>1, MarksAt, UndoUnmarked DEF Marks, Typed, Values, Scripts
<1>4. ~flags.dbCaptured /\ ~flags.codeSaved /\ dirs.cur = Empty
  BY <1>3 DEF In, Keeps, Placed, After
<1>5. script'.seq = script.seq /\ script'.at = script.at + 1 /\ Busy' /\ script' # Idle
  BY <1>1, <1>3, GoesOn
<1>6. Placed'
  BY <1>1, <1>2, <1>3, <1>4, <1>5 DEF In, Keeps, Placed, After, New
<1>7. Aged'
  <2>1. Until(dirs'.rb, count.runs)
    BY <1>2, Outside DEF Until
  <2> QED
    BY <1>1, <1>2, <1>5, <2>1 DEF Keeps, Aged, Runs
<1>8. EmptyLeft'
  BY <1>1, <1>2, <1>4, <1>5, BusyNotIdle DEF Keeps, EmptyLeft
<1>9. (Aside => Aside') /\ (CodeAside => CodeAside')
  BY <1>1, <1>2, AsideOn
<1>10. DbKept' /\ CodeKept'
  BY <1>1, <1>4, <1>5, <1>9
  DEF Keeps, DbKept, Saved, Served, CodeKept, CodeSaved, CodeServed
<1>11. NewDb'
  <2> SUFFICES ASSUME disk.db = None PROVE Aside' /\ disk'.db = None
    BY <1>1 DEF NewDb
  <2>1. CASE Served
    <3>1. good.db = None
      BY <2>1, GoodNone DEF Served, Typed, Values
    <3> QED
      BY <1>1, <1>9, <3>1, NothingAside DEF Keeps
  <2>2. ~Saved
    BY <1>4 DEF Saved
  <2> QED
    BY <1>1, <1>9, <2>1, <2>2 DEF Keeps, DbKept
<1> QED
  BY <1>6, <1>7, <1>8, <1>10, <1>11 DEF Keeps

\* The copy of the database.
LEMMA KeptSaveDb == ASSUME Typed, Keeps, SaveDb PROVE Keeps'
<1>1. /\ Busy /\ Advance /\ Step = "saveDb"
      /\ UNCHANGED <<disk, sysd, vault, good, count>>
      /\ flags'.codeSaved = flags.codeSaved /\ flags'.dbCaptured = TRUE
      /\ flags'.succeeded = flags.succeeded /\ flags'.dbPresent = flags.dbPresent
  BY DEF SaveDb, At, Step, hist, Typed, Values, FlagSets
<1>2. /\ dirs'.cur = dirs.cur /\ dirs'.sel = dirs.sel /\ dirs'.rb.code = dirs.rb.code
      /\ dirs'.rb.db = IF flags.dbPresent THEN disk.db ELSE dirs.rb.db
  BY DEF SaveDb, Typed, Values, Dirs, Content4
<1>3. script.seq # "undo" /\ In(7) /\ script.at \in Nat
  BY <1>1, MarksAt, UndoUnmarked DEF Marks, Typed, Values, Scripts
<1>4. /\ ~flags.dbCaptured /\ ~flags.codeSaved /\ ~flags.succeeded /\ dirs.cur = Empty
  BY <1>1, <1>3 DEF In, Keeps, Placed, After
<1>5. script'.seq = script.seq /\ script'.at = script.at + 1 /\ Busy' /\ script' # Idle
  BY <1>1, <1>3, GoesOn
<1>6. Placed'
  BY <1>1, <1>2, <1>3, <1>4, <1>5 DEF In, Keeps, Placed, After, New
<1>7. Aged'
  <2>1. Until(dirs'.rb, count.runs)
    BY <1>2 DEF Keeps, Aged, Until
  <2> QED
    BY <1>1, <1>2, <1>5, <2>1 DEF Keeps, Aged, Runs
<1>8. EmptyLeft'
  BY <1>1, <1>2, <1>4, <1>5, BusyNotIdle DEF Keeps, EmptyLeft
<1>9. (Aside => Aside') /\ (CodeAside => CodeAside')
  BY <1>1, <1>2, AsideOn
<1>10. DbKept'
  <2>1. CASE Aside
    BY <1>9, <2>1 DEF DbKept
  <2>2. ~Saved
    BY <1>4 DEF Saved
  <2>3. CASE Served /\ flags.dbPresent
    BY <1>1, <1>2, <1>4, <1>5, <2>3 DEF DbKept, Served, Saved
  <2>4. CASE ~flags.dbPresent
    <3>1. Past(1)
      BY <1>3 DEF In, Past
    <3> QED
      BY <1>4, <1>9, <2>4, <3>1 DEF Keeps, NewDb, DbKept
  <2> QED
    BY <2>1, <2>2, <2>3, <2>4 DEF Keeps, DbKept
<1>11. CodeKept' /\ NewDb'
  BY <1>1, <1>2, <1>4, <1>5, <1>9 DEF Keeps, CodeKept, CodeSaved, CodeServed, NewDb
<1> QED
  BY <1>6, <1>7, <1>8, <1>10, <1>11 DEF Keeps

\* The copy of the code.
LEMMA KeptSaveCode == ASSUME Typed, Keeps, SaveCode PROVE Keeps'
<1>1. /\ Busy /\ Advance /\ Step = "saveCode"
      /\ UNCHANGED <<disk, sysd, vault, good, count>>
      /\ flags'.codeSaved = TRUE /\ flags'.dbCaptured = flags.dbCaptured
      /\ flags'.succeeded = flags.succeeded
  BY DEF SaveCode, At, Step, hist, Typed, Values, FlagSets
<1>2. /\ dirs'.cur = dirs.cur /\ dirs'.sel = dirs.sel /\ dirs'.rb.code = disk.code
      /\ dirs'.rb.db = dirs.rb.db
  BY DEF SaveCode, Typed, Values, Dirs, Content4
<1>3. script.seq # "undo" /\ In(9) /\ script.at \in Nat
  BY <1>1, MarksAt, UndoUnmarked DEF Marks, Typed, Values, Scripts
<1>4. /\ flags.dbCaptured /\ ~flags.codeSaved /\ ~flags.succeeded /\ dirs.cur = Empty
  BY <1>1, <1>3 DEF In, Keeps, Placed, After
<1>5. script'.seq = script.seq /\ script'.at = script.at + 1 /\ Busy' /\ script' # Idle
  BY <1>1, <1>3, GoesOn
<1>6. Placed'
  BY <1>1, <1>2, <1>3, <1>4, <1>5 DEF In, Keeps, Placed, After, New
<1>7. Aged'
  <2>1. Until(dirs'.rb, count.runs)
    BY <1>2 DEF Keeps, Aged, Until
  <2> QED
    BY <1>1, <1>2, <1>5, <2>1 DEF Keeps, Aged, Runs
<1>8. EmptyLeft'
  BY <1>1, <1>2, <1>4, <1>5, BusyNotIdle DEF Keeps, EmptyLeft
<1>9. (Aside => Aside') /\ (CodeAside => CodeAside')
  BY <1>1, <1>2, AsideOn
<1>10. DbKept'
  BY <1>1, <1>2, <1>4, <1>5, <1>9, BusyNotIdle DEF Keeps, DbKept, Saved, Served
<1>11. CodeKept' /\ NewDb'
  BY <1>1, <1>2, <1>4, <1>5, <1>9 DEF Keeps, CodeKept, CodeSaved, CodeServed, NewDb
<1> QED
  BY <1>6, <1>7, <1>8, <1>10, <1>11 DEF Keeps

\* The delayed rollback puts aside what it has saved, and takes the snapshot up.
LEMMA KeptSwitch == ASSUME Typed, Keeps, Switch PROVE Keeps'
<1>1. /\ Busy /\ Advance /\ Step = "switch"
      /\ UNCHANGED <<disk, sysd, flags, vault, good, count>>
      /\ dirs'.cur = dirs.rb /\ dirs'.rb = dirs.sel.tree /\ dirs'.sel = dirs.sel
  BY DEF Switch, At, Step, Typed, Values, Dirs
<1>3. script.seq = "rollback" /\ script.at = 15
  BY <1>1, MarksAt, UndoUnmarked DEF Marks
<1>4. /\ flags.dbCaptured /\ flags.codeSaved /\ ~flags.succeeded /\ dirs.cur = Empty
      /\ disk.code = None /\ Empty \in vault.left
  BY <1>1, <1>3 DEF Keeps, Placed, After, EmptyLeft
<1>5. script'.seq = "rollback" /\ script'.at = 16 /\ Busy' /\ script' # Idle
  <2>1. script'.seq = "rollback" /\ script'.at = 16
    BY <1>1, <1>3, RollbackAt DEF Advance, Advanced, Typed, Values, Scripts
  <2> QED
    BY <2>1, Programs DEF Busy, Idle
<1>6. Placed'
  BY <1>1, <1>4, <1>5 DEF Placed, After
<1>7. Aged'
  BY <1>1, <1>3, <1>5 DEF Keeps, Aged, Runs
<1>8. EmptyLeft'
  BY <1>1, <1>4, <1>5 DEF EmptyLeft
<1>9. (Aside \/ Saved => Aside') /\ (CodeAside \/ CodeSaved => CodeAside')
  BY <1>1, <1>4 DEF Aside, Saved, CodeAside, CodeSaved
<1>10. DbKept' /\ CodeKept' /\ NewDb'
  BY <1>1, <1>4, <1>9 DEF Keeps, DbKept, Served, CodeKept, CodeServed, NewDb
<1> QED
  BY <1>6, <1>7, <1>8, <1>10 DEF Keeps

\* A new release, or a restored one, goes into service.
LEMMA KeptInService ==
  ASSUME Typed, Keeps, Busy, script' = Leaves,
         good' = [code |-> disk.code, db |-> disk.db],
         UNCHANGED <<disk, vault>>, count'.runs = count.runs,
         dirs'.rb = dirs.rb, dirs'.cur \in {dirs.cur, Empty},
         script.seq = "rollback" => dirs.cur = Empty
  PROVE  Keeps'
<1>1. ~Busy' /\ script'.seq = "exit" /\ script' # Idle /\ script # Idle
  BY Programs, BusyNotIdle DEF Leaves, Idle, Busy
<1>2. Placed' /\ NewDb'
  BY <1>1 DEF Placed, NewDb, Past
<1>3. Aged'
  BY <1>1 DEF Keeps, Aged, Runs, Until
<1>5. EmptyLeft'
  BY <1>1 DEF Keeps, EmptyLeft
<1>6. DbKept' /\ CodeKept'
  <2>1. GoodOf(good', disk'.db)
    BY GoodItself
  <2> QED
    BY <1>1, <2>1 DEF DbKept, Served, CodeKept, CodeServed
<1> QED
  BY <1>2, <1>3, <1>5, <1>6 DEF Keeps

\* UPDATE_SUCCEEDED=1: the new release is the one in service from here on.
LEMMA KeptSucceed == ASSUME Typed, Keeps, Succeed PROVE Keeps'
<1>1. Busy /\ Step = "succeed" /\ script.seq = "update"
  BY LateAt DEF Succeed, At, Step
<1> QED
  BY <1>1, KeptInService DEF Succeed, Typed, Values, Counts

\* The end of the rollback touches nothing that is kept.
LEMMA KeptVerify == ASSUME Typed, Keeps, Verify PROVE Keeps'
<1>1. /\ Busy /\ script.seq = "undo" /\ UNCHANGED <<disk, sysd, vault, count>>
      /\ script' \in {Leaves, Undo("fail")}
  BY UndoesAt DEF Verify, At, Step
<1>2. ~flags.succeeded
  BY <1>1 DEF Keeps, Placed
<1>3. CASE script' = Leaves /\ good' = [code |-> disk.code, db |-> disk.db]
             /\ dirs' = [dirs EXCEPT !.cur = Empty]
  <2>1. dirs'.rb = dirs.rb /\ dirs'.cur = Empty
    BY <1>3 DEF Typed, Values, Dirs
  <2> QED
    BY <1>1, <1>3, <2>1, KeptInService
<1>4. CASE /\ UNCHANGED <<dirs, good>>
           /\ \/ UNCHANGED flags
              \/ flags' = [flags EXCEPT !.cutover = FALSE, !.finished = TRUE, !.succeeded = FALSE]
  <2>1. /\ flags'.dbPresent = flags.dbPresent /\ flags'.dbCaptured = flags.dbCaptured
        /\ flags'.codeSaved = flags.codeSaved /\ flags'.succeeded = flags.succeeded
        /\ flags'.dbSaved = flags.dbSaved
    BY <1>2, <1>4 DEF Typed, Values, FlagSets
  <2>2. Stays
    BY <1>1, <1>4, <2>1, StoreSame DEF Stays
  <2>3. Goes /\ Unmarked
    BY <1>1, TurnGoes
  <2> QED
    BY <1>1, <2>2, <2>3, KeepsStill
<1> QED
  BY <1>3, <1>4 DEF Verify

\* A script begins with nothing saved.
LEMMA KeptLaunch == ASSUME Typed, Keeps, Launch PROVE Keeps'
<1>1. /\ script = Idle /\ ~Busy /\ UNCHANGED <<disk, sysd, vault, good>>
      /\ count'.runs = count.runs + 1 /\ count.runs \in Nat
      /\ dirs'.rb = dirs.rb /\ dirs'.cur = dirs.cur
  BY Programs DEF Launch, Idle, Busy, Typed, Values, Counts, Dirs
<1>2. /\ ~flags'.dbCaptured /\ ~flags'.codeSaved /\ ~flags'.dbSaved /\ ~flags'.succeeded
  BY DEF Launch, NoFlags
<1>3. /\ script'.at = 1 /\ script'.seq \in {"update", "rollback"} /\ Busy' /\ script' # Idle
      /\ script'.seq = "rollback" => /\ \E i \in DOMAIN vault.store : vault.store[i].id = vault.latest
                                     /\ dirs'.sel = vault.store[Named(vault.latest)]
  <2>1. CASE script' = [Idle EXCEPT !.seq = "update", !.at = 1]
    BY <2>1, Programs DEF Idle, Busy
  <2>2. CASE /\ \E i \in DOMAIN vault.store : vault.store[i].id = vault.latest
             /\ dirs' = [dirs EXCEPT !.sel = vault.store[Named(vault.latest)]]
             /\ script' = [Idle EXCEPT !.seq = "rollback", !.at = 1]
    <3>1. script'.at = 1 /\ script'.seq = "rollback" /\ Busy' /\ script' # Idle
      BY <2>2, Programs DEF Idle, Busy
    <3>2. dirs'.sel = vault.store[Named(vault.latest)]
      BY <2>2 DEF Typed, Values, Dirs
    <3> QED
      BY <2>2, <3>1, <3>2
  <2> QED
    BY <2>1, <2>2 DEF Launch
<1>4. dirs.cur = Empty
  BY <1>1 DEF Keeps, Placed, Idle
<1>5. Placed'
  BY <1>1, <1>2, <1>3, <1>4 DEF Placed, After
<1>6. Aged'
  <2>1. \A n \in Nat : n <= n + 1
    OBVIOUS
  <2>2. Until(disk, count'.runs) /\ Until(dirs.rb, count'.runs)
    BY <1>1, UntilLater DEF Keeps, Aged, Typed, Values, Disks, Dirs, Content4
  <2>3. \A i \in DOMAIN vault.store : Until(vault.store[i].tree, count'.runs)
    <3> SUFFICES ASSUME NEW i \in DOMAIN vault.store
                 PROVE  Until(vault.store[i].tree, count'.runs)
      OBVIOUS
    <3>1. vault.store[i] \in Snapshots
      BY DEF Typed, Values, Vaults
    <3>2. Until(vault.store[i].tree, count.runs)
      BY DEF Keeps, Aged
    <3> QED
      BY <1>1, <3>1, <3>2, UntilLater DEF Snapshots, Content4
  <2>4. script'.seq = "rollback" => Until(dirs'.sel.tree, count'.runs)
    <3>1. (\E i \in DOMAIN vault.store : vault.store[i].id = vault.latest) =>
            Named(vault.latest) \in DOMAIN vault.store
      BY DEF Named
    <3> QED
      BY <1>3, <2>3, <3>1
  <2>5. Until(good', Runs')
    BY <1>1, <1>3 DEF Keeps, Aged, Runs
  <2> QED
    BY <1>1, <2>2, <2>3, <2>4, <2>5 DEF Aged
<1>8. EmptyLeft'
  BY <1>1, <1>3, <1>4 DEF Keeps, EmptyLeft
<1>9. (Aside => Aside') /\ (CodeAside => CodeAside')
  BY <1>1, AsideOn
<1>10. DbKept' /\ CodeKept'
  BY <1>1, <1>2, <1>9 DEF Keeps, DbKept, Saved, Served, CodeKept, CodeSaved, CodeServed
<1>11. NewDb'
  BY <1>3 DEF NewDb, Past
<1> QED
  BY <1>5, <1>6, <1>8, <1>10, <1>11 DEF Keeps

\* A script that ends or is killed leaves its directories, unless it has succeeded.
LEMMA KeptEnds == ASSUME Typed, Keeps, Exit \/ Killed PROVE Keeps'
<1>1. /\ script # Idle /\ script' = Idle /\ UNCHANGED <<disk, flags, good>>
      /\ sysd'.proc = sysd.proc /\ count'.runs = count.runs
      /\ dirs' = [rb |-> Empty, cur |-> Empty, sel |-> Empty]
      /\ vault'.store = vault.store
  BY BusyNotIdle DEF Exit, Killed, hist, Typed, Values, Counts, Sysds, Vaults
<1>2. vault.left \cup {dirs.cur} \subseteq vault'.left
  BY DEF Exit, Killed, Typed, Values, Vaults
<1>3. ~flags.succeeded => dirs.rb \in vault'.left
  BY DEF Exit, Killed, Typed, Values, Vaults
<1>4. ~Busy' /\ script'.seq = "none"
  BY <1>1, Programs DEF Idle, Busy
<1>5. Placed' /\ NewDb'
  BY <1>1, <1>4 DEF Placed, NewDb, Past
<1>6. Aged'
  <2>1. Until(good, Runs')
    BY <1>1, <1>4, GoodUntil DEF Keeps
  <2>2. Until(Empty, count.runs)
    BY Outside DEF Until, Empty, Trees
  <2> QED
    BY <1>1, <1>4, <2>1, <2>2 DEF Keeps, Aged
<1>8. EmptyLeft'
  BY <1>2 DEF Keeps, EmptyLeft
<1>9. (Aside => Aside') /\ (CodeAside => CodeAside')
  BY <1>1, <1>2, AsideOn
<1>10. (Saved => Aside') /\ (CodeSaved => CodeAside')
  BY <1>1, <1>3 DEF Saved, CodeSaved, Aside, CodeAside
<1>11. DbKept' /\ CodeKept'
  BY <1>1, <1>4, <1>9, <1>10 DEF Keeps, DbKept, Served, CodeKept, CodeServed
<1> QED
  BY <1>5, <1>6, <1>8, <1>11 DEF Keeps

-----------------------------------------------------------------------------
(* The old release is kept.                                                *)

\* Of the first host: what is installed is what went into service last.
LEMMA InitKeeps == ASSUME Init PROVE Keeps
<1>1. script = Idle /\ ~Busy /\ script.seq = "none"
  BY Programs DEF Init, Idle, Busy
<1>2. /\ flags = NoFlags /\ dirs = [rb |-> Empty, cur |-> Empty, sel |-> Empty]
      /\ vault = [store |-> << >>, latest |-> 0, left |-> {}]
      /\ good = [code |-> disk.code, db |-> disk.db] /\ count.runs = 0
      /\ sysd.proc \in {1, None} /\ disk.code \in {None, 1}
      /\ disk.db = None \/ disk.db = [schema |-> Schema[1], born |-> 0, writes |-> 0]
  BY DEF Init
<1>3. Placed /\ EmptyLeft /\ NewDb
  BY <1>1, <1>2 DEF Placed, EmptyLeft, NewDb, Past
<1>4. Until(disk, 0) /\ Until(good, 0) /\ Until(Empty, 0)
  <2>1. disk.db \notin {None, Torn} => disk.db.born = 0
    BY <1>2
  <2> QED
    BY <1>2, <2>1, Outside DEF Until, Empty, Trees
<1>5. Aged
  BY <1>1, <1>2, <1>4 DEF Aged, Runs
<1>7. GoodOf(good, disk.db)
  BY <1>2, GoodItself
<1>8. DbKept /\ CodeKept
  BY <1>1, <1>2, <1>7 DEF DbKept, Served, CodeKept, CodeServed
<1> QED
  BY <1>3, <1>5, <1>8 DEF Keeps

\* Every step keeps it.
LEMMA NextKeeps == ASSUME Inv, Keeps, [Next]_vars PROVE Keeps'
<1>1. Typed /\ Quiet /\ Stored
  BY DEF Inv
<1>2. CASE Next
  BY <1>1, <1>2, KeptForward, KeptCopy, KeptStore, KeptBetween, KeptMigrate, KeptClear,
     KeptInstall, KeptUndo, KeptPartly, KeptStarted, KeptWrite, KeptCapture, KeptSaveDb,
     KeptSaveCode, KeptSwitch, KeptSucceed, KeptVerify, KeptLaunch, KeptEnds
  DEF Next
<1>3. CASE UNCHANGED vars
  BY <1>3 DEF vars, Keeps, Placed, After, Busy, New, Aged, Runs, EmptyLeft, DbKept, Aside,
     Saved, Served, CodeKept, CodeAside, CodeSaved, CodeServed, NewDb, Past
<1> QED
  BY <1>2, <1>3

\* What the invariant keeps is in a directory that a recovery finds.
LEMMA KeepsHolds == ASSUME Typed, Keeps PROVE OldReleaseKept
<1>1. vault.left \cup {dirs.cur, dirs.rb, Content(disk)} \subseteq Kept
  BY DEF Kept
<1>2. Content(disk).code = disk.code /\ Content(disk).db = disk.db
  BY DEF Content, Trees
<1>3. \E t \in Kept : t.code = good.code
  BY <1>1, <1>2 DEF Keeps, CodeKept, CodeAside, CodeSaved, CodeServed
<1>4. \E u \in Kept : GoodOf(good, u.db)
  BY <1>1, <1>2 DEF Keeps, DbKept, Aside, Saved, Served
<1>5. \A u \in Kept : GoodOf(good, u.db) => GoodDb(u.db)
  <2>1. good.code \in Releases /\ good.db \notin {None, Torn} =>
          Migrated(good.db, good.code) = Started(good)
    BY DEF Migrated, Started
  <2> QED
    BY <2>1 DEF GoodOf, GoodDb
<1> QED
  BY <1>3, <1>4, <1>5 DEF OldReleaseKept

\* At every moment, after a kill at any step as well, the code of the last release in
\* service is whole in some directory, and so is its database with every write it
\* acknowledged (deploy.sh: what is removed or replaced has been copied before).
THEOREM OldKept == Spec => []OldReleaseKept
<1>1. Init => Inv /\ Keeps
  BY InitInv, InitKeeps
<1>2. Inv /\ Keeps /\ [Next]_vars => (Inv /\ Keeps)'
  BY NextInv, NextKeeps
<1>3. Inv /\ Keeps => OldReleaseKept
  BY KeepsHolds DEF Inv
<1> QED
  BY <1>1, <1>2, <1>3, PTL DEF Spec

-----------------------------------------------------------------------------
(* What a rollback that reports success has brought back.                  *)

\* Where each action is taken and how it leaves its step.
LEMMA Guards ==
  /\ EnsureCaddy => Step = "ensureCaddy" /\ Advance
  /\ Capture => Step = "capture" /\ Advance
  /\ StopUnit => Step \in DOMAIN Stopping /\ Advance
  /\ MissPanel => Step = "stopPanel" /\ ~Undoing /\ Advance
  /\ StopHealthCheck => Step = "stopHealthCheck" /\ Advance
  /\ StopBackup => Step = "stopBackup" /\ Advance
  /\ SaveDb => Step = "saveDb" /\ Advance
  /\ PrepareState => Step = "prepareState" /\ Advance
  /\ SaveCode => Step = "saveCode" /\ Advance
  /\ ClearCode => Step = "clear" /\ Advance
  /\ Install => Step = "install" /\ Advance
  /\ Migrate => Step = "migrate" /\ Advance
  /\ WriteConf => Step = "writeConf" /\ Advance
  /\ WriteSite => Step = "writeSite" /\ (Advance \/ script' = Undo("fail"))
  /\ StartService => Step = "startPanel" /\ Advance
  /\ WaitForBackend => Step = "waitPanel" /\ Advance
  /\ StartUnit => Step \in {"startCaddy", "startHealthTimer", "startBackups"} /\ Advance
  /\ StartHealthCheck => Step = "startHealthCheck" /\ Advance
  /\ HealthCheckEnds => Step = "waitHealthCheck" /\ Advance
  /\ CopySnapshot => /\ Step = "copySnapshot"
                     /\ Advance \/ script' = [script EXCEPT !.at = @ + Len(Persist)]
  /\ SumSnapshot => Step = "sumSnapshot" /\ Advance
  /\ NameLatest => Step = "nameLatest" /\ Advance
  /\ Rotate => Step = "rotate" /\ Advance
  /\ Succeed => Step = "succeed" /\ script' = Leaves
  /\ Switch => Step = "switch" /\ Advance
  /\ LoadMetadata => Step = "load" /\ Advance
  /\ Disable => Step = "disable" /\ Advance
  /\ WipeCode => Step = "wipeCode" /\ Advance
  /\ CopyCode => Step = "copyCode" /\ Advance
  /\ WipeDb => Step = "wipeDb" /\ Advance
  /\ CopyDb => Step = "copyDb" /\ Advance
  /\ RestoreFiles => Step \in {"restoreConf", "restoreSite"} /\ Advance
  /\ Enable => Step = "enable" /\ Reports
  /\ RestorePanel => Step = "restorePanel" /\ Reports
  /\ RestoreUnits => Step \in {"restoreCaddy", "restoreTimers"} /\ Reports
  /\ Verify => Step = "verify"
<1>2. /\ EnsureCaddy => Step = "ensureCaddy" /\ Advance
      /\ Capture => Step = "capture" /\ Advance
      /\ StopUnit => Step \in DOMAIN Stopping /\ Advance
      /\ MissPanel => Step = "stopPanel" /\ ~Undoing /\ Advance
      /\ StopHealthCheck => Step = "stopHealthCheck" /\ Advance
      /\ StopBackup => Step = "stopBackup" /\ Advance
      /\ SaveDb => Step = "saveDb" /\ Advance
      /\ PrepareState => Step = "prepareState" /\ Advance
      /\ SaveCode => Step = "saveCode" /\ Advance
      /\ ClearCode => Step = "clear" /\ Advance
  BY DEF EnsureCaddy, Capture, StopUnit, MissPanel, Asks, StopHealthCheck, StopBackup, SaveDb,
         PrepareState, SaveCode, ClearCode, At
<1>3. /\ Install => Step = "install" /\ Advance
      /\ Migrate => Step = "migrate" /\ Advance
      /\ WriteConf => Step = "writeConf" /\ Advance
      /\ WriteSite => Step = "writeSite" /\ (Advance \/ script' = Undo("fail"))
      /\ StartService => Step = "startPanel" /\ Advance
      /\ WaitForBackend => Step = "waitPanel" /\ Advance
      /\ StartUnit => Step \in {"startCaddy", "startHealthTimer", "startBackups"} /\ Advance
      /\ StartHealthCheck => Step = "startHealthCheck" /\ Advance
      /\ HealthCheckEnds => Step = "waitHealthCheck" /\ Advance
  BY DEF Install, Migrate, WriteConf, WriteSite, StartService, WaitForBackend, StartUnit,
         StartHealthCheck, HealthCheckEnds, At
<1>4. /\ CopySnapshot => /\ Step = "copySnapshot"
                         /\ Advance \/ script' = [script EXCEPT !.at = @ + Len(Persist)]
      /\ SumSnapshot => Step = "sumSnapshot" /\ Advance
      /\ NameLatest => Step = "nameLatest" /\ Advance
      /\ Rotate => Step = "rotate" /\ Advance
      /\ Succeed => Step = "succeed" /\ script' = Leaves
      /\ Switch => Step = "switch" /\ Advance
      /\ LoadMetadata => Step = "load" /\ Advance
  BY DEF CopySnapshot, SumSnapshot, NameLatest, Rotate, Succeed, Switch, LoadMetadata, At
<1>5. /\ Disable => Step = "disable" /\ Advance
      /\ WipeCode => Step = "wipeCode" /\ Advance
      /\ CopyCode => Step = "copyCode" /\ Advance
      /\ WipeDb => Step = "wipeDb" /\ Advance
      /\ CopyDb => Step = "copyDb" /\ Advance
      /\ RestoreFiles => Step \in {"restoreConf", "restoreSite"} /\ Advance
      /\ Verify => Step = "verify"
  BY DEF Disable, WipeCode, CopyCode, WipeDb, CopyDb, RestoreFiles, Verify, At
<1>6. /\ Enable => Step = "enable" /\ Reports
      /\ RestorePanel => Step = "restorePanel" /\ Reports
      /\ RestoreUnits => Step \in {"restoreCaddy", "restoreTimers"} /\ Reports
  BY RestoresReport DEF Enable, RestorePanel, RestoreUnits, Restoring, At
<1> QED
  BY <1>2, <1>3, <1>4, <1>5, <1>6

\* Where the steps of the rollback are.
Undone == {"stopHealthTimer", "stopBackupTimer", "stopBackup", "stopPanel", "stopCaddy",
           "disable", "wipeCode", "copyCode", "wipeDb", "copyDb", "restoreConf", "restoreSite",
           "enable", "restorePanel", "restoreCaddy", "restoreTimers", "verify"}

\* Where each step of the rollback stands.
LEMMA UndoesWhere ==
  ASSUME Typed, Undoing
  PROVE  /\ Busy /\ script.at \in 1 .. 17 /\ Step \in Undone
         /\ Step = "stopHealthTimer" <=> script.at = 1
         /\ Step = "stopBackupTimer" <=> script.at = 2
         /\ Step = "stopBackup" <=> script.at = 3
         /\ Step = "stopPanel" <=> script.at = 4
         /\ Step = "stopCaddy" <=> script.at = 5
         /\ Step = "disable" <=> script.at = 6
         /\ Step = "wipeCode" <=> script.at = 7
         /\ Step = "copyCode" <=> script.at = 8
         /\ Step = "wipeDb" <=> script.at = 9
         /\ Step = "copyDb" <=> script.at = 10
         /\ Step = "restoreConf" <=> script.at = 11
         /\ Step = "restoreSite" <=> script.at = 12
         /\ Step = "enable" <=> script.at = 13
         /\ Step = "restorePanel" <=> script.at = 14
         /\ Step = "restoreCaddy" <=> script.at = 15
         /\ Step = "restoreTimers" <=> script.at = 16
         /\ Step = "verify" <=> script.at = 17
<1>1. Busy /\ script.at \in 1 .. 17 /\ Step = Program["undo"][script.at]
  BY UndoAt, Programs DEF Typed, Step, Undoing, Busy
<1> QED
  BY <1>1, UndoAt DEF Undone

\* Those of a delayed rollback and of an update.
LEMMA RollsWhere ==
  ASSUME Typed, script.seq = "rollback"
  PROVE  /\ Busy /\ script.at \in 1 .. 16
         /\ Step = "capture" <=> script.at = 1
         /\ Step = "saveDb" <=> script.at = 7
         /\ Step = "prepareState" <=> script.at = 8
         /\ Step = "saveCode" <=> script.at = 9
         /\ Step = "clear" <=> script.at = 10
         /\ Step = "copySnapshot" <=> script.at = 11
         /\ Step = "switch" <=> script.at = 15
         /\ Step = "load" <=> script.at = 16
         /\ Step \notin {"ensureCaddy", "install", "writeConf", "startPanel", "succeed"}
         /\ Step \in Undone => Step \in Stops
<1>1. Busy /\ script.at \in 1 .. 16 /\ Step = Program["rollback"][script.at]
  BY RollbackAt, Programs DEF Typed, Step, Busy
<1> QED
  BY <1>1, RollbackAt DEF Undone, Stops

\* Where the steps of an update stand.
LEMMA UpdatesWhere ==
  ASSUME Typed, script.seq = "update"
  PROVE  /\ Busy /\ script.at \in 1 .. 27
         /\ Step = "ensureCaddy" <=> script.at = 1
         /\ Step = "capture" <=> script.at = 2
         /\ Step = "saveDb" <=> script.at = 8
         /\ Step = "prepareState" <=> script.at = 9
         /\ Step = "saveCode" <=> script.at = 10
         /\ Step = "clear" <=> script.at = 11
         /\ Step = "install" <=> script.at = 12
         /\ Step = "migrate" <=> script.at = 13
         /\ Step = "writeConf" <=> script.at = 14
         /\ Step = "startPanel" <=> script.at = 15
         /\ Step = "copySnapshot" <=> script.at = 23
         /\ Step = "succeed" <=> script.at = 27
         /\ Step \notin {"switch", "load"}
         /\ Step \in Undone => Step \in Stops
<1>1. Busy /\ script.at \in 1 .. 27 /\ Step = Program["update"][script.at]
  BY UpdateAt, Programs DEF Typed, Step, Busy
<1>2. /\ Step \in Undone => Step \in Stops
      /\ Step \notin {"switch", "load"}
  BY <1>1, UpdateAt, SMTT(60) DEF Undone, Stops
<1> QED
  BY <1>1, <1>2, UpdateAt, SMTT(60)

\* Every step but the last goes on to the next one.
LEMMA Onward ==
  ASSUME Typed, Busy, Advance \/ Reports, Step \notin {"load", "succeed", "verify"}
  PROVE  /\ Busy' /\ script'.seq = script.seq /\ script'.at = script.at + 1
         /\ Advance => script'.failed = script.failed
<1>1. script.at < Len(Program[script.seq])
  <2>1. CASE script.seq = "update"
    BY <2>1, UpdatesWhere, UpdateAt
  <2>2. CASE script.seq = "rollback"
    BY <2>2, RollsWhere, RollbackAt
  <2>3. CASE script.seq = "undo"
    BY <2>3, UndoesWhere, UndoAt DEF Undoing
  <2> QED
    BY <2>1, <2>2, <2>3, Programs DEF Busy
<1>2. script \in Scripts /\ Advanced = [script EXCEPT !.at = script.at + 1]
  BY <1>1 DEF Typed, Values, Advanced
<1>3. /\ Advanced \in Scripts /\ Advanced.seq = script.seq
      /\ Advanced.at = script.at + 1 /\ Advanced.failed = script.failed
  BY <1>2 DEF Scripts
<1>4. CASE Advance
  BY <1>3, <1>4 DEF Advance, Busy
<1>5. CASE Reports
  <2>1. PICK b \in BOOLEAN : script' = [Advanced EXCEPT !.failed = b]
    BY <1>5 DEF Reports
  <2> QED
    BY <1>3, <2>1 DEF Scripts, Busy, Advance
<1> QED
  BY <1>4, <1>5

\* A rollback has reported success; a script after its capture, or such a rollback; and
\* a rollback past its step k that nothing has failed in, or one that has reported it.
Gone == script.seq = "exit" /\ flags.finished
\* A cutover is under way or undone; step k of the rollback is done.
Cut == (Busy /\ flags.cutover) \/ Gone
Done(k) == (Undoing /\ script.at > k /\ ~script.failed) \/ Gone

\* The cutover begins with the capture and ends with the script.
Marked ==
  /\ script.seq \in {"update", "rollback"} => (flags.cutover <=> After(1))
  /\ Undoing => flags.cutover
  /\ Busy => ~flags.finished

\* How a step leaves the script: it stays, goes on, turns to the rollback or ends.
Rests == script' = script /\ flags' = flags
Passes ==
  /\ Busy /\ Busy' /\ script'.seq = script.seq
  /\ script'.at \in Nat /\ script'.at > script.at
  /\ script.seq # "undo" => script'.at = script.at + 1 \/ Step = "copySnapshot"
  /\ script.seq = "undo" => script'.at = script.at + 1 /\ (~script'.failed => ~script.failed)
  /\ flags'.finished = flags.finished
  /\ IF Step = "capture" THEN Capture /\ flags'.cutover ELSE flags'.cutover = flags.cutover
Turns ==
  /\ Busy /\ flags.cutover /\ script'.seq = "undo" /\ script'.at = 1 /\ Busy'
  /\ flags' = flags \/ LoadMetadata
  /\ flags'.cutover = flags.cutover /\ flags'.finished = flags.finished
Ends == ~Busy' /\ ~Gone'
Reaches == Verify /\ Step = "verify" /\ ~script.failed /\ Gone' /\ ~Busy'

\* A step that succeeds takes the script to the next one.
LEMMA AdvancePasses ==
  ASSUME Typed, Busy, Advance, Step \notin {"load", "succeed", "verify"},
         flags'.finished = flags.finished,
         IF Step = "capture" THEN Capture /\ flags'.cutover ELSE flags'.cutover = flags.cutover
  PROVE  Passes
<1>1. script.at \in Nat
  BY DEF Typed, Values, Scripts
<1> QED
  BY <1>1, Onward DEF Passes

\* What has not failed had not failed before.
LEMMA Unfailed ==
  ASSUME Typed, Busy, NEW f, AdvanceUnless(f), Step \notin {"load", "succeed", "verify"},
         ~script'.failed
  PROVE  ~f /\ ~script.failed
<1>1. script.at < Len(Program[script.seq])
  <2>1. CASE script.seq = "update"
    BY <2>1, UpdatesWhere, UpdateAt
  <2>2. CASE script.seq = "rollback"
    BY <2>2, RollsWhere, RollbackAt
  <2>3. CASE script.seq = "undo"
    BY <2>3, UndoesWhere, UndoAt DEF Undoing
  <2> QED
    BY <2>1, <2>2, <2>3, Programs DEF Busy
<1>2. script \in Scripts /\ Advanced = [script EXCEPT !.at = script.at + 1]
  BY <1>1 DEF Typed, Values, Advanced
<1>3. Advanced \in Scripts /\ Advanced.failed = script.failed
  BY <1>2 DEF Scripts
<1>4. script'.failed = (script.failed \/ f)
  BY <1>3 DEF AdvanceUnless, Scripts
<1> QED
  BY <1>4

\* So does one that reports a failure.
LEMMA ReportPasses ==
  ASSUME Typed, Busy, NEW f, AdvanceUnless(f), Step \notin {"load", "succeed", "verify", "capture"},
         flags' = flags
  PROVE  Passes
<1>1. Reports
  BY DEF AdvanceUnless, Reports
<1>2. script.at \in Nat
  BY DEF Typed, Values, Scripts
<1> QED
  BY <1>1, <1>2, Onward, Unfailed DEF Passes

\* A step that fails after the capture finds the cutover begun.
LEMMA BegunAt ==
  ASSUME Typed, Marked, Busy, Step \notin {"ensureCaddy", "capture"}
  PROVE  flags.cutover
<1>1. CASE script.seq = "update"
  BY <1>1, UpdatesWhere DEF Marked, After
<1>2. CASE script.seq = "rollback"
  BY <1>2, RollsWhere DEF Marked, After
<1>3. CASE script.seq = "undo"
  BY <1>3 DEF Marked, Undoing
<1> QED
  BY <1>1, <1>2, <1>3, Programs DEF Busy

\* A failure or a signal after the cutover turns to the rollback.
LEMMA TurnTurns ==
  ASSUME Busy, flags.cutover, flags' = flags, script' \in {Undo("trap"), Undo("fail")}
  PROVE  Turns
<1>1. script'.seq = "undo" /\ script'.at = 1
  BY DEF Undo
<1>2. Busy'
  BY <1>1, Programs DEF Busy
<1> QED
  BY <1>1, <1>2 DEF Turns

\* Without a cutover the script ends and has finished no rollback.
LEMMA LeaveEnds ==
  ASSUME Marked, Busy, script' \in {Leaves, Idle}, flags'.finished = flags.finished
  PROVE  Ends
BY Programs DEF Ends, Leaves, Idle, Gone, Marked, Busy

\* Every step leaves the script in one of these ways.
LEMMA Moves ==
  ASSUME Typed, Marked, Next
  PROVE  Launch \/ Rests \/ Passes \/ Turns \/ Ends \/ Reaches
<1>1. CASE AutoRestart \/ PanelRestarts \/ Write \/ HealthCheckStarts \/ HealthCheckProbes
           \/ HealthCheckRecovers \/ HealthCheckReturns \/ BackupTimerFires \/ BackupRuns \/ Partly
  BY <1>1 DEF AutoRestart, PanelRestarts, Write, HealthCheckStarts, HealthCheckProbes,
              HealthCheckRecovers, HealthCheckReturns, BackupTimerFires, BackupRuns, Partly,
              shell, Rests
<1>2. CASE Launch
  BY <1>2
<1>3. CASE Exit \/ Killed
  <2>1. script'.seq = "none"
    BY <1>3 DEF Exit, Killed, Idle
  <2> QED
    BY <2>1, Programs DEF Ends, Busy, Gone
<1>4. CASE Interrupted
  <2>1. CASE flags.cutover
    BY <1>4, <2>1, TurnTurns DEF Interrupted, shell
  <2>2. CASE ~flags.cutover
    BY <1>4, <2>2, LeaveEnds DEF Interrupted, shell
  <2> QED
    BY <2>1, <2>2
<1>5. CASE Fails
  <2>1. Busy /\ Step \notin {"ensureCaddy", "capture"}
    BY <1>5 DEF Fails, FailSteps, Step
  <2> QED
    BY <1>5, <2>1, BegunAt, TurnTurns DEF Fails, shell
<1>6. CASE Succeed
  <2>1. Busy /\ script' = Leaves /\ flags'.finished = flags.finished
    BY <1>6 DEF Succeed, At, Step, Typed, Values, FlagSets
  <2> QED
    BY <2>1, LeaveEnds
<1>7. CASE Verify
  <2>1. Busy /\ Step = "verify" /\ Undoing /\ flags.cutover
    BY <1>7, UndoesAt DEF Verify, At, Step, Marked, Undoing
  <2>2. CASE UNCHANGED flags
    BY <1>7, <2>1, <2>2, TurnTurns, LeaveEnds DEF Verify
  <2>3. CASE ~script.failed /\ script' = Leaves /\ flags'.finished
    BY <1>7, <2>1, <2>3, Programs DEF Reaches, Leaves, Gone, Busy
  <2>4. flags' = [flags EXCEPT !.cutover = FALSE, !.finished = TRUE,
                               !.succeeded = script.by = "op"] => flags'.finished
    BY DEF Typed, Values, FlagSets
  <2> QED
    BY <1>7, <2>2, <2>3, <2>4 DEF Verify
<1>8. CASE LoadMetadata
  <2>1. Busy /\ Step = "load" /\ script.seq = "rollback" /\ script.at = 16 /\ Advance
    BY <1>8, LateAt DEF LoadMetadata, At, Step
  <2>2. script'.seq = "undo" /\ script'.at = 1 /\ Busy'
    <3>1. Busy' /\ script'.at \in 1 .. Len(Program[script'.seq])
          /\ \/ script'.seq = "undo" /\ script'.at = 1
             \/ script'.seq = script.seq /\ script'.at = script.at + 1
      BY <2>1, Advances
    <3>2. ASSUME script'.seq = script.seq, script'.at = script.at + 1 PROVE FALSE
      <4>1. 17 \in 1 .. Len(Program["rollback"])
        BY <2>1, <3>1, <3>2
      <4> QED
        BY <4>1, RollbackAt
    <3> QED
      BY <3>1, <3>2
  <2>3. flags'.cutover = flags.cutover /\ flags'.finished = flags.finished
    BY <1>8 DEF LoadMetadata, Typed, Values, FlagSets
  <2> QED
    BY <1>8, <2>1, <2>2, <2>3, BegunAt DEF Turns
<1>9. CASE WriteSite
  <2>1. Busy /\ Step = "writeSite" /\ flags' = flags
        /\ (Advance \/ script' = Undo("fail"))
    BY <1>9, Guards DEF WriteSite, Step, shell
  <2> QED
    BY <2>1, AdvancePasses, BegunAt, TurnTurns
<1>10. CASE CopySnapshot
  <2>1. Busy /\ Step = "copySnapshot" /\ flags' = flags
        /\ (Advance \/ script' = [script EXCEPT !.at = @ + Len(Persist)])
    BY <1>10, Guards DEF CopySnapshot, Step
  <2>2. CASE Advance
    BY <2>1, <2>2, AdvancePasses
  <2>3. CASE script' = [script EXCEPT !.at = @ + Len(Persist)]
    <3>1. /\ Busy' /\ script'.seq = script.seq /\ script'.at = script.at + 4
          /\ script.seq # "undo" /\ script.at \in Nat
      BY <2>1, <2>3, Skipped, CopiesAt DEF Typed, Values, Scripts
    <3> QED
      BY <2>1, <3>1 DEF Passes
  <2> QED
    BY <2>1, <2>2, <2>3
<1>11. CASE EnsureCaddy \/ Capture \/ StopUnit \/ MissPanel \/ StopHealthCheck \/ StopBackup
            \/ SaveDb \/ PrepareState \/ SaveCode \/ ClearCode
  <2>1. Busy /\ Advance /\ Step \notin {"load", "succeed", "verify"}
        /\ (Step = "capture" => Capture) /\ (Capture => Step = "capture")
    BY <1>11, Guards DEF Step, Stopping
  <2>2. /\ flags'.finished = flags.finished
        /\ IF Step = "capture" THEN flags'.cutover ELSE flags'.cutover = flags.cutover
    BY <1>11, <2>1 DEF Typed, Values, FlagSets, EnsureCaddy, Capture, StopUnit, MissPanel,
       StopHealthCheck, StopBackup, SaveDb, PrepareState, SaveCode, ClearCode, shell
  <2> QED
    BY <2>1, <2>2, AdvancePasses
<1>12. CASE Install \/ Migrate \/ WriteConf \/ StartService \/ WaitForBackend
            \/ StartUnit \/ StartHealthCheck \/ HealthCheckEnds
  <2>1. Busy /\ Advance /\ Step \notin {"load", "succeed", "verify", "capture"}
    BY <1>12, Guards DEF Step
  <2>2. flags' = flags
    BY <1>12 DEF Install, Migrate, WriteConf, StartService, WaitForBackend,
            StartUnit, StartHealthCheck, HealthCheckEnds, shell
  <2> QED
    BY <2>1, <2>2, AdvancePasses
<1>13. CASE SumSnapshot \/ NameLatest \/ Rotate \/ Switch
            \/ Disable \/ WipeCode \/ CopyCode \/ WipeDb \/ CopyDb \/ RestoreFiles
  <2>1. Busy /\ Advance /\ Step \notin {"load", "succeed", "verify", "capture"}
    BY <1>13, Guards DEF Step
  <2>2. flags' = flags
    BY <1>13 DEF SumSnapshot, NameLatest, Rotate, Switch, Disable, WipeCode, CopyCode, WipeDb,
            CopyDb, RestoreFiles, shell
  <2> QED
    BY <2>1, <2>2, AdvancePasses
<1>14. CASE Enable \/ RestorePanel \/ RestoreUnits
  <2>1. Busy /\ Step \notin {"load", "succeed", "verify", "capture"}
    BY <1>14, RestoresReport
  <2>2. flags' = flags
    BY <1>14 DEF Enable, RestorePanel, RestoreUnits, shell
  <2>3. \A f : AdvanceUnless(f) => Passes
    BY <2>1, <2>2, ReportPasses
  <2> QED
    BY <1>14, <2>3 DEF Enable, RestorePanel, RestoreUnits
<1>15. CASE StepFails
  <2>1. Undoing /\ Busy /\ Step \notin {"load", "succeed", "verify", "capture"}
    BY <1>15, UndoesWhere DEF StepFails, Undone
  <2>2. script' = [Advanced EXCEPT !.failed = TRUE] /\ flags' = flags
    BY <1>15 DEF StepFails, shell
  <2>3. Reports /\ script'.failed
    BY <2>1, <2>2, AdvancedTyped DEF Reports, Scripts
  <2>4. script.at \in Nat
    BY DEF Typed, Values, Scripts
  <2>5. Busy' /\ script'.seq = script.seq /\ script'.at = script.at + 1
    BY <2>1, <2>3, Onward
  <2>6. Passes
    BY <2>1, <2>2, <2>3, <2>4, <2>5 DEF Passes, Undoing
  <2> QED
    BY <2>6
<1> QED
  BY <1>1, <1>2, <1>3, <1>4, <1>5, <1>6, <1>7, <1>8, <1>9, <1>10, <1>11, <1>12, <1>13,
     <1>14, <1>15 DEF Next

-----------------------------------------------------------------------------
(* What each step leaves alone.                                            *)

\* Equal in the fields of S.
Same(d, e, S) == \A x \in S : d[x] = e[x]

\* The middle of a copy or a removal leaves one tree torn.
LEMMA PartlyTears ==
  ASSUME Typed, Partly
  PROVE  /\ UNCHANGED <<sysd, script, flags, was, before, raced, count>>
         /\ vault'.store = vault.store
         /\ \/ /\ Step \in {"clear", "install", "wipeCode"} /\ UNCHANGED dirs /\ disk'.code = Torn
               /\ Step = "wipeCode" => flags.codeSaved
               /\ Same(disk', disk, {"db", "conf", "site", "data"})
            \/ /\ Step \in {"writeConf", "restoreConf"} /\ UNCHANGED dirs
               /\ disk'.conf = Torn /\ Same(disk', disk, {"code", "db", "site", "marker", "data"})
            \/ /\ Step \in {"writeSite", "restoreSite"} /\ UNCHANGED dirs
               /\ Same(disk', disk, {"code", "db", "conf", "marker", "data"})
            \/ /\ Step = "copyDb" /\ flags.dbSaved /\ UNCHANGED dirs
               /\ Same(disk', disk, {"code", "conf", "site", "marker", "data"})
            \/ /\ Step = "saveDb" /\ flags.dbPresent /\ UNCHANGED disk /\ dirs'.sel = dirs.sel
               /\ Same(dirs'.rb, dirs.rb, {"code", "conf", "site"})
            \/ /\ Step = "saveCode" /\ UNCHANGED disk /\ dirs'.sel = dirs.sel
               /\ Same(dirs'.rb, dirs.rb, {"db", "conf", "site"})
            \/ UNCHANGED <<disk, dirs>>
<1>1. UNCHANGED <<sysd, script, flags, was, before, raced, count>> /\ vault'.store = vault.store
  BY DEF Partly, hist, Typed, Values, Vaults
<1>2. CASE Step \in DOMAIN Writes /\ UNCHANGED dirs
  <2>1. Step \in DOMAIN Writes /\ Step \notin DOMAIN Saves /\ ~At("nameLatest")
    BY <1>2 DEF Writes, Saves, At
  <2>2. PICK m \in BOOLEAN :
          /\ m # disk.marker => Step \in {"clear", "wipeCode", "install"}
          /\ disk' = [disk EXCEPT ![Writes[Step]] = Torn, !.marker = m]
    BY <2>1 DEF Partly
  <2>3. /\ Step = "wipeCode" => flags.codeSaved
        /\ Step = "copyDb" => flags.dbSaved
    BY <2>1 DEF Partly
  <2>4. disk \in Disks
    BY DEF Typed, Values
  <2>5. CASE Step \in {"clear", "install", "wipeCode"}
    <3>1. disk' = [disk EXCEPT !["code"] = Torn, !.marker = m]
      <4>1. Writes[Step] = "code"
        BY <2>5 DEF Writes
      <4> QED
        BY <2>2, <2>5, <4>1
    <3>2. disk'.code = Torn /\ Same(disk', disk, {"db", "conf", "site", "data"})
      BY <2>4, <3>1 DEF Disks, Same
    <3> QED
      BY <1>1, <1>2, <2>3, <2>5, <3>2
  <2>6. CASE Step \in {"writeConf", "restoreConf"}
    <3>1. disk' = [disk EXCEPT !["conf"] = Torn, !.marker = m] /\ m = disk.marker
      <4>1. Writes[Step] = "conf"
        BY <2>6 DEF Writes
      <4> QED
        BY <2>2, <2>6, <4>1
    <3>2. disk'.conf = Torn /\ Same(disk', disk, {"code", "db", "site", "marker", "data"})
      BY <2>4, <3>1 DEF Disks, Same
    <3> QED
      BY <1>1, <1>2, <2>6, <3>2
  <2>7. CASE Step \in {"writeSite", "restoreSite"}
    <3>1. disk' = [disk EXCEPT !["site"] = Torn, !.marker = m] /\ m = disk.marker
      <4>1. Writes[Step] = "site"
        BY <2>7 DEF Writes
      <4> QED
        BY <2>2, <2>7, <4>1
    <3>2. Same(disk', disk, {"code", "db", "conf", "marker", "data"})
      BY <2>4, <3>1 DEF Disks, Same
    <3> QED
      BY <1>1, <1>2, <2>7, <3>2
  <2>8. CASE Step = "copyDb"
    <3>1. disk' = [disk EXCEPT !["db"] = Torn, !.marker = m] /\ m = disk.marker
      BY <2>2, <2>8 DEF Writes
    <3>2. Same(disk', disk, {"code", "conf", "site", "marker", "data"})
      BY <2>4, <3>1 DEF Disks, Same
    <3> QED
      BY <1>1, <1>2, <2>3, <2>8, <3>2
  <2> QED
    BY <2>1, <2>5, <2>6, <2>7, <2>8 DEF Writes
<1>3. CASE Step \in DOMAIN Saves /\ UNCHANGED disk
           /\ dirs' = [dirs EXCEPT !.rb[Saves[Step]] = Torn]
           /\ (Step = "saveDb" => flags.dbPresent)
  <2>1. dirs \in Dirs
    BY DEF Typed, Values
  <2>2. CASE Step = "saveDb"
    <3>1. dirs'.sel = dirs.sel /\ Same(dirs'.rb, dirs.rb, {"code", "conf", "site"})
      BY <1>3, <2>1, <2>2 DEF Saves, Dirs, Content4, Same
    <3> QED
      BY <1>1, <1>3, <2>2, <3>1
  <2>3. CASE Step = "saveCode"
    <3>1. dirs'.sel = dirs.sel /\ Same(dirs'.rb, dirs.rb, {"db", "conf", "site"})
      BY <1>3, <2>1, <2>3 DEF Saves, Dirs, Content4, Same
    <3> QED
      BY <1>1, <1>3, <2>3, <3>1
  <2> QED
    BY <1>3, <2>2, <2>3 DEF Saves
<1>4. CASE UNCHANGED <<disk, dirs>>
  BY <1>1, <1>4
<1> QED
  BY <1>2, <1>3, <1>4 DEF Partly

\* What starts the panel lets the installed release migrate the database.
LEMMA LaunchedLeaves ==
  ASSUME Typed, NEW s \in Sysds, StartPanel(s) \/ Launched(s)
  PROVE  /\ Same(disk', disk, {"code", "conf", "site", "marker", "data"})
         /\ \/ disk'.db = disk.db
            \/ disk.code \in Releases /\ disk'.db = Migrated(disk.db, disk.code)
         /\ sysd'.on = s.on /\ sysd'.enabled = s.enabled /\ sysd'.caddy = s.caddy
         /\ s.proc # None => sysd'.proc # None
<1>1. CASE disk' = disk /\ sysd' = s
  BY <1>1 DEF Same
<1>2. CASE disk' = disk /\ sysd' = [s EXCEPT !.proc = Failing]
  BY <1>2, Outside DEF Same, Sysds
<1>3. CASE /\ disk.code \in Releases /\ sysd' = [s EXCEPT !.proc = disk.code]
           /\ disk' = [disk EXCEPT !.db = Migrated(@, disk.code)]
  BY <1>3, Outside DEF Same, Sysds, Disks, Typed, Values
<1> QED
  BY <1>1, <1>2, <1>3 DEF StartPanel, Launched

\* The database is as it was, or migrated by the installed release, or written to.
Grown ==
  \/ disk'.db = disk.db
  \/ disk.code \in Releases /\ disk'.db = Migrated(disk.db, disk.code)
  \/ Write

\* Which steps change what is installed.
DiskOn ==
  /\ disk'.code # disk.code =>
       Step \in {"clear", "install", "wipeCode"} \/ (Step = "copyCode" /\ (CopyCode \/ StepFails))
  /\ disk'.code # disk.code /\ Step \in {"clear", "install"} =>
       disk'.code \in {None, Torn} \/ Install
  /\ ~flags.codeSaved /\ Step \notin {"clear", "install"} =>
       /\ disk'.code = disk.code
       /\ disk.marker => disk'.marker \/ (Step = "copyCode" /\ ~flags.oldInstall)
  /\ disk'.marker # disk.marker =>
       Step \in {"prepareState", "clear", "install", "wipeCode", "copyCode"}
  /\ disk'.conf # disk.conf => Step \in {"writeConf", "restoreConf"}
  /\ Step = "writeConf" /\ disk'.conf # disk.conf => disk'.conf # None
  /\ disk'.site # disk.site => Step \in {"writeSite", "restoreSite"}
  /\ Grown \/ Step \in {"wipeDb", "copyDb"}
  /\ ~flags.dbSaved /\ (~flags.dbCaptured \/ Step # "wipeDb") => Grown
  /\ disk.data => disk'.data

\* What leaves the disk alone changes nothing installed.
LEMMA SameDiskOn == ASSUME UNCHANGED disk PROVE DiskOn
BY DEF DiskOn, Grown

\* A start of the panel changes at most the database.
LEMMA LaunchDiskOn ==
  ASSUME Typed, NEW s \in Sysds, StartPanel(s) \/ Launched(s)
  PROVE  DiskOn
BY LaunchedLeaves DEF DiskOn, Grown, Same

\* DiskOn holds of every step.
LEMMA DiskFrame == ASSUME Typed, Next PROVE DiskOn
<1>1. CASE HealthCheckStarts \/ HealthCheckProbes \/ HealthCheckReturns \/ BackupTimerFires \/ Launch \/ Exit
           \/ Interrupted \/ Fails \/ Killed \/ EnsureCaddy \/ Capture \/ StopUnit
           \/ MissPanel \/ StopHealthCheck \/ StopBackup \/ SaveDb \/ SaveCode \/ WaitForBackend
  BY <1>1, SameDiskOn
  DEF HealthCheckStarts, HealthCheckProbes, HealthCheckReturns, BackupTimerFires, Launch, Exit,
      Interrupted, Fails, Killed, EnsureCaddy, Capture, StopUnit, MissPanel, StopHealthCheck,
      StopBackup, SaveDb, SaveCode, WaitForBackend
<1>2. CASE StartUnit \/ StartHealthCheck \/ HealthCheckEnds \/ CopySnapshot \/ SumSnapshot
           \/ NameLatest \/ Rotate \/ Succeed \/ Switch \/ LoadMetadata \/ Disable
           \/ Enable \/ RestoreUnits \/ Verify
  BY <1>2, SameDiskOn
  DEF StartUnit, StartHealthCheck, HealthCheckEnds, CopySnapshot, SumSnapshot,
      NameLatest, Rotate, Succeed, Switch, LoadMetadata, Disable, Enable, RestoreUnits, Verify
<1>3. CASE AutoRestart \/ PanelRestarts \/ HealthCheckRecovers \/ BackupRuns \/ StartService
           \/ RestorePanel
  <2>1. sysd \in Sysds /\ Enabled(sysd, "panel") \in Sysds
    BY DEF Typed, Values, Sysds, Enabled, Units
  <2> QED
    BY <1>3, <2>1, LaunchDiskOn, SameDiskOn
    DEF AutoRestart, PanelRestarts, HealthCheckRecovers, BackupRuns, StartService, RestorePanel
<1>4. CASE Write
  BY <1>4 DEF Write, DiskOn, Grown, Typed, Values, Disks
<1>5. CASE Migrate
  BY <1>5 DEF Migrate, DiskOn, Grown, Typed, Values, Disks
<1>6. CASE Partly
  BY <1>6, PartlyTears, Outside DEF DiskOn, Grown, Same
<1>7. CASE PrepareState \/ ClearCode \/ Install
  BY <1>7 DEF PrepareState, ClearCode, Install, At, DiskOn, Grown, Typed, Values, Disks
<1>8. CASE WriteConf \/ WriteSite
  BY <1>8, NewTyped, Outside
  DEF WriteConf, WriteSite, At, DiskOn, Grown, Typed, Values, Disks
<1>9. CASE WipeCode \/ CopyCode \/ StepFails
  BY <1>9 DEF WipeCode, CopyCode, StepFails, At, DiskOn, Grown, Typed, Values, Disks
<1>10. CASE WipeDb \/ CopyDb \/ RestoreFiles
  BY <1>10 DEF WipeDb, CopyDb, RestoreFiles, At, DiskOn, Grown, Typed, Values, Disks
<1> QED
  BY <1>1, <1>2, <1>3, <1>4, <1>5, <1>6, <1>7, <1>8, <1>9, <1>10 DEF Next

\* Which steps change what the script has saved and knows.
ShellOn ==
  /\ dirs'.rb = dirs.rb \/ Exit \/ Killed \/ Capture \/ SaveDb \/ SaveCode \/ Switch \/ Partly
  /\ dirs'.sel = dirs.sel \/ Launch \/ Exit \/ Killed
  /\ was' = was \/ Launch \/ Capture \/ LoadMetadata
  /\ \/ Launch \/ LoadMetadata \/ Capture
     \/ flags'.oldInstall = flags.oldInstall /\ flags'.dbPresent = flags.dbPresent
  /\ flags'.codeSaved = flags.codeSaved \/ Launch \/ SaveCode
  /\ flags'.dbCaptured = flags.dbCaptured \/ Launch \/ SaveDb
  /\ flags'.dbSaved = flags.dbSaved \/ Launch \/ SaveDb \/ LoadMetadata

\* ShellOn holds of every step.
LEMMA ShellFrame == ASSUME Typed, Next PROVE ShellOn
<1>1. CASE AutoRestart \/ PanelRestarts \/ Write \/ HealthCheckStarts \/ HealthCheckProbes
           \/ HealthCheckRecovers \/ HealthCheckReturns \/ BackupTimerFires \/ BackupRuns
           \/ Interrupted \/ Fails \/ StopUnit \/ MissPanel
           \/ StopHealthCheck \/ StopBackup \/ PrepareState \/ ClearCode
  BY <1>1 DEF AutoRestart, PanelRestarts, Write, HealthCheckStarts, HealthCheckProbes,
              HealthCheckRecovers, HealthCheckReturns, BackupTimerFires, BackupRuns,
              Interrupted, Fails, StopUnit, MissPanel, StopHealthCheck,
              StopBackup, PrepareState, ClearCode, shell, ShellOn
<1>2. CASE Install \/ Migrate \/ WriteConf \/ WriteSite \/ StartService \/ WaitForBackend
           \/ StartUnit \/ StartHealthCheck \/ HealthCheckEnds \/ CopySnapshot
           \/ SumSnapshot \/ NameLatest \/ Rotate
  BY <1>2 DEF Install, Migrate, WriteConf, WriteSite, StartService, WaitForBackend, StartUnit,
              StartHealthCheck, HealthCheckEnds, CopySnapshot, SumSnapshot, NameLatest, Rotate,
              shell, ShellOn
<1>3. CASE Disable \/ WipeCode \/ CopyCode \/ WipeDb \/ CopyDb \/ RestoreFiles \/ Enable
           \/ RestorePanel \/ RestoreUnits \/ StepFails
  BY <1>3 DEF Disable, WipeCode, CopyCode, WipeDb, CopyDb, RestoreFiles, Enable, RestorePanel,
              RestoreUnits, StepFails, shell, ShellOn
<1>4. CASE Launch \/ Exit \/ Killed \/ Capture \/ SaveDb \/ SaveCode \/ Partly
  BY <1>4 DEF Launch, Exit, Killed, Capture, SaveDb, SaveCode, Partly, ShellOn,
              Typed, Values, FlagSets, Dirs
<1>5. CASE EnsureCaddy \/ Succeed \/ Switch \/ LoadMetadata \/ Verify
  BY <1>5 DEF EnsureCaddy, Succeed, Switch, LoadMetadata, Verify, ShellOn,
              Typed, Values, FlagSets, Dirs
<1> QED
  BY <1>1, <1>2, <1>3, <1>4, <1>5 DEF Next

\* And which change what a rollback has to bring back.
BeforeOn ==
  /\ \/ Capture \/ Switch \/ LoadMetadata
     \/ /\ before'.was = before.was /\ before'.marker = before.marker
        /\ Same(before'.tree, before.tree, {"code", "conf", "site"})
  /\ before'.tree.db = before.tree.db \/ Write \/ Capture \/ Switch
  /\ before.stray => before'.stray \/ Capture
  /\ raced => raced' \/ Launch
  /\ count'.runs = count.runs \/ Launch

\* What leaves the history alone changes nothing of it.
LEMMA SameBeforeOn == ASSUME UNCHANGED <<before, raced, count>> PROVE BeforeOn
BY DEF BeforeOn, Same

\* BeforeOn holds of every step.
LEMMA BeforeFrame == ASSUME Typed, Next PROVE BeforeOn
<1>1. CASE AutoRestart \/ HealthCheckStarts \/ HealthCheckProbes \/ HealthCheckReturns
           \/ BackupTimerFires \/ Exit \/ StopUnit \/ StopHealthCheck \/ StopBackup \/ PrepareState \/ ClearCode
           \/ EnsureCaddy \/ SaveDb \/ SaveCode \/ Partly
  <2>1. UNCHANGED <<before, raced, count>>
    BY <1>1 DEF AutoRestart, HealthCheckStarts, HealthCheckProbes, HealthCheckReturns,
                BackupTimerFires, Exit, StopUnit, StopHealthCheck, EnsureCaddy, SaveDb, SaveCode, Partly,
                StopBackup, PrepareState, ClearCode, hist
  <2> QED
    BY <2>1, SameBeforeOn
<1>2. CASE Install \/ Migrate \/ WriteConf \/ WriteSite \/ StartService \/ WaitForBackend
           \/ StartUnit \/ StartHealthCheck \/ HealthCheckEnds \/ SumSnapshot \/ NameLatest
           \/ Rotate
  <2>1. UNCHANGED <<before, raced, count>>
    BY <1>2 DEF Install, Migrate, WriteConf, WriteSite, StartService, WaitForBackend, StartUnit,
                StartHealthCheck, HealthCheckEnds, SumSnapshot, NameLatest, Rotate, hist
  <2> QED
    BY <2>1, SameBeforeOn
<1>3. CASE Disable \/ WipeCode \/ CopyCode \/ WipeDb \/ CopyDb \/ RestoreFiles \/ Enable
           \/ RestorePanel \/ RestoreUnits
  <2>1. UNCHANGED <<before, raced, count>>
    BY <1>3 DEF Disable, WipeCode, CopyCode, WipeDb, CopyDb, RestoreFiles, Enable, RestorePanel,
                RestoreUnits, hist
  <2> QED
    BY <2>1, SameBeforeOn
<1>4. CASE PanelRestarts \/ HealthCheckRecovers \/ BackupRuns
  BY <1>4 DEF PanelRestarts, HealthCheckRecovers, BackupRuns, StartedByUnit, BeforeOn, Same
<1>5. CASE Launch \/ Interrupted \/ Fails \/ Killed \/ CopySnapshot \/ Succeed \/ Verify
  BY <1>5 DEF Launch, Interrupted, Fails, Faulty, Killed, CopySnapshot, Succeed, Verify,
              BeforeOn, Same, Typed, Values, Counts
<1>6. CASE Write \/ StepFails \/ MissPanel
  <2>1. before \in Befores /\ count \in Counts
    BY DEF Typed, Values
  <2>2. /\ before'.was = before.was /\ before'.marker = before.marker
        /\ Same(before'.tree, before.tree, {"code", "conf", "site"})
        /\ before.stray => before'.stray
        /\ before'.tree.db = before.tree.db \/ Write
    BY <1>6, <2>1 DEF Write, StepFails, MissPanel, Befores, Content4, Same
  <2>3. raced' = raced /\ count'.runs = count.runs
    BY <1>6, <2>1 DEF Write, StepFails, MissPanel, Counts
  <2> QED
    BY <2>2, <2>3 DEF BeforeOn
<1>7. CASE Capture \/ Switch \/ LoadMetadata
  BY <1>7 DEF Capture, Switch, LoadMetadata, BeforeOn, Typed, Values, Befores
<1> QED
  BY <1>1, <1>2, <1>3, <1>4, <1>5, <1>6, <1>7 DEF Next

\* The steps that stop a unit, and those that start one.
Stoppers == {"stopHealthTimer", "stopBackupTimer", "stopPanel", "stopCaddy"}
Starters == {"startPanel", "startCaddy", "startHealthTimer", "startBackups"}

\* A unit that starts or restarts the panel is there, and touches no other.
LEMMA UnitStarts ==
  ASSUME Typed, AutoRestart \/ PanelRestarts \/ HealthCheckRecovers \/ BackupRuns
  PROVE  /\ sysd'.on = sysd.on /\ sysd'.enabled = sysd.enabled /\ sysd'.caddy = sysd.caddy
         /\ sysd.proc # None /\ sysd'.proc = None => disk.conf = None
         /\ sysd.proc = None /\ sysd'.proc # None =>
              disk.conf # None /\ (Undoing \/ script.seq = "exit" => raced')
<1>1. sysd \in Sysds
  BY DEF Typed, Values
<1>2. CASE AutoRestart
  BY <1>1, <1>2, LaunchedLeaves, Outside DEF AutoRestart
<1>3. CASE PanelRestarts
  <2>1. CASE Launched(sysd)
    BY <1>1, <1>3, <2>1, LaunchedLeaves, Outside DEF PanelRestarts
  <2>2. CASE disk.conf = None /\ Stop({"panel"})
    BY <1>1, <2>2 DEF Stop, Sysds
  <2> QED
    BY <1>3, <2>1, <2>2 DEF PanelRestarts
<1>4. CASE HealthCheckRecovers
  <2>1. CASE UNCHANGED sysd
    BY <2>1
  <2>2. CASE disk.conf # None /\ Launched(sysd) /\ StartedByUnit
    BY <1>1, <2>2, LaunchedLeaves DEF StartedByUnit
  <2>3. CASE Serving /\ sysd' = [sysd EXCEPT !.proc = Restarting]
    BY <1>1, <2>3, Outside DEF Serving, Sysds
  <2> QED
    BY <1>4, <2>1, <2>2, <2>3 DEF HealthCheckRecovers
<1>5. CASE BackupRuns
  <2>1. /\ sysd'.on = sysd.on /\ sysd'.enabled = sysd.enabled /\ sysd'.caddy = sysd.caddy
        /\ sysd.proc # None => sysd'.proc # None
    BY <1>1, <1>5, LaunchedLeaves DEF BackupRuns
  <2>2. sysd.proc = None /\ (Undoing \/ script.seq = "exit") => raced'
    BY <1>5 DEF BackupRuns, StartedByUnit, Down
  <2>3. sysd' = sysd \/ disk.conf # None
    BY <1>5 DEF BackupRuns, StartPanel
  <2> QED
    BY <2>1, <2>2, <2>3
<1> QED
  BY <1>2, <1>3, <1>4, <1>5

\* Which steps change what runs.
SysdOn ==
  /\ sysd'.caddy = sysd.caddy \/ (Step = "ensureCaddy" /\ sysd'.caddy)
  /\ \/ sysd'.on = sysd.on \/ Exit
     \/ Step \in Stoppers \cup Starters \cup {"ensureCaddy", "restoreCaddy", "restoreTimers"}
  /\ \/ sysd'.enabled = sysd.enabled \/ Exit
     \/ Step \in Starters \cup {"ensureCaddy", "disable", "enable"}

\* What leaves systemd alone starts and stops nothing.
LEMMA SameSysdOn == ASSUME UNCHANGED sysd PROVE SysdOn
BY DEF SysdOn

\* SysdOn holds of every step.
LEMMA SysdFrame == ASSUME Typed, Next PROVE SysdOn
<1>1. CASE HealthCheckStarts \/ HealthCheckProbes \/ HealthCheckReturns \/ BackupTimerFires
           \/ Launch \/ Write \/ MissPanel \/ Interrupted \/ Fails \/ Killed \/ Capture \/ Partly \/ PrepareState \/ ClearCode
           \/ StopHealthCheck \/ StopBackup \/ SaveDb \/ SaveCode \/ WaitForBackend
  BY <1>1, SameSysdOn
  DEF HealthCheckStarts, HealthCheckProbes, HealthCheckReturns, BackupTimerFires, Launch, Write,
      MissPanel, Interrupted, Fails, Killed, Capture, Partly, PrepareState, ClearCode,
      StopHealthCheck, StopBackup, SaveDb, SaveCode, WaitForBackend
<1>2. CASE StartHealthCheck \/ HealthCheckEnds \/ CopySnapshot \/ SumSnapshot \/ Install
           \/ NameLatest \/ Rotate \/ Succeed \/ Switch \/ LoadMetadata \/ Migrate
           \/ WriteConf \/ WriteSite \/ Verify \/ StepFails
  BY <1>2, SameSysdOn
  DEF StartHealthCheck, HealthCheckEnds, CopySnapshot, SumSnapshot, Install,
      NameLatest, Rotate, Succeed, Switch, LoadMetadata, Migrate,
      WriteConf, WriteSite, Verify, StepFails
<1>3. CASE WipeCode \/ CopyCode \/ WipeDb \/ CopyDb \/ RestoreFiles
  BY <1>3, SameSysdOn DEF WipeCode, CopyCode, WipeDb, CopyDb, RestoreFiles
<1>4. sysd \in Sysds /\ Enabled(sysd, "panel") \in Sysds
  BY DEF Typed, Values, Sysds, Enabled, Units
<1>5. CASE AutoRestart \/ PanelRestarts \/ HealthCheckRecovers \/ BackupRuns
  BY <1>5, UnitStarts DEF SysdOn
<1>8. CASE StartService
  <2>1. sysd'.caddy = sysd.caddy /\ sysd'.on = sysd.on
    BY <1>4, <1>8, LaunchedLeaves DEF StartService, Enabled, Sysds
  <2> QED
    BY <1>8, <2>1, Guards DEF SysdOn, Starters
<1>9. CASE RestorePanel
  <2>1. CASE StartPanel(sysd)
    <3>1. sysd'.caddy = sysd.caddy /\ sysd'.on = sysd.on /\ sysd'.enabled = sysd.enabled
      BY <1>4, <2>1, LaunchedLeaves
    <3> QED
      BY <1>9, <3>1, Guards DEF SysdOn
  <2>2. CASE Stop({u \in {"panel"} : KeptDown(u)})
    <3>1. sysd'.caddy = sysd.caddy /\ sysd'.on = sysd.on /\ sysd'.enabled = sysd.enabled
      BY <1>4, <2>2 DEF Stop, Sysds
    <3> QED
      BY <1>9, <3>1, Guards DEF SysdOn
  <2> QED
    BY <1>9, <2>1, <2>2 DEF RestorePanel
<1>10. CASE EnsureCaddy
  BY <1>4, <1>10, Guards DEF EnsureCaddy, SysdOn, Sysds
<1>11. CASE Exit
  BY <1>4, <1>11 DEF Exit, SysdOn, Sysds
<1>12. CASE StopUnit
  <2>1. Step \in Stoppers
    BY <1>12, Guards DEF Stopping, Stoppers
  <2>2. /\ sysd'.caddy = sysd.caddy /\ sysd'.enabled = sysd.enabled
        /\ Step # "stopPanel" => sysd'.proc = sysd.proc
    BY <1>4, <1>12, <2>1 DEF StopUnit, Stop, Stopping, Stoppers, Sysds
  <2> QED
    BY <2>1, <2>2 DEF SysdOn
<1>13. CASE StartUnit
  <2>1. Step \in Starters
    BY <1>13, Guards DEF Starters
  <2>2. sysd'.caddy = sysd.caddy /\ sysd'.proc = sysd.proc
    BY <1>4, <1>13 DEF StartUnit, Enabled, Sysds
  <2> QED
    BY <2>1, <2>2 DEF SysdOn
<1>14. CASE Disable \/ Enable
  <2>1. /\ sysd'.caddy = sysd.caddy /\ sysd'.on = sysd.on /\ sysd'.proc = sysd.proc
        /\ Step \in {"disable", "enable"}
    BY <1>4, <1>14, Guards DEF Disable, Enable, Sysds
  <2> QED
    BY <2>1 DEF SysdOn
<1>15. CASE RestoreUnits
  <2>1. /\ sysd'.caddy = sysd.caddy /\ sysd'.enabled = sysd.enabled /\ sysd'.proc = sysd.proc
        /\ Step \in {"restoreCaddy", "restoreTimers"}
    BY <1>4, <1>15, Guards DEF RestoreUnits, Sysds
  <2> QED
    BY <2>1 DEF SysdOn
<1> QED
  BY <1>1, <1>2, <1>3, <1>5, <1>8, <1>9, <1>10, <1>11, <1>12, <1>13, <1>14, <1>15
  DEF Next

\* What takes the rollback from one step to the next.
LEMMA Undoes ==
  ASSUME Typed, Next, Undoing, script'.seq = "undo", script'.at = script.at + 1
  PROVE  \/ StepFails
         \/ StopUnit /\ Step \in Stoppers
         \/ StopBackup /\ Step = "stopBackup"
         \/ Disable /\ Step = "disable"
         \/ WipeCode /\ Step = "wipeCode"
         \/ CopyCode /\ Step = "copyCode"
         \/ WipeDb /\ Step = "wipeDb"
         \/ CopyDb /\ Step = "copyDb"
         \/ RestoreFiles /\ Step \in {"restoreConf", "restoreSite"}
         \/ Enable /\ Step = "enable"
         \/ RestorePanel /\ Step = "restorePanel"
         \/ RestoreUnits /\ Step \in {"restoreCaddy", "restoreTimers"}
<1>1. Busy /\ Step \in Undone /\ script.at \in Nat /\ script.at > 0
  BY UndoesWhere
<1>2. script' # script /\ script'.at # 1
  BY <1>1
<1>3. ~(AutoRestart \/ PanelRestarts \/ Write \/ HealthCheckStarts \/ HealthCheckProbes
        \/ HealthCheckRecovers \/ HealthCheckReturns \/ BackupTimerFires \/ BackupRuns \/ Partly)
  BY <1>2 DEF AutoRestart, PanelRestarts, Write, HealthCheckStarts, HealthCheckProbes,
              HealthCheckRecovers, HealthCheckReturns, BackupTimerFires, BackupRuns, Partly
<1>4. ~(Launch \/ Exit \/ Killed \/ Fails \/ Interrupted)
  BY <1>2 DEF Launch, Exit, Killed, Fails, Interrupted, Undoing, Idle, Leaves, Undo
<1>5. ~Verify
  BY <1>2 DEF Verify, Leaves, Undo, Idle
<1>6. ~(EnsureCaddy \/ Capture \/ StopHealthCheck \/ SaveDb \/ PrepareState \/ SaveCode
        \/ ClearCode \/ Install \/ Migrate \/ WriteConf \/ WriteSite \/ StartService
        \/ WaitForBackend \/ StartUnit \/ StartHealthCheck \/ HealthCheckEnds \/ MissPanel)
  BY <1>1, Guards DEF Undone
<1>7. ~(CopySnapshot \/ SumSnapshot \/ NameLatest \/ Rotate \/ Succeed \/ Switch
        \/ LoadMetadata)
  BY <1>1, Guards DEF Undone
<1>8. StopUnit => Step \in Stoppers
  BY Guards DEF Stopping, Stoppers
<1> QED
  BY <1>3, <1>4, <1>5, <1>6, <1>7, <1>8, Guards DEF Next

\* A step of a rollback is past only when it was taken without a failure.
LEMMA DoneBefore ==
  ASSUME Typed, Marked, Next, NEW k \in 1 .. 16, Done(k)'
  PROVE  \/ Done(k) /\ ~Exit
         \/ /\ Undoing /\ script.at = k /\ ~script.failed
            /\ script'.seq = "undo" /\ script'.at = script.at + 1 /\ ~script'.failed
<1>1. script.at \in Nat
  BY DEF Typed, Values, Scripts
<1>2. ~Exit
  BY Programs DEF Exit, Idle, Done, Undoing, Gone
<1>3. CASE Launch
  <2>1. script'.seq \in {"update", "rollback"}
    BY <1>3 DEF Launch, Idle
  <2> QED
    BY <2>1 DEF Done, Undoing, Gone
<1>4. CASE Rests
  BY <1>2, <1>4 DEF Rests, Done, Undoing, Gone
<1>5. CASE Passes
  <2>1. ~Gone'
    BY <1>5, Programs DEF Passes, Gone, Busy
  <2>2. script'.seq = "undo" /\ script'.at > k /\ ~script'.failed
    BY <2>1 DEF Done, Undoing
  <2> QED
    BY <1>1, <1>2, <1>5, <2>2 DEF Passes, Done, Undoing
<1>6. CASE Turns
  BY <1>6 DEF Turns, Done, Undoing, Gone
<1>7. CASE Ends
  BY <1>7, Programs DEF Ends, Done, Undoing, Busy
<1>8. CASE Reaches
  <2>1. Undoing /\ script.at = 17
    BY <1>8, UndoesAt, UndoesWhere DEF Reaches, Verify, At, Step, Undoing
  <2> QED
    BY <1>2, <1>8, <2>1 DEF Reaches, Done
<1> QED
  BY <1>3, <1>4, <1>5, <1>6, <1>7, <1>8, Moves

\* The cutover has begun before, or begins with the capture.
LEMMA CutBefore ==
  ASSUME Typed, Marked, Next, Cut'
  PROVE  /\ (Cut /\ Step # "capture") \/ Capture
         /\ ~Exit /\ ~Killed /\ ~Launch
         /\ Busy' => Busy
<1>1. ~Exit /\ ~Killed /\ ~Launch
  BY Programs DEF Exit, Killed, Launch, Idle, NoFlags, Cut, Gone, Busy
<1>2. flags.cutover /\ Busy => Step # "capture"
  <2>1. CASE script.seq = "update"
    BY <2>1, UpdatesWhere DEF Marked, After
  <2>2. CASE script.seq = "rollback"
    BY <2>2, RollsWhere DEF Marked, After
  <2>3. CASE script.seq = "undo"
    BY <2>3, UndoesWhere DEF Undoing, Undone
  <2> QED
    BY <2>1, <2>2, <2>3, Programs DEF Busy
<1>3. CASE Rests
  <2>1. Cut
    BY <1>3 DEF Rests, Cut, Gone, Busy
  <2>2. Gone => Step # "capture"
    BY Programs DEF Gone, Step, Busy
  <2>3. Busy' => Busy
    BY <1>3 DEF Rests, Busy
  <2> QED
    BY <1>1, <1>2, <2>1, <2>2, <2>3 DEF Cut
<1>4. CASE Passes
  <2>1. flags'.cutover
    BY <1>4, Programs DEF Passes, Cut, Gone, Busy
  <2> QED
    BY <1>1, <1>2, <1>4, <2>1 DEF Passes, Cut
<1>5. CASE Turns
  BY <1>1, <1>2, <1>5 DEF Turns, Cut
<1>6. CASE Ends
  BY <1>6 DEF Ends, Cut
<1>7. CASE Reaches
  <2>1. Undoing /\ Busy /\ flags.cutover /\ ~Busy'
    BY <1>7, UndoesAt DEF Reaches, Verify, At, Step, Undoing, Marked
  <2> QED
    BY <1>1, <1>2, <2>1 DEF Cut
<1> QED
  BY <1>1, <1>3, <1>4, <1>5, <1>6, <1>7, Moves

\* Every step keeps Marked: CUTOVER_STARTED is set by the capture alone.
LEMMA MarkedInv == ASSUME Typed, Marked, Next PROVE Marked'
<1>1. CASE Launch
  <2>1. /\ script'.seq \in {"update", "rollback"} /\ script'.at = 1
        /\ ~flags'.cutover /\ ~flags'.finished
    BY <1>1 DEF Launch, Idle, NoFlags
  <2> QED
    BY <2>1 DEF Marked, After, Undoing
<1>2. CASE Rests
  BY <1>2 DEF Rests, Marked, After, Undoing, Busy
<1>3. CASE Passes
  <2>1. script'.seq = script.seq /\ script.at \in Nat /\ Busy
    BY <1>3 DEF Passes, Typed, Values, Scripts
  <2>2. CASE script.seq = "update"
    <3>0. /\ script.at \in Nat /\ script'.at \in Nat /\ script'.at > script.at
          /\ Step = "capture" <=> script.at = 2
          /\ script.at < 2 => script'.at = script.at + 1
          /\ flags.cutover <=> script.at > 2
      BY <1>3, <2>1, <2>2, UpdatesWhere DEF Passes, Marked, After
    <3>1. flags'.cutover <=> script'.at > 2
      <4>1. CASE Step = "capture"
        BY <1>3, <3>0, <4>1 DEF Passes
      <4>2. CASE Step # "capture"
        <5>1. flags'.cutover <=> flags.cutover
          BY <1>3, <4>2 DEF Passes
        <5>2. script'.at > 2 <=> script.at > 2
          BY <3>0, <4>2
        <5> QED
          BY <3>0, <5>1, <5>2
      <4> QED
        BY <4>1, <4>2
    <3> QED
      BY <1>3, <2>2, <3>1 DEF Passes, Marked, After, Undoing
  <2>3. CASE script.seq = "rollback"
    <3>0. /\ script.at \in Nat /\ script'.at \in Nat /\ script'.at > script.at
          /\ Step = "capture" <=> script.at = 1
          /\ script.at < 1 => script'.at = script.at + 1
          /\ flags.cutover <=> script.at > 1
      BY <1>3, <2>1, <2>3, RollsWhere DEF Passes, Marked, After
    <3>1. flags'.cutover <=> script'.at > 1
      <4>1. CASE Step = "capture"
        BY <1>3, <3>0, <4>1 DEF Passes
      <4>2. CASE Step # "capture"
        <5>1. flags'.cutover <=> flags.cutover
          BY <1>3, <4>2 DEF Passes
        <5>2. script'.at > 1 <=> script.at > 1
          BY <3>0, <4>2
        <5> QED
          BY <3>0, <5>1, <5>2
      <4> QED
        BY <4>1, <4>2
    <3> QED
      BY <1>3, <2>3, <3>1 DEF Passes, Marked, After, Undoing
  <2>4. CASE script.seq = "undo"
    <3>1. Step # "capture"
      BY <2>4, UndoesWhere DEF Undoing, Undone
    <3> QED
      BY <1>3, <2>4, <3>1 DEF Passes, Marked, After, Undoing
  <2> QED
    BY <2>1, <2>2, <2>3, <2>4, Programs DEF Busy
<1>4. CASE Turns
  BY <1>4 DEF Turns, Marked, Undoing, After
<1>5. CASE Ends \/ Reaches
  BY <1>5, Programs DEF Ends, Reaches, Marked, Busy, Undoing
<1> QED
  BY <1>1, <1>2, <1>3, <1>4, <1>5, Moves

-----------------------------------------------------------------------------
(* What is captured and what becomes of it.                                *)

\* What the script holds of the host is what it has to bring back.
Held ==
  Cut => /\ was = before.was /\ flags.oldInstall = before.marker
         /\ dirs.rb.conf = before.tree.conf /\ dirs.rb.site = before.tree.site

\* Every step keeps Held: the capture notes the host, and load_snapshot another one.
LEMMA HeldInv == ASSUME Typed, Placed, Marked, Held, Next PROVE Held'
<1> SUFFICES ASSUME Cut'
             PROVE  /\ was' = before'.was /\ flags'.oldInstall = before'.marker
                    /\ dirs'.rb.conf = before'.tree.conf /\ dirs'.rb.site = before'.tree.site
  BY DEF Held
<1>1. (Cut \/ Capture) /\ ~Exit /\ ~Killed /\ ~Launch
  BY CutBefore
<1>2. CASE Capture
  <2>1. /\ before'.was = was' /\ before'.marker = disk.marker
        /\ before'.tree = Content(disk)
    BY <1>2 DEF Capture
  <2>2. flags'.oldInstall = disk.marker
    BY <1>2 DEF Capture, Typed, Values, FlagSets
  <2>3. dirs'.rb = [Empty EXCEPT !.conf = disk.conf, !.site = disk.site]
    BY <1>2 DEF Capture, Typed, Values, Dirs
  <2>4. dirs'.rb.conf = disk.conf /\ dirs'.rb.site = disk.site
    BY <2>3 DEF Empty, Trees
  <2>5. Content(disk).conf = disk.conf /\ Content(disk).site = disk.site
    BY DEF Content, Trees
  <2> QED
    BY <2>1, <2>2, <2>4, <2>5
<1>3. CASE Switch
  <2>1. /\ dirs'.rb = dirs.sel.tree /\ before'.tree = dirs.sel.tree
        /\ before'.was = before.was /\ before'.marker = before.marker
        /\ UNCHANGED <<was, flags>>
    BY <1>3 DEF Switch, Typed, Values, Dirs, Befores
  <2>2. ~Capture
    BY <1>3, Guards
  <2> QED
    BY <1>1, <2>1, <2>2 DEF Held
<1>4. CASE LoadMetadata
  <2>1. Cut
    BY <1>1, <1>4, Guards
  <2>2. /\ was' = dirs.sel.was /\ before'.was = was' /\ before'.marker = TRUE
        /\ before'.tree = before.tree /\ dirs' = dirs /\ flags'.oldInstall = TRUE
    BY <1>4 DEF LoadMetadata, Typed, Values, Befores, FlagSets
  <2> QED
    BY <2>1, <2>2 DEF Held
<1>5. CASE ~Capture /\ ~Switch /\ ~LoadMetadata
  <2>1. /\ was' = was /\ flags'.oldInstall = flags.oldInstall
        /\ before'.was = before.was /\ before'.marker = before.marker
        /\ Same(before'.tree, before.tree, {"code", "conf", "site"})
    BY <1>1, <1>5, ShellFrame, BeforeFrame DEF ShellOn, BeforeOn
  <2>2. dirs'.rb.conf = dirs.rb.conf /\ dirs'.rb.site = dirs.rb.site
    <3>1. CASE dirs'.rb = dirs.rb
      BY <3>1
    <3>2. CASE SaveDb \/ SaveCode
      BY <3>2 DEF SaveDb, SaveCode, Typed, Values, Dirs, Content4
    <3>3. CASE Partly
      BY <3>3, PartlyTears DEF Same
    <3> QED
      BY <1>1, <1>5, <3>1, <3>2, <3>3, ShellFrame DEF ShellOn
  <2> QED
    BY <1>1, <1>5, <2>1, <2>2 DEF Held, Same
<1> QED
  BY <1>2, <1>3, <1>4, <1>5

\* What a capture finds and notes.
LEMMA CaptureDoes ==
  ASSUME Typed, Placed, Capture
  PROVE  /\ before'.was = was' /\ before'.marker = disk.marker
         /\ Same(before'.tree, disk, {"code", "db", "conf", "site"})
         /\ dirs'.rb.code = None /\ dirs'.rb.db = None
         /\ flags'.oldInstall = disk.marker /\ flags'.dbPresent = (disk.db # None)
         /\ ~flags'.codeSaved /\ ~flags'.dbCaptured /\ ~flags'.dbSaved
         /\ UNCHANGED <<disk, sysd>>
         /\ script.seq \in {"update", "rollback"} /\ script'.seq = script.seq
         /\ script.at \in Nat /\ script'.at = script.at + 1 /\ In(1)
<1>1. Step = "capture" /\ Advance /\ Busy
  BY Guards DEF Step
<1>2. script.seq # "undo"
  BY <1>1, UndoesWhere DEF Undoing, Undone
<1>3. script.seq \in {"update", "rollback"} /\ In(1)
  BY <1>1, <1>2, MarksAt, Programs DEF Busy
<1>4. script'.seq = script.seq /\ script'.at = script.at + 1 /\ script.at \in Nat
  BY <1>1, Onward DEF Typed, Values, Scripts
<1>5. ~flags.codeSaved /\ ~flags.dbCaptured /\ ~flags.dbSaved
  BY <1>1, <1>3 DEF Placed, In, After
<1>6. /\ flags'.oldInstall = disk.marker /\ flags'.dbPresent = (disk.db # None)
      /\ ~flags'.codeSaved /\ ~flags'.dbCaptured /\ ~flags'.dbSaved
  BY <1>5 DEF Capture, Typed, Values, FlagSets
<1>7. dirs'.rb.code = None /\ dirs'.rb.db = None
  <2>1. dirs'.rb = [Empty EXCEPT !.conf = disk.conf, !.site = disk.site]
    BY DEF Capture, Typed, Values, Dirs
  <2> QED
    BY <2>1 DEF Empty, Trees
<1>8. /\ before'.was = was' /\ before'.marker = disk.marker /\ before'.tree = Content(disk)
      /\ UNCHANGED <<disk, sysd>>
  BY DEF Capture
<1>9. Same(Content(disk), disk, {"code", "db", "conf", "site"})
  BY DEF Content, Trees, Same
<1> QED
  BY <1>3, <1>4, <1>6, <1>7, <1>8, <1>9

\* A rollback, and what follows its report, takes no step of a cutover.
LEMMA UndoneAt ==
  ASSUME Typed, Undoing \/ Gone
  PROVE  /\ Step \in Undone \cup {"none"}
         /\ ~Capture /\ ~Switch /\ ~LoadMetadata /\ ~SaveDb /\ ~SaveCode
<1>1. Step \in Undone \cup {"none"}
  BY UndoesWhere, Programs DEF Gone, Step, Busy
<1> QED
  BY <1>1, Guards DEF Undone

\* A rollback past its first step was there, or a step before.
LEMMA UndoBefore ==
  ASSUME Typed, Marked, Next, script'.seq = "undo", script'.at > 1
  PROVE  /\ Undoing
         /\ \/ Rests
            \/ Passes /\ script'.at = script.at + 1
<1>1. ASSUME Launch PROVE FALSE
  <2>1. script'.seq \in {"update", "rollback"}
    BY <1>1 DEF Launch, Idle
  <2> QED
    BY <2>1
<1>2. ~Turns
  BY DEF Turns
<1>3. ~Ends /\ ~Reaches
  BY Programs DEF Ends, Reaches, Busy
<1>4. Passes => Undoing /\ script'.at = script.at + 1
  BY DEF Passes, Undoing
<1>5. Rests => Undoing
  BY DEF Rests, Undoing
<1> QED
  BY <1>1, <1>2, <1>3, <1>4, <1>5, Moves

\* The code that was there is saved or still there, and the rollback puts it back over
\* what it has wiped, the marker with it.
CodeBack ==
  /\ Cut /\ flags.codeSaved => dirs.rb.code = before.tree.code
  /\ Cut /\ ~flags.codeSaved => disk.code = before.tree.code /\ (before.marker => disk.marker)
  /\ Undoing /\ script.at = 8 /\ ~script.failed /\ flags.codeSaved => disk.code = None
  /\ Done(8) => disk.code = before.tree.code /\ disk.marker = before.marker

\* Where the code is saved and removed.
LEMMA CodeStepsAt ==
  ASSUME Typed, Placed
  PROVE  /\ Step = "saveCode" => ~flags.codeSaved
         /\ Step \in {"clear", "install", "switch", "load"} => flags.codeSaved
         /\ Step = "saveDb" => ~flags.dbCaptured /\ ~flags.codeSaved
<1>1. CASE ~Busy
  BY <1>1 DEF Step
<1>2. CASE script.seq = "undo"
  BY <1>2, UndoesWhere DEF Undoing, Undone
<1>3. CASE script.seq = "update"
  BY <1>3, UpdatesWhere DEF Placed, After
<1>4. CASE script.seq = "rollback"
  BY <1>4, RollsWhere DEF Placed, After
<1> QED
  BY <1>1, <1>2, <1>3, <1>4, Programs DEF Busy

\* Every step keeps CodeBack: the code is moved away before the new one is installed.
LEMMA CodeInv == ASSUME Typed, Placed, Marked, Held, CodeBack, Next PROVE CodeBack'
<1>0. DiskOn /\ ShellOn /\ BeforeOn
  BY DiskFrame, ShellFrame, BeforeFrame
<1>1. ASSUME Cut', flags'.codeSaved PROVE dirs'.rb.code = before'.tree.code
  <2>1. ~Exit /\ ~Killed /\ ~Launch
    BY <1>1, CutBefore
  <2>2. ~Capture /\ Cut
    BY <1>1, CutBefore, CaptureDoes
  <2>3. CASE SaveCode
    <3>1. dirs'.rb.code = disk.code /\ before' = before /\ Step = "saveCode"
      BY <2>3, Guards DEF SaveCode, hist, Typed, Values, Dirs, Content4
    <3> QED
      BY <2>2, <3>1, CodeStepsAt DEF CodeBack
  <2>4. CASE Switch
    BY <2>4 DEF Switch, Typed, Values, Dirs, Befores
  <2>5. CASE ~SaveCode /\ ~Switch
    <3>1. flags.codeSaved /\ dirs.rb.code = before.tree.code
      BY <1>0, <1>1, <2>1, <2>2, <2>5 DEF ShellOn, CodeBack
    <3>2. before'.tree.code = before.tree.code
      <4>1. CASE LoadMetadata
        BY <4>1 DEF LoadMetadata, Typed, Values, Befores
      <4> QED
        BY <1>0, <2>2, <2>5, <4>1 DEF BeforeOn, Same
    <3>3. dirs'.rb.code = dirs.rb.code
      <4>1. CASE SaveDb
        BY <4>1 DEF SaveDb, Typed, Values, Dirs, Content4
      <4>2. CASE Partly
        BY <3>1, <4>2, PartlyTears, CodeStepsAt DEF Same
      <4> QED
        BY <1>0, <2>1, <2>2, <2>5, <4>1, <4>2 DEF ShellOn
    <3> QED
      BY <3>1, <3>2, <3>3
  <2> QED
    BY <2>3, <2>4, <2>5
<1>2. ASSUME Cut', ~flags'.codeSaved
      PROVE  disk'.code = before'.tree.code /\ (before'.marker => disk'.marker)
  <2>1. CASE Capture
    BY <2>1, CaptureDoes DEF Same
  <2>2. CASE ~Capture
    <3>1. Cut /\ ~Launch
      BY <1>2, <2>2, CutBefore
    <3>2. ~SaveCode
      BY <1>2 DEF SaveCode, Typed, Values, FlagSets
    <3>3. ~flags.codeSaved
      BY <1>0, <1>2, <3>1, <3>2 DEF ShellOn
    <3>4. Step \notin {"clear", "install"} /\ ~Switch /\ ~LoadMetadata
      BY <3>3, CodeStepsAt, Guards
    <3>5. /\ before'.marker = before.marker
          /\ Same(before'.tree, before.tree, {"code", "conf", "site"})
      BY <1>0, <2>2, <3>4 DEF BeforeOn
    <3>6. /\ disk'.code = disk.code
          /\ disk.marker => disk'.marker \/ ~flags.oldInstall
      BY <1>0, <3>3, <3>4 DEF DiskOn
    <3>7. /\ disk.code = before.tree.code /\ (before.marker => disk.marker)
          /\ flags.oldInstall = before.marker
      BY <3>1, <3>3 DEF CodeBack, Held
    <3> QED
      BY <3>5, <3>6, <3>7 DEF Same
  <2> QED
    BY <2>1, <2>2
<1>3. ASSUME Undoing', script'.at = 8, ~script'.failed, flags'.codeSaved
      PROVE  disk'.code = None
  <2>1. Undoing /\ (Rests \/ (Passes /\ script'.at = script.at + 1))
    BY <1>3, UndoBefore DEF Undoing
  <2>2. CASE Rests
    <3>1. script.at = 8 /\ ~script.failed /\ flags.codeSaved /\ Step = "copyCode"
      BY <1>3, <2>1, <2>2, UndoesWhere DEF Rests
    <3>2. ~CopyCode /\ ~StepFails
      <4>1. CopyCode => Advance
        BY Guards
      <4>2. StepFails => Reports
        BY <2>1, <3>1, AdvancedTyped, UndoesWhere DEF StepFails, Reports, Scripts
      <4>3. Advance \/ Reports => script'.at = 9
        BY <2>1, <3>1, Onward, UndoesWhere
      <4> QED
        BY <1>3, <4>1, <4>2, <4>3
    <3> QED
      BY <1>0, <2>1, <3>1, <3>2 DEF DiskOn, CodeBack
  <2>3. CASE Passes /\ script'.at = script.at + 1
    <3>1. script.at = 7 /\ Step = "wipeCode"
      BY <1>3, <2>1, <2>3, UndoesWhere
    <3>2. ~StepFails
      BY <1>3, <2>1, AdvancedTyped, UndoesWhere DEF StepFails, Scripts
    <3>3. WipeCode /\ flags' = flags
      BY <1>3, <2>1, <2>3, <3>1, <3>2, Undoes DEF Undoing, Stoppers, WipeCode, shell
    <3> QED
      BY <1>3, <3>3 DEF WipeCode, Typed, Values, Disks
  <2> QED
    BY <2>1, <2>2, <2>3
<1>4. ASSUME Done(8)'
      PROVE  disk'.code = before'.tree.code /\ disk'.marker = before'.marker
  <2>1. CASE Done(8)
    <3>1. /\ disk.code = before.tree.code /\ disk.marker = before.marker
          /\ Undoing \/ Gone
      BY <2>1 DEF CodeBack, Done
    <3>2. Step \in Undone \cup {"none"} /\ ~Capture /\ ~Switch /\ ~LoadMetadata
      BY <3>1, UndoneAt
    <3>3. Step \notin {"wipeCode", "copyCode"}
      <4>1. CASE Undoing /\ script.at > 8
        BY <4>1, UndoesWhere
      <4>2. CASE Gone
        BY <4>2, Programs DEF Gone, Step, Busy
      <4> QED
        BY <2>1, <4>1, <4>2 DEF Done
    <3>4. disk'.code = disk.code /\ disk'.marker = disk.marker
      BY <1>0, <3>2, <3>3 DEF DiskOn, Undone
    <3>5. /\ before'.marker = before.marker
          /\ Same(before'.tree, before.tree, {"code", "conf", "site"})
      BY <1>0, <3>2 DEF BeforeOn
    <3> QED
      BY <3>1, <3>4, <3>5 DEF Same
  <2>2. CASE /\ Undoing /\ script.at = 8 /\ ~script.failed
             /\ script'.seq = "undo" /\ script'.at = script.at + 1 /\ ~script'.failed
    <3>1. Step = "copyCode" /\ Busy
      BY <2>2, UndoesWhere
    <3>2. ~StepFails
      BY <2>2, <3>1, AdvancedTyped DEF StepFails, Scripts
    <3>3. CopyCode
      BY <2>2, <3>1, <3>2, Undoes DEF Stoppers
    <3>4. Cut
      BY <2>2, <3>1 DEF Marked, Cut
    <3>5. before' = before
      BY <3>3 DEF CopyCode, hist
    <3>6. CASE flags.codeSaved
      <4>1. disk.code = None /\ dirs.rb.code = before.tree.code
        BY <2>2, <3>4, <3>6 DEF CodeBack
      <4>2. disk'.code = dirs.rb.code /\ disk'.marker = flags.oldInstall
        BY <3>3, <3>6, <4>1 DEF CopyCode, Typed, Values, Disks
      <4> QED
        BY <3>4, <3>5, <4>1, <4>2 DEF Held
    <3>7. CASE ~flags.codeSaved
      <4>1. /\ disk.code = before.tree.code /\ (before.marker => disk.marker)
            /\ flags.oldInstall = before.marker
        BY <3>4, <3>7 DEF CodeBack, Held
      <4>2. disk'.code = disk.code /\ disk'.marker = (disk.marker /\ flags.oldInstall)
        BY <3>3, <3>7 DEF CopyCode, Typed, Values, Disks
      <4>3. before.marker \in BOOLEAN
        BY DEF Typed, Values, Befores
      <4> QED
        BY <3>5, <4>1, <4>2, <4>3
    <3> QED
      BY <3>6, <3>7
  <2> QED
    BY <1>4, <2>1, <2>2, DoneBefore
<1> QED
  BY <1>1, <1>2, <1>3, <1>4 DEF CodeBack

\* A cutover was begun by this step or was under way.
LEMMA CutoverBefore ==
  ASSUME Typed, Marked, Next, script'.seq \in {"update", "rollback"}
  PROVE  /\ ~Exit /\ ~Killed /\ ~LoadMetadata
         /\ \/ Launch
            \/ script.seq = script'.seq /\ Busy /\ (Rests \/ Passes)
<1>1. ~Exit /\ ~Killed
  BY DEF Exit, Killed, Idle
<1>2. ~Turns /\ ~Ends /\ ~Reaches
  BY Programs DEF Turns, Ends, Reaches, Busy
<1>3. ASSUME LoadMetadata PROVE FALSE
  <2>1. Busy /\ Advance /\ script.seq = "rollback" /\ script.at = 16
    BY <1>3, Guards, RollsWhere, SwitchAt DEF LoadMetadata, At, Step
  <2>2. script'.seq = "rollback" /\ script'.at = 17 /\ script'.at \in 1 .. Len(Program[script'.seq])
    BY <2>1, Advances
  <2>3. 17 \in 1 .. Len(Program["rollback"])
    BY <2>2
  <2> QED
    BY <2>3, RollbackAt
<1>4. Rests => script.seq = script'.seq /\ Busy
  BY Programs DEF Rests, Busy
<1>5. Passes => script.seq = script'.seq /\ Busy
  BY DEF Passes
<1> QED
  BY <1>1, <1>2, <1>3, <1>4, <1>5, Moves

\* What takes the cutover from one step to the next.
LEMMA PassesBy ==
  ASSUME Typed, Next, Passes, script.seq # "undo"
  PROVE  /\ Step = "ensureCaddy" => EnsureCaddy
         /\ Step = "saveDb" => SaveDb
         /\ Step = "prepareState" => PrepareState
         /\ Step = "saveCode" => SaveCode
         /\ Step = "install" => Install
         /\ Step = "copySnapshot" => CopySnapshot
         /\ Step = "switch" => Switch
         /\ Step = "writeConf" => WriteConf
<1>1. script' # script /\ script'.seq = script.seq /\ Busy /\ Busy'
  BY DEF Passes, Typed, Values, Scripts
<1>2. script'.at # 1
  BY DEF Passes, Typed
<1>3. ~(AutoRestart \/ PanelRestarts \/ Write \/ HealthCheckStarts \/ HealthCheckProbes
        \/ HealthCheckRecovers \/ HealthCheckReturns \/ BackupTimerFires \/ BackupRuns \/ Partly)
  BY <1>1 DEF AutoRestart, PanelRestarts, Write, HealthCheckStarts, HealthCheckProbes,
              HealthCheckRecovers, HealthCheckReturns, BackupTimerFires, BackupRuns, Partly
<1>4. ~(Launch \/ Exit \/ Killed \/ Fails \/ Interrupted \/ StepFails)
  <2>1. script # Idle
    BY <1>1, BusyNotIdle
  <2>2. script' # Idle /\ script' # Leaves
    BY <1>1, Programs DEF Idle, Leaves, Busy
  <2>3. ~\E by \in {"fail", "trap"} : script' = Undo(by)
    BY <1>2 DEF Undo
  <2> QED
    BY <2>1, <2>2, <2>3 DEF Launch, Exit, Killed, Fails, Interrupted, StepFails, Undoing
<1> QED
  BY <1>3, <1>4, Guards DEF Next, Stopping

\* The snapshots kept have, of every unit, what there was of it, and a database unless
\* there was none; so has the one that a delayed rollback selects.
WasOk(w) == \A u \in Units : w[u].on \/ w[u].enabled => w[u].here
SnapOk(e) == WasOk(e.was) /\ (~e.dbSaved => e.tree.db = None)
Snaps ==
  /\ WasOk(was)
  /\ \A i \in DOMAIN vault.store : disk.data /\ SnapOk(vault.store[i])
  /\ script.seq = "rollback" => SnapOk(dirs.sel)

\* What a cutover knows of the host it replaces.
Known ==
  /\ script.seq \in {"update", "rollback"} /\ After(8) => disk.data
  /\ script.seq = "rollback" => IF flags.cutover THEN flags.oldInstall ELSE disk.marker
  /\ flags.cutover /\ ~flags.dbPresent
       /\ (script.seq = "update" \/ (script.seq = "rollback" /\ script.at <= 15)) =>
       dirs.rb.db = None
  /\ script.seq \in {"update", "rollback"} /\ flags.dbCaptured => flags.dbSaved = flags.dbPresent

\* Two snapshots with the same contents.
Alike(e, d) == e.tree = d.tree /\ e.was = d.was /\ e.dbSaved = d.dbSaved

\* The snapshots are those there were, and the one that a script copies.
StoreOn ==
  \A i \in DOMAIN vault'.store :
    \/ \E j \in DOMAIN vault.store : Alike(vault'.store[i], vault.store[j])
    \/ /\ Step = "copySnapshot"
       /\ Alike(vault'.store[i], [tree |-> dirs.rb, was |-> was, dbSaved |-> flags.dbSaved])

\* StoreOn holds of every step.
LEMMA StoreFrame == ASSUME Typed, Next PROVE StoreOn
<1>0. /\ vault.store \in Seq(Snapshots) /\ Len(vault.store) \in Nat
      /\ DOMAIN vault.store = 1 .. Len(vault.store)
  BY DEF Typed, Values, Vaults
<1>1. CASE vault'.store = vault.store
  BY <1>1 DEF StoreOn, Alike
<1>2. CASE CopySnapshot /\ flags.oldInstall
  <2> DEFINE e == [id |-> count.made + 1, whole |-> FALSE, tree |-> dirs.rb, was |-> was,
                   dbSaved |-> flags.dbSaved]
  <2>1. e \in Snapshots
    BY DEF Snapshots, Typed, Values, Counts, Dirs, FlagSets
  <2>2. vault'.store = Append(vault.store, e)
    BY <1>2 DEF CopySnapshot, Typed, Values, Vaults
  <2>3. Alike(e, [tree |-> dirs.rb, was |-> was, dbSaved |-> flags.dbSaved])
    BY DEF Alike
  <2> HIDE DEF e
  <2>4. /\ DOMAIN vault'.store = 1 .. Len(vault.store) + 1
        /\ \A i \in 1 .. Len(vault.store) : vault'.store[i] = vault.store[i]
        /\ vault'.store[Len(vault.store) + 1] = e
    BY <1>0, <2>1, <2>2, Appended
  <2>5. \A i \in 1 .. Len(vault.store) + 1 : i \in 1 .. Len(vault.store) \/ i = Len(vault.store) + 1
    BY <1>0
  <2>6. \A i \in 1 .. Len(vault.store) : Alike(vault'.store[i], vault.store[i])
    BY <2>4 DEF Alike
  <2>7. Step = "copySnapshot"
    BY <1>2, Guards
  <2> QED
    BY <1>0, <2>3, <2>4, <2>5, <2>6, <2>7 DEF StoreOn
<1>3. CASE SumSnapshot
  <2>1. vault'.store = [vault.store EXCEPT ![Len(vault.store)] =
                          [vault.store[Len(vault.store)] EXCEPT !.whole = TRUE]]
    BY <1>3 DEF SumSnapshot, Typed, Values, Vaults
  <2>2. /\ DOMAIN vault'.store = DOMAIN vault.store
        /\ \A i \in DOMAIN vault.store : vault'.store[i] =
             IF i = Len(vault.store) THEN [vault.store[i] EXCEPT !.whole = TRUE]
             ELSE vault.store[i]
    BY <2>1
  <2>3. \A i \in DOMAIN vault.store : vault.store[i] \in Snapshots
    BY <1>0
  <2>4. \A i \in DOMAIN vault.store : Alike(vault'.store[i], vault.store[i])
    BY <2>2, <2>3 DEF Snapshots, Alike
  <2> QED
    BY <2>2, <2>4 DEF StoreOn
<1>4. CASE Rotate
  <2>1. CASE Len(vault.store) > Keep
    <3>1. vault'.store = SubSeq(vault.store, Len(vault.store) - Keep + 1, Len(vault.store))
      BY <1>4, <2>1 DEF Rotate, Typed, Values, Vaults
    <3>2. Keep \in Nat /\ Keep >= 1
      BY DeploymentAssumption
    <3>3. /\ DOMAIN vault'.store = 1 .. Keep
          /\ \A i \in 1 .. Keep : vault'.store[i] = vault.store[Len(vault.store) - Keep + i]
      <4>1. Len(vault.store) - Keep + 1 \in 1 .. Len(vault.store) + 1
        BY <1>0, <2>1, <3>2
      <4>2. Len(vault.store) - (Len(vault.store) - Keep + 1) + 1 = Keep
        BY <1>0, <3>2
      <4>3. /\ Len(vault'.store) = Keep /\ vault'.store \in Seq(Snapshots)
            /\ \A i \in 1 .. Keep :
                 vault'.store[i] = vault.store[(Len(vault.store) - Keep + 1) + i - 1]
        BY <1>0, <3>1, <4>1, <4>2
      <4>4. \A i \in 1 .. Keep :
              (Len(vault.store) - Keep + 1) + i - 1 = Len(vault.store) - Keep + i
        BY <1>0, <3>2
      <4> QED
        BY <4>3, <4>4
    <3>4. \A i \in 1 .. Keep : Len(vault.store) - Keep + i \in DOMAIN vault.store
      BY <1>0, <2>1, <3>2
    <3> QED
      BY <3>3, <3>4 DEF StoreOn, Alike
  <2>2. CASE ~(Len(vault.store) > Keep)
    BY <1>1, <1>4, <2>2 DEF Rotate, Typed, Values, Vaults
  <2> QED
    BY <2>1, <2>2
<1>5. CASE ~(CopySnapshot /\ flags.oldInstall) /\ ~SumSnapshot /\ ~Rotate
  <2>1. CASE AutoRestart \/ PanelRestarts \/ Write \/ HealthCheckStarts \/ HealthCheckProbes
           \/ HealthCheckRecovers \/ HealthCheckReturns \/ BackupTimerFires \/ BackupRuns
           \/ Interrupted \/ Fails \/ StopUnit \/ MissPanel
           \/ StopHealthCheck \/ StopBackup \/ PrepareState \/ ClearCode
    BY <1>1, <2>1 DEF AutoRestart, PanelRestarts, Write, HealthCheckStarts, HealthCheckProbes,
       MissPanel, HealthCheckRecovers, HealthCheckReturns, BackupTimerFires, BackupRuns, Interrupted, Fails, StopUnit,
       StopHealthCheck, StopBackup, PrepareState, ClearCode, shell
  <2>2. CASE Install \/ Migrate \/ WriteConf \/ WriteSite \/ StartService \/ WaitForBackend
             \/ StartUnit \/ StartHealthCheck \/ HealthCheckEnds
    BY <1>1, <2>2 DEF Install, Migrate, WriteConf, WriteSite, StartService, WaitForBackend,
       StartUnit, StartHealthCheck, HealthCheckEnds, shell
  <2>3. CASE Disable \/ WipeCode \/ CopyCode \/ WipeDb \/ CopyDb \/ RestoreFiles \/ Enable
             \/ RestorePanel \/ RestoreUnits \/ StepFails
    BY <1>1, <2>3 DEF Disable, WipeCode, CopyCode, WipeDb, CopyDb, RestoreFiles, Enable,
       RestorePanel, RestoreUnits, StepFails, shell
  <2>4. CASE Launch \/ Capture \/ SaveDb \/ SaveCode \/ EnsureCaddy \/ Succeed \/ Switch
             \/ LoadMetadata \/ Verify
    BY <1>1, <2>4 DEF Launch, Capture, SaveDb, SaveCode, EnsureCaddy, Succeed, Switch,
       LoadMetadata, Verify
  <2>5. CASE Exit \/ Killed \/ NameLatest \/ CopySnapshot \/ Partly
    BY <1>1, <1>5, <2>5 DEF Exit, Killed, NameLatest, CopySnapshot, Partly, Typed, Values, Vaults
  <2> QED
    BY <1>5, <2>1, <2>2, <2>3, <2>4, <2>5 DEF Next
<1> QED
  BY <1>2, <1>3, <1>4, <1>5

\* capture_systemd_unit_state notes nothing of a unit that has no file.
LEMMA SeenOk ==
  ASSUME Typed
  PROVE  \A u \in Units : Seen(u).on \/ Seen(u).enabled => Seen(u).here
BY DEF Seen, Absent

\* Every step keeps Known, also the switch to the snapshot that an operator selects.
LEMMA KnownInv == ASSUME Typed, Placed, Marked, Snaps, Known, Next PROVE Known'
<1>0. DiskOn /\ ShellOn
  BY DiskFrame, ShellFrame
<1>1. ASSUME Launch PROVE Known'
  <2>1. script'.at = 1 /\ ~flags'.cutover /\ ~flags'.dbCaptured /\ disk' = disk
    BY <1>1 DEF Launch, Idle, NoFlags
  <2>2. script'.seq = "rollback" => disk.marker
    <3>1. script'.seq = "rollback" => \E i \in DOMAIN vault.store : TRUE
      BY <1>1 DEF Launch, Idle
    <3> QED
      BY <1>1, <3>1 DEF Snaps, Launch, TargetOk
  <2> QED
    BY <2>1, <2>2 DEF Known, After
<1>2. ASSUME script'.seq \notin {"update", "rollback"} PROVE Known'
  BY <1>2 DEF Known
<1>3. ASSUME script'.seq \in {"update", "rollback"}, ~Launch PROVE Known'
  <2>1. /\ script.seq = script'.seq /\ Busy /\ (Rests \/ Passes)
        /\ ~Exit /\ ~Killed /\ ~LoadMetadata
    BY <1>3, CutoverBefore
  <2>2. script.at \in Nat /\ (Passes => script'.at \in Nat)
    BY DEF Typed, Values, Scripts, Passes
  <2>3. ASSUME After(8)' PROVE disk'.data
    <3>1. CASE After(8)
      BY <1>0, <1>3, <2>1, <3>1 DEF Known, DiskOn
    <3>2. CASE ~After(8)
      <4>1. Passes /\ Step # "copySnapshot"
        <5>1. Passes
          BY <2>1, <2>3, <3>2 DEF Rests, After
        <5>2. Step = "copySnapshot" => After(8)
          BY <1>3, <2>1, UpdatesWhere, RollsWhere DEF After
        <5> QED
          BY <3>2, <5>1, <5>2
      <4>2. script'.at = script.at + 1 /\ script.seq # "undo"
        BY <1>3, <2>1, <4>1 DEF Passes
      <4>3. Step = "prepareState"
        BY <1>3, <2>1, <2>2, <2>3, <3>2, <4>2, UpdatesWhere, RollsWhere DEF After
      <4>4. PrepareState
        BY <4>1, <4>2, <4>3, PassesBy
      <4> QED
        BY <4>4 DEF PrepareState, Typed, Values, Disks
    <3> QED
      BY <3>1, <3>2
  <2>4. ASSUME script'.seq = "rollback", flags'.cutover PROVE flags'.oldInstall
    <3>1. CASE Capture
      <4>1. ~flags.cutover
        BY <3>1, <2>4, CaptureDoes DEF Marked, After, In
      <4> QED
        BY <2>1, <2>4, <3>1, <4>1, CaptureDoes DEF Known
    <3>2. CASE ~Capture
      <4>1. flags.cutover
        BY <2>1, <2>4, <3>2 DEF Rests, Passes
      <4> QED
        BY <1>0, <1>3, <2>1, <2>4, <3>2, <4>1 DEF ShellOn, Known
    <3> QED
      BY <3>1, <3>2
  <2>5. ASSUME script'.seq = "rollback", ~flags'.cutover PROVE disk'.marker
    <3>1. ~flags.cutover
      BY <2>1, <2>5 DEF Rests, Passes
    <3>2. Step \in {"ensureCaddy", "capture"}
      BY <2>1, <3>1, BegunAt
    <3> QED
      BY <1>0, <2>1, <2>5, <3>1, <3>2 DEF DiskOn, Known
  <2>6. ASSUME flags'.cutover, ~flags'.dbPresent,
               script'.seq = "update" \/ (script'.seq = "rollback" /\ script'.at <= 15)
        PROVE  dirs'.rb.db = None
    <3>1. CASE Capture
      BY <3>1, CaptureDoes
    <3>2. CASE ~Capture
      <4>1. flags.cutover
        BY <2>1, <2>6, <3>2 DEF Rests, Passes
      <4>2. ~flags.dbPresent
        BY <1>0, <1>3, <2>1, <2>6, <3>2 DEF ShellOn
      <4>3. script.seq = "update" \/ (script.seq = "rollback" /\ script.at <= 15)
        <5>1. Passes => script.at < script'.at
          BY DEF Passes
        <5>2. script'.at \in Nat /\ script.at <= script'.at
          BY <2>1, <2>2, <5>1 DEF Rests
        <5> QED
          BY <2>1, <2>2, <2>6, <5>2
      <4>4. dirs.rb.db = None
        BY <4>1, <4>2, <4>3 DEF Known
      <4>5. ~Switch
        <5>1. ASSUME Switch PROVE FALSE
          <6>1. script.seq = "rollback" /\ script.at = 15 /\ Advance
            BY <2>1, <4>3, <5>1, Guards, UpdatesWhere, RollsWhere
          <6>2. script'.at = 16
            BY <2>1, <5>1, <6>1, Guards, Onward
          <6> QED
            BY <2>1, <2>6, <6>1, <6>2
        <5> QED
          BY <5>1
      <4>6. CASE SaveDb
        BY <4>2, <4>4, <4>6 DEF SaveDb
      <4>7. CASE SaveCode
        BY <4>4, <4>7 DEF SaveCode, Typed, Values, Dirs, Content4
      <4>8. CASE Partly
        BY <4>2, <4>4, <4>8, PartlyTears DEF Same
      <4> QED
        BY <1>0, <2>1, <3>2, <4>4, <4>5, <4>6, <4>7, <4>8 DEF ShellOn
    <3> QED
      BY <3>1, <3>2
  <2>7. ASSUME flags'.dbCaptured PROVE flags'.dbSaved = flags'.dbPresent
    <3>1. ~Capture
      BY <2>7, CaptureDoes
    <3>2. CASE SaveDb
      BY <3>2 DEF SaveDb, Typed, Values, FlagSets
    <3>3. CASE ~SaveDb
      BY <1>0, <1>3, <2>1, <2>7, <3>1, <3>3 DEF ShellOn, Known
    <3> QED
      BY <3>2, <3>3
  <2> QED
    BY <2>3, <2>4, <2>5, <2>6, <2>7 DEF Known
<1> QED
  BY <1>1, <1>2, <1>3

\* Every step keeps Snaps: a snapshot is copied from what an update has saved.
LEMMA SnapsInv == ASSUME Typed, Placed, Marked, Snaps, Known, Next PROVE Snaps'
<1>0. DiskOn /\ ShellOn /\ StoreOn
  BY DiskFrame, ShellFrame, StoreFrame
<1>1. WasOk(was')
  <2>1. CASE Launch
    BY <2>1, SeenOk DEF Launch, WasOk, Absent
  <2>2. CASE Capture
    <3>1. was["caddy"].on \/ was["caddy"].enabled => was["caddy"].here
      BY DEF Snaps, WasOk, Units
    <3> QED
      BY <2>2, <3>1, SeenOk DEF Capture, WasOk
  <2>3. CASE LoadMetadata
    <3>1. was' = dirs.sel.was /\ script.seq = "rollback"
      BY <2>3, SwitchAt DEF LoadMetadata
    <3> QED
      BY <3>1 DEF Snaps, SnapOk
  <2> QED
    BY <1>0, <2>1, <2>2, <2>3 DEF ShellOn, Snaps
<1>2. ASSUME NEW i \in DOMAIN vault'.store PROVE disk'.data /\ SnapOk(vault'.store[i])
  <2>1. CASE \E j \in DOMAIN vault.store : Alike(vault'.store[i], vault.store[j])
    BY <1>0, <2>1 DEF Alike, Snaps, SnapOk, DiskOn
  <2>2. CASE /\ Step = "copySnapshot"
             /\ Alike(vault'.store[i], [tree |-> dirs.rb, was |-> was, dbSaved |-> flags.dbSaved])
    <3>1. /\ script.seq \in {"update", "rollback"} /\ script.at \in Nat
          /\ script.seq = "update" => script.at = 23
          /\ script.seq = "rollback" => script.at = 11
      BY <2>2, CopiesAt DEF Typed, Values, Scripts
    <3>2. After(8) /\ After(7) /\ After(1)
      BY <3>1 DEF After
    <3>3. disk.data /\ flags.dbCaptured /\ flags.cutover
      BY <3>1, <3>2 DEF Known, Placed, Marked
    <3>4. ~flags.dbSaved => dirs.rb.db = None
      BY <3>1, <3>3 DEF Known
    <3> QED
      BY <1>0, <2>2, <3>3, <3>4 DEF Alike, Snaps, SnapOk, DiskOn
  <2> QED
    BY <1>0, <1>2, <2>1, <2>2 DEF StoreOn
<1>3. ASSUME script'.seq = "rollback" PROVE SnapOk(dirs'.sel)
  <2>1. CASE Launch
    <3>1. /\ \E i \in DOMAIN vault.store : vault.store[i].id = vault.latest
          /\ dirs' = [dirs EXCEPT !.sel = vault.store[Named(vault.latest)]]
      BY <1>3, <2>1 DEF Launch, Idle
    <3>2. Named(vault.latest) \in DOMAIN vault.store
      BY <3>1 DEF Named
    <3>3. dirs'.sel = vault.store[Named(vault.latest)]
      BY <3>1 DEF Typed, Values, Dirs
    <3> QED
      BY <3>2, <3>3 DEF Snaps
  <2>2. CASE ~Launch
    BY <1>0, <1>3, <2>2, CutoverBefore DEF ShellOn, Snaps
  <2> QED
    BY <2>1, <2>2
<1> QED
  BY <1>1, <1>2, <1>3 DEF Snaps

\* The files of the units and of the proxy are back.
FilesBack ==
  /\ Done(11) => disk.conf = before.tree.conf
  /\ Done(12) => disk.site = before.tree.site

\* Every step keeps FilesBack: restore_file puts back the captured files.
LEMMA FilesInv == ASSUME Typed, Placed, Marked, Held, FilesBack, Next PROVE FilesBack'
<1>0. DiskOn /\ BeforeOn
  BY DiskFrame, BeforeFrame
<1>1. ASSUME Undoing \/ Gone, ~Exit PROVE Same(before'.tree, before.tree, {"code", "conf", "site"})
  BY <1>0, <1>1, UndoneAt DEF BeforeOn
<1>2. ASSUME Done(11)' PROVE disk'.conf = before'.tree.conf
  <2>1. CASE Done(11) /\ ~Exit
    <3>1. Step \notin {"writeConf", "restoreConf"}
      BY <2>1, UndoesWhere, UndoneAt, Programs DEF Done, Undone, Gone, Step, Busy
    <3> QED
      BY <1>0, <1>1, <2>1, <3>1 DEF Done, DiskOn, FilesBack, Same
  <2>2. CASE /\ Undoing /\ script.at = 11 /\ ~script.failed
             /\ script'.seq = "undo" /\ script'.at = script.at + 1 /\ ~script'.failed
    <3>1. Step = "restoreConf" /\ Busy
      BY <2>2, UndoesWhere
    <3>2. ~StepFails
      BY <2>2, <3>1, AdvancedTyped DEF StepFails, Scripts
    <3>3. RestoreFiles
      BY <2>2, <3>1, <3>2, Undoes DEF Stoppers
    <3>4. disk'.conf = dirs.rb.conf
      BY <3>1, <3>3 DEF RestoreFiles, At, Typed, Values, Disks
    <3>5. Cut /\ ~Exit
      BY <2>2, <3>1, Guards DEF Marked, Cut, Exit, Undoing
    <3> QED
      BY <1>1, <2>2, <3>4, <3>5 DEF Held, Same
  <2> QED
    BY <1>2, <2>1, <2>2, DoneBefore
<1>3. ASSUME Done(12)' PROVE disk'.site = before'.tree.site
  <2>1. CASE Done(12) /\ ~Exit
    <3>1. Step \notin {"writeSite", "restoreSite"}
      BY <2>1, UndoesWhere, UndoneAt, Programs DEF Done, Undone, Gone, Step, Busy
    <3> QED
      BY <1>0, <1>1, <2>1, <3>1 DEF Done, DiskOn, FilesBack, Same
  <2>2. CASE /\ Undoing /\ script.at = 12 /\ ~script.failed
             /\ script'.seq = "undo" /\ script'.at = script.at + 1 /\ ~script'.failed
    <3>1. Step = "restoreSite" /\ Busy
      BY <2>2, UndoesWhere
    <3>2. ~StepFails
      BY <2>2, <3>1, AdvancedTyped DEF StepFails, Scripts
    <3>3. RestoreFiles
      BY <2>2, <3>1, <3>2, Undoes DEF Stoppers
    <3>4. disk'.site = dirs.rb.site
      BY <3>1, <3>3 DEF RestoreFiles, At, Typed, Values, Disks
    <3>5. Cut /\ ~Exit
      BY <2>2, <3>1, Guards DEF Marked, Cut, Exit, Undoing
    <3> QED
      BY <1>1, <2>2, <3>4, <3>5 DEF Held, Same
  <2> QED
    BY <1>3, <2>1, <2>2, DoneBefore
<1> QED
  BY <1>2, <1>3 DEF FilesBack

\* The code that an update replaces is older than the one it installs.
Older ==
  script.seq = "update" =>
    /\ script.at <= 12 => (disk.code \in Releases => disk.code <= count.runs)
    /\ flags.cutover => (before.tree.code \in Releases => before.tree.code <= count.runs)

\* Before the installation the code is at most removed.
LEMMA OnlyRemoved ==
  ASSUME Typed, Next, script.seq = "update", script'.seq = "update", script'.at <= 12,
         Rests \/ Passes
  PROVE  disk'.code \in {disk.code, None, Torn}
<1>0. DiskOn
  BY DiskFrame
<1>1. disk'.code # disk.code => Step \in {"clear", "install"}
  BY <1>0, UpdatesWhere DEF DiskOn, Undone, Stops
<1>2. ~Install
  <2>1. ASSUME Install PROVE FALSE
    <3>1. Step = "install" /\ Advance /\ Busy /\ script.at = 12
      BY <2>1, Guards, UpdatesWhere
    <3>2. script'.at = 13
      BY <3>1, Onward
    <3> QED
      BY <3>2
  <2> QED
    BY <2>1
<1> QED
  BY <1>0, <1>1, <1>2 DEF DiskOn

\* Every step keeps Older: each update brings a release that was never there.
LEMMA OlderInv == ASSUME Typed, Placed, Aged, Marked, Older, Next PROVE Older'
<1>0. BeforeOn /\ count.runs \in Nat
  BY BeforeFrame DEF Typed, Values, Counts
<1>1. CASE Launch
  <2>1. ~flags'.cutover /\ disk' = disk /\ count'.runs = count.runs + 1
    BY <1>1 DEF Launch, NoFlags, Typed, Values, Counts
  <2>2. disk.code \in Releases => disk.code <= count.runs + 1
    BY DEF Aged, Until
  <2> QED
    BY <2>1, <2>2 DEF Older
<1>2. ASSUME ~Launch, script'.seq = "update"
      PROVE  /\ script'.at <= 12 => (disk'.code \in Releases => disk'.code <= count'.runs)
             /\ flags'.cutover => (before'.tree.code \in Releases => before'.tree.code <= count'.runs)
  <2>1. /\ script.seq = "update" /\ Busy /\ (Rests \/ Passes)
        /\ ~Exit /\ ~Killed /\ ~LoadMetadata
    BY <1>2, CutoverBefore
  <2>2. count'.runs = count.runs
    BY <1>0, <1>2 DEF BeforeOn
  <2>3. script.at \in Nat /\ script'.at \in Nat /\ script.at <= script'.at
    <3>1. Rests => script'.at = script.at
      BY DEF Rests
    <3>2. script.at \in Nat
      BY DEF Typed, Values, Scripts
    <3>3. Passes => script'.at \in Nat /\ script'.at > script.at
      BY DEF Passes
    <3> QED
      BY <2>1, <3>1, <3>2, <3>3
  <2>4. ASSUME script'.at <= 12, disk'.code \in Releases PROVE disk'.code <= count'.runs
    <3>1. disk'.code = disk.code
      BY <1>2, <2>1, <2>4, OnlyRemoved, Outside
    <3>2. script.at <= 12
      BY <2>3, <2>4
    <3> QED
      BY <2>1, <2>2, <2>4, <3>1, <3>2 DEF Older
  <2>5. ASSUME flags'.cutover, before'.tree.code \in Releases
        PROVE  before'.tree.code <= count'.runs
    <3>1. CASE Capture
      <4>1. before'.tree.code = disk.code /\ script.at = 2
        BY <2>1, <3>1, CaptureDoes, Guards, UpdatesWhere DEF Same
      <4> QED
        BY <2>1, <2>2, <2>5, <4>1 DEF Older
    <3>2. CASE ~Capture
      <4>1. flags.cutover
        BY <2>1, <2>5, <3>2 DEF Rests, Passes
      <4>2. ~Switch
        BY <2>1, Guards, UpdatesWhere
      <4>3. before'.tree.code = before.tree.code
        BY <1>0, <2>1, <3>2, <4>2 DEF BeforeOn, Same
      <4> QED
        BY <2>1, <2>2, <2>5, <4>1, <4>3 DEF Older
    <3> QED
      BY <3>1, <3>2
  <2> QED
    BY <2>4, <2>5
<1> QED
  BY <1>1, <1>2 DEF Older

\* Caddy is installed where its unit is known, and once an update has seen to it.
CaddyThere ==
  /\ "caddy" \in sysd.on \cup sysd.enabled => sysd.caddy
  /\ script.seq = "update" /\ script.at > 1 => sysd.caddy

\* Every step keeps CaddyThere: nothing removes Caddy once it is installed.
LEMMA CaddyInv == ASSUME Typed, Marked, CaddyThere, Next PROVE CaddyThere'
<1>0. SysdOn /\ sysd \in Sysds
  BY SysdFrame DEF Typed, Values
<1>1. sysd.caddy => sysd'.caddy
  BY <1>0 DEF SysdOn
<1>2. ASSUME "caddy" \in sysd'.on \cup sysd'.enabled,
             "caddy" \notin sysd.on \cup sysd.enabled
      PROVE  sysd'.caddy
  <2>1. CASE Exit
    BY <1>0, <1>2, <2>1 DEF Exit, Sysds
  <2>2. CASE EnsureCaddy
    BY <1>0, <1>2, <2>2 DEF EnsureCaddy, Sysds
  <2>3. CASE StartUnit
    <3>1. CASE At("startHealthTimer") \/ At("startBackups")
      <4>1. \E u \in {"health", "backup"} :
              sysd' = [Enabled(sysd, u) EXCEPT !.on = @ \cup {u}]
        BY <2>3, <3>1 DEF StartUnit, At
      <4> QED
        BY <1>0, <1>2, <4>1 DEF Enabled, Sysds
    <3>2. CASE At("startCaddy")
      <4>1. script.seq = "update" /\ script.at >= 15
        <5>1. Step = "startCaddy" /\ Busy
          BY <3>2 DEF At, Step
        <5> QED
          BY <5>1, StartsAt
      <4> QED
        BY <1>1, <4>1 DEF CaddyThere, Typed, Values, Scripts
    <3> QED
      BY <2>3, <3>1, <3>2 DEF StartUnit
  <2>4. CASE Enable \/ RestoreUnits
    <3>1. CASE Enable
      BY <1>0, <1>2, <3>1 DEF Enable, Here, Sysds
    <3>2. CASE RestoreUnits
      BY <1>0, <1>2, <3>2 DEF RestoreUnits, Here, Sysds
    <3> QED
      BY <2>4, <3>1, <3>2
  <2>5. CASE StopUnit \/ Disable
    BY <1>0, <1>2, <2>5 DEF StopUnit, Stop, Disable, Sysds
  <2>6. CASE StartService
    <3>1. Enabled(sysd, "panel") \in Sysds
      BY <1>0 DEF Enabled, Sysds, Units
    <3>2. sysd'.on = sysd.on /\ sysd'.enabled = sysd.enabled \cup {"panel"}
      BY <1>0, <2>6, <3>1, LaunchedLeaves DEF StartService, Enabled, Sysds
    <3> QED
      BY <1>2, <3>2
  <2>7. CASE RestorePanel
    <3>1. CASE StartPanel(sysd)
      BY <1>0, <1>2, <3>1, LaunchedLeaves
    <3>2. CASE Stop({u \in {"panel"} : KeptDown(u)})
      BY <1>0, <1>2, <3>2 DEF Stop, Sysds
    <3> QED
      BY <2>7, <3>1, <3>2 DEF RestorePanel
  <2>8. CASE AutoRestart \/ PanelRestarts \/ HealthCheckRecovers \/ BackupRuns
    BY <1>2, <2>8, UnitStarts
  <2>9. CASE HealthCheckStarts \/ HealthCheckProbes \/ HealthCheckReturns \/ BackupTimerFires
             \/ Launch \/ Write \/ MissPanel \/ Interrupted \/ Fails \/ Killed \/ Capture \/ Partly \/ PrepareState \/ ClearCode
             \/ StopHealthCheck \/ StopBackup \/ SaveDb \/ SaveCode \/ WaitForBackend
    BY <1>2, <2>9
    DEF HealthCheckStarts, HealthCheckProbes, HealthCheckReturns, BackupTimerFires, Launch,
        Write, MissPanel, Interrupted, Fails, Killed, Capture, Partly, PrepareState, ClearCode, StopHealthCheck, StopBackup,
        SaveDb, SaveCode, WaitForBackend
  <2>10. CASE StartHealthCheck \/ HealthCheckEnds \/ CopySnapshot \/ SumSnapshot \/ Install
              \/ NameLatest \/ Rotate \/ Succeed \/ Switch \/ LoadMetadata \/ Migrate
    BY <1>2, <2>10
    DEF StartHealthCheck, HealthCheckEnds, CopySnapshot, SumSnapshot, Install, NameLatest,
        Rotate, Succeed, Switch, LoadMetadata, Migrate
  <2>11. CASE WriteConf \/ WriteSite \/ Verify \/ StepFails \/ WipeCode \/ CopyCode
              \/ WipeDb \/ CopyDb \/ RestoreFiles
    BY <1>2, <2>11
    DEF WriteConf, WriteSite, Verify, StepFails, WipeCode, CopyCode, WipeDb, CopyDb, RestoreFiles
  <2> QED
    BY <2>1, <2>2, <2>3, <2>4, <2>5, <2>6, <2>7, <2>8, <2>9, <2>10, <2>11 DEF Next
<1>3. ASSUME script'.seq = "update", script'.at > 1 PROVE sysd'.caddy
  <2>1. ~Launch
    <3>1. Launch => script'.at = 1
      BY DEF Launch, Idle
    <3> QED
      BY <1>3, <3>1
  <2>2. script.seq = "update" /\ Busy /\ (Rests \/ Passes)
    BY <1>3, <2>1, CutoverBefore
  <2>3. CASE script.at > 1
    BY <1>1, <2>2, <2>3 DEF CaddyThere
  <2>4. CASE ~(script.at > 1)
    <3>1. script.at = 1 /\ Step = "ensureCaddy"
      BY <2>2, <2>4, UpdatesWhere
    <3>2. Passes
      BY <1>3, <2>2, <2>4 DEF Rests
    <3>3. EnsureCaddy
      BY <2>2, <3>1, <3>2, PassesBy
    <3> QED
      BY <1>0, <3>3 DEF EnsureCaddy, Sysds
  <2> QED
    BY <2>3, <2>4
<1>4. "caddy" \in sysd.on \cup sysd.enabled => sysd.caddy
  BY DEF CaddyThere
<1> QED
  BY <1>1, <1>2, <1>3, <1>4 DEF CaddyThere

\* The new units are there before the new release is started.
ConfNew == script.seq = "update" /\ script.at > 14 => disk.conf # None

\* Every step keeps ConfNew: no step of an update removes the units it has written.
LEMMA ConfInv == ASSUME Typed, Marked, ConfNew, Next PROVE ConfNew'
<1>0. DiskOn
  BY DiskFrame
<1> SUFFICES ASSUME script'.seq = "update", script'.at > 14 PROVE disk'.conf # None
  BY DEF ConfNew
<1>1. ~Launch
  <2>1. Launch => script'.at = 1
    BY DEF Launch, Idle
  <2> QED
    BY <2>1
<1>2. script.seq = "update" /\ Busy /\ (Rests \/ Passes)
  BY <1>1, CutoverBefore
<1>3. CASE script.at > 14
  <2>1. Step \notin {"writeConf", "restoreConf"}
    BY <1>2, <1>3, UpdatesWhere DEF Undone, Stops
  <2> QED
    BY <1>0, <1>2, <1>3, <2>1 DEF DiskOn, ConfNew
<1>4. CASE ~(script.at > 14)
  <2>1. Passes /\ script.at \in Nat
    BY <1>2, <1>4 DEF Rests, Typed, Values, Scripts
  <2>2. script.at = 14 /\ Step = "writeConf"
    <3>1. Step # "copySnapshot"
      BY <1>2, <1>4, UpdatesWhere
    <3>2. script'.at = script.at + 1
      BY <1>2, <2>1, <3>1 DEF Passes
    <3> QED
      BY <1>2, <1>4, <2>1, <3>2, UpdatesWhere
  <2>3. WriteConf
    BY <1>2, <2>1, <2>2, PassesBy
  <2> QED
    BY <2>3, NewTyped, Outside DEF WriteConf, Typed, Values, Disks
<1> QED
  BY <1>3, <1>4

\* The database that was there is saved or still there, with every write since; a
\* rollback puts it back, and leaves none where there was none.
DbBack ==
  /\ Busy /\ flags.cutover /\ WasSound =>
       /\ flags.dbCaptured /\ flags.dbSaved => Holds(dirs.rb.db, before.tree.db)
       /\ flags.dbCaptured /\ ~flags.dbSaved => before.tree.db = None
       /\ ~flags.dbCaptured => /\ Holds(disk.db, before.tree.db)
                               /\ flags.dbPresent <=> before.tree.db # None
  /\ script.seq = "rollback" /\ script.at > 15 =>
       dirs.rb.db = before.tree.db /\ dirs.sel.tree.db = before.tree.db
  /\ Done(9) /\ WasSound /\ flags.dbCaptured /\ ~flags.dbSaved => disk.db = None
  /\ Done(10) /\ WasSound => Holds(disk.db, before.tree.db)

\* The start of the release that was there changes nothing of its database.
LEMMA HoldsMigrated ==
  ASSUME Typed, WasSound, before.tree.code \in Releases, Holds(disk.db, before.tree.db)
  PROVE  Migrated(disk.db, before.tree.code) = disk.db
<1>1. /\ before.tree.db \notin {None, Torn}
      /\ before.tree.db.schema >= Schema[before.tree.code]
  BY Outside DEF WasSound
<1>2. disk.db \notin {None, Torn} /\ disk.db.schema = before.tree.db.schema
  BY <1>1 DEF Holds
<1>3. disk.db \in Dbs /\ before.tree.db \in Dbs
  BY <1>1, <1>2, NoDbs DEF Typed, Values, Disks, Befores, Content4
<1>4. disk.db.schema \in Nat /\ Schema[before.tree.code] \in Nat
  BY <1>3, SchemaType DEF Dbs
<1>5. ~(disk.db.schema < Schema[before.tree.code])
  BY <1>1, <1>2, <1>4
<1>6. Migrated(disk.db, before.tree.code) = [disk.db EXCEPT !.schema = disk.db.schema]
  BY <1>2, <1>5 DEF Migrated
<1>7. \A d \in Dbs : [d EXCEPT !.schema = d.schema] = d
  BY DEF Dbs
<1> QED
  BY <1>3, <1>6, <1>7

\* A write goes to the database that has to come back as well, or comes on top of it.
LEMMA WriteHolds ==
  ASSUME Typed, Write
  PROVE  /\ disk.db \in Dbs /\ disk'.db \in Dbs /\ disk'.db.schema = disk.db.schema
         /\ before'.tree.code = before.tree.code
         /\ \/ before' = before
            \/ /\ before'.tree.db = disk'.db /\ before.tree.db = disk.db
               /\ sysd.proc \in Releases /\ sysd.proc = before.tree.code /\ Promised
         /\ Holds(disk.db, before.tree.db) => Holds(disk'.db, before'.tree.db)
<1>1. disk.db \in Dbs /\ sysd.proc \in Releases /\ disk \in Disks /\ before \in Befores
  BY NoDbs DEF Write, Ready, Typed, Values, Disks
<1>2. disk' = [disk EXCEPT !.db.writes = @ + 1] /\ disk.db.writes < MaxWrites
  BY DEF Write
<1>3. disk'.db = [disk.db EXCEPT !.writes = @ + 1]
  BY <1>1, <1>2 DEF Disks
<1>4. /\ disk'.db \in Dbs /\ disk'.db.schema = disk.db.schema /\ disk'.db.born = disk.db.born
      /\ disk'.db.writes = disk.db.writes + 1 /\ disk.db.writes \in Nat
  <2>1. disk.db.writes \in Nat /\ disk.db.writes + 1 \in 0..MaxWrites
    BY <1>1, <1>2, DeploymentAssumption DEF Dbs
  <2> QED
    BY <1>1, <1>3, <2>1 DEF Dbs
<1>5. \/ before' = before
      \/ /\ before' = [before EXCEPT !.tree.db = disk'.db] /\ before.tree.db = disk.db
         /\ sysd.proc = before.tree.code /\ Promised
  BY DEF Write
<1>6. \/ before' = before
      \/ /\ before'.tree.db = disk'.db /\ before.tree.db = disk.db
         /\ before'.tree.code = before.tree.code
         /\ sysd.proc = before.tree.code /\ Promised
  BY <1>1, <1>5 DEF Befores, Content4
<1>7. ASSUME Holds(disk.db, before.tree.db) PROVE Holds(disk'.db, before'.tree.db)
  <2>1. CASE before'.tree.db = disk'.db
    BY <2>1 DEF Holds
  <2>2. CASE before' = before
    <3>1. before.tree.db \notin {None, Torn}
      BY <1>1, <1>7, NoDbs DEF Holds
    <3>2. before.tree.db \in Dbs
      BY <1>1, <3>1, NoDbs DEF Befores, Content4
    <3>3. /\ before.tree.db.schema = disk.db.schema /\ before.tree.db.born = disk.db.born
          /\ disk.db.writes >= before.tree.db.writes /\ before.tree.db.writes \in Nat
      BY <1>4, <1>7, <3>2 DEF Holds, Dbs
    <3>4. disk'.db.writes >= before.tree.db.writes
      BY <1>4, <3>3
    <3>5. disk'.db \notin {None, Torn}
      BY <1>4, NoDbs
    <3> QED
      BY <1>4, <2>2, <3>1, <3>3, <3>4, <3>5 DEF Holds
  <2> QED
    BY <1>6, <2>1, <2>2
<1> QED
  BY <1>1, <1>4, <1>6, <1>7

\* What was sound stays so until a snapshot is selected.
LEMMA SoundBefore ==
  ASSUME Typed, Placed, Next, WasSound', ~Launch, ~Capture, ~Switch, ~LoadMetadata
  PROVE  WasSound
<1>0. BeforeOn /\ ShellOn
  BY BeforeFrame, ShellFrame
<1>1. before'.tree.code = before.tree.code
  BY <1>0 DEF BeforeOn, Same
<1>2. CASE before'.tree.db = before.tree.db
  <2>1. /\ before.tree.code # None => before.tree.db \notin {None, Torn}
        /\ before.tree.code \in Releases => before.tree.db.schema >= Schema[before.tree.code]
    BY <1>1, <1>2 DEF WasSound
  <2>2. flags'.oldInstall = flags.oldInstall /\ flags'.dbPresent = flags.dbPresent
    BY <1>0 DEF ShellOn
  <2>3. flags'.dbSaved => flags.dbPresent \/ flags.dbSaved
    <3>1. SaveDb => flags'.dbSaved = flags.dbPresent
      BY DEF SaveDb, Typed, Values, FlagSets
    <3> QED
      BY <1>0, <3>1 DEF ShellOn
  <2>4. flags.oldInstall => flags.dbPresent \/ flags.dbSaved
    BY <2>2, <2>3 DEF WasSound
  <2> QED
    BY <2>1, <2>4 DEF WasSound
<1>3. CASE before'.tree.db # before.tree.db
  <2>1. Write
    BY <1>0, <1>3 DEF BeforeOn
  <2>2. /\ before.tree.db \in Dbs /\ before'.tree.db \in Dbs
        /\ before'.tree.db.schema = before.tree.db.schema
    BY <1>3, <2>1, WriteHolds
  <2>3. flags' = flags
    BY <2>1 DEF Write, shell
  <2> QED
    BY <1>1, <2>2, <2>3, NoDbs DEF WasSound
<1> QED
  BY <1>2, <1>3

\* Once the database is saved, no write goes to the one that has to come back.
LEMMA NoWrite ==
  ASSUME Typed, Quiet, Placed, Older, Busy, flags.cutover, flags.dbCaptured, Write
  PROVE  before' = before
<1> SUFFICES ASSUME sysd.proc \in Releases, sysd.proc = before.tree.code, Promised
             PROVE  FALSE
  BY WriteHolds
<1>1. script.seq # "undo" /\ ~before.missed /\ sysd.proc = disk.code
  BY DEF Promised, Window, Undoing
<1>2. ~Past(6)
  BY <1>1, Outside DEF Quiet
<1>3. script.seq # "rollback"
  BY <1>2 DEF Quiet, Past, Typed, Values, Scripts
<1>4. CASE script.seq = "update"
  <2>1. script.at > 12
    BY <1>2, <1>4 DEF Quiet, Past, Typed, Values, Scripts
  <2>2. disk.code = New /\ before.tree.code <= count.runs
    BY <1>4, <2>1 DEF Placed, Older
  <2>3. count.runs \in Nat
    BY DEF Typed, Values, Counts
  <2> QED
    BY <1>1, <2>2, <2>3 DEF New
<1> QED
  BY <1>1, <1>3, <1>4, Programs DEF Busy

\* What a step leaves of a database that is where it has to come back.
LEMMA DbStays ==
  ASSUME Typed, WasSound, Next, Grown, Holds(disk.db, before.tree.db),
         disk.code = before.tree.code, ~Capture, ~Switch
  PROVE  Holds(disk'.db, before'.tree.db)
<1>1. CASE Write
  BY <1>1, WriteHolds
<1>2. CASE ~Write
  <2>1. before'.tree.db = before.tree.db
    BY <1>2, BeforeFrame DEF BeforeOn
  <2>2. disk'.db = disk.db
    BY <1>2, HoldsMigrated DEF Grown
  <2> QED
    BY <2>1, <2>2
<1> QED
  BY <1>1, <1>2

\* What the script has saved of the database, step by step.
LEMMA DbSavedInv ==
  ASSUME Typed, Placed, Quiet, Marked, Snaps, Known, CodeBack, Older, DbBack, Next,
         Busy', flags'.cutover, WasSound'
  PROVE  /\ flags'.dbCaptured /\ flags'.dbSaved => Holds(dirs'.rb.db, before'.tree.db)
         /\ flags'.dbCaptured /\ ~flags'.dbSaved => before'.tree.db = None
         /\ ~flags'.dbCaptured => /\ Holds(disk'.db, before'.tree.db)
                                  /\ flags'.dbPresent <=> before'.tree.db # None
<1>0. DiskOn /\ ShellOn /\ BeforeOn
  BY DiskFrame, ShellFrame, BeforeFrame
<1>1. Busy /\ ~Exit /\ ~Killed /\ ~Launch /\ ((flags.cutover /\ Step # "capture") \/ Capture)
  BY CutBefore, Programs DEF Cut, Gone, Busy
<1>2. CASE Capture
  <2>1. before'.tree.db = disk.db /\ disk'.db = disk.db
        /\ flags'.dbPresent = (disk.db # None) /\ ~flags'.dbCaptured
    BY <1>2, CaptureDoes DEF Same
  <2> QED
    BY <2>1 DEF Holds
<1>3. CASE Switch
  <2>1. script.seq = "rollback" /\ script.at = 15 /\ flags.cutover
    BY <1>1, <1>3, Guards, SwitchAt, RollsWhere DEF At
  <2>2. flags.dbCaptured /\ flags.oldInstall /\ flags.dbSaved = flags.dbPresent /\ flags' = flags
    BY <1>3, <2>1 DEF Switch, Placed, After, Known
  <2>3. flags.dbSaved
    BY <2>2 DEF WasSound
  <2>4. dirs'.rb = dirs.sel.tree /\ before'.tree = dirs.sel.tree
    BY <1>3 DEF Switch, Typed, Values, Dirs, Befores
  <2> QED
    BY <2>2, <2>3, <2>4 DEF Holds
<1>4. CASE LoadMetadata
  <2>1. script.seq = "rollback" /\ script.at = 16
    BY <1>4, Guards, SwitchAt, RollsWhere DEF At
  <2>2. flags.dbCaptured
    BY <2>1 DEF Placed, After
  <2>3. /\ flags'.dbCaptured = flags.dbCaptured /\ flags'.dbSaved = dirs.sel.dbSaved
        /\ dirs' = dirs /\ before'.tree = before.tree
    BY <1>4 DEF LoadMetadata, Typed, Values, FlagSets, Befores
  <2>4. dirs.rb.db = before.tree.db /\ dirs.sel.tree.db = before.tree.db
    BY <2>1 DEF DbBack
  <2>5. ~dirs.sel.dbSaved => dirs.sel.tree.db = None
    BY <2>1 DEF Snaps, SnapOk
  <2> QED
    BY <2>2, <2>3, <2>4, <2>5 DEF Holds
<1>5. CASE ~Capture /\ ~Switch /\ ~LoadMetadata
  <2>1. WasSound /\ flags.cutover
    BY <1>1, <1>5, SoundBefore
  <2>2. /\ flags.dbCaptured /\ flags.dbSaved => Holds(dirs.rb.db, before.tree.db)
        /\ flags.dbCaptured /\ ~flags.dbSaved => before.tree.db = None
        /\ ~flags.dbCaptured => /\ Holds(disk.db, before.tree.db)
                                /\ flags.dbPresent <=> before.tree.db # None
    BY <1>1, <2>1 DEF DbBack
  <2>3. CASE SaveDb
    <3>1. before' = before /\ Step = "saveDb"
      BY <2>3, Guards DEF SaveDb, hist
    <3>2. ~flags.dbCaptured
      BY <3>1, CodeStepsAt
    <3>3. /\ flags'.dbCaptured /\ flags'.dbSaved = flags.dbPresent
          /\ flags.dbPresent => dirs'.rb.db = disk.db
      BY <2>3 DEF SaveDb, Typed, Values, FlagSets, Dirs, Content4
    <3> QED
      BY <2>2, <3>1, <3>2, <3>3
  <2>4. CASE ~SaveDb
    <3>1. /\ flags'.dbCaptured = flags.dbCaptured /\ flags'.dbSaved = flags.dbSaved
          /\ flags'.dbPresent = flags.dbPresent
      BY <1>0, <1>1, <1>5, <2>4 DEF ShellOn
    <3>2. ASSUME flags.dbCaptured
          PROVE  before'.tree.db = before.tree.db /\ dirs'.rb.db = dirs.rb.db
      <4>1. before'.tree.db = before.tree.db
        BY <1>0, <1>1, <1>5, <2>1, <3>2, NoWrite DEF BeforeOn
      <4>2. CASE SaveCode
        BY <4>1, <4>2 DEF SaveCode, Typed, Values, Dirs, Content4
      <4>3. CASE Partly
        <5>1. Step # "saveDb"
          BY <3>2, CodeStepsAt
        <5> QED
          BY <4>1, <4>3, <5>1, PartlyTears DEF Same
      <4> QED
        BY <1>0, <1>1, <1>5, <2>4, <4>1, <4>2, <4>3 DEF ShellOn
    <3>3. ASSUME ~flags.dbCaptured
          PROVE  /\ Holds(disk'.db, before'.tree.db)
                 /\ before'.tree.db # None <=> before.tree.db # None
      <4>1. ~flags.codeSaved /\ ~flags.dbSaved
        BY <1>1, <3>3 DEF Placed
      <4>2. disk.code = before.tree.code
        BY <1>1, <2>1, <4>1 DEF CodeBack, Cut
      <4>3. Grown
        BY <1>0, <3>3, <4>1 DEF DiskOn
      <4>4. before'.tree.db # None <=> before.tree.db # None
        <5>1. Write => before'.tree.db = before.tree.db
                       \/ (before'.tree.db \in Dbs /\ before.tree.db \in Dbs)
          BY WriteHolds
        <5> QED
          BY <1>0, <1>5, <5>1, NoDbs DEF BeforeOn
      <4> QED
        BY <1>5, <2>1, <2>2, <3>3, <4>2, <4>3, <4>4, DbStays
    <3> QED
      BY <2>2, <3>1, <3>2, <3>3
  <2> QED
    BY <2>3, <2>4
<1> QED
  BY <1>2, <1>3, <1>4, <1>5

\* The selected snapshot stays what has to come back until its variables are read.
LEMMA SwitchedInv ==
  ASSUME Typed, Placed, Quiet, Marked, Older, DbBack, Next,
         script'.seq = "rollback", script'.at > 15
  PROVE  dirs'.rb.db = before'.tree.db /\ dirs'.sel.tree.db = before'.tree.db
<1>0. ShellOn /\ BeforeOn
  BY ShellFrame, BeforeFrame
<1>1. ~Launch
  <2>1. Launch => script'.at = 1
    BY DEF Launch, Idle
  <2> QED
    BY <2>1
<1>2. /\ script.seq = "rollback" /\ Busy /\ (Rests \/ Passes)
      /\ ~Exit /\ ~Killed /\ ~LoadMetadata
  BY <1>1, CutoverBefore
<1>3. CASE script.at > 15
  <2>1. script.at = 16 /\ Step = "load"
    BY <1>2, <1>3, RollsWhere
  <2>2. flags.dbCaptured /\ flags.cutover
    BY <1>2, <2>1 DEF Placed, Marked, After
  <2>3. ~Capture /\ ~Switch /\ ~SaveDb /\ ~SaveCode
    BY <2>1, Guards
  <2>4. before'.tree.db = before.tree.db
    BY <1>0, <1>2, <2>2, <2>3, NoWrite DEF BeforeOn
  <2>5. dirs'.rb.db = dirs.rb.db
    <3>1. Partly => dirs' = dirs
      BY <2>1, PartlyTears
    <3> QED
      BY <1>0, <1>2, <2>3, <3>1 DEF ShellOn
  <2>6. dirs'.sel = dirs.sel
    BY <1>0, <1>1, <1>2 DEF ShellOn
  <2> QED
    BY <1>2, <1>3, <2>4, <2>5, <2>6 DEF DbBack
<1>4. CASE ~(script.at > 15)
  <2>1. Passes /\ script.at \in Nat /\ script'.at \in Nat
    BY <1>2, <1>4 DEF Rests, Passes, Typed, Values, Scripts
  <2>2. Step # "copySnapshot"
    <3>1. ASSUME Step = "copySnapshot" PROVE FALSE
      <4>1. script.at = 11
        BY <1>2, <3>1, RollsWhere
      <4>2. CopySnapshot
        BY <1>2, <2>1, <3>1, PassesBy
      <4>3. script'.at = 12 \/ script'.at = 15
        <5>1. script' = [script EXCEPT !.at = @ + Len(Persist)] => script'.at = 15
          BY <4>1 DEF Typed, Values, Scripts, Persist
        <5> QED
          BY <1>2, <3>1, <4>1, <4>2, <5>1, Guards, Onward
      <4> QED
        BY <4>3
    <3> QED
      BY <3>1
  <2>3. script'.at = script.at + 1
    BY <1>2, <2>1, <2>2 DEF Passes
  <2>4. Step = "switch"
    BY <1>2, <1>4, <2>1, <2>3, RollsWhere
  <2>5. Switch
    BY <1>2, <2>1, <2>4, PassesBy
  <2> QED
    BY <2>5 DEF Switch, Typed, Values, Dirs, Befores
<1> QED
  BY <1>3, <1>4

\* A rollback, and what follows its report, keeps what the script knows of the database.
LEMMA UndoneStays ==
  ASSUME Typed, Next, Undoing \/ Gone, ~Exit, script'.seq \in {"undo", "exit"}
  PROVE  /\ ~Launch /\ ~Capture /\ ~Switch /\ ~LoadMetadata /\ ~SaveDb
         /\ flags'.dbCaptured = flags.dbCaptured /\ flags'.dbSaved = flags.dbSaved
         /\ before'.was = before.was /\ before'.marker = before.marker
         /\ Same(before'.tree, before.tree, {"code", "conf", "site"})
         /\ was' = was
<1>1. ~Launch
  <2>1. Launch => script'.seq \in {"update", "rollback"}
    BY DEF Launch, Idle
  <2> QED
    BY <2>1
<1>2. ~Capture /\ ~Switch /\ ~LoadMetadata /\ ~SaveDb
  BY UndoneAt
<1> QED
  BY <1>1, <1>2, ShellFrame, BeforeFrame DEF ShellOn, BeforeOn

\* Where there was no database the rollback leaves none.
LEMMA DbGoneInv ==
  ASSUME Typed, Placed, Marked, CodeBack, DbBack, Next,
         Done(9)', WasSound', flags'.dbCaptured, ~flags'.dbSaved
  PROVE  disk'.db = None
<1>0. DiskOn /\ script'.seq \in {"undo", "exit"}
  BY DiskFrame DEF Done, Undoing, Gone
<1>1. CASE Done(9) /\ ~Exit
  <2>1. Undoing \/ Gone
    BY <1>1 DEF Done
  <2>2. /\ WasSound /\ flags.dbCaptured /\ ~flags.dbSaved
        /\ ~Capture /\ ~Switch
    BY <1>0, <1>1, <2>1, UndoneStays, SoundBefore
  <2>3. disk.db = None
    BY <1>1, <2>2 DEF DbBack
  <2>4. Step # "wipeDb"
    BY <1>1, UndoesWhere, UndoneAt, Programs DEF Done, Undone, Gone, Step, Busy
  <2>5. Grown /\ ~Write
    BY <1>0, <2>2, <2>3, <2>4 DEF DiskOn, Write, Ready
  <2>6. disk.code = before.tree.code
    <3>1. Done(8)
      BY <1>1 DEF Done, Typed, Values, Scripts
    <3> QED
      BY <3>1 DEF CodeBack
  <2>7. before.tree.db = None
    <3>1. CASE Undoing
      BY <2>2, <3>1, UndoesWhere DEF DbBack, Marked
    <3>2. CASE Gone
      <4>1. Holds(disk.db, before.tree.db)
        BY <2>2, <3>2 DEF DbBack, Done
      <4> QED
        BY <2>3, <4>1 DEF Holds
    <3> QED
      BY <2>1, <3>1, <3>2
  <2>8. disk.code \notin Releases
    BY <2>2, <2>6, <2>7, Outside DEF WasSound
  <2> QED
    BY <2>3, <2>5, <2>8 DEF Grown
<1>2. CASE /\ Undoing /\ script.at = 9 /\ ~script.failed
           /\ script'.seq = "undo" /\ script'.at = script.at + 1 /\ ~script'.failed
  <2>1. Step = "wipeDb" /\ Busy
    BY <1>2, UndoesWhere
  <2>2. ~StepFails
    BY <1>2, <2>1, AdvancedTyped DEF StepFails, Scripts
  <2>3. WipeDb
    BY <1>2, <2>1, <2>2, Undoes DEF Stoppers
  <2>4. flags' = flags
    BY <2>3 DEF WipeDb, shell
  <2> QED
    BY <2>3, <2>4 DEF WipeDb, Typed, Values, Disks
<1> QED
  BY <1>1, <1>2, DoneBefore

\* And otherwise the one that was there.
LEMMA DbDoneInv ==
  ASSUME Typed, Placed, Marked, CodeBack, DbBack, Next, Done(10)', WasSound'
  PROVE  Holds(disk'.db, before'.tree.db)
<1>0. DiskOn /\ script'.seq \in {"undo", "exit"}
  BY DiskFrame DEF Done, Undoing, Gone
<1>1. CASE Done(10) /\ ~Exit
  <2>1. Undoing \/ Gone
    BY <1>1 DEF Done
  <2>2. WasSound /\ ~Capture /\ ~Switch
    BY <1>0, <1>1, <2>1, UndoneStays, SoundBefore
  <2>3. Holds(disk.db, before.tree.db)
    BY <1>1, <2>2 DEF DbBack
  <2>4. Grown
    <3>1. Step \notin {"wipeDb", "copyDb"}
      BY <1>1, UndoesWhere, UndoneAt, Programs DEF Done, Undone, Gone, Step, Busy
    <3> QED
      BY <1>0, <3>1 DEF DiskOn
  <2>5. disk.code = before.tree.code
    <3>1. Done(8)
      BY <1>1 DEF Done, Typed, Values, Scripts
    <3> QED
      BY <3>1 DEF CodeBack
  <2> QED
    BY <2>2, <2>3, <2>4, <2>5, DbStays
<1>2. CASE /\ Undoing /\ script.at = 10 /\ ~script.failed
           /\ script'.seq = "undo" /\ script'.at = script.at + 1 /\ ~script'.failed
  <2>1. Step = "copyDb" /\ Busy /\ ~Exit
    BY <1>2, UndoesWhere, Guards DEF Exit, Undoing
  <2>2. ~StepFails
    BY <1>2, <2>1, AdvancedTyped DEF StepFails, Scripts
  <2>3. CopyDb /\ before' = before /\ flags.cutover
    BY <1>2, <2>1, <2>2, Undoes DEF Stoppers, CopyDb, hist, Marked
  <2>4. WasSound
    BY <1>0, <1>2, <2>1, UndoneStays, SoundBefore
  <2>5. /\ flags.dbCaptured /\ flags.dbSaved => Holds(dirs.rb.db, before.tree.db)
        /\ flags.dbCaptured /\ ~flags.dbSaved => before.tree.db = None
        /\ ~flags.dbCaptured => Holds(disk.db, before.tree.db)
    BY <2>1, <2>3, <2>4 DEF DbBack
  <2>6. disk'.db = IF flags.dbCaptured /\ flags.dbSaved THEN dirs.rb.db ELSE disk.db
    BY <2>3 DEF CopyDb, Typed, Values, Disks
  <2>7. flags.dbCaptured /\ ~flags.dbSaved => disk.db = None
    BY <1>2, <2>4 DEF DbBack, Done
  <2> QED
    BY <2>3, <2>5, <2>6, <2>7 DEF Holds
<1> QED
  BY <1>1, <1>2, DoneBefore

\* Every step keeps DbBack, one of its parts after the other.
LEMMA DbInv ==
  ASSUME Typed, Placed, Quiet, Marked, Snaps, Known, CodeBack, Older, DbBack, Next
  PROVE  DbBack'
BY DbSavedInv, SwitchedInv, DbGoneInv, DbDoneInv DEF DbBack

\* Which steps enable, disable, start and stop a unit.
UnitsOn ==
  /\ \A u \in Units : u \in sysd'.enabled /\ u \notin sysd.enabled =>
       Exit \/ Step \in Starters \cup {"ensureCaddy"} \/ (Enable /\ was[u].enabled)
  /\ sysd.enabled \subseteq sysd'.enabled \/ Exit \/ Disable
  /\ \A u \in Timers :
       /\ u \in sysd'.on /\ u \notin sysd.on =>
            Step \in Starters \/ (RestoreUnits /\ Step = "restoreTimers" /\ disk.conf # None)
       /\ u \in sysd.on /\ u \notin sysd'.on => Step \in Stoppers \cup {"restoreTimers"}
  /\ \/ "caddy" \in sysd'.on <=> "caddy" \in sysd.on
     \/ Exit \/ Step \in {"stopCaddy", "startCaddy", "ensureCaddy", "restoreCaddy"}
  /\ sysd.proc = None /\ sysd'.proc # None =>
       \/ Step = "startPanel"
       \/ disk.conf # None /\ (RestorePanel \/ (Undoing \/ script.seq = "exit" => raced'))
  /\ sysd.proc # None /\ sysd'.proc = None =>
       Step \in {"stopPanel", "restorePanel"} \/ disk.conf = None

\* What leaves systemd alone enables and starts no unit.
LEMMA SameUnitsOn == ASSUME UNCHANGED sysd PROVE UnitsOn
BY DEF UnitsOn

\* What starts or restarts the panel touches no other unit.
LEMMA PanelUnitsOn ==
  ASSUME sysd'.on = sysd.on, sysd'.enabled = sysd.enabled,
         sysd.proc # None /\ sysd'.proc = None => disk.conf = None,
         sysd.proc = None /\ sysd'.proc # None =>
           /\ disk.conf # None
           /\ RestorePanel \/ (Undoing \/ script.seq = "exit" => raced')
  PROVE  UnitsOn
BY DEF UnitsOn

\* UnitsOn holds of every step.
LEMMA UnitsFrame == ASSUME Typed, Next PROVE UnitsOn
<1>1. CASE HealthCheckStarts \/ HealthCheckProbes \/ HealthCheckReturns \/ BackupTimerFires
           \/ Launch \/ Write \/ MissPanel \/ Interrupted \/ Fails \/ Killed \/ Capture \/ Partly \/ PrepareState \/ ClearCode
           \/ StopHealthCheck \/ StopBackup \/ SaveDb \/ SaveCode \/ WaitForBackend
  BY <1>1, SameUnitsOn
  DEF HealthCheckStarts, HealthCheckProbes, HealthCheckReturns, BackupTimerFires, Launch, Write,
      MissPanel, Interrupted, Fails, Killed, Capture, Partly, PrepareState, ClearCode,
      StopHealthCheck, StopBackup, SaveDb, SaveCode, WaitForBackend
<1>2. CASE StartHealthCheck \/ HealthCheckEnds \/ CopySnapshot \/ SumSnapshot \/ Install
           \/ NameLatest \/ Rotate \/ Succeed \/ Switch \/ LoadMetadata \/ Migrate
           \/ WriteConf \/ WriteSite \/ Verify \/ StepFails
  BY <1>2, SameUnitsOn
  DEF StartHealthCheck, HealthCheckEnds, CopySnapshot, SumSnapshot, Install,
      NameLatest, Rotate, Succeed, Switch, LoadMetadata, Migrate,
      WriteConf, WriteSite, Verify, StepFails
<1>3. CASE WipeCode \/ CopyCode \/ WipeDb \/ CopyDb \/ RestoreFiles
  BY <1>3, SameUnitsOn DEF WipeCode, CopyCode, WipeDb, CopyDb, RestoreFiles
<1>4. sysd \in Sysds /\ Enabled(sysd, "panel") \in Sysds
  BY DEF Typed, Values, Sysds, Enabled, Units
<1>5. CASE AutoRestart \/ PanelRestarts \/ HealthCheckRecovers \/ BackupRuns
  BY <1>5, UnitStarts, PanelUnitsOn
<1>8. CASE StartService
  <2>1. /\ sysd'.on = sysd.on /\ sysd'.enabled = sysd.enabled \cup {"panel"}
        /\ sysd.proc # None => sysd'.proc # None
        /\ Step = "startPanel"
    BY <1>4, <1>8, LaunchedLeaves, Guards DEF StartService, Enabled, Sysds
  <2> QED
    BY <2>1 DEF UnitsOn, Starters
<1>9. CASE RestorePanel
  <2>1. CASE StartPanel(sysd)
    <3>1. /\ sysd'.on = sysd.on /\ sysd'.enabled = sysd.enabled
          /\ sysd.proc # None => sysd'.proc # None
      BY <1>4, <2>1, LaunchedLeaves
    <3>2. sysd' = sysd \/ disk.conf # None
      BY <2>1 DEF StartPanel
    <3> QED
      BY <1>9, <3>1, <3>2, PanelUnitsOn
  <2>2. CASE Stop({u \in {"panel"} : KeptDown(u)})
    <3>1. /\ sysd'.on = sysd.on /\ sysd'.enabled = sysd.enabled
          /\ sysd.proc = None => sysd'.proc = None
      BY <1>4, <2>2 DEF Stop, Sysds
    <3> QED
      BY <1>9, <3>1, Guards DEF UnitsOn
  <2> QED
    BY <1>9, <2>1, <2>2 DEF RestorePanel
<1>10. CASE EnsureCaddy
  <2>1. /\ sysd'.proc = sysd.proc /\ Step = "ensureCaddy"
        /\ sysd.enabled \subseteq sysd'.enabled /\ sysd'.enabled \subseteq sysd.enabled \cup {"caddy"}
        /\ sysd.on \subseteq sysd'.on /\ sysd'.on \subseteq sysd.on \cup {"caddy"}
    <3>1. Step = "ensureCaddy"
      BY <1>10, Guards
    <3>2. sysd' = sysd \/ sysd' = [sysd EXCEPT !.caddy = TRUE, !.on = @ \cup {"caddy"},
                                               !.enabled = @ \cup {"caddy"}]
      BY <1>10 DEF EnsureCaddy
    <3>3. CASE sysd' = [sysd EXCEPT !.caddy = TRUE, !.on = @ \cup {"caddy"},
                                    !.enabled = @ \cup {"caddy"}]
      BY <1>4, <3>1, <3>3 DEF Sysds
    <3> QED
      BY <3>1, <3>2, <3>3
  <2> QED
    BY <2>1 DEF UnitsOn, Timers
<1>11. CASE Exit
  <2>1. sysd'.proc = sysd.proc /\ sysd'.on \cup {"caddy"} = sysd.on \cup {"caddy"}
    <3>1. CASE sysd' = sysd
      BY <3>1
    <3>2. CASE sysd' # sysd
      <4>1. sysd' = [sysd EXCEPT !.on = IF was["caddy"].on THEN @ \cup {"caddy"} ELSE @ \ {"caddy"},
                                 !.enabled = IF was["caddy"].enabled THEN @ \cup {"caddy"}
                                             ELSE @ \ {"caddy"}]
        BY <1>11, <3>2 DEF Exit
      <4>2. /\ sysd'.on = IF was["caddy"].on THEN sysd.on \cup {"caddy"} ELSE sysd.on \ {"caddy"}
            /\ sysd'.proc = sysd.proc
        BY <1>4, <4>1 DEF Sysds
      <4> QED
        BY <4>2
    <3> QED
      BY <3>1, <3>2
  <2>2. \A u \in Timers : u \in sysd'.on <=> u \in sysd.on
    BY <2>1 DEF Timers
  <2> QED
    BY <1>11, <2>1, <2>2 DEF UnitsOn
<1>12. CASE StopUnit
  <2>1. Step \in Stoppers
    BY <1>12, Guards DEF Stopping, Stoppers
  <2>2. /\ sysd'.enabled = sysd.enabled /\ sysd'.on \subseteq sysd.on
        /\ Step # "stopPanel" => sysd'.proc = sysd.proc
        /\ sysd.proc = None => sysd'.proc = None
        /\ Step # "stopCaddy" => ("caddy" \in sysd'.on <=> "caddy" \in sysd.on)
    BY <1>4, <1>12, <2>1 DEF StopUnit, Stop, Stopping, Stoppers, Sysds
  <2> QED
    BY <2>1, <2>2 DEF UnitsOn
<1>13. CASE StartUnit
  <2>1. Step \in Starters
    BY <1>13, Guards DEF Starters
  <2>2. /\ sysd'.proc = sysd.proc /\ sysd.enabled \subseteq sysd'.enabled
        /\ sysd.on \subseteq sysd'.on
        /\ Step # "startCaddy" => ("caddy" \in sysd'.on <=> "caddy" \in sysd.on)
    <3>1. PICK u \in {"caddy", "health", "backup"} :
            /\ sysd' = [Enabled(sysd, u) EXCEPT !.on = @ \cup {u}]
            /\ Step # "startCaddy" => u # "caddy"
      BY <1>13 DEF StartUnit, At
    <3> QED
      BY <1>4, <3>1 DEF Enabled, Sysds
  <2> QED
    BY <2>1, <2>2 DEF UnitsOn
<1>14. CASE Disable
  <2>1. sysd'.on = sysd.on /\ sysd'.proc = sysd.proc /\ sysd'.enabled \subseteq sysd.enabled
    BY <1>4, <1>14 DEF Disable, Sysds
  <2> QED
    BY <1>14, <2>1 DEF UnitsOn
<1>15. CASE Enable
  <2>1. /\ sysd'.on = sysd.on /\ sysd'.proc = sysd.proc /\ sysd.enabled \subseteq sysd'.enabled
        /\ \A u \in sysd'.enabled : u \in sysd.enabled \/ was[u].enabled
    BY <1>4, <1>15 DEF Enable, Sysds
  <2> QED
    BY <1>15, <2>1 DEF UnitsOn
<1>16. CASE RestoreUnits
  <2>1. sysd'.enabled = sysd.enabled /\ sysd'.proc = sysd.proc
    BY <1>4, <1>16 DEF RestoreUnits, Sysds
  <2>2. sysd'.on = (sysd.on \ {u \in Restoring[Step] : KeptDown(u)})
                     \cup {u \in Restoring[Step] : Restarted(u) /\ Here(u)}
    BY <1>4, <1>16 DEF RestoreUnits, Sysds
  <2>3. CASE Step = "restoreCaddy"
    <3>1. sysd'.on \cup {"caddy"} = sysd.on \cup {"caddy"}
      BY <2>2, <2>3 DEF Restoring
    <3> QED
      BY <2>1, <2>3, <3>1 DEF UnitsOn, Timers
  <2>4. CASE Step = "restoreTimers"
    <3>1. /\ \A u \in sysd'.on : u \in sysd.on \/ (Here(u) /\ u \in Timers)
          /\ \A u \in sysd.on : u \in sysd'.on \/ u \in Timers
      <4>1. Restoring[Step] = Timers
        BY <2>4 DEF Restoring
      <4> QED
        BY <2>2, <4>1
    <3>2. \A u \in Timers : Here(u) => disk.conf # None
      BY DEF Here, Timers
    <3> QED
      BY <1>16, <2>1, <2>4, <3>1, <3>2 DEF UnitsOn, Timers
  <2> QED
    BY <1>16, <2>3, <2>4, Guards
<1> QED
  BY <1>1, <1>2, <1>3, <1>5, <1>8, <1>9, <1>10, <1>11, <1>12, <1>13, <1>14, <1>15,
     <1>16
  DEF Next

\* A script that sees what runs: no unit runs without its file, nor was one left so.
Sees == Cut /\ ~before.stray
Own == Units \ {"caddy"}

\* Where there are no units none runs, but one that came between starts the panel.
Strays ==
  Sees /\ disk.conf = None =>
    /\ "health" \notin sysd.on /\ "backup" \notin sysd.on
    /\ ~raced => sysd.proc = None
    /\ \A u \in Own : /\ u \in sysd.enabled => was[u].enabled
                      /\ script.seq \in {"update", "rollback"} => u \notin sysd.enabled

\* What a rollback has stopped and disabled stays so until it is restored.
Downs ==
  /\ Sees /\ Undoing /\ script.at \in 2 .. 16 => "health" \notin sysd.on
  /\ Sees /\ Undoing /\ script.at \in 3 .. 16 => "backup" \notin sysd.on
  /\ Sees /\ Undoing /\ script.at \in 5 .. 14 /\ ~raced => sysd.proc = None
  /\ Sees /\ ((Undoing /\ script.at > 6) \/ Gone) =>
       \A u \in Units : u \in sysd.enabled => was[u].enabled

\* And what it has restored runs and is enabled as it was.
Ups ==
  /\ Done(13) => \A u \in Units : was[u].enabled => u \in sysd.enabled
  /\ Done(14) /\ ~before.stray /\ ~raced => (sysd.proc # None <=> was["panel"].on)
  /\ Done(15) => ("caddy" \in sysd.on <=> was["caddy"].on)
  /\ Done(16) /\ ~before.stray => \A u \in Timers : u \in sysd.on <=> was[u].on

\* It saw before what it sees, unless it begins to.
LEMMA SeesBefore ==
  ASSUME Typed, Marked, Next, Sees', ~Capture
  PROVE  /\ Sees /\ ~Exit /\ ~Killed /\ ~Launch /\ Step # "capture"
         /\ ~raced' => ~raced
         /\ script'.seq \in {"update", "rollback"} => script.seq = script'.seq
<1>1. Cut /\ ~Exit /\ ~Killed /\ ~Launch /\ Step # "capture"
  BY CutBefore DEF Sees
<1>2. ~before.stray /\ (~raced' => ~raced)
  BY <1>1, BeforeFrame DEF BeforeOn, Sees
<1>3. script'.seq \in {"update", "rollback"} => script.seq = script'.seq
  BY <1>1, CutoverBefore
<1> QED
  BY <1>1, <1>2, <1>3 DEF Sees

\* Where there are no units, nothing but a rollback is started again.
LEMMA NothingStarts ==
  ASSUME Typed, Marked, ConfNew, Sees, disk.conf = None
  PROVE  Step \notin Starters \cup {"ensureCaddy"}
<1>1. CASE script.seq = "update"
  <2>1. script.at > 1 /\ script.at <= 14
    <3>1. flags.cutover
      BY <1>1, UpdatesWhere DEF Sees, Cut, Gone
    <3> QED
      BY <1>1, <3>1, UpdatesWhere DEF Marked, After, ConfNew
  <2>2. Step # "ensureCaddy" /\ Step \notin {"startPanel", "startCaddy", "startHealthTimer", "startBackups"}
    BY <1>1, <2>1, UpdatesWhere, StartsAt
  <2> QED
    BY <2>2 DEF Starters
<1>2. CASE script.seq # "update"
  <2>1. Busy => Step \notin Starters
    BY <1>2, StartsAt DEF Starters
  <2>2. Busy => Step # "ensureCaddy"
    BY <1>2, RollsWhere, UndoesWhere, Programs DEF Busy, Undoing, Undone
  <2>3. ~Busy => Step = "none"
    BY DEF Step
  <2> QED
    BY <2>1, <2>2, <2>3 DEF Starters
<1> QED
  BY <1>1, <1>2

\* Every step keeps Strays: only a unit with its file is enabled or started.
LEMMA StraysInv ==
  ASSUME Typed, Placed, Marked, ConfNew, Strays, Downs, Next
  PROVE  Strays'
<1>0. DiskOn /\ SysdOn /\ UnitsOn /\ ShellOn
  BY DiskFrame, SysdFrame, UnitsFrame, ShellFrame
<1> SUFFICES ASSUME Sees', disk'.conf = None
             PROVE  /\ "health" \notin sysd'.on /\ "backup" \notin sysd'.on
                    /\ ~raced' => sysd'.proc = None
                    /\ \A u \in Own : /\ u \in sysd'.enabled => was'[u].enabled
                                      /\ script'.seq \in {"update", "rollback"} =>
                                           u \notin sysd'.enabled
  BY DEF Strays
<1>1. CASE Capture
  <2>1. UNCHANGED <<disk, sysd>>
    BY <1>1 DEF Capture
  <2>2. ~\E u \in Units : ~Here(u) /\ (On(u) \/ u \in sysd.enabled)
    BY <1>1 DEF Capture, Sees
  <2>3. \A u \in Own : ~On(u) /\ u \notin sysd.enabled
    BY <2>1, <2>2 DEF Here, Own
  <2> QED
    BY <2>1, <2>3 DEF Own, Units, Timers, On
<1>2. CASE ~Capture /\ disk.conf # None
  <2>1. Sees /\ ~Exit /\ Step \in {"writeConf", "restoreConf"}
    BY <1>0, <1>2, SeesBefore DEF DiskOn
  <2>2. Step = "restoreConf" /\ Busy
    BY <1>0, <1>2, <2>1 DEF DiskOn, Step
  <2>3. Undoing /\ script.at = 11
    <3>1. script.seq = "undo"
      BY <2>2, RollsWhere, UpdatesWhere, Programs DEF Busy, Undone, Stops
    <3> QED
      BY <2>2, <3>1, UndoesWhere DEF Undoing
  <2>4. /\ "health" \notin sysd.on /\ "backup" \notin sysd.on
        /\ ~raced => sysd.proc = None
        /\ \A u \in Units : u \in sysd.enabled => was[u].enabled
    BY <2>1, <2>3 DEF Downs
  <2>5. sysd'.enabled = sysd.enabled /\ was' = was /\ script'.seq \notin {"update", "rollback"}
    <3>1. sysd'.enabled = sysd.enabled
      BY <1>0, <2>1, <2>2 DEF SysdOn, Starters
    <3>2. was' = was
      BY <1>0, <1>2, <2>2, SeesBefore, Guards DEF ShellOn
    <3>3. script'.seq \notin {"update", "rollback"}
      BY <1>2, <2>3, SeesBefore DEF Undoing
    <3> QED
      BY <3>1, <3>2, <3>3
  <2>6. "health" \notin sysd'.on /\ "backup" \notin sysd'.on
    BY <1>0, <2>2, <2>4 DEF UnitsOn, Starters, Timers
  <2>7. ~raced' => sysd'.proc = None
    BY <1>0, <1>2, <2>2, <2>3, <2>4, SeesBefore, Guards DEF UnitsOn
  <2> QED
    BY <2>4, <2>5, <2>6, <2>7 DEF Own
<1>3. CASE ~Capture /\ disk.conf = None
  <2>1. /\ Sees /\ ~Exit /\ ~Launch /\ (~raced' => ~raced)
        /\ script'.seq \in {"update", "rollback"} => script.seq = script'.seq
    BY <1>3, SeesBefore
  <2>2. Step \notin Starters \cup {"ensureCaddy"}
    BY <1>3, <2>1, NothingStarts
  <2>3. /\ "health" \notin sysd.on /\ "backup" \notin sysd.on
        /\ ~raced => sysd.proc = None
        /\ \A u \in Own : /\ u \in sysd.enabled => was[u].enabled
                          /\ script.seq \in {"update", "rollback"} => u \notin sysd.enabled
    BY <1>3, <2>1 DEF Strays
  <2>4. "health" \notin sysd'.on /\ "backup" \notin sysd'.on
    BY <1>0, <1>3, <2>2, <2>3 DEF UnitsOn, Timers
  <2>5. ~raced' => sysd'.proc = None
    BY <1>0, <1>3, <2>1, <2>2, <2>3 DEF UnitsOn, Starters
  <2>6. \A u \in Own : u \in sysd'.enabled => u \in sysd.enabled \/ (Enable /\ was[u].enabled)
    BY <1>0, <2>1, <2>2 DEF UnitsOn, Own
  <2>7. script'.seq \in {"update", "rollback"} => ~Enable
    <3>1. Enable => script.seq = "undo"
      BY Guards, RollsWhere, UpdatesWhere, Programs DEF Step, Busy, Undone, Stops
    <3> QED
      BY <2>1, <3>1
  <2>8. CASE LoadMetadata
    <3>1. script.seq = "rollback" /\ ~Enable
      BY <2>8, Guards, SwitchAt DEF At
    <3> QED
      BY <2>3, <2>4, <2>5, <2>6, <3>1
  <2>9. CASE ~LoadMetadata
    <3>1. was' = was
      BY <1>0, <1>3, <2>1, <2>9 DEF ShellOn
    <3> QED
      BY <2>1, <2>3, <2>4, <2>5, <2>6, <2>7, <3>1
  <2> QED
    BY <2>8, <2>9
<1> QED
  BY <1>1, <1>2, <1>3

\* What a rollback stops, or finds without its file, does not run.
LEMMA StopsDown ==
  ASSUME Typed, Next, Strays, Sees, Undoing, script'.seq = "undo", script'.at = script.at + 1,
         ~before'.stray
  PROVE  /\ script.at = 1 => "health" \notin sysd'.on
         /\ script.at = 2 => "backup" \notin sysd'.on
         /\ script.at = 4 => raced' = raced /\ (~raced => sysd'.proc = None)
         /\ script.at = 6 => Disable
<1>0. sysd \in Sysds
  BY DEF Typed, Values
<1>1. ASSUME script.at \in {1, 2, 4, 6} PROVE ~StepFails
  <2>1. Step \in DOMAIN Stopping \cup {"disable"}
    BY <1>1, UndoesWhere DEF Stopping
  <2>2. StepFails => before'.stray
    BY <2>1 DEF StepFails, Typed, Values, Befores
  <2> QED
    BY <2>2
<1>2. ASSUME script.at \in {1, 2, 4} PROVE StopUnit
  BY <1>1, <1>2, Undoes, UndoesWhere
<1>3. ASSUME script.at = 1 PROVE "health" \notin sysd'.on
  <2>1. (Here("health") => "health" \notin sysd'.on)
        /\ ("health" \notin sysd.on => "health" \notin sysd'.on)
    <3>1. Stopping[Step] = {"health"}
      BY <1>3, UndoesWhere DEF Stopping
    <3>2. Stop({u \in {"health"} : Undoing => Here(u)})
      BY <1>2, <1>3, <3>1 DEF StopUnit
    <3> QED
      BY <1>0, <3>2 DEF Stop, Sysds
  <2>2. Here("health") \/ "health" \notin sysd.on
    BY DEF Here, Strays
  <2> QED
    BY <2>1, <2>2
<1>4. ASSUME script.at = 2 PROVE "backup" \notin sysd'.on
  <2>1. (Here("backup") => "backup" \notin sysd'.on)
        /\ ("backup" \notin sysd.on => "backup" \notin sysd'.on)
    <3>1. Stopping[Step] = {"backup"}
      BY <1>4, UndoesWhere DEF Stopping
    <3>2. Stop({u \in {"backup"} : Undoing => Here(u)})
      BY <1>2, <1>4, <3>1 DEF StopUnit
    <3> QED
      BY <1>0, <3>2 DEF Stop, Sysds
  <2>2. Here("backup") \/ "backup" \notin sysd.on
    BY DEF Here, Strays
  <2> QED
    BY <2>1, <2>2
<1>5. ASSUME script.at = 4 PROVE raced' = raced /\ (~raced => sysd'.proc = None)
  <2>1. (Here("panel") => sysd'.proc = None)
        /\ (sysd.proc = None => sysd'.proc = None)
    <3>1. Stopping[Step] = {"panel"}
      BY <1>5, UndoesWhere DEF Stopping
    <3>2. Stop({u \in {"panel"} : Undoing => Here(u)})
      BY <1>2, <1>5, <3>1 DEF StopUnit
    <3> QED
      BY <1>0, <3>2 DEF Stop, Sysds
  <2>2. Here("panel") \/ raced \/ sysd.proc = None
    BY DEF Here, Strays
  <2>3. raced' = raced
    BY <1>2, <1>5 DEF StopUnit, hist
  <2> QED
    BY <2>1, <2>2, <2>3
<1>6. ASSUME script.at = 6 PROVE Disable
  <2>1. Step = "disable"
    BY <1>6, UndoesWhere
  <2> QED
    BY <1>1, <1>6, <2>1, Undoes DEF Stoppers
<1> QED
  BY <1>3, <1>4, <1>5, <1>6

\* Every step keeps Downs: nothing but a timer that races starts what the rollback stopped.
LEMMA DownsInv ==
  ASSUME Typed, Placed, Marked, ConfNew, CaddyThere, Strays, Downs, Next,
         script'.at \in Nat
  PROVE  Downs'
<1>0. UnitsOn /\ script.at \in Nat
  BY UnitsFrame DEF Typed, Values, Scripts
<1>1. ASSUME Sees', Undoing', script'.at > 1
      PROVE  /\ Sees /\ Undoing /\ ~before'.stray /\ (~raced' => ~raced) /\ ~Exit /\ was' = was
             /\ script'.seq = "undo" /\ (script'.at = script.at \/ script'.at = script.at + 1)
             /\ script'.at = script.at => ~RestoreUnits /\ ~RestorePanel /\ ~Disable
             /\ Step \notin Starters \cup {"ensureCaddy", "startPanel"}
  <2>1. Undoing /\ (Rests \/ (Passes /\ script'.at = script.at + 1)) /\ script'.seq = "undo"
    BY <1>1, UndoBefore DEF Undoing
  <2>2. ~Capture /\ Busy /\ Step \notin Starters \cup {"ensureCaddy", "startPanel"}
    BY <2>1, UndoneAt, UndoesWhere DEF Undone, Starters
  <2>3. Sees /\ (~raced' => ~raced) /\ ~Exit
    BY <1>1, <2>2, SeesBefore
  <2>4. was' = was
    BY <2>1, <2>3, UndoneStays
  <2>5. ASSUME script'.at = script.at PROVE ~RestoreUnits /\ ~RestorePanel /\ ~Disable
    <3>1. RestoreUnits \/ RestorePanel \/ Disable =>
            (Advance \/ Reports) /\ Step \notin {"load", "succeed", "verify"}
      BY Guards
    <3>2. RestoreUnits \/ RestorePanel \/ Disable => script'.at = script.at + 1
      BY <2>2, <3>1, Onward
    <3> QED
      BY <1>0, <2>5, <3>2
  <2> QED
    BY <1>1, <2>1, <2>2, <2>3, <2>4, <2>5 DEF Rests, Sees
<1>2. ASSUME Sees', Undoing', script'.at \in 2 .. 16 PROVE "health" \notin sysd'.on
  <2>0. script'.at > 1
    BY <1>2
  <2>1. CASE script.at = 1
    BY <1>0, <1>1, <1>2, <2>0, <2>1, StopsDown
  <2>2. CASE script.at \in 2 .. 16
    <3>1. "health" \notin sysd.on
      BY <1>1, <1>2, <2>0, <2>2 DEF Downs
    <3>2. ~(RestoreUnits /\ Step = "restoreTimers")
      BY <1>1, <1>2, <2>0, UndoesWhere
    <3> QED
      BY <1>0, <1>1, <1>2, <2>0, <3>1, <3>2 DEF UnitsOn, Timers
  <2> QED
    BY <1>0, <1>1, <1>2, <2>0, <2>1, <2>2
<1>3. ASSUME Sees', Undoing', script'.at \in 3 .. 16 PROVE "backup" \notin sysd'.on
  <2>0. script'.at > 1
    BY <1>3
  <2>1. CASE script.at = 2
    BY <1>0, <1>1, <1>3, <2>0, <2>1, StopsDown
  <2>2. CASE script.at \in 3 .. 16
    <3>1. "backup" \notin sysd.on
      BY <1>1, <1>3, <2>0, <2>2 DEF Downs
    <3>2. ~(RestoreUnits /\ Step = "restoreTimers")
      BY <1>1, <1>3, <2>0, UndoesWhere
    <3> QED
      BY <1>0, <1>1, <1>3, <2>0, <3>1, <3>2 DEF UnitsOn, Timers
  <2> QED
    BY <1>0, <1>1, <1>3, <2>0, <2>1, <2>2
<1>4. ASSUME Sees', Undoing', script'.at \in 5 .. 14, ~raced' PROVE sysd'.proc = None
  <2>0. script'.at > 1
    BY <1>4
  <2>1. CASE script.at = 4
    BY <1>0, <1>1, <1>4, <2>0, <2>1, StopsDown
  <2>2. CASE script.at \in 5 .. 14
    <3>1. sysd.proc = None
      BY <1>1, <1>4, <2>0, <2>2 DEF Downs
    <3>2. ~RestorePanel
      <4>1. RestorePanel => script.at = 14
        BY <1>1, <1>4, <2>0, Guards, UndoesWhere
      <4> QED
        BY <1>1, <1>4, <2>0, <4>1
    <3> QED
      BY <1>0, <1>1, <1>4, <2>0, <3>1, <3>2 DEF UnitsOn
  <2> QED
    BY <1>0, <1>1, <1>4, <2>0, <2>1, <2>2
<1>5. ASSUME Sees', Undoing', script'.at > 6, NEW u \in Units, u \in sysd'.enabled
      PROVE  was'[u].enabled
  <2>0. script'.at > 1
    BY <1>5
  <2>1. CASE script.at = 6
    <3>1. Disable /\ script'.at = script.at + 1
      BY <1>0, <1>1, <1>5, <2>0, <2>1, StopsDown
    <3>2. u \in sysd.enabled /\ (was[u].enabled \/ ~Here(u))
      BY <1>5, <3>1 DEF Disable, Typed, Values, Sysds
    <3>3. CASE u = "caddy"
      BY <1>1, <1>5, <2>0, <3>2, <3>3 DEF Here, CaddyThere
    <3>4. CASE u # "caddy"
      BY <1>1, <1>5, <2>0, <3>2, <3>4 DEF Here, Strays, Own
    <3> QED
      BY <3>3, <3>4
  <2>2. CASE script.at > 6
    <3>1. u \in sysd.enabled => was[u].enabled
      BY <1>1, <1>5, <2>0, <2>2 DEF Downs
    <3> QED
      BY <1>0, <1>1, <1>5, <2>0, <3>1 DEF UnitsOn
  <2> QED
    BY <1>0, <1>1, <1>5, <2>0, <2>1, <2>2
<1>6. ASSUME Sees', Gone', NEW u \in Units, u \in sysd'.enabled PROVE was'[u].enabled
  <2>1. Done(16)' /\ script'.seq = "exit"
    BY <1>6 DEF Done, Gone
  <2>2. Done(16) /\ ~Exit
    BY <2>1, DoneBefore
  <2>3. Undoing \/ Gone
    BY <2>2 DEF Done
  <2>4. ~Capture /\ was' = was
    BY <2>1, <2>2, <2>3, UndoneStays
  <2>5. Sees
    BY <1>6, <2>4, SeesBefore
  <2>6. u \in sysd.enabled => was[u].enabled
    <3>1. (Undoing /\ script.at > 6) \/ Gone
      BY <1>0, <2>2 DEF Done
    <3> QED
      BY <2>5, <3>1 DEF Downs
  <2>7. Step \notin Starters \cup {"ensureCaddy"}
    BY <2>3, UndoneAt DEF Undone, Starters
  <2> QED
    BY <1>0, <1>6, <2>2, <2>4, <2>6, <2>7 DEF UnitsOn
<1> QED
  BY <1>2, <1>3, <1>4, <1>5, <1>6 DEF Downs

\* A rollback that goes on without a failure lacked no unit's file.
LEMMA NoneLacking ==
  ASSUME Typed, Next, Undoing, script'.seq = "undo", script'.at = script.at + 1, ~script'.failed
  PROVE  /\ script.at = 13 => Enable /\ \A u \in Units : was[u].enabled => Here(u)
         /\ script.at = 14 => RestorePanel /\ ~Lacking("panel")
         /\ script.at \in {15, 16} => /\ RestoreUnits
                                      /\ \A u \in Restoring[Step] : ~Lacking(u)
<1>0. Busy /\ Step \in Undone
  BY UndoesWhere
<1>1. ~StepFails
  BY <1>0, AdvancedTyped DEF StepFails, Scripts
<1>2. ASSUME script.at = 13 PROVE Enable /\ \A u \in Units : was[u].enabled => Here(u)
  <2>1. Step = "enable" /\ Enable
    BY <1>1, <1>2, Undoes, UndoesWhere DEF Stoppers
  <2>2. AdvanceUnless(\E u \in {v \in Units : was[v].enabled} : ~Here(u))
    BY <2>1 DEF Enable
  <2>3. ~\E u \in {v \in Units : was[v].enabled} : ~Here(u)
    BY <1>0, <2>1, <2>2, Unfailed
  <2> QED
    BY <2>1, <2>3
<1>3. ASSUME script.at = 14 PROVE RestorePanel /\ ~Lacking("panel")
  <2>1. Step = "restorePanel" /\ RestorePanel
    BY <1>1, <1>3, Undoes, UndoesWhere DEF Stoppers
  <2>2. AdvanceUnless(Lacking("panel"))
    BY <2>1 DEF RestorePanel
  <2> QED
    BY <1>0, <2>1, <2>2, Unfailed
<1>4. ASSUME script.at \in {15, 16} PROVE RestoreUnits /\ \A u \in Restoring[Step] : ~Lacking(u)
  <2>1. Step \in {"restoreCaddy", "restoreTimers"} /\ RestoreUnits
    BY <1>1, <1>4, Undoes, UndoesWhere DEF Stoppers
  <2>2. AdvanceUnless(\E u \in Restoring[Step] : Lacking(u))
    BY <2>1 DEF RestoreUnits
  <2>3. ~\E u \in Restoring[Step] : Lacking(u)
    BY <1>0, <2>1, <2>2, Unfailed
  <2> QED
    BY <2>1, <2>3
<1> QED
  BY <1>2, <1>3, <1>4

\* A unit that ran had its file.
LEMMA HadFile ==
  ASSUME Snaps, NEW u \in Units
  PROVE  was[u].on => Restarted(u)
BY DEF Snaps, WasOk, Restarted

\* Every step keeps Ups: the units are restored last, from what was captured.
LEMMA UpsInv ==
  ASSUME Typed, Marked, Snaps, CaddyThere, Strays, Downs, Ups, Next
  PROVE  Ups'
<1>0. UnitsOn /\ sysd \in Sysds /\ script.at \in Nat
  BY UnitsFrame DEF Typed, Values, Scripts
\* What a step k of the rollback has restored stays.
<1>1. ASSUME NEW k \in 13 .. 16, Done(k), ~Exit, Done(k)'
      PROVE  /\ was' = was /\ ~Disable
             /\ k > 13 => Step # "restorePanel" /\ ~RestorePanel
             /\ Step \notin Starters \cup Stoppers \cup {"ensureCaddy"}
             /\ k > 14 => Step # "restoreCaddy"
             /\ k > 15 => Step # "restoreTimers"
             /\ Undoing \/ script.seq = "exit"
             /\ ~before'.stray => ~before.stray
             /\ ~raced' => ~raced
  <2>1. (Undoing /\ script.at > k /\ ~script.failed) \/ Gone
    BY <1>1 DEF Done
  <2>2. /\ was' = was /\ ~Launch /\ ~Capture
        /\ Step \in Undone \cup {"none"}
    BY <1>1, <2>1, UndoneStays, UndoneAt DEF Done, Undoing, Gone
  <2>3. /\ Step \notin Stoppers \cup {"disable"}
        /\ k > 13 => Step # "restorePanel"
        /\ k > 14 => Step # "restoreCaddy"
        /\ k > 15 => Step # "restoreTimers"
    <3>1. CASE Undoing /\ script.at > k
      BY <1>0, <3>1, UndoesWhere DEF Stoppers
    <3>2. CASE Gone
      BY <3>2, Programs DEF Gone, Step, Busy, Stoppers
    <3> QED
      BY <2>1, <3>1, <3>2
  <2>4. Step \notin Starters \cup {"ensureCaddy"}
    BY <2>2 DEF Undone, Starters
  <2>5. ~Disable /\ (k > 13 => ~RestorePanel)
    BY <2>3, Guards
  <2>6. (~before'.stray => ~before.stray) /\ (~raced' => ~raced)
    BY <2>2, BeforeFrame DEF BeforeOn
  <2> QED
    BY <2>1, <2>2, <2>3, <2>4, <2>5, <2>6 DEF Gone
\* And where it is restored the variables stay.
<1>2. ASSUME Undoing, script'.seq = "undo"
      PROVE  /\ was' = was /\ (~before'.stray => ~before.stray) /\ Cut
  <2>1. Busy /\ Cut
    BY <1>2, UndoesWhere DEF Marked, Cut
  <2>2. ~Exit /\ ~Capture
    BY <1>2, UndoneAt DEF Exit, Undoing
  <2> QED
    BY <1>2, <2>1, <2>2, UndoneStays, BeforeFrame DEF BeforeOn
<1>3. ASSUME Done(13)', NEW u \in Units, was'[u].enabled PROVE u \in sysd'.enabled
  <2>1. CASE Done(13) /\ ~Exit
    <3>1. was' = was /\ ~Disable
      BY <1>1, <1>3, <2>1
    <3>2. u \in sysd.enabled
      BY <1>3, <2>1, <3>1 DEF Ups
    <3> QED
      BY <1>0, <2>1, <3>1, <3>2 DEF UnitsOn
  <2>2. CASE /\ Undoing /\ script.at = 13 /\ ~script.failed
             /\ script'.seq = "undo" /\ script'.at = script.at + 1 /\ ~script'.failed
    <3>1. Enable /\ \A v \in Units : was[v].enabled => Here(v)
      BY <2>2, NoneLacking
    <3>2. was[u].enabled /\ Here(u)
      BY <1>2, <1>3, <2>2, <3>1
    <3> QED
      BY <1>0, <3>1, <3>2 DEF Enable, Sysds
  <2> QED
    BY <1>3, <2>1, <2>2, DoneBefore
<1>4. ASSUME Done(14)', ~before'.stray, ~raced'
      PROVE  sysd'.proc # None <=> was'["panel"].on
  <2>1. CASE Done(14) /\ ~Exit
    <3>1. /\ was' = was /\ Step # "restorePanel" /\ ~RestorePanel /\ ~before.stray /\ ~raced
          /\ Step \notin Starters \cup Stoppers /\ (Undoing \/ script.seq = "exit")
      BY <1>1, <1>4, <2>1
    <3>2. sysd.proc # None <=> was["panel"].on
      BY <2>1, <3>1 DEF Ups
    <3>3. Step \notin {"startPanel", "stopPanel"}
      BY <3>1 DEF Starters, Stoppers
    <3>4. sysd'.proc = None => sysd.proc = None
      <4>1. Cut
        BY <2>1, UndoesWhere DEF Done, Cut, Marked
      <4>2. disk.conf = None => sysd.proc = None
        BY <3>1, <4>1 DEF Strays, Sees
      <4> QED
        BY <1>0, <3>1, <3>3, <4>2 DEF UnitsOn
    <3>6. sysd'.proc # None => sysd.proc # None
      BY <1>0, <1>4, <3>1, <3>3 DEF UnitsOn
    <3> QED
      BY <3>1, <3>2, <3>4, <3>6
  <2>2. CASE /\ Undoing /\ script.at = 14 /\ ~script.failed
             /\ script'.seq = "undo" /\ script'.at = script.at + 1 /\ ~script'.failed
    <3>1. RestorePanel /\ ~Lacking("panel") /\ raced' = raced
      BY <2>2, NoneLacking DEF RestorePanel, hist
    <3>2. was' = was /\ ~before.stray /\ Cut
      BY <1>2, <1>4, <2>2
    <3>3. sysd.proc = None
      BY <1>4, <2>2, <3>1, <3>2 DEF Downs, Sees
    <3>4. CASE Restarted("panel")
      <4>1. disk.conf # None
        BY <3>1, <3>4 DEF Lacking, Here, Restarted
      <4>2. Launched(sysd)
        BY <3>1, <3>3, <3>4, <4>1 DEF RestorePanel, StartPanel, Down
      <4>3. sysd'.proc # None
        BY <1>0, <4>2, Outside DEF Launched, Sysds
      <4> QED
        BY <3>2, <3>4, <4>3 DEF Restarted
    <3>5. CASE ~Restarted("panel")
      <4>1. ~was["panel"].on
        BY <3>5, HadFile DEF Units
      <4>2. sysd'.proc = None
        BY <1>0, <3>1, <3>3, <3>5 DEF RestorePanel, Stop, Sysds
      <4> QED
        BY <3>2, <4>1, <4>2
    <3> QED
      BY <3>4, <3>5
  <2> QED
    BY <1>4, <2>1, <2>2, DoneBefore
<1>5. ASSUME Done(15)' PROVE "caddy" \in sysd'.on <=> was'["caddy"].on
  <2>1. CASE Done(15) /\ ~Exit
    <3>1. /\ was' = was /\ Step # "restoreCaddy"
          /\ Step \notin Starters \cup Stoppers \cup {"ensureCaddy"}
      BY <1>1, <1>5, <2>1
    <3>2. "caddy" \in sysd'.on <=> "caddy" \in sysd.on
      BY <1>0, <2>1, <3>1 DEF UnitsOn, Starters, Stoppers
    <3> QED
      BY <2>1, <3>1, <3>2 DEF Ups
  <2>2. CASE /\ Undoing /\ script.at = 15 /\ ~script.failed
             /\ script'.seq = "undo" /\ script'.at = script.at + 1 /\ ~script'.failed
    <3>1. RestoreUnits /\ Step = "restoreCaddy" /\ Restoring[Step] = {"caddy"} /\ ~Lacking("caddy")
      BY <2>2, NoneLacking, UndoesWhere DEF Restoring
    <3>2. was' = was
      BY <1>2, <2>2
    <3>3. sysd'.on = (sysd.on \ {u \in {"caddy"} : KeptDown(u)})
                       \cup {u \in {"caddy"} : Restarted(u) /\ Here(u)}
      BY <1>0, <3>1 DEF RestoreUnits, Sysds
    <3>4. CASE Restarted("caddy")
      BY <3>1, <3>2, <3>3, <3>4 DEF Restarted, Lacking
    <3>5. CASE ~Restarted("caddy")
      <4>1. ~was["caddy"].on
        BY <3>5, HadFile DEF Units
      <4>2. KeptDown("caddy") \/ "caddy" \notin sysd.on
        BY <4>1 DEF KeptDown, CaddyThere, Here
      <4> QED
        BY <3>2, <3>3, <3>5, <4>1, <4>2
    <3> QED
      BY <3>4, <3>5
  <2> QED
    BY <1>5, <2>1, <2>2, DoneBefore
<1>6. ASSUME Done(16)', ~before'.stray, NEW u \in Timers
      PROVE  u \in sysd'.on <=> was'[u].on
  <2>1. CASE Done(16) /\ ~Exit
    <3>1. /\ was' = was /\ ~before.stray /\ Step # "restoreTimers"
          /\ Step \notin Starters \cup Stoppers
      BY <1>1, <1>6, <2>1
    <3>2. u \in sysd'.on <=> u \in sysd.on
      BY <1>0, <2>1, <3>1 DEF UnitsOn
    <3> QED
      BY <2>1, <3>1, <3>2 DEF Ups
  <2>2. CASE /\ Undoing /\ script.at = 16 /\ ~script.failed
             /\ script'.seq = "undo" /\ script'.at = script.at + 1 /\ ~script'.failed
    <3>1. RestoreUnits /\ Step = "restoreTimers"
      BY <2>2, NoneLacking, UndoesWhere
    <3>2. Restoring[Step] = Timers
      BY <3>1 DEF Restoring
    <3>3. ~Lacking(u)
      BY <2>2, <3>2, NoneLacking
    <3>4. was' = was /\ ~before.stray /\ Cut
      BY <1>2, <1>6, <2>2
    <3>5. u \notin sysd.on
      BY <2>2, <3>4 DEF Downs, Sees, Timers
    <3>6. sysd'.on = (sysd.on \ {v \in Restoring[Step] : KeptDown(v)})
                       \cup {v \in Restoring[Step] : Restarted(v) /\ Here(v)}
      BY <1>0, <3>1 DEF RestoreUnits, Sysds
    <3>7. u \in sysd'.on <=> Restarted(u) /\ Here(u)
      BY <3>2, <3>5, <3>6
    <3>8. was[u].on <=> Restarted(u)
      BY HadFile DEF Restarted, Units
    <3>9. Restarted(u) => Here(u)
      BY <3>3 DEF Restarted, Lacking
    <3> QED
      BY <3>4, <3>7, <3>8, <3>9
  <2> QED
    BY <1>6, <2>1, <2>2, DoneBefore
<1> QED
  BY <1>3, <1>4, <1>5, <1>6 DEF Ups

\* What the script, the disk and systemd hold for a rollback, and what it has brought back.
Restores ==
  /\ Marked /\ Held /\ Snaps /\ Known /\ Older /\ CaddyThere /\ ConfNew
  /\ CodeBack /\ DbBack /\ FilesBack /\ Strays /\ Downs /\ Ups

\* The model begins in the invariant: there is no cutover to undo.
LEMMA InitRestores == ASSUME Init PROVE Restores
<1>1. /\ ~Busy /\ script.seq = "none" /\ script.at = 0 /\ ~Undoing
      /\ ~Cut /\ ~Gone /\ ~Sees /\ \A k \in 1 .. 16 : ~Done(k)
  BY Programs DEF Init, Idle, Busy, Undoing, Cut, Gone, Sees, Done
<1>2. /\ flags = NoFlags /\ was = [u \in Units |-> Absent]
      /\ vault = [store |-> << >>, latest |-> 0, left |-> {}]
  BY DEF Init
<1>3. "caddy" \in sysd.on \cup sysd.enabled => sysd.caddy
  BY DEF Init
<1>4. Marked /\ Held /\ Older /\ CaddyThere /\ ConfNew
  BY <1>1, <1>3 DEF Marked, Held, Older, CaddyThere, ConfNew
<1>5. Snaps /\ Known
  BY <1>1, <1>2 DEF Snaps, WasOk, Absent, Known, NoFlags
<1>6. CodeBack /\ FilesBack /\ DbBack
  BY <1>1 DEF CodeBack, FilesBack, DbBack
<1>7. Strays /\ Downs /\ Ups
  BY <1>1 DEF Strays, Downs, Ups
<1> QED
  BY <1>4, <1>5, <1>6, <1>7 DEF Restores

\* Every step keeps the invariant, a stuttering one too.
LEMMA NextRestores == ASSUME Inv, Keeps, Restores, [Next]_vars PROVE Restores'
<1>0. Typed /\ Quiet /\ Placed /\ Aged
  BY DEF Inv, Keeps
<1>1. /\ Marked /\ Held /\ Snaps /\ Known /\ Older /\ CaddyThere /\ ConfNew
      /\ CodeBack /\ DbBack /\ FilesBack /\ Strays /\ Downs /\ Ups
  BY DEF Restores
<1>2. CASE Next
  <2>1. script'.at \in Nat
    BY NextInv DEF Inv, Typed, Values, Scripts
  <2>2. Marked' /\ Held' /\ Snaps' /\ Known' /\ Older' /\ CaddyThere' /\ ConfNew'
    BY <1>0, <1>1, <1>2, MarkedInv, HeldInv, SnapsInv, KnownInv, OlderInv, CaddyInv, ConfInv
  <2>3. CodeBack' /\ DbBack' /\ FilesBack'
    BY <1>0, <1>1, <1>2, CodeInv, DbInv, FilesInv
  <2>4. Strays' /\ Downs' /\ Ups'
    BY <1>0, <1>1, <1>2, <2>1, StraysInv, DownsInv, UpsInv
  <2> QED
    BY <2>2, <2>3, <2>4 DEF Restores
<1>3. CASE UNCHANGED vars
  <2>1. /\ Busy' = Busy /\ Undoing' = Undoing /\ Cut' = Cut /\ Gone' = Gone /\ Sees' = Sees
        /\ Step' = Step /\ WasSound' = WasSound /\ \A k \in 1 .. 16 : Done(k)' = Done(k)
    BY <1>3 DEF vars, Busy, Undoing, Cut, Gone, Sees, Step, WasSound, Done
  <2>2. Marked' /\ Held' /\ Older' /\ CaddyThere' /\ ConfNew'
    BY <1>1, <1>3, <2>1 DEF vars, Marked, After, Held, Older, CaddyThere, ConfNew
  <2>3. Snaps' /\ Known'
    BY <1>1, <1>3 DEF vars, Snaps, SnapOk, WasOk, Known, After
  <2>4. CodeBack' /\ FilesBack'
    BY <1>1, <1>3, <2>1 DEF vars, CodeBack, FilesBack
  <2>5. DbBack'
    BY <1>1, <1>3, <2>1 DEF vars, DbBack, Holds
  <2>6. Strays' /\ Downs' /\ Ups'
    BY <1>1, <1>3, <2>1 DEF vars, Strays, Downs, Ups
  <2> QED
    BY <2>2, <2>3, <2>4, <2>5, <2>6 DEF Restores
<1> QED
  BY <1>2, <1>3

\* When the rollback has reported success, the host is as it was captured.
LEMMA RestoresHolds == ASSUME Typed, Restores PROVE Restored
<1> SUFFICES ASSUME script.seq = "exit", flags.finished, WasSound
             PROVE  /\ \A t \in Trees \ {"db"} : disk[t] = before.tree[t]
                    /\ Holds(disk.db, before.tree.db) /\ disk.marker = before.marker
                    /\ ~raced /\ ~before.stray =>
                         \A u \in Units : /\ On(u) = before.was[u].on
                                          /\ Here(u) =>
                                               (u \in sysd.enabled) = before.was[u].enabled
  BY DEF Restored
<1>1. Gone /\ Cut /\ \A k \in 1 .. 16 : Done(k)
  BY DEF Gone, Cut, Done
<1>2. /\ disk.code = before.tree.code /\ disk.marker = before.marker
      /\ Holds(disk.db, before.tree.db)
      /\ disk.conf = before.tree.conf /\ disk.site = before.tree.site
  BY <1>1 DEF Restores, CodeBack, DbBack, FilesBack
<1>3. \A t \in Trees \ {"db"} : disk[t] = before.tree[t]
  BY <1>2 DEF Trees
<1>4. ASSUME ~raced, ~before.stray, NEW u \in Units
      PROVE  /\ On(u) = before.was[u].on
             /\ (u \in sysd.enabled) = before.was[u].enabled
  <2>1. was = before.was /\ was[u].on \in BOOLEAN /\ was[u].enabled \in BOOLEAN
    BY <1>1 DEF Restores, Held, Typed, Values, Wases
  <2>2. u \in sysd.enabled <=> was[u].enabled
    BY <1>1, <1>4 DEF Restores, Downs, Ups, Sees
  <2>3. On(u) <=> was[u].on
    <3>1. CASE u = "panel"
      BY <1>1, <1>4, <3>1 DEF Restores, Ups, On
    <3>2. CASE u = "caddy"
      BY <1>1, <3>2 DEF Restores, Ups, On
    <3>3. CASE u \in Timers
      BY <1>1, <1>4, <3>3 DEF Restores, Ups, On, Timers
    <3> QED
      BY <3>1, <3>2, <3>3 DEF Units
  <2>4. On(u) = was[u].on
    <3>1. CASE u = "panel"
      BY <2>1, <2>3, <3>1 DEF On
    <3>2. CASE u # "panel"
      BY <2>1, <2>3, <3>2 DEF On
    <3> QED
      BY <3>1, <3>2
  <2> QED
    BY <2>1, <2>2, <2>4
<1> QED
  BY <1>2, <1>3, <1>4

\* A rollback that reports success has brought back the files, the database with every
\* write that the old release acknowledged, the marker, and which units run and are
\* enabled, whatever had failed, been interrupted or begun again (deploy.sh:1156).
THEOREM RollbackRestores == Spec => []Restored
<1>1. Init => Inv /\ Keeps /\ Restores
  BY InitInv, InitKeeps, InitRestores
<1>2. Inv /\ Keeps /\ Restores /\ [Next]_vars => (Inv /\ Keeps /\ Restores)'
  BY NextInv, NextKeeps, NextRestores
<1>3. Inv /\ Keeps /\ Restores => Restored
  BY RestoresHolds DEF Inv
<1> QED
  BY <1>1, <1>2, <1>3, PTL DEF Spec
===============================================================================
