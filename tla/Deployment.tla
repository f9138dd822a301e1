------------------------------ MODULE Deployment ------------------------------
(***************************************************************************)
(* deploy.sh beside systemd: the cutover to a new release, the rollback    *)
(* after a failure, the delayed rollback to a saved snapshot, and the      *)
(* timers that work on the same panel. A script is a sequence of steps;    *)
(* between any two of them, and in the middle of every copy, a command     *)
(* may fail, a signal arrive or the process be killed.                     *)
(*                                                                         *)
(* A file tree is one value: a release, None, or Torn when it is partly    *)
(* written. "conf" stands for the unit files, the health-check script and  *)
(* the secrets, "site" for Caddy's files. Every successful systemctl call  *)
(* takes effect at once; the files of a killed script survive.             *)
(***************************************************************************)
EXTENDS Naturals, Sequences, FiniteSets

CONSTANTS
  Schema,    \* Schema[r]: the database schema of release r; run k installs k + 1
  None, Torn,
  Failing,   \* the panel's state between attempts to start that fail (Restart=always, 5 seconds)
  Restarting, \* the panel's state while it goes down for a queued restart
  Keep,      \* MAX_PERSISTENT_BACKUPS, 2
  Threshold, \* FAILURE_THRESHOLD, 3
  Fresh,     \* BOOLEAN values: does a run of the model begin on an empty host
  MaxRuns, MaxFaults, MaxKills, MaxWrites \* scripts, failures and signals, kills, writes

Releases == DOMAIN Schema

ASSUME DeploymentAssumption ==
  /\ Keep \in Nat \ {0} /\ Threshold \in Nat \ {0}
  /\ Fresh \subseteq BOOLEAN
  /\ MaxRuns \in Nat /\ MaxFaults \in Nat /\ MaxKills \in Nat /\ MaxWrites \in Nat
  /\ Schema \in Seq(Nat) /\ MaxRuns < Len(Schema)
  /\ None # Torn /\ Failing # Restarting
  /\ {None, Torn} \cap {Failing, Restarting} = {}
  /\ {None, Torn, Failing, Restarting} \cap Releases = {}
  /\ \A x \in {None, Torn} : x \notin [schema : Nat, born : Nat, writes : Nat]

VARIABLES
  disk,    \* what is installed; marker: .anytls-panel-install; data: the data directory
  sysd,    \* systemd: caddy is installed, enabled and running units, the panel's process
  check,   \* the health-check service and its count of consecutive failures
  bk,      \* the backup service is about to start the panel it Requires
  script,  \* the running deploy.sh: program, step, who called the rollback
  flags,   \* its shell variables
  was,     \* the OLD_<unit>_* variables
  dirs,    \* ROLLBACK_DIR, current_snapshot and selected_copy
  vault,   \* BACKUP_ROOT, its file latest, and the directories ended scripts left behind
  before,  \* history: what a rollback has to bring back; missed: the cutover did not stop
           \* a panel that was not active but not down either
  good,    \* history: code and data of the last release that went into service
  raced,   \* history: a unit started the panel inside a rollback
  count    \* history: scripts, faults, kills, successful updates

vars == <<disk, sysd, check, bk, script, flags, was, dirs, vault, before, good, raced, count>>

Timers == {"health", "backup"}
Units == Timers \cup {"panel", "caddy"}
Trees == {"code", "db", "conf", "site"}

\* Mutant of Cutover: the database is copied while the panel still serves.
CutoverCopyingFirst ==
  <<"capture", "stopHealthTimer", "stopHealthCheck", "stopBackupTimer", "stopBackup",
    "saveDb", "stopPanel", "prepareState", "saveCode", "clear">>
\* One value per program of main, delayed_rollback and rollback_deployment.
Cutover ==
  <<"capture", "stopHealthTimer", "stopHealthCheck", "stopBackupTimer", "stopBackup",
    "stopPanel", "saveDb", "prepareState", "saveCode", "clear">>
Persist == <<"copySnapshot", "sumSnapshot", "nameLatest", "rotate">>
Program ==
  [update |-> <<"ensureCaddy">> \o Cutover \o
     <<"install", "migrate", "writeConf", "startPanel", "waitPanel", "writeSite",
       "startCaddy", "startHealthTimer", "startHealthCheck", "waitHealthCheck",
       "startBackups">> \o Persist \o <<"succeed">>,
   rollback |-> Cutover \o Persist \o <<"switch", "load">>,
   undo |-> <<"stopHealthTimer", "stopBackupTimer", "stopBackup", "stopPanel", "stopCaddy",
     "disable", "wipeCode", "copyCode", "wipeDb", "copyDb", "restoreConf", "restoreSite",
     "enable", "restorePanel", "restoreCaddy", "restoreTimers", "verify">>]

Idle == [seq |-> "none", at |-> 0, by |-> "op", failed |-> FALSE]
Busy == script.seq \in DOMAIN Program
Step == IF Busy THEN Program[script.seq][script.at] ELSE "none"
At(s) == Step = s
Undoing == script.seq = "undo"
Advanced == IF script.at < Len(Program[script.seq])
            THEN [script EXCEPT !.at = @ + 1]
            ELSE [script EXCEPT !.seq = "undo", !.at = 1, !.failed = FALSE]
Advance == script' = Advanced

Empty == [t \in Trees |-> None]
NoFlags == [cutover |-> FALSE, finished |-> FALSE, succeeded |-> FALSE, caddyTried |-> FALSE,
            oldInstall |-> FALSE, dbPresent |-> FALSE, codeSaved |-> FALSE,
            dbCaptured |-> FALSE, dbSaved |-> FALSE, confSaved |-> FALSE]
Absent == [here |-> FALSE, on |-> FALSE, enabled |-> FALSE]

Content(d) == [t \in Trees |-> d[t]]

\* A host without the panel, Caddy serving other sites or not installed, or an
\* installed release 1 that runs with its timers or was stopped and disabled.
Init ==
  \E fresh \in Fresh, up \in BOOLEAN :
    /\ disk = [code |-> IF fresh THEN None ELSE 1,
               db |-> IF fresh THEN None ELSE [schema |-> Schema[1], born |-> 0, writes |-> 0],
               conf |-> IF fresh THEN None ELSE 1, site |-> IF fresh THEN None ELSE 1,
               marker |-> ~fresh, data |-> ~fresh]
    /\ sysd = [caddy |-> up \/ ~fresh,
               enabled |-> {u \in Units : up /\ (fresh => u = "caddy")},
               on |-> {u \in Units \ {"panel"} : up /\ (fresh => u = "caddy")},
               proc |-> IF up /\ ~fresh THEN 1 ELSE None]
    /\ check = [pc |-> "off", fails |-> 0]
    /\ bk = FALSE
    /\ script = Idle
    /\ flags = NoFlags
    /\ was = [u \in Units |-> Absent]
    /\ dirs = [rb |-> Empty, cur |-> Empty, sel |-> Empty]
    /\ vault = [store |-> << >>, latest |-> 0, left |-> {}]
    /\ before = [tree |-> Content(disk), marker |-> disk.marker, was |-> was, stray |-> FALSE,
                  missed |-> FALSE]
    /\ good = [code |-> disk.code, db |-> disk.db]
    /\ raced = FALSE
    /\ count = [runs |-> 0, faults |-> 0, kills |-> 0, updates |-> 0, made |-> 0]

shell == <<flags, was, dirs, vault>>
hist == <<before, good, raced, count>>

-----------------------------------------------------------------------------
(* systemd and the panel.                                                  *)

Here(u) == IF u = "caddy" THEN sysd.caddy ELSE disk.conf # None
On(u) == IF u = "panel" THEN sysd.proc # None ELSE u \in sysd.on

\* capture_systemd_unit_state: nothing of a unit that has no file, even if it runs.
Seen(u) == IF Here(u) THEN [here |-> TRUE, on |-> On(u), enabled |-> u \in sysd.enabled]
           ELSE Absent

Stop(U) == sysd' = [sysd EXCEPT !.on = @ \ U, !.proc = IF "panel" \in U THEN None ELSE @]

\* The application migrates its database as it starts, and makes one where there is
\* none; born tells a database from one made anew, and writes counts its writes.
Migrated(db, r) ==
  CASE db = Torn -> Torn
    [] db = None -> [schema |-> Schema[r], born |-> count.runs, writes |-> 0]
    [] OTHER -> [db EXCEPT !.schema = IF @ < Schema[r] THEN Schema[r] ELSE @]

\* systemctl start: nothing when it runs, and the end of a restart that is queued;
\* with a broken tree systemd keeps trying.
Launched(s) ==
  IF disk.code \in Releases
  THEN /\ sysd' = [s EXCEPT !.proc = disk.code]
       /\ disk' = [disk EXCEPT !.db = Migrated(@, disk.code)]
  ELSE /\ sysd' = [s EXCEPT !.proc = Failing]
       /\ UNCHANGED disk
Down == {None, Restarting}
StartPanel(s) ==
  IF s.proc \in Down /\ disk.conf # None THEN Launched(s) ELSE sysd' = s /\ UNCHANGED disk

\* /readyz: the schema has to be the one of the running code.
Ready ==
  /\ sysd.proc \in Releases
  /\ disk.db \notin {None, Torn}
  /\ disk.db.schema = Schema[sysd.proc]

\* Restart=always.
AutoRestart ==
  /\ sysd.proc = Failing /\ disk.code \in Releases
  /\ Launched(sysd)
  /\ UNCHANGED <<check, bk, script>> /\ UNCHANGED shell /\ UNCHANGED hist

\* A unit that starts the panel inside a rollback, before the rollback does or
\* although the rollback leaves it stopped, is what raced records.
StartedByUnit ==
  raced' = \/ raced
           \/ Undoing /\ Step \notin {"restoreCaddy", "restoreTimers", "verify"}
           \/ (Undoing \/ script.seq = "exit") /\ sysd.proc = None

\* The queued restart, which outlives the health check that asked for it.
PanelRestarts ==
  /\ sysd.proc = Restarting
  /\ \/ disk.conf # None /\ Launched(sysd) /\ StartedByUnit
     \/ disk.conf = None /\ Stop({"panel"}) /\ UNCHANGED <<disk, raced>>
  /\ UNCHANGED <<check, bk, script, before, good, count>> /\ UNCHANGED shell

\* A rollback puts the panel back in service before it is over, and may yet be begun
\* again, which brings the saved database back once more: what the panel acknowledges
\* between is not promised to survive. Nor is what a panel acknowledges that the cutover
\* has missed, once its database is copied or its code replaced.
Window == Busy /\ flags.dbCaptured /\ (Undoing \/ before.missed)
Promised == sysd.proc = disk.code /\ ~Window

\* A request that the panel acknowledges.
Write ==
  /\ Ready /\ disk.db.writes < MaxWrites
  /\ disk' = [disk EXCEPT !.db.writes = @ + 1]
  /\ before' = IF Promised /\ sysd.proc = before.tree.code /\ disk.db = before.tree.db
               THEN [before EXCEPT !.tree.db = disk'.db] ELSE before
  /\ good' = IF Promised /\ sysd.proc = good.code /\ disk.db = good.db
             THEN [good EXCEPT !.db = disk'.db] ELSE good
  /\ UNCHANGED <<sysd, check, bk, script, raced, count>> /\ UNCHANGED shell

-----------------------------------------------------------------------------
(* The timers.                                                             *)

HealthCheckStarts ==
  /\ "health" \in sysd.on /\ check.pc = "off"
  /\ check' = [check EXCEPT !.pc = "probe"]
  /\ UNCHANGED <<disk, sysd, bk, script>> /\ UNCHANGED shell /\ UNCHANGED hist

\* A panel that runs may still be too slow to answer.
HealthCheckProbes ==
  /\ check.pc = "probe"
  /\ \/ Ready /\ check' = [pc |-> "off", fails |-> 0]
     \/ /\ check.fails + 1 < Threshold
        /\ check' = [pc |-> "off", fails |-> check.fails + 1]
     \/ check.fails + 1 >= Threshold /\ check' = [pc |-> "recover", fails |-> Threshold]
  /\ UNCHANGED <<disk, sysd, bk, script>> /\ UNCHANGED shell /\ UNCHANGED hist

Serving == sysd.proc \in Releases \cup {Restarting}

\* systemctl restart, or nothing within the cooldown. A panel that runs has to stop first,
\* and may answer requests until it has (here they come before).
HealthCheckRecovers ==
  /\ check.pc = "recover"
  /\ \/ /\ disk.conf # None /\ ~Serving
        /\ Launched(sysd)
        /\ check' = [pc |-> "off", fails |-> IF Ready' THEN 0 ELSE Threshold - 1]
        /\ StartedByUnit
     \/ /\ disk.conf # None /\ Serving
        /\ sysd' = [sysd EXCEPT !.proc = Restarting]
        /\ check' = [check EXCEPT !.pc = "restart"]
        /\ UNCHANGED <<disk, raced>>
     \/ /\ check' = [check EXCEPT !.pc = "off", !.fails = Threshold - 1]
        /\ UNCHANGED <<disk, sysd, raced>>
  /\ UNCHANGED <<bk, script, before, good, count>> /\ UNCHANGED shell

\* timeout 15 systemctl restart returns, and /readyz is asked once more.
HealthCheckReturns ==
  /\ check.pc = "restart"
  /\ \/ Ready /\ check' = [pc |-> "off", fails |-> 0]
     \/ check' = [pc |-> "off", fails |-> Threshold - 1]
  /\ UNCHANGED <<disk, sysd, bk, script>> /\ UNCHANGED shell /\ UNCHANGED hist

BackupTimerFires ==
  /\ "backup" \in sysd.on /\ ~bk
  /\ bk' = TRUE
  /\ UNCHANGED <<disk, sysd, check, script>> /\ UNCHANGED shell /\ UNCHANGED hist

\* Requires=<panel>.service; the archive itself is DailyBackup.
BackupRuns ==
  /\ bk /\ bk' = FALSE
  /\ StartPanel(sysd)
  /\ IF sysd.proc \in Down THEN StartedByUnit ELSE UNCHANGED raced
  /\ UNCHANGED <<check, script, before, good, count>> /\ UNCHANGED shell

-----------------------------------------------------------------------------
(* The script begins and ends.                                             *)

\* validate_install_target: an absent or empty directory, or the marker.
TargetOk == disk.marker \/ (disk.code = None /\ ~disk.data)

Named(id) == CHOOSE i \in DOMAIN vault.store : vault.store[i].id = id

\* main up to ensure_caddy, and delayed_rollback up to begin_cutover: latest has
\* to name a directory whose checksums are right.
Launch ==
  /\ script = Idle /\ count.runs < MaxRuns /\ TargetOk
  /\ \/ /\ script' = [Idle EXCEPT !.seq = "update", !.at = 1]
        /\ UNCHANGED dirs
     \/ /\ \E i \in DOMAIN vault.store : vault.store[i].id = vault.latest
        /\ vault.store[Named(vault.latest)].whole
        /\ dirs' = [dirs EXCEPT !.sel = vault.store[Named(vault.latest)]]
        /\ script' = [Idle EXCEPT !.seq = "rollback", !.at = 1]
  /\ flags' = NoFlags
  /\ was' = [u \in Units |-> IF u = "caddy" THEN Seen(u) ELSE Absent]
  /\ raced' = FALSE
  /\ count' = [count EXCEPT !.runs = @ + 1]
  /\ UNCHANGED <<disk, sysd, check, bk, vault, before, good>>

\* cleanup_deploy_artifacts, the trap on EXIT.
Exit ==
  /\ script.seq = "exit"
  /\ script' = Idle
  /\ IF ~flags.succeeded /\ ~flags.cutover /\ ~flags.finished /\ flags.caddyTried /\ sysd.caddy
     THEN sysd' = [sysd EXCEPT !.on = IF was["caddy"].on THEN @ \cup {"caddy"} ELSE @ \ {"caddy"},
                               !.enabled = IF was["caddy"].enabled THEN @ \cup {"caddy"}
                                           ELSE @ \ {"caddy"}]
     ELSE UNCHANGED sysd
  /\ vault' = [vault EXCEPT !.left =
       @ \cup ({dirs.cur} \cup IF flags.succeeded THEN {} ELSE {dirs.rb})]
  /\ dirs' = [rb |-> Empty, cur |-> Empty, sel |-> Empty]
  /\ UNCHANGED <<disk, check, bk, flags, was>> /\ UNCHANGED hist

Leaves == [Idle EXCEPT !.seq = "exit"]
Undo(by) == [seq |-> "undo", at |-> 1, by |-> by, failed |-> FALSE]

\* What a step finds that it cannot go on from. A panel that keeps failing is active
\* while it tries (Type=simple) and activating in between.
Refused ==
  \/ At("capture") /\ Here("panel") /\ sysd.proc \in {Failing, Restarting}
  \/ At("saveDb") /\ flags.dbPresent /\ disk.db \in {None, Torn}
  \/ At("waitPanel") /\ ~Ready
  \/ At("waitHealthCheck") /\ check.pc = "off" /\ check.fails # 0

\* Failures that the model adds are counted, those of Refused are not.
Faulty ==
  \/ Refused /\ UNCHANGED count
  \/ count.faults < MaxFaults /\ count' = [count EXCEPT !.faults = @ + 1]

\* A command fails or a signal arrives: handle_deploy_error, which ignores
\* further signals, so that a rollback it runs is interrupted no more.
Interrupted ==
  /\ Busy /\ script.by # "trap" /\ Faulty
  /\ script' = IF flags.cutover THEN Undo("trap") ELSE Leaves
  /\ UNCHANGED <<disk, sysd, check, bk, before, good, raced>> /\ UNCHANGED shell

\* The steps that call fail, which rolls back with the traps still set.
FailSteps == {"stopPanel", "saveDb", "prepareState", "install", "waitPanel", "writeSite",
              "startCaddy", "startHealthCheck", "startBackups"}
Fails ==
  /\ Step \in FailSteps /\ ~Undoing /\ Faulty
  /\ script' = Undo("fail")
  /\ UNCHANGED <<disk, sysd, check, bk, before, good, raced>> /\ UNCHANGED shell

\* SIGKILL: no trap runs, every directory stays. A half-written tree is Partly.
Killed ==
  /\ script # Idle /\ count.kills < MaxKills
  /\ script' = Idle
  /\ vault' = [vault EXCEPT !.left = @ \cup {dirs.rb, dirs.cur}]
  /\ dirs' = [rb |-> Empty, cur |-> Empty, sel |-> Empty]
  /\ count' = [count EXCEPT !.kills = @ + 1]
  /\ UNCHANGED <<disk, sysd, check, bk, flags, was, before, good, raced>>

\* The middle of a step that copies, writes or removes a tree.
Writes == [clear |-> "code", install |-> "code", writeConf |-> "conf", writeSite |-> "site",
           wipeCode |-> "code", copyDb |-> "db", restoreConf |-> "conf", restoreSite |-> "site"]
Saves == [saveDb |-> "db", saveCode |-> "code"]

Partly ==
  /\ \/ /\ Step \in DOMAIN Writes
        /\ Step = "wipeCode" => flags.codeSaved
        /\ Step = "copyDb" => flags.dbSaved
        /\ \E m \in BOOLEAN :
             /\ m # disk.marker => \/ Step \in {"clear", "wipeCode"} /\ ~m
                                   \/ Step = "install" /\ m
             /\ disk' = [disk EXCEPT ![Writes[Step]] = Torn, !.marker = m]
        /\ UNCHANGED <<dirs, vault>>
     \/ /\ Step \in DOMAIN Saves
        /\ Step = "saveDb" => flags.dbPresent
        /\ dirs' = [dirs EXCEPT !.rb[Saves[Step]] = Torn]
        /\ UNCHANGED <<disk, vault>>
     \/ At("nameLatest") /\ vault' = [vault EXCEPT !.latest = 0] /\ UNCHANGED <<disk, dirs>>
  /\ UNCHANGED <<sysd, check, bk, script, flags, was>> /\ UNCHANGED hist

-----------------------------------------------------------------------------
(* begin_cutover.                                                          *)

EnsureCaddy ==
  /\ At("ensureCaddy") /\ Advance
  /\ IF sysd.caddy THEN UNCHANGED <<sysd, flags>>
     ELSE /\ flags' = [flags EXCEPT !.caddyTried = TRUE]
          /\ sysd' = [sysd EXCEPT !.caddy = TRUE, !.on = @ \cup {"caddy"}, !.enabled = @ \cup {"caddy"}]
  /\ UNCHANGED <<disk, check, bk, was, dirs, vault>> /\ UNCHANGED hist

\* A unit between two states stops the script here; Caddy was captured before.
Capture ==
  /\ At("capture") /\ ~(Here("panel") /\ sysd.proc = Restarting) /\ Advance
  /\ was' = [u \in Units |-> IF u = "caddy" THEN was[u] ELSE Seen(u)]
  /\ flags' = [flags EXCEPT !.oldInstall = disk.marker, !.dbPresent = disk.db # None,
                            !.confSaved = TRUE, !.cutover = TRUE]
  /\ dirs' = [dirs EXCEPT !.rb = [Empty EXCEPT !.conf = disk.conf, !.site = disk.site]]
  /\ before' = [tree |-> Content(disk), marker |-> disk.marker, was |-> was',
                stray |-> \E u \in Units : ~Here(u) /\ (On(u) \/ u \in sysd.enabled),
                missed |-> FALSE]
  /\ UNCHANGED <<disk, sysd, check, bk, vault, good, raced, count>>

Stopping == [stopHealthTimer |-> {"health"}, stopBackupTimer |-> {"backup"},
             stopPanel |-> {"panel"}, stopCaddy |-> {"caddy"}]

\* A rollback looks for the unit first (stop_unit_for_rollback_if_present), and
\* stop_service_for_update asks whether it is active.
Asks == At("stopPanel") /\ ~Undoing
StopUnit ==
  /\ Step \in DOMAIN Stopping /\ Advance
  /\ Asks => sysd.proc # Restarting
  /\ Stop({u \in Stopping[Step] : Undoing => Here(u)})
  /\ UNCHANGED <<disk, check, bk>> /\ UNCHANGED shell /\ UNCHANGED hist

\* Activating and deactivating are not active: no systemctl stop.
MissPanel ==
  /\ Asks /\ sysd.proc \in {Failing, Restarting} /\ Advance
  /\ before' = [before EXCEPT !.missed = TRUE]
  /\ UNCHANGED <<disk, sysd, check, bk, good, raced, count>> /\ UNCHANGED shell

\* Mutant of StopHealthCheck: stopping the timer is taken to stop a check that runs.
StopHealthCheckNot ==
  /\ At("stopHealthCheck") /\ Advance
  /\ UNCHANGED <<disk, sysd, check, bk>> /\ UNCHANGED shell /\ UNCHANGED hist

StopHealthCheck ==
  /\ At("stopHealthCheck") /\ Advance
  /\ check' = [check EXCEPT !.pc = "off"]
  /\ UNCHANGED <<disk, sysd, bk>> /\ UNCHANGED shell /\ UNCHANGED hist

StopBackup ==
  /\ At("stopBackup") /\ Advance
  /\ bk' = (bk /\ Undoing /\ ~Here("backup"))
  /\ UNCHANGED <<disk, sysd, check>> /\ UNCHANGED shell /\ UNCHANGED hist

\* Mutant of SaveDb: that there was no database is not remembered.
SaveDbOfOldOnly ==
  /\ At("saveDb") /\ Advance
  /\ flags.dbPresent => disk.db \notin {None, Torn}
  /\ dirs' = IF flags.dbPresent THEN [dirs EXCEPT !.rb.db = disk.db] ELSE dirs
  /\ flags' = [flags EXCEPT !.dbSaved = flags.dbPresent, !.dbCaptured = flags.dbPresent]
  /\ UNCHANGED <<disk, sysd, check, bk, was, vault>> /\ UNCHANGED hist

\* backup_database_for_rollback; quick_check refuses a torn database.
SaveDb ==
  /\ At("saveDb") /\ Advance
  /\ flags.dbPresent => disk.db \notin {None, Torn}
  /\ dirs' = IF flags.dbPresent THEN [dirs EXCEPT !.rb.db = disk.db] ELSE dirs
  /\ flags' = [flags EXCEPT !.dbSaved = flags.dbPresent, !.dbCaptured = TRUE]
  /\ UNCHANGED <<disk, sysd, check, bk, was, vault>> /\ UNCHANGED hist

PrepareState ==
  /\ At("prepareState") /\ Advance
  /\ disk' = [disk EXCEPT !.data = TRUE, !.marker = TRUE]
  /\ UNCHANGED <<sysd, check, bk>> /\ UNCHANGED shell /\ UNCHANGED hist

\* backup_current_release: the copy, then the removal.
SaveCode ==
  /\ At("saveCode") /\ Advance
  /\ dirs' = [dirs EXCEPT !.rb.code = disk.code]
  /\ flags' = [flags EXCEPT !.codeSaved = TRUE]
  /\ UNCHANGED <<disk, sysd, check, bk, was, vault>> /\ UNCHANGED hist
ClearCode ==
  /\ At("clear") /\ Advance
  /\ disk' = [disk EXCEPT !.code = None, !.marker = FALSE]
  /\ UNCHANGED <<sysd, check, bk>> /\ UNCHANGED shell /\ UNCHANGED hist

-----------------------------------------------------------------------------
(* The new release.                                                        *)

\* Run k installs release k + 1.
New == count.runs + 1

Install ==
  /\ At("install") /\ Advance
  /\ disk' = [disk EXCEPT !.code = New, !.marker = TRUE]
  /\ UNCHANGED <<sysd, check, bk>> /\ UNCHANGED shell /\ UNCHANGED hist

\* initialize_database: one transaction.
Migrate ==
  /\ At("migrate") /\ Advance
  /\ disk' = [disk EXCEPT !.db = Migrated(@, disk.code)]
  /\ UNCHANGED <<sysd, check, bk>> /\ UNCHANGED shell /\ UNCHANGED hist

\* write_service, write_keepalive_config, write_backup_config.
WriteConf ==
  /\ At("writeConf") /\ Advance
  /\ disk' = [disk EXCEPT !.conf = New]
  /\ UNCHANGED <<sysd, check, bk>> /\ UNCHANGED shell /\ UNCHANGED hist

\* write_caddy_config, which puts the former files back before it fails.
WriteSite ==
  /\ At("writeSite")
  /\ \/ disk' = [disk EXCEPT !.site = New] /\ Advance
     \/ disk' = [disk EXCEPT !.site = dirs.rb.site] /\ script' = Undo("fail")
  /\ UNCHANGED <<sysd, check, bk>> /\ UNCHANGED shell /\ UNCHANGED hist

Enabled(s, u) == [s EXCEPT !.enabled = @ \cup {u}]

\* start_service: enable and restart, then wait for /readyz.
StartService ==
  /\ At("startPanel") /\ Advance
  /\ Launched(Enabled(sysd, "panel"))
  /\ UNCHANGED <<check, bk>> /\ UNCHANGED shell /\ UNCHANGED hist
WaitForBackend ==
  /\ At("waitPanel") /\ Ready /\ Advance
  /\ UNCHANGED <<disk, sysd, check, bk>> /\ UNCHANGED shell /\ UNCHANGED hist

\* start_https_proxy; start_keepalive; start_backups.
StartUnit ==
  /\ \/ /\ At("startCaddy")
        /\ sysd' = [Enabled(sysd, "caddy") EXCEPT !.on = @ \cup {"caddy"}]
     \/ /\ At("startHealthTimer")
        /\ sysd' = [Enabled(sysd, "health") EXCEPT !.on = @ \cup {"health"}]
     \/ /\ At("startBackups")
        /\ sysd' = [Enabled(sysd, "backup") EXCEPT !.on = @ \cup {"backup"}]
  /\ Advance
  /\ UNCHANGED <<disk, check, bk>> /\ UNCHANGED shell /\ UNCHANGED hist

\* systemctl start of a oneshot joins a run in progress, waits, and fails with it.
StartHealthCheck ==
  /\ At("startHealthCheck") /\ Advance
  /\ check' = [check EXCEPT !.pc = IF @ = "off" THEN "probe" ELSE @]
  /\ UNCHANGED <<disk, sysd, bk>> /\ UNCHANGED shell /\ UNCHANGED hist
HealthCheckEnds ==
  /\ At("waitHealthCheck") /\ check = [pc |-> "off", fails |-> 0] /\ Advance
  /\ UNCHANGED <<disk, sysd, check, bk>> /\ UNCHANGED shell /\ UNCHANGED hist

-----------------------------------------------------------------------------
(* persist_rollback_backup, only over a managed installation.              *)

Last(s) == s[Len(s)]

CopySnapshot ==
  /\ At("copySnapshot")
  /\ IF flags.oldInstall
     THEN /\ Advance
          /\ vault' = [vault EXCEPT !.store = Append(@,
               [id |-> count.made + 1, whole |-> FALSE, tree |-> dirs.rb, was |-> was,
                dbSaved |-> flags.dbSaved])]
          /\ count' = [count EXCEPT !.made = @ + 1]
     ELSE /\ script' = [script EXCEPT !.at = @ + Len(Persist)]
          /\ UNCHANGED <<vault, count>>
  /\ UNCHANGED <<disk, sysd, check, bk, flags, was, dirs, before, good, raced>>

\* write_rollback_metadata: rollback.meta and SHA256SUMS complete the snapshot.
SumSnapshot ==
  /\ At("sumSnapshot") /\ Advance
  /\ vault' = [vault EXCEPT !.store[Len(vault.store)].whole = TRUE]
  /\ UNCHANGED <<disk, sysd, check, bk, flags, was, dirs>> /\ UNCHANGED hist

NameLatest ==
  /\ At("nameLatest") /\ Advance
  /\ vault' = [vault EXCEPT !.latest = Last(vault.store).id]
  /\ UNCHANGED <<disk, sysd, check, bk, flags, was, dirs>> /\ UNCHANGED hist

\* Mutant of Rotate: the names are sorted the other way.
RotateNewest ==
  /\ At("rotate") /\ Advance
  /\ vault' = [vault EXCEPT !.store = IF Len(@) > Keep THEN SubSeq(@, 1, Keep) ELSE @]
  /\ UNCHANGED <<disk, sysd, check, bk, flags, was, dirs>> /\ UNCHANGED hist

\* rotate_persistent_backups: by name, whatever is in the directories.
Rotate ==
  /\ At("rotate") /\ Advance
  /\ vault' = [vault EXCEPT !.store =
       IF Len(@) > Keep THEN SubSeq(@, Len(@) - Keep + 1, Len(@)) ELSE @]
  /\ UNCHANGED <<disk, sysd, check, bk, flags, was, dirs>> /\ UNCHANGED hist

\* DEPLOY_SUCCEEDED=1, CUTOVER_STARTED=0.
Succeed ==
  /\ At("succeed")
  /\ script' = Leaves
  /\ flags' = [flags EXCEPT !.succeeded = TRUE, !.cutover = FALSE]
  /\ good' = [code |-> disk.code, db |-> disk.db]
  /\ count' = [count EXCEPT !.updates = @ + 1]
  /\ UNCHANGED <<disk, sysd, check, bk, was, dirs, vault, before, raced>>

\* The delayed rollback goes on with the selected copy and then its variables.
Switch ==
  /\ At("switch") /\ Advance
  /\ dirs' = [dirs EXCEPT !.cur = dirs.rb, !.rb = dirs.sel.tree]
  /\ before' = [before EXCEPT !.tree = dirs.sel.tree]
  /\ UNCHANGED <<disk, sysd, check, bk, flags, was, vault, good, raced, count>>
LoadMetadata ==
  /\ At("load") /\ Advance
  /\ was' = dirs.sel.was
  /\ flags' = [flags EXCEPT !.oldInstall = TRUE, !.dbSaved = dirs.sel.dbSaved]
  /\ before' = [before EXCEPT !.marker = TRUE, !.was = was']
  /\ UNCHANGED <<disk, sysd, check, bk, dirs, vault, good, raced, count>>

-----------------------------------------------------------------------------
(* rollback_deployment. StopUnit and StopBackup are its first steps, too.  *)

Disable ==
  /\ At("disable") /\ Advance
  /\ sysd' = [sysd EXCEPT !.enabled = {u \in @ : was[u].enabled \/ ~Here(u)}]
  /\ UNCHANGED <<disk, check, bk>> /\ UNCHANGED shell /\ UNCHANGED hist

WipeCode ==
  /\ At("wipeCode") /\ Advance
  /\ disk' = IF flags.codeSaved THEN [disk EXCEPT !.code = None, !.marker = FALSE] ELSE disk
  /\ UNCHANGED <<sysd, check, bk>> /\ UNCHANGED shell /\ UNCHANGED hist

\* The copy goes over whatever the wipe has left; the marker of a new
\* installation goes.
CopyCode ==
  /\ At("copyCode") /\ Advance
  /\ disk' = IF flags.codeSaved
             THEN [disk EXCEPT !.code = IF @ = None THEN dirs.rb.code ELSE Torn,
                               !.marker = flags.oldInstall]
             ELSE [disk EXCEPT !.marker = @ /\ flags.oldInstall]
  /\ UNCHANGED <<sysd, check, bk>> /\ UNCHANGED shell /\ UNCHANGED hist

WipeDb ==
  /\ At("wipeDb") /\ Advance
  /\ disk' = IF flags.dbCaptured THEN [disk EXCEPT !.db = None] ELSE disk
  /\ UNCHANGED <<sysd, check, bk>> /\ UNCHANGED shell /\ UNCHANGED hist

CopyDb ==
  /\ At("copyDb") /\ Advance
  /\ disk' = IF flags.dbCaptured /\ flags.dbSaved THEN [disk EXCEPT !.db = dirs.rb.db] ELSE disk
  /\ UNCHANGED <<sysd, check, bk>> /\ UNCHANGED shell /\ UNCHANGED hist

RestoreFiles ==
  /\ \/ At("restoreConf") /\ disk' = [disk EXCEPT !.conf = dirs.rb.conf]
     \/ At("restoreSite") /\ disk' = [disk EXCEPT !.site = dirs.rb.site]
  /\ Advance
  /\ UNCHANGED <<sysd, check, bk>> /\ UNCHANGED shell /\ UNCHANGED hist

\* systemctl fails on a unit that has no file, but to stop one that runs.
AdvanceUnless(fails) == script' = [Advanced EXCEPT !.failed = @ \/ fails]
Lacking(u) == was[u].here /\ ~Here(u) /\ (was[u].on \/ ~On(u))

Enable ==
  /\ At("enable")
  /\ LET U == {u \in Units : was[u].enabled}
     IN  /\ AdvanceUnless(\E u \in U : ~Here(u))
         /\ sysd' = [sysd EXCEPT !.enabled = @ \cup {u \in U : Here(u)}]
  /\ UNCHANGED <<disk, check, bk>> /\ UNCHANGED shell /\ UNCHANGED hist

\* restore_unit_activity: what was not there is stopped if it is there now.
Restarted(u) == was[u].here /\ was[u].on
KeptDown(u) == IF was[u].here THEN ~was[u].on ELSE Here(u)
RestorePanel ==
  /\ At("restorePanel") /\ AdvanceUnless(Lacking("panel"))
  /\ IF Restarted("panel") THEN StartPanel(sysd)
     ELSE Stop({u \in {"panel"} : KeptDown(u)}) /\ UNCHANGED disk
  /\ UNCHANGED <<check, bk>> /\ UNCHANGED shell /\ UNCHANGED hist
Restoring == [restoreCaddy |-> {"caddy"}, restoreTimers |-> Timers]
RestoreUnits ==
  /\ Step \in DOMAIN Restoring
  /\ LET U == Restoring[Step]
     IN  /\ AdvanceUnless(\E u \in U : Lacking(u))
         /\ sysd' = [sysd EXCEPT !.on = (@ \ {u \in U : KeptDown(u)})
                                          \cup {u \in U : Restarted(u) /\ Here(u)}]
  /\ UNCHANGED <<disk, check, bk>> /\ UNCHANGED shell /\ UNCHANGED hist

\* rollback_step: a step that fails is reported and the rollback goes on. If it is begun
\* again, it may find a unit that still runs or is enabled without its file.
StepFails ==
  /\ Undoing /\ Step # "verify" /\ count.faults < MaxFaults
  /\ script' = [Advanced EXCEPT !.failed = TRUE]
  /\ count' = [count EXCEPT !.faults = @ + 1]
  /\ disk' = IF Step = "copyCode" /\ flags.codeSaved THEN [disk EXCEPT !.code = Torn] ELSE disk
  /\ before' = [before EXCEPT !.stray = @ \/ Step \in DOMAIN Stopping \cup {"disable"}]
  /\ UNCHANGED <<sysd, check, bk, good, raced>> /\ UNCHANGED shell

\* The readiness of the restored panel, and what follows from the outcome:
\* success, a second attempt of delayed_rollback by way of fail, or the exit.
Verify ==
  /\ At("verify")
  /\ LET failed == script.failed \/ (was["panel"].on /\ ~Ready)
     IN \/ /\ ~failed
           /\ script' = Leaves
           /\ flags' = [flags EXCEPT !.cutover = FALSE, !.finished = TRUE,
                                     !.succeeded = script.by = "op"]
           /\ dirs' = IF script.by = "op" THEN [dirs EXCEPT !.cur = Empty] ELSE dirs
           /\ good' = IF script.by = "op" THEN [code |-> disk.code, db |-> disk.db] ELSE good
        \/ /\ script.failed \/ was["panel"].on
           /\ script' = IF script.by = "op" THEN Undo("fail") ELSE Leaves
           /\ UNCHANGED <<flags, dirs, good>>
  /\ UNCHANGED <<disk, sysd, check, bk, was, vault, before, raced, count>>

-----------------------------------------------------------------------------
Next ==
  \/ AutoRestart \/ PanelRestarts \/ Write
  \/ HealthCheckStarts \/ HealthCheckProbes \/ HealthCheckRecovers \/ HealthCheckReturns
  \/ BackupTimerFires \/ BackupRuns
  \/ Launch \/ Exit \/ Interrupted \/ Fails \/ Killed \/ Partly
  \/ EnsureCaddy \/ Capture \/ StopUnit \/ MissPanel \/ StopHealthCheck \/ StopBackup
  \/ SaveDb \/ PrepareState \/ SaveCode \/ ClearCode
  \/ Install \/ Migrate \/ WriteConf \/ WriteSite \/ StartService \/ WaitForBackend
  \/ StartUnit \/ StartHealthCheck \/ HealthCheckEnds
  \/ CopySnapshot \/ SumSnapshot \/ NameLatest \/ Rotate \/ Succeed
  \/ Switch \/ LoadMetadata
  \/ Disable \/ WipeCode \/ CopyCode \/ WipeDb \/ CopyDb \/ RestoreFiles
  \/ Enable \/ RestorePanel \/ RestoreUnits \/ StepFails \/ Verify

Spec == Init /\ [][Next]_vars

-----------------------------------------------------------------------------
(* Properties.                                                             *)

DbValues == [schema : Nat, born : 0..MaxRuns, writes : 0..MaxWrites] \cup {None, Torn}
TreeOK(t) == /\ DOMAIN t = Trees
             /\ t.code \in Releases \cup {None, Torn} /\ t.db \in DbValues
             /\ t.conf \in Releases \cup {None, Torn} /\ t.site \in Releases \cup {None, Torn}

\* Every variable has the values its part of the script can give it.
TypeOK ==
  /\ TreeOK(Content(disk)) /\ disk.marker \in BOOLEAN /\ disk.data \in BOOLEAN
  /\ sysd.proc \in Releases \cup {None, Failing, Restarting}
  /\ sysd.enabled \subseteq Units /\ sysd.on \subseteq Units \ {"panel"} /\ sysd.caddy \in BOOLEAN
  /\ check \in [pc : {"off", "probe", "recover", "restart"}, fails : 0..Threshold]
  /\ script.seq \in {"none", "exit"} \cup DOMAIN Program
  /\ Busy => script.at \in DOMAIN Program[script.seq]
  /\ TreeOK(dirs.rb) /\ TreeOK(dirs.cur)
  /\ was \in [Units -> [here : BOOLEAN, on : BOOLEAN, enabled : BOOLEAN]]
  /\ \A t \in vault.left : TreeOK(t)

\* Database db has all that database old has, under the same schema.
Holds(db, old) ==
  \/ db = old
  \/ /\ db \notin {None, Torn} /\ old \notin {None, Torn}
     /\ db.schema = old.schema /\ db.born = old.born /\ db.writes >= old.writes

\* An installation whose database is gone makes another whenever it starts, one that a
\* kill left above an older schema migrates when a unit starts it; and until
\* load_rollback_metadata the selected snapshot is restored under that host's variables.
WasSound ==
  /\ before.tree.code # None => before.tree.db \notin {None, Torn}
  /\ before.tree.code \in Releases => before.tree.db.schema >= Schema[before.tree.code]
  /\ flags.oldInstall => flags.dbPresent \/ flags.dbSaved

\* A rollback that reports success (deploy.sh:1156) has brought back the files, the
\* database with every write the old release acknowledged, the marker, and which
\* units run and are enabled, whatever step had failed, and whether or not the
\* rollback itself was interrupted and begun again. What a unit that came between
\* does to it is RestoredPanelRuns; a unit that runs without its file (before.stray)
\* the rollback does not see.
Restored ==
  script.seq = "exit" /\ flags.finished /\ WasSound =>
    /\ \A t \in Trees \ {"db"} : disk[t] = before.tree[t]
    /\ Holds(disk.db, before.tree.db) /\ disk.marker = before.marker
    /\ ~raced /\ ~before.stray =>
         \A u \in Units : /\ On(u) = before.was[u].on
                            /\ Here(u) => (u \in sysd.enabled) = before.was[u].enabled

\* The database of the last release in service, or what the start of that release
\* makes of it: a rollback to what a kill had left before its migration leaves it behind.
GoodDb(db) ==
  \/ Holds(db, good.db)
  \/ /\ good.code \in Releases /\ good.db \notin {None, Torn}
     /\ Holds(db, Migrated(good.db, good.code))

\* At every moment, after a kill at any step as well, the code of the last release in
\* service is whole in some directory, and so is its database with every write it
\* acknowledged: what is removed or replaced has been copied before.
Kept == {Content(disk), dirs.rb, dirs.cur} \cup vault.left
          \cup {vault.store[i].tree : i \in DOMAIN vault.store}
OldReleaseKept == \E t, u \in Kept : t.code = good.code /\ GoodDb(u.db)

\* Between the copy of the database and the start of the new release.
Switching ==
  /\ script.seq \in {"update", "rollback"} /\ flags.dbCaptured
  /\ script.seq = "update" => script.at <= 1 + Len(Cutover) + 3

\* A panel that was running or stopped when stop_service_for_update looked is down
\* until the new release is started: begin_cutover has stopped every unit that could
\* start it (deploy.sh:781-785). Of a panel between two states see ServiceStopped.
PanelStaysDown == Switching /\ ~before.missed => sysd.proc = None

\* The service is stopped for the switch of releases (docs/OPERATIONS.md:246), whatever
\* state it was in: no panel runs while database and code are copied and replaced.
ServiceStopped == Switching => sysd.proc \notin Releases

\* The file latest names a snapshot that is still there and passes its checksums, so
\* that --rollback latest finds one, through failures, kills and rotation.
LatestUsable ==
  vault.latest # 0 => \E i \in DOMAIN vault.store :
                        vault.store[i].id = vault.latest /\ vault.store[i].whole

\* Once as many updates succeeded, the last two snapshots with checksums are kept
\* (docs/OPERATIONS.md:246).
SnapshotsKept ==
  script = Idle /\ count.updates >= Keep =>
    Cardinality({i \in DOMAIN vault.store : vault.store[i].whole}) >= Keep

\* Any step that fails after the cutover restores the old release
\* (docs/OPERATIONS.md:246): what a successful rollback leaves running is that code.
RestoredPanelRuns ==
  script.seq = "exit" /\ flags.finished /\ before.was["panel"].on =>
    sysd.proc = before.tree.code

\* A rollback brings the host back to where the deployment began
\* (docs/OPERATIONS.md:246), and so to where it can be run again.
RetryPossible == script.seq = "exit" /\ flags.finished => TargetOk
=============================================================================
