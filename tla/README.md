# AnyTLS Panel in TLA+

AnyTLS Panel imports proxy subscriptions ("accounts" with "nodes"), meters their
traffic, checks the nodes and hands subscriptions out to customers. It is one
Flask application (`app.py`, Gunicorn with one worker process and four threads)
over one SQLite database in WAL mode, a monitor process started by a systemd
timer, and a shell script on every node that reports traffic over HTTP. Nothing
in it is a large algorithm. What is hard is that requests overlap, that handlers
read before they lock, that the network repeats and reorders, and that months
end at midnight. That is what these modules describe.

## Inventory

| Component | State | Operations | Interacts with | Hard part | Correct when |
|---|---|---|---|---|---|
| Collector script (`traffic_collector.sh`) | two iptables counters, `.sequence` file, lock file, ID file | cron run: lock, rules, read, reserve, send | counter endpoint over HTTP | reboot or kill at any step, overlapping runs | numbers order readings in time |
| Counter endpoint (`app.py` 2294) | `accounts.traffic_used_bytes`, `traffic_collectors` | baseline, increment, refuse | collectors, monthly reset, deletion | late, repeated and missing samples, counter resets | never charges a byte twice |
| Batch report (2240), traffic log | totals, `traffic_logs` | add deltas, prune | as above | partly failing batch | all or nothing |
| Monthly cycle (1078, 1108, 2387) | `expire_date`, `last_traffic_reset_on`, totals | reset when due, set an absolute total | called first by most handlers | read and update apart, midnight, short months | each month zeroed once, in time |
| Upstream sync (1735-1806, 2654) | accounts, nodes | snapshot, download without lock, compare, store | upstream server, cycle, checks | overlapping syncs and edits | newest answer wins, nothing else changes |
| Node checks (2487-2630, `node_probe.py`, `proxy_verifier.py`) | `node_probe_leases`, probe columns of `nodes`, slot files of the proxy cores | single, account batch; entry check, verification, show | sync, deletion, monitor, bulk lock | late results, expired leases, crashes, one time limit for many addresses | a result belongs to its node and configuration; green is proved, red is conclusive |
| Monitor (`node_monitor.py`) | the same | oldest nodes first, in waves, each minute | node checks | budget, busy nodes, lock held | every node's turn comes |
| Accounts (1506-1694) | `accounts`, `node_count` | add, edit, delete | all of the above | overlapping handlers | counts and rows agree |
| Customer services (1811-2135) | `customer_services`, `service_renewals` | add, edit, renew, remind, pause, rotate, delete | accounts, public subscription | a page that is out of date is sent | a renewal counts once, a revoked link stays dead, every page and the link say the same |
| Admin session (1196, 1294, 2763) | `admin_users`, signed cookie | login, hash upgrade, password change | everything behind login | change racing an upgrade | old sessions die |
| Rate limiter (`sqlite_rate_limit.py`) | `rate_limits` | consume | decorated handlers | window boundary | at most the limit per window, but for a request that waits over its end (see Disagreements) |
| Migrations, first start (`db_migrations.py`, 210, 427) | schema version, key files | each migration, create files once | deployment | crash between steps, two starters | ends at the same schema |
| Export, rename, filter (`subscription_export.py`) | rules | select, rename, resolve references | public subscription | name collisions | references stay valid |
| Backup (`backup.sh`) | archives, checksums, `latest`, lock | copy, pack, verify, name, rotate | the database, timer, hand | overlapping runs, a kill at any step | `latest` is verified and current |
| Deployment (`deploy.sh`), health check | releases on disk, units, rollback directory, snapshots | cut over, roll back, go back to a snapshot, restart | the host's units, the panel, the timers | crash or signal at any step, units that start the panel meanwhile | the old release is never lost and comes back whole |
| Codecs, release check, pages, input limits | none that other components read | parse, print, fetch | - | data, not control | repository tests |

`PROJECT.json` lists all of them with their status, and the hazards with their lines.

## Modules

### TrafficLedger, TrafficCounter

`TrafficLedger` is the promise: per collector, bytes seen and bytes charged; a
charge grows, never beyond what was seen, and starts again only with a new
binding. `TrafficCounter` is the system that should keep it: script, network and
handler. `Seen` and `billed` are the refinement mapping.

The script's commands that touch shared state are one action each: `Start` (lock
and rules), `ReadInput`, `ReadOutput`, `Reserve`, `Send`, `Exit` (also a kill
or a failing command). `Reboot` takes rules, counters, processes and lock; the
sequence file stays. Requests sit in the set `net` and are delivered any number
of times in any order until `Lose` removes them. The handler is atomic behind
`BEGIN IMMEDIATE`: `Baseline` and `Accept` are its two paths that write; every
refusal rolls back and is a stutter. A legacy collector sends no number
(`SendLegacy`) and may be upgraded at any time. `WriteTotal` (a
new month, a batch report, an administrator's value, an upstream value),
`DeleteAccount` and `NodesChange` are what other handlers do to the same rows; the
total as such is the subject of `TrafficCycle`.

`billed`, `first`, `gone` and `base` are history: no guard reads them.

Assumptions: the two rules vanish together, in a reboot; the renamed sequence
file is durable; the operator upgrades or reconfigures while no script runs and
does not go back to the legacy script. The README of the repository and
`docs/API.md` describe operation in this way; what breaks without them is in the
hazard list.

### ResetCalendar

`traffic_reset_info` and `_date_with_day` as operators over
`<<year, month, day>>`, next to a calendar that advances one day per step and
remembers on which day a cycle really began. The algorithm looks at today only;
the properties compare it with the past (`CycleIsPresent`) and with the
next day (`Countdown`). Both are proved; TLC checks the first inside CalendarCycle.

### TrafficCycle

One account and several requests. Each request is the sequence of its
transactions and of its reads outside them: take the day, `SELECT`, conditional
`UPDATE`, then its own work (charge, set, sync with a download in between).
`Start(e, d)` is `traffic_reset_info(...)["previous"]`, abstracted to any monotone
function; the two violations use months of three days (MCTrafficCycle). `Edit` and a storing sync
invalidate the snapshots of other syncs; that is all `_sync_snapshot_is_current`
can tell. `upstream` and `synced` are history: which upstream answer is stored.

### CalendarCycle

TrafficCycle on ResetCalendar's dates: one midnight moves both, and `Start` is what
`traffic_reset_info` derives from the date (`StartDay`). The window is 26 February to
2 March 2100, and the account expires on a 31st: its cycle began on 31 January and the
next begins on the 28th. A mistake in the calendar shows as a charge in the wrong month.

### NodeProbes

Leases, the bulk lock, and three kinds of tasks (single check, batch of an
account, monitor) that share `Acquire`, `Probed`, `Save`, `NextWave`, `Finish`.
`Expire` lets a lease run out under a live or a dead task at any time; that is
more than a 20-second lease over an 8-second probe allows, so the safety
properties do not depend on those times. `Crash` releases the lock and leaves the
leases. `Replace` (sync, new account), `BeginDelete`/`DeleteNode` and
`DeleteAccount` change the nodes meanwhile. Ids only grow (AUTOINCREMENT).
Which nodes the monitor lists, and when its budget ends, is any choice here.
`ListAccount` also has the refusal of an account with more than `MAX_CHECK_NODES` nodes;
the instance, whose accounts are small, does not take it, the proofs cover it.
sync-all also holds the bulk lock in the code; leaving it out only lets more
happen. `late` is history.

### ProbeStages

What NodeProbes takes as one result, from the inside: resolve, TCP and TLS to each
address within the entry check's time, then one of two proxy cores over the same
addresses within what is left, then the row, then what `node_health` makes of the
row as it grows old. A tick is the unit of time. A waiting step has a deadline
and `Tick` cannot pass it; steps that do not wait take no time. `Share` is the
rule both stages divide their time by. Rows that earlier releases left are among
the initial states, for `node_health` must not show them as proof. The core is a
foreign program: it proves, refuses or breaks, whatever the node does. `spent`,
`proof` and `open` are history.

### NodeMonitor

The same leases seen by the scheduler: `Listed` is the query of `check_due_nodes`,
`rank` the order of `probe_attempt_at` in whole seconds (`same` says that an
attempt falls into the second of the last one). Single checks, other bulk tasks,
paused accounts, syncs that give a node a new row, and killed tasks come between.
A stale item is a lease on a row that is gone.

### Services

Every handler of `customer_services` and `service_renewals` and the import script
is one transaction and so one action. What overlaps is the administrator: `page` is
an open detail page, and `Edit` and `Renew` may be sent from it later (`Shown`).
`State` is `customer_service_state`; `Served`, `ExpiredCount`, `DueCount` and
`ServiceCount` are the SQL of the public link, the dashboard and the lists, written
separately as in the code, so that the properties compare them. `Import` folds
the records of a file (`Loaded`); a failing record leaves everything as it was. `AccountRow` and
`ServiceRow` are the rows of the two tables.

### Startup, RateLimit, AdminLogin

`Startup` is how a process comes up: `_read_or_create_private_file` for the
secret and for the first password, `get_initial_admin_credentials`, and
`apply_schema_migrations` with its one transaction, each access a step, each
process killed at any time. `RateLimit` is one bucket and one
address: a request computes its window before it waits for the write lock, and one that waits past
the window's end takes the row back to an older window and so forgets the newer count. `crossed`
(history) holds the windows this concerns; `AttemptsInOrder` is the limit for all others. `AdminLogin`
extends both with requests: login with its conditional hash upgrade, sessions,
logout, and the change of the password. Sessions are cookies, so they survive the
processes. The path where `ANYTLS_ADMIN_PASS` gives the first password is left
out: there no file is read or made.

### SubscriptionExport

`prepare_subscription` as operators over names that are short sequences of
symbols: selection by keywords, resolution of `dialer-proxy` chains, renaming, unique names.
What a rule looks for, and the suffix that makes a name unique, are one symbol each. The
actions are the changes between two fetches; those that could make the
rules inapplicable are checked in their transaction, as the handlers do.
The loops over nodes and along chains are recursive functions of the turn; `Turns` bounds a chain by the
nodes there are. `Complete`, the least set that has the nodes without a dialer and what is dialed through
one of its nodes alone, is the reference `ChainsKept` compares the walks with.

### DailyBackup

`create_backup` with one action per command that changes a file, `verify_backup` and
`rotate_backups` inside it, by overlapping runs over a database in service. `Fail` is
the trap, `Kill` leaves what is there. `Move` may leave a damaged archive behind, for
that is what the verification is for. The secrets are packed with the database and
are not told apart from it. `done` is history.

### Deployment

`Program` has the steps of `main`, `delayed_rollback` and `rollback_deployment` in
order, and each step is an action. What handles a failure is apart: `Fails` is
`fail`, `Interrupted` the traps on ERR and signals, `StepFails` is `rollback_step`,
`Exit` the trap on EXIT, `Killed` a kill without traps; `Partly` is the middle of a
step that copies or removes. A tree of files is one value (a release, `None`, `Torn`);
`disk` is what is installed, `dirs` the rollback directory and the selected snapshot,
`vault` the snapshots, `was` and `flags` the script's variables. systemd, the panel, its
health check and the backup timer run beside the script. `before`, `good` and
`raced` are history; `Window` and `WasSound` name what the properties leave out (see
Not modelled). The script looks only at units that have a file (`Seen`): one that runs
without its file, which a rollback that failed may leave behind, no later rollback can see, and
`Restored` says of the units what holds where the capture met none (`before.stray`).

A panel is not only up or down. One whose start fails is `Failing`: systemd tries again every five
seconds, so that it is "active" while it tries and "activating" in between. One that the health check
restarts is `Restarting`: it goes down first, and the job that starts it again (`PanelRestarts`) is
systemd's and outlives the check (`HealthCheckRecovers`, `HealthCheckReturns`). `capture_systemd_unit_state` refuses a
panel between two states and takes one that is just trying for a running one (`Capture`, `Refused`).
`stop_service_for_update` (deploy.sh:669-678) asks `systemctl is-active` first: it stops a panel that
is active (`StopUnit`) and passes over one that is activating or deactivating (`MissPanel`,
`before.missed`), which may come up later in the cutover. `PanelStaysDown` is about panels that were not missed;
`ServiceStopped` is about all and fails, see Disagreements. `Promised` says which acknowledged writes the
rollback has to keep.

## Runs

| Run | Instance | Shows |
|---|---|---|
| `TrafficCounter` | 1 collector that starts legacy, 2 processes, 2 numbers, 2 requests in flight, 2 bytes, 2 accounts with one password, 1 byte as largest total | `NoOverbilling`, `NothingLost`, `TakenOnce`, the ledger is implemented, in a mixed history with reboots, deletions and moving passwords |
| `TrafficCycle_month` (CalendarCycle) | 2 requests, 5 days, an expiry on a 31st, 2 upstream moves | `CycleIsPresent`, `ResetOnlyWhenDue`, `ChargedInItsMonth`, `SyncsInOrder` |
| `NodeProbes` | 3 ids, 1 account, 2 configurations, 2 tasks, waves of 2 (account) and 1 (monitor), cap 2 | who may probe, what is stored, what is counted |
| `ProbeStages` | 2 nodes, 1 core, 2 addresses, 8 seconds as 3 ticks, entry check 2 | `GreenIsProved`, `FailureIsConclusive`, `EndsInTime` |
| `NodeMonitor` | 3 nodes, 2 per run, waves of 1, cap 2, 2 mishaps | every node's turn, no mark for ever (liveness) |
| `Services` | 2 accounts, 1 customer, 3 days, 2 services, 3 links, 2 renewals, import of 1 | links, pages, renewals, revocation, deletion |
| `AdminLogin` | 2 processes, 2 requests, 3 windows of 2 attempts, 2 migrations, 3 random values | sessions, passwords, files, migrations, limit (`AttemptsInOrder`) |
| `SubscriptionExport` | up to 3 stored nodes, 2 rules of 4 texts, 1 keyword, a sync of up to 1 node | names, chains, rules that stay applicable |
| `Deployment` | up to 3 scripts on an empty or installed host, 1 write, 2 snapshots kept, a schema change, 2 failed health checks make a recovery; 2 faults and 1 kill in the first script, 1 of either over several | `Restored`, `OldReleaseKept`, `PanelStaysDown`, `LatestUsable` |
| `DailyBackup` | 2 runs, 4 seconds, 2 writes, 2 archives kept | `latest` verified and current, rotation |
| `TrafficCycle_expiry` | 2 requests, 5 days in months of three, 2 reset days | violation, see below |
| `TrafficCycle_set` | the same, 1 reset day | violation, see below |

Why the bounds are enough: a late sample needs two in flight, one to
overtake the other; a reboot with a number already used needs two numbers; an
overlap needs two processes or requests; a row of the limiter that is taken back needs two windows, and a third
to have one that it does not concern; a wrong reset needs one month's end and a
charge on each side of it; a replaced node that keeps its health needs an old id
and a new one, and a third to be checked next to it. A late result needs two
tasks and one lease that ran out. A divided time limit needs two addresses and
an odd limit; a full slot needs two nodes. A monitor's order needs one node more than a
run takes, and one wave more than the budget holds. A second renewal from an
old page needs the page, two renewals and two days; a revoked link that comes
back needs two services or three links. Names that collide through a number need
three nodes. A change of the password that races needs two requests, a start that
races two processes. A rollback that is interrupted and repeated needs two faults; a snapshot
that rotation takes needs three scripts, and so does going back to a release with another
schema. Two overlapping backups need two runs, and three archives of which two are
kept need four seconds. Larger instances passed as well and are not part of the runs because of
their time: Deployment with the code's threshold of 3, with two faults over two scripts, and
with three faults over two scripts without writes; TrafficCounter with three numbers, three requests
and four bytes for a collector that has one account; ResetCalendar over 2096-2104 for all 31 days.
Each run's properties were also tried against a mutated
definition (operators marked "Mutant") and fail there.

Bounds that are state constraints, not guards: `MaxSeen`, `MaxGone`, `MaxNet` and `MaxBusy`
(TrafficCounter: with both accounts alive one request is in flight, with one account
two, and no script reads while `MaxNet` requests are), `Bounded` of MCDeployment (after the first script one
fault or kill in all; in the third script the health check restarts no panel that runs), `Bounded` of
MCAdminLogin (once the last random value is drawn, requests come one
after the other; in the last window they go no further than the limiter and the row they read), `OneStored` (ProbeStages: nodes meet in the slots only; while both are probed, one
has no stored result) and `FewChanges` (Services: at most `MaxChanges` links, renewals,
marks, days and changed accounts together; states with more are checked but not
followed). `MaxMishaps` bounds killed tasks and replaced rows in NodeMonitor: a sync
inside every single probe of a node would drop its results for ever, so liveness is
claimed for what follows the last of them. The others are guards: `MaxRuns`, `MaxFaults`,
`MaxKills` and `MaxWrites` (Deployment), `MaxTime` and `MaxWrites` (DailyBackup), and the
bounds the table gives.

Symmetry is used for processes, accounts, requests, tasks, backup runs, configurations and
nodes, where the specifications treat them alike, and only with safety
properties; NodeMonitor has none.

`CHECK_DEADLOCK FALSE` everywhere: the bounded instances stop at their last
number, day or id, and the system itself may rest when nobody calls.

Fairness is assumed in NodeMonitor only. Weak fairness of `Monitor`, `EndCheck` and
`BulkEnds`: a running task takes its next step, because every wait in a probe has a
time limit and bulk tasks have a time budget. Weak fairness of `Expire`: a lease
of a killed task is older than its 20 seconds at some time. Strong fairness of `Start`:
`install-monitor.sh` (54-73) sets a timer of 60 seconds, and other holders of
the lock come and go. No fairness is assumed of single checks, bulk tasks, syncs and
pauses. Elsewhere no scheduler in the code promises that a request or a cron
run comes, so nothing is said about what eventually happens there.

## Disagreements

`TrafficCycle_expiry` (`SyncedTrafficKept`). `apply_due_traffic_resets` reads
all rows, then updates under a condition on `last_traffic_reset_on`
only. A request reads the old reset day; a sync stores a new day with the
cycle that day implies, which may be earlier than the old day's cycle; the request's
update finds an "older" marker and zeroes what was just synced. CHANGELOG.md:67
says that this cannot happen.

`TrafficCycle_set` (`OldCycleRefused`). `/api/traffic/set` takes `today` before
it locks. Over midnight, with another request doing the reset in between, a total
of the old cycle is accepted into the new one. docs/API.md:115 says that such
samples get 409.

The following five TLC finds in Deployment and AdminLogin; they are not among the runs of
`PROJECT.json`, and each has its `.cfg` (`tlc -config Deployment_retry.cfg MCDeployment`,
`tlc -config AdminLogin_limit.cfg MCAdminLogin`).

`AdminLogin_limit` (`AttemptsWithinLimit`). `_consume` (sqlite_rate_limit.py:10) computes its window
before `BEGIN IMMEDIATE` (12). A request that gets the lock only in the next window finds a row of
another window, replaces it and starts counting at 1, and the next request of the new window does the same:
the requests the new window had admitted are forgotten. With a limit of 2 TLC finds 3 admitted; one such request is
enough for twice the limit. docs/API.md:43 says, of the traffic interfaces, which use the same
function, 60 a minute and then 429. `AttemptsInOrder` in the run is what does hold.

`Deployment_stopped` (`ServiceStopped`). docs/OPERATIONS.md:246 and docs/ARCHITECTURE.md:97 say that
the service is stopped for the switch. TLC needs no failure: the health check's third failed probe
makes it restart the panel; `begin_cutover` stops the check (782), not the job it has queued; the panel
is "deactivating", `stop_service_for_update` (671) does not stop it, and it comes up and serves
while its database is copied. What it acknowledges after the copy is lost if the deployment is
rolled back. A panel that keeps failing and is "activating" at that moment is passed over in the same way.

`Deployment_retry` (`RetryPossible`). A first deployment that fails after
`prepare_state_directory` is rolled back: the marker goes, `data` stays, and the next
run's `validate_install_target` (281) refuses the directory. docs/OPERATIONS.md:246
says that any failing step restores what was there.

`Deployment_kept` (`SnapshotsKept`). A snapshot whose copy is interrupted stays as a
directory without checksums, and `rotate_persistent_backups` (841) counts names: after
the next success one usable snapshot is left. docs/OPERATIONS.md:246 says two.

`Deployment_recovery` (`RestoredPanelRuns`). `begin_cutover` stops the health check's timer
and service (781-782), `rollback_deployment` (1043) the timer only. A check that is
running restarts the panel inside the rollback; the later `systemctl start` finds it
active, and the new code runs on over the old files, in a rollback that reports success.

The first two and the limiter's need two requests within one short window, the four of
Deployment a failing or unlucky deployment. All are left as they are in the model because the code is.

## Proofs

`TrafficCounter_proof` proves for any collectors, processes, accounts, bounds and
burst sizes (the only assumptions are `CounterAssumption`): `TypeCorrect`,
`InvCorrect`, `NeverOverbills`, `LosesNothing`, `TakesOnce`, `LedgerImplemented`.

The argument. `NoOverbilling` is not inductive: it says nothing of requests in
flight or of processes that have read but not sent. `Inv` adds what it rests on:
the lock admits one sampling process (`LockInv`); what that process has read is
not above the counters and its number is the file's (`ProcessInv`); of two
requests the lower number was read first, and whatever a process will send comes
after everything sent (`NetInv`); the same between the stored row and the rest
(`RowInv`); the charges stay below the last reading taken (`BillInv`). "Read first"
is `Precedes`: in one boot a lower counter, across boots a total not above the
later base. Its two uses are that a counter difference within a boot is traffic,
and that after a reboot the whole counter is. Each action has a lemma per part it
can disturb. `LedgerImplemented` maps each action to a ledger step or a stutter.

`CalendarCycle_proof` has three parts. Of ResetCalendar it proves `CycleCorrect` and
`CountdownCorrect` for every range of years and every day of the month, from the lengths of months
(28 to 31) and the order of dates; `TrafficCycle_month` covers one turn of the month only.
Of TrafficCycle it proves `TypeCorrect` and `SyncsOrdered` from `CycleAssumption`
alone; for the second, a sync that may still store has an answer not older than the
stored one (`SyncInv`). `ResetsDue` and `ChargedRight` hold for one reset day and an
upstream that always tells its traffic (`FixedCycle`); the finding
`TrafficCycle_expiry` shows that less is promised without. The invariant
(`CycleInv`) relates each request to the row: one that is about to reset knows the
row's reset day, and if it sees no need the row has entered the request's month; one past its reset
works on a row of its month or a later one. So a reset's `UPDATE` condition is true
only while the reset is due. `Start` is known only to be monotone in the day and
not after it. That is what the third part shows of the calendar's `StartDay`: so every step of the
composition is one of TrafficCycle, and `ComposedSyncs`, `ComposedCharged` and `ComposedResets`
carry the properties over to real dates, the specification the run checks.

`Subscriptions_proof` has two parts. Of Services it proves the run's six properties from
`ServicesAssumption`: `LinkMatchesState`, `PagesAgree`, `RenewalLedger`, `PausedStaysPaused`,
`CustomersKept`, `RevokedStaysRevoked`. The invariant `Inv` (`InvCorrect`): ids are given out in
order; a link is below `nextToken` and belongs to one service or account (`Links`), so the rows that
a link finds are one row, and what is in no row is below `nextToken` and never drawn again; a
service's renewals follow each other up to its expiry (`Booked`). The import is a fold over a file
of any length. The library's induction theorems take an operator as a parameter, so `SetInduction`
uses the least number that is not in a set of positions instead: `ImportFold` gives a sequence of
intermediate tables, and what a record keeps the file keeps (`ImportGrows`). The invariants are
predicates over such tables, not over the variables.

Of SubscriptionExport it proves the run's three properties from `ExportAssumption`, for any symbols, texts,
limits and lists of nodes. The states are simple (`ExportTypeOK`); the work is in the loops, each a recursive
function of the turn, which exists because its turns are maps of one set (`Iterates`) and whose every value
has what a turn keeps (`ListInduction`). Names (`Named`): the names given so far are different, free of the
client's own and not too long, and one that is not its node's desired name is no other node's either; a
free number is found by the pigeonhole principle (`FreeNumber`), and the numbers make different names
because a suffix ends in its number. Chains: a walk stays inside every closed set that has what it began with
(`WalkStays`), so nothing is valid that is not `Complete`; a walk that fails leaves a set of nodes none of
which is direct and whose dialers are among them (`Dead`, `Walked`), so what it leaves out is not complete;
and it ends, as each turn adds a node to the chain (`WalkEnds`). `Complete` has with a node its dialer
(`CompleteClosed`), or the set without that node would be a smaller one.

`AdminLogin_proof` proves all five properties of the run for any number of
processes, requests, passwords, migrations and windows (`StartupAssumption`,
`LimitAssumption`). Files: a process about to write a file is the only one, the file is
still empty and nobody has a key (`KeyInv`, `PasswordInv`). Migrations: whoever
migrates holds the write lock and has a list of exactly what is missing
(`MigrationInv`). Sessions and passwords: a request that has read the row has shown
its password, versions only grow, and while the version is the one it read the password is too
(`SessionInv`). Limiter: of the windows in which no
request took the row back (`crossed`), those newer than the row's are untouched, the row's own has admitted no
more than the row counts, and older ones no more than the limit (`LimitInv`); what a setback
does to the others is `AttemptsWithinLimit` under Disagreements, which nothing proves.

`ProbeStages_proof` proves the run's three properties for any nodes, slots,
addresses and time limits (`StageAssumption`). The deadlines of a probe lie inside each
other, and what is left of the outermost makes up for what is spent (`Nested`);
as long as more addresses follow, the present one cannot use up the entry check's
time, and a verdict over the node leaves no address open (`Covered`); a stored
proof is no older than the result that tells of it (`Stored`). The arithmetic
all rests on `ShareFits`: a part of a budget fits into it, and leaves some when more
are to follow.

`NodeProbes_proof` proves types and all six properties of the run for any ids, accounts, tasks,
configurations, waves and limits (`ProbeAssumption`), with leases that may expire at any
time. A task lists a node once and takes it once (`Shape`); a probe that is not late has a live
lease under its task's name, and its row, if there still is one, says "pending"; one that is
late never gets the lease back (`Held`). So two probes that are not late cannot share a node, a late
result finds no lease of its own, and probes map one to one into the live leases,
which `LeaseInv` bounds. Ids only grow and a result stays with its configuration (`RowInv`), so what a sync
copies to a new row is evidence of the same configuration. Whoever is about to
delete a row has read the row's account (`Doomed`), so the count that goes down is
the right one (`CountInv`).

`DailyBackup_proof` proves its invariant and the run's three properties for any number of runs and any
retention of at least two (`BackupAssumption`). The lock admits one run (`Locked`), which works
under the newest name there is and began no earlier than the last success (`Placed`); it
names its archive only when that is verified, and with two archives kept rotation
never takes the newest. From this `LatestVerifies` and `LatestCurrent` are kept by every step.

`Deployment_proof` proves types and the run's four properties for any releases, retention,
threshold and number of scripts, failures and kills (`DeploymentAssumption`). Three tables say which step
is where in the three programs (`UpdateAt`, `RollbackAt`, `UndoAt`), and the rest of the argument is about
positions. Past each stop of the cutover what it stopped stays stopped, because what could start it again
has been stopped before: the timer before its service, both services before the panel (`Quiet`). `PanelDown`
says so of a panel that was active or stopped when the script asked; of one that it missed nothing is claimed. Past the
copy of a snapshot that one is the last; it gets its checksums before `latest` goes to it, and rotation
keeps the last ones (`Stored`). The snapshot selected by a delayed rollback, and the release a
migration needs, are there when a step reads them (`Typed`).
`OldReleaseKept` says where the replaced release still is, and that moves: it is installed until
the cutover copies it, then in the rollback directory, and an undo brings it back. `Keeps` says it for every
position (`Placed`, `DbKept`, `CodeKept`), and what makes it last: a script's own database is not older than
what it took over and its schema only goes up (`Aged`, `NewDb`),
and an empty host's rollback directory holds nothing (`EmptyLeft`). The property uses `GoodDb`, which asks first
whether there is a database at all; `DeploymentAssumption` says that `None` and `Torn` are none.

`Restored` speaks of the last state of a rollback and of the capture long before it. Its invariant `Restores`
follows a value on its way. Until a tree is saved it is still installed, from then on it is in the rollback
directory, and past the step that copies it back it is installed again unless the rollback has noted a
failure (`CodeBack`, `DbBack`, `FilesBack`). That a step is past and nothing failed is `Done(k)`; the last
step reports success only if nothing failed at all, and a second attempt begins with none done. For the units: what
was captured is what the script holds (`Held`, also after a switch to the selected snapshot), a unit without
a file neither runs nor is enabled (`Strays`), what the rollback has stopped stays down until it
restores it (`Downs`), and then runs and is enabled as it was (`Ups`). The rest is what the steps need of the
host: `Marked` (the cutover flag against the position), `Known` and `Snaps` (a snapshot was taken of a host
with a marker, and has a database unless there was none), `Older`, `CaddyThere`, `ConfNew`. The argument
uses `DiskOn`, `ShellOn`, `BeforeOn`, `SysdOn`, `UnitsOn` and `StoreOn`, which say for each
variable which steps may change it; each is one lemma over all of `Next`. TLC checked `Restores` on the
run's instance before it was proved. The proof also corrected the model, which had noted and stopped units that
the code passes over (`Seen`, `StopUnit`, `KeptDown`, `Lacking`); TLC then refutes `Restored` without its
condition `~before.stray`.

Only model-checked: NodeMonitor, whose properties are liveness under fairness, out of the prover's reach.

## Not modelled

- Protocol codecs (`protocol_codecs.py`): data without state, as are the pages and the limits of the inputs.
- Release check (`panel_updates.py`): one cached answer under one mutex.
- Deployment: the preparation before the cutover, which writes only its own staging directory (but
  for Caddy, `EnsureCaddy`); installations of releases without a marker; the Caddy branch of the health
  check, which touches nothing the rollback restores but Caddy's process; the monitor's timer, which systemd
  stops and starts with the panel (`BindsTo`, install-monitor.sh:61); a `systemctl stop` that
  fails unnoticed; a unit that changes its state while the states are captured (`Capture` is one step);
  a panel that answers requests while it goes down (they count as before it); `daemon-reload`, as if systemd knew of a unit's file at once; symlinks; data a power failure takes back; `install-release.sh` (download and signature)
  and `uninstall.sh`.
- What `Window`, `Promised` and `WasSound` leave out of Restored and OldReleaseKept: writes the panel
  acknowledges between its restart by a rollback and the end of that rollback, when it is begun again; writes of a
  panel that the cutover missed, once its database is copied or its code replaced; a signal between
  `ROLLBACK_DIR="$selected_copy"` and `load_rollback_metadata`, which restores the snapshot under the present host's
  variables; an installation whose database was gone before the deployment; and one that an earlier kill left
  with code above an older schema, which any unit that starts it migrates.
- Backup: rotation that is killed between an archive and its `.sha256` file (`Rotate` removes both); a clock that is set back; `--list` and `--verify`, which only read.
- The download of a sync and the waves of sync-all: they repeat the single sync that
  TrafficCycle and NodeProbes have, and hold the bulk lock that NodeMonitor calls a task.
- The pruned traffic log: nothing reads it to decide.
- The end of a core's process, which `run_core` (proxy_verifier.py:141-150) waits for, up to 1.5 seconds past the time limit.
- A proxy core that runs on after its task was killed: ProbeStages counts tasks.
- `ANYTLS_ADMIN_PASS`; token signing and password hashing (a hash is the password and whether it is of the old kind).

## Plan

Done: everything above. Left, in this order:

1. The batch report's items and the log, with the retry that charges twice.
2. The legacy installation and `uninstall.sh` in Deployment.
