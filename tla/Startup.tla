------------------------------- MODULE Startup -------------------------------
(***************************************************************************)
(* How a panel process comes up: the secret key, the first administrator   *)
(* and the migrations of the database. Several processes may start at      *)
(* once (workers, a deployment's check, a restart), and each may be killed *)
(* between any two steps.                                                  *)
(*                                                                         *)
(* A step is one access to a private file, one SQLite transaction, or one  *)
(* migration inside the transaction that runs them all.                    *)
(***************************************************************************)
EXTENDS Naturals

CONSTANTS
  Procs,
  NoProc,         \* no process holds SQLite's write lock
  MaxValue,       \* random values drawn in a run (never the same twice)
  MaxMigration,   \* SCHEMA_VERSION
  Chosen,         \* passwords an administrator chooses
  NoPassword,
  NoAdmin         \* admin_users is empty

Values == 1 .. MaxValue
Files == {"secret", "password"}

\* A private file that does not exist, and one created but not yet written.
Absent == 0
Empty == MaxValue + 1

VARIABLES
  file,       \* contents of the private files
  nextValue,  \* the value the next random draw gives
  proc,       \* the processes
  admin,      \* the row of admin_users
  applied,    \* schema_migrations holds 1 .. applied
  ran,        \* history: how often the effect of a migration was committed
  writer      \* who holds the write lock with migrations under way

startVars == <<file, nextValue, proc, admin, applied, ran, writer>>

Passwords == Values \cup Chosen

\* The hash, by what tells two hashes apart, and session_version.
Admin == [password : Passwords, legacy : BOOLEAN, version : Nat]

ASSUME StartupAssumption ==
  /\ NoProc \notin Procs
  /\ MaxValue \in Nat /\ MaxMigration \in Nat
  /\ Chosen \cap (0 .. MaxValue + 1) = {}
  /\ NoAdmin \notin Admin

\* pc: the next step; key: app.secret_key; value: drawn for the file being
\* made, or read from it; todo: the migrations this run still applies.
PC == {"off", "readKey", "makeKey", "writeKey", "pollKey", "count",
       "readPass", "makePass", "writePass", "pollPass", "insert",
       "begin", "migrate", "ready"}
Proc == [pc : PC, key : Values \cup {Absent}, value : Values \cup {Absent},
         todo : SUBSET (1 .. MaxMigration)]

Off == [pc |-> "off", key |-> Absent, value |-> Absent, todo |-> {}]

\* A new installation, or an older release's: its schema and its unsalted hash.
StartInit ==
  /\ file = [f \in Files |-> Absent]
  /\ nextValue = 1
  /\ proc = [p \in Procs |-> Off]
  /\ \/ admin = NoAdmin /\ applied = 0
     \/ \E w \in Chosen : /\ admin = [password |-> w, legacy |-> TRUE, version |-> 1]
                          /\ applied \in 0 .. MaxMigration
  /\ ran = [v \in 1 .. MaxMigration |-> IF v <= applied THEN 1 ELSE 0]
  /\ writer = NoProc

Ready == {p \in Procs : proc[p].pc = "ready"}
Go(p, pc) == proc' = [proc EXCEPT ![p].pc = pc]

-----------------------------------------------------------------------------
(* _read_or_create_private_file, for the key and for the password.         *)

\* Where a file's steps go on when the value is known.
Known(p, f, v) ==
  proc' = [proc EXCEPT ![p] =
             IF f = "secret" THEN [@ EXCEPT !.pc = "count", !.key = v, !.value = Absent]
             ELSE [@ EXCEPT !.pc = "insert", !.value = v]]

Step(f, what) ==
  CASE f = "secret"   /\ what = "read"  -> "readKey"
    [] f = "secret"   /\ what = "make"  -> "makeKey"
    [] f = "secret"   /\ what = "write" -> "writeKey"
    [] f = "secret"   /\ what = "poll"  -> "pollKey"
    [] f = "password" /\ what = "read"  -> "readPass"
    [] f = "password" /\ what = "make"  -> "makePass"
    [] f = "password" /\ what = "write" -> "writePass"
    [] f = "password" /\ what = "poll"  -> "pollPass"

\* The file's text if it has any, otherwise a new random value.
ReadFile(p, f) ==
  /\ proc[p].pc = Step(f, "read")
  /\ IF file[f] \in Values
       THEN Known(p, f, file[f]) /\ UNCHANGED nextValue
       ELSE /\ nextValue <= MaxValue
            /\ nextValue' = nextValue + 1
            /\ proc' = [proc EXCEPT ![p] = [@ EXCEPT !.pc = Step(f, "make"), !.value = nextValue]]
  /\ UNCHANGED <<file, admin, applied, ran, writer>>

\* Mutant of MakeFile: whoever comes second truncates the file.
MakeFileAlways(p, f) ==
  /\ proc[p].pc = Step(f, "make")
  /\ file' = [file EXCEPT ![f] = Empty]
  /\ Go(p, Step(f, "write"))
  /\ UNCHANGED <<nextValue, admin, applied, ran, writer>>

\* O_CREAT | O_EXCL: one process makes the file, the others wait for its text.
MakeFile(p, f) ==
  /\ proc[p].pc = Step(f, "make")
  /\ IF file[f] = Absent
       THEN file' = [file EXCEPT ![f] = Empty] /\ Go(p, Step(f, "write"))
       ELSE Go(p, Step(f, "poll")) /\ UNCHANGED file
  /\ UNCHANGED <<nextValue, admin, applied, ran, writer>>

WriteFile(p, f) ==
  /\ proc[p].pc = Step(f, "write")
  /\ file' = IF file[f] = Absent THEN file ELSE [file EXCEPT ![f] = proc[p].value]
  /\ Known(p, f, proc[p].value)
  /\ UNCHANGED <<nextValue, admin, applied, ran, writer>>

PollFile(p, f) ==
  /\ proc[p].pc = Step(f, "poll")
  /\ file[f] \in Values
  /\ Known(p, f, file[f])
  /\ UNCHANGED <<file, nextValue, admin, applied, ran, writer>>

\* A file that stays empty, because its maker was killed or is slower than a
\* second, or that is gone: OSError ends the process.
GiveUp(p, f) ==
  /\ proc[p].pc = Step(f, "poll")
  /\ file[f] \notin Values
  /\ proc' = [proc EXCEPT ![p] = Off]
  /\ UNCHANGED <<file, nextValue, admin, applied, ran, writer>>

-----------------------------------------------------------------------------
(* init_db and apply_schema_migrations.                                    *)

Launch(p) ==
  /\ proc[p].pc = "off"
  /\ Go(p, "readKey")
  /\ UNCHANGED <<file, nextValue, admin, applied, ran, writer>>

CountAdmins(p) ==
  /\ proc[p].pc = "count"
  /\ Go(p, IF admin = NoAdmin THEN "readPass" ELSE "begin")
  /\ UNCHANGED <<file, nextValue, admin, applied, ran, writer>>

\* INSERT OR IGNORE: an administrator of that name may be there by now.
InsertAdmin(p) ==
  /\ proc[p].pc = "insert"
  /\ writer = NoProc
  /\ admin' = IF admin # NoAdmin THEN admin
              ELSE [password |-> proc[p].value, legacy |-> FALSE, version |-> 1]
  /\ proc' = [proc EXCEPT ![p] = [@ EXCEPT !.pc = "begin", !.value = Absent]]
  /\ UNCHANGED <<file, nextValue, applied, ran, writer>>

\* Mutant of Missing: every migration runs at every start.
MissingAll == 1 .. MaxMigration

Missing == applied + 1 .. MaxMigration

\* BEGIN IMMEDIATE, then which versions are missing.
BeginMigrations(p) ==
  /\ proc[p].pc = "begin"
  /\ writer = NoProc
  /\ writer' = p
  /\ proc' = [proc EXCEPT ![p] = [@ EXCEPT !.pc = "migrate", !.todo = Missing]]
  /\ UNCHANGED <<file, nextValue, admin, applied, ran>>

\* All of them in one transaction, visible with its commit.
CommitMigrations(p) ==
  /\ proc[p].pc = "migrate"
  /\ applied' = MaxMigration
  /\ ran' = [v \in 1 .. MaxMigration |-> IF v \in proc[p].todo THEN ran[v] + 1 ELSE ran[v]]
  /\ writer' = NoProc
  /\ proc' = [proc EXCEPT ![p] = [@ EXCEPT !.pc = "ready", !.todo = {}]]
  /\ UNCHANGED <<file, nextValue, admin>>

\* A failing or killed process: SQLite takes its open transaction back.
Killed(p) ==
  /\ proc[p].pc # "off"
  /\ writer' = IF writer = p THEN NoProc ELSE writer
  /\ proc' = [proc EXCEPT ![p] = Off]
  /\ UNCHANGED <<file, nextValue, admin, applied, ran>>

StartNext(p) ==
  \/ Launch(p) \/ CountAdmins(p) \/ InsertAdmin(p)
  \/ BeginMigrations(p) \/ CommitMigrations(p)
  \/ \E f \in Files : ReadFile(p, f) \/ MakeFile(p, f) \/ WriteFile(p, f)
                      \/ PollFile(p, f) \/ GiveUp(p, f)
=============================================================================
