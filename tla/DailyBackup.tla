------------------------------ MODULE DailyBackup ------------------------------
(***************************************************************************)
(* backup.sh: create_backup, run by the daily timer and by hand at any     *)
(* time, on a database in service. A run copies the database, packs it     *)
(* into a hidden file, moves that to its name, adds the checksum, verifies *)
(* both, writes the name to latest and removes the oldest archives. Any    *)
(* step may fail, and a run may be killed between any two.                 *)
(*                                                                         *)
(* A name is the second it was made in; the clock does not go back.        *)
(***************************************************************************)
EXTENDS Naturals, FiniteSets

CONSTANTS
  Procs,             \* the runs that may overlap
  Keep,              \* RETENTION_COUNT
  MaxTime, MaxWrites \* seconds and writes of the database

ASSUME BackupAssumption ==
  /\ Keep \in Nat /\ Keep >= 2
  /\ MaxTime \in Nat /\ MaxWrites \in Nat

VARIABLES
  db,      \* what the database holds: the number of its writes
  now,     \* the clock
  pc,      \* the step of every run
  own,     \* of every run: its archive's name, and what it read at its start and copied
  lock,    \* who holds .backup.lock: nobody or one run
  partial, \* names of .backup-*.partial files
  kept,    \* names of the archives
  holds,   \* what the archive of each name has, or had
  intact,  \* names whose file is good
  summed,  \* names with a .sha256 file
  latest,  \* the name in the file latest; 0 while it is empty
  done     \* history: what the database held when the last successful run began

vars == <<db, now, pc, own, lock, partial, kept, holds, intact, summed, latest, done>>
files == <<kept, holds, intact, summed, latest>>

Times == 1..MaxTime
Values == 0..MaxWrites
Steps == {"idle", "copy", "pack", "move", "sum", "verify", "empty", "write", "rotate"}

Init ==
  /\ db = 0 /\ now = 1
  /\ pc = [p \in Procs |-> "idle"]
  /\ own = [p \in Procs |-> [name |-> 0, start |-> 0, copy |-> 0]]
  /\ lock = {} /\ partial = {} /\ kept = {} /\ intact = {} /\ summed = {}
  /\ holds = [t \in Times |-> 0]
  /\ latest = 0 /\ done = 0

-----------------------------------------------------------------------------
Write ==
  /\ db < MaxWrites /\ db' = db + 1
  /\ UNCHANGED <<now, pc, own, lock, partial, done>> /\ UNCHANGED files

Tick ==
  /\ now < MaxTime /\ now' = now + 1
  /\ UNCHANGED <<db, pc, own, lock, partial, done>> /\ UNCHANGED files

To(p, step) == pc' = [pc EXCEPT ![p] = step]

\* Mutant of Begin: a run that finds the lock taken goes on.
BeginUnlocked(p) ==
  /\ pc[p] = "idle"
  /\ now \notin kept \cup partial /\ now \in Times
  /\ lock' = {p}
  /\ own' = [own EXCEPT ![p] = [name |-> now, start |-> db, copy |-> 0]]
  /\ To(p, "copy")
  /\ UNCHANGED <<db, now, partial, done>> /\ UNCHANGED files

\* flock -n, and a name nothing has yet; otherwise the run ends at once.
Begin(p) ==
  /\ pc[p] = "idle" /\ lock = {}
  /\ now \notin kept \cup partial /\ now \in Times
  /\ lock' = {p}
  /\ own' = [own EXCEPT ![p] = [name |-> now, start |-> db, copy |-> 0]]
  /\ To(p, "copy")
  /\ UNCHANGED <<db, now, partial, done>> /\ UNCHANGED files

\* SQLite's backup: one consistent state of a database that is being written.
Copy(p) ==
  /\ pc[p] = "copy" /\ To(p, "pack")
  /\ own' = [own EXCEPT ![p].copy = db]
  /\ UNCHANGED <<db, now, lock, partial, done>> /\ UNCHANGED files

Pack(p) ==
  /\ pc[p] = "pack" /\ To(p, "move")
  /\ partial' = partial \cup {own[p].name}
  /\ UNCHANGED <<db, now, own, lock, done>> /\ UNCHANGED files

\* mv: the archive has its name, whole or as a failing disk has left it.
Move(p) ==
  /\ pc[p] = "move" /\ To(p, "sum")
  /\ LET n == own[p].name
     IN /\ partial' = partial \ {n}
        /\ kept' = kept \cup {n}
        /\ holds' = [holds EXCEPT ![n] = own[p].copy]
        /\ intact' \in {intact \cup {n}, intact \ {n}}
  /\ UNCHANGED <<db, now, own, lock, summed, latest, done>>

Sum(p) ==
  /\ pc[p] = "sum" /\ To(p, "verify")
  /\ summed' = summed \cup {own[p].name}
  /\ UNCHANGED <<db, now, own, lock, partial, kept, holds, intact, latest, done>>

Verified(n) == n \in kept \cap summed \cap intact

\* Mutant of Verify: a verification that fails is logged only.
VerifyLogged(p) ==
  /\ pc[p] = "verify" /\ To(p, "empty")
  /\ UNCHANGED <<db, now, own, lock, partial, done>> /\ UNCHANGED files

Verify(p) ==
  /\ pc[p] = "verify" /\ Verified(own[p].name) /\ To(p, "empty")
  /\ UNCHANGED <<db, now, own, lock, partial, done>> /\ UNCHANGED files

\* The redirection empties latest before the name is in it.
Empty(p) ==
  /\ pc[p] = "empty" /\ To(p, "write")
  /\ latest' = 0
  /\ UNCHANGED <<db, now, own, lock, partial, kept, holds, intact, summed, done>>
NameLatest(p) ==
  /\ pc[p] = "write" /\ To(p, "rotate")
  /\ latest' = own[p].name
  /\ UNCHANGED <<db, now, own, lock, partial, kept, holds, intact, summed, done>>

\* Mutant of Oldest: sort -r, as in list_backups.
OldestReversed(n) == n \in kept /\ \A m \in kept : m <= n

Oldest(n) == n \in kept /\ \A m \in kept : n <= m

\* rotate_backups, one archive at a time, its checksum with it.
Rotate(p) ==
  /\ pc[p] = "rotate" /\ Cardinality(kept) > Keep
  /\ \E n \in kept : /\ Oldest(n)
                     /\ kept' = kept \ {n}
                     /\ summed' = summed \ {n}
  /\ UNCHANGED <<db, now, pc, own, lock, partial, holds, intact, latest, done>>

Succeed(p) ==
  /\ pc[p] = "rotate" /\ Cardinality(kept) <= Keep
  /\ To(p, "idle")
  /\ lock' = lock \ {p}
  /\ done' = own[p].start
  /\ UNCHANGED <<db, now, own, partial>> /\ UNCHANGED files

\* A command fails: the trap on EXIT removes the hidden file, nothing else.
Fail(p) ==
  /\ pc[p] # "idle" /\ To(p, "idle")
  /\ lock' = lock \ {p}
  /\ partial' = partial \ {own[p].name}
  /\ UNCHANGED <<db, now, own, done>> /\ UNCHANGED files

Kill(p) ==
  /\ pc[p] # "idle" /\ To(p, "idle")
  /\ lock' = lock \ {p}
  /\ UNCHANGED <<db, now, own, partial, done>> /\ UNCHANGED files

Step(p) ==
  \/ Begin(p) \/ Copy(p) \/ Pack(p) \/ Move(p) \/ Sum(p) \/ Verify(p)
  \/ Empty(p) \/ NameLatest(p) \/ Rotate(p) \/ Succeed(p) \/ Fail(p) \/ Kill(p)

Next == Write \/ Tick \/ \E p \in Procs : Step(p)

Spec == Init /\ [][Next]_vars

-----------------------------------------------------------------------------
(* Properties.                                                             *)

\* Every variable has the values its part of the script can give it.
TypeOK ==
  /\ db \in Values /\ now \in Nat
  /\ pc \in [Procs -> Steps]
  /\ own \in [Procs -> [name : Times \cup {0}, start : Values, copy : Values]]
  /\ lock \in SUBSET Procs
  /\ partial \subseteq Times /\ kept \subseteq Times
  /\ intact \subseteq Times /\ summed \subseteq Times
  /\ holds \in [Times -> Values]
  /\ latest \in Times \cup {0} /\ done \in Values

\* The archive that latest names is there, intact and with its checksum, so that
\* backup.sh --verify latest succeeds, whatever failed or was killed in a later run and
\* its rotation (backup.sh:225-232). Left out is a latest that names nothing: between its
\* truncation and its write, and after a kill there.
LatestVerifies == latest # 0 => Verified(latest)

\* That archive holds everything the database held when the last run that reported
\* success began: no overlapping run puts an older one in its place (backup.sh:164-165).
LatestCurrent == latest # 0 => holds[latest] >= done

\* What makes both so: one run at a time works under its own name, the newest there is,
\* names it only after its verification, and began no earlier than the last success.
Locked == \A p \in Procs : pc[p] # "idle" => lock = {p}
Newest(n) == n \in Times /\ n <= now /\ \A m \in kept : m <= n
Placed(p) ==
  /\ pc[p] # "idle" => Newest(own[p].name) /\ done <= own[p].start /\ own[p].start <= db
  /\ pc[p] \in {"copy", "pack", "move"} => own[p].name \notin kept
  /\ pc[p] \in Steps \ {"idle", "copy"} => own[p].start <= own[p].copy
  /\ pc[p] \in {"sum", "verify", "empty", "write", "rotate"} =>
       own[p].name \in kept /\ holds[own[p].name] = own[p].copy
  /\ pc[p] \in {"empty", "write", "rotate"} => Verified(own[p].name)
  /\ pc[p] = "rotate" => latest = own[p].name
Inv ==
  /\ TypeOK /\ Locked
  /\ done <= db /\ \A n \in kept : n <= now
  /\ \A p \in Procs : Placed(p)
  /\ LatestVerifies /\ LatestCurrent

\* Rotation takes an archive only while RETENTION_COUNT newer ones stay
\* (backup.sh:145-158).
RotationSpares ==
  [][\A n \in kept \ kept' :
       Cardinality({m \in kept' : m > n}) >= Keep]_vars
=============================================================================
