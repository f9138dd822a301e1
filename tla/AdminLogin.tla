----------------------------- MODULE AdminLogin -------------------------------
(***************************************************************************)
(* Logging in, working under a session and changing the password, against  *)
(* panel processes that start and die (Startup) and under the login limit  *)
(* (RateLimit).                                                            *)
(*                                                                         *)
(* A request is a thread of a process that is ready. Its steps are one     *)
(* SQLite statement each, as login and change_password open no transaction *)
(* around their read and their update.                                     *)
(***************************************************************************)
EXTENDS Startup, RateLimit

CONSTANTS
  Requests,
  MaxVersion   \* session_version in a run

VARIABLES
  req,      \* the requests
  session   \* session cookies that browsers still hold

loginVars == <<req, session>>
vars == <<startVars, limitVars, loginVars>>

\* version and key are in the cookie and its signature; password is history:
\* what it was opened with.
Session == [version : 1 .. MaxVersion, key : Values, password : Passwords]

\* at: the process that serves it; password: the one typed in; user: the row
\* it read; window: when it arrived; new: the password it sets, if it does.
ReqPC == {"idle", "consume", "read", "upgrade", "open", "verify", "change", "unlink"}

Unsent == [pc |-> "idle", at |-> NoProc, password |-> NoPassword, new |-> NoPassword,
           user |-> NoAdmin, window |-> 0]

Init ==
  /\ StartInit
  /\ LimitInit
  /\ req = [r \in Requests |-> Unsent]
  /\ session = {}

End(r) == req' = [req EXCEPT ![r] = Unsent]
Key(r) == proc[req[r].at].key
Unlocked == writer = NoProc

-----------------------------------------------------------------------------
(* POST /login.                                                            *)

\* A password is typed in; _consume takes the time before it locks.
BeginLogin(r, p, w) ==
  /\ req[r].pc = "idle"
  /\ p \in Ready
  /\ admin # NoAdmin
  /\ req' = [req EXCEPT ![r] = [Unsent EXCEPT !.pc = "consume", !.at = p, !.password = w,
                                              !.window = clock]]
  /\ UNCHANGED <<startVars, limitVars, session>>

ConsumeLogin(r) ==
  /\ req[r].pc = "consume"
  /\ Unlocked
  /\ Consume(req[r].window)
  /\ IF Admits(req[r].window)
       THEN req' = [req EXCEPT ![r] = [@ EXCEPT !.pc = "read", !.window = 0]]
       ELSE End(r)
  /\ UNCHANGED <<startVars, session>>

\* SELECT and verify_password: an unsalted hash that fits is to be upgraded.
ReadUser(r) ==
  /\ req[r].pc = "read"
  /\ IF admin.password # req[r].password THEN End(r)
     ELSE req' = [req EXCEPT ![r] =
                    [@ EXCEPT !.pc = IF admin.legacy THEN "upgrade" ELSE "open", !.user = admin]]
  /\ UNCHANGED <<startVars, limitVars, session>>

\* Mutant of Unchanged: the row is found by its id alone.
UnchangedId(r) == admin # NoAdmin

\* WHERE id=? AND password_hash=? AND session_version=?
Unchanged(r) == admin = req[r].user

UpgradeHash(r) ==
  /\ req[r].pc = "upgrade"
  /\ Unlocked
  /\ IF Unchanged(r)
       THEN /\ admin' = [admin EXCEPT !.password = req[r].password, !.legacy = FALSE]
            /\ req' = [req EXCEPT ![r].pc = "open"]
       ELSE End(r) /\ UNCHANGED admin
  /\ UNCHANGED <<file, nextValue, proc, applied, ran, writer, limitVars, session>>

\* Mutant of OpenSession: the session gets the version of this moment.
OpenSessionNow(r) ==
  /\ req[r].pc = "open"
  /\ session' = session \cup
       {[version |-> admin.version, key |-> Key(r), password |-> req[r].password]}
  /\ End(r)
  /\ UNCHANGED <<startVars, limitVars>>

\* The session gets the version of the row that was read.
OpenSession(r) ==
  /\ req[r].pc = "open"
  /\ session' = session \cup
       {[version |-> req[r].user.version, key |-> Key(r), password |-> req[r].password]}
  /\ End(r)
  /\ UNCHANGED <<startVars, limitVars>>

-----------------------------------------------------------------------------
(* Behind login_required.                                                  *)

\* The signature fits the process's key, and the version is the row's.
Accepted(s, p) ==
  /\ p \in Ready
  /\ s.key = proc[p].key
  /\ admin # NoAdmin
  /\ s.version = admin.version

\* logout clears this browser's cookie.
Logout(s) ==
  /\ \E p \in Ready : Accepted(s, p)
  /\ session' = session \ {s}
  /\ UNCHANGED <<startVars, limitVars, req>>

\* login_required lets change_password in; old and new password are typed in.
BeginChange(r, p, s, old, new) ==
  /\ req[r].pc = "idle"
  /\ Accepted(s, p)
  /\ req' = [req EXCEPT ![r] = [Unsent EXCEPT !.pc = "verify", !.at = p, !.password = old, !.new = new]]
  /\ UNCHANGED <<startVars, limitVars, session>>

VerifyOld(r) ==
  /\ req[r].pc = "verify"
  /\ IF admin.password # req[r].password THEN End(r)
     ELSE req' = [req EXCEPT ![r] = [@ EXCEPT !.pc = "change", !.user = admin]]
  /\ UNCHANGED <<startVars, limitVars, session>>

\* The new hash and the next session_version, if the row is the one verified.
ChangePassword(r) ==
  /\ req[r].pc = "change"
  /\ Unlocked
  /\ IF Unchanged(r)
       THEN /\ admin.version < MaxVersion
            /\ admin' = [password |-> req[r].new, legacy |-> FALSE, version |-> admin.version + 1]
            /\ req' = [req EXCEPT ![r].pc = "unlink"]
       ELSE End(r) /\ UNCHANGED admin
  /\ UNCHANGED <<file, nextValue, proc, applied, ran, writer, limitVars, session>>

\* The file of the initial password goes, unless the process may not remove it.
UnlinkInitial(r, removed) ==
  /\ req[r].pc = "unlink"
  /\ file' = IF removed THEN [file EXCEPT !["password"] = Absent] ELSE file
  /\ End(r)
  /\ UNCHANGED <<nextValue, proc, admin, applied, ran, writer, limitVars, session>>

-----------------------------------------------------------------------------
\* A killed process takes its requests with it.
Kill(p) ==
  /\ Killed(p)
  /\ req' = [r \in Requests |-> IF req[r].at = p THEN Unsent ELSE req[r]]
  /\ UNCHANGED <<limitVars, session>>

\* Passwords somebody may type in: what the row held, what the file shows, and
\* what an administrator would choose.
Typed == Chosen \cup ({file["password"]} \cap Values)

Next ==
  \/ \E p \in Procs : Kill(p) \/ (StartNext(p) /\ UNCHANGED <<limitVars, loginVars>>)
  \/ NextWindow /\ UNCHANGED <<startVars, loginVars>>
  \/ \E r \in Requests :
       \/ \E p \in Ready, w \in Typed : BeginLogin(r, p, w)
       \/ ConsumeLogin(r) \/ ReadUser(r) \/ UpgradeHash(r) \/ OpenSession(r)
       \/ \E p \in Ready, s \in session, old \in Typed, new \in Chosen : BeginChange(r, p, s, old, new)
       \/ VerifyOld(r) \/ ChangePassword(r)
       \/ \E removed \in BOOLEAN : UnlinkInitial(r, removed)
  \/ \E s \in session : Logout(s)

Spec == Init /\ [][Next]_vars

-----------------------------------------------------------------------------
(* Properties.                                                             *)

\* Whoever replaces a password has shown the very password that is replaced:
\* neither a hash upgrade that is late nor a second change that overlaps the
\* first undoes one (login, change_password).
OnlyWithPresentPassword ==
  [][admin # NoAdmin /\ admin'.password # admin.password =>
       \E r \in Requests : req[r].pc = "change" /\ req[r].password = admin.password]_vars

\* A session that any process accepts was opened with the present password,
\* also when its login was under way while the password changed.
AcceptedSessionsAreCurrent ==
  \A s \in session, p \in Procs : Accepted(s, p) => s.password = admin.password

\* What the private files show is what the processes use: all of them sign with
\* one key, and the first password works as long as it has not been changed
\* (_read_or_create_private_file, get_initial_admin_credentials).
FilesAreUsed ==
  /\ \A p \in Procs : proc[p].key # Absent => proc[p].key = file["secret"]
  /\ admin # NoAdmin /\ admin.password \in Values => 
       file["password"] = admin.password

\* However starts overlap and die, the effect of a migration is committed once,
\* and a process that serves requests finds the whole schema and an
\* administrator (apply_schema_migrations).
MigratedOnce ==
  /\ \A v \in 1 .. MaxMigration : ran[v] = IF v <= applied THEN 1 ELSE 0
  /\ Ready # {} => applied = MaxMigration /\ admin # NoAdmin
=============================================================================
