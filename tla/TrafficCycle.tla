---------------------------- MODULE TrafficCycle -----------------------------
(***************************************************************************)
(* The monthly traffic cycle of one account: apply_due_traffic_resets,     *)
(* which most handlers call before their own work, absolute totals by      *)
(* POST /api/traffic/set, charges by the report and counter endpoints, and *)
(* the sync with the upstream subscription.                                *)
(*                                                                         *)
(* Several requests run at once (Gunicorn workers and threads). A step is  *)
(* one SQLite transaction, one read outside a transaction, or one network  *)
(* fetch. Accounts do not interact here, so there is one. Days are         *)
(* numbered; Start is traffic_reset_info's "previous" (see ResetCalendar). *)
(***************************************************************************)
EXTENDS Integers

CONSTANTS
  Requests,     \* requests that may run at once
  Expiries,     \* what matters of an expire_date: its day of the month
  NoExpiry,     \* expire_date is empty
  MaxDay,       \* the last day of the run
  MaxUsed,      \* SQLITE_INTEGER_MAX
  Charges,      \* byte deltas of the report and counter endpoints
  Totals,       \* absolute totals: POST /api/traffic/set and upstream
  NoTotal,      \* the upstream sends no traffic statistics
  MaxUpstream,  \* upstream states in a run
  Start(_, _)   \* first day of the cycle a day belongs to

Days == 0 .. MaxDay

ASSUME CycleAssumption ==
  /\ NoExpiry \notin Expiries
  /\ MaxDay \in Nat /\ MaxUsed \in Nat /\ MaxUpstream \in Nat
  /\ Charges \subseteq Nat
  /\ Totals \subseteq (0 .. MaxUsed) \cup {NoTotal}
  /\ NoTotal \notin Int
  /\ \A e \in Expiries, d \in Days :
       /\ Start(e, d) \in Int /\ Start(e, d) <= d
       /\ \A f \in Days : f >= d => Start(e, f) >= Start(e, d)

VARIABLES
  today,      \* _business_today()
  used,       \* accounts.traffic_used_bytes
  expire,     \* accounts.expire_date
  lastReset,  \* accounts.last_traffic_reset_on
  upstream,   \* history: number of the upstream's present state
  synced,     \* history: number of the upstream state stored last
  req         \* the requests

vars == <<today, used, expire, lastReset, upstream, synced, req>>
account == <<used, expire, lastReset, synced>>

Kinds == {"view", "charge", "set", "sync"}
PC == {"idle", "select", "reset", "charge", "set", "read", "fetch", "store"}

\* day: `today` of the request; exp, last: the row apply_due_traffic_resets
\* read; current: nothing _sync_snapshot_is_current compares has changed;
\* got: the upstream state fetched.
Request == [pc : PC, kind : Kinds, day : Days, exp : Expiries \cup {NoExpiry},
            last : Int, current : BOOLEAN, got : 0 .. MaxUpstream]

\* The fields of a request that does not run carry nothing.
Done == [pc |-> "idle", kind |-> "view", day |-> 0, exp |-> NoExpiry, last |-> 0,
         current |-> FALSE, got |-> 0]

\* account_add stores the upstream sample and today as the reset marker.
Init ==
  /\ today = 0
  /\ used \in (Totals \ {NoTotal}) \cup {0}
  /\ expire \in Expiries \cup {NoExpiry}
  /\ lastReset = today
  /\ upstream = 0
  /\ synced = 0
  /\ req = [h \in Requests |-> Done]

-----------------------------------------------------------------------------
(* The environment.                                                        *)

Midnight ==
  /\ today < MaxDay
  /\ today' = today + 1
  /\ UNCHANGED <<account, upstream, req>>

\* The upstream's traffic, expiry or nodes change.
UpstreamMoves ==
  /\ upstream < MaxUpstream
  /\ upstream' = upstream + 1
  /\ UNCHANGED <<today, account, req>>

-----------------------------------------------------------------------------
(* Requests.                                                               *)

\* The handler calls apply_due_traffic_resets, or first takes `today` to
\* pass it on.
Arrive(h, k) ==
  /\ req[h].pc = "idle"
  /\ req' = [req EXCEPT ![h] = [Done EXCEPT !.pc = "select", !.kind = k, !.day = today]]
  /\ UNCHANGED <<today, account, upstream>>

\* apply_due_traffic_resets reads the rows, outside a transaction.
Select(h) ==
  /\ req[h].pc = "select"
  /\ req' = [req EXCEPT ![h] = [@ EXCEPT !.pc = "reset", !.exp = expire, !.last = lastReset]]
  /\ UNCHANGED <<today, account, upstream>>

\* Where the request goes on after apply_due_traffic_resets.
Resume(h) ==
  CASE req[h].kind = "view" -> Done
    [] req[h].kind = "charge" -> [req[h] EXCEPT !.pc = "charge"]
    [] req[h].kind = "set" -> [req[h] EXCEPT !.pc = "set"]
    [] req[h].kind = "sync" -> [req[h] EXCEPT !.pc = "read"]

\* Mutants of Resets: the row as read decides alone; the reset waits for the
\* second day of the cycle.
ResetsAsRead(h) == req[h].exp # NoExpiry /\ req[h].last < Start(req[h].exp, req[h].day)

ResetsLate(h) ==
  /\ ResetsAsRead(h)
  /\ lastReset < Start(req[h].exp, req[h].day)
  /\ req[h].day > Start(req[h].exp, req[h].day)

\* The row as read is due, and the row as it is now has an older marker.
Due(h) == req[h].exp # NoExpiry /\ req[h].last < Start(req[h].exp, req[h].day)
Resets(h) == Due(h) /\ lastReset < Start(req[h].exp, req[h].day)

\* The conditional UPDATE of apply_due_traffic_resets and its commit.
Reset(h) ==
  /\ req[h].pc = "reset"
  /\ IF Resets(h)
       THEN used' = 0 /\ lastReset' = Start(req[h].exp, req[h].day)
       ELSE UNCHANGED <<used, lastReset>>
  /\ req' = [req EXCEPT ![h] = Resume(h)]
  /\ UNCHANGED <<today, expire, upstream, synced>>

\* _increment_account_traffic; a total out of range is refused.
Charge(h) ==
  /\ req[h].pc = "charge"
  /\ \E n \in Charges :
       used' = IF used + n <= MaxUsed THEN used + n ELSE used
  /\ req' = [req EXCEPT ![h] = Done]
  /\ UNCHANGED <<today, expire, lastReset, upstream, synced>>

\* api_set_traffic after BEGIN IMMEDIATE: the client names the cycle of its
\* sample; with an expiry only the cycle of the request's day is accepted.
SetTotal(h) ==
  /\ req[h].pc = "set"
  /\ \E n \in Totals \ {NoTotal}, named \in {Start(e, d) : e \in Expiries, d \in Days} :
       used' = IF /\ expire # NoExpiry => named = Start(expire, req[h].day)
                  /\ n > used
                 THEN n ELSE used
  /\ req' = [req EXCEPT ![h] = Done]
  /\ UNCHANGED <<today, expire, lastReset, upstream, synced>>

\* account_sync and api_sync_all take the row before they fetch.
ReadAccount(h) ==
  /\ req[h].pc = "read"
  /\ req' = [req EXCEPT ![h] = [@ EXCEPT !.pc = "fetch", !.current = TRUE]]
  /\ UNCHANGED <<today, account, upstream>>

\* The upstream answers, without any lock held.
Fetch(h) ==
  /\ req[h].pc = "fetch"
  /\ req' = [req EXCEPT ![h] = [@ EXCEPT !.pc = "store", !.got = upstream]]
  /\ UNCHANGED <<today, account, upstream>>

\* The upstream does not answer, or answers without a usable node.
FetchFails(h) ==
  /\ req[h].pc = "fetch"
  /\ req' = [req EXCEPT ![h] = Done]
  /\ UNCHANGED <<today, account, upstream>>

\* Mutant of Outdate: syncs compare nothing with their snapshot.
OutdateNothing(r) == r

\* Whatever a sync stores, or an edit, other requests' snapshots are stale.
Outdate(r) == [h \in Requests |-> [r[h] EXCEPT !.current = FALSE]]

\* _store_synced_account: the sample's total with the cycle of its expiry,
\* computed today; what the upstream does not send is kept.
Store(h) ==
  /\ req[h].pc = "store"
  /\ req[h].current
  /\ \E n \in Totals, e \in Expiries \cup {expire} :
       /\ used' = IF n = NoTotal THEN used ELSE n
       /\ expire' = e
       /\ lastReset' = IF n # NoTotal /\ e # NoExpiry THEN Start(e, today) ELSE lastReset
  /\ synced' = req[h].got
  /\ req' = Outdate([req EXCEPT ![h] = Done])
  /\ UNCHANGED <<today, upstream>>

\* The account was edited or synced during the fetch: nothing is stored.
Skip(h) ==
  /\ req[h].pc = "store"
  /\ ~req[h].current
  /\ req' = [req EXCEPT ![h] = Done]
  /\ UNCHANGED <<today, account, upstream>>

\* account_edit changes the subscription, the limit or the status.
Edit ==
  /\ \E h \in Requests : req[h].current
  /\ req' = Outdate(req)
  /\ UNCHANGED <<today, account, upstream>>

-----------------------------------------------------------------------------
Next ==
  \/ Midnight \/ UpstreamMoves \/ Edit
  \/ \E h \in Requests :
       \/ \E k \in Kinds : Arrive(h, k)
       \/ Select(h) \/ Reset(h) \/ Charge(h) \/ SetTotal(h)
       \/ ReadAccount(h) \/ Fetch(h) \/ FetchFails(h) \/ Store(h) \/ Skip(h)

Spec == Init /\ [][Next]_vars

-----------------------------------------------------------------------------
(* Properties.                                                             *)

\* The account's row, the upstream's history and the requests hold values of
\* their kinds (types, bounds and the cycle marker of the accounts table).
TypeOK ==
  /\ today \in Days
  /\ used \in 0 .. MaxUsed
  /\ expire \in Expiries \cup {NoExpiry}
  /\ lastReset \in Int
  /\ upstream \in 0 .. MaxUpstream
  /\ synced \in 0 .. MaxUpstream
  /\ req \in [Requests -> Request]

\* A month's traffic is zeroed once, and only when the account's present
\* expiry says that a new month has begun: requests that saw the same due
\* reset do not wipe what was charged after it, and a sync's sample, stored
\* with the cycle of its expiry, is not wiped in that cycle
\* (apply_due_traffic_resets against _store_synced_account).
ResetOnlyWhenDue ==
  [][\A h \in Requests :
       req[h].pc = "reset" /\ req'[h].pc # "reset" /\ used' < used
         => expire # NoExpiry /\ lastReset < Start(expire, today)]_vars

\* Requests between their reset and their own update work on a row that has
\* entered the month they arrived in: no charge lands in a month that the
\* reset of that month would still wipe (the call order of the traffic
\* endpoints).
ChargedInItsMonth ==
  \A h \in Requests :
    req[h].pc \in {"charge", "set", "read"} /\ expire # NoExpiry =>
      lastReset >= Start(expire, req[h].day)

\* Overlapping syncs never put an older upstream state over a newer one: a
\* sync that was overtaken during its fetch stores nothing
\* (_sync_snapshot_is_current).
SyncsInOrder == [][synced' >= synced]_vars

\* What CHANGELOG.md says of both syncs: they store the upstream's traffic with
\* its cycle, so that a changed reset day does not zero what was just synced.
SyncedTrafficKept ==
  [][\A h \in Requests :
       req[h].pc = "reset" /\ req'[h].pc # "reset" /\ used' < used
         => ~(expire # NoExpiry /\ lastReset = Start(expire, today))]_vars

\* What docs/API.md says of POST /api/traffic/set: a sample of an old cycle is
\* answered 409 and never put over the new cycle's data.
OldCycleRefused ==
  [][\A h \in Requests :
       req[h].pc = "set" /\ req'[h].pc = "idle" /\ used' # used /\ expire # NoExpiry
       /\ lastReset = Start(expire, today)
         => Start(expire, req[h].day) = lastReset]_vars
=============================================================================
