------------------------------ MODULE Services -------------------------------
(***************************************************************************)
(* Customer services: who is served by which account, from when until      *)
(* when, under which subscription link; their renewals and reminders; and  *)
(* the accounts as far as services see them.                               *)
(*                                                                         *)
(* Every handler and the import script write in one SQLite transaction, so *)
(* each is one step. What overlaps is the administrator: a detail page may *)
(* stay open while the service changes, and its form is sent later.        *)
(***************************************************************************)
EXTENDS Naturals, Sequences, FiniteSets, SequencesExt

CONSTANTS
  Accounts,    \* account ids
  Customers,   \* wechat_id
  MaxDay,      \* the last day of the run, and the last date entered
  DueDays,     \* 30 days: how far the dashboard looks ahead
  MaxService,  \* services created in a run (AUTOINCREMENT: never reused)
  MaxToken,    \* links given out in a run (random: never the same again)
  MaxRenewals, \* renewals of one service
  MaxImport,   \* records of an import file
  NoAccount, NoService, NoToken, NoPage

Dates == 0 .. MaxDay
Ids == 1 .. MaxService
Tokens == 1 .. MaxToken

\* "suspended" stands for "disabled" too: no handler tells them apart.
Status == {"active", "suspended"}

\* The rows of accounts and of customer_services.
AccountRow == [status : Status, token : Nat \cup {NoToken}]
ServiceRow == [account : Accounts, customer : Customers, started : Dates, expires : Dates,
               status : Status, token : Nat, reminded : BOOLEAN]

ASSUME ServicesAssumption ==
  /\ MaxDay \in Nat /\ DueDays \in Nat /\ MaxService \in Nat
  /\ MaxToken \in Nat /\ MaxRenewals \in Nat /\ MaxImport \in Nat
  /\ NoToken \notin Nat /\ NoAccount \notin AccountRow /\ NoService \notin ServiceRow

VARIABLES
  today,       \* _business_today()
  account,     \* accounts
  service,     \* customer_services
  renewals,    \* service_renewals, by service, in the order of their ids
  corrected,   \* history: services whose expiry changed without a renewal since the last one
  nextService, \* the id the next INSERT gets
  nextToken,   \* the token the next secrets.token_hex gives
  page         \* a service_detail page that is still open

vars == <<today, account, service, renewals, corrected, nextService, nextToken, page>>

\* Handlers refuse a service that ends before it starts.
Form == {f \in [account : Accounts, customer : Customers, started : Dates, expires : Dates] :
           f.started <= f.expires}

Init ==
  /\ today = 0
  /\ account = [a \in Accounts |-> [status |-> "active", token |-> NoToken]]
  /\ service = [s \in Ids |-> NoService]
  /\ renewals = [s \in Ids |-> << >>]
  /\ corrected = {}
  /\ nextService = 1
  /\ nextToken = 1
  /\ page = NoPage

Existing == {a \in Accounts : account[a] # NoAccount}
Active(a) == a \in Existing /\ account[a].status = "active"
Rows == {s \in Ids : service[s] # NoService}

Midnight ==
  /\ today < MaxDay
  /\ today' = today + 1
  /\ UNCHANGED <<account, service, renewals, corrected, nextService, nextToken, page>>

-----------------------------------------------------------------------------
(* What the pages and the public link say of a service.                    *)

\* customer_service_state; parse errors cannot occur with dates of Form.
State(s) ==
  IF service[s].status # "active" THEN "suspended"
  ELSE IF service[s].started > today THEN "pending"
  ELSE IF service[s].expires < today THEN "expired"
  ELSE IF ~Active(service[s].account) THEN "account_inactive"
  ELSE "active"

\* Mutant of Running: a service that has not started counts.
RunningUnstarted(s) == service[s].status = "active"

\* The row conditions of the SQL that the dashboard and public_subscribe share.
Running(s) == service[s].status = "active" /\ service[s].started <= today

\* Mutant of Unexpired: the last day is not served.
UnexpiredStrictly(s) == service[s].expires > today

Unexpired(s) == service[s].expires >= today

\* public_subscribe: the accounts whose nodes the link returns.
Served(k) ==
  LET byService == {service[s].account : s \in
        {x \in Rows : service[x].token = k /\ Running(x) /\ Unexpired(x) /\ Active(service[x].account)}}
  IN  IF byService # {} THEN byService
      ELSE {a \in Existing : account[a].token = k /\ Active(a)}

\* dashboard: services to renew, those of them that expired, customers of an account.
RenewalServices == {s \in Rows : Running(s) /\ service[s].expires <= today + DueDays}
ExpiredServices == {s \in RenewalServices : service[s].expires < today}
ServiceCount(a) == Cardinality({s \in Rows : service[s].account = a /\ Running(s) /\ Unexpired(s)})

\* services_list: the numbers over the list.
DueCount == Cardinality({s \in Rows : /\ State(s) \in {"active", "account_inactive"}
                                      /\ service[s].expires - today \in 0 .. DueDays})
ExpiredCount == Cardinality({s \in Rows : State(s) = "expired"})

-----------------------------------------------------------------------------
(* Services.                                                               *)

\* UNIQUE (account_id, wechat_id, started_on), but for the row itself.
Duplicate(f, own, rows) ==
  \E s \in Ids \ {own} :
    /\ rows[s] # NoService
    /\ rows[s].account = f.account
    /\ rows[s].customer = f.customer
    /\ rows[s].started = f.started

New(f, k) ==
  [account |-> f.account, customer |-> f.customer, started |-> f.started,
   expires |-> f.expires, status |-> "active", token |-> k, reminded |-> FALSE]

Add(f) ==
  /\ Active(f.account)
  /\ ~Duplicate(f, 0, service)
  /\ nextService <= MaxService /\ nextToken <= MaxToken
  /\ service' = [service EXCEPT ![nextService] = New(f, nextToken)]
  /\ nextService' = nextService + 1
  /\ nextToken' = nextToken + 1
  /\ UNCHANGED <<today, account, renewals, corrected, page>>

\* service_detail: the row as the page shows it.
OpenPage(s) ==
  /\ s \in Rows
  /\ page' = [id |-> s, shown |-> service[s]]
  /\ UNCHANGED <<today, account, service, renewals, corrected, nextService, nextToken>>

\* What the page a form is sent from may show: the row as it is, or as it was.
Shown(s) == {service[s]} \cup (IF page # NoPage /\ page.id = s THEN {page.shown} ELSE {})

\* Mutant of Edit: the whole row is written back as the page showed it.
EditWholeRow(s, shown, f) ==
  /\ f.account \in Existing
  /\ Active(f.account) \/ f.account = service[s].account
  /\ ~Duplicate(f, s, service)
  /\ service' = [service EXCEPT ![s] =
                   [New(f, shown.token) EXCEPT !.status = shown.status, !.reminded = shown.reminded]]
  /\ corrected' = IF f.expires = service[s].expires THEN corrected ELSE corrected \cup {s}
  /\ UNCHANGED <<today, account, renewals, nextService, nextToken, page>>

\* service_edit writes the form's fields; the account may stay an inactive one.
Edit(s, shown, f) ==
  /\ f.account \in Existing
  /\ Active(f.account) \/ f.account = service[s].account
  /\ ~Duplicate(f, s, service)
  /\ service' = [service EXCEPT ![s] =
                   [@ EXCEPT !.account = f.account, !.customer = f.customer,
                             !.started = f.started, !.expires = f.expires]]
  /\ corrected' = IF f.expires = service[s].expires THEN corrected ELSE corrected \cup {s}
  /\ UNCHANGED <<today, account, renewals, nextService, nextToken, page>>

Renewed(s, old, new) ==
  /\ Len(renewals[s]) < MaxRenewals
  /\ renewals' = [renewals EXCEPT ![s] =
                    Append(@, [old |-> old, new |-> new, corrected |-> s \in corrected])]
  /\ corrected' = corrected \ {s}
  /\ service' = [service EXCEPT ![s] =
                   [@ EXCEPT !.expires = new, !.status = "active", !.reminded = FALSE]]
  /\ UNCHANGED <<today, account, nextService, nextToken, page>>

\* Mutant of Renew: the expiry the page showed decides and is recorded.
RenewShown(s, shown, new) ==
  /\ new > shown.expires
  /\ Renewed(s, shown.expires, new)

\* service_renew: the row's expiry decides, whatever the page (its date field
\* begins after the shown expiry) showed.
Renew(s, shown, new) ==
  /\ new > shown.expires
  /\ new > service[s].expires
  /\ Renewed(s, service[s].expires, new)

Remind(s) ==
  /\ service' = [service EXCEPT ![s].reminded = TRUE]
  /\ UNCHANGED <<today, account, renewals, corrected, nextService, nextToken, page>>

SetStatus(s, status) ==
  /\ service' = [service EXCEPT ![s].status = status]
  /\ UNCHANGED <<today, account, renewals, corrected, nextService, nextToken, page>>

RotateToken(s) ==
  /\ nextToken <= MaxToken
  /\ service' = [service EXCEPT ![s].token = nextToken]
  /\ nextToken' = nextToken + 1
  /\ UNCHANGED <<today, account, renewals, corrected, nextService, page>>

\* service_delete; the renewals go with it (ON DELETE CASCADE).
DeleteService(s) ==
  /\ service' = [service EXCEPT ![s] = NoService]
  /\ renewals' = [renewals EXCEPT ![s] = << >>]
  /\ corrected' = corrected \ {s}
  /\ UNCHANGED <<today, account, nextService, nextToken, page>>

-----------------------------------------------------------------------------
(* import_customer_services.py: the records of a file in one transaction.  *)

Imported == [rows |-> service, ids |-> nextService, tokens |-> nextToken, moved |-> corrected]

\* The row a record is about: same account, customer and first day.
Match(f, rows) == {s \in Ids : /\ rows[s] # NoService
                               /\ rows[s].account = f.account
                               /\ rows[s].customer = f.customer
                               /\ rows[s].started = f.started}

\* Mutant of ImportRecord: an imported service is active again.
ImportRecordActive(db, f) ==
  LET match == Match(f, db.rows)
  IN  IF match # {}
        THEN LET s == CHOOSE x \in match : TRUE
             IN  [db EXCEPT !.rows[s] = [@ EXCEPT !.expires = f.expires, !.status = "active"],
                            !.moved = IF db.rows[s].expires = f.expires THEN @ ELSE @ \cup {s}]
        ELSE [db EXCEPT !.rows[db.ids] = New(f, db.tokens),
                        !.ids = @ + 1, !.tokens = @ + 1]

\* A known service gets the record's expiry; status, link, reminder and
\* renewals stay. Another becomes a new service.
ImportRecord(db, f) ==
  LET match == Match(f, db.rows)
  IN  IF match # {}
        THEN LET s == CHOOSE x \in match : TRUE
             IN  [db EXCEPT !.rows[s].expires = f.expires,
                            !.moved = IF db.rows[s].expires = f.expires THEN @ ELSE @ \cup {s}]
        ELSE [db EXCEPT !.rows[db.ids] = New(f, db.tokens),
                        !.ids = @ + 1, !.tokens = @ + 1]

\* The tables after all records of a file.
Loaded(file) == FoldLeft(ImportRecord, Imported, file)

\* An unknown account or an invalid record refuses the whole file. Names stand
\* for the accounts: the script refuses a name that two accounts have. Whether
\* an account is active is not asked.
Import(file) ==
  /\ \A i \in DOMAIN file : file[i].account \in Existing
  /\ nextService + Len(file) <= MaxService + 1
  /\ nextToken + Len(file) <= MaxToken + 1
  /\ LET db == Loaded(file)
     IN  /\ service' = db.rows
         /\ nextService' = db.ids
         /\ nextToken' = db.tokens
         /\ corrected' = db.moved
  /\ UNCHANGED <<today, account, renewals, page>>

-----------------------------------------------------------------------------
(* Accounts.                                                               *)

SetAccountStatus(a, status) ==
  /\ a \in Existing
  /\ account' = [account EXCEPT ![a].status = status]
  /\ UNCHANGED <<today, service, renewals, corrected, nextService, nextToken, page>>

\* api_generate_token: a link that returns the account's nodes by itself.
RotateAccountToken(a) ==
  /\ a \in Existing
  /\ nextToken <= MaxToken
  /\ account' = [account EXCEPT ![a].token = nextToken]
  /\ nextToken' = nextToken + 1
  /\ UNCHANGED <<today, service, renewals, corrected, nextService, page>>

\* The row goes, and by ON DELETE CASCADE what refers to it.
Drop(a) ==
  LET gone == {s \in Rows : service[s].account = a}
  IN  /\ account' = [account EXCEPT ![a] = NoAccount]
      /\ service' = [s \in Ids |-> IF s \in gone THEN NoService ELSE service[s]]
      /\ renewals' = [s \in Ids |-> IF s \in gone THEN << >> ELSE renewals[s]]
      /\ corrected' = corrected \ gone
      /\ UNCHANGED <<today, nextService, nextToken, page>>

\* Mutant of DeleteAccount: only services that still run keep the account.
DeleteAccountUnused(a) ==
  /\ a \in Existing
  /\ \A s \in Rows : service[s].account = a => State(s) # "active"
  /\ Drop(a)

DeleteAccount(a) ==
  /\ a \in Existing
  /\ \A s \in Rows : service[s].account # a
  /\ Drop(a)

-----------------------------------------------------------------------------
Next ==
  \/ Midnight
  \/ \E f \in Form : Add(f)
  \/ \E s \in Rows :
       \/ OpenPage(s) \/ Remind(s) \/ RotateToken(s) \/ DeleteService(s)
       \/ \E status \in Status : SetStatus(s, status)
       \/ \E shown \in Shown(s) :
            \/ \E f \in Form : Edit(s, shown, f)
            \/ \E new \in Dates : Renew(s, shown, new)
  \/ \E n \in 1 .. MaxImport : \E file \in [1 .. n -> Form] : Import(file)
  \/ \E a \in Accounts :
       \/ RotateAccountToken(a) \/ DeleteAccount(a)
       \/ \E status \in Status : SetAccountStatus(a, status)

Spec == Init /\ [][Next]_vars

-----------------------------------------------------------------------------
(* Properties.                                                             *)

InUse == {service[s].token : s \in Rows} \cup {account[a].token : a \in Existing}

\* A customer's link works exactly while the panel calls the service active,
\* and then returns the nodes of the customer's account, through renewals,
\* moves, pauses and midnight: the SQL of public_subscribe and the Python of
\* customer_service_state are two statements of one rule.
LinkMatchesState ==
  \A s \in Rows :
    Served(service[s].token) = IF State(s) = "active" THEN {service[s].account} ELSE {}

\* The dashboard and the list of services give the same numbers of services
\* that are due and that expired, and an active account counts the customers
\* whose links work (dashboard, services_list).
PagesAgree ==
  /\ Cardinality(ExpiredServices) = ExpiredCount
  /\ Cardinality(RenewalServices \ ExpiredServices) = DueCount
  /\ \A a \in Accounts : Active(a) =>
       ServiceCount(a) = Cardinality({s \in Rows : Served(service[s].token) = {a}})

\* The renewals of a service are its account of paid time: each extends it,
\* begins where the one before ended unless an edit or an import corrected the
\* date in between, and the last one ends at the present expiry. Two renewals
\* sent from the same page are never both booked (service_renew).
RenewalLedger ==
  \A s \in Rows :
    /\ \A i \in DOMAIN renewals[s] :
         /\ renewals[s][i].old < renewals[s][i].new
         /\ i > 1 /\ ~renewals[s][i].corrected => renewals[s][i].old = renewals[s][i - 1].new
    /\ renewals[s] # << >> /\ s \notin corrected => Last(renewals[s]).new = service[s].expires

\* A link that was replaced or deleted never opens anything again, also not by
\* a form from a page that still shows it (service_rotate_token; README.md:87).
RevokedStaysRevoked ==
  [][\A k \in 1 .. nextToken - 1 : k \notin InUse => k \notin InUse']_vars

\* A paused service starts again only by its status or by a renewal, not by an
\* edit or an import of its dates (service_status, service_renew).
PausedStaysPaused ==
  [][\A s \in Rows :
       /\ service[s].status # "active"
       /\ service'[s] # NoService
       /\ service'[s].status = "active"
       => SetStatus(s, "active") \/ Len(renewals'[s]) > Len(renewals[s])]_vars

\* No customer's record and no renewal disappears but by deleting that very
\* service: an account that any service names is not deleted, and what refers
\* to it is not taken along (account_delete).
CustomersKept ==
  [][\A s \in Rows :
       \/ service'[s] # NoService /\ Len(renewals'[s]) >= Len(renewals[s])
       \/ DeleteService(s)]_vars
=============================================================================
