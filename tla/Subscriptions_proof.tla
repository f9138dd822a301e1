-------------------------- MODULE Subscriptions_proof --------------------------
(***************************************************************************)
(* Proofs about who may fetch a subscription (Services), for any accounts, *)
(* customers, days, numbers of services, links and renewals, and import    *)
(* files of any length; and about what it hands out (SubscriptionExport),  *)
(* for any names, rules, keywords and lists of nodes, of any length.       *)
(*                                                                         *)
(* The import folds a file's records, and the export loops over nodes and  *)
(* along chains. What a fold or a loop does is taken from its recursive    *)
(* function, by a least number argument over the turns.                    *)
(***************************************************************************)
EXTENDS Services, SubscriptionExport, SequenceTheorems, FiniteSetTheorems,
        WellFoundedInduction, TLAPS

\* Every nonempty set of natural numbers has a least element.
LEMMA LeastNat ==
  ASSUME NEW T \in SUBSET Nat, T # {}
  PROVE  \E n \in T : \A m \in T : n <= m
<1>1. PICK n \in T : \A m \in T : ~(<<m, n>> \in OpToRel(<, Nat))
  <2>1. \E n \in T : \A m \in T : ~(<<m, n>> \in OpToRel(<, Nat))
    BY NatLessThanWellFounded, WFMin
  <2> QED
    BY <2>1
<1>2. ASSUME NEW m \in T, m < n PROVE FALSE
  <2>1. <<m, n>> \in Nat \X Nat /\ <<m, n>>[1] < <<m, n>>[2]
    BY <1>2
  <2>2. <<m, n>> \in OpToRel(<, Nat)
    BY <2>1 DEF OpToRel
  <2> QED
    BY <2>2, <1>1
<1> QED
  BY <1>2

\* Induction on natural numbers, for the set of numbers that have a property.
LEMMA SetInduction ==
  ASSUME NEW P \in SUBSET Nat, 0 \in P, \A n \in P : n + 1 \in P
  PROVE  Nat \subseteq P
<1>1. SUFFICES ASSUME Nat \ P # {} PROVE FALSE
  OBVIOUS
<1>2. PICK n \in Nat \ P : \A m \in Nat \ P : n <= m
  BY <1>1, LeastNat
<1>3. n - 1 \in P
  BY <1>2
<1> QED
  BY <1>2, <1>3

-----------------------------------------------------------------------------
(* Services.                                                               *)

USE ServicesAssumption

Renewal == [old : Dates, new : Dates, corrected : BOOLEAN]

\* The tables that an import works on: rows of services, next id, next link, and which
\* services' expiry was corrected.
Tables == [rows : [Ids -> ServiceRow \cup {NoService}], ids : Nat \ {0}, tokens : Nat \ {0},
           moved : SUBSET Ids]

RowsOf(db) == {s \in Ids : db.rows[s] # NoService}

\* What is stored in the tables that the import leaves alone.
Others ==
  /\ today \in Dates
  /\ account \in [Accounts -> AccountRow \cup {NoAccount}]
  /\ renewals \in [Ids -> Seq(Renewal)]

\* Ids are given out in order.
Fresh(db) == \A s \in Ids : s >= db.ids => db.rows[s] = NoService

\* A link belongs to one service, and none of them is an account's.
Links(db) ==
  /\ \A s \in RowsOf(db) :
       /\ db.rows[s].token < db.tokens
       /\ \A r \in RowsOf(db) : r # s => db.rows[r].token # db.rows[s].token
       /\ \A a \in Existing : account[a].token # db.rows[s].token
  /\ \A a \in Existing : account[a].token # NoToken => account[a].token < db.tokens

\* The renewals of a service follow each other up to its present expiry; what is not
\* there has none.
Follows(s, expires, moved) ==
  /\ \A i \in DOMAIN renewals[s] :
       /\ renewals[s][i].old < renewals[s][i].new
       /\ i > 1 /\ ~renewals[s][i].corrected => renewals[s][i].old = renewals[s][i - 1].new
  /\ renewals[s] # << >> /\ s \notin moved => Last(renewals[s]).new = expires

Booked(db) ==
  \A s \in Ids : IF db.rows[s] = NoService THEN renewals[s] = << >> /\ s \notin db.moved
                 ELSE Follows(s, db.rows[s].expires, db.moved)

\* The invariant.
Inv == /\ Others /\ Imported \in Tables
       /\ Fresh(Imported) /\ Links(Imported) /\ Booked(Imported)

-----------------------------------------------------------------------------
(* Induction over a file.                                                  *)

\* The records of a file are taken one after the other.
LEMMA ImportFold ==
  ASSUME NEW n \in Nat, NEW file \in [1 .. n -> Form]
  PROVE  \E g : /\ g[0] = Imported
                /\ \A k \in 1 .. n : g[k] = ImportRecord(g[k - 1], file[k])
                /\ Loaded(file) = g[n]
<1> DEFINE Iter(h, S) == h = [s \in SUBSET S |->
                           IF s = {} THEN Imported ELSE ImportRecord(h[s \ {Max(s)}], file[Max(s)])]
<1>1. ASSUME NEW m \in Nat, NEW s \in SUBSET (1 .. m + 1), m + 1 \in s
      PROVE  Max(s) = m + 1
  <2>1. \A y \in s : m + 1 >= y
    OBVIOUS
  <2>2. ASSUME NEW x \in s, \A y \in s : x >= y PROVE x = m + 1
    <3>1. x >= m + 1 /\ x <= m + 1 /\ x \in Nat
      BY <1>1, <2>1, <2>2
    <3> QED
      BY <3>1
  <2> QED
    BY <1>1, <2>1, <2>2 DEF Max
<1> DEFINE P == {m \in Nat : m <= n => \E h : Iter(h, 1 .. m)}
<1>2. 0 \in P
  <2> DEFINE h == [s \in SUBSET (1 .. 0) |-> Imported]
  <2>1. Iter(h, 1 .. 0)
    <3>1. SUBSET (1 .. 0) = {{}}
      OBVIOUS
    <3> QED
      BY <3>1
  <2> QED
    BY <2>1
<1>3. ASSUME NEW m \in P PROVE m + 1 \in P
  <2>a. m \in Nat /\ (m <= n => \E h : Iter(h, 1 .. m))
    BY <1>3
  <2> HIDE DEF Iter
  <2> SUFFICES ASSUME m + 1 <= n PROVE \E h : Iter(h, 1 .. m + 1)
    BY <2>a
  <2>1. PICK h : Iter(h, 1 .. m)
    BY <2>a
  <2> USE DEF Iter
  <2> DEFINE f == [s \in SUBSET (1 .. m + 1) |->
                     IF m + 1 \in s THEN ImportRecord(h[s \ {m + 1}], file[m + 1]) ELSE h[s]]
  <2>2. ASSUME NEW s \in SUBSET (1 .. m + 1)
        PROVE  f[s] = IF s = {} THEN Imported ELSE ImportRecord(f[s \ {Max(s)}], file[Max(s)])
    <3>1. CASE m + 1 \in s
      <4>1. s \ {m + 1} \in SUBSET (1 .. m + 1) /\ m + 1 \notin s \ {m + 1}
        OBVIOUS
      <4>2. f[s \ {m + 1}] = h[s \ {m + 1}]
        BY <4>1
      <4> HIDE DEF f
      <4>3. f[s] = ImportRecord(h[s \ {m + 1}], file[m + 1])
        BY <3>1 DEF f
      <4> QED
        BY <1>1, <2>a, <3>1, <4>2, <4>3
    <3>2. CASE m + 1 \notin s
      <4>0. m \in Nat
        BY <2>a
      <4>1. s \in SUBSET (1 .. m) /\ s \ {Max(s)} \in SUBSET (1 .. m)
        <5>1. \A x \in s : x \in Nat /\ 1 <= x /\ x <= m + 1 /\ x # m + 1
          BY <3>2, <4>0
        <5>2. \A x \in s : x \in 1 .. m
          BY <4>0, <5>1
        <5> QED
          BY <5>2
      <4>2. f[s] = h[s] /\ f[s \ {Max(s)}] = h[s \ {Max(s)}]
        BY <3>2, <4>1
      <4>3. h[s] = IF s = {} THEN Imported ELSE ImportRecord(h[s \ {Max(s)}], file[Max(s)])
        BY <2>1, <4>1
      <4> HIDE DEF f
      <4> QED
        BY <4>2, <4>3
    <3> QED
      BY <3>1, <3>2
  <2>3. Iter(f, 1 .. m + 1)
    BY <2>2
  <2> QED
    BY <2>3
<1>4. \E h : Iter(h, 1 .. n)
  <2> HIDE DEF Iter
  <2>1. Nat \subseteq P
    <3>1. P \in SUBSET Nat
      OBVIOUS
    <3> HIDE DEF P
    <3> QED BY <3>1, <1>2, <1>3, SetInduction
  <2> QED
    BY <2>1
<1> DEFINE h == CHOOSE h : Iter(h, 1 .. n)
<1>5. Iter(h, 1 .. n)
  BY <1>4
<1>6. Loaded(file) = h[1 .. n]
  <2>1. DOMAIN file = 1 .. n
    OBVIOUS
  <2> QED
    BY <2>1 DEF Loaded, FoldLeft, MapThenFoldSet
<1> DEFINE g == [k \in 0 .. n |-> h[1 .. k]]
<1>7. g[0] = Imported
  <2>1. 1 .. 0 = {} /\ 1 .. 0 \in SUBSET (1 .. n) /\ g[0] = h[1 .. 0]
    OBVIOUS
  <2> HIDE DEF g, h
  <2> QED
    BY <1>5, <2>1
<1>8. ASSUME NEW k \in 1 .. n PROVE g[k] = ImportRecord(g[k - 1], file[k])
  <2>0. k \in Nat /\ k - 1 \in Nat /\ k - 1 + 1 = k /\ k \in 1 .. k
    OBVIOUS
  <2>1. 1 .. k \in SUBSET (1 .. n) /\ 1 .. k # {}
    <3>1. \A x \in 1 .. k : x \in 1 .. n
      OBVIOUS
    <3> QED
      BY <2>0, <3>1
  <2>2. (1 .. k) \ {k} = 1 .. k - 1
    OBVIOUS
  <2>3. Max(1 .. k) = k
    BY <1>1, <2>0
  <2>4. g[k] = h[1 .. k] /\ g[k - 1] = h[1 .. k - 1]
    OBVIOUS
  <2> HIDE DEF g, h
  <2>5. h[1 .. k] = ImportRecord(h[(1 .. k) \ {Max(1 .. k)}], file[Max(1 .. k)])
    BY <1>5, <2>1
  <2> QED
    BY <2>2, <2>3, <2>4, <2>5
<1>9. g[n] = h[1 .. n]
  OBVIOUS
<1> HIDE DEF g, h
<1> QED
  BY <1>6, <1>7, <1>8, <1>9
-----------------------------------------------------------------------------
(* The import.                                                             *)

\* What the tables are after some records, compared with those before the file: nothing
\* is gone, switched on or given another link, and what is new has a new link.
Grown(db, k) ==
  /\ db \in Tables /\ Fresh(db) /\ Links(db) /\ Booked(db)
  /\ db.ids <= nextService + k /\ db.tokens <= nextToken + k
  /\ db.tokens >= nextToken
  /\ \A s \in RowsOf(db) :
       IF s \in Rows THEN /\ db.rows[s].status = service[s].status
                          /\ db.rows[s].token = service[s].token
       ELSE db.rows[s].token >= nextToken
  /\ Rows \subseteq RowsOf(db)

LEMMA FormRow ==
  ASSUME NEW f \in Form, NEW k \in Nat
  PROVE  New(f, k) \in ServiceRow
BY DEF Form, New, ServiceRow, Status

\* A record about a known service.
LEMMA MatchGrows ==
  ASSUME Inv, NEW db, NEW k \in Nat, Grown(db, k), NEW f \in Form, Match(f, db.rows) # {}
  PROVE  Grown(ImportRecord(db, f), k + 1)
<1> DEFINE s == CHOOSE x \in Match(f, db.rows) : TRUE
           row == [db.rows[s] EXCEPT !.expires = f.expires]
           moved == IF db.rows[s].expires = f.expires THEN db.moved ELSE db.moved \cup {s}
           new == [rows |-> [db.rows EXCEPT ![s] = row], ids |-> db.ids,
                   tokens |-> db.tokens, moved |-> moved]
<1>1. s \in Ids /\ db.rows[s] # NoService
  BY DEF Match
<1>2. /\ db \in Tables /\ db.rows[s] \in ServiceRow
      /\ db = [rows |-> db.rows, ids |-> db.ids, tokens |-> db.tokens, moved |-> db.moved]
  BY <1>1 DEF Grown, Tables
<1> HIDE DEF s
<1>3. ImportRecord(db, f) = new
  BY <1>2 DEF ImportRecord, s
<1>4. /\ row \in ServiceRow /\ row # NoService /\ row.expires = f.expires
      /\ row.token = db.rows[s].token /\ row.status = db.rows[s].status
  BY <1>2 DEF ServiceRow, Form
<1> HIDE DEF row
<1>5. new \in Tables
  BY <1>1, <1>2, <1>4 DEF Tables
<1>6. /\ \A r \in Ids : new.rows[r] = IF r = s THEN row ELSE db.rows[r]
      /\ new.ids = db.ids /\ new.tokens = db.tokens /\ new.moved = moved
  BY <1>1, <1>2 DEF Tables
<1> HIDE DEF new, moved
<1>7. RowsOf(new) = RowsOf(db)
  BY <1>1, <1>4, <1>6 DEF RowsOf
<1>8. Fresh(new)
  BY <1>1, <1>4, <1>6 DEF Fresh, Grown
<1>a. \A r \in RowsOf(db) : /\ new.rows[r].token = db.rows[r].token
                            /\ new.rows[r].status = db.rows[r].status
  BY <1>4, <1>6 DEF RowsOf
<1>9. Links(new)
  BY <1>6, <1>7, <1>a DEF Links, Grown
<1>10. Booked(new)
  <2> SUFFICES ASSUME NEW r \in Ids
               PROVE  IF new.rows[r] = NoService THEN renewals[r] = << >> /\ r \notin new.moved
                      ELSE Follows(r, new.rows[r].expires, new.moved)
    BY DEF Booked
  <2>1. IF db.rows[r] = NoService THEN renewals[r] = << >> /\ r \notin db.moved
        ELSE Follows(r, db.rows[r].expires, db.moved)
    BY DEF Booked, Grown
  <2>2. CASE r # s
    BY <2>1, <2>2, <1>6 DEF moved, Follows
  <2>3. CASE r = s
    BY <2>1, <2>3, <1>1, <1>4, <1>6 DEF moved, Follows
  <2> QED
    BY <2>2, <2>3
<1>11. new.ids <= nextService + (k + 1) /\ new.tokens <= nextToken + (k + 1)
  BY <1>2, <1>6 DEF Grown, Tables, Inv, Imported
<1> QED
  BY <1>3, <1>5, <1>6, <1>7, <1>a, <1>8, <1>9, <1>10, <1>11 DEF Grown

\* A record about a new service.
LEMMA NewGrows ==
  ASSUME Inv, NEW db, NEW k \in Nat, Grown(db, k), NEW f \in Form, Match(f, db.rows) = {},
         nextService + k < MaxService + 1
  PROVE  Grown(ImportRecord(db, f), k + 1)
<1> DEFINE s == db.ids
           row == New(f, db.tokens)
           new == [rows |-> [db.rows EXCEPT ![s] = row], ids |-> db.ids + 1,
                   tokens |-> db.tokens + 1, moved |-> db.moved]
<1>1. /\ db \in Tables /\ nextService \in Nat /\ nextToken \in Nat
      /\ db = [rows |-> db.rows, ids |-> db.ids, tokens |-> db.tokens, moved |-> db.moved]
  BY DEF Grown, Tables, Inv, Imported
<1>2. s \in Ids /\ db.rows[s] = NoService /\ db.tokens \in Nat
  BY <1>1 DEF Grown, Tables, Ids, Fresh
<1>3. ImportRecord(db, f) = new
  BY <1>1 DEF ImportRecord
<1>4. /\ row \in ServiceRow /\ row # NoService /\ row.token = db.tokens
  BY <1>2, FormRow DEF New
<1> HIDE DEF row
<1>5. new \in Tables
  BY <1>1, <1>2, <1>4 DEF Tables
<1>6. /\ \A r \in Ids : new.rows[r] = IF r = s THEN row ELSE db.rows[r]
      /\ new.ids = db.ids + 1 /\ new.tokens = db.tokens + 1 /\ new.moved = db.moved
  BY <1>1, <1>2 DEF Tables
<1> HIDE DEF new
<1>7. RowsOf(new) = RowsOf(db) \cup {s}
  BY <1>2, <1>4, <1>6 DEF RowsOf
<1>a. \A r \in RowsOf(db) : db.rows[r].token \in Nat /\ new.rows[r] = db.rows[r]
  <2> SUFFICES ASSUME NEW r \in RowsOf(db)
               PROVE  db.rows[r].token \in Nat /\ new.rows[r] = db.rows[r]
    OBVIOUS
  <2>1. r \in Ids /\ db.rows[r] # NoService
    BY DEF RowsOf
  <2> QED
    BY <2>1, <1>1, <1>2, <1>6 DEF Tables, ServiceRow
<1>8. Fresh(new)
  BY <1>1, <1>2, <1>6 DEF Fresh, Grown, Ids, Tables
<1>9. Links(new)
  <2>1. \A r \in RowsOf(db) : db.rows[r].token < db.tokens /\ db.rows[r].token < db.tokens + 1
    BY <1>2, <1>a DEF Links, Grown
  <2>2. \A a \in Existing : /\ account[a].token # db.tokens
                            /\ account[a].token # NoToken => account[a].token < db.tokens + 1
    <3> SUFFICES ASSUME NEW a \in Existing
                 PROVE  /\ account[a].token # db.tokens
                        /\ account[a].token # NoToken => account[a].token < db.tokens + 1
      OBVIOUS
    <3>1. account[a].token \in Nat \cup {NoToken}
      BY DEF Existing, Inv, Others, AccountRow
    <3>2. account[a].token # NoToken => account[a].token < db.tokens
      BY DEF Links, Grown
    <3> QED
      BY <3>1, <3>2, <1>2
  <2>3. \A r \in RowsOf(db) : /\ \A q \in RowsOf(db) : q # r => db.rows[q].token # db.rows[r].token
                              /\ \A a \in Existing : account[a].token # db.rows[r].token
    BY DEF Links, Grown
  <2>4. s \notin RowsOf(db) /\ new.rows[s].token = db.tokens /\ new.tokens = db.tokens + 1
    BY <1>2, <1>4, <1>6 DEF RowsOf
  <2> QED
    BY <1>2, <1>7, <1>a, <2>1, <2>2, <2>3, <2>4 DEF Links
<1>10. Booked(new)
  <2> SUFFICES ASSUME NEW r \in Ids
               PROVE  IF new.rows[r] = NoService THEN renewals[r] = << >> /\ r \notin new.moved
                      ELSE Follows(r, new.rows[r].expires, new.moved)
    BY DEF Booked
  <2>1. IF db.rows[r] = NoService THEN renewals[r] = << >> /\ r \notin db.moved
        ELSE Follows(r, db.rows[r].expires, db.moved)
    BY DEF Booked, Grown
  <2>2. CASE r # s
    BY <2>1, <2>2, <1>6 DEF Follows
  <2>3. CASE r = s
    BY <2>1, <2>3, <1>2, <1>4, <1>6 DEF Follows
  <2> QED
    BY <2>2, <2>3
<1>11. /\ new.ids <= nextService + (k + 1) /\ new.tokens <= nextToken + (k + 1)
       /\ new.tokens >= nextToken /\ new.rows[s].token >= nextToken
  BY <1>1, <1>2, <1>4, <1>6 DEF Grown, Tables
<1>12. s \notin Rows
  BY <1>2 DEF Grown, RowsOf
<1> QED
  BY <1>2, <1>3, <1>5, <1>6, <1>7, <1>a, <1>8, <1>9, <1>10, <1>11, <1>12 DEF Grown

\* The whole file.
LEMMA ImportGrows ==
  ASSUME Inv, NEW n \in Nat, NEW file \in [1 .. n -> Form], nextService + n <= MaxService + 1
  PROVE  Grown(Loaded(file), n)
<1>1. PICK g : /\ g[0] = Imported
               /\ \A k \in 1 .. n : g[k] = ImportRecord(g[k - 1], file[k])
               /\ Loaded(file) = g[n]
  BY ImportFold
<1>2. nextService \in Nat /\ nextToken \in Nat
  BY DEF Inv, Imported, Tables
<1> DEFINE P == {k \in Nat : k <= n => Grown(g[k], k)}
<1>3. 0 \in P
  BY <1>1, <1>2 DEF Grown, Inv, Imported, Rows, RowsOf
<1>4. ASSUME NEW k \in P PROVE k + 1 \in P
  <2>1. k \in Nat /\ (k <= n => Grown(g[k], k))
    BY <1>4
  <2> HIDE DEF P
  <2> SUFFICES ASSUME k + 1 <= n PROVE Grown(g[k + 1], k + 1)
    BY <2>1 DEF P
  <2>2. k + 1 \in 1 .. n /\ k + 1 - 1 = k /\ k <= n /\ nextService + k < MaxService + 1
    BY <1>2, <2>1
  <2>3. g[k + 1] = ImportRecord(g[k], file[k + 1]) /\ file[k + 1] \in Form
    <3>1. PICK i \in 1 .. n : i = k + 1 /\ i - 1 = k
      BY <2>1, <2>2
    <3>2. g[i] = ImportRecord(g[i - 1], file[i]) /\ file[i] \in Form
      BY <1>1, <3>1
    <3> QED
      BY <3>1, <3>2
  <2>4. Grown(g[k], k)
    BY <2>1, <2>2
  <2>5. CASE Match(file[k + 1], g[k].rows) # {}
    BY <2>1, <2>3, <2>4, <2>5, MatchGrows
  <2>6. CASE Match(file[k + 1], g[k].rows) = {}
    BY <2>1, <2>2, <2>3, <2>4, <2>6, NewGrows
  <2> QED
    BY <2>5, <2>6
<1>5. P \in SUBSET Nat
  OBVIOUS
<1>6. n \in P
  <2> HIDE DEF P
  <2> QED
    BY <1>3, <1>4, <1>5, SetInduction
<1> QED
  BY <1>1, <1>6

-----------------------------------------------------------------------------
(* The steps.                                                              *)

LEMMA InvInit == Init => Inv
<1> SUFFICES ASSUME Init PROVE Inv
  OBVIOUS
<1> USE DEF Init
<1>1. Others
  BY DEF Others, Dates, AccountRow, Status
<1>2. Imported \in Tables /\ RowsOf(Imported) = {}
  BY DEF Imported, Tables, RowsOf
<1> QED
  BY <1>1, <1>2 DEF Inv, Fresh, Links, Booked, Imported, Existing

\* What the types say of one row.
LEMMA RowTypes ==
  ASSUME Inv
  PROVE  /\ service \in [Ids -> ServiceRow \cup {NoService}]
         /\ nextService \in Nat \ {0} /\ nextToken \in Nat \ {0} /\ corrected \in SUBSET Ids
         /\ Imported.rows = service /\ Imported.ids = nextService
         /\ Imported.tokens = nextToken /\ Imported.moved = corrected
         /\ RowsOf(Imported) = Rows
         /\ \A s \in Rows : s \in Ids /\ service[s] \in ServiceRow /\ service[s] # NoService
         /\ \A a \in Existing : a \in Accounts /\ account[a] \in AccountRow
BY DEF Inv, Others, Imported, Tables, Rows, RowsOf, Existing

\* A step that changes a service's row but keeps its link keeps all links.
LEMMA RowChanged ==
  ASSUME Inv, NEW s \in Rows, NEW row \in ServiceRow, row.token = service[s].token,
         service' = [service EXCEPT ![s] = row],
         UNCHANGED <<today, account, nextService, nextToken>>,
         corrected' \in SUBSET Ids, renewals' \in [Ids -> Seq(Renewal)],
         \A r \in Ids \ {s} : renewals'[r] = renewals[r] /\ (r \in corrected' <=> r \in corrected),
         Follows(s, row.expires, corrected)'
  PROVE  Inv'
<1> USE RowTypes
<1>1. \A r \in Ids : service'[r] = IF r = s THEN row ELSE service[r]
  OBVIOUS
<1>2. row # NoService
  OBVIOUS
<1>3. RowsOf(Imported)' = Rows /\ Existing' = Existing
  BY <1>1, <1>2 DEF RowsOf, Rows, Imported, Existing
<1>4. Others'
  BY DEF Inv, Others
<1>5. Imported' \in Tables /\ Fresh(Imported)'
  BY <1>1, <1>2 DEF Inv, Imported, Tables, Fresh
<1>6. \A r \in Rows : service'[r].token = service[r].token
  BY <1>1
<1>7. Links(Imported)'
  <2>1. Imported.rows' = service' /\ Imported.tokens' = nextToken
    BY DEF Imported
  <2>2. Links(Imported)
    BY DEF Inv
  <2> QED
    BY <1>3, <1>6, <2>1, <2>2 DEF Links
<1>8. Booked(Imported)'
  <2> SUFFICES ASSUME NEW r \in Ids
               PROVE  IF service'[r] = NoService THEN renewals'[r] = << >> /\ r \notin corrected'
                      ELSE Follows(r, service[r].expires, corrected)'
    BY DEF Booked, Imported
  <2>1. CASE r = s
    BY <1>1, <1>2, <2>1 DEF Follows
  <2>2. CASE r # s
    BY <1>1, <2>2 DEF Inv, Booked, Imported, Follows
  <2> QED
    BY <2>1, <2>2
<1> QED
  BY <1>4, <1>5, <1>7, <1>8 DEF Inv

LEMMA AddInv ==
  ASSUME Inv, NEW f \in Form, Add(f)
  PROVE  Inv'
<1> USE RowTypes
<1> DEFINE row == New(f, nextToken)
           s == nextService
<1>1. s \in Ids /\ service[s] = NoService /\ row \in ServiceRow /\ row.token = nextToken
  <2>1. s \in Ids /\ service[s] = NoService
    BY DEF Add, Ids, Inv, Fresh
  <2> QED
    BY <2>1, FormRow DEF New
<1>2. \A r \in Ids : service'[r] = IF r = s THEN row ELSE service[r]
  BY <1>1 DEF Add
<1>3. /\ nextService' = s + 1 /\ nextToken' = nextToken + 1
      /\ UNCHANGED <<today, account, renewals, corrected>>
  BY DEF Add
<1>4. service' \in [Ids -> ServiceRow \cup {NoService}]
  BY <1>1 DEF Add
<1> HIDE DEF row
<1>5. RowsOf(Imported)' = Rows \cup {s} /\ Existing' = Existing /\ s \notin Rows
  BY <1>1, <1>2, <1>3 DEF RowsOf, Rows, Imported, Existing
<1>6. Others'
  BY <1>3 DEF Inv, Others
<1>7. Imported' \in Tables /\ Fresh(Imported)'
  BY <1>2, <1>3, <1>4 DEF Inv, Imported, Tables, Fresh, Ids
<1>8. Links(Imported)'
  <2>1. \A r \in Rows : /\ service[r].token \in Nat /\ service[r].token < nextToken
                        /\ service'[r] = service[r] /\ r # s
                        /\ \A q \in Rows : q # r => service[q].token # service[r].token
                        /\ \A a \in Existing : account[a].token # service[r].token
    BY <1>2, <1>5 DEF Inv, Links, ServiceRow
  <2>2. \A a \in Existing : /\ account[a].token # nextToken
                            /\ account[a].token # NoToken => account[a].token < nextToken + 1
    <3> SUFFICES ASSUME NEW a \in Existing
                 PROVE  /\ account[a].token # nextToken
                        /\ account[a].token # NoToken => account[a].token < nextToken + 1
      OBVIOUS
    <3>1. account[a].token \in Nat \cup {NoToken}
      BY DEF AccountRow
    <3>2. account[a].token # NoToken => account[a].token < nextToken
      BY DEF Links, Inv
    <3> QED
      BY <3>1, <3>2
  <2>3. service'[s].token = nextToken
    BY <1>1, <1>2
  <2> QED
    BY <1>3, <1>5, <2>1, <2>2, <2>3 DEF Links, Imported
<1>9. Booked(Imported)'
  <2> SUFFICES ASSUME NEW r \in Ids
               PROVE  IF service'[r] = NoService THEN renewals[r] = << >> /\ r \notin corrected
                      ELSE Follows(r, service'[r].expires, corrected)
    BY <1>3 DEF Booked, Imported, Follows
  <2>1. IF service[r] = NoService THEN renewals[r] = << >> /\ r \notin corrected
        ELSE Follows(r, service[r].expires, corrected)
    BY DEF Inv, Booked
  <2> QED
    BY <1>1, <1>2, <2>1 DEF Follows
<1> QED
  BY <1>6, <1>7, <1>8, <1>9 DEF Inv

LEMMA EditInv ==
  ASSUME Inv, NEW s \in Rows, NEW shown, NEW f \in Form, Edit(s, shown, f)
  PROVE  Inv'
<1> USE RowTypes
<1>1. PICK row \in ServiceRow : /\ row.token = service[s].token /\ row.expires = f.expires
                                /\ service' = [service EXCEPT ![s] = row]
  <2> DEFINE row == [service[s] EXCEPT !.account = f.account, !.customer = f.customer,
                                       !.started = f.started, !.expires = f.expires]
  <2>1. row \in ServiceRow /\ row.token = service[s].token /\ row.expires = f.expires
    BY DEF ServiceRow, Form
  <2>2. service' = [service EXCEPT ![s] = row]
    BY DEF Edit
  <2> QED
    BY <2>1, <2>2
<1>3. /\ UNCHANGED <<today, account, renewals, nextService, nextToken>>
      /\ corrected' = IF f.expires = service[s].expires THEN corrected ELSE corrected \cup {s}
  BY DEF Edit
<1>4. Follows(s, service[s].expires, corrected)
  BY DEF Inv, Booked
<1>5. Follows(s, row.expires, corrected)'
  BY <1>1, <1>3, <1>4 DEF Follows
<1>6. corrected' \in SUBSET Ids /\ \A r \in Ids \ {s} : r \in corrected' <=> r \in corrected
  BY <1>3
<1> QED
  BY <1>1, <1>3, <1>5, <1>6, RowChanged DEF Inv, Others

LEMMA RenewInv ==
  ASSUME Inv, NEW s \in Rows, NEW shown, NEW new \in Dates, Renew(s, shown, new)
  PROVE  Inv'
<1> USE RowTypes
<1>1. PICK row \in ServiceRow : /\ row.token = service[s].token /\ row.expires = new
                                /\ service' = [service EXCEPT ![s] = row]
  <2> DEFINE row == [service[s] EXCEPT !.expires = new, !.status = "active", !.reminded = FALSE]
  <2>1. row \in ServiceRow /\ row.token = service[s].token /\ row.expires = new
    BY DEF ServiceRow, Status
  <2>2. service' = [service EXCEPT ![s] = row]
    BY DEF Renew, Renewed
  <2> QED
    BY <2>1, <2>2
<1>2. /\ corrected' = corrected \ {s}
      /\ UNCHANGED <<today, account, nextService, nextToken>>
      /\ new > service[s].expires
  BY DEF Renew, Renewed
<1>3. PICK entry \in Renewal : /\ entry.old = service[s].expires /\ entry.new = new
                               /\ entry.corrected = (s \in corrected)
                               /\ renewals' = [renewals EXCEPT ![s] = Append(@, entry)]
  <2> DEFINE entry == [old |-> service[s].expires, new |-> new, corrected |-> s \in corrected]
  <2>1. entry \in Renewal
    <3>1. service[s].expires \in Dates /\ (s \in corrected) \in BOOLEAN
      BY DEF ServiceRow
    <3> QED
      BY <3>1 DEF Renewal
  <2>2. renewals' = [renewals EXCEPT ![s] = Append(@, entry)]
    BY DEF Renew, Renewed
  <2> QED
    BY <2>1, <2>2
<1>4. renewals[s] \in Seq(Renewal) /\ renewals \in [Ids -> Seq(Renewal)]
  BY DEF Inv, Others
<1>5. /\ renewals' \in [Ids -> Seq(Renewal)] /\ renewals'[s] = Append(renewals[s], entry)
      /\ \A r \in Ids \ {s} : renewals'[r] = renewals[r]
  BY <1>2, <1>3, <1>4
<1>6. Follows(s, row.expires, corrected)'
  <2> DEFINE old == renewals[s]
  <2>0. Follows(s, service[s].expires, corrected)
    BY DEF Inv, Booked
  <2>1. /\ Len(old) \in Nat /\ DOMAIN old = 1 .. Len(old)
        /\ DOMAIN Append(old, entry) = 1 .. Len(old) + 1
        /\ \A i \in 1 .. Len(old) : Append(old, entry)[i] = old[i]
        /\ Append(old, entry)[Len(old) + 1] = entry
        /\ Len(Append(old, entry)) = Len(old) + 1
    BY <1>3, <1>4
  <2>2. ASSUME NEW i \in 1 .. Len(old) + 1
        PROVE  /\ Append(old, entry)[i].old < Append(old, entry)[i].new
               /\ i > 1 /\ ~Append(old, entry)[i].corrected
                    => Append(old, entry)[i].old = Append(old, entry)[i - 1].new
    <3>1. CASE i \in 1 .. Len(old)
      <4>1. i > 1 => i - 1 \in 1 .. Len(old)
        BY <2>1, <3>1
      <4> QED
        BY <2>0, <2>1, <3>1, <4>1 DEF Follows
    <3>2. CASE i = Len(old) + 1
      <4>1. entry.old < entry.new
        BY <1>2, <1>3 DEF Dates, ServiceRow
      <4>2. ASSUME i > 1, ~entry.corrected PROVE entry.old = old[Len(old)].new
        <5>1. old # << >>
          BY <2>1, <3>2, <4>2
        <5>2. s \notin corrected
          BY <1>3, <4>2
        <5> QED
          BY <1>3, <2>0, <5>1, <5>2 DEF Follows, Last
      <4>3. i > 1 => i - 1 = Len(old) /\ Len(old) \in 1 .. Len(old)
        BY <2>1, <3>2
      <4> QED
        BY <2>1, <3>2, <4>1, <4>2, <4>3
    <3> QED
      BY <2>1, <3>1, <3>2
  <2>3. Last(Append(old, entry)).new = new
    BY <1>3, <2>1 DEF Last
  <2> QED
    BY <1>1, <1>5, <2>1, <2>2, <2>3 DEF Follows
<1> QED
  BY <1>1, <1>2, <1>5, <1>6, RowChanged

\* Reminder and status touch neither link, expiry nor renewals.
LEMMA MarkInv ==
  ASSUME Inv, NEW s \in Rows, Remind(s) \/ \E status \in Status : SetStatus(s, status)
  PROVE  Inv'
<1> USE RowTypes
<1>1. PICK row \in ServiceRow : /\ row.token = service[s].token /\ row.expires = service[s].expires
                                /\ service' = [service EXCEPT ![s] = row]
  <2>1. CASE Remind(s)
    <3> DEFINE row == [service[s] EXCEPT !.reminded = TRUE]
    <3>1. row \in ServiceRow /\ row.token = service[s].token /\ row.expires = service[s].expires
      BY DEF ServiceRow
    <3> QED
      BY <2>1, <3>1 DEF Remind
  <2>2. ASSUME NEW status \in Status, SetStatus(s, status)
        PROVE  \E row \in ServiceRow : /\ row.token = service[s].token
                                       /\ row.expires = service[s].expires
                                       /\ service' = [service EXCEPT ![s] = row]
    <3> DEFINE row == [service[s] EXCEPT !.status = status]
    <3>1. row \in ServiceRow /\ row.token = service[s].token /\ row.expires = service[s].expires
      BY DEF ServiceRow
    <3> QED
      BY <2>2, <3>1 DEF SetStatus
  <2> QED
    BY <2>1, <2>2
<1>2. UNCHANGED <<today, account, renewals, corrected, nextService, nextToken>>
  BY DEF Remind, SetStatus
<1>3. Follows(s, service[s].expires, corrected)
  BY DEF Inv, Booked
<1>4. Follows(s, row.expires, corrected)'
  BY <1>1, <1>2, <1>3 DEF Follows
<1> QED
  BY <1>1, <1>2, <1>4, RowChanged DEF Inv, Others

LEMMA RotateInv ==
  ASSUME Inv, NEW s \in Rows, RotateToken(s)
  PROVE  Inv'
<1> USE RowTypes
<1>1. PICK row \in ServiceRow : /\ row.token = nextToken /\ row.expires = service[s].expires
                                /\ service' = [service EXCEPT ![s] = row]
  <2> DEFINE row == [service[s] EXCEPT !.token = nextToken]
  <2>1. row \in ServiceRow /\ row.token = nextToken /\ row.expires = service[s].expires
    BY DEF ServiceRow
  <2>2. service' = [service EXCEPT ![s] = row]
    BY DEF RotateToken
  <2> QED
    BY <2>1, <2>2
<1>2. nextToken' = nextToken + 1 /\ UNCHANGED <<today, account, renewals, corrected, nextService>>
  BY DEF RotateToken
<1>3. \A r \in Ids : service'[r] = IF r = s THEN row ELSE service[r]
  BY <1>1
<1>4. row # NoService /\ service[s].expires = row.expires
  BY <1>1
<1>5. Imported' \in Tables /\ Fresh(Imported)' /\ Others'
  BY <1>1, <1>2, <1>3, <1>4 DEF Inv, Imported, Tables, Fresh, Others
<1>6. RowsOf(Imported)' = Rows /\ Existing' = Existing
  BY <1>2, <1>3, <1>4 DEF RowsOf, Rows, Imported, Existing
<1>7. Links(Imported)'
  <2>1. \A r \in Rows : /\ service[r].token \in Nat /\ service[r].token < nextToken
                        /\ service'[r].token = IF r = s THEN nextToken ELSE service[r].token
                        /\ \A q \in Rows : q # r => service[q].token # service[r].token
                        /\ \A a \in Existing : account[a].token # service[r].token
    BY <1>1, <1>3 DEF Inv, Links, ServiceRow
  <2>2. \A a \in Existing : /\ account[a].token # nextToken
                            /\ account[a].token # NoToken => account[a].token < nextToken + 1
    <3> SUFFICES ASSUME NEW a \in Existing
                 PROVE  /\ account[a].token # nextToken
                        /\ account[a].token # NoToken => account[a].token < nextToken + 1
      OBVIOUS
    <3>1. account[a].token \in Nat \cup {NoToken}
      BY DEF AccountRow
    <3>2. account[a].token # NoToken => account[a].token < nextToken
      BY DEF Links, Inv
    <3> QED
      BY <3>1, <3>2
  <2> QED
    BY <1>2, <1>6, <2>1, <2>2 DEF Links, Imported
<1>8. Booked(Imported)'
  <2> SUFFICES ASSUME NEW r \in Ids
               PROVE  IF service'[r] = NoService THEN renewals[r] = << >> /\ r \notin corrected
                      ELSE Follows(r, service'[r].expires, corrected)
    BY <1>2 DEF Booked, Imported, Follows
  <2>1. IF service[r] = NoService THEN renewals[r] = << >> /\ r \notin corrected
        ELSE Follows(r, service[r].expires, corrected)
    BY DEF Inv, Booked
  <2> QED
    BY <1>3, <1>4, <2>1
<1> QED
  BY <1>5, <1>7, <1>8 DEF Inv

\* A step that only takes services away, with all that belongs to them.
LEMMA GoneInv ==
  ASSUME Inv, NEW gone \in SUBSET Rows,
         service' = [s \in Ids |-> IF s \in gone THEN NoService ELSE service[s]],
         renewals' = [s \in Ids |-> IF s \in gone THEN << >> ELSE renewals[s]],
         corrected' = corrected \ gone,
         account' \in [Accounts -> AccountRow \cup {NoAccount}],
         \A a \in Accounts : account'[a] \in {NoAccount, account[a]},
         UNCHANGED <<today, nextService, nextToken>>
  PROVE  Inv'
<1> USE RowTypes
<1>1. RowsOf(Imported)' = Rows \ gone
  BY DEF RowsOf, Rows, Imported
<1>2. \A a \in Existing' : a \in Existing /\ account'[a] = account[a]
  BY DEF Existing
<1>3. Others'
  BY DEF Inv, Others
<1>4. Imported' \in Tables /\ Fresh(Imported)'
  BY DEF Inv, Imported, Tables, Fresh
<1>5. Links(Imported)'
  <2>1. \A r \in Rows \ gone : service'[r] = service[r]
    OBVIOUS
  <2> QED
    BY <1>1, <1>2, <2>1 DEF Inv, Links, Imported
<1>6. Booked(Imported)'
  BY DEF Inv, Booked, Imported, Follows
<1> QED
  BY <1>3, <1>4, <1>5, <1>6 DEF Inv

LEMMA DeleteServiceInv ==
  ASSUME Inv, NEW s \in Rows, DeleteService(s)
  PROVE  Inv'
<1> USE RowTypes
<1>1. PICK gone \in SUBSET Rows :
        /\ service' = [r \in Ids |-> IF r \in gone THEN NoService ELSE service[r]]
        /\ renewals' = [r \in Ids |-> IF r \in gone THEN << >> ELSE renewals[r]]
        /\ corrected' = corrected \ gone /\ UNCHANGED <<today, account, nextService, nextToken>>
  <2>1. /\ service' = [r \in Ids |-> IF r \in {s} THEN NoService ELSE service[r]]
        /\ renewals' = [r \in Ids |-> IF r \in {s} THEN << >> ELSE renewals[r]]
        /\ corrected' = corrected \ {s} /\ UNCHANGED <<today, account, nextService, nextToken>>
    BY DEF DeleteService, Inv, Others
  <2>2. {s} \in SUBSET Rows
    OBVIOUS
  <2> DEFINE gone == {s}
  <2>3. /\ service' = [r \in Ids |-> IF r \in gone THEN NoService ELSE service[r]]
        /\ renewals' = [r \in Ids |-> IF r \in gone THEN << >> ELSE renewals[r]]
        /\ corrected' = corrected \ gone
    BY <2>1
  <2>4. gone \in SUBSET Rows
    BY <2>2
  <2> HIDE DEF gone
  <2> QED
    BY <2>1, <2>3, <2>4
<1>2. /\ account' \in [Accounts -> AccountRow \cup {NoAccount}]
      /\ \A b \in Accounts : account'[b] \in {NoAccount, account[b]}
  BY <1>1 DEF Inv, Others
<1> QED
  BY <1>1, <1>2, GoneInv

LEMMA DeleteAccountInv ==
  ASSUME Inv, NEW a \in Accounts, DeleteAccount(a)
  PROVE  Inv'
<1> USE RowTypes
<1>1. account \in [Accounts -> AccountRow \cup {NoAccount}]
  BY DEF Inv, Others
<1>2. account' = [account EXCEPT ![a] = NoAccount]
  BY DEF DeleteAccount, Drop
<1>3. PICK gone \in SUBSET Rows :
        /\ service' = [s \in Ids |-> IF s \in gone THEN NoService ELSE service[s]]
        /\ renewals' = [s \in Ids |-> IF s \in gone THEN << >> ELSE renewals[s]]
        /\ corrected' = corrected \ gone /\ UNCHANGED <<today, nextService, nextToken>>
  BY DEF DeleteAccount, Drop
<1>4. /\ account' \in [Accounts -> AccountRow \cup {NoAccount}]
      /\ \A b \in Accounts : account'[b] \in {NoAccount, account[b]}
  BY <1>1, <1>2
<1> QED
  BY <1>3, <1>4, GoneInv

LEMMA AccountInv ==
  ASSUME Inv, NEW a \in Accounts,
         RotateAccountToken(a) \/ \E status \in Status : SetAccountStatus(a, status)
  PROVE  Inv'
<1> USE RowTypes
<1>1. account \in [Accounts -> AccountRow \cup {NoAccount}] /\ a \in Existing
  BY DEF Inv, Others, RotateAccountToken, SetAccountStatus
<1>2. PICK row \in AccountRow :
        /\ account' = [account EXCEPT ![a] = row]
        /\ \/ row.token = account[a].token /\ nextToken' = nextToken
           \/ row.token = nextToken /\ nextToken' = nextToken + 1
  <2>1. CASE RotateAccountToken(a)
    <3> DEFINE row == [account[a] EXCEPT !.token = nextToken]
    <3>1. row \in AccountRow /\ row.token = nextToken
      BY <1>1 DEF AccountRow
    <3> QED
      BY <2>1, <3>1 DEF RotateAccountToken
  <2>2. ASSUME NEW status \in Status, SetAccountStatus(a, status)
        PROVE  \E row \in AccountRow : /\ account' = [account EXCEPT ![a] = row]
                                       /\ row.token = account[a].token /\ nextToken' = nextToken
    <3> DEFINE row == [account[a] EXCEPT !.status = status]
    <3>1. row \in AccountRow /\ row.token = account[a].token
      BY <1>1 DEF AccountRow
    <3> QED
      BY <2>2, <3>1 DEF SetAccountStatus
  <2> QED
    BY <2>1, <2>2
<1>3. UNCHANGED <<today, service, renewals, corrected, nextService>>
  BY DEF RotateAccountToken, SetAccountStatus
<1>4. Others'
  BY <1>1, <1>2, <1>3 DEF Inv, Others
<1>5. Imported' \in Tables /\ Fresh(Imported)' /\ RowsOf(Imported)' = Rows /\ Booked(Imported)'
  BY <1>2, <1>3 DEF Inv, Imported, Tables, Fresh, Booked, Follows, RowsOf, Rows
<1>6. /\ Existing' = Existing
      /\ \A b \in Existing : account'[b].token = IF b = a THEN row.token ELSE account[b].token
  BY <1>1, <1>2 DEF Existing
<1>7. Links(Imported)'
  <2>1. \A r \in Rows : /\ service[r].token \in Nat /\ service[r].token < nextToken
                        /\ \A q \in Rows : q # r => service[q].token # service[r].token
                        /\ \A b \in Existing : account[b].token # service[r].token
    BY DEF Inv, Links, ServiceRow
  <2>2. \A b \in Existing : /\ account[b].token \in Nat \cup {NoToken}
                            /\ account[b].token # NoToken => account[b].token < nextToken
    BY DEF Inv, Links, AccountRow
  <2>3. \A r \in Rows : \A b \in Existing : account'[b].token # service[r].token
    BY <1>1, <1>2, <1>6, <2>1
  <2>4. \A b \in Existing : account'[b].token # NoToken => account'[b].token < nextToken'
    BY <1>1, <1>2, <1>6, <2>2
  <2>5. \A r \in Rows : service[r].token < nextToken'
    BY <1>2, <2>1
  <2> QED
    BY <1>3, <1>5, <1>6, <2>1, <2>3, <2>4, <2>5 DEF Links, Imported
<1> QED
  BY <1>4, <1>5, <1>7 DEF Inv

LEMMA ImportInv ==
  ASSUME Inv, NEW n \in 1 .. MaxImport, NEW file \in [1 .. n -> Form], Import(file)
  PROVE  Inv'
<1> USE RowTypes
<1>1. n \in Nat /\ Len(file) = n
  OBVIOUS
<1>2. Grown(Loaded(file), n)
  BY <1>1, ImportGrows DEF Import
<1>3. Imported' = Loaded(file) /\ UNCHANGED <<today, account, renewals>>
  BY <1>2 DEF Import, Imported, Grown, Tables
<1>5. /\ Imported' \in Tables
      /\ RowsOf(Imported)' = RowsOf(Loaded(file)) /\ Existing' = Existing
  BY <1>2, <1>3 DEF Grown, RowsOf, Existing
<1>6. Others'
  BY <1>3 DEF Inv, Others
<1> DEFINE db == Loaded(file)
<1>7. Fresh(db) /\ Links(db) /\ Booked(db)
  BY <1>2 DEF Grown
<1>8. /\ Imported.rows' = db.rows /\ Imported.ids' = db.ids
      /\ Imported.tokens' = db.tokens /\ Imported.moved' = db.moved
  BY <1>3
<1> HIDE DEF db
<1>9. Fresh(Imported)' /\ Links(Imported)' /\ Booked(Imported)'
  BY <1>3, <1>5, <1>7, <1>8 DEF Fresh, Links, Booked, Follows, db
<1> QED
  BY <1>5, <1>6, <1>9 DEF Inv

LEMMA InvStep == Inv /\ [Next]_vars => Inv'
<1> SUFFICES ASSUME Inv, [Next]_vars PROVE Inv'
  OBVIOUS
<1> USE RowTypes
<1>1. ASSUME today' \in Dates,
             UNCHANGED <<account, service, renewals, corrected, nextService, nextToken>>
      PROVE  Inv'
  BY <1>1 DEF Inv, Others, Imported, Tables, Fresh, Links, Booked, Follows, RowsOf, Existing
<1>2. today \in Dates
  BY DEF Inv, Others
<1>3. CASE Midnight
  <2>1. today' \in Dates
    BY <1>2, <1>3 DEF Midnight, Dates
  <2> QED
    BY <1>1, <1>3, <2>1 DEF Midnight
<1>4. CASE \E f \in Form : Add(f)
  BY <1>4, AddInv
<1>5. ASSUME NEW s \in Rows, OpenPage(s) PROVE Inv'
  BY <1>1, <1>2, <1>5 DEF OpenPage
<1>6. ASSUME NEW s \in Rows, Remind(s) \/ \E status \in Status : SetStatus(s, status)
      PROVE  Inv'
  BY <1>6, MarkInv
<1>7. ASSUME NEW s \in Rows, RotateToken(s) PROVE Inv'
  BY <1>7, RotateInv
<1>8. ASSUME NEW s \in Rows, DeleteService(s) PROVE Inv'
  BY <1>8, DeleteServiceInv
<1>9. ASSUME NEW s \in Rows, NEW shown, NEW f \in Form, Edit(s, shown, f) PROVE Inv'
  BY <1>9, EditInv
<1>10. ASSUME NEW s \in Rows, NEW shown, NEW new \in Dates, Renew(s, shown, new) PROVE Inv'
  BY <1>10, RenewInv
<1>11. ASSUME NEW n \in 1 .. MaxImport, NEW file \in [1 .. n -> Form], Import(file) PROVE Inv'
  BY <1>11, ImportInv
<1>12. ASSUME NEW a \in Accounts,
              RotateAccountToken(a) \/ \E status \in Status : SetAccountStatus(a, status)
       PROVE  Inv'
  BY <1>12, AccountInv
<1>13. ASSUME NEW a \in Accounts, DeleteAccount(a) PROVE Inv'
  BY <1>13, DeleteAccountInv
<1>14. CASE UNCHANGED vars
  BY <1>1, <1>2, <1>14 DEF vars
<1> QED
  BY <1>3, <1>4, <1>5, <1>6, <1>7, <1>8, <1>9, <1>10, <1>11, <1>12, <1>13, <1>14 DEF Next

-----------------------------------------------------------------------------
(* The theorems.                                                           *)

\* The invariant: rows have their types, ids and links are given out once, and the
\* renewals of each service lead up to its expiry (customer_services, service_renewals).
THEOREM InvCorrect == Spec => []Inv
<1> QED
  BY InvInit, InvStep, PTL DEF Spec

LEMMA StateOfRow ==
  ASSUME Inv, NEW s \in Rows
  PROVE  /\ service[s].started \in Nat /\ service[s].expires \in Nat /\ today \in Nat
         /\ State(s) = "active" <=> Running(s) /\ Unexpired(s) /\ Active(service[s].account)
         /\ State(s) = "expired" <=> Running(s) /\ ~Unexpired(s)
         /\ State(s) \in {"active", "account_inactive"} <=> Running(s) /\ Unexpired(s)
<1>1. service[s] \in ServiceRow /\ today \in Nat
  BY RowTypes DEF Inv, Others, Dates
<1>2. service[s].started \in Nat /\ service[s].expires \in Nat
  BY <1>1 DEF ServiceRow, Dates
<1>3. /\ service[s].started > today <=> ~(service[s].started <= today)
      /\ service[s].expires < today <=> ~(service[s].expires >= today)
  BY <1>1, <1>2
<1> DEFINE on == service[s].status = "active"
           begun == service[s].started <= today
           valid == service[s].expires >= today
           open == Active(service[s].account)
<1>4. /\ Running(s) <=> on /\ begun
      /\ Unexpired(s) <=> valid
  BY DEF Running, Unexpired
<1>5. State(s) = IF ~on THEN "suspended" ELSE IF ~begun THEN "pending"
                 ELSE IF ~valid THEN "expired" ELSE IF ~open THEN "account_inactive" ELSE "active"
  BY <1>3 DEF State
<1> HIDE DEF on, begun, valid, open
<1>6. /\ State(s) = "active" <=> Running(s) /\ Unexpired(s) /\ open
      /\ State(s) = "expired" <=> Running(s) /\ ~Unexpired(s)
      /\ State(s) \in {"active", "account_inactive"} <=> Running(s) /\ Unexpired(s)
  BY <1>4, <1>5
<1> QED
  BY <1>1, <1>2, <1>6 DEF open

LEMMA LinksMatch == Inv => LinkMatchesState
<1> SUFFICES ASSUME Inv, NEW s \in Rows
             PROVE  Served(service[s].token) =
                      IF State(s) = "active" THEN {service[s].account} ELSE {}
  BY DEF LinkMatchesState
<1> DEFINE k == service[s].token
           byLink == {x \in Rows : service[x].token = k /\ Running(x) /\ Unexpired(x)
                                                        /\ Active(service[x].account)}
           byService == {service[x].account : x \in byLink}
           byAccount == {a \in Existing : account[a].token = k /\ Active(a)}
<1>1. \A x \in Rows : service[x].token = k => x = s
  BY RowTypes DEF Inv, Links
<1>2. byAccount = {}
  BY RowTypes DEF Inv, Links
<1>3. Served(k) = IF byService # {} THEN byService ELSE byAccount
  BY DEF Served
<1>4. CASE State(s) = "active"
  <2>1. byLink = {s}
    BY <1>1, <1>4, StateOfRow
  <2> QED
    BY <1>3, <1>4, <2>1
<1>5. CASE State(s) # "active"
  <2>1. byLink = {}
    BY <1>1, <1>5, StateOfRow
  <2> QED
    BY <1>2, <1>3, <1>5, <2>1
<1> QED
  BY <1>4, <1>5

\* A customer's link works exactly while customer_service_state calls the service active,
\* and then returns the nodes of the customer's account (public_subscribe).
THEOREM LinkFollowsState == Spec => []LinkMatchesState
<1> QED
  BY InvCorrect, LinksMatch, PTL

LEMMA PagesMatch == Inv => PagesAgree
<1> SUFFICES ASSUME Inv PROVE PagesAgree
  OBVIOUS
<1>1. ExpiredServices = {s \in Rows : State(s) = "expired"}
  <2>1. ASSUME NEW s \in Rows PROVE s \in ExpiredServices <=> State(s) = "expired"
    <3>1. today \in Nat /\ DueDays \in Nat /\ service[s].expires \in Nat
      BY StateOfRow
    <3>2. service[s].expires < today => service[s].expires <= today + DueDays
      BY <3>1
    <3> QED
      BY <3>1, <3>2, StateOfRow DEF ExpiredServices, RenewalServices, Unexpired
  <2> QED
    BY <2>1 DEF ExpiredServices, RenewalServices
<1>2. RenewalServices \ ExpiredServices =
        {s \in Rows : /\ State(s) \in {"active", "account_inactive"}
                      /\ service[s].expires - today \in 0 .. DueDays}
  <2>1. ASSUME NEW s \in Rows
        PROVE  s \in RenewalServices \ ExpiredServices
                 <=> /\ State(s) \in {"active", "account_inactive"}
                     /\ service[s].expires - today \in 0 .. DueDays
    <3>1. today \in Nat /\ DueDays \in Nat /\ service[s].expires \in Nat
      BY StateOfRow
    <3>2. service[s].expires - today \in 0 .. DueDays
            <=> today <= service[s].expires /\ service[s].expires <= today + DueDays
      BY <3>1
    <3>3. Unexpired(s) <=> today <= service[s].expires
      BY <3>1 DEF Unexpired
    <3>4. ~(service[s].expires < today) <=> today <= service[s].expires
      BY <3>1
    <3> QED
      BY <3>2, <3>3, <3>4, StateOfRow DEF ExpiredServices, RenewalServices
  <2> QED
    BY <2>1 DEF ExpiredServices, RenewalServices
<1>3. ASSUME NEW a \in Accounts, Active(a)
      PROVE  {s \in Rows : service[s].account = a /\ Running(s) /\ Unexpired(s)}
               = {s \in Rows : Served(service[s].token) = {a}}
  <2>1. ASSUME NEW s \in Rows
        PROVE  service[s].account = a /\ Running(s) /\ Unexpired(s)
                 <=> Served(service[s].token) = {a}
    BY <1>3, LinksMatch, StateOfRow DEF LinkMatchesState
  <2> QED
    BY <2>1
<1> QED
  BY <1>1, <1>2, <1>3 DEF PagesAgree, ExpiredCount, DueCount, ServiceCount

\* The dashboard, the list of services and the links count the same services
\* (dashboard, services_list, public_subscribe).
THEOREM PagesCountAlike == Spec => []PagesAgree
<1> QED
  BY InvCorrect, PagesMatch, PTL

\* Renewals extend the service one after the other and lead up to its present expiry,
\* whatever pages the forms came from (service_renew).
THEOREM RenewalsBooked == Spec => []RenewalLedger
<1>1. Inv => RenewalLedger
  BY RowTypes DEF Inv, Booked, Follows, RenewalLedger
<1> QED
  BY <1>1, InvCorrect, PTL

\* What a step does to the rows of services.
RowStep(s) ==
  \/ DeleteService(s)
  \/ /\ service'[s] # NoService
     /\ Len(renewals'[s]) >= Len(renewals[s])
     /\ service'[s].status = service[s].status \/ SetStatus(s, service'[s].status)
        \/ Len(renewals'[s]) > Len(renewals[s])

LEMMA RowSteps ==
  ASSUME Inv, [Next]_vars, NEW s \in Rows
  PROVE  RowStep(s)
<1> USE RowTypes DEF RowStep
<1>0. /\ renewals \in [Ids -> Seq(Renewal)] /\ Len(renewals[s]) \in Nat
      /\ service[s] # NoService /\ service[s] \in ServiceRow
  BY DEF Inv, Others
<1>1. ASSUME service'[s] = service[s], renewals'[s] = renewals[s] PROVE RowStep(s)
  BY <1>0, <1>1
<1>2. CASE Midnight
  BY <1>1, <1>2 DEF Midnight
<1>3. ASSUME NEW f \in Form, Add(f) PROVE RowStep(s)
  <2>1. nextService # s
    BY <1>0 DEF Inv, Fresh, Ids
  <2> QED
    BY <1>1, <1>3, <2>1 DEF Add
<1>4. ASSUME NEW r \in Rows, OpenPage(r) PROVE RowStep(s)
  BY <1>1, <1>4 DEF OpenPage
<1>5. ASSUME NEW r \in Rows, Remind(r) PROVE RowStep(s)
  <2>1. CASE r = s
    <3>1. service'[s] = [service[s] EXCEPT !.reminded = TRUE]
      BY <1>5, <2>1 DEF Remind
    <3>2. service'[s] \in ServiceRow /\ service'[s].status = service[s].status
      BY <1>0, <3>1 DEF ServiceRow
    <3>3. Len(renewals'[s]) >= Len(renewals[s])
      BY <1>0, <1>5 DEF Remind
    <3> QED
      BY <1>0, <3>2, <3>3
  <2>2. CASE r # s
    BY <1>1, <1>5, <2>2 DEF Remind
  <2> QED
    BY <2>1, <2>2
<1>6. ASSUME NEW r \in Rows, NEW status \in Status, SetStatus(r, status) PROVE RowStep(s)
  <2>1. CASE r = s
    <3>1. service'[s] = [service[s] EXCEPT !.status = status]
      BY <1>6, <2>1 DEF SetStatus
    <3>2. service'[s] \in ServiceRow /\ service'[s].status = status
      BY <1>0, <3>1 DEF ServiceRow
    <3>3. Len(renewals'[s]) >= Len(renewals[s])
      BY <1>0, <1>6 DEF SetStatus
    <3> QED
      BY <1>6, <2>1, <3>2, <3>3
  <2>2. CASE r # s
    BY <1>1, <1>6, <2>2 DEF SetStatus
  <2> QED
    BY <2>1, <2>2
<1>7. ASSUME NEW r \in Rows, RotateToken(r) PROVE RowStep(s)
  <2>1. CASE r = s
    <3>1. service'[s] = [service[s] EXCEPT !.token = nextToken]
      BY <1>7, <2>1 DEF RotateToken
    <3>2. service'[s] \in ServiceRow /\ service'[s].status = service[s].status
      BY <1>0, <3>1 DEF ServiceRow
    <3>3. Len(renewals'[s]) >= Len(renewals[s])
      BY <1>0, <1>7 DEF RotateToken
    <3> QED
      BY <1>0, <3>2, <3>3
  <2>2. CASE r # s
    BY <1>1, <1>7, <2>2 DEF RotateToken
  <2> QED
    BY <2>1, <2>2
<1>8. ASSUME NEW r \in Rows, DeleteService(r) PROVE RowStep(s)
  <2>1. CASE r = s
    BY <1>8, <2>1
  <2>2. CASE r # s
    BY <1>0, <1>1, <1>8, <2>2 DEF DeleteService
  <2> QED
    BY <2>1, <2>2
<1>9. ASSUME NEW r \in Rows, NEW shown, NEW f \in Form, Edit(r, shown, f) PROVE RowStep(s)
  <2>1. CASE r = s
    <3>1. service'[s] = [service[s] EXCEPT !.account = f.account, !.customer = f.customer,
                                           !.started = f.started, !.expires = f.expires]
      BY <1>9, <2>1 DEF Edit
    <3>2. service'[s] \in ServiceRow /\ service'[s].status = service[s].status
      BY <1>0, <3>1 DEF ServiceRow, Form
    <3>3. Len(renewals'[s]) >= Len(renewals[s])
      BY <1>0, <1>9 DEF Edit
    <3> QED
      BY <1>0, <3>2, <3>3
  <2>2. CASE r # s
    BY <1>1, <1>9, <2>2 DEF Edit
  <2> QED
    BY <2>1, <2>2
<1>10. ASSUME NEW r \in Rows, NEW shown, NEW new \in Dates, Renew(r, shown, new) PROVE RowStep(s)
  <2>1. CASE r = s
    <3>1. service'[s] = [service[s] EXCEPT !.expires = new, !.status = "active", !.reminded = FALSE]
      BY <1>10, <2>1 DEF Renew, Renewed
    <3>2. service'[s] \in ServiceRow
      BY <1>0, <3>1 DEF ServiceRow, Status
    <3>3. PICK entry \in Renewal : renewals'[s] = Append(renewals[s], entry)
      <4> DEFINE entry == [old |-> service[s].expires, new |-> new, corrected |-> s \in corrected]
      <4>1. entry \in Renewal
        BY <1>0 DEF Renewal, ServiceRow
      <4>2. renewals'[s] = Append(renewals[s], entry)
        BY <1>0, <1>10, <2>1 DEF Renew, Renewed
      <4> QED
        BY <4>1, <4>2
    <3>4. Len(renewals'[s]) = Len(renewals[s]) + 1
      BY <1>0, <3>3
    <3> QED
      BY <1>0, <3>2, <3>4
  <2>2. CASE r # s
    BY <1>0, <1>1, <1>10, <2>2 DEF Renew, Renewed
  <2> QED
    BY <2>1, <2>2
<1>11. ASSUME NEW n \in 1 .. MaxImport, NEW file \in [1 .. n -> Form], Import(file) PROVE RowStep(s)
  <2>1. n \in Nat /\ Len(file) = n
    OBVIOUS
  <2>2. Grown(Loaded(file), n)
    BY <1>11, <2>1, ImportGrows DEF Import
  <2>3. service' = Loaded(file).rows /\ renewals' = renewals
    BY <1>11 DEF Import
  <2> HIDE DEF RowStep
  <2>4. service'[s] # NoService /\ service'[s].status = service[s].status
    BY <2>2, <2>3 DEF Grown, RowsOf
  <2> QED
    BY <1>0, <2>3, <2>4 DEF RowStep
<1>12. ASSUME NEW a \in Accounts, RotateAccountToken(a) PROVE RowStep(s)
  BY <1>1, <1>12 DEF RotateAccountToken
<1>13. ASSUME NEW a \in Accounts, NEW status \in Status, SetAccountStatus(a, status) PROVE RowStep(s)
  BY <1>1, <1>13 DEF SetAccountStatus
<1>14. ASSUME NEW a \in Accounts, DeleteAccount(a) PROVE RowStep(s)
  BY <1>0, <1>1, <1>14 DEF DeleteAccount, Drop
<1>15. CASE UNCHANGED vars
  BY <1>1, <1>15 DEF vars
<1> HIDE DEF RowStep
<1> QED
  BY <1>2, <1>3, <1>4, <1>5, <1>6, <1>7, <1>8, <1>9, <1>10, <1>11, <1>12, <1>13, <1>14, <1>15
     DEF Next

\* A paused service starts again by its status or a renewal only (service_edit, the
\* import and every other handler leave the status).
THEOREM PausesKept == Spec => PausedStaysPaused
<1>1. ASSUME Inv, [Next]_vars
      PROVE  \A s \in Rows :
               /\ service[s].status # "active"
               /\ service'[s] # NoService
               /\ service'[s].status = "active"
               => SetStatus(s, "active") \/ Len(renewals'[s]) > Len(renewals[s])
  <2> SUFFICES ASSUME NEW s \in Rows, service[s].status # "active", service'[s] # NoService,
                      service'[s].status = "active"
               PROVE  SetStatus(s, "active") \/ Len(renewals'[s]) > Len(renewals[s])
    OBVIOUS
  <2>1. RowStep(s)
    BY <1>1, RowSteps
  <2>2. ~DeleteService(s)
    BY <1>1, RowTypes DEF DeleteService
  <2> QED
    BY <2>1, <2>2 DEF RowStep
<1> QED
  BY <1>1, InvCorrect, PTL DEF Spec, PausedStaysPaused

\* No service and no renewal disappears but by service_delete of that service: the
\* cascade of account_delete never takes one along.
THEOREM CustomersStay == Spec => CustomersKept
<1>1. ASSUME Inv, [Next]_vars
      PROVE  \A s \in Rows : \/ service'[s] # NoService /\ Len(renewals'[s]) >= Len(renewals[s])
                             \/ DeleteService(s)
  BY <1>1, RowSteps DEF RowStep
<1> QED
  BY <1>1, InvCorrect, PTL DEF Spec, CustomersKept

\* A step gives a service or an account the link it had or one that nobody ever had.
LEMMA LinkSteps ==
  ASSUME Inv, [Next]_vars
  PROVE  /\ \A s \in Rows' : \/ s \in Rows /\ service'[s].token = service[s].token
                             \/ service'[s].token >= nextToken
         /\ \A a \in Existing' : /\ a \in Existing
                                 /\ account'[a].token \in {account[a].token, nextToken}
<1> USE RowTypes
<1> DEFINE Old == /\ \A s \in Rows' : \/ s \in Rows /\ service'[s].token = service[s].token
                                      \/ service'[s].token >= nextToken
                  /\ \A a \in Existing' : /\ a \in Existing
                                          /\ account'[a].token \in {account[a].token, nextToken}
<1>0. ASSUME UNCHANGED account,
             \A s \in Rows' : \/ s \in Rows /\ service'[s].token = service[s].token
                              \/ service'[s].token >= nextToken
      PROVE  Old
  BY <1>0 DEF Existing
<1>1. ASSUME UNCHANGED account, NEW s \in Rows, NEW row \in ServiceRow,
             row.token \in {service[s].token, nextToken}, service' = [service EXCEPT ![s] = row]
      PROVE  Old
  <2>1. \A r \in Rows' : r \in Rows /\ service'[r].token \in {service[r].token, nextToken}
    BY <1>1 DEF Rows
  <2> QED
    BY <1>0, <1>1, <2>1
<1>2. ASSUME UNCHANGED <<account, service>> PROVE Old
  BY <1>0, <1>2 DEF Rows
<1>3. ASSUME NEW f \in Form, Add(f) PROVE Old
  <2>1. nextService \in Ids
    BY <1>3 DEF Add, Ids
  <2>2. \A r \in Rows' : (r \in Rows /\ service'[r] = service[r]) \/ service'[r].token = nextToken
    BY <1>3, <2>1 DEF Add, New, Rows
  <2> QED
    BY <1>0, <1>3, <2>2 DEF Add
<1>4. ASSUME NEW s \in Rows, Remind(s) PROVE Old
  <2> DEFINE row == [service[s] EXCEPT !.reminded = TRUE]
  <2>1. row \in ServiceRow /\ row.token = service[s].token
    BY DEF ServiceRow
  <2>2. UNCHANGED account /\ service' = [service EXCEPT ![s] = row]
    BY <1>4 DEF Remind
  <2> HIDE DEF row, Old
  <2> QED
    BY <1>1, <2>1, <2>2
<1>5. ASSUME NEW s \in Rows, NEW status \in Status, SetStatus(s, status) PROVE Old
  <2> DEFINE row == [service[s] EXCEPT !.status = status]
  <2>1. row \in ServiceRow /\ row.token = service[s].token
    BY DEF ServiceRow
  <2>2. UNCHANGED account /\ service' = [service EXCEPT ![s] = row]
    BY <1>5 DEF SetStatus
  <2> HIDE DEF row, Old
  <2> QED
    BY <1>1, <2>1, <2>2
<1>6. ASSUME NEW s \in Rows, RotateToken(s) PROVE Old
  <2> DEFINE row == [service[s] EXCEPT !.token = nextToken]
  <2>1. row \in ServiceRow /\ row.token = nextToken
    BY DEF ServiceRow
  <2>2. UNCHANGED account /\ service' = [service EXCEPT ![s] = row]
    BY <1>6 DEF RotateToken
  <2> HIDE DEF row, Old
  <2> QED
    BY <1>1, <2>1, <2>2
<1>7. ASSUME NEW s \in Rows, DeleteService(s) PROVE Old
  <2>1. \A r \in Rows' : r \in Rows /\ service'[r] = service[r]
    BY <1>7 DEF DeleteService, Rows
  <2> QED
    BY <1>0, <1>7, <2>1 DEF DeleteService
<1>8. ASSUME NEW s \in Rows, NEW shown, NEW f \in Form, Edit(s, shown, f) PROVE Old
  <2> DEFINE row == [service[s] EXCEPT !.account = f.account, !.customer = f.customer,
                                       !.started = f.started, !.expires = f.expires]
  <2>1. row \in ServiceRow /\ row.token = service[s].token
    BY DEF ServiceRow, Form
  <2>2. UNCHANGED account /\ service' = [service EXCEPT ![s] = row]
    BY <1>8 DEF Edit
  <2> HIDE DEF row, Old
  <2> QED
    BY <1>1, <2>1, <2>2
<1>9. ASSUME NEW s \in Rows, NEW shown, NEW new \in Dates, Renew(s, shown, new) PROVE Old
  <2> DEFINE row == [service[s] EXCEPT !.expires = new, !.status = "active", !.reminded = FALSE]
  <2>1. row \in ServiceRow /\ row.token = service[s].token
    BY DEF ServiceRow, Status
  <2>2. UNCHANGED account /\ service' = [service EXCEPT ![s] = row]
    BY <1>9 DEF Renew, Renewed
  <2> HIDE DEF row, Old
  <2> QED
    BY <1>1, <2>1, <2>2
<1>10. ASSUME NEW n \in 1 .. MaxImport, NEW file \in [1 .. n -> Form], Import(file) PROVE Old
  <2>1. n \in Nat /\ Len(file) = n
    OBVIOUS
  <2>2. Grown(Loaded(file), n)
    BY <1>10, <2>1, ImportGrows DEF Import
  <2>3. service' = Loaded(file).rows /\ UNCHANGED account
    BY <1>10 DEF Import
  <2>4. \A r \in Rows' : \/ r \in Rows /\ service'[r].token = service[r].token
                         \/ service'[r].token >= nextToken
    BY <2>2, <2>3 DEF Grown, RowsOf, Rows
  <2> QED
    BY <1>0, <2>3, <2>4
<1>11. ASSUME NEW a \in Accounts, RotateAccountToken(a) PROVE Old
  <2>1. \A b \in Existing' : b \in Existing /\ account'[b].token \in {account[b].token, nextToken}
    BY <1>11 DEF RotateAccountToken, Existing, Inv, Others, AccountRow
  <2> QED
    BY <1>11, <2>1 DEF RotateAccountToken, Rows
<1>12. ASSUME NEW a \in Accounts, NEW status \in Status, SetAccountStatus(a, status) PROVE Old
  <2>1. \A b \in Existing' : b \in Existing /\ account'[b].token = account[b].token
    BY <1>12 DEF SetAccountStatus, Existing, Inv, Others, AccountRow
  <2> QED
    BY <1>12, <2>1 DEF SetAccountStatus, Rows
<1>13. ASSUME NEW a \in Accounts, DeleteAccount(a) PROVE Old
  <2>1. \A b \in Existing' : b \in Existing /\ account'[b] = account[b]
    BY <1>13 DEF DeleteAccount, Drop, Existing, Inv, Others
  <2>2. \A r \in Rows' : r \in Rows /\ service'[r] = service[r]
    BY <1>13 DEF DeleteAccount, Drop, Rows
  <2> QED
    BY <2>1, <2>2
<1> HIDE DEF Old
<1>14. Old
  <2>1. Midnight => UNCHANGED <<account, service>>
    BY DEF Midnight
  <2>2. \A s \in Rows : OpenPage(s) => UNCHANGED <<account, service>>
    BY DEF OpenPage
  <2>3. UNCHANGED vars => UNCHANGED <<account, service>>
    BY DEF vars
  <2>4. CASE Midnight \/ (\E f \in Form : Add(f)) \/ UNCHANGED vars
    BY <1>2, <1>3, <2>1, <2>3, <2>4
  <2>5. ASSUME NEW s \in Rows,
               \/ OpenPage(s) \/ Remind(s) \/ RotateToken(s) \/ DeleteService(s)
               \/ \E status \in Status : SetStatus(s, status)
               \/ \E shown \in Shown(s) : \/ \E f \in Form : Edit(s, shown, f)
                                         \/ \E new \in Dates : Renew(s, shown, new)
        PROVE  Old
    BY <1>2, <1>4, <1>5, <1>6, <1>7, <1>8, <1>9, <2>2, <2>5
  <2>6. CASE \E n \in 1 .. MaxImport : \E file \in [1 .. n -> Form] : Import(file)
    BY <1>10, <2>6
  <2>7. ASSUME NEW a \in Accounts,
               \/ RotateAccountToken(a) \/ DeleteAccount(a)
               \/ \E status \in Status : SetAccountStatus(a, status)
        PROVE  Old
    BY <1>11, <1>12, <1>13, <2>7
  <2> QED
    BY <2>4, <2>5, <2>6, <2>7 DEF Next
<1> QED
  BY <1>14 DEF Old

\* A link that is in no row any more never gets into one again (service_rotate_token,
\* service_delete, api_generate_token).
THEOREM RevokedForGood == Spec => RevokedStaysRevoked
<1>1. ASSUME Inv, [Next]_vars
      PROVE  \A k \in 1 .. nextToken - 1 : k \notin InUse => k \notin InUse'
  <2> SUFFICES ASSUME NEW k \in 1 .. nextToken - 1, k \in InUse' PROVE k \in InUse
    OBVIOUS
  <2>1. nextToken \in Nat /\ k < nextToken /\ k \in Nat
    BY <1>1, RowTypes
  <2>2. CASE \E s \in Rows' : k = service'[s].token
    <3>1. PICK s \in Rows' : k = service'[s].token
      BY <2>2
    <3>2. s \in Rows /\ service'[s].token = service[s].token
      BY <1>1, <2>1, <3>1, LinkSteps
    <3> QED
      BY <3>1, <3>2 DEF InUse
  <2>3. CASE \E a \in Existing' : k = account'[a].token
    <3>1. PICK a \in Existing' : k = account'[a].token
      BY <2>3
    <3>2. a \in Existing /\ account'[a].token = account[a].token
      BY <1>1, <2>1, <3>1, LinkSteps
    <3> QED
      BY <3>1, <3>2 DEF InUse
  <2> QED
    BY <2>2, <2>3 DEF InUse
<1> QED
  BY <1>1, InvCorrect, PTL DEF Spec, RevokedStaysRevoked

HIDE ServicesAssumption

-----------------------------------------------------------------------------
(* The export.                                                             *)

\* What n maps of S make of b, one after the other.
Maps(n, S) == [1 .. n -> [S -> S]]
Orbits(n, S, b, F) ==
  {g \in [0 .. n -> S] : g[0] = b /\ \A k \in 1 .. n : g[k] = F[k][g[k - 1]]}

\* Maps can be applied one after the other.
LEMMA Iterates ==
  ASSUME NEW n \in Nat, NEW S, NEW b \in S, NEW F \in Maps(n, S)
  PROVE  Orbits(n, S, b, F) # {}
<1> DEFINE Upto(m, g) == g[0] = b /\ \A k \in 1 .. m : g[k] = F[k][g[k - 1]]
           P == {m \in Nat : m <= n => \E g \in [0 .. m -> S] : Upto(m, g)}
<1>1. 0 \in P
  <2>1. [k \in 0 .. 0 |-> b] \in [0 .. 0 -> S] /\ Upto(0, [k \in 0 .. 0 |-> b])
    OBVIOUS
  <2> QED
    BY <2>1
<1>2. ASSUME NEW m \in P, m + 1 <= n PROVE \E g \in [0 .. m + 1 -> S] : Upto(m + 1, g)
  <2>1. PICK g \in [0 .. m -> S] : Upto(m, g)
    BY <1>2
  <2> DEFINE h == [k \in 0 .. m + 1 |-> IF k = m + 1 THEN F[m + 1][g[m]] ELSE g[k]]
  <2>2. m \in Nat /\ m + 1 \in 1 .. n /\ g[m] \in S
    BY <1>2, <2>1
  <2>3. F[m + 1][g[m]] \in S
    BY <2>2 DEF Maps
  <2>4. h \in [0 .. m + 1 -> S]
    BY <2>2, <2>3
  <2>5. h[m + 1] = F[m + 1][g[m]] /\ \A k \in 0 .. m : h[k] = g[k]
    BY <2>2
  <2> HIDE DEF h
  <2>6. Upto(m + 1, h)
    BY <2>1, <2>2, <2>5
  <2> QED
    BY <2>4, <2>6
<1>3. \A m \in P : m + 1 \in P
  <2> SUFFICES ASSUME NEW m \in P PROVE m + 1 \in P
    OBVIOUS
  <2>1. m + 1 \in Nat
    OBVIOUS
  <2>2. m + 1 <= n => \E g \in [0 .. m + 1 -> S] : Upto(m + 1, g)
    BY <1>2
  <2> HIDE DEF Upto
  <2> QED
    BY <2>1, <2>2
<1>4. n \in P
  <2> HIDE DEF P
  <2>1. P \in SUBSET Nat
    BY DEF P
  <2> QED
    BY <1>1, <1>3, <2>1, SetInduction
<1> QED
  BY <1>4 DEF Orbits

\* A list without gaps of sequences is a sequence.
LEMMA FlattenType ==
  ASSUME NEW T, NEW n \in Nat, NEW ss \in [1 .. n -> Seq(T)]
  PROVE  FlattenSeq(ss) \in Seq(T)
<1>1. ss \in Seq(Seq(T)) /\ Len(ss) = n
  OBVIOUS
<1>2. CASE n = 0
  <2>1. ss = << >>
    BY <1>1, <1>2
  <2> QED
    BY <1>1, <1>2, <2>1 DEF FlattenSeq
<1>3. CASE n > 0
  <2> DEFINE F == [k \in 1 .. n |-> [x \in Seq(T) |-> IF k = 1 THEN ss[1] ELSE x \o ss[k]]]
             Flattens(f) == f = [i \in 1 .. n |-> IF i = 1 THEN ss[i] ELSE f[i - 1] \o ss[i]]
  <2>1. F \in [1 .. n -> [Seq(T) -> Seq(T)]]
    OBVIOUS
  <2>2. << >> \in Seq(T)
    OBVIOUS
  <2>3. PICK g \in [0 .. n -> Seq(T)] : \A k \in 1 .. n : g[k] = F[k][g[k - 1]]
    <3>1. F \in Maps(n, Seq(T))
      BY <2>1 DEF Maps
    <3> HIDE DEF F
    <3>2. Orbits(n, Seq(T), << >>, F) # {}
      BY <2>2, <3>1, Iterates
    <3> QED
      BY <3>2 DEF Orbits
  <2> DEFINE f == [k \in 1 .. n |-> g[k]]
  <2>4. Flattens(f)
    <3>1. ASSUME NEW i \in 1 .. n
          PROVE  g[i] = IF i = 1 THEN ss[i] ELSE f[i - 1] \o ss[i]
      <4>1. g[i - 1] \in Seq(T) /\ g[i] = F[i][g[i - 1]]
        <5>1. i - 1 \in 0 .. n
          OBVIOUS
        <5> HIDE DEF F, f
        <5> QED
          BY <2>3, <5>1
      <4>2. g[i] = IF i = 1 THEN ss[1] ELSE g[i - 1] \o ss[i]
        BY <4>1
      <4>3. i # 1 => f[i - 1] = g[i - 1]
        OBVIOUS
      <4> HIDE DEF f
      <4> QED
        BY <4>2, <4>3
    <3>2. f = [i \in 1 .. n |-> g[i]]
      OBVIOUS
    <3> HIDE DEF f
    <3> QED
      BY <3>1, <3>2
  <2> DEFINE c == CHOOSE c : Flattens(c)
  <2>5. Flattens(c)
    <3> HIDE DEF f
    <3>1. \E x : Flattens(x)
      BY <2>4
    <3> QED
      BY <3>1
  <2>6. FlattenSeq(ss) = c[n]
    BY <1>1, <1>3 DEF FlattenSeq
  <2> DEFINE P == {m \in Nat : m \in 1 .. n => c[m] \in Seq(T)}
  <2> HIDE DEF c
  <2>7. 0 \in P
    OBVIOUS
  <2>8. ASSUME NEW m \in P, m + 1 \in 1 .. n PROVE c[m + 1] \in Seq(T)
    <3>1. c[m + 1] = IF m + 1 = 1 THEN ss[m + 1] ELSE c[m] \o ss[m + 1]
      <4>1. m \in Nat /\ m + 1 - 1 = m
        BY <2>8
      <4>2. \A i \in 1 .. n : c[i] = IF i = 1 THEN ss[i] ELSE c[i - 1] \o ss[i]
        BY <2>5
      <4> QED
        BY <2>8, <4>1, <4>2
    <3>2. ss[m + 1] \in Seq(T) /\ (m + 1 # 1 => c[m] \in Seq(T))
      BY <2>8
    <3> QED
      BY <3>1, <3>2
  <2>9. \A m \in P : m + 1 \in P
    BY <2>8
  <2>10. n \in P
    <3> HIDE DEF P
    <3>1. P \in SUBSET Nat
      BY DEF P
    <3> QED
      BY <2>7, <2>9, <3>1, SetInduction
  <2> QED
    BY <1>3, <2>6, <2>10
<1> QED
  BY <1>2, <1>3

\* Induction along a list.
LEMMA ListInduction ==
  ASSUME NEW n \in Nat, NEW P, 0 \in P, \A k \in 1 .. n : k - 1 \in P => k \in P
  PROVE  0 .. n \subseteq P
<1> DEFINE Q == {k \in Nat : k <= n => k \in P}
<1>1. 0 \in Q /\ \A k \in Q : k + 1 \in Q
  OBVIOUS
<1>2. Q \in SUBSET Nat
  OBVIOUS
<1> HIDE DEF Q
<1>3. Nat \subseteq Q
  BY <1>1, <1>2, SetInduction
<1> QED
  BY <1>3 DEF Q

\* The rows of rename_rules.
RuleRow == [old : Symbols, new : Name, on : BOOLEAN]

\* A rule makes a name of a name.
LEMMA ReplacedType ==
  ASSUME NEW name \in Name, NEW r \in RuleRow
  PROVE  Replaced(name, r) \in Name
<1> DEFINE ss == [i \in DOMAIN name |-> IF name[i] = r.old THEN r.new ELSE <<name[i]>>]
           T == Symbols \cup Nat
<1>1. name \in Seq(T) /\ Len(name) \in Nat /\ DOMAIN name = 1 .. Len(name) /\ r.new \in Seq(T)
  BY DEF Name, RuleRow
<1>2. \A i \in 1 .. Len(name) : name[i] \in T /\ <<name[i]>> \in Seq(T)
  BY <1>1
<1>3. ss \in [1 .. Len(name) -> Seq(T)]
  BY <1>1, <1>2
<1> HIDE DEF ss, T
<1>4. FlattenSeq(ss) \in Seq(T)
  BY <1>1, <1>3, FlattenType
<1> QED
  BY <1>4 DEF Replaced, ss, T, Name

\* A name after each of the rules is a name.
LEMMA RenamedType ==
  ASSUME NEW name \in Name, NEW rs \in Seq(RuleRow)
  PROVE  \A k \in 0 .. Len(rs) : Renamed(name, rs)[k] \in Name
<1> DEFINE n == Len(rs)
           F == [k \in 1 .. n |-> [x \in Name |-> IF rs[k].on THEN Replaced(x, rs[k]) ELSE x]]
           Renames(f) == f = [k \in 0 .. n |->
                                IF k = 0 THEN name
                                ELSE IF rs[k].on THEN Replaced(f[k - 1], rs[k]) ELSE f[k - 1]]
<1>1. n \in Nat /\ \A k \in 1 .. n : rs[k] \in RuleRow
  OBVIOUS
<1>2. \A k \in 1 .. n : \A x \in Name : Replaced(x, rs[k]) \in Name
  BY <1>1, ReplacedType
<1> HIDE DEF n
<1>3. F \in Maps(n, Name)
  BY <1>1, <1>2 DEF Maps
<1>4. PICK g \in [0 .. n -> Name] : g[0] = name /\ \A k \in 1 .. n : g[k] = F[k][g[k - 1]]
  <2> HIDE DEF F
  <2>1. Orbits(n, Name, name, F) # {}
    BY <1>1, <1>3, Iterates
  <2> QED
    BY <2>1 DEF Orbits
<1>5. \A k \in 1 .. n : g[k] = IF rs[k].on THEN Replaced(g[k - 1], rs[k]) ELSE g[k - 1]
  <2>1. ASSUME NEW k \in 1 .. n
        PROVE  g[k] = IF rs[k].on THEN Replaced(g[k - 1], rs[k]) ELSE g[k - 1]
    <3>1. k - 1 \in 0 .. n
      BY <1>1
    <3>2. g[k - 1] \in Name
      BY <3>1, <1>4
    <3>3. g[k] = F[k][g[k - 1]]
      BY <1>4
    <3> QED
      BY <3>2, <3>3
  <2> QED
    BY <2>1
<1>6. Renames(g)
  <2>1. g = [k \in 0 .. n |-> g[k]]
    BY <1>4
  <2>2. \A k \in 0 .. n : k = 0 \/ k \in 1 .. n
    BY <1>1
  <2>3. \A k \in 0 .. n : g[k] = IF k = 0 THEN name
                                 ELSE IF rs[k].on THEN Replaced(g[k - 1], rs[k]) ELSE g[k - 1]
    BY <1>4, <1>5, <2>2
  <2> HIDE DEF F
  <2> QED
    BY <2>1, <2>3
<1> DEFINE c == CHOOSE c : Renames(c)
<1>7. Renames(c)
  <2>1. \E x : Renames(x)
    BY <1>6
  <2> QED
    BY <2>1
<1>8. Renamed(name, rs) = c
  BY DEF Renamed, n
<1> HIDE DEF c
<1>9. c[0] = name
      /\ \A k \in 1 .. n : c[k] = IF rs[k].on THEN Replaced(c[k - 1], rs[k]) ELSE c[k - 1]
  BY <1>1, <1>7
<1> DEFINE P == {k \in 0 .. n : c[k] \in Name}
<1>10. 0 \in P
  BY <1>1, <1>9
<1>11. \A k \in 1 .. n : k - 1 \in P => k \in P
  <2>1. ASSUME NEW k \in 1 .. n, k - 1 \in P PROVE c[k] \in Name
    BY <2>1, <1>2, <1>9
  <2>2. \A k \in 1 .. n : k \in 0 .. n
    BY <1>1
  <2> QED
    BY <2>1, <2>2
<1> HIDE DEF P
<1>12. 0 .. n \subseteq P
  BY <1>1, <1>10, <1>11, ListInduction
<1> QED
  BY <1>8, <1>12 DEF P, n

\* strip() keeps a name a name and makes none longer.
LEMMA StripType ==
  ASSUME NEW name \in Name
  PROVE  Strip(name) \in Name /\ Len(Strip(name)) <= Len(name)
<1> DEFINE kept == {i \in DOMAIN name : name[i] # Space}
           first == CHOOSE i \in kept : \A j \in kept : i <= j
           last == CHOOSE i \in kept : \A j \in kept : i >= j
           n == Len(name)
<1>1. name \in Seq(Symbols \cup Nat) /\ n \in Nat /\ DOMAIN name = 1 .. n
  BY DEF Name
<1>2. CASE kept = {}
  <2>1. Strip(name) = << >>
    BY <1>2 DEF Strip
  <2> QED
    BY <2>1, <1>1 DEF Name
<1>3. CASE kept # {}
  <2>1. kept \in SUBSET (1 .. n) /\ kept \in SUBSET Nat
    BY <1>1
  <2>2. Strip(name) = SubSeq(name, first, last)
    BY <1>3 DEF Strip
  <2>3. first \in kept
    <3> HIDE DEF kept
    <3>1. \E i \in kept : \A j \in kept : i <= j
      BY <1>3, <2>1, LeastNat
    <3> QED
      BY <3>1
  <2>4. last \in kept
    <3> DEFINE down == {n - i : i \in kept}
    <3>1. down \in SUBSET Nat /\ down # {}
      BY <1>3, <1>1, <2>1
    <3>2. PICK m \in down : \A k \in down : m <= k
      <4> HIDE DEF down
      <4> QED
        BY <3>1, LeastNat
    <3> HIDE DEF kept
    <3>3. \E i \in kept : \A j \in kept : i >= j
      <4>1. PICK i \in kept : m = n - i
        BY <3>2
      <4>2. \A j \in kept : n - j \in down
        OBVIOUS
      <4>3. \A j \in kept : i >= j
        <5> HIDE DEF down
        <5> QED
          BY <4>1, <4>2, <3>2, <2>1, <1>1
      <4> QED
        BY <4>3
    <3> QED
      BY <3>3
  <2> HIDE DEF first, last
  <2>5. first \in 1 .. n /\ last \in 1 .. n
    BY <2>1, <2>3, <2>4
  <2>6. SubSeq(name, first, last) \in Seq(Symbols \cup Nat)
    BY <1>1, <2>5
  <2>7. Len(SubSeq(name, first, last)) <= n
    BY <1>1, <2>5
  <2> QED
    BY <2>2, <2>6, <2>7 DEF Name
<1> QED
  BY <1>2, <1>3

\* The types of what is stored.
ExportTyped ==
  /\ rules \in Seq(RuleRow)
  /\ nodes \in Seq(Node)
  /\ blocked \subseteq Keywords

\* The name a node should have is one, and not too long when the rules apply.
LEMMA DesiredType ==
  ASSUME ExportAssumption, ExportTyped, NEW i \in DOMAIN nodes
  PROVE  /\ Desired(i) \in Name
         /\ Usable(rules, nodes) => Len(Desired(i)) \in 1 .. MaxChars
<1> DEFINE r == Renamed(nodes[i].name, rules)
           s == Strip(r[Len(rules)])
<1>1. nodes[i].name \in Name
  <2>1. nodes[i] \in Node
    BY DEF ExportTyped
  <2> QED
    BY <2>1 DEF Node
<1>2. Len(rules) \in 0 .. Len(rules) /\ Len(rules) \in Nat
  BY DEF ExportTyped
<1>3. r[Len(rules)] \in Name
  <2>1. rules \in Seq(RuleRow)
    BY DEF ExportTyped
  <2>2. \A k \in 0 .. Len(rules) : r[k] \in Name
    BY <1>1, <2>1, RenamedType
  <2> QED
    BY <1>2, <2>2
<1>4. s \in Name /\ Len(s) <= Len(r[Len(rules)])
  BY <1>3, StripType
<1>5. Default \in Name /\ Len(Default) \in 1 .. MaxChars
  BY DEF ExportAssumption
<1>6. Desired(i) = IF s = <<>> THEN Default ELSE s
  BY DEF Desired
<1>7. ASSUME Usable(rules, nodes) PROVE Len(r[Len(rules)]) <= MaxChars
  BY <1>2, <1>7 DEF Usable, Fits
<1>8. s # <<>> => Len(s) \in Nat \ {0}
  BY <1>4 DEF Name
<1> HIDE DEF s, r
<1> QED
  BY <1>4, <1>5, <1>6, <1>7, <1>8 DEF ExportAssumption

\* A name with a number is a name, not too long, and ends in the number.
LEMMA SuffixedType ==
  ASSUME ExportAssumption, NEW name \in Name, NEW k \in Nat
  PROVE  /\ Suffixed(name, k) \in Name
         /\ Len(Suffixed(name, k)) \in 1 .. MaxChars
         /\ Suffixed(name, k)[Len(Suffixed(name, k))] = k
<1> DEFINE T == Symbols \cup Nat
           m == IF Len(name) < MaxChars THEN Len(name) ELSE MaxChars - 1
           s == SubSeq(name, 1, m)
<1>1. name \in Seq(T) /\ Len(name) \in Nat /\ MaxChars \in Nat \ {0} /\ k \in T
  BY DEF Name, ExportAssumption
<1>2. m \in 0 .. MaxChars - 1 /\ m <= Len(name)
  BY <1>1
<1> HIDE DEF m, T
<1>3. s \in Seq(T) /\ Len(s) = m
  BY <1>1, <1>2
<1>4. <<k>> \in Seq(T) /\ Len(<<k>>) = 1
  BY <1>1
<1> HIDE DEF s
<1>5. s \o <<k>> \in Seq(T) /\ Len(s \o <<k>>) = m + 1 /\ (s \o <<k>>)[m + 1] = k
  BY <1>2, <1>3, <1>4
<1> QED
  BY <1>1, <1>2, <1>5 DEF Suffixed, s, m, T, Name

\* The numbers up to one more than the names in use are enough to find one that is free.
LEMMA FreeNumber ==
  ASSUME ExportAssumption, NEW name \in Name, NEW S, IsFiniteSet(S)
  PROVE  \E k \in 2 .. Cardinality(S) + 2 : Suffixed(name, k) \notin S
<1>1. Cardinality(S) \in Nat
  BY FS_CardinalityType
<1> DEFINE c == Cardinality(S)
           K == 2 .. c + 2
<1>2. SUFFICES ASSUME \A k \in K : Suffixed(name, k) \in S PROVE FALSE
  BY <1>1
<1> HIDE DEF c
<1>3. IsFiniteSet(K) /\ Cardinality(K) = c + 1
  <2>1. c \in Nat /\ 2 \in Int /\ c + 2 \in Int /\ ~(2 > c + 2) /\ (c + 2) - 2 + 1 = c + 1
    BY <1>1 DEF c
  <2> QED
    BY <2>1, FS_Interval
<1> DEFINE f == [k \in K |-> Suffixed(name, k)]
<1>4. f \in [K -> S]
  BY <1>2
<1>5. \A x \in K : f[x] = Suffixed(name, x) /\ x \in Nat
  BY <1>1 DEF c
<1> HIDE DEF K, f
<1>6. PICK x \in K, y \in K : x # y /\ f[x] = f[y]
  <2>1. c < c + 1
    BY <1>1 DEF c
  <2> QED
    BY <1>3, <1>4, <2>1, FS_PigeonHole DEF c
<1>7. Suffixed(name, x) = Suffixed(name, y) /\ x \in Nat /\ y \in Nat
  BY <1>5, <1>6
<1> QED
  BY <1>6, <1>7, SuffixedType

\* Pick gives the desired name, or one with a number that nobody has or should have.
LEMMA PickOwn ==
  ASSUME ExportAssumption, NEW name \in Name,
         NEW used, IsFiniteSet(used), NEW kept, IsFiniteSet(kept)
  PROVE  LET p == Pick(name, used, kept)
         IN  /\ p \in Name /\ p \notin used
             /\ IF name \notin used THEN p = name
                ELSE p \notin kept /\ Len(p) \in 1 .. MaxChars
<1>1. CASE name \notin used
  BY <1>1 DEF Pick
<1>2. CASE name \in used
  <2> DEFINE S == used \cup kept
             free == {k \in 2 .. Cardinality(S) + 2 : Suffixed(name, k) \notin S}
             n == CHOOSE k \in free : \A j \in free : k <= j
  <2>1. IsFiniteSet(S)
    BY FS_Union
  <2>2. Cardinality(S) \in Nat
    BY <2>1, FS_CardinalityType
  <2>3. Pick(name, used, kept) = Suffixed(name, n)
    BY <1>2 DEF Pick
  <2> HIDE DEF S
  <2>4. free # {}
    BY <2>1, FreeNumber
  <2>5. free \in SUBSET Nat
    BY <2>2
  <2>6. n \in free
    <3> HIDE DEF free
    <3>1. \E k \in free : \A j \in free : k <= j
      BY <2>4, <2>5, LeastNat
    <3> QED
      BY <3>1
  <2> HIDE DEF n
  <2>7. n \in Nat /\ Suffixed(name, n) \notin S
    BY <2>5, <2>6
  <2> QED
    BY <1>2, <2>3, <2>7, SuffixedType DEF S
<1> QED
  BY <1>1, <1>2

\* The nodes handed out, of the first k.
Given(k) == Valid \cap (1 .. k)

\* One turn of the loop that names node k, when the names of those before are g.
NamedNext(g, k) ==
  [i \in Given(k) |->
     IF i < k THEN g[i] ELSE Pick(Desired(k), Reserved \cup Range(g), Kept)]

\* What holds of the names of the first k nodes.
Named(g, k) ==
  /\ g \in [Given(k) -> Name]
  /\ \A i \in Given(k) : g[i] \notin Reserved
  /\ Usable(rules, nodes) => \A i \in Given(k) : Len(g[i]) \in 1 .. MaxChars
  /\ \A i, j \in Given(k) : i # j => g[i] # g[j]
  /\ \A i \in Given(k) :
       \/ g[i] = Desired(i)
       \/ g[i] \notin Kept
          /\ (Desired(i) \in Reserved \/ \E j \in Given(k) : j < i /\ g[j] = Desired(i))

\* A function takes as many values as its domain has elements, at most.
LEMMA RangeFinite ==
  ASSUME NEW S, IsFiniteSet(S), NEW f, DOMAIN f = S
  PROVE  IsFiniteSet(Range(f))
<1> DEFINE h == [x \in S |-> f[x]]
<1>1. h \in Surjection(S, Range(f))
  BY DEF Surjection, Range
<1> HIDE DEF h
<1> QED
  BY <1>1, FS_Surjection

\* The names kept are finitely many.
LEMMA KeptFinite ==
  ASSUME ExportAssumption, ExportTyped, Valid \subseteq DOMAIN nodes
  PROVE  IsFiniteSet(Kept) /\ Reserved \subseteq Kept /\ \A i \in Valid : Desired(i) \in Kept
<1>1. IsFiniteSet(Valid)
  <2>1. nodes \in Seq(Node)
    BY DEF ExportTyped
  <2>2. DOMAIN nodes = 1 .. Len(nodes) /\ 1 \in Int /\ Len(nodes) \in Int
    BY <2>1
  <2>3. IsFiniteSet(DOMAIN nodes)
    BY <2>2, FS_Interval
  <2> QED
    BY <2>3, FS_Subset
<1> DEFINE f == [i \in Valid |-> Desired(i)]
<1>2. Range(f) = {Desired(i) : i \in Valid}
  BY DEF Range
<1>3. IsFiniteSet(Range(f))
  <2>1. DOMAIN f = Valid
    OBVIOUS
  <2> HIDE DEF f
  <2> QED
    BY <1>1, <2>1, RangeFinite
<1>4. IsFiniteSet({Desired(i) : i \in Valid})
  BY <1>2, <1>3
<1>5. IsFiniteSet(Reserved)
  BY DEF ExportAssumption
<1>6. Kept = {Desired(i) : i \in Valid} \cup Reserved
  BY DEF Kept
<1>7. IsFiniteSet(Kept)
  <2> DEFINE D == {Desired(i) : i \in Valid}
  <2> HIDE DEF D
  <2>1. IsFiniteSet(D) /\ Kept = D \cup Reserved
    BY <1>4, <1>6 DEF D
  <2> QED
    BY <1>5, <2>1, FS_Union
<1> QED
  BY <1>6, <1>7

\* Node k gets a name of its own.
LEMMA NamedStep ==
  ASSUME ExportAssumption, ExportTyped, Valid \subseteq DOMAIN nodes,
         NEW k \in 1 .. Len(nodes), NEW g, Named(g, k - 1)
  PROVE  Named(NamedNext(g, k), k)
<1> DEFINE h == NamedNext(g, k)
           G == Given(k - 1)
           used == Reserved \cup Range(g)
           p == Pick(Desired(k), used, Kept)
<1>1. DOMAIN nodes = 1 .. Len(nodes) /\ Len(nodes) \in Nat /\ k \in Nat
  BY DEF ExportTyped
<1>2. /\ G \subseteq Nat /\ \A i \in G : i < k /\ i \in Valid
      /\ Given(k) = IF k \in Valid THEN G \cup {k} ELSE G
  BY <1>1 DEF Given
<1>3. g \in [G -> Name]
  BY DEF Named
<1>4. Range(g) = {g[i] : i \in G}
  BY <1>3 DEF Range
<1> HIDE DEF G
<1>5. /\ h \in [Given(k) -> Name] \/ k \in Valid
      /\ DOMAIN h = Given(k) /\ (\A i \in G : h[i] = g[i]) /\ (k \in Valid => h[k] = p)
  BY <1>1, <1>2, <1>3 DEF NamedNext
<1> HIDE DEF h
<1>6. CASE k \notin Valid
  <2>1. Given(k) = G /\ h = g
    BY <1>2, <1>3, <1>5, <1>6
  <2>2. Named(g, k)
    BY <2>1 DEF Named, G
  <2> QED
    BY <2>1, <2>2 DEF h
<1>7. CASE k \in Valid
  <2>1. Given(k) = G \cup {k} /\ k \notin G
    BY <1>2, <1>7
  <2>2. /\ Desired(k) \in Name
        /\ Usable(rules, nodes) => Len(Desired(k)) \in 1 .. MaxChars
    BY <1>7, DesiredType
  <2>3. IsFiniteSet(G)
    <3>1. 1 \in Int /\ k - 1 \in Int
      BY <1>1
    <3>2. IsFiniteSet(1 .. (k - 1))
      BY <3>1, FS_Interval
    <3>3. G \in SUBSET (1 .. (k - 1))
      BY DEF G, Given
    <3> QED
      BY <3>2, <3>3, FS_Subset
  <2>4. IsFiniteSet(used)
    <3>1. DOMAIN g = G
      BY <1>3
    <3>2. IsFiniteSet(Range(g))
      BY <2>3, <3>1, RangeFinite
    <3>3. IsFiniteSet(Reserved)
      BY DEF ExportAssumption
    <3> QED
      BY <3>2, <3>3, FS_Union
  <2>5. IsFiniteSet(Kept) /\ Reserved \subseteq Kept /\ \A i \in Valid : Desired(i) \in Kept
    BY KeptFinite
  <2> HIDE DEF used
  <2>6. /\ p \in Name /\ p \notin used
        /\ IF Desired(k) \notin used THEN p = Desired(k)
           ELSE p \notin Kept /\ Len(p) \in 1 .. MaxChars
    BY <2>2, <2>4, <2>5, PickOwn
  <2> HIDE DEF p
  <2>7. \A x : x \in used <=> x \in Reserved \/ \E i \in G : x = g[i]
    BY <1>4 DEF used
  <2>8. h \in [Given(k) -> Name]
    <3>1. h = [i \in Given(k) |-> h[i]]
      BY <1>5 DEF h, NamedNext
    <3>2. \A i \in Given(k) : h[i] \in Name
      BY <1>3, <1>5, <1>7, <2>1, <2>6
    <3> QED
      BY <3>1, <3>2
  <2>9. \A i \in Given(k) : h[i] \notin Reserved
    <3>1. \A i \in G : g[i] \notin Reserved
      BY DEF Named, G
    <3> QED
      BY <3>1, <1>5, <1>7, <2>1, <2>6, <2>7
  <2>10. Usable(rules, nodes) => \A i \in Given(k) : Len(h[i]) \in 1 .. MaxChars
    <3>1. Usable(rules, nodes) => \A i \in G : Len(g[i]) \in 1 .. MaxChars
      BY DEF Named, G
    <3>2. Usable(rules, nodes) => Len(p) \in 1 .. MaxChars
      BY <2>2, <2>6
    <3> QED
      BY <3>1, <3>2, <1>5, <1>7, <2>1
  <2>11. \A i, j \in Given(k) : i # j => h[i] # h[j]
    <3>1. \A i, j \in G : i # j => g[i] # g[j]
      BY DEF Named, G
    <3>2. \A i \in G : h[i] # h[k]
      BY <1>5, <1>7, <2>6, <2>7
    <3> QED
      BY <3>1, <3>2, <1>5, <2>1
  <2>12. \A i \in Given(k) :
           \/ h[i] = Desired(i)
           \/ h[i] \notin Kept
              /\ (Desired(i) \in Reserved \/ \E j \in Given(k) : j < i /\ h[j] = Desired(i))
    <3>1. \A i \in G :
            \/ g[i] = Desired(i)
            \/ g[i] \notin Kept
               /\ (Desired(i) \in Reserved \/ \E j \in G : j < i /\ g[j] = Desired(i))
      BY DEF Named, G
    <3>2. \/ h[k] = Desired(k)
          \/ h[k] \notin Kept
             /\ (Desired(k) \in Reserved \/ \E j \in G : j < k /\ h[j] = Desired(k))
      BY <1>2, <1>5, <1>7, <2>6, <2>7
    <3> QED
      BY <3>1, <3>2, <1>5, <2>1
  <2>13. Named(h, k)
    BY <2>8, <2>9, <2>10, <2>11, <2>12 DEF Named
  <2> QED
    BY <2>13 DEF h
<1> QED
  BY <1>6, <1>7

\* The names of the first k nodes, for every k.
LEMMA NamingNamed ==
  ASSUME ExportAssumption, ExportTyped, Valid \subseteq DOMAIN nodes
  PROVE  \A k \in 0 .. Len(nodes) : Named(Naming[k], k)
<1> DEFINE n == Len(nodes)
           S == UNION {[D -> Name] : D \in SUBSET Valid}
           F == [k \in 1 .. n |-> [g \in S |-> IF Named(g, k - 1) THEN NamedNext(g, k) ELSE << >>]]
           Names(f) == f = [k \in 0 .. n |->
                              [i \in Valid \cap (1 .. k) |->
                                 IF i < k THEN f[k - 1][i]
                                 ELSE Pick(Desired(k), Reserved \cup Range(f[k - 1]), Kept)]]
<1>1. n \in Nat
  BY DEF ExportTyped
<1>2. \A g : \A k : Named(g, k) => g \in S
  <2>1. ASSUME NEW g, NEW k, Named(g, k) PROVE g \in S
    <3>1. g \in [Given(k) -> Name] /\ Given(k) \in SUBSET Valid
      BY <2>1 DEF Named, Given
    <3> QED
      BY <3>1
  <2> QED
    BY <2>1
<1>3. << >> \in S /\ Named(<< >>, 0)
  <2>1. Given(0) = {} /\ << >> \in [{} -> Name]
    BY DEF Given
  <2>2. Named(<< >>, 0)
    BY <2>1 DEF Named
  <2> HIDE DEF S
  <2> QED
    BY <2>2, <1>2
<1>4. \A k \in 1 .. n : \A g \in S : Named(g, k - 1) => NamedNext(g, k) \in S /\ Named(NamedNext(g, k), k)
  <2>1. ASSUME NEW k \in 1 .. n, NEW g, Named(g, k - 1)
        PROVE  Named(NamedNext(g, k), k)
    BY <2>1, NamedStep
  <2> HIDE DEF S
  <2> QED
    BY <2>1, <1>2
<1> HIDE DEF S, n
<1>5. F \in Maps(n, S)
  BY <1>3, <1>4 DEF Maps
<1>6. PICK g \in [0 .. n -> S] : g[0] = << >> /\ \A k \in 1 .. n : g[k] = F[k][g[k - 1]]
  <2> HIDE DEF F
  <2>1. Orbits(n, S, << >>, F) # {}
    BY <1>1, <1>3, <1>5, Iterates
  <2> QED
    BY <2>1 DEF Orbits
<1>7. \A k \in 1 .. n : g[k] = IF Named(g[k - 1], k - 1) THEN NamedNext(g[k - 1], k) ELSE << >>
  <2>1. ASSUME NEW k \in 1 .. n
        PROVE  g[k] = IF Named(g[k - 1], k - 1) THEN NamedNext(g[k - 1], k) ELSE << >>
    <3>1. k - 1 \in 0 .. n
      BY <1>1
    <3>2. g[k - 1] \in S /\ g[k] = F[k][g[k - 1]]
      BY <3>1, <1>6
    <3> QED
      BY <3>2
  <2> QED
    BY <2>1
<1> HIDE DEF F
<1>8. \A k \in 0 .. n : Named(g[k], k)
  <2> DEFINE P == {k \in 0 .. n : Named(g[k], k)}
  <2>1. 0 \in P
    BY <1>1, <1>3, <1>6
  <2>2. \A k \in 1 .. n : k - 1 \in P => k \in P
    <3>1. ASSUME NEW k \in 1 .. n, k - 1 \in P PROVE k \in 0 .. n /\ Named(g[k], k)
      <4>1. k \in 0 .. n /\ g[k - 1] \in S /\ Named(g[k - 1], k - 1)
        BY <1>1, <1>6, <3>1
      <4> QED
        BY <4>1, <1>4, <1>7
    <3> QED
      BY <3>1
  <2> HIDE DEF P
  <2>3. 0 .. n \subseteq P
    BY <1>1, <2>1, <2>2, ListInduction
  <2> QED
    BY <2>3 DEF P
<1>9. \A k \in 1 .. n : g[k] = NamedNext(g[k - 1], k)
  <2>1. \A k \in 1 .. n : k - 1 \in 0 .. n
    BY <1>1
  <2> QED
    BY <1>7, <1>8, <2>1
<1>10. Names(g)
  <2>1. ASSUME NEW k \in 0 .. n
        PROVE  g[k] = [i \in Valid \cap (1 .. k) |->
                         IF i < k THEN g[k - 1][i]
                         ELSE Pick(Desired(k), Reserved \cup Range(g[k - 1]), Kept)]
    <3>1. CASE k = 0
      <4>1. 1 .. k = {}
        BY <3>1
      <4>2. Valid \cap (1 .. k) = {}
        BY <4>1
      <4> QED
        BY <4>2, <3>1, <1>6
    <3>2. CASE k # 0
      <4>1. k \in 1 .. n
        BY <1>1, <3>2
      <4> QED
        BY <4>1, <1>9 DEF NamedNext, Given
    <3> QED
      BY <3>1, <3>2
  <2>2. g = [k \in 0 .. n |-> g[k]]
    BY <1>6
  <2> QED
    BY <2>1, <2>2
<1> DEFINE c == CHOOSE c : Names(c)
<1>11. Names(c)
  <2>1. \E x : Names(x)
    BY <1>10
  <2> QED
    BY <2>1
<1>12. Naming = c
  BY DEF Naming, n
<1> HIDE DEF c
<1>13. \A k \in 0 .. n : c[k] = NamedNext(c[k - 1], k)
  BY <1>11 DEF NamedNext, Given
<1> DEFINE P == {k \in 0 .. n : Named(c[k], k)}
<1>14. 0 \in P
  <2>1. c[0] = NamedNext(c[0 - 1], 0) /\ 0 \in 0 .. n
    BY <1>1, <1>13
  <2>2. Given(0) = {}
    BY DEF Given
  <2>3. c[0] = << >>
    BY <2>1, <2>2 DEF NamedNext
  <2> QED
    BY <2>1, <2>3, <1>3
<1>15. \A k \in 1 .. n : k - 1 \in P => k \in P
  <2>1. ASSUME NEW k \in 1 .. n, k - 1 \in P PROVE k \in 0 .. n /\ Named(c[k], k)
    <3>1. k \in 0 .. n /\ Named(c[k - 1], k - 1)
      BY <1>1, <2>1
    <3>2. Named(NamedNext(c[k - 1], k), k)
      BY <3>1, NamedStep DEF n
    <3> QED
      BY <3>1, <3>2, <1>13
  <2> QED
    BY <2>1
<1> HIDE DEF P
<1>16. 0 .. n \subseteq P
  BY <1>1, <1>14, <1>15, ListInduction
<1> QED
  BY <1>12, <1>16 DEF P, n

\* The names of the export are their nodes' own, and those handed out are the valid ones.
LEMMA NamesOwn ==
  ASSUME ExportAssumption, ExportTyped, Valid \subseteq DOMAIN nodes
  PROVE  NamesAreOwn /\ DOMAIN ExportNames = Valid
<1> DEFINE names == ExportNames
           n == Len(nodes)
<1>1. n \in Nat /\ n \in 0 .. n /\ DOMAIN nodes = 1 .. n
  BY DEF ExportTyped
<1>2. Given(n) = Valid
  BY <1>1 DEF Given
<1>3. Named(names, n)
  BY <1>1, NamingNamed DEF ExportNames
<1>4. \A i \in Valid : Desired(i) \in Kept
  BY DEF Kept
<1> HIDE DEF names, n
<1>5. DOMAIN names = Valid
  BY <1>2, <1>3 DEF Named
<1>6. ASSUME NEW i \in Valid
      PROVE  \/ names[i] = Desired(i)
             \/ Desired(i) \in Reserved
             \/ \E j \in Valid : j < i /\ Desired(j) = Desired(i)
  <2>1. \A j \in Valid :
          \/ names[j] = Desired(j)
          \/ names[j] \notin Kept
             /\ (Desired(j) \in Reserved \/ \E x \in Valid : x < j /\ names[x] = Desired(j))
    BY <1>2, <1>3 DEF Named
  <2>2. Desired(i) \in Kept
    BY <1>4
  <2> QED
    BY <2>1, <2>2
<1>7. ASSUME Usable(rules, nodes), NEW i \in Valid
      PROVE  /\ names[i] \notin Reserved
             /\ Len(names[i]) \in 1 .. MaxChars
             /\ \A j \in Valid : i # j => names[i] # names[j]
  BY <1>2, <1>3, <1>7 DEF Named
<1> QED
  BY <1>5, <1>6, <1>7 DEF NamesAreOwn, names

\* The states of a walk along a chain.
WalkState == [at : Selected, chain : SUBSET Selected, valid : SUBSET Selected, open : BOOLEAN]

\* The selected nodes are nodes, finitely many.
LEMMA SelectedFinite ==
  ASSUME ExportTyped
  PROVE  /\ Selected \subseteq 1 .. Len(nodes) /\ Len(nodes) \in Nat /\ DOMAIN nodes = 1 .. Len(nodes)
         /\ \A S \in SUBSET Selected : IsFiniteSet(S) /\ Cardinality(S) \in 0 .. Len(nodes)
<1> DEFINE n == Len(nodes)
<1>1. n \in Nat /\ DOMAIN nodes = 1 .. n /\ 1 \in Int /\ n \in Int
  BY DEF ExportTyped
<1>2. Selected \subseteq 1 .. n
  BY <1>1 DEF Selected
<1>3. IsFiniteSet(1 .. n) /\ Cardinality(1 .. n) = n
  <2>1. IsFiniteSet(1 .. n) /\ Cardinality(1 .. n) = IF 1 > n THEN 0 ELSE n - 1 + 1
    BY <1>1, FS_Interval
  <2> QED
    BY <1>1, <2>1
<1>4. ASSUME NEW S \in SUBSET Selected PROVE IsFiniteSet(S) /\ Cardinality(S) \in 0 .. n
  <2>1. S \in SUBSET (1 .. n)
    BY <1>2
  <2>2. IsFiniteSet(S) /\ Cardinality(S) <= Cardinality(1 .. n)
    BY <1>3, <2>1, FS_Subset
  <2>3. Cardinality(S) \in Nat
    BY <2>2, FS_CardinalityType
  <2> QED
    BY <1>1, <1>3, <2>2, <2>3
<1> QED
  BY <1>1, <1>2, <1>4

\* A dialer that is not ambiguous is one node.
LEMMA OneTarget ==
  ASSUME ExportTyped, NEW i, ~Ambiguous(i)
  PROVE  \E j \in Selected : Targets(i) = {j} /\ (CHOOSE x \in Targets(i) : TRUE) = j
<1>1. Targets(i) \in SUBSET Selected
  BY DEF Targets
<1>2. IsFiniteSet(Targets(i)) /\ Cardinality(Targets(i)) = 1
  BY <1>1, SelectedFinite DEF Ambiguous
<1>3. PICK j : Targets(i) = {j}
  BY <1>2, FS_Singleton
<1>4. j \in Selected /\ (CHOOSE x \in Targets(i) : TRUE) = j
  BY <1>1, <1>3
<1> QED
  BY <1>3, <1>4

\* No node is the only dialer of an ambiguous one.
LEMMA NoTarget ==
  ASSUME NEW i, Ambiguous(i), NEW j
  PROVE  Targets(i) # {j}
<1>1. Cardinality({j}) = 1
  BY FS_Singleton
<1> QED
  BY <1>1 DEF Ambiguous

\* The cases of a turn, each with what it makes of the state.
LEMMA TurnCases ==
  ASSUME ExportTyped, NEW w \in WalkState
  PROVE  \/ ~w.open /\ Turn(w) = w
         \/ w.open /\ w.at \in w.valid
            /\ Turn(w) = [at |-> w.at, chain |-> w.chain, valid |-> w.valid \cup w.chain, open |-> FALSE]
         \/ w.open /\ w.at \in w.chain \ w.valid
            /\ Turn(w) = [at |-> w.at, chain |-> w.chain, valid |-> w.valid, open |-> FALSE]
         \/ w.open /\ w.at \notin w.chain \cup w.valid /\ IsDirect(w.at)
            /\ Turn(w) = [at |-> w.at, chain |-> w.chain, valid |-> w.valid \cup w.chain \cup {w.at},
                          open |-> FALSE]
         \/ w.open /\ w.at \notin w.chain \cup w.valid /\ ~IsDirect(w.at) /\ Ambiguous(w.at)
            /\ Turn(w) = [at |-> w.at, chain |-> w.chain, valid |-> w.valid, open |-> FALSE]
         \/ w.open /\ w.at \notin w.chain \cup w.valid /\ ~IsDirect(w.at)
            /\ \E j \in Selected :
                 /\ Targets(w.at) = {j}
                 /\ Turn(w) = [at |-> j, chain |-> w.chain \cup {w.at}, valid |-> w.valid, open |-> TRUE]
<1>1. w = [at |-> w.at, chain |-> w.chain, valid |-> w.valid, open |-> w.open] /\ w.open \in BOOLEAN
  BY DEF WalkState
<1>2. CASE ~w.open
  BY <1>2 DEF Turn
<1>3. CASE w.open /\ w.at \in w.valid
  BY <1>1, <1>3 DEF Turn
<1>4. CASE w.open /\ w.at \in w.chain \ w.valid
  BY <1>1, <1>4 DEF Turn
<1>5. CASE w.open /\ w.at \notin w.chain \cup w.valid /\ IsDirect(w.at)
  BY <1>1, <1>5 DEF Turn
<1>6. CASE w.open /\ w.at \notin w.chain \cup w.valid /\ ~IsDirect(w.at) /\ Ambiguous(w.at)
  BY <1>1, <1>6 DEF Turn
<1>7. CASE w.open /\ w.at \notin w.chain \cup w.valid /\ ~IsDirect(w.at) /\ ~Ambiguous(w.at)
  <2>1. PICK j \in Selected : Targets(w.at) = {j} /\ (CHOOSE x \in Targets(w.at) : TRUE) = j
    BY <1>7, OneTarget
  <2>2. Turn(w) = [w EXCEPT !.chain = @ \cup {w.at}, !.at = CHOOSE x \in Targets(w.at) : TRUE]
    BY <1>7 DEF Turn
  <2>3. Turn(w) = [at |-> j, chain |-> w.chain \cup {w.at}, valid |-> w.valid, open |-> TRUE]
    BY <1>1, <1>7, <2>1, <2>2
  <2> QED
    BY <1>7, <2>1, <2>3
<1> QED
  BY <1>2, <1>3, <1>4, <1>5, <1>6, <1>7

\* A turn leads from a state of a walk to a state of a walk.
LEMMA TurnType ==
  ASSUME ExportTyped, NEW w \in WalkState
  PROVE  Turn(w) \in WalkState
<1>1. w.at \in Selected /\ w.chain \in SUBSET Selected /\ w.valid \in SUBSET Selected
  BY DEF WalkState
<1>2. w.valid \cup w.chain \in SUBSET Selected /\ w.valid \cup w.chain \cup {w.at} \in SUBSET Selected
      /\ w.chain \cup {w.at} \in SUBSET Selected
  BY <1>1
<1>3. \A p \in Selected, q, r \in SUBSET Selected, o \in BOOLEAN :
        [at |-> p, chain |-> q, valid |-> r, open |-> o] \in WalkState
  BY DEF WalkState
<1>4. /\ [at |-> w.at, chain |-> w.chain, valid |-> w.valid \cup w.chain, open |-> FALSE] \in WalkState
      /\ [at |-> w.at, chain |-> w.chain, valid |-> w.valid, open |-> FALSE] \in WalkState
      /\ [at |-> w.at, chain |-> w.chain, valid |-> w.valid \cup w.chain \cup {w.at}, open |-> FALSE]
           \in WalkState
      /\ \A j \in Selected :
           [at |-> j, chain |-> w.chain \cup {w.at}, valid |-> w.valid, open |-> TRUE] \in WalkState
  BY <1>1, <1>2, <1>3
<1> QED
  BY <1>4, TurnCases, Zenon

\* A walk, turn by turn.
LEMMA WalkTurns ==
  ASSUME ExportTyped, NEW i \in Selected, NEW v \in SUBSET Selected
  PROVE  /\ Turns \in Nat
         /\ Walk(i, v)[0] = [at |-> i, chain |-> {}, valid |-> v, open |-> TRUE]
         /\ \A k \in 0 .. Turns : Walk(i, v)[k] \in WalkState
         /\ \A k \in 1 .. Turns : Walk(i, v)[k] = Turn(Walk(i, v)[k - 1])
<1> DEFINE n == Turns
           b == [at |-> i, chain |-> {}, valid |-> v, open |-> TRUE]
           F == [k \in 1 .. n |-> [w \in WalkState |-> Turn(w)]]
           Walks(f) == f = [k \in 0 .. n |-> IF k = 0 THEN b ELSE Turn(f[k - 1])]
<1>1. n \in Nat
  BY SelectedFinite DEF Turns
<1>2. b \in WalkState
  BY DEF WalkState
<1> HIDE DEF n, b
<1>3. F \in Maps(n, WalkState)
  BY TurnType DEF Maps
<1>4. PICK g \in [0 .. n -> WalkState] : g[0] = b /\ \A k \in 1 .. n : g[k] = F[k][g[k - 1]]
  <2> HIDE DEF F
  <2>1. Orbits(n, WalkState, b, F) # {}
    BY <1>1, <1>2, <1>3, Iterates
  <2> QED
    BY <2>1 DEF Orbits
<1>5. \A k \in 1 .. n : g[k] = Turn(g[k - 1])
  <2>1. ASSUME NEW k \in 1 .. n PROVE g[k] = Turn(g[k - 1])
    <3>1. k - 1 \in 0 .. n
      BY <1>1
    <3>2. g[k - 1] \in WalkState /\ g[k] = F[k][g[k - 1]]
      BY <3>1, <1>4
    <3> QED
      BY <3>2
  <2> QED
    BY <2>1
<1> HIDE DEF F
<1>6. Walks(g)
  <2>1. g = [k \in 0 .. n |-> g[k]]
    BY <1>4
  <2>2. \A k \in 0 .. n : k = 0 \/ k \in 1 .. n
    BY <1>1
  <2>3. \A k \in 0 .. n : g[k] = IF k = 0 THEN b ELSE Turn(g[k - 1])
    BY <1>4, <1>5, <2>2
  <2> QED
    BY <2>1, <2>3
<1> DEFINE c == CHOOSE c : Walks(c)
<1>7. Walks(c)
  <2>1. \E x : Walks(x)
    BY <1>6
  <2> QED
    BY <2>1
<1>8. Walk(i, v) = c
  BY DEF Walk, n, b
<1> HIDE DEF c
<1>9. c[0] = b /\ \A k \in 1 .. n : c[k] = Turn(c[k - 1])
  <2>1. \A k \in 0 .. n : c[k] = IF k = 0 THEN b ELSE Turn(c[k - 1])
    BY <1>7
  <2>2. 0 \in 0 .. n /\ \A k \in 1 .. n : k \in 0 .. n /\ k # 0
    BY <1>1
  <2> QED
    BY <2>1, <2>2
<1> DEFINE P == {k \in 0 .. n : c[k] \in WalkState}
<1>10. 0 \in P
  BY <1>1, <1>2, <1>9
<1>11. \A k \in 1 .. n : k - 1 \in P => k \in P
  <2>1. ASSUME NEW k \in 1 .. n, k - 1 \in P PROVE k \in 0 .. n /\ c[k] \in WalkState
    BY <1>1, <2>1, <1>9, TurnType
  <2> QED
    BY <2>1
<1> HIDE DEF P
<1>12. 0 .. n \subseteq P
  BY <1>1, <1>10, <1>11, ListInduction
<1> QED
  BY <1>1, <1>8, <1>9, <1>12 DEF P, n, b

\* Nodes none of which is direct and whose dialers are among them: their chains have no end.
Dead(D) == \A x \in D : ~IsDirect(x) /\ \A j : Targets(x) = {j} => j \in D

\* What holds along a walk from i that began with the valid nodes v, after k turns.
Walked(w, i, v, k) ==
  /\ w.open =>
       /\ w.valid = v /\ i \in w.chain \cup {w.at} /\ Cardinality(w.chain) = k
       /\ \A x \in w.chain : ~IsDirect(x) /\ \E j \in w.chain \cup {w.at} : Targets(x) = {j}
  /\ ~w.open =>
       /\ v \subseteq w.valid
       /\ i \in w.valid \/ \E D \in SUBSET Selected : Dead(D) /\ i \in D

\* A turn keeps what holds along a walk.
LEMMA WalkedStep ==
  ASSUME ExportTyped, NEW w \in WalkState, NEW i, NEW v, NEW k \in Nat, Walked(w, i, v, k)
  PROVE  Walked(Turn(w), i, v, k + 1)
<1>1. w.at \in Selected /\ w.chain \in SUBSET Selected /\ w.valid \in SUBSET Selected
  BY DEF WalkState
<1>2. CASE ~w.open /\ Turn(w) = w
  BY <1>2 DEF Walked
<1>3. CASE w.open /\ w.at \in w.valid
           /\ Turn(w) = [at |-> w.at, chain |-> w.chain, valid |-> w.valid \cup w.chain, open |-> FALSE]
  BY <1>3 DEF Walked
<1>4. CASE w.open /\ w.at \in w.chain \ w.valid
           /\ Turn(w) = [at |-> w.at, chain |-> w.chain, valid |-> w.valid, open |-> FALSE]
  <2>1. Dead(w.chain) /\ i \in w.chain
    BY <1>4 DEF Walked, Dead
  <2> QED
    BY <1>1, <1>4, <2>1 DEF Walked
<1>5. CASE w.open /\ w.at \notin w.chain \cup w.valid /\ IsDirect(w.at)
           /\ Turn(w) = [at |-> w.at, chain |-> w.chain, valid |-> w.valid \cup w.chain \cup {w.at},
                         open |-> FALSE]
  BY <1>5 DEF Walked
<1>6. CASE w.open /\ w.at \notin w.chain \cup w.valid /\ ~IsDirect(w.at) /\ Ambiguous(w.at)
           /\ Turn(w) = [at |-> w.at, chain |-> w.chain, valid |-> w.valid, open |-> FALSE]
  <2> DEFINE D == w.chain \cup {w.at}
  <2>1. \A j : Targets(w.at) # {j}
    BY <1>6, NoTarget
  <2>2. Dead(D) /\ i \in D /\ D \in SUBSET Selected
    BY <1>1, <1>6, <2>1 DEF Walked, Dead
  <2>3. w.valid = v
    BY <1>6 DEF Walked
  <2> HIDE DEF D
  <2> QED
    BY <1>6, <2>2, <2>3 DEF Walked
<1>7. CASE w.open /\ w.at \notin w.chain \cup w.valid /\ ~IsDirect(w.at)
           /\ \E j \in Selected :
                /\ Targets(w.at) = {j}
                /\ Turn(w) = [at |-> j, chain |-> w.chain \cup {w.at}, valid |-> w.valid, open |-> TRUE]
  <2>1. PICK j \in Selected :
                /\ Targets(w.at) = {j}
                /\ Turn(w) = [at |-> j, chain |-> w.chain \cup {w.at}, valid |-> w.valid, open |-> TRUE]
    BY <1>7
  <2>2. Cardinality(w.chain \cup {w.at}) = k + 1
    <3>1. IsFiniteSet(w.chain) /\ Cardinality(w.chain) = k
      BY <1>1, <1>7, SelectedFinite DEF Walked
    <3> QED
      BY <3>1, <1>7, FS_AddElement
  <2>3. /\ w.valid = v /\ i \in w.chain \cup {w.at}
        /\ \A x \in w.chain : ~IsDirect(x) /\ \E y \in w.chain \cup {w.at} : Targets(x) = {y}
    BY <1>7 DEF Walked
  <2>4. \A x \in w.chain \cup {w.at} :
           ~IsDirect(x) /\ \E y \in w.chain \cup {w.at} \cup {j} : Targets(x) = {y}
    BY <1>7, <2>1, <2>3
  <2> QED
    BY <2>1, <2>2, <2>3, <2>4 DEF Walked
<1> QED
  BY <1>2, <1>3, <1>4, <1>5, <1>6, <1>7, TurnCases

\* A walk ends, and node i is valid then, or in a set of nodes whose chains have no end.
LEMMA WalkEnds ==
  ASSUME ExportTyped, NEW i \in Selected, NEW v \in SUBSET Selected
  PROVE  LET w == Walk(i, v)[Turns]
         IN  /\ w.valid \in SUBSET Selected /\ v \subseteq w.valid
             /\ i \in w.valid \/ \E D \in SUBSET Selected : Dead(D) /\ i \in D
<1> DEFINE w == Walk(i, v)
           P == {k \in 0 .. Turns : Walked(w[k], i, v, k)}
<1>1. Turns \in Nat /\ Turns = Len(nodes) + 1 /\ Len(nodes) \in Nat
  BY SelectedFinite DEF Turns
<1>2. /\ w[0] = [at |-> i, chain |-> {}, valid |-> v, open |-> TRUE]
      /\ \A k \in 0 .. Turns : w[k] \in WalkState
      /\ \A k \in 1 .. Turns : w[k] = Turn(w[k - 1])
  BY WalkTurns
<1> HIDE DEF w
<1>3. 0 \in P
  <2>1. Cardinality({}) = 0
    BY FS_EmptySet
  <2>2. Walked(w[0], i, v, 0)
    BY <1>2, <2>1 DEF Walked
  <2> QED
    BY <1>1, <2>2
<1>4. \A k \in 1 .. Turns : k - 1 \in P => k \in P
  <2>1. ASSUME NEW k \in 1 .. Turns, k - 1 \in P PROVE k \in 0 .. Turns /\ Walked(w[k], i, v, k)
    <3>1. k \in 0 .. Turns /\ k - 1 \in 0 .. Turns /\ k - 1 \in Nat /\ (k - 1) + 1 = k
      BY <1>1
    <3>2. w[k - 1] \in WalkState /\ Walked(w[k - 1], i, v, k - 1)
      BY <1>2, <2>1, <3>1
    <3>3. Walked(Turn(w[k - 1]), i, v, (k - 1) + 1)
      BY <3>1, <3>2, WalkedStep
    <3> QED
      BY <1>2, <3>1, <3>3
  <2> QED
    BY <2>1
<1>5. Walked(w[Turns], i, v, Turns) /\ w[Turns] \in WalkState
  <2> HIDE DEF P
  <2>1. 0 .. Turns \subseteq P
    BY <1>1, <1>3, <1>4, ListInduction
  <2>2. Turns \in 0 .. Turns
    BY <1>1
  <2> QED
    BY <1>2, <2>1, <2>2 DEF P
<1>6. ~w[Turns].open
  <2>1. w[Turns].chain \in SUBSET Selected
    BY <1>5 DEF WalkState
  <2>2. Cardinality(w[Turns].chain) # Turns
    BY <1>1, <2>1, SelectedFinite
  <2> QED
    BY <1>5, <2>2 DEF Walked
<1>7. w[Turns].valid \in SUBSET Selected
  BY <1>5 DEF WalkState
<1> QED
  BY <1>5, <1>6, <1>7 DEF Walked, w

\* A closed set that has the nodes found valid before a walk has those found after it.
LEMMA WalkStays ==
  ASSUME ExportTyped, NEW i \in Selected, NEW v \in SUBSET Selected,
         NEW S \in SUBSET Selected, Closed(S), v \subseteq S
  PROVE  Walk(i, v)[Turns].valid \subseteq S
<1> DEFINE w == Walk(i, v)
           Inside(x) == x.valid \subseteq S /\ (x.at \in S => x.chain \subseteq S)
           P == {k \in 0 .. Turns : Inside(w[k])}
<1>1. /\ Turns \in Nat
      /\ w[0] = [at |-> i, chain |-> {}, valid |-> v, open |-> TRUE]
      /\ \A k \in 0 .. Turns : w[k] \in WalkState
      /\ \A k \in 1 .. Turns : w[k] = Turn(w[k - 1])
  BY WalkTurns
<1> HIDE DEF w
<1>2. ASSUME NEW x \in WalkState, Inside(x) PROVE Inside(Turn(x))
  <2>1. x.at \in Selected
    BY DEF WalkState
  <2>2. IsDirect(x.at) => x.at \in S
    BY <2>1 DEF Closed
  <2>3. \A j \in S : Targets(x.at) = {j} => x.at \in S
    BY <2>1 DEF Closed
  <2> QED
    BY <1>2, <2>2, <2>3, TurnCases
<1>3. 0 \in P
  BY <1>1
<1>4. \A k \in 1 .. Turns : k - 1 \in P => k \in P
  <2>1. ASSUME NEW k \in 1 .. Turns, k - 1 \in P PROVE k \in 0 .. Turns /\ Inside(w[k])
    <3>1. k \in 0 .. Turns /\ k - 1 \in 0 .. Turns
      BY <1>1
    <3>2. w[k - 1] \in WalkState /\ Inside(w[k - 1])
      BY <1>1, <2>1, <3>1
    <3> QED
      BY <1>1, <1>2, <3>1, <3>2
  <2> QED
    BY <2>1
<1> HIDE DEF P
<1>5. 0 .. Turns \subseteq P /\ Turns \in 0 .. Turns
  BY <1>1, <1>3, <1>4, ListInduction
<1> QED
  BY <1>5 DEF P, w

\* Outside nodes whose chains have no end all are closed, so their own are not complete.
LEMMA DeadIncomplete ==
  ASSUME NEW D \in SUBSET Selected, Dead(D), NEW i \in D
  PROVE  i \notin Complete
<1>1. Closed(Selected \ D)
  BY DEF Closed, Dead
<1>2. Selected \ D \in SUBSET Selected
  OBVIOUS
<1> QED
  BY <1>1, <1>2 DEF Complete

\* The least closed set, and with a node it has the node's dialer.
LEMMA CompleteClosed ==
  /\ Closed(Complete) /\ Complete \in SUBSET Selected
  /\ \A i \in Complete : IsDirect(i) \/ \E j \in Complete : Targets(i) = {j}
<1>1. Complete \in SUBSET Selected
  BY DEF Complete
<1>2. ASSUME NEW i \in Selected, IsDirect(i) \/ \E j \in Complete : Targets(i) = {j}
      PROVE  i \in Complete
  <2>1. ASSUME NEW S \in SUBSET Selected, Closed(S) PROVE i \in S
    <3>1. \A j \in Complete : j \in S
      BY <2>1 DEF Complete
    <3> QED
      BY <1>2, <2>1, <3>1 DEF Closed
  <2> QED
    BY <2>1 DEF Complete
<1>3. Closed(Complete)
  BY <1>2 DEF Closed
<1>4. ASSUME NEW i \in Complete, ~IsDirect(i), \A j \in Complete : Targets(i) # {j}
      PROVE  FALSE
  <2> DEFINE S == Complete \ {i}
  <2>1. Closed(S)
    <3>1. ASSUME NEW x \in Selected, IsDirect(x) \/ \E j \in S : Targets(x) = {j}
          PROVE  x \in S
      BY <3>1, <1>2, <1>4
    <3> HIDE DEF S
    <3> QED
      BY <3>1 DEF Closed
  <2>2. S \in SUBSET Selected
    BY <1>1
  <2>3. i \notin S
    OBVIOUS
  <2> HIDE DEF S
  <2> QED
    BY <2>1, <2>2, <2>3, <1>4 DEF Complete
<1> QED
  BY <1>1, <1>3, <1>4

\* What holds of the nodes found valid by the walks from the first k.
Proper(v, k) ==
  /\ v \in SUBSET Selected /\ v \subseteq Complete
  /\ \A i \in Selected : i <= k => i \in v \/ i \notin Complete

\* The nodes found valid after the walk from node k, when those before found v.
ValidNext(v, k) == IF k \in Selected THEN Walk(k, v)[Turns].valid ELSE v

\* The walk from node k keeps what holds of the nodes found valid.
LEMMA ProperStep ==
  ASSUME ExportTyped, NEW k \in 1 .. Len(nodes), NEW v, Proper(v, k - 1)
  PROVE  Proper(ValidNext(v, k), k)
<1>1. v \in SUBSET Selected /\ Selected \subseteq Nat
  BY SelectedFinite DEF Proper
<1>2. CASE k \notin Selected
  <2>1. \A i \in Selected : i <= k => i <= k - 1
    BY <1>1, <1>2
  <2> QED
    BY <1>2, <2>1 DEF Proper, ValidNext
<1>3. CASE k \in Selected
  <2> DEFINE u == Walk(k, v)[Turns].valid
  <2>1. u \in SUBSET Selected /\ v \subseteq u /\ (k \in u \/ \E D \in SUBSET Selected : Dead(D) /\ k \in D)
    BY <1>1, <1>3, WalkEnds
  <2>2. u \subseteq Complete
    <3>1. Closed(Complete) /\ Complete \in SUBSET Selected /\ v \subseteq Complete
      BY CompleteClosed DEF Proper
    <3> QED
      BY <1>1, <1>3, <3>1, WalkStays
  <2>3. ValidNext(v, k) = u
    BY <1>3 DEF ValidNext
  <2> HIDE DEF u
  <2>4. k \in u \/ k \notin Complete
    BY <2>1, DeadIncomplete
  <2>5. \A i \in Selected : i <= k => i = k \/ i <= k - 1
    BY <1>1
  <2>6. \A i \in Selected : i <= k => i \in u \/ i \notin Complete
    BY <2>1, <2>4, <2>5 DEF Proper
  <2> QED
    BY <2>1, <2>2, <2>3, <2>6 DEF Proper
<1> QED
  BY <1>2, <1>3

\* The walks find the nodes whose chain is complete.
LEMMA ValidComplete ==
  ASSUME ExportTyped
  PROVE  Valid = Complete
<1> DEFINE n == Len(nodes)
           S == SUBSET Selected
           F == [k \in 1 .. n |-> [v \in S |-> IF Proper(v, k - 1) THEN ValidNext(v, k) ELSE {}]]
           Validates(f) == f = [k \in 0 .. n |->
                                  IF k = 0 THEN {}
                                  ELSE IF k \in Selected THEN Walk(k, f[k - 1])[Turns].valid
                                  ELSE f[k - 1]]
<1>1. n \in Nat /\ \A i \in Selected : i \in 1 .. n
  BY SelectedFinite
<1>2. {} \in S /\ Proper({}, 0)
  BY <1>1 DEF Proper
<1>3. \A k \in 1 .. n : \A v : Proper(v, k - 1) => Proper(ValidNext(v, k), k)
  BY ProperStep
<1>4. \A v : \A k : Proper(v, k) => v \in S
  BY DEF Proper
<1> HIDE DEF n, S
<1>5. F \in Maps(n, S)
  BY <1>2, <1>3, <1>4 DEF Maps
<1>6. PICK g \in [0 .. n -> S] : g[0] = {} /\ \A k \in 1 .. n : g[k] = F[k][g[k - 1]]
  <2> HIDE DEF F
  <2>1. Orbits(n, S, {}, F) # {}
    BY <1>1, <1>2, <1>5, Iterates
  <2> QED
    BY <2>1 DEF Orbits
<1>7. \A k \in 1 .. n : g[k] = IF Proper(g[k - 1], k - 1) THEN ValidNext(g[k - 1], k) ELSE {}
  <2>1. ASSUME NEW k \in 1 .. n
        PROVE  g[k] = IF Proper(g[k - 1], k - 1) THEN ValidNext(g[k - 1], k) ELSE {}
    <3>1. k - 1 \in 0 .. n
      BY <1>1
    <3>2. g[k - 1] \in S /\ g[k] = F[k][g[k - 1]]
      BY <3>1, <1>6
    <3> QED
      BY <3>2
  <2> QED
    BY <2>1
<1> HIDE DEF F
<1>8. \A k \in 0 .. n : Proper(g[k], k)
  <2> DEFINE P == {k \in 0 .. n : Proper(g[k], k)}
  <2>1. 0 \in P
    <3>1. Proper(g[0], 0)
      BY <1>2, <1>6, Zenon
    <3> QED
      BY <1>1, <3>1
  <2>2. \A k \in 1 .. n : k - 1 \in P => k \in P
    <3>1. ASSUME NEW k \in 1 .. n, k - 1 \in P PROVE k \in 0 .. n /\ Proper(g[k], k)
      BY <1>1, <1>3, <1>7, <3>1
    <3> QED
      BY <3>1
  <2> HIDE DEF P
  <2>3. 0 .. n \subseteq P
    BY <1>1, <2>1, <2>2, ListInduction
  <2> QED
    BY <2>3 DEF P
<1>9. Validates(g)
  <2>1. ASSUME NEW k \in 0 .. n
        PROVE  g[k] = IF k = 0 THEN {}
                      ELSE IF k \in Selected THEN Walk(k, g[k - 1])[Turns].valid ELSE g[k - 1]
    <3>1. CASE k = 0
      BY <3>1, <1>6
    <3>2. CASE k # 0
      <4>1. k \in 1 .. n /\ k - 1 \in 0 .. n
        BY <1>1, <3>2
      <4>2. g[k] = ValidNext(g[k - 1], k)
        BY <4>1, <1>7, <1>8
      <4> QED
        BY <3>2, <4>2 DEF ValidNext
    <3> QED
      BY <3>1, <3>2
  <2>2. g = [k \in 0 .. n |-> g[k]]
    BY <1>6
  <2> QED
    BY <2>1, <2>2
<1> DEFINE c == CHOOSE c : Validates(c)
<1>10. Validates(c)
  <2>1. \E x : Validates(x)
    BY <1>9
  <2> QED
    BY <2>1
<1>11. Validated = c
  BY DEF Validated, n
<1> HIDE DEF c
<1>12. c[0] = {} /\ \A k \in 1 .. n : c[k] = ValidNext(c[k - 1], k)
  <2>1. \A k \in 0 .. n : c[k] = IF k = 0 THEN {}
                                ELSE IF k \in Selected THEN Walk(k, c[k - 1])[Turns].valid ELSE c[k - 1]
    BY <1>10
  <2>2. 0 \in 0 .. n /\ \A k \in 1 .. n : k \in 0 .. n /\ k # 0
    BY <1>1
  <2> QED
    BY <2>1, <2>2 DEF ValidNext
<1> DEFINE P == {k \in 0 .. n : Proper(c[k], k)}
<1>13. 0 \in P
  <2>1. Proper(c[0], 0)
    BY <1>2, <1>12, Zenon
  <2> QED
    BY <1>1, <2>1
<1>14. \A k \in 1 .. n : k - 1 \in P => k \in P
  <2>1. ASSUME NEW k \in 1 .. n, k - 1 \in P PROVE k \in 0 .. n /\ Proper(c[k], k)
    BY <1>1, <1>3, <1>12, <2>1
  <2> QED
    BY <2>1
<1> HIDE DEF P
<1>15. 0 .. n \subseteq P /\ n \in 0 .. n
  BY <1>1, <1>13, <1>14, ListInduction
<1>16. Proper(Valid, n)
  BY <1>11, <1>15 DEF P, Valid, n
<1>17. \A i \in Complete : i \in Selected /\ i <= n
  BY <1>1, CompleteClosed
<1> QED
  BY <1>16, <1>17 DEF Proper

\* The chains of the export are those of the stored nodes.
LEMMA ChainsOwn ==
  ASSUME ExportAssumption, ExportTyped
  PROVE  ChainsKept
<1> DEFINE names == ExportNames
<1>1. Complete \in SUBSET Selected /\ \A i \in Complete : IsDirect(i) \/ \E j \in Complete : Targets(i) = {j}
  BY CompleteClosed
<1>2. DOMAIN names = Complete
  BY <1>1, ValidComplete, NamesOwn, SelectedFinite
<1> HIDE DEF names
<1>3. ASSUME NEW i \in Complete, ~IsDirect(i)
      PROVE  \E j \in Complete : Targets(i) = {j} /\ ExportDialer(i, names) = names[j]
  <2>1. PICK j \in Complete : Targets(i) = {j}
    BY <1>1, <1>3
  <2> DEFINE named == {x \in DOMAIN names : nodes[x].name = nodes[i].dialer}
  <2>2. named = {j}
    BY <1>1, <1>2, <2>1 DEF Targets
  <2>3. j \in Nat
    BY <1>1, <2>1, SelectedFinite
  <2>4. (CHOOSE x \in named : \A k \in named : k <= x) = j
    BY <2>2, <2>3
  <2> QED
    BY <1>3, <2>1, <2>4 DEF ExportDialer
<1>4. \A i \in Complete : IsDirect(i) => ExportDialer(i, names) = nodes[i].dialer
  BY DEF ExportDialer
<1> QED
  BY <1>2, <1>3, <1>4 DEF ChainsKept, names

\* A list without one of its elements has no others.
LEMMA RemoveAtType ==
  ASSUME NEW T, NEW s \in Seq(T), NEW i \in DOMAIN s
  PROVE  /\ RemoveAt(s, i) \in Seq(T)
         /\ \A k \in DOMAIN RemoveAt(s, i) : \E j \in DOMAIN s : RemoveAt(s, i)[k] = s[j]
<1> DEFINE n == Len(s)
           p == SubSeq(s, 1, i - 1)
           q == SubSeq(s, i + 1, n)
<1>1. n \in Nat /\ DOMAIN s = 1 .. n /\ i \in 1 .. n
  OBVIOUS
<1>2. p \in Seq(T) /\ Len(p) = i - 1 /\ \A k \in 1 .. i - 1 : p[k] = s[k]
  BY <1>1
<1>3. q \in Seq(T) /\ Len(q) = n - i /\ \A k \in 1 .. n - i : q[k] = s[i + k]
  BY <1>1
<1>4. RemoveAt(s, i) = p \o q
  BY DEF RemoveAt
<1> HIDE DEF n, p, q
<1>5. p \o q \in Seq(T) /\ Len(p \o q) = n - 1
  <2>1. p \o q \in Seq(T)
    BY <1>2, <1>3, ConcatProperties
  <2>2. Len(p \o q) = Len(p) + Len(q)
    BY <1>2, <1>3, ConcatProperties
  <2>3. (i - 1) + (n - i) = n - 1
    BY <1>1
  <2> QED
    BY <1>2, <1>3, <2>1, <2>2, <2>3
<1>6. DOMAIN (p \o q) = 1 .. n - 1
  BY <1>1, <1>5
<1>7. ASSUME NEW k \in 1 .. n - 1 PROVE \E j \in 1 .. n : (p \o q)[k] = s[j]
  <2>1. CASE k < i
    <3>1. k \in 1 .. i - 1 /\ k \in 1 .. n
      BY <1>1, <2>1
    <3>2. (p \o q)[k] = p[k]
      BY <1>1, <1>2, <1>3, <3>1
    <3> QED
      BY <3>1, <3>2, <1>2
  <2>2. CASE k >= i
    <3>1. (p \o q)[k] = q[k - (i - 1)]
      BY <1>1, <1>2, <1>3, <2>2
    <3>2. k - (i - 1) \in 1 .. n - i /\ i + (k - (i - 1)) \in 1 .. n
      BY <1>1, <2>2
    <3> QED
      BY <3>1, <3>2, <1>3
  <2>3. k < i \/ k >= i
    BY <1>1
  <2> QED
    BY <2>1, <2>2, <2>3, Zenon
<1> QED
  BY <1>1, <1>4, <1>5, <1>6, <1>7

\* The row of a rule that is added.
LEMMA RuleType ==
  ASSUME ExportAssumption, NEW text \in RuleTexts, NEW on \in BOOLEAN
  PROVE  Rule(text, on) \in RuleRow
<1>1. text.old \in Symbols /\ text.new \in Name
  BY DEF ExportAssumption
<1> QED
  BY <1>1 DEF Rule, RuleRow

\* Names, dialers and rules are sequences of symbols in every state, whatever rules are
\* added, and whatever nodes a sync brings (rename_rule_add, _replace_account_nodes).
THEOREM ExportTypeOK == ExportSpec => []ExportTyped
<1>1. ExportInit => ExportTyped
  <2> SUFFICES ASSUME ExportInit PROVE ExportTyped
    OBVIOUS
  <2>1. nodes \in Seq(Node)
    BY ExportAssumption DEF ExportInit, ExportAssumption
  <2>2. CASE rules = << >>
    BY <2>1, <2>2 DEF ExportInit, ExportTyped
  <2>3. CASE rules \in [1 .. 2 -> {Rule(r, TRUE) : r \in RuleTexts}]
    <3>1. {Rule(r, TRUE) : r \in RuleTexts} \subseteq RuleRow
      BY ExportAssumption, RuleType
    <3>2. rules \in [1 .. 2 -> RuleRow]
      BY <2>3, <3>1
    <3>3. rules \in Seq(RuleRow)
      BY <3>2, SeqDef
    <3> QED
      BY <2>1, <3>3 DEF ExportInit, ExportTyped
  <2> QED
    BY <2>2, <2>3 DEF ExportInit
<1>2. ExportTyped /\ [ExportNext]_exportVars => ExportTyped'
  <2> SUFFICES ASSUME ExportTyped, [ExportNext]_exportVars PROVE ExportTyped'
    OBVIOUS
  <2>0. rules \in Seq(RuleRow) /\ nodes \in Seq(Node) /\ blocked \subseteq Keywords
    BY DEF ExportTyped
  <2>1. ASSUME NEW text \in RuleTexts, AddRule(text) PROVE ExportTyped'
    <3>1. Rule(text, TRUE) \in RuleRow
      BY ExportAssumption, RuleType
    <3>2. Append(rules, Rule(text, TRUE)) \in Seq(RuleRow)
      BY <2>0, <3>1, AppendProperties
    <3> QED
      BY <2>0, <2>1, <3>2 DEF AddRule, ExportTyped
  <2>2. ASSUME NEW i \in DOMAIN rules, ToggleRule(i) PROVE ExportTyped'
    <3>1. rules[i] \in RuleRow /\ [rules[i] EXCEPT !.on = ~@] \in RuleRow
      <4>1. rules[i] \in RuleRow
        BY <2>0
      <4> QED
        BY <4>1 DEF RuleRow
    <3>2. rules' = [rules EXCEPT ![i] = [rules[i] EXCEPT !.on = ~@]]
      BY <2>2 DEF ToggleRule
    <3>3. rules' \in Seq(RuleRow)
      BY <2>0, <3>1, <3>2
    <3> QED
      BY <2>0, <2>2, <3>3 DEF ToggleRule, ExportTyped
  <2>3. ASSUME NEW i \in DOMAIN rules, DeleteRule(i) PROVE ExportTyped'
    <3>1. RemoveAt(rules, i) \in Seq(RuleRow)
      BY <2>0, RemoveAtType
    <3> QED
      BY <2>0, <2>3, <3>1 DEF DeleteRule, ExportTyped
  <2>4. ASSUME NEW words \in SUBSET Keywords, SaveFilter(words) PROVE ExportTyped'
    BY <2>0, <2>4 DEF SaveFilter, ExportTyped
  <2>5. ASSUME NEW list \in Fetched, Replace(list) PROVE ExportTyped'
    <3>1. list \in Seq(Node)
      BY ExportAssumption DEF ExportAssumption
    <3> QED
      BY <2>0, <2>5, <3>1 DEF Replace, ExportTyped
  <2>6. ASSUME NEW i \in DOMAIN nodes, DeleteNode(i) PROVE ExportTyped'
    <3>1. RemoveAt(nodes, i) \in Seq(Node)
      BY <2>0, RemoveAtType
    <3> QED
      BY <2>0, <2>6, <3>1 DEF DeleteNode, ExportTyped
  <2>7. CASE UNCHANGED exportVars
    BY <2>0, <2>7 DEF exportVars, ExportTyped
  <2> QED
    BY <2>1, <2>2, <2>3, <2>4, <2>5, <2>6, <2>7 DEF ExportNext
<1> QED
  BY <1>1, <1>2, PTL DEF ExportSpec

\* Rules that apply to the stored names go on applying to them, in every step
\* (rename_rule_add, _toggle, _delete, _replace_account_nodes).
THEOREM RulesStayUsable == ExportSpec => StaysUsable
<1>1. ASSUME ExportTyped, [ExportNext]_exportVars
      PROVE  [Usable(rules, nodes) => Usable(rules, nodes)']_<<rules, nodes>>
  <2> SUFFICES ASSUME Usable(rules, nodes), ExportNext PROVE Usable(rules', nodes')
    BY <1>1 DEF exportVars
  <2>1. ASSUME NEW text \in RuleTexts, AddRule(text) PROVE Usable(rules', nodes')
    BY <2>1 DEF AddRule
  <2>2. ASSUME NEW i \in DOMAIN rules, ToggleRule(i) PROVE Usable(rules', nodes')
    BY <2>2 DEF ToggleRule
  <2>3. ASSUME NEW i \in DOMAIN rules, DeleteRule(i) PROVE Usable(rules', nodes')
    BY <2>3 DEF DeleteRule
  <2>4. ASSUME NEW words \in SUBSET Keywords, SaveFilter(words) PROVE Usable(rules', nodes')
    BY <2>4 DEF SaveFilter
  <2>5. ASSUME NEW list \in Fetched, Replace(list) PROVE Usable(rules', nodes')
    BY <2>5 DEF Replace
  <2>6. ASSUME NEW i \in DOMAIN nodes, DeleteNode(i) PROVE Usable(rules', nodes')
    <3>1. nodes' = RemoveAt(nodes, i) /\ rules' = rules
      BY <2>6 DEF DeleteNode
    <3>2. nodes \in Seq(Node)
      BY <1>1 DEF ExportTyped
    <3>3. \A k \in DOMAIN nodes' : \E j \in DOMAIN nodes : nodes'[k] = nodes[j]
      BY <3>1, <3>2, RemoveAtType
    <3> QED
      BY <3>1, <3>3 DEF Usable
  <2> QED
    BY <2>1, <2>2, <2>3, <2>4, <2>5, <2>6 DEF ExportNext
<1> QED
  BY <1>1, ExportTypeOK, PTL DEF ExportSpec, StaysUsable

\* The names handed out are different, free and not too long, and a number takes no
\* node's name away (prepare_subscription).
THEOREM NamesOfTheirOwn == ExportSpec => []NamesAreOwn
<1>1. ASSUME ExportTyped PROVE NamesAreOwn
  <2>1. Valid \subseteq DOMAIN nodes
    BY <1>1, ValidComplete, CompleteClosed, SelectedFinite
  <2> QED
    BY <1>1, <2>1, ExportAssumption, NamesOwn
<1> QED
  BY <1>1, ExportTypeOK, PTL

\* Exactly the nodes with complete chains are handed out, each dialed through the node
\* it was dialed through before (prepare_subscription).
THEOREM ChainsAreKept == ExportSpec => []ChainsKept
<1>1. ASSUME ExportTyped PROVE ChainsKept
  BY <1>1, ExportAssumption, ChainsOwn
<1> QED
  BY <1>1, ExportTypeOK, PTL
==============================================================================
