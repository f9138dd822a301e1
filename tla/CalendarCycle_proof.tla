-------------------------- MODULE CalendarCycle_proof --------------------------
(***************************************************************************)
(* Proofs about the calendar, about the traffic cycle and about the two    *)
(* run together.                                                           *)
(*                                                                         *)
(* The calendar: for every reset day and every range of years. Leap years  *)
(* enter only through the length of February.                              *)
(*                                                                         *)
(* The cycle: for any number of requests, days, charges and totals, and    *)
(* any monotone division of the days into cycles. Types and the order of   *)
(* syncs need CycleAssumption alone. What the resets promise also needs a  *)
(* fixed reset day, and an upstream that sends traffic with every expiry:  *)
(* TrafficCycle_expiry shows that the code promises less without.          *)
(***************************************************************************)
EXTENDS CalendarCycle, TLAPS

-----------------------------------------------------------------------------
(* The calendar. *)

USE CalendarAssumption

LEMMA MonthLength ==
  ASSUME NEW y \in Nat, NEW m \in 1 .. 12
  PROVE  /\ MonthDays(y, m) \in 28 .. 31
         /\ m \in {1, 12} => MonthDays(y, m) = 31
BY DEF MonthDays

LEMMA ClampedDate ==
  ASSUME NEW y \in Nat, NEW m \in 1 .. 12, NEW d \in 1 .. 31
  PROVE  /\ DateWithDay(y, m, d) \in Dates
         /\ DateWithDay(y, m, d)[1] = y /\ DateWithDay(y, m, d)[2] = m
         /\ DateWithDay(y, m, d)[3] \in 1 .. 31
         /\ DateWithDay(y, m, d)[3] <= d
         /\ DateWithDay(y, m, d)[3] = d \/ DateWithDay(y, m, d)[3] = MonthDays(y, m)
BY MonthLength DEF DateWithDay, Dates

LEMMA TomorrowType == ASSUME NEW t \in Dates PROVE Tomorrow(t) \in Dates
<1>1. /\ t[1] \in Nat /\ t[2] \in 1 .. 12 /\ t[3] \in 1 .. 31
      /\ t[3] <= MonthDays(t[1], t[2])
  BY DEF Dates
<1>2. CASE t[3] < MonthDays(t[1], t[2])
  BY <1>1, <1>2, MonthLength DEF Tomorrow, Dates
<1>3. CASE ~(t[3] < MonthDays(t[1], t[2])) /\ t[2] < 12
  BY <1>1, <1>3, MonthLength DEF Tomorrow, Dates
<1>4. CASE ~(t[3] < MonthDays(t[1], t[2])) /\ ~(t[2] < 12)
  BY <1>1, <1>4, MonthLength DEF Tomorrow, Dates
<1> QED
  BY <1>2, <1>3, <1>4

LEMMA CalendarStep == CalendarTypeOK /\ [NextDay]_calendar => CalendarTypeOK'
BY TomorrowType DEF CalendarTypeOK, NextDay, calendar

LEMMA CalendarInitType == CalendarInit => CalendarTypeOK
<1> SUFFICES ASSUME CalendarInit PROVE CalendarTypeOK
  OBVIOUS
<1>1. <<FirstYear, 1, 1>> \in Dates
  <2>1. MonthDays(FirstYear, 1) \in 28 .. 31 /\ FirstYear \in Nat
    BY MonthLength
  <2> QED
    BY <2>1 DEF Dates
<1>2. FirstYear - 1 \in Nat /\ 12 \in 1 .. 12
  OBVIOUS
<1>3. DateWithDay(FirstYear - 1, 12, day) \in Dates
  BY <1>2, ClampedDate DEF CalendarInit
<1> QED
  BY <1>1, <1>3 DEF CalendarInit, CalendarTypeOK

\* What a day's change does to the derived cycle: it begins anew exactly on
\* the days the documented rule names.
LEMMA PreviousStep ==
  ASSUME NEW d \in 1 .. 31, NEW t \in Dates
  PROVE  ResetInfo(d, Tomorrow(t)).previous =
           IF BeginsOn(d, Tomorrow(t)) THEN Tomorrow(t) ELSE ResetInfo(d, t).previous
<1>1. /\ t[1] \in Nat /\ t[2] \in 1 .. 12 /\ t[3] \in 1 .. 31
      /\ t[3] <= MonthDays(t[1], t[2]) /\ t = <<t[1], t[2], t[3]>>
  BY DEF Dates
<1>2. CASE t[3] < MonthDays(t[1], t[2])
  BY <1>1, <1>2, MonthLength DEF Tomorrow, ResetInfo, BeginsOn, DateWithDay, Earlier
<1>3. CASE t[3] = MonthDays(t[1], t[2]) /\ t[2] < 12
  BY <1>1, <1>3, MonthLength DEF Tomorrow, ResetInfo, BeginsOn, DateWithDay, Earlier
<1>4. CASE t[3] = MonthDays(t[1], t[2]) /\ t[2] = 12
  BY <1>1, <1>4, MonthLength DEF Tomorrow, ResetInfo, BeginsOn, DateWithDay, Earlier
<1> QED
  BY <1>1, <1>2, <1>3, <1>4, MonthLength

\* The cycle derived from a date is the one that really began last (see
\* CycleIsPresent), in every month of every year and for every reset day.
THEOREM CycleCorrect == CalendarSpec => []CycleIsPresent
<1> DEFINE IInv == CalendarTypeOK /\ CycleIsPresent
<1>1. CalendarInit => CycleIsPresent
  BY MonthLength DEF CalendarInit, CycleIsPresent, Info, ResetInfo, DateWithDay, Earlier
<1>2. IInv /\ [NextDay]_calendar => CycleIsPresent'
  <2>1. ASSUME IInv, NextDay PROVE CycleIsPresent'
    BY <2>1, PreviousStep DEF CalendarTypeOK, NextDay, CycleIsPresent, Info
  <2>2. ASSUME IInv, UNCHANGED calendar PROVE CycleIsPresent'
    BY <2>2 DEF calendar, CycleIsPresent, Info
  <2> QED
    BY <2>1, <2>2
<1> QED
  BY <1>1, <1>2, CalendarInitType, CalendarStep, PTL DEF CalendarSpec

\* The derived cycle never begins after date.
LEMMA PreviousIsPast ==
  ASSUME NEW d \in 1 .. 31, NEW t \in Dates
  PROVE  ResetInfo(d, t).previous # Tomorrow(t)
<1>1. t[1] \in Nat /\ t[2] \in 1 .. 12 /\ t[3] \in 1 .. 31 /\ t = <<t[1], t[2], t[3]>>
  BY DEF Dates
<1>2. CASE Earlier(t, DateWithDay(t[1], t[2], d))
  BY <1>1, <1>2 DEF ResetInfo, DateWithDay, Tomorrow
<1>3. CASE ~Earlier(t, DateWithDay(t[1], t[2], d))
  BY <1>1, <1>3, MonthLength DEF ResetInfo, DateWithDay, Tomorrow, Earlier
<1> QED
  BY <1>2, <1>3

\* The next reset and the days left, by where date stands in its month.
LEMMA NextOf ==
  ASSUME NEW d \in 1 .. 31, NEW t \in Dates,
         NEW k \in 1 .. 31,
         k = IF d <= MonthDays(t[1], t[2]) THEN d ELSE MonthDays(t[1], t[2])
  PROVE  /\ t[3] <= k => /\ ResetInfo(d, t).next = <<t[1], t[2], k>>
                         /\ ResetInfo(d, t).days = k - t[3]
         /\ t[3] > k /\ t[2] < 12 =>
              /\ ResetInfo(d, t).next = DateWithDay(t[1], t[2] + 1, d)
              /\ ResetInfo(d, t).days = MonthDays(t[1], t[2]) - t[3]
                                          + DateWithDay(t[1], t[2] + 1, d)[3]
         /\ t[3] > k /\ t[2] = 12 =>
              /\ ResetInfo(d, t).next = DateWithDay(t[1] + 1, 1, d)
              /\ ResetInfo(d, t).days = MonthDays(t[1], t[2]) - t[3]
                                          + DateWithDay(t[1] + 1, 1, d)[3]
<1>1. t[1] \in Nat /\ t[2] \in 1 .. 12 /\ t[3] \in 1 .. 31 /\ t = <<t[1], t[2], t[3]>>
  BY DEF Dates
<1> DEFINE this == DateWithDay(t[1], t[2], d)
<1>2. this = <<t[1], t[2], k>>
  BY DEF DateWithDay
<1>3. CASE t[3] <= k
  <2>1. ~Earlier(this, t)
    BY <1>1, <1>2, <1>3 DEF Earlier
  <2>2. ResetInfo(d, t).next = this
    BY <2>1 DEF ResetInfo
  <2>3. ResetInfo(d, t).days = DaysFromTo(t, this)
    BY <2>1 DEF ResetInfo
  <2> QED
    BY <1>1, <1>2, <1>3, <2>2, <2>3 DEF DaysFromTo
<1>4. CASE t[3] > k
  <2>1. Earlier(this, t)
    BY <1>1, <1>2, <1>4 DEF Earlier
  <2>2. CASE t[2] < 12
    <3> DEFINE n == DateWithDay(t[1], t[2] + 1, d)
    <3>1. ResetInfo(d, t).next = n /\ ResetInfo(d, t).days = DaysFromTo(t, n)
      BY <1>1, <2>1, <2>2 DEF ResetInfo
    <3>2. n[2] = t[2] + 1
      BY DEF DateWithDay
    <3>3. DaysFromTo(t, n) = MonthDays(t[1], t[2]) - t[3] + n[3]
      BY <1>1, <3>2 DEF DaysFromTo
    <3> QED
      BY <1>1, <1>4, <2>2, <3>1, <3>3
  <2>3. CASE t[2] = 12
    <3> DEFINE n == DateWithDay(t[1] + 1, 1, d)
    <3>1. ResetInfo(d, t).next = n /\ ResetInfo(d, t).days = DaysFromTo(t, n)
      BY <1>1, <2>1, <2>3 DEF ResetInfo
    <3>2. n[2] = 1
      BY DEF DateWithDay
    <3>3. DaysFromTo(t, n) = MonthDays(t[1], t[2]) - t[3] + n[3]
      BY <1>1, <2>3, <3>2 DEF DaysFromTo
    <3> QED
      BY <1>1, <1>4, <2>3, <3>1, <3>3
  <2> QED
    BY <1>1, <2>2, <2>3
<1> QED
  BY <1>1, <1>3, <1>4

LEMMA CountdownStep ==
  ASSUME NEW d \in 1 .. 31, NEW t \in Dates
  PROVE  /\ ResetInfo(d, t).days # 0 =>
              /\ ResetInfo(d, Tomorrow(t)).days = ResetInfo(d, t).days - 1
              /\ ResetInfo(d, Tomorrow(t)).next = ResetInfo(d, t).next
         /\ ResetInfo(d, Tomorrow(t)).days = 0 <=> BeginsOn(d, Tomorrow(t))
<1> DEFINE L == MonthDays(t[1], t[2])
           k == IF d <= L THEN d ELSE L
           u == Tomorrow(t)
           M == MonthDays(u[1], u[2])
           j == IF d <= M THEN d ELSE M
<1>1. /\ t[1] \in Nat /\ t[2] \in 1 .. 12 /\ t[3] \in 1 .. 31 /\ t[3] <= L
      /\ t = <<t[1], t[2], t[3]>> /\ u \in Dates
  BY TomorrowType DEF Dates
<1>2. u[1] \in Nat /\ u[2] \in 1 .. 12 /\ u[3] \in 1 .. 31 /\ u[3] <= M
  BY <1>1 DEF Dates
<1>3. L \in 28 .. 31 /\ M \in 28 .. 31 /\ k \in 1 .. 31 /\ j \in 1 .. 31
  BY <1>1, <1>2, MonthLength
<1>4. BeginsOn(d, u) <=> u[3] = j
  BY <1>2, <1>3 DEF BeginsOn
<1>5. /\ u[3] <= j => ResetInfo(d, u).next = <<u[1], u[2], j>> /\ ResetInfo(d, u).days = j - u[3]
      /\ u[3] > j => ResetInfo(d, u).days # 0
  <2>1. u[3] <= j => ResetInfo(d, u).next = <<u[1], u[2], j>> /\ ResetInfo(d, u).days = j - u[3]
    BY <1>1, <1>3, NextOf
  <2>2. ASSUME u[3] > j, u[2] < 12 PROVE ResetInfo(d, u).days # 0
    <3>1. DateWithDay(u[1], u[2] + 1, d)[3] \in 1 .. 31
      <4>1. u[1] \in Nat /\ u[2] + 1 \in 1 .. 12
        BY <1>2, <2>2
      <4> QED
        BY <4>1, ClampedDate
    <3>2. ResetInfo(d, u).days = M - u[3] + DateWithDay(u[1], u[2] + 1, d)[3]
      BY <1>1, <1>3, <2>2, NextOf
    <3> QED
      BY <1>2, <1>3, <3>1, <3>2
  <2>3. ASSUME u[3] > j, u[2] = 12 PROVE ResetInfo(d, u).days # 0
    <3>1. DateWithDay(u[1] + 1, 1, d)[3] \in 1 .. 31
      <4>1. u[1] + 1 \in Nat /\ 1 \in 1 .. 12
        BY <1>2, <2>3
      <4> QED
        BY <4>1, ClampedDate
    <3>2. ResetInfo(d, u).days = M - u[3] + DateWithDay(u[1] + 1, 1, d)[3]
      BY <1>1, <1>3, <2>3, NextOf
    <3> QED
      BY <1>2, <1>3, <3>1, <3>2
  <2> QED
    BY <1>2, <2>1, <2>2, <2>3
<1>6. ResetInfo(d, u).days = 0 <=> BeginsOn(d, u)
  BY <1>2, <1>3, <1>4, <1>5
<1>7. ASSUME ResetInfo(d, t).days # 0
      PROVE  /\ ResetInfo(d, u).days = ResetInfo(d, t).days - 1
             /\ ResetInfo(d, u).next = ResetInfo(d, t).next
  <2>1. CASE t[3] <= k
    <3>1. ResetInfo(d, t).next = <<t[1], t[2], k>> /\ ResetInfo(d, t).days = k - t[3]
      BY <1>3, <2>1, NextOf
    <3>2. t[3] < L
      BY <1>1, <1>3, <1>7, <2>1, <3>1
    <3>3. u = <<t[1], t[2], t[3] + 1>> /\ M = L /\ j = k
      BY <3>2 DEF Tomorrow
    <3> QED
      BY <1>1, <1>3, <1>5, <1>7, <2>1, <3>1, <3>3
  <2>2. CASE t[3] > k /\ t[3] < L
    <3>1. u = <<t[1], t[2], t[3] + 1>> /\ M = L /\ j = k /\ u[3] > j
      BY <1>1, <1>3, <2>2 DEF Tomorrow
    <3>2. CASE t[2] < 12
      <4>1. /\ ResetInfo(d, t).next = DateWithDay(t[1], t[2] + 1, d)
            /\ ResetInfo(d, t).days = L - t[3] + DateWithDay(t[1], t[2] + 1, d)[3]
        BY <1>3, <2>2, <3>2, NextOf
      <4>2. /\ ResetInfo(d, u).next = DateWithDay(u[1], u[2] + 1, d)
            /\ ResetInfo(d, u).days = M - u[3] + DateWithDay(u[1], u[2] + 1, d)[3]
        <5>1. u[3] > j /\ u[2] < 12
          BY <3>1, <3>2
        <5> QED
          BY <1>1, <1>3, <5>1, NextOf
      <4>3. DateWithDay(t[1], t[2] + 1, d)[3] \in 1 .. 31
        <5>1. t[1] \in Nat /\ t[2] + 1 \in 1 .. 12
          BY <1>1, <3>2
        <5> QED
          BY <5>1, ClampedDate
      <4>4. u[1] = t[1] /\ u[2] = t[2] /\ u[3] = t[3] + 1
        BY <3>1
      <4>5. DateWithDay(u[1], u[2] + 1, d) = DateWithDay(t[1], t[2] + 1, d)
        BY <4>4
      <4>6. L - t[3] \in Nat /\ M - u[3] = L - t[3] - 1
        BY <1>1, <1>3, <2>2, <3>1, <4>4
      <4>7. ResetInfo(d, u).next = ResetInfo(d, t).next
        BY <4>1, <4>2, <4>5
      <4>8. ResetInfo(d, u).days = L - t[3] - 1 + DateWithDay(t[1], t[2] + 1, d)[3]
        BY <4>2, <4>5, <4>6
      <4>9. ResetInfo(d, u).days = ResetInfo(d, t).days - 1
        <5> DEFINE n == DateWithDay(t[1], t[2] + 1, d)[3]
                   r == L - t[3]
        <5>1. n \in Nat /\ r \in Nat
          BY <4>3, <4>6
        <5>2. ResetInfo(d, u).days = r - 1 + n /\ ResetInfo(d, t).days = r + n
          BY <4>1, <4>8
        <5> HIDE DEF n, r
        <5> QED
          BY <5>1, <5>2
      <4> QED
        BY <4>7, <4>9
    <3>3. CASE t[2] = 12
      <4>1. /\ ResetInfo(d, t).next = DateWithDay(t[1] + 1, 1, d)
            /\ ResetInfo(d, t).days = L - t[3] + DateWithDay(t[1] + 1, 1, d)[3]
        BY <1>3, <2>2, <3>3, NextOf
      <4>2. /\ ResetInfo(d, u).next = DateWithDay(u[1] + 1, 1, d)
            /\ ResetInfo(d, u).days = M - u[3] + DateWithDay(u[1] + 1, 1, d)[3]
        <5>1. u[3] > j /\ u[2] = 12
          BY <3>1, <3>3
        <5> QED
          BY <1>1, <1>3, <5>1, NextOf
      <4>3. DateWithDay(t[1] + 1, 1, d)[3] \in 1 .. 31
        <5>1. t[1] + 1 \in Nat /\ 1 \in 1 .. 12
          BY <1>1, <3>3
        <5> QED
          BY <5>1, ClampedDate
      <4>4. u[1] = t[1] /\ u[2] = t[2] /\ u[3] = t[3] + 1
        BY <3>1
      <4>5. DateWithDay(u[1] + 1, 1, d) = DateWithDay(t[1] + 1, 1, d)
        BY <4>4
      <4>6. L - t[3] \in Nat /\ M - u[3] = L - t[3] - 1
        BY <1>1, <1>3, <2>2, <3>1, <4>4
      <4>7. ResetInfo(d, u).next = ResetInfo(d, t).next
        BY <4>1, <4>2, <4>5
      <4>8. ResetInfo(d, u).days = L - t[3] - 1 + DateWithDay(t[1] + 1, 1, d)[3]
        BY <4>2, <4>5, <4>6
      <4>9. ResetInfo(d, u).days = ResetInfo(d, t).days - 1
        <5> DEFINE n == DateWithDay(t[1] + 1, 1, d)[3]
                   r == L - t[3]
        <5>1. n \in Nat /\ r \in Nat
          BY <4>3, <4>6
        <5>2. ResetInfo(d, u).days = r - 1 + n /\ ResetInfo(d, t).days = r + n
          BY <4>1, <4>8
        <5> HIDE DEF n, r
        <5> QED
          BY <5>1, <5>2
      <4> QED
        BY <4>7, <4>9
    <3> QED
      BY <1>1, <3>2, <3>3
  <2>3. CASE t[3] > k /\ t[3] = L /\ t[2] < 12
    <3>1. u = <<t[1], t[2] + 1, 1>> /\ u[3] <= j
      BY <1>1, <1>3, <2>3 DEF Tomorrow
    <3>2. DateWithDay(t[1], t[2] + 1, d) = <<u[1], u[2], j>>
      BY <3>1 DEF DateWithDay
    <3>3. /\ ResetInfo(d, t).next = DateWithDay(t[1], t[2] + 1, d)
          /\ ResetInfo(d, t).days = L - t[3] + DateWithDay(t[1], t[2] + 1, d)[3]
      BY <1>3, <2>3, NextOf
    <3> QED
      BY <1>1, <1>3, <1>5, <2>3, <3>1, <3>2, <3>3
  <2>4. CASE t[3] > k /\ t[3] = L /\ t[2] = 12
    <3>1. u = <<t[1] + 1, 1, 1>> /\ u[3] <= j
      BY <1>1, <1>3, <2>4 DEF Tomorrow
    <3>2. DateWithDay(t[1] + 1, 1, d) = <<u[1], u[2], j>>
      BY <3>1 DEF DateWithDay
    <3>3. /\ ResetInfo(d, t).next = DateWithDay(t[1] + 1, 1, d)
          /\ ResetInfo(d, t).days = L - t[3] + DateWithDay(t[1] + 1, 1, d)[3]
      BY <1>3, <2>4, NextOf
    <3> QED
      BY <1>1, <1>3, <1>5, <2>4, <3>1, <3>2, <3>3
  <2> QED
    BY <1>1, <1>3, <2>1, <2>2, <2>3, <2>4
<1> QED
  BY <1>6, <1>7

\* The days left are counted down one by one, and a cycle begins when and
\* only when none is left (see Countdown).
THEOREM CountdownCorrect == CalendarSpec => Countdown
<1> DEFINE A == /\ Info.days # 0 => Info'.days = Info.days - 1 /\ Info'.next = Info.next
                /\ Info'.days = 0 <=> started' = date'
<1>1. ASSUME CalendarTypeOK, CycleIsPresent, NextDay PROVE A
  <2>1. day \in 1 .. 31 /\ date \in Dates /\ day' = day /\ date' = Tomorrow(date)
    BY <1>1 DEF CalendarTypeOK, NextDay
  <2>2. started' = date' <=> BeginsOn(day, Tomorrow(date))
    <3>1. ResetInfo(day, date).previous # Tomorrow(date)
      BY <2>1, PreviousIsPast
    <3> QED
      BY <1>1, <2>1, <3>1 DEF NextDay, CycleIsPresent, Info
  <2> QED
    BY <2>1, <2>2, CountdownStep DEF Info
<1>2. CalendarTypeOK /\ CycleIsPresent /\ [NextDay]_calendar => [A]_calendar
  BY <1>1
<1>3. CalendarSpec => []CalendarTypeOK
  BY CalendarInitType, CalendarStep, PTL DEF CalendarSpec
<1> QED
  BY <1>2, <1>3, CycleCorrect, PTL DEF CalendarSpec, Countdown
-----------------------------------------------------------------------------
(* The cycle. *)

USE CycleAssumption

LEMMA Bounds ==
  /\ Days \subseteq Int /\ 0 \in Days
  /\ \A e \in Expiries, d \in Days : Start(e, d) \in Int /\ Start(e, d) <= d
  /\ \A e \in Expiries, d, f \in Days : f >= d => Start(e, f) >= Start(e, d)
BY DEF Days

LEMMA DoneType == Done \in Request
BY DEF Done, Request, PC, Kinds, Days

\* A step that replaces one request's record.
LEMMA ResumeType ==
  ASSUME NEW h \in Requests, req[h] \in Request
  PROVE  Resume(h) \in Request
<1>1. ASSUME NEW s \in PC PROVE [req[h] EXCEPT !.pc = s] \in Request
  BY <1>1 DEF Request
<1> QED
  BY <1>1, DoneType DEF Resume, Request, PC, Kinds

LEMMA TypeStep == TypeOK /\ [Next]_vars => TypeOK'
<1> SUFFICES ASSUME TypeOK, [Next]_vars PROVE TypeOK'
  OBVIOUS
<1> USE DEF TypeOK, account
<1>0. \A h \in Requests : req[h] \in Request
  OBVIOUS
<1>1. CASE Midnight
  BY <1>1 DEF Midnight, Days
<1>2. CASE UpstreamMoves
  BY <1>2 DEF UpstreamMoves
<1>a. ASSUME NEW r \in [Requests -> Request] PROVE Outdate(r) \in [Requests -> Request]
  <2>1. ASSUME NEW h \in Requests PROVE [r[h] EXCEPT !.current = FALSE] \in Request
    BY DEF Request
  <2> QED
    BY <2>1 DEF Outdate
<1>3. CASE Edit
  BY <1>3, <1>a DEF Edit
<1>b. ASSUME NEW h \in Requests PROVE [req EXCEPT ![h] = Done] \in [Requests -> Request]
  BY DoneType
<1>4. ASSUME NEW h \in Requests, NEW k \in Kinds, Arrive(h, k) PROVE TypeOK'
  <2>1. [Done EXCEPT !.pc = "select", !.kind = k, !.day = today] \in Request
    BY DoneType DEF Request, PC
  <2> QED
    BY <1>4, <2>1 DEF Arrive
<1>5. ASSUME NEW h \in Requests, Select(h) PROVE TypeOK'
  <2>1. [req[h] EXCEPT !.pc = "reset", !.exp = expire, !.last = lastReset] \in Request
    BY <1>0 DEF Request, PC
  <2> QED
    BY <1>5, <2>1 DEF Select
<1>6. ASSUME NEW h \in Requests, Reset(h) PROVE TypeOK'
  <2>1. used' \in 0 .. MaxUsed /\ lastReset' \in Int
    <3>1. CASE Resets(h)
      <4>1. Start(req[h].exp, req[h].day) \in Int
        BY <1>0, <3>1, Bounds DEF Resets, Due, Request
      <4> QED
        BY <1>6, <3>1, <4>1 DEF Reset
    <3>2. CASE ~Resets(h)
      BY <1>6, <3>2 DEF Reset
    <3> QED
      BY <3>1, <3>2
  <2> QED
    BY <1>0, <1>6, <2>1, ResumeType DEF Reset
<1>7. ASSUME NEW h \in Requests, Charge(h) PROVE TypeOK'
  BY <1>7, <1>b DEF Charge
<1>8. ASSUME NEW h \in Requests, SetTotal(h) PROVE TypeOK'
  <2>1. used' \in 0 .. MaxUsed
    BY <1>8 DEF SetTotal
  <2> QED
    BY <1>8, <1>b, <2>1 DEF SetTotal
<1>9. ASSUME NEW h \in Requests, ReadAccount(h) PROVE TypeOK'
  <2>1. [req[h] EXCEPT !.pc = "fetch", !.current = TRUE] \in Request
    BY <1>0 DEF Request, PC
  <2> QED
    BY <1>9, <2>1 DEF ReadAccount
<1>10. ASSUME NEW h \in Requests, Fetch(h) PROVE TypeOK'
  <2>1. [req[h] EXCEPT !.pc = "store", !.got = upstream] \in Request
    BY <1>0 DEF Request, PC
  <2> QED
    BY <1>10, <2>1 DEF Fetch
<1>11. ASSUME NEW h \in Requests, FetchFails(h) \/ Skip(h) PROVE TypeOK'
  BY <1>11, <1>b DEF FetchFails, Skip
<1>12. ASSUME NEW h \in Requests, Store(h) PROVE TypeOK'
  <2>1. PICK n \in Totals, e \in Expiries \cup {expire} :
          /\ used' = IF n = NoTotal THEN used ELSE n
          /\ expire' = e
          /\ lastReset' = IF n # NoTotal /\ e # NoExpiry THEN Start(e, today) ELSE lastReset
    BY <1>12 DEF Store
  <2>2. used' \in 0 .. MaxUsed /\ expire' \in Expiries \cup {NoExpiry}
    BY <2>1
  <2>3. lastReset' \in Int
    BY <2>1, Bounds
  <2>4. synced' \in 0 .. MaxUpstream
    BY <1>0, <1>12 DEF Store, Request
  <2>5. req' \in [Requests -> Request]
    BY <1>12, <1>a, <1>b DEF Store
  <2> QED
    BY <1>12, <2>2, <2>3, <2>4, <2>5 DEF Store
<1>13. CASE UNCHANGED vars
  BY <1>13 DEF vars
<1> QED
  BY <1>1, <1>2, <1>3, <1>4, <1>5, <1>6, <1>7, <1>8, <1>9, <1>10, <1>11, <1>12, <1>13 DEF Next

LEMMA InitType == Init => TypeOK
BY DoneType DEF Init, TypeOK, Days

\* Every variable keeps its kind of value, and the total its bound, over any
\* number of requests and days (the handlers' range checks).
THEOREM TypeCorrect == Spec => []TypeOK
BY InitType, TypeStep, PTL DEF Spec

-----------------------------------------------------------------------------
(* Syncs.                                                                  *)

\* Nothing is fetched ahead of the upstream, and a sync whose snapshot is still
\* current has fetched nothing older than what is stored.
SyncInv ==
  /\ synced <= upstream
  /\ \A h \in Requests :
       /\ req[h].pc = "store" => req[h].got <= upstream
       /\ req[h].pc = "store" /\ req[h].current => req[h].got >= synced

\* A step that gives one request a new record, which is not about to store.
LEMMA NotStoring ==
  ASSUME TypeOK, SyncInv, NEW h \in Requests, NEW x, x.pc # "store",
         req' = [req EXCEPT ![h] = x], UNCHANGED <<upstream, synced>>
  PROVE  SyncInv' /\ synced' >= synced
BY DEF TypeOK, SyncInv

LEMMA ResumePC ==
  ASSUME NEW h \in Requests, req[h] \in Request
  PROVE  Resume(h).pc # "store"
BY DEF Resume, Request, Kinds, Done

LEMMA SyncStep == TypeOK /\ SyncInv /\ [Next]_vars => SyncInv' /\ synced' >= synced
<1> SUFFICES ASSUME TypeOK, SyncInv, [Next]_vars PROVE SyncInv' /\ synced' >= synced
  OBVIOUS
<1> USE DEF account
<1>0. /\ upstream \in Nat /\ synced \in Nat /\ Done.pc = "idle"
      /\ req \in [Requests -> Request]
      /\ \A h \in Requests : req[h] \in Request /\ req[h].got \in Nat
  BY DEF TypeOK, Request, Done
<1>a. ASSUME NEW h \in Requests, req' = [req EXCEPT ![h] = Done], UNCHANGED <<upstream, synced>>
      PROVE  SyncInv' /\ synced' >= synced
  BY <1>0, <1>a, NotStoring
<1>1. CASE Midnight
  BY <1>0, <1>1 DEF Midnight, SyncInv
<1>2. CASE UpstreamMoves
  BY <1>0, <1>2 DEF UpstreamMoves, SyncInv
<1>b. ASSUME NEW r \in [Requests -> Request], NEW h \in Requests
      PROVE  /\ Outdate(r)[h].pc = r[h].pc /\ Outdate(r)[h].got = r[h].got
             /\ ~Outdate(r)[h].current
  BY DEF Outdate, Request
<1>3. CASE Edit
  <2>1. /\ UNCHANGED <<upstream, synced>>
        /\ \A h \in Requests : /\ req'[h].pc = req[h].pc /\ req'[h].got = req[h].got
                               /\ ~req'[h].current
    BY <1>0, <1>3, <1>b DEF Edit
  <2> QED
    BY <1>0, <2>1 DEF SyncInv
<1>4. ASSUME NEW h \in Requests, NEW k \in Kinds, Arrive(h, k) PROVE SyncInv' /\ synced' >= synced
  <2>1. [Done EXCEPT !.pc = "select", !.kind = k, !.day = today].pc = "select"
    BY DEF Done
  <2> QED
    BY <1>4, <2>1, NotStoring DEF Arrive
<1>5. ASSUME NEW h \in Requests, Select(h) PROVE SyncInv' /\ synced' >= synced
  <2>1. [req[h] EXCEPT !.pc = "reset", !.exp = expire, !.last = lastReset].pc = "reset"
    BY <1>0 DEF Request
  <2> QED
    BY <1>5, <2>1, NotStoring DEF Select
<1>6. ASSUME NEW h \in Requests, Reset(h) PROVE SyncInv' /\ synced' >= synced
  BY <1>0, <1>6, NotStoring, ResumePC DEF Reset
<1>7. ASSUME NEW h \in Requests, Charge(h) \/ SetTotal(h) \/ FetchFails(h) \/ Skip(h)
      PROVE  SyncInv' /\ synced' >= synced
  BY <1>7, <1>a DEF Charge, SetTotal, FetchFails, Skip
<1>8. ASSUME NEW h \in Requests, ReadAccount(h) PROVE SyncInv' /\ synced' >= synced
  <2>1. [req[h] EXCEPT !.pc = "fetch", !.current = TRUE].pc = "fetch"
    BY <1>0 DEF Request
  <2> QED
    BY <1>8, <2>1, NotStoring DEF ReadAccount
<1>9. ASSUME NEW h \in Requests, Fetch(h) PROVE SyncInv' /\ synced' >= synced
  <2> DEFINE x == [req[h] EXCEPT !.pc = "store", !.got = upstream]
  <2>1. req' = [req EXCEPT ![h] = x] /\ UNCHANGED <<upstream, synced>>
    BY <1>9 DEF Fetch
  <2>2. x.got = upstream
    BY <1>0 DEF Request
  <2> HIDE DEF x
  <2> QED
    BY <1>0, <2>1, <2>2 DEF SyncInv
<1>10. ASSUME NEW h \in Requests, Store(h) PROVE SyncInv' /\ synced' >= synced
  <2> DEFINE r == [req EXCEPT ![h] = Done]
  <2>1. /\ req[h].pc = "store" /\ req[h].current /\ synced' = req[h].got
        /\ upstream' = upstream /\ req' = Outdate(r)
    BY <1>10 DEF Store
  <2>2. r \in [Requests -> Request]
    BY <1>0, DoneType
  <2>3. \A g \in Requests : r[g].pc = "store" => r[g] = req[g]
    BY <1>0
  <2> HIDE DEF r
  <2>4. \A g \in Requests : /\ req'[g].pc = r[g].pc /\ req'[g].got = r[g].got
                             /\ ~req'[g].current
    BY <1>b, <2>1, <2>2
  <2>5. \A g \in Requests : req'[g].pc = "store" => req[g].pc = "store" /\ req'[g].got = req[g].got
    BY <2>3, <2>4
  <2>6. \A g \in Requests : ~req'[g].current
    BY <2>4
  <2> QED
    <3>1. synced' >= synced /\ synced' <= upstream'
      BY <2>1 DEF SyncInv
    <3>2. \A g \in Requests : req'[g].pc = "store" => req'[g].got <= upstream'
      BY <2>1, <2>5 DEF SyncInv
    <3> QED
      BY <2>6, <3>1, <3>2 DEF SyncInv
<1>11. CASE UNCHANGED vars
  BY <1>0, <1>11 DEF vars, SyncInv
<1> QED
  BY <1>1, <1>2, <1>3, <1>4, <1>5, <1>6, <1>7, <1>8, <1>9, <1>10, <1>11 DEF Next

LEMMA InitSync == Init => SyncInv
BY DEF Init, SyncInv, Done

\* However many syncs overlap and however long their fetches take, none puts an
\* older upstream state over a newer one (_sync_snapshot_is_current).
THEOREM SyncsOrdered == Spec => SyncsInOrder
<1>1. TypeOK /\ SyncInv /\ [Next]_vars => TypeOK' /\ SyncInv' /\ [synced' >= synced]_vars
  BY TypeStep, SyncStep
<1> QED
  BY InitType, InitSync, <1>1, PTL DEF Spec, SyncsInOrder

-----------------------------------------------------------------------------
(* Resets.                                                                 *)

\* One reset day, and traffic with every answer of the upstream.
FixedCycle ==
  /\ \A e, f \in Expiries : e = f
  /\ NoTotal \notin Totals

\* A request about to reset either will, or need not; one that has passed its
\* reset works on a row of its month or a later one.
CycleInv ==
  \A h \in Requests :
    /\ req[h].day <= today
    /\ req[h].pc = "reset" =>
         /\ req[h].exp # NoExpiry => req[h].exp = expire
         /\ expire # NoExpiry /\ ~Due(h) => lastReset >= Start(expire, req[h].day)
    /\ req[h].pc \in {"charge", "set", "read"} /\ expire # NoExpiry =>
         lastReset >= Start(expire, req[h].day)

\* The same of one record against a row.
Fits(x, now, e, last) ==
  /\ x.day <= now
  /\ x.pc = "reset" =>
       /\ x.exp # NoExpiry => x.exp = e
       /\ e # NoExpiry /\ ~(x.exp # NoExpiry /\ x.last < Start(x.exp, x.day))
            => last >= Start(e, x.day)
  /\ x.pc \in {"charge", "set", "read"} /\ e # NoExpiry => last >= Start(e, x.day)

LEMMA FitsAll == CycleInv <=> \A h \in Requests : Fits(req[h], today, expire, lastReset)
BY DEF CycleInv, Fits, Due

\* The row moves on: a later day, a later marker, or a sync's expiry with the
\* cycle of its day.
LEMMA FitsOn ==
  ASSUME FixedCycle, NEW x \in Request, NEW now \in Days, NEW e \in Expiries \cup {NoExpiry}, NEW last \in Int,
         Fits(x, now, e, last),
         NEW day2 \in Days, day2 >= now, NEW e2 \in Expiries \cup {NoExpiry}, NEW last2 \in Int,
         \/ e2 = e /\ last2 >= last
         \/ e2 \in Expiries /\ last2 = Start(e2, now)
  PROVE  Fits(x, day2, e2, last2)
<1>0. x.day \in Days /\ x.day <= now /\ x.exp \in Expiries \cup {NoExpiry}
  BY DEF Fits, Request
<1>a. x.day <= day2
  BY <1>0 DEF Days
<1>1. CASE e2 = e /\ last2 >= last
  <2>1. e # NoExpiry => Start(e, x.day) \in Int
    BY <1>0, Bounds
  <2> QED
    BY <1>0, <1>a, <1>1, <2>1 DEF Fits
<1>2. CASE e2 \in Expiries /\ last2 = Start(e2, now)
  <2>1. last2 >= Start(e2, x.day)
    BY <1>0, <1>2, Bounds
  <2>2. x.exp # NoExpiry => x.exp = e2
    BY <1>0, <1>2 DEF FixedCycle
  <2> QED
    BY <1>a, <2>1, <2>2 DEF Fits
<1> QED
  BY <1>1, <1>2

LEMMA Others ==
  ASSUME FixedCycle, TypeOK, TypeOK', CycleInv, today' >= today,
         \/ expire' = expire /\ lastReset' >= lastReset
         \/ expire' \in Expiries /\ lastReset' = Start(expire', today)
  PROVE  \A h \in Requests : Fits(req[h], today', expire', lastReset')
BY FitsAll, FitsOn DEF TypeOK

LEMMA OneFits ==
  ASSUME FixedCycle, TypeOK, TypeOK', CycleInv, UNCHANGED <<today, expire>>, lastReset' >= lastReset,
         NEW h \in Requests, NEW x, req' = [req EXCEPT ![h] = x], Fits(x, today, expire, lastReset')
  PROVE  CycleInv'
<1>1. today' >= today
  BY DEF TypeOK, Days
<1>2. \A g \in Requests : Fits(req[g], today', expire', lastReset')
  BY <1>1, Others
<1>3. \A g \in Requests : Fits(req'[g], today', expire', lastReset')
  BY <1>2 DEF TypeOK
<1> QED
  BY <1>3, FitsAll DEF Fits, CycleInv, Due

LEMMA CycleStep ==
  ASSUME FixedCycle
  PROVE  TypeOK /\ CycleInv /\ [Next]_vars => CycleInv'
<1> SUFFICES ASSUME TypeOK, CycleInv, [Next]_vars PROVE CycleInv'
  OBVIOUS
<1> USE DEF account
<1>0. /\ TypeOK' /\ today \in Days /\ lastReset \in Int /\ expire \in Expiries \cup {NoExpiry}
      /\ req \in [Requests -> Request]
      /\ \A h \in Requests : req[h] \in Request /\ Fits(req[h], today, expire, lastReset)
      /\ today \in Int
  BY TypeStep, FitsAll DEF TypeOK, Days
<1>a. ASSUME \A h \in Requests : Fits(req'[h], today', expire', lastReset') PROVE CycleInv'
  BY <1>a DEF CycleInv, Fits, Due
<1>b. Fits(Done, today, expire, lastReset)
  BY <1>0 DEF Done, Fits, Days
<1>c. ASSUME NEW h \in Requests, NEW s \in PC \ {"reset", "charge", "set", "read"}, NEW x,
             x.pc = s, x.day = req[h].day, req' = [req EXCEPT ![h] = x],
             UNCHANGED <<today, expire, lastReset>>
      PROVE  CycleInv'
  <2>1. Fits(x, today, expire, lastReset')
    BY <1>0, <1>c DEF Fits
  <2>2. lastReset' >= lastReset
    BY <1>0, <1>c
  <2> QED
    BY <1>0, <1>c, <2>1, <2>2, OneFits
<1>d. ASSUME NEW h \in Requests, req' = [req EXCEPT ![h] = Done], UNCHANGED <<today, expire, lastReset>>
      PROVE  CycleInv'
  <2>1. Fits(Done, today, expire, lastReset') /\ lastReset' >= lastReset
    BY <1>0, <1>b, <1>d
  <2> QED
    BY <1>0, <1>d, <2>1, OneFits
<1>1. CASE Midnight
  <2>1. today' >= today /\ UNCHANGED <<expire, lastReset, req>>
    BY <1>0, <1>1 DEF Midnight
  <2>2. lastReset' >= lastReset
    BY <1>0, <2>1
  <2>3. \A h \in Requests : Fits(req[h], today', expire', lastReset')
    BY <1>0, <2>1, <2>2, Others
  <2> QED
    BY <1>a, <2>1, <2>3
<1>2. CASE UpstreamMoves
  BY <1>2 DEF UpstreamMoves, CycleInv, Due
<1>3. CASE Edit
  <2>1. \A h \in Requests : req'[h] = [req[h] EXCEPT !.current = FALSE]
    BY <1>3 DEF Edit, Outdate
  <2>2. \A h \in Requests : Fits([req[h] EXCEPT !.current = FALSE], today, expire, lastReset)
    BY <1>0 DEF Fits, Request
  <2> QED
    BY <1>3, <1>a, <2>1, <2>2 DEF Edit
<1>4. ASSUME NEW h \in Requests, NEW k \in Kinds, Arrive(h, k) PROVE CycleInv'
  <2> DEFINE x == [Done EXCEPT !.pc = "select", !.kind = k, !.day = today]
  <2>1. /\ req' = [req EXCEPT ![h] = x] /\ UNCHANGED <<today, expire, lastReset>> /\ lastReset' >= lastReset
    BY <1>0, <1>4 DEF Arrive
  <2>2. x.pc = "select" /\ x.day = today
    BY DEF Done
  <2> HIDE DEF x
  <2>3. Fits(x, today, expire, lastReset')
    BY <1>0, <2>2 DEF Fits
  <2> QED
    BY <1>0, <2>1, <2>3, OneFits
<1>5. ASSUME NEW h \in Requests, Select(h) PROVE CycleInv'
  <2> DEFINE x == [req[h] EXCEPT !.pc = "reset", !.exp = expire, !.last = lastReset]
  <2>1. /\ req' = [req EXCEPT ![h] = x] /\ UNCHANGED <<today, expire, lastReset>> /\ lastReset' >= lastReset
    BY <1>0, <1>5 DEF Select
  <2>2. x.pc = "reset" /\ x.exp = expire /\ x.last = lastReset /\ x.day = req[h].day /\ x.day \in Days
    BY <1>0 DEF Request
  <2>3. expire # NoExpiry => Start(expire, x.day) \in Int
    BY <1>0, <2>2, Bounds
  <2> HIDE DEF x
  <2>4. Fits(x, today, expire, lastReset')
    BY <1>0, <2>1, <2>2, <2>3 DEF Fits
  <2> QED
    BY <1>0, <2>1, <2>4, OneFits
<1>6. ASSUME NEW h \in Requests, Reset(h) PROVE CycleInv'
  <2> DEFINE x == Resume(h)
  <2>1. /\ req[h].pc = "reset" /\ req' = [req EXCEPT ![h] = x] /\ UNCHANGED <<today, expire>>
        /\ lastReset' = IF Resets(h) THEN Start(req[h].exp, req[h].day) ELSE lastReset
    BY <1>6 DEF Reset
  <2>2. /\ req[h].day \in Days /\ req[h].last \in Int
        /\ req[h].exp # NoExpiry => req[h].exp = expire /\ Start(req[h].exp, req[h].day) \in Int
    BY <1>0, <2>1, Bounds DEF Fits, Request
  <2>3. lastReset' >= lastReset
    BY <1>0, <2>1, <2>2 DEF Resets, Due
  <2>4. expire # NoExpiry => lastReset' >= Start(expire, req[h].day)
    <3>1. CASE Due(h)
      BY <1>0, <2>1, <2>2, <3>1 DEF Resets, Due
    <3>2. CASE ~Due(h)
      BY <1>0, <2>1, <3>2 DEF Resets, Due, Fits
    <3> QED
      BY <3>1, <3>2
  <2>5. x = Done \/ (x.day = req[h].day /\ x.pc \in {"charge", "set", "read"})
    BY <1>0 DEF Resume, Request, Kinds
  <2>6. Done.pc = "idle" /\ Done.day <= today /\ req[h].day <= today
    BY <1>0 DEF Done, Fits, Days
  <2> HIDE DEF x
  <2>7. Fits(x, today, expire, lastReset')
    BY <2>4, <2>5, <2>6 DEF Fits
  <2> QED
    BY <1>0, <2>1, <2>3, <2>7, OneFits
<1>7. ASSUME NEW h \in Requests, Charge(h) \/ SetTotal(h) \/ FetchFails(h) \/ Skip(h)
      PROVE  CycleInv'
  BY <1>7, <1>d DEF Charge, SetTotal, FetchFails, Skip
<1>8. ASSUME NEW h \in Requests, ReadAccount(h) PROVE CycleInv'
  <2>1. /\ [req[h] EXCEPT !.pc = "fetch", !.current = TRUE].pc = "fetch"
        /\ [req[h] EXCEPT !.pc = "fetch", !.current = TRUE].day = req[h].day
        /\ "fetch" \in PC
    BY <1>0 DEF Request, PC
  <2> QED
    BY <1>8, <1>c, <2>1 DEF ReadAccount
<1>9. ASSUME NEW h \in Requests, Fetch(h) PROVE CycleInv'
  <2>1. /\ [req[h] EXCEPT !.pc = "store", !.got = upstream].pc = "store"
        /\ [req[h] EXCEPT !.pc = "store", !.got = upstream].day = req[h].day
        /\ "store" \in PC
    BY <1>0 DEF Request, PC
  <2> QED
    BY <1>9, <1>c, <2>1 DEF Fetch
<1>10. ASSUME NEW h \in Requests, Store(h) PROVE CycleInv'
  <2> DEFINE r == [req EXCEPT ![h] = Done]
  <2>1. /\ today' = today /\ req' = Outdate(r)
        /\ \/ expire' = expire /\ lastReset' = lastReset
           \/ expire' \in Expiries /\ lastReset' = Start(expire', today)
    <3>1. PICK n \in Totals, e \in Expiries \cup {expire} :
            /\ expire' = e
            /\ lastReset' = IF n # NoTotal /\ e # NoExpiry THEN Start(e, today) ELSE lastReset
      BY <1>10 DEF Store
    <3>2. n # NoTotal
      BY DEF FixedCycle
    <3> QED
      BY <1>0, <1>10, <3>1, <3>2 DEF Store
  <2>2. \A g \in Requests : Fits(req[g], today', expire', lastReset')
    BY <1>0, <2>1, Others
  <2>3. Fits(Done, today', expire', lastReset')
    BY <1>0, <2>1 DEF Done, Fits, Days
  <2>4. \A g \in Requests : r[g] \in Request /\ Fits(r[g], today', expire', lastReset')
    BY <1>0, <2>2, <2>3, DoneType
  <2> HIDE DEF r
  <2>5. \A g \in Requests : req'[g] = [r[g] EXCEPT !.current = FALSE]
    BY <2>1 DEF Outdate
  <2>6. ASSUME NEW g \in Requests PROVE Fits(req'[g], today', expire', lastReset')
    <3>1. /\ req'[g].day = r[g].day /\ req'[g].pc = r[g].pc
          /\ req'[g].exp = r[g].exp /\ req'[g].last = r[g].last
      BY <2>4, <2>5 DEF Request
    <3> QED
      BY <2>4, <3>1 DEF Fits
  <2> QED
    BY <1>a, <2>6
<1>11. CASE UNCHANGED vars
  BY <1>11 DEF vars, CycleInv, Due
<1> QED
  BY <1>1, <1>2, <1>3, <1>4, <1>5, <1>6, <1>7, <1>8, <1>9, <1>10, <1>11 DEF Next

LEMMA InitCycle == Init => CycleInv
<1> SUFFICES ASSUME Init PROVE CycleInv
  OBVIOUS
<1>1. /\ \A h \in Requests : req[h].pc = "idle" /\ req[h].day = 0
      /\ today = 0
  BY DEF Init, Done
<1>2. ASSUME NEW h \in Requests
      PROVE  /\ req[h].day <= today
             /\ req[h].pc \notin {"reset", "charge", "set", "read"}
  BY <1>1
<1> QED
  BY <1>2 DEF CycleInv

LEMMA CycleHolds == ASSUME FixedCycle PROVE Spec => [](TypeOK /\ CycleInv)
<1>1. TypeOK /\ CycleInv /\ [Next]_vars => (TypeOK /\ CycleInv)'
  BY TypeStep, CycleStep
<1> QED
  BY InitType, InitCycle, <1>1, PTL DEF Spec

\* With a fixed reset day, a request past its reset works on a row that has
\* entered the request's month (the call order of the traffic endpoints).
THEOREM ChargedRight == ASSUME FixedCycle PROVE Spec => []ChargedInItsMonth
<1>1. TypeOK /\ CycleInv => ChargedInItsMonth
  BY DEF CycleInv, ChargedInItsMonth
<1> QED
  BY CycleHolds, <1>1, PTL

\* With a fixed reset day, however many requests have seen that a reset is due,
\* traffic is zeroed only while it is due (apply_due_traffic_resets).
THEOREM ResetsDue == ASSUME FixedCycle PROVE Spec => ResetOnlyWhenDue
<1> DEFINE Due0 == \A h \in Requests :
       req[h].pc = "reset" /\ req'[h].pc # "reset" /\ used' < used
         => expire # NoExpiry /\ lastReset < Start(expire, today)
<1>1. TypeOK /\ CycleInv /\ [Next]_vars => [Due0]_vars
  <2> SUFFICES ASSUME TypeOK, CycleInv, Next, NEW h \in Requests,
                      req[h].pc = "reset", req'[h].pc # "reset", used' < used
               PROVE  expire # NoExpiry /\ lastReset < Start(expire, today)
    OBVIOUS
  <2>0. used \in Int /\ req \in [Requests -> Request]
    BY DEF TypeOK
  <2>1. Reset(h)
    <3>1. ASSUME UNCHANGED used PROVE FALSE
      BY <2>0, <3>1
    <3>2. ASSUME NEW g \in Requests, g # h, NEW x, req' = [req EXCEPT ![g] = x] PROVE FALSE
      BY <2>0, <3>2
    <3>3. ASSUME NEW g \in Requests, Reset(g) PROVE g = h
      BY <3>2, <3>3 DEF Reset
    <3>4. ASSUME NEW g \in Requests, Charge(g) \/ SetTotal(g) PROVE FALSE
      BY <3>2, <3>4 DEF Charge, SetTotal
    <3>5. ASSUME NEW g \in Requests, Store(g) PROVE FALSE
      <4>1. g # h
        BY <3>5 DEF Store
      <4>2. req'[h].pc = req[h].pc
        BY <2>0, <3>5, <4>1 DEF Store, Outdate, Request
      <4> QED
        BY <4>2
    <3> QED
      BY <3>1, <3>3, <3>4, <3>5 DEF Next, Midnight, UpstreamMoves, Edit, Arrive, Select,
         ReadAccount, Fetch, FetchFails, Skip, account
  <2>2. Resets(h)
    BY <2>0, <2>1 DEF Reset
  <2>3. /\ req[h].exp \in Expiries /\ req[h].exp = expire /\ req[h].day \in Days
        /\ today \in Days /\ req[h].day <= today /\ lastReset \in Int
    BY <2>0, <2>2 DEF Resets, Due, CycleInv, TypeOK, Request
  <2>4. /\ Start(expire, req[h].day) \in Int /\ Start(expire, today) \in Int
        /\ Start(expire, today) >= Start(expire, req[h].day)
    BY <2>3, Bounds
  <2> QED
    BY <2>2, <2>3, <2>4 DEF Resets, Due
<1> QED
  BY CycleHolds, <1>1, PTL DEF Spec, ResetOnlyWhenDue
-----------------------------------------------------------------------------
(* Both together. *)

\* The composed specification is one of TrafficCycle's: a day of the calendar
\* only restricts when Midnight may be taken.
LEMMA ComposedImplements == ComposedSpec => Spec
<1>1. ComposedInit => Init
  BY DEF ComposedInit
<1>2. [ComposedNext]_Composed => [Next]_vars
  BY DEF ComposedNext, Composed
<1> QED
  BY <1>1, <1>2, PTL DEF ComposedSpec, Spec

\* On real dates, too, overlapping syncs never put an older upstream state over
\* a newer one (_sync_snapshot_is_current).
THEOREM ComposedSyncs == ComposedSpec => SyncsInOrder
BY ComposedImplements, SyncsOrdered, PTL

\* On real dates, too, no charge lands in a month that the reset of that month
\* would still wipe (the call order of the traffic endpoints).
THEOREM ComposedCharged == ASSUME FixedCycle PROVE ComposedSpec => []ChargedInItsMonth
BY ComposedImplements, ChargedRight, PTL

\* On real dates, too, traffic is zeroed only once a new month has begun.
THEOREM ComposedResets == ASSUME FixedCycle PROVE ComposedSpec => ResetOnlyWhenDue
BY ComposedImplements, ResetsDue, PTL
===============================================================================
