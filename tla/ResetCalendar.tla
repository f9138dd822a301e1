---------------------------- MODULE ResetCalendar ----------------------------
(***************************************************************************)
(* traffic_reset_info and _date_with_day: from the day of the month of an  *)
(* account's expire_date and from today's date, the first day of the       *)
(* present traffic cycle and the next reset. The calendar runs day by day  *)
(* next to the algorithm, so that what it derives from one date can be     *)
(* compared with what really happened before.                              *)
(***************************************************************************)
EXTENDS Integers

CONSTANTS
  FirstYear,    \* the calendar runs from 1 January of FirstYear
  LastYear      \* to 31 December of LastYear

ASSUME CalendarAssumption == FirstYear \in Nat \ {0} /\ LastYear \in Nat /\ FirstYear <= LastYear

VARIABLES
  day,      \* day of the month of the account's expire_date
  date,     \* <<year, month, day>>
  started   \* reference: the last day on which a cycle began

calendar == <<day, date, started>>

Leap(y) == y % 4 = 0 /\ (y % 100 # 0 \/ y % 400 = 0)

\* calendar.monthrange(year, month)[1]
MonthDays(y, m) ==
  CASE m = 2 -> IF Leap(y) THEN 29 ELSE 28
    [] m \in {4, 6, 9, 11} -> 30
    [] OTHER -> 31

\* Mutant of DateWithDay: the day is not clamped to the month.
DateUnclamped(y, m, d) == <<y, m, d>>

\* _date_with_day: the day, or the last day of a shorter month.
DateWithDay(y, m, d) ==
  <<y, m, IF d <= MonthDays(y, m) THEN d ELSE MonthDays(y, m)>>

\* Order of dates, which is also that of their ISO texts.
Earlier(a, b) ==
  \/ a[1] < b[1]
  \/ a[1] = b[1] /\ a[2] < b[2]
  \/ a[1] = b[1] /\ a[2] = b[2] /\ a[3] < b[3]

\* Days from date a to date b, b in the month of a or in the next one.
DaysFromTo(a, b) ==
  IF a[2] = b[2] THEN b[3] - a[3] ELSE MonthDays(a[1], a[2]) - a[3] + b[3]

\* traffic_reset_info(expire_date, today) for an expire_date on day d.
ResetInfo(d, t) ==
  LET this == DateWithDay(t[1], t[2], d)
      before == IF t[2] = 1 THEN DateWithDay(t[1] - 1, 12, d)
                            ELSE DateWithDay(t[1], t[2] - 1, d)
      after == IF t[2] = 12 THEN DateWithDay(t[1] + 1, 1, d)
                            ELSE DateWithDay(t[1], t[2] + 1, d)
      previous == IF Earlier(t, this) THEN before ELSE this
      next == IF Earlier(this, t) THEN after ELSE this
  IN  [previous |-> previous, next |-> next, days |-> DaysFromTo(t, next)]

Tomorrow(t) ==
  IF t[3] < MonthDays(t[1], t[2]) THEN <<t[1], t[2], t[3] + 1>>
  ELSE IF t[2] < 12 THEN <<t[1], t[2] + 1, 1>> ELSE <<t[1] + 1, 1, 1>>

\* Documented rule: a cycle begins on the day, or on the month's last day if
\* the month has no such day.
BeginsOn(d, t) == t[3] = d \/ (t[3] < d /\ t[3] = MonthDays(t[1], t[2]))

CalendarInit ==
  /\ day \in 1 .. 31
  /\ date = <<FirstYear, 1, 1>>
  /\ started = IF day = 1 THEN date ELSE DateWithDay(FirstYear - 1, 12, day)

NextDay ==
  /\ date # <<LastYear, 12, 31>>
  /\ date' = Tomorrow(date)
  /\ started' = IF BeginsOn(day, date') THEN date' ELSE started
  /\ UNCHANGED day

CalendarSpec == CalendarInit /\ [][NextDay]_calendar

-----------------------------------------------------------------------------
Dates == {t \in Nat \X (1 .. 12) \X (1 .. 31) : t[3] <= MonthDays(t[1], t[2])}

\* The reset day is a day of the month, and date and started are dates.
CalendarTypeOK == day \in 1 .. 31 /\ date \in Dates /\ started \in Dates

Info == ResetInfo(day, date)

\* The cycle derived from the present date alone is the one that really began last: in
\* no month is a reset skipped, repeated or early (docs/ARCHITECTURE.md: short
\* months use their last day).
CycleIsPresent == Info.previous = started

\* The announced next reset comes after exactly the announced number of days:
\* the count falls by one each day, and at zero a cycle begins.
Countdown ==
  [][/\ Info.days # 0 => Info'.days = Info.days - 1 /\ Info'.next = Info.next
     /\ Info'.days = 0 <=> started' = date']_calendar
=============================================================================
