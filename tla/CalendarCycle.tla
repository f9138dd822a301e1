---------------------------- MODULE CalendarCycle ----------------------------
(***************************************************************************)
(* The traffic cycle of an account on real dates: TrafficCycle's midnight  *)
(* is the calendar's next day, and its Start is what ResetCalendar derives *)
(* from the date. The window begins on 26 February 2100, two days before   *)
(* the reset of an expiry on a day that this February does not have.       *)
(***************************************************************************)
EXTENDS TrafficCycle, ResetCalendar, TLC

Symmetry == Permutations(Requests)

Origin == <<2100, 1, 26>>
FirstDay == -31

\* The date of a day: day 0 is 26 February.
DateOf[n \in FirstDay .. MaxDay] ==
  IF n = FirstDay THEN Origin ELSE Tomorrow(DateOf[n - 1])

\* The number of the day that begins the cycle of day d.
StartDay ==
  [e \in Expiries |-> [d \in Days |->
    CHOOSE n \in FirstDay .. d :
      /\ ~Earlier(DateOf[n], ResetInfo(e, DateOf[d]).previous)
      /\ \A m \in FirstDay .. n - 1 : Earlier(DateOf[m], ResetInfo(e, DateOf[d]).previous)]]

CycleStart(e, d) == StartDay[e][d]

Composed == <<vars, calendar>>

ComposedInit ==
  /\ Init
  /\ day \in Expiries
  /\ date = DateOf[0]
  /\ started = <<2100, 1, 31>>

\* The panel's day changes with the date, and with nothing else.
ComposedNext ==
  /\ Next
  /\ IF today' = today THEN UNCHANGED calendar ELSE NextDay

ComposedSpec == ComposedInit /\ [][ComposedNext]_Composed
=============================================================================
