SPECIFICATION Spec
CONSTANTS
  Requests = {r1, r2}
  Expiries = {1}
  NoExpiry = NoExpiry
  MaxDay = 4
  MaxUsed = 3
  Charges = {1, 2}
  Totals = {0, 2}
  NoTotal = NoTotal
  MaxUpstream = 0
  Start <- MonthStart
PROPERTIES OldCycleRefused
CHECK_DEADLOCK FALSE
