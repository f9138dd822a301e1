SPECIFICATION ComposedSpec
CONSTANTS
  Requests = {r1, r2}
  Expiries = {31}
  NoExpiry = NoExpiry
  MaxDay = 4
  MaxUsed = 3
  Charges = {1, 2}
  Totals = {0, 2}
  NoTotal = NoTotal
  MaxUpstream = 2
  FirstYear = 2100
  LastYear = 2100
  Start <- CycleStart
SYMMETRY Symmetry
INVARIANTS ChargedInItsMonth CycleIsPresent
PROPERTIES ResetOnlyWhenDue SyncsInOrder
CHECK_DEADLOCK FALSE
