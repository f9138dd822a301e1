SPECIFICATION Spec
CONSTANTS
  Schema <- Schemas
  None = None
  Torn = Torn
  Failing = Failing
  Restarting = Restarting
  Keep = 2
  Threshold = 3
  Fresh <- Installed
  MaxRuns = 1
  MaxFaults = 0
  MaxKills = 0
  MaxWrites = 0
INVARIANT ServiceStopped
CHECK_DEADLOCK FALSE
