SPECIFICATION Spec
CONSTANTS
  Schema <- Schemas
  None = None
  Torn = Torn
  Failing = Failing
  Restarting = Restarting
  Keep = 2
  Threshold = 3
  Fresh <- Installed
  MaxRuns = 3
  MaxFaults = 1
  MaxKills = 0
  MaxWrites = 0
INVARIANT SnapshotsKept
CHECK_DEADLOCK FALSE
