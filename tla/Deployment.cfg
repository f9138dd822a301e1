SPECIFICATION Spec
CONSTANTS
  Schema <- Schemas
  None = None
  Torn = Torn
  Failing = Failing
  Restarting = Restarting
  Keep = 2
  Threshold = 2
  Fresh <- Either
  MaxRuns = 3
  MaxFaults = 2
  MaxKills = 1
  MaxWrites = 1
CONSTRAINT Bounded
INVARIANTS Restored OldReleaseKept PanelStaysDown LatestUsable
CHECK_DEADLOCK FALSE
