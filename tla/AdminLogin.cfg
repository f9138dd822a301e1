SPECIFICATION Spec
CONSTANTS
  Procs = {p1, p2}
  NoProc = NoProc
  MaxValue = 3
  MaxMigration = 2
  Chosen = {w1, w2}
  NoPassword = NoPassword
  NoAdmin = NoAdmin
  Limit = 2
  MaxWindow = 2
  NoRow = NoRow
  Requests = {r1, r2}
  MaxVersion = 2
CONSTRAINT Bounded
SYMMETRY Symmetry
INVARIANTS AcceptedSessionsAreCurrent FilesAreUsed MigratedOnce AttemptsInOrder
PROPERTIES OnlyWithPresentPassword
CHECK_DEADLOCK FALSE
