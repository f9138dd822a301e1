SPECIFICATION Spec
CONSTANTS
  Nodes = {n1, n2, n3}
  NoNode = NoNode
  Due = 2
  Wave = 1
  Cap = 2
  Pausable = {n3}
  Synced = {n1, n2}
  MaxMishaps = 2
PROPERTIES EveryNodesTurn PendingResolves
CHECK_DEADLOCK FALSE
