SPECIFICATION Spec
CONSTANTS
  Procs = {p, q}
  Keep = 2
  MaxTime = 4
  MaxWrites = 2
SYMMETRY Symmetric
INVARIANT LatestVerifies
INVARIANT LatestCurrent
PROPERTY RotationSpares
CHECK_DEADLOCK FALSE
