SPECIFICATION Spec
CONSTANTS
  Nodes = {n1, n2}
  Slots = 1
  Timeout = 3
  EntryTimeout = 2
  MaxAddresses = 2
  Ttl = 2
  NoEvidence = NoEvidence
CONSTRAINT OneStored
SYMMETRY Symmetry
INVARIANTS GreenIsProved FailureIsConclusive EndsInTime
CHECK_DEADLOCK FALSE
