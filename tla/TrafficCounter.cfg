SPECIFICATION Spec
CONSTANTS
  Collectors = {c1}
  Procs = {p1, p2}
  NoProc = NoProc
  Accounts = {a1, a2}
  NoAccount = NoAccount
  Passwords = {w1}
  Legacy = {c1}
  MaxSeq = 2
  MaxTotal = 1
  Bursts = {1}
  MaxSeen = 2
  MaxGone = 1
  MaxNet = 2
  MaxBusy = 3
CONSTRAINT Bounded
SYMMETRY Symmetry
INVARIANTS NoOverbilling NothingLost
PROPERTIES ImplementsLedger TakenOnce
CHECK_DEADLOCK FALSE
