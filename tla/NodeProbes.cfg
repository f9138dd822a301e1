SPECIFICATION Spec
CONSTANTS
  MaxId = 3
  Accounts = {a1}
  NoAccount = NoAccount
  Configs = {c1, c2}
  NoEvidence = NoEvidence
  NoNode = NoNode
  Tasks = {t1, t2}
  NoTask = NoTask
  NoLease = NoLease
  AccountWave = 2
  MonitorWave = 1
  Cap = 2
  MaxCheck = 2
  MaxNodes = 2
SYMMETRY Symmetry
INVARIANTS EvidenceOfConfig CountMatches OneProbeAtATime ProbesBounded RunningProbeShows
PROPERTIES LateResultsDropped
CHECK_DEADLOCK FALSE
