CONSTANTS
  Pods = {p1, p2}
  NoPod = NoPod
  StopOrder <- LeaderTasks
  LeaseTtl = 15
  Timely = TRUE
  MayFail = FALSE
  MaxRestarts = 1
  MaxSignals = 2
SPECIFICATION Spec
SYMMETRY Symmetry
INVARIANTS
  TypeOK
  ExclusiveProducers
PROPERTY ReleasedAfterStop
