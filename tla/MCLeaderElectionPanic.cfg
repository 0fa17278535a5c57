CONSTANTS
  Pods = {p1, p2}
  NoPod = NoPod
  StopOrder <- LeaderTasks
  LeaseTtl = 15
  Timely = TRUE
  MayFail = TRUE
  MaxRestarts = 0
  MaxSignals = 2
SPECIFICATION Spec
SYMMETRY Symmetry
INVARIANT ExclusiveProducers
