CONSTANTS
  Pods = {p1, p2}
  NoPod = NoPod
  StopOrder <- OneTask
  LeaseTtl = 15
  Timely = TRUE
  MayFail = FALSE
  MaxRestarts = 0
  MaxSignals = 2
SPECIFICATION FairSpec
PROPERTY ReturnsOnShutdown
