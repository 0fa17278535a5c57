CONSTANTS
  Pods = {p1, p2}
  NoPod = NoPod
  StopOrder <- OneTask
  LeaseTtl = 15
  Timely = FALSE
  MayFail = TRUE
  MaxRestarts = 0
  MaxSignals = 1
SPECIFICATION FairSpec
INVARIANTS
  FollowerServesNothing
PROPERTY LeaderAgain
