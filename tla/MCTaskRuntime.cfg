CONSTANTS
  Callers = {c1, c2}
  Ticker = Ticker
  Dropper = Dropper
  NoOne = NoOne
  Capacity = 1
  Periodic = TRUE
SPECIFICATION FairSpec
INVARIANTS
  TypeOK
  RunsAtMostOnce
  NobodyForgotten
PROPERTIES
  NoWorkAfterShutdown
  EveryCallReturns
  PeriodicLoopStops
