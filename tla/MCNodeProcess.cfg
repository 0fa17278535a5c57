CONSTANTS
  Procs <- MCProcs
  None = None
  MaxOverlaps = 1
  Peers = {q}
  Partial = Partial
  Cli = Cli
SPECIFICATION Spec
CHECK_DEADLOCK FALSE
INVARIANTS
  PidFileNamesDaemon
  IdentityIsOnDisk
  PeersAreRemembered
PROPERTIES
  RecordIsNewer
  ShutdownEnds
