SPECIFICATION FairLockstep
CONSTANTS
  Peers = {p1, p2}
  Host = p1
  Commands = {c1, c2}
  InputDelay = 1
  HashEvery = 2
  HashLimit = 40
  SnapEvery = 3
  MaxSteps = 2
  MaxTick = 3
  MaxFaults = 1
INVARIANTS CommandReachesAll NoFalseAlarm SnapshotsAreHosts
PROPERTY DriftIsNoticed
CHECK_DEADLOCK FALSE
