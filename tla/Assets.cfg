SPECIFICATION FairSpec
CONSTANTS
  v1 = v1
  Versions = {v1, v2}
  First = v1
  Publications = {q1}
  Runs = {1, 2}
  MaxFaults = 1
INVARIANTS ReadyIsValid ShownIsReady
 
CHECK_DEADLOCK FALSE
