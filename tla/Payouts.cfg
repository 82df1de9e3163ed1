SPECIFICATION FairSpec
CONSTANTS
  s1 = s1
  s2 = s2
  Sales = {s1, s2}
  Royalty <- MCRoyalty
  Requests = {q1, q2}
  Asks = {2}
  MaxCrashes = 1
INVARIANT PendingCovered
PROPERTY PayoutSettles
CHECK_DEADLOCK FALSE
