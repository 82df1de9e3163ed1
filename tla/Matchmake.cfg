SPECIFICATION FairSpec
CONSTANTS
  Requests = {r1, r2, r3}
  Modes = {m1, m2}
  Regions = {g1}
  MaxPlayers = 2
  MaxCrashes = 1
INVARIANTS TakenOnce SeatsCounted NoPairWaits
PROPERTY TakenIsMatched
CHECK_DEADLOCK FALSE
