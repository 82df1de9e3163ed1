SPECIFICATION FairSim
CONSTANTS
  f1 = f1
  f2 = f2
  u1 = u1
  u2 = u2
  u3 = u3
  b1 = b1
  b2 = b2
  Sides = {f1, f2}
  Units = {u1, u2, u3, u4}
  Placed <- MCPlaced
  Kinds = {"RIFLEMAN", "FRIGATE"}
  ClassOf <- MCClass
  Cost <- MCCost
  Naval = {"FRIGATE"}
  Sea = FALSE
  Buildings = {b1, b2}
  Owner <- MCOwner
  Nodes = {n1}
  Deposit = 1
  Yield = 1
  Funds = 2
  GroundCap = 2
  AirCap = 1
  Duration = 1
  MaxCommands = 2
INVARIANTS CapHolds CreditsBalance
PROPERTY OrdersSettle
CHECK_DEADLOCK FALSE
