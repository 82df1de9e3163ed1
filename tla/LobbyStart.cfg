SPECIFICATION Spec
CONSTANTS
  u1 = u1
  Users = {u1, u2}
  Creator = u1
  Factions = {f1, f2}
  HostFaction = f1
  Joins = {j1}
  Readies = {r1}
  Tunes = {}
  PlainJoins = {}
  Ends = {}
  Store = "MEMORY"
  MaxOpen = 2
  MaxCrashes = 0
INVARIANT StartIsAgreed
CHECK_DEADLOCK FALSE
