SPECIFICATION FairSpec
CONSTANTS
  u1 = u1
  Users = {u1, u2}
  Creator = u1
  Factions = {f1, f2}
  HostFaction = f1
  Joins = {j1}
  Readies = {r1, r2}
  Tunes = {t1}
  PlainJoins = {p1}
  Ends = {e1}
  Store = "MEMORY"
  MaxOpen = 2
  MaxCrashes = 1
INVARIANTS RecordConsistent AnswersHold
PROPERTIES RosterFixed ReadyStarts
CHECK_DEADLOCK FALSE
