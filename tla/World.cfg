SPECIFICATION Spec
CONSTANTS
  g1 = g1
  Edits = {e1}
  Puts = {p1}
  Forges = {f1}
  Commands = {a1}
  Snapshots = {s1}
  Publishes = {b1}
  Bodies <- MCBodies
  MaxOpen = 2
  MaxBegun = 4
  MaxCrashes = 1
INVARIANT StoredValid
PROPERTIES VersionsFrozen ImplementsHistory
CHECK_DEADLOCK FALSE
