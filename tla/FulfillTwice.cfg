SPECIFICATION Spec
CONSTANTS
  i1 = i1
  i2 = i2
  Items = {i1, i2}
  SelfSold <- MCSelfSold
  Price <- MCPrice
  CreatorTiers <- TwoTiers
  Checkouts = {c1}
  Deliveries = {d1, d2}
  Unsigned = {}
  Refunds = {r1}
  Providers = {"STRIPE"}
  MaxCrashes = 0
INVARIANT SideEffectsOnce
CHECK_DEADLOCK FALSE
