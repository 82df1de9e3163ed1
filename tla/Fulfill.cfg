SPECIFICATION FairSpec
CONSTANTS
  i1 = i1
  i2 = i2
  Items = {i1, i2}
  SelfSold <- MCSelfSold
  Price <- MCPrice
  CreatorTiers <- TwoTiers
  Checkouts = {c1}
  Deliveries = {d1, d2}
  Unsigned = {d1}
  Refunds = {r1}
  Providers = {"STRIPE", "MOCK"}
  MaxCrashes = 1
INVARIANTS PaidIsDelivered StampBacked LedgerFollowsProvider RefundReversesAll
PROPERTIES ImplementsLedger ChargedIsFulfilled
CHECK_DEADLOCK FALSE
