SPECIFICATION FairSpec
CONSTANTS
  e1 = e1
  e2 = e2
  Edits = {e1, e2}
  Flagged = {e1}
  Suspect = {e2}
  Moderators = {m1}
  Reports = {r1}
  Patches = {p1, p2}
  Targets = {"PUBLISHED"}
  MaxRequests = 2
  MaxFaults = 1
INVARIANTS ClearedByModerator TextIsScanned
PROPERTY ApprovalPublished
CHECK_DEADLOCK FALSE
