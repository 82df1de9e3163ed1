SPECIFICATION WebhookFair
CONSTANTS
  Processes = {p1, p2}
  Names = {n1, n2}
  BatchSize = 2
  MaxEvents = 2
  MaxFaults = 1
  MaxFailures = 2
  Requests = {r1}
INVARIANTS NoneDropped AckedWasSeen DisabledEarned
PROPERTIES EventPosted RestartResumes
CHECK_DEADLOCK FALSE
