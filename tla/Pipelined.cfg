SPECIFICATION FairSpec
CONSTANTS
  r1 = r1  r2 = r2  r3 = r3  p1 = p1  p2 = p2
  Requests = {r1, r2, r3}
  Payments = {p1, p2}
  Pay <- MCPay
  Relayers = 2
  BatchSize = 2
  MaxQueueDepth = 2
  Backend = "sqlite"
  MaxCrashes = 1
INVARIANTS PendingExact NoCollisions TrackerCovers FailureIsHonest
PROPERTIES EveryCallAnswered
CHECK_DEADLOCK FALSE
