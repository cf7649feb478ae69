SPECIFICATION DSpec
CONSTANTS
  r1 = r1  r2 = r2  r3 = r3
  Workers = {1, 2}
  Requests = {r1, r2, r3}
  Pool <- TwoShards
  Named <- NamedNone
  NoWorker = NoWorker  NoRequest = NoRequest
  MaxRetries = 1
  MaxQueueSize = 3
  ViaGateway = {r3}
PROPERTIES AcceptedCallsAnswered
CHECK_DEADLOCK FALSE
