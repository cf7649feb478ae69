SPECIFICATION SSpec
CONSTANTS
  r1 = r1  r2 = r2  r3 = r3  p1 = p1  p2 = p2
  Workers = {1, 2}
  Requests = {r1, r2, r3}
  Payments = {p1, p2}
  Pool <- MCPool
  Pay <- MCPay
  Named <- NamedEach
  NoWorker = NoWorker  NoRequest = NoRequest  NoRow = NoRow  NoId = NoId
  MaxRetries = 1
  MaxQueueSize = 2
  Ids = {i1, i2, i3, i4}
  Backend = "sqlite"
  MayCrash = TRUE
  StorageFaults = TRUE
INVARIANTS SuccessIsRecorded OneSettlementPerRelayer
PROPERTIES CompletedKept LedgerSpec
