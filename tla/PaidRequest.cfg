SPECIFICATION FairSpec
CONSTANTS
  Calls <- MCCalls
  PriceOf <- MCPrices
  Libraries = {"agent", "python", "sdk"}
  Concurrency = 2
  MaxPerCall = 2
  MaxSession = 2
  StartNonce = 1
  Gateways <- MCGateways
  RateMax = 1
  Presented <- MCPresented
INVARIANTS NoncesFit SpendKept ServedIsVerified
PROPERTIES CallsEnd PaymentsMove
CHECK_DEADLOCK FALSE
