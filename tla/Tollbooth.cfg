SPECIFICATION ServerSpec
CONSTANTS
  r1 = r1
  r2 = r2
  r3 = r3
  Requests = {r1, r2, r3}
  Agents = {"a1", "a2"}
  AgentOf <- MCAgentOf
  Unnamed = "unnamed"
  MaxPage = 1
  Ttl = 2
  Window = 1
  Threshold = 2
  Queries = {q1, q2, q3}
  DnsTtl = 2
  LookupTime = 1
  PublisherAddresses = {"p1", "p2"}
  Prefixes <- MCPrefixes
  Checks = {k1, k2}
  MaxTokens = 1
SYMMETRY Symmetry
INVARIANTS ServerSound PublishersProved
PROPERTIES ReportsEarned NothingStale
CHECK_DEADLOCK FALSE
