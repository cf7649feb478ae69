SPECIFICATION Spec
CONSTANTS
  r1 = r1  r2 = r2   c1 = c1  p1 = p1  p2 = p2
  NoClient = NoClient  DefaultSpot = DefaultSpot
  Requests = {r1, r2}
  Clients = {c1}
  ClientOf <- MCClientOf
  Providers = {p1, p2}
  Prices = {2}
  ListPrice <- MCOnePrice
  MaxCost = 2
  Saved <- MCSaved
  HasQueue = TRUE
  HasSlasher = TRUE
  FailLimit = 2
  MayCrash = FALSE
  WritesFail = FALSE
INVARIANTS ChallengeHonoured
CHECK_DEADLOCK FALSE
