SPECIFICATION ServerSpec
CONSTANTS
  r1 = r1  r2 = r2  c1 = c1  p1 = p1  p2 = p2
  NoClient = NoClient  DefaultSpot = DefaultSpot
  Requests = {r1, r2}
  Clients = {c1}
  ClientOf <- MCClientOf
  Providers = {p1, p2}
  Prices = {1, 2}
  ListPrice <- MCListPrice
  MaxCost = 2
  Saved <- MCSaved
  HasQueue = TRUE
  HasSlasher = TRUE
  FailLimit = 2
  MayCrash = TRUE
  WritesFail = TRUE
  a = a  b = b  c = c  d = d
  Token = {a, b, c, d}
  Chain = 3
  Backed = {1, 2}
  Texts <- MCTexts
INVARIANTS CreditSound OneAnswer LastResort
PROPERTIES BlameJustified CallsEnd StreamsEnd
CHECK_DEADLOCK FALSE
