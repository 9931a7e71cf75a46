SPECIFICATION FairSpec
CONSTANTS
  s1 = s1
  s2 = s2
  t1 = t1
  t2 = t2
  pool = pool
  g1 = g1
  g2 = g2
  app = app
  Tenants = {t1, t2}
  UserPool = pool
  Groups = {g1, g2}
  ClientIds = {app}
  NoClient = NoClient
  Ids = {1, 2, 3, 4}
  Sbis = {s1, s2}
  SbiOf <- SbiOfId
  Clients = {c1}
  Tokens <- SmallTokens
  Configurations <- SmallConfigurations
  MaxPageSize = 2
  ReadSecondary = TRUE
  MaxFaults = 1
CHECK_DEADLOCK FALSE
INVARIANTS
  ListingIsExact
  PromiseIsKept
  EveryReadIsAudited
  AccessIsOwn
PROPERTIES
  WalkEnds
