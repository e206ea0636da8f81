SPECIFICATION FairSpec

CONSTANTS
  A = A
  B = B
  o1 = o1
  o2 = o2
  Urls = {A, B}
  NoUrl = NoUrl
  Ops = {o1}
  MaxOps = 1
  MaxTok = 1
  MaxClients = 2
  MaxTries = 2
  BootAddrs = {A, NoUrl}
  BootTokens = {NoUrl, B}
  BootCode = TRUE
  QuicFailMax = 2

INVARIANTS
  TypeOK
  OwnHubToken
  CallsLand

PROPERTIES
  CallsHeard

CHECK_DEADLOCK FALSE
