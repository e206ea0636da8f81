SPECIFICATION RequestsFairSpec

CONSTANTS
  s1 = s1
  s2 = s2
  Sessions = {s1, s2}
  MaxReq = 2
  MaxAgents = 2

INVARIANTS
  RequestsTypeOK
  OneReply

PROPERTIES
  SiblingsKeepAwaiting
  BudgetEnds

CHECK_DEADLOCK FALSE
