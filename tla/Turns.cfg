SPECIFICATION FairSpec

CONSTANTS
  s1 = s1
  s2 = s2
  t1 = t1
  t2 = t2
  None = None
  Sessions = {s1, s2}
  Threads = {t1, t2}
  BootLast = {s1, None}
  MaxCalls = 3
  MaxObj = 2
  ResidentCap = 1

INVARIANTS
  TypeOK
  BusyRight

PROPERTIES
  QuietSettles

CHECK_DEADLOCK FALSE
