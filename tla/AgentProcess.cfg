SPECIFICATION FairSpec

CONSTANTS
  t1 = t1
  t2 = t2
  Threads = {t1, t2}
  MaxCalls = 3
  MaxProc = 2

INVARIANTS
  TypeOK
  StrayOnlyByRestart

PROPERTIES
  VerdictOfLatestBoot
  CallsReturn

CHECK_DEADLOCK FALSE
