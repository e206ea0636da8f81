SPECIFICATION Spec

CONSTANTS
  MaxSeq = 3
  OldMarks = {0, 2}
  MaxSess = 2
  MaxGen = 2
  MaxHubRun = 2
  QCap = 2
  DownCap = 2
  ReplayCap = 1
  HighWater = 2
  Oversized = {3}
  StalePcs = {"catchup", "lock", "send", "lockReset", "reset"}
  MaxWork = 5

CONSTRAINT Bounded

INVARIANTS
  TypeOK
  ReplaysHold
  Watermarks
