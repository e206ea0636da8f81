SPECIFICATION FairSpec

CONSTANTS
  MaxSeq = 1
  OldMarks = {0}
  MaxSess = 2
  MaxGen = 1
  MaxHubRun = 2
  QCap = 1
  DownCap = 1
  ReplayCap = 1
  HighWater = 2
  Oversized = {}
  StalePcs = {}

PROPERTIES
  UplinkSettles
