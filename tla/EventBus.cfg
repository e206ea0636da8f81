SPECIFICATION FairSpec

CONSTANTS
  s1 = s1
  Subs = {s1}
  MaxSeq = 5
  ChCap = 1
  QueueCap = 2
  Slack = 1
  None = None

INVARIANTS
  TypeOK
  RingsRight

PROPERTIES
  IsAStream
  PumpsServe

CHECK_DEADLOCK FALSE
