SPECIFICATION FairSpec

CONSTANTS
  MaxCalls = 3
  MaxHeard = 1
  MaxLoops = 2
  AgentStatus = {"active", "blocked"}

INVARIANTS
  TypeOK
  EvidenceUnlessOverlap
  LoopsHandedOver

PROPERTIES
  OwnGoalOnly
  StoppedEnd

CHECK_DEADLOCK FALSE
