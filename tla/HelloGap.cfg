SPECIFICATION ViewsSpec
CONSTANTS
  Calls = {c1, c2}
  Models = {m1, m2}
  Builtin = {m1}
  Offers <- MCOffers
  MaxMoves = 0
  Jobs = {j1}
  MaxRewinds = 0
  Sizes = {1, 9}
  Unit = 4
  Throttle = 2
  FirstPublish = 3
  IdleCap = 4
  MinGap = 1
  Cap = 8
  Leaps = {1, 3}
  MaxChunks = 1
  MaxTime = 1
INVARIANT EveryTabConverges
CHECK_DEADLOCK FALSE
