SPECIFICATION ViewsSpec
CONSTANTS
  Calls = {c1, c2}
  Models = {m1, m2}
  Builtin = {m1}
  Offers <- MCOffers
  MaxMoves = 1
  Jobs = {j1, j2}
  MaxRewinds = 1
  Sizes = {1, 9}
  Unit = 4
  Throttle = 2
  FirstPublish = 3
  IdleCap = 3
  MinGap = 1
  Cap = 8
  Leaps = {1, 3}
  MaxChunks = 3
  MaxTime = 5
SYMMETRY Alike
INVARIANTS
  TypeOK
  CopiesAgree
  NoFalseSuccess
  EstimatesRight
CHECK_DEADLOCK FALSE
