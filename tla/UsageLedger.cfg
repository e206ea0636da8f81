SPECIFICATION FairSpec

CONSTANTS
  f1 = f1
  f2 = f2
  Files = {f1, f2}
  MaxTurns = 2
  MaxVersion = 2
  MaxFaults = 1
  MaxRestarts = 1
  Named = {1, 2}
  Models = {"m"}
  Usage <- MCUsage

INVARIANTS
  TypeOK
  MetaNotAhead
  CountedOnce

PROPERTIES
  LedgerLasts

CHECK_DEADLOCK FALSE
