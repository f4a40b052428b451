SPECIFICATION FairSpec
CONSTANTS
  None = None
  Ahead = 0
  MaxTime = 4
  MaxTicks = 2
  MaxBreaks = 1
INVARIANTS
  TypeOK
  NeverAhead
  LagBounded
PROPERTIES
  SetAgain
CHECK_DEADLOCK FALSE
