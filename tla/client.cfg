SPECIFICATION Spec
CONSTANTS
  h1 = h1
  h2 = h2
  x = x
  y = y
  i1 = i1
  i2 = i2
  None = None
  Handles = {h1}
  MaxPubs = 1
  MaxSubs = 1
  Names = {x, y}
  Ids = {i1}
  Covers <- MCCoverAll
  ChanCap = 8
  StreamCap = 1
  MayGiveUp = FALSE
  MaxConns = 2
  MaxCalls = 3
  MaxTicks = 0
  MaxWire = 1
CHECK_DEADLOCK FALSE
INVARIANTS
  TypeOK
  RightTopic
  NoGaps
  Resynced
