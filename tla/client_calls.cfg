SPECIFICATION FairSpec
CONSTANTS
  h1 = h1
  h2 = h2
  x = x
  y = y
  i1 = i1
  i2 = i2
  None = None
  Handles = {h1, h2}
  MaxPubs = 1
  MaxSubs = 0
  Names = {x}
  Ids = {i1}
  Covers <- MCCoverAll
  ChanCap = 2
  StreamCap = 1
  MayGiveUp = TRUE
  MaxConns = 2
  MaxCalls = 3
  MaxTicks = 1
  MaxWire = 1
CHECK_DEADLOCK FALSE
PROPERTIES
  OpenEnds
  CallsEnd
