SPECIFICATION FairSpec
CONSTANTS
  c1 = c1
  c2 = c2
  None = None
  Clients = {c1, c2}
  InCap = 2
  OutCap = 1
  MaxSent = 1
  MaxOut = 1
  MaxHandled = 1
  MaxCalls = 1
INVARIANTS
  TypeOK
  CloseIsLast
PROPERTIES
  KilledConnectionsEnd
  ServerGoesOn
CHECK_DEADLOCK FALSE
