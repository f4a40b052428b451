SPECIFICATION FairSpec
CONSTANTS
  c1 = c1
  c2 = c2
  None = None
  Clients = {c1}
  InCap = 1
  OutCap = 1
  MaxSent = 1
  MaxOut = 1
  MaxHandled = 2
  MaxCalls = 1
PROPERTY
  ValuesReachClients
CHECK_DEADLOCK FALSE
