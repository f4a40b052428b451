SPECIFICATION Spec
CONSTANTS
  parser = parser
  send_out = send_out
  c1 = c1
  h1 = h1
  Parser = parser
  SendOut = send_out
  Connecting = {c1}
  Handles = {h1}
CHECK_DEADLOCK FALSE
INVARIANTS
  TypeOK
  DeadlocksNeedParser
  PeersNeverDeadlock
