SPECIFICATION Spec
CONSTANTS
  parser = parser
  h1 = h1
  h2 = h2
  server = server
  c1 = c1
  c2 = c2
  t = t
  prefix = prefix
  None = None
  Parser = parser
  Handles = {h1}
  Server = server
  Clients = {c1, c2}
  Topics = {t}
  Patterns = {prefix}
  Matches <- MCMatches
  MaxU16 = 3
  MaxTopics = 6
  MaxSubs = 2
  MaxCalls = 4
SYMMETRY MCSymmetry
INVARIANTS
  TypeOK
  SubscriberToldOrAboutToBe
  ValueOnlyAfterAnnounce
  TablesAgree
  PanicsNeedARace
CHECK_DEADLOCK FALSE
