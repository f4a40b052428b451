SPECIFICATION Spec
CONSTANTS
  t = t
  a = a
  u = u
  v = v
  w = w
  exact = exact
  prefix = prefix
  None = None
  Topics = {t}
  ClientNames <- MCClientNames
  AskedNames <- MCAlone
  NamesContaining <- MCNamesContaining
  Numbered <- MCNumbered
  PubUIDs = {u,v}
  SubUIDs = {w}
  Patterns = {prefix}
  TopicsOnly = {}
  Matches <- MCMatches
  PublishNames <- MCPublishNames
  PublishFlags <- NoFlags
  PropertyUpdates <- ClearRetained
  PeersClose = FALSE
  OverflowChecks = TRUE
  MaxClients = 2
  MaxTopics = 11
  MaxSubs = 1
INVARIANT
  PublishedTopicStays
