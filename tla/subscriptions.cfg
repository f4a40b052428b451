SPECIFICATION Spec
CONSTANTS
  t = t
  a = a
  u = u
  v = v
  w = w
  exact = exact
  prefix = prefix
  None = None
  Topics = {t}
  ClientNames <- MCClientNames
  AskedNames <- MCAlike
  NamesContaining <- MCNamesContaining
  Numbered <- MCNumbered
  PubUIDs = {u}
  SubUIDs = {w}
  Patterns = {exact,prefix}
  TopicsOnly = {exact}
  Matches <- MCMatches
  PublishNames <- MCPublishNames
  PublishFlags <- NoFlags
  PropertyUpdates <- ClearRetained
  PeersClose = FALSE
  OverflowChecks = TRUE
  MaxClients = 3
  MaxTopics = 10
  MaxSubs = 2
INVARIANTS
  ValueOnlyAfterAnnounce
  SubOwnership
  PublisherKnowsTopic
  SubscribersToldWhileAllStay
