SPECIFICATION Spec
CONSTANTS
  t = t
  a = a
  u = u
  v = v
  w = w
  exact = exact
  prefix = prefix
  None = None
  Topics = {t}
  ClientNames <- MCClientNames
  AskedNames <- MCAlone
  NamesContaining <- MCNamesContaining
  Numbered <- MCNumbered
  PubUIDs = {u}
  SubUIDs = {w}
  Patterns = {prefix}
  TopicsOnly = {}
  Matches <- MCMatches
  PublishNames <- MCPublishNames
  PublishFlags <- Retained
  PropertyUpdates <- SetRetained
  PeersClose = TRUE
  OverflowChecks = FALSE
  MaxClients = 3
  MaxTopics = 11
  MaxSubs = 1
INVARIANTS
  TypeOK
  MappedHasVector
  SubscribersKnown
  LiveTopicCounted
  ValueOnlyAfterAnnounce
  PublicationsListed
PROPERTY
  DirectorySpec
