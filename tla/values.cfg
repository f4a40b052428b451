SPECIFICATION FairSpec
CONSTANTS
  parser = parser
  handle = handle
  s1 = s1
  s2 = s2
  Writers = {parser, handle}
  SubIdx = {s1}
  Options <- MCOptions
  MaxTime = 3
  MaxValues = 3
INVARIANTS
  TypeOK
  StoredIsNewest
  FollowsTopic
  CaughtUp
PROPERTIES
  ValuesGoOut
CHECK_DEADLOCK FALSE
