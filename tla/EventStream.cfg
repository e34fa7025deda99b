SPECIFICATION FairSpec
CONSTANTS
  Appenders = {driver, request}
  Viewers = {tab}
  Nobody = Nobody
  MaxEvents = 4
  MaxLoads = 2
INVARIANTS
  LogIsGapFree
  NothingIsSkipped
  ViewIsPrefix
  CollisionMeansStale
PROPERTY FollowerCatchesUp
CHECK_DEADLOCK FALSE
