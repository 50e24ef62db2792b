SPECIFICATION FairSpec
CONSTANTS
  leader = leader
  omori = omori
  archero = archero
  Leader = leader
  Followers <- MCPair
  Gatherer = archero
  Last = 2
  Radius = 1
  MinStep = 0
  Rejoin = 1
  Standoff = 1
  Camps <- MCOuter
  Nodes <- MCOuter
  Field = 1
  None = None
INVARIANT OneDestination
PROPERTIES StagingEnds RoutesEnd
CHECK_DEADLOCK FALSE
