SPECIFICATION FairSpec
CONSTANTS
  Far = 1
  Cap = 2
  Lead = 1
  Margin = 1
  Root = 2
  MaxTroubles = 1
  None = None
INVARIANT ProvedLegIsAccepted
CHECK_DEADLOCK FALSE
PROPERTY WalkArrives
