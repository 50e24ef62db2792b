SPECIFICATION FairSpec

CONSTANTS
  leader = leader
  traveller = traveller
  wolves = wolves
  NoGroup = NoGroup
  Leader = leader
  Detacher = traveller
  Members <- MCTwo
  Groups <- MCGroup
  MaxFailures = 2
  MaxRestarts = 1

CHECK_DEADLOCK FALSE

INVARIANTS
  BarrierHolds
  PlansOnlyWhenFree
PROPERTIES
  RendezvousEnds
  EveryBeatServed
