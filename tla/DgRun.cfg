SPECIFICATION FairSpec

CONSTANTS
  leader = leader
  alice = alice
  bob = bob
  Leader = leader
  Members <- MCTwo
  Rooms = 2
  Keys = 3
  MinSeats = 2
  MaxFaults = 1
  MaxRestarts = 1

CHECK_DEADLOCK FALSE

PROPERTIES
  ReleaseAfterRun
  RightRoom
  NoOrphanedRun
  CommitServed
