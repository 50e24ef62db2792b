SPECIFICATION FairSpec

CONSTANTS
  leader = leader
  alice = alice
  bob = bob
  Leader = leader
  Members <- MCTwo
  Rooms = 2
  Keys = 4
  MinSeats = 2
  MaxFaults = 0
  MaxRestarts = 0

CHECK_DEADLOCK FALSE

PROPERTY
  NeverRooted
