SPECIFICATION LinkFairSpec

CONSTANTS
  BACKOFF_CAP = 2
  MIN_PACKETS_SEEN = 2
  MaxTimers = 2

CHECK_DEADLOCK FALSE

INVARIANTS
  AcceptedIsAuthenticated
  DisposeIsFinal
  TimersBounded
PROPERTIES
  SilentLinkStopsPlay
  LinkServed
