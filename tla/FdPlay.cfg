SPECIFICATION FairSpec
CONSTANTS
  leader = leader
  partner = partner
  NoSeat = NoSeat
  Seats <- MCSeats
  EmptyTurns <- MCEmptyTurns
  MaxTurns = 2
  MaxRestarts = 1
INVARIANTS
  OneSubmitter
  PlanFitsTurn
  SettledOnce
PROPERTIES
  FightCloses
CHECK_DEADLOCK FALSE
