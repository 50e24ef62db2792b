SPECIFICATION Spec

CONSTANTS
  GridW = 3
  GridH = 2
  Arenas <- MCArenas
  Seeds <- MCSeeds
  Accesses = {"group"}

CHECK_DEADLOCK FALSE

INVARIANTS
  TypeOK
  BoardIsSound
  TurnIsSound
  TurnsCanBeHandedOn
PROPERTIES
  TurnGoesRound
