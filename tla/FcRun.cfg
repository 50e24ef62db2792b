SPECIFICATION CalcSpec

CONSTANTS
  GridW = 4
  GridH = 3
  MaxWalls = 1
  MaxBudget = 3
  MaxSize = 3
  MaxLevel = 8
  MaxPool = 3
  MaxParty = 2
  MaxLockers = 3
  Agilities <- MCAgilities
  Bases <- MCBases
  Draws <- MCDraws
  Rolls <- MCRolls
  Wisdoms <- MCWisdoms

CHECK_DEADLOCK FALSE

INVARIANTS
  WalksAgree
  ShapesAgree
  DivisionsFit
