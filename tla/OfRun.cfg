SPECIFICATION FairSpec
CONSTANTS
  omori = omori
  archero = archero
  hoe = hoe
  pick = pick
  tool = tool
  farmer = farmer
  miner = miner
  Order <- MCOrder
  Items <- MCItems
  Slots <- MCSlots
  Tool = tool
  SlotOf <- MCSlotOf
  Kind <- MCKind
  Power <- MCPower
  Worn <- MCWorn
  Lies <- MCLies
  Jobs <- MCJobs
  Fighters <- MCFighters
  None = None
INVARIANT GathersWithTool
PROPERTY NothingForgotten

