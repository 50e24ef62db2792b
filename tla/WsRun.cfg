SPECIFICATION FairSpec
CONSTANTS
 omori=omori archero=archero wheat=wheat egg=egg flour=flour cake=cake sack=sack baker=baker rex=rex
 fang=fang
 Members <- MCMembers
 Leader = omori
 Crafters = {omori, archero}
 Gatherers = {archero}
 Kinds <- MCKinds
 Leaves = {wheat}
 Made = {flour, cake}
 Needs <- MCNeeds
 Job <- MCJob
 Required <- MCRequired
 Pays <- MCPays
 Wishes <- MCWishes
 Exact = FALSE
 AttemptCap = 2
 Reserve = 1
 Bag = sack
 BagGives = wheat
 Pets <- MCPets
 Food = cake
 MaxFeeds = 2
 Ids <- MCIds
 Starts <- MCStarts
 MaxStack = 2
 MaxLevel = 2
 MaxLost = 1
 MaxDirty = 0
 None = None
PROPERTIES
 SpendsWhatIsThere
 GoalIsReached
