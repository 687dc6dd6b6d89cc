SPECIFICATION MainFairSpec
CONSTANTS
  MemorySize = 12
  TopByte = 64
  Heaps = {"zeros", "hlts", "address"}
  Garbage <- MCGarbage
  PatchAddress = 8
  MaxPrefixes = 12
  Files <- MCFiles
  Images <- MCImages
  Leftovers <- MCLeftovers
INVARIANTS MainTypeOK OnlyBadFilesCrash
PROPERTIES BootsTheMachine ProgramWalks MainEnds
CHECK_DEADLOCK FALSE
