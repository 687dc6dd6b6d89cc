SPECIFICATION Spec
CONSTANTS
  MemorySize = 1048575
  TopByte = 64
  Heaps = {"hlts"}
  Garbage <- MCGarbage
  PatchAddress = 250
  MaxPrefixes = 3
  Images <- ProgramImages
INVARIANTS TypeOK FlagsCoherent
PROPERTIES CarryDiscipline WrapIsReported OneDestination PushedWordIsNextPop
CHECK_DEADLOCK FALSE
