SPECIFICATION Spec
CONSTANTS
  MemorySize = 1048575
  TopByte = 64
  Heaps = {"hlts"}
  Garbage <- MCGarbage
  PatchAddress = 250
  MaxPrefixes = 3
  Images <- ProgramImages
PROPERTIES CarryIsOfThisSum
CHECK_DEADLOCK FALSE
