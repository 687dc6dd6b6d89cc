SPECIFICATION Spec
CONSTANTS
  MemorySize = 1048575
  TopByte = 64
  Heaps = {"hlts"}
  Garbage <- MCGarbage
  PatchAddress = 250
  MaxPrefixes = 3
  Images <- DecodeImages
PROPERTIES RegisterDirection
CHECK_DEADLOCK FALSE
