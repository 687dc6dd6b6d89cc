SPECIFICATION ByteSpec
CONSTANTS
  MemorySize = 1048575
  TopByte = 64
  Heaps = {"address"}
  Garbage <- MCGarbage
  PatchAddress = 250
  MaxPrefixes = 3
  Images <- StackImages
PROPERTIES LastInFirstOut
CHECK_DEADLOCK FALSE
