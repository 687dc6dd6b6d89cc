SPECIFICATION ByteSpec
CONSTANTS
  MemorySize = 1048575
  TopByte = 64
  Heaps = {"address"}
  Garbage <- MCGarbage
  PatchAddress = 250
  MaxPrefixes = 3
  Images <- StackImages
INVARIANTS FramesIntact FramesApart
PROPERTIES StackOfBytes
CHECK_DEADLOCK FALSE
