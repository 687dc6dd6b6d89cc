SPECIFICATION FairSpec
CONSTANTS
  MemorySize = 12
  TopByte = 64
  Heaps = {"zeros", "hlts", "prefixes", "addresses"}
  Garbage <- MCGarbage
  PatchAddress = 8
  MaxPrefixes = 12
  Images <- FragmentImages
PROPERTIES Terminates WalksThroughMemory
CHECK_DEADLOCK FALSE
