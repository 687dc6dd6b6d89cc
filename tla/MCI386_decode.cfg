SPECIFICATION Spec
CONSTANTS
  MemorySize = 1048575
  TopByte = 64
  Heaps = {"hlts"}
  Garbage <- MCGarbage
  PatchAddress = 250
  MaxPrefixes = 3
  Images <- DecodeImages
PROPERTIES FlagsDescribeDestination LengthOfOtherEncodings OneDestination UpperHalvesKept SixteenBitAddressingStaysInside StoredWhereEncoded
CHECK_DEADLOCK FALSE
