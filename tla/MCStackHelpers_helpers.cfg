SPECIFICATION HelperSpec
CONSTANTS
  MemorySize = 65538
  TopByte = 64
  Heaps = {"address"}
  Garbage <- MCGarbage
  Value <- MCValue
  MaxCalls = 5
INVARIANTS BalancedStaysBelow
PROPERTIES PopAfterPush
CHECK_DEADLOCK FALSE
