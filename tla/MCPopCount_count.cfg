SPECIFICATION PopSpec
CONSTANTS
  Words <- MCWords
INVARIANTS FieldsCount ReturnsSetBits
CHECK_DEADLOCK FALSE
