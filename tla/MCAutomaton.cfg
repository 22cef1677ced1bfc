SPECIFICATION Spec
CONSTANTS
  Byte = {"a", "b"}
  MaxKeywords = 3
  MaxKeyword = 3
  MaxText = 5
INVARIANTS
  ReportsEveryKeyword
  DepthIsLongestPrefix
CHECK_DEADLOCK FALSE
