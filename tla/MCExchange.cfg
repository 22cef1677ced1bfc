SPECIFICATION ExchangeSpec
CONSTANTS
  Paths <- MCPaths
  Docs <- MCDocs
  SplitDocs <- MCSplitDocs
  MaxLines = 4
  MaxLinesCR = 2
INVARIANTS
  ScannedIsNotFlagged
  NewFieldsAreVisible
  TokensAreTheFrames
  MaskingReadsBack
CHECK_DEADLOCK FALSE
