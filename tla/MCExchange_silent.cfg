SPECIFICATION ExchangeSpec
CONSTANTS
  Paths <- MCChatPath
  Docs <- MCDocsSilent
  SplitDocs <- MCDocsSilent
  MaxLines = 2
  MaxLinesCR = 2
INVARIANT StreamTextIsScannedOrFlagged
CHECK_DEADLOCK FALSE
