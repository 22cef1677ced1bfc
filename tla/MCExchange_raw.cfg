SPECIFICATION ExchangeSpec
CONSTANTS
  Paths <- MCChatPath
  Docs <- MCDocsRaw
  SplitDocs <- MCDocsRaw
  MaxLines = 2
  MaxLinesCR = 2
INVARIANT RawIsFlagged
CHECK_DEADLOCK FALSE
