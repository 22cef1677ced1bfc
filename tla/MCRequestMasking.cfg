SPECIFICATION RequestSpec
CONSTANTS
  Chars <- MCChars
  MaxChars = 4
  MaxBody = 26
  MaxSpans = 2
INVARIANTS
  SpansAreWholeCharacters
  EscapesAreNeverSplit
  MasksExactly
  SlicesInOrder
CHECK_DEADLOCK FALSE
