SPECIFICATION ScanSpec
CONSTANTS
  Char <- MCChar
  Upper <- MCUpper
  Digit <- MCDigit
  AlphaNum <- MCAlphaNum
  Fold <- MCFold
  Rules = {"key", "pan", "ssn", "iban"}
  Kind <- MCKind
  Keywords <- MCKeywords
  MaxLen <- MCMaxLen
  Match <- MCMatch
  Valid <- MCValid
  MaxText = 6
  MaxChunk = 3
INVARIANTS
  StreamEqualsFind
  NothingConfirmedTooEarly
  HoldBounded
  UnconfirmedIsHeld
PROPERTY NoLateFinding
CHECK_DEADLOCK FALSE
