SPECIFICATION Spec
CONSTANTS
  Char <- MCCharNoCase
  Upper <- MCUpper
  Digit <- MCDigit
  AlphaNum <- MCAlphaNum
  Fold <- MCFold
  Rules = {"key", "pan", "ssn"}
  Kind <- MCKind
  Keywords <- MCKeywords
  MaxLen <- MCMaxLen
  Match <- MCMatch
  Valid <- MCValid
  MaxText = 6
  MaxChunk = 3
  ClassOf <- MCClassOf
  Confidence <- MCConfidence
  Config <- BlockAndMask
  Dest = "dest"
  Fields = {"f"}
  MaxEvents = 3
INVARIANTS
  MaskedNeverClear
  BlockedNeverDelivered
  OnlyFindingsRewritten
  RecordMatchesFind
  VerdictIsOfTheText
PROPERTY DeliversAsPromised
CHECK_DEADLOCK FALSE
