SPECIFICATION Spec
CONSTANTS
  Char <- MCChar
  Upper <- MCUpper
  Digit <- MCDigit
  AlphaNum <- MCAlphaNum
  Fold <- MCFold
  Rules = {"iban"}
  Kind <- MCKind
  Keywords <- MCKeywords
  MaxLen <- MCMaxLen
  Match <- MCMatch
  Valid <- MCValid
  MaxText = 6
  MaxChunk = 3
  ClassOf <- MCClassOf
  Confidence <- MCConfidence
  Config <- BlockAndMask
  Dest = "dest"
  Fields = {"f"}
  MaxEvents = 4
INVARIANTS
  MaskedNeverClear
CHECK_DEADLOCK FALSE
