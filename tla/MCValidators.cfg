SPECIFICATION Spec
CONSTANTS
  Alphabets <- MCAlphabets
  MaxText <- MCMaxText
  MaxSpelled = 9
INVARIANTS
  LuhnCatchesSlips
  TablesAgree
  RemainderIsOfWholeNumber
  IBANCatchesSlips
CHECK_DEADLOCK FALSE
