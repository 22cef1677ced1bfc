SPECIFICATION Spec
CONSTANTS
  Requests = {r1, r2}
  Findings <- MCFindings
  Config <- MCConfig
  Dest = "dest"
  LedgerMayFail = FALSE
  MayBeKilled = FALSE
INVARIANTS
  RecordBeforeForward
CHECK_DEADLOCK FALSE
