SPECIFICATION FairSpec
CONSTANTS
  Requests = {r1, r2}
  Findings <- TwoFindings
  Config <- MCConfig
  Dest = "dest"
  LedgerMayFail = TRUE
  MayBeKilled = TRUE
INVARIANTS
  BytesFollowRecord
  DoneIsEvidenced
  NothingForbiddenCrosses
  VerdictsAreTrue
  RecordsListFindings
  OneRecordPerDirection
  ResponseAfterRequest
PROPERTIES
  KeepsEvidence
  CrossingIsRecorded
  EveryHandlerEnds
CHECK_DEADLOCK FALSE
