SPECIFICATION Spec
CONSTANTS
  Rules <- MCRules
  Classes = {"a", "b"}
  Dests = {"x", "y"}
  Yamls <- MCYamls
  Options <- MCOptions
  MaxEntries = 5
  MaxFiles = 3
INVARIANTS
  ServesBlindOnlyToLog
  ConfidenceNeverUnblocks
  CleanScanReadEverything
  MetricsCountTheCorpus
  PassMeansMeasured
CHECK_DEADLOCK FALSE
