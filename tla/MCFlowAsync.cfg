SPECIFICATION FairSpec
CONSTANTS
  Rollouts = {r1, r2}
  RolloutsPerBatch = 2
  NGen = 1
  OnPolicy = FALSE
  AllowedOutdated = 1
  SyncInterval = 1
  FetchBatch = 1
  Prompts = 12
  MaxLost = 2
  MaxDepartures = 0
INVARIANTS
  StalenessBound
  VersionNotAhead
PROPERTIES
  TolerantGate
CHECK_DEADLOCK FALSE
