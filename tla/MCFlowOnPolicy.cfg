SPECIFICATION Spec
CONSTANTS
  Rollouts = {r1, r2}
  RolloutsPerBatch = 4
  NGen = 2
  OnPolicy = TRUE
  AllowedOutdated = 0
  SyncInterval = 1
  FetchBatch = 2
  Prompts = 8
  MaxLost = 1
  MaxDepartures = 1
INVARIANTS
  TypeOK
  StalenessBound
  OneVersionPerBatch
CHECK_DEADLOCK FALSE
