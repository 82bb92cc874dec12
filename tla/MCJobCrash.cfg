SPECIFICATION Spec
CONSTANTS
  None = None
  Policies = {p1, p2}
  Rollouts = {r1, r2}
  Batch = 1
  NGen = 1
  MaxNumSteps = None
  SyncInterval = 1
  AllowedOutdated = 1
  FetchOutdated = 0
  MaxInflight = None
  Prompts = 4
  FetchBatch = 1
  MaxPolicyCrashes = 1
  MaxRolloutCrashes = 1
INVARIANTS
  Handshake
  SamplesConserved
  NoOrphanedSync
PROPERTIES
  ImplementsRounds
CHECK_DEADLOCK FALSE
