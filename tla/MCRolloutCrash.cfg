SPECIFICATION FairSpec
CONSTANTS
  None = None
  Policies = {p1, p2}
  Rollouts = {r1, r2}
  Batch = 1
  NGen = 1
  MaxNumSteps = None
  SyncInterval = 1
  AllowedOutdated = 1
  FetchOutdated = 0
  MaxInflight = None
  Prompts = 3
  FetchBatch = 1
  MaxPolicyCrashes = 0
  MaxRolloutCrashes = 1
PROPERTIES
  CrashDoesNotBlock
CHECK_DEADLOCK FALSE
