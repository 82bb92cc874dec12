SPECIFICATION FairSpec
CONSTANTS
  None = None
  Policies = {p1, p2}
  Rollouts = {r1, r2}
  Batch = 3
  NGen = 4
  MaxNumSteps = 2
  SyncInterval = 1
  AllowedOutdated = 1
  FetchOutdated = 1
  MaxInflight = 2
  Prompts = 5
  FetchBatch = 1
  MaxPolicyCrashes = 0
  MaxRolloutCrashes = 0
INVARIANTS
  TypeOK
  StopIsSafe
  StepsAgree
  SamplesConserved
  BudgetCovers
  ThrottleBound
PROPERTIES
  LastCommandIsLast
  JobEnds
  FinishedJobEnds
