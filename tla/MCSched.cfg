SPECIFICATION FairSpec
CONSTANTS
  None = None
  Prompts = 3
  BatchSize = 2
  MaxConcurrent = 2
  LastStep = 1
  ValidateAt = {0}
  ValPrompts = 1
  MayFail = TRUE
INVARIANTS
  TypeOK
  FenceInv
  GenerationsSeeOneModel
  StampIsHonest
  FailClosed
  DiesOnlyOfFailure
  AdmissionBound
  EndAfterReports
PROPERTIES
  WorkerFinishes
