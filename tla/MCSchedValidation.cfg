SPECIFICATION FairSpec
CONSTANTS
  None = None
  Prompts = 3
  BatchSize = 2
  MaxConcurrent = 2
  LastStep = 1
  ValidateAt = {1}
  ValPrompts = 1
  MayFail = FALSE
PROPERTIES
  ValidationEnds
CHECK_DEADLOCK FALSE
