SPECIFICATION FairSpec
CONSTANTS
  Rollouts = {r1, r2}
  Leader = r1
  Serving = {r1, r2}
  None = None
  LastStep = 0
  MaxCrashes = 1
INVARIANTS
  FenceCompletes
PROPERTIES
  BarrierOpens
  TeardownCompletes
CHECK_DEADLOCK FALSE
