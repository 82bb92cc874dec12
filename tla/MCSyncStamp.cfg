SPECIFICATION Spec
CONSTANTS
  Rollouts = {r1, r2}
  Leader = r1
  Serving = {r1, r2}
  None = None
  LastStep = 1
  MaxCrashes = 0
INVARIANTS
  StampIsActual
CHECK_DEADLOCK FALSE
