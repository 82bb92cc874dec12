SPECIFICATION Spec
CONSTANTS
  NReplicas = 3
  NInit = 2
  LastStep = 2
  MaxRetry = 2
  MaxCrashes = 0
PROPERTIES
  NoAbortInFlight
CHECK_DEADLOCK FALSE
