SPECIFICATION Spec
CONSTANTS
  NReplicas = 3
  NInit = 2
  LastStep = 2
  MaxRetry = 2
  MaxCrashes = 1
INVARIANTS
  TypeOK
  OneIdPerBuild
  WeightsAgree
  TrainsWhileIntact
  MeshConverges
CHECK_DEADLOCK FALSE
