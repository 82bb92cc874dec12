SPECIFICATION Spec
CONSTANTS
  Rollouts = {r1, r2}
  Leader = r1
  Serving = {r2}
  None = None
  LastStep = 2
  MaxCrashes = 0
INVARIANTS
  TypeOK
  FollowersServeSynced
  FenceCompletes
PROPERTIES
  NeverOlder
