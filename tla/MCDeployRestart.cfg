SPECIFICATION Spec
CONSTANTS
  MaxDep = 2
  MaxUserDep = 2
  MaxRev = 0
  MaxAttempts = 1
  MaxFailed = 1
  Request = {}
  Boot = boot
  Run = {}
  MaxCrash = 1
  MaxDbError = 1
  MaxInfraError = 0
  MaxFaults = 2
INVARIANT SweepRestores
PROPERTY DeployJobKept
CONSTRAINT FollowRejected
CHECK_DEADLOCK FALSE
