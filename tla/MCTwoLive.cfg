SPECIFICATION Spec
CONSTANTS
  MaxDep = 2
  MaxUserDep = 2
  MaxRev = 0
  MaxAttempts = 1
  MaxFailed = 1
  Request = {w1}
  Boot = boot
  Run = {}
  MaxCrash = 0
  MaxDbError = 0
  MaxInfraError = 2
  MaxFaults = 2
INVARIANT SingleLive
CHECK_DEADLOCK FALSE
