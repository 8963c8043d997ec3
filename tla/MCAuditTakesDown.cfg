SPECIFICATION Spec
CONSTANTS
  MaxDep = 2
  MaxUserDep = 2
  MaxRev = 0
  MaxAttempts = 1
  MaxFailed = 1
  Request = {}
  Boot = boot
  Run = {}
  MaxCrash = 0
  MaxDbError = 1
  MaxInfraError = 0
  MaxFaults = 1
PROPERTY NeverTakenDown
CHECK_DEADLOCK FALSE
