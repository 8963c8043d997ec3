SPECIFICATION Spec
CONSTANTS
  MaxDep = 1
  MaxUserDep = 1
  MaxRev = 0
  MaxAttempts = 1
  MaxFailed = 1
  Request = {}
  Boot = boot
  Run = {}
  MaxCrash = 1
  MaxDbError = 0
  MaxInfraError = 0
  MaxFaults = 1
INVARIANT BootFreesSlots
CHECK_DEADLOCK FALSE
