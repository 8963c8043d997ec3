SPECIFICATION Spec
CONSTANTS
  MaxDep = 2
  MaxUserDep = 1
  MaxRev = 1
  MaxAttempts = 2
  MaxFailed = 1
  Request = {}
  Boot = boot
  Run = {r1}
  MaxCrash = 0
  MaxDbError = 0
  MaxInfraError = 0
  MaxFaults = 0
PROPERTIES
  DeploysSettle
  DrainsEnd
  EnvConverges
CHECK_DEADLOCK FALSE
