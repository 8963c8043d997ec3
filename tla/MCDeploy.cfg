SPECIFICATION Spec
CONSTANTS
  MaxDep = 2
  MaxUserDep = 2
  MaxRev = 0
  MaxAttempts = 2
  MaxFailed = 1
  Request = {}
  Boot = boot
  Run = {r1}
  MaxCrash = 0
  MaxDbError = 1
  MaxInfraError = 1
  MaxFaults = 2
INVARIANTS
  InflightUnique
  OneExecution
  SlotAlwaysOwned
  DrainWatched
PROPERTIES
  ServingContinuous
  InterruptedOnlyAfterDeadline
CHECK_DEADLOCK FALSE
