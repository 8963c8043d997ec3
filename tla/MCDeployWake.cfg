SPECIFICATION Spec
CONSTANTS
  MaxDep = 2
  MaxUserDep = 1
  MaxRev = 1
  MaxAttempts = 1
  MaxFailed = 1
  Request = {w1}
  Boot = boot
  Run = {}
  MaxCrash = 0
  MaxDbError = 1
  MaxInfraError = 2
  MaxFaults = 2
INVARIANTS
  TypeOK
  RevisionHonest
PROPERTIES
  NoResurrection
  KeepsSlot
CONSTRAINT OneKind
CHECK_DEADLOCK FALSE
