SPECIFICATION Spec
CONSTANTS
  Path <- MCPath
  ConfigPath <- MCConfigPath
  RestartPath <- MCRestartPath
  FirstTree <- MCFirstTree
  PushedPath <- MCPushedPath
  MaxTask = 1
  MaxSave = 2
  MaxPush = 2
  MaxCrash = 1
  MaxDbError = 1
CONSTRAINTS
  FourDisturbances
  UntilOver
INVARIANTS
  TypeOK
  NothingUnbuilt
  LandsOnce
  ReportHonest
  ResetExact
  TaskOwned
PROPERTY
  KeepsChanges
CHECK_DEADLOCK FALSE
