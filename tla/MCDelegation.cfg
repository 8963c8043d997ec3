SPECIFICATION Spec
CONSTANTS
  MaxTurn = 1
  MaxFault = 1
  ReattachAttempts = 2
INVARIANTS
  TypeOK
  FinishedOnce
  RunClosed
  WaitingAsked
PROPERTY
  WatchedSettles
CHECK_DEADLOCK FALSE
