SPECIFICATION Spec
CONSTANTS
  Job = {d1, d2, p1, i1}
  Pooled = {d1, d2}
  Publish = {p1}
  MaxAttempts = 2
  DeployConcurrency = 1
  MaxCrash = 1
  MaxDbError = 1
  NoJob = NoJob
INVARIANTS
  TypeOK
  Exclusive
  StrandedOnlyByDbError
  RetriesBounded
  PublishRunsOnce
PROPERTY JobsSettle
CHECK_DEADLOCK FALSE
