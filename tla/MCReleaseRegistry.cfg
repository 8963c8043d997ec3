SPECIFICATION Spec
CONSTANTS
  Call = {c1, c2, c3}
  Agent = {member, helper}
  Assistant = {helper}
  Commit = {s1, s2}
  MaxRound = 1
INVARIANTS
  TypeOK
  VersionsContiguous
  FailsOnlyUnderContention
  DuplicatesOnlyOverlap
  AssistantAdopts
PROPERTY CallsEnd
CHECK_DEADLOCK FALSE
