SPECIFICATION Spec
CONSTANTS
  Call = {webhook, publish}
  Agent = {member}
  Assistant = {}
  Commit = {s1, s2}
  MaxRound = 8
INVARIANT OneReleasePerCommit
CHECK_DEADLOCK FALSE
