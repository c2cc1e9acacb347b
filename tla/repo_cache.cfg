SPECIFICATION Spec
CONSTANTS
  Uri = {"u1", "u2"}
  Name <- MCName
  Branch = {"main", "dev"}
  Main = "main"
  Req = {1, 2}
  Asks <- MCAsks
  MaxCommits = 2
  MaxCalls = 3
  MaxFaults = 1
  CredUri = {"u1"}
  InsideRepo = TRUE
INVARIANTS
  CommitScanned
PROPERTY FailsForCause
CHECK_DEADLOCK FALSE
