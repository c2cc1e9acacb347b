SPECIFICATION TaintSpec
CONSTANTS
  MaxTaintIterations = 3
  MaxTaintRounds = 3
  MaxStatements = 4
  Stores <- MCStores
INVARIANTS
  DrainedReachesAll
  StoreTellsFacts
CHECK_DEADLOCK FALSE
