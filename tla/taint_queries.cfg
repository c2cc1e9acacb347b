SPECIFICATION QuerySpec
CONSTANTS
  Methods <- MCMethods
  Names <- MCNames
  NameOf <- MCNameOf
  Label <- MCLabel
  Rank <- MCRank
  Similar <- MCSimilar
  Lambdas <- MCLambdas
  Stdlib <- MCStdlib
  MaxSymbolDefs = 2
  Repositories <- MCRepositories
  MaxSinkReachDepth = 2
  MaxCallDepth = 2
  ChainDepth = 3
  ChainBreadth = 1
  MaxFlowPaths = 3
  SymbolDepth = 2
  MaxCallNodes = 2
INVARIANTS
  SafeMeansUnreachable
  HitIsReal
  NothingSeenIsLost
  CallersComplete
  AnswersExplained
CHECK_DEADLOCK FALSE
