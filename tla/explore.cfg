\* Three rounds of up to two calls, of which one reads and one asks the engine.
CONSTANTS
  q1 = q1
  e1 = e1
  ReadQuery = {q1}
  EngineQuery = {e1}
  MaxRounds = 3
  CharBudget = 9
  Chunk = 2
  Bulk = 6
  MaxCalls = 2
SPECIFICATION FairSpec
INVARIANT RequestsSound
INVARIANT LogCoversEvidence
PROPERTY CallEnds
