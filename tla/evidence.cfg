SPECIFICATION Spec
CONSTANTS
  Def <- MCDef
  DefOrder <- MCOrder
  ByFile <- MCByFile
  Text <- MCText
  Bare <- MCBare
  NoiseCallees = {"get"}
  SanitizerNames = {"check", "clean"}
  AccessorNames = {"getX"}
  Irreversible = {"cancel", "del", "revokeAll"}
  Reversible = {"update", "updateAll", "insert", "save"}
  Files <- MCFiles
  JavaFiles <- MCJava
  XmlFiles <- MCXml
  Snippet <- MCSnippet
  Blocks <- MCBlocks
  Prose = "a sentence"
  GatedCwe = {"CWE-862", "CWE-915"}
  MaxContextTokens = 16
  MaxEnrichHops = 2
  EagerDepth = 2
  VisitedCap = 3
  CallerDepth = 4
  CallerCap = 4
  CalleeDepth = 3
  CalleeCap = 5
  GuardCap = 3
  Alerts <- MCAlerts
  Answers <- MCAnswers
  SecondAnswers <- MCSecondAnswers
  Included <- MCIncluded
  Readings <- MCReadings
  Required <- MCRequired
INVARIANTS
  NothingOmittedSilently
  MapperNeverStarved
  TaintEvidenceIsOnThePath
  CitationsAreASet
  StyleAgreesWithTheProbe
PROPERTIES
  SevereFirst
CHECK_DEADLOCK FALSE
