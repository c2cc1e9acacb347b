SPECIFICATION ScanSpec
CONSTANTS
  MaxStatements = 3
  MaxHops = 2
  Programs <- MCPrograms
  Picks = {"@RequestParam", "getHeader", "Copy(Data)", "Other(Data)"}
INVARIANTS
  EveryTaintHasAReason
  MethodOrderIsIrrelevant
  CallGraphClosed
CHECK_DEADLOCK FALSE
