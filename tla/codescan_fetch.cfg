SPECIFICATION Spec
CONSTANTS
  Bug = {"b1", "b2", "b3"}
  Req = {1, 2}
  Level <- MCLevel
  Rule <- MCRule
  Initial <- MCInitial
  ListPageSize = 2
  FetchWorkers = 2
  Asks <- MCAsks
  MaxFaults = 1
  MaxChanges = 1
  MaxExpiries = 1
INVARIANTS
  SelectionAccounted
CHECK_DEADLOCK FALSE
