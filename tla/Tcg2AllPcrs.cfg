CONSTANTS
  Events <- MCEvents
  SpecAlgs <- MCSpecAlgs
  CommandLines <- MCExpectAll
  Boots <- MCBoots
  MaxPcrIndex = 1
  MaxEvents = 4
  MaxShortages = 0
  MaxRuns = 1
  TcpaTables <- MCTables
  Options <- MCOptions
SPECIFICATION LogsSpec
INVARIANT AllPcrsExpected
CHECK_DEADLOCK FALSE
