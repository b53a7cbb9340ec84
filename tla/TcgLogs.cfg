CONSTANTS
  Events <- MCEvents
  SpecAlgs <- MCSpecAlgs
  CommandLines <- MCCommandLines
  Boots <- MCBoots
  MaxPcrIndex = 1
  MaxEvents = 3
  MaxShortages = 1
  MaxRuns = 2
  TcpaTables <- MCTables
  Options <- MCOptions
SPECIFICATION LogsSpec
INVARIANTS
  EventsRight
  ExpectedRight
  AreaRight
PROPERTY LogsEnd
CHECK_DEADLOCK FALSE
