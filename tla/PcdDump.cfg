CONSTANTS
  Databases <- MCDatabases
  PeiTokenCounts = {0, 4}
  Files <- MCFiles
  Platforms <- MCPlatforms
  CommandLines <- MCCommandLines
SPECIFICATION PcdSpec
INVARIANTS
  DatabaseRight
  NvStoreRight
  SourcesRight
PROPERTY PcdDumpEnds
CHECK_DEADLOCK FALSE
