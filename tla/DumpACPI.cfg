CONSTANTS
  Platforms <- MCPlatforms
  CommandLines <- MCCommandLines
  LibraryFuncs <- MCLibraryFuncs
  OldFiles <- MCOldFiles
  MaxFuncs = 7
  MaxIoFailures = 2
SPECIFICATION Spec
INVARIANTS
  TablesRight
  AmlFilesMatch
PROPERTY RunEnds
CHECK_DEADLOCK FALSE
