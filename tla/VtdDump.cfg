SPECIFICATION DumpSpec
CONSTANTS
  Dmars <- MCDmars
  Rsdps <- MCRsdps
  Platforms <- MCPlatforms
  Policies <- MCPolicies
  MaxDevice = 1
  MaxFunction = 1
  DataNumber = 2
  PoolMayFail = TRUE
  Machines <- MCMachines
  TableSize = 2
  ContextSize = 4
  FnPerDev = 2
  LargePages = 2
  MaxOps = 2
INVARIANTS
  UnitsRight
  CheckRight
PROPERTY DumpEnds
