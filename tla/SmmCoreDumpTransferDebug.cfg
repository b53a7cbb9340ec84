SPECIFICATION FairSpec
CONSTANTS
  Bytes = {b0, b1}
  ZeroByte = b0
  MaxDatabaseSize = 4
  RegionTables <- MCRegionTables
  MinimalSizeNeeded = 3
  CommSize = 2
  AssertsEnabled = TRUE
  MaxFailures = 2
INVARIANT FreshAnswer
CHECK_DEADLOCK FALSE
