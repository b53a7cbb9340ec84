SPECIFICATION FairSpec
CONSTANTS
  Bytes = {b0, b1}
  ZeroByte = b0
  MaxDatabaseSize = 4
  RegionTables <- MCRegionTables
  MinimalSizeNeeded = 3
  CommSize = 2
  AssertsEnabled = FALSE
  MaxFailures = 2
INVARIANTS TypeOK TransferFaithful StoreInBounds
PROPERTIES TransferTerminates ImplementsSnapshot
CHECK_DEADLOCK FALSE
