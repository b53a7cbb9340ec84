SPECIFICATION FairSpec
CONSTANTS
  KnownProtocols = {"K"}
  Platforms <- RoomyPlatforms
  AssertsEnabled = FALSE
INVARIANTS
  PassesAgree
  ProbesLeaveNoTrace
  ReportRight
PROPERTY WalksFinish
CHECK_DEADLOCK FALSE
