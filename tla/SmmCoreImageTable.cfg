SPECIFICATION Spec
CONSTANTS
  KnownProtocols = {"K"}
  Platforms <- CrampedPlatforms
  AssertsEnabled = FALSE
INVARIANT AddImageStructAssert
CHECK_DEADLOCK FALSE
