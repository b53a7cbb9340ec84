CONSTANTS
  h0 = h0
  h1 = h1
  h2 = h2
  p1 = p1
  p2 = p2
  e1 = e1
  e2 = e2
  e3 = e3
  dummy = dummy
  Handles = {h0, h1, h2}
  Protocols = {p1, p2}
  Events = {e1, e2, e3}
  ImageHandle = h0
  Dummy = dummy
  Platforms <- MCPlatforms
  MaxHandlers = 2
  Hidings <- MCHidings
  NULL = NULL
  PeiPlatforms <- MCPeiPlatforms
  KnownPpis = {"known"}
  None = None
SPECIFICATION CoreSpec
INVARIANTS
  ListsShown
  HobCarries
PROPERTY CoreDumpsEnd
CHECK_DEADLOCK FALSE
