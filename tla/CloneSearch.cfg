SPECIFICATION Spec
CONSTANTS
  Pools <- MCPools
  Root <- P
  Wanted <- MCWanted
  QueueCap = 5
INVARIANTS
  ReturnsFoundClones
  FirstCarriesAll
PROPERTIES
  Returns
CHECK_DEADLOCK FALSE
