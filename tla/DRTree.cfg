SPECIFICATION Spec
CONSTANTS
  Pools <- MCPools
  Paths <- MCPaths
  SnapNames <- MCNames
  Targets <- MCTargets
  FirstTxg = 8
  MaxTxg = 10
  MaxFaults = 1
INVARIANTS
  CloneFreeSucceeds
  ChainGone
PROPERTIES
  DestroysAsPromised
CHECK_DEADLOCK FALSE
