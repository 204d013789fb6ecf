SPECIFICATION SuffixSpec
CONSTANTS
  Paths <- MCPair
  Pool <- P
  Targets <- OnlyA
  SnapNames <- MCSuffixed
  MaxTxg = 6
  MaxCalls = 1
  MaxFaults = 0
  Racing = FALSE
INVARIANTS
  ForeignSnapsKept
CHECK_DEADLOCK FALSE
