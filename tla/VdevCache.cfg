SPECIFICATION Spec
CONSTANTS
  MaxParity = 3
  MaxRaidz = 4
  MaxDepth = 3
  Specs <- MCSpecs
  Args <- MCArgs
  NewDevs <- MCNew
  Frail <- MCFrail
  MaxEvents = 0
  MaxOps = 0
INVARIANTS
  SparesAndCacheAsSpecified
CHECK_DEADLOCK FALSE
