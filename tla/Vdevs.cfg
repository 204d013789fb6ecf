SPECIFICATION Spec
CONSTANTS
  MaxParity = 3
  MaxRaidz = 4
  MaxDepth = 3
  Specs <- MCSpecs
  Args <- MCArgs
  NewDevs <- MCNew
  Frail <- MCFrail
  MaxEvents = 3
  MaxOps = 2
INVARIANTS
  CreatedAsSpecified
  RedundancyAsAsked
  TreeIsPool
  OnlineReports
  OfflineTriesAll
  InitializeReports
CHECK_DEADLOCK FALSE
