SPECIFICATION ShapesSpec
CONSTANTS
  Paths <- MCShapes
  Pool <- P
  Targets <- AnyOfShapes
  SnapNames <- MCTwoNames
  MaxTxg = 6
  MaxCalls = 2
  MaxFaults = 1
  Racing = TRUE
INVARIANTS
  TypeOK
  OutsideUntouched
  NilMeansGone
  QuietKeepsForeignSnaps
  QuietErrorLeavesTarget
  QuietLeavesNoOrphans
  QuietSucceeds
CHECK_DEADLOCK FALSE
