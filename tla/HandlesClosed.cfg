SPECIFICATION Spec
CONSTANTS
  r = r
  a = a
  b = b
  a1 = a1
  d = d
  w = w
  main = main
  other = other
  NoItem = NoItem
  NoPlace = NoPlace
  Items <- PairItems
  Root = r
  Kids <- PairKids
  Vars <- TwoVars
  Procs <- TwoProcs
  Main = main
  Owner <- OwnerOfTwo
  Ops <- CloseAndUse
INVARIANTS
  NoUseAfterFree
CHECK_DEADLOCK FALSE
