SPECIFICATION Spec
CONSTANTS
  r = r
  a = a
  b = b
  a1 = a1
  d = d
  w = w
  main = main
  other = other
  NoItem = NoItem
  NoPlace = NoPlace
  Items <- TreeItems
  Root = r
  Kids <- TreeKids
  Vars <- TwoVars
  Procs <- TwoProcs
  Main = main
  Owner <- OwnerOfTwo
  Ops <- Everything
INVARIANTS
  TypeOK
  NoDoubleFree
  NoLeak
CHECK_DEADLOCK FALSE
