CONSTANTS
  p1 = p1  p2 = p2  c1 = c1  c2 = c2  c3 = c3
  Procs <- MCProcs
  Copies <- MCCopies
  Closed <- MCClosed
  Nil = Nil
  Nobody = Nobody
  MaxVersion = 3
  MaxCalls = 3
SPECIFICATION Spec
INVARIANTS TypeOK NoConcurrentMapWrites SetIsSeen OwnError
PROPERTIES MapsNeverGoBack EveryCallReturns
CHECK_DEADLOCK FALSE
