SPECIFICATION Spec
CONSTANTS
  g1 = g1
  g2 = g2
  g3 = g3
  NoGuid = NoGuid
  Guids <- MCGuids
  Names = {"t", "u"}
  Worlds <- MCWorlds
  Broken <- MCBroken
  MaxCalls = 3
  MaxFaults = 1
  MaxRivals = 2
INVARIANTS
  ListsFreedOnce
  HandleIsThePool
  ImportFindsThePool
  SearchListsAll
  ItemsFreedOnce
  RetireReports
PROPERTIES
  NoResurrection
CHECK_DEADLOCK FALSE
