SPECIFICATION Spec
CONSTANTS
  c1 = c1
  c2 = c2
  Terminal = Terminal
  NoCall = NoCall
  Parts <- MCParts
  Slash <- MCSlash
  Hash <- MCHash
  Requests <- MCRequests
  Calls <- Two
  Deadline = TRUE
INVARIANTS
  NilMeansOwnSize
  NilMeansSent
  StdoutRestored
  SourceAsAsked
PROPERTIES
  EveryCallReturns
CHECK_DEADLOCK FALSE
