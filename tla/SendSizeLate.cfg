SPECIFICATION Spec
CONSTANTS
  c1 = c1
  c2 = c2
  Terminal = Terminal
  NoCall = NoCall
  Parts <- MCParts
  Slash <- MCSlash
  Hash <- MCHash
  Requests <- MCPlain
  Calls <- One
  Deadline = TRUE
INVARIANTS
  LateAnswerHarmless
CHECK_DEADLOCK FALSE
