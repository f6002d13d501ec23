CONSTANTS
  Cap = 2
  Spilling = TRUE
  ReadMayFail = FALSE
  MaxLines = 3
  Torn = torn
  BroadcastCapacity = 2
  Watchers = {s1}
  Chunk = 2
SPECIFICATION Spec
INVARIANT NoLineSlipsThrough
