CONSTANTS
  Cap = 2
  Spilling = TRUE
  ReadMayFail = FALSE
  MaxLines = 2
  Torn = torn
  BroadcastCapacity = 4
  Clients = {c1}
  Page = 2
  Waits = TRUE
SPECIFICATION PollSpec
INVARIANTS StoppedHasAll
