CONSTANTS
  Cap = 2
  Spilling = TRUE
  ReadMayFail = FALSE
  MaxLines = 5
  Torn = torn
  BroadcastCapacity = 1
  Watchers = {s1}
  Chunk = 2
  Clients = {c1}
  Page = 2
  Waits = TRUE
SPECIFICATION MCSpec
INVARIANTS SentInOrder FollowedToTheEnd LagLossIsTold FinalLinesCarried
PROPERTIES StreamEnds PollWakes
