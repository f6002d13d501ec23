CONSTANTS
  r1 = r1
  r2 = r2
  n1 = n1
  n2 = n2
  Requests <- MCRequests
  Captures <- MCCaptures
  Calls <- MCCalls
  Asks <- MCAsks
  MaxActivities = 1
  MaxToken = 2
  MaxWedges = 1
SPECIFICATION MCSpec
INVARIANTS EndIsShown StoreAskedFirst TabsAreClosed StraysComeLate
PROPERTIES EveryCallEnds SnapshotsMoveForward TokenArrives
CHECK_DEADLOCK FALSE
