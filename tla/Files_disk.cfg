CONSTANTS
  Cap = 2
  Spilling = TRUE
  ReadMayFail = FALSE
  MaxLines = 6
  Torn = torn
  Readers = {r1}
  Page = 2
  MaxFrom = 3
  Calls = {c1, c2, c3}
  LastDay = 2
  MaxFaults = 2
SPECIFICATION MCSpec
INVARIANTS WindowExact NothingSilentlyMissed LossIsBounded CountedOnce
PROPERTIES SealedStays PastDaysSealed
