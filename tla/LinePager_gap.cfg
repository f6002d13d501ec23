CONSTANTS
  Cap = 2
  Spilling = FALSE
  MaxLines = 6
  Torn = torn
  Readers = {r1}
  Page = 2
  MaxFrom = 3
  ReadMayFail = FALSE
SPECIFICATION Spec
INVARIANT GapIsAnswered
