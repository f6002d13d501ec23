CONSTANTS
  a = a
  b = b
  c = c
  w = w
  s = s
  NoSession = none
  Jobs = {a, b, c, w}
  SessionOf <- MCSessionOf
  Lists <- MCLists
  MaxElapsed = 1
  MaxLines = 4
  Queries <- MCQueries
  MaxScrollback = 4
  LogRows = 2
  Page = 2
  Wheel = 3
  MaxSent = 1
  Writers = {a, b}
  MaxDiagnostics = 3
  Capacity = 1
  MaxErrors = 5
  MaxId = 4
  MaxLives = 2
  MaxRepeats = 2
SPECIFICATION MCSpec
INVARIANTS NoBlankRows FailuresShownOnce
PROPERTIES CursorKeepsItsJob PaneLoads PausedViewHolds
CHECK_DEADLOCK FALSE
