SPECIFICATION MCSpec
CONSTANTS
  MaxTokens = 5
  Texts = {"x", "1"}
  MaxEvents = 5
  NoDir = NoDir
  m1 = m1
  m2 = m2
  d1 = d1
  d2 = d2
  d3 = d3
  Dirs <- MCDirs
  Documents <- MCDocuments
  Words <- MCWords
  MaxDepth = 1
  MaxEntries = 3
CHECK_DEADLOCK FALSE
INVARIANTS
  LinesAreLastFrames
  HtmlNests
  NothingVanishes
  AnswerIsForTheWholeTree
