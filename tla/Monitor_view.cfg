CONSTANTS
  Jobs = {j1}
  MaxLines = 1
  OutlivesPass = TRUE
  Me = me
  Watchers = {me}
  Capacity = 2
  MaxFaults = 1
SPECIFICATION FairSpec
INVARIANTS FinishedCountIsFinal EventsSuffice
PROPERTIES StoryInOrder EverythingTold JobsHealed
