CONSTANTS
  Jobs = {j1, j2, j3}
  Readers = {r1, r2}
  MaxJobs = 2
  NoJob = none
SPECIFICATION FairSpec
INVARIANTS TypeOK ReapsOnlyOrphans
PROPERTY SlotsComeBack
