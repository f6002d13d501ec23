CONSTANTS
  Clients = {c1}
  Leader = leader
  Members = {m}
  Escapees = {e}
  Capacity = 1
  MaxWrites = 1
  GraceIsZero = FALSE
  HasIdleTimeout = TRUE
  MayPanic = TRUE
SPECIFICATION FairSpec
INVARIANTS NoOutputLost LadderReachesGroup
PROPERTIES EveryJobFinishes ImplementsLifecycle
