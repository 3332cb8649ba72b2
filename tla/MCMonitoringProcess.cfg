SPECIFICATION FairSpec
CONSTANTS
  a = a  b = b  w1 = w1  w2 = w2  c1 = c1  c2 = c2 
  Schedule = {a, b}
  Worker = {w1}
  Call = {c1, c2}
  WorkerOf <- BothOfOne
  Allow = {b}
  Priority <- AFirst
  FirstRun <- AtStart
  Intervals = {1}
  LeaseTime = 2
  HeartbeatDelay = 1
  MaxConcurrency = 1
  Limit = 2
  Punctual = FALSE
  OneProcess = TRUE
  MayCrash = {}
  MaxTime = 2
  MaxRevision = 1
INVARIANTS NoOverlap ConcurrencyBound LeaseHeld NothingStranded
PROPERTY ClaimsSettle
CHECK_DEADLOCK FALSE
