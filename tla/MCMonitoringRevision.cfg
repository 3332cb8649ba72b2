SPECIFICATION Spec
CONSTANTS
  a = a  b = b  w1 = w1  w2 = w2  c1 = c1  c2 = c2 
  Schedule = {a}
  Worker = {w1, w2}
  Call = {c1, c2}
  WorkerOf <- OneEach
  Allow = {}
  Priority <- AFirst
  FirstRun <- AtStart
  Intervals = {1}
  LeaseTime = 2
  HeartbeatDelay = 1
  MaxConcurrency = 1
  Limit = 2
  Punctual = TRUE
  OneProcess = TRUE
  MayCrash = {}
  MaxTime = 2
  MaxRevision = 2
INVARIANT RunUsesItsRevision
CHECK_DEADLOCK FALSE
