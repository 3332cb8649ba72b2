CONSTANTS
  Task = {t1, t2}
  RetrySafe = {t1}
  Strict = FALSE
  Request = {1, 2, 3}
  MayCrash = TRUE
  MaxRuns = 1
SPECIFICATION FairSpec
INVARIANTS ExecutionIsOwned CompletedIsBacked NoOrphan
PROPERTIES CompletedIsFinal RequestsEnd
CHECK_DEADLOCK FALSE
