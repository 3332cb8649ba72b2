CONSTANTS
  Task = {t1, t2}
  RetrySafe = {t1}
  Strict = FALSE
  Request = {1, 2, 3}
  MayCrash = TRUE
  MaxRuns = 1
SPECIFICATION Spec
INVARIANTS LeftRunningCanResume
CHECK_DEADLOCK FALSE
