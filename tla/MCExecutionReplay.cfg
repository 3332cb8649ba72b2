CONSTANTS
  Task = {1, 2, 3, 4}
  Deps <- DiamondDeps
  RetrySafe = {1}
  AcceptPartial = {4}
  MaxAttempts <- DiamondAttempts
  AsyncHandler = {1}
  Concurrency = 2
  EncodeOutcomes = {"encoded"}
  MaxRuns = 2
SPECIFICATION Spec
INVARIANTS UnsafeAtMostOnce
CHECK_DEADLOCK FALSE
