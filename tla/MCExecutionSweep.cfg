CONSTANTS
  Task = {1, 2, 3}
  Deps <- ReversedDeps
  RetrySafe = {}
  AcceptPartial = {}
  MaxAttempts <- ReversedAttempts
  AsyncHandler = {1}
  Concurrency = 2
  EncodeOutcomes = {"encoded"}
  MaxRuns = 1
SPECIFICATION Spec
INVARIANTS OnlyRemainingCancelled
CHECK_DEADLOCK FALSE
