CONSTANTS
  Task = {1, 2, 3, 4}
  Deps <- DiamondDeps
  RetrySafe = {1, 2}
  AcceptPartial = {}
  MaxAttempts <- DiamondAttempts
  AsyncHandler = {1}
  Concurrency = 2
  EncodeOutcomes = {"encoded", "no_codec"}
  MaxRuns = 2
SPECIFICATION Spec
INVARIANTS UnsafeAtMostOnce StrictSawAllInputs
PROPERTIES ImplementsPlanExecution
CHECK_DEADLOCK FALSE
