CONSTANTS
  Task = {1, 2, 3, 4}
  Deps <- DiamondDeps
  RetrySafe = {1, 4}
  AcceptPartial = {4}
  MaxAttempts <- DiamondAttempts
  AsyncHandler = {1}
  Concurrency = 2
  EncodeOutcomes = {"encoded", "encoding_error", "no_codec"}
  MaxRuns = 2
SPECIFICATION FairSpec
INVARIANTS StartedAfterDependencies NeverStalls
PROPERTIES ExecutionEnds ImplementsPlanExecution
CHECK_DEADLOCK FALSE
