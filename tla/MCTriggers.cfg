SPECIFICATION FairSpec
CONSTANTS
  d1 = d1  d2 = d2  p = p
  Evaluation = {d1, d2}
  Rank <- InOrder
  Policy = {p}
  PolicyOf <- OnePolicy
  Matching = {d1, d2}
  Cooldown = 1
  MaxAttempts = 2
  Budget = 2
  MayCrash = TRUE
  MaxTime = 2
  MaxDisturbances = 2
INVARIANTS BudgetHeld CooldownRespected LineageIsComplete
PROPERTIES EndedChainsRest NotClosedUnderfoot ChainsSettle
CHECK_DEADLOCK FALSE
