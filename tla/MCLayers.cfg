SPECIFICATION FairSpec
CONSTANTS
  MaxEpoch = 4
  MaxWithdrawals = 1
INVARIANTS
  SettledIsTrue
  EffectiveIsNewest
  OneLoop
  GoneIsQuiet
PROPERTIES
  GrantedToTheNewest
  RequestsEnd
CHECK_DEADLOCK FALSE
