SPECIFICATION MCSpec
CONSTANTS
  k1 = k1
  k2 = k2
  Key <- MCKey
  NoKey = NoKey
  Stale = 1
  Recycle = 2
  Backoff <- MCBackoff
  DownRetry = 2
  AuthProbe = 3
  RetryAfters = {0, 2}
  MaxGen = 3
  MaxEdits = 2
  MaxDisposals = 1
INVARIANTS
  OneConnection
  OwnedUnderItsKey
  LiveIsHonest
PROPERTIES
  BarredKeyIsSpared
  SilentLosesTheSlot
  AlwaysTriesAgain
CHECK_DEADLOCK TRUE
