\* Two transactions before either is mined, no failing call.
SPECIFICATION Spec
CONSTANTS
  t1 = t1
  t2 = t2
  r1 = r1
  None = None
  Ids = {t1, t2}
  Accounts = {r1}
  PendingTransactionCountThreshold = 2
  MaxRetryCount = 1
  Prices = {1, 2}
  InclusionPrice = 2
  Faults = FALSE
  MaxAttempts = 3
  MaxRestarts = 0
INVARIANT NonceNotShared
CHECK_DEADLOCK FALSE
