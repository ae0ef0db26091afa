\* One transaction, its record and its first hash, no failing call.
SPECIFICATION RecordSpec
CONSTANTS
  t1 = t1
  r1 = r1
  None = None
  Ids = {t1}
  Accounts = {r1}
  PendingTransactionCountThreshold = 1
  MaxRetryCount = 1
  Prices = {1, 2}
  InclusionPrice = 2
  Faults = FALSE
  MaxAttempts = 2
  MaxRestarts = 0
INVARIANT ResubmitFindsRelayer
CHECK_DEADLOCK FALSE
