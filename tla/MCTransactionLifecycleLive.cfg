\* No failing call, three transactions of one account, two of them at a time, whose first price is too
\* low to be mined: the second attempt reaches the inclusion price.
SPECIFICATION FairSpec
CONSTANTS
  t1 = t1
  t2 = t2
  t3 = t3
  r1 = r1
  None = None
  Ids = {t1, t2, t3}
  Accounts = {r1}
  PendingTransactionCountThreshold = 2
  MaxRetryCount = 1
  Prices = {1}
  InclusionPrice = 2
  Faults = FALSE
  MaxAttempts = 2
  MaxRestarts = 0
INVARIANT NonceSharedWithinThreshold
PROPERTY AnnouncedIsMined
\* Finitely many transactions: the handlers end.
CHECK_DEADLOCK FALSE
