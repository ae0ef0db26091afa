\* Two transactions that may share an account, failing calls and a restart; every attempt pays
\* enough to be mined.
SPECIFICATION Spec
CONSTANTS
  t1 = t1
  t2 = t2
  r1 = r1
  None = None
  Ids = {t1, t2}
  Accounts = {r1}
  PendingTransactionCountThreshold = 2
  MaxRetryCount = 1
  Prices = {2}
  InclusionPrice = 2
  Faults = TRUE
  MaxAttempts = 3
  MaxRestarts = 1
SYMMETRY Symmetry
INVARIANTS
  TypeOK
  ExecutedOnce
  ClientStory
  MinedIsReported
  ResubmittedUntilMined
  OneRetryChain
PROPERTY ImplementsClientView
\* Finitely many transactions: the handlers end.
CHECK_DEADLOCK FALSE
