\* One transaction whose first price may be too low, with failing calls, a restart and
\* both orders of the database.
SPECIFICATION RecordSpec
CONSTANTS
  t1 = t1
  r1 = r1
  None = None
  Ids = {t1}
  Accounts = {r1}
  PendingTransactionCountThreshold = 1
  MaxRetryCount = 1
  Prices = {1, 2}
  InclusionPrice = 2
  Faults = TRUE
  MaxAttempts = 3
  MaxRestarts = 1
INVARIANTS
  RecordTypeOK
  OutcomeIsMined
  DroppedIsReplaced
  WrittenIsRecorded
PROPERTIES
  SettledStays
  ReportedIsRecorded
\* Finitely many transactions: the handlers end.
CHECK_DEADLOCK FALSE
