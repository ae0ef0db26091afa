\* One relayer, parked after each transaction: every handler but the first needs
\* a relayer that addActiveRelayer has created.
SPECIFICATION FairSpec
CONSTANTS
  s1 = s1
  s2 = s2
  s3 = s3
  Jobs = {s1, s2, s3}
  AAJobs = {}
  MinRelayerCount = 1
  NewRelayerInstanceCount = 1
  InactiveRelayerCountThreshold = 1
  PendingTransactionCountThreshold = 1
  CreateCanFail = FALSE
  MaxRelayers = 4
  MaxRestarts = 0
PROPERTIES
  EveryJobServed
CHECK_DEADLOCK FALSE
