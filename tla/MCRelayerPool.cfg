\* Two relayers for three handlers: handlers share and exhaust the pool, a relayer
\* with two pending transactions is parked, one relayer short starts a creation.
SPECIFICATION Spec
CONSTANTS
  s1 = s1
  s2 = s2
  a1 = a1
  Jobs = {s1, s2, a1}
  AAJobs = {a1}
  MinRelayerCount = 2
  NewRelayerInstanceCount = 1
  InactiveRelayerCountThreshold = 1
  PendingTransactionCountThreshold = 2
  CreateCanFail = TRUE
  MaxRelayers = 5
  MaxRestarts = 1
SYMMETRY Symmetry
INVARIANTS
  TypeOK
  ExclusiveRelayer
  ProcessingMapExact
  ParkedAtThreshold
  PendingCountExact
  PendingBounded
  CreationSerial
PROPERTIES
  ParkedForever
  ImplementsLease
\* Finitely many messages: the handlers end.
CHECK_DEADLOCK FALSE
