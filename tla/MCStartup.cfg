\* Two chains, one request of any kind at any time, one failing call.
SPECIFICATION Spec
CONSTANTS
  q1 = q1
  Unsupported = 1
  ChainOrder <- TwoChains
  Requests = {q1}
  MaxFaults = 1
INVARIANTS
  TypeOK
  AcceptedNotLost
  ConsumersHaveRelayers
PROPERTIES
  ReadyStays
  EventuallyReady
  AcceptedIsHandled
\* A process whose configuration is not valid stops.
CHECK_DEADLOCK FALSE
