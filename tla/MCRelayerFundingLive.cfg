\* One relayer at start, two mined events that may call for fundings, no failing call.
SPECIFICATION FairSpec
CONSTANTS
  Setup = Setup
  NoFunding = NoFunding
  e1 = e1
  e2 = e2
  r1 = r1
  Events = {e1, e2}
  Relayers = {r1}
  Created = {}
  Balances = {0, 1, 2, 3}
  FundingBalanceThreshold = 2
  FundingRelayerAmount = 1
  Faults = FALSE
PROPERTIES
  ClientToldOfMined
  StartedRelayerFunded
CHECK_DEADLOCK FALSE
