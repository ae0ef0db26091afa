\* One funding that fails, one mined event after it.
SPECIFICATION FairSpec
CONSTANTS
  Setup = Setup
  NoFunding = NoFunding
  e1 = e1
  e2 = e2
  r1 = r1
  r2 = r2
  Events = {e1, e2}
  Relayers = {r1, r2}
  Created = {}
  Balances = {3}
  FundingBalanceThreshold = 3
  FundingRelayerAmount = 1
  Faults = TRUE
PROPERTY ClientToldOfMined
CHECK_DEADLOCK FALSE
