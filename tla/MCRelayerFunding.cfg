\* Two relayers at start and one created later, two mined events, every call may fail.
SPECIFICATION Spec
CONSTANTS
  Setup = Setup
  NoFunding = NoFunding
  e1 = e1
  e2 = e2
  r1 = r1
  r2 = r2
  r3 = r3
  Events = {e1, e2}
  Relayers = {r1, r2, r3}
  Created = {r3}
  Balances = {0, 1, 2}
  FundingBalanceThreshold = 1
  FundingRelayerAmount = 1
  Faults = TRUE
SYMMETRY Symmetry
INVARIANTS
  TypeOK
  FundingExclusive
\* Finitely many events: the calls end.
CHECK_DEADLOCK FALSE
