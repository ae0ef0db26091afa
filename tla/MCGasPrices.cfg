\* Two overlapping runs and one handler of each kind, a price above the limit, and a
\* restart between any two steps.
SPECIFICATION Spec
CONSTANTS
  s1 = s1
  s2 = s2
  h1 = h1
  Runs = {s1, s2}
  Readers = {h1}
  Quotes = {2, 9}
  MaxGasPrice = 7
  MaxReplacements = 2
  MaxRestarts = 1
INVARIANTS
  TypeOK
  FailsByFaultOnly
  NumberOffStation
PROPERTIES
  ReplacesPrevious
  CacheFollowsMarket
