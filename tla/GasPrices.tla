----------------------------- MODULE GasPrices -----------------------------
(***************************************************************************)
(* The gas price of one chain: the scheduled runs that write it to the     *)
(* cache (GasPrice.setup, MaticGasPrice.setup), and the handlers that read *)
(* it: a send and its resubmissions, a simulation, the fee options.        *)
(*                                                                         *)
(* A run is not awaited by its schedule: runs overlap, with each other and *)
(* with the reads.  The cache survives the process, and no run belongs to  *)
(* the start: the first one comes with the clock.  Of the three speeds the  *)
(* default is the only one that is ever read.                              *)
(***************************************************************************)
EXTENDS Integers

CONSTANTS
  Runs,              \* runs of setup that may be in flight at once
  Readers,           \* handlers that read the price
  Quotes,            \* prices the network and the gas station may answer
  MaxGasPrice,       \* config.gasPrice[chainId].maxGasPrice
  MaxReplacements,   \* bound on the resubmissions of a transaction
  MaxRestarts        \* bound on the restarts of the process

ASSUME GasPricesAssumption ==
  /\ Quotes \subseteq Nat \ {0, 1}
  /\ MaxGasPrice \in Nat \ {0, 1}
  /\ MaxReplacements \in Nat
  /\ MaxRestarts \in Nat

VARIABLES
  chain,    \* "polygon", with a gas station, or "other"
  faults,   \* may calls fail, or the station leave out a field?
  market,   \* what the network and the station answer now
  cache,    \* the cached default price
  setup,    \* a run in flight: where it is and what it has to write
  kind,     \* what a handler reads the price for
  pc,       \* where a handler is
  price,    \* the price a handler works with
  replaced, \* resubmissions of a handler's transaction
  restarts

vars == <<chain, faults, market, cache, setup, kind, pc, price, replaced, restarts>>

Kinds == {"send", "simulation", "fees"}
Places == {"idle", "asking", "priced", "done", "refused", "failed", "lost"}

Absent == -1        \* no key, or '': a price that is false
NotANumber == -2    \* the text 'NaN': a price that is true

Cached == Nat \cup {Absent, NotANumber}
Idle == [at |-> "idle", default |-> Absent]
Asking == [at |-> "asking", default |-> Absent]
Writing(p) == [at |-> "writing", default |-> p]

Init ==
  /\ chain \in {"polygon", "other"}
  /\ faults \in BOOLEAN
  /\ market \in Quotes
  /\ cache = Absent
  /\ setup = [s \in Runs |-> Idle]
  /\ kind \in [Readers -> Kinds]
  /\ pc = [r \in Readers |-> "idle"]
  /\ price = [r \in Readers |-> Absent]
  /\ replaced = [r \in Readers |-> 0]
  /\ restarts = 0

readerVars == <<kind, pc, price, replaced>>
rigid == <<chain, faults, kind>>

MarketMoves == market' \in Quotes /\ UNCHANGED <<rigid, cache, setup, pc, price, replaced, restarts>>

-----------------------------------------------------------------------------
(* The scheduled runs. *)
DueWhenAbsent(s) == setup[s] = Idle /\ cache = Absent

Due(s) == setup[s] = Idle

Schedule(s) ==
  /\ Due(s)
  /\ setup' = [setup EXCEPT ![s] = Asking]
  /\ UNCHANGED <<chain, faults, market, cache, readerVars, restarts>>

CachesFailure == {Writing(market)} \cup (IF faults THEN {Writing(Absent)} ELSE {})

CachesParsedFailure == {Writing(market)} \cup (IF faults THEN {Writing(NotANumber)} ELSE {})

(* GasPrice.setup: the network service throws on a failed call, which ends  *)
(* the run with the cache as it was.                                        *)
NetworkAnswer == {Writing(market)} \cup (IF faults THEN {Idle} ELSE {})

(* What the upper limit leaves of a price. *)
Capped(p) == IF p > MaxGasPrice THEN MaxGasPrice ELSE p

(* maticGasStation: the factor 1e9 makes NaN of a field that is missing. *)
GasStation == {market} \cup (IF faults THEN {NotANumber} ELSE {})

(* MaticGasPrice.setup: NaN passes the default for undefined and the limit. *)
(* polygonscanUrl is not configured: it neither answers for the station nor *)
(* lets minGasPrice be looked at.                                           *)
StationAnswer == {Writing(Capped(p)) : p \in GasStation}

SetupAnswered(s) ==
  /\ setup[s] = Asking
  /\ \E run \in IF chain = "polygon" THEN StationAnswer ELSE NetworkAnswer :
       setup' = [setup EXCEPT ![s] = run]
  /\ UNCHANGED <<chain, faults, market, cache, readerVars, restarts>>

(* setGasPrice: a write that fails is logged. *)
SetGasPrice(s) ==
  /\ setup[s].at = "writing"
  /\ cache' = setup[s].default \/ (faults /\ UNCHANGED cache)
  /\ setup' = [setup EXCEPT ![s] = Idle]
  /\ UNCHANGED <<chain, faults, market, readerVars, restarts>>

Restart ==
  /\ restarts < MaxRestarts
  /\ restarts' = restarts + 1
  /\ setup' = [s \in Runs |-> Idle]
  /\ pc' = [r \in Readers |-> IF pc[r] \in {"asking", "priced"} THEN "lost" ELSE pc[r]]
  /\ UNCHANGED <<rigid, market, cache, price, replaced>>

(* The station fails, polygonscan too: the answer that is not there is taken *)
(* apart outside the try, and nobody catches that.                           *)
StationFails(s) == faults /\ chain = "polygon" /\ setup[s] = Asking /\ Restart

-----------------------------------------------------------------------------
(* The readers. *)
Move(r, place) == pc' = [pc EXCEPT ![r] = place]

UsedUnlessMissing(p) == TRUE

Used(p) == p # Absent

(* getGasPrice: the cache, which gives '' when it fails, ... *)
GetGasPrice(r) ==
  /\ pc[r] = "idle"
  /\ \E p \in {cache} \cup (IF faults THEN {Absent} ELSE {}) :
       IF Used(p)
       THEN price' = [price EXCEPT ![r] = p] /\ Move(r, "priced")
       ELSE UNCHANGED price /\ Move(r, "asking")
  /\ UNCHANGED <<rigid, market, cache, setup, replaced, restarts>>

(* ... then the network, which throws when it fails. *)
AskNetwork(r) ==
  /\ pc[r] = "asking"
  /\ \/ price' = [price EXCEPT ![r] = market] /\ Move(r, "priced")
     \/ faults /\ UNCHANGED price /\ Move(r, "failed")
  /\ UNCHANGED <<rigid, market, cache, setup, replaced, restarts>>

IsNumber(r) == price[r] \in Nat

(* createTransaction: a price that is no number throws, and the send fails. *)
CreateTransaction(r) ==
  /\ pc[r] = "priced" /\ kind[r] = "send"
  /\ Move(r, IF IsNumber(r) THEN "done" ELSE "failed")
  /\ UNCHANGED <<rigid, market, cache, setup, price, replaced, restarts>>

(* What the payment check of a simulation says: it asks for the price once  *)
(* more and compares, and answers the same on every path.                   *)
PaidFully == TRUE

(* simulate: the price is sent to the simulator as it is. *)
Simulate(r) ==
  /\ pc[r] = "priced" /\ kind[r] = "simulation"
  /\ \/ PaidFully /\ Move(r, "done")
     \/ (faults \/ ~PaidFully) /\ Move(r, "refused")
  /\ UNCHANGED <<rigid, market, cache, setup, price, replaced, restarts>>

(* What the scheduled CMCTokenPriceManager.setup caches: nothing.  It runs  *)
(* with the timer as "this" and throws inside its try.                      *)
CachedTokenPrices == {}

(* FeeOption.get takes a table in the code instead, without chain 137.      *)
PricedChains == IF CachedTokenPrices = {} THEN {"other"} ELSE CachedTokenPrices

(* Big throws on a price that is undefined or NaN: the answer is an error.   *)
FeeOptions(r) ==
  /\ pc[r] = "priced" /\ kind[r] = "fees"
  /\ Move(r, IF IsNumber(r) /\ chain \in PricedChains THEN "done" ELSE "failed")
  /\ UNCHANGED <<rigid, market, cache, setup, price, replaced, restarts>>

-----------------------------------------------------------------------------
(* getBumpedUpGasPrice, with the 50 % of every configured chain. *)
BumpingPercentage == 50

Raised(p) == (p * (BumpingPercentage + 100)) \div 100

(* Below 110 % it takes 1.1 times the price, where a fraction throws.       *)
EnoughAsItIs(p) == 10 * Raised(p) >= 11 * p

UnchangedIfEnough(p) == IF EnoughAsItIs(p) THEN p ELSE (11 * p) \div 10

Bumped(p) == IF EnoughAsItIs(p) THEN Raised(p) ELSE (11 * p) \div 10

Bumps(p) == EnoughAsItIs(p) \/ (11 * p) % 10 = 0

Resubmit(r) ==
  /\ pc[r] = "done" /\ kind[r] = "send" /\ replaced[r] < MaxReplacements
  /\ IF Bumps(price[r])
     THEN /\ price' = [price EXCEPT ![r] = Bumped(@)]
          /\ replaced' = [replaced EXCEPT ![r] = @ + 1]
          /\ UNCHANGED pc
     ELSE UNCHANGED <<price, replaced>> /\ Move(r, "failed")
  /\ UNCHANGED <<rigid, market, cache, setup, restarts>>

Refresh(s) == Schedule(s) \/ SetupAnswered(s) \/ SetGasPrice(s)

Read(r) ==
  GetGasPrice(r) \/ AskNetwork(r) \/ CreateTransaction(r) \/ Simulate(r) \/ FeeOptions(r)

Next ==
  \/ \E s \in Runs : Refresh(s) \/ StationFails(s)
  \/ \E r \in Readers : Read(r) \/ Resubmit(r)
  \/ MarketMoves
  \/ Restart

(* The clock of the schedule runs, and calls and handlers end. *)
Spec ==
  /\ Init /\ [][Next]_vars
  /\ \A s \in Runs : WF_vars(Refresh(s))
  /\ \A r \in Readers : WF_vars(Read(r))

-----------------------------------------------------------------------------
Quoted(q) == IF chain = "polygon" THEN Capped(q) ELSE q

\* Every variable of the gas price service and of its readers has its type.
TypeOK ==
  /\ chain \in {"polygon", "other"} /\ faults \in BOOLEAN
  /\ market \in Quotes
  /\ cache \in Cached
  /\ setup \in [Runs -> [at : {"idle", "asking", "writing"}, default : Cached]]
  /\ \A s \in Runs : setup[s].at = "writing" <=> setup[s].default # Absent
  /\ kind \in [Readers -> Kinds] /\ pc \in [Readers -> Places]
  /\ price \in [Readers -> Cached]
  /\ replaced \in [Readers -> 0 .. MaxReplacements]
  /\ restarts \in 0 .. MaxRestarts

\* Without a failing call no send, resubmission, simulation or fee quote fails for its
\* price: not before the first scheduled run, not between the writes of two runs, not
\* for a price the bump makes a fraction of.  The fee options of chain 137 are the
\* exception.
FailsByFaultOnly ==
  \A r \in Readers : pc[r] = "failed" => faults \/ (kind[r] = "fees" /\ chain = "polygon")

\* On the chains without a gas station no handler works with a price that is no number,
\* whatever calls of the runs and of the cache failed before.
NumberOffStation ==
  \A r \in Readers : chain = "other" /\ pc[r] \in {"priced", "done"} => IsNumber(r)

\* A resubmission is never underpriced to a node, which asks for 10 % more than it holds,
\* and never pays more than the configured bump: truncating costs neither.
ReplacesPrevious ==
  [][\A r \in Readers : replaced[r]' = replaced[r] + 1
       => /\ 10 * price[r]' >= 11 * price[r]
          /\ 2 * price[r]' <= 3 * price[r]]_vars

\* Once the market stays at a price, the cache comes to it for good, though a run that
\* asked before may write after one that asked later.
CacheFollowsMarket ==
  ~faults => \A q \in Quotes : <>[](market = q) => <>[](cache = Quoted(q))
=============================================================================
