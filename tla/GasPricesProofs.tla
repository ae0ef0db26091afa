-------------------------- MODULE GasPricesProofs --------------------------
(***************************************************************************)
(* What every chain, any number of runs and readers, and any prices from 2  *)
(* wei keep: a price that is no number comes from a station with a missing  *)
(* field only, and a bump of the configured 50 % never needs the fraction   *)
(* that BigNumber rejects.                                                  *)
(***************************************************************************)
EXTENDS GasPrices, TLAPS

(* Where a price comes from: a number the network or the station answered,  *)
(* nothing, or the NaN of a missing field.                                  *)
Sound(p) == \/ p \in Nat \ {0, 1}
            \/ p = Absent
            \/ p = NotANumber /\ faults /\ chain = "polygon"

SoundPrices ==
  /\ Sound(cache)
  /\ \A s \in Runs : Sound(setup[s].default)
  /\ \A r \in Readers : Sound(price[r])

(* A reader works with a price once it has one, and sends with a number.    *)
ReadersInv ==
  \A r \in Readers :
    /\ pc[r] \in {"priced", "done"} => price[r] # Absent
    /\ pc[r] = "done" /\ kind[r] = "send" => price[r] \in Nat

PriceInv == TypeOK /\ SoundPrices /\ ReadersInv /\ FailsByFaultOnly

-----------------------------------------------------------------------------
\* A price from 2 wei is raised to 110 % by the truncated 50 % already: the branch of
\* getBumpedUpGasPrice that can throw is for 1 wei alone.
LEMMA RaisedIsEnough ==
  ASSUME NEW p \in Nat \ {0, 1}
  PROVE  /\ Raised(p) \in Nat \ {0, 1}
         /\ EnoughAsItIs(p)
         /\ 2 * Raised(p) <= 3 * p
<1>1. 100 * Raised(p) <= 150 * p /\ 150 * p < 100 * Raised(p) + 100 /\ Raised(p) \in Int
  BY DEF Raised, BumpingPercentage
<1> QED
  BY <1>1 DEF EnoughAsItIs

\* What getBumpedUpGasPrice returns for a price from 2 wei.
LEMMA BumpedBounds ==
  ASSUME NEW p \in Nat \ {0, 1}
  PROVE  /\ Bumps(p)
         /\ Bumped(p) \in Nat \ {0, 1}
         /\ 10 * Bumped(p) >= 11 * p
         /\ 2 * Bumped(p) <= 3 * p
BY RaisedIsEnough DEF Bumps, Bumped, EnoughAsItIs

LEMMA InitPriceInv == Init => PriceInv
BY GasPricesAssumption
   DEF Init, PriceInv, TypeOK, SoundPrices, Sound, ReadersInv, FailsByFaultOnly, Idle, Absent,
       NotANumber, Cached, Places

-----------------------------------------------------------------------------
(* The steps of the scheduled runs leave the readers alone. *)
LEMMA ScheduleKeeps ==
  ASSUME PriceInv, NEW s \in Runs, Schedule(s)
  PROVE  PriceInv'
BY DEF Schedule, Due, PriceInv, TypeOK, SoundPrices, Sound, ReadersInv, FailsByFaultOnly, Idle,
       Asking, Absent, NotANumber, Cached, readerVars

LEMMA SetupAnsweredKeeps ==
  ASSUME PriceInv, NEW s \in Runs, SetupAnswered(s)
  PROVE  PriceInv'
<1> USE DEF SetupAnswered, PriceInv, TypeOK, readerVars
<1>1. PICK run \in IF chain = "polygon" THEN StationAnswer ELSE NetworkAnswer :
        setup' = [setup EXCEPT ![s] = run]
  OBVIOUS
<1>2. /\ run \in [at : {"idle", "asking", "writing"}, default : Cached]
      /\ run.at = "writing" <=> run.default # Absent
      /\ Sound(run.default)
  <2>1. CASE chain = "polygon"
    <3>1. PICK p \in GasStation : run = Writing(Capped(p))
      BY <2>1 DEF StationAnswer
    <3>2. Sound(Capped(p)) /\ Capped(p) # Absent
      <4>1. CASE p = market
        BY <4>1, GasPricesAssumption DEF Capped, Sound, Absent
      <4>2. CASE faults /\ p = NotANumber
        BY <4>2, <2>1, GasPricesAssumption DEF Capped, Sound, NotANumber, Absent
      <4> QED
        BY <4>1, <4>2 DEF GasStation
    <3> QED
      BY <3>1, <3>2 DEF Writing, Sound, Cached
  <2>2. CASE chain # "polygon"
    BY <2>2, <1>1, GasPricesAssumption
       DEF NetworkAnswer, Writing, Idle, Sound, Cached, Absent, NotANumber
  <2> QED BY <2>1, <2>2
<1>3. TypeOK'
  BY <1>1, <1>2
<1>4. SoundPrices'
  BY <1>1, <1>2 DEF SoundPrices, Sound
<1> QED
  BY <1>3, <1>4 DEF ReadersInv, FailsByFaultOnly

LEMMA SetGasPriceKeeps ==
  ASSUME PriceInv, NEW s \in Runs, SetGasPrice(s)
  PROVE  PriceInv'
<1> USE DEF SetGasPrice, PriceInv, TypeOK, readerVars
<1>1. TypeOK'
  BY DEF Idle, Absent, Cached
<1>2. SoundPrices'
  BY DEF SoundPrices, Sound, Idle
<1> QED
  BY <1>1, <1>2 DEF ReadersInv, FailsByFaultOnly

LEMMA RestartKeeps ==
  ASSUME PriceInv, Restart
  PROVE  PriceInv'
<1> USE DEF Restart, PriceInv, TypeOK, rigid
<1>1. TypeOK'
  BY GasPricesAssumption DEF Idle, Absent, Cached, Places
<1>2. SoundPrices'
  BY DEF SoundPrices, Sound, Idle
<1>3. ReadersInv' /\ FailsByFaultOnly'
  BY DEF ReadersInv, FailsByFaultOnly
<1> QED
  BY <1>1, <1>2, <1>3

-----------------------------------------------------------------------------
(* The steps of the readers. *)
LEMMA ReadKeeps ==
  ASSUME PriceInv, NEW r \in Readers, Read(r)
  PROVE  PriceInv'
<1> USE DEF PriceInv, TypeOK, rigid, Move, Places
<1>1. CASE GetGasPrice(r)
  <2>1. PICK p \in {cache} \cup (IF faults THEN {Absent} ELSE {}) :
          IF Used(p)
          THEN price' = [price EXCEPT ![r] = p] /\ Move(r, "priced")
          ELSE UNCHANGED price /\ Move(r, "asking")
    BY <1>1 DEF GetGasPrice
  <2>2. p \in Cached /\ Sound(p)
    BY DEF SoundPrices, Sound, Cached
  <2>3. TypeOK' /\ SoundPrices'
    BY <1>1, <2>1, <2>2 DEF GetGasPrice, SoundPrices, Sound
  <2>4. ReadersInv' /\ FailsByFaultOnly'
    BY <1>1, <2>1 DEF GetGasPrice, ReadersInv, FailsByFaultOnly, Used
  <2> QED
    BY <2>3, <2>4
<1>2. CASE AskNetwork(r)
  <2>1. market \in Nat \ {0, 1}
    BY GasPricesAssumption
  <2>2. TypeOK' /\ SoundPrices'
    BY <1>2, <2>1 DEF AskNetwork, SoundPrices, Sound, Cached
  <2>3. ReadersInv' /\ FailsByFaultOnly'
    BY <1>2, <2>1 DEF AskNetwork, ReadersInv, FailsByFaultOnly, Absent
  <2> QED
    BY <2>2, <2>3
<1>3. CASE CreateTransaction(r)
  <2>1. TypeOK' /\ SoundPrices' /\ ReadersInv'
    BY <1>3 DEF CreateTransaction, SoundPrices, Sound, ReadersInv, IsNumber
  <2>2. FailsByFaultOnly'
    BY <1>3 DEF CreateTransaction, FailsByFaultOnly, SoundPrices, Sound, ReadersInv, IsNumber
  <2> QED
    BY <2>1, <2>2
<1>4. CASE Simulate(r)
  BY <1>4 DEF Simulate, SoundPrices, Sound, ReadersInv, FailsByFaultOnly
<1>5. CASE FeeOptions(r)
  <2>1. TypeOK' /\ SoundPrices' /\ ReadersInv'
    BY <1>5 DEF FeeOptions, SoundPrices, Sound, ReadersInv, IsNumber
  <2>2. FailsByFaultOnly'
    BY <1>5 DEF FeeOptions, FailsByFaultOnly, SoundPrices, Sound, ReadersInv, IsNumber,
                PricedChains, CachedTokenPrices
  <2> QED
    BY <2>1, <2>2
<1> QED
  BY <1>1, <1>2, <1>3, <1>4, <1>5 DEF Read

LEMMA SentPrice ==
  ASSUME PriceInv, NEW r \in Readers, pc[r] = "done", kind[r] = "send"
  PROVE  price[r] \in Nat \ {0, 1}
BY DEF PriceInv, SoundPrices, Sound, ReadersInv, Absent, NotANumber

LEMMA ResubmitKeeps ==
  ASSUME PriceInv, NEW r \in Readers, Resubmit(r)
  PROVE  PriceInv'
<1> USE DEF PriceInv, TypeOK, rigid, Resubmit
<1>1. /\ price' = [price EXCEPT ![r] = Bumped(price[r])]
      /\ replaced' = [replaced EXCEPT ![r] = @ + 1]
      /\ UNCHANGED pc
  BY SentPrice, BumpedBounds
<1>2. Bumped(price[r]) \in Nat \ {0, 1}
  BY SentPrice, BumpedBounds
<1>3. replaced[r] + 1 \in 0 .. MaxReplacements
  BY GasPricesAssumption
<1>4. TypeOK'
  BY <1>1, <1>2, <1>3 DEF Cached
<1>5. SoundPrices'
  BY <1>1, <1>2 DEF SoundPrices, Sound
<1>6. ReadersInv' /\ FailsByFaultOnly'
  BY <1>1, <1>2 DEF ReadersInv, FailsByFaultOnly, Absent
<1> QED
  BY <1>4, <1>5, <1>6

LEMMA NextPriceInv == PriceInv /\ [Next]_vars => PriceInv'
<1> SUFFICES ASSUME PriceInv, [Next]_vars PROVE PriceInv'
  OBVIOUS
<1>1. ASSUME NEW s \in Runs, Refresh(s) \/ StationFails(s) PROVE PriceInv'
  BY <1>1, ScheduleKeeps, SetupAnsweredKeeps, SetGasPriceKeeps, RestartKeeps
     DEF Refresh, StationFails
<1>2. ASSUME NEW r \in Readers, Read(r) \/ Resubmit(r) PROVE PriceInv'
  BY <1>2, ReadKeeps, ResubmitKeeps
<1>3. CASE MarketMoves
  BY <1>3 DEF MarketMoves, PriceInv, TypeOK, SoundPrices, Sound, ReadersInv, FailsByFaultOnly, rigid
<1>4. CASE UNCHANGED vars
  BY <1>4 DEF vars, PriceInv, TypeOK, SoundPrices, Sound, ReadersInv, FailsByFaultOnly
<1> QED
  BY <1>1, <1>2, <1>3, <1>4, RestartKeeps DEF Next

-----------------------------------------------------------------------------
\* The inductive invariant of the gas price: where prices come from, and what the
\* handlers of EVMTransactionService work with.
THEOREM PriceInvariant == Spec => []PriceInv
BY InitPriceInv, NextPriceInv, PTL DEF Spec

\* Every variable of the gas price service and of its readers keeps its type, for any
\* number of overlapping runs of setup.
THEOREM PriceTypesKept == Spec => []TypeOK
<1>1. PriceInv => TypeOK
  BY DEF PriceInv
<1> QED
  BY <1>1, PriceInvariant, PTL

\* Without a failing call nobody fails for the price, but the fee options of chain 137:
\* getBumpedUpGasPrice throws for no price from 2 wei.
THEOREM OnlyFaultsFail == Spec => []FailsByFaultOnly
<1>1. PriceInv => FailsByFaultOnly
  BY DEF PriceInv
<1> QED
  BY <1>1, PriceInvariant, PTL

\* On a chain without a gas station, whatever fails, every handler that has a price has
\* a number.
THEOREM NumbersOffStation == Spec => []NumberOffStation
<1>1. PriceInv => NumberOffStation
  BY DEF PriceInv, SoundPrices, Sound, ReadersInv, NumberOffStation, IsNumber
<1> QED
  BY <1>1, PriceInvariant, PTL

\* Every resubmission pays 10 % more than the transaction it replaces, as a node asks,
\* and at most 50 % more, whatever the price.
THEOREM ResubmissionsReplace == Spec => ReplacesPrevious
<1> DEFINE Step == \A r \in Readers : replaced[r]' = replaced[r] + 1
                     => /\ 10 * price[r]' >= 11 * price[r]
                        /\ 2 * price[r]' <= 3 * price[r]
<1>1. PriceInv /\ [Next]_vars => [Step]_vars
  <2> SUFFICES ASSUME PriceInv, Next, NEW r \in Readers, replaced[r]' = replaced[r] + 1
               PROVE  10 * price[r]' >= 11 * price[r] /\ 2 * price[r]' <= 3 * price[r]
    BY Zenon
  <2>1. \E q \in Readers : Resubmit(q)
    <3>1. UNCHANGED replaced => FALSE
      BY DEF PriceInv, TypeOK
    <3> QED
      BY <3>1 DEF Next, Refresh, Read, Schedule, SetupAnswered, SetGasPrice, StationFails, Restart,
              MarketMoves, GetGasPrice, AskNetwork, CreateTransaction, Simulate, FeeOptions,
              readerVars
  <2>2. PICK q \in Readers : Resubmit(q)
    BY <2>1
  <2>3. q = r /\ price'[r] = Bumped(price[r])
    BY <2>2, SentPrice, BumpedBounds DEF Resubmit, PriceInv, TypeOK
  <2> QED
    BY <2>2, <2>3, SentPrice, BumpedBounds DEF Resubmit
<1> QED
  BY <1>1, PriceInvariant, PTL DEF Spec, ReplacesPrevious
=============================================================================
