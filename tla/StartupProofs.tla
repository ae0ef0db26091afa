--------------------------- MODULE StartupProofs ---------------------------
(***************************************************************************)
(* What every start keeps, for any list of chains, any requests at any      *)
(* time and any number of failing calls.                                    *)
(***************************************************************************)
EXTENDS Startup, TLAPS

(* A route is there once its queue was asked for, so the exchange has the   *)
(* queue, unless consume failed; a simulated request waits for nothing else.*)
RoutesInv ==
  /\ \A q \in routes : q \in bound \cup broken
  /\ \A r \in Requests : answer[r] = "simulated" => Route(r) \in bound \cup broken

(* The relayer managers of a chain come before what subscribes for it.      *)
RelayersInv ==
  /\ \A q \in consumers \cup subscribing : q[1] \in relayers
  /\ at \in {"services", "AA", "SCW", "status"} => Chain \in relayers

(* The chains before the current one have their fee options, and the last   *)
(* one too when the setup is over.                                          *)
FeesInv ==
  /\ \A i \in 1 .. current - 1 : ChainOrder[i] \in fees
  /\ at \in {"AA", "SCW", "status", "ready"} => Chain \in fees
  /\ at = "ready" => current = Len(ChainOrder)

(* Only a relay request is simulated.                                       *)
RelayedInv == \A r \in Requests : answer[r] = "simulated" => kind[r] \in TransactionTypes

StartInv == TypeOK /\ RelayedInv /\ RoutesInv /\ AcceptedNotLost /\ RelayersInv /\ FeesInv

Messages == [Queues -> SUBSET Requests]

-----------------------------------------------------------------------------
LEMMA ChainIsChain ==
  ASSUME current \in DOMAIN ChainOrder
  PROVE  /\ Chain \in Chains
         /\ \A t \in TransactionTypes \cup {"transaction", "retry"} : <<Chain, t>> \in Queues
BY DEF Chain, Chains, Queues

LEMMA InitStartInv == Init => StartInv
<1> SUFFICES ASSUME Init PROVE StartInv
  OBVIOUS
<1>1. 1 \in DOMAIN ChainOrder
  BY StartupAssumption
<1>2. messages \in [Queues -> SUBSET Requests] /\ answer \in [Requests -> Answers]
  BY DEF Init, Answers
<1>3. faults \in 0 .. MaxFaults
  BY StartupAssumption DEF Init
<1>4. TypeOK
  BY <1>1, <1>2, <1>3 DEF Init, TypeOK, Places
<1> QED
  BY <1>4 DEF Init, StartInv, RelayedInv, RoutesInv, AcceptedNotLost, RelayersInv, FeesInv

LEMMA FaultsBounded ==
  ASSUME TypeOK, Fails
  PROVE  faults' \in 0 .. MaxFaults
BY StartupAssumption DEF TypeOK, Fails

\* What an exchange hands its queues keeps their type; it drops a simulated request only
\* where consume failed.
LEMMA PublishedType ==
  ASSUME NEW held \in Messages, NEW r \in Requests, NEW q
  PROVE  Published(held, r, q) \in Messages
BY DEF Published, Messages

LEMMA SimulatedIsRouted ==
  ASSUME StartInv, NEW r \in Requests, answer[r] = "simulated"
  PROVE  /\ lost \cup Unroutable(r, Route(r)) \subseteq Requests
         /\ \A l \in lost \cup Unroutable(r, Route(r)) : Route(l) \in broken
BY DEF StartInv, TypeOK, RoutesInv, AcceptedNotLost, Unroutable

\* An exit forgets what the process had and nothing of what the broker has.
LEMMA ExitKeeps ==
  ASSUME StartInv, NEW held \in Messages, ExitWith(held),
         answer' \in [Requests -> Answers \ {"simulated"}],
         lost' \subseteq Requests, \A r \in lost' : Route(r) \in broken, faults' \in 0 .. MaxFaults
  PROVE  StartInv'
<1> USE DEF ExitWith, StartInv
<1>1. 1 \in DOMAIN ChainOrder
  BY StartupAssumption
<1>2. TypeOK'
  BY <1>1 DEF TypeOK, Places, Durable, Messages, Answers
<1>3. RelayedInv' /\ RoutesInv' /\ AcceptedNotLost'
  BY DEF RelayedInv, RoutesInv, AcceptedNotLost, Route, Answers
<1>4. RelayersInv' /\ FeesInv'
  BY DEF RelayersInv, FeesInv
<1> QED
  BY <1>2, <1>3, <1>4

\* ... so does one that loses no message.
LEMMA ExitLosingNoneKeeps ==
  ASSUME StartInv, ExitWith(messages), answer' \in [Requests -> Answers \ {"simulated"}],
         UNCHANGED lost, faults' \in 0 .. MaxFaults
  PROVE  StartInv'
<1>1. messages \in Messages
  BY DEF StartInv, TypeOK, Messages
<1>2. lost' \subseteq Requests /\ \A r \in lost' : Route(r) \in broken
  BY DEF StartInv, TypeOK, AcceptedNotLost
<1> QED
  BY <1>1, <1>2, ExitKeeps

LEMMA DroppedType ==
  ASSUME TypeOK
  PROVE  Dropped(answer) \in [Requests -> Answers \ {"simulated"}]
BY DEF TypeOK, Dropped, Answers

-----------------------------------------------------------------------------
LEMMA NotCaughtKeeps ==
  ASSUME StartInv, NotCaught
  PROVE  StartInv'
<1>1. TypeOK
  BY DEF StartInv
<1> QED
  BY <1>1, DroppedType, FaultsBounded, ExitLosingNoneKeeps DEF NotCaught, Exit

\* A consume that was answered, either way, leaves its queue bound or broken.
LEMMA ConsumeBinds ==
  ASSUME TypeOK, NEW q \in Queues, Consume(q)
  PROVE  /\ bound \cup broken \subseteq bound' \cup broken'
         /\ q \in bound' \cup broken'
         /\ bound \subseteq bound' /\ broken \subseteq broken'
         /\ bound' \subseteq Queues /\ broken' \subseteq Queues
         /\ consumers \subseteq consumers' /\ consumers' \subseteq consumers \cup {q}
         /\ faults' \in 0 .. MaxFaults
BY FaultsBounded DEF Consume, TypeOK

LEMMA SubscribeKeeps ==
  ASSUME StartInv, NEW q \in Queues, Subscribe(q)
  PROVE  StartInv'
<1> USE DEF Subscribe, StartInv
<1>1. /\ bound \cup broken \subseteq bound' \cup broken'
      /\ bound \subseteq bound' /\ broken \subseteq broken'
      /\ bound' \subseteq Queues /\ broken' \subseteq Queues
      /\ consumers' \subseteq consumers \cup {q}
      /\ faults' \in 0 .. MaxFaults
  BY ConsumeBinds
<1>2. TypeOK'
  BY <1>1 DEF TypeOK, requestVars
<1>3. RelayedInv' /\ RoutesInv' /\ AcceptedNotLost'
  BY <1>1 DEF RelayedInv, RoutesInv, AcceptedNotLost, Route, requestVars
<1>4. RelayersInv' /\ FeesInv'
  BY <1>1 DEF RelayersInv, FeesInv, Chain
<1> QED
  BY <1>2, <1>3, <1>4

LEMMA SetUpTypeKeeps ==
  ASSUME StartInv, NEW type \in TransactionTypes, NEW next,
         <<type, next>> \in {<<"AA", "SCW">>, <<"SCW", "status">>}, SetUpType(type, next)
  PROVE  StartInv'
<1> USE DEF SetUpType, AwaitedConsume, Continue, StartInv
<1>1. <<Chain, type>> \in Queues /\ <<Chain, type>> \in Chains \X TransactionTypes
  BY ChainIsChain DEF TypeOK
<1>2. /\ bound \cup broken \subseteq bound' \cup broken'
      /\ <<Chain, type>> \in bound' \cup broken'
      /\ bound \subseteq bound' /\ broken \subseteq broken'
      /\ bound' \subseteq Queues /\ broken' \subseteq Queues
      /\ consumers' \subseteq consumers \cup {<<Chain, type>>}
      /\ faults' \in 0 .. MaxFaults
  BY <1>1, ConsumeBinds
<1>3. at \in {"AA", "SCW"} /\ at' \in {"SCW", "status"}
  OBVIOUS
<1>4. consumers' \subseteq Queues /\ routes' \subseteq Chains \X TransactionTypes
  BY <1>1, <1>2 DEF TypeOK
<1>5. TypeOK'
  BY <1>2, <1>3, <1>4 DEF TypeOK, Places, requestVars
<1>6. RelayedInv' /\ RoutesInv' /\ AcceptedNotLost'
  BY <1>2 DEF RelayedInv, RoutesInv, AcceptedNotLost, Route, requestVars
<1>7. RelayersInv'
  BY <1>2, <1>3 DEF RelayersInv, Chain
<1>8. FeesInv'
  BY <1>3 DEF FeesInv, Chain
<1> QED
  BY <1>5, <1>6, <1>7, <1>8

LEMMA NextChainKeeps ==
  ASSUME StartInv, NextChain
  PROVE  StartInv'
<1> USE DEF NextChain, StartInv
<1>1. current' \in DOMAIN ChainOrder /\ (at' = "ready" => current' = Len(ChainOrder))
  BY StartupAssumption DEF HasNextChain, TypeOK
<1>2. TypeOK'
  BY <1>1 DEF TypeOK, Places, requestVars, brokerVars
<1>3. RelayedInv' /\ RoutesInv' /\ AcceptedNotLost'
  BY DEF RelayedInv, RoutesInv, AcceptedNotLost, Route, requestVars, brokerVars
<1>4. RelayersInv'
  BY DEF RelayersInv, Chain
<1>5. FeesInv'
  <2>1. \A i \in 1 .. current : ChainOrder[i] \in fees
    BY StartupAssumption DEF FeesInv, Chain, TypeOK
  <2>2. current \in Nat /\ current' \in {current, current + 1}
    BY StartupAssumption DEF TypeOK
  <2> QED
    BY <2>1, <2>2, <1>1 DEF FeesInv, Chain
<1> QED
  BY <1>2, <1>3, <1>4, <1>5

LEMMA SetUpKeeps ==
  ASSUME StartInv, SetUp
  PROVE  StartInv'
<1> USE DEF StartInv, requestVars, brokerVars
<1>1. CASE LoadConfig
  BY <1>1 DEF LoadConfig, TypeOK, Places, RelayedInv, RoutesInv, AcceptedNotLost, RelayersInv, FeesInv, Route, Chain
<1>2. CASE ConnectMongo
  <2>1. faults' \in 0 .. MaxFaults
    BY <1>2, FaultsBounded DEF ConnectMongo, TypeOK
  <2> QED
    BY <1>2, <2>1
       DEF ConnectMongo, TypeOK, Places, RelayedInv, RoutesInv, AcceptedNotLost, RelayersInv, FeesInv, Route, Chain
<1>3. CASE Connect
  BY <1>3
     DEF Connect, Continue, TypeOK, Places, RelayedInv, RoutesInv, AcceptedNotLost, RelayersInv, FeesInv, Route, Chain
<1>4. CASE CreateRelayers
  <2> USE <1>4 DEF CreateRelayers, Continue
  <2>1. Chain \in Chains
    BY ChainIsChain DEF TypeOK
  <2>2. TypeOK'
    BY <2>1 DEF TypeOK, Places
  <2>3. RelayedInv' /\ RoutesInv' /\ AcceptedNotLost'
    BY DEF RelayedInv, RoutesInv, AcceptedNotLost, Route
  <2>4. RelayersInv' /\ FeesInv'
    BY DEF RelayersInv, FeesInv, Chain
  <2> QED
    BY <2>2, <2>3, <2>4
<1>5. CASE SetUpServices
  <2> USE <1>5 DEF SetUpServices, Continue, FeesOf
  <2>1. Chain \in Chains /\ <<Chain, "retry">> \in Queues /\ <<Chain, "transaction">> \in Queues
    BY ChainIsChain DEF TypeOK
  <2>2. TypeOK'
    BY <2>1 DEF TypeOK, Places
  <2>3. RelayedInv' /\ RoutesInv' /\ AcceptedNotLost'
    BY DEF RelayedInv, RoutesInv, AcceptedNotLost, Route
  <2>4. RelayersInv'
    BY DEF RelayersInv, Chain
  <2>5. FeesInv'
    BY DEF FeesInv, Chain
  <2> QED
    BY <2>2, <2>3, <2>4, <2>5
<1> QED
  BY <1>1, <1>2, <1>3, <1>4, <1>5, SetUpTypeKeeps, NextChainKeeps DEF SetUp, TransactionTypes

-----------------------------------------------------------------------------
LEMMA DeliverKeeps ==
  ASSUME StartInv, NEW q \in Queues, Deliver(q)
  PROVE  StartInv'
<1> USE DEF Deliver, StartInv, setupVars, requestVars
<1>1. TypeOK'
  BY DEF TypeOK
<1>2. RelayedInv' /\ RoutesInv' /\ AcceptedNotLost'
  BY DEF RelayedInv, RoutesInv, AcceptedNotLost, Route
<1>3. RelayersInv' /\ FeesInv'
  BY DEF RelayersInv, FeesInv, Chain
<1> QED
  BY <1>1, <1>2, <1>3

\* An answer changes nothing but itself; a simulated request has its route.
LEMMA ReplyKeeps ==
  ASSUME StartInv, NEW r \in Requests, NEW a \in Answers, Reply(r, a), faults' \in 0 .. MaxFaults,
         a = "simulated" => Route(r) \in routes /\ kind[r] \in TransactionTypes
  PROVE  StartInv'
<1> USE DEF Reply, Answered, StartInv, setupVars, brokerVars
<1>1. TypeOK'
  BY DEF TypeOK
<1>2. RelayedInv' /\ RoutesInv' /\ AcceptedNotLost'
  BY DEF TypeOK, RelayedInv, RoutesInv, AcceptedNotLost, Route
<1>3. RelayersInv' /\ FeesInv'
  BY DEF RelayersInv, FeesInv, Chain
<1> QED
  BY <1>1, <1>2, <1>3

LEMMA ExitOnKeeps ==
  ASSUME StartInv, NEW r \in Requests, ExitOn(r), faults' \in 0 .. MaxFaults
  PROVE  StartInv'
<1>1. answer' \in [Requests -> Answers \ {"simulated"}]
  BY DroppedType DEF StartInv, ExitOn, Answers
<1> QED
  BY <1>1, ExitLosingNoneKeeps DEF ExitOn

LEMMA RelayKeeps ==
  ASSUME StartInv, NEW r \in Requests, Relay(r)
  PROVE  StartInv'
<1> USE DEF Relay, Answered, StartInv, setupVars
<1>1. messages' \in Messages
  BY PublishedType DEF TypeOK, Messages
<1>2. lost' \subseteq Requests /\ \A l \in lost' : Route(l) \in broken
  BY SimulatedIsRouted
<1>3. TypeOK'
  BY <1>1, <1>2 DEF TypeOK, Answers, Messages
<1>4. RelayedInv' /\ RoutesInv'
  BY DEF TypeOK, RelayedInv, RoutesInv, Route
<1>5. AcceptedNotLost'
  BY <1>2 DEF AcceptedNotLost, Route
<1>6. RelayersInv' /\ FeesInv'
  BY DEF RelayersInv, FeesInv, Chain
<1> QED
  BY <1>3, <1>4, <1>5, <1>6

\* A relay whose record or message cannot be written ends the process.
LEMMA RelayExitsKeep ==
  ASSUME StartInv, NEW r \in Requests, RelayWithoutModel(r) \/ RelayFails(r)
  PROVE  StartInv'
<1>1. messages \in Messages /\ TypeOK /\ Published(messages, r, Route(r)) \in Messages
  BY PublishedType DEF StartInv, TypeOK, Messages
<1>2. faults' \in 0 .. MaxFaults
  BY <1>1, FaultsBounded DEF RelayWithoutModel, RelayFails, TypeOK
<1>3. CASE RelayFails(r) /\ Reply(r, "error")
  BY <1>2, <1>3, ReplyKeeps DEF Answers
<1>4. CASE AnsweredAndExit(r, "orphaned") /\ ExitWith(messages) /\ UNCHANGED lost
  <2>1. answer' \in [Requests -> Answers \ {"simulated"}]
    BY <1>1, <1>4, DroppedType DEF AnsweredAndExit, Answers
  <2> QED
    BY <1>2, <1>4, <2>1, ExitLosingNoneKeeps
<1>5. CASE /\ answer[r] = "simulated" /\ AnsweredAndExit(r, "accepted")
           /\ ExitWith(Published(messages, r, Route(r)))
           /\ lost' = lost \cup Unroutable(r, Route(r))
  <2>1. answer' \in [Requests -> Answers \ {"simulated"}]
    BY <1>1, <1>5, DroppedType DEF AnsweredAndExit, Answers
  <2>2. lost' \subseteq Requests /\ \A l \in lost' : Route(l) \in broken
    BY <1>5, SimulatedIsRouted
  <2> QED
    BY <1>1, <1>2, <1>5, <2>1, <2>2, ExitKeeps
<1> QED
  BY <1>3, <1>4, <1>5 DEF RelayWithoutModel, RelayFails

LEMMA ServeKeeps ==
  ASSUME StartInv, NEW r \in Requests, Serve(r)
  PROVE  StartInv'
<1>0. faults \in 0 .. MaxFaults
  BY DEF StartInv, TypeOK
<1>1. CASE ValidateRelayRequest(r) \/ Simulate(r)
  BY <1>0, <1>1, ReplyKeeps DEF ValidateRelayRequest, Simulate, CanSimulate, Answers
<1>2. CASE Relay(r) \/ RelayWithoutModel(r) \/ RelayFails(r)
  BY <1>2, RelayKeeps, RelayExitsKeep
<1>3. CASE FeeOptionsApi(r) \/ TransactionStatusApi(r) \/ TransactionResubmitApi(r) \/ AdminStatus(r)
  BY <1>0, <1>3, ReplyKeeps, ExitOnKeeps
     DEF FeeOptionsApi, TransactionStatusApi, TransactionResubmitApi, AdminStatus, AnswerOrExit, Answers
<1>4. CASE LookupFails(r)
  BY <1>4, FaultsBounded, ExitOnKeeps DEF LookupFails, StartInv
<1> QED
  BY <1>1, <1>2, <1>3, <1>4 DEF Serve

LEMMA NextStartInv == StartInv /\ [Next]_vars => StartInv'
<1> SUFFICES ASSUME StartInv, [Next]_vars PROVE StartInv'
  OBVIOUS
<1>1. CASE UNCHANGED vars
  BY <1>1 DEF vars, setupVars, brokerVars, requestVars, StartInv, TypeOK, RelayedInv, RoutesInv, AcceptedNotLost,
              RelayersInv, FeesInv, Route, Chain
<1> QED
  BY <1>1, SetUpKeeps, NotCaughtKeeps, SubscribeKeeps, DeliverKeeps, ServeKeeps DEF Next

-----------------------------------------------------------------------------
\* The inductive invariant of a start: routes have their queues, consumers their relayer
\* managers, and the chains that are set up their fee options.
THEOREM StartInvariant == Spec => []StartInv
BY InitStartInv, NextStartInv, PTL DEF Spec

\* Every variable of the setup keeps its type.
THEOREM StartTypesKept == Spec => []TypeOK
<1>1. StartInv => TypeOK
  BY DEF StartInv
<1> QED
  BY <1>1, StartInvariant, PTL

\* A direct exchange drops an accepted request only where consume answered false.
THEOREM NoneLost == Spec => []AcceptedNotLost
<1>1. StartInv => AcceptedNotLost
  BY DEF StartInv
<1> QED
  BY <1>1, StartInvariant, PTL

\* Messages of an earlier process meet a handler with its relayer managers.
THEOREM RelayersFirst == Spec => []ConsumersHaveRelayers
<1>1. StartInv => ConsumersHaveRelayers
  BY DEF StartInv, RelayersInv, ConsumersHaveRelayers
<1> QED
  BY <1>1, StartInvariant, PTL

\* A call that fails is counted.
LEMMA FailsCounts ==
  ASSUME TypeOK, Fails
  PROVE  faults' # faults
BY StartupAssumption DEF TypeOK, Fails

\* A ready node is ended by failing calls and by requests for what it has not: the fee
\* options of every configured chain are there.
THEOREM ReadyIsForGood == Spec => ReadyStays
<1> DEFINE Asked == \E r \in Requests : answer'[r] # answer[r] /\ ~Servable(r)
<1>1. StartInv /\ [Next]_vars => [at = "ready" /\ at' # "ready" => faults' # faults \/ Asked]_vars
  <2> SUFFICES ASSUME StartInv, Next, at = "ready", at' # "ready", faults' = faults PROVE Asked
    BY Zenon
  <2>0. TypeOK
    BY DEF StartInv
  <2>1. Chains \subseteq fees
    <3>1. current = Len(ChainOrder) /\ Chain \in fees
      BY DEF StartInv, FeesInv
    <3>2. \A i \in 1 .. Len(ChainOrder) : i \in 1 .. current - 1 \/ i = current
      BY <3>1, StartupAssumption
    <3>3. \A i \in 1 .. Len(ChainOrder) : ChainOrder[i] \in fees
      BY <3>1, <3>2 DEF StartInv, FeesInv, Chain
    <3> QED
      BY <3>3, StartupAssumption DEF Chains
  <2>2. ~Fails
    BY <2>0, FailsCounts
  <2>3. PICK r \in Requests : Serve(r)
    BY <2>2 DEF Next, SetUp, LoadConfig, ConnectMongo, Connect, Continue, CreateRelayers,
                SetUpServices, SetUpType, NextChain, NotCaught, Exit, Subscribe, Deliver, setupVars
  <2>4. \/ RelayWithoutModel(r)
        \/ /\ answer[r] = "none"
           /\ FeeOptionsApi(r) \/ TransactionStatusApi(r) \/ TransactionResubmitApi(r) \/ AdminStatus(r)
    BY <2>2, <2>3 DEF Serve, ValidateRelayRequest, Simulate, Relay, RelayFails, LookupFails, Reply, setupVars
  <2>5. CASE RelayWithoutModel(r)
    <3>1. answer[r] = "simulated" /\ answer'[r] \in {"accepted", "orphaned"} /\ ~HasModel(r)
      BY <2>0, <2>5, DroppedType DEF RelayWithoutModel, AnsweredAndExit
    <3>2. kind[r] # "admin" /\ kind[r] # "feeOptions"
      BY <3>1 DEF StartInv, RelayedInv, TransactionTypes
    <3> QED
      BY <3>1, <3>2 DEF Servable
  <2>6. CASE /\ answer[r] = "none"
             /\ FeeOptionsApi(r) \/ TransactionStatusApi(r) \/ TransactionResubmitApi(r) \/ AdminStatus(r)
    <3>1. ExitOn(r) /\ ~Servable(r)
      BY <2>1, <2>6 DEF FeeOptionsApi, TransactionStatusApi, TransactionResubmitApi, AdminStatus,
                        AnswerOrExit, Reply, setupVars, Servable
    <3>2. answer'[r] = "dropped"
      BY <2>0, <3>1, DroppedType DEF ExitOn
    <3> QED
      BY <2>6, <3>1, <3>2
  <2> QED
    BY <2>4, <2>5, <2>6
<1> QED
  BY <1>1, StartInvariant, PTL DEF Spec, ReadyStays
=============================================================================
