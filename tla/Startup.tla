------------------------------ MODULE Startup ------------------------------
(***************************************************************************)
(* One process of the relayer node, from its configuration to the end of   *)
(* its setup, as often as docker-compose or Kubernetes starts it: the      *)
(* service manager connects and builds the services of one chain after the *)
(* other, while the server listens already, queues of the broker deliver   *)
(* what an earlier process left and un-awaited subscriptions run beside.   *)
(***************************************************************************)
EXTENDS Integers, Sequences, FiniteSets

CONSTANTS
  ChainOrder,  \* config.supportedNetworks, in their order
  Unsupported, \* a chainId that is not configured
  Requests,    \* requests of clients
  MaxFaults    \* bound on failing calls

ASSUME StartupAssumption ==
  /\ ChainOrder \in Seq(Nat) /\ Len(ChainOrder) > 0
  /\ \A i \in DOMAIN ChainOrder : ChainOrder[i] # Unsupported
  /\ MaxFaults \in Nat

Chains == {ChainOrder[i] : i \in DOMAIN ChainOrder}
TransactionTypes == {"AA", "SCW"}
Queues == Chains \X (TransactionTypes \cup {"transaction", "retry"})
TakenAsItIs == {"AA", "SCW", "resubmit"}
Kinds == {"AA", "SCW", "feeOptions", "status", "resubmit", "admin"}

VARIABLES
  configuration, \* what the encrypted file holds: "valid", "invalid", "inactive"
  at,            \* the await the service manager is at
  current,       \* place in ChainOrder of the chain it sets up
  mongo,         \* has the database client connected?
  relayers,      \* chains whose relayer managers are set up
  fees,          \* chains in feeOptionMap
  routes,        \* keys of routeTransactionToRelayerMap
  subscribing,   \* queues whose consume was not awaited and has not ended
  consumers,     \* queues with a consumer
  broken,        \* queues whose consume failed, in any process
  bound,         \* broker: queues that exist and are bound to their exchange
  messages,      \* broker: what a queue holds
  lost,          \* requests an exchange had no queue for
  handled,       \* requests handed to a consumer
  kind,          \* what a request asks for
  chain,         \* and of which chain
  numeric,       \* is its chainId a number where the database is asked, and no string?
  answer,        \* what a request was answered
  faults         \* failing calls so far

setupVars == <<at, current, mongo, relayers, fees, routes, subscribing, consumers>>
brokerVars == <<bound, messages, lost>>
requestVars == <<kind, chain, numeric, answer>>
vars == <<configuration, setupVars, broken, brokerVars, handled, requestVars, faults>>

Places == {"config", "mongo", "redis", "queues", "relayers", "services", "AA", "SCW",
           "status", "ready", "stopped"}
Answers == {"none", "simulated", "accepted", "orphaned", "answered", "error", "dropped"}

Chain == ChainOrder[current]
Listening == at \notin {"config", "stopped"}

Init ==
  /\ configuration \in {"valid", "invalid", "inactive"}
  /\ at = "config" /\ current = 1 /\ mongo = FALSE
  /\ relayers = {} /\ fees = {} /\ routes = {}
  /\ subscribing = {} /\ consumers = {} /\ broken = {}
  /\ bound = {} /\ messages = [q \in Queues |-> {}] /\ lost = {} /\ handled = {}
  /\ kind \in [Requests -> Kinds] /\ chain \in [Requests -> Chains \cup {Unsupported}]
  /\ numeric \in [Requests -> BOOLEAN]
  /\ \A r \in Requests : numeric[r] \/ kind[r] \in TakenAsItIs
  /\ answer = [r \in Requests |-> "none"]
  /\ faults = 0

Fails == faults < MaxFaults /\ faults' = faults + 1

-----------------------------------------------------------------------------
(* An exit: the broker keeps its durable queues and persistent messages,    *)
(* clients lose their connections, and the process is started again.        *)
Transient(held) == [q \in Queues |-> {}]

Durable(held) == held

Answered(r, a) == answer' = [answer EXCEPT ![r] = a]

ExitWith(held) ==
  /\ at' = "config" /\ current' = 1 /\ mongo' = FALSE
  /\ relayers' = {} /\ fees' = {} /\ routes' = {}
  /\ subscribing' = {} /\ consumers' = {}
  /\ messages' = Durable(held)
  /\ UNCHANGED <<configuration, broken, bound, handled, kind, chain, numeric>>

Dropped(answers) == [r \in Requests |-> IF answers[r] = "simulated" THEN "dropped" ELSE answers[r]]

(* A promise rejects and nothing catches it. *)
Exit == Fails /\ ExitWith(messages) /\ answer' = Dropped(answer) /\ UNCHANGED lost

-----------------------------------------------------------------------------
(* The setup.  Config: a missing file, passphrase or hash, or a value that  *)
(* validate asks for throws at the first import; without a queue url the    *)
(* server is not imported.                                                  *)
LoadConfig ==
  /\ at = "config"
  /\ at' = IF configuration = "valid" THEN "mongo" ELSE "stopped"
  /\ UNCHANGED <<configuration, current, mongo, relayers, fees, routes, subscribing, consumers,
                 broken, brokerVars, handled, requestVars, faults>>

(* A database that does not answer is logged, and setup goes on. *)
ConnectMongo ==
  /\ at = "mongo" /\ at' = "redis"
  /\ \/ mongo' = TRUE /\ UNCHANGED faults
     \/ Fails /\ UNCHANGED mongo
  /\ UNCHANGED <<configuration, current, relayers, fees, routes, subscribing, consumers, broken,
                 brokerVars, handled, requestVars>>

Continue(from, to) ==
  /\ at = from /\ at' = to
  /\ UNCHANGED <<configuration, current, mongo, handled, requestVars>>

ConnectAndSubscribe ==
  /\ Continue("redis", "queues") \/ Continue("queues", "relayers")
  /\ subscribing' = subscribing \cup {<<Chain, "retry">>}
  /\ UNCHANGED <<relayers, fees, routes, consumers, broken, brokerVars, faults>>

(* The transaction queue and the retry queue of a chain: their connections, *)
(* channels and exchanges.                                                  *)
Connect ==
  /\ Continue("redis", "queues") \/ Continue("queues", "relayers")
  /\ UNCHANGED <<relayers, fees, routes, subscribing, consumers, broken, brokerVars, faults>>

(* A connection of the setup, or what runs beside it and later: a price run, *)
(* a save or an update, a handler of an AA message that finds no relayer.   *)
NotCaught == Listening /\ Exit

(* A direct exchange drops what its queue is not bound for. *)
Published(held, r, q) == [held EXCEPT ![q] = IF q \in bound THEN @ \cup {r} ELSE @]

Unroutable(r, q) == IF q \in bound THEN {} ELSE {r}

(* createRelayers and fundRelayers.  What a funding sends and announces is  *)
(* left to RelayerFunding.                                                  *)
CreateRelayers ==
  /\ Continue("relayers", "services")
  /\ relayers' = relayers \cup {Chain}
  /\ UNCHANGED <<fees, routes, subscribing, consumers, broken, brokerVars, faults>>

FeesOfOne == {Chain}

FeesOf == fees \cup {Chain}

(* The retry service and the socket consumer subscribe without an await.    *)
SetUpServices ==
  /\ Continue("services", "AA")
  /\ subscribing' = subscribing \cup {<<Chain, "retry">>, <<Chain, "transaction">>}
  /\ fees' = FeesOf
  /\ UNCHANGED <<relayers, routes, consumers, broken, brokerVars, faults>>

(* consume asserts its queue, binds it and subscribes; it answers false for *)
(* any error, before or after the bind, and nobody looks at the answer.     *)
Consume(q) ==
  \/ /\ bound' = bound \cup {q} /\ consumers' = consumers \cup {q}
     /\ UNCHANGED <<broken, faults>>
  \/ /\ Fails
     /\ bound' \in {bound, bound \cup {q}}
     /\ broken' = broken \cup {q}
     /\ UNCHANGED consumers

Subscribe(q) ==
  /\ q \in subscribing
  /\ subscribing' = subscribing \ {q}
  /\ Consume(q)
  /\ UNCHANGED <<configuration, at, current, mongo, relayers, fees, routes, messages, lost, handled,
                 requestVars>>

NotAwaitedConsume(q) ==
  /\ subscribing' = subscribing \cup {q}
  /\ UNCHANGED <<consumers, bound, broken, faults>>

AwaitedConsume(q) == Consume(q) /\ UNCHANGED subscribing

SetUpTypeOnceSubscribed(type, next) ==
  /\ Continue(type, next)
  /\ {<<Chain, "retry">>, <<Chain, "transaction">>} \subseteq consumers
  /\ AwaitedConsume(<<Chain, type>>)
  /\ routes' = routes \cup {<<Chain, type>>}
  /\ UNCHANGED <<relayers, fees, messages, lost>>

(* The queue of a transaction type; its relay service is there once the     *)
(* consume was awaited.                                                     *)
SetUpType(type, next) ==
  /\ Continue(type, next)
  /\ AwaitedConsume(<<Chain, type>>)
  /\ routes' = routes \cup {<<Chain, type>>}
  /\ UNCHANGED <<relayers, fees, messages, lost>>

HasAnotherChain == current <= Len(ChainOrder)

HasNextChain == current < Len(ChainOrder)

NextChain ==
  /\ at = "status"
  /\ IF HasNextChain
     THEN at' = "queues" /\ current' = current + 1
     ELSE at' = "ready" /\ UNCHANGED current
  /\ UNCHANGED <<configuration, mongo, relayers, fees, routes, subscribing, consumers, broken,
                 brokerVars, handled, requestVars, faults>>

SetUp ==
  \/ LoadConfig \/ ConnectMongo \/ Connect \/ CreateRelayers \/ SetUpServices
  \/ SetUpType("AA", "SCW") \/ SetUpType("SCW", "status") \/ NextChain

-----------------------------------------------------------------------------
(* A consumer is given a message. *)
Deliver(q) ==
  /\ q \in consumers
  /\ \E m \in messages[q] :
       /\ messages' = [messages EXCEPT ![q] = @ \ {m}]
       /\ handled' = handled \cup {m}
  /\ UNCHANGED <<configuration, setupVars, broken, bound, lost, requestVars, faults>>

-----------------------------------------------------------------------------
(* The endpoints.  A request the process exits for gets no answer.          *)
Reply(r, a) ==
  /\ Answered(r, a)
  /\ UNCHANGED <<configuration, setupVars, broken, brokerVars, handled, kind, chain, numeric>>

(* A request the process exits in the middle of.                            *)
ExitOn(r) ==
  ExitWith(messages) /\ answer' = [Dropped(answer) EXCEPT ![r] = "dropped"] /\ UNCHANGED lost

AnswerOrExit(r, ready) ==
  UNCHANGED faults /\ IF ready THEN Reply(r, "answered") ELSE ExitOn(r)

Route(r) == <<chain[r], kind[r]>>

(* The simulation service of a type comes with its route. *)
CanSimulate(r) == Route(r) \in routes

(* A relay that is not well formed is refused; ...                          *)
ValidateRelayRequest(r) ==
  answer[r] = "none" /\ kind[r] \in TransactionTypes /\ Reply(r, "error") /\ UNCHANGED faults

(* ... so is one that nothing can simulate, or whose simulation fails.      *)
Simulate(r) ==
  /\ answer[r] = "none" /\ kind[r] \in TransactionTypes
  /\ (CanSimulate(r) /\ Reply(r, "simulated")) \/ Reply(r, "error")
  /\ UNCHANGED faults

(* The models of the database are found by the numbers of the configuration:*)
(* the chainId of a query is parsed, the one of a body is taken as it is.   *)
HasModel(r) == mongo /\ chain[r] \in Chains /\ numeric[r]

(* The message, the record and the answer are of one turn. *)
Relay(r) ==
  /\ answer[r] = "simulated" /\ HasModel(r)
  /\ messages' = Published(messages, r, Route(r))
  /\ lost' = lost \cup Unroutable(r, Route(r))
  /\ Answered(r, "accepted")
  /\ UNCHANGED <<configuration, setupVars, broken, bound, handled, kind, chain, numeric, faults>>

AnsweredAndExit(r, a) == answer' = [Dropped(answer) EXCEPT ![r] = a]

(* One without a model rejects at once: the answer 200 is on its way, and   *)
(* the message sent or not.                                                 *)
RelayWithoutModel(r) ==
  /\ answer[r] = "simulated" /\ ~HasModel(r)
  /\ \/ /\ ExitWith(Published(messages, r, Route(r))) /\ AnsweredAndExit(r, "accepted")
        /\ lost' = lost \cup Unroutable(r, Route(r))
     \/ ExitWith(messages) /\ AnsweredAndExit(r, "orphaned") /\ UNCHANGED lost
  /\ UNCHANGED faults

(* A closed channel makes the publish throw.  The SCW controller catches    *)
(* it; the AA controller does not await it: 200 is answered, no message is  *)
(* sent and the process exits.                                              *)
RelayFails(r) ==
  /\ answer[r] = "simulated" /\ Fails
  /\ \/ kind[r] = "SCW" /\ Reply(r, "error")
     \/ kind[r] = "AA" /\ ExitWith(messages) /\ AnsweredAndExit(r, "orphaned") /\ UNCHANGED lost

(* These look up their service, or the database, outside any try; ...       *)
FeeOptionsApi(r) == kind[r] = "feeOptions" /\ AnswerOrExit(r, chain[r] \in fees)
TransactionStatusApi(r) == kind[r] = "status" /\ AnswerOrExit(r, HasModel(r))
TransactionResubmitApi(r) == kind[r] = "resubmit" /\ AnswerOrExit(r, HasModel(r))
AdminStatus(r) == kind[r] = "admin" /\ AnswerOrExit(r, at = "ready")

(* ... a find that rejects is not caught either.                            *)
LookupFails(r) == kind[r] \in {"status", "resubmit"} /\ Fails /\ ExitOn(r)

Serve(r) ==
  /\ Listening
  /\ \/ ValidateRelayRequest(r) \/ Simulate(r) \/ Relay(r) \/ RelayWithoutModel(r) \/ RelayFails(r)
     \/ /\ answer[r] = "none"
        /\ \/ FeeOptionsApi(r) \/ TransactionStatusApi(r) \/ TransactionResubmitApi(r)
           \/ AdminStatus(r) \/ LookupFails(r)

Next ==
  \/ SetUp
  \/ NotCaught
  \/ \E q \in Queues : Subscribe(q) \/ Deliver(q)
  \/ \E r \in Requests : Serve(r)

(* Calls return, one way or the other, and the broker delivers. *)
Spec ==
  /\ Init /\ [][Next]_vars
  /\ WF_vars(SetUp)
  /\ \A q \in Queues : WF_vars(Subscribe(q)) /\ WF_vars(Deliver(q))

-----------------------------------------------------------------------------
\* Every variable of the setup, the broker and the requests has its type.
TypeOK ==
  /\ configuration \in {"valid", "invalid", "inactive"}
  /\ at \in Places /\ current \in DOMAIN ChainOrder /\ mongo \in BOOLEAN
  /\ relayers \subseteq Chains /\ fees \subseteq Chains
  /\ routes \subseteq Chains \X TransactionTypes
  /\ subscribing \subseteq Queues /\ consumers \subseteq Queues
  /\ broken \subseteq Queues /\ bound \subseteq Queues
  /\ messages \in [Queues -> SUBSET Requests]
  /\ lost \subseteq Requests /\ handled \subseteq Requests
  /\ kind \in [Requests -> Kinds] /\ chain \in [Requests -> Chains \cup {Unsupported}]
  /\ numeric \in [Requests -> BOOLEAN]
  /\ answer \in [Requests -> Answers]
  /\ faults \in 0 .. MaxFaults

\* No request is accepted before the queue of its type can take it, in the first process
\* on a broker or a later one: an exchange drops an accepted request only if consume
\* failed, which answered false to a setup that does not look.
AcceptedNotLost == \A r \in lost : Route(r) \in broken

\* A handler finds the relayer managers of its chain, also for messages an earlier
\* process left in the queues.
ConsumersHaveRelayers == \A q \in consumers : q[1] \in relayers

(* What a node whose setup is complete has all it needs for. *)
Servable(r) ==
  \/ kind[r] = "admin"
  \/ kind[r] = "feeOptions" /\ chain[r] \in Chains
  \/ kind[r] \in {"AA", "SCW", "status", "resubmit"} /\ HasModel(r)

\* Once the setup is over, no request for a configured chain ends the process, unless a
\* call fails: what does is a chainId that is not configured or, in the body of a request,
\* a string, or a request for a database that did not answer at start.
ReadyStays ==
  [][at = "ready" /\ at' # "ready" =>
       faults' # faults \/ \E r \in Requests : answer'[r] # answer[r] /\ ~Servable(r)]_vars

\* With a valid configuration the node comes up for good: failing calls, and requests that
\* end a process, during its setup or later, delay that and no more.
EventuallyReady == configuration = "valid" => <>[](at = "ready")

\* A request that was answered 200 and whose message was sent is handed to a consumer,
\* recorded or not, though the process may exit before that; only a consume that failed
\* leaves it in its queue.
AcceptedIsHandled ==
  \A r \in Requests : answer[r] = "accepted" ~> r \in handled \/ Route(r) \in broken
=============================================================================
