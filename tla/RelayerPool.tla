---------------------------- MODULE RelayerPool ----------------------------
(***************************************************************************)
(* The pool of relayer accounts of one EVMRelayerManager on one chain, the *)
(* consumer handlers (SCWConsumer, AAConsumer) that take a relayer for a   *)
(* transaction and give it back, and the mined events that reach the pool  *)
(* through the SocketConsumer.                                             *)
(*                                                                         *)
(* The process is single threaded: handlers interleave at their awaits. A  *)
(* consumer acknowledges a message before it processes it, so any number   *)
(* of handlers run at once in spite of prefetch(1): each job is one.       *)
(*                                                                         *)
(* The relayer queue is sorted by balances that change in place, so the    *)
(* order of pops is any order here: the queue is a set.  An address is     *)
(* derived from its index, so relayerMap is 0 .. relayerCount - 1.         *)
(***************************************************************************)
EXTENDS Integers, Sequences, FiniteSets

CONSTANTS
  Jobs,                              \* messages of the transaction queues
  AAJobs,                            \* those of the AA queue, the rest are SCW
  MinRelayerCount,
  NewRelayerInstanceCount,
  InactiveRelayerCountThreshold,
  PendingTransactionCountThreshold,
  CreateCanFail,                     \* may createRelayers lose a relayer?
  MaxRelayers,                       \* bound on the addresses derived
  MaxRestarts                        \* bound on the restarts of the process

ASSUME PoolAssumption ==
  /\ AAJobs \subseteq Jobs
  /\ MinRelayerCount \in Nat
  /\ NewRelayerInstanceCount \in Nat
  /\ InactiveRelayerCountThreshold \in Int
  /\ PendingTransactionCountThreshold \in Int
  /\ CreateCanFail \in BOOLEAN
  /\ MaxRelayers \in Nat
  /\ MinRelayerCount <= MaxRelayers
  /\ MaxRestarts \in Nat

VARIABLES
  relayerCount,   \* number of entries of relayerMap
  nextToQueue,    \* first derived relayer createRelayers has not pushed yet
  queue,          \* relayerQueue.items, as a set of addresses
  processing,     \* keys of transactionProcessingRelayerMap
  pendingCount,   \* the pendingCount field of every metadata object
  hops,           \* promise continuations of pop and push, first in first out
  createLock,     \* createRelayerMutex: its holder, then its waiters
  pc,             \* where the handler of a job is
  relayerOf,      \* the relayer a job took, the sender of its transaction
  tx,             \* what becomes of the transaction of a job
  restarts        \* number of restarts so far

mapVars  == <<relayerCount, nextToQueue>>
poolVars == <<queue, processing, pendingCount>>
vars == <<mapVars, poolVars, hops, createLock, pc, relayerOf, tx, restarts>>

Relayers == 0 .. MaxRelayers - 1
NoRelayer == -1

\* "queued": in the transaction queue; "delivered": acknowledged, pop waits for
\* its mutex; "popped": shifted from the queue, not registered yet; "sending":
\* inside sendTransaction; "returning": sendTransaction answered; "pushed": back
\* in the queue, not unregistered yet; "waitLock" and "creating": in
\* createRelayers; "done": handler ended; "lost": ended by the exit of the process.
Places == {"queued", "delivered", "popped", "sending", "returning", "pushed",
           "waitLock", "creating", "done", "lost"}

\* "none": nothing relayed; "watched": relayed, waitForTransaction runs;
\* "mined": onTransactionMined is in the queue of the SocketConsumer;
\* "handled": postTransactionMined ran; "unwatched": the waiter died.
TxStates == {"none", "watched", "mined", "handled", "unwatched"}

-----------------------------------------------------------------------------
(* The service manager runs createRelayers and fundRelayers to their end    *)
(* before it attaches a consumer.                                           *)
Init ==
  /\ relayerCount = MinRelayerCount
  /\ nextToQueue = MinRelayerCount
  /\ queue = 0 .. MinRelayerCount - 1
  /\ processing = {}
  /\ pendingCount = [r \in 0 .. MinRelayerCount - 1 |-> 0]
  /\ hops = <<>>
  /\ createLock = <<>>
  /\ pc = [j \in Jobs |-> "queued"]
  /\ relayerOf = [j \in Jobs |-> NoRelayer]
  /\ tx = [j \in Jobs |-> "none"]
  /\ restarts = 0

AfterExit(place) ==
  IF place \in {"delivered", "popped", "sending", "returning"} THEN "lost"
  ELSE IF place \in {"pushed", "waitLock", "creating"} THEN "done"
  ELSE place

(* What is in memory is lost, what is in a queue of the broker is kept: the  *)
(* messages not delivered, those in back, and the events published.         *)
Restart(back) ==
  /\ restarts < MaxRestarts
  /\ restarts' = restarts + 1
  /\ relayerCount' = MinRelayerCount
  /\ nextToQueue' = MinRelayerCount
  /\ queue' = 0 .. MinRelayerCount - 1
  /\ processing' = {}
  /\ pendingCount' = [r \in 0 .. MinRelayerCount - 1 |-> 0]
  /\ hops' = <<>>
  /\ createLock' = <<>>
  /\ pc' = [j \in Jobs |-> IF j \in back THEN "queued" ELSE AfterExit(pc[j])]
  /\ tx' = [j \in Jobs |-> IF tx[j] = "watched" THEN "unwatched" ELSE tx[j]]
  /\ UNCHANGED relayerOf

(* An exit at any await: a rejection no handler catches (createTransaction, *)
(* populateTransaction, the cache, a sort that compares a failed balance)   *)
(* ends the process, as does any crash.                                     *)
Crash == Restart({})

-----------------------------------------------------------------------------
(* The continuation of job j is the next to run.  The promises of pop and  *)
(* push settle after equally many turns of the microtask queue, so they are *)
(* continued in the order in which the mutexes ran shift and push.          *)
ResumeInAnyOrder(j) ==
  /\ \E i \in DOMAIN hops : hops[i] = j
  /\ hops' = SelectSeq(hops, LAMBDA k : k # j)

Resume(j) ==
  /\ hops # <<>> /\ Head(hops) = j
  /\ hops' = Tail(hops)

(* onMessageReceived acknowledges the message, then asks for a relayer. *)
Deliver(j) ==
  /\ pc[j] = "queued"
  /\ pc' = [pc EXCEPT ![j] = "delivered"]
  /\ UNCHANGED <<mapVars, poolVars, hops, createLock, relayerOf, tx, restarts>>

(* pop: the shift, which runs inside popMutex. *)
Peek(r) == queue

Shift(r) == queue \ {r}

Pop(j) ==
  /\ pc[j] = "delivered"
  /\ \E r \in queue :
       /\ queue' = Shift(r)
       /\ relayerOf' = [relayerOf EXCEPT ![j] = r]
  /\ pc' = [pc EXCEPT ![j] = "popped"]
  /\ hops' = Append(hops, j)
  /\ UNCHANGED <<mapVars, processing, pendingCount, createLock, tx, restarts>>

(* No relayer: the SCW consumer publishes the message again. *)
Republish(j) ==
  /\ pc[j] = "delivered" /\ queue = {} /\ j \notin AAJobs
  /\ pc' = [pc EXCEPT ![j] = "queued"]
  /\ UNCHANGED <<mapVars, poolVars, hops, createLock, relayerOf, tx, restarts>>

(* The AA consumer publishes it and throws: nothing catches the rejection,  *)
(* the process exits and the message is in the queue.                       *)
RepublishAndThrow(j) ==
  /\ pc[j] = "delivered" /\ queue = {} /\ j \in AAJobs
  /\ Restart({j})

(* getActiveRelayer after its await. *)
Register(j) ==
  /\ pc[j] = "popped" /\ Resume(j)
  /\ pendingCount' = [pendingCount EXCEPT ![relayerOf[j]] = @ + 1]
  /\ processing' = processing \cup {relayerOf[j]}
  /\ pc' = [pc EXCEPT ![j] = "sending"]
  /\ UNCHANGED <<mapVars, queue, createLock, relayerOf, tx, restarts>>

(* sendTransaction answers; only a success has a waiter for its receipt. *)
SendTransaction(j) ==
  /\ pc[j] = "sending"
  /\ pc' = [pc EXCEPT ![j] = "returning"]
  /\ \E outcome \in {"none", "watched"} : tx' = [tx EXCEPT ![j] = outcome]
  /\ UNCHANGED <<mapVars, poolVars, hops, createLock, relayerOf, restarts>>

-----------------------------------------------------------------------------
ShortageTooLate == MinRelayerCount - Cardinality(queue) > InactiveRelayerCountThreshold

Shortage == MinRelayerCount - Cardinality(queue) >= InactiveRelayerCountThreshold

(* The end of addActiveRelayer: no await between the delete and this test. *)
CreateIfShort(j) ==
  IF Shortage
  THEN /\ pc' = [pc EXCEPT ![j] = "waitLock"]
       /\ createLock' = Append(createLock, j)
  ELSE /\ pc' = [pc EXCEPT ![j] = "done"]
       /\ UNCHANGED createLock

BelowThresholdMinusOne(r) == pendingCount[r] < PendingTransactionCountThreshold - 1

AtMostThreshold(r) == pendingCount[r] <= PendingTransactionCountThreshold

BelowThreshold(r) == pendingCount[r] < PendingTransactionCountThreshold

(* addActiveRelayer, up to the await of the push. *)
PushBack(j) ==
  /\ pc[j] = "returning"
  /\ relayerOf[j] \in processing /\ BelowThreshold(relayerOf[j])
  /\ queue' = queue \cup {relayerOf[j]}
  /\ hops' = Append(hops, j)
  /\ pc' = [pc EXCEPT ![j] = "pushed"]
  /\ UNCHANGED <<mapVars, processing, pendingCount, createLock, relayerOf, tx, restarts>>

(* addActiveRelayer after the push. *)
Unregister(j) ==
  /\ pc[j] = "pushed" /\ Resume(j)
  /\ processing' = processing \ {relayerOf[j]}
  /\ CreateIfShort(j)
  /\ UNCHANGED <<mapVars, queue, pendingCount, relayerOf, tx, restarts>>

(* addActiveRelayer of a relayer with too many pending transactions. *)
Park(j) ==
  /\ pc[j] = "returning"
  /\ relayerOf[j] \in processing /\ ~BelowThreshold(relayerOf[j])
  /\ processing' = processing \ {relayerOf[j]}
  /\ CreateIfShort(j)
  /\ UNCHANGED <<mapVars, queue, pendingCount, hops, relayerOf, tx, restarts>>

-----------------------------------------------------------------------------
ActiveRelayersCount == Cardinality(queue)

GetRelayersCount == relayerCount

AnyWaiter(j) == TRUE

HoldsCreateLock(j) == Head(createLock) = j

(* createRelayers: the lock, the count read as an index and the addresses   *)
(* derived from it, without an await in between.                            *)
DeriveRelayers(j) ==
  /\ pc[j] = "waitLock" /\ HoldsCreateLock(j)
  /\ relayerCount + NewRelayerInstanceCount <= MaxRelayers
  /\ nextToQueue' = GetRelayersCount
  /\ relayerCount' = GetRelayersCount + NewRelayerInstanceCount
  /\ pc' = [pc EXCEPT ![j] = "creating"]
  /\ UNCHANGED <<poolVars, hops, createLock, relayerOf, tx, restarts>>

MoreToQueueOffByOne == nextToQueue <= relayerCount

MoreToQueue == nextToQueue < relayerCount

(* One turn of the loop: balance and nonce are awaited, then the push. *)
QueueRelayer(j) ==
  /\ pc[j] = "creating" /\ MoreToQueue
  /\ nextToQueue' = nextToQueue + 1
  /\ queue' = queue \cup {nextToQueue}
  /\ pendingCount' = [r \in DOMAIN pendingCount \cup {nextToQueue} |->
                        IF r = nextToQueue THEN 0 ELSE pendingCount[r]]
  /\ UNCHANGED <<relayerCount, processing, hops, createLock, pc, relayerOf, tx, restarts>>

(* A lookup throws: the loop logs it, the relayer is in relayerMap only. *)
SkipRelayer(j) ==
  /\ CreateCanFail
  /\ pc[j] = "creating" /\ MoreToQueue
  /\ nextToQueue' = nextToQueue + 1
  /\ UNCHANGED <<relayerCount, poolVars, hops, createLock, pc, relayerOf, tx, restarts>>

ReleaseLock(j) ==
  /\ pc[j] = "creating" /\ nextToQueue = relayerCount
  /\ createLock' = Tail(createLock)
  /\ pc' = [pc EXCEPT ![j] = "done"]
  /\ UNCHANGED <<mapVars, poolVars, hops, relayerOf, tx, restarts>>

-----------------------------------------------------------------------------
(* The receipt arrives and the listener publishes onTransactionMined, after *)
(* sendTransaction returned.                                                *)
Mine(j) ==
  /\ tx[j] = "watched"
  /\ tx' = [tx EXCEPT ![j] = "mined"]
  /\ UNCHANGED <<mapVars, poolVars, hops, createLock, pc, relayerOf, restarts>>

InQueue(r) == r \in queue

InQueueOrProcessing(r) == r \in queue \cup processing

(* postTransactionMined up to its first await. It is called from an I/O     *)
(* callback, so no continuation is outstanding. The balance it reads next   *)
(* and the funding it starts do not touch the pool.                         *)
PostTransactionMined(j) ==
  /\ tx[j] = "mined" /\ hops = <<>>
  /\ tx' = [tx EXCEPT ![j] = "handled"]
  /\ pendingCount' = IF InQueueOrProcessing(relayerOf[j])
                     THEN [pendingCount EXCEPT ![relayerOf[j]] = @ - 1]
                     ELSE pendingCount
  /\ UNCHANGED <<mapVars, queue, processing, hops, createLock, pc, relayerOf, restarts>>

-----------------------------------------------------------------------------
Handler(j) ==
  \/ Deliver(j) \/ Pop(j) \/ Republish(j) \/ Register(j)
  \/ SendTransaction(j) \/ PushBack(j) \/ Unregister(j) \/ Park(j)
  \/ DeriveRelayers(j) \/ QueueRelayer(j) \/ SkipRelayer(j) \/ ReleaseLock(j)

Next ==
  \/ \E j \in Jobs : Handler(j) \/ RepublishAndThrow(j) \/ Mine(j) \/ PostTransactionMined(j)
  \/ Crash

Spec == Init /\ [][Next]_vars

(* Every handler that can take a step takes it in the end: the event loop   *)
(* runs every continuation and the network, cache and broker answer.        *)
FairSpec == Spec /\ \A j \in Jobs : WF_vars(Handler(j))

-----------------------------------------------------------------------------
(* The handlers that have a relayer, and those that have it in the map. *)
Busy(j) == pc[j] \in {"popped", "sending", "returning"}
InMap(j) == pc[j] \in {"sending", "returning", "pushed"}

(* Relayers with a metadata object that neither the queue nor a handler has. *)
Parked(r) ==
  /\ r \in DOMAIN pendingCount \ queue
  /\ \A j \in Jobs : Busy(j) => relayerOf[j] # r

\* Every variable has its type.
TypeOK ==
  /\ relayerCount \in 0 .. MaxRelayers
  /\ nextToQueue \in 0 .. relayerCount
  /\ queue \subseteq 0 .. nextToQueue - 1
  /\ processing \subseteq 0 .. nextToQueue - 1
  /\ DOMAIN pendingCount \subseteq 0 .. nextToQueue - 1
  /\ pendingCount \in [DOMAIN pendingCount -> Int]
  /\ hops \in Seq(Jobs)
  /\ createLock \in Seq(Jobs)
  /\ pc \in [Jobs -> Places]
  /\ relayerOf \in [Jobs -> Relayers \cup {NoRelayer}]
  /\ tx \in [Jobs -> TxStates]
  /\ restarts \in 0 .. MaxRestarts

\* A relayer signs for one handler at a time: a handler that took it keeps it out
\* of the queue and of every other handler until addActiveRelayer pushes it back.
ExclusiveRelayer ==
  /\ \A j \in Jobs : Busy(j) => relayerOf[j] \in DOMAIN pendingCount \ queue
  /\ \A j, k \in Jobs : Busy(j) /\ Busy(k) /\ relayerOf[j] = relayerOf[k] => j = k

\* transactionProcessingRelayerMap has exactly the relayers of the handlers between
\* the end of getActiveRelayer and the delete of addActiveRelayer: the delete, which
\* runs after the await of the push, never removes the entry of the next handler.
ProcessingMapExact ==
  processing = {relayerOf[j] : j \in {k \in Jobs : InMap(k)}}

\* A relayer is out of the pool only because its pending count is at the threshold:
\* no interleaving of pop, push, creation and mined events loses one below it.
ParkedAtThreshold ==
  \A r \in Relayers : Parked(r) => pendingCount[r] >= PendingTransactionCountThreshold

\* Until a restart the pending count of a relayer of the pool is the number of
\* transactions handed to it less those postTransactionMined counted off, so that
\* no mined event was dropped because the relayer was between queue and map.
PendingCountExact ==
  restarts = 0 =>
    \A r \in DOMAIN pendingCount :
      ~Parked(r) =>
        pendingCount[r] = Cardinality({j \in Jobs : relayerOf[j] = r /\ pc[j] # "popped" /\ tx[j] # "handled"})

\* Until a restart no relayer is handed a transaction while as many as
\* pendingTransactionCountThreshold of its own are not counted off: the test that
\* precedes its push still holds when a later handler has counted its transaction.
PendingBounded ==
  restarts = 0 =>
    \A r \in DOMAIN pendingCount :
      Cardinality({j \in Jobs : relayerOf[j] = r /\ tx[j] # "handled"}) <= PendingTransactionCountThreshold

\* createRelayers runs one at a time: the head of the lock pushes every relayer it
\* derived before the next one derives any.
CreationSerial ==
  /\ \A j \in Jobs : pc[j] = "creating" => createLock # <<>> /\ Head(createLock) = j
  /\ nextToQueue < relayerCount => \E j \in Jobs : pc[j] = "creating"

\* Within one life of the process a parked relayer stays parked: addActiveRelayer
\* deletes it from the only map through which postTransactionMined could reach it.
ParkedForever ==
  [][restarts' = restarts => \A r \in Relayers : Parked(r) => Parked(r)']_vars

(* The relayer of a handler is leased from the shift of pop to the push of  *)
(* addActiveRelayer; the count follows the shift by a continuation.         *)
LeaseOf == [j \in Jobs |-> IF Busy(j) THEN relayerOf[j] ELSE NoRelayer]

Uncounted(r) == \E j \in Jobs : pc[j] = "popped" /\ relayerOf[j] = r

Load ==
  [r \in DOMAIN pendingCount |-> IF Uncounted(r) THEN pendingCount[r] + 1 ELSE pendingCount[r]]

Leases ==
  INSTANCE RelayerLease WITH
    free <- queue, lease <- LeaseOf, load <- Load,
    Threshold <- PendingTransactionCountThreshold

\* The queue, the map and the counts, updated at different awaits, are to the consumers
\* one pool that leases, counts, takes back and retires relayers in single steps.
ImplementsLease == Leases!Spec

\* Every message gets a relayer in the end, however many relayers are parked: the
\* shortage test of addActiveRelayer refills an empty pool (if createRelayers
\* loses none and InactiveRelayerCountThreshold is within MinRelayerCount).
EveryJobServed ==
  \A j \in Jobs : pc[j] = "queued" ~> pc[j] \notin {"queued", "delivered"}
=============================================================================
