# Formal models of the relayer node

TLA+ models, TLC checks and TLAPS proofs for the relayer node in `src/`. Paths
below are relative to the repository (`relayer/src/services/...`, `common/...`,
`server/src/...`); `PROJECT.json` gives the lines each definition stands for.

## The system

The server accepts meta-transactions over HTTP and publishes them to RabbitMQ. Per
chain, one Node.js process holds a *relayer manager* with a pool of accounts, takes
an account for each message, signs and sends the transaction, publishes events for
the client, schedules resubmissions through a delayed queue, waits for the receipt,
and, when it is mined, updates and funds the account that sent it.

```
  HTTP -> server -> [SCW / AA transaction queue] -> SCWConsumer / AAConsumer
                                                     |  getActiveRelayer, addActiveRelayer
                                   EVMRelayerManager +--> EVMRelayerQueue, processing map
                                                     |  sendTransaction
             EVMNonceManager, gas price  <-- EVMTransactionService --> network
                                                     |  notify
                                            EVMTransactionListener --> database
                                             |                   |
                     [transaction queue: events]        [retry queue, delayed]
                             |                                   |
                       SocketConsumer                  EVMRetryTransactionService
                 postTransactionMined, client              retryTransaction
```

### Components

| Component | State it keeps | Operations | Modelled in |
|---|---|---|---|
| Relayer pool (`EVMRelayerManager`, `EVMRelayerQueue`) | `relayerMap`, `relayerQueue.items`, `transactionProcessingRelayerMap`, `pendingCount`, `createRelayerMutex` | getActiveRelayer, addActiveRelayer, createRelayers, postTransactionMined | RelayerPool, RelayerLease |
| Relayer funding (same class) | `fundRelayerMutex`, remembered balances, the owner account's nonce | fundRelayers, hasBalanceBelowThreshold | RelayerFunding |
| SCW and AA consumers | none beyond their handlers | onMessageReceived | RelayerPool, TransactionLifecycle |
| Socket consumer | none | postTransactionMined, publish to Centrifugo | RelayerPool, RelayerFunding |
| Transaction service | retry counter in Redis | sendTransaction, createTransaction, executeTransaction, retryTransaction | TransactionLifecycle |
| Transaction listener | waiters (promises), published events | notify, waitForTransaction, onTransactionSuccess / Failure | TransactionLifecycle, TransactionRecord, ClientView |
| Retry transaction service | delayed messages | onMessageReceived | TransactionLifecycle |
| Nonce manager | `AccountNonce_*` and `UsedAccountNonce_*` keys | getNonce, incrementNonce, markUsed | TransactionLifecycle (reduced) |
| Network service | none | JSON-RPC calls, errors returned as values | all, as outcomes |
| Queues | RabbitMQ exchanges and queues | connect, publish, consume, ack | all, as sets of messages; the broker itself in Startup |
| Redis cache | keys | get, set, increment, delete | the retry counter (TransactionLifecycle), the prices (GasPrices) |
| Gas price services | cached prices, scheduled runs | schedule, setup, getGasPrice, getBumpedUpGasPrice | GasPrices; levels in TransactionLifecycle |
| Transaction records (DAO, relay controllers) | MongoDB documents | save, updates, lookups | TransactionRecord |
| Relay, status, resubmit, fee options endpoints | none | one handler each | TransactionRecord, Startup, GasPrices |
| Service manager, configuration, server | maps of services, routes | configureServices, start | Startup |
| Fee options, token prices, simulation | none that is ever filled | get, setup, simulate | GasPrices, Startup (in part) |
| Notification, status probes, validation schemas | none | | see "Not modelled" |

### What is hard here

* A consumer acknowledges its message before it works on it, so `prefetch(1)` does
  not serialise anything: any number of handlers interleave at their awaits, over
  one queue, one map and three mutexes that are module globals.
* `addActiveRelayer` deletes the map entry *after* the await of the push.
* Errors of the network service are values, not exceptions; an `Error` is truthy
  where a receipt is tested and has no `lt` where a balance is compared. Nothing
  handles an unhandled rejection (node 16): several paths end the process.
* A broadcast may succeed while its answer is lost; a receipt may arrive between a
  retry's lookup and its broadcast; the attempt that is mined may be one that was
  replaced; three actors publish events about one transaction.
* On a restart the queues, the cache and the chain survive; handlers, waiters and
  the pool's counts do not.
* Writes to the database are issued and not awaited by three actors; runs of a schedule
  overlap with each other and with the reads of the price they write.
* The server listens before the services are there, and part of what `configureServices`
  starts is not awaited.

### What makes each component correct

* *Pool*: two handlers never share an account; the processing map is exactly the
  accounts in use; the count of pending transactions is exact; an account below the
  threshold is never lost; creations are serial; every message gets an account.
* *Lifecycle*: a transaction is executed once however often it is resubmitted; its
  client hears a consistent story; there is one chain of resubmissions; whichever
  attempt is mined, its own waiter reports it; it is resubmitted until it is mined, unless
  a call fails or another transaction has its nonce; no more transactions share a nonce
  than the pool lets an account have.
* *Funding*: the owner's nonce is used by one call at a time; a funding that is due
  happens; the client is told of a mined transaction after it.
* *Records*: the outcome in the database is that of the mined hash; a status DROPPED gives
  way to the replacement; an outcome is final and a client who was told of it finds it,
  unless the mined attempt had been replaced.
* *Gas price*: a resubmission pays what a node asks of a replacement; a handler works
  with a number; the cache comes to the price of the market.
* *Start*: no accepted request is dropped by an exchange; consumers find their relayers;
  the node comes up, stays up for the requests it has the services for, and works off what
  it accepted and published.

## Modules

| Module | Content |
|---|---|
| `RelayerPool` | pool and handlers |
| `MCRelayerPool` | instance for TLC, symmetry, `MaxRelayerCount` |
| `RelayerPoolProofs` | theorems about it |
| `TransactionLifecycle` | send, notify, retry, receipt, chain |
| `MCTransactionLifecycle` | instance for TLC |
| `TransactionLifecycleProofs` | theorems about it |
| `RelayerFunding` | fundRelayers and what competes with it |
| `MCRelayerFunding` | instance for TLC |
| `RelayerFundingProofs` | theorems about it |
| `RelayerLease` | abstract: what the pool promises the consumers |
| `RelayerLeaseProofs` | RelayerPool implements RelayerLease |
| `ClientView` | abstract: what the node promises a client |
| `ClientViewProofs` | TransactionLifecycle implements ClientView; its types and resubmissions |
| `TransactionRecord` | the database documents, extends TransactionLifecycle |
| `MCTransactionRecord`, `TransactionRecordProofs` | instance, theorems |
| `GasPrices` | scheduled prices, their readers, the bump |
| `MCGasPrices`, `GasPricesProofs` | instance, theorems |
| `Startup` | the service manager, the broker, requests during the setup |
| `MCStartup`, `StartupProofs` | instance, theorems |

Where the modules meet. TransactionRecord EXTENDS TransactionLifecycle and runs its
actions together with the writes they issue: sending, retrying, mining, the waiters, the
endpoints and the database are one system there, and `RecordsAreAside` shows that it takes
only steps of the lifecycle, so that every theorem about that holds with the database, the
refinement of ClientView included. RelayerPool abstracts a send to "some
outcome"; TransactionLifecycle abstracts the pool to its guarantees (`Available`: an
account is with one handler at a time, with at most the threshold of pending
transactions), which RelayerPool checks and proves (`ExclusiveRelayer`, `PendingBounded`);
RelayerFunding lets relayers come and
go in the queue at any time. GasPrices gives the numbers behind the price levels of
TransactionLifecycle: `ReplacesPrevious` is what makes one bump one level. Startup
begins where the others are: their initial states are those of a chain in `relayers`
whose queues have consumers.

### RelayerLease and ClientView

Two abstract specifications, each implemented by a detailed one.

`RelayerLease` has a relayer either free or leased to one transaction, and takes, counts
and gives back in one step. RelayerPool does the same with a queue, a map, a count and
continuations in between; the mapping (`LeaseOf`, `Uncounted`, `Load`) takes a relayer to be leased from the
`shift` on, and counts a transaction that has a relayer and is not registered yet.
A restart is `Renew`.

`ClientView` is the client's side: an error and nothing more, or hashes and then, once an
attempt whose hash was told is executed and not before, the receipt. After the receipt one
more hash may follow: the replacement that was on its way when an older attempt was mined.
An error does not exclude an execution, because the answer of the network may be lost. The
mapping is what the events published for an id say (`Told`), how many hashes they named
(`HashesTold`) and the attempts of it in a ledger.

### RelayerPool

An action is the code between two awaits of a handler. A handler goes `queued`,
`Deliver` (ack, call pop), `Pop` (`items.shift()`), `Register` (count, map entry),
`SendTransaction`, `PushBack` or `Park` (`pendingCount` test, push), `Unregister`
(delete, shortage test), then `DeriveRelayers`, `QueueRelayer` or `SkipRelayer` for
each, `ReleaseLock`. An empty queue makes the SCW consumer republish (`Republish`)
and the AA consumer throw (`RepublishAndThrow`): nothing catches it, so the process
ends. `Mine` publishes onTransactionMined, `PostTransactionMined` is the SocketConsumer's
call up to its balance lookup.

`hops` is the order of promise continuations. `pop` and `push` are the same chain of
async wrappers around `runExclusive`, so their callers continue after equally many
microtask turns, in the order of their shift or push. `PostTransactionMined` runs in
the synchronous prefix of an I/O callback, when no continuation is outstanding:
hence its guard `hops = <<>>`. `ProcessingMapExact` depends on this order; the run's
mutant `ResumeInAnyOrder` breaks it.

Abstractions: the queue's order (sorted by balances that change in place) becomes a
set, so every pop order is covered; an address is its derivation index. A branch no
handler reaches, `addActiveRelayer` of a relayer that is not in the map, is left out:
`ProcessingMapExact` shows it cannot run. `SkipRelayer` (the catch of `createRelayers`) is
switched by `CreateCanFail`. A restart creates the pool again with counts of 0, while
mined events of the earlier life are still delivered, so a count may become negative.
The getters and setters of the manager (`EVMRelayerManager.ts:404` on) are not called by
running code.

### TransactionLifecycle

`TakeRelayer`, `CreateTransaction`, `SendAccepted` / `SendRejected` / `SendAnswerLost` are a
consumer's call of `sendTransaction`; `Announce` and `Track` are `notify` before and after its
first publish; `PublishFails` a closed channel; `RetryStarts`, `RetryStops`,
`RetryAccepted`, `RetryRejected`, `RetryAnswerLost` the retry service;
`ReceiptArrives` and `WaiterFails` the waiter; `MineNext` a block; `Restart` an exit.

The network. The code hands a raw transaction to one node (`EVMNetworkService.ts:97`) and
knows nothing of the others. `InFlight` is every attempt that a node ever took from an
account with its next nonce, of any transaction: a producer may mine each of them
(`MineNext`), one that was replaced and is called DROPPED too. The node that is asked may
hold any of them or none: it takes an attempt with the next nonce (`Accepts`), and it may
refuse one that pays no more than what is in flight (`Refuses`). What is assumed: the node
that is asked knows the ledger, mined blocks stay (no reorganisation), and only attempts
that a node took are mined.

* The nonce is the *mined* count: `createTransaction` passes `false` to `getNonce`, and
  both branches of the nonce manager's inner test ask the network. A retry keeps the
  nonce in its message. Transactions of one account may therefore share a nonce, and
  whichever is mined first ends the others (`NonceHolders`).
* `disturbed` is history: the ids for which a call failed or which an exit met once they
  were sent. `MinedIsReported` and `ResubmittedUntilMined` except these, and `RetryAnswerLost`
  and `SendAnswerLost` are among the calls that fail.
* Redis calls of the code do not throw; an increment of a missing key does nothing.
* `EIP1559SupportedNetworks` is empty in the configuration, so prices are legacy prices.
  A price is a level, and a bump is one level: what a node asks of a replacement.
* The fallback loop of the network service (`EVMNetworkService.ts:88`) cannot run; a
  call fails at once. The retry of a relayer that was created at run time and is
  unknown after a restart fails: `RetryRejected`, with `Faults`.

### RelayerFunding

A caller is the service manager at start (`Setup`) or a mined event. `SkipRelayer`,
`FundRelayer`, `SendFunding` and `FundingRejected` are the turns of the loop of
`fundRelayers`, `NextAddress` their end with `release` and the next `acquire`;
`CheckThrows` and `LookupThrows` are the exceptions that leave it without `release`.
`known` is the balance in the metadata, which `PostTransactionMined` refreshes and a
funding does not. The comparisons `lt` (`EVMRelayerManager.ts:151`) and `lte` (`:328`) are both
kept. Whether a funding's price exceeds that of the pending one is left open, so a node
may replace or refuse. A retry (`RetryFunding`) pays more and keeps its nonce. The
balance is a level and a transaction costs one. The mutex is global to the process;
the model has one chain. Relayers parked by the pool are not distinguished.

### TransactionRecord

Every `save` and `update` of the controllers, of `notify` and of the waiters is a record
in `writes` that `ExecuteWrite` executes later: in the order of issue (`order =
"issued"`, one connection) or in any order (a pool of connections). A document is named
by the attempt it was created for, which is also the order of `_id`, by which
`getByTransactionId` sorts. `Stored` is what mongoose keeps of a document: the schema has
no `transactionType`. The publish of a request is a write to a
socket, so message, record and answer belong to one turn: `Relay`. A closed channel makes
the SCW controller answer 500 (`RefuseSCW`); the AA controller does not await its publish,
so 200 is answered and the rejection ends the process (`OrphanAA`). Both controllers save the type AA.

`notify` writes DROPPED for the replaced hash whatever became of it (`NoticeWrites`), also
when that hash is in the ledger; the receipt of it may be written before or after. An
attempt that was mined though a node had taken a later one with its nonce is `Superseded`:
the newest document is then another one's, and the status endpoint reports that. The
properties say what holds there too (the document of the mined hash was found by its
waiter and is not PENDING) and what holds without it (the endpoint has the outcome, for good).

### GasPrices

One chain with a gas station (137) or without (all others). `Schedule`, `SetupAnswered`,
`SetGasPrice` are the parts of a run between awaits; a run is not awaited by the schedule,
so `Runs` of them may overlap. `GasPrice.setup` ends a run when the network fails;
`MaticGasPrice.setup` takes a missing field for `NaN` (the factor 1e9 comes before the
test for undefined), and when both stations fail it takes an undefined answer apart where
nothing catches it: `StationFails` is an exit of the process. A cached `''` or no key is
false, `'NaN'` is true: `Absent` and `NotANumber`. Readers are a send with its
resubmissions, a simulation and the fee options. The arithmetic is that of
`getBumpedUpGasPrice` with the 50 % of every configured chain: `Raised` truncates,
`EnoughAsItIs` is the comparison with 1.1 times the price, and `Bumps` says whether the
other branch has a whole result (BigNumber rejects a fraction). Prices are integers; that
`Number` is exact only below 2^53 wei (nine million gwei) is left out. `transaction.bumpGasPriceMultiplier`
and the caps are read from the configuration; the EIP-1559 branches are left out because
`EIP1559SupportedNetworks` is empty.

### Startup

`at` is the await `configureServices` is at, `current` the chain of its loop. What the
broker has (`bound`, `messages`) outlives the process; everything else of it does not
(`ExitWith`). An `AwaitedConsume` is part of the setup; a `Subscribe` of the retry
service or of the socket consumer runs beside it. `consume` answers false for any error and
nobody looks (`broken`). `ConnectMongo` goes on without a database, which the first save
or status request then finds out; a promise that rejects with nobody to catch it, a
connection of the setup or any later one, ends the process (`NotCaught`), which
docker-compose or Kubernetes starts again. What the fundings of the start publish is left
to RelayerFunding.

Requests arrive whenever the server listens, which is from the import of the
configuration on. Validation asks for some string or number as chainId, so a request may
name a chain that is not configured (`Unsupported`) or give its number as a string
(`numeric`): the routes and the fee options are found by either, the models of the database
by the number alone (`HasModel`). The status endpoint parses the chainId of its query, the
relay and resubmit endpoints take that of the body as it is. A relay is validated
(`ValidateRelayRequest`), simulated (`Simulate`), and then published, saved and answered in one turn:
`Relay`; `RelayWithoutModel`, where the save rejects at once, which ends the process with the
message sent or not; `RelayFails`, where the channel is closed: the SCW controller answers
500, the AA controller has answered 200 and the process exits (`orphaned`). `LookupFails` is
a find that rejects outside any try.

## Runs

All bounds are in the cfg files.

| Run | Question | Result |
|---|---|---|
| `pool` | Do three handlers (one AA), two relayers, creations that may fail, mined events and one restart keep every safety property (the count among them: exact, and at most the threshold), and implement RelayerLease? | holds |
| `pool_live` | Does every message get a relayer when each is parked after one transaction? | holds |
| `lifecycle` | Do two transactions that may share an account and a nonce, with failing calls, lost answers, a restart and producers that mine any attempt a node took, keep the safety properties, and implement ClientView? | holds |
| `lifecycle_live` | Without failures, with two transactions of an account at a time and first prices that are too low: is every announced transaction mined and reported unless another got its nonce, and do no more share a nonce than the threshold? | holds |
| `lifecycle_nonce` | Is a nonce used by one transaction (`README.md:4`)? | violated |
| `funding` | Is the owner's nonce used by one call at a time, whatever throws? | holds |
| `funding_live` | Without failures, is the relayer of the start funded, and every client told? | holds |
| `funding_leak` | Is every client told when a lookup may throw? | violated |
| `records` | Do the documents, written by three actors that await nothing, agree with the chain whichever attempt is mined, and the status endpoint with them: does DROPPED give way to the replacement, is an outcome that was reported found once it is written, and final unless the attempt was superseded? | holds |
| `records_resubmit` | Does the resubmit endpoint find the relayer (`transaction-resubmit/index.ts:26`)? | violated |
| `prices` | With overlapping runs, failing calls, restarts and every kind of reader: are prices numbers, bumps large enough, and does the cache follow the market? | holds |
| `startup` | With a request of any kind, chain and chainId at any time, a failing call and what exits leave behind: is nothing accepted lost, what ends a ready process, and does the node come up and work off what was sent? | holds |

### Bounds, and why they are enough

* `pool`: with two relayers and a threshold of two, three handlers share, exhaust, park
  and refill the pool; one AA message reaches the crash; a creation adds one relayer per
  handler and a restart recreates two, so `MaxRelayers` = 5 never stops a creation
  (`BoundIsLoose` is checked). One restart puts every kind of leftover before a fresh
  pool; a second adds none.
* `pool_live`: one relayer, threshold 1: every handler but the first depends on a refill.
* `lifecycle`: three attempts are the first send, a replacement, and one that races with
  the receipt of another; every one of them pays enough, so that producers may mine any,
  the replaced ones among them. Two transactions on one account with threshold 2 reach every
  contention for the nonce, held by both or one after the other; a second account would add
  an independent copy.
* `lifecycle_live`: three transactions on one account, threshold 2, so that two share a nonce
  and the third waits for one of them to be mined; the first price is too low, and mining
  needs a retry. Two attempts are enough for it: the second price pays.
* `funding`: two relayers of the start, one created, two events: two events suffice
  for a holder and a waiter while the start has a queue of its own. Balances 0, 1, 2
  are below, at and above the threshold.
* `records`: documents of different ids never meet in a filter, so one id is enough; three
  attempts give it a request's document, a replacement and a replacement that races with
  a receipt, all of whose writes may wait at once; from the first or the second on they pay
  enough, so the mined attempt is the latest or a replaced one, recorded before or after
  the notice of its replacement. One restart loses any subset of the writes.
  The second transaction of an account changes nothing here: it competes for the nonce,
  which `lifecycle` covers.
* `prices`: a run that asked before and writes after another needs two runs. Readers do
  not read what other readers write, so one, of any kind, is enough. 2 wei is the
  smallest price the bump accepts; 9 is above the cap of 7 and odd after one bump (13), so that
  the truncation bites; two resubmissions compound it. One restart empties every run.
* `startup`: two chains, so that a service of the first is there while the second is set
  up; requests share only the queues they are put in, so one is enough: of any kind, for
  either chain or one that is not configured, its chainId a number or a string, at any
  time; the failing call may be any. One failing call can end the
  process, break a queue or leave the node without a database; requests end it as
  often as they arrive too early, so there are starts on every state of the broker.

`CHECK_DEADLOCK FALSE` stands where finitely many messages end, or where a process whose
configuration is not valid stops. Symmetry is used in the safety runs only.

### Fairness

Weak fairness of the steps of a handler: the event loop runs every settled promise and
the network answers or fails. Delayed messages are delivered, so the steps of the retry
service are fair. `MineNext` is fair: producers mine something of an account that pays
enough, though not any particular attempt or transaction. A
handler that took a relayer puts it back (`PushRelayer`). Taking a relayer, mining a relayer's transaction in
RelayerFunding, retries of fundings, exceptions, lost answers and restarts have no fairness: nothing
makes them happen.

In TransactionRecord the driver executes what it was given (`WF` of `ExecuteWrite`); no
fairness of the lifecycle is needed, since `ReportedIsRecorded` starts from an event. In
GasPrices the clock of the schedule and the handlers are fair, restarts and the market
are not. In Startup the awaits of the setup return, subscriptions end and the broker
delivers; requests and failing calls are not fair, and there are finitely many of them:
`EventuallyReady` says that each delays the node and no more, not that a node stays up
under requests that keep ending it. The supervisor's restart of an exited
process is part of the exit (`services.server` in `docker-compose.yaml`).

## What the violations show

1. Two transactions of a relayer before the first is mined share a nonce; the second is
   refused or replaces the first (`lifecycle_nonce`).
2. An exception inside `fundRelayers` leaves its mutex locked; later mined events hang
   before their client is told (`funding_leak`).
3. The resubmit endpoint looks up the relayer managers under a field that no document
   has, which throws for every transaction with one document (`records_resubmit`).

Other places where code and comment, message or name part. They are in the models,
without a run of their own.

In the pool and the funding:

* `createRelayers` never reads `maxRelayerCount` (`EVMRelayerManager.ts:418`): whoever
  finds the queue short creates more.
* A relayer at the threshold is dropped from queue and map for good, though the comment
  at `EVMRelayerManager.ts:188` says it waits for its transaction: failed sends count
  too, and mined events no longer find it. `ParkedForever` states it positively, and
  `EveryJobServed` that the pool survives by creating others.
* Relayers created at run time are never funded (`CreateRelayer`), though the comment
  at `:36` lists a first funding, and without funds they cause no mined event.
* A relayer that a handler holds when its mined event finds too little counts as having
  enough (`SkipRelayer`), though the comment at `:150` promises a funding.
* The fundings of several relayers at start share the owner's mined nonce: they replace
  or are refused by each other. `funding_live` therefore starts with one.

In the lifecycle and the prices:

* The retry limit is tested where the counter is always 0
  (`EVMTransactionService.ts:219`), so retries have no limit.
* One failed call ends the chain of resubmissions of a pending transaction
  (`:349`, and the Error value that passes for a receipt at
  `EVMRetryTransactionService.ts:70`). `ResubmittedUntilMined` excepts its id; `lifecycle_live`,
  which asks for the mining itself, has no failing call.
* An attempt whose answer was lost, or whose notify failed, has no waiter: when it is the
  one that is mined, nobody reports it. `MinedIsReported` excepts its id.
* A `changed` event may follow the `mined` one: an older attempt was mined while a
  replacement was on its way. `ClientStory` allows exactly one.
* The comment at `PolygonGasPrice.ts:199` keeps the fastest speed 11% above the fast one;
  that code runs with a configured `polygonscanUrl` only, and the cap after it makes the
  speeds equal. Only the default speed is read.
* The defaults for a missing field of the gas station never apply, since the field is
  multiplied first.
* The bump throws for a price of 1 wei, and for no other (`RaisedIsEnough`, `BumpedBounds`).

At the endpoints and the start:

* Between the update to DROPPED and the save of the replacing hash the status endpoint
  shows DROPPED for a transaction that is pending (`DroppedIsReplaced` bounds it).
* `notify` calls the replaced hash DROPPED without asking the chain
  (`EVMTransactionListener.ts:260`). When that attempt is the one that is mined, its document has
  the outcome, or stays DROPPED if the notice is written last, and the newest document, the one
  the status endpoint reports, stays PENDING for ever (`Superseded`).
* A request for a chainId that is not configured ends the process, set up or not: fee options
  (`fee-options/index.ts:9`) and the status (`transaction-status/index.ts:12` with `Mongo.ts:60`) are looked up outside
  any try. A relay or a resubmission whose chainId is a string of digits does so too: it finds its
  route and no model, so its message is sent and the process exits. `ReadyStays` names
  these requests as what ends a ready node.
* An AA request on a closed channel is answered 200, without a message (`AARelay.ts:24`).
* The payment check of a simulation says "paid" on every path (`PaidFully`).
* The timer of `CMCTokenPriceManager` calls `setup` without its object, so token prices
  are never cached; the table the fee options use instead lacks chain 137, whose fee
  options answer an error (`PricedChains`).
* A database that does not answer, and a `consume` that fails, are swallowed at start.
* Fundings of the very first start are announced and scheduled for a retry before a queue
  is bound: the exchange drops both. (In no model: Startup leaves fundings to RelayerFunding,
  where the queues are there.)
* A request of a service that is not set up yet ends the process (fee options, admin),
  outside any try.

## Proofs

Proved for every value of the constants that meets the modules' assumptions. An action
proof has one step per action.

**RelayerPool** (`PoolAssumption`). `PoolInv` is inductive: `TypeOK`, `ExclusiveRelayer`,
`ProcessingMapExact`, `ParkedAtThreshold`, `CreationSerial` and four strengthenings.
`HopsInv` says that `hops` lists exactly the handlers between shift or push and
their continuation, once each, and that two of them share a relayer only if the one
that pushed it comes before the one that popped it; `ReleasedInv` that a handler that
has yet to delete its entry shares no relayer with one that has entered its own;
`ObjectsInv` that what is queued or pushed has metadata; `LockInv` that whoever waits for
the creation lock is in its line. They are needed together: a delete after the push is harmless because the handler that
pushed continues before the handler that popped the same relayer, which is a
statement about positions in `hops`. Theorems: `TypeCorrect`, `Exclusive`, `MapExact`,
`ParkedOnlyAtThreshold`, `SerialCreation`, and the action property `ParkedIsForever`.

Two more rest on `PoolInv` and on counting. `CountExact`: until a restart the pending
count of a relayer that is not parked is the number of its transactions (`CountInv`: a
message gets one relayer, `JobsInv`; the set of transactions handed to a relayer is finite
and its cardinality is the count, or less for a parked one, whose mined events no longer
find it, `HandedInv`). `BoundedPending`: a relayer never has more transactions than the
threshold. The test stands before the push and the count goes up several awaits later, in
another handler; `RoomInv` says that whatever is queued, or was shifted and is not yet
counted, has room for one more. It needs a threshold above 0: with 0 the first transaction of every
new relayer is already one too many. Both end with the process: mined events of
an earlier life are counted off relayers that start at 0.

**TransactionLifecycle** (`LifecycleAssumption`). `ExecutedAtMostOnce`: no transaction is
executed twice, whichever attempts producers choose. All attempts of an id carry one nonce,
and position *n+1* of a ledger holds a transaction with nonce *n* (`LedgerInv`, `NonceInv`);
everything the service follows is an accepted attempt of an id with a nonce and a sender
(`FollowedInv`). Two mined attempts of an id would lie in one ledger at one position.
`OneChain`: an id is at one place at most of notify, retry queue and retry handler.

`NonceShared`: for every threshold, until the process restarts, no more transactions of an
account than the threshold hold one nonce, whatever calls fail. `SharedInv` says that the
counted transactions of an account are within the threshold, that a transaction past the
queue is counted or mined, and that the holders of every nonce are within the threshold. A
node takes an attempt with the mined count only, so that no holder of its nonce is mined yet:
they are all counted, the new one among them. A restart forgets who is counted, and with a threshold above
one the stronger `NonceNotShared` is false (`lifecycle_nonce`).

**RelayerFunding** (`FundingAssumption` for the types). `ExclusiveFunding`: whoever is between
the lookup of the owner's nonce and the send heads the mutex; only the head moves on, and
exceptions leave the head in place. `FundingTyped`: the type invariant, by
which a caller stands in the line of the mutex once (`Askers`: who stands in it does not ask again).

**RelayerLease** (`RelayerLeaseProofs`). `LeaseImplemented` takes `PoolInv` of
RelayerPoolProofs as its invariant: every step of the pool is a step of the lease or a
stutter. A relayer is leased to one transaction there because of `ExclusiveRelayer`, and a
parked one is no longer counted because `ProcessingMapExact` keeps it out of the map.

**ClientView** (`ClientViewProofs`). `ViewInv` adds to `LifecycleInv` and `OneRetryChain`:
`LatestInv` (what notify, queue or retry follows is the latest attempt a node took),
`WaitersInv` (what is waited for was sent and taken), and `StoryInv` (which events, and how many
hashes, an id was told of at each place its attempts are in, and that a receipt that was
published is not looked for again: `Settled`). From it `StoryConsistent` and `ClientViewImplemented`.

`MinedReported`: whichever attempt is mined, it is still to be notified or waited for, or
reported, unless its id was disturbed. `WatchedInv` says so of every attempt a node took,
mined or not: each keeps its own waiter, and only its own receipt takes that away. It
would be false if `notify` stopped the waiter of the hash it calls DROPPED.

`LifecycleTyped` is the type invariant of TransactionLifecycle. Its retry counter is bounded
because a retry message is counted once, before the attempt it causes: `CounterInv` keeps
the counter of an id at or below its attempts, and below them while a message of the id
has not been counted. `PursuedUntilMined`: for every threshold, with failing calls, lost answers and
restarts, an announced transaction is mined or still to be resubmitted, unless one of its own calls
failed, an exit met it or another transaction holds its nonce. `PursuitInv` says so of every
transaction a node took; `OfferInv` that its nonce is at most the mined count and its latest
attempt pays the most. A retry could be refused for a nonce that is mined, by it or by another that
has the nonce, or for an offer in flight that pays as much, which only another can make.

**TransactionRecord** (`TransactionRecordProofs`). Every write in flight and every
document is `Truthful` whatever the order of execution: a write with an outcome names a
mined hash and one with DROPPED a hash that is older than the latest attempt, mined or not.
Ledgers and attempts only grow, so a truth at issue is one at execution. Theorems:
`RecordTypesKept`, `OutcomesMined`, for every order of execution.

While the writes keep their order, more holds. `OutcomeIsFinal`: no step changes an outcome
the status endpoint has reported, unless the attempt was superseded. An id is `Overtaken` when the
mined attempt is not its latest one, which is what `Superseded` says (`OvertakenBy`), and it
stays so. `FinalInv` says, of
ids that were not overtaken, that an outcome is the last write of its id (`LastWrite`), that nothing of an
id is left to write once it is stored (`NoWriteLeft`), and that a request is sent
after it was accepted (`SentIsAccepted`); that no write follows rests on `SettledForGood`, by which
nothing moves a transaction that is mined, notified and no longer waited for.

`OutcomeFindsItsDocument`: until the process exits, once no write of a reported transaction
is left, the update of its waiter has found the document of its hash, and the client reads the
outcome unless the attempt was superseded. An update by hash that finds no document does
nothing, so this is about who makes the document when. `WrittenInv` follows a document through
the queue of writes: the controller's save of it comes before anything else of the id
(`CreatedFirst`), the first hash before any replacement (`FirstHashFirst`), a hash is given to one
document by one write (`GivenOnce`), a hash that is announced or waited for is in a document
or will be by a write that is issued (`HashAwaits`), an outcome in the queue comes after the
write that gives its document the hash (`OutcomeGiven`), and an outcome that was reported is
stored or waits in the queue (`OutcomeAwaits`, `OutcomeStored`). `DroppedGivesWay`: behind
every update to DROPPED in the queue waits the save of its replacement, and beside every document
that is DROPPED there is that of the next attempt or the save that makes it (`ReplacedInv`). A
restart loses writes and another order executes the outcome before its document is there:
both conditions are needed.

**GasPrices** (`GasPricesAssumption`: quotes and cap are at least 2 wei, the price where
the bump begins to work). `PriceInv`: a price that is no number comes from a station and
a fault. `RaisedIsEnough` is the arithmetic: three halves, truncated, is at least eleven
tenths from 2 on. Theorems: `PriceTypesKept`, `OnlyFaultsFail`, `NumbersOffStation`, and
the action property `ResubmissionsReplace`, for every price and any number of runs.

**Startup** (`StartupAssumption`: a nonempty list of chains, and a chainId that is none of them). `StartInv`: a route is there
only once its queue was asked for (`RoutesInv`), relayer managers come before what
subscribes for their chain (`RelayersInv`), the chains before the current one have their
fee options (`FeesInv`), and only relay requests are simulated (`RelayedInv`).
Theorems: `StartTypesKept`, `NoneLost`, `RelayersFirst`, and `ReadyIsForGood`, for every list of
chains, requests of any kind for any chainId, and any number of failing calls.

Model-checked only: liveness (`EveryJobServed`, `AnnouncedIsMined`, `ClientToldOfMined`,
`StartedRelayerFunded`, `ReportedIsRecorded`, `CacheFollowsMarket`, `EventuallyReady`,
`AcceptedIsHandled`), which is out of the prover's reach: it needs fairness and ENABLED. For
`ReportedIsRecorded` and `AnnouncedIsMined` the safety part is proved (`WrittenIsRecorded`,
`ResubmittedUntilMined`), and what is left to TLC is that the writes are executed and the
retries happen. Every invariant and every action property of the passing runs has a theorem.

## Plan

Done, the most important behaviour first: RelayerPool, TransactionLifecycle,
RelayerFunding; RelayerLease and ClientView with their refinements; TransactionRecord,
GasPrices, Startup; the proofs above.

Next: a property of their own for the five hazards that have none, the balances by which
the relayer queue is sorted first.

## Not modelled, and why

* The order of the relayer queue: RelayerPool lets any queued relayer be popped, which
  covers every order, so its properties do not depend on balances. What is lost is the
  sort that throws on a failed balance lookup (`SortEVMRelayerByBalance.ts:5`); the exit it leads to is
  in the models (`Crash`).
* Arithmetic of the fee options (markup, offset, decimals): no state, and no document
  says what the result should be.
* Simulation: the decoding of external answers; what it reads and decides is in GasPrices
  and Startup.
* Slack notification: output; its errors are caught and its callers ignore the answer.
* Status probes: calls of external services whose answers are shown and kept nowhere. (The
  page always shows the network service as active.)
* Validation schemas and HTTP plumbing: a request that is not well formed is answered
  with an error (`ValidateRelayRequest`) and changes nothing.
* The nonce manager's `UsedAccountNonce_*` keys: nothing writes them.
* The EIP-1559 branches, and the fallback RPC urls: no configured network and no
  reachable condition leads there.
* Reconnection to RabbitMQ, Redis or MongoDB: the code has none beyond its libraries.
* Logging and wording of errors.
