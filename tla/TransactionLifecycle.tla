------------------------ MODULE TransactionLifecycle ------------------------
(***************************************************************************)
(* The life of the transactions a relayer node sends on one chain: the     *)
(* nonce read and the broadcast of EVMTransactionService, the events and   *)
(* the waiters of EVMTransactionListener, the resubmissions driven by the  *)
(* delayed retry queue (EVMRetryTransactionService), and the network they  *)
(* meet: nodes that take or refuse an attempt, producers that mine any     *)
(* attempt a node ever took, and the ledger.                               *)
(*                                                                         *)
(* A hash is an attempt of a transactionId: <<t, n>>.  Gas prices are       *)
(* levels: a bump is one level, what a node asks of a replacement.         *)
(***************************************************************************)
EXTENDS Integers, Sequences, FiniteSets

CONSTANTS
  Ids,             \* transactionIds
  Accounts,        \* relayer accounts
  None,            \* no account, no transaction
  PendingTransactionCountThreshold,
  MaxRetryCount,   \* config.transaction.retryCount
  Prices,          \* levels the gas price cache may hold at a first send
  InclusionPrice,  \* level from which the chain mines a transaction
  Faults,          \* may RPC and cache calls fail?
  MaxAttempts,     \* bound on the hashes of an id
  MaxRestarts      \* bound on the restarts of the process

Hashes == Ids \X (1 .. MaxAttempts)
IdOf(h) == h[1]
First(h) == h[2] = 1

ASSUME LifecycleAssumption ==
  /\ None \notin Accounts \cup Hashes
  /\ PendingTransactionCountThreshold \in Nat
  /\ MaxRetryCount \in Nat
  /\ Prices \subseteq Nat
  /\ InclusionPrice \in Nat
  /\ Faults \in BOOLEAN
  /\ MaxAttempts \in Nat \ {0}
  /\ MaxRestarts \in Nat

VARIABLES
  pc,          \* where the consumer handler of an id is
  sender,      \* the account an id was given
  counted,     \* ids in the pendingCount of their relayer
  nonce,       \* the nonce of a hash
  attempts,    \* hashes of an id a node has accepted
  price,       \* price level of a hash
  ledger,      \* mined transactions of an account, in nonce order
  accepted,    \* hashes the service has the answer for and has to notify
  announced,   \* hashes published for the client, not yet for the retry queue
  retryQueue,  \* messages of the delayed retry queue
  retrying,    \* messages whose handler found no receipt
  retryCount,  \* the counter in the cache
  waiters,     \* hashes waitForTransaction waits for
  events,      \* what was published about an id for its client
  restarts,
  disturbed    \* history: ids for which a call failed, or which an exit met, once they were sent

handlerVars == <<pc, sender, counted>>
chainVars == <<nonce, attempts, price, ledger>>
retryVars == <<retryQueue, retrying, retryCount>>
listenerVars == <<accepted, announced, waiters, events>>
faultVars == <<restarts, disturbed>>
vars == <<handlerVars, chainVars, retryVars, listenerVars, faultVars>>

Missing == -1          \* no value, no key in the cache

Places == {"queued", "taken", "numbered", "sent", "failed", "lost"}
EventTypes == {"generated", "changed", "mined", "error"}

InLedger(h) == \E a \in Accounts : \E i \in DOMAIN ledger[a] : ledger[a][i] = h
Mined(t) == \E n \in 1 .. MaxAttempts : InLedger(<<t, n>>)

Init ==
  /\ pc = [t \in Ids |-> "queued"]
  /\ sender = [t \in Ids |-> None]
  /\ nonce = [h \in Hashes |-> Missing]
  /\ attempts = [t \in Ids |-> 0]
  /\ price = [h \in Hashes |-> 0]
  /\ ledger = [a \in Accounts |-> <<>>]
  /\ counted = {} /\ accepted = {} /\ announced = {}
  /\ retryQueue = {} /\ retrying = {} /\ waiters = {}
  /\ retryCount = [t \in Ids |-> Missing]
  /\ events = [t \in Ids |-> <<>>]
  /\ restarts = 0 /\ disturbed = {}

Fails(t) == Faults /\ disturbed' = disturbed \cup {t}

Publish(t, event) == events' = [events EXCEPT ![t] = Append(@, event)]

-----------------------------------------------------------------------------
(* The relayer pool hands an account to one handler at a time, up to its    *)
(* notify, and to no more transactions than the threshold until they are    *)
(* mined (RelayerPool).                                                     *)
Handled(t) == pc[t] \in {"taken", "numbered"} \/ <<t, 1>> \in accepted \cup announced

BelowThresholdPlusOne(n) == n <= PendingTransactionCountThreshold

BelowThreshold(n) == n < PendingTransactionCountThreshold

Available(a) ==
  /\ \A t \in Ids : sender[t] = a => ~Handled(t)
  /\ BelowThreshold(Cardinality({t \in counted : sender[t] = a}))

(* The consumer has a relayer and sets the retry counter.                   *)
TakeRelayer(t) ==
  /\ pc[t] = "queued"
  /\ \E a \in Accounts : Available(a) /\ sender' = [sender EXCEPT ![t] = a]
  /\ counted' = counted \cup {t}
  /\ retryCount' = [retryCount EXCEPT ![t] = 0]
  /\ pc' = [pc EXCEPT ![t] = "taken"]
  /\ UNCHANGED <<chainVars, retryQueue, retrying, listenerVars, faultVars>>

MinedCount(t) == Len(ledger[sender[t]])

(* sendTransaction passes the test of the counter, createTransaction asks   *)
(* the network for the nonce: the mined count, whatever the cache holds.    *)
CreateTransaction(t) ==
  /\ pc[t] = "taken" /\ retryCount[t] <= MaxRetryCount
  /\ nonce' = [nonce EXCEPT ![<<t, 1>>] = MinedCount(t)]
  /\ pc' = [pc EXCEPT ![t] = "numbered"]
  /\ UNCHANGED <<sender, counted, attempts, price, ledger, retryVars, listenerVars, faultVars>>

(* What a node took from an account with the next nonce, and a producer may *)
(* mine: no attempt takes an earlier one back.                              *)
InFlight(a) ==
  {h \in Hashes : /\ sender[IdOf(h)] = a /\ h[2] <= attempts[IdOf(h)]
                  /\ nonce[h] = Len(ledger[a])}

(* The node that is asked knows the ledger and holds one of the attempts in *)
(* flight or none: it takes the next nonce unless it holds one that pays    *)
(* as much.                                                                 *)
Accepts(t, n) == n = MinedCount(t)

Refuses(t, n, p) == n # MinedCount(t) \/ \E h \in InFlight(sender[t]) : price[h] >= p

Broadcast(t, n, p) ==
  LET h == <<t, attempts[t] + 1>> IN
  /\ attempts' = [attempts EXCEPT ![t] = @ + 1]
  /\ nonce' = [nonce EXCEPT ![h] = n]
  /\ price' = [price EXCEPT ![h] = p]
  /\ UNCHANGED ledger

FirstBroadcast(t) ==
  LET n == nonce[<<t, 1>>] IN Accepts(t, n) /\ \E p \in Prices : Broadcast(t, n, p)

SendAccepted(t) ==
  /\ pc[t] = "numbered"
  /\ FirstBroadcast(t)
  /\ accepted' = accepted \cup {<<t, 1>>}
  /\ pc' = [pc EXCEPT ![t] = "sent"]
  /\ UNCHANGED <<sender, counted, retryVars, announced, waiters, events, faultVars>>

(* The client is told of a failed send, unless the channel is closed.       *)
TellError(t) ==
  /\ Publish(t, "error") \/ (Faults /\ UNCHANGED events)
  /\ pc' = [pc EXCEPT ![t] = "failed"]
  /\ UNCHANGED <<sender, counted, retryVars, accepted, announced, waiters, restarts>>

(* The node refuses, or the call fails before it.                           *)
SendRejected(t) ==
  /\ pc[t] = "numbered"
  /\ Faults \/ \E p \in Prices : Refuses(t, nonce[<<t, 1>>], p)
  /\ TellError(t)
  /\ UNCHANGED <<chainVars, disturbed>>

(* The node accepts and the answer is lost: to the code the send failed.    *)
SendAnswerLost(t) ==
  /\ pc[t] = "numbered"
  /\ FirstBroadcast(t)
  /\ Fails(t)
  /\ TellError(t)

-----------------------------------------------------------------------------
(* notify: the event for the client first, ...                              *)
ToAnnounce == accepted

ToTrackUnannounced == accepted \cup announced

ToTrack == announced

AwaitingNewest(h) == {k \in waiters : IdOf(k) # IdOf(h)} \cup {h}

Awaiting(h) == waiters \cup {h}

Announce(h) ==
  /\ h \in ToAnnounce
  /\ accepted' = accepted \ {h}
  /\ announced' = announced \cup {h}
  /\ Publish(IdOf(h), IF First(h) THEN "generated" ELSE "changed")
  /\ UNCHANGED <<handlerVars, chainVars, retryVars, waiters, faultVars>>

(* ... then the delayed message for the retry service and the waiter; those *)
(* of earlier attempts wait on.                                             *)
Track(h) ==
  /\ h \in ToTrack
  /\ announced' = announced \ {h}
  /\ retryQueue' = retryQueue \cup {h}
  /\ waiters' = Awaiting(h)
  /\ UNCHANGED <<handlerVars, chainVars, retrying, retryCount, accepted, events, faultVars>>

(* A publish throws on a closed channel: the send or the retry answers      *)
(* "failed" to its caller, and the rest of notify is not done.              *)
PublishFails(h) ==
  /\ h \in accepted \cup announced /\ Fails(IdOf(h))
  /\ accepted' = accepted \ {h}
  /\ announced' = announced \ {h}
  /\ UNCHANGED <<handlerVars, chainVars, retryVars, waiters, events, restarts>>

-----------------------------------------------------------------------------
(* The chain.  A producer mines any attempt in flight that pays enough, a   *)
(* replaced one too.                                                        *)
MineNext(a) ==
  /\ \E h \in InFlight(a) :
       /\ price[h] >= InclusionPrice
       /\ ledger' = [ledger EXCEPT ![a] = Append(@, h)]
  /\ UNCHANGED <<handlerVars, nonce, attempts, price, retryVars, listenerVars, faultVars>>

(* waitForTransaction stops waiting: the counter is deleted.               *)
StopWaiting(h) ==
  /\ h \in waiters
  /\ waiters' = waiters \ {h}
  /\ retryCount' = [retryCount EXCEPT ![IdOf(h)] = Missing]
  /\ UNCHANGED <<pc, sender, chainVars, retryQueue, retrying, accepted, announced, restarts>>

(* A receipt: onTransactionMined is published for status 0 as for status 1, *)
(* which takes the transaction out of its relayer's pendingCount.           *)
ReceiptArrives(h) ==
  /\ InLedger(h)
  /\ StopWaiting(h)
  /\ Publish(IdOf(h), "mined")
  /\ counted' = counted \ {IdOf(h)}
  /\ UNCHANGED disturbed

(* An error value: it has neither status.                                   *)
WaiterFails(h) == StopWaiting(h) /\ Fails(IdOf(h)) /\ UNCHANGED <<events, counted>>

-----------------------------------------------------------------------------
Unacked(h) == retryQueue

Consumed(h) == retryQueue \ {h}

ResubmitsWithinCount(h) == ~InLedger(h) /\ retryCount[IdOf(h)] < MaxRetryCount

Resubmits(h) == ~InLedger(h)

(* A delayed message arrives.  No receipt yet: retryTransaction starts with *)
(* the counter, which it leaves alone when the key is gone.                 *)
RetryStarts(h) ==
  /\ h \in retryQueue /\ Resubmits(h)
  /\ retryQueue' = Consumed(h)
  /\ retrying' = retrying \cup {h}
  /\ retryCount' = [retryCount EXCEPT ![IdOf(h)] = IF @ = Missing THEN Missing ELSE @ + 1]
  /\ UNCHANGED <<handlerVars, chainVars, listenerVars, faultVars>>

(* A receipt, or the error value of a failed lookup: both are truthy.       *)
RetryStops(h) ==
  /\ h \in retryQueue
  /\ (~Resubmits(h) /\ UNCHANGED disturbed) \/ Fails(IdOf(h))
  /\ retryQueue' = Consumed(h)
  /\ UNCHANGED <<handlerVars, chainVars, retrying, retryCount, listenerVars, restarts>>

NotBumpedUp(h) == price[h]

(* getBumpedUpGasPrice of the price in the message, and the nonce in it.    *)
BumpedUp(h) == price[h] + 1

FreshNonce(h) == MinedCount(IdOf(h))

RetryNonce(h) == nonce[h]

RetryBroadcast(h) ==
  /\ h \in retrying /\ attempts[IdOf(h)] < MaxAttempts
  /\ retrying' = retrying \ {h}
  /\ Accepts(IdOf(h), RetryNonce(h)) /\ Broadcast(IdOf(h), RetryNonce(h), BumpedUp(h))
  /\ UNCHANGED <<handlerVars, retryQueue, retryCount, announced, waiters, events, restarts>>

RetryAccepted(h) ==
  /\ RetryBroadcast(h)
  /\ accepted' = accepted \cup {<<IdOf(h), attempts'[IdOf(h)]>>}
  /\ UNCHANGED disturbed

(* The failure is returned to the handler, which drops it.                  *)
RetryRejected(h) ==
  /\ h \in retrying
  /\ \/ Refuses(IdOf(h), RetryNonce(h), BumpedUp(h)) /\ UNCHANGED disturbed
     \/ Fails(IdOf(h))
  /\ retrying' = retrying \ {h}
  /\ UNCHANGED <<handlerVars, chainVars, retryQueue, retryCount, listenerVars, restarts>>

RetryAnswerLost(h) == RetryBroadcast(h) /\ Fails(IdOf(h)) /\ UNCHANGED accepted

-----------------------------------------------------------------------------
(* The broker, the cache and the chain survive; handlers, waiters and what  *)
(* is not published yet do not.                                             *)
Restart ==
  /\ restarts < MaxRestarts
  /\ restarts' = restarts + 1
  /\ pc' = [t \in Ids |-> IF pc[t] \in {"taken", "numbered"} THEN "lost" ELSE pc[t]]
  /\ counted' = {} /\ accepted' = {} /\ announced' = {}
  /\ waiters' = {} /\ retrying' = {}
  /\ disturbed' = disturbed \cup {IdOf(h) : h \in accepted \cup announced \cup waiters \cup retrying}
  /\ UNCHANGED <<sender, chainVars, retryQueue, retryCount, events>>

Send(t) == TakeRelayer(t) \/ CreateTransaction(t) \/ SendAccepted(t) \/ SendRejected(t)

Listen(h) == Announce(h) \/ Track(h) \/ ReceiptArrives(h)

Retry(h) == RetryStarts(h) \/ RetryStops(h) \/ RetryAccepted(h) \/ RetryRejected(h)

Fault(h) == PublishFails(h) \/ WaiterFails(h) \/ RetryAnswerLost(h)

Next ==
  \/ \E t \in Ids : Send(t) \/ SendAnswerLost(t)
  \/ \E h \in Hashes : Listen(h) \/ Retry(h) \/ Fault(h)
  \/ \E a \in Accounts : MineNext(a)
  \/ Restart

Spec == Init /\ [][Next]_vars

(* The event loop runs every handler, the network answers, the broker       *)
(* delivers delayed messages and producers mine something that pays enough. *)
FairSpec ==
  /\ Spec
  /\ \A t \in Ids : WF_vars(Send(t))
  /\ \A h \in Hashes : WF_vars(Listen(h)) /\ WF_vars(Retry(h))
  /\ \A a \in Accounts : WF_vars(MineNext(a))

-----------------------------------------------------------------------------
Announced(t) == events[t] # <<>> /\ events[t][1] = "generated"

Reported(t) == \E i \in DOMAIN events[t] : events[t][i] = "mined"

(* Where a resubmission can still come from: what a hash is, at its place. *)
Links ==
  ({"accepted"} \X accepted) \cup ({"announced"} \X announced)
    \cup ({"retryQueue"} \X retryQueue) \cup ({"retrying"} \X retrying)

Resubmittable(t) == \E l \in Links : IdOf(l[2]) = t

(* The transactions a node took from the account of t with the nonce of t. *)
NonceHolders(t) ==
  {u \in Ids : sender[u] = sender[t] /\ attempts[u] > 0 /\ nonce[<<u, 1>>] = nonce[<<t, 1>>]}

\* Every variable has its type; the counter counts the retry messages of an id once each.
TypeOK ==
  /\ pc \in [Ids -> Places]
  /\ sender \in [Ids -> Accounts \cup {None}]
  /\ nonce \in [Hashes -> Nat \cup {Missing}]
  /\ counted \subseteq Ids
  /\ attempts \in [Ids -> 0 .. MaxAttempts]
  /\ price \in [Hashes -> Nat]
  /\ ledger \in [Accounts -> Seq(Hashes)]
  /\ accepted \subseteq Hashes /\ announced \subseteq Hashes
  /\ retryQueue \subseteq Hashes /\ retrying \subseteq Hashes /\ waiters \subseteq Hashes
  /\ retryCount \in [Ids -> {Missing} \cup 0 .. MaxAttempts]
  /\ events \in [Ids -> Seq(EventTypes)]
  /\ restarts \in 0 .. MaxRestarts
  /\ disturbed \subseteq Ids

\* A transaction is executed once, whichever of its attempts is mined: a receipt that
\* arrives between the lookup of the retry handler and its broadcast, a lost answer or a
\* restart never lead to a second mined attempt.
ExecutedOnce ==
  \A t \in Ids : \A m, n \in 1 .. MaxAttempts :
    InLedger(<<t, m>>) /\ InLedger(<<t, n>>) => m = n

\* What the client of an id is told is an error and nothing else, or one generated hash,
\* then changed hashes, then at most one mined event, though sends, retries and waiters
\* of the id publish on their own.  All that may follow mined is one changed hash: of the
\* replacement that was on its way when an older attempt was mined.
ClientStory ==
  \A t \in Ids : \A i \in DOMAIN events[t] :
    /\ events[t][i] \in {"generated", "error"} <=> i = 1
    /\ events[t][i] = "error" => Len(events[t]) = 1
    /\ events[t][i] = "mined" =>
         \A j \in DOMAIN events[t] : j > i => j = i + 1 /\ events[t][j] = "changed"

\* notify calls the hash it replaces DROPPED, but a producer may still mine it: whichever
\* attempt is mined, the waiter of that very attempt is there, or will be, to report it,
\* unless a call failed for its id or the process exited.
MinedIsReported ==
  \A h \in Hashes : InLedger(h) =>
    \/ h \in accepted \cup announced \cup waiters
    \/ Reported(IdOf(h)) \/ IdOf(h) \in disturbed

\* An id has one chain of resubmissions: never two messages, handlers or attempts to
\* notify at once, across restarts and lost answers.
OneRetryChain == \A l, m \in Links : IdOf(l[2]) = IdOf(m[2]) => l = m

\* README.md:4, "resubmissions": an announced transaction is resubmitted until it is
\* mined.  What else ends its resubmissions is a failing call or an exit, or another
\* transaction of its account with the same nonce, which took its place.
ResubmittedUntilMined ==
  \A t \in Ids : Announced(t) =>
    Mined(t) \/ Resubmittable(t) \/ t \in disturbed \/ NonceHolders(t) # {t}

\* README.md:4, "nonce management": no two transactions of one account have one nonce.
NonceNotShared == \A t \in Ids : attempts[t] > 0 => NonceHolders(t) = {t}

\* The nonce is a mined count, and the pool counts the transactions of a relayer until
\* they are mined: until a restart forgets the counts, no more transactions of an account
\* than the threshold get one nonce.
NonceSharedWithinThreshold ==
  restarts = 0 => \A t \in Ids : Cardinality(NonceHolders(t)) <= PendingTransactionCountThreshold

(* What the client of an id knows, and how many hashes it was told. *)
Told(t) ==
  LET story == events[t]
  IN  IF story = <<>> THEN "nothing"
      ELSE IF story[Len(story)] \in {"mined", "error"} THEN story[Len(story)]
      ELSE IF Reported(t) THEN "late hash" ELSE "hash"

HashesTold(t) ==
  Len(events[t]) - (IF Told(t) \in {"error", "mined", "late hash"} THEN 1 ELSE 0)

View ==
  INSTANCE ClientView WITH
    Attempts <- 1 .. MaxAttempts,
    told <- [t \in Ids |-> Told(t)],
    hashes <- [t \in Ids |-> HashesTold(t)],
    executed <- [t \in Ids |-> {n \in 1 .. MaxAttempts : InLedger(<<t, n>>)}]

\* Sends, retries, waiters and the network, each at its own pace and with failures at any
\* point, are to the client one transaction that is executed once, by an attempt whose
\* hash it was told, and reported after it was.
ImplementsClientView == View!Spec

\* A transaction the client was told of is mined and reported so, though its first price
\* was too low: the price rises with each resubmission until it is enough, unless another
\* transaction of the account got its nonce.
AnnouncedIsMined == \A t \in Ids : Announced(t) ~> Reported(t) \/ NonceHolders(t) # {t}
=============================================================================
