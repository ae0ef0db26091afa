--------------------------- MODULE RelayerFunding ---------------------------
(***************************************************************************)
(* The funding of the relayers of one chain from the main account:         *)
(* fundRelayers of EVMRelayerManager, called by the service manager for    *)
(* the relayers created at start and by postTransactionMined for the       *)
(* sender of a mined transaction, with fundRelayerMutex, the balances the  *)
(* relayer metadata remembers and the nonce of the main account.           *)
(*                                                                         *)
(* RelayerPool says when a relayer is in the queue; here it comes and      *)
(* goes, and a mined event always finds it in the queue or the map.        *)
(* Balances are levels: a transaction costs one.                           *)
(***************************************************************************)
EXTENDS Integers, Sequences

CONSTANTS
  Setup,            \* the call of the service manager
  Events,           \* the calls for mined events of relayers
  Relayers,
  Created,          \* relayers addActiveRelayer creates at run time
  Balances,         \* balances relayers may have at start
  FundingBalanceThreshold,
  FundingRelayerAmount,
  NoFunding,        \* no pending transaction of the main account
  Faults            \* may lookups and sends fail?

Callers == {Setup} \cup Events
Fundings == Callers \X Relayers

ASSUME FundingAssumption ==
  /\ Setup \notin Events
  /\ Created \subseteq Relayers
  /\ Balances \subseteq Nat
  /\ FundingBalanceThreshold \in Nat /\ FundingRelayerAmount \in Nat
  /\ NoFunding \notin Fundings
  /\ Faults \in BOOLEAN

VARIABLES
  pc,            \* where a caller is
  relayer,       \* relayer of an event, relayer a caller funds
  todo,          \* addresses fundRelayers has still to go through
  lock,          \* fundRelayerMutex: its holder, then its waiters
  pool,          \* relayers with metadata, in the queue or in the processing map
  queue,         \* relayers in relayerQueue
  known,         \* balance in the metadata of a relayer
  balance,       \* balance of a relayer on the chain
  ownerPending,  \* funding a node holds of the main account
  ownerMined,    \* transaction count of the main account
  fundingNonce,  \* nonce of a funding a node has accepted
  funded,        \* relayers that were funded
  told           \* events published to the client

callVars == <<pc, relayer, todo, lock>>
ownerVars == <<ownerPending, ownerMined, fundingNonce>>
poolVars == <<pool, queue, known>>
chainVars == <<balance, ownerVars, funded>>
vars == <<callVars, poolVars, chainVars, told>>

ErrorValue == -1   \* what a failed lookup leaves as a balance
NoNonce == -1

\* "idle": not mined yet; "mined": onTransactionMined is in the queue; "waiting":
\* acquire; "funding": below the threshold, nonce and price are looked up; "exited":
\* the rejection ended the process.
Places == {"idle", "mined", "waiting", "funding", "done", "exited"}

AtStart == Relayers \ Created

(* createRelayers has looked the balances up, fundRelayers acquires.        *)
Init ==
  /\ pc = [c \in Callers |-> IF c = Setup THEN "waiting" ELSE "idle"]
  /\ relayer \in [Callers -> Relayers]
  /\ todo = [c \in Callers |-> IF c = Setup THEN AtStart ELSE {relayer[c]}]
  /\ lock = <<Setup>>
  /\ pool = AtStart /\ queue = AtStart
  /\ balance \in {b \in [Relayers -> Balances \cup {0}] : \A r \in Created : b[r] = 0}
  /\ known = balance
  /\ ownerPending = NoFunding /\ ownerMined = 0
  /\ fundingNonce = [f \in Fundings |-> NoNonce]
  /\ funded = {} /\ told = {}

-----------------------------------------------------------------------------
Running == pc[Setup] = "done"

(* A push sorts by balance: with an error value to compare it throws, and   *)
(* the process exits.                                                       *)
Push(r) ==
  /\ queue # {} => \A s \in queue \cup {r} : known'[s] # ErrorValue
  /\ queue' = queue \cup {r}

(* A handler takes a relayer from the queue and puts it back.               *)
TakeRelayer(r) ==
  /\ Running /\ r \in queue
  /\ queue' = queue \ {r}
  /\ UNCHANGED <<callVars, pool, known, chainVars, told>>

PushRelayer(r) ==
  /\ Running /\ r \in pool \ queue
  /\ UNCHANGED known
  /\ Push(r)
  /\ UNCHANGED <<callVars, pool, chainVars, told>>

(* addActiveRelayer creates relayers and does not fund them.                *)
CreateRelayer(r) ==
  /\ Running /\ r \in Created \ pool
  /\ pool' = pool \cup {r}
  /\ known' = [known EXCEPT ![r] = balance[r]]
  /\ Push(r)
  /\ UNCHANGED <<callVars, chainVars, told>>

(* A transaction of a relayer that can pay for it is mined.                 *)
Mine(e) ==
  /\ Running /\ pc[e] = "idle" /\ relayer[e] \in pool /\ balance[relayer[e]] > 0
  /\ balance' = [balance EXCEPT ![relayer[e]] = @ - 1]
  /\ pc' = [pc EXCEPT ![e] = "mined"]
  /\ UNCHANGED <<relayer, todo, lock, poolVars, ownerVars, funded, told>>

Tell(c) == told' = told \cup ({c} \cap Events)

(* postTransactionMined and the publish to the client after it.             *)
PostTransactionMined(e) ==
  /\ pc[e] = "mined"
  /\ known' = [known EXCEPT ![relayer[e]] = balance[relayer[e]]]
  /\ IF balance[relayer[e]] < FundingBalanceThreshold
     THEN /\ pc' = [pc EXCEPT ![e] = "waiting"]
          /\ lock' = Append(lock, e)
          /\ UNCHANGED told
     ELSE /\ pc' = [pc EXCEPT ![e] = "done"]
          /\ Tell(e)
          /\ UNCHANGED lock
  /\ UNCHANGED <<relayer, todo, pool, queue, chainVars>>

(* getBalance answers with an error value, which is stored and has no lt:   *)
(* the socket consumer logs the exception and tells the client nothing.     *)
BalanceLookupFails(e) ==
  /\ Faults /\ pc[e] = "mined"
  /\ known' = [known EXCEPT ![relayer[e]] = ErrorValue]
  /\ pc' = [pc EXCEPT ![e] = "done"]
  /\ UNCHANGED <<relayer, todo, lock, pool, queue, chainVars, told>>

-----------------------------------------------------------------------------
AnyCaller(c) == TRUE

HoldsLock(c) == lock # <<>> /\ Head(lock) = c

NotReleased == lock

Released == Tail(lock)

WellBelowThreshold(r) == r \in queue /\ known[r] < FundingBalanceThreshold

(* Only relayers of the queue are looked up.                                *)
HasBalanceBelowThreshold(r) == r \in queue /\ known[r] <= FundingBalanceThreshold

(* The end of a turn of the loop of fundRelayers, and of the call after the *)
(* last one: postTransactionMined returns and the client is told.           *)
NextAddress(c, r) ==
  /\ todo' = [todo EXCEPT ![c] = @ \ {r}]
  /\ IF todo[c] = {r}
     THEN pc' = [pc EXCEPT ![c] = "done"] /\ lock' = Released /\ Tell(c)
     ELSE pc' = [pc EXCEPT ![c] = "waiting"] /\ lock' = Append(Released, c) /\ UNCHANGED told

(* An exception leaves fundRelayers without release.  postTransactionMined  *)
(* logs it and the client is told; nothing catches it at the start.         *)
Throw(c) ==
  /\ pc' = [pc EXCEPT ![c] = IF c = Setup THEN "exited" ELSE "done"]
  /\ Tell(c)
  /\ UNCHANGED <<relayer, todo, lock, poolVars, chainVars>>

SkipRelayer(c) ==
  /\ pc[c] = "waiting" /\ HoldsLock(c)
  /\ \E r \in todo[c] :
       /\ r \in queue => known[r] # ErrorValue
       /\ ~HasBalanceBelowThreshold(r)
       /\ NextAddress(c, r)
  /\ UNCHANGED <<relayer, poolVars, chainVars>>

(* An error value has no lte.                                               *)
CheckThrows(c) ==
  /\ pc[c] = "waiting" /\ HoldsLock(c)
  /\ \E r \in todo[c] \cap queue : known[r] = ErrorValue
  /\ Throw(c)

FundRelayer(c) ==
  /\ pc[c] = "waiting" /\ HoldsLock(c)
  /\ \E r \in todo[c] :
       /\ HasBalanceBelowThreshold(r) /\ known[r] # ErrorValue
       /\ relayer' = [relayer EXCEPT ![c] = r]
  /\ pc' = [pc EXCEPT ![c] = "funding"]
  /\ UNCHANGED <<todo, lock, poolVars, chainVars, told>>

(* The nonce is an error value BigNumber does not take, or the price is.    *)
LookupThrows(c) == Faults /\ pc[c] = "funding" /\ Throw(c)

(* sendTransaction gives the funding the mined count as its nonce, not the  *)
(* pending one fundRelayers put in rawTx.  In place of a pending funding a  *)
(* node takes it only if it pays more.                                      *)
SendFunding(c) ==
  /\ pc[c] = "funding"
  /\ ownerPending' = <<c, relayer[c]>>
  /\ fundingNonce' = [fundingNonce EXCEPT ![<<c, relayer[c]>>] = ownerMined]
  /\ NextAddress(c, relayer[c])
  /\ UNCHANGED <<relayer, poolVars, balance, ownerMined, funded>>

(* sendTransaction answers "failed", which fundRelayers does not look at.   *)
FundingRejected(c) ==
  /\ pc[c] = "funding" /\ (Faults \/ ownerPending # NoFunding)
  /\ NextAddress(c, relayer[c])
  /\ UNCHANGED <<relayer, poolVars, chainVars>>

(* A retry pays more: it takes the place of the pending funding, as long as *)
(* its nonce is the next.  The retry queue is consumed after the start.     *)
RetryFunding(f) ==
  /\ Running
  /\ fundingNonce[f] = ownerMined /\ ownerPending # f
  /\ ownerPending' = f
  /\ UNCHANGED <<callVars, poolVars, balance, ownerMined, fundingNonce, funded, told>>

MineFunding ==
  /\ ownerPending # NoFunding
  /\ balance' = [balance EXCEPT ![ownerPending[2]] = @ + FundingRelayerAmount]
  /\ funded' = funded \cup {ownerPending[2]}
  /\ ownerPending' = NoFunding
  /\ ownerMined' = ownerMined + 1
  /\ UNCHANGED <<callVars, poolVars, fundingNonce, told>>

-----------------------------------------------------------------------------
Fund(c) ==
  SkipRelayer(c) \/ CheckThrows(c) \/ FundRelayer(c) \/ SendFunding(c) \/ FundingRejected(c)

Next ==
  \/ \E r \in Relayers : TakeRelayer(r) \/ PushRelayer(r) \/ CreateRelayer(r)
  \/ \E e \in Events : Mine(e) \/ PostTransactionMined(e) \/ BalanceLookupFails(e)
  \/ \E c \in Callers : Fund(c) \/ LookupThrows(c)
  \/ \E f \in Fundings : RetryFunding(f)
  \/ MineFunding

Spec == Init /\ [][Next]_vars

(* The event loop runs every call, handlers put their relayer back, the     *)
(* network answers and blocks are mined.                                    *)
FairSpec ==
  /\ Spec
  /\ \A r \in Relayers : WF_vars(PushRelayer(r))
  /\ \A c \in Callers : WF_vars(Fund(c))
  /\ \A e \in Events : WF_vars(PostTransactionMined(e))
  /\ WF_vars(MineFunding)

-----------------------------------------------------------------------------
\* Every variable has its type; a caller waits for the lock or holds it once.
TypeOK ==
  /\ pc \in [Callers -> Places]
  /\ relayer \in [Callers -> Relayers]
  /\ todo \in [Callers -> SUBSET Relayers]
  /\ lock \in Seq(Callers)
  /\ \A i, j \in DOMAIN lock : lock[i] = lock[j] => i = j
  /\ pool \subseteq Relayers /\ queue \subseteq pool
  /\ known \in [Relayers -> Nat \cup {ErrorValue}]
  /\ balance \in [Relayers -> Nat]
  /\ ownerPending \in Fundings \cup {NoFunding}
  /\ ownerMined \in Nat
  /\ fundingNonce \in [Fundings -> Nat \cup {NoNonce}]
  /\ funded \subseteq Relayers /\ told \subseteq Events

\* One call at a time looks up the nonce of the main account and sends with it, also
\* when a call has left fundRelayers without releasing the lock.
FundingExclusive ==
  \A c, d \in Callers : pc[c] = "funding" /\ pc[d] = "funding" => c = d

\* README.md:5, one can "get updates on the transaction events like transaction hash
\* generated, transaction mined": when a mined event calls for a funding, the socket
\* consumer tells the client after it, so every call of fundRelayers must end.
ClientToldOfMined == \A e \in Events : pc[e] = "waiting" ~> e \in told

\* test/relayer-manager/relayer-manager.ts:140, "should fund relayers", expects no
\* relayer of the list below the threshold: each one that was is funded at start.
StartedRelayerFunded ==
  \A r \in AtStart :
    pc[Setup] = "waiting" /\ balance[r] <= FundingBalanceThreshold ~> r \in funded
=============================================================================
