--------------------- MODULE TransactionLifecycleProofs ---------------------
(***************************************************************************)
(* A transaction is executed once, for any number of transactions,         *)
(* accounts, attempts and restarts, whatever calls fail and whichever      *)
(* attempts are mined.  The reason is the nonce: it is read once, before   *)
(* the first broadcast, every attempt carries it, and the ledger has one   *)
(* place for it.  The nonce is a mined count, so transactions that are not *)
(* mined share it: no more of them than the relayer's threshold.           *)
(***************************************************************************)
EXTENDS TransactionLifecycle, FiniteSetTheorems, TLAPS

(* The places in which an attempt of t may exist, and those in which t has  *)
(* an account.                                                              *)
Broadcasted(t) == pc[t] \in {"sent", "failed"}
HasSender(t) == pc[t] \in {"taken", "numbered", "sent", "failed"}

Exists(h) == h[2] <= attempts[IdOf(h)]

HandlerTypes ==
  /\ pc \in [Ids -> Places]
  /\ sender \in [Ids -> Accounts \cup {None}]
  /\ nonce \in [Hashes -> Nat \cup {Missing}]
  /\ \A t \in Ids : HasSender(t) => sender[t] \in Accounts

ChainTypes ==
  /\ attempts \in [Ids -> 0 .. MaxAttempts]
  /\ ledger \in [Accounts -> Seq(Hashes)]
  /\ \A t \in Ids : attempts[t] > 0 => Broadcasted(t)

(* Every attempt has the nonce of the first. *)
NonceInv == \A h \in Hashes : Exists(h) => nonce[h] = nonce[<<IdOf(h), 1>>]

(* What the service follows exists. *)
FollowedInv ==
  \A h \in accepted \cup announced \cup retryQueue \cup retrying :
    h \in Hashes /\ pc[IdOf(h)] = "sent" /\ Exists(h)

(* h is an attempt from account a with nonce n. *)
Attempt(h, a, n) == Exists(h) /\ sender[IdOf(h)] = a /\ nonce[h] = n

LedgerInv ==
  \A a \in Accounts : \A i \in DOMAIN ledger[a] : Attempt(ledger[a][i], a, i - 1)

LifecycleInv == HandlerTypes /\ ChainTypes /\ NonceInv /\ FollowedInv /\ LedgerInv

-----------------------------------------------------------------------------
LEMMA HashParts ==
  \A h \in Hashes : /\ IdOf(h) \in Ids /\ h[2] \in 1 .. MaxAttempts /\ h # None
                   /\ <<IdOf(h), 1>> \in Hashes /\ h = <<IdOf(h), h[2]>>
BY LifecycleAssumption DEF Hashes, IdOf

LEMMA FirstHash == \A t \in Ids : <<t, 1>> \in Hashes /\ IdOf(<<t, 1>>) = t
BY LifecycleAssumption DEF Hashes, IdOf

\* What exists was sent, from an account.
LEMMA Existing ==
  ASSUME LifecycleInv, NEW h \in Hashes, Exists(h)
  PROVE  Broadcasted(IdOf(h)) /\ sender[IdOf(h)] \in Accounts
<1>1. IdOf(h) \in Ids /\ h[2] \in 1 .. MaxAttempts
  BY HashParts
<1>2. attempts[IdOf(h)] > 0
  BY <1>1 DEF Exists, LifecycleInv, ChainTypes
<1> QED BY <1>1, <1>2 DEF LifecycleInv, ChainTypes, HandlerTypes, Broadcasted, HasSender

\* Initially nothing is sent.
LEMMA InitInv == Init => LifecycleInv
<1> SUFFICES ASSUME Init PROVE LifecycleInv
  OBVIOUS
<1>1. HandlerTypes /\ ChainTypes
  BY LifecycleAssumption DEF Init, HandlerTypes, ChainTypes, Places, HasSender, Broadcasted
<1>2. NonceInv
  BY HashParts DEF Init, NonceInv
<1> QED BY <1>1, <1>2 DEF Init, LifecycleInv, FollowedInv, LedgerInv

\* While attempts are only added and none changes its account or nonce, the ledger stays
\* what it is.
LEMMA LedgerKept ==
  ASSUME LifecycleInv, UNCHANGED ledger,
         \A h \in Hashes : Exists(h) =>
           Exists(h)' /\ sender'[IdOf(h)] = sender[IdOf(h)] /\ nonce'[h] = nonce[h]
  PROVE  LedgerInv'
<1> SUFFICES ASSUME NEW a \in Accounts, NEW i \in DOMAIN ledger[a]
             PROVE  Attempt(ledger[a][i], a, i - 1)'
  BY DEF LedgerInv
<1>1. ledger[a][i] \in Hashes
  BY DEF LifecycleInv, ChainTypes
<1>2. Attempt(ledger[a][i], a, i - 1)
  BY DEF LifecycleInv, LedgerInv
<1> QED BY <1>1, <1>2 DEF Attempt

\* A step that makes no attempt and changes no account or nonce of one keeps what is
\* known of the chain.
LEMMA ChainUntouched ==
  ASSUME LifecycleInv, UNCHANGED <<attempts, ledger>>,
         \A t \in Ids : Broadcasted(t) => Broadcasted(t)' /\ sender'[t] = sender[t],
         \A h \in Hashes : Exists(h) => nonce'[h] = nonce[h]
  PROVE  ChainTypes' /\ NonceInv' /\ LedgerInv'
<1>1. ChainTypes'
  BY DEF LifecycleInv, ChainTypes
<1>2. \A h \in Hashes : Exists(h) =>
        /\ Exists(h)' /\ Exists(<<IdOf(h), 1>>)
        /\ sender'[IdOf(h)] = sender[IdOf(h)] /\ nonce'[h] = nonce[h]
  <2> SUFFICES ASSUME NEW h \in Hashes, Exists(h)
               PROVE  /\ Exists(h)' /\ Exists(<<IdOf(h), 1>>)
                      /\ sender'[IdOf(h)] = sender[IdOf(h)] /\ nonce'[h] = nonce[h]
    OBVIOUS
  <2>1. IdOf(h) \in Ids /\ h[2] \in 1 .. MaxAttempts /\ IdOf(<<IdOf(h), 1>>) = IdOf(h)
    BY HashParts, FirstHash
  <2>2. attempts[IdOf(h)] \in Nat
    BY <2>1 DEF LifecycleInv, ChainTypes
  <2>3. Exists(<<IdOf(h), 1>>)
    BY <2>1, <2>2 DEF Exists
  <2> QED BY <2>1, <2>3, Existing DEF Exists
<1>3. NonceInv'
  BY <1>2, HashParts DEF NonceInv, Exists, LifecycleInv
<1> QED BY <1>1, <1>2, <1>3, LedgerKept

\* A node takes an attempt of t with the nonce of t: it has one attempt more.
LEMMA Broadcasts ==
  ASSUME LifecycleInv, NEW t \in Ids, NEW p, Broadcast(t, nonce[<<t, 1>>], p),
         attempts[t] < MaxAttempts, UNCHANGED sender,
         \A u \in Ids : Broadcasted(u) => Broadcasted(u)', Broadcasted(t)'
  PROVE  /\ ChainTypes' /\ NonceInv' /\ LedgerInv'
         /\ nonce' \in [Hashes -> Nat \cup {Missing}]
         /\ attempts'[t] = attempts[t] + 1 /\ \A u \in Ids : u # t => attempts'[u] = attempts[u]
         /\ \A u \in Ids : nonce'[<<u, 1>>] = nonce[<<u, 1>>]
<1>a. PICK h : h = <<t, attempts[t] + 1>>
  OBVIOUS
<1>1. /\ attempts' = [attempts EXCEPT ![t] = @ + 1]
      /\ nonce' = [nonce EXCEPT ![h] = nonce[<<t, 1>>]]
      /\ ledger' = ledger
  BY <1>a DEF Broadcast
<1>2. /\ h \in Hashes /\ IdOf(h) = t /\ ~Exists(h)
      /\ attempts[t] \in 0 .. MaxAttempts /\ nonce[<<t, 1>>] \in Nat \cup {Missing}
  BY <1>a, LifecycleAssumption DEF LifecycleInv, ChainTypes, HandlerTypes, Hashes, IdOf, Exists
<1>3. /\ nonce' \in [Hashes -> Nat \cup {Missing}] /\ attempts' \in [Ids -> 0 .. MaxAttempts]
      /\ attempts'[t] = attempts[t] + 1 /\ \A u \in Ids : u # t => attempts'[u] = attempts[u]
  BY <1>1, <1>2, LifecycleAssumption DEF LifecycleInv, HandlerTypes, ChainTypes
<1>4. ChainTypes'
  <2>1. \A u \in Ids : attempts'[u] > 0 => Broadcasted(u)'
    BY <1>3 DEF LifecycleInv, ChainTypes
  <2> QED BY <1>1, <1>3, <2>1 DEF LifecycleInv, ChainTypes
<1>5. \A u \in Ids : nonce'[<<u, 1>>] = nonce[<<u, 1>>]
  BY <1>a, <1>1, <1>2, FirstHash DEF LifecycleInv, HandlerTypes
<1>6. \A k \in Hashes : k # h => nonce'[k] = nonce[k] /\ (Exists(k)' => Exists(k))
  <2> SUFFICES ASSUME NEW k \in Hashes, k # h
               PROVE  nonce'[k] = nonce[k] /\ (Exists(k)' => Exists(k))
    OBVIOUS
  <2>1. nonce'[k] = nonce[k]
    BY <1>1 DEF LifecycleInv, HandlerTypes
  <2>2. CASE IdOf(k) = t
    <3>1. k = <<t, k[2]>> /\ k[2] \in 1 .. MaxAttempts
      BY <2>2, HashParts
    <3>2. k[2] # attempts[t] + 1
      BY <1>a, <3>1
    <3> QED BY <1>2, <1>3, <2>1, <2>2, <3>1, <3>2 DEF Exists
  <2>3. CASE IdOf(k) # t
    BY <1>3, <2>1, <2>3, HashParts DEF Exists
  <2> QED BY <2>2, <2>3
<1>7. NonceInv'
  <2> SUFFICES ASSUME NEW k \in Hashes, Exists(k)' PROVE nonce'[k] = nonce'[<<IdOf(k), 1>>]
    BY DEF NonceInv
  <2>1. CASE k = h
    BY <1>1, <1>2, <1>5, <2>1 DEF LifecycleInv, HandlerTypes
  <2>2. CASE k # h
    BY <1>5, <1>6, <2>2, HashParts DEF LifecycleInv, NonceInv
  <2> QED BY <2>1, <2>2
<1>8. \A k \in Hashes : Exists(k) => Exists(k)' /\ k # h
  <2> SUFFICES ASSUME NEW k \in Hashes, Exists(k) PROVE Exists(k)'
    BY <1>2
  <2>a. PICK u : u = IdOf(k)
    OBVIOUS
  <2>1. u \in Ids /\ k[2] \in 1 .. MaxAttempts
    BY <2>a, HashParts
  <2>2. attempts[u] \in Nat /\ (attempts'[u] = attempts[u] \/ attempts'[u] = attempts[u] + 1)
    BY <1>3, <2>1 DEF LifecycleInv, ChainTypes
  <2> QED BY <2>a, <2>1, <2>2 DEF Exists
<1>9. LedgerInv'
  BY <1>1, <1>6, <1>8, LedgerKept
<1> QED BY <1>3, <1>4, <1>5, <1>7, <1>9

-----------------------------------------------------------------------------
\* A handler step before the broadcast, or one that tells of its failure, keeps the
\* invariant.
LEMMA SendStep ==
  ASSUME LifecycleInv, NEW t \in Ids, Send(t) \/ SendAnswerLost(t)
  PROVE  LifecycleInv'
<1> USE DEF handlerVars, chainVars, retryVars, listenerVars
<1>0. /\ <<t, 1>> \in Hashes /\ IdOf(<<t, 1>>) = t /\ First(<<t, 1>>)
      /\ pc \in [Ids -> Places] /\ sender \in [Ids -> Accounts \cup {None}]
      /\ nonce \in [Hashes -> Nat \cup {Missing}]
  BY FirstHash DEF First, LifecycleInv, HandlerTypes
<1>q. \A u \in Ids : pc[u] = "sent" => Broadcasted(u)
  BY DEF Broadcasted
<1>1. CASE TakeRelayer(t)
  <2>1. HandlerTypes'
    BY <1>1 DEF TakeRelayer, LifecycleInv, HandlerTypes, HasSender, Places
  <2>2. FollowedInv'
    BY <1>1, HashParts DEF TakeRelayer, LifecycleInv, HandlerTypes, FollowedInv, Exists
  <2>3. \A u \in Ids : Broadcasted(u) => Broadcasted(u)' /\ sender'[u] = sender[u]
    BY <1>1 DEF TakeRelayer, LifecycleInv, HandlerTypes, Broadcasted
  <2>4. ChainTypes' /\ NonceInv' /\ LedgerInv'
    BY <1>1, <2>3, ChainUntouched DEF TakeRelayer
  <2> QED BY <2>1, <2>2, <2>4 DEF LifecycleInv
<1>2. CASE CreateTransaction(t)
  <2>0. /\ pc[t] = "taken" /\ pc' = [pc EXCEPT ![t] = "numbered"]
        /\ nonce' = [nonce EXCEPT ![<<t, 1>>] = MinedCount(t)]
        /\ UNCHANGED <<sender, attempts, ledger, accepted, announced, retryQueue, retrying>>
    BY <1>2 DEF CreateTransaction
  <2>1. HandlerTypes'
    <3>1. sender[t] \in Accounts
      BY <2>0 DEF LifecycleInv, HandlerTypes, HasSender
    <3>2. MinedCount(t) \in Nat
      BY <3>1 DEF MinedCount, LifecycleInv, ChainTypes
    <3>3. nonce' \in [Hashes -> Nat \cup {Missing}]
      BY <1>0, <2>0, <3>2
    <3> QED BY <2>0, <3>3 DEF LifecycleInv, HandlerTypes, HasSender, Places
  <2>2. FollowedInv'
    BY <1>0, <2>0, HashParts DEF LifecycleInv, FollowedInv, Exists
  <2>3. \A u \in Ids : Broadcasted(u) => Broadcasted(u)' /\ sender'[u] = sender[u]
    BY <1>0, <2>0 DEF Broadcasted
  <2>4. \A h \in Hashes : Exists(h) => nonce'[h] = nonce[h]
    <3>1. \A h \in Hashes : Exists(h) => IdOf(h) # t
      BY <2>0, Existing DEF Broadcasted
    <3> QED BY <1>0, <2>0, <3>1
  <2>5. ChainTypes' /\ NonceInv' /\ LedgerInv'
    BY <2>0, <2>3, <2>4, ChainUntouched
  <2> QED BY <2>1, <2>2, <2>5 DEF LifecycleInv
<1>3. CASE SendRejected(t)
  <2>1. HandlerTypes'
    BY <1>3 DEF SendRejected, TellError, LifecycleInv, HandlerTypes, HasSender, Places
  <2>2. FollowedInv'
    BY <1>3, HashParts DEF SendRejected, TellError, LifecycleInv, HandlerTypes, FollowedInv, Exists
  <2>3. \A u \in Ids : Broadcasted(u) => Broadcasted(u)' /\ sender'[u] = sender[u]
    BY <1>3 DEF SendRejected, TellError, LifecycleInv, HandlerTypes, Broadcasted
  <2>4. ChainTypes' /\ NonceInv' /\ LedgerInv'
    BY <1>3, <2>3, ChainUntouched DEF SendRejected
  <2> QED BY <2>1, <2>2, <2>4 DEF LifecycleInv
<1>4. CASE SendAccepted(t) \/ SendAnswerLost(t)
  <2>1. PICK p \in Prices : Broadcast(t, nonce[<<t, 1>>], p)
    BY <1>4 DEF SendAccepted, SendAnswerLost, FirstBroadcast
  <2>2. /\ pc[t] = "numbered" /\ UNCHANGED sender
        /\ \/ pc' = [pc EXCEPT ![t] = "sent"] /\ accepted' = accepted \cup {<<t, 1>>}
           \/ pc' = [pc EXCEPT ![t] = "failed"] /\ accepted' = accepted
        /\ UNCHANGED <<announced, retryQueue, retrying>>
    BY <1>4 DEF SendAccepted, SendAnswerLost, TellError
  <2>3. attempts[t] = 0
    BY <2>2 DEF LifecycleInv, ChainTypes, Broadcasted
  <2>4. \A u \in Ids : Broadcasted(u) => Broadcasted(u)'
    BY <1>0, <2>2 DEF Broadcasted
  <2>5. Broadcasted(t)'
    BY <1>0, <2>2 DEF Broadcasted
  <2>6. /\ ChainTypes' /\ NonceInv' /\ LedgerInv'
        /\ nonce' \in [Hashes -> Nat \cup {Missing}]
        /\ attempts'[t] = 1 /\ \A u \in Ids : u # t => attempts'[u] = attempts[u]
    BY <2>1, <2>2, <2>3, <2>4, <2>5, LifecycleAssumption, Broadcasts
  <2>7. HandlerTypes'
    BY <2>2, <2>6 DEF LifecycleInv, HandlerTypes, HasSender, Places
  <2>8. FollowedInv'
    <3> SUFFICES ASSUME NEW h \in accepted' \cup announced' \cup retryQueue' \cup retrying'
                 PROVE  h \in Hashes /\ pc'[IdOf(h)] = "sent" /\ Exists(h)'
      BY DEF FollowedInv
    <3>1. CASE h \in accepted \cup announced \cup retryQueue \cup retrying
      <4>1. h \in Hashes /\ pc[IdOf(h)] = "sent" /\ Exists(h) /\ IdOf(h) \in Ids
        BY <3>1, HashParts DEF LifecycleInv, FollowedInv
      <4>2. IdOf(h) # t
        BY <2>2, <4>1
      <4> QED BY <1>0, <2>2, <2>6, <4>1, <4>2 DEF Exists
    <3>2. CASE h = <<t, 1>> /\ pc' = [pc EXCEPT ![t] = "sent"]
      BY <1>0, <2>6, <3>2 DEF Exists
    <3> QED BY <2>2, <3>1, <3>2
  <2> QED BY <2>6, <2>7, <2>8 DEF LifecycleInv
<1> QED BY <1>1, <1>2, <1>3, <1>4 DEF Send

\* What a resubmission broadcasts.
LEMMA RetryBroadcasts ==
  ASSUME LifecycleInv, NEW h \in Hashes, RetryBroadcast(h)
  PROVE  /\ pc[IdOf(h)] = "sent" /\ Exists(h) /\ sender[IdOf(h)] \in Accounts
         /\ nonce[<<IdOf(h), 1>>] = MinedCount(IdOf(h))
         /\ Broadcast(IdOf(h), nonce[<<IdOf(h), 1>>], BumpedUp(h))
         /\ ChainTypes' /\ NonceInv' /\ LedgerInv'
         /\ nonce' \in [Hashes -> Nat \cup {Missing}]
         /\ attempts'[IdOf(h)] = attempts[IdOf(h)] + 1
         /\ \A u \in Ids : u # IdOf(h) => attempts'[u] = attempts[u]
         /\ \A u \in Ids : nonce'[<<u, 1>>] = nonce[<<u, 1>>]
<1>a. PICK t : t = IdOf(h)
  OBVIOUS
<1>b. PICK p : p = BumpedUp(h)
  OBVIOUS
<1>1. /\ t \in Ids /\ pc[t] = "sent" /\ Exists(h) /\ h \in retrying
      /\ UNCHANGED <<pc, sender>> /\ attempts[t] < MaxAttempts
  BY <1>a, HashParts DEF RetryBroadcast, LifecycleInv, FollowedInv, handlerVars
<1>2. sender[t] \in Accounts
  BY <1>a, <1>1, Existing
<1>3. nonce[h] = nonce[<<t, 1>>]
  BY <1>a, <1>1 DEF LifecycleInv, NonceInv
<1>4. Broadcast(t, nonce[<<t, 1>>], p) /\ nonce[<<t, 1>>] = MinedCount(t)
  BY <1>a, <1>b, <1>3 DEF RetryBroadcast, RetryNonce, Accepts
<1>5. Broadcasted(t)' /\ \A u \in Ids : Broadcasted(u) => Broadcasted(u)'
  BY <1>1 DEF Broadcasted
<1>6. /\ ChainTypes' /\ NonceInv' /\ LedgerInv'
      /\ nonce' \in [Hashes -> Nat \cup {Missing}]
      /\ attempts'[t] = attempts[t] + 1 /\ \A u \in Ids : u # t => attempts'[u] = attempts[u]
      /\ \A u \in Ids : nonce'[<<u, 1>>] = nonce[<<u, 1>>]
  BY <1>1, <1>4, <1>5, Broadcasts
<1> QED BY <1>a, <1>b, <1>1, <1>2, <1>4, <1>6

\* Listener, retry and fault steps leave the handlers alone; a resubmission carries the
\* nonce of its id.
LEMMA FollowStep ==
  ASSUME LifecycleInv, NEW h \in Hashes, Listen(h) \/ Retry(h) \/ Fault(h)
  PROVE  LifecycleInv'
<1> USE DEF handlerVars, chainVars, retryVars, listenerVars
<1>1. UNCHANGED <<pc, sender>>
  BY DEF Listen, Announce, Track, ReceiptArrives, WaiterFails, StopWaiting, Retry, RetryStarts,
         RetryStops, RetryAccepted, RetryRejected, RetryBroadcast, Fault, PublishFails,
         RetryAnswerLost
<1>3. CASE RetryBroadcast(h)
  <2>1. HandlerTypes'
    BY <1>1, <1>3, RetryBroadcasts DEF LifecycleInv, HandlerTypes, HasSender
  <2>2. FollowedInv'
    <3>a. PICK t : t = IdOf(h)
      OBVIOUS
    <3>b. PICK k : k = <<t, attempts[t] + 1>>
      OBVIOUS
    <3>1. /\ t \in Ids /\ pc[t] = "sent" /\ attempts[t] < MaxAttempts /\ attempts[t] \in Nat
          /\ attempts'[t] = attempts[t] + 1 /\ \A u \in Ids : u # t => attempts'[u] = attempts[u]
      <4>1. t \in Ids /\ attempts[t] < MaxAttempts
        BY <1>3, <3>a, HashParts DEF RetryBroadcast
      <4>2. attempts[t] \in Nat
        BY <4>1 DEF LifecycleInv, ChainTypes
      <4>3. /\ pc[t] = "sent" /\ attempts'[t] = attempts[t] + 1
            /\ \A u \in Ids : u # t => attempts'[u] = attempts[u]
        BY <1>3, <3>a, RetryBroadcasts
      <4> QED BY <4>1, <4>2, <4>3
    <3>2. k \in Hashes /\ IdOf(k) = t /\ Exists(k)'
      BY <3>b, <3>1, LifecycleAssumption DEF Hashes, IdOf, Exists
    <3>3. accepted' \subseteq accepted \cup {k}
      BY <1>3, <3>a, <3>b, <3>1
         DEF Listen, Announce, Track, ReceiptArrives, WaiterFails, StopWaiting, Retry, RetryStarts,
             RetryStops, RetryAccepted, RetryRejected, Fault, PublishFails, RetryAnswerLost
    <3>4. retrying' \subseteq retrying /\ UNCHANGED <<announced, retryQueue>>
      BY <1>3 DEF RetryBroadcast
    <3>5. \A m \in Hashes : Exists(m) => Exists(m)'
      <4> SUFFICES ASSUME NEW m \in Hashes, Exists(m) PROVE Exists(m)'
        OBVIOUS
      <4>a. PICK u : u = IdOf(m)
        OBVIOUS
      <4>1. u \in Ids /\ m[2] \in 1 .. MaxAttempts
        BY <4>a, HashParts
      <4>2. attempts[u] \in Nat /\ (attempts'[u] = attempts[u] \/ attempts'[u] = attempts[u] + 1)
        BY <3>1, <4>1 DEF LifecycleInv, ChainTypes
      <4> QED BY <4>a, <4>1, <4>2 DEF Exists
    <3> QED BY <1>1, <3>1, <3>2, <3>3, <3>4, <3>5 DEF LifecycleInv, FollowedInv
  <2> QED BY <1>3, <2>1, <2>2, RetryBroadcasts DEF LifecycleInv
<1>4. CASE ~RetryBroadcast(h)
  <2>1. UNCHANGED chainVars
    BY <1>4 DEF Listen, Announce, Track, ReceiptArrives, WaiterFails, StopWaiting, Retry,
                RetryStarts, RetryStops, RetryAccepted, RetryRejected, Fault, PublishFails,
                RetryAnswerLost
  <2>2. accepted' \cup announced' \cup retryQueue' \cup retrying'
          \subseteq accepted \cup announced \cup retryQueue \cup retrying
    BY <1>4 DEF Listen, Announce, Track, ToAnnounce, ToTrack, ReceiptArrives, WaiterFails,
                StopWaiting, Retry, RetryStarts, RetryStops, Consumed, RetryAccepted,
                RetryRejected, Fault, PublishFails, RetryAnswerLost
  <2>3. FollowedInv' /\ HandlerTypes'
    BY <1>1, <2>1, <2>2 DEF LifecycleInv, FollowedInv, HandlerTypes, HasSender, Exists
  <2>4. ChainTypes' /\ NonceInv' /\ LedgerInv'
    BY <1>1, <2>1, ChainUntouched DEF Broadcasted
  <2> QED BY <2>3, <2>4 DEF LifecycleInv
<1> QED BY <1>3, <1>4

\* A block takes an attempt in flight.
LEMMA MineTakes ==
  ASSUME LifecycleInv, NEW a \in Accounts, MineNext(a)
  PROVE  \E h \in Hashes :
           /\ Attempt(h, a, Len(ledger[a]))
           /\ ledger' = [ledger EXCEPT ![a] = Append(@, h)]
           /\ ledger'[a] = Append(ledger[a], h) /\ Len(ledger'[a]) = Len(ledger[a]) + 1
           /\ ledger'[a][Len(ledger[a]) + 1] = h
           /\ \A i \in DOMAIN ledger[a] : i \in DOMAIN ledger'[a] /\ ledger'[a][i] = ledger[a][i]
           /\ \A b \in Accounts : b # a => ledger'[b] = ledger[b]
<1>1. PICK h \in Hashes : h \in InFlight(a) /\ ledger' = [ledger EXCEPT ![a] = Append(@, h)]
  BY DEF MineNext, InFlight
<1>2. Attempt(h, a, Len(ledger[a]))
  BY <1>1 DEF InFlight, Attempt, Exists
<1>3. ledger[a] \in Seq(Hashes) /\ ledger'[a] = Append(ledger[a], h)
  BY <1>1 DEF LifecycleInv, ChainTypes
<1>4. \A b \in Accounts : b # a => ledger'[b] = ledger[b]
  BY <1>1 DEF LifecycleInv, ChainTypes
<1>5. /\ Len(ledger'[a]) = Len(ledger[a]) + 1 /\ ledger'[a][Len(ledger[a]) + 1] = h
      /\ \A i \in DOMAIN ledger[a] : i \in DOMAIN ledger'[a] /\ ledger'[a][i] = ledger[a][i]
  BY <1>3
<1> QED BY <1>1, <1>2, <1>3, <1>4, <1>5

\* A block puts an attempt in the place its nonce names.
LEMMA MineStep ==
  ASSUME LifecycleInv, NEW a \in Accounts, MineNext(a)
  PROVE  LifecycleInv'
<1> USE DEF handlerVars, retryVars, listenerVars
<1>1. PICK h \in Hashes :
           /\ Attempt(h, a, Len(ledger[a]))
           /\ ledger' = [ledger EXCEPT ![a] = Append(@, h)]
           /\ ledger'[a] = Append(ledger[a], h)
           /\ \A b \in Accounts : b # a => ledger'[b] = ledger[b]
  BY MineTakes
<1>2. UNCHANGED <<pc, sender, nonce, attempts, accepted, announced, retryQueue, retrying>>
  BY DEF MineNext
<1>3. HandlerTypes' /\ FollowedInv' /\ NonceInv'
  BY <1>2 DEF LifecycleInv, HandlerTypes, HasSender, FollowedInv, NonceInv, Exists
<1>4. ChainTypes'
  BY <1>1, <1>2 DEF LifecycleInv, ChainTypes, Broadcasted
<1>5. LedgerInv'
  <2> SUFFICES ASSUME NEW b \in Accounts, NEW i \in DOMAIN ledger'[b]
               PROVE  Attempt(ledger[b][i], b, i - 1)'
    BY DEF LedgerInv
  <2>0. ledger[a] \in Seq(Hashes) /\ ledger[b] \in Seq(Hashes)
    BY DEF LifecycleInv, ChainTypes
  <2>1. CASE b = a /\ i = Len(ledger[a]) + 1
    <3>1. ledger'[b][i] = h /\ Len(ledger[a]) = i - 1
      BY <1>1, <2>0, <2>1
    <3> QED BY <1>1, <1>2, <2>1, <3>1 DEF Attempt, Exists
  <2>2. CASE ~(b = a /\ i = Len(ledger[a]) + 1)
    <3>1. i \in DOMAIN ledger[b] /\ ledger'[b][i] = ledger[b][i]
      BY <1>1, <2>0, <2>2
    <3>2. Attempt(ledger[b][i], b, i - 1)
      BY <3>1 DEF LifecycleInv, LedgerInv
    <3> QED BY <1>2, <3>1, <3>2 DEF Attempt, Exists
  <2> QED BY <2>1, <2>2
<1> QED BY <1>3, <1>4, <1>5 DEF LifecycleInv

\* What was sent stays sent across a restart.
LEMMA RestartStep ==
  ASSUME LifecycleInv, Restart
  PROVE  LifecycleInv'
<1> USE DEF chainVars
<1>1. HandlerTypes'
  BY DEF Restart, LifecycleInv, HandlerTypes, HasSender, Places
<1>2. FollowedInv'
  BY HashParts DEF Restart, LifecycleInv, HandlerTypes, FollowedInv, Exists
<1>3. \A t \in Ids : Broadcasted(t) => Broadcasted(t)' /\ sender'[t] = sender[t]
  BY DEF Restart, LifecycleInv, HandlerTypes, Broadcasted
<1>4. ChainTypes' /\ NonceInv' /\ LedgerInv'
  BY <1>3, ChainUntouched DEF Restart
<1> QED BY <1>1, <1>2, <1>4 DEF LifecycleInv

LEMMA Invariance == LifecycleInv /\ [Next]_vars => LifecycleInv'
<1> SUFFICES ASSUME LifecycleInv, [Next]_vars PROVE LifecycleInv'
  OBVIOUS
<1>1. CASE UNCHANGED vars
  BY <1>1 DEF vars, handlerVars, chainVars, retryVars, listenerVars, LifecycleInv, HandlerTypes,
              HasSender, ChainTypes, NonceInv, FollowedInv, LedgerInv, Attempt, Broadcasted, Exists
<1>2. CASE Next
  BY <1>2, SendStep, FollowStep, MineStep, RestartStep DEF Next
<1> QED BY <1>1, <1>2

\* A mined attempt is in the place of the ledger that the nonce of its id names.
LEMMA MinedPlace ==
  ASSUME LifecycleInv, NEW h \in Hashes, InLedger(h)
  PROVE  /\ Exists(h) /\ Broadcasted(IdOf(h)) /\ sender[IdOf(h)] \in Accounts
         /\ nonce[<<IdOf(h), 1>>] \in Nat
         /\ nonce[<<IdOf(h), 1>>] < Len(ledger[sender[IdOf(h)]])
         /\ nonce[<<IdOf(h), 1>>] + 1 \in DOMAIN ledger[sender[IdOf(h)]]
         /\ ledger[sender[IdOf(h)]][nonce[<<IdOf(h), 1>>] + 1] = h
<1>1. PICK a \in Accounts : \E i \in DOMAIN ledger[a] : ledger[a][i] = h
  BY DEF InLedger
<1>2. PICK i \in DOMAIN ledger[a] : ledger[a][i] = h
  BY <1>1
<1>3. Exists(h) /\ sender[IdOf(h)] = a /\ nonce[h] = i - 1
  BY <1>2 DEF LifecycleInv, LedgerInv, Attempt
<1>4. nonce[<<IdOf(h), 1>>] = i - 1
  BY <1>3 DEF LifecycleInv, NonceInv
<1>5. i \in 1 .. Len(ledger[a]) /\ Len(ledger[a]) \in Nat
  BY <1>2 DEF LifecycleInv, ChainTypes
<1> QED BY <1>2, <1>3, <1>4, <1>5, Existing

\* Two mined attempts of an id are in one place of one ledger: they are one.
LEMMA MinedOnce == LifecycleInv => ExecutedOnce
<1> SUFFICES ASSUME LifecycleInv, NEW t \in Ids, NEW m \in 1 .. MaxAttempts,
                    NEW n \in 1 .. MaxAttempts, InLedger(<<t, m>>), InLedger(<<t, n>>)
             PROVE  m = n
  BY DEF ExecutedOnce
<1>1. \A k \in {m, n} : <<t, k>> \in Hashes /\ IdOf(<<t, k>>) = t
  BY DEF Hashes, IdOf
<1>2. <<t, m>> = <<t, n>>
  BY <1>1, MinedPlace
<1> QED BY <1>2

\* A transaction is executed once, however it is resubmitted, for any number of ids,
\* accounts and attempts.
THEOREM ExecutedAtMostOnce == Spec => []ExecutedOnce
<1>1. LifecycleInv /\ [Next]_vars => LifecycleInv'
  BY Invariance
<1> QED BY InitInv, <1>1, MinedOnce, PTL DEF Spec

-----------------------------------------------------------------------------
\* A first send is the first link of its id, an announcement, a message or a
\* resubmission replaces the link it comes from.
LEMMA ChainStep == LifecycleInv /\ OneRetryChain /\ [Next]_vars => OneRetryChain'
<1> SUFFICES ASSUME LifecycleInv, OneRetryChain, [Next]_vars PROVE OneRetryChain'
  OBVIOUS
<1> USE DEF handlerVars, chainVars, retryVars, listenerVars
<1>1. ASSUME Links' \subseteq Links PROVE OneRetryChain'
  BY <1>1 DEF OneRetryChain
<1>2. ASSUME NEW l \in Links, NEW m, IdOf(m[2]) = IdOf(l[2]),
             Links' \subseteq (Links \ {l}) \cup {m}
      PROVE  OneRetryChain'
  BY <1>2 DEF OneRetryChain
<1>3. CASE UNCHANGED vars
  BY <1>1, <1>3 DEF vars, Links
<1>4. ASSUME NEW t \in Ids, Send(t) \/ SendAnswerLost(t) PROVE OneRetryChain'
  <2>1. CASE SendAccepted(t)
    <3>1. Links' \subseteq Links \cup {<<"accepted", <<t, 1>>>>}
      BY <2>1 DEF SendAccepted, Links
    <3>2. \A l \in Links : pc[IdOf(l[2])] = "sent"
      BY DEF LifecycleInv, FollowedInv, Links
    <3>3. \A l \in Links : IdOf(l[2]) # t
      BY <2>1, <3>2 DEF SendAccepted
    <3>4. IdOf(<<"accepted", <<t, 1>>>>[2]) = t
      BY DEF IdOf
    <3> QED BY <3>1, <3>3, <3>4 DEF OneRetryChain
  <2>2. CASE ~SendAccepted(t)
    <3>1. UNCHANGED <<accepted, announced, retryQueue, retrying>>
      BY <1>4, <2>2 DEF Send, TakeRelayer, CreateTransaction, SendRejected, SendAnswerLost, TellError
    <3> QED BY <1>1, <3>1 DEF Links
  <2> QED BY <2>1, <2>2
<1>5. ASSUME NEW h \in Hashes, Listen(h) \/ Retry(h) \/ Fault(h) PROVE OneRetryChain'
  <2>1. CASE Announce(h)
    <3>1. <<"accepted", h>> \in Links
          /\ Links' \subseteq (Links \ {<<"accepted", h>>}) \cup {<<"announced", h>>}
      BY <2>1 DEF Announce, ToAnnounce, Links
    <3> QED BY <1>2, <3>1
  <2>2. CASE Track(h)
    <3>1. <<"announced", h>> \in Links
          /\ Links' \subseteq (Links \ {<<"announced", h>>}) \cup {<<"retryQueue", h>>}
      BY <2>2 DEF Track, ToTrack, Links
    <3> QED BY <1>2, <3>1
  <2>3. CASE RetryStarts(h)
    <3>1. <<"retryQueue", h>> \in Links
          /\ Links' \subseteq (Links \ {<<"retryQueue", h>>}) \cup {<<"retrying", h>>}
      BY <2>3 DEF RetryStarts, Consumed, Links
    <3> QED BY <1>2, <3>1
  <2>4. CASE RetryAccepted(h)
    <3> DEFINE k == <<IdOf(h), attempts'[IdOf(h)]>>
    <3>1. <<"retrying", h>> \in Links
          /\ Links' \subseteq (Links \ {<<"retrying", h>>}) \cup {<<"accepted", k>>}
      BY <2>4 DEF RetryAccepted, RetryBroadcast, Links
    <3>2. IdOf(k) = IdOf(h)
      BY DEF IdOf
    <3> QED BY <1>2, <3>1, <3>2
  <2>5. CASE ReceiptArrives(h) \/ RetryStops(h) \/ RetryRejected(h) \/ Fault(h)
    <3>1. Links' \subseteq Links
      BY <2>5 DEF ReceiptArrives, WaiterFails, StopWaiting, RetryStops, Consumed, RetryRejected,
                  Fault, PublishFails, RetryAnswerLost, RetryBroadcast, Links
    <3> QED BY <1>1, <3>1
  <2> QED BY <1>5, <2>1, <2>2, <2>3, <2>4, <2>5 DEF Listen, Retry
<1>6. ASSUME NEW a \in Accounts, MineNext(a) PROVE OneRetryChain'
  BY <1>1, <1>6 DEF MineNext, Links
<1>7. CASE Restart
  BY <1>1, <1>7 DEF Restart, Links
<1> QED BY <1>3, <1>4, <1>5, <1>6, <1>7 DEF Next

\* An id has one chain of resubmissions at most, for any number of ids and whatever
\* calls fail.
THEOREM OneChain == Spec => []OneRetryChain
<1>1. Init => OneRetryChain
  BY DEF Init, OneRetryChain, Links
<1>2. LifecycleInv /\ [Next]_vars => LifecycleInv'
  BY Invariance
<1> QED BY InitInv, <1>1, <1>2, ChainStep, PTL DEF Spec
-----------------------------------------------------------------------------
(* Why a nonce is shared within the threshold: an attempt is taken with the *)
(* mined count, so the transactions with its nonce are not mined, and then  *)
(* they are counted on their account.                                       *)
CountedOn(a) == {u \in counted : sender[u] = a}

Holders(a, n) == {u \in Ids : sender[u] = a /\ attempts[u] > 0 /\ nonce[<<u, 1>>] = n}

WithinThreshold(S) == IsFiniteSet(S) /\ Cardinality(S) <= PendingTransactionCountThreshold

SharedInv ==
  /\ IsFiniteSet(counted) /\ counted \subseteq Ids
  /\ \A t \in counted : pc[t] # "queued"
  /\ \A t \in Ids : pc[t] # "queued" => t \in counted \/ Mined(t)
  /\ \A a \in Accounts : WithinThreshold(CountedOn(a))
  /\ \A a \in Accounts : \A n \in Nat \cup {Missing} : WithinThreshold(Holders(a, n))

\* What is mined stays so.
LEMMA MinedStays ==
  ASSUME LifecycleInv, [Next]_vars, NEW h, InLedger(h)
  PROVE  InLedger(h)'
<1> USE DEF handlerVars, chainVars, retryVars, listenerVars
<1>1. ASSUME UNCHANGED ledger PROVE InLedger(h)'
  BY <1>1 DEF InLedger
<1>2. ASSUME NEW a \in Accounts, MineNext(a) PROVE InLedger(h)'
  <2>1. PICK b \in Accounts : \E i \in DOMAIN ledger[b] : ledger[b][i] = h
    BY DEF InLedger
  <2>2. PICK i \in DOMAIN ledger[b] : ledger[b][i] = h
    BY <2>1
  <2>3. i \in DOMAIN ledger'[b] /\ ledger'[b][i] = h
    BY <1>2, <2>2, MineTakes
  <2> QED BY <2>3 DEF InLedger
<1>3. ASSUME NEW t \in Ids, Send(t) \/ SendAnswerLost(t) PROVE UNCHANGED ledger
  BY <1>3 DEF Send, TakeRelayer, CreateTransaction, SendAccepted, SendRejected, SendAnswerLost,
              FirstBroadcast, Broadcast
<1>4. ASSUME NEW k \in Hashes, Listen(k) \/ Retry(k) \/ Fault(k) PROVE UNCHANGED ledger
  BY <1>4 DEF Listen, Announce, Track, ReceiptArrives, WaiterFails, StopWaiting, Retry, RetryStarts,
     RetryStops, RetryAccepted, RetryRejected, RetryBroadcast, Broadcast, Fault, PublishFails, RetryAnswerLost
<1>5. CASE Restart
  BY <1>1, <1>5 DEF Restart
<1>6. CASE UNCHANGED vars
  BY <1>1, <1>6 DEF vars
<1> QED BY <1>1, <1>2, <1>3, <1>4, <1>5, <1>6 DEF Next

LEMMA SmallerWithin ==
  ASSUME NEW S, NEW T, WithinThreshold(S), T \subseteq S
  PROVE  WithinThreshold(T)
<1>1. IsFiniteSet(T) /\ Cardinality(T) <= Cardinality(S)
  BY FS_Subset DEF WithinThreshold
<1>2. Cardinality(S) \in Nat /\ Cardinality(T) \in Nat
  BY <1>1, FS_CardinalityType DEF WithinThreshold
<1> QED BY <1>1, <1>2, LifecycleAssumption DEF WithinThreshold

\* A step that gives no account, makes no first attempt and forgets only what is mined.
LEMMA SharedKept ==
  ASSUME SharedInv, UNCHANGED sender, counted' \subseteq counted,
         \A t \in Ids : Mined(t) => Mined(t)',
         \A t \in counted : t \notin counted' => Mined(t)',
         \A t \in Ids : pc'[t] = "queued" <=> pc[t] = "queued",
         \A t \in Ids : /\ attempts'[t] > 0 => attempts[t] > 0
                        /\ attempts[t] > 0 => nonce'[<<t, 1>>] = nonce[<<t, 1>>]
  PROVE  SharedInv'
<1>1. IsFiniteSet(counted') /\ counted' \subseteq Ids
  BY FS_Subset DEF SharedInv
<1>2. \A t \in counted' : pc'[t] # "queued"
  BY DEF SharedInv
<1>3. \A t \in Ids : pc'[t] # "queued" => t \in counted' \/ Mined(t)'
  BY DEF SharedInv
<1>4. ASSUME NEW a \in Accounts PROVE WithinThreshold(CountedOn(a))'
  <2>1. CountedOn(a)' \subseteq CountedOn(a)
    BY DEF CountedOn
  <2>2. WithinThreshold(CountedOn(a))
    BY DEF SharedInv
  <2>3. PICK S : S = CountedOn(a)'
    OBVIOUS
  <2>4. WithinThreshold(S)
    BY <2>1, <2>2, <2>3, SmallerWithin
  <2> QED BY <2>3, <2>4 DEF WithinThreshold
<1>5. ASSUME NEW a \in Accounts, NEW n \in Nat \cup {Missing} PROVE WithinThreshold(Holders(a, n))'
  <2>1. Holders(a, n)' \subseteq Holders(a, n)
    BY DEF Holders
  <2>2. WithinThreshold(Holders(a, n))
    BY DEF SharedInv
  <2>3. PICK S : S = Holders(a, n)'
    OBVIOUS
  <2>4. WithinThreshold(S)
    BY <2>1, <2>2, <2>3, SmallerWithin
  <2> QED BY <2>3, <2>4 DEF WithinThreshold
<1> QED BY <1>1, <1>2, <1>3, <1>4, <1>5 DEF SharedInv

\* An account is given while fewer than the threshold are counted on it.
LEMMA TakeShared ==
  ASSUME LifecycleInv, SharedInv, NEW t \in Ids, TakeRelayer(t)
  PROVE  SharedInv'
<1>1. PICK a \in Accounts : Available(a) /\ sender' = [sender EXCEPT ![t] = a]
  BY DEF TakeRelayer
<1>2. /\ pc[t] = "queued" /\ pc' = [pc EXCEPT ![t] = "taken"] /\ counted' = counted \cup {t}
      /\ UNCHANGED <<nonce, attempts, ledger>>
  BY DEF TakeRelayer, chainVars
<1>3. t \notin counted /\ ~(attempts[t] > 0)
  BY <1>2 DEF SharedInv, LifecycleInv, ChainTypes, Broadcasted
<1>4. /\ \A u \in Ids : u # t => pc'[u] = pc[u] /\ sender'[u] = sender[u]
      /\ pc'[t] = "taken" /\ sender'[t] = a
  BY <1>1, <1>2 DEF LifecycleInv, HandlerTypes
<1>5. IsFiniteSet(counted') /\ counted' \subseteq Ids
  BY <1>2, FS_AddElement DEF SharedInv
<1>6. \A u \in counted' : pc'[u] # "queued"
  BY <1>2, <1>4 DEF SharedInv
<1>7. \A u \in Ids : pc'[u] # "queued" => u \in counted' \/ Mined(u)'
  BY <1>2, <1>4 DEF SharedInv, Mined, InLedger
<1>8. ASSUME NEW b \in Accounts PROVE WithinThreshold(CountedOn(b))'
  <2>a. PICK S, T : S = CountedOn(b)' /\ T = CountedOn(b)
    OBVIOUS
  <2>1. WithinThreshold(T)
    BY <2>a DEF SharedInv
  <2>2. CASE b = a
    <3>1. S = T \cup {t} /\ t \notin T
      BY <1>2, <1>3, <1>4, <2>a, <2>2 DEF CountedOn, SharedInv
    <3>2. Cardinality(T) < PendingTransactionCountThreshold
      BY <1>1, <2>a, <2>2 DEF Available, BelowThreshold, CountedOn
    <3>3. IsFiniteSet(T) /\ Cardinality(T) \in Nat
      BY <2>1, FS_CardinalityType DEF WithinThreshold
    <3>4. IsFiniteSet(S) /\ Cardinality(S) = Cardinality(T) + 1
      BY <3>1, <3>3, FS_AddElement
    <3> QED BY <2>a, <3>2, <3>3, <3>4, LifecycleAssumption DEF WithinThreshold
  <2>3. CASE b # a
    <3>1. S \subseteq T
      BY <1>2, <1>4, <2>a, <2>3 DEF CountedOn, SharedInv
    <3>2. WithinThreshold(S)
      BY <2>1, <3>1, SmallerWithin
    <3> QED BY <2>a, <3>2 DEF WithinThreshold
  <2> QED BY <2>2, <2>3
<1>9. ASSUME NEW b \in Accounts, NEW n \in Nat \cup {Missing} PROVE WithinThreshold(Holders(b, n))'
  <2>a. PICK S : S = Holders(b, n)'
    OBVIOUS
  <2>1. S \subseteq Holders(b, n)
    BY <1>2, <1>3, <1>4, <2>a DEF Holders
  <2>2. WithinThreshold(S)
    BY <2>1, SmallerWithin DEF SharedInv
  <2> QED BY <2>a, <2>2 DEF WithinThreshold
<1> QED BY <1>5, <1>6, <1>7, <1>8, <1>9 DEF SharedInv

\* A first attempt is taken with the mined count: who has that nonce too is not mined.
LEMMA FirstShared ==
  ASSUME LifecycleInv, SharedInv, NEW t \in Ids, SendAccepted(t) \/ SendAnswerLost(t)
  PROVE  SharedInv'
<1>1. PICK p \in Prices : Broadcast(t, nonce[<<t, 1>>], p)
  BY DEF SendAccepted, SendAnswerLost, FirstBroadcast
<1>2. /\ pc[t] = "numbered" /\ nonce[<<t, 1>>] = Len(ledger[sender[t]])
      /\ (pc' = [pc EXCEPT ![t] = "sent"] \/ pc' = [pc EXCEPT ![t] = "failed"])
      /\ UNCHANGED <<sender, counted, ledger>>
  BY <1>1 DEF SendAccepted, SendAnswerLost, TellError, FirstBroadcast, Accepts, MinedCount, Broadcast
<1>3. pc \in [Ids -> Places] /\ sender[t] \in Accounts /\ attempts[t] = 0
  <2>1. pc \in [Ids -> Places] /\ sender[t] \in Accounts
    BY <1>2 DEF LifecycleInv, HandlerTypes, HasSender
  <2>2. attempts[t] \in 0 .. MaxAttempts
    BY DEF LifecycleInv, ChainTypes
  <2>3. ~(attempts[t] > 0)
    BY <1>2 DEF LifecycleInv, ChainTypes, Broadcasted
  <2> QED BY <2>1, <2>2, <2>3, LifecycleAssumption
<1>4. \A u \in Ids : Broadcasted(u) => Broadcasted(u)'
  BY <1>2, <1>3 DEF Broadcasted
<1>5. Broadcasted(t)'
  BY <1>2, <1>3 DEF Broadcasted
<1>6. /\ \A u \in Ids : nonce'[<<u, 1>>] = nonce[<<u, 1>>]
      /\ \A u \in Ids : u # t => attempts'[u] = attempts[u]
  <2>1. attempts[t] < MaxAttempts
    BY <1>3, LifecycleAssumption
  <2> QED BY <1>1, <1>2, <1>4, <1>5, <2>1, Broadcasts
<1>7. \A u \in Ids : pc'[u] = "queued" <=> pc[u] = "queued"
  BY <1>2, <1>3
<1>8. \A u \in Ids : pc'[u] # "queued" => u \in counted' \/ Mined(u)'
  BY <1>2, <1>7 DEF SharedInv, Mined, InLedger
<1>9. \A a \in Accounts : CountedOn(a)' = CountedOn(a)
  BY <1>2 DEF CountedOn
<1>10. ASSUME NEW a \in Accounts, NEW n \in Nat \cup {Missing} PROVE WithinThreshold(Holders(a, n))'
  <2>a. PICK S : S = Holders(a, n)'
    OBVIOUS
  <2>1. CASE a = sender[t] /\ n = Len(ledger[a])
    <3>1. ASSUME NEW u \in S PROVE u \in CountedOn(a)
      <4>1. u \in Ids /\ sender[u] = a /\ (u = t \/ attempts[u] > 0) /\ nonce[<<u, 1>>] = n
        BY <1>2, <1>6, <2>a, <3>1 DEF Holders
      <4>2. pc[u] # "queued"
        BY <1>2, <4>1 DEF LifecycleInv, ChainTypes, Broadcasted
      <4>3. ~Mined(u)
        <5> SUFFICES ASSUME NEW k \in 1 .. MaxAttempts, InLedger(<<u, k>>) PROVE FALSE
          BY DEF Mined
        <5>1. <<u, k>> \in Hashes /\ IdOf(<<u, k>>) = u
          BY <4>1 DEF Hashes, IdOf
        <5>2. nonce[<<u, 1>>] < Len(ledger[sender[u]])
          BY <5>1, MinedPlace
        <5> QED BY <2>1, <4>1, <5>2
      <4> QED BY <4>1, <4>2, <4>3 DEF SharedInv, CountedOn
    <3>2. WithinThreshold(S)
      BY <3>1, SmallerWithin DEF SharedInv
    <3> QED BY <2>a, <3>2 DEF WithinThreshold
  <2>2. CASE ~(a = sender[t] /\ n = Len(ledger[a]))
    <3>1. S \subseteq Holders(a, n)
      BY <1>2, <1>6, <2>a, <2>2 DEF Holders
    <3>2. WithinThreshold(S)
      BY <3>1, SmallerWithin DEF SharedInv
    <3> QED BY <2>a, <3>2 DEF WithinThreshold
  <2> QED BY <2>1, <2>2
<1> QED BY <1>2, <1>7, <1>8, <1>9, <1>10 DEF SharedInv, WithinThreshold

\* The remaining steps, but an exit of the process.
LEMMA SharedStep ==
  ASSUME LifecycleInv, SharedInv, [Next]_vars, ~Restart
  PROVE  SharedInv'
<1> USE DEF handlerVars, chainVars, retryVars, listenerVars
<1>0. /\ \A t \in Ids : Mined(t) => Mined(t)'
      /\ pc \in [Ids -> Places] /\ nonce \in [Hashes -> Nat \cup {Missing}]
  <2>1. \A h : InLedger(h) => InLedger(h)'
    BY MinedStays
  <2> QED BY <2>1 DEF Mined, LifecycleInv, HandlerTypes
<1>1. CASE UNCHANGED vars
  BY <1>0, <1>1, SharedKept DEF vars
<1>2. ASSUME NEW t \in Ids, CreateTransaction(t) PROVE SharedInv'
  <2>1. /\ pc[t] = "taken" /\ pc' = [pc EXCEPT ![t] = "numbered"]
        /\ nonce' = [nonce EXCEPT ![<<t, 1>>] = MinedCount(t)] /\ UNCHANGED <<sender, counted, attempts>>
    BY <1>2 DEF CreateTransaction
  <2>2. ~(attempts[t] > 0)
    BY <2>1 DEF LifecycleInv, ChainTypes, Broadcasted
  <2>3. \A u \in Ids : /\ pc'[u] = "queued" <=> pc[u] = "queued"
                       /\ attempts[u] > 0 => nonce'[<<u, 1>>] = nonce[<<u, 1>>]
    BY <1>0, <2>1, <2>2, FirstHash
  <2> QED BY <1>0, <2>1, <2>3, SharedKept
<1>3. ASSUME NEW t \in Ids, SendRejected(t) PROVE SharedInv'
  <2>1. /\ pc[t] = "numbered" /\ pc' = [pc EXCEPT ![t] = "failed"]
        /\ UNCHANGED <<sender, counted, attempts, nonce>>
    BY <1>3 DEF SendRejected, TellError
  <2>2. \A u \in Ids : pc'[u] = "queued" <=> pc[u] = "queued"
    BY <1>0, <2>1
  <2> QED BY <1>0, <2>1, <2>2, SharedKept
<1>4. ASSUME NEW h \in Hashes, Listen(h) \/ Retry(h) \/ Fault(h) PROVE SharedInv'
  <2>1. CASE RetryBroadcast(h)
    <3>1. UNCHANGED <<pc, sender, counted>>
      BY <2>1 DEF RetryBroadcast
    <3>2. \A u \in Ids : /\ attempts'[u] > 0 => attempts[u] > 0
                         /\ nonce'[<<u, 1>>] = nonce[<<u, 1>>]
      <4>1. IdOf(h) \in Ids /\ h[2] \in 1 .. MaxAttempts /\ Exists(h)
        BY <2>1, HashParts, RetryBroadcasts
      <4>2. attempts[IdOf(h)] > 0
        BY <4>1 DEF Exists, LifecycleInv, ChainTypes
      <4> QED BY <2>1, <4>2, RetryBroadcasts
    <3> QED BY <1>0, <3>1, <3>2, SharedKept
  <2>2. CASE ~RetryBroadcast(h)
    <3>1. UNCHANGED <<pc, sender, nonce, attempts, ledger>>
      BY <1>4, <2>2 DEF Listen, Announce, Track, ReceiptArrives, WaiterFails, StopWaiting, Retry,
         RetryStarts, RetryStops, RetryAccepted, RetryRejected, Fault, PublishFails, RetryAnswerLost
    <3>2. counted' \subseteq counted /\ \A t \in counted : t \notin counted' => Mined(t)
      <4>1. CASE ReceiptArrives(h)
        <5>1. InLedger(h) /\ counted' = counted \ {IdOf(h)}
          BY <4>1 DEF ReceiptArrives
        <5>2. h = <<IdOf(h), h[2]>> /\ h[2] \in 1 .. MaxAttempts
          BY HashParts
        <5> QED BY <5>1, <5>2 DEF Mined
      <4>2. CASE ~ReceiptArrives(h)
        BY <1>4, <2>2, <4>2 DEF Listen, Announce, Track, WaiterFails, StopWaiting, Retry, RetryStarts,
           RetryStops, RetryAccepted, RetryRejected, Fault, PublishFails, RetryAnswerLost
      <4> QED BY <4>1, <4>2
    <3>3. counted \subseteq Ids
      BY DEF SharedInv
    <3> QED BY <1>0, <3>1, <3>2, <3>3, SharedKept
  <2> QED BY <2>1, <2>2
<1>5. ASSUME NEW a \in Accounts, MineNext(a) PROVE SharedInv'
  <2>1. UNCHANGED <<pc, sender, counted, nonce, attempts>>
    BY <1>5 DEF MineNext
  <2> QED BY <1>0, <2>1, SharedKept
<1> QED BY <1>1, <1>2, <1>3, <1>4, <1>5, TakeShared, FirstShared DEF Next, Send

SharedUntilRestart == restarts \in Nat /\ (restarts = 0 => SharedInv)

\* Who has the nonce of an id that has no account has none.
LEMMA SharedWithin == LifecycleInv /\ SharedUntilRestart => NonceSharedWithinThreshold
<1> SUFFICES ASSUME LifecycleInv, SharedInv, NEW t \in Ids
             PROVE  Cardinality(NonceHolders(t)) <= PendingTransactionCountThreshold
  BY DEF SharedUntilRestart, NonceSharedWithinThreshold
<1>1. CASE NonceHolders(t) = {}
  BY <1>1, FS_EmptySet, LifecycleAssumption
<1>2. CASE NonceHolders(t) # {}
  <2>1. PICK u \in Ids : sender[u] = sender[t] /\ attempts[u] > 0 /\ nonce[<<u, 1>>] = nonce[<<t, 1>>]
    BY <1>2 DEF NonceHolders
  <2>2. Broadcasted(u) /\ sender[u] \in Accounts
    BY <2>1 DEF LifecycleInv, ChainTypes, HandlerTypes, Broadcasted, HasSender
  <2>3. nonce[<<t, 1>>] \in Nat \cup {Missing}
    BY FirstHash DEF LifecycleInv, HandlerTypes
  <2>4. NonceHolders(t) = Holders(sender[t], nonce[<<t, 1>>])
    BY DEF NonceHolders, Holders
  <2> QED BY <2>1, <2>2, <2>3, <2>4 DEF SharedInv, WithinThreshold
<1> QED BY <1>1, <1>2

\* Until the process restarts, a nonce of an account is given to no more transactions than
\* the relayer's threshold, whatever the threshold is and whatever calls fail: the count
\* that parks a relayer is all that keeps mined counts apart.
THEOREM NonceShared == Spec => []NonceSharedWithinThreshold
<1>1. Init => SharedUntilRestart
  <2> SUFFICES ASSUME Init PROVE restarts \in Nat /\ SharedInv
    BY DEF SharedUntilRestart
  <2>1. WithinThreshold({})
    BY FS_EmptySet, LifecycleAssumption DEF WithinThreshold
  <2>2. \A a \in Accounts : CountedOn(a) = {} /\ \A n \in Nat \cup {Missing} : Holders(a, n) = {}
    BY DEF Init, CountedOn, Holders
  <2> QED BY <2>1, <2>2, FS_EmptySet DEF Init, SharedInv
<1>2. LifecycleInv /\ SharedUntilRestart /\ [Next]_vars => SharedUntilRestart'
  <2> SUFFICES ASSUME LifecycleInv, restarts \in Nat, restarts = 0 => SharedInv, [Next]_vars
               PROVE  restarts' \in Nat /\ (restarts' = 0 => SharedInv')
    BY DEF SharedUntilRestart
  <2>1. CASE Restart
    BY <2>1 DEF Restart
  <2>2. CASE ~Restart
    <3>1. UNCHANGED restarts
      BY <2>2 DEF Next, vars, faultVars, Send, TakeRelayer, CreateTransaction, SendAccepted, SendRejected,
         SendAnswerLost, TellError, Fails, Listen, Announce, Track, ReceiptArrives, WaiterFails, StopWaiting,
         Retry, RetryStarts, RetryStops, RetryAccepted, RetryRejected, RetryBroadcast, Fault, PublishFails,
         RetryAnswerLost, MineNext
    <3> QED BY <2>2, <3>1, SharedStep
  <2> QED BY <2>1, <2>2
<1>3. LifecycleInv /\ [Next]_vars => LifecycleInv'
  BY Invariance
<1> QED BY InitInv, SharedWithin, <1>1, <1>2, <1>3, PTL DEF Spec
=============================================================================
