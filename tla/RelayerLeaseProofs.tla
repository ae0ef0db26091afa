------------------------- MODULE RelayerLeaseProofs -------------------------
(***************************************************************************)
(* RelayerPool implements RelayerLease, for every set of jobs and every     *)
(* configuration: a step of the pool is one step of the lease or none.      *)
(***************************************************************************)
EXTENDS RelayerPoolProofs

LEMMA InitLease == Init => Leases!Init
<1> SUFFICES ASSUME Init PROVE Leases!Init
  OBVIOUS
<1>1. queue = 0 .. MinRelayerCount - 1 /\ pendingCount = [r \in queue |-> 0]
  BY DEF Init
<1>2. \A j \in Jobs : ~Busy(j) /\ pc[j] # "popped"
  BY DEF Init, Busy
<1>3. queue \in SUBSET Relayers
  BY <1>1, PoolAssumption DEF Relayers
<1>4. Load = [r \in queue |-> 0] /\ LeaseOf = [j \in Jobs |-> NoRelayer]
  BY <1>1, <1>2 DEF Load, Uncounted, LeaseOf
<1> QED BY <1>3, <1>4 DEF Leases!Init

-----------------------------------------------------------------------------
(* What every step relies on. *)
LEMMA LeaseFacts ==
  ASSUME PoolInv
  PROVE  /\ pc \in [Jobs -> Places] /\ relayerOf \in [Jobs -> Relayers \cup {NoRelayer}]
         /\ queue \subseteq Relayers /\ DOMAIN pendingCount \subseteq Relayers
         /\ queue \subseteq DOMAIN pendingCount
         /\ NoRelayer \notin DOMAIN pendingCount
         /\ pendingCount \in [DOMAIN pendingCount -> Int]
         /\ \A j \in Jobs : Busy(j) => relayerOf[j] \in DOMAIN pendingCount \ queue
         /\ \A j, k \in Jobs : Busy(j) /\ Busy(k) /\ relayerOf[j] = relayerOf[k] => j = k
<1>1. 0 .. nextToQueue - 1 \subseteq Relayers
  BY PoolAssumption DEF PoolInv, TypeOK, Relayers
<1>2. NoRelayer \notin Relayers
  BY DEF NoRelayer, Relayers
<1> QED BY <1>1, <1>2 DEF PoolInv, TypeOK, ObjectsInv, ExclusiveRelayer

\* A step that leaves the queue, the leases and the counted transactions alone is none
\* of the lease.
LEMMA Unseen ==
  ASSUME UNCHANGED <<queue, pendingCount, relayerOf>>,
         \A j \in Jobs : Busy(j)' = Busy(j) /\ (pc'[j] = "popped" <=> pc[j] = "popped")
  PROVE  UNCHANGED Leases!leaseVars
<1>1. LeaseOf' = LeaseOf
  BY DEF LeaseOf
<1>2. \A r : Uncounted(r)' <=> Uncounted(r)
  BY DEF Uncounted
<1>3. Load' = Load
  BY <1>2 DEF Load
<1> QED BY <1>1, <1>3 DEF Leases!leaseVars

\* pop leases the relayer and counts the transaction, though the code counts it later.
LEMMA PopLeases ==
  ASSUME PoolInv, NEW j \in Jobs, Pop(j)
  PROVE  \E r \in Relayers : Leases!Lease(j, r)
<1>1. PICK r \in queue : queue' = queue \ {r} /\ relayerOf' = [relayerOf EXCEPT ![j] = r]
  BY DEF Pop, Shift
<1>2. /\ pc[j] = "delivered" /\ pc' = [pc EXCEPT ![j] = "popped"]
      /\ UNCHANGED pendingCount
  BY DEF Pop, poolVars
<1>3. LeaseOf[j] = NoRelayer /\ LeaseOf' = [LeaseOf EXCEPT ![j] = r]
  BY <1>1, <1>2, LeaseFacts DEF LeaseOf, Busy
<1>4. ~Uncounted(r)
  BY <1>1, LeaseFacts DEF Uncounted, Busy
<1>5. Uncounted(r)'
  BY <1>1, <1>2, LeaseFacts DEF Uncounted
<1>6. \A s : s # r => (Uncounted(s)' <=> Uncounted(s))
  BY <1>1, <1>2, LeaseFacts DEF Uncounted
<1>7. Load' = [Load EXCEPT ![r] = @ + 1]
  BY <1>1, <1>2, <1>4, <1>5, <1>6, LeaseFacts DEF Load
<1>8. r \in Relayers
  BY LeaseFacts
<1> QED BY <1>1, <1>3, <1>7, <1>8 DEF Leases!Lease

\* The continuation counts the transaction the lease has counted.
LEMMA RegisterUnseen ==
  ASSUME PoolInv, NEW j \in Jobs, Register(j)
  PROVE  UNCHANGED Leases!leaseVars
<1> DEFINE r == relayerOf[j]
<1>1. /\ pc[j] = "popped" /\ pc' = [pc EXCEPT ![j] = "sending"]
      /\ pendingCount' = [pendingCount EXCEPT ![r] = @ + 1]
      /\ UNCHANGED <<queue, relayerOf>>
  BY DEF Register
<1>2. LeaseOf' = LeaseOf
  BY <1>1, LeaseFacts DEF LeaseOf, Busy
<1>3. Uncounted(r) /\ r \in DOMAIN pendingCount
  BY <1>1, LeaseFacts DEF Uncounted, Busy
<1>4. ~Uncounted(r)'
  BY <1>1, LeaseFacts DEF Uncounted, Busy
<1>5. \A s : s # r => (Uncounted(s)' <=> Uncounted(s))
  BY <1>1, LeaseFacts DEF Uncounted
<1>6. Load' = Load
  BY <1>1, <1>3, <1>4, <1>5, LeaseFacts DEF Load
<1> QED BY <1>1, <1>2, <1>6 DEF Leases!leaseVars

\* The push of addActiveRelayer takes the relayer back below the threshold, ...
LEMMA PushReturns ==
  ASSUME PoolInv, NEW j \in Jobs, PushBack(j)
  PROVE  Leases!Return(j)
<1> DEFINE r == relayerOf[j]
<1>1. /\ pc[j] = "returning" /\ pc' = [pc EXCEPT ![j] = "pushed"]
      /\ pendingCount[r] < PendingTransactionCountThreshold
      /\ queue' = queue \cup {r}
      /\ UNCHANGED <<pendingCount, relayerOf>>
  BY DEF PushBack, BelowThreshold
<1>2. LeaseOf[j] = r /\ r # NoRelayer /\ LeaseOf' = [LeaseOf EXCEPT ![j] = NoRelayer]
  BY <1>1, LeaseFacts DEF LeaseOf, Busy
<1>3. ~Uncounted(r) /\ r \in DOMAIN pendingCount
  BY <1>1, LeaseFacts DEF Uncounted, Busy
<1>4. Load[r] = pendingCount[r]
  BY <1>3 DEF Load
<1>5. Load' = Load
  BY <1>1, LeaseFacts DEF Load, Uncounted
<1> QED BY <1>1, <1>2, <1>4, <1>5 DEF Leases!Return

\* ... and without the push it is retired with as many as it may have.
LEMMA ParkRetires ==
  ASSUME PoolInv, NEW j \in Jobs, Park(j)
  PROVE  Leases!Retire(j)
<1> DEFINE r == relayerOf[j]
<1>1. /\ pc[j] = "returning" /\ ~(pendingCount[r] < PendingTransactionCountThreshold)
      /\ UNCHANGED <<queue, pendingCount, relayerOf>>
  BY DEF Park, BelowThreshold
<1>2. pc' = [pc EXCEPT ![j] = "waitLock"] \/ pc' = [pc EXCEPT ![j] = "done"]
  BY DEF Park, CreateIfShort
<1>3. LeaseOf[j] = r /\ r # NoRelayer /\ LeaseOf' = [LeaseOf EXCEPT ![j] = NoRelayer]
  BY <1>1, <1>2, LeaseFacts DEF LeaseOf, Busy
<1>4. ~Uncounted(r) /\ r \in DOMAIN pendingCount
  BY <1>1, LeaseFacts DEF Uncounted, Busy
<1>5. Load[r] = pendingCount[r]
  BY <1>4 DEF Load
<1>6. pendingCount[r] >= PendingTransactionCountThreshold
  BY <1>1, <1>4, LeaseFacts, PoolAssumption
<1>7. Load' = Load
  BY <1>1, <1>2, LeaseFacts DEF Load, Uncounted
<1> QED BY <1>1, <1>3, <1>5, <1>6, <1>7 DEF Leases!Retire

\* createRelayers creates a relayer that was never one of the pool.
LEMMA QueueCreates ==
  ASSUME PoolInv, NEW j \in Jobs, QueueRelayer(j)
  PROVE  \E r \in Relayers : Leases!Create(r)
<1> DEFINE r == nextToQueue
<1>1. /\ r < relayerCount
      /\ queue' = queue \cup {r}
      /\ pendingCount' = [s \in DOMAIN pendingCount \cup {r} |-> IF s = r THEN 0 ELSE pendingCount[s]]
      /\ UNCHANGED <<pc, relayerOf>>
  BY DEF QueueRelayer, MoreToQueue
<1>2. r \in Relayers /\ r \notin DOMAIN pendingCount
  BY <1>1, PoolAssumption DEF PoolInv, TypeOK, Relayers
<1>3. ~Uncounted(r)
  BY <1>2, LeaseFacts DEF Uncounted, Busy
<1>4. LeaseOf' = LeaseOf /\ \A s : Uncounted(s)' <=> Uncounted(s)
  BY <1>1 DEF LeaseOf, Busy, Uncounted
<1>5. Load' = [s \in DOMAIN Load \cup {r} |-> IF s = r THEN 0 ELSE Load[s]]
  BY <1>1, <1>2, <1>3, <1>4 DEF Load
<1>6. r \notin DOMAIN Load
  BY <1>2 DEF Load
<1> QED BY <1>1, <1>2, <1>4, <1>5, <1>6 DEF Leases!Create, Leases!Known

\* postTransactionMined runs when no continuation is outstanding: the relayer is free,
\* leased to a handler that has counted it, or retired.
LEMMA MinedSettles ==
  ASSUME PoolInv, NEW j \in Jobs, PostTransactionMined(j)
  PROVE  (\E r \in Relayers : Leases!Settle(r)) \/ UNCHANGED Leases!leaseVars
<1> DEFINE r == relayerOf[j]
<1>1. hops = <<>> /\ UNCHANGED <<queue, pc, relayerOf>>
  BY DEF PostTransactionMined
<1>2. \A k \in Jobs : pc[k] \notin {"popped", "pushed"}
  BY <1>1 DEF PoolInv, HopsInv
<1>3. LeaseOf' = LeaseOf /\ \A s : ~Uncounted(s) /\ ~Uncounted(s)'
  BY <1>1, <1>2 DEF LeaseOf, Busy, Uncounted
<1>4. CASE r \in queue \cup processing
  <2>1. pendingCount' = [pendingCount EXCEPT ![r] = @ - 1]
    BY <1>4 DEF PostTransactionMined, InQueueOrProcessing
  <2>2. r \in queue \/ \E k \in Jobs : Busy(k) /\ relayerOf[k] = r
    BY <1>2, <1>4 DEF PoolInv, ProcessingMapExact, InMap, Busy
  <2>3. r \in DOMAIN pendingCount /\ r \in Relayers /\ r # NoRelayer
    BY <2>2, LeaseFacts
  <2>4. r \in queue \cup Leases!Leased
    BY <2>2, <2>3 DEF Leases!Leased, LeaseOf
  <2>5. Load' = [Load EXCEPT ![r] = @ - 1]
    BY <1>3, <2>1, <2>3 DEF Load
  <2> QED BY <1>1, <1>3, <2>3, <2>4, <2>5 DEF Leases!Settle
<1>5. CASE r \notin queue \cup processing
  <2>1. UNCHANGED pendingCount
    BY <1>5 DEF PostTransactionMined, InQueueOrProcessing
  <2>2. Load' = Load
    BY <1>3, <2>1 DEF Load
  <2> QED BY <1>1, <1>3, <2>2 DEF Leases!leaseVars
<1> QED BY <1>4, <1>5

\* The service manager sets up a pool of relayers without transactions.
LEMMA RestartRenews ==
  ASSUME PoolInv, NEW back, Restart(back)
  PROVE  Leases!Renew
<1>1. /\ queue' = 0 .. MinRelayerCount - 1
      /\ pendingCount' = [r \in queue' |-> 0]
  BY DEF Restart
<1>2. \A j \in Jobs : ~Busy(j)' /\ pc'[j] # "popped"
  BY LeaseFacts DEF Restart, AfterExit, Busy, Places
<1>3. queue' \in SUBSET Relayers
  BY <1>1, PoolAssumption DEF Relayers
<1>4. Load' = [r \in queue' |-> 0] /\ LeaseOf' = [j \in Jobs |-> NoRelayer]
  BY <1>1, <1>2 DEF Load, Uncounted, LeaseOf
<1> QED BY <1>3, <1>4 DEF Leases!Renew

-----------------------------------------------------------------------------
\* Every step of the pool is one of the lease, or none.
LEMMA StepLease == PoolInv /\ [Next]_vars => [Leases!Next]_Leases!leaseVars
<1> SUFFICES ASSUME PoolInv, [Next]_vars PROVE [Leases!Next]_Leases!leaseVars
  OBVIOUS
<1>1. ASSUME NEW j \in Jobs, Pop(j) PROVE Leases!Next
  BY <1>1, PopLeases DEF Leases!Next
<1>2. ASSUME NEW j \in Jobs, PushBack(j) \/ Park(j) PROVE Leases!Next
  BY <1>2, PushReturns, ParkRetires DEF Leases!Next
<1>3. ASSUME NEW j \in Jobs, QueueRelayer(j) PROVE Leases!Next
  BY <1>3, QueueCreates DEF Leases!Next
<1>4. ASSUME NEW j \in Jobs, PostTransactionMined(j) PROVE [Leases!Next]_Leases!leaseVars
  BY <1>4, MinedSettles DEF Leases!Next
<1>5. ASSUME NEW back, Restart(back) PROVE Leases!Next
  BY <1>5, RestartRenews DEF Leases!Next
<1>6. ASSUME NEW j \in Jobs, Deliver(j) \/ Republish(j) \/ SendTransaction(j)
      PROVE  UNCHANGED Leases!leaseVars
  BY <1>6, LeaseFacts, Unseen DEF Deliver, Republish, SendTransaction, Busy, poolVars
<1>7. ASSUME NEW j \in Jobs, Unregister(j) PROVE UNCHANGED Leases!leaseVars
  BY <1>7, LeaseFacts, Unseen DEF Unregister, CreateIfShort, Busy
<1>8. ASSUME NEW j \in Jobs, DeriveRelayers(j) \/ ReleaseLock(j)
      PROVE  UNCHANGED Leases!leaseVars
  BY <1>8, LeaseFacts, Unseen DEF DeriveRelayers, ReleaseLock, Busy, poolVars
<1>9. ASSUME NEW j \in Jobs, SkipRelayer(j) \/ Mine(j) PROVE UNCHANGED Leases!leaseVars
  BY <1>9, Unseen DEF SkipRelayer, Mine, Busy, poolVars
<1>10. CASE UNCHANGED vars
  BY <1>10, Unseen DEF vars, poolVars, Busy
<1> QED
  BY <1>1, <1>2, <1>3, <1>4, <1>5, <1>6, <1>7, <1>8, <1>9, <1>10, RegisterUnseen
  DEF Next, Handler, RepublishAndThrow, Crash

\* The pool, its awaits, mutexes and restarts are to the consumers the lease of relayers
\* in single steps, for every number of relayers and transactions.
THEOREM LeaseImplemented == Spec => ImplementsLease
<1> QED BY InitLease, StepLease, Invariance, PTL DEF Spec, ImplementsLease, Leases!Spec
=============================================================================
