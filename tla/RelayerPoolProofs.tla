------------------------- MODULE RelayerPoolProofs -------------------------
(***************************************************************************)
(* Proofs about RelayerPool, for every set of jobs and every configuration. *)
(* PoolInv is the inductive invariant: the safety properties and what they  *)
(* rest on, the order of the continuations and of the lock.  CountInv and   *)
(* RoomInv add what a relayer's count says of its transactions: until the   *)
(* process restarts it is their number, and the threshold bounds it.        *)
(***************************************************************************)
EXTENDS RelayerPool, FiniteSetTheorems, TLAPS

(* A continuation is outstanding for exactly the jobs between shift or push *)
(* and the code after the await, and two for one relayer are the push of    *)
(* its old handler before the pop of its next.                              *)
HopsInv ==
  /\ \A i \in 1 .. Len(hops) : pc[hops[i]] \in {"popped", "pushed"}
  /\ \A j \in Jobs : pc[j] \in {"popped", "pushed"} =>
       \E i \in 1 .. Len(hops) : hops[i] = j
  /\ \A i, k \in 1 .. Len(hops) : i < k =>
       /\ hops[i] # hops[k]
       /\ relayerOf[hops[i]] = relayerOf[hops[k]] =>
            pc[hops[i]] = "pushed" /\ pc[hops[k]] = "popped"

(* A handler that still has to delete its entry does not share the relayer  *)
(* with one that has entered its own.                                       *)
ReleasedInv ==
  \A j, k \in Jobs :
    pc[j] = "pushed" /\ pc[k] \in {"sending", "returning"} => relayerOf[j] # relayerOf[k]

ObjectsInv ==
  /\ queue \subseteq DOMAIN pendingCount
  /\ \A j \in Jobs : pc[j] = "pushed" => relayerOf[j] \in DOMAIN pendingCount

LockInv ==
  \A j \in Jobs : pc[j] = "waitLock" => \E i \in 1 .. Len(createLock) : createLock[i] = j

PoolInv ==
  /\ TypeOK
  /\ HopsInv
  /\ ReleasedInv
  /\ ObjectsInv
  /\ LockInv
  /\ ExclusiveRelayer
  /\ ProcessingMapExact
  /\ CreationSerial
  /\ ParkedAtThreshold

-----------------------------------------------------------------------------
\* The pool set up by the service manager satisfies the invariant.
LEMMA InitInv == Init => PoolInv
  <1> SUFFICES ASSUME Init PROVE PoolInv
    OBVIOUS
  <1> USE PoolAssumption DEF Init
  <1>1. TypeOK
    BY DEF TypeOK, Places, TxStates, Relayers, NoRelayer
  <1>2. HopsInv /\ ReleasedInv /\ ObjectsInv /\ LockInv
    BY DEF HopsInv, ReleasedInv, ObjectsInv, LockInv
  <1>3. ExclusiveRelayer /\ ProcessingMapExact /\ CreationSerial
    BY DEF ExclusiveRelayer, ProcessingMapExact, CreationSerial, Busy, InMap
  <1>4. ParkedAtThreshold
    BY DEF ParkedAtThreshold, Parked
  <1> QED
    BY <1>1, <1>2, <1>3, <1>4 DEF PoolInv

(* The conjuncts of TypeOK in two groups, which most steps disturb one of.  *)
PoolTypes ==
  /\ relayerCount \in 0 .. MaxRelayers
  /\ nextToQueue \in 0 .. relayerCount
  /\ queue \subseteq 0 .. nextToQueue - 1
  /\ processing \subseteq 0 .. nextToQueue - 1
  /\ DOMAIN pendingCount \subseteq 0 .. nextToQueue - 1
  /\ pendingCount \in [DOMAIN pendingCount -> Int]

ControlTypes ==
  /\ hops \in Seq(Jobs)
  /\ createLock \in Seq(Jobs)
  /\ pc \in [Jobs -> Places]
  /\ relayerOf \in [Jobs -> Relayers \cup {NoRelayer}]
  /\ tx \in [Jobs -> TxStates]
  /\ restarts \in 0 .. MaxRestarts

\* Every step keeps the types of the variables of the pool.
LEMMA PoolTypesStep == PoolInv /\ [Next]_vars => PoolTypes'
  <1> SUFFICES ASSUME PoolInv, [Next]_vars PROVE PoolTypes'
    OBVIOUS
  <1> USE PoolAssumption DEF PoolTypes, mapVars, poolVars
  <1>0. PoolTypes
    BY DEF PoolInv, TypeOK
  <1>1. ASSUME UNCHANGED <<mapVars, queue, pendingCount>>, processing' \subseteq processing
        PROVE PoolTypes'
    BY <1>0, <1>1
  <1>2. ASSUME NEW j \in Jobs, Pop(j) PROVE PoolTypes'
    BY <1>0, <1>2 DEF Pop, Shift
  <1>3. ASSUME NEW j \in Jobs, Register(j) PROVE PoolTypes'
    <2>1. relayerOf[j] \in DOMAIN pendingCount
      BY <1>3 DEF Register, PoolInv, ExclusiveRelayer, Busy
    <2>2. UNCHANGED <<relayerCount, nextToQueue, queue>> /\ processing' = processing \cup {relayerOf[j]}
      BY <1>3 DEF Register
    <2>3. pendingCount' = [pendingCount EXCEPT ![relayerOf[j]] = pendingCount[relayerOf[j]] + 1]
      BY <1>3 DEF Register
    <2>4. DOMAIN pendingCount' = DOMAIN pendingCount /\ pendingCount' \in [DOMAIN pendingCount' -> Int]
      BY <1>0, <2>1, <2>3
    <2> QED
      BY <1>0, <2>1, <2>2, <2>4
  <1>4. ASSUME NEW j \in Jobs, PushBack(j) PROVE PoolTypes'
    <2>1. /\ UNCHANGED <<relayerCount, nextToQueue, processing, pendingCount>>
          /\ queue' = queue \cup {relayerOf[j]} /\ relayerOf[j] \in processing
      BY <1>4 DEF PushBack
    <2> QED
      BY <1>0, <2>1
  <1>5. ASSUME NEW j \in Jobs, DeriveRelayers(j) PROVE PoolTypes'
    <2>1. /\ UNCHANGED <<queue, processing, pendingCount>>
          /\ relayerCount' \in 0 .. MaxRelayers
          /\ nextToQueue' \in 0 .. relayerCount'
          /\ nextToQueue <= nextToQueue'
      BY <1>0, <1>5 DEF DeriveRelayers, GetRelayersCount
    <2>2. 0 .. nextToQueue - 1 \subseteq 0 .. nextToQueue' - 1
      BY <1>0, <2>1
    <2> QED
      BY <1>0, <2>1, <2>2
  <1>6. ASSUME NEW j \in Jobs, QueueRelayer(j) PROVE PoolTypes'
    <2>1. /\ UNCHANGED <<relayerCount, processing>>
          /\ nextToQueue' = nextToQueue + 1
          /\ nextToQueue' \in 0 .. relayerCount
          /\ queue' = queue \cup {nextToQueue}
      BY <1>0, <1>6 DEF QueueRelayer, MoreToQueue
    <2>2. 0 .. nextToQueue' - 1 = (0 .. nextToQueue - 1) \cup {nextToQueue}
      BY <1>0, <2>1
    <2>3. /\ DOMAIN pendingCount' = DOMAIN pendingCount \cup {nextToQueue}
          /\ pendingCount' \in [DOMAIN pendingCount' -> Int]
      BY <1>0, <1>6 DEF QueueRelayer
    <2> QED
      BY <1>0, <2>1, <2>2, <2>3
  <1>7. ASSUME NEW j \in Jobs, SkipRelayer(j) PROVE PoolTypes'
    <2>1. /\ UNCHANGED <<relayerCount, queue, processing, pendingCount>>
          /\ nextToQueue' = nextToQueue + 1
          /\ nextToQueue' \in 0 .. relayerCount
      BY <1>0, <1>7 DEF SkipRelayer, MoreToQueue
    <2>2. 0 .. nextToQueue - 1 \subseteq 0 .. nextToQueue' - 1
      BY <1>0, <2>1
    <2> QED
      BY <1>0, <2>1, <2>2
  <1>8. ASSUME NEW j \in Jobs, PostTransactionMined(j) PROVE PoolTypes'
    <2>1. /\ DOMAIN pendingCount' = DOMAIN pendingCount
          /\ pendingCount' \in [DOMAIN pendingCount' -> Int]
      <3>1. CASE UNCHANGED pendingCount
        BY <1>0, <3>1
      <3>2. CASE pendingCount' = [pendingCount EXCEPT ![relayerOf[j]] = pendingCount[relayerOf[j]] - 1]
        <4>1. CASE relayerOf[j] \in DOMAIN pendingCount
          BY <1>0, <3>2, <4>1
        <4>2. CASE relayerOf[j] \notin DOMAIN pendingCount
          BY <1>0, <3>2, <4>2
        <4> QED
          BY <4>1, <4>2
      <3> QED
        BY <1>8, <3>1, <3>2 DEF PostTransactionMined
    <2>2. UNCHANGED <<relayerCount, nextToQueue, queue, processing>>
      BY <1>8 DEF PostTransactionMined
    <2> QED
      BY <1>0, <2>1, <2>2
  <1>9. ASSUME NEW S, Restart(S) PROVE PoolTypes'
    BY <1>9 DEF Restart
  <1> QED
    BY <1>1, <1>2, <1>3, <1>4, <1>5, <1>6, <1>7, <1>8, <1>9
    DEF Next, Handler, RepublishAndThrow, Crash, vars, Deliver, Republish, SendTransaction,
        Unregister, Park, ReleaseLock, Mine

\* Every step keeps the types of the control state.
LEMMA ControlTypesStep == PoolInv /\ [Next]_vars => ControlTypes'
  <1> SUFFICES ASSUME PoolInv, [Next]_vars PROVE ControlTypes'
    OBVIOUS
  <1> USE PoolAssumption DEF ControlTypes, Places, TxStates
  <1>0. ControlTypes
    BY DEF PoolInv, TypeOK
  <1>1. ASSUME NEW j \in Jobs, Deliver(j) \/ Republish(j) PROVE ControlTypes'
    BY <1>0, <1>1 DEF Deliver, Republish
  <1>2. ASSUME NEW j \in Jobs, Pop(j) PROVE ControlTypes'
    <2>1. \A r \in queue : r \in Relayers
      BY DEF PoolInv, TypeOK, Relayers
    <2> QED
      BY <1>0, <1>2, <2>1 DEF Pop
  <1>3. ASSUME NEW j \in Jobs, Register(j) PROVE ControlTypes'
    BY <1>0, <1>3 DEF Register, Resume
  <1>4. ASSUME NEW j \in Jobs, SendTransaction(j) \/ Mine(j) \/ PostTransactionMined(j)
        PROVE ControlTypes'
    BY <1>0, <1>4 DEF SendTransaction, Mine, PostTransactionMined
  <1>5. ASSUME NEW j \in Jobs, PushBack(j) PROVE ControlTypes'
    BY <1>0, <1>5 DEF PushBack
  <1>6. ASSUME NEW j \in Jobs, Unregister(j) \/ Park(j) PROVE ControlTypes'
    <2>0. CreateIfShort(j)
      BY <1>6 DEF Unregister, Park
    <2>1. pc' \in [Jobs -> Places] /\ createLock' \in Seq(Jobs)
      <3>1. CASE Shortage
        <4>1. /\ pc' = [pc EXCEPT ![j] = "waitLock"]
              /\ createLock' = Append(createLock, j)
          BY <2>0, <3>1 DEF CreateIfShort
        <4>2. createLock' \in Seq(Jobs)
          BY <1>0, <4>1
        <4> QED
          BY <1>0, <4>1, <4>2
      <3>2. CASE ~Shortage
        BY <1>0, <2>0, <3>2 DEF CreateIfShort
      <3> QED
        BY <3>1, <3>2
    <2>2. hops' \in Seq(Jobs)
      BY <1>0, <1>6 DEF Unregister, Park, Resume
    <2>3. UNCHANGED <<relayerOf, tx, restarts>>
      BY <1>6 DEF Unregister, Park
    <2> QED
      BY <1>0, <2>1, <2>2, <2>3
  <1>7. ASSUME NEW j \in Jobs, DeriveRelayers(j) \/ QueueRelayer(j) \/ SkipRelayer(j)
        PROVE ControlTypes'
    BY <1>0, <1>7 DEF DeriveRelayers, QueueRelayer, SkipRelayer
  <1>8. ASSUME NEW j \in Jobs, ReleaseLock(j) PROVE ControlTypes'
    BY <1>0, <1>8 DEF ReleaseLock, PoolInv, CreationSerial
  <1>9. ASSUME NEW S, Restart(S) PROVE ControlTypes'
    BY <1>0, <1>9 DEF Restart, AfterExit
  <1>10. CASE UNCHANGED vars
    BY <1>0, <1>10 DEF vars
  <1> QED
    BY <1>1, <1>2, <1>3, <1>4, <1>5, <1>6, <1>7, <1>8, <1>9, <1>10
    DEF Next, Handler, RepublishAndThrow, Crash

-----------------------------------------------------------------------------
(* How a step may change the queue of continuations.                        *)
SameHops ==
  /\ UNCHANGED <<hops, relayerOf>>
  /\ \A j \in Jobs : \/ pc'[j] = pc[j]
                     \/ pc[j] \notin {"popped", "pushed"} /\ pc'[j] \notin {"popped", "pushed"}

AddHop(j) ==
  /\ hops' = Append(hops, j)
  /\ pc[j] \notin {"popped", "pushed"} /\ pc'[j] \in {"popped", "pushed"}
  /\ \A k \in Jobs \ {j} : pc'[k] = pc[k] /\ relayerOf'[k] = relayerOf[k]
  /\ \A k \in Jobs \ {j} : pc[k] \in {"popped", "pushed"} /\ relayerOf[k] = relayerOf'[j] =>
       pc[k] = "pushed" /\ pc'[j] = "popped"

TakeHop(j) ==
  /\ hops # <<>> /\ Head(hops) = j /\ hops' = Tail(hops)
  /\ pc'[j] \notin {"popped", "pushed"}
  /\ \A k \in Jobs \ {j} : pc'[k] = pc[k]
  /\ UNCHANGED relayerOf

NoHops == hops' = <<>> /\ \A j \in Jobs : pc'[j] \notin {"popped", "pushed"}

\* Every step leaves the continuations alone, appends one, runs the first one or
\* drops them all.
LEMMA HopChanges ==
  PoolInv /\ [Next]_vars => SameHops \/ NoHops \/ \E j \in Jobs : AddHop(j) \/ TakeHop(j)
  <1> SUFFICES ASSUME PoolInv, [Next]_vars
               PROVE SameHops \/ NoHops \/ \E j \in Jobs : AddHop(j) \/ TakeHop(j)
    OBVIOUS
  <1> USE DEF mapVars, poolVars
  <1>0. /\ pc \in [Jobs -> Places] /\ relayerOf \in [Jobs -> Relayers \cup {NoRelayer}]
    BY DEF PoolInv, TypeOK
  <1>1. ASSUME NEW j \in Jobs, Pop(j) PROVE AddHop(j)
    <2>1. PICK r \in queue : relayerOf' = [relayerOf EXCEPT ![j] = r]
      BY <1>1 DEF Pop
    <2>2. ASSUME NEW k \in Jobs, k # j, pc[k] = "popped" PROVE relayerOf[k] # r
      BY <2>2 DEF PoolInv, ExclusiveRelayer, Busy
    <2> QED
      BY <1>0, <1>1, <2>1, <2>2 DEF Pop, AddHop
  <1>2. ASSUME NEW j \in Jobs, PushBack(j) PROVE AddHop(j)
    <2>1. ASSUME NEW k \in Jobs, k # j, pc[k] \in {"popped", "pushed"}
          PROVE relayerOf[k] # relayerOf[j]
      BY <1>2, <2>1 DEF PushBack, PoolInv, ExclusiveRelayer, ReleasedInv, Busy
    <2> QED
      BY <1>0, <1>2, <2>1 DEF PushBack, AddHop
  <1>3. ASSUME NEW j \in Jobs, Register(j) PROVE TakeHop(j)
    BY <1>0, <1>3 DEF Register, Resume, TakeHop
  <1>4. ASSUME NEW j \in Jobs, Unregister(j) PROVE TakeHop(j)
    BY <1>0, <1>4 DEF Unregister, Resume, CreateIfShort, TakeHop
  <1>5. ASSUME NEW j \in Jobs, Park(j) PROVE SameHops
    BY <1>0, <1>5 DEF Park, CreateIfShort, SameHops
  <1>6. ASSUME NEW j \in Jobs, Deliver(j) \/ Republish(j) \/ SendTransaction(j) PROVE SameHops
    BY <1>0, <1>6 DEF Deliver, Republish, SendTransaction, SameHops
  <1>7. ASSUME NEW j \in Jobs, DeriveRelayers(j) \/ ReleaseLock(j) PROVE SameHops
    BY <1>0, <1>7 DEF DeriveRelayers, ReleaseLock, SameHops
  <1>8. ASSUME NEW j \in Jobs, QueueRelayer(j) \/ SkipRelayer(j) PROVE SameHops
    BY <1>8 DEF QueueRelayer, SkipRelayer, SameHops
  <1>9. ASSUME NEW j \in Jobs, Mine(j) \/ PostTransactionMined(j) PROVE SameHops
    BY <1>9 DEF Mine, PostTransactionMined, SameHops
  <1>10. ASSUME NEW S, Restart(S) PROVE NoHops
    BY <1>10 DEF Restart, AfterExit, NoHops
  <1>11. CASE UNCHANGED vars
    BY <1>11 DEF vars, SameHops
  <1> QED
    BY <1>1, <1>2, <1>3, <1>4, <1>5, <1>6, <1>7, <1>8, <1>9, <1>10, <1>11
    DEF Next, Handler, RepublishAndThrow, Crash

\* The order of the continuations is kept by each of these changes.
LEMMA HopsStep == PoolInv /\ [Next]_vars => HopsInv'
  <1> SUFFICES ASSUME PoolInv, [Next]_vars PROVE HopsInv'
    OBVIOUS
  <1> DEFINE n == Len(hops)
  <1>0. HopsInv /\ hops \in Seq(Jobs) /\ n \in Nat /\ \A i \in 1 .. n : hops[i] \in Jobs
    BY DEF PoolInv, TypeOK
  <1>1. CASE SameHops
    <2>1. \A k \in Jobs : pc'[k] \in {"popped", "pushed"} <=> pc[k] \in {"popped", "pushed"}
      BY <1>1 DEF SameHops
    <2>2. \A i \in 1 .. n : pc'[hops[i]] = pc[hops[i]]
      BY <1>0, <1>1 DEF SameHops, HopsInv
    <2> QED
      BY <1>0, <1>1, <2>1, <2>2 DEF SameHops, HopsInv
  <1>2. CASE NoHops
    BY <1>2 DEF NoHops, HopsInv
  <1>3. ASSUME NEW j \in Jobs, AddHop(j) PROVE HopsInv'
    <2>1. /\ Len(hops') = n + 1 /\ hops'[n + 1] = j
          /\ \A i \in 1 .. n : hops'[i] = hops[i]
      BY <1>0, <1>3 DEF AddHop
    <2>2. \A i \in 1 .. n : hops[i] # j
      BY <1>0, <1>3 DEF AddHop, HopsInv
    <2>3. \A i \in 1 .. n + 1 : pc'[hops'[i]] \in {"popped", "pushed"}
      BY <1>0, <1>3, <2>1, <2>2 DEF AddHop, HopsInv
    <2>4. ASSUME NEW k \in Jobs, pc'[k] \in {"popped", "pushed"}
          PROVE \E i \in 1 .. n + 1 : hops'[i] = k
      <3>1. CASE k = j
        BY <1>0, <2>1, <3>1
      <3>2. CASE k # j
        <4>1. PICK i \in 1 .. n : hops[i] = k
          BY <1>0, <1>3, <2>4, <3>2 DEF AddHop, HopsInv
        <4> QED
          BY <1>0, <2>1, <4>1
      <3> QED
        BY <3>1, <3>2
    <2>5. ASSUME NEW i \in 1 .. n + 1, NEW k \in 1 .. n + 1, i < k
          PROVE /\ hops'[i] # hops'[k]
                /\ relayerOf'[hops'[i]] = relayerOf'[hops'[k]] =>
                     pc'[hops'[i]] = "pushed" /\ pc'[hops'[k]] = "popped"
      <3>1. i \in 1 .. n /\ hops'[i] = hops[i] /\ hops[i] # j /\ hops[i] \in Jobs
        BY <1>0, <2>1, <2>2, <2>5
      <3>2. pc'[hops[i]] = pc[hops[i]] /\ relayerOf'[hops[i]] = relayerOf[hops[i]]
        BY <1>3, <3>1 DEF AddHop
      <3>3. CASE k = n + 1
        BY <1>0, <1>3, <2>1, <3>1, <3>2, <3>3 DEF AddHop, HopsInv
      <3>4. CASE k \in 1 .. n
        <4>1. hops'[k] = hops[k] /\ hops[k] # j /\ hops[k] \in Jobs
          BY <1>0, <2>1, <2>2, <3>4
        <4>2. pc'[hops[k]] = pc[hops[k]] /\ relayerOf'[hops[k]] = relayerOf[hops[k]]
          BY <1>3, <4>1 DEF AddHop
        <4> QED
          BY <1>0, <2>5, <3>1, <3>2, <3>4, <4>1, <4>2 DEF HopsInv
      <3> QED
        BY <1>0, <3>3, <3>4
    <2> QED
      BY <2>1, <2>3, <2>4, <2>5 DEF HopsInv
  <1>4. ASSUME NEW j \in Jobs, TakeHop(j) PROVE HopsInv'
    <2>1. /\ n # 0 /\ hops[1] = j /\ Len(hops') = n - 1
          /\ \A i \in 1 .. n - 1 : hops'[i] = hops[i + 1]
      BY <1>0, <1>4 DEF TakeHop
    <2>2. \A i \in 1 .. n - 1 : i + 1 \in 1 .. n /\ hops'[i] # j /\ hops'[i] \in Jobs
      BY <1>0, <2>1 DEF HopsInv
    <2>3. \A i \in 1 .. n - 1 : pc'[hops'[i]] = pc[hops[i + 1]] /\ relayerOf'[hops'[i]] = relayerOf[hops[i + 1]]
      BY <1>4, <2>1, <2>2 DEF TakeHop
    <2>4. \A i \in 1 .. n - 1 : pc'[hops'[i]] \in {"popped", "pushed"}
      BY <1>0, <2>2, <2>3 DEF HopsInv
    <2>5. ASSUME NEW k \in Jobs, pc'[k] \in {"popped", "pushed"}
          PROVE \E i \in 1 .. n - 1 : hops'[i] = k
      <3>1. k # j /\ pc[k] \in {"popped", "pushed"}
        BY <1>4, <2>5 DEF TakeHop
      <3>2. PICK i \in 1 .. n : hops[i] = k
        BY <1>0, <3>1 DEF HopsInv
      <3>3. i - 1 \in 1 .. n - 1 /\ (i - 1) + 1 = i
        BY <1>0, <2>1, <3>1, <3>2
      <3> QED
        BY <2>1, <3>2, <3>3
    <2>6. \A i, k \in 1 .. n - 1 : i < k =>
            /\ hops'[i] # hops'[k]
            /\ relayerOf'[hops'[i]] = relayerOf'[hops'[k]] =>
                 pc'[hops'[i]] = "pushed" /\ pc'[hops'[k]] = "popped"
      <3> SUFFICES ASSUME NEW i \in 1 .. n - 1, NEW k \in 1 .. n - 1, i < k
                   PROVE /\ hops'[i] # hops'[k]
                         /\ relayerOf'[hops'[i]] = relayerOf'[hops'[k]] =>
                              pc'[hops'[i]] = "pushed" /\ pc'[hops'[k]] = "popped"
        OBVIOUS
      <3>1. i + 1 \in 1 .. n /\ k + 1 \in 1 .. n /\ i + 1 < k + 1
        BY <1>0, <2>2
      <3>2. /\ hops[i + 1] # hops[k + 1]
            /\ relayerOf[hops[i + 1]] = relayerOf[hops[k + 1]] =>
                 pc[hops[i + 1]] = "pushed" /\ pc[hops[k + 1]] = "popped"
        BY <1>0, <3>1 DEF HopsInv
      <3>3. hops'[i] = hops[i + 1] /\ hops'[k] = hops[k + 1]
        BY <2>1
      <3> QED
        BY <2>3, <3>2, <3>3
    <2> QED
      BY <2>1, <2>4, <2>5, <2>6 DEF HopsInv
  <1> QED
    BY <1>1, <1>2, <1>3, <1>4, HopChanges

-----------------------------------------------------------------------------
\* The first continuation is the only one that can delete the entry of its relayer.
LEMMA HeadAlone ==
  ASSUME PoolInv, NEW j \in Jobs, hops # <<>>, Head(hops) = j,
         NEW k \in Jobs, k # j, pc[k] = "pushed"
  PROVE  relayerOf[k] # relayerOf[j]
  <1>1. hops \in Seq(Jobs) /\ Len(hops) \in Nat /\ Len(hops) # 0 /\ hops[1] = j
    BY DEF PoolInv, TypeOK
  <1>2. PICK i \in 1 .. Len(hops) : hops[i] = k
    BY DEF PoolInv, HopsInv
  <1>3. 1 \in 1 .. Len(hops) /\ 1 < i
    BY <1>1, <1>2
  <1> QED
    BY <1>1, <1>2, <1>3 DEF PoolInv, HopsInv

\* A relayer stays with the handler that took it until that handler pushes it.
LEMMA ExclusiveStep == PoolInv /\ [Next]_vars => ExclusiveRelayer'
  <1> SUFFICES ASSUME PoolInv, [Next]_vars PROVE ExclusiveRelayer'
    OBVIOUS
  <1> USE DEF mapVars, poolVars
  <1>0. /\ pc \in [Jobs -> Places] /\ relayerOf \in [Jobs -> Relayers \cup {NoRelayer}]
        /\ ExclusiveRelayer
    BY DEF PoolInv, TypeOK
  <1>1. ASSUME UNCHANGED <<queue, relayerOf>>, DOMAIN pendingCount' = DOMAIN pendingCount,
               \A k \in Jobs : Busy(k)' => Busy(k)
        PROVE ExclusiveRelayer'
    BY <1>0, <1>1 DEF ExclusiveRelayer
  <1>2. ASSUME NEW j \in Jobs, Pop(j) PROVE ExclusiveRelayer'
    <2>1. PICK r \in queue : queue' = queue \ {r} /\ relayerOf' = [relayerOf EXCEPT ![j] = r]
      BY <1>2 DEF Pop, Shift
    <2>2. r \in DOMAIN pendingCount /\ UNCHANGED pendingCount
      BY <1>2 DEF Pop, PoolInv, ObjectsInv
    <2>3. \A k \in Jobs \ {j} : (Busy(k)' <=> Busy(k)) /\ relayerOf'[k] = relayerOf[k]
      BY <1>0, <1>2, <2>1 DEF Pop, Busy
    <2>4. relayerOf'[j] = r
      BY <1>0, <2>1
    <2> QED
      BY <1>0, <2>1, <2>2, <2>3, <2>4 DEF ExclusiveRelayer
  <1>3. ASSUME NEW j \in Jobs, PushBack(j) PROVE ExclusiveRelayer'
    <2>1. Busy(j) /\ ~Busy(j)' /\ \A k \in Jobs \ {j} : Busy(k)' => Busy(k)
      BY <1>0, <1>3 DEF PushBack, Busy
    <2>2. queue' = queue \cup {relayerOf[j]} /\ UNCHANGED <<pendingCount, relayerOf>>
      BY <1>3 DEF PushBack
    <2> QED
      BY <1>0, <2>1, <2>2 DEF ExclusiveRelayer
  <1>4. ASSUME NEW j \in Jobs, QueueRelayer(j) PROVE ExclusiveRelayer'
    <2>1. nextToQueue \notin DOMAIN pendingCount
      BY DEF PoolInv, TypeOK
    <2>2. /\ queue' = queue \cup {nextToQueue} /\ UNCHANGED <<pc, relayerOf>>
          /\ DOMAIN pendingCount' = DOMAIN pendingCount \cup {nextToQueue}
      BY <1>4 DEF QueueRelayer
    <2> QED
      BY <1>0, <2>1, <2>2 DEF ExclusiveRelayer, Busy
  <1>5. ASSUME NEW S, Restart(S) PROVE ExclusiveRelayer'
    BY <1>5 DEF Restart, AfterExit, ExclusiveRelayer, Busy
  <1>6. ASSUME NEW j \in Jobs, Deliver(j) \/ Republish(j) \/ SendTransaction(j) PROVE ExclusiveRelayer'
    BY <1>0, <1>1, <1>6 DEF Deliver, Republish, SendTransaction, Busy
  <1>7. ASSUME NEW j \in Jobs, Register(j) PROVE ExclusiveRelayer'
    <2>1. /\ UNCHANGED <<queue, relayerOf>> /\ DOMAIN pendingCount' = DOMAIN pendingCount
          /\ pc[j] = "popped" /\ pc' = [pc EXCEPT ![j] = "sending"]
      BY <1>7 DEF Register
    <2> QED
      BY <1>0, <1>1, <2>1 DEF Busy
  <1>8. ASSUME NEW j \in Jobs, Unregister(j) \/ Park(j) PROVE ExclusiveRelayer'
    <2>1. UNCHANGED <<queue, relayerOf, pendingCount>>
      BY <1>8 DEF Unregister, Park
    <2>2. \A k \in Jobs : Busy(k)' => Busy(k)
      BY <1>0, <1>8 DEF Unregister, Park, CreateIfShort, Busy
    <2> QED
      BY <1>1, <2>1, <2>2
  <1>9. ASSUME NEW j \in Jobs, DeriveRelayers(j) \/ SkipRelayer(j) \/ ReleaseLock(j) \/ Mine(j)
        PROVE ExclusiveRelayer'
    BY <1>0, <1>1, <1>9 DEF DeriveRelayers, SkipRelayer, ReleaseLock, Mine, Busy
  <1>10. ASSUME NEW j \in Jobs, PostTransactionMined(j) PROVE ExclusiveRelayer'
    BY <1>1, <1>10 DEF PostTransactionMined, Busy
  <1>11. CASE UNCHANGED vars
    BY <1>1, <1>11 DEF vars, Busy
  <1> QED
    BY <1>2, <1>3, <1>4, <1>5, <1>6, <1>7, <1>8, <1>9, <1>10, <1>11
    DEF Next, Handler, RepublishAndThrow, Crash

\* A handler with a pending delete and one with an entry differ in their relayers.
LEMMA ReleasedStep == PoolInv /\ [Next]_vars => ReleasedInv'
  <1> SUFFICES ASSUME PoolInv, [Next]_vars PROVE ReleasedInv'
    OBVIOUS
  <1> USE DEF mapVars, poolVars
  <1>0. /\ pc \in [Jobs -> Places] /\ relayerOf \in [Jobs -> Relayers \cup {NoRelayer}]
        /\ ReleasedInv
    BY DEF PoolInv, TypeOK
  <1>1. ASSUME NEW j \in Jobs, pc'[j] \notin {"pushed", "sending"},
               pc'[j] = "returning" => pc[j] = "sending" /\ relayerOf'[j] = relayerOf[j],
               \A k \in Jobs \ {j} :
                 /\ relayerOf'[k] = relayerOf[k]
                 /\ pc'[k] = "pushed" => pc[k] = "pushed"
                 /\ pc'[k] \in {"sending", "returning"} => pc[k] \in {"sending", "returning"}
        PROVE ReleasedInv'
    <2> SUFFICES ASSUME NEW a \in Jobs, NEW b \in Jobs, pc'[a] = "pushed", pc'[b] \in {"sending", "returning"}
                 PROVE relayerOf'[a] # relayerOf'[b]
      BY DEF ReleasedInv
    <2>1. a # j /\ pc[a] = "pushed" /\ relayerOf'[a] = relayerOf[a]
      BY <1>1
    <2>2. pc[b] \in {"sending", "returning"} /\ relayerOf'[b] = relayerOf[b]
      <3>1. CASE b = j
        BY <1>1, <3>1
      <3>2. CASE b # j
        BY <1>1, <3>2
      <3> QED
        BY <3>1, <3>2
    <2> QED
      BY <1>0, <2>1, <2>2 DEF ReleasedInv
  <1>2. ASSUME NEW j \in Jobs, Pop(j) PROVE ReleasedInv'
    BY <1>0, <1>1, <1>2 DEF Pop
  <1>3. ASSUME NEW j \in Jobs, PushBack(j) PROVE ReleasedInv'
    <2>1. \A k \in Jobs \ {j} : pc[k] \in {"sending", "returning"} => relayerOf[k] # relayerOf[j]
      BY <1>3 DEF PushBack, PoolInv, ExclusiveRelayer, Busy
    <2> QED
      BY <1>0, <1>3, <2>1 DEF PushBack, ReleasedInv
  <1>4. ASSUME NEW j \in Jobs, Register(j) PROVE ReleasedInv'
    <2>1. \A k \in Jobs \ {j} : pc[k] = "pushed" => relayerOf[k] # relayerOf[j]
      BY <1>4, HeadAlone DEF Register, Resume
    <2> QED
      BY <1>0, <1>4, <2>1 DEF Register, ReleasedInv
  <1>5. ASSUME NEW j \in Jobs, Unregister(j) \/ Park(j) PROVE ReleasedInv'
    <2>1. UNCHANGED relayerOf /\ \E p \in {"waitLock", "done"} : pc' = [pc EXCEPT ![j] = p]
      BY <1>5 DEF Unregister, Park, CreateIfShort
    <2> QED
      BY <1>0, <1>1, <2>1
  <1>6. ASSUME NEW j \in Jobs,
               Deliver(j) \/ Republish(j) \/ SendTransaction(j) \/ DeriveRelayers(j) \/ ReleaseLock(j)
        PROVE ReleasedInv'
    <2>1. /\ UNCHANGED relayerOf
          /\ \/ \E p \in {"delivered", "queued", "creating", "done"} : pc' = [pc EXCEPT ![j] = p]
             \/ pc[j] = "sending" /\ pc' = [pc EXCEPT ![j] = "returning"]
      BY <1>6 DEF Deliver, Republish, SendTransaction, DeriveRelayers, ReleaseLock
    <2> QED
      BY <1>0, <1>1, <2>1
  <1>7. ASSUME NEW j \in Jobs,
               QueueRelayer(j) \/ SkipRelayer(j) \/ Mine(j) \/ PostTransactionMined(j)
        PROVE ReleasedInv'
    BY <1>0, <1>7 DEF QueueRelayer, SkipRelayer, Mine, PostTransactionMined, ReleasedInv
  <1>8. ASSUME NEW S, Restart(S) PROVE ReleasedInv'
    BY <1>8 DEF Restart, AfterExit, ReleasedInv
  <1>9. CASE UNCHANGED vars
    BY <1>0, <1>9 DEF vars, ReleasedInv
  <1> QED
    BY <1>2, <1>3, <1>4, <1>5, <1>6, <1>7, <1>8, <1>9
    DEF Next, Handler, RepublishAndThrow, Crash

\* Queued and pushed relayers have a metadata object.
LEMMA ObjectsStep == PoolInv /\ [Next]_vars => ObjectsInv'
  <1> SUFFICES ASSUME PoolInv, [Next]_vars PROVE ObjectsInv'
    OBVIOUS
  <1> USE DEF mapVars, poolVars
  <1>0. /\ pc \in [Jobs -> Places] /\ relayerOf \in [Jobs -> Relayers \cup {NoRelayer}]
        /\ ObjectsInv
    BY DEF PoolInv, TypeOK
  <1>1. ASSUME NEW j \in Jobs, Pop(j) PROVE ObjectsInv'
    <2>1. /\ UNCHANGED pendingCount /\ queue' \subseteq queue
          /\ \A k \in Jobs \ {j} : relayerOf'[k] = relayerOf[k]
          /\ pc' = [pc EXCEPT ![j] = "popped"]
      BY <1>0, <1>1 DEF Pop, Shift
    <2> QED
      BY <1>0, <2>1 DEF ObjectsInv
  <1>2. ASSUME NEW j \in Jobs, PushBack(j) PROVE ObjectsInv'
    <2>1. relayerOf[j] \in DOMAIN pendingCount
      BY <1>2 DEF PushBack, PoolInv, ExclusiveRelayer, Busy
    <2> QED
      BY <1>0, <1>2, <2>1 DEF PushBack, ObjectsInv
  <1>3. ASSUME NEW j \in Jobs, Register(j) PROVE ObjectsInv'
    <2>1. /\ UNCHANGED <<queue, relayerOf>> /\ DOMAIN pendingCount' = DOMAIN pendingCount
          /\ pc' = [pc EXCEPT ![j] = "sending"]
      BY <1>3 DEF Register
    <2> QED
      BY <1>0, <2>1 DEF ObjectsInv
  <1>4. ASSUME NEW j \in Jobs, Unregister(j) \/ Park(j) PROVE ObjectsInv'
    <2>1. UNCHANGED <<queue, relayerOf, pendingCount>> /\ \E p \in {"waitLock", "done"} : pc' = [pc EXCEPT ![j] = p]
      BY <1>4 DEF Unregister, Park, CreateIfShort
    <2> QED
      BY <1>0, <2>1 DEF ObjectsInv
  <1>5. ASSUME NEW j \in Jobs, QueueRelayer(j) PROVE ObjectsInv'
    <2>1. /\ queue' = queue \cup {nextToQueue} /\ UNCHANGED <<pc, relayerOf>>
          /\ DOMAIN pendingCount' = DOMAIN pendingCount \cup {nextToQueue}
      BY <1>5 DEF QueueRelayer
    <2> QED
      BY <1>0, <2>1 DEF ObjectsInv
  <1>6. ASSUME NEW j \in Jobs,
               Deliver(j) \/ Republish(j) \/ SendTransaction(j) \/ DeriveRelayers(j) \/ ReleaseLock(j)
        PROVE ObjectsInv'
    <2>1. /\ UNCHANGED <<queue, relayerOf, pendingCount>>
          /\ \E p \in {"delivered", "queued", "returning", "creating", "done"} : pc' = [pc EXCEPT ![j] = p]
      BY <1>6 DEF Deliver, Republish, SendTransaction, DeriveRelayers, ReleaseLock
    <2> QED
      BY <1>0, <2>1 DEF ObjectsInv
  <1>7. ASSUME NEW j \in Jobs, SkipRelayer(j) \/ Mine(j) \/ PostTransactionMined(j) PROVE ObjectsInv'
    <2>1. UNCHANGED <<queue, relayerOf, pc>> /\ DOMAIN pendingCount' = DOMAIN pendingCount
      BY <1>7 DEF SkipRelayer, Mine, PostTransactionMined
    <2> QED
      BY <1>0, <2>1 DEF ObjectsInv
  <1>8. ASSUME NEW S, Restart(S) PROVE ObjectsInv'
    BY <1>8 DEF Restart, AfterExit, ObjectsInv
  <1>9. CASE UNCHANGED vars
    BY <1>0, <1>9 DEF vars, ObjectsInv
  <1> QED
    BY <1>1, <1>2, <1>3, <1>4, <1>5, <1>6, <1>7, <1>8, <1>9
    DEF Next, Handler, RepublishAndThrow, Crash

\* The lock of createRelayers serves its waiters in order, one at a time.
LEMMA LockStep == PoolInv /\ [Next]_vars => LockInv' /\ CreationSerial'
  <1> SUFFICES ASSUME PoolInv, [Next]_vars PROVE LockInv' /\ CreationSerial'
    OBVIOUS
  <1> USE DEF mapVars, poolVars
  <1> DEFINE n == Len(createLock)
             Waiting(k) == pc[k] \in {"waitLock", "creating"}
  <1>0. /\ pc \in [Jobs -> Places] /\ createLock \in Seq(Jobs) /\ n \in Nat
        /\ relayerCount \in Nat /\ nextToQueue \in 0 .. relayerCount
        /\ LockInv /\ CreationSerial
    BY PoolAssumption DEF PoolInv, TypeOK
  <1>1. ASSUME UNCHANGED <<relayerCount, createLock>>, nextToQueue' = nextToQueue \/ nextToQueue < relayerCount,
               \A k \in Jobs : pc'[k] = pc[k] \/ (~Waiting(k) /\ ~Waiting(k)')
        PROVE LockInv' /\ CreationSerial'
    <2>1. \A k \in Jobs : (pc'[k] = "waitLock" <=> pc[k] = "waitLock") /\ (pc'[k] = "creating" <=> pc[k] = "creating")
      BY <1>1
    <2> QED
      BY <1>0, <1>1, <2>1 DEF LockInv, CreationSerial
  <1>2. ASSUME NEW j \in Jobs, pc[j] \in {"pushed", "returning"}, UNCHANGED mapVars, CreateIfShort(j)
        PROVE LockInv' /\ CreationSerial'
    <2>1. CASE Shortage
      <3>1. /\ pc' = [pc EXCEPT ![j] = "waitLock"] /\ createLock' = Append(createLock, j)
        BY <1>2, <2>1 DEF CreateIfShort
      <3>2. /\ Len(createLock') = n + 1 /\ createLock'[n + 1] = j
            /\ \A i \in 1 .. n : createLock'[i] = createLock[i]
            /\ createLock # <<>> => createLock' # <<>> /\ Head(createLock') = Head(createLock)
        BY <1>0, <3>1
      <3>3. LockInv'
        BY <1>0, <3>1, <3>2 DEF LockInv
      <3>4. CreationSerial'
        BY <1>0, <1>2, <3>1, <3>2 DEF CreationSerial
      <3> QED
        BY <3>3, <3>4
    <2>2. CASE ~Shortage
      <3>1. pc' = [pc EXCEPT ![j] = "done"] /\ UNCHANGED createLock
        BY <1>2, <2>2 DEF CreateIfShort
      <3> QED
        BY <1>0, <1>1, <1>2, <3>1
    <2> QED
      BY <2>1, <2>2
  <1>3. ASSUME NEW j \in Jobs, Unregister(j) \/ Park(j) PROVE LockInv' /\ CreationSerial'
    BY <1>2, <1>3 DEF Unregister, Park
  <1>4. ASSUME NEW j \in Jobs, DeriveRelayers(j) PROVE LockInv' /\ CreationSerial'
    <2>1. createLock # <<>> /\ Head(createLock) = j
      BY <1>0, <1>4 DEF DeriveRelayers, HoldsCreateLock, LockInv
    <2>2. \A k \in Jobs : pc[k] # "creating"
      BY <1>0, <1>4, <2>1 DEF DeriveRelayers, CreationSerial
    <2>3. pc' = [pc EXCEPT ![j] = "creating"] /\ UNCHANGED createLock
      BY <1>4 DEF DeriveRelayers
    <2> QED
      BY <1>0, <2>1, <2>2, <2>3 DEF LockInv, CreationSerial
  <1>5. ASSUME NEW j \in Jobs, ReleaseLock(j) PROVE LockInv' /\ CreationSerial'
    <2>1. /\ createLock # <<>> /\ Head(createLock) = j /\ nextToQueue = relayerCount
          /\ \A k \in Jobs \ {j} : pc[k] # "creating"
      BY <1>0, <1>5 DEF ReleaseLock, CreationSerial
    <2>2. /\ Len(createLock') = n - 1 /\ \A i \in 1 .. n - 1 : createLock'[i] = createLock[i + 1]
          /\ createLock[1] = j
      BY <1>0, <1>5, <2>1 DEF ReleaseLock
    <2>3. pc' = [pc EXCEPT ![j] = "done"] /\ UNCHANGED mapVars /\ pc[j] = "creating"
      BY <1>5 DEF ReleaseLock
    <2>4. ASSUME NEW k \in Jobs, pc'[k] = "waitLock" PROVE \E i \in 1 .. n - 1 : createLock'[i] = k
      <3>1. k # j /\ pc[k] = "waitLock"
        BY <1>0, <2>3, <2>4
      <3>2. PICK i \in 1 .. n : createLock[i] = k
        BY <1>0, <3>1 DEF LockInv
      <3>3. i - 1 \in 1 .. n - 1 /\ (i - 1) + 1 = i
        BY <1>0, <2>2, <3>1, <3>2
      <3> QED
        BY <2>2, <3>2, <3>3
    <2>5. LockInv'
      BY <2>2, <2>4 DEF LockInv
    <2>6. CreationSerial'
      BY <1>0, <2>1, <2>3 DEF CreationSerial
    <2> QED
      BY <2>5, <2>6
  <1>6. ASSUME NEW j \in Jobs,
               Deliver(j) \/ Pop(j) \/ Republish(j) \/ Register(j) \/ SendTransaction(j) \/ PushBack(j)
        PROVE LockInv' /\ CreationSerial'
    <2>1. /\ UNCHANGED <<mapVars, createLock>> /\ ~Waiting(j)
          /\ \E p \in {"delivered", "popped", "queued", "sending", "returning", "pushed"} : pc' = [pc EXCEPT ![j] = p]
      BY <1>6 DEF Deliver, Pop, Republish, Register, SendTransaction, PushBack
    <2> QED
      BY <1>0, <1>1, <2>1
  <1>7. ASSUME NEW j \in Jobs,
               QueueRelayer(j) \/ SkipRelayer(j) \/ Mine(j) \/ PostTransactionMined(j)
        PROVE LockInv' /\ CreationSerial'
    BY <1>1, <1>7 DEF QueueRelayer, SkipRelayer, Mine, PostTransactionMined, MoreToQueue
  <1>8. ASSUME NEW S, Restart(S) PROVE LockInv' /\ CreationSerial'
    BY <1>8, PoolAssumption DEF Restart, AfterExit, LockInv, CreationSerial
  <1>9. CASE UNCHANGED vars
    BY <1>1, <1>9 DEF vars
  <1> QED
    BY <1>3, <1>4, <1>5, <1>6, <1>7, <1>8, <1>9
    DEF Next, Handler, RepublishAndThrow, Crash

\* The map gains an entry at the end of getActiveRelayer and loses that one entry
\* in addActiveRelayer of the same handler.
LEMMA MapStep == PoolInv /\ [Next]_vars => ProcessingMapExact'
  <1> SUFFICES ASSUME PoolInv, [Next]_vars PROVE ProcessingMapExact'
    OBVIOUS
  <1> USE DEF mapVars, poolVars
  <1>0. /\ pc \in [Jobs -> Places] /\ relayerOf \in [Jobs -> Relayers \cup {NoRelayer}]
        /\ ProcessingMapExact
    BY DEF PoolInv, TypeOK
  <1>1. ASSUME UNCHANGED processing,
               \A k \in Jobs : InMap(k)' <=> InMap(k),
               \A k \in Jobs : InMap(k) => relayerOf'[k] = relayerOf[k]
        PROVE ProcessingMapExact'
    BY <1>0, <1>1 DEF ProcessingMapExact
  <1>2. ASSUME NEW j \in Jobs, Register(j) PROVE ProcessingMapExact'
    <2>1. processing' = processing \cup {relayerOf[j]} /\ UNCHANGED relayerOf
      BY <1>2 DEF Register
    <2>2. \A k \in Jobs : InMap(k)' <=> InMap(k) \/ k = j
      BY <1>0, <1>2 DEF Register, InMap
    <2> QED
      BY <1>0, <2>1, <2>2 DEF ProcessingMapExact
  <1>3. ASSUME NEW j \in Jobs, Unregister(j) \/ Park(j) PROVE ProcessingMapExact'
    <2>1. processing' = processing \ {relayerOf[j]} /\ UNCHANGED relayerOf
      BY <1>3 DEF Unregister, Park
    <2>2. InMap(j) /\ ~InMap(j)' /\ \A k \in Jobs \ {j} : InMap(k)' <=> InMap(k)
      BY <1>0, <1>3 DEF Unregister, Park, CreateIfShort, InMap
    <2>3. ASSUME NEW k \in Jobs, k # j, InMap(k) PROVE relayerOf[k] # relayerOf[j]
      <3>1. CASE Unregister(j) /\ pc[k] = "pushed"
        BY <2>3, <3>1, HeadAlone DEF Unregister, Resume
      <3>2. CASE Unregister(j) /\ pc[k] # "pushed"
        BY <2>3, <3>2 DEF Unregister, InMap, PoolInv, ReleasedInv
      <3>3. CASE Park(j) /\ pc[k] = "pushed"
        BY <2>3, <3>3 DEF Park, PoolInv, ReleasedInv
      <3>4. CASE Park(j) /\ pc[k] # "pushed"
        BY <2>3, <3>4 DEF Park, InMap, PoolInv, ExclusiveRelayer, Busy
      <3> QED
        BY <1>3, <3>1, <3>2, <3>3, <3>4
    <2> QED
      BY <1>0, <2>1, <2>2, <2>3 DEF ProcessingMapExact
  <1>4. ASSUME NEW j \in Jobs, Pop(j) PROVE ProcessingMapExact'
    <2>1. /\ UNCHANGED processing /\ pc[j] = "delivered" /\ pc' = [pc EXCEPT ![j] = "popped"]
          /\ \A k \in Jobs \ {j} : relayerOf'[k] = relayerOf[k]
      BY <1>0, <1>4 DEF Pop
    <2> QED
      BY <1>0, <1>1, <2>1 DEF InMap
  <1>5. ASSUME NEW j \in Jobs, SendTransaction(j) \/ PushBack(j) PROVE ProcessingMapExact'
    BY <1>0, <1>1, <1>5 DEF SendTransaction, PushBack, InMap
  <1>6. ASSUME NEW j \in Jobs, Deliver(j) \/ Republish(j) \/ DeriveRelayers(j) \/ ReleaseLock(j)
        PROVE ProcessingMapExact'
    BY <1>0, <1>1, <1>6 DEF Deliver, Republish, DeriveRelayers, ReleaseLock, InMap
  <1>7. ASSUME NEW j \in Jobs, QueueRelayer(j) \/ SkipRelayer(j) \/ Mine(j) \/ PostTransactionMined(j)
        PROVE ProcessingMapExact'
    BY <1>1, <1>7 DEF QueueRelayer, SkipRelayer, Mine, PostTransactionMined, InMap
  <1>8. ASSUME NEW S, Restart(S) PROVE ProcessingMapExact'
    BY <1>8 DEF Restart, AfterExit, ProcessingMapExact, InMap
  <1>9. CASE UNCHANGED vars
    BY <1>1, <1>9 DEF vars, InMap
  <1> QED
    BY <1>2, <1>3, <1>4, <1>5, <1>6, <1>7, <1>8, <1>9
    DEF Next, Handler, RepublishAndThrow, Crash

-----------------------------------------------------------------------------
\* The relayers a mined event can still count off are not parked.
LEMMA CountedIsNotParked ==
  ASSUME PoolInv, hops = <<>>, NEW r \in queue \cup processing
  PROVE  ~Parked(r)
  <1>1. ASSUME r \in processing PROVE \E j \in Jobs : InMap(j) /\ relayerOf[j] = r
    BY <1>1 DEF PoolInv, ProcessingMapExact
  <1>2. \A j \in Jobs : pc[j] # "pushed"
    BY DEF PoolInv, HopsInv
  <1> QED
    BY <1>1, <1>2 DEF Parked, InMap, Busy

\* Where a relayer becomes parked, and that none is parked below the threshold.
LEMMA ParkedStep == PoolInv /\ [Next]_vars => ParkedAtThreshold'
  <1> SUFFICES ASSUME PoolInv, [Next]_vars PROVE ParkedAtThreshold'
    OBVIOUS
  <1> USE DEF mapVars, poolVars
  <1>0. /\ pc \in [Jobs -> Places] /\ relayerOf \in [Jobs -> Relayers \cup {NoRelayer}]
        /\ ParkedAtThreshold /\ pendingCount \in [DOMAIN pendingCount -> Int]
    BY DEF PoolInv, TypeOK
  <1>1. ASSUME \A r \in Relayers : Parked(r)' => Parked(r) /\ pendingCount'[r] = pendingCount[r]
        PROVE ParkedAtThreshold'
    BY <1>0, <1>1 DEF ParkedAtThreshold
  <1>2. ASSUME NEW j \in Jobs, Pop(j) PROVE ParkedAtThreshold'
    <2>1. PICK r \in queue : queue' = queue \ {r} /\ relayerOf' = [relayerOf EXCEPT ![j] = r]
      BY <1>2 DEF Pop, Shift
    <2>2. /\ UNCHANGED pendingCount /\ Busy(j)' /\ ~Busy(j) /\ relayerOf'[j] = r
          /\ \A k \in Jobs \ {j} : (Busy(k)' <=> Busy(k)) /\ relayerOf'[k] = relayerOf[k]
      BY <1>0, <1>2, <2>1 DEF Pop, Busy
    <2> QED
      BY <1>1, <2>1, <2>2 DEF Parked
  <1>3. ASSUME NEW j \in Jobs, PushBack(j) PROVE ParkedAtThreshold'
    <2>1. /\ UNCHANGED <<pendingCount, relayerOf>> /\ queue' = queue \cup {relayerOf[j]}
          /\ \A k \in Jobs \ {j} : Busy(k)' <=> Busy(k)
      BY <1>0, <1>3 DEF PushBack, Busy
    <2> QED
      BY <1>1, <2>1 DEF Parked
  <1>4. ASSUME NEW j \in Jobs, Register(j) PROVE ParkedAtThreshold'
    <2>1. /\ UNCHANGED <<queue, relayerOf>> /\ \A k \in Jobs : Busy(k)' <=> Busy(k)
      BY <1>0, <1>4 DEF Register, Busy
    <2>2. /\ Busy(j) /\ DOMAIN pendingCount' = DOMAIN pendingCount
          /\ \A r \in DOMAIN pendingCount \ {relayerOf[j]} : pendingCount'[r] = pendingCount[r]
      BY <1>0, <1>4 DEF Register, Busy
    <2> QED
      BY <1>1, <2>1, <2>2 DEF Parked
  <1>5. ASSUME NEW j \in Jobs, Park(j) PROVE ParkedAtThreshold'
    <2>1. /\ UNCHANGED <<queue, pendingCount, relayerOf>> /\ ~BelowThreshold(relayerOf[j])
          /\ \A k \in Jobs \ {j} : Busy(k)' <=> Busy(k)
      BY <1>0, <1>5 DEF Park, CreateIfShort, Busy
    <2>2. ASSUME NEW r \in Relayers, Parked(r)' PROVE pendingCount'[r] >= PendingTransactionCountThreshold
      <3>1. CASE r = relayerOf[j]
        BY <1>0, <2>1, <2>2, <3>1, PoolAssumption DEF BelowThreshold, Parked
      <3>2. CASE r # relayerOf[j]
        BY <1>0, <2>1, <2>2, <3>2 DEF Parked, ParkedAtThreshold
      <3> QED
        BY <3>1, <3>2
    <2> QED
      BY <2>2 DEF ParkedAtThreshold
  <1>6. ASSUME NEW j \in Jobs, Unregister(j) PROVE ParkedAtThreshold'
    <2>1. /\ UNCHANGED <<queue, pendingCount, relayerOf>> /\ \A k \in Jobs : Busy(k)' <=> Busy(k)
      BY <1>0, <1>6 DEF Unregister, CreateIfShort, Busy
    <2> QED
      BY <1>1, <2>1 DEF Parked
  <1>7. ASSUME NEW j \in Jobs, QueueRelayer(j) PROVE ParkedAtThreshold'
    <2>1. /\ UNCHANGED <<pc, relayerOf>> /\ queue' = queue \cup {nextToQueue}
          /\ DOMAIN pendingCount' = DOMAIN pendingCount \cup {nextToQueue}
          /\ \A r \in DOMAIN pendingCount \ {nextToQueue} : pendingCount'[r] = pendingCount[r]
      BY <1>7 DEF QueueRelayer
    <2> QED
      BY <1>1, <2>1 DEF Parked, Busy
  <1>8. ASSUME NEW j \in Jobs, PostTransactionMined(j) PROVE ParkedAtThreshold'
    <2>1. UNCHANGED <<queue, pc, relayerOf>> /\ DOMAIN pendingCount' = DOMAIN pendingCount
      BY <1>8 DEF PostTransactionMined
    <2>2. CASE relayerOf[j] \in queue \cup processing
      <3>1. ~Parked(relayerOf[j])
        BY <1>8, <2>2, CountedIsNotParked DEF PostTransactionMined
      <3>2. \A r \in DOMAIN pendingCount \ {relayerOf[j]} : pendingCount'[r] = pendingCount[r]
        BY <1>0, <1>8, <2>2 DEF PostTransactionMined, InQueueOrProcessing
      <3> QED
        BY <1>1, <2>1, <3>1, <3>2 DEF Parked, Busy
    <2>3. CASE relayerOf[j] \notin queue \cup processing
      BY <1>1, <1>8, <2>1, <2>3 DEF PostTransactionMined, InQueueOrProcessing, Parked, Busy
    <2> QED
      BY <2>2, <2>3
  <1>9. ASSUME NEW j \in Jobs,
               Deliver(j) \/ Republish(j) \/ SendTransaction(j) \/ DeriveRelayers(j) \/ ReleaseLock(j)
        PROVE ParkedAtThreshold'
    <2>1. /\ UNCHANGED <<queue, pendingCount, relayerOf>> /\ \A k \in Jobs : Busy(k)' <=> Busy(k)
      BY <1>0, <1>9 DEF Deliver, Republish, SendTransaction, DeriveRelayers, ReleaseLock, Busy
    <2> QED
      BY <1>1, <2>1 DEF Parked
  <1>10. ASSUME NEW j \in Jobs, SkipRelayer(j) \/ Mine(j) PROVE ParkedAtThreshold'
    BY <1>1, <1>10 DEF SkipRelayer, Mine, Parked, Busy
  <1>11. ASSUME NEW S, Restart(S) PROVE ParkedAtThreshold'
    BY <1>11 DEF Restart, ParkedAtThreshold, Parked
  <1>12. CASE UNCHANGED vars
    BY <1>1, <1>12 DEF vars, Parked, Busy
  <1> QED
    BY <1>2, <1>3, <1>4, <1>5, <1>6, <1>7, <1>8, <1>9, <1>10, <1>11, <1>12
    DEF Next, Handler, RepublishAndThrow, Crash

-----------------------------------------------------------------------------
\* PoolInv is an invariant of the pool.
LEMMA Invariance == Spec => []PoolInv
  <1>1. PoolInv /\ [Next]_vars => PoolInv'
    <2> SUFFICES ASSUME PoolInv, [Next]_vars PROVE PoolInv'
      OBVIOUS
    <2>1. TypeOK'
      BY PoolTypesStep, ControlTypesStep DEF PoolTypes, ControlTypes, TypeOK
    <2> QED
      BY <2>1, HopsStep, ReleasedStep, ObjectsStep, LockStep, ExclusiveStep, MapStep, ParkedStep
      DEF PoolInv
  <1> QED
    BY InitInv, <1>1, PTL DEF Spec

\* Every variable of the pool keeps its type in every behaviour.
THEOREM TypeCorrect == Spec => []TypeOK
  <1>1. PoolInv => TypeOK
    BY DEF PoolInv
  <1> QED
    BY <1>1, Invariance, PTL

\* getActiveRelayer never hands a relayer to two handlers, whatever the number of
\* handlers and of relayers created meanwhile.
THEOREM Exclusive == Spec => []ExclusiveRelayer
  <1>1. PoolInv => ExclusiveRelayer
    BY DEF PoolInv
  <1> QED
    BY <1>1, Invariance, PTL

\* The delete after the await of the push removes the handler's own entry only.
THEOREM MapExact == Spec => []ProcessingMapExact
  <1>1. PoolInv => ProcessingMapExact
    BY DEF PoolInv
  <1> QED
    BY <1>1, Invariance, PTL

\* No relayer leaves the pool below the threshold of pending transactions.
THEOREM ParkedOnlyAtThreshold == Spec => []ParkedAtThreshold
  <1>1. PoolInv => ParkedAtThreshold
    BY DEF PoolInv
  <1> QED
    BY <1>1, Invariance, PTL

\* createRelayers derives and queues one batch of relayers at a time.
THEOREM SerialCreation == Spec => []CreationSerial
  <1>1. PoolInv => CreationSerial
    BY DEF PoolInv
  <1> QED
    BY <1>1, Invariance, PTL

\* A step that is no restart brings no parked relayer back.
LEMMA StaysParked ==
  ASSUME PoolInv, [Next]_vars, restarts' = restarts, NEW r, Parked(r)
  PROVE  Parked(r)'
  <1> USE DEF mapVars, poolVars, Parked
  <1>0. /\ pc \in [Jobs -> Places] /\ relayerOf \in [Jobs -> Relayers \cup {NoRelayer}]
    BY DEF PoolInv, TypeOK
  <1>1. ASSUME UNCHANGED <<queue, relayerOf>>, DOMAIN pendingCount' = DOMAIN pendingCount,
               \A k \in Jobs : Busy(k)' => Busy(k)
        PROVE Parked(r)'
    BY <1>1
  <1>2. ASSUME NEW j \in Jobs, Pop(j) PROVE Parked(r)'
    <2>1. PICK q \in queue : queue' = queue \ {q} /\ relayerOf' = [relayerOf EXCEPT ![j] = q]
      BY <1>2 DEF Pop, Shift
    <2>2. /\ UNCHANGED pendingCount /\ relayerOf'[j] = q
          /\ \A k \in Jobs \ {j} : (Busy(k)' <=> Busy(k)) /\ relayerOf'[k] = relayerOf[k]
      BY <1>0, <1>2, <2>1 DEF Pop, Busy
    <2> QED
      BY <2>1, <2>2
  <1>3. ASSUME NEW j \in Jobs, PushBack(j) PROVE Parked(r)'
    <2>1. /\ UNCHANGED <<pendingCount, relayerOf>> /\ queue' = queue \cup {relayerOf[j]}
          /\ Busy(j) /\ \A k \in Jobs : Busy(k)' => Busy(k)
      BY <1>0, <1>3 DEF PushBack, Busy
    <2> QED
      BY <2>1
  <1>4. ASSUME NEW j \in Jobs, Register(j) \/ SendTransaction(j) PROVE Parked(r)'
    <2>1. /\ UNCHANGED <<queue, relayerOf>> /\ DOMAIN pendingCount' = DOMAIN pendingCount
      BY <1>4 DEF Register, SendTransaction
    <2>2. \A k \in Jobs : Busy(k)' => Busy(k)
      BY <1>0, <1>4 DEF Register, SendTransaction, Busy
    <2> QED
      BY <1>1, <2>1, <2>2
  <1>5. ASSUME NEW j \in Jobs, Unregister(j) \/ Park(j) PROVE Parked(r)'
    <2>1. UNCHANGED <<queue, relayerOf, pendingCount>>
      BY <1>5 DEF Unregister, Park
    <2>2. \A k \in Jobs : Busy(k)' => Busy(k)
      BY <1>0, <1>5 DEF Unregister, Park, CreateIfShort, Busy
    <2> QED
      BY <1>1, <2>1, <2>2
  <1>6. ASSUME NEW j \in Jobs, QueueRelayer(j) PROVE Parked(r)'
    <2>1. r # nextToQueue
      BY DEF PoolInv, TypeOK
    <2>2. /\ queue' = queue \cup {nextToQueue} /\ UNCHANGED <<pc, relayerOf>>
          /\ DOMAIN pendingCount' = DOMAIN pendingCount \cup {nextToQueue}
      BY <1>6 DEF QueueRelayer
    <2> QED
      BY <2>1, <2>2 DEF Busy
  <1>7. ASSUME NEW j \in Jobs, Deliver(j) \/ Republish(j) \/ DeriveRelayers(j) \/ ReleaseLock(j)
        PROVE Parked(r)'
    BY <1>0, <1>1, <1>7 DEF Deliver, Republish, DeriveRelayers, ReleaseLock, Busy
  <1>8. ASSUME NEW j \in Jobs, SkipRelayer(j) \/ Mine(j) \/ PostTransactionMined(j) PROVE Parked(r)'
    <2>1. UNCHANGED <<queue, pc, relayerOf>> /\ DOMAIN pendingCount' = DOMAIN pendingCount
      BY <1>8 DEF SkipRelayer, Mine, PostTransactionMined
    <2> QED
      BY <1>1, <2>1 DEF Busy
  <1>9. ASSUME NEW S, Restart(S) PROVE FALSE
    BY <1>9 DEF Restart, PoolInv, TypeOK
  <1>10. CASE UNCHANGED vars
    BY <1>1, <1>10 DEF vars, Busy
  <1> QED
    BY <1>2, <1>3, <1>4, <1>5, <1>6, <1>7, <1>8, <1>9, <1>10
    DEF Next, Handler, RepublishAndThrow, Crash

\* A parked relayer is lost to the pool until the process restarts, however many of
\* its transactions are mined.
THEOREM ParkedIsForever == Spec => ParkedForever
  <1>1. PoolInv /\ [Next]_vars =>
          [restarts' = restarts => \A r \in Relayers : Parked(r) => Parked(r)']_vars
    BY StaysParked
  <1> QED
    BY <1>1, Invariance, PTL DEF ParkedForever, Spec
-----------------------------------------------------------------------------
(* The transactions a relayer has been counted for and not counted off. *)
Handed(r) == {j \in Jobs : relayerOf[j] = r /\ pc[j] # "popped" /\ tx[j] # "handled"}

Waiting(j) == pc[j] \in {"queued", "delivered"}

(* A message has a relayer once pop has shifted one, and a transaction once *)
(* sendTransaction has answered.                                            *)
JobsInv ==
  /\ \A j \in Jobs : Waiting(j) => relayerOf[j] = NoRelayer
  /\ \A j \in Jobs : ~Waiting(j) => relayerOf[j] \in DOMAIN pendingCount
  /\ \A j \in Jobs : Waiting(j) \/ pc[j] \in {"popped", "sending"} => tx[j] = "none"

(* Parked relayers are not counted down, so their count may be too high.    *)
HandedInv ==
  \A r \in DOMAIN pendingCount :
    /\ IsFiniteSet(Handed(r))
    /\ Cardinality(Handed(r)) <= pendingCount[r]
    /\ ~Parked(r) => pendingCount[r] = Cardinality(Handed(r))

CountInv == restarts = 0 => JobsInv /\ HandedInv

(* A relayer that is queued or was just shifted has room for one more.      *)
RoomInv ==
  \A r \in DOMAIN pendingCount :
    /\ pendingCount[r] <= PendingTransactionCountThreshold
    /\ r \in queue \/ Uncounted(r) => pendingCount[r] < PendingTransactionCountThreshold

\* What the steps below rely on.
LEMMA CountFacts ==
  ASSUME PoolInv
  PROVE  /\ pc \in [Jobs -> Places] /\ relayerOf \in [Jobs -> Relayers \cup {NoRelayer}]
         /\ tx \in [Jobs -> TxStates]
         /\ queue \subseteq DOMAIN pendingCount
         /\ DOMAIN pendingCount \subseteq Relayers
         /\ NoRelayer \notin DOMAIN pendingCount
         /\ pendingCount \in [DOMAIN pendingCount -> Int]
         /\ \A j \in Jobs : Busy(j) => relayerOf[j] \in DOMAIN pendingCount \ queue
         /\ \A j, k \in Jobs : Busy(j) /\ Busy(k) /\ relayerOf[j] = relayerOf[k] => j = k
<1>1. 0 .. nextToQueue - 1 \subseteq Relayers
  BY PoolAssumption DEF PoolInv, TypeOK, Relayers
<1>2. NoRelayer \notin Relayers
  BY DEF NoRelayer, Relayers
<1> QED BY <1>1, <1>2 DEF PoolInv, TypeOK, ObjectsInv, ExclusiveRelayer

\* No message gets a second relayer within one life of the process.
LEMMA JobsStep ==
  ASSUME PoolInv, JobsInv, [Next]_vars, restarts' = restarts
  PROVE  JobsInv'
<1> USE CountFacts DEF mapVars, poolVars, Waiting
<1>1. ASSUME UNCHANGED <<pc, relayerOf>>, DOMAIN pendingCount \subseteq DOMAIN pendingCount',
             \A j \in Jobs : tx'[j] = tx[j] \/ tx[j] # "none"
      PROVE  JobsInv'
  BY <1>1 DEF JobsInv
<1>2. ASSUME NEW j \in Jobs, Deliver(j) \/ Republish(j) PROVE JobsInv'
  BY <1>2 DEF Deliver, Republish, JobsInv
<1>3. ASSUME NEW j \in Jobs, Pop(j) PROVE JobsInv'
  <2>1. PICK r \in queue : relayerOf' = [relayerOf EXCEPT ![j] = r]
    BY <1>3 DEF Pop
  <2>2. r \in DOMAIN pendingCount
    BY <2>1
  <2> QED BY <1>3, <2>1, <2>2 DEF Pop, JobsInv
<1>4. ASSUME NEW j \in Jobs, Register(j) PROVE JobsInv'
  BY <1>4 DEF Register, JobsInv
<1>5. ASSUME NEW j \in Jobs, SendTransaction(j) PROVE JobsInv'
  BY <1>5 DEF SendTransaction, JobsInv
<1>6. ASSUME NEW j \in Jobs,
             PushBack(j) \/ Unregister(j) \/ Park(j) \/ DeriveRelayers(j) \/ ReleaseLock(j)
      PROVE  JobsInv'
  <2>1. /\ UNCHANGED <<relayerOf, pendingCount, tx>> /\ ~Waiting(j)
        /\ \E p \in {"pushed", "waitLock", "done", "creating"} : pc' = [pc EXCEPT ![j] = p]
    BY <1>6 DEF PushBack, Unregister, Park, CreateIfShort, DeriveRelayers, ReleaseLock
  <2> QED BY <2>1 DEF JobsInv
<1>7. ASSUME NEW j \in Jobs, QueueRelayer(j) \/ SkipRelayer(j) PROVE JobsInv'
  BY <1>1, <1>7 DEF QueueRelayer, SkipRelayer
<1>8. ASSUME NEW j \in Jobs, Mine(j) \/ PostTransactionMined(j) PROVE JobsInv'
  BY <1>1, <1>8 DEF Mine, PostTransactionMined
<1>9. ASSUME NEW S, Restart(S) PROVE FALSE
  BY <1>9 DEF Restart, PoolInv, TypeOK
<1>10. CASE UNCHANGED vars
  BY <1>1, <1>10 DEF vars
<1> QED
  BY <1>2, <1>3, <1>4, <1>5, <1>6, <1>7, <1>8, <1>9, <1>10
  DEF Next, Handler, RepublishAndThrow, Crash

\* A relayer without a new or settled transaction keeps its count exact.
LEMMA CountKept ==
  ASSUME PoolInv, HandedInv, [Next]_vars, restarts' = restarts,
         NEW r \in DOMAIN pendingCount, pendingCount'[r] = pendingCount[r],
         \A j \in Jobs : /\ relayerOf'[j] = r /\ pc'[j] # "popped" /\ tx'[j] # "handled"
                         <=> relayerOf[j] = r /\ pc[j] # "popped" /\ tx[j] # "handled"
  PROVE  /\ IsFiniteSet(Handed(r)')
         /\ Cardinality(Handed(r)') <= pendingCount'[r]
         /\ ~Parked(r)' => pendingCount'[r] = Cardinality(Handed(r)')
<1>1. Handed(r)' = Handed(r)
  BY DEF Handed
<1>2. Parked(r) => Parked(r)'
  BY StaysParked
<1> QED BY <1>1, <1>2 DEF HandedInv

\* The count follows the transactions of its relayer through every step.
LEMMA HandedStep ==
  ASSUME PoolInv, JobsInv, HandedInv, [Next]_vars, restarts' = restarts
  PROVE  HandedInv'
<1> USE CountFacts DEF mapVars, poolVars
<1> DEFINE Counted(j) == pc[j] # "popped" /\ tx[j] # "handled"
<1>1. ASSUME UNCHANGED <<pendingCount, relayerOf>>,
             \A j \in Jobs : (pc'[j] = "popped" <=> pc[j] = "popped") /\ (tx'[j] = "handled" <=> tx[j] = "handled")
      PROVE  HandedInv'
  <2> SUFFICES ASSUME NEW r \in DOMAIN pendingCount
               PROVE  /\ IsFiniteSet(Handed(r)')
                      /\ Cardinality(Handed(r)') <= pendingCount'[r]
                      /\ ~Parked(r)' => pendingCount'[r] = Cardinality(Handed(r)')
    BY <1>1 DEF HandedInv
  <2> QED BY <1>1, CountKept
<1>2. ASSUME NEW j \in Jobs, Pop(j) PROVE HandedInv'
  <2>1. PICK q \in queue : relayerOf' = [relayerOf EXCEPT ![j] = q]
    BY <1>2 DEF Pop
  <2>2. /\ UNCHANGED <<pendingCount, tx>> /\ pc[j] = "delivered" /\ pc' = [pc EXCEPT ![j] = "popped"]
    BY <1>2 DEF Pop
  <2>3. relayerOf[j] = NoRelayer
    BY <2>2 DEF JobsInv, Waiting
  <2> SUFFICES ASSUME NEW r \in DOMAIN pendingCount
               PROVE  /\ IsFiniteSet(Handed(r)')
                      /\ Cardinality(Handed(r)') <= pendingCount'[r]
                      /\ ~Parked(r)' => pendingCount'[r] = Cardinality(Handed(r)')
    BY <2>2 DEF HandedInv
  <2>4. \A k \in Jobs : /\ relayerOf'[k] = r /\ pc'[k] # "popped" /\ tx'[k] # "handled"
                        <=> relayerOf[k] = r /\ pc[k] # "popped" /\ tx[k] # "handled"
    BY <2>1, <2>2, <2>3
  <2> QED BY <2>2, <2>4, CountKept
<1>3. ASSUME NEW j \in Jobs, Register(j) PROVE HandedInv'
  <2>0. PICK q : q = relayerOf[j]
    OBVIOUS
  <2>1. /\ pc[j] = "popped" /\ pc' = [pc EXCEPT ![j] = "sending"]
        /\ pendingCount' = [pendingCount EXCEPT ![q] = pendingCount[q] + 1]
        /\ UNCHANGED <<queue, relayerOf, tx>>
    BY <1>3, <2>0 DEF Register
  <2>2. q \in DOMAIN pendingCount /\ ~Parked(q) /\ tx[j] = "none"
    BY <2>0, <2>1 DEF Parked, Busy, JobsInv
  <2>3. Handed(q)' = Handed(q) \cup {j} /\ j \notin Handed(q)
    BY <2>0, <2>1, <2>2 DEF Handed
  <2>4. IsFiniteSet(Handed(q)') /\ Cardinality(Handed(q)') = pendingCount'[q]
    <3>1. IsFiniteSet(Handed(q)) /\ pendingCount[q] = Cardinality(Handed(q))
      BY <2>2 DEF HandedInv
    <3>2. /\ IsFiniteSet(Handed(q) \cup {j})
          /\ Cardinality(Handed(q) \cup {j}) = Cardinality(Handed(q)) + 1
      BY <2>3, <3>1, FS_AddElement
    <3>3. pendingCount'[q] = pendingCount[q] + 1
      BY <2>1, <2>2
    <3> QED BY <2>3, <3>1, <3>2, <3>3
  <2>5. pendingCount'[q] \in Int /\ DOMAIN pendingCount' = DOMAIN pendingCount
    BY <2>1, <2>2
  <2> SUFFICES ASSUME NEW r \in DOMAIN pendingCount, r # q
               PROVE  /\ IsFiniteSet(Handed(r)')
                      /\ Cardinality(Handed(r)') <= pendingCount'[r]
                      /\ ~Parked(r)' => pendingCount'[r] = Cardinality(Handed(r)')
    BY <2>4, <2>5 DEF HandedInv
  <2>6. \A k \in Jobs : /\ relayerOf'[k] = r /\ pc'[k] # "popped" /\ tx'[k] # "handled"
                        <=> relayerOf[k] = r /\ pc[k] # "popped" /\ tx[k] # "handled"
    BY <2>0, <2>1
  <2> QED BY <2>1, <2>6, CountKept
<1>4. ASSUME NEW j \in Jobs, QueueRelayer(j) PROVE HandedInv'
  <2>0. PICK q : q = nextToQueue
    OBVIOUS
  <2>1. /\ pendingCount' = [r \in DOMAIN pendingCount \cup {q} |-> IF r = q THEN 0 ELSE pendingCount[r]]
        /\ UNCHANGED <<pc, relayerOf, tx>>
    BY <1>4, <2>0 DEF QueueRelayer
  <2>2. q \notin DOMAIN pendingCount /\ q # NoRelayer
    BY <2>0, PoolAssumption DEF PoolInv, TypeOK, NoRelayer
  <2>3. Handed(q)' = {}
    BY <2>1, <2>2 DEF Handed, JobsInv
  <2>4. IsFiniteSet(Handed(q)') /\ Cardinality(Handed(q)') = pendingCount'[q]
    BY <2>1, <2>3, FS_EmptySet
  <2>5. pendingCount'[q] = 0 /\ DOMAIN pendingCount' = DOMAIN pendingCount \cup {q}
    BY <2>1
  <2> SUFFICES ASSUME NEW r \in DOMAIN pendingCount, r # q
               PROVE  /\ IsFiniteSet(Handed(r)')
                      /\ Cardinality(Handed(r)') <= pendingCount'[r]
                      /\ ~Parked(r)' => pendingCount'[r] = Cardinality(Handed(r)')
    BY <2>2, <2>4, <2>5 DEF HandedInv
  <2> QED BY <2>1, CountKept
<1>5. ASSUME NEW j \in Jobs, PostTransactionMined(j) PROVE HandedInv'
  <2>0. PICK q : q = relayerOf[j]
    OBVIOUS
  <2>1. /\ tx[j] = "mined" /\ hops = <<>> /\ tx' = [tx EXCEPT ![j] = "handled"]
        /\ UNCHANGED <<queue, processing, pc, relayerOf>>
        /\ pendingCount' = IF q \in queue \cup processing THEN [pendingCount EXCEPT ![q] = pendingCount[q] - 1]
                           ELSE pendingCount
    BY <1>5, <2>0 DEF PostTransactionMined, InQueueOrProcessing
  <2>2. \A k \in Jobs : pc[k] \notin {"popped", "pushed"}
    BY <2>1 DEF PoolInv, HopsInv
  <2>3. q \in DOMAIN pendingCount
    BY <2>0, <2>1 DEF JobsInv, Waiting
  <2>4. Handed(q)' = Handed(q) \ {j} /\ j \in Handed(q)
    BY <2>0, <2>1, <2>2 DEF Handed
  <2>5. IsFiniteSet(Handed(q)') /\ Cardinality(Handed(q)') = Cardinality(Handed(q)) - 1
    BY <2>3, <2>4, FS_RemoveElement DEF HandedInv
  <2>6. Cardinality(Handed(q)) \in Nat /\ pendingCount[q] \in Int
    BY <2>3, FS_CardinalityType DEF HandedInv
  <2>7. Parked(q) => Parked(q)'
    BY StaysParked
  <2>8. Cardinality(Handed(q)') <= pendingCount'[q] /\ (~Parked(q)' => pendingCount'[q] = Cardinality(Handed(q)'))
    <3>1. CASE q \in queue \cup processing
      <4>1. pendingCount'[q] = pendingCount[q] - 1
        BY <2>1, <2>3, <3>1
      <4> QED BY <2>3, <2>5, <2>6, <2>7, <4>1 DEF HandedInv
    <3>2. CASE q \notin queue \cup processing
      <4>1. \A k \in Jobs : Busy(k) => relayerOf[k] # q
        BY <2>2, <3>2 DEF Busy, InMap, PoolInv, ProcessingMapExact
      <4>2. Parked(q)'
        BY <2>3, <2>7, <3>2, <4>1 DEF Parked
      <4> QED BY <2>1, <2>3, <2>5, <2>6, <3>2, <4>2 DEF HandedInv
    <3> QED BY <3>1, <3>2
  <2>9. DOMAIN pendingCount' = DOMAIN pendingCount
    BY <2>1
  <2> SUFFICES ASSUME NEW r \in DOMAIN pendingCount, r # q
               PROVE  /\ IsFiniteSet(Handed(r)')
                      /\ Cardinality(Handed(r)') <= pendingCount'[r]
                      /\ ~Parked(r)' => pendingCount'[r] = Cardinality(Handed(r)')
    BY <2>5, <2>8, <2>9 DEF HandedInv
  <2>10. \A k \in Jobs : /\ relayerOf'[k] = r /\ pc'[k] # "popped" /\ tx'[k] # "handled"
                         <=> relayerOf[k] = r /\ pc[k] # "popped" /\ tx[k] # "handled"
    BY <2>0, <2>1
  <2> QED BY <2>1, <2>10, CountKept
<1>6. ASSUME NEW j \in Jobs, Deliver(j) \/ Republish(j) PROVE HandedInv'
  BY <1>1, <1>6 DEF Deliver, Republish
<1>7. ASSUME NEW j \in Jobs, SendTransaction(j) PROVE HandedInv'
  <2>1. tx[j] # "handled"
    BY <1>7 DEF SendTransaction, JobsInv
  <2>2. \A k \in Jobs : (pc'[k] = "popped" <=> pc[k] = "popped") /\ (tx'[k] = "handled" <=> tx[k] = "handled")
    BY <1>7, <2>1 DEF SendTransaction
  <2> QED BY <1>1, <1>7, <2>2 DEF SendTransaction
<1>8. ASSUME NEW j \in Jobs,
             PushBack(j) \/ Unregister(j) \/ Park(j) \/ DeriveRelayers(j) \/ ReleaseLock(j)
      PROVE  HandedInv'
  <2>1. /\ UNCHANGED <<relayerOf, pendingCount, tx>> /\ pc[j] # "popped"
        /\ \E p \in {"pushed", "waitLock", "done", "creating"} : pc' = [pc EXCEPT ![j] = p]
    BY <1>8 DEF PushBack, Unregister, Park, CreateIfShort, DeriveRelayers, ReleaseLock
  <2> QED BY <1>1, <2>1
<1>9. ASSUME NEW j \in Jobs, SkipRelayer(j) \/ Mine(j) PROVE HandedInv'
  BY <1>1, <1>9 DEF SkipRelayer, Mine
<1>10. ASSUME NEW S, Restart(S) PROVE FALSE
  BY <1>10 DEF Restart, PoolInv, TypeOK
<1>11. CASE UNCHANGED vars
  BY <1>1, <1>11 DEF vars
<1> QED
  BY <1>2, <1>3, <1>4, <1>5, <1>6, <1>7, <1>8, <1>9, <1>10, <1>11
  DEF Next, Handler, RepublishAndThrow, Crash

LEMMA CountInvariance == Spec => [](PoolInv /\ CountInv)
<1>1. Init => CountInv
  <2> SUFFICES ASSUME Init PROVE JobsInv /\ HandedInv
    BY DEF CountInv
  <2>1. JobsInv
    BY DEF Init, JobsInv, Waiting
  <2>2. \A r \in DOMAIN pendingCount : Handed(r) = {} /\ pendingCount[r] = 0
    BY DEF Init, Handed, NoRelayer
  <2> QED BY <2>1, <2>2, FS_EmptySet DEF HandedInv
<1>2. PoolInv /\ CountInv /\ [Next]_vars => CountInv'
  <2> SUFFICES ASSUME PoolInv, CountInv, [Next]_vars, restarts' = 0
               PROVE  JobsInv' /\ HandedInv'
    BY DEF CountInv
  <2>1. restarts' = restarts
    <3>1. restarts \in Nat /\ (restarts' = restarts \/ restarts' = restarts + 1)
      BY PoolAssumption DEF PoolInv, TypeOK, Next, Handler, RepublishAndThrow, Crash, Restart, vars,
         Deliver, Pop, Republish, Register, SendTransaction, PushBack, Unregister, Park,
         DeriveRelayers, QueueRelayer, SkipRelayer, ReleaseLock, Mine, PostTransactionMined
    <3> QED BY <3>1
  <2>2. JobsInv /\ HandedInv
    BY <2>1 DEF CountInv
  <2> QED BY <2>1, <2>2, JobsStep, HandedStep
<1> QED BY <1>1, <1>2, InitInv, Invariance, PTL DEF Spec

\* Until the process restarts the count of every relayer that is not parked is exact: no
\* mined event is dropped, and none counts off the transaction of another relayer.
THEOREM CountExact == Spec => []PendingCountExact
<1>1. CountInv => PendingCountExact
  BY DEF CountInv, HandedInv, Handed, PendingCountExact
<1> QED BY <1>1, CountInvariance, PTL
\* The test of addActiveRelayer keeps room for one transaction until the next handler
\* has counted it, several awaits later; nothing else counts one up.
LEMMA RoomStep ==
  ASSUME PendingTransactionCountThreshold > 0, PoolInv, RoomInv, [Next]_vars
  PROVE  RoomInv'
<1> USE CountFacts, PoolAssumption DEF mapVars, poolVars
<1>1. ASSUME UNCHANGED <<pendingCount, relayerOf>>, queue' \subseteq queue,
             \A j \in Jobs : pc'[j] = "popped" => pc[j] = "popped"
      PROVE  RoomInv'
  BY <1>1 DEF RoomInv, Uncounted
<1>2. ASSUME NEW j \in Jobs, Pop(j) PROVE RoomInv'
  <2>1. PICK q \in queue : queue' = queue \ {q} /\ relayerOf' = [relayerOf EXCEPT ![j] = q]
    BY <1>2 DEF Pop, Shift
  <2>2. UNCHANGED pendingCount /\ pc' = [pc EXCEPT ![j] = "popped"]
    BY <1>2 DEF Pop
  <2>3. \A r \in DOMAIN pendingCount : Uncounted(r)' => r \in queue \/ Uncounted(r)
    BY <2>1, <2>2 DEF Uncounted
  <2> QED BY <2>1, <2>2, <2>3 DEF RoomInv
<1>3. ASSUME NEW j \in Jobs, Register(j) PROVE RoomInv'
  <2>0. PICK q : q = relayerOf[j]
    OBVIOUS
  <2>1. /\ pc[j] = "popped" /\ pc' = [pc EXCEPT ![j] = "sending"]
        /\ pendingCount' = [pendingCount EXCEPT ![q] = pendingCount[q] + 1]
        /\ UNCHANGED <<queue, relayerOf>>
    BY <1>3, <2>0 DEF Register
  <2>2. q \in DOMAIN pendingCount \ queue /\ Uncounted(q) /\ ~Uncounted(q)'
    BY <2>0, <2>1 DEF Uncounted, Busy
  <2>3. \A r : Uncounted(r)' => Uncounted(r)
    BY <2>1 DEF Uncounted
  <2>4. /\ DOMAIN pendingCount' = DOMAIN pendingCount /\ pendingCount'[q] = pendingCount[q] + 1
        /\ \A r \in DOMAIN pendingCount : r # q => pendingCount'[r] = pendingCount[r]
    BY <2>1, <2>2
  <2> QED BY <2>1, <2>2, <2>3, <2>4 DEF RoomInv
<1>4. ASSUME NEW j \in Jobs, PushBack(j) PROVE RoomInv'
  <2>1. /\ UNCHANGED <<pendingCount, relayerOf>> /\ queue' = queue \cup {relayerOf[j]}
        /\ pendingCount[relayerOf[j]] < PendingTransactionCountThreshold
        /\ pc' = [pc EXCEPT ![j] = "pushed"]
    BY <1>4 DEF PushBack, BelowThreshold
  <2>2. \A r : Uncounted(r)' => Uncounted(r)
    BY <2>1 DEF Uncounted
  <2> QED BY <2>1, <2>2 DEF RoomInv
<1>5. ASSUME NEW j \in Jobs, QueueRelayer(j) PROVE RoomInv'
  <2>0. PICK q : q = nextToQueue
    OBVIOUS
  <2>1. /\ queue' = queue \cup {q} /\ UNCHANGED <<pc, relayerOf>>
        /\ pendingCount' = [r \in DOMAIN pendingCount \cup {q} |-> IF r = q THEN 0 ELSE pendingCount[r]]
    BY <1>5, <2>0 DEF QueueRelayer
  <2>2. \A r : Uncounted(r)' => Uncounted(r)
    BY <2>1 DEF Uncounted
  <2> QED BY <2>1, <2>2 DEF RoomInv
<1>6. ASSUME NEW j \in Jobs, PostTransactionMined(j) PROVE RoomInv'
  <2>0. PICK q : q = relayerOf[j]
    OBVIOUS
  <2>1. /\ UNCHANGED <<queue, pc, relayerOf>>
        /\ \/ pendingCount' = [pendingCount EXCEPT ![q] = pendingCount[q] - 1]
           \/ pendingCount' = pendingCount
    BY <1>6, <2>0 DEF PostTransactionMined
  <2>2. /\ DOMAIN pendingCount' = DOMAIN pendingCount
        /\ \A r \in DOMAIN pendingCount : pendingCount'[r] <= pendingCount[r] /\ pendingCount'[r] \in Int
    BY <2>1
  <2>3. \A r : Uncounted(r)' <=> Uncounted(r)
    BY <2>1 DEF Uncounted
  <2> QED BY <2>1, <2>2, <2>3 DEF RoomInv
<1>7. ASSUME NEW S, Restart(S) PROVE RoomInv'
  BY <1>7 DEF Restart, AfterExit, RoomInv, Uncounted
<1>8. ASSUME NEW j \in Jobs,
             \/ Deliver(j) \/ Republish(j) \/ SendTransaction(j) \/ Unregister(j) \/ Park(j)
             \/ DeriveRelayers(j) \/ ReleaseLock(j)
      PROVE  RoomInv'
  <2>1. /\ UNCHANGED <<queue, relayerOf, pendingCount>>
        /\ \E p \in {"delivered", "queued", "returning", "waitLock", "done", "creating"} :
             pc' = [pc EXCEPT ![j] = p]
    BY <1>8 DEF Deliver, Republish, SendTransaction, Unregister, Park, CreateIfShort, DeriveRelayers, ReleaseLock
  <2> QED BY <1>1, <2>1
<1>9. ASSUME NEW j \in Jobs, SkipRelayer(j) \/ Mine(j) PROVE RoomInv'
  BY <1>1, <1>9 DEF SkipRelayer, Mine
<1>10. CASE UNCHANGED vars
  BY <1>1, <1>10 DEF vars
<1> QED
  BY <1>2, <1>3, <1>4, <1>5, <1>6, <1>7, <1>8, <1>9, <1>10
  DEF Next, Handler, RepublishAndThrow, Crash

\* Together with the exact count the room bounds the transactions of a relayer.
LEMMA RoomBounds ==
  ASSUME PoolInv, CountInv, RoomInv
  PROVE  PendingBounded
<1> SUFFICES ASSUME JobsInv, HandedInv, NEW r \in DOMAIN pendingCount
             PROVE  Cardinality({j \in Jobs : relayerOf[j] = r /\ tx[j] # "handled"})
                      <= PendingTransactionCountThreshold
  BY DEF CountInv, PendingBounded
<1> DEFINE Unsettled == {j \in Jobs : relayerOf[j] = r /\ tx[j] # "handled"}
<1>1. /\ IsFiniteSet(Handed(r)) /\ Cardinality(Handed(r)) \in Nat
      /\ Cardinality(Handed(r)) <= pendingCount[r]
      /\ pendingCount[r] \in Int /\ PendingTransactionCountThreshold \in Int
  BY CountFacts, FS_CardinalityType, PoolAssumption DEF HandedInv
<1>2. CASE Uncounted(r)
  <2>1. PICK j \in Jobs : pc[j] = "popped" /\ relayerOf[j] = r
    BY <1>2 DEF Uncounted
  <2>2. \A k \in Jobs : pc[k] = "popped" /\ relayerOf[k] = r => k = j
    BY <2>1, CountFacts DEF Busy
  <2>3. Unsettled = Handed(r) \cup {j} /\ j \notin Handed(r)
    BY <2>1, <2>2 DEF Handed, JobsInv
  <2>4. Cardinality(Unsettled) = Cardinality(Handed(r)) + 1
    BY <1>1, <2>3, FS_AddElement
  <2>5. pendingCount[r] < PendingTransactionCountThreshold
    BY <1>2 DEF RoomInv
  <2> QED BY <1>1, <2>4, <2>5
<1>3. CASE ~Uncounted(r)
  <2>1. Unsettled = Handed(r)
    BY <1>3 DEF Handed, Uncounted
  <2>2. pendingCount[r] <= PendingTransactionCountThreshold
    BY DEF RoomInv
  <2> QED BY <1>1, <2>1, <2>2
<1> QED BY <1>2, <1>3

\* A relayer never has more transactions than pendingTransactionCountThreshold that no
\* mined event has counted off, however pops, pushes and mined events interleave.
THEOREM BoundedPending ==
  ASSUME PendingTransactionCountThreshold > 0
  PROVE  Spec => []PendingBounded
<1>1. Init => RoomInv
  <2>1. Init => \A r \in DOMAIN pendingCount : pendingCount[r] = 0
    BY DEF Init
  <2> QED BY <2>1, PoolAssumption DEF RoomInv
<1>2. PoolInv /\ RoomInv /\ [Next]_vars => RoomInv'
  BY RoomStep
<1>3. PoolInv /\ CountInv /\ RoomInv => PendingBounded
  BY RoomBounds
<1> QED BY <1>1, <1>2, <1>3, CountInvariance, PTL DEF Spec
=============================================================================
