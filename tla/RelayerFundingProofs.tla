------------------------ MODULE RelayerFundingProofs ------------------------
(***************************************************************************)
(* fundRelayers never looks up the nonce of the main account while another *)
(* call is between its lookup and its send, for any number of relayers and *)
(* mined events, also when calls throw and leave the mutex locked; every   *)
(* variable keeps its type.                                                *)
(***************************************************************************)
EXTENDS RelayerFunding, TLAPS

LockInv ==
  /\ pc \in [Callers -> Places]
  /\ lock \in Seq(Callers)
  /\ \A c \in Callers : pc[c] = "funding" => HoldsLock(c)

\* acquire by a caller that is not funding yet.
LEMMA AppendKeeps ==
  ASSUME LockInv, NEW c \in Callers, NEW place \in {"waiting"},
         pc' = [pc EXCEPT ![c] = place], lock' = Append(lock, c)
  PROVE  LockInv'
<1>1. pc' \in [Callers -> Places] /\ lock' \in Seq(Callers)
  BY DEF LockInv, Places
<1>2. ASSUME NEW d \in Callers, pc'[d] = "funding" PROVE HoldsLock(d)'
  <2>1. lock # <<>> /\ Head(lock) = d
    BY <1>2 DEF LockInv, HoldsLock
  <2> QED BY <2>1 DEF LockInv, HoldsLock
<1> QED BY <1>1, <1>2 DEF LockInv

\* The holder alone goes on to the next address or ends: nobody else is funding.
LEMMA HolderMoves ==
  ASSUME LockInv, NEW c \in Callers, NEW r, HoldsLock(c), NextAddress(c, r)
  PROVE  LockInv'
<1>1. \A d \in Callers : pc[d] = "funding" => d = c
  BY DEF LockInv, HoldsLock
<1>2. PICK place \in {"done", "waiting"} : pc' = [pc EXCEPT ![c] = place]
  BY DEF NextAddress
<1>3. pc' \in [Callers -> Places] /\ \A d \in Callers : pc'[d] # "funding"
  BY <1>1, <1>2 DEF LockInv, Places
<1>4. Tail(lock) \in Seq(Callers)
  BY DEF LockInv, HoldsLock
<1>5. lock' \in Seq(Callers)
  BY <1>4 DEF NextAddress, Released
<1> QED BY <1>3, <1>5 DEF LockInv

\* Steps that leave the lock alone and let only the holder begin a funding.
LEMMA LockKept ==
  ASSUME LockInv, UNCHANGED lock, pc' \in [Callers -> Places],
         \A c \in Callers : pc'[c] = "funding" => pc[c] = "funding" \/ HoldsLock(c)
  PROVE  LockInv'
BY DEF LockInv, HoldsLock

LEMMA Invariance == LockInv /\ [Next]_vars => LockInv'
<1> SUFFICES ASSUME LockInv, [Next]_vars PROVE LockInv'
  OBVIOUS
<1> USE DEF callVars, poolVars, ownerVars, chainVars
<1>1. CASE UNCHANGED vars
  BY <1>1, LockKept DEF vars, LockInv
<1>2. ASSUME NEW r \in Relayers, TakeRelayer(r) \/ PushRelayer(r) \/ CreateRelayer(r)
      PROVE  LockInv'
  BY <1>2, LockKept DEF TakeRelayer, PushRelayer, CreateRelayer, LockInv
<1>3. ASSUME NEW e \in Events, Mine(e) \/ PostTransactionMined(e) \/ BalanceLookupFails(e)
      PROVE  LockInv'
  <2>1. e \in Callers
    BY DEF Callers
  <2>2. CASE Mine(e) \/ BalanceLookupFails(e)
    BY <2>1, <2>2, LockKept DEF Mine, BalanceLookupFails, LockInv, Places
  <2>3. CASE PostTransactionMined(e) /\ balance[relayer[e]] < FundingBalanceThreshold
    BY <2>1, <2>3, AppendKeeps DEF PostTransactionMined
  <2>4. CASE PostTransactionMined(e) /\ ~(balance[relayer[e]] < FundingBalanceThreshold)
    BY <2>1, <2>4, LockKept DEF PostTransactionMined, LockInv, Places
  <2> QED BY <1>3, <2>2, <2>3, <2>4
<1>4. ASSUME NEW c \in Callers, Fund(c) \/ LookupThrows(c) PROVE LockInv'
  <2>1. CASE SkipRelayer(c)
    BY <2>1, HolderMoves DEF SkipRelayer
  <2>2. CASE SendFunding(c) \/ FundingRejected(c)
    <3>1. HoldsLock(c)
      BY <2>2 DEF SendFunding, FundingRejected, LockInv
    <3> QED BY <2>2, <3>1, HolderMoves DEF SendFunding, FundingRejected
  <2>3. CASE FundRelayer(c)
    BY <2>3, LockKept DEF FundRelayer, LockInv, Places
  <2>4. CASE CheckThrows(c) \/ LookupThrows(c)
    BY <2>4, LockKept DEF CheckThrows, LookupThrows, Throw, LockInv, Places
  <2> QED BY <1>4, <2>1, <2>2, <2>3, <2>4 DEF Fund
<1>5. ASSUME NEW f \in Fundings, RetryFunding(f) PROVE LockInv'
  BY <1>5, LockKept DEF RetryFunding, LockInv
<1>6. CASE MineFunding
  BY <1>6, LockKept DEF MineFunding, LockInv
<1> QED BY <1>1, <1>2, <1>3, <1>4, <1>5, <1>6 DEF Next

\* One call at a time is between the lookup of the nonce of the main account and the
\* send, for every set of relayers and events.
THEOREM ExclusiveFunding == Spec => []FundingExclusive
<1>1. Init => LockInv
  <2> SUFFICES ASSUME Init PROVE LockInv
    OBVIOUS
  <2>1. pc \in [Callers -> Places] /\ \A c \in Callers : pc[c] # "funding"
    BY DEF Init, Places
  <2>2. lock \in Seq(Callers)
    BY DEF Init, Callers
  <2> QED BY <2>1, <2>2 DEF LockInv
<1>2. LockInv /\ [Next]_vars => LockInv'
  BY Invariance
<1>3. LockInv => FundingExclusive
  BY DEF LockInv, FundingExclusive, HoldsLock
<1> QED BY <1>1, <1>2, <1>3, PTL DEF Spec
-----------------------------------------------------------------------------
(* A caller asks for the mutex once a turn, and none that waits for a mined  *)
(* event has: the entries of the mutex are distinct.                        *)
OneEntryEach(s) == \A i, j \in DOMAIN s : s[i] = s[j] => i = j

Askers == \A i \in DOMAIN lock : pc[lock[i]] \notin {"idle", "mined"}

LEMMA AppendKeepsDistinct ==
  ASSUME NEW S, NEW s \in Seq(S), NEW e \in S, OneEntryEach(s),
         \A i \in DOMAIN s : s[i] # e
  PROVE  OneEntryEach(Append(s, e))
BY DEF OneEntryEach

LEMMA TailKeepsDistinct ==
  ASSUME NEW S, NEW s \in Seq(S), s # <<>>, OneEntryEach(s)
  PROVE  /\ Tail(s) \in Seq(S) /\ OneEntryEach(Tail(s))
         /\ \A i \in DOMAIN Tail(s) : Tail(s)[i] # Head(s)
         /\ \A i \in DOMAIN Tail(s) : \E j \in DOMAIN s : Tail(s)[i] = s[j]
<1>1. Len(Tail(s)) = Len(s) - 1 /\ Len(s) > 0
  OBVIOUS
<1>2. \A i \in DOMAIN Tail(s) : i + 1 \in DOMAIN s /\ i + 1 # 1 /\ Tail(s)[i] = s[i + 1]
  BY <1>1
<1>3. Tail(s) \in Seq(S) /\ 1 \in DOMAIN s /\ Head(s) = s[1]
  BY <1>1
<1>4. DOMAIN Tail(s) \subseteq Int
  BY <1>3
<1> QED BY <1>2, <1>3, <1>4 DEF OneEntryEach

\* Release by the holder, and acquire by it again if addresses are left.
LEMMA NextAddressTypes ==
  ASSUME FundingAssumption, TypeOK, Askers, NEW c \in Callers, NEW r \in Relayers,
         HoldsLock(c), NextAddress(c, r)
  PROVE  /\ pc' \in [Callers -> Places] /\ todo' \in [Callers -> SUBSET Relayers]
         /\ lock' \in Seq(Callers) /\ OneEntryEach(lock') /\ Askers'
         /\ told' \subseteq Events
<1>1. lock \in Seq(Callers) /\ lock # <<>> /\ Head(lock) = c /\ OneEntryEach(lock)
  BY DEF TypeOK, HoldsLock, OneEntryEach
<1>2. /\ Tail(lock) \in Seq(Callers) /\ OneEntryEach(Tail(lock))
      /\ \A i \in DOMAIN Tail(lock) : Tail(lock)[i] # c
      /\ \A i \in DOMAIN Tail(lock) : \E j \in DOMAIN lock : Tail(lock)[i] = lock[j]
  BY <1>1, TailKeepsDistinct
<1>3. \A i \in DOMAIN Tail(lock) : pc[Tail(lock)[i]] \notin {"idle", "mined"}
  BY <1>2 DEF Askers
<1>4. PICK place \in {"done", "waiting"} : pc' = [pc EXCEPT ![c] = place]
  BY DEF NextAddress
<1>5. /\ pc' \in [Callers -> Places] /\ pc'[c] = place
      /\ \A d \in Callers : d # c => pc'[d] = pc[d]
  BY <1>4 DEF TypeOK, Places
<1>6. todo' \in [Callers -> SUBSET Relayers] /\ told' \subseteq Events
  BY DEF NextAddress, Tell, TypeOK
<1>7. CASE lock' = Tail(lock)
  <2>1. Askers'
    BY <1>2, <1>3, <1>5, <1>7 DEF Askers
  <2> QED BY <1>2, <1>5, <1>6, <1>7, <2>1
<1>8. CASE lock' = Append(Tail(lock), c)
  <2>1. lock' \in Seq(Callers) /\ OneEntryEach(lock')
    <3>1. OneEntryEach(Append(Tail(lock), c))
      BY <1>2, AppendKeepsDistinct
    <3> QED BY <1>2, <1>8, <3>1
  <2>2. \A i \in DOMAIN lock' : lock'[i] = c \/ (i \in DOMAIN Tail(lock) /\ lock'[i] = Tail(lock)[i])
    BY <1>2, <1>8
  <2>3. Askers'
    BY <1>2, <1>3, <1>5, <2>2 DEF Askers
  <2> QED BY <1>5, <1>6, <2>1, <2>3
<1> QED BY <1>7, <1>8 DEF NextAddress, Released

TypeInv == TypeOK /\ Askers

LEMMA TypeInvariance ==
  ASSUME FundingAssumption, LockInv, TypeInv, [Next]_vars
  PROVE  TypeInv'
<1> USE DEF callVars, poolVars, ownerVars, chainVars
<1>t. TypeOK /\ Askers
  BY DEF TypeInv
<1>1. CASE UNCHANGED vars
  BY <1>1, <1>t DEF vars, TypeInv, TypeOK, Askers
<1>2. ASSUME NEW r \in Relayers, TakeRelayer(r) \/ PushRelayer(r) \/ CreateRelayer(r)
      PROVE  TypeInv'
  <2>1. Askers'
    BY <1>2, <1>t DEF TakeRelayer, PushRelayer, CreateRelayer, Askers
  <2>2. CASE TakeRelayer(r)
    BY <1>t, <2>1, <2>2 DEF TakeRelayer, TypeInv, TypeOK
  <2>3. CASE PushRelayer(r)
    BY <1>t, <2>1, <2>3 DEF PushRelayer, Push, TypeInv, TypeOK
  <2>4. CASE CreateRelayer(r)
    <3>1. known' \in [Relayers -> Nat \cup {ErrorValue}] /\ pool' \subseteq Relayers /\ queue' \subseteq pool'
      BY <1>t, <2>4 DEF CreateRelayer, Push, TypeOK
    <3> QED BY <1>t, <2>1, <2>4, <3>1 DEF CreateRelayer, TypeInv, TypeOK
  <2> QED BY <1>2, <2>2, <2>3, <2>4
<1>3. ASSUME NEW e \in Events, Mine(e) PROVE TypeInv'
  <2>1. e \in Callers /\ relayer[e] \in Relayers
    BY <1>t DEF Callers, TypeOK
  <2>2. balance' \in [Relayers -> Nat]
    BY <1>3, <1>t, <2>1 DEF Mine, TypeOK
  <2>3. pc' \in [Callers -> Places]
    BY <1>3, <1>t DEF Mine, TypeOK, Places
  <2>4. Askers'
    <3>1. \A i \in DOMAIN lock : lock[i] \in Callers /\ lock[i] # e
      BY <1>3, <1>t DEF Mine, Askers, TypeOK
    <3> QED BY <1>3, <1>t, <3>1 DEF Mine, Askers, TypeOK
  <2> QED BY <1>3, <1>t, <2>2, <2>3, <2>4 DEF Mine, TypeInv, TypeOK
<1>4. ASSUME NEW e \in Events, PostTransactionMined(e) PROVE TypeInv'
  <2>1. e \in Callers /\ relayer[e] \in Relayers
    BY <1>t DEF Callers, TypeOK
  <2>2. known' \in [Relayers -> Nat \cup {ErrorValue}]
    BY <1>4, <1>t, <2>1 DEF PostTransactionMined, TypeOK
  <2>3. PICK place \in {"done", "waiting"} : pc' = [pc EXCEPT ![e] = place]
    BY <1>4 DEF PostTransactionMined
  <2>4. /\ pc' \in [Callers -> Places] /\ pc'[e] = place
        /\ \A d \in Callers : d # e => pc'[d] = pc[d]
    BY <1>t, <2>1, <2>3 DEF TypeOK, Places
  <2>5. \A i \in DOMAIN lock : lock[i] \in Callers /\ lock[i] # e
    BY <1>4, <1>t DEF PostTransactionMined, Askers, TypeOK
  <2>6. told' \subseteq Events
    BY <1>4, <1>t DEF PostTransactionMined, Tell, TypeOK
  <2>7. CASE lock' = lock
    <3>1. Askers'
      BY <1>t, <2>4, <2>5, <2>7 DEF Askers
    <3> QED BY <1>4, <1>t, <2>2, <2>4, <2>6, <2>7, <3>1 DEF PostTransactionMined, TypeInv, TypeOK
  <2>8. CASE lock' = Append(lock, e)
    <3>1. lock \in Seq(Callers) /\ OneEntryEach(lock)
      BY <1>t DEF TypeOK, OneEntryEach
    <3>2. lock' \in Seq(Callers) /\ OneEntryEach(lock')
      BY <2>1, <2>5, <2>8, <3>1, AppendKeepsDistinct
    <3>3. \A i \in DOMAIN lock' : lock'[i] = e \/ (i \in DOMAIN lock /\ lock'[i] = lock[i])
      BY <2>8, <3>1
    <3>4. Askers'
      BY <1>t, <2>4, <2>5, <3>3 DEF Askers
    <3> QED BY <1>4, <1>t, <2>2, <2>4, <2>6, <3>2, <3>4
            DEF PostTransactionMined, TypeInv, TypeOK, OneEntryEach
  <2> QED BY <1>4, <2>7, <2>8 DEF PostTransactionMined
<1>5. ASSUME NEW e \in Events, BalanceLookupFails(e) PROVE TypeInv'
  <2>1. e \in Callers /\ relayer[e] \in Relayers
    BY <1>t DEF Callers, TypeOK
  <2>2. known' \in [Relayers -> Nat \cup {ErrorValue}] /\ pc' \in [Callers -> Places]
    BY <1>5, <1>t, <2>1 DEF BalanceLookupFails, TypeOK, Places
  <2>3. Askers'
    BY <1>5, <1>t, <2>1 DEF BalanceLookupFails, Askers, TypeOK
  <2> QED BY <1>5, <1>t, <2>2, <2>3 DEF BalanceLookupFails, TypeInv, TypeOK
<1>6. ASSUME NEW c \in Callers, SkipRelayer(c) PROVE TypeInv'
  <2>1. PICK r \in Relayers : NextAddress(c, r)
    BY <1>6, <1>t DEF SkipRelayer, TypeOK
  <2>2. HoldsLock(c)
    BY <1>6 DEF SkipRelayer
  <2>3. /\ pc' \in [Callers -> Places] /\ todo' \in [Callers -> SUBSET Relayers]
        /\ lock' \in Seq(Callers) /\ OneEntryEach(lock') /\ Askers'
        /\ told' \subseteq Events
    BY <1>t, <2>1, <2>2, NextAddressTypes
  <2> QED BY <1>6, <1>t, <2>3 DEF SkipRelayer, TypeInv, TypeOK, OneEntryEach
<1>7. ASSUME NEW c \in Callers, SendFunding(c) \/ FundingRejected(c) PROVE TypeInv'
  <2>1. relayer[c] \in Relayers /\ <<c, relayer[c]>> \in Fundings
    BY <1>t DEF TypeOK, Fundings
  <2>2. HoldsLock(c) /\ NextAddress(c, relayer[c])
    BY <1>7 DEF SendFunding, FundingRejected, LockInv
  <2>3. /\ pc' \in [Callers -> Places] /\ todo' \in [Callers -> SUBSET Relayers]
        /\ lock' \in Seq(Callers) /\ OneEntryEach(lock') /\ Askers'
        /\ told' \subseteq Events
    BY <1>t, <2>1, <2>2, NextAddressTypes
  <2>4. ownerPending' \in Fundings \cup {NoFunding} /\ fundingNonce' \in [Fundings -> Nat \cup {NoNonce}]
    <3>1. CASE SendFunding(c)
      BY <1>t, <2>1, <3>1 DEF SendFunding, TypeOK
    <3>2. CASE FundingRejected(c)
      BY <1>t, <3>2 DEF FundingRejected, TypeOK, chainVars
    <3> QED BY <1>7, <3>1, <3>2
  <2>5. UNCHANGED <<relayer, poolVars, balance, ownerMined, funded>>
    BY <1>7 DEF SendFunding, FundingRejected
  <2>6. \A i, j \in DOMAIN lock' : lock'[i] = lock'[j] => i = j
    BY <2>3 DEF OneEntryEach
  <2> QED BY <1>t, <2>3, <2>4, <2>5, <2>6 DEF TypeInv, TypeOK
<1>8. ASSUME NEW c \in Callers, FundRelayer(c) PROVE TypeInv'
  <2>1. relayer' \in [Callers -> Relayers] /\ pc' \in [Callers -> Places]
    BY <1>8, <1>t DEF FundRelayer, TypeOK, Places
  <2>2. Askers'
    BY <1>8, <1>t DEF FundRelayer, Askers, TypeOK
  <2> QED BY <1>8, <1>t, <2>1, <2>2 DEF FundRelayer, TypeInv, TypeOK
<1>9. ASSUME NEW c \in Callers, CheckThrows(c) \/ LookupThrows(c) PROVE TypeInv'
  <2>1. Throw(c)
    BY <1>9 DEF CheckThrows, LookupThrows
  <2>2. pc' \in [Callers -> Places] /\ told' \subseteq Events
    BY <1>t, <2>1 DEF Throw, Tell, TypeOK, Places
  <2>3. Askers'
    BY <1>t, <2>1 DEF Throw, Askers, TypeOK
  <2> QED BY <1>t, <2>1, <2>2, <2>3 DEF Throw, TypeInv, TypeOK
<1>10. ASSUME NEW f \in Fundings, RetryFunding(f) PROVE TypeInv'
  BY <1>10, <1>t DEF RetryFunding, TypeInv, TypeOK, Askers
<1>11. CASE MineFunding
  <2>1. ownerPending \in Fundings /\ ownerPending[2] \in Relayers
    BY <1>11, <1>t DEF MineFunding, TypeOK, Fundings
  <2>2. balance' \in [Relayers -> Nat]
    BY <1>11, <1>t, <2>1 DEF MineFunding, TypeOK, FundingAssumption
  <2> QED BY <1>11, <1>t, <2>1, <2>2 DEF MineFunding, TypeInv, TypeOK, Askers
<1> QED BY <1>1, <1>2, <1>3, <1>4, <1>5, <1>6, <1>7, <1>8, <1>9, <1>10, <1>11 DEF Next, Fund

\* Every variable of the funding keeps its type: no balance goes below zero, the nonces
\* are counts, and a call of fundRelayers is in the mutex at most once, thrown or not.
THEOREM FundingTyped == Spec => []TypeOK
<1>1. Init => LockInv /\ TypeInv
  <2> SUFFICES ASSUME Init PROVE LockInv /\ TypeInv
    OBVIOUS
  <2>1. pc \in [Callers -> Places] /\ pc[Setup] = "waiting" /\ \A c \in Callers : pc[c] # "funding"
    BY DEF Init, Places, Callers
  <2>2. lock \in Seq(Callers) /\ DOMAIN lock = {1} /\ lock[1] = Setup
    BY DEF Init, Callers
  <2>3. LockInv /\ Askers
    BY <2>1, <2>2 DEF LockInv, Askers
  <2>4. balance \in [Relayers -> Nat]
    <3>1. balance \in [Relayers -> Balances \cup {0}]
      BY DEF Init
    <3>2. Balances \cup {0} \subseteq Nat
      BY FundingAssumption DEF FundingAssumption
    <3> QED BY <3>1, <3>2
  <2>5. todo \in [Callers -> SUBSET Relayers] /\ fundingNonce \in [Fundings -> Nat \cup {NoNonce}]
    BY DEF Init, AtStart
  <2> QED BY <2>1, <2>2, <2>3, <2>4, <2>5 DEF Init, AtStart, TypeInv, TypeOK
<1>2. LockInv /\ TypeInv /\ [Next]_vars => LockInv' /\ TypeInv'
  BY Invariance, TypeInvariance, FundingAssumption
<1>3. TypeInv => TypeOK
  BY DEF TypeInv
<1> QED BY <1>1, <1>2, <1>3, PTL DEF Spec
=============================================================================
