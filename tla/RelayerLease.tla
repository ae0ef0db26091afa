---------------------------- MODULE RelayerLease ----------------------------
(***************************************************************************)
(* What the relayer pool promises its consumers: a relayer is leased to one *)
(* transaction at a time, in one step that also counts the transaction, and *)
(* comes back unless as many transactions are pending as it may have.       *)
(*                                                                         *)
(* RelayerPool implements it with a queue, a map and a mutex each, between  *)
(* whose updates other handlers run.                                        *)
(***************************************************************************)
EXTENDS Integers

CONSTANTS
  Jobs,       \* transactions
  Relayers,
  NoRelayer,
  Threshold   \* pending transactions from which a relayer is not taken back

VARIABLES
  free,   \* relayers that can be leased
  lease,  \* the relayer a transaction has
  load    \* transactions a relayer was leased to and that are not mined

leaseVars == <<free, lease, load>>

Known == DOMAIN load
Leased == {lease[j] : j \in Jobs} \ {NoRelayer}

Init ==
  /\ free \in SUBSET Relayers
  /\ load = [r \in free |-> 0]
  /\ lease = [j \in Jobs |-> NoRelayer]

Create(r) ==
  /\ r \notin Known
  /\ free' = free \cup {r}
  /\ load' = [s \in Known \cup {r} |-> IF s = r THEN 0 ELSE load[s]]
  /\ UNCHANGED lease

Lease(j, r) ==
  /\ lease[j] = NoRelayer /\ r \in free
  /\ lease' = [lease EXCEPT ![j] = r]
  /\ free' = free \ {r}
  /\ load' = [load EXCEPT ![r] = @ + 1]

Return(j) ==
  /\ lease[j] # NoRelayer /\ load[lease[j]] < Threshold
  /\ free' = free \cup {lease[j]}
  /\ lease' = [lease EXCEPT ![j] = NoRelayer]
  /\ UNCHANGED load

(* The relayer is not taken back, now or later. *)
Retire(j) ==
  /\ lease[j] # NoRelayer /\ load[lease[j]] >= Threshold
  /\ lease' = [lease EXCEPT ![j] = NoRelayer]
  /\ UNCHANGED <<free, load>>

(* A transaction of r is mined.  Retired relayers are not counted any more. *)
Settle(r) ==
  /\ r \in free \cup Leased
  /\ load' = [load EXCEPT ![r] = @ - 1]
  /\ UNCHANGED <<free, lease>>

(* The process starts again with a pool of new relayers. *)
Renew ==
  /\ free' \in SUBSET Relayers
  /\ load' = [r \in free' |-> 0]
  /\ lease' = [j \in Jobs |-> NoRelayer]

Next ==
  \/ \E r \in Relayers : Create(r) \/ Settle(r)
  \/ \E j \in Jobs : Return(j) \/ Retire(j) \/ \E r \in Relayers : Lease(j, r)
  \/ Renew

Spec == Init /\ [][Next]_leaseVars
=============================================================================
