--------------------------- MODULE MCRelayerPool ---------------------------
(* Instances of RelayerPool for TLC. *)
EXTENDS RelayerPool, TLC

\* The bound on addresses must not be what stops createRelayers.
ASSUME BoundIsLoose ==
  MaxRelayers >= MinRelayerCount + NewRelayerInstanceCount * Cardinality(Jobs)

Symmetry == Permutations(AAJobs) \cup Permutations(Jobs \ AAJobs)
=============================================================================
