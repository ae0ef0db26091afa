-------------------------- MODULE MCRelayerFunding --------------------------
(* Instances of RelayerFunding for TLC. *)
EXTENDS RelayerFunding, TLC

Symmetry == Permutations(Events) \cup Permutations(AtStart)
=============================================================================
