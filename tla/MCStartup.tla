----------------------------- MODULE MCStartup -----------------------------
(* Instances of Startup for TLC. *)
EXTENDS Startup, TLC

TwoChains == <<5, 137>>
=============================================================================
