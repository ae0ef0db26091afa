--------------------------- MODULE MCGasPrices ---------------------------
(* Instances of GasPrices for TLC. *)
EXTENDS GasPrices, TLC
=============================================================================
