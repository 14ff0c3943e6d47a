--------------------------- MODULE MCTwoBridges ---------------------------
(* Small instances of TwoBridges for TLC.                                  *)
EXTENDS TwoBridges, MCOffers
=============================================================================
