--------------------------- MODULE MCMatchBridge ---------------------------
(* Small instances of MatchBridge for TLC.                                 *)
EXTENDS MatchBridgeInvariant, MCOffers
=============================================================================
