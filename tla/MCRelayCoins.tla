---------------------------- MODULE MCRelayCoins ----------------------------
(***************************************************************************)
(* RelayCoins as it stands: its constants are sets of strings and bounds.  *)
(***************************************************************************)
EXTENDS RelayCoins

ASSUME RelayCoinsAssumption
=============================================================================
