--------------------------- MODULE MCBridgeStatus ----------------------------
(* Instances of BridgeStatus for TLC. *)
EXTENDS BridgeStatus, TLC
=============================================================================
