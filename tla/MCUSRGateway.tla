---------------------------- MODULE MCUSRGateway ----------------------------
(* Instances of USRGateway for TLC. *)
EXTENDS USRGateway, TLC
=============================================================================
