------------------------------ MODULE MCPower ------------------------------
(***************************************************************************)
(* Power as TLC checks it: its constants are given in the configurations.  *)
(***************************************************************************)
EXTENDS Power
=============================================================================
