------------------------------ MODULE MCBridge ------------------------------
(***************************************************************************)
(* Bridge as TLC checks it: its constants are given in the configurations. *)
(***************************************************************************)
EXTENDS Bridge
=============================================================================
