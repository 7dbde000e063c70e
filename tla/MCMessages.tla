---------------------------- MODULE MCMessages ----------------------------
(***************************************************************************)
(* Values for checking Messages with TLC.                                  *)
(***************************************************************************)
EXTENDS Messages

FourMessages == 1..4
ThreeMessages == 1..3
=============================================================================
