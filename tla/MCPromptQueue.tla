--------------------------- MODULE MCPromptQueue ---------------------------
(***************************************************************************)
(* Values for checking PromptQueue with TLC.                               *)
(***************************************************************************)
EXTENDS PromptQueue

CONSTANTS p1, p2, p3, p4

FourPrompts == {p1, p2, p3, p4}
ThreePrompts == {p1, p2, p3}
OneVanishes == {p1}
=============================================================================
