-------------------------- MODULE MCClaudeWrapper --------------------------
(***************************************************************************)
(* Values for checking ClaudeWrapper with TLC.                             *)
(***************************************************************************)
EXTENDS ClaudeWrapper

CONSTANTS p1, p2, alpha, default, a1

OnePrompt == {p1}
TwoPrompts == {p1, p2}
NoneVanish == {}
TwoProjects == {default, alpha}
OneAdmin == {a1}
=============================================================================
