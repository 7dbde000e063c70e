---------------------------- MODULE MCAllowlist ----------------------------
(***************************************************************************)
(* Values for checking Allowlist with TLC.                                 *)
(***************************************************************************)
EXTENDS Allowlist

CONSTANTS seed, other, t1, t2

TwoDomains == {seed, other}
OneSeed == {seed}
TwoThreads == {t1, t2}
ShortDurations == {0, 1}
=============================================================================
