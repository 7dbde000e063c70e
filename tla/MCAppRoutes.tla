---------------------------- MODULE MCAppRoutes ----------------------------
(* Small instances of AppRoutes: three repos, and two ports for them.       *)
EXTENDS AppRoutes, TLC

Symmetry == Permutations(Threads) \cup Permutations(Repos \ {Primary})
=============================================================================
