--------------------------- MODULE MCApprovalGate ---------------------------
(***************************************************************************)
(* Values for checking ApprovalGate with TLC: a request of each sort (one  *)
(* that changes the allowlist, one that is carried out in the sandbox, one *)
(* that is carried out elsewhere, one that is both), one domain.           *)
(***************************************************************************)
EXTENDS ApprovalGate, TLC

CONSTANTS url, push, deploy, stop, x, a1, a2

OneDomain == {x}
NoSeeds == {}
TwoAdmins == {a1, a2}
ForEverOnly == {}
EverySort == {url, push, deploy, stop}
TheirKinds == url :> "url" @@ push :> "git_push" @@ deploy :> "deploy" @@ stop :> "deploy_stop"
AllForX == [r \in Requests |-> x]
=============================================================================
