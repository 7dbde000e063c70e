---------------------------- MODULE ApprovalGate ----------------------------
(***************************************************************************)
(* The approval gate: the tools of server/ai/mcp_git_gate.py and           *)
(* mcp_url_gate.py on one side, the user's yes and no (through             *)
(* signal_bridge.py) on the other, and between them the `pending' table of *)
(* server/proxy/approval_daemon.py with its handlers, which run in         *)
(* parallel. A URL request that is approved changes the allowlist, so the  *)
(* module extends Allowlist, whose threads are the admin handlers.         *)
(*                                                                         *)
(* A request stands for one call of a tool. `pending' lives in memory: a   *)
(* daemon that dies forgets every request and every decision.              *)
(***************************************************************************)
EXTENDS Allowlist, FiniteSets

CONSTANTS Requests,     \* the tool calls
          Kind,         \* the kind of each request
          Domain,       \* the domain a URL request asks for
          NoRequest,    \* no request
          MaxAttempts,  \* bound: how often a request's trigger is sent
          MaxCalls      \* bound: how many of the tool calls are made

Kinds == {"url", "git_push", "repo_create", "deploy", "deploy_stop", "deploy_remove"}

ASSUME GateAssumption == /\ Kind \in [Requests -> Kinds]
                         /\ Domain \in [Requests -> Domains]
                         /\ NoRequest \notin Requests
                         /\ MaxAttempts \in Nat \ {0}
                         /\ MaxCalls \in Nat

\* What a tool does once its request is approved.
Urls     == {r \in Requests : Kind[r] = "url"}
Pushes   == {r \in Requests : Kind[r] \in {"git_push", "deploy"}}
Triggers == {r \in Requests : Kind[r] \notin {"url", "git_push"}}
Attempts == 1..MaxAttempts

VARIABLES status,     \* pending[r]["status"], or "absent"
          executed,   \* pending[r]["executed"]
          tool,       \* where each tool call is, and then what it reported
          call,       \* the trigger requests of each tool call
          handling,   \* the URL request each admin thread is approving
          yes,        \* history: the requests the user has ever said yes to
          told,       \* history: the last decision the user was confirmed
          pushes,     \* history: how often each request's branch was pushed
          effects,    \* history: how often each request was carried out elsewhere
          listed      \* history: the domains that have ever been on the allowlist

listVars == <<allowlistVars, listed>>
tableVars == <<status, executed>>
toolVars == <<tool, call>>
historyVars == <<yes, told, pushes, effects>>
gateOnlyVars == <<tableVars, toolVars, handling, historyVars>>
gateVars == <<listVars, gateOnlyVars>>

\* What a tool has told Claude: "granted" (a URL), "done", "failed" (something
\* was refused or went wrong), "denied", "timeout", or "unsure" (an error that
\* says nothing of what happened, or no answer at all: the sandbox was killed).
Reports   == {"granted", "done", "failed", "denied", "timeout", "unsure"}
ToolPcs   == {"idle", "asking", "notifying", "polling", "pushing", "triggering", "waiting"}
CallStates == {"unsent", "sent", "admitted", "worked", "orphan", "over"}

GateTypeOK ==
    /\ AllowlistTypeOK
    /\ status \in [Requests -> {"absent", "pending", "approved", "denied"}]
    /\ executed \in [Requests -> BOOLEAN]
    /\ tool \in [Requests -> ToolPcs \cup Reports]
    /\ call \in [Requests -> [Attempts -> CallStates]]
    /\ handling \in [Threads -> Urls \cup {NoRequest}]
    /\ yes \subseteq Requests
    /\ told \in [Requests -> {"nothing", "approved", "denied"}]
    /\ pushes \in [Requests -> Nat]
    /\ effects \in [Requests -> Nat]
    /\ listed \subseteq Domains

GateInit ==
    /\ AllowlistInit
    /\ status = [r \in Requests |-> "absent"]
    /\ executed = [r \in Requests |-> FALSE]
    /\ tool = [r \in Requests |-> "idle"]
    /\ call = [r \in Requests |-> [n \in Attempts |-> "unsent"]]
    /\ handling = [a \in Threads |-> NoRequest]
    /\ yes = {}
    /\ told = [r \in Requests |-> "nothing"]
    /\ pushes = [r \in Requests |-> 0]
    /\ effects = [r \in Requests |-> 0]
    /\ listed = Listed

\* Kept up to date by every step that changes the allowlist.
NoteListed == listed' = listed \cup {d \in Domains : allowlist'[d] # Absent}

ToolGoes(r, where) == tool' = [tool EXCEPT ![r] = where]

-----------------------------------------------------------------------------
(* request_approval and request_url_access: create, then poll.             *)

Ask(r) ==
    /\ tool[r] = "idle"
    /\ Cardinality({q \in Requests : tool[q] # "idle"}) < MaxCalls
    /\ ToolGoes(r, "asking")
    /\ UNCHANGED <<listVars, tableVars, call, handling, historyVars>>

\* The daemon cannot be reached.
AskFails(r) ==
    /\ tool[r] = "asking"
    /\ ToolGoes(r, "failed")
    /\ UNCHANGED <<listVars, tableVars, call, handling, historyVars>>

\* /request-url-access and /request-git-action: the entry is there before the
\* user is told of it.
Create(r) ==
    /\ up
    /\ tool[r] = "asking"
    /\ status' = [status EXCEPT ![r] = "pending"]
    /\ ToolGoes(r, "notifying")
    /\ UNCHANGED <<listVars, executed, call, handling, historyVars>>

\* notify_signal succeeds and the tool learns the id.
Notified(r) ==
    /\ up
    /\ tool[r] = "notifying"
    /\ status[r] # "absent"
    /\ ToolGoes(r, "polling")
    /\ UNCHANGED <<listVars, tableVars, call, handling, historyVars>>

\* notify_signal fails (502), or the answer does not arrive in time. The entry
\* stays: "list" still offers it to the user.
NotNotified(r) ==
    /\ tool[r] = "notifying"
    /\ ToolGoes(r, "failed")
    /\ UNCHANGED <<listVars, tableVars, call, handling, historyVars>>

\* Where an approved request's tool goes next.
WhenApproved(r) ==
    IF r \in Urls THEN "granted" ELSE IF r \in Pushes THEN "pushing" ELSE "triggering"

\* Faulty: whatever is no longer pending is taken for a yes.
PollDecided(r) ==
    /\ tool[r] = "polling"
    /\ up /\ status[r] \in {"approved", "denied"}
    /\ ToolGoes(r, WhenApproved(r))
    /\ UNCHANGED <<listVars, tableVars, call, handling, historyVars>>

\* A poll that is answered with a decision. Every other answer (pending, 404
\* after a restart, no connection) leaves the tool where it is; only a poll that
\* runs into its own 15 s is an error of another type, and ends the call.
Poll(r) ==
    /\ tool[r] = "polling"
    /\ \/ up /\ status[r] = "approved" /\ ToolGoes(r, WhenApproved(r))
       \/ up /\ status[r] = "denied" /\ ToolGoes(r, "denied")
       \/ ToolGoes(r, "unsure")
    /\ UNCHANGED <<listVars, tableVars, call, handling, historyVars>>

\* Faulty: a trigger that is not answered in time is reported like a poll.
GiveUpAnywhere(r) ==
    /\ tool[r] \in {"polling", "waiting"}
    /\ ToolGoes(r, "timeout")
    /\ UNCHANGED <<listVars, tableVars, call, handling, historyVars>>

\* Faulty: a request the daemon does not know is polled without a deadline.
GiveUpOnKnown(r) ==
    /\ tool[r] = "polling"
    /\ status[r] # "absent"
    /\ ToolGoes(r, "timeout")
    /\ UNCHANGED <<listVars, tableVars, call, handling, historyVars>>

\* The ten minutes are over.
GiveUp(r) ==
    /\ tool[r] = "polling"
    /\ ToolGoes(r, "timeout")
    /\ UNCHANGED <<listVars, tableVars, call, handling, historyVars>>

-----------------------------------------------------------------------------
(* What the tools do once they have seen "approved".                       *)

\* do_git_push. A deployment is triggered whether git push failed or not; only
\* a git push that does not return (its 120 s) ends the tool call here.
Push(r) ==
    /\ tool[r] = "pushing"
    /\ \/ /\ pushes' = [pushes EXCEPT ![r] = @ + 1]
          /\ ToolGoes(r, IF r \in Triggers THEN "triggering" ELSE "done")
       \/ /\ UNCHANGED pushes
          /\ ToolGoes(r, IF r \in Triggers THEN "triggering" ELSE "failed")
       \/ /\ pushes' \in {pushes, [pushes EXCEPT ![r] = @ + 1]}
          /\ ToolGoes(r, "unsure")
    /\ UNCHANGED <<listVars, tableVars, call, handling, yes, told, effects>>

CallGoes(r, n, where) == call' = [call EXCEPT ![r][n] = where]

\* trigger_deploy, trigger_deploy_action, trigger_repo_create.
Trigger(r) ==
    /\ tool[r] = "triggering"
    /\ ToolGoes(r, "waiting")
    /\ CallGoes(r, 1, "sent")
    /\ UNCHANGED <<listVars, tableVars, handling, historyVars>>

\* The trigger is sent once more: the retry the daemon's handlers expect of the
\* other side, which the tools of this version never do by themselves.
Retry(r, n) ==
    /\ n - 1 \in Attempts
    /\ call[r][n] = "unsent"
    /\ call[r][n - 1] # "unsent"
    /\ CallGoes(r, n, "sent")
    /\ UNCHANGED <<listVars, tableVars, tool, handling, historyVars>>

\* The answer to a trigger reaches the tool that still waits for it.
Reply(r, n, report) ==
    IF n = 1 /\ tool[r] = "waiting" THEN ToolGoes(r, report) ELSE UNCHANGED tool

\* Faulty: "executed" is set only once the relay has come back.
AdmitUnmarked(r, n) ==
    /\ up
    /\ call[r][n] = "sent"
    /\ IF status[r] = "approved" /\ ~executed[r]
       THEN CallGoes(r, n, "admitted") /\ UNCHANGED tool
       ELSE CallGoes(r, n, "over") /\ Reply(r, n, "failed")
    /\ UNCHANGED <<listVars, tableVars, handling, historyVars>>

\* The triggers' check, under state_lock: 403, 409, or "executed" is set.
Admit(r, n) ==
    /\ up
    /\ call[r][n] = "sent"
    /\ IF status[r] = "approved" /\ ~executed[r]
       THEN /\ executed' = [executed EXCEPT ![r] = TRUE]
            /\ CallGoes(r, n, "admitted")
            /\ UNCHANGED tool
       ELSE /\ UNCHANGED executed
            /\ CallGoes(r, n, "over")
            /\ Reply(r, n, "failed")
    /\ UNCHANGED <<listVars, status, handling, historyVars>>

\* The deploy instance or GitHub does what it was asked to; whoever relayed the
\* request may no longer be there to hear of it.
TakesEffect(r, n) ==
    /\ call[r][n] \in {"admitted", "orphan"}
    /\ effects' = [effects EXCEPT ![r] = @ + 1]
    /\ CallGoes(r, n, IF call[r][n] = "admitted" THEN "worked" ELSE "over")
    /\ UNCHANGED <<listVars, tableVars, tool, handling, yes, told, pushes>>

\* It is not configured (503), not reachable (502), or it fails.
ComesToNothing(r, n) ==
    /\ \/ up /\ call[r][n] = "admitted" /\ Reply(r, n, "failed")
       \/ call[r][n] = "orphan" /\ UNCHANGED tool
    /\ CallGoes(r, n, "over")
    /\ UNCHANGED <<listVars, tableVars, handling, historyVars>>

\* The answer comes back, through _sync_apps.
Answer(r, n) ==
    /\ up
    /\ call[r][n] = "worked"
    /\ Reply(r, n, "done")
    /\ CallGoes(r, n, "over")
    /\ UNCHANGED <<listVars, tableVars, handling, historyVars>>

\* Faulty: a relay that is not answered in time is taken for a success.
RelayIsTrusted(r, n) ==
    /\ up
    /\ call[r][n] = "admitted"
    /\ Reply(r, n, "done")
    /\ CallGoes(r, n, "orphan")
    /\ UNCHANGED <<listVars, tableVars, handling, historyVars>>

\* The relay's own timeout: 502, and the other end carries on.
RelayGivesUp(r, n) ==
    /\ up
    /\ call[r][n] = "admitted"
    /\ Reply(r, n, "failed")
    /\ CallGoes(r, n, "orphan")
    /\ UNCHANGED <<listVars, tableVars, handling, historyVars>>

\* The tool's own timeout, or its connection breaks.
StopWaiting(r) ==
    /\ tool[r] = "waiting"
    /\ ToolGoes(r, "unsure")
    /\ UNCHANGED <<listVars, tableVars, call, handling, historyVars>>

\* The sandbox is killed, and the tool with it (external: docker rm -f).
Killed(r) ==
    /\ tool[r] \in ToolPcs \ {"idle"}
    /\ ToolGoes(r, "unsure")
    /\ UNCHANGED <<listVars, tableVars, call, handling, historyVars>>

-----------------------------------------------------------------------------
(* The admin listener: /resolve, /allowlist/allow, /allowlist/block.       *)

\* The decision is stored, whatever was there before.
Decide(r, verdict) ==
    /\ status' = [status EXCEPT ![r] = verdict]
    /\ told' = [told EXCEPT ![r] = verdict]

SayNo(a, r) ==
    /\ up /\ At(a, "idle") /\ status[r] # "absent"
    /\ Decide(r, "denied")
    /\ UNCHANGED <<listVars, executed, toolVars, handling, yes, pushes, effects>>

SayYes(a, r) ==
    /\ up /\ At(a, "idle") /\ status[r] # "absent"
    /\ r \notin Urls
    /\ Decide(r, "approved")
    /\ yes' = yes \cup {r}
    /\ UNCHANGED <<listVars, executed, toolVars, handling, pushes, effects>>

\* Faulty: a URL request is marked approved before its domain is added.
SayYesToUrlEarly(a, r, grant) ==
    /\ status[r] # "absent"
    /\ r \in Urls
    /\ Allow(a, Domain[r], grant)
    /\ UNCHANGED listed
    /\ handling' = [handling EXCEPT ![a] = r]
    /\ yes' = yes \cup {r}
    /\ status' = [status EXCEPT ![r] = "approved"]
    /\ UNCHANGED <<executed, toolVars, told, pushes, effects>>

\* Yes to a URL request: add_domain first...
SayYesToUrl(a, r, grant) ==
    /\ status[r] # "absent"
    /\ r \in Urls
    /\ Allow(a, Domain[r], grant)
    /\ UNCHANGED listed
    /\ handling' = [handling EXCEPT ![a] = r]
    /\ yes' = yes \cup {r}
    /\ UNCHANGED <<tableVars, toolVars, told, pushes, effects>>

\* ...and the status when it returns.
UrlIsAdded(a, r) ==
    /\ handling[a] = r
    /\ Answered(a)
    /\ UNCHANGED listed
    /\ Decide(r, "approved")
    /\ handling' = [handling EXCEPT ![a] = NoRequest]
    /\ UNCHANGED <<executed, toolVars, yes, pushes, effects>>

\* What the allowlist's threads do for themselves.
AllowlistStep ==
    /\ \/ \E a \in Threads, d \in Domains :
             \/ \E g \in Grants : Allow(a, d, g)
             \/ Block(a, d)
       \/ Prune
       \/ \E a \in Workers : Work(a)
       \/ \E a \in Threads : handling[a] = NoRequest /\ Answered(a)
       \/ Answered(Pruner)
       \/ Tick
       \/ Start
    /\ NoteListed
    /\ UNCHANGED gateOnlyVars

\* The daemon dies: the table is gone, and what was relayed goes on alone.
GateDies ==
    /\ Die
    /\ status' = [r \in Requests |-> "absent"]
    /\ executed' = [r \in Requests |-> FALSE]
    /\ call' = [r \in Requests |-> [n \in Attempts |->
                  CASE call[r][n] = "admitted" -> "orphan"
                    [] call[r][n] \in {"sent", "worked"} -> "over"
                    [] OTHER -> call[r][n]]]
    /\ handling' = [a \in Threads |-> NoRequest]
    /\ UNCHANGED <<tool, listed, historyVars>>

-----------------------------------------------------------------------------

ToolStep(r) ==
    \/ Ask(r) \/ AskFails(r) \/ Create(r) \/ Notified(r) \/ NotNotified(r)
    \/ Poll(r) \/ GiveUp(r) \/ Push(r) \/ Trigger(r) \/ StopWaiting(r) \/ Killed(r)

CallStep(r, n) ==
    \/ Retry(r, n) \/ Admit(r, n) \/ TakesEffect(r, n) \/ ComesToNothing(r, n)
    \/ Answer(r, n) \/ RelayGivesUp(r, n)

UserStep(a, r) ==
    \/ SayNo(a, r)
    \/ SayYes(a, r)
    \/ \E g \in Grants : SayYesToUrl(a, r, g)
    \/ UrlIsAdded(a, r)

GateNext ==
    \/ \E r \in Requests : ToolStep(r)
    \/ \E r \in Requests, n \in Attempts : CallStep(r, n)
    \/ \E a \in Threads, r \in Requests : UserStep(a, r)
    \/ AllowlistStep
    \/ GateDies

GateSpec == GateInit /\ [][GateNext]_gateVars

\* The tools run: each of their waits has a timeout of its own. Nothing is
\* asked of the user, of the daemon or of what it relays to.
FairGateSpec ==
    /\ GateSpec
    /\ \A r \in Requests :
          /\ WF_gateVars(AskFails(r))
          /\ WF_gateVars(NotNotified(r))
          /\ WF_gateVars(GiveUp(r))
          /\ WF_gateVars(Push(r))
          /\ WF_gateVars(Trigger(r))
          /\ WF_gateVars(StopWaiting(r))

-----------------------------------------------------------------------------

(* Nothing leaves the sandbox that the user never said yes to: no branch is *)
(* pushed and no trigger is carried out for a request without a yes, and no *)
(* URL tool is told that its request was granted.                           *)
NothingWithoutApproval ==
    \A r \in Requests :
        (pushes[r] > 0 \/ effects[r] > 0 \/ tool[r] = "granted") => r \in yes

(* One approval, one deed: however often the trigger is sent, whatever is   *)
(* late, and even if the daemon dies in between, what was approved happens  *)
(* at most once.                                                            *)
AtMostOnce == \A r \in Requests : pushes[r] <= 1 /\ effects[r] <= 1

(* "Denied by the user. Nothing was pushed or deployed." and "Timed out...  *)
(* Nothing was pushed or deployed." are true, and stay true.                *)
NothingWasDone ==
    \A r \in Requests :
        tool[r] \in {"denied", "timeout"} => pushes[r] = 0 /\ effects[r] = 0

(* "Pushed to...", "Deployed...", "Created...": a success a tool reports    *)
(* has happened.                                                            *)
SuccessIsReal ==
    \A r \in Requests :
        tool[r] = "done" => IF r \in Triggers THEN effects[r] > 0 ELSE pushes[r] > 0

(* When a tool can see that its URL was approved, the domain has been added *)
(* to the allowlist: "is now allowed through the proxy - retry".            *)
ApprovedUrlIsListed ==
    \A r \in Urls : status[r] = "approved" \/ tool[r] = "granted" => Domain[r] \in listed

\* The parts of the invariant below.
\* Whatever follows from a yes comes after it.
OnlyWithYes ==
    \A r \in Requests :
        \/ status[r] = "approved"
        \/ tool[r] \in {"granted", "pushing", "triggering", "waiting", "done"}
        \/ pushes[r] > 0
        \/ effects[r] > 0
        \/ \E n \in Attempts : call[r][n] # "unsent"
        => r \in yes

\* A tool that has not seen a yes has done nothing, and will not if it is over.
NothingYet ==
    \A r \in Requests :
        tool[r] \in {"idle", "asking", "notifying", "polling", "denied", "timeout"} =>
            pushes[r] = 0 /\ effects[r] = 0 /\ (\A n \in Attempts : call[r][n] = "unsent")

PushedOnce ==
    \A r \in Requests : pushes[r] <= 1 /\ (tool[r] = "pushing" => pushes[r] = 0)

\* A trigger that may still take effect is the only one, and the first: as long
\* as the table knows the request, "executed" says so.
OneRelay ==
    \A r \in Requests :
        /\ effects[r] <= 1
        /\ \A n \in Attempts : call[r][n] \in {"admitted", "orphan"} => effects[r] = 0
        /\ \A m, n \in Attempts : /\ call[r][m] \in {"admitted", "orphan"}
                                  /\ call[r][n] \in {"admitted", "orphan"}
                                 => m = n
        /\ status[r] # "absent" /\ ~executed[r] =>
               /\ effects[r] = 0
               /\ \A n \in Attempts : call[r][n] \notin {"admitted", "orphan"}

\* A trigger that came back had its effect, and only triggering tools wait.
AnswersAreEarned ==
    \A r \in Requests :
        /\ tool[r] \in {"triggering", "waiting"} => r \in Triggers
        /\ \A n \in Attempts : call[r][n] = "worked" => effects[r] > 0

\* A thread that is approving a URL request is in the middle of adding its domain.
GrantsUnderWay ==
    \A a \in Threads : handling[a] # NoRequest =>
        /\ handling[a] \in yes
        /\ status[handling[a]] # "absent"
        /\ ~At(a, "idle")
        /\ At(a, "load") => /\ job[a].change.op = "add"
                            /\ job[a].change.domain = Domain[handling[a]]
        /\ At(a, "save") => job[a].copy[Domain[handling[a]]] # Absent
        /\ job[a].at \in {"render", "reconfigure", "finish"} => Domain[handling[a]] \in listed

(* What makes the five properties above invariant: how far a tool, its      *)
(* trigger requests, the daemon's table and a thread that is adding a       *)
(* domain can be ahead of one another.                                      *)
GateInvariant ==
    /\ GateTypeOK
    /\ AllowlistInvariant
    /\ OnlyWithYes
    /\ NothingYet
    /\ PushedOnce
    /\ OneRelay
    /\ AnswersAreEarned
    /\ SuccessIsReal
    /\ GrantsUnderWay
    /\ ApprovedUrlIsListed

(* Every tool call ends and says something, whatever the user, the daemon   *)
(* and the other instances do.                                              *)
EveryCallEnds == \A r \in Requests : tool[r] # "idle" ~> tool[r] \in Reports

(* "no <id>: deny a pending request": once the user was told "Denied",      *)
(* nothing is pushed or carried out for that request.  Refuted with the     *)
(* instance of Gate.                                                        *)
NothingAfterDenial ==
    [][\A r \in Requests :
          told[r] = "denied" => pushes'[r] = pushes[r] /\ effects'[r] = effects[r]]_gateVars

(* "the pushed branch is also deployed": a deployment is of a branch that   *)
(* was pushed.  Refuted with the instance of Gate.                          *)
DeploysWhatWasPushed ==
    \A r \in Requests : Kind[r] = "deploy" /\ effects[r] > 0 => pushes[r] > 0
=============================================================================
