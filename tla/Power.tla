-------------------------------- MODULE Power --------------------------------
(***************************************************************************)
(* The three EC2 instances and who starts and stops them: the controller   *)
(* (lambda/app.py), the idle monitor (server/proxy/idle_monitor.py) and    *)
(* the user's commands, with the web gate that the monitor, the user and   *)
(* the start link (approval_daemon.py's WebOpenHandler) open and close.    *)
(*                                                                         *)
(* EC2 refuses a call as a whole when one of the instances it names cannot *)
(* make the transition: start while "stopping", stop while "pending".      *)
(* Times are ages, counted in ticks up to the larger of the two idle       *)
(* times; more than that is as good as any.                                *)
(***************************************************************************)
EXTENDS Naturals

CONSTANTS Idle,       \* IDLE_SECONDS
          WebIdle,    \* WEB_IDLE_SECONDS
          TurnTime,   \* CLAUDE_TIMEOUT_SECONDS
          NoLine,     \* no line in the access log
          MaxStarts   \* bound: how many start pages are opened

ASSUME PowerAssumption == /\ Idle \in Nat \ {0}
                          /\ WebIdle \in Nat \ {0}
                          /\ TurnTime \in Nat
                          /\ TurnTime < Idle
                          /\ NoLine \notin Nat
                          /\ MaxStarts \in Nat

VARIABLES ec2,      \* state of each instance
          serves,   \* whether its services answer: bridge, wrapper, deployed app
          busy,     \* claude_wrapper's busy
          age,      \* time since last_activity of bridge and wrapper, and since the last log line
          gate,     \* web_gate_state.conf
          monitor,  \* the monitor's place in its loop, and what it has read
          closing,  \* /web/stop-instances is between the controller's answer and the gate
          opening,  \* WebOpenHandler is between the probe and the gate
          starts,   \* history: how many start pages were opened
          fresh,    \* history: deploy came up and no tick has passed since
          late      \* history: the gate was opened, or left open, while deploy was not to stay

powerVars == <<ec2, serves, busy, age, gate, monitor, closing, opening, starts, fresh, late>>

Workers  == {"ai", "deploy"}
Machines == Workers \cup {"proxy"}
Cap == IF Idle > WebIdle THEN Idle ELSE WebIdle

\* `used' is history: the workers used since the monitor began its look.
Asleep(where) == [at |-> where, bridge |-> 0, up |-> {}, due |-> {}, used |-> {}]

PowerTypeOK ==
    /\ ec2 \in [Machines -> {"stopped", "pending", "running", "stopping"}]
    /\ serves \in [Machines -> BOOLEAN]
    /\ busy \in BOOLEAN
    /\ age \in [{"bridge", "wrapper", "log"} -> 0..Cap \cup {NoLine}]
    /\ age["bridge"] # NoLine /\ age["wrapper"] # NoLine
    /\ gate \in {"open", "closed"}
    /\ monitor \in [at : {"off", "sleep", "controller", "ai", "close", "call"},
                    bridge : 0..Cap, up : SUBSET Workers, due : SUBSET Workers,
                    used : SUBSET Workers]
    /\ closing \in BOOLEAN
    /\ opening \in BOOLEAN
    /\ starts \in Nat
    /\ fresh \in BOOLEAN
    /\ late \in BOOLEAN

\* Everything is off; the log may have lines of an earlier session.
PowerInit ==
    /\ ec2 = [m \in Machines |-> "stopped"]
    /\ serves = [m \in Machines |-> FALSE]
    /\ busy = FALSE
    /\ age \in [{"bridge", "wrapper", "log"} -> {Cap, NoLine}]
    /\ age["bridge"] = Cap /\ age["wrapper"] = Cap
    /\ gate = "closed"
    /\ monitor = Asleep("off")
    /\ closing = FALSE
    /\ opening = FALSE
    /\ starts = 0
    /\ fresh = FALSE
    /\ late = FALSE

-----------------------------------------------------------------------------
(* The controller                                                           *)

\* Faulty: each instance for itself.
MoveEach(S, from, to, unless) ==
    [m \in Machines |-> IF m \in S /\ ec2[m] = from THEN to ELSE ec2[m]]

\* start_instances and stop_instances: all of S, or none when one cannot; the
\* exception is swallowed.
Move(S, from, to, unless) ==
    IF \E m \in S : ec2[m] = unless
    THEN ec2
    ELSE [m \in Machines |-> IF m \in S /\ ec2[m] = from THEN to ELSE ec2[m]]

Start(S) == ec2' = Move(S, "stopped", "pending", "stopping")
Stop(S)  == ec2' = Move(S, "running", "stopping", "pending")

\* The default route starts ai, /web and the custom domain deploy; proxy with either.
StartPage(w) ==
    /\ starts < MaxStarts
    /\ starts' = starts + 1
    /\ Start({"proxy", w})
    /\ UNCHANGED <<serves, busy, age, gate, monitor, closing, opening, fresh, late>>

\* EC2 completes a transition.
Boot(m) ==
    /\ ec2[m] = "pending"
    /\ ec2' = [ec2 EXCEPT ![m] = "running"]
    /\ fresh' = (fresh \/ m = "deploy")
    /\ UNCHANGED <<serves, busy, age, gate, monitor, closing, opening, starts, late>>

\* The services of an instance come up some time after it; those that keep a
\* last_activity start it at now.
Serve(m) ==
    /\ ec2[m] = "running"
    /\ ~serves[m]
    /\ serves' = [serves EXCEPT ![m] = TRUE]
    /\ age' = CASE m = "proxy" -> [age EXCEPT !["bridge"] = 0]
                [] m = "ai" -> [age EXCEPT !["wrapper"] = 0]
                [] m = "deploy" -> age
    /\ monitor' = IF m = "proxy" THEN Asleep("sleep") ELSE monitor
    /\ UNCHANGED <<ec2, busy, gate, closing, opening, starts, fresh, late>>

Halt(m) ==
    /\ ec2[m] = "stopping"
    /\ ec2' = [ec2 EXCEPT ![m] = "stopped"]
    /\ serves' = [serves EXCEPT ![m] = FALSE]
    /\ fresh' = (fresh /\ m # "deploy")
    /\ busy' = (busy /\ m # "ai")
    /\ IF m = "proxy"
       THEN /\ monitor' = Asleep("off")
            /\ closing' = FALSE
            /\ opening' = FALSE
            /\ late' = (late \/ closing)
       ELSE UNCHANGED <<monitor, closing, opening, late>>
    /\ UNCHANGED <<age, gate, starts>>

-----------------------------------------------------------------------------
(* Use                                                                      *)

At(where) == monitor.at = where

Touch(x) == age' = [age EXCEPT ![x] = 0]
Use(w)   == monitor' = IF At("off") \/ At("sleep") THEN monitor
                       ELSE [monitor EXCEPT !.used = @ \cup {w}]

\* The bridge hands on a message of the user's; one that is a prompt makes a
\* reachable wrapper busy.
Message ==
    /\ serves["proxy"]
    /\ Touch("bridge")
    /\ Use("ai")
    /\ busy' \in {busy, busy \/ serves["ai"]}
    /\ UNCHANGED <<ec2, serves, gate, closing, opening, starts, fresh, late>>

\* The last turn ends, and the bridge sends its reply.
TurnEnds ==
    /\ busy
    /\ busy' = FALSE
    /\ age' = [age EXCEPT !["wrapper"] = 0, !["bridge"] = 0]
    /\ Use("ai")
    /\ UNCHANGED <<ec2, serves, gate, closing, opening, starts, fresh, late>>

\* nginx logs a request for the deployed app, whatever becomes of it.
Visit ==
    /\ serves["proxy"]
    /\ Touch("log")
    /\ Use("deploy")
    /\ UNCHANGED <<ec2, serves, busy, gate, closing, opening, starts, fresh, late>>

\* Time passes.  Each prompt and each reply touches the bridge, and no turn
\* outlasts its timeout.
Older(n) == IF n = NoLine \/ n = Cap THEN n ELSE n + 1

Tick ==
    /\ busy => age["bridge"] < TurnTime
    /\ age' = [x \in DOMAIN age |-> Older(age[x])]
    /\ monitor' = [monitor EXCEPT !.bridge = IF At("controller") \/ At("ai")
                                             THEN Older(monitor.bridge) ELSE 0]
    /\ fresh' = FALSE
    /\ UNCHANGED <<ec2, serves, busy, gate, closing, opening, starts, late>>

-----------------------------------------------------------------------------
(* The gate                                                                 *)

\* Whether deploy is about to be stopped by somebody who has closed the gate
\* already, or has decided whether to.
BeingStopped == monitor.at \in {"ai", "close", "call"} \/ closing

OpenGate  == gate' = "open" /\ late' = (ec2["deploy"] # "running" \/ BeingStopped)
CloseGate == gate' = "closed" /\ late' = FALSE

\* /web/open and /web/close: the user's word.
UserGate ==
    /\ serves["proxy"]
    /\ OpenGate \/ CloseGate
    /\ UNCHANGED <<ec2, serves, busy, age, monitor, closing, opening, starts, fresh>>

\* The start page's script asks the controller to open the site once both are
\* running; WebOpenHandler does if the app responds to it, at once after that.
LinkOpens ==
    /\ ec2["proxy"] = "running" /\ ec2["deploy"] = "running"
    /\ serves["proxy"] /\ serves["deploy"]
    /\ ~opening
    /\ opening' = TRUE
    /\ UNCHANGED <<ec2, serves, busy, age, gate, monitor, closing, starts, fresh, late>>

Opened ==
    /\ opening
    /\ opening' = FALSE
    /\ OpenGate
    /\ UNCHANGED <<ec2, serves, busy, age, monitor, closing, starts, fresh>>

\* The user's "ai stop".
UserStopsAi ==
    /\ serves["proxy"]
    /\ Stop({"ai"})
    /\ UNCHANGED <<serves, busy, age, gate, monitor, closing, opening, starts, fresh, late>>

\* The user's "web stop": the controller first, then the gate, which stays as it
\* is when the controller's answer does not come.
UserStopsDeploy ==
    /\ serves["proxy"]
    /\ ~closing
    /\ Stop({"deploy"})
    /\ \/ closing' = TRUE /\ UNCHANGED late
       \/ late' = TRUE /\ UNCHANGED closing
    /\ UNCHANGED <<serves, busy, age, gate, monitor, opening, starts, fresh>>

\* Faulty: the gate is left alone.
ThenLeave ==
    /\ closing
    /\ closing' = FALSE
    /\ UNCHANGED <<ec2, serves, busy, age, gate, monitor, opening, starts, fresh, late>>

ThenClose ==
    /\ closing
    /\ closing' = FALSE
    /\ CloseGate
    /\ UNCHANGED <<ec2, serves, busy, age, monitor, opening, starts, fresh>>

\* The daemon restarts, and whoever was on the way to the gate is gone.
DaemonDies ==
    /\ closing \/ opening
    /\ closing' = FALSE
    /\ opening' = FALSE
    /\ late' = (late \/ closing)
    /\ UNCHANGED <<ec2, serves, busy, age, gate, monitor, starts, fresh>>

-----------------------------------------------------------------------------
(* The idle monitor                                                         *)

\* It wakes and asks the bridge; what it asks may not answer, and it sleeps again.
ReadBridge ==
    /\ At("sleep")
    /\ monitor' = [Asleep("controller") EXCEPT !.bridge = age["bridge"]]
    /\ UNCHANGED <<ec2, serves, busy, age, gate, closing, opening, starts, fresh, late>>

Unchanged == UNCHANGED <<ec2, serves, busy, age, closing, opening, starts, fresh>>

ReadController ==
    /\ At("controller")
    /\ monitor' = [monitor EXCEPT !.at = "ai",
                                  !.up = {w \in Workers : ec2[w] = "running"}]
    /\ UNCHANGED <<gate, late>> /\ Unchanged

ControllerFails ==
    /\ At("controller") \/ At("call")
    /\ monitor' = Asleep("sleep")
    /\ UNCHANGED <<gate, late>> /\ Unchanged

\* Faulty: the wrapper's own activity is all that counts.
AiIsDueAlone(answers) ==
    /\ answers => ~busy /\ age["wrapper"] >= Idle

\* Faulty: a wrapper that does not answer is left alone.
AiIsDueIfItAnswers(answers) ==
    /\ monitor.bridge >= Idle
    /\ answers /\ ~busy /\ age["wrapper"] >= Idle

\* ai has been idle: for a wrapper that does not answer the bridge alone counts.
AiIsDue(answers) ==
    /\ monitor.bridge >= Idle
    /\ answers => ~busy /\ age["wrapper"] >= Idle

DeployIsDue == age["log"] # NoLine /\ age["log"] >= WebIdle

Due(answers) == {w \in monitor.up : IF w = "ai" THEN AiIsDue(answers) ELSE DeployIsDue}

\* It asks the wrapper, looks at the log and decides; the gate is closed first
\* when deploy is to go.
Decide(answers) ==
    /\ At("ai")
    /\ answers => serves["ai"]
    /\ monitor' =
         CASE Due(answers) = {} -> Asleep("sleep")
           [] OTHER -> [monitor EXCEPT !.at = IF "deploy" \in Due(answers) THEN "close" ELSE "call",
                                       !.bridge = 0, !.due = Due(answers)]
    /\ UNCHANGED <<gate, late>> /\ Unchanged

\* Faulty: without closing it.
CallFirst ==
    /\ At("close")
    /\ UNCHANGED <<gate, late>>
    /\ monitor' = [monitor EXCEPT !.at = "call"]
    /\ Unchanged

CloseFirst ==
    /\ At("close")
    /\ CloseGate
    /\ monitor' = [monitor EXCEPT !.at = "call"]
    /\ Unchanged

\* Everything when nobody is left to serve, or else the one that is idle.
ToStop == IF monitor.due = monitor.up THEN Machines ELSE monitor.due

StopIdle ==
    /\ At("call")
    /\ Stop(ToStop)
    /\ monitor' = Asleep("sleep")
    /\ UNCHANGED <<serves, busy, age, gate, closing, opening, starts, fresh, late>>

-----------------------------------------------------------------------------

Ec2Step   == \E m \in Machines : Boot(m) \/ Serve(m) \/ Halt(m)
UserStep  == \/ \E w \in Workers : StartPage(w)
             \/ Message \/ Visit \/ UserGate \/ UserStopsAi \/ UserStopsDeploy
OtherStep == TurnEnds \/ Tick \/ LinkOpens \/ Opened \/ ThenClose \/ DaemonDies
MonitorStep == \/ ReadBridge \/ ReadController \/ ControllerFails
               \/ \E answers \in BOOLEAN : Decide(answers)
               \/ CloseFirst \/ StopIdle

PowerNext == Ec2Step \/ UserStep \/ OtherStep \/ MonitorStep

PowerSpec == PowerInit /\ [][PowerNext]_powerVars

\* EC2 completes what it accepts, time passes, turns end, the proxy's services
\* come up and the monitor goes round its loop; the controller, asked again and
\* again, answers again and again.  Nothing of the wrapper, which may stay stuck.
PowerFairness ==
    /\ \A m \in Machines : WF_powerVars(Boot(m)) /\ WF_powerVars(Halt(m))
    /\ WF_powerVars(Serve("proxy")) /\ WF_powerVars(Tick) /\ WF_powerVars(TurnEnds)
    /\ WF_powerVars(ReadBridge) /\ SF_powerVars(ReadController)
    /\ WF_powerVars(\E answers \in BOOLEAN : Decide(answers))
    /\ WF_powerVars(CloseFirst) /\ SF_powerVars(StopIdle)

FairPowerSpec == PowerSpec /\ PowerFairness

-----------------------------------------------------------------------------
(* Properties                                                               *)

(* Whatever runs has the proxy it reaches the internet through, and is      *)
(* reached and stopped by: no sequence of starts and stops, refused ones    *)
(* included, leaves ai or deploy up without it (lambda/app.py:233-289).     *)
ProxyIsThere ==
    \A w \in Workers : ec2[w] \in {"pending", "running"} =>
                           ec2["proxy"] \in {"pending", "running"}

Unused(w) == IF w = "ai" THEN ~busy /\ age["bridge"] >= Idle
             ELSE age["log"] # NoLine /\ age["log"] >= WebIdle

\* A turn that is at work began with a message, a turn's time ago at most.
BusyIsRecent == busy => age["bridge"] <= TurnTime

\* What the monitor has read was true, and what was used since it knows not of.
Looking     == monitor.at \in {"controller", "ai"}
Deciding    == monitor.at \in {"ai", "close", "call"}
Acting      == monitor.at \in {"close", "call"}
ReadsTruly  == Looking => "ai" \in monitor.used \/ age["bridge"] >= monitor.bridge
DueIsUnused == Acting => \A w \in monitor.due : w \in monitor.up /\ (w \in monitor.used \/ Unused(w))

\* While it decides, whoever opens the gate does so late.
GateIsWatched ==
    /\ Deciding /\ "deploy" \notin monitor.up /\ gate = "open" => late \/ closing
    /\ At("call") /\ "deploy" \in monitor.due /\ gate = "open" => late

(* The inductive invariant.  A busy wrapper was written to within a turn's  *)
(* time; what the monitor holds against a machine is true or was overtaken  *)
(* by a use it could not see; and the gate is closed before it calls, or    *)
(* was opened by somebody behind its back (idle_monitor.py:127-198).        *)
PowerInvariant == PowerTypeOK /\ BusyIsRecent /\ ReadsTruly /\ DueIsUnused /\ GateIsWatched

\* The monitor's call takes down a machine.
MonitorStops(w) == /\ monitor.at = "call" /\ monitor'.at = "sleep"
                   /\ ec2[w] = "running" /\ ec2'[w] = "stopping"

(* What the monitor saw running and stops has been idle for its idle time,  *)
(* with no turn at work, or was used only while the monitor was making up   *)
(* its mind: it never cuts off a turn because the wrapper did not answer    *)
(* (idle_monitor.py:148-174).                                               *)
InUseStaysUp ==
    [][\A w \in Workers : MonitorStops(w) /\ w \in monitor.up =>
                              w \in monitor.used \/ Unused(w)]_powerVars

(* The gate does not stay open when deploy is stopped: who finds it open    *)
(* while deploy is down finds that it was opened while deploy was down or   *)
(* about to be stopped, or that who was to close it never heard of the      *)
(* stop, or was cut off                                                     *)
(* (idle_monitor.py:106-111, approval_daemon.py:619-623).                    *)
GateGoesWithDeploy ==
    gate = "open" /\ ec2["deploy"] # "running" => late \/ closing

\* Running with nobody using it, for as long as the monitor waits for.
LeftIdle(w) == /\ ec2[w] = "running"
               /\ Unused(w)
               /\ w = "ai" => (serves["ai"] => age["wrapper"] >= Idle)

(* No machine is left running idle for ever, not even with a wrapper that   *)
(* never answers (idle_monitor.py:155-161).                                 *)
IdleIsStopped == \A w \in Workers : []<>~LeftIdle(w)

(* The docstring of _last_web_activity: "so a session that was just started *)
(* doesn't get stopped before its first request has even landed" (86-90).   *)
(* Refuted: the log still has the last session's lines.                     *)
NewSessionSurvives ==
    [][MonitorStops("deploy") => ~fresh]_powerVars
=============================================================================
