----------------------------- MODULE PowerProofs -----------------------------
(***************************************************************************)
(* Nothing runs without its proxy, the gate goes with deploy and the idle  *)
(* monitor stops nothing in use: for any idle times and any number of      *)
(* start pages.                                                            *)
(***************************************************************************)
EXTENDS Power, TLAPS

Ages == 0..Cap \cup {NoLine}

LEMMA CapIsEnough == /\ Cap \in Nat /\ Idle <= Cap /\ WebIdle <= Cap /\ TurnTime < Cap
                     /\ Idle \in Nat /\ WebIdle \in Nat /\ TurnTime \in Nat /\ NoLine \notin Nat
BY PowerAssumption DEF Cap

(* Time passes for everything alike, up to the cap.                         *)
LEMMA OlderFacts ==
    /\ \A n \in Ages : Older(n) \in Ages /\ (n # NoLine => Older(n) # NoLine)
    /\ \A n \in 0..Cap : Older(n) \in 0..Cap /\ Older(n) >= n
    /\ \A n, k \in 0..Cap : n >= k => Older(n) >= Older(k)
    /\ \A n \in 0..Cap : n < TurnTime => Older(n) <= TurnTime
BY CapIsEnough DEF Older, Ages

(* Starting and stopping keep the states of the machines what they may be,  *)
(* and either everybody named moves or nobody does.                         *)
LEMMA MoveFacts ==
    ASSUME ec2 \in [Machines -> {"stopped", "pending", "running", "stopping"}],
           NEW S \in SUBSET Machines,
           NEW from \in {"stopped", "running"}, NEW to \in {"pending", "stopping"},
           NEW unless \in {"pending", "stopping"}
    PROVE  /\ Move(S, from, to, unless) \in [Machines -> {"stopped", "pending", "running", "stopping"}]
           /\ \A m \in Machines : m \notin S => Move(S, from, to, unless)[m] = ec2[m]
           /\ \/ Move(S, from, to, unless) = ec2
              \/ \A m \in S : /\ ec2[m] # unless
                              /\ Move(S, from, to, unless)[m] = IF ec2[m] = from THEN to ELSE ec2[m]
BY DEF Move

-----------------------------------------------------------------------------

LEMMA PowerInitTypes == PowerInit => PowerInvariant /\ ProxyIsThere /\ GateGoesWithDeploy
<1> SUFFICES ASSUME PowerInit PROVE PowerInvariant /\ ProxyIsThere /\ GateGoesWithDeploy
  OBVIOUS
<1>1. PowerTypeOK
  <2>1. age \in [{"bridge", "wrapper", "log"} -> 0..Cap \cup {NoLine}]
        /\ age["bridge"] # NoLine /\ age["wrapper"] # NoLine
    BY CapIsEnough DEF PowerInit
  <2>2. Asleep("off") \in [at : {"off", "sleep", "controller", "ai", "close", "call"},
                           bridge : 0..Cap, up : SUBSET Workers, due : SUBSET Workers,
                           used : SUBSET Workers]
    BY CapIsEnough DEF Asleep
  <2> QED
    BY <2>1, <2>2 DEF PowerInit, PowerTypeOK
<1> QED
  BY <1>1 DEF PowerInit, PowerInvariant, BusyIsRecent, ReadsTruly, DueIsUnused, GateIsWatched,
              Looking, Deciding, Acting, At, Asleep, ProxyIsThere, GateGoesWithDeploy, Machines, Workers

(* EC2's states.                                                            *)
LEMMA MachinesKept ==
    PowerTypeOK /\ [PowerNext]_powerVars
        => ec2' \in [Machines -> {"stopped", "pending", "running", "stopping"}]
<1> SUFFICES ASSUME PowerTypeOK, [PowerNext]_powerVars
             PROVE  ec2' \in [Machines -> {"stopped", "pending", "running", "stopping"}]
  OBVIOUS
<1>0. /\ ec2 \in [Machines -> {"stopped", "pending", "running", "stopping"}]
      /\ {"proxy"} \cup Workers \subseteq Machines /\ monitor.due \subseteq Workers
  BY DEF PowerTypeOK, Machines
<1>1. ASSUME NEW S \in SUBSET Machines, Start(S) \/ Stop(S)
      PROVE  ec2' \in [Machines -> {"stopped", "pending", "running", "stopping"}]
  BY <1>0, <1>1, MoveFacts DEF Start, Stop
<1>2. ASSUME NEW w \in Workers, StartPage(w)
      PROVE  ec2' \in [Machines -> {"stopped", "pending", "running", "stopping"}]
  BY <1>0, <1>1, <1>2 DEF StartPage
<1>3. CASE UserStopsAi \/ UserStopsDeploy \/ StopIdle
  <2>1. ToStop \in SUBSET Machines /\ {"ai"} \in SUBSET Machines /\ {"deploy"} \in SUBSET Machines
    BY <1>0 DEF ToStop, Machines, Workers
  <2> QED
    BY <1>1, <1>3, <2>1 DEF UserStopsAi, UserStopsDeploy, StopIdle
<1>4. CASE Ec2Step
  BY <1>0, <1>4 DEF Ec2Step, Boot, Serve, Halt
<1> QED
  BY <1>0, <1>2, <1>3, <1>4
  DEF PowerNext, powerVars, UserStep, OtherStep, MonitorStep, Message, Visit, UserGate, TurnEnds, Tick,
      LinkOpens, Opened, ThenClose, DaemonDies, ReadBridge, ReadController, ControllerFails, Decide, CloseFirst, Unchanged

(* The ages.                                                                *)
LEMMA AgesKept ==
    PowerTypeOK /\ [PowerNext]_powerVars
        => /\ age' \in [{"bridge", "wrapper", "log"} -> Ages]
           /\ age'["bridge"] # NoLine /\ age'["wrapper"] # NoLine
<1> SUFFICES ASSUME PowerTypeOK, [PowerNext]_powerVars
             PROVE  /\ age' \in [{"bridge", "wrapper", "log"} -> Ages]
                    /\ age'["bridge"] # NoLine /\ age'["wrapper"] # NoLine
  OBVIOUS
<1>0. /\ age \in [{"bridge", "wrapper", "log"} -> Ages]
      /\ age["bridge"] # NoLine /\ age["wrapper"] # NoLine
      /\ 0 \in Ages /\ 0 # NoLine
  BY CapIsEnough DEF PowerTypeOK, Ages
<1>1. CASE UNCHANGED age
  BY <1>0, <1>1
<1>2. CASE Message \/ Visit \/ TurnEnds
  BY <1>0, <1>2 DEF Message, Visit, TurnEnds, Touch
<1>3. ASSUME NEW m \in Machines, Serve(m)
      PROVE  /\ age' \in [{"bridge", "wrapper", "log"} -> Ages]
             /\ age'["bridge"] # NoLine /\ age'["wrapper"] # NoLine
  BY <1>0, <1>3 DEF Serve, Machines, Workers
<1>4. CASE Tick
  BY <1>0, <1>4, OlderFacts DEF Tick
<1> QED
  BY <1>1, <1>2, <1>3, <1>4
  DEF PowerNext, powerVars, Ec2Step, UserStep, OtherStep, MonitorStep, Boot, Halt, StartPage, UserGate,
      LinkOpens, Opened, UserStopsAi, UserStopsDeploy, ThenClose, DaemonDies, ReadBridge, ReadController,
      ControllerFails, Decide, CloseFirst, StopIdle, Unchanged

(* The monitor.                                                             *)
LEMMA MonitorKept ==
    PowerTypeOK /\ [PowerNext]_powerVars
        => monitor' \in [at : {"off", "sleep", "controller", "ai", "close", "call"},
                         bridge : 0..Cap, up : SUBSET Workers, due : SUBSET Workers,
                         used : SUBSET Workers]
<1> DEFINE Places == {"off", "sleep", "controller", "ai", "close", "call"}
           Monitors == [at : Places, bridge : 0..Cap, up : SUBSET Workers, due : SUBSET Workers,
                        used : SUBSET Workers]
<1> SUFFICES ASSUME PowerTypeOK, [PowerNext]_powerVars PROVE monitor' \in Monitors
  OBVIOUS
<1>0. monitor \in Monitors /\ 0 \in 0..Cap
  BY CapIsEnough DEF PowerTypeOK
<1>1. \A p \in Places : Asleep(p) \in Monitors
  BY <1>0 DEF Asleep
<1> HIDE DEF Places
<1>2. CASE UNCHANGED monitor
  BY <1>0, <1>2
<1>3. ASSUME NEW w \in Workers, Use(w) PROVE monitor' \in Monitors
  BY <1>0, <1>3 DEF Use
<1>4. CASE Message \/ Visit \/ TurnEnds
  BY <1>3, <1>4 DEF Message, Visit, TurnEnds, Workers
<1>5. CASE Tick
  <2>1. Older(monitor.bridge) \in 0..Cap
    BY <1>0, OlderFacts
  <2> QED
    BY <1>0, <1>5, <2>1 DEF Tick
<1>6. ASSUME NEW m \in Machines, Serve(m) \/ Halt(m) PROVE monitor' \in Monitors
  BY <1>0, <1>1, <1>6 DEF Serve, Halt, Places
<1>7. CASE ReadBridge
  <2>1. age["bridge"] \in 0..Cap
    BY DEF PowerTypeOK
  <2> QED
    BY <1>1, <1>7, <2>1 DEF ReadBridge, Asleep, Places
<1>8. CASE ControllerFails \/ StopIdle
  BY <1>1, <1>8 DEF ControllerFails, StopIdle, Places
<1>10. CASE ReadController \/ CloseFirst
  BY <1>0, <1>10 DEF ReadController, CloseFirst, Places
<1>9. ASSUME NEW answers \in BOOLEAN, Decide(answers) PROVE monitor' \in Monitors
  <2>1. Due(answers) \subseteq Workers
    BY <1>0 DEF Due
  <2> QED
    BY <1>0, <1>1, <1>9, <2>1 DEF Decide, Places
<1> QED
  BY <1>2, <1>4, <1>5, <1>6, <1>7, <1>8, <1>9, <1>10
  DEF PowerNext, powerVars, Ec2Step, UserStep, OtherStep, MonitorStep, Boot, StartPage, UserGate,
      LinkOpens, Opened, UserStopsAi, UserStopsDeploy, ThenClose, DaemonDies

LEMMA PowerTypesKept == PowerTypeOK /\ [PowerNext]_powerVars => PowerTypeOK'
<1> SUFFICES ASSUME PowerTypeOK, [PowerNext]_powerVars PROVE PowerTypeOK'
  OBVIOUS
<1>0. /\ serves \in [Machines -> BOOLEAN] /\ busy \in BOOLEAN /\ gate \in {"open", "closed"}
      /\ closing \in BOOLEAN /\ opening \in BOOLEAN /\ starts \in Nat
      /\ fresh \in BOOLEAN /\ late \in BOOLEAN
  BY DEF PowerTypeOK
<1>1. starts' \in Nat
  <2>1. starts' = starts \/ starts' = starts + 1
    BY DEF PowerNext, powerVars, Ec2Step, UserStep, OtherStep, MonitorStep, Boot, Serve, Halt, StartPage,
       Message, Visit, UserGate, UserStopsAi, UserStopsDeploy, TurnEnds, Tick, LinkOpens, Opened,
       ThenClose, DaemonDies, ReadBridge, ReadController, ControllerFails, Decide, CloseFirst, StopIdle, Unchanged
  <2> QED
    BY <1>0, <2>1
<1>2. serves' \in [Machines -> BOOLEAN]
  BY <1>0
  DEF PowerNext, powerVars, Ec2Step, UserStep, OtherStep, MonitorStep, Boot, Serve, Halt, StartPage,
      Message, Visit, UserGate, UserStopsAi, UserStopsDeploy, TurnEnds, Tick, LinkOpens, Opened,
      ThenClose, DaemonDies, ReadBridge, ReadController, ControllerFails, Decide, CloseFirst, StopIdle, Unchanged
<1>3. gate' \in {"open", "closed"}
  BY <1>0
  DEF PowerNext, powerVars, Ec2Step, UserStep, OtherStep, MonitorStep, Boot, Serve, Halt, StartPage,
      Message, Visit, UserGate, UserStopsAi, UserStopsDeploy, TurnEnds, Tick, LinkOpens, Opened,
      ThenClose, DaemonDies, ReadBridge, ReadController, ControllerFails, Decide, CloseFirst, StopIdle, Unchanged, OpenGate, CloseGate
<1>4. busy' \in BOOLEAN
  BY <1>0
  DEF PowerNext, powerVars, Ec2Step, UserStep, OtherStep, MonitorStep, Boot, Serve, Halt, StartPage,
      Message, Visit, UserGate, UserStopsAi, UserStopsDeploy, TurnEnds, Tick, LinkOpens, Opened,
      ThenClose, DaemonDies, ReadBridge, ReadController, ControllerFails, Decide, CloseFirst, StopIdle, Unchanged
<1>5. closing' \in BOOLEAN /\ opening' \in BOOLEAN
  BY <1>0
  DEF PowerNext, powerVars, Ec2Step, UserStep, OtherStep, MonitorStep, Boot, Serve, Halt, StartPage,
      Message, Visit, UserGate, UserStopsAi, UserStopsDeploy, TurnEnds, Tick, LinkOpens, Opened,
      ThenClose, DaemonDies, ReadBridge, ReadController, ControllerFails, Decide, CloseFirst, StopIdle, Unchanged
<1>6. fresh' \in BOOLEAN
  BY <1>0
  DEF PowerNext, powerVars, Ec2Step, UserStep, OtherStep, MonitorStep, Boot, Serve, Halt, StartPage,
      Message, Visit, UserGate, UserStopsAi, UserStopsDeploy, TurnEnds, Tick, LinkOpens, Opened,
      ThenClose, DaemonDies, ReadBridge, ReadController, ControllerFails, Decide, CloseFirst, StopIdle, Unchanged
<1>7. late' \in BOOLEAN
  BY <1>0
  DEF PowerNext, powerVars, Ec2Step, UserStep, OtherStep, MonitorStep, Boot, Serve, Halt, StartPage,
      Message, Visit, UserGate, UserStopsAi, UserStopsDeploy, TurnEnds, Tick, LinkOpens, Opened,
      ThenClose, DaemonDies, ReadBridge, ReadController, ControllerFails, Decide, CloseFirst, StopIdle, Unchanged, OpenGate, CloseGate
<1> QED
  BY <1>1, <1>2, <1>3, <1>4, <1>5, <1>6, <1>7, MachinesKept, AgesKept, MonitorKept DEF PowerTypeOK, Ages

-----------------------------------------------------------------------------
(* What runs has its proxy.                                                 *)

LEMMA ProxyStays ==
    PowerTypeOK /\ ProxyIsThere /\ [PowerNext]_powerVars => ProxyIsThere'
<1> SUFFICES ASSUME PowerTypeOK, ProxyIsThere, [PowerNext]_powerVars PROVE ProxyIsThere'
  OBVIOUS
<1>0. /\ ec2 \in [Machines -> {"stopped", "pending", "running", "stopping"}]
      /\ "proxy" \in Machines /\ Workers \subseteq Machines /\ "proxy" \notin Workers
      /\ monitor.due \subseteq Workers
  BY DEF PowerTypeOK, Machines, Workers
<1>1. ASSUME NEW w \in Workers, StartPage(w) PROVE ProxyIsThere'
  <2>1. {"proxy", w} \in SUBSET Machines
    BY <1>0
  <2> QED
    BY <1>0, <1>1, <2>1, MoveFacts DEF StartPage, Start, ProxyIsThere
<1>2. ASSUME NEW S \in SUBSET Workers, Stop(S) PROVE ProxyIsThere'
  <2>1. S \in SUBSET Machines
    BY <1>0
  <2> QED
    BY <1>0, <1>2, <2>1, MoveFacts DEF Stop, ProxyIsThere
<1>3. ASSUME Stop(Machines) PROVE ProxyIsThere'
  BY <1>0, <1>3, MoveFacts DEF Stop, ProxyIsThere
<1>4. CASE UserStopsAi \/ UserStopsDeploy \/ StopIdle
  BY <1>0, <1>2, <1>3, <1>4 DEF UserStopsAi, UserStopsDeploy, StopIdle, ToStop, Workers
<1>5. CASE Ec2Step
  BY <1>0, <1>5 DEF Ec2Step, Boot, Serve, Halt, ProxyIsThere
<1>6. CASE UNCHANGED ec2
  BY <1>6 DEF ProxyIsThere
<1> QED
  BY <1>1, <1>4, <1>5, <1>6
  DEF PowerNext, powerVars, UserStep, OtherStep, MonitorStep, Message, Visit, UserGate, TurnEnds, Tick,
      LinkOpens, Opened, ThenClose, DaemonDies, ReadBridge, ReadController, ControllerFails, Decide, CloseFirst, Unchanged

-----------------------------------------------------------------------------
(* What the monitor knows.                                                  *)

(* A turn began with a message, and time does not pass it by.               *)
LEMMA BusyStaysRecent ==
    PowerTypeOK /\ BusyIsRecent /\ [PowerNext]_powerVars => BusyIsRecent'
<1> SUFFICES ASSUME PowerTypeOK, BusyIsRecent, [PowerNext]_powerVars PROVE BusyIsRecent'
  OBVIOUS
<1>0. /\ age \in [{"bridge", "wrapper", "log"} -> Ages] /\ age["bridge"] \in 0..Cap
      /\ 0 <= TurnTime
  BY CapIsEnough DEF PowerTypeOK, Ages
<1>1. CASE busy' /\ age'["bridge"] = 0
  BY <1>0, <1>1 DEF BusyIsRecent
<1>2. CASE (busy' => busy) /\ age'["bridge"] = age["bridge"]
  BY <1>2 DEF BusyIsRecent
<1>3. CASE Tick
  <2>1. busy => Older(age["bridge"]) <= TurnTime
    BY <1>0, <1>3, OlderFacts DEF Tick
  <2> QED
    BY <1>0, <1>3, <2>1 DEF Tick, BusyIsRecent
<1>4. CASE ~busy'
  BY <1>4 DEF BusyIsRecent
<1>5. CASE Message
  BY <1>0, <1>1, <1>4, <1>5 DEF Message, Touch
<1>6. ASSUME NEW m \in Machines, Serve(m) PROVE BusyIsRecent'
  BY <1>0, <1>1, <1>2, <1>6 DEF Serve, BusyIsRecent, Machines, Workers
<1>7. ASSUME NEW m \in Machines, Boot(m) \/ Halt(m) PROVE BusyIsRecent'
  BY <1>2, <1>7 DEF Boot, Halt
<1>8. CASE Visit \/ TurnEnds
  BY <1>0, <1>2, <1>4, <1>8 DEF Visit, TurnEnds, Touch
<1>9. CASE busy' = busy /\ age' = age
  BY <1>2, <1>9
<1> QED
  BY <1>3, <1>5, <1>6, <1>7, <1>8, <1>9
  DEF PowerNext, powerVars, Ec2Step, UserStep, OtherStep, MonitorStep, StartPage, UserGate, LinkOpens,
      Opened, UserStopsAi, UserStopsDeploy, ThenClose, DaemonDies, ReadBridge, ReadController, ControllerFails,
      Decide, CloseFirst, StopIdle, Unchanged

(* What it read of the bridge was true, and only a use makes it untrue.     *)
LEMMA ReadingStaysTrue ==
    PowerTypeOK /\ ReadsTruly /\ [PowerNext]_powerVars => ReadsTruly'
<1> SUFFICES ASSUME PowerTypeOK, ReadsTruly, [PowerNext]_powerVars PROVE ReadsTruly'
  OBVIOUS
<1>0. /\ age \in [{"bridge", "wrapper", "log"} -> Ages] /\ age["bridge"] \in 0..Cap
      /\ monitor \in [at : {"off", "sleep", "controller", "ai", "close", "call"},
                       bridge : 0..Cap, up : SUBSET Workers, due : SUBSET Workers,
                       used : SUBSET Workers]
  BY DEF PowerTypeOK, Ages
<1> USE DEF ReadsTruly, Looking
<1>1. CASE monitor' = monitor /\ age'["bridge"] = age["bridge"]
  BY <1>1
<1>2. CASE monitor'.at \notin {"controller", "ai"}
  BY <1>2
<1>3. CASE Message \/ TurnEnds
  BY <1>0, <1>3 DEF Message, TurnEnds, Use, At
<1>4. CASE Visit
  BY <1>0, <1>4 DEF Visit, Use, At, Touch
<1>5. CASE Tick
  <2>1. age["bridge"] >= monitor.bridge => Older(age["bridge"]) >= Older(monitor.bridge)
    BY <1>0, OlderFacts
  <2>2. Looking => /\ monitor'.used = monitor.used /\ age'["bridge"] = Older(age["bridge"])
                   /\ monitor'.bridge = Older(monitor.bridge)
    BY <1>0, <1>5 DEF Tick, At
  <2> QED
    BY <1>0, <1>5, <2>1, <2>2 DEF Tick
<1>6. ASSUME NEW m \in Machines, Serve(m) PROVE ReadsTruly'
  BY <1>0, <1>6 DEF Serve, Asleep, Machines, Workers
<1>7. ASSUME NEW m \in Machines, Boot(m) \/ Halt(m) PROVE ReadsTruly'
  BY <1>0, <1>7 DEF Boot, Halt, Asleep
<1>8. CASE ReadBridge
  BY <1>0, <1>8 DEF ReadBridge, Asleep, Unchanged
<1>9. CASE ReadController
  BY <1>0, <1>9 DEF ReadController, Unchanged, At
<1>10. ASSUME NEW answers \in BOOLEAN, Decide(answers) PROVE ReadsTruly'
  BY <1>0, <1>2, <1>10 DEF Decide, Asleep
<1>11. CASE ControllerFails \/ CloseFirst \/ StopIdle
  BY <1>0, <1>2, <1>11 DEF ControllerFails, CloseFirst, StopIdle, Asleep
<1> QED
  BY <1>1, <1>3, <1>4, <1>5, <1>6, <1>7, <1>8, <1>9, <1>10, <1>11
  DEF PowerNext, powerVars, Ec2Step, UserStep, OtherStep, MonitorStep, StartPage, UserGate, LinkOpens,
      Opened, UserStopsAi, UserStopsDeploy, ThenClose, DaemonDies

(* Whom it is about to stop is unused, or was used behind its back.         *)
LEMMA DueStaysUnused ==
    PowerTypeOK /\ BusyIsRecent /\ ReadsTruly /\ DueIsUnused /\ [PowerNext]_powerVars => DueIsUnused'
<1> SUFFICES ASSUME PowerTypeOK, BusyIsRecent, ReadsTruly, DueIsUnused, [PowerNext]_powerVars
             PROVE  DueIsUnused'
  OBVIOUS
<1>0. /\ age \in [{"bridge", "wrapper", "log"} -> Ages] /\ age["bridge"] \in 0..Cap
      /\ monitor \in [at : {"off", "sleep", "controller", "ai", "close", "call"},
                       bridge : 0..Cap, up : SUBSET Workers, due : SUBSET Workers,
                       used : SUBSET Workers]
  BY DEF PowerTypeOK, Ages
<1> USE DEF Acting
<1>1. CASE monitor'.at \notin {"close", "call"}
  BY <1>1 DEF DueIsUnused
<1>2. CASE monitor' = monitor /\ \A w \in Workers : Unused(w) => Unused(w)'
  BY <1>0, <1>2 DEF DueIsUnused
<1>3. CASE Message \/ TurnEnds
  BY <1>0, <1>3 DEF Message, TurnEnds, Use, At, Touch, Unused, DueIsUnused, Workers
<1>4. CASE Visit
  BY <1>0, <1>4 DEF Visit, Use, At, Touch, Unused, DueIsUnused, Workers
<1>5. CASE Tick
  <2>1. \A w \in Workers : Unused(w) => Unused(w)'
    <3>1. age["log"] # NoLine => Older(age["log"]) # NoLine /\ Older(age["log"]) >= age["log"]
      BY <1>0, OlderFacts DEF Ages
    <3>2. age["bridge"] >= Idle => Older(age["bridge"]) >= Idle
      BY <1>0, OlderFacts, CapIsEnough
    <3>3. age["log"] # NoLine /\ age["log"] >= WebIdle => Older(age["log"]) >= WebIdle
      BY <1>0, OlderFacts, CapIsEnough DEF Ages
    <3> QED
      BY <1>0, <1>5, <3>1, <3>2, <3>3 DEF Tick, Unused
  <2>2. monitor'.at = monitor.at /\ monitor'.due = monitor.due
        /\ monitor'.up = monitor.up /\ monitor'.used = monitor.used
    BY <1>0, <1>5 DEF Tick
  <2> QED
    BY <1>0, <2>1, <2>2 DEF DueIsUnused
<1>6. ASSUME NEW m \in Machines, Serve(m) PROVE DueIsUnused'
  BY <1>0, <1>1, <1>2, <1>6 DEF Serve, Asleep, Machines, Workers, Unused
<1>7. ASSUME NEW m \in Machines, Boot(m) \/ Halt(m) PROVE DueIsUnused'
  <2>1. \A w \in Workers : Unused(w) => Unused(w)'
    <3>1. UNCHANGED age
      BY <1>7 DEF Boot, Halt
    <3>2. ~busy => ~busy'
      BY <1>7 DEF Boot, Halt
    <3> QED
      BY <3>1, <3>2 DEF Unused
  <2>2. monitor' = monitor \/ monitor' = Asleep("off")
    BY <1>7 DEF Boot, Halt
  <2> QED
    BY <1>1, <1>2, <2>1, <2>2 DEF Asleep
<1>8. ASSUME NEW answers \in BOOLEAN, Decide(answers) PROVE DueIsUnused'
  <2>1. \A w \in Due(answers) : w \in monitor.up /\ (w \in monitor.used \/ Unused(w))
    <3>1. "ai" \in Due(answers) => "ai" \in monitor.used \/ age["bridge"] >= Idle
      BY <1>0, <1>8, CapIsEnough DEF Decide, Due, AiIsDue, ReadsTruly, Looking, At, Workers
    <3>2. age["bridge"] >= Idle => ~busy
      BY <1>0, CapIsEnough, PowerAssumption DEF BusyIsRecent
    <3> QED
      BY <3>1, <3>2 DEF Due, DeployIsDue, Unused, Workers
  <2>2. Unused("ai")' = Unused("ai") /\ Unused("deploy")' = Unused("deploy")
    BY <1>8 DEF Decide, Unchanged, Unused
  <2>3. CASE Due(answers) = {}
    BY <1>1, <1>8, <2>3 DEF Decide, Asleep
  <2>4. CASE Due(answers) # {}
    <3>1. monitor'.up = monitor.up /\ monitor'.used = monitor.used /\ monitor'.due = Due(answers)
      BY <1>0, <1>8, <2>4 DEF Decide
    <3> QED
      BY <1>0, <2>1, <2>2, <3>1 DEF DueIsUnused, Workers
  <2> QED
    BY <2>3, <2>4
<1>9. CASE CloseFirst
  BY <1>0, <1>9 DEF CloseFirst, Unchanged, Unused, DueIsUnused, At
<1>10. CASE ReadBridge \/ ReadController \/ ControllerFails \/ StopIdle
  <2>1. CASE ReadBridge
    BY <1>1, <2>1 DEF ReadBridge, Asleep
  <2>2. CASE ReadController
    BY <1>0, <1>1, <2>2 DEF ReadController
  <2>3. CASE ControllerFails \/ StopIdle
    BY <1>1, <2>3 DEF ControllerFails, StopIdle, Asleep
  <2> QED
    BY <1>10, <2>1, <2>2, <2>3
<1>11. CASE monitor' = monitor /\ UNCHANGED <<busy, age>>
  BY <1>2, <1>11 DEF Unused
<1> QED
  BY <1>3, <1>4, <1>5, <1>6, <1>7, <1>8, <1>9, <1>10, <1>11
  DEF PowerNext, powerVars, Ec2Step, UserStep, OtherStep, MonitorStep, StartPage, UserGate, LinkOpens,
      Opened, UserStopsAi, UserStopsDeploy, ThenClose, DaemonDies

-----------------------------------------------------------------------------
(* The gate.                                                                *)

(* Either the gate is closed with deploy, or it was opened too late.        *)
LEMMA GateStaysWatched ==
    PowerTypeOK /\ DueIsUnused /\ GateIsWatched /\ GateGoesWithDeploy /\ [PowerNext]_powerVars
        => GateIsWatched' /\ GateGoesWithDeploy'
<1> SUFFICES ASSUME PowerTypeOK, DueIsUnused, GateIsWatched, GateGoesWithDeploy, [PowerNext]_powerVars
             PROVE  GateIsWatched' /\ GateGoesWithDeploy'
  OBVIOUS
<1>0. /\ ec2 \in [Machines -> {"stopped", "pending", "running", "stopping"}]
      /\ "deploy" \in Machines /\ Workers \subseteq Machines
      /\ monitor \in [at : {"off", "sleep", "controller", "ai", "close", "call"},
                       bridge : 0..Cap, up : SUBSET Workers, due : SUBSET Workers,
                       used : SUBSET Workers]
  BY DEF PowerTypeOK, Machines, Workers
<1> USE DEF GateIsWatched, GateGoesWithDeploy, Deciding, At
<1>1. CASE gate' = "closed"
  BY <1>1
<1>2. CASE gate' = "open" /\ late'
  BY <1>2
\* What leaves the gate, deploy and the monitor's mind alone.
<1>3. CASE /\ UNCHANGED gate /\ (late => late') /\ (closing => closing' \/ late')
           /\ ec2["deploy"] = "running" => ec2'["deploy"] = "running"
           /\ monitor'.at = monitor.at /\ monitor'.due = monitor.due /\ monitor'.up = monitor.up
  BY <1>3
<1>4. CASE /\ UNCHANGED <<gate, late, closing>>
           /\ ec2["deploy"] = "running" => ec2'["deploy"] = "running"
           /\ monitor'.at \in {"off", "sleep", "controller"}
  BY <1>4
<1>5. ASSUME NEW w \in Workers, StartPage(w) PROVE GateIsWatched' /\ GateGoesWithDeploy'
  <2>1. {"proxy", w} \in SUBSET Machines
    BY <1>0 DEF Machines
  <2>2. ec2["deploy"] = "running" => ec2'["deploy"] = "running"
    BY <1>0, <1>5, <2>1, MoveFacts DEF StartPage, Start
  <2> QED
    BY <1>3, <1>5, <2>2 DEF StartPage
<1>6. ASSUME NEW m \in Machines, Boot(m) \/ Serve(m) PROVE GateIsWatched' /\ GateGoesWithDeploy'
  BY <1>0, <1>3, <1>4, <1>6 DEF Boot, Serve, Asleep
<1>7. ASSUME NEW m \in Machines, Halt(m) PROVE GateIsWatched' /\ GateGoesWithDeploy'
  <2>1. UNCHANGED gate /\ (ec2["deploy"] = "running" => ec2'["deploy"] = "running")
    BY <1>0, <1>7 DEF Halt
  <2>2. CASE m = "proxy"
    <3>1. closing \/ late => late'
      BY <1>7, <2>2 DEF Halt
    <3>2. monitor'.at = "off"
      BY <1>7, <2>2 DEF Halt, Asleep
    <3> QED
      BY <2>1, <3>1, <3>2
  <2>3. CASE m # "proxy"
    BY <1>3, <1>7, <2>1, <2>3 DEF Halt
  <2> QED
    BY <2>2, <2>3
<1>8. CASE Message \/ Visit \/ TurnEnds \/ Tick
  BY <1>0, <1>3, <1>8 DEF Message, Visit, TurnEnds, Tick, Use
<1>9. CASE UserGate \/ Opened
  <2>1. CASE CloseGate
    BY <1>1, <2>1 DEF CloseGate
  <2>2. CASE OpenGate /\ UNCHANGED <<ec2, monitor, closing>>
    BY <2>2 DEF OpenGate, BeingStopped
  <2> QED
    BY <1>9, <2>1, <2>2 DEF UserGate, Opened
<1>10. CASE LinkOpens
  BY <1>3, <1>10 DEF LinkOpens
<1>11. CASE UserStopsAi
  <2>1. ec2'["deploy"] = ec2["deploy"]
    BY <1>0, <1>11, MoveFacts DEF UserStopsAi, Stop, Workers
  <2> QED
    BY <1>3, <1>11, <2>1 DEF UserStopsAi
<1>12. CASE UserStopsDeploy
  BY <1>0, <1>12 DEF UserStopsDeploy
<1>13. CASE ThenClose \/ CloseFirst
  BY <1>1, <1>13 DEF ThenClose, CloseFirst, CloseGate
<1>14. CASE ReadBridge \/ ControllerFails
  BY <1>4, <1>14 DEF ReadBridge, ControllerFails, Asleep, Unchanged
<1>15. CASE ReadController
  <2>1. monitor'.up = {w \in Workers : ec2[w] = "running"} /\ monitor'.at = "ai"
    BY <1>0, <1>15 DEF ReadController
  <2> QED
    BY <1>15, <2>1 DEF ReadController, Unchanged, Workers
<1>16. ASSUME NEW answers \in BOOLEAN, Decide(answers) PROVE GateIsWatched' /\ GateGoesWithDeploy'
  <2>1. CASE Due(answers) = {}
    BY <1>4, <1>16, <2>1 DEF Decide, Asleep, Unchanged
  <2>2. CASE Due(answers) # {}
    <3>1. /\ monitor'.up = monitor.up /\ monitor'.due = Due(answers)
          /\ monitor'.at = IF "deploy" \in Due(answers) THEN "close" ELSE "call"
      BY <1>0, <1>16, <2>2 DEF Decide
    <3> QED
      BY <1>16, <3>1 DEF Decide, Unchanged
  <2> QED
    BY <2>1, <2>2
<1>17. CASE StopIdle
  <2>1. monitor'.at = "sleep" /\ UNCHANGED <<gate, late, closing>>
    BY <1>17 DEF StopIdle, Asleep
  <2>2. CASE "deploy" \in ToStop
    <3>1. "deploy" \in monitor.due \/ "deploy" \notin monitor.up
      BY <2>2 DEF ToStop, Machines, Workers
    <3>2. gate = "open" => late \/ closing
      BY <1>17, <3>1 DEF StopIdle
    <3> QED
      BY <2>1, <3>2
  <2>3. CASE "deploy" \notin ToStop
    <3>1. ToStop \in SUBSET Machines
      BY <1>0 DEF ToStop
    <3>2. ec2'["deploy"] = ec2["deploy"]
      BY <1>0, <1>17, <2>3, <3>1, MoveFacts DEF StopIdle, Stop
    <3> QED
      BY <1>4, <2>1, <3>2
  <2> QED
    BY <2>2, <2>3
<1>18. CASE UNCHANGED powerVars
  BY <1>3, <1>18 DEF powerVars
<1>19. CASE DaemonDies
  BY <1>3, <1>19 DEF DaemonDies
<1> QED
  BY <1>5, <1>6, <1>7, <1>8, <1>9, <1>10, <1>11, <1>12, <1>13, <1>14, <1>15, <1>16, <1>17, <1>18, <1>19
  DEF PowerNext, Ec2Step, UserStep, OtherStep, MonitorStep

-----------------------------------------------------------------------------

LEMMA PowerInvariantKept ==
    PowerInvariant /\ ProxyIsThere /\ GateGoesWithDeploy /\ [PowerNext]_powerVars
        => PowerInvariant' /\ ProxyIsThere' /\ GateGoesWithDeploy'
BY PowerTypesKept, BusyStaysRecent, ReadingStaysTrue, DueStaysUnused, GateStaysWatched, ProxyStays
DEF PowerInvariant

LEMMA PowerIsSafe == PowerSpec => [](PowerInvariant /\ ProxyIsThere /\ GateGoesWithDeploy)
BY PowerInitTypes, PowerInvariantKept, PTL DEF PowerSpec

(* What the monitor holds against a machine is true or was overtaken, and   *)
(* the gate is watched (idle_monitor.py:127-198), in every behaviour.       *)
THEOREM PowerInvariantHolds == PowerSpec => []PowerInvariant
BY PowerIsSafe, PTL

(* ai and deploy are never up without proxy (lambda/app.py:233-289).        *)
THEOREM ProxyIsThereHolds == PowerSpec => []ProxyIsThere
BY PowerIsSafe, PTL

(* A gate that is open while deploy is down was opened too late, or who was *)
(* to close it was cut off or never heard of the stop (idle_monitor.py:106, *)
(* approval_daemon.py:619).                                                 *)
THEOREM GateGoesWithDeployHolds == PowerSpec => []GateGoesWithDeploy
BY PowerIsSafe, PTL

(* What the monitor saw running and stops has been idle for its idle time,  *)
(* or was used only behind the monitor's back (idle_monitor.py:148-174).    *)
THEOREM InUseStaysUpHolds == PowerSpec => InUseStaysUp
<1>1. ASSUME PowerInvariant, [PowerNext]_powerVars
      PROVE  [\A w \in Workers : MonitorStops(w) /\ w \in monitor.up =>
                  w \in monitor.used \/ Unused(w)]_powerVars
  <2> SUFFICES ASSUME NEW w \in Workers, MonitorStops(w), w \in monitor.up, PowerNext
               PROVE  w \in monitor.used \/ Unused(w)
    BY <1>1 DEF powerVars, MonitorStops
  <2>1. ec2' # ec2 /\ monitor' # monitor /\ monitor'.at = "sleep"
    BY DEF MonitorStops
  <2>2. StopIdle
    <3>1. ~Ec2Step
      BY <2>1 DEF Ec2Step, Boot, Serve, Halt, Asleep
    <3>2. ~UserStep
      BY <2>1 DEF UserStep, StartPage, Message, Visit, UserGate, UserStopsAi, UserStopsDeploy
    <3>3. ~OtherStep
      BY <2>1 DEF OtherStep, TurnEnds, Tick, LinkOpens, Opened, ThenClose, DaemonDies
    <3> QED
      BY <2>1, <3>1, <3>2, <3>3
      DEF PowerNext, MonitorStep, ReadBridge, ReadController, ControllerFails, Decide, CloseFirst, Unchanged
  <2>3. /\ ec2 \in [Machines -> {"stopped", "pending", "running", "stopping"}]
        /\ ToStop \in SUBSET Machines /\ w \in Machines
    BY <1>1 DEF PowerInvariant, PowerTypeOK, ToStop, Machines
  <2>4. w \in ToStop
    BY <2>2, <2>3, MoveFacts DEF MonitorStops, StopIdle, Stop
  <2>5. w \in monitor.due
    BY <2>4 DEF ToStop
  <2> QED
    BY <1>1, <2>5 DEF PowerInvariant, DueIsUnused, Acting, MonitorStops
<1> QED
  BY <1>1, PowerInvariantHolds, PTL DEF PowerSpec, InUseStaysUp

=============================================================================
