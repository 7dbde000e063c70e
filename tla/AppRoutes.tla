------------------------------ MODULE AppRoutes ------------------------------
(***************************************************************************)
(* server/proxy/approval_daemon.py as the front of deploy_wrapper.py: the  *)
(* relay threads that pass a deploy, a stop or a remove on, and _sync_apps, *)
(* which after each success rewrites nginx's app routes and the landing    *)
(* page from what the deploy instance says it has.                         *)
(*                                                                         *)
(* Nothing keeps two relay threads from running _sync_apps at the same     *)
(* time, so a sync is cut at its reading of /status, its two files and its *)
(* reload.  Thread t is a relay thread of the daemon together with the     *)
(* handler thread of the wrapper that serves it.  What a route proxies to  *)
(* is its port, 0 when there is no route.                                  *)
(***************************************************************************)
EXTENDS Deploy

CONSTANTS Primary,          \* PRIMARY_REPO
          RootPort,         \* DEPLOY_HTTP_PORT, what nginx proxies the primary app to
          Main,             \* the main thread of the daemon
          MaxDaemonRestarts \* bound: how often the daemon restarts

ASSUME RoutesAssumption == /\ Primary \in Repos
                           /\ RootPort \in Ports
                           /\ Main \notin Threads
                           /\ MaxDaemonRestarts \in Nat

VARIABLES relay,      \* where each thread of the daemon is, and what /status told it
          appsConf,   \* APPS_CONF_PATH
          page,       \* LANDING_PAGE_PATH
          routes,     \* the routes nginx has loaded
          missed,     \* history: a change that no later /status has shown, or a sync that failed
          overlapped, \* history: the last /status was read while another sync was at work
          daemonRestarts

routeVars == <<relay, appsConf, page, routes, missed, overlapped, daemonRestarts>>
appVars   == <<deployVars, routeVars>>

Relays  == Threads \cup {Main}
Routes  == [Repos -> Ports \cup {0}]
NoRoutes == [r \in Repos |-> 0]
Resting == [at |-> "idle", seen |-> NoRoutes]

AppsTypeOK ==
    /\ DeployTypeOK
    /\ relay \in [Relays -> [at : {"idle", "wait", "status", "apps", "page", "reload"},
                             seen : Routes]]
    /\ relay[Main].at # "wait"
    /\ appsConf \in Routes /\ page \in SUBSET (Repos \ {Primary}) /\ routes \in Routes
    /\ missed \in BOOLEAN /\ overlapped \in BOOLEAN
    /\ daemonRestarts \in 0..MaxDaemonRestarts

AppsInit ==
    /\ DeployInit
    /\ relay = [s \in Relays |-> Resting]
    /\ appsConf = NoRoutes /\ page = {} /\ routes = NoRoutes
    /\ missed = FALSE /\ overlapped = FALSE
    /\ daemonRestarts = 0

-----------------------------------------------------------------------------

\* _get_deployments, as far as the routes use it; and the two renderings of it.
Deployments == [r \in Repos |-> state[r].port]

\* Faulty: the apps that are gone keep their old routes.
AddApps(list) == [r \in Repos |-> IF r = Primary THEN 0
                                  ELSE IF list[r] = 0 THEN appsConf[r] ELSE list[r]]

RenderApps(list) == [r \in Repos |-> IF r = Primary THEN 0 ELSE list[r]]
RenderPage(list) == {r \in Repos \ {Primary} : list[r] # 0}

Step(s, where)  == relay' = [relay EXCEPT ![s].at = where]
Rest(s)         == relay' = [relay EXCEPT ![s] = Resting]
Working(s)      == relay[s].at \in {"status", "apps", "page", "reload"}

\* The relay's request reaches the wrapper; the daemon listens.
Relay(t, op, r) ==
    /\ ~Working(Main)
    /\ relay[t].at = "idle"
    /\ Request(t, op, r)
    /\ Step(t, "wait")
    /\ UNCHANGED <<appsConf, page, routes, missed, overlapped, daemonRestarts>>

\* A step of the deploy instance that no relay takes part in.
Elsewhere ==
    /\ \/ \E t \in Threads : Work(t) \/ (relay[t].at # "wait" /\ Answered(t))
       \/ \E r \in Repos : Exits(r)
       \/ Halt
       \/ Resume
    /\ missed' = (missed \/ Deployments' # Deployments)
    /\ UNCHANGED <<relay, appsConf, page, routes, overlapped, daemonRestarts>>

\* {"ok": True}: the relay goes on to _sync_apps before it answers its client.
Succeeded(t) ==
    /\ relay[t].at = "wait"
    /\ Answered(t)
    /\ Step(t, "status")
    /\ UNCHANGED <<appsConf, page, routes, missed, overlapped, daemonRestarts>>

\* A refusal, a failure, or no answer within the relay's time.
GaveUp(t) ==
    /\ relay[t].at = "wait"
    /\ Rest(t)
    /\ UNCHANGED <<deployVars, appsConf, page, routes, missed, overlapped, daemonRestarts>>

\* What any step of _sync_apps may come to: it is logged and left at that.
SyncFails(s) ==
    /\ Working(s)
    /\ Rest(s)
    /\ missed' = TRUE
    /\ UNCHANGED <<deployVars, appsConf, page, routes, overlapped, daemonRestarts>>

Status(s) ==
    /\ relay[s].at = "status"
    /\ up
    /\ relay' = [relay EXCEPT ![s] = [at |-> "apps", seen |-> Deployments]]
    /\ missed' = FALSE
    /\ overlapped' = (\E other \in Relays \ {s} : Working(other))
    /\ UNCHANGED <<deployVars, appsConf, page, routes, daemonRestarts>>

WriteApps(s) ==
    /\ relay[s].at = "apps"
    /\ appsConf' = RenderApps(relay[s].seen)
    /\ Step(s, "page")
    /\ UNCHANGED <<deployVars, page, routes, missed, overlapped, daemonRestarts>>

WritePage(s) ==
    /\ relay[s].at = "page"
    /\ page' = RenderPage(relay[s].seen)
    /\ Step(s, "reload")
    /\ UNCHANGED <<deployVars, appsConf, routes, missed, overlapped, daemonRestarts>>

\* The gate script's reload; nginx takes the file as it is by then.
Reload(s) ==
    /\ relay[s].at = "reload"
    /\ routes' = appsConf
    /\ Rest(s)
    /\ UNCHANGED <<deployVars, appsConf, page, missed, overlapped, daemonRestarts>>

\* The gate is opened or closed, which reloads nginx as well.
GateMoves ==
    /\ routes # appsConf
    /\ ~Working(Main)
    /\ routes' = appsConf
    /\ UNCHANGED <<deployVars, relay, appsConf, page, missed, overlapped, daemonRestarts>>

\* The daemon dies with all its threads; the next one starts with a sync.
DaemonRestart ==
    /\ daemonRestarts < MaxDaemonRestarts
    /\ daemonRestarts' = daemonRestarts + 1
    /\ relay' = [s \in Relays |-> IF s = Main THEN [Resting EXCEPT !.at = "status"]
                                              ELSE Resting]
    /\ missed' = TRUE
    /\ UNCHANGED <<deployVars, appsConf, page, routes, overlapped>>

Sync(s) == Status(s) \/ WriteApps(s) \/ WritePage(s) \/ Reload(s) \/ SyncFails(s)

AppsNext ==
    \/ \E t \in Threads : \/ \E op \in Ops, r \in Repos : Relay(t, op, r)
                          \/ Succeeded(t)
                          \/ GaveUp(t)
    \/ \E s \in Relays : Sync(s)
    \/ Elsewhere
    \/ GateMoves
    \/ DaemonRestart

AppsSpec == AppsInit /\ [][AppsNext]_appVars

-----------------------------------------------------------------------------

(* Once no sync is at work, nginx's routes and the landing page show what   *)
(* is deployed, each app on its port and nothing that was removed, unless   *)
(* the last change has not been read by any sync since, or a sync failed or *)
(* was overtaken by another.                                                *)
RoutesFollow ==
    (~missed /\ ~overlapped /\ \A s \in Relays : ~Working(s)) =>
        \A r \in Repos \ {Primary} : /\ routes[r] = state[r].port
                                     /\ r \in page <=> state[r] # Undeployed

(* variables.tf says of deploy_http_port: "Port the deploy instance's       *)
(* primary deployed container (chess-coach) listens on".  Refuted with the  *)
(* instance of Apps.                                                        *)
RootServesPrimary == state[Primary] # Undeployed => state[Primary].port = RootPort

\* What makes RoutesFollow inductive: as long as nothing was missed and no sync
\* overtook another, one thread at most is writing, from what is deployed now, and
\* when there is none everything is written.
Writing(s) == relay[s].at \in {"apps", "page", "reload"}

WritesWhatIsThere(s) ==
    /\ Writing(s) /\ \A other \in Relays \ {s} : ~Writing(other)
    /\ relay[s].seen = Deployments
    /\ relay[s].at \in {"page", "reload"} => appsConf = RenderApps(Deployments)
    /\ relay[s].at = "reload" => page = RenderPage(Deployments)

AllIsWritten ==
    /\ \A s \in Relays : ~Writing(s)
    /\ appsConf = RenderApps(Deployments) /\ routes = appsConf
    /\ page = RenderPage(Deployments)

RoutesInvariant ==
    ~missed /\ ~overlapped => AllIsWritten \/ \E s \in Relays : WritesWhatIsThere(s)
=============================================================================
