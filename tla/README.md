# A TLA+ model of claude-signal

claude-signal lets one person talk to Claude Code over Signal. Three machines take
part: *proxy* (Signal bridge, Squid, nginx, the approval daemon, the idle monitor),
*ai* (Claude Code in a container, behind `claude_wrapper.py`) and *deploy* (the
deployed apps, behind `deploy_wrapper.py`); a Lambda function starts and stops them.
This directory holds TLA+ modules that model the parts with state and concurrency,
TLC configurations that check them on small instances, and TLAPS proofs of their
main properties for every value of the constants.

Paths below are relative to the repository; `PROJECT.json` maps every definition to
the lines it models.

## The system

| Component | State | Operations | Talks to |
|---|---|---|---|
| `server/ai/claude_wrapper.py` | `state` (busy, pending slot), session file per project, current/previous project files, registry | `/prompt`, `/btw`, `/project`, `/reset`, `/status`, `/activity`; the timeout of a run | claude processes in the sandbox (`podman exec`) |
| `server/ai/mcp_git_gate.py`, `mcp_url_gate.py` | none beyond the call in progress | `request_url_access`, `request_git_push` (optionally with a deployment), `request_deploy_stop/remove`, `request_repo_create` | the daemon's public listener; git |
| `server/proxy/approval_daemon.py` | `pending` (in memory), allowlist file, Squid's file, nginx routes, gate state | public: create, poll, triggers; admin: resolve, allow, block, gate, stop; `prune_loop`; `_sync_apps`; `WebOpenHandler` | bridge (`notify_signal`), Squid, deploy wrapper, GitHub, nginx, Lambda |
| `server/deploy/deploy_wrapper.py` | state file (repo, port, container), containers, images | `/deploy`, `/stop`, `/remove`, `/status`, resume at boot | podman, GitHub |
| `server/proxy/signal_bridge.py` | last activity, RPC slots | one thread per message; commands | signal-cli, the wrapper, the daemon |
| `server/proxy/idle_monitor.py` | none (a loop) | poll, stop ai / deploy / everything | Lambda, the wrapper, nginx's log |
| `lambda/app.py` | none (EC2's) | start, stop, status, open | EC2, `WebOpenHandler` |
| `server/proxy/voice_pipeline.py`, Terraform, Ansible, units, templates | none | – | – |

What makes each of them correct:

* **wrapper**: one turn at a time; a text that was accepted is answered or replaced by
  a newer one, never lost; a conversation stays with its project; `/reset` is final;
  the process of a turn that timed out is looked for and killed.
* **allowlist**: no change lost; what Squid enforces is what the state file says; a
  grant ends when it expires.
* **approval**: nothing leaves the sandbox without a yes; one yes, one deed; what a
  tool reports is true; every tool call ends.
* **deploy**: a port has one owner; the state file describes what runs; routes follow it.
* **power and gate**: what is in use is not stopped; what is idle is; nothing runs without
  the proxy; the gate is closed when deploy goes.
* **bridge**: every message gets its thread, once; "sent" is true; nobody waits for an
  answer that cannot come.

What makes them hard: every HTTP server is a `ThreadingHTTPServer`, so every handler
interleaves with every other; locks cover some steps of a handler and not others; files
are written in two steps; processes die and systemd restarts them with empty memory;
each relay on the way of a request has a timeout of its own. `PROJECT.json` lists these
hazards line by line with the property that would catch each.

## Modules

| Module | What it is |
|---|---|
| `LatestWins` | abstract: what `/prompt` promises - one text active, one waiting, the newest wins, one fate each |
| `PromptQueue` | the threads of `/prompt` with `state_lock`, `busy`, the slot and the events |
| `ClaudeWrapper` | the whole wrapper: extends `PromptQueue` with turns, sessions, projects, `/reset` |
| `Allowlist` | the allowlist file, Squid's file, the running Squid, the admin threads, `prune_loop`, the clock |
| `ApprovalGate` | the tools, the `pending` table, `/resolve`, the triggers and relays: extends `Allowlist`, whose threads approve URL requests |
| `Deploy` | `deploy_wrapper.py`: requests under `deploy_lock`, ports, containers, the state file, resume |
| `AppRoutes` | the daemon's deploy relays and `_sync_apps`: extends `Deploy` with nginx's routes and the landing page |
| `Messages` | a message from the phone to Claude and back: `PromptQueue` with the bridge's threads in front of it |
| `Power` | the three instances, the Lambda's routes, the idle monitor, the start link and the web gate |
| `Bridge` | `SignalRpcClient`, its reader thread and its callers, signal-cli at the other end |
| `*Proofs` | theorems and their proofs (those of `AppRoutes` are in `DeployProofs`) |
| `MC*` | values for TLC |

`PromptQueue` implements `LatestWins`, and `ClaudeWrapper` implements `PromptQueue`; `Messages` composes it with its callers;
`ApprovalGate` keeps to `Allowlist`, `AppRoutes` to `Deploy`.

### How the models correspond to the code

**PromptQueue.** A request is its thread. `Claim` and `Enqueue` are the two branches of
the first `with state_lock` block of `/prompt`, `TakeNext` is the second block; `BeginRun`
and `EndRun` are the call of `run_claude`, `AnswerOwn`, `AnswerWaiter` and `Wake` the three
ways in which a reply goes out, `AnswerRaises` a write to a client that is gone. `slot[p]`
is the `result` field of `p`'s slot; its event is set when it is not `Empty`. Counters
and answers are history variables: no action's guard reads them, but for the crash
bound. `state["recent"]` and `last_activity` are left out: only the status routes read
them.

**ClaudeWrapper.** A conversation (a session id) is the set of texts it contains, so
"resumed the wrong conversation" and "lost a turn" are visible. `StartTurn` is
`run_claude` up to the `Popen`: it reads the current project once. `TurnEnds` and
`TurnIsSaved` are the two halves of `save_session_id` (the file is truncated, then
written); `TurnFails` is a stream that ended without a result,
`TurnRaises` an exception out of the stream loop. The timeout is a thread of its own: `TimerFires` kills the
podman client, which ends the stream (`ProcessEnds`), and from then on the driver goes on, answers and may
start the next turn, while `Scan` has still to find the process in the container and kill it, or gives
up without a word. `killing` is the runs whose scan is under way. `/project` is cut at every file
operation, since it runs outside the lock, `/reset` is one step, since it does not.
`CrashWrapper` keeps every file as it is at that moment, and the claude processes,
which are not children of the wrapper. `/btw` and the status routes change nothing that
another operation reads.

**Messages.** A prompt is a message, numbered in the order of receipt, and both its threads. `Receive` is
`on_envelope`, `Hear` a voice note's transcription, `Post` and `Return` are `dispatch_prompt` and
`dispatch_voice_prompt` (which do the same up to the spoken summary), `Say` the last `signal_send` of each, which may
raise: a thread that could not say what it had to is "mute", and so is a voice note whose "Heard: ..." could not
be sent, which ends without posting (`signal_bridge.py:466`); the look at `/status` and the notice
between `Receive` and `Post` change nothing, and take time. `Run`, `Serve` and `WrapperDies` are
`PromptQueue`'s, except that a write raises only when the client has hung up. `TimeOut` stands for 1900
seconds: a run takes 900 at most, so it needs a third run, or a wrapper in which nobody runs anything.

**Allowlist.** A thread that has something to do goes through load, save, render and
reconfigure; these are the points at which a crash or the clock can come between. The
change is made to the thread's copy (`Load`), then saved, and Squid's file is rendered
from that copy with the time of that moment. The three callers (`add_domain`,
`remove_domain`, `prune_loop`) hold `allowlist_lock` throughout. A daemon that dies in
`Render` may leave Squid's file empty (it is opened with "w"); `Start` is the code at
module level, which seeds, saves and renders before any listener exists.

**ApprovalGate.** A request is one tool call. `tool[r]` is where the call is, and at
the end what it reported; `status` and `executed` are the fields of the daemon's entry;
`call[r][n]` is the n-th time its trigger was sent: admitted (`executed` was set),
worked (the far end did it, the answer is on its way), orphan (whoever relayed it is gone
and the far end may still do it). `Poll` has a third outcome because a poll that times
out raises `TimeoutError`, which `except URLError` does not catch. `Retry` is the
repeated trigger that the comment at `approval_daemon.py:387-389` prepares for.
`SayYesToUrl` hands the domain to an `Allowlist` thread, and `UrlIsAdded` sets the status
when that thread is through, as `/resolve` does. `GateDies` forgets the table; relays
under way become orphans.

**Deploy.** A request that finds `deploy_lock` taken is answered 409 and changes nothing, so
`Request` is one that gets it. `Prepare`, `Build`, `Clear`, `Run`, `Save` are `do_deploy`, cut at
each podman command and at the write of the state file; `Stop`, `Remove` and `Drop` are the
other two. A podman command that fails or times out may have had its effect: `Clear` goes on
whatever `rm -f` came to, `Run` may leave a container that was never started, or one that
runs although nobody was told. `End` is the handlers' `finally`. A version stands for the commit
a deployment cloned, so that "this container is of that deployment" can be said. `Halt` is the
death of the process, alone or with the instance (its containers then stop); `Resume` is
`resume_if_needed`, which ends before the listener exists.

**AppRoutes.** Thread `t` is a relay thread of the daemon together with the wrapper's handler
thread that serves it; the two can part when the relay times out (`GaveUp`) or the
daemon restarts. After a success the relay goes through `Status`, `WriteApps`, `WritePage` and
`Reload`, each of which may fail and is then only logged (`SyncFails`); nothing serialises
these threads. The two threads' shared `.tmp` file is part of the failure: a second rename fails.
`missed` and `overlapped` are history: they say when the code does not promise that
the routes are right.

**Power.** `Move` is `start_instances` and `stop_instances` with `_try_transition` around them: EC2
refuses a call for several instances as a whole when one of them cannot make the transition, and
the refusal is swallowed. Times are ages in ticks, which stop at the larger idle time. The
monitor's record holds where it is in its loop and what it has read so far (`ReadBridge`,
`ReadController`, `Decide`, `CloseFirst`, `StopIdle`), so that everything else can happen between two of
its reads. `closing` and `opening` are `/web/stop-instances` and `WebOpenHandler` between their two steps.
`Message` is a message of the user's, which touches the bridge and may make the wrapper busy; `Visit`
is a line in nginx's log. `used`, `fresh`, `late` and `starts` are history: what the monitor
could not see, that deploy has only just come up, that the gate was opened or left open when
it should not have been. The guard of `Tick` is the wrapper's timeout: a turn does not outlast it.

**Bridge.** A thread is a message's, a `/send` request's or the starting bridge's (`Main`), and makes
up to two calls. `Register`, `Write`, `Wake` and `TimeOut` are `rpc.call`, cut where the reader thread
can come between; `Connect` to `Sweep` are `_run`. `lines` is the socket, `ahead` what the text file of
`makefile("rw")` has read beyond the line it returned: Python's `TextIOWrapper` drops that in
`write`, and `Write` does too. The write raises without a connection and, as on any Unix socket, when
the other end has closed it. `AckIfBusy`, `Ask`, `Reply`, `Complain`, `Finish` are the handlers, by the
calls they make (a voice note whose first call fails goes straight to `Finish`): what they ask the wrapper and the daemon for are actions of the other modules.
`Restart` is a bridge that did not learn whom to listen to; `OnMessage` drops a message that comes
before it has, because `on_envelope` raises on a name that is not there yet.

## Runs

| Run | Instance | What it shows |
|---|---|---|
| `PromptQueue` | 4 prompts, all may hang up, 1 crash, fair | one driver, no forgotten waiter, true answers, order of runs; implements `LatestWins`, with its progress unless somebody hangs up on a driver |
| `HungUpDriver` | 3 prompts, one of which may hang up, no crash, fair | **violation**: after a hang-up on the driver the next prompt waits for ever |
| `Wrapper` | 2 prompts, 2 projects, 1 `/project` thread, 1 crash, timeouts and their scans, fair | conversations, projects, processes that are somebody's, looked for or given up; implements `PromptQueue` |
| `SentElsewhere` | 1 prompt, 2 projects, fair | **violation**: a prompt runs in a project it was not sent in |
| `Messages` | 3 messages, 1 death of the bridge, 1 of the wrapper, fair | two runs at most, silence means replaced, unsendable or a dead bridge, only a death strands a driver, every message ends |
| `Allowlist` | 2 domains (1 seeded), 2 admin threads and the pruner, 2 moments, 1 restart, fair | no lost change; files and Squid agree; expiry |
| `Gate` | 1 call of 4 kinds, 2 admin threads, 2 trigger attempts, 1 restart, fair | approval, at most once, true reports, every call ends |
| `Apps` | 3 repos, 2 ports, 2 relay threads, 3 requests, 1 crash or reboot, 1 restart of the daemon | ports, containers, other repos left alone, routes that follow |
| `Power` | 2 start pages, idle times of 2 and 1 ticks, a turn of 1, old log lines or none, fair | nothing runs without the proxy, the gate goes with deploy, what is in use stays up, what is idle is stopped |
| `NewSession` | the same | **violation**: deploy is stopped as soon as it is up |
| `Bridge` | 1 message, 1 `/send`, the start-up call, 2 losses of the connection, fair | one thread per message, true results, whoever waits can be answered, no vain wait, every message handled |
| `LostLine` | the same, 1 loss | **violation**: a line that was read ahead is dropped |

Bounds, and why they are enough:

* *Prompts.* Three are needed for a driver, a waiter and one that displaces it; the fourth
  lets the slot be filled again after it was taken. The proofs are for any number.
* *Crashes and restarts: 1.* After a crash memory is as at the start and files are in
  a state the run reaches; a second crash starts from a similar one.
* *One `/project` thread.* One suffices for every race with turns and `/reset`. A second makes 20
  million states without a crash (all invariants hold in them); the proofs of the invariants are for any
  number. `BackLeadsBack` is about requests one at a time: of two at once, the second may take the
  file the first has just truncated for the default project.
* *`Messages`: 3.* A driver's, a waiter's and one that displaces it, each typed or spoken. With four and
  no deaths `MessagesInvariant` holds too (687,960 states); `TwoRunsAtMost` reaches 2 with either.
* *`Allowlist`: time 0..1, durations 0 and 1.* Enough for a grant that is active, one that
  expires exactly now, and one that is dead at birth (`0m` is a duration the parser takes).
* *`Gate`: one tool call.* Calls share only the admin threads and the allowlist, and
  nothing a call does depends on another's entry; the second admin thread takes the
  part of everyone else: it decides again, allows and blocks. The proofs are for any number
  of calls. Durations are left to `Allowlist` (every grant is permanent here).
* *`Apps`: 3 repos for 2 ports, 3 requests.* A port must run out and be handed on: deploy,
  remove, deploy another. Two threads make two syncs overlap and a request meet a taken lock;
  a third request lets a sync come after both. Threads are interchangeable, and so are
  the repos other than the primary one (symmetry; the run has safety properties only).
* *Two trigger attempts.* One that is late and one that is repeated.

* *`Power`: 2 start pages, `Idle` 2, `WebIdle` 1.* The two idle times differ, so each side becomes idle
  while the other is not; a turn may last until just before `Idle`, as 15 minutes are less than
  30. Two starts are one for each side, or a second that comes while what the first
  started is being stopped. The proofs are for any values.
* *`Bridge`: 2 calls for each of three threads.* A caller in each of its states, another
  that writes meanwhile, and one whose answer is what the write forgets. A second loss of the
  connection meets what the first has left: slots of writes that raised, `Main` starting again.

`CHECK_DEADLOCK FALSE` stands where the modelled part may rest: when every tool call
has ended, when a driver is stuck, or when nobody sends a prompt, nothing has to happen.

### Fairness

Each thread that can take a step eventually does: the servers start a thread per
request and never suspend one. A turn ends because `_on_timeout` kills one that does
not end by itself; a tool call because each of its waits has a timeout. Nothing is
assumed of the user (no answer need come), of the far ends of relays (they may never
answer), of stray processes, or of the scan for the process of a turn that timed out. The allowlist's lock is assumed not to starve a
thread (strong fairness of `Load`): its holders are few and hold it for a moment, and
`prune_loop` waits for it once a minute. systemd restarts a daemon that died.

In `Power`, EC2 completes the transitions it accepts, time passes and the monitor goes round
its loop; that the controller answers in the end is strong fairness of the two steps that need
it. Nothing is assumed of the wrapper, which may never answer, nor of the user. In `Bridge`,
threads run, signal-cli answers what it was asked unless it goes away, and comes back; `TimeOut` has no
fairness, so that what is shown does not rest on it. In `Messages` it has, as every caller's timeout does
come: it is what ends the calls to a wrapper whose driver is stuck (finding 2).

## What the code does otherwise than it says

1. `SentElsewhere`: `/project` checks `busy` under the lock and acts after releasing it
   (`claude_wrapper.py:580`). A prompt accepted in between runs in the other project, which is
   what README.md:494 says the check is there to avoid.
2. `HungUpDriver`: the driver's own answer is written outside any `try`
   (`claude_wrapper.py:700`). If its client has gone, `busy` stays set and nobody drives. The bridge's
   own timeout cannot bring that about, only its death (`OnlyDeathStrands`).
3. `NewSession`: the web log's last line counts however old it is (`idle_monitor.py:172`). A deploy
   instance that comes up after a pause is stopped at the monitor's next look, unless somebody has
   used it already; the docstring of `_last_web_activity` says that cannot happen.
4. `LostLine`: the reader thread and the callers share one text file (`signal_bridge.py:113`), whose
   `write` drops what was read ahead. An answer that is lost this way costs its caller the whole
   timeout, and a message of the user's is never seen. `NobodyWaitsInVain` and `MessagesAreHandled`
   hold otherwise.

Not runs of their own, but found on the way. 5 to 8 and 12 can be seen again by naming
the property given in place of those in `Messages.cfg`, `Gate.cfg`, `Apps.cfg` and `Wrapper.cfg`; 9 in
`Wrapper.cfg` with a second `/project` thread and a third project:

5. `NewestMessageIsKept`: a thread per message (`signal_bridge.py:207`) means that the message that
   reaches the wrapper last need not be the one that was sent last. A voice note takes its
   transcription's time, and then replaces what was typed after it. The README says that the most
   recent message is the one that is sent to Claude.
6. `NothingAfterDenial`: `/resolve` decides again what was decided (`approval_daemon.py:564`)
   and confirms a "Denied" that comes too late to be true.
7. `DeploysWhatWasPushed`: a `git push` that fails is reported, and the deployment goes ahead
   (`mcp_git_gate.py:143`).
8. `RootServesPrimary`: ports are handed out in the order of first deployment
   (`deploy_wrapper.py:111`), while nginx proxies `/` to the first of the range: what is deployed
   before chess-coach is served in its place.
9. `ProjectsStayListed`: `project new` saves a list it loaded up to 15 seconds before
   (`claude_wrapper.py:610`), under no lock. Of two at once, the first one's project is dropped from the
   list; its directory stays, and nobody can switch to it.
10. With neither ai nor deploy running the monitor never stops proxy (`idle_monitor.py:185`), which its
   docstring promises. `IdleIsStopped` is about the other two.
11. `_gate_already_open` looks for a text the gate script never writes (`approval_daemon.py:802`), so every
   visit of the start link is announced.
12. `OneClaudeAtATime`: a turn that times out is answered, and the next one started, as soon as the podman client
   is dead (`claude_wrapper.py:486`), while the first one's process still works in the same directory; a scan that
   cannot read or kill leaves it there for good and says nothing (432-434, 441-442, 446-447).
   `TurnsAreTracked` says what does hold.
13. A voice note whose "Heard: ..." cannot be sent is never posted, and nobody is told (`signal_bridge.py:466`).
   `SilenceMeansReplaced` counts it among the silent endings (`mute`).

## Proofs

All are checked by TLAPS from the assumptions on the constants that the modules state,
for any number of prompts, threads, requests and domains.

**PromptQueueProofs.** `QueueInvariant` is inductive. `OneDriver` alone is not: to know
that a second thread cannot claim, one has to know that `busy` is set exactly while there
is a driver; to know that nobody is forgotten, that who is in the slot is waiting and was
not answered (`PendingWaits`), that a driver's job is a waiter without an answer or its
own text (`DriversHoldJobs`), and what the slots can say (`ResultsAreTrue`). The order of
runs needs `ArrivalsAreOrdered`: everything that ran is older than what is being driven,
which is older than what waits. From it follow `TypeOK`, `OneDriver`, `AnswersAreTrue`, the
action property `RunsInArrivalOrder`, and, with the facts of what each action does to a fate
(`OutcomeFacts`, `StepsImplement`), that every step is a step or a stutter of `LatestWins`
(`ImplementsLatestWinsSafely`). `FatesAreFinal` - one fate each, and only what waits is replaced - is
proved of `LatestWins`, where it needs no more than that what waits has no fate yet (`InOrder`), and holds of the
threads because they implement it.

**MessagesProofs.** Every step is a step of `PromptQueue` or leaves it alone (`MessagesKeepToQueue`), so
`QueueInvariant` comes with it. `TwoRunsAtMost` is not inductive: what has to be followed is a text on its way
from the slot to its own run (`WaitsAreShort`: in the slot it has sat out one run at most, and it is taken out
before another begins). From it follows that a caller's timeout meets no driver at work, and so that a driver's
client stays on the line until the bridge dies (`CallersListen`): `OnlyDeathStrands`. `SilenceMeansReplaced` lists
every silent ending: a thread that had nothing to say was replaced by a text accepted later, which needs the queue's
account of who displaced whom; the others could not say it, or died with the bridge.

**ClaudeWrapperProofs.** Every step of the wrapper is a step of `PromptQueue` or leaves it alone
(`ImplementsQueueSafely`), so `QueueInvariant` need not be proved again; `WrapperInvariant` adds the files.
Its heart is `TurnsHoldConversations`: while a turn goes on, what it resumed is what its project's file says
(or said before it was truncated), every text of it was run in that project, and none was forgotten. That needs
the turn to be the only one, and `/reset` to meet none (`OneTurn`, from `OneDriver`), and a text's project to be
settled before it is in any conversation (`TextsWereRun`). `TurnsAreTracked` is about processes: one that the next turn does not know of is still looked for
by its own timeout's thread, or was given up by one of three named causes.
`ProjectsHaveDirectories` needs what every `/project`
thread carries (`RequestsNameDirectories`); that threads overlap does no harm to it, as directories
are never removed. `BackLeadsBack` and `ProjectsStayListed` are theorems about one `/project` request at a
time (`OneAtATime`), whose copies of the files then are what the files still say (`RequestsReadTruly`). That
assumption is needed: TLC refutes both for two (see 9 above, and the bounds). All the others are for any number.

**AllowlistProofs.** `AllowlistInvariant` is inductive. `FileFollowsState` speaks of the
moments when no lock is held; the invariant says what holds inside the critical
section, by where its holder is: its copy differs from the state file by its own
change only (`CopyIsCurrent`), what is rendered is what was saved (`RendersWhatItSaved`),
Squid's file is right except before it is rendered (`FileIsRight`), Squid except before it
is told (`SquidIsRight`). Mutual exclusion is in `AllowlistTypeOK`. The theorems hold
whether or not reconfigure may fail.

**ApprovalGateProofs.** `GateInvariant` is inductive: a table entry, a tool, its
triggers and an admin thread can be ahead of one another only so far. The core is
`OneRelay`: at most one trigger is admitted or orphaned, none has had its effect yet, and
as long as the table knows the request `executed` says so. After a restart the table knows
nothing, and a tool asks at most once, so nothing is admitted again. The allowlist's part of the
invariant is not proved again: every step of the gate is a step of `Allowlist` or leaves
it alone (`AllowlistSteps`, and as a theorem of its own `GateKeepsToAllowlist`).

**DeployProofs.** `DeployInvariant` is inductive. `PortsHaveOneOwner` alone is not: a deployment
saves a state it read minutes ago and a port it chose then. So the invariant follows the holder
of `deploy_lock`: its copy is the state file (`CopyIsCurrent`), its port is nobody else's
(`PortIsItsOwn`), nothing counts as deployed once its container was touched
(`TouchedIsUntold`), and what it is about to save is what runs (`SavesWhatRuns`). All others hold
nothing, which is `DeployTypeOK`'s mutual exclusion, and why each step has to be examined for
one thread only (`OnlyTheHolder`).

Every step of `AppRoutes` is a step of `Deploy` or leaves it alone
(`RoutesKeepToDeploy`), so `Deploy`'s theorems hold with the proxy around it. `RoutesInvariant`:
unless something was missed or overtaken, one thread at most is writing, what it writes is
what is deployed now, and without one everything is written. `RoutesFollow` follows with
`EntriesHavePorts` from `DeployInvariant`.

**PowerProofs.** `ProxyIsThere` is inductive with the types: a start names the proxy, and a stop of the
proxy names everything, so all that is needed is that EC2 does all or nothing (`MoveFacts`).
`InUseStaysUp` needs to know what the monitor's record is worth: a busy wrapper had a message
within a turn's time (`BusyIsRecent`), the age the monitor read is a lower bound unless the side was
used since (`ReadsTruly`), and so what it holds due is unused or was used behind its back
(`DueIsUnused`). `GateGoesWithDeploy` needs `GateIsWatched`: from the moment the monitor has seen which
machines run, whoever opens the gate is late.

**BridgeProofs.** `BridgeInvariant` is inductive: a message is in one place only until it gets
its thread (`MessagesGetOneThread`, with lemmas on what `Head`, `Tail`, `SubSeq` and `Append` keep of a
sequence's elements); a slot belongs to a call in flight or to one that is over and is filled only when nobody
will fill it again (`SlotsAreWaitedFor`); whatever success is in the socket, read ahead, about to be dispatched
or in a slot is of a call that signal-cli carried out (`AnswersAreReal`). `SentIsSent` follows at `Wake`.
A restart forgets what was executed, and nobody but `Main` has called by then (`StartsAlone`).
`NobodyWaitsInVain` and `MessagesAreHandled` are liveness, but what could break them is safety, and proved: whoever
waits is pending while the reader is up, and its request or its answer is somewhere, or the connection is dead and the
sweep is still to come (`WaitersExpectAnswers`); a message without a thread is still to be dispatched, and the reader
gives up only what is empty (`UnderWay`). The two need each other's account of where the reader is, and the
lemma that a line stays on its way until it is dispatched or forgotten (`LinesStayUnderWay`).

Only model-checked: the liveness properties (`ImplementsLatestWins`,
`ExpiredDomainsLeave`, `EveryCallEnds`, `ImplementsPromptQueue`, `IdleIsStopped`,
`NobodyWaitsInVain`, `MessagesAreHandled`, `EveryMessageEnds`), which are outside what TLAPS
proves. Every invariant and every action property of the runs that pass is a theorem.

## Not modelled

* Text: command matching in the bridge, prompts, summaries, names. Names that
  `_safe_project_name` maps to the same file are one name.
* `/btw`, status and list routes: they change nothing other operations read.
* Torn writes of the same length as the original, and of JSON state files that are
  replaced atomically.
* Collisions of the 24-bit request ids.
* A `save_session_id` that raises, a podman client that dies without its process, an exception that ends
  `prune_loop`.
* `squid -k reconfigure` is taken to have taken effect when it returns; it only signals Squid.
* What a restart does to a blocked seed is in the model, and by no property held against it: `ensure_seed` lists
  it again, and counts as the last word (`LastWordHolds`).
* A failing `squid -k reconfigure` is in the model (`MayFail`) and in the proofs; the run
  leaves it out, as `SquidEnforcesFile` excuses it and liveness cannot hold with it.
* `nginx -t` failing after the gate script has written its file; the notification of an opened
  site; a monitor that dies between two reads (it begins its loop again).
* That EC2 refuses a call as a whole is taken from its documentation and from the comment in
  `_try_transition`; an instance is also never lost or terminated.
* `RoutesFollow` excuses syncs that overlap (the slower one writes last), and `DeployedIsWhatRuns` is silent about a
  repo once a request has cleared its container: the code allows what they leave out.
* In `Power` turns end. A wrapper that stays busy for good (finding 2) would keep ai up for good.
* In `Bridge`, a bridge that dies after it has started (`Messages` has that), and the third and fourth call of a voice note, which are
  like the second.
* Voice pipeline, Terraform, Ansible, templates, units.

## Plan

1. `PromptQueue`, `LatestWins`, `ClaudeWrapper`; `Allowlist`; `ApprovalGate`; `Deploy`,
   `AppRoutes`. Done, with the proofs above.
2. `Power` and `Bridge`, with their proofs. Done.
3. `ClaudeWrapper`'s proofs, and `Messages`: the bridge's threads in front of the queue. Done.
4. `TwoRunsAtMost` for any number of messages, `BackLeadsBack` for a single `/project` thread, the safety
   behind `Bridge`'s liveness. Done.
5. The safety behind the liveness of the others: that what `IdleIsStopped`, `ExpiredDomainsLeave` and
   `EveryCallEnds` need is never lost.
