--------------------------- MODULE ClaudeWrapper ---------------------------
(***************************************************************************)
(* server/ai/claude_wrapper.py as a whole: the prompt threads of           *)
(* PromptQueue, the conversations they resume and save, and the requests   *)
(* that change what they run in, POST /project and POST /reset.            *)
(*                                                                         *)
(* A session id names a conversation, so session[pr] is the set of texts   *)
(* that the conversation saved for project pr contains; {} is a missing or *)
(* empty session file.  The current and previous project live in files     *)
(* that are truncated and then written: NoProject is an empty or missing   *)
(* one.  A /project thread can be interrupted between its file operations; *)
(* /reset does all of its work under state_lock.                           *)
(***************************************************************************)
EXTENDS PromptQueue, FiniteSets

CONSTANTS Projects,    \* project names
          Default,     \* DEFAULT_PROJECT
          NoProject,   \* what an empty file says
          Admins       \* threads that serve /project, one request at a time

ASSUME ProjectAssumption == Default \in Projects /\ NoProject \notin Projects

VARIABLES current,     \* CURRENT_PROJECT_FILE
          previous,    \* PREVIOUS_PROJECT_FILE
          registry,    \* PROJECT_REGISTRY_FILE
          directories, \* the project directories inside the sandbox
          session,     \* the session file of each project
          turn,        \* turn[d]: the locals of run_claude in driver d
          sandbox,     \* the texts whose claude process is alive in the container
          killing,     \* the texts whose Timer thread has yet to find the process
          admin,       \* the locals of each /project thread
          selected,    \* history: the project last written to CURRENT_PROJECT_FILE
          sentIn,      \* history: the project selected when a text that has yet
                       \* to run was accepted
          ranIn,       \* history: the project a text was run in
          finished,    \* history: the texts whose turn ended with a result
          forgotten,   \* history: the texts in conversations that /reset removed
          strays       \* history: the texts whose process lives on, given up

fileVars == <<current, previous, registry, directories>>
turnVars == <<session, turn, sandbox, killing>>
ghostVars == <<selected, sentIn, ranIn, finished, forgotten, strays>>
vars == <<promptVars, fileVars, turnVars, admin, ghostVars>>

\* admin[a].at: where the thread is; op, name: its request; loaded, from: what
\* it read from the registry and from CURRENT_PROJECT_FILE.
AdminPcs == {"idle", "admitted", "mkdir", "register", "remember",
             "writePrevious", "openCurrent", "writeCurrent"}
Ops == {"new", "switch", "back"}
IdleAdmin == [at |-> "idle", op |-> "back", name |-> Default,
              loaded |-> {}, from |-> Default]
NoTurn == [at |-> "none", project |-> Default, base |-> {}]

WrapperTypeOK ==
    /\ TypeOK
    /\ current \in Projects \cup {NoProject}
    /\ previous \in Projects \cup {NoProject}
    /\ registry \subseteq Projects
    /\ directories \subseteq Projects
    /\ session \in [Projects -> SUBSET Prompts]
    /\ turn \in [Prompts -> [at : {"none", "claude", "killed", "save"},
                             project : Projects, base : SUBSET Prompts]]
    /\ sandbox \subseteq Prompts
    /\ killing \subseteq Prompts
    /\ admin \in [Admins -> [at : AdminPcs, op : Ops, name : Projects,
                             loaded : SUBSET Projects, from : Projects]]
    /\ selected \in Projects
    /\ sentIn \in [Prompts -> Projects \cup {NoProject}]
    /\ ranIn \in [Prompts -> Projects \cup {NoProject}]
    /\ finished \subseteq Prompts
    /\ forgotten \subseteq Prompts
    /\ strays \subseteq Prompts

Init ==
    /\ PromptInit
    /\ current = NoProject
    /\ previous = NoProject
    /\ registry = {}
    /\ directories = {Default}
    /\ session = [pr \in Projects |-> {}]
    /\ turn = [d \in Prompts |-> NoTurn]
    /\ sandbox = {}
    /\ killing = {}
    /\ admin = [a \in Admins |-> IdleAdmin]
    /\ selected = Default
    /\ sentIn = [p \in Prompts |-> NoProject]
    /\ ranIn = [p \in Prompts |-> NoProject]
    /\ finished = {}
    /\ forgotten = {}
    /\ strays = {}

-----------------------------------------------------------------------------
(* The files.                                                              *)

\* current_project(): a missing or empty file means the default project.
CurrentProject == IF current = NoProject THEN Default ELSE current

\* Faulty: the session id is not passed on.
LoadNothing(pr) == {}

\* load_session_id(project)
LoadSession(pr) == session[pr]

\* Faulty: saving to the project that is current when the run ends.
SaveToCurrent(pr, texts) == session' = [session EXCEPT ![CurrentProject] = texts]

\* save_session_id: open(path, "w") truncates, the write comes after.
TruncateSession(pr) == session' = [session EXCEPT ![pr] = {}]
SaveSession(pr, texts) == session' = [session EXCEPT ![pr] = texts]

-----------------------------------------------------------------------------
(* Prompts.                                                                *)

Accept(p) ==
    /\ Claim(p) \/ Enqueue(p)
    /\ sentIn' = [sentIn EXCEPT ![p] = selected]
    /\ UNCHANGED <<fileVars, turnVars, admin, selected, ranIn, finished, forgotten,
                   strays>>

\* run_claude: read the current project once, load its session, start claude.
StartTurn(d) ==
    LET pr == CurrentProject IN
    /\ BeginRun(d)
    /\ turn' = [turn EXCEPT ![d] = [at |-> "claude", project |-> pr,
                                    base |-> LoadSession(pr)]]
    /\ sandbox' = sandbox \cup {job[d]}
    /\ ranIn' = [ranIn EXCEPT ![job[d]] = pr]
    /\ sentIn' = [sentIn EXCEPT ![job[d]] = NoProject]
    /\ UNCHANGED <<fileVars, session, killing, admin, selected, finished, forgotten,
                   strays>>

\* Faulty: the timer kills the podman client only.
TimerKillsClient(d) ==
    /\ turn[d].at = "claude"
    /\ turn' = [turn EXCEPT ![d].at = "killed"]
    /\ UNCHANGED <<promptVars, fileVars, session, sandbox, killing, admin, ghostVars>>

\* _on_timeout, on a thread of its own: proc.kill() ends the podman client, and
\* with it the stream that the driver reads; the process in the container has
\* still to be looked for.
TimerFires(d) ==
    /\ turn[d].at = "claude"
    /\ turn' = [turn EXCEPT ![d].at = "killed"]
    /\ killing' = killing \cup {job[d]}
    /\ UNCHANGED <<promptVars, fileVars, session, sandbox, admin, ghostVars>>

\* _kill_by_env_marker kills the process of its own run, or gives up without a
\* word: /proc or an environ cannot be read, or the kill fails.
Scan(p) ==
    /\ p \in killing
    /\ killing' = killing \ {p}
    /\ \/ sandbox' = sandbox \ {p} /\ UNCHANGED strays
       \/ strays' = strays \cup (sandbox \cap {p}) /\ UNCHANGED sandbox
    /\ UNCHANGED <<promptVars, fileVars, session, turn, admin, selected, sentIn, ranIn,
                   finished, forgotten>>

\* The stream ended.  Unless the timer ended it, so has the process.
ProcessEnds(d) ==
    /\ turn[d].at \in {"claude", "killed"}
    /\ sandbox' = IF turn[d].at = "claude" THEN sandbox \ {job[d]} ELSE sandbox
    /\ UNCHANGED killing

\* claude had printed its result; save_session_id opens the file.
TurnEnds(d) ==
    /\ pc[d] = "running"
    /\ ProcessEnds(d)
    /\ TruncateSession(turn[d].project)
    /\ turn' = [turn EXCEPT ![d].at = "save"]
    /\ UNCHANGED <<promptVars, fileVars, admin, ghostVars>>

\* The new session id is written: its conversation is the one that was resumed
\* and the text that was run.
TurnIsSaved(d) ==
    /\ turn[d].at = "save"
    /\ EndRun(d)
    /\ SaveSession(turn[d].project, turn[d].base \cup {job[d]})
    /\ turn' = [turn EXCEPT ![d] = NoTurn]
    /\ finished' = finished \cup {job[d]}
    /\ UNCHANGED <<fileVars, sandbox, killing, admin, selected, sentIn, ranIn, forgotten,
                   strays>>

\* The stream ended without a result ("[claude exited ...]", "[claude timed
\* out]"), or with one that names no session: nothing is saved.
TurnFails(d) ==
    /\ ProcessEnds(d)
    /\ EndRun(d)
    /\ turn' = [turn EXCEPT ![d] = NoTurn]
    /\ UNCHANGED <<fileVars, session, admin, ghostVars>>

\* Faulty: run_claude is called outside the try, and the exception ends the thread.
TurnRaisesUncaught(d) ==
    /\ turn[d].at = "claude"
    /\ turn' = [turn EXCEPT ![d] = NoTurn]
    /\ strays' = strays \cup {job[d]}
    /\ UNCHANGED <<promptVars, fileVars, session, sandbox, killing, admin, selected,
                   sentIn, ranIn, finished, forgotten>>

\* Reading the stream raises: a timer that has not fired is cancelled, and the
\* process lives on.
TurnRaises(d) ==
    /\ turn[d].at \in {"claude", "killed"}
    /\ EndRun(d)
    /\ turn' = [turn EXCEPT ![d] = NoTurn]
    /\ strays' = IF turn[d].at = "claude" THEN strays \cup {job[d]} ELSE strays
    /\ UNCHANGED <<fileVars, session, sandbox, killing, admin, selected, sentIn, ranIn,
                   finished, forgotten>>

\* A process nobody waits for ends by itself (one that the timer's thread still
\* looks for is Scan's).
StrayEnds(p) ==
    /\ p \in sandbox \ killing
    /\ ~ \E d \in Drivers : turn[d].at = "claude" /\ job[d] = p
    /\ sandbox' = sandbox \ {p}
    /\ strays' = strays \ {p}
    /\ UNCHANGED <<promptVars, fileVars, session, turn, killing, admin, selected, sentIn,
                   ranIn, finished, forgotten>>

\* Answers, and the hand-over of `busy': no file is touched.
OtherPromptStep(p) ==
    /\ AnswerOwn(p) \/ AnswerWaiter(p) \/ AnswerRaises(p) \/ TakeNext(p) \/ Wake(p)
    /\ UNCHANGED <<fileVars, turnVars, admin, ghostVars>>

-----------------------------------------------------------------------------
(* POST /reset, all of it under state_lock.                                *)

\* Faulty: busy is not looked at.
ResetAlways == TRUE

ResetAllowed == ~busy

Reset ==
    /\ ResetAllowed
    /\ session' = [session EXCEPT ![CurrentProject] = {}]
    /\ forgotten' = forgotten \cup session[CurrentProject]
    /\ UNCHANGED <<promptVars, fileVars, turn, sandbox, killing, admin, selected, sentIn,
                   ranIn, finished, strays>>

-----------------------------------------------------------------------------
(* POST /project.  `busy' is read under state_lock and the lock released;   *)
(* the rest runs without it.                                                *)

ProjectUnchanged == UNCHANGED <<promptVars, turnVars, sentIn, ranIn, finished,
                                forgotten, strays>>

At(a, where) == admin[a].at = where
Go(a, where) == admin' = [admin EXCEPT ![a].at = where]
Finish(a)    == admin' = [admin EXCEPT ![a] = IdleAdmin]

\* The busy check lets the request in; a busy answer changes nothing.
Admit(a, op, name) ==
    /\ At(a, "idle")
    /\ ~busy
    /\ op = "new" => name # Default
    /\ admin' = [admin EXCEPT ![a] = [IdleAdmin EXCEPT !.at = "admitted", !.op = op,
                                                       !.name = name]]
    /\ ProjectUnchanged
    /\ UNCHANGED <<fileVars, selected>>

\* "new": the registry is loaded, and an existing name refused.
LoadRegistry(a) ==
    /\ At(a, "admitted") /\ admin[a].op = "new"
    /\ IF admin[a].name \in registry
       THEN Finish(a)
       ELSE admin' = [admin EXCEPT ![a].at = "mkdir", ![a].loaded = registry]
    /\ ProjectUnchanged
    /\ UNCHANGED <<fileVars, selected>>

\* Faulty: mkdir's exit status is not looked at.
MakeDirectoryUnchecked(a) ==
    /\ At(a, "mkdir")
    /\ directories' \in {directories, directories \cup {admin[a].name}}
    /\ Go(a, "register")
    /\ ProjectUnchanged
    /\ UNCHANGED <<current, previous, registry, selected>>

\* "new": podman exec mkdir, for up to 15 seconds; when it fails or times out
\* the request ends there, whether or not the directory was made.
MakeDirectory(a) ==
    /\ At(a, "mkdir")
    /\ \/ /\ directories' = directories \cup {admin[a].name}
          /\ Go(a, "register") \/ Finish(a)
       \/ /\ UNCHANGED directories
          /\ Finish(a)
    /\ ProjectUnchanged
    /\ UNCHANGED <<current, previous, registry, selected>>

\* "new": the list loaded before mkdir, and the name, replace the registry.
Register(a) ==
    /\ At(a, "register")
    /\ registry' = admin[a].loaded \cup {admin[a].name}
    /\ Go(a, "remember")
    /\ ProjectUnchanged
    /\ UNCHANGED <<current, previous, directories, selected>>

\* "switch": to a project the registry lists, or to the default one.
CheckSwitch(a) ==
    /\ At(a, "admitted") /\ admin[a].op = "switch"
    /\ IF admin[a].name \in registry \cup {Default}
       THEN Go(a, "remember")
       ELSE Finish(a)
    /\ ProjectUnchanged
    /\ UNCHANGED <<fileVars, selected>>

\* "back": to the project the previous-project file names, if it names one.
ReadPrevious(a) ==
    /\ At(a, "admitted") /\ admin[a].op = "back"
    /\ IF previous = NoProject
       THEN Finish(a)
       ELSE admin' = [admin EXCEPT ![a].at = "remember", ![a].name = previous]
    /\ ProjectUnchanged
    /\ UNCHANGED <<fileVars, selected>>

\* Faulty: the files are set the other way round, and what is remembered as
\* previous is the new project.
RememberLate(a) ==
    /\ At(a, "remember")
    /\ admin' = [admin EXCEPT ![a].at = "writePrevious", ![a].from = admin[a].name]
    /\ previous' = NoProject
    /\ ProjectUnchanged
    /\ UNCHANGED <<current, registry, directories, selected>>

\* _set_previous_project(current_project()): read, truncate, write.
Remember(a) ==
    /\ At(a, "remember")
    /\ admin' = [admin EXCEPT ![a].at = "writePrevious", ![a].from = CurrentProject]
    /\ previous' = NoProject
    /\ ProjectUnchanged
    /\ UNCHANGED <<current, registry, directories, selected>>

WritePrevious(a) ==
    /\ At(a, "writePrevious")
    /\ previous' = admin[a].from
    /\ Go(a, "openCurrent")
    /\ ProjectUnchanged
    /\ UNCHANGED <<current, registry, directories, selected>>

\* _set_current_project(name): truncate, write.
OpenCurrent(a) ==
    /\ At(a, "openCurrent")
    /\ current' = NoProject
    /\ Go(a, "writeCurrent")
    /\ ProjectUnchanged
    /\ UNCHANGED <<previous, registry, directories, selected>>

WriteCurrent(a) ==
    /\ At(a, "writeCurrent")
    /\ current' = admin[a].name
    /\ selected' = admin[a].name
    /\ Finish(a)
    /\ ProjectUnchanged
    /\ UNCHANGED <<previous, registry, directories>>

ProjectStep(a) ==
    \/ LoadRegistry(a) \/ MakeDirectory(a) \/ Register(a)
    \/ CheckSwitch(a) \/ ReadPrevious(a)
    \/ Remember(a) \/ WritePrevious(a) \/ OpenCurrent(a) \/ WriteCurrent(a)

-----------------------------------------------------------------------------

\* The process dies, its Timer threads with it: the files stay as they are,
\* truncated ones included, and so do the claude processes, whose parent is in
\* the container.
CrashWrapper ==
    /\ Crash
    /\ turn' = [d \in Prompts |-> NoTurn]
    /\ killing' = {}
    /\ admin' = [a \in Admins |-> IdleAdmin]
    /\ strays' = strays \cup sandbox
    /\ sentIn' = [p \in Prompts |-> NoProject]
    /\ UNCHANGED <<fileVars, session, sandbox, selected, ranIn, finished, forgotten>>

PromptStep(p) == \/ StartTurn(p) \/ TimerFires(p) \/ TurnEnds(p) \/ TurnIsSaved(p)
                 \/ TurnFails(p) \/ TurnRaises(p) \/ OtherPromptStep(p)

Next ==
    \/ \E p \in Prompts : Accept(p) \/ PromptStep(p) \/ Scan(p) \/ StrayEnds(p)
    \/ \E a \in Admins :
          \/ \E op \in Ops, name \in Projects : Admit(a, op, name)
          \/ ProjectStep(a)
    \/ Reset
    \/ CrashWrapper

Spec == Init /\ [][Next]_vars

\* Threads run, claude runs end (the timer sees to it), processes nobody waits
\* for need not, and nobody has to send anything.
FairSpec == /\ Spec
            /\ \A p \in Prompts : WF_vars(PromptStep(p))
            /\ \A a \in Admins : WF_vars(ProjectStep(a))

-----------------------------------------------------------------------------

(* A conversation holds only texts that were run in its project: a run saves *)
(* to the project it read at its start, whatever is selected meanwhile.      *)
HistoryStaysInProject ==
    \A pr \in Projects : \A p \in session[pr] : ranIn[p] = pr

(* What /reset removed never comes back: no run that resumed the removed     *)
(* conversation can save it again, because /reset waits for it.              *)
ForgottenStaysForgotten ==
    \A pr \in Projects : session[pr] \cap forgotten = {}

(* A turn that ended with a result stays part of its project's conversation  *)
(* until /reset removes it; only a crash that finds the session file         *)
(* truncated can lose it.                                                    *)
FinishedIsRemembered ==
    crashes = 0 =>
        \A p \in finished \ forgotten :
            \/ p \in session[ranIn[p]]
            \/ \E d \in Drivers : turn[d].at = "save" /\ p \in turn[d].base

(* Every claude process in the container is the run a driver waits for, or   *)
(* one that the timer's scan is still looking for, however many runs were    *)
(* started since, unless it was given up: by a crash, by an exception that   *)
(* cancelled the timer, or by a scan that failed.  Nothing else that a run   *)
(* can end in leaves one behind.                                             *)
TurnsAreTracked ==
    \A p \in sandbox \ strays :
        \/ p \in killing
        \/ \E d \in Drivers : job[d] = p /\ turn[d].at = "claude"

(* One claude process at a time works in the sandbox, but for strays.        *)
(* Refuted: "[claude timed out]" is answered, and the next text is run, as   *)
(* soon as the client is killed, with the process itself still alive.        *)
OneClaudeAtATime ==
    \A p, q \in sandbox \ strays : p = q

(* podman exec -w never names a directory that was not made: a project is    *)
(* listed, selected, remembered or run in only after its mkdir succeeded.    *)
ProjectsHaveDirectories ==
    /\ registry \cup {CurrentProject, selected} \subseteq directories
    /\ {previous} \cup {ranIn[p] : p \in Prompts} \subseteq directories \cup {NoProject}

(* "project back" returns to where a switch left from: when a project is     *)
(* selected, the previous-project file names the one selected before, as     *)
(* long as requests come one at a time and no crash tore a file.             *)
BackLeadsBack == [][crashes = 0 /\ selected' # selected => previous' = selected]_vars

(* A project that was created stays listed: nothing removes one, and no      *)
(* other "new" saves a list that was loaded before it was added.  Refuted    *)
(* with two /project threads and two new names.                              *)
ProjectsStayListed == [][registry \subseteq registry']_vars

(* README: switching is refused while Claude is mid-response, so that an     *)
(* in-flight message cannot land in another project than the one it was      *)
(* sent in.                                                                  *)
RunsWhereItWasSent ==
    [][\A p \in Prompts : ranIn'[p] # ranIn[p] => ranIn'[p] = sentIn[p]]_vars

(* The whole wrapper still is the prompt queue, progress included: no file,  *)
(* project request or reset changes how texts are accepted, replaced and     *)
(* answered, and no step of a turn can keep a driver from its answer.        *)
ImplementsPromptQueue == FairPromptSpec

-----------------------------------------------------------------------------
(* The inductive invariant behind the invariants above, by parts.  It takes  *)
(* in that of the queue: a turn relies on being the only one.                *)

\* What a text must have been through to be in a history, or in a conversation.
TextsWereRun ==
    /\ \A p \in Prompts : ranIn[p] # NoProject => runs[p] > 0
    /\ \A p \in finished \cup forgotten : ranIn[p] # NoProject

\* What a turn holds, and what the session file says meanwhile.
TurnsHoldConversations ==
    \A d \in Prompts : turn[d].at # "none" =>
        LET held == turn[d].base \cup {job[d]} IN
        /\ pc[d] = "running"
        /\ \A p \in held : p \in Prompts /\ ranIn[p] = turn[d].project
        /\ held \cap forgotten = {}
        /\ session[turn[d].project] = IF turn[d].at = "save" THEN {} ELSE turn[d].base

\* What a /project request carries from one step to the next.
RequestsNameDirectories ==
    /\ Default \in directories
    /\ \A a \in Admins :
          /\ admin[a].loaded \cup {admin[a].from} \subseteq directories
          /\ admin[a].at \in {"register", "remember", "writePrevious", "openCurrent",
                             "writeCurrent"} => admin[a].name \in directories

\* As long as requests come one at a time, what one read is still so when it
\* writes; and unless a crash tore a file, the current project is the selected
\* one, and is remembered before another is written.
OneAtATime == \A a, b \in Admins : a = b
RequestsReadTruly ==
    OneAtATime => \A a \in Admins :
        /\ admin[a].at \in {"mkdir", "register"} => admin[a].loaded = registry
        /\ crashes = 0 =>
              /\ admin[a].at # "writeCurrent" => CurrentProject = selected
              /\ admin[a].at = "writePrevious" => admin[a].from = selected
              /\ admin[a].at \in {"openCurrent", "writeCurrent"} => previous = selected

WrapperInvariant ==
    /\ QueueInvariant
    /\ WrapperTypeOK
    /\ TextsWereRun
    /\ TurnsHoldConversations
    /\ RequestsNameDirectories
    /\ RequestsReadTruly
    /\ HistoryStaysInProject
    /\ ForgottenStaysForgotten
    /\ FinishedIsRemembered
    /\ TurnsAreTracked
    /\ ProjectsHaveDirectories
=============================================================================
