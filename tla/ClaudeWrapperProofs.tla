----------------------- MODULE ClaudeWrapperProofs -----------------------
(***************************************************************************)
(* Proofs about ClaudeWrapper, for any number of requests and projects,    *)
(* any number of /project threads at once, any clients that may hang up    *)
(* and any number of crashes.                                              *)
(*                                                                         *)
(* Every step of the wrapper is a step of PromptQueue or leaves it alone,  *)
(* so QueueInvariant comes from PromptQueueProofs.  With it, a turn is the *)
(* only one, /reset meets none, and WrapperInvariant (defined in           *)
(* ClaudeWrapper, where TLC checks it) is inductive.                       *)
(***************************************************************************)
EXTENDS ClaudeWrapper, PromptQueueProofs

(* A request to /project touches no thread of a prompt, no turn and no         *)
(* conversation.                                                               *)
LEMMA RequestsLeavePrompts ==
    ASSUME NEW a \in Admins,
           \/ \E op \in Ops, name \in Projects : Admit(a, op, name)
           \/ ProjectStep(a)
    PROVE  UNCHANGED <<promptVars, turnVars, sentIn, ranIn, finished, forgotten, strays>>
BY DEF Admit, ProjectStep, LoadRegistry, MakeDirectory, Register, CheckSwitch,
       ReadPrevious, Remember, WritePrevious, OpenCurrent, WriteCurrent,
       ProjectUnchanged

(* Every step of the wrapper is one of the prompt queue's or none of them.     *)
LEMMA StepsAreQueueSteps == [Next]_vars => [PromptNext]_promptVars
<1> SUFFICES ASSUME [Next]_vars PROVE [PromptNext]_promptVars
  OBVIOUS
<1>1. ASSUME NEW p \in Prompts, Accept(p) \/ PromptStep(p) \/ Scan(p) \/ StrayEnds(p)
      PROVE  [PromptNext]_promptVars
  BY <1>1
    DEF Accept, PromptStep, StartTurn, TimerFires, Scan, TurnEnds, TurnIsSaved, TurnFails,
        TurnRaises, OtherPromptStep, StrayEnds, PromptNext, ThreadStep
<1>2. ASSUME NEW a \in Admins,
             \/ \E op \in Ops, name \in Projects : Admit(a, op, name)
             \/ ProjectStep(a)
      PROVE  [PromptNext]_promptVars
  BY <1>2, RequestsLeavePrompts
<1>3. ASSUME Reset \/ CrashWrapper \/ UNCHANGED vars PROVE [PromptNext]_promptVars
  BY <1>3 DEF Reset, CrashWrapper, PromptNext, vars
<1> QED
  BY <1>1, <1>2, <1>3 DEF Next

(* Files, turns, /project and /reset add nothing that the prompt queue would   *)
(* not do (its progress is left to TLC).                                       *)
THEOREM ImplementsQueueSafely == Spec => PromptSpec
<1>1. Init => PromptInit
  BY DEF Init
<1> QED
  BY <1>1, StepsAreQueueSteps, PTL DEF Spec, PromptSpec

(* Steps of the queue that belong to no run keep the one that is going on, and *)
(* start none.                                                                 *)
LEMMA RunsGoOn ==
    ASSUME NEW p \in Prompts, TypeOK,
           \/ Claim(p) \/ Enqueue(p) \/ AnswerOwn(p) \/ AnswerWaiter(p)
           \/ AnswerRaises(p) \/ TakeNext(p) \/ Wake(p)
    PROVE  /\ runs' = runs /\ crashes' = crashes
           /\ \A d \in Prompts : pc[d] = "running" => pc'[d] = "running" /\ job'[d] = job[d]
BY DEF TypeOK, Claim, Enqueue, AnswerOwn, AnswerWaiter, AnswerRaises, TakeNext, Wake,
       Arrive, historyVars

(* Whatever a project file says, the project read from it exists.              *)
LEMMA CurrentIsAProject == WrapperTypeOK => CurrentProject \in Projects
BY ProjectAssumption DEF WrapperTypeOK, CurrentProject

(* The locals of a /project thread, and what its steps may put into them.      *)
Requests == [at : AdminPcs, op : Ops, name : Projects,
             loaded : SUBSET Projects, from : Projects]

LEMMA RequestEdits ==
    ASSUME NEW a \in Admins, admin \in [Admins -> Requests], NEW where \in AdminPcs
    PROVE  /\ [admin EXCEPT ![a].at = where] \in [Admins -> Requests]
           /\ \A l \in SUBSET Projects :
                 [admin EXCEPT ![a].at = where, ![a].loaded = l] \in [Admins -> Requests]
           /\ \A pr \in Projects :
                 /\ [admin EXCEPT ![a].at = where, ![a].from = pr] \in [Admins -> Requests]
                 /\ [admin EXCEPT ![a].at = where, ![a].name = pr] \in [Admins -> Requests]
<1> DEFINE r == admin[a]
<1>1. r \in Requests
  OBVIOUS
<1>2. [r EXCEPT !.at = where] \in Requests
  BY <1>1 DEF Requests
<1> HIDE DEF r
<1>3. \A l \in SUBSET Projects : [[r EXCEPT !.at = where] EXCEPT !.loaded = l] \in Requests
  BY <1>2 DEF Requests
<1>4. \A pr \in Projects :
         /\ [[r EXCEPT !.at = where] EXCEPT !.from = pr] \in Requests
         /\ [[r EXCEPT !.at = where] EXCEPT !.name = pr] \in Requests
  BY <1>2 DEF Requests
<1>5. \A s \in Requests : [admin EXCEPT ![a] = s] \in [Admins -> Requests]
  OBVIOUS
<1>6. \A l \in SUBSET Projects :
         [admin EXCEPT ![a].at = where, ![a].loaded = l]
             = [admin EXCEPT ![a] = [[r EXCEPT !.at = where] EXCEPT !.loaded = l]]
  BY DEF r
<1>7. \A pr \in Projects :
         /\ [admin EXCEPT ![a].at = where, ![a].from = pr]
               = [admin EXCEPT ![a] = [[r EXCEPT !.at = where] EXCEPT !.from = pr]]
         /\ [admin EXCEPT ![a].at = where, ![a].name = pr]
               = [admin EXCEPT ![a] = [[r EXCEPT !.at = where] EXCEPT !.name = pr]]
  BY DEF r
<1>8. [admin EXCEPT ![a].at = where] = [admin EXCEPT ![a] = [r EXCEPT !.at = where]]
  BY DEF r
<1> QED
  BY <1>2, <1>3, <1>4, <1>5, <1>6, <1>7, <1>8

-----------------------------------------------------------------------------
(* The part about types.                                                       *)

LEMMA TypesKept ==
    ASSUME WrapperInvariant, TypeOK', [Next]_vars PROVE WrapperTypeOK'
<1> USE ProjectAssumption DEF WrapperTypeOK, NoTurn, IdleAdmin
<1>1. ASSUME NEW p \in Prompts, Accept(p) PROVE WrapperTypeOK'
  BY <1>1 DEF WrapperInvariant, Accept, fileVars, turnVars
<1>2. ASSUME NEW d \in Prompts, StartTurn(d) PROVE WrapperTypeOK'
  <2>1. job[d] \in Prompts
    BY <1>2 DEF WrapperInvariant, QueueInvariant, DriversHoldJobs, StartTurn, BeginRun,
                Drivers, Driving, Working
  <2> QED
    BY <1>2, <2>1, CurrentIsAProject
      DEF WrapperInvariant, StartTurn, fileVars, LoadSession
<1>3. ASSUME NEW d \in Prompts, TurnEnds(d) PROVE WrapperTypeOK'
  <2>1. WrapperTypeOK
    BY DEF WrapperInvariant
  <2> QED
    BY <1>3, <2>1 DEF TurnEnds, ProcessEnds, TruncateSession, fileVars, ghostVars
<1>4. ASSUME NEW d \in Prompts, TurnIsSaved(d) PROVE WrapperTypeOK'
  <2>1. job[d] \in Prompts
    BY <1>4 DEF WrapperInvariant, TurnsHoldConversations, TurnIsSaved
  <2> QED
    BY <1>4, <2>1 DEF WrapperInvariant, TurnIsSaved, SaveSession, fileVars
<1>5. ASSUME NEW d \in Prompts, TurnFails(d) PROVE WrapperTypeOK'
  BY <1>5 DEF WrapperInvariant, TurnFails, ProcessEnds, fileVars, ghostVars
<1>6. ASSUME NEW d \in Prompts, TurnRaises(d) PROVE WrapperTypeOK'
  <2>1. job[d] \in Prompts
    BY <1>6 DEF WrapperInvariant, TurnsHoldConversations, TurnRaises
  <2> QED
    BY <1>6, <2>1 DEF WrapperInvariant, TurnRaises, fileVars
<1>7. ASSUME NEW p \in Prompts,
             TimerFires(p) \/ OtherPromptStep(p) \/ Scan(p) \/ StrayEnds(p)
      PROVE  WrapperTypeOK'
  <2>1. ASSUME TimerFires(p) PROVE WrapperTypeOK'
    <3>1. job[p] \in Prompts
      BY <2>1 DEF WrapperInvariant, TurnsHoldConversations, TimerFires
    <3>2. WrapperTypeOK
      BY DEF WrapperInvariant
    <3> QED
      BY <2>1, <3>1, <3>2 DEF TimerFires, fileVars, ghostVars
  <2>2. ASSUME OtherPromptStep(p) PROVE WrapperTypeOK'
    BY <2>2 DEF WrapperInvariant, OtherPromptStep, fileVars, turnVars, ghostVars
  <2>3. ASSUME Scan(p) \/ StrayEnds(p) PROVE WrapperTypeOK'
    BY <2>3 DEF WrapperInvariant, Scan, StrayEnds, fileVars
  <2> QED
    BY <1>7, <2>1, <2>2, <2>3
<1>8. ASSUME NEW a \in Admins,
             \/ \E op \in Ops, name \in Projects : Admit(a, op, name)
             \/ ProjectStep(a)
      PROVE  WrapperTypeOK'
  <2>1. UNCHANGED <<promptVars, turnVars, sentIn, ranIn, finished, forgotten, strays>>
    BY <1>8, RequestsLeavePrompts
  <2> DEFINE FilesOK == /\ current \in Projects \cup {NoProject}
                        /\ previous \in Projects \cup {NoProject}
                        /\ registry \subseteq Projects
                        /\ directories \subseteq Projects
                        /\ selected \in Projects
                        /\ admin \in [Admins -> Requests]
  <2>2. FilesOK'
    <3> FilesOK
      BY DEF WrapperInvariant, Requests
    <3> USE DEF At, fileVars
    <3>0. ASSUME NEW where \in AdminPcs, Go(a, where) PROVE (admin \in [Admins -> Requests])'
      BY <3>0, RequestEdits DEF Go
    <3>1. ASSUME NEW op \in Ops, NEW name \in Projects, Admit(a, op, name) PROVE FilesOK'
      BY <3>1 DEF Admit, Requests, AdminPcs
    <3>2. ASSUME Finish(a) PROVE (admin \in [Admins -> Requests])'
      BY <3>2 DEF Finish, Requests, AdminPcs, Ops
    <3>3. ASSUME LoadRegistry(a) PROVE FilesOK'
      <4>1. (admin \in [Admins -> Requests])'
        <5>1. [admin EXCEPT ![a].at = "mkdir", ![a].loaded = registry]
                  \in [Admins -> Requests]
          BY RequestEdits DEF AdminPcs
        <5> QED
          BY <3>3, <3>2, <5>1 DEF LoadRegistry
      <4> QED
        BY <3>3, <4>1 DEF LoadRegistry
    <3>4. ASSUME MakeDirectory(a) \/ Register(a) PROVE FilesOK'
      BY <3>4, <3>0, <3>2 DEF MakeDirectory, Register, AdminPcs, Requests
    <3>5. ASSUME CheckSwitch(a) PROVE FilesOK'
      BY <3>5, <3>0, <3>2 DEF CheckSwitch, AdminPcs
    <3>6. ASSUME ReadPrevious(a) PROVE FilesOK'
      <4>1. CASE previous = NoProject
        BY <3>6, <4>1, <3>2 DEF ReadPrevious
      <4>2. CASE previous # NoProject
        <5>1. previous \in Projects
          BY <4>2
        <5>2. (admin \in [Admins -> Requests])'
          <6>1. [admin EXCEPT ![a].at = "remember", ![a].name = previous]
                    \in [Admins -> Requests]
            BY <5>1, RequestEdits DEF AdminPcs
          <6> QED
            BY <3>6, <4>2, <6>1 DEF ReadPrevious
        <5> QED
          BY <3>6, <4>2, <5>2 DEF ReadPrevious
      <4> QED
        BY <4>1, <4>2
    <3>7. ASSUME Remember(a) PROVE FilesOK'
      <4>1. (admin \in [Admins -> Requests])'
        BY <3>7, CurrentIsAProject, RequestEdits DEF Remember, WrapperInvariant, AdminPcs
      <4> QED
        BY <3>7, <4>1 DEF Remember
    <3>8. ASSUME WritePrevious(a) \/ OpenCurrent(a) \/ WriteCurrent(a) PROVE FilesOK'
      <4>1. admin[a].from \in Projects /\ admin[a].name \in Projects
        BY DEF Requests
      <4>2. (admin \in [Admins -> Requests])'
        BY <3>8, <3>0, <3>2 DEF WritePrevious, OpenCurrent, WriteCurrent, AdminPcs
      <4> QED
        BY <3>8, <4>1, <4>2 DEF WritePrevious, OpenCurrent, WriteCurrent
    <3> QED
      BY <1>8, <3>1, <3>3, <3>4, <3>5, <3>6, <3>7, <3>8 DEF ProjectStep
  <2> QED
    BY <2>1, <2>2 DEF WrapperInvariant, turnVars, Requests
<1>9. ASSUME Reset PROVE WrapperTypeOK'
  BY <1>9, CurrentIsAProject DEF WrapperInvariant, Reset, fileVars
<1>10. ASSUME CrashWrapper PROVE WrapperTypeOK'
  BY <1>10 DEF WrapperInvariant, CrashWrapper, fileVars, AdminPcs, Ops
<1>11. ASSUME UNCHANGED vars PROVE WrapperTypeOK'
  BY <1>11 DEF WrapperInvariant, vars, fileVars, turnVars, ghostVars
<1> QED
  BY <1>1, <1>2, <1>3, <1>4, <1>5, <1>6, <1>7, <1>8, <1>9, <1>10, <1>11
    DEF Next, PromptStep

-----------------------------------------------------------------------------
(* The part about directories: a name is only written where it can be read     *)
(* from after its directory was made, and directories are not removed.         *)

LEMMA DirectoriesKept ==
    ASSUME WrapperInvariant, [Next]_vars
    PROVE  RequestsNameDirectories' /\ ProjectsHaveDirectories'
<1> USE ProjectAssumption
    DEF RequestsNameDirectories, ProjectsHaveDirectories, CurrentProject
<1>0. /\ WrapperTypeOK /\ TypeOK
      /\ RequestsNameDirectories /\ ProjectsHaveDirectories /\ TurnsHoldConversations
  BY DEF WrapperInvariant, QueueInvariant
<1>1. ASSUME NEW p \in Prompts,
             Accept(p) \/ TimerFires(p) \/ TurnEnds(p) \/ TurnIsSaved(p) \/ TurnFails(p)
                 \/ TurnRaises(p) \/ OtherPromptStep(p) \/ Scan(p) \/ StrayEnds(p)
      PROVE  RequestsNameDirectories' /\ ProjectsHaveDirectories'
  <2>1. UNCHANGED <<fileVars, admin, selected, ranIn>>
    BY <1>1 DEF Accept, TimerFires, TurnEnds, TurnIsSaved, TurnFails, TurnRaises,
                OtherPromptStep, Scan, StrayEnds, ghostVars
  <2> QED
    BY <1>0, <2>1 DEF fileVars
<1>2. ASSUME NEW d \in Prompts, StartTurn(d)
      PROVE  RequestsNameDirectories' /\ ProjectsHaveDirectories'
  <2>1. \A p \in Prompts : ranIn'[p] \in {ranIn[p], CurrentProject}
    BY <1>0, <1>2 DEF StartTurn, WrapperTypeOK
  <2>2. UNCHANGED <<fileVars, admin, selected>>
    BY <1>2 DEF StartTurn
  <2> QED
    BY <1>0, <2>1, <2>2 DEF fileVars
<1>3. ASSUME NEW a \in Admins,
             \/ \E op \in Ops, name \in Projects : Admit(a, op, name)
             \/ ProjectStep(a)
      PROVE  RequestsNameDirectories' /\ ProjectsHaveDirectories'
  <2>1. UNCHANGED ranIn
    BY <1>3, RequestsLeavePrompts
  <2>2. \A b \in Admins \ {a} : admin'[b] = admin[b]
    BY <1>0, <1>3
      DEF Admit, ProjectStep, LoadRegistry, MakeDirectory, Register, CheckSwitch,
          ReadPrevious, Remember, WritePrevious, OpenCurrent, WriteCurrent, Go, Finish,
          WrapperTypeOK
  <2>3. directories \subseteq directories'
    BY <1>3
      DEF Admit, ProjectStep, LoadRegistry, MakeDirectory, Register, CheckSwitch,
          ReadPrevious, Remember, WritePrevious, OpenCurrent, WriteCurrent, fileVars
  <2> DEFINE r == admin'[a]
             Sound == /\ r.loaded \cup {r.from} \subseteq directories'
                      /\ r.at \in {"register", "remember", "writePrevious", "openCurrent",
                                  "writeCurrent"} => r.name \in directories'
             Files == /\ registry' \cup {CurrentProject', selected'} \subseteq directories'
                      /\ previous' \in directories' \cup {NoProject}
  <2>4. Sound /\ Files
    <3> USE <1>0, <2>3 DEF At, Go, Finish, IdleAdmin, WrapperTypeOK
    <3>1. ASSUME NEW op \in Ops, NEW name \in Projects, Admit(a, op, name)
          PROVE  Sound /\ Files
      BY <3>1 DEF Admit, fileVars
    <3>2. CASE LoadRegistry(a)
      BY <3>2 DEF LoadRegistry, fileVars
    <3>3. CASE MakeDirectory(a)
      BY <3>3 DEF MakeDirectory
    <3>4. CASE Register(a)
      BY <3>4 DEF Register
    <3>5. CASE CheckSwitch(a)
      BY <3>5 DEF CheckSwitch, fileVars
    <3>6. CASE ReadPrevious(a)
      BY <3>6 DEF ReadPrevious, fileVars
    <3>7. CASE Remember(a)
      BY <3>7 DEF Remember
    <3>8. CASE WritePrevious(a)
      BY <3>8 DEF WritePrevious
    <3>9. CASE OpenCurrent(a)
      BY <3>9 DEF OpenCurrent
    <3>10. CASE WriteCurrent(a)
      BY <3>10 DEF WriteCurrent
    <3> QED
      BY <1>3, <3>1, <3>2, <3>3, <3>4, <3>5, <3>6, <3>7, <3>8, <3>9, <3>10
        DEF ProjectStep
  <2> QED
    BY <1>0, <2>1, <2>2, <2>3, <2>4
<1>4. ASSUME Reset PROVE RequestsNameDirectories' /\ ProjectsHaveDirectories'
  BY <1>0, <1>4 DEF Reset, fileVars
<1>5. ASSUME CrashWrapper PROVE RequestsNameDirectories' /\ ProjectsHaveDirectories'
  BY <1>0, <1>5 DEF CrashWrapper, fileVars, IdleAdmin
<1>6. ASSUME UNCHANGED vars PROVE RequestsNameDirectories' /\ ProjectsHaveDirectories'
  BY <1>0, <1>6 DEF vars, fileVars, ghostVars
<1> QED
  BY <1>1, <1>2, <1>3, <1>4, <1>5, <1>6 DEF Next, PromptStep

-----------------------------------------------------------------------------
(* The part about what requests read, which only they and crashes change.      *)

LEMMA ReadingsKept ==
    ASSUME WrapperInvariant, [Next]_vars
    PROVE  RequestsReadTruly'
<1> SUFFICES ASSUME OneAtATime PROVE RequestsReadTruly'
  BY DEF RequestsReadTruly, OneAtATime
<1> DEFINE Reads(a) ==
       /\ admin[a].at \in {"mkdir", "register"} => admin[a].loaded = registry
       /\ crashes = 0 =>
             /\ admin[a].at # "writeCurrent" => CurrentProject = selected
             /\ admin[a].at = "writePrevious" => admin[a].from = selected
             /\ admin[a].at \in {"openCurrent", "writeCurrent"} => previous = selected
<1> SUFFICES ASSUME NEW b \in Admins PROVE Reads(b)'
  BY DEF RequestsReadTruly
<1>0. Reads(b) /\ WrapperTypeOK /\ TypeOK
  BY DEF WrapperInvariant, QueueInvariant, RequestsReadTruly
<1> HIDE DEF Reads
<1>1. ASSUME UNCHANGED <<fileVars, admin, selected, crashes>> PROVE Reads(b)'
  BY <1>0, <1>1 DEF fileVars, Reads, CurrentProject
<1>2. ASSUME NEW p \in Prompts,
             Accept(p) \/ PromptStep(p) \/ Scan(p) \/ StrayEnds(p)
      PROVE  Reads(b)'
  BY <1>1, <1>2
    DEF Accept, PromptStep, StartTurn, TimerFires, TurnEnds, TurnIsSaved, TurnFails,
        TurnRaises, OtherPromptStep, Scan, StrayEnds, ghostVars, promptVars, historyVars, Claim, Enqueue,
        BeginRun, EndRun, AnswerOwn, AnswerWaiter, AnswerRaises, TakeNext, Wake
<1>3. ASSUME NEW a \in Admins,
             \/ \E op \in Ops, name \in Projects : Admit(a, op, name)
             \/ ProjectStep(a)
      PROVE  Reads(b)'
  <2>1. a = b
    BY DEF OneAtATime
  <2>2. crashes' = crashes
    BY <1>3, RequestsLeavePrompts DEF promptVars
  <2>3. admin \in [Admins -> Requests] /\ admin[a].name # NoProject
    BY <1>0, ProjectAssumption DEF WrapperTypeOK, Requests
  <2> USE <1>0, <2>1, <2>2, <2>3 DEF At, Go, Finish, IdleAdmin, Reads, CurrentProject, Requests
  <2>4. ASSUME NEW op \in Ops, NEW name \in Projects, Admit(a, op, name) PROVE Reads(b)'
    BY <2>4 DEF Admit, fileVars
  <2>5. CASE LoadRegistry(a)
    BY <2>5 DEF LoadRegistry, fileVars
  <2>6. CASE MakeDirectory(a)
    BY <2>6 DEF MakeDirectory
  <2>7. CASE Register(a)
    BY <2>7 DEF Register
  <2>8. CASE CheckSwitch(a)
    BY <2>8 DEF CheckSwitch, fileVars
  <2>9. CASE ReadPrevious(a)
    BY <2>9 DEF ReadPrevious, fileVars
  <2>10. CASE Remember(a)
    BY <2>10 DEF Remember
  <2>11. CASE WritePrevious(a)
    BY <2>11 DEF WritePrevious
  <2>12. CASE OpenCurrent(a)
    BY <2>12 DEF OpenCurrent
  <2>13. CASE WriteCurrent(a)
    BY <2>13 DEF WriteCurrent
  <2> QED
    BY <1>3, <2>4, <2>5, <2>6, <2>7, <2>8, <2>9, <2>10, <2>11, <2>12, <2>13 DEF ProjectStep
<1>4. ASSUME Reset PROVE Reads(b)'
  BY <1>1, <1>4 DEF Reset, promptVars
<1>5. ASSUME CrashWrapper PROVE Reads(b)'
  <2>1. crashes' # 0 /\ admin'[b].at = "idle"
    BY <1>0, <1>5 DEF CrashWrapper, Crash, TypeOK, IdleAdmin
  <2> QED
    BY <2>1 DEF Reads
<1>6. ASSUME UNCHANGED vars PROVE Reads(b)'
  BY <1>1, <1>6 DEF vars, ghostVars, promptVars
<1> QED
  BY <1>2, <1>3, <1>4, <1>5, <1>6 DEF Next

-----------------------------------------------------------------------------
(* The part about turns and conversations.                                     *)

Conversations == /\ TextsWereRun
                 /\ TurnsHoldConversations
                 /\ HistoryStaysInProject
                 /\ ForgottenStaysForgotten
                 /\ FinishedIsRemembered
                 /\ TurnsAreTracked

(* A turn is the only one there is.                                            *)
LEMMA OneTurn ==
    ASSUME WrapperInvariant
    PROVE  /\ \A d \in Prompts : turn[d].at # "none" => d \in Drivers /\ job[d] \in Prompts
           /\ \A d, e \in Prompts : turn[d].at # "none" /\ turn[e].at # "none" => d = e
           /\ ~busy => \A d \in Prompts : turn[d].at = "none"
<1>1. \A d \in Prompts : turn[d].at # "none" => d \in Drivers /\ job[d] \in Prompts
  BY DEF WrapperInvariant, TurnsHoldConversations, Drivers, Driving, Working
<1> QED
  BY <1>1 DEF WrapperInvariant, QueueInvariant, OneDriver

(* Steps that touch no turn, no conversation and no history keep all of it, if *)
(* they let the run that is going on go on.                                    *)
LEMMA ConversationsLeftAlone ==
    ASSUME WrapperInvariant,
           UNCHANGED <<turnVars, ranIn, finished, forgotten, strays, runs, crashes>>,
           \A d \in Prompts : pc[d] = "running" => pc'[d] = "running" /\ job'[d] = job[d]
    PROVE  Conversations'
<1> USE DEF WrapperInvariant, turnVars, Conversations
<1>1. TextsWereRun' /\ HistoryStaysInProject' /\ ForgottenStaysForgotten'
  BY DEF TextsWereRun, HistoryStaysInProject, ForgottenStaysForgotten
<1>2. TurnsHoldConversations'
  BY DEF TurnsHoldConversations
<1>3. \A d \in Prompts : turn[d].at # "none" => d \in Drivers' /\ job'[d] = job[d]
  BY DEF TurnsHoldConversations, Drivers, Driving, Working
<1>4. FinishedIsRemembered'
  BY <1>3 DEF FinishedIsRemembered, Drivers
<1>5. TurnsAreTracked'
  BY <1>3 DEF TurnsAreTracked, Drivers
<1> QED
  BY <1>1, <1>2, <1>4, <1>5

LEMMA ConversationsKept ==
    ASSUME WrapperInvariant, [Next]_vars PROVE Conversations'
<1> USE ProjectAssumption DEF turnVars, ghostVars, historyVars
<1>0. /\ WrapperTypeOK /\ TypeOK /\ Conversations
      /\ \A p \in Prompts : \A pr \in Projects : p \in session[pr] => ranIn[p] # NoProject
  BY DEF WrapperInvariant, QueueInvariant, Conversations, HistoryStaysInProject
<1>1. ASSUME NEW p \in Prompts, Accept(p) \/ OtherPromptStep(p) PROVE Conversations'
  BY <1>0, <1>1, RunsGoOn, ConversationsLeftAlone DEF Accept, OtherPromptStep
<1>2. ASSUME NEW a \in Admins,
             \/ \E op \in Ops, name \in Projects : Admit(a, op, name)
             \/ ProjectStep(a)
      PROVE  Conversations'
  BY <1>2, RequestsLeavePrompts, ConversationsLeftAlone DEF promptVars
<1>3. ASSUME UNCHANGED vars PROVE Conversations'
  BY <1>3, ConversationsLeftAlone DEF vars, promptVars
<1>4. ASSUME NEW d \in Prompts, StartTurn(d) PROVE Conversations'
  <2> DEFINE j == job[d]
  <2>1. /\ d \in Drivers /\ j \in Prompts /\ runs[j] = 0
        /\ \A e \in Prompts : turn[e].at = "none"
    BY <1>4, OneTurn
      DEF StartTurn, BeginRun, WrapperInvariant, QueueInvariant, DriversHoldJobs, OneDriver,
          TurnsHoldConversations, Drivers, Driving, Working
  <2>2. /\ ranIn[j] = NoProject
        /\ j \notin finished \cup forgotten
        /\ \A pr \in Projects : j \notin session[pr]
    BY <1>0, <2>1 DEF Conversations, TextsWereRun, WrapperTypeOK
  <2>3. CurrentProject \in Projects
    BY <1>0, CurrentIsAProject
  <2>4. /\ ranIn' = [ranIn EXCEPT ![j] = CurrentProject]
        /\ runs' = [runs EXCEPT ![j] = 1]
        /\ turn' = [turn EXCEPT ![d] = [at |-> "claude", project |-> CurrentProject,
                                        base |-> session[CurrentProject]]]
        /\ pc' = [pc EXCEPT ![d] = "running"]
        /\ sandbox' = sandbox \cup {j}
        /\ UNCHANGED <<job, session, killing, finished, forgotten, strays, crashes>>
    BY <1>0, <1>4, <2>1 DEF StartTurn, BeginRun, LoadSession, TypeOK
  <2> HIDE DEF j
  <2>5. TextsWereRun' /\ HistoryStaysInProject' /\ ForgottenStaysForgotten'
    BY <1>0, <2>1, <2>2, <2>4
      DEF Conversations, TextsWereRun, HistoryStaysInProject, ForgottenStaysForgotten,
          WrapperTypeOK, TypeOK
  <2>6. TurnsHoldConversations'
    <3> DEFINE t == [at |-> "claude", project |-> CurrentProject,
                     base |-> session[CurrentProject]]
    <3>1. turn'[d] = t /\ pc'[d] = "running" /\ job'[d] = j
      BY <1>0, <2>4 DEF WrapperTypeOK, TypeOK, j
    <3>2. \A p \in t.base \cup {j} : p \in Prompts /\ ranIn'[p] = CurrentProject
      BY <1>0, <2>1, <2>3, <2>4 DEF Conversations, HistoryStaysInProject, WrapperTypeOK
    <3>3. (t.base \cup {j}) \cap forgotten' = {}
      BY <1>0, <2>2, <2>3, <2>4 DEF Conversations, ForgottenStaysForgotten
    <3>4. \A e \in Prompts \ {d} : turn'[e].at = "none"
      BY <2>1, <2>4
    <3> QED
      BY <2>4, <3>1, <3>2, <3>3, <3>4 DEF TurnsHoldConversations
  <2>7. FinishedIsRemembered'
    <3>1. \A p \in finished \ forgotten : p \in Prompts /\ ranIn'[p] = ranIn[p]
      BY <1>0, <2>2, <2>4 DEF WrapperTypeOK
    <3>2. crashes = 0 => \A p \in finished \ forgotten : p \in session[ranIn[p]]
      BY <1>0, <2>1 DEF Conversations, FinishedIsRemembered, Drivers
    <3> QED
      BY <2>4, <3>1, <3>2 DEF FinishedIsRemembered
  <2>8. TurnsAreTracked'
    <3>1. d \in Drivers' /\ turn'[d].at = "claude" /\ job'[d] = j
      BY <1>0, <2>4 DEF WrapperTypeOK, TypeOK, Drivers, Driving, Working, j
    <3>2. sandbox \ strays \subseteq killing
      BY <1>0, <2>1 DEF Conversations, TurnsAreTracked, Drivers, WrapperTypeOK
    <3> QED
      BY <2>4, <3>1, <3>2 DEF TurnsAreTracked
  <2> QED
    BY <2>5, <2>6, <2>7, <2>8 DEF Conversations
<1>5. ASSUME NEW d \in Prompts, TurnEnds(d) PROVE Conversations'
  <2> DEFINE pr == turn[d].project
  <2>1. /\ d \in Drivers /\ job[d] \in Prompts /\ pr \in Projects
        /\ \A e \in Prompts \ {d} : turn[e].at = "none"
    BY <1>0, <1>5, OneTurn DEF TurnEnds, ProcessEnds, WrapperTypeOK
  <2>2. session[pr] = turn[d].base
    BY <1>5, <1>0 DEF TurnEnds, ProcessEnds, Conversations, TurnsHoldConversations
  <2>3. /\ session' = [session EXCEPT ![pr] = {}]
        /\ turn' = [turn EXCEPT ![d] = [turn[d] EXCEPT !.at = "save"]]
        /\ sandbox' = IF turn[d].at = "claude" THEN sandbox \ {job[d]} ELSE sandbox
        /\ UNCHANGED <<pc, job, runs, killing, ranIn, finished, forgotten, strays, crashes>>
        /\ Drivers' = Drivers
    BY <1>5 DEF TurnEnds, ProcessEnds, TruncateSession, promptVars, Drivers
  <2>4. /\ turn'[d].at = "save" /\ turn'[d].base = turn[d].base /\ turn'[d].project = pr
        /\ \A e \in Prompts \ {d} : turn'[e].at = "none"
    BY <1>0, <2>1, <2>3 DEF WrapperTypeOK
  <2> HIDE DEF pr
  <2>5. TextsWereRun' /\ HistoryStaysInProject' /\ ForgottenStaysForgotten'
    BY <1>0, <2>1, <2>3
      DEF Conversations, TextsWereRun, HistoryStaysInProject, ForgottenStaysForgotten,
          WrapperTypeOK
  <2>6. TurnsHoldConversations'
    <3>1. session'[pr] = {}
      BY <1>0, <2>1, <2>3 DEF WrapperTypeOK
    <3>2. /\ pc[d] = "running"
          /\ \A p \in turn[d].base \cup {job[d]} : p \in Prompts /\ ranIn[p] = pr
          /\ (turn[d].base \cup {job[d]}) \cap forgotten = {}
      BY <1>0, <1>5 DEF Conversations, TurnsHoldConversations, TurnEnds, ProcessEnds, pr
    <3> QED
      BY <2>3, <2>4, <3>1, <3>2 DEF TurnsHoldConversations
  <2>7. FinishedIsRemembered'
    <3>1. \A q \in Projects : session'[q] = IF q = pr THEN {} ELSE session[q]
      BY <1>0, <2>3 DEF WrapperTypeOK
    <3>2. \A p \in finished \ forgotten : ranIn[p] \in Projects
      BY <1>0 DEF Conversations, TextsWereRun, WrapperTypeOK
    <3>3. \A e \in Drivers : turn[e].at # "save"
      BY <1>5, <2>1 DEF Drivers, TurnEnds, ProcessEnds
    <3> QED
      BY <1>0, <2>1, <2>2, <2>3, <2>4, <3>1, <3>2, <3>3
        DEF Conversations, FinishedIsRemembered
  <2>8. TurnsAreTracked'
    BY <1>0, <2>1, <2>3 DEF Conversations, TurnsAreTracked, Drivers
  <2> QED
    BY <2>5, <2>6, <2>7, <2>8 DEF Conversations
<1>6. ASSUME NEW d \in Prompts, TurnIsSaved(d) PROVE Conversations'
  <2> DEFINE pr == turn[d].project
             held == turn[d].base \cup {job[d]}
  <2>1. /\ job[d] \in Prompts /\ pr \in Projects
        /\ \A e \in Prompts \ {d} : turn[e].at = "none"
    BY <1>0, <1>6, OneTurn DEF TurnIsSaved, WrapperTypeOK
  <2>2. /\ \A p \in held : p \in Prompts /\ ranIn[p] = pr
        /\ held \cap forgotten = {}
        /\ session[pr] = {}
    BY <1>0, <1>6 DEF TurnIsSaved, Conversations, TurnsHoldConversations
  <2>3. /\ session' = [session EXCEPT ![pr] = held]
        /\ \A e \in Prompts : turn'[e].at = "none"
        /\ finished' = finished \cup {job[d]}
        /\ UNCHANGED <<sandbox, killing, runs, ranIn, forgotten, strays, crashes>>
    <3>1. turn' = [turn EXCEPT ![d] = NoTurn]
      BY <1>6 DEF TurnIsSaved
    <3>2. \A e \in Prompts : turn'[e].at = "none"
      BY <1>0, <2>1, <3>1 DEF WrapperTypeOK, NoTurn
    <3> QED
      BY <1>6, <3>2 DEF TurnIsSaved, SaveSession, EndRun
  <2>4. \A q \in Projects : session'[q] = IF q = pr THEN held ELSE session[q]
    BY <1>0, <2>3 DEF WrapperTypeOK
  <2>5. TextsWereRun' /\ TurnsHoldConversations'
    BY <1>0, <2>1, <2>2, <2>3 DEF Conversations, TextsWereRun, TurnsHoldConversations
  <2> HIDE DEF pr
  <2>6. HistoryStaysInProject' /\ ForgottenStaysForgotten'
    BY <1>0, <2>2, <2>3, <2>4
      DEF Conversations, HistoryStaysInProject, ForgottenStaysForgotten
  <2>7. FinishedIsRemembered'
    <3> SUFFICES ASSUME crashes = 0, NEW p \in finished' \ forgotten
                 PROVE  p \in session'[ranIn[p]]
      BY <2>3 DEF FinishedIsRemembered
    <3>1. CASE p \in held
      BY <2>1, <2>2, <2>4, <3>1
    <3>2. CASE p \notin held
      <4>1. p \in finished \ forgotten
        BY <2>3, <3>2
      <4>2. p \in session[ranIn[p]]
        BY <1>0, <2>1, <3>2, <4>1 DEF Conversations, FinishedIsRemembered, Drivers
      <4>3. ranIn[p] \in Projects
        BY <1>0, <4>1 DEF Conversations, TextsWereRun, WrapperTypeOK
      <4> QED
        BY <2>2, <2>4, <4>2, <4>3
    <3> QED
      BY <3>1, <3>2
  <2>8. TurnsAreTracked'
    <3>1. sandbox \ strays \subseteq killing
      BY <1>0, <1>6, <2>1 DEF Conversations, TurnsAreTracked, Drivers, TurnIsSaved
    <3> QED
      BY <2>3, <3>1 DEF TurnsAreTracked
  <2> QED
    BY <2>5, <2>6, <2>7, <2>8 DEF Conversations
<1>7. ASSUME NEW d \in Prompts, TurnFails(d) \/ TurnRaises(d) PROVE Conversations'
  <2>1. \A e \in Prompts \ {d} : turn[e].at = "none"
    BY <1>7, OneTurn DEF TurnFails, TurnRaises, ProcessEnds
  <2>2. /\ \A e \in Prompts : turn'[e].at = "none"
        /\ sandbox' \ strays' = IF turn[d].at = "claude" THEN (sandbox \ strays) \ {job[d]}
                                                       ELSE sandbox \ strays
        /\ turn[d].at \in {"claude", "killed"}
        /\ UNCHANGED <<session, killing, runs, ranIn, finished, forgotten, crashes>>
    <3>1. turn' = [turn EXCEPT ![d] = NoTurn]
      BY <1>7 DEF TurnFails, TurnRaises
    <3>2. \A e \in Prompts : turn'[e].at = "none"
      BY <1>0, <2>1, <3>1 DEF WrapperTypeOK, NoTurn
    <3> QED
      BY <1>7, <3>2 DEF TurnFails, TurnRaises, ProcessEnds, EndRun
  <2>3. /\ TextsWereRun' /\ TurnsHoldConversations'
        /\ HistoryStaysInProject' /\ ForgottenStaysForgotten'
    BY <1>0, <2>2
      DEF Conversations, TextsWereRun, TurnsHoldConversations, HistoryStaysInProject,
          ForgottenStaysForgotten
  <2>4. FinishedIsRemembered'
    <3>1. \A e \in Drivers : turn[e].at # "save"
      BY <1>7, <2>1 DEF Drivers, TurnFails, TurnRaises, ProcessEnds
    <3> QED
      BY <1>0, <2>2, <3>1 DEF Conversations, FinishedIsRemembered
  <2>5. TurnsAreTracked'
    <3>1. \A p \in sandbox \ strays :
             p \in killing \/ (turn[d].at = "claude" /\ p = job[d])
      BY <1>0, <2>1 DEF Conversations, TurnsAreTracked, Drivers
    <3> QED
      BY <2>2, <3>1 DEF TurnsAreTracked
  <2> QED
    BY <2>3, <2>4, <2>5 DEF Conversations
<1>8. ASSUME NEW p \in Prompts, Scan(p) \/ StrayEnds(p) PROVE Conversations'
  <2>1. /\ sandbox' \ strays' \subseteq (sandbox \ strays) \ {p}
        /\ killing \ {p} \subseteq killing'
        /\ UNCHANGED <<promptVars, session, turn, ranIn, finished, forgotten>>
    BY <1>8 DEF Scan, StrayEnds
  <2>2. /\ TextsWereRun' /\ TurnsHoldConversations' /\ HistoryStaysInProject'
        /\ ForgottenStaysForgotten' /\ FinishedIsRemembered'
    BY <1>0, <2>1
      DEF promptVars, Conversations, TextsWereRun, TurnsHoldConversations,
          HistoryStaysInProject, ForgottenStaysForgotten, FinishedIsRemembered, Drivers
  <2>3. TurnsAreTracked'
    BY <1>0, <2>1 DEF promptVars, Conversations, TurnsAreTracked, Drivers
  <2> QED
    BY <2>2, <2>3 DEF Conversations
<1>9. ASSUME Reset PROVE Conversations'
  <2>1. /\ \A d \in Prompts : turn[d].at = "none"
        /\ CurrentProject \in Projects
    BY <1>0, <1>9, OneTurn, CurrentIsAProject DEF Reset, ResetAllowed
  <2>2. /\ session' = [session EXCEPT ![CurrentProject] = {}]
        /\ forgotten' = forgotten \cup session[CurrentProject]
        /\ UNCHANGED <<promptVars, turn, sandbox, killing, ranIn, finished, strays>>
    BY <1>9 DEF Reset
  <2>3. /\ \A q \in Projects :
              session'[q] = IF q = CurrentProject THEN {} ELSE session[q]
        /\ Drivers' = Drivers
    BY <1>0, <2>2 DEF WrapperTypeOK, Drivers, promptVars
  <2>4. TextsWereRun'
    BY <1>0, <2>1, <2>2 DEF Conversations, TextsWereRun, WrapperTypeOK, promptVars
  <2>5. TurnsHoldConversations' /\ HistoryStaysInProject'
    BY <1>0, <2>1, <2>2, <2>3
      DEF Conversations, TurnsHoldConversations, HistoryStaysInProject
  <2>6. ForgottenStaysForgotten'
    <3>1. \A q \in Projects \ {CurrentProject} : session[q] \cap session[CurrentProject] = {}
      BY <1>0, <2>1 DEF Conversations, HistoryStaysInProject
    <3> QED
      BY <1>0, <2>2, <2>3, <3>1 DEF Conversations, ForgottenStaysForgotten
  <2>7. FinishedIsRemembered'
    <3> SUFFICES ASSUME crashes = 0, NEW p \in finished \ forgotten'
                 PROVE  p \in session'[ranIn[p]]
      BY <2>2 DEF FinishedIsRemembered, promptVars
    <3>1. p \in session[ranIn[p]] /\ ranIn[p] \in Projects
      BY <1>0, <2>1, <2>2
        DEF Conversations, FinishedIsRemembered, TextsWereRun, WrapperTypeOK, Drivers
    <3>2. ranIn[p] # CurrentProject
      BY <2>2, <3>1
    <3> QED
      BY <2>3, <3>1, <3>2
  <2>8. TurnsAreTracked'
    BY <1>0, <2>2, <2>3 DEF Conversations, TurnsAreTracked, promptVars
  <2> QED
    BY <2>4, <2>5, <2>6, <2>7, <2>8 DEF Conversations
<1>10. ASSUME CrashWrapper PROVE Conversations'
  <2>1. /\ \A d \in Prompts : turn'[d].at = "none"
        /\ strays' = strays \cup sandbox
        /\ crashes' # 0
        /\ UNCHANGED <<session, sandbox, runs, ranIn, finished, forgotten>>
    BY <1>0, <1>10 DEF CrashWrapper, Crash, NoTurn, TypeOK
  <2> QED
    BY <1>0, <2>1
      DEF Conversations, TextsWereRun, TurnsHoldConversations, HistoryStaysInProject,
          ForgottenStaysForgotten, FinishedIsRemembered, TurnsAreTracked
<1>11. ASSUME NEW d \in Prompts, TimerFires(d) PROVE Conversations'
  <2>1. /\ d \in Drivers /\ job[d] \in Prompts
        /\ \A e \in Prompts \ {d} : turn[e].at = "none"
    BY <1>0, <1>11, OneTurn DEF TimerFires
  <2>2. /\ turn'[d] = [turn[d] EXCEPT !.at = "killed"]
        /\ \A e \in Prompts \ {d} : turn'[e] = turn[e]
        /\ turn[d].at = "claude"
        /\ killing' = killing \cup {job[d]}
        /\ UNCHANGED <<promptVars, session, sandbox, ranIn, finished, forgotten, strays>>
    BY <1>0, <1>11 DEF TimerFires, WrapperTypeOK
  <2>3. turn'[d].at = "killed" /\ turn'[d].base = turn[d].base
            /\ turn'[d].project = turn[d].project
    BY <1>0, <2>2 DEF WrapperTypeOK
  <2>4. TextsWereRun' /\ HistoryStaysInProject' /\ ForgottenStaysForgotten'
    BY <1>0, <2>2
      DEF promptVars, Conversations, TextsWereRun, HistoryStaysInProject,
          ForgottenStaysForgotten
  <2>5. TurnsHoldConversations'
    <3> DEFINE held == turn[d].base \cup {job[d]}
    <3>1. /\ pc[d] = "running"
          /\ \A p \in held : p \in Prompts /\ ranIn[p] = turn[d].project
          /\ held \cap forgotten = {}
          /\ session[turn[d].project] = turn[d].base
      BY <1>0, <2>2 DEF Conversations, TurnsHoldConversations
    <3>2. \A e \in Prompts : turn'[e].at # "none" => e = d
      BY <2>1, <2>2
    <3> QED
      BY <2>2, <2>3, <3>1, <3>2 DEF promptVars, TurnsHoldConversations
  <2>6. FinishedIsRemembered'
    <3>1. \A e \in Drivers : turn[e].at # "save"
      BY <2>1, <2>2 DEF Drivers
    <3> QED
      BY <1>0, <2>2, <3>1 DEF promptVars, Conversations, FinishedIsRemembered
  <2>7. TurnsAreTracked'
    BY <1>0, <2>1, <2>2 DEF promptVars, Conversations, TurnsAreTracked, Drivers
  <2> QED
    BY <2>4, <2>5, <2>6, <2>7 DEF Conversations
<1> QED
  BY <1>1, <1>2, <1>3, <1>4, <1>5, <1>6, <1>7, <1>8, <1>9, <1>10, <1>11
    DEF Next, PromptStep

-----------------------------------------------------------------------------

(* The inductive invariant holds in every state the wrapper can reach.         *)
THEOREM WrapperInvariantHolds == Spec => []WrapperInvariant
<1>1. Init => TypeOK /\ QueueInvariant
  <2>1. PromptInit => QueueInvariant
    BY InitialQueue
  <2> QED
    BY <2>1 DEF Init, QueueInvariant
<1>2. Init => WrapperInvariant
  <2> SUFFICES ASSUME Init PROVE WrapperInvariant
    OBVIOUS
  <2>1. WrapperTypeOK
    BY <1>1, ProjectAssumption
      DEF Init, WrapperTypeOK, NoTurn, IdleAdmin, AdminPcs, Ops
  <2>2. TextsWereRun /\ TurnsHoldConversations /\ HistoryStaysInProject
    BY DEF Init, TextsWereRun, TurnsHoldConversations, HistoryStaysInProject, NoTurn
  <2>3. ForgottenStaysForgotten /\ FinishedIsRemembered /\ TurnsAreTracked
    BY DEF Init, ForgottenStaysForgotten, FinishedIsRemembered, TurnsAreTracked
  <2>4. RequestsNameDirectories /\ ProjectsHaveDirectories /\ RequestsReadTruly
    BY DEF Init, RequestsNameDirectories, ProjectsHaveDirectories, RequestsReadTruly,
           CurrentProject, IdleAdmin
  <2> QED
    BY <1>1, <2>1, <2>2, <2>3, <2>4 DEF WrapperInvariant
<1>3. WrapperInvariant /\ [Next]_vars => WrapperInvariant'
  <2> SUFFICES ASSUME WrapperInvariant, [Next]_vars PROVE WrapperInvariant'
    OBVIOUS
  <2>1. QueueInvariant'
    BY StepsAreQueueSteps, QueueInductive DEF WrapperInvariant
  <2>2. WrapperTypeOK'
    BY <2>1, TypesKept DEF QueueInvariant
  <2>3. RequestsNameDirectories' /\ ProjectsHaveDirectories' /\ RequestsReadTruly'
    BY DirectoriesKept, ReadingsKept
  <2>4. Conversations'
    BY ConversationsKept
  <2> QED
    BY <2>1, <2>2, <2>3, <2>4 DEF WrapperInvariant, Conversations
<1> QED
  BY <1>2, <1>3, PTL DEF Spec

(* The files, the threads' locals and the histories keep their types.          *)
THEOREM WrapperTypeCorrect == Spec => []WrapperTypeOK
<1>1. WrapperInvariant => WrapperTypeOK
  BY DEF WrapperInvariant
<1> QED
  BY <1>1, WrapperInvariantHolds, PTL

(* A conversation holds only texts that were run in its project, however many  *)
(* threads switch projects meanwhile.                                          *)
THEOREM HistoryStaysInProjectHolds == Spec => []HistoryStaysInProject
<1>1. WrapperInvariant => HistoryStaysInProject
  BY DEF WrapperInvariant
<1> QED
  BY <1>1, WrapperInvariantHolds, PTL

(* No turn writes back what /reset removed.                                    *)
THEOREM ForgottenStaysForgottenHolds == Spec => []ForgottenStaysForgotten
<1>1. WrapperInvariant => ForgottenStaysForgotten
  BY DEF WrapperInvariant
<1> QED
  BY <1>1, WrapperInvariantHolds, PTL

(* Without a crash, what was finished is remembered until /reset removes it.   *)
THEOREM FinishedIsRememberedHolds == Spec => []FinishedIsRemembered
<1>1. WrapperInvariant => FinishedIsRemembered
  BY DEF WrapperInvariant
<1> QED
  BY <1>1, WrapperInvariantHolds, PTL

(* However many runs were timed out and followed by others, no claude process  *)
(* is lost sight of but by a crash, an exception, or a scan that gives up.     *)
THEOREM TurnsAreTrackedHolds == Spec => []TurnsAreTracked
<1>1. WrapperInvariant => TurnsAreTracked
  BY DEF WrapperInvariant
<1> QED
  BY <1>1, WrapperInvariantHolds, PTL

(* No turn is run where there is no directory.                                 *)
THEOREM ProjectsHaveDirectoriesHolds == Spec => []ProjectsHaveDirectories
<1>1. WrapperInvariant => ProjectsHaveDirectories
  BY DEF WrapperInvariant
<1> QED
  BY <1>1, WrapperInvariantHolds, PTL

-----------------------------------------------------------------------------
(* The project files change in the steps of /project only.                     *)
LEMMA FilesAreForRequests ==
    ASSUME [Next]_vars, selected' # selected \/ registry' # registry
    PROVE  \E a \in Admins : Register(a) \/ WriteCurrent(a)
BY DEF Next, Accept, PromptStep, StartTurn, TimerFires, TurnEnds, TurnIsSaved, TurnFails,
       TurnRaises, OtherPromptStep, Scan, StrayEnds, Reset, CrashWrapper, vars, fileVars, ghostVars,
       Admit, ProjectStep, LoadRegistry, MakeDirectory, CheckSwitch, ReadPrevious,
       Remember, WritePrevious, OpenCurrent

(* As long as /project requests come one at a time, "back" leads back: whoever *)
(* selects a project has just written down which one was selected before.      *)
THEOREM BackLeadsBackHolds == ASSUME OneAtATime PROVE Spec => BackLeadsBack
<1>1. ASSUME WrapperInvariant, [Next]_vars, crashes = 0, selected' # selected
      PROVE  previous' = selected
  <2>1. PICK a \in Admins : WriteCurrent(a)
    BY <1>1, FilesAreForRequests DEF Register
  <2> QED
    BY <1>1, <2>1 DEF WriteCurrent, At, WrapperInvariant, RequestsReadTruly
<1>2. WrapperInvariant /\ [Next]_vars
          => [crashes = 0 /\ selected' # selected => previous' = selected]_vars
  BY <1>1
<1> QED
  BY <1>2, WrapperInvariantHolds, PTL DEF Spec, BackLeadsBack

(* As long as they come one at a time, no project that was created is dropped  *)
(* from the list, whenever the process dies.                                   *)
THEOREM ProjectsStayListedAlone == ASSUME OneAtATime PROVE Spec => ProjectsStayListed
<1>1. ASSUME WrapperInvariant, [Next]_vars PROVE registry \subseteq registry'
  <2>1. CASE registry' = registry
    BY <2>1
  <2>2. CASE registry' # registry
    <3>1. PICK a \in Admins : Register(a) \/ WriteCurrent(a)
      BY <1>1, <2>2, FilesAreForRequests
    <3> QED
      BY <1>1, <3>1 DEF Register, WriteCurrent, At, WrapperInvariant, RequestsReadTruly
  <2> QED
    BY <2>1, <2>2
<1>2. WrapperInvariant /\ [Next]_vars => [registry \subseteq registry']_vars
  BY <1>1
<1> QED
  BY <1>2, WrapperInvariantHolds, PTL DEF Spec, ProjectsStayListed
=============================================================================
