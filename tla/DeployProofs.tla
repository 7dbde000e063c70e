---------------------------- MODULE DeployProofs ----------------------------
(***************************************************************************)
(* Deploy's properties and those of AppRoutes, which surrounds it with the *)
(* proxy, proved for any repos, port range, threads, requests, restarts    *)
(* and failures.                                                           *)
(*                                                                         *)
(* Deploy's invariant is DeployInvariant: whoever holds deploy_lock is the *)
(* only one to change the state file and the containers, so what it read   *)
(* is still true when it writes.  AppRoutes uses the deploy instance as    *)
(* Deploy says, so this holds in it, and the routes follow what is         *)
(* deployed.                                                               *)
(***************************************************************************)
EXTENDS AppRoutes, TLAPS

LEMMA InitEstablishes == DeployInit => DeployInvariant
BY DeployAssumption DEF DeployInit, DeployInvariant, DeployTypeOK, ThreadIsRight, CopyIsCurrent,
      PortIsItsOwn, EntriesHavePorts, TouchedIsUntold, SavesWhatRuns, PortsHaveOneOwner,
      DeployedIsWhatRuns, NothingDeployed, Undeployed, Nothing, IdleJob, Jobs, Entries, Containers,
      Ports, Locked, Ops

(* The part of the types that speaks of the handler threads.                *)
JobsTypeOK ==
    /\ lock \in Threads \cup {NoThread}
    /\ job \in [Threads -> Jobs]
    /\ \A t \in Threads : /\ job[t].at \in Locked <=> lock = t
                          /\ job[t].at \in Locked => job[t].repo \in Repos

LEMMA IdleIsAJob == /\ IdleJob \in Jobs
                    /\ IdleJob.at = "idle" /\ IdleJob.at \notin Locked
                    /\ [IdleJob EXCEPT !.at = "answer"] \in Jobs
                    /\ [IdleJob EXCEPT !.at = "idle"] = IdleJob
                    /\ [IdleJob EXCEPT !.at = "answer"].at = "answer"
                    /\ "answer" \notin Locked
                    /\ NothingDeployed \in [Repos -> Entries]
BY DeployAssumption DEF IdleJob, Jobs, Entries, NothingDeployed, Undeployed, Ports, Locked, Ops

(* What the handlers' finally, and a step to the next place, do to threads. *)
LEMMA EndTypes ==
    ASSUME JobsTypeOK, NEW t \in Threads, job[t].at \in Locked,
           NEW w \in {"idle", "answer"}, End(t, w)
    PROVE  JobsTypeOK'
<1> DEFINE J == [IdleJob EXCEPT !.at = w]
<1>1. J \in Jobs /\ J.at \notin Locked
  BY IdleIsAJob DEF IdleJob
<1>2. job' = [job EXCEPT ![t] = J] /\ lock' = NoThread /\ lock = t
  BY DEF End, JobsTypeOK
<1> HIDE DEF J
<1> QED
  BY <1>1, <1>2, DeployAssumption DEF JobsTypeOK

LEMMA GoTypes ==
    ASSUME JobsTypeOK, NEW t \in Threads, job[t].at \in Locked,
           NEW w \in Locked, Go(t, w), UNCHANGED lock
    PROVE  JobsTypeOK'
<1>1. job[t] \in Jobs /\ [job[t] EXCEPT !.at = w] \in Jobs
  BY DEF JobsTypeOK, Jobs
<1>2. [job[t] EXCEPT !.at = w].at = w /\ [job[t] EXCEPT !.at = w].repo = job[t].repo
  BY <1>1 DEF Jobs
<1>3. job' = [job EXCEPT ![t] = [job[t] EXCEPT !.at = w]]
  BY DEF Go
<1> QED
  BY <1>1, <1>2, <1>3 DEF JobsTypeOK

LEMMA JobsTypesKept ==
    ASSUME DeployTypeOK, [DeployNext]_deployVars
    PROVE  JobsTypeOK'
<1>0. JobsTypeOK /\ state \in [Repos -> Entries]
  BY DEF DeployTypeOK, JobsTypeOK
<1>1. ASSUME NEW t \in Threads, NEW op \in Ops, NEW r \in Repos, Request(t, op, r)
      PROVE  JobsTypeOK'
  <2> DEFINE J == [IdleJob EXCEPT !.at = op, !.op = op, !.repo = r, !.version = asked + 1]
  <2>1. J \in Jobs /\ J.at = op /\ J.repo = r /\ op \in Locked
    <3>1. NothingDeployed \in [Repos -> Entries] /\ asked + 1 \in Nat
      BY IdleIsAJob DEF DeployTypeOK
    <3> QED
      BY <3>1 DEF IdleJob, Jobs, Locked, Ops
  <2>2. job' = [job EXCEPT ![t] = J] /\ lock' = t /\ lock = NoThread
    BY <1>1 DEF Request, LockIsFree
  <2> HIDE DEF J
  <2> QED
    BY <1>0, <2>1, <2>2, DeployAssumption DEF JobsTypeOK
<1>2. ASSUME NEW t \in Threads, Prepare(t) PROVE JobsTypeOK'
  <2>0. job[t].at \in Locked /\ job[t] \in Jobs
    BY <1>0, <1>2 DEF Prepare, At, JobsTypeOK, Locked, Ops
  <2>1. CASE Fail(t)
    BY <1>0, <2>0, <2>1, EndTypes DEF Fail
  <2>2. ASSUME NEW p \in Ports, UNCHANGED lock,
               job' = [job EXCEPT ![t].at = "build", ![t].port = p, ![t].copy = state]
        PROVE  JobsTypeOK'
    <3> DEFINE J == [job[t] EXCEPT !.at = "build", !.port = p, !.copy = state]
    <3>1. J \in Jobs /\ J.at = "build" /\ J.repo = job[t].repo /\ "build" \in Locked
      BY <1>0, <2>0 DEF Jobs, Locked
    <3>2. job' = [job EXCEPT ![t] = J]
      BY <2>2
    <3> HIDE DEF J
    <3> QED
      BY <1>0, <2>0, <2>2, <3>1, <3>2 DEF JobsTypeOK
  <2> QED
    BY <1>2, <2>1, <2>2 DEF Prepare
<1>3. ASSUME NEW t \in Threads, Build(t) \/ Clear(t) \/ Run(t) \/ Save(t) \/ Stop(t) \/ Drop(t)
      PROVE  JobsTypeOK'
  <2>1. job[t].at \in Locked
    BY <1>3 DEF Build, Clear, Run, Save, Stop, Drop, At, Locked, Ops
  <2>2. \/ \E w \in {"idle", "answer"} : End(t, w)
        \/ \E w \in Locked : Go(t, w) /\ UNCHANGED lock
    BY <1>3 DEF Build, Clear, Run, Save, Stop, Drop, Fail, Succeed, Locked
  <2> QED
    BY <1>0, <2>1, <2>2, EndTypes, GoTypes
<1>4. ASSUME NEW t \in Threads, Remove(t) PROVE JobsTypeOK'
  <2>0. job[t].at \in Locked /\ job[t] \in Jobs
    BY <1>0, <1>4 DEF Remove, At, JobsTypeOK, Locked, Ops
  <2>1. CASE Fail(t)
    BY <1>0, <2>0, <2>1, EndTypes DEF Fail
  <2>2. CASE job' = [job EXCEPT ![t].at = "drop", ![t].copy = state] /\ UNCHANGED lock
    <3> DEFINE J == [job[t] EXCEPT !.at = "drop", !.copy = state]
    <3>1. J \in Jobs /\ J.at = "drop" /\ J.repo = job[t].repo /\ "drop" \in Locked
      BY <1>0, <2>0 DEF Jobs, Locked
    <3>2. job' = [job EXCEPT ![t] = J]
      BY <2>2
    <3> HIDE DEF J
    <3> QED
      BY <1>0, <2>0, <2>2, <3>1, <3>2 DEF JobsTypeOK
  <2> QED
    BY <1>4, <2>1, <2>2 DEF Remove
<1>5. ASSUME NEW t \in Threads, Answered(t) PROVE JobsTypeOK'
  <2>1. lock # t
    BY <1>0, <1>5, IdleIsAJob DEF Answered, At, JobsTypeOK
  <2> QED
    BY <1>0, <1>5, <2>1, IdleIsAJob DEF Answered, JobsTypeOK
<1>6. CASE Halt
  BY <1>6, IdleIsAJob, DeployAssumption DEF Halt, JobsTypeOK
<1>7. CASE UNCHANGED <<lock, job>>
  BY <1>0, <1>7 DEF JobsTypeOK
<1> QED
  BY <1>1, <1>2, <1>3, <1>4, <1>5, <1>6, <1>7
     DEF DeployNext, Work, Exits, Resume, deployVars

(* The types are kept by every step.                                        *)
LEMMA TypesKept == DeployTypeOK /\ [DeployNext]_deployVars => DeployTypeOK'
<1> SUFFICES ASSUME DeployTypeOK, [DeployNext]_deployVars
             PROVE  DeployTypeOK'
  OBVIOUS
<1>1. JobsTypeOK /\ JobsTypeOK'
  BY JobsTypesKept DEF DeployTypeOK, JobsTypeOK
<1>2. state' \in [Repos -> Entries]
  <2>1. ASSUME NEW t \in Threads, Save(t) PROVE state' \in [Repos -> Entries]
    BY <1>1, <2>1 DEF Save, JobsTypeOK, Jobs, Entries
  <2>2. ASSUME NEW t \in Threads, Drop(t) PROVE state' \in [Repos -> Entries]
    BY <1>1, <2>2 DEF Drop, JobsTypeOK, Jobs, Entries, Undeployed
  <2> QED
    BY <2>1, <2>2 DEF DeployNext, Work, Request, Prepare, Build, Clear, Run, Stop, Remove,
                      Answered, Exits, Halt, Resume, deployVars, DeployTypeOK
<1>3. container' \in [Repos -> Containers]
  <2> USE DEF DeployTypeOK
  <2>0. /\ Nothing \in Containers
        /\ \A r \in Repos, s \in {"none", "created", "up", "exited"} :
              [container[r] EXCEPT !.status = s] \in Containers
    BY DEF Nothing, Containers
  <2>1. ASSUME NEW r \in Repos, RemoveContainer(r) PROVE container' \in [Repos -> Containers]
    BY <2>0, <2>1 DEF RemoveContainer
  <2>2. ASSUME NEW t \in Threads, Run(t) PROVE container' \in [Repos -> Containers]
    <3>1. \A s \in {"created", "up"} : NewContainer(t, s) \in Containers
      BY DEF NewContainer, Containers, Jobs
    <3> QED
      BY <2>2, <3>1 DEF Run
  <2>3. ASSUME NEW t \in Threads, Stop(t) PROVE container' \in [Repos -> Containers]
    <3>1. RepoOf(t) \in Repos
      BY <2>3 DEF Stop, At, RepoOf, Locked, Ops
    <3>2. \/ UNCHANGED container
          \/ container' = [container EXCEPT ![RepoOf(t)] =
                                 [container[RepoOf(t)] EXCEPT !.status = "exited"]]
      BY <2>3 DEF Stop
    <3> QED
      BY <2>0, <3>1, <3>2
  <2>4. ASSUME NEW r \in Repos, Exits(r) PROVE container' \in [Repos -> Containers]
    BY <2>0, <2>4 DEF Exits
  <2>5. CASE Halt
    BY <2>0, <2>5 DEF Halt
  <2>6. CASE Resume
    BY <2>0, <2>6 DEF Resume
  <2>7. ASSUME NEW t \in Threads, Clear(t) \/ Remove(t)
        PROVE  container' \in [Repos -> Containers]
    <3>1. RepoOf(t) \in Repos
      BY <2>7 DEF Clear, Remove, At, RepoOf, Locked, Ops
    <3> QED
      BY <2>1, <2>7, <3>1 DEF Clear, Remove
  <2> QED
    BY <2>2, <2>3, <2>4, <2>5, <2>6, <2>7
       DEF DeployNext, Work, Request, Prepare, Build, Save, Drop, Answered, deployVars
<1>4. up' \in BOOLEAN /\ asked' \in Nat /\ restarts' \in Nat
  <2>1. \/ asked' = asked + 1 /\ UNCHANGED <<up, restarts>>
        \/ restarts' = restarts + 1 /\ up' = FALSE /\ UNCHANGED asked
        \/ up' \in BOOLEAN /\ UNCHANGED <<asked, restarts>>
        \/ UNCHANGED <<up, asked, restarts>>
    BY DEF DeployNext, Work, Request, Prepare, Build, Clear, Run, Save, Stop, Remove, Drop,
           Answered, Exits, Halt, Resume, deployVars
  <2>2. up' \in BOOLEAN
    BY <2>1, Zenon DEF DeployTypeOK
  <2>3. asked' \in Nat /\ restarts' \in Nat
    BY <2>1 DEF DeployTypeOK
  <2> QED
    BY <2>2, <2>3
<1>5. deployed' \in [Repos -> Nat]
  <2>1. ASSUME NEW t \in Threads, Save(t) PROVE deployed' \in [Repos -> Nat]
    BY <1>1, <2>1 DEF Save, JobsTypeOK, Jobs, DeployTypeOK
  <2>2. ASSUME NEW r, Touch(r) PROVE deployed' \in [Repos -> Nat]
    BY <2>2 DEF Touch, DeployTypeOK
  <2>3. CASE UNCHANGED deployed
    BY <2>3 DEF DeployTypeOK
  <2> QED
    BY <2>1, <2>2, <2>3 DEF DeployNext, Work, Request, Prepare, Build, Clear, Run, Stop, Remove,
          Drop, Answered, Exits, Halt, Resume, deployVars
<1> QED
  BY <1>1, <1>2, <1>3, <1>4, <1>5 DEF DeployTypeOK, JobsTypeOK

-----------------------------------------------------------------------------

FilesAreRight == EntriesHavePorts /\ PortsHaveOneOwner /\ DeployedIsWhatRuns

(* A thread without the lock has nothing to be right about.                 *)
LEMMA OnlyTheHolder ==
    ASSUME DeployTypeOK, NEW t \in Threads, lock # t
    PROVE  ThreadIsRight(t)
BY DEF DeployTypeOK, Locked, Ops, ThreadIsRight, CopyIsCurrent, PortIsItsOwn, TouchedIsUntold,
       SavesWhatRuns

LEMMA OnlyTheHolderNext ==
    ASSUME DeployTypeOK', NEW t \in Threads, lock' # t
    PROVE  ThreadIsRight(t)'
BY DEF DeployTypeOK, Locked, Ops, ThreadIsRight, CopyIsCurrent, PortIsItsOwn, TouchedIsUntold,
       SavesWhatRuns, RepoOf

(* Where a thread is afterwards.                                            *)
LEMMA AfterGo ==
    ASSUME DeployTypeOK, NEW t \in Threads, NEW w, Go(t, w)
    PROVE  /\ job'[t].at = w /\ job'[t].repo = job[t].repo /\ job'[t].port = job[t].port
           /\ job'[t].version = job[t].version /\ job'[t].copy = job[t].copy
BY DEF DeployTypeOK, Jobs, Go

LEMMA StepsOfThreads ==
    ASSUME DeployInvariant, DeployTypeOK', NEW t \in Threads, Work(t)
    PROVE  ThreadIsRight(t)' /\ FilesAreRight'
<1>0. /\ DeployTypeOK /\ ThreadIsRight(t) /\ FilesAreRight
      /\ job[t] \in Jobs /\ job[t].at \in Locked /\ RepoOf(t) \in Repos /\ lock = t
  <2>1. DeployTypeOK /\ ThreadIsRight(t) /\ FilesAreRight
    BY DEF DeployInvariant, FilesAreRight
  <2>2. job[t].at \in Locked
    BY DEF Work, Prepare, Build, Clear, Run, Save, Stop, Remove, Drop, At, Locked, Ops
  <2> QED
    BY <2>1, <2>2 DEF DeployTypeOK, RepoOf
<1>1. ASSUME NEW w, End(t, w) PROVE ThreadIsRight(t)'
  BY <1>1, DeployAssumption, OnlyTheHolderNext DEF End
<1>2. CASE Prepare(t)
  <2>1. FilesAreRight'
    BY <1>0, <1>2 DEF Prepare, FilesAreRight, EntriesHavePorts, PortsHaveOneOwner,
                      DeployedIsWhatRuns
  <2>2. ASSUME NEW p \in Ports, Allocates(RepoOf(t), state, p),
               job' = [job EXCEPT ![t].at = "build", ![t].port = p, ![t].copy = state]
        PROVE  ThreadIsRight(t)'
    <3>1. /\ job'[t].at = "build" /\ job'[t].port = p /\ job'[t].copy = state
          /\ job'[t].repo = job[t].repo /\ state' = state
      BY <1>0, <1>2, <2>2 DEF Prepare, DeployTypeOK, Jobs
    <3>2. p # 0
      BY DeployAssumption DEF Ports
    <3>3. state[RepoOf(t)].port \in {0, p}
      BY <2>2 DEF Allocates
    <3>4. \A q \in Repos \ {RepoOf(t)} : state[q].port # p
      <4>1. CASE state[RepoOf(t)].port # 0
        BY <1>0, <2>2, <4>1 DEF Allocates, FilesAreRight, PortsHaveOneOwner, Undeployed
      <4>2. CASE state[RepoOf(t)].port = 0
        BY <2>2, <4>2 DEF Allocates, PortsUsed
      <4> QED
        BY <4>1, <4>2
    <3> QED
      BY <3>1, <3>2, <3>3, <3>4
         DEF ThreadIsRight, CopyIsCurrent, PortIsItsOwn, TouchedIsUntold, SavesWhatRuns, RepoOf
  <2> QED
    BY <1>1, <1>2, <2>1, <2>2 DEF Prepare, Fail
<1>3. CASE Build(t)
  <2>1. FilesAreRight'
    BY <1>0, <1>3 DEF Build, FilesAreRight, EntriesHavePorts, PortsHaveOneOwner,
                      DeployedIsWhatRuns
  <2>2. ASSUME Go(t, "clear") PROVE ThreadIsRight(t)'
    <3>1. /\ job'[t].at = "clear" /\ job'[t].repo = job[t].repo
          /\ job'[t].port = job[t].port /\ job'[t].copy = job[t].copy
      BY <1>0, <2>2, AfterGo
    <3>2. job[t].at = "build" /\ state' = state
      BY <1>3 DEF Build, At
    <3> QED
      BY <1>0, <3>1, <3>2
         DEF ThreadIsRight, CopyIsCurrent, PortIsItsOwn, TouchedIsUntold, SavesWhatRuns, RepoOf
  <2> QED
    BY <1>1, <1>3, <2>1, <2>2 DEF Build, Fail
<1>4. CASE Clear(t)
  <2>1. FilesAreRight'
    BY <1>0, <1>4 DEF Clear, RemoveContainer, Touch, Nothing, FilesAreRight, EntriesHavePorts,
                      PortsHaveOneOwner, DeployedIsWhatRuns, DeployTypeOK, Containers
  <2>2. ASSUME Go(t, "run") PROVE ThreadIsRight(t)'
    <3>1. /\ job'[t].at = "run" /\ job'[t].repo = job[t].repo
          /\ job'[t].port = job[t].port /\ job'[t].copy = job[t].copy
      BY <1>0, <2>2, AfterGo
    <3>2. job[t].at = "clear" /\ state' = state /\ deployed'[RepoOf(t)] = 0
      BY <1>0, <1>4 DEF Clear, At, Touch, DeployTypeOK
    <3> QED
      BY <1>0, <3>1, <3>2
         DEF ThreadIsRight, CopyIsCurrent, PortIsItsOwn, TouchedIsUntold, SavesWhatRuns, RepoOf
  <2> QED
    BY <1>1, <1>4, <2>1, <2>2 DEF Clear, Fail
<1>5. CASE Run(t)
  <2>1. /\ deployed[RepoOf(t)] = 0 /\ UNCHANGED <<state, deployed>>
        /\ \A q \in Repos \ {RepoOf(t)} : container'[q] = container[q]
        /\ \/ container'[RepoOf(t)] = container[RepoOf(t)]
           \/ \E s \in {"created", "up"} : container'[RepoOf(t)] = NewContainer(t, s)
    BY <1>0, <1>5 DEF Run, At, ThreadIsRight, CopyIsCurrent, PortIsItsOwn, TouchedIsUntold,
                  SavesWhatRuns, DeployTypeOK
  <2>2. state[RepoOf(t)].port \in {0, job[t].port}
    BY <1>0, <1>5 DEF Run, At, ThreadIsRight, CopyIsCurrent, PortIsItsOwn, TouchedIsUntold,
                  SavesWhatRuns
  <2>3. FilesAreRight'
    BY <1>0, <2>1, <2>2 DEF NewContainer, FilesAreRight, EntriesHavePorts,
                            PortsHaveOneOwner, DeployedIsWhatRuns
  <2>4. ASSUME Go(t, "save"),
               container' = [container EXCEPT ![RepoOf(t)] = NewContainer(t, "up")]
        PROVE  ThreadIsRight(t)'
    <3>1. container'[RepoOf(t)] = NewContainer(t, "up")
      BY <1>0, <2>4 DEF DeployTypeOK
    <3>2. /\ job'[t].at = "save" /\ job'[t].repo = job[t].repo
          /\ job'[t].port = job[t].port /\ job'[t].copy = job[t].copy
          /\ job'[t].version = job[t].version
      BY <1>0, <2>4, AfterGo
    <3>3. job[t].at = "run" /\ state' = state /\ deployed' = deployed
      BY <1>5 DEF Run, At
    <3> QED
      BY <1>0, <3>1, <3>2, <3>3
         DEF ThreadIsRight, CopyIsCurrent, PortIsItsOwn, TouchedIsUntold, SavesWhatRuns, RepoOf,
             NewContainer
  <2> QED
    BY <1>1, <1>5, <2>3, <2>4 DEF Run, Fail
<1>6. CASE Save(t)
  <2>1. /\ job[t].copy = state /\ job[t].port # 0
        /\ \A q \in Repos \ {RepoOf(t)} : state[q].port # job[t].port
        /\ container[RepoOf(t)].port = job[t].port
        /\ container[RepoOf(t)].version = job[t].version
        /\ container[RepoOf(t)].status \in {"up", "exited"}
    BY <1>0, <1>6 DEF Save, At, ThreadIsRight, CopyIsCurrent, PortIsItsOwn, TouchedIsUntold,
                  SavesWhatRuns
  <2>2. /\ state'[RepoOf(t)] = [port |-> job[t].port, version |-> job[t].version]
        /\ deployed'[RepoOf(t)] = job[t].version /\ UNCHANGED container
        /\ \A q \in Repos \ {RepoOf(t)} : state'[q] = state[q] /\ deployed'[q] = deployed[q]
    BY <1>0, <1>6, <2>1 DEF Save, DeployTypeOK
  <2>3. FilesAreRight'
    BY <1>0, <2>1, <2>2 DEF FilesAreRight, EntriesHavePorts, PortsHaveOneOwner,
                            DeployedIsWhatRuns
  <2> QED
    BY <1>1, <1>6, <2>3 DEF Save, Succeed
<1>7. CASE Stop(t)
  <2>1. /\ UNCHANGED <<state, deployed>>
        /\ \A q \in Repos : \/ container'[q] = container[q]
                            \/ /\ container'[q].port = container[q].port
                               /\ container'[q].version = container[q].version
                               /\ container'[q].status = "exited"
                               /\ container[q].status = "up"
    <3>1. \/ UNCHANGED container
          \/ /\ container[RepoOf(t)].status = "up"
             /\ container' = [container EXCEPT ![RepoOf(t)] =
                                 [container[RepoOf(t)] EXCEPT !.status = "exited"]]
      BY <1>7 DEF Stop
    <3> QED
      BY <1>0, <1>7, <3>1 DEF Stop, DeployTypeOK, Containers
  <2>2. FilesAreRight'
    BY <1>0, <2>1 DEF FilesAreRight, EntriesHavePorts, PortsHaveOneOwner,
                      DeployedIsWhatRuns, Nothing
  <2> QED
    BY <1>1, <1>7, <2>2 DEF Stop, Fail, Succeed
<1>8. CASE Remove(t)
  <2>1. FilesAreRight'
    <3>1. CASE UNCHANGED <<state, container, deployed>>
      BY <1>0, <3>1 DEF FilesAreRight, EntriesHavePorts, PortsHaveOneOwner, DeployedIsWhatRuns
    <3>2. CASE RemoveContainer(RepoOf(t)) /\ Touch(RepoOf(t)) /\ UNCHANGED state
      BY <1>0, <3>2 DEF RemoveContainer, Touch, Nothing, FilesAreRight, EntriesHavePorts,
                        PortsHaveOneOwner, DeployedIsWhatRuns, DeployTypeOK, Containers
    <3> QED
      BY <1>8, <3>1, <3>2 DEF Remove
  <2>2. ASSUME Touch(RepoOf(t)), UNCHANGED state,
               job' = [job EXCEPT ![t].at = "drop", ![t].copy = state]
        PROVE  ThreadIsRight(t)'
    <3>1. /\ job'[t].at = "drop" /\ job'[t].copy = state /\ job'[t].repo = job[t].repo
          /\ deployed'[RepoOf(t)] = 0
      BY <1>0, <2>2 DEF Touch, DeployTypeOK, Jobs
    <3>2. state' = state
      BY <2>2
    <3> QED
      BY <3>1, <3>2
         DEF ThreadIsRight, CopyIsCurrent, PortIsItsOwn, TouchedIsUntold, SavesWhatRuns, RepoOf
  <2> QED
    BY <1>1, <1>8, <2>1, <2>2 DEF Remove, Fail
<1>9. CASE Drop(t)
  <2>1. /\ state'[RepoOf(t)] = Undeployed /\ deployed[RepoOf(t)] = 0
        /\ UNCHANGED <<container, deployed>>
        /\ \A q \in Repos \ {RepoOf(t)} : state'[q] = state[q]
    BY <1>0, <1>9 DEF Drop, At, ThreadIsRight, CopyIsCurrent, PortIsItsOwn, TouchedIsUntold,
                  SavesWhatRuns, DeployTypeOK
  <2>2. FilesAreRight'
    BY <1>0, <2>1 DEF FilesAreRight, EntriesHavePorts, PortsHaveOneOwner,
                      DeployedIsWhatRuns, Undeployed
  <2> QED
    BY <1>1, <1>9, <2>2 DEF Drop, Succeed
<1> QED
  BY <1>2, <1>3, <1>4, <1>5, <1>6, <1>7, <1>8, <1>9 DEF Work

(* The steps of nobody's work: a request comes in, an answer goes out, an   *)
(* app ends, the process dies, resume_if_needed runs.                       *)
LEMMA OtherSteps ==
    ASSUME DeployInvariant, DeployTypeOK', [DeployNext]_deployVars,
           ~ \E t \in Threads : Work(t)
    PROVE  (\A t \in Threads : ThreadIsRight(t)') /\ FilesAreRight'
<1>0. DeployTypeOK /\ (\A t \in Threads : ThreadIsRight(t)) /\ FilesAreRight
  BY DEF DeployInvariant, FilesAreRight
<1> USE DEF FilesAreRight, EntriesHavePorts, PortsHaveOneOwner, DeployedIsWhatRuns
<1>1. ASSUME NEW t \in Threads, NEW op \in Ops, NEW r \in Repos, Request(t, op, r)
      PROVE  (\A u \in Threads : ThreadIsRight(u)') /\ FilesAreRight'
  <2>1. FilesAreRight'
    BY <1>0, <1>1 DEF Request
  <2>2. ThreadIsRight(t)'
    <3>1. job'[t].at \in Ops
      BY <1>0, <1>1 DEF Request, DeployTypeOK, IdleJob
    <3> QED
      BY <3>1 DEF Ops, ThreadIsRight, CopyIsCurrent, PortIsItsOwn, TouchedIsUntold, SavesWhatRuns
  <2> QED
    BY <1>1, <2>1, <2>2, OnlyTheHolderNext DEF Request
<1>2. ASSUME NEW t \in Threads, Answered(t)
      PROVE  (\A u \in Threads : ThreadIsRight(u)') /\ FilesAreRight'
  <2>1. FilesAreRight'
    BY <1>0, <1>2 DEF Answered
  <2>2. ASSUME NEW u \in Threads PROVE ThreadIsRight(u)'
    <3>1. CASE u = t
      BY <1>0, <1>2, <3>1, IdleIsAJob DEF Answered, DeployTypeOK, ThreadIsRight, CopyIsCurrent,
                                    PortIsItsOwn, TouchedIsUntold, SavesWhatRuns
    <3>2. CASE u # t
      <4>1. job'[u] = job[u] /\ UNCHANGED <<state, container, deployed>>
        BY <1>0, <1>2, <3>2 DEF Answered, DeployTypeOK
      <4> QED
        BY <1>0, <4>1 DEF ThreadIsRight, CopyIsCurrent, PortIsItsOwn, TouchedIsUntold,
                          SavesWhatRuns, RepoOf
    <3> QED
      BY <3>1, <3>2
  <2> QED
    BY <2>1, <2>2
<1>3. ASSUME NEW r \in Repos, Exits(r)
      PROVE  (\A u \in Threads : ThreadIsRight(u)') /\ FilesAreRight'
  <2>1. /\ UNCHANGED <<state, job, deployed>>
        /\ \A q \in Repos : \/ container'[q] = container[q]
                            \/ /\ container'[q].port = container[q].port
                               /\ container'[q].version = container[q].version
                               /\ container'[q].status = "exited"
                               /\ container[q].status = "up"
    BY <1>0, <1>3 DEF Exits, DeployTypeOK, Containers
  <2>2. FilesAreRight'
    BY <1>0, <2>1 DEF Nothing
  <2>3. ASSUME NEW u \in Threads PROVE ThreadIsRight(u)'
    <3>1. job[u].at = "save" => RepoOf(u) \in Repos
      BY <1>0 DEF DeployTypeOK, RepoOf, Locked
    <3> QED
      BY <1>0, <2>1, <3>1 DEF ThreadIsRight, CopyIsCurrent, PortIsItsOwn, TouchedIsUntold,
                        SavesWhatRuns, RepoOf
  <2> QED
    BY <2>2, <2>3
<1>4. ASSUME Halt
      PROVE  (\A u \in Threads : ThreadIsRight(u)') /\ FilesAreRight'
  <2>1. /\ UNCHANGED <<state, deployed>>
        /\ \A q \in Repos : \/ container'[q] = container[q]
                            \/ /\ container'[q].port = container[q].port
                               /\ container'[q].version = container[q].version
                               /\ container'[q].status = "exited"
                               /\ container[q].status = "up"
    BY <1>0, <1>4 DEF Halt, DeployTypeOK, Containers
  <2>2. FilesAreRight'
    BY <1>0, <2>1 DEF Nothing
  <2> QED
    BY <1>4, <2>2, OnlyTheHolderNext, DeployAssumption DEF Halt
<1>5. ASSUME Resume
      PROVE  (\A u \in Threads : ThreadIsRight(u)') /\ FilesAreRight'
  <2>1. /\ UNCHANGED <<state, job, deployed>>
        /\ \A q \in Repos : \/ container'[q] = container[q]
                            \/ /\ container'[q].port = container[q].port
                               /\ container'[q].version = container[q].version
                               /\ container'[q].status = "up"
                               /\ container[q].status \in {"created", "exited"}
    BY <1>0, <1>5 DEF Resume, Resumable, DeployTypeOK, Containers
  <2>2. FilesAreRight'
    BY <1>0, <2>1 DEF Nothing
  <2>3. ASSUME NEW u \in Threads PROVE ThreadIsRight(u)'
    <3>1. job[u].at = "save" => RepoOf(u) \in Repos
      BY <1>0 DEF DeployTypeOK, RepoOf, Locked
    <3> QED
      BY <1>0, <2>1, <3>1 DEF ThreadIsRight, CopyIsCurrent, PortIsItsOwn, TouchedIsUntold,
                        SavesWhatRuns, RepoOf
  <2> QED
    BY <2>2, <2>3
<1>6. ASSUME UNCHANGED deployVars
      PROVE  (\A u \in Threads : ThreadIsRight(u)') /\ FilesAreRight'
  BY <1>0, <1>6 DEF deployVars, ThreadIsRight, CopyIsCurrent, PortIsItsOwn, TouchedIsUntold,
                    SavesWhatRuns, RepoOf
<1> QED
  BY <1>1, <1>2, <1>3, <1>4, <1>5, <1>6 DEF DeployNext

LEMMA InvariantKept == DeployInvariant /\ [DeployNext]_deployVars => DeployInvariant'
<1> SUFFICES ASSUME DeployInvariant, [DeployNext]_deployVars PROVE DeployInvariant'
  OBVIOUS
<1>1. DeployTypeOK'
  BY TypesKept DEF DeployInvariant
<1>2. (\A t \in Threads : ThreadIsRight(t)') /\ FilesAreRight'
  <2>1. ASSUME NEW t \in Threads, Work(t)
        PROVE  (\A u \in Threads : ThreadIsRight(u)') /\ FilesAreRight'
    <3>1. lock = t
      BY <2>1 DEF Work, Prepare, Build, Clear, Run, Save, Stop, Remove, Drop, At, Locked, Ops,
                  DeployInvariant, DeployTypeOK
    <3>2. lock' \in {t, NoThread}
      BY <2>1, <3>1 DEF Work, Prepare, Build, Clear, Run, Save, Stop, Remove, Drop, Fail, Succeed, End
    <3> QED
      BY <1>1, <2>1, <3>2, StepsOfThreads, OnlyTheHolderNext, DeployAssumption
  <2> QED
    BY <1>1, <2>1, OtherSteps
<1> QED
  BY <1>1, <1>2 DEF DeployInvariant, FilesAreRight

(* DeployInvariant holds for any repos, ports, threads and crashes.         *)
THEOREM DeployInvariantHolds == DeploySpec => []DeployInvariant
<1> QED
  BY InitEstablishes, InvariantKept, PTL DEF DeploySpec

(* Types, and that whoever is at work holds deploy_lock.                    *)
THEOREM DeployTypeCorrect == DeploySpec => []DeployTypeOK
<1>1. DeployInvariant => DeployTypeOK
  BY DEF DeployInvariant
<1> QED
  BY <1>1, DeployInvariantHolds, PTL

(* A port has one owner, and the container of a listed repo listens there.  *)
THEOREM PortsHaveOneOwnerHolds == DeploySpec => []PortsHaveOneOwner
<1>1. DeployInvariant => PortsHaveOneOwner
  BY DEF DeployInvariant
<1> QED
  BY <1>1, DeployInvariantHolds, PTL

(* What was reported as deployed stays what is listed and there to run.     *)
THEOREM DeployedIsWhatRunsHolds == DeploySpec => []DeployedIsWhatRuns
<1>1. DeployInvariant => DeployedIsWhatRuns
  BY DEF DeployInvariant
<1> QED
  BY <1>1, DeployInvariantHolds, PTL

(* Besides ending by themselves and being resumed, entries and containers   *)
(* change by requests for their own repo only.                              *)
THEOREM OthersAreLeftAloneHolds == DeploySpec => OthersAreLeftAlone
<1>1. ASSUME DeployInvariant, DeployNext, NEW r \in Repos PROVE LeftAlone(r)
  <2>0. DeployTypeOK
    BY <1>1 DEF DeployInvariant
  <2>1. ASSUME NEW t \in Threads, Work(t) PROVE LeftAlone(r)
    <3>1. job[t].at \in Locked
      BY <2>1 DEF Work, Prepare, Build, Clear, Run, Save, Stop, Remove, Drop, At, Locked, Ops
    <3>2. CASE RepoOf(t) = r
      BY <3>1, <3>2 DEF LeftAlone
    <3>3. CASE RepoOf(t) # r
      <4>1. state'[r] = state[r]
        <5>1. job[t].at \in {"save", "drop"} => job[t].copy = state
          BY <1>1 DEF DeployInvariant, ThreadIsRight, CopyIsCurrent
        <5> QED
          BY <2>0, <2>1, <3>3, <5>1 DEF Work, Prepare, Build, Clear, Run, Save, Stop, Remove, Drop,
                                       At, DeployTypeOK
      <4>2. container'[r] = container[r]
        BY <2>0, <2>1, <3>3 DEF Work, Prepare, Build, Clear, Run, Save, Stop, Remove, Drop,
                                RemoveContainer, DeployTypeOK
      <4> QED
        BY <4>1, <4>2 DEF LeftAlone
    <3> QED
      BY <3>2, <3>3
  <2>2. ASSUME NEW q \in Repos, Exits(q) PROVE LeftAlone(r)
    BY <2>0, <2>2 DEF Exits, LeftAlone, DeployTypeOK
  <2>3. CASE Halt
    BY <2>0, <2>3 DEF Halt, LeftAlone, DeployTypeOK
  <2>4. CASE Resume
    BY <2>4 DEF Resume, LeftAlone
  <2>5. CASE UNCHANGED <<state, container>>
    BY <2>5 DEF LeftAlone
  <2> QED
    BY <1>1, <2>1, <2>2, <2>3, <2>4, <2>5 DEF DeployNext, Request, Answered
<1>2. DeployInvariant /\ [DeployNext]_deployVars =>
         [\A r \in Repos : LeftAlone(r)]_deployVars
  BY <1>1
<1> QED
  BY <1>2, DeployInvariantHolds, PTL DEF DeploySpec, OthersAreLeftAlone

-----------------------------------------------------------------------------
(* AppRoutes.                                                               *)

(* The proxy uses the deploy instance only as it may be used.               *)
THEOREM RoutesKeepToDeploy == AppsSpec => DeploySpec
<1>1. AppsInit => DeployInit
  BY DEF AppsInit
<1>2. [AppsNext]_appVars => [DeployNext]_deployVars
  BY DEF AppsNext, appVars, Relay, Elsewhere, Succeeded, GaveUp, SyncFails, Status, WriteApps,
         WritePage, Reload, GateMoves, DaemonRestart, Sync, DeployNext
<1> QED
  BY <1>1, <1>2, PTL DEF AppsSpec, DeploySpec

-----------------------------------------------------------------------------

LEMMA InitTypes == AppsInit => AppsTypeOK
<1> SUFFICES ASSUME AppsInit PROVE AppsTypeOK
  OBVIOUS
<1>1. DeployTypeOK
  BY InitEstablishes DEF AppsInit, DeployInvariant
<1>2. NoRoutes \in Routes
  BY DEF NoRoutes, Routes
<1>3. daemonRestarts \in 0..MaxDaemonRestarts
  BY RoutesAssumption DEF AppsInit
<1> QED
  BY <1>1, <1>2, <1>3 DEF AppsInit, AppsTypeOK, Relays, Resting

LEMMA RenderingTypes ==
    ASSUME state \in [Repos -> Entries]
    PROVE  Deployments \in Routes
BY DEF Deployments, Routes, Entries

(* The types are kept; those of Deploy by Deploy's own theorem.             *)
LEMMA AppTypesKept == AppsTypeOK /\ DeployTypeOK' /\ [AppsNext]_appVars => AppsTypeOK'
<1> SUFFICES ASSUME AppsTypeOK, DeployTypeOK', [AppsNext]_appVars PROVE AppsTypeOK'
  OBVIOUS
<1> DEFINE Places == {"idle", "wait", "status", "apps", "page", "reload"}
           Locals == [at : Places, seen : Routes]
<1>0. /\ relay \in [Relays -> Locals] /\ Resting \in Locals /\ Resting.at = "idle"
      /\ Threads \subseteq Relays /\ Main \in Relays /\ Main \notin Threads
  BY RoutesAssumption DEF AppsTypeOK, Resting, NoRoutes, Routes, Relays
<1>1. relay' \in [Relays -> Locals] /\ relay'[Main].at # "wait"
  <2>1. ASSUME NEW t \in Threads, NEW w \in Places, Step(t, w)
        PROVE  relay' \in [Relays -> Locals] /\ relay'[Main].at # "wait"
    BY <1>0, <2>1 DEF Step, AppsTypeOK
  <2>2. ASSUME NEW s \in Relays, NEW w \in Places \ {"wait"}, Step(s, w)
        PROVE  relay' \in [Relays -> Locals] /\ relay'[Main].at # "wait"
    BY <1>0, <2>2 DEF Step, AppsTypeOK
  <2>3. ASSUME NEW s \in Relays, Rest(s)
        PROVE  relay' \in [Relays -> Locals] /\ relay'[Main].at # "wait"
    BY <1>0, <2>3 DEF Rest, AppsTypeOK
  <2>4. ASSUME NEW s \in Relays, Status(s)
        PROVE  relay' \in [Relays -> Locals] /\ relay'[Main].at # "wait"
    <3>1. [at |-> "apps", seen |-> Deployments] \in Locals
      BY RenderingTypes DEF AppsTypeOK, DeployTypeOK
    <3> QED
      BY <1>0, <2>4, <3>1 DEF Status, AppsTypeOK
  <2>5. CASE DaemonRestart
    BY <1>0, <2>5 DEF DaemonRestart, Resting, NoRoutes, Routes
  <2>6. CASE UNCHANGED relay
    BY <1>0, <2>6 DEF AppsTypeOK
  <2> QED
    BY <1>0, <2>1, <2>2, <2>3, <2>4, <2>5, <2>6
       DEF AppsNext, appVars, routeVars, Relay, Elsewhere, Succeeded, GaveUp, Sync, SyncFails,
           WriteApps, WritePage, Reload, GateMoves
<1>2. appsConf' \in Routes /\ routes' \in Routes /\ page' \in SUBSET (Repos \ {Primary})
  <2>1. \A s \in Relays : /\ RenderApps(relay[s].seen) \in Routes
                          /\ RenderPage(relay[s].seen) \in SUBSET (Repos \ {Primary})
    BY <1>0 DEF RenderApps, RenderPage, Routes
  <2> QED
    BY <2>1 DEF AppsNext, appVars, routeVars, Relay, Elsewhere, Succeeded, GaveUp, Sync, SyncFails,
           Status, WriteApps, WritePage, Reload, GateMoves, DaemonRestart, AppsTypeOK
<1>3. missed' \in BOOLEAN /\ overlapped' \in BOOLEAN
  BY DEF AppsNext, appVars, routeVars, Relay, Elsewhere, Succeeded, GaveUp, Sync, SyncFails,
         Status, WriteApps, WritePage, Reload, GateMoves, DaemonRestart, AppsTypeOK
<1>4. daemonRestarts' \in 0..MaxDaemonRestarts
  <2>1. \/ UNCHANGED daemonRestarts
        \/ daemonRestarts < MaxDaemonRestarts /\ daemonRestarts' = daemonRestarts + 1
    BY DEF AppsNext, appVars, routeVars, Relay, Elsewhere, Succeeded, GaveUp, Sync,
           SyncFails, Status, WriteApps, WritePage, Reload, GateMoves, DaemonRestart
  <2> QED
    BY <2>1, RoutesAssumption DEF AppsTypeOK
<1> QED
  BY <1>0, <1>1, <1>2, <1>3, <1>4 DEF AppsTypeOK

(* The daemon's variables keep their types.                                 *)
THEOREM AppsTypeCorrect == AppsSpec => []AppsTypeOK
<1> QED
  BY InitTypes, AppTypesKept, RoutesKeepToDeploy, DeployTypeCorrect, PTL DEF AppsSpec

-----------------------------------------------------------------------------

LEMMA RoutesInit == AppsInit => RoutesInvariant
<1> SUFFICES ASSUME AppsInit PROVE AllIsWritten
  BY DEF RoutesInvariant
<1>1. \A r \in Repos : Deployments[r] = 0
  BY DEF AppsInit, DeployInit, Deployments, NothingDeployed, Undeployed
<1>2. NoRoutes = RenderApps(Deployments) /\ RenderPage(Deployments) = {}
  BY <1>1 DEF NoRoutes, RenderApps, RenderPage
<1> QED
  BY <1>2 DEF AppsInit, AllIsWritten, Writing, Resting

LEMMA RoutesKept == AppsTypeOK /\ RoutesInvariant /\ [AppsNext]_appVars => RoutesInvariant'
<1> SUFFICES ASSUME AppsTypeOK, RoutesInvariant, [AppsNext]_appVars, ~missed', ~overlapped'
             PROVE  AllIsWritten' \/ \E s \in Relays : WritesWhatIsThere(s)'
  BY DEF RoutesInvariant
<1> DEFINE Right  == AllIsWritten \/ \E s \in Relays : WritesWhatIsThere(s)
<1>0. Threads \subseteq Relays
  BY DEF Relays
\* A reading of /status that no other sync is around of starts afresh.
<1>1. ASSUME NEW s \in Relays, Status(s) PROVE WritesWhatIsThere(s)'
  BY <1>1 DEF Status, WritesWhatIsThere, Writing, Working, AppsTypeOK, Deployments, deployVars
\* Every other step has a writer or a finished sync to start from.
<1>2. CASE ~missed /\ ~overlapped /\ Deployments' = Deployments
  <2>0. Right
    BY <1>2 DEF RoutesInvariant
  <2>1. ASSUME NEW s \in Relays, WriteApps(s) PROVE WritesWhatIsThere(s)'
    <3>1. WritesWhatIsThere(s)
      BY <2>0, <2>1 DEF WriteApps, AllIsWritten, WritesWhatIsThere, Writing
    <3> QED
      BY <1>2, <2>1, <3>1 DEF WriteApps, Step, WritesWhatIsThere, Writing, AppsTypeOK
  <2>2. ASSUME NEW s \in Relays, WritePage(s) PROVE WritesWhatIsThere(s)'
    <3>1. WritesWhatIsThere(s)
      BY <2>0, <2>2 DEF WritePage, AllIsWritten, WritesWhatIsThere, Writing
    <3> QED
      BY <1>2, <2>2, <3>1 DEF WritePage, Step, WritesWhatIsThere, Writing, AppsTypeOK
  <2>3. ASSUME NEW s \in Relays, Reload(s) PROVE AllIsWritten'
    <3>1. WritesWhatIsThere(s)
      BY <2>0, <2>3 DEF Reload, AllIsWritten, WritesWhatIsThere, Writing
    <3> QED
      BY <1>2, <2>3, <3>1 DEF Reload, Rest, Resting, AllIsWritten, WritesWhatIsThere, Writing,
                              AppsTypeOK
  <2>4. CASE GateMoves
    BY <1>2, <2>0, <2>4 DEF GateMoves, AllIsWritten, WritesWhatIsThere, Writing
  <2>5. ASSUME UNCHANGED <<appsConf, page, routes>>,
               \A s \in Relays : \/ relay'[s] = relay[s]
                                 \/ ~Writing(s) /\ ~Writing(s)'
        PROVE  Right'
    BY <1>2, <2>0, <2>5 DEF AllIsWritten, WritesWhatIsThere, Writing
  <2>6. CASE Elsewhere \/ UNCHANGED appVars
    BY <2>5, <2>6 DEF Elsewhere, appVars, routeVars
  <2>7. ASSUME NEW t \in Threads, Succeeded(t) \/ GaveUp(t) \/ \E op \in Ops, r \in Repos : Relay(t, op, r)
        PROVE  Right'
    <3>1. \A s \in Relays : \/ relay'[s] = relay[s]
                            \/ ~Writing(s) /\ ~Writing(s)'
      BY <1>0, <2>7 DEF Succeeded, GaveUp, Relay, Step, Rest, Resting, Writing, AppsTypeOK
    <3> QED
      BY <2>5, <2>7, <3>1 DEF Succeeded, GaveUp, Relay
  <2> QED
    BY <1>1, <2>1, <2>2, <2>3, <2>4, <2>6, <2>7
       DEF AppsNext, Sync, SyncFails, DaemonRestart
<1>3. \/ \E s \in Relays : Status(s)
      \/ ~missed /\ ~overlapped /\ Deployments' = Deployments
  <2>1. CASE Elsewhere
    BY <2>1, Zenon DEF Elsewhere
  <2>2. CASE \/ UNCHANGED <<deployVars, missed, overlapped>>
             \/ \E t \in Threads : \/ Succeeded(t)
                                   \/ \E op \in Ops, r \in Repos : Relay(t, op, r)
    BY <2>2 DEF deployVars, Deployments, Relay, Succeeded, Request, Answered
  <2> QED
    BY <2>1, <2>2
       DEF AppsNext, appVars, routeVars, GaveUp, Sync, SyncFails, WriteApps, WritePage, Reload,
           GateMoves, DaemonRestart
<1> QED
  BY <1>1, <1>2, <1>3

(* The invariant behind RoutesFollow, for any number of threads and repos.  *)
THEOREM RoutesInvariantHolds == AppsSpec => []RoutesInvariant
<1> QED
  BY RoutesInit, RoutesKept, AppsTypeCorrect, PTL DEF AppsSpec

(* When no sync is at work, none failed or was overtaken and nothing changed *)
(* since, nginx's routes and the landing page are what is deployed.          *)
THEOREM RoutesFollowHolds == AppsSpec => []RoutesFollow
<1>1. RoutesInvariant /\ DeployInvariant => RoutesFollow
  <2> SUFFICES ASSUME RoutesInvariant, DeployInvariant, ~missed, ~overlapped,
                      \A s \in Relays : ~Working(s), NEW r \in Repos \ {Primary}
               PROVE  routes[r] = state[r].port /\ (r \in page <=> state[r] # Undeployed)
    BY DEF RoutesFollow
  <2>1. AllIsWritten
    BY DEF RoutesInvariant, WritesWhatIsThere, Writing, Working
  <2>2. state[r].port # 0 <=> state[r] # Undeployed
    BY DEF DeployInvariant, EntriesHavePorts, Undeployed
  <2> QED
    BY <2>1, <2>2 DEF AllIsWritten, RenderApps, RenderPage, Deployments
<1> QED
  BY <1>1, RoutesInvariantHolds, RoutesKeepToDeploy, DeployInvariantHolds, PTL

=============================================================================
