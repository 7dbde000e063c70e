------------------------------- MODULE Deploy -------------------------------
(***************************************************************************)
(* server/deploy/deploy_wrapper.py: the requests to deploy, stop or remove *)
(* a repo, the state file that says what is deployed on which port, the    *)
(* containers, and the resume after a restart.                             *)
(*                                                                         *)
(* deploy_lock is taken without waiting: a second request is refused (409) *)
(* and changes nothing.  A request is cut at each podman command and at    *)
(* each read or write of the state file, where a crash can come between; a *)
(* command that fails, or does not return in its time, may have had its    *)
(* effect or not.  A version stands for the commit that a deployment       *)
(* cloned; an image is used by the request that built it only.             *)
(***************************************************************************)
EXTENDS Naturals, FiniteSets

CONSTANTS Repos,       \* repo names
          NoRepo,      \* none
          FirstPort,   \* DEPLOY_PORT_RANGE_START
          LastPort,    \* DEPLOY_PORT_RANGE_END
          Threads,     \* handler threads
          NoThread,    \* nobody
          MaxRequests, \* bound: how many requests are let in
          MaxRestarts  \* bound: how often the process or the instance stops

ASSUME DeployAssumption == /\ NoRepo \notin Repos
                           /\ FirstPort \in Nat \ {0}
                           /\ LastPort \in Nat
                           /\ NoThread \notin Threads
                           /\ MaxRequests \in Nat
                           /\ MaxRestarts \in Nat

VARIABLES state,      \* STATE_FILE: the port and the commit of each deployed repo
          container,  \* the container named after each repo
          up,         \* whether the process serves requests
          lock,       \* who holds deploy_lock
          job,        \* the locals of each thread
          asked,      \* history: how many requests were let in
          deployed,   \* history: the version last deployed and not touched since, or 0
          restarts    \* history: how often the process or the instance stopped

deployVars == <<state, container, up, lock, job, asked, deployed, restarts>>

Ports == FirstPort..LastPort

\* The entry of a repo, and the container of that name.
Undeployed == [port |-> 0, version |-> 0]
Entries    == [port : Ports \cup {0}, version : Nat]
Nothing    == [status |-> "none", port |-> 0, version |-> 0]
Containers == [status : {"none", "created", "up", "exited"},
               port : Ports \cup {0}, version : Nat]

NothingDeployed == [r \in Repos |-> Undeployed]

Ops    == {"deploy", "stop", "remove"}
Locked == Ops \cup {"build", "clear", "run", "save", "drop"}
IdleJob == [at |-> "idle", op |-> "stop", repo |-> NoRepo, version |-> 0, port |-> 0,
            copy |-> NothingDeployed]

Jobs == [at : {"idle", "answer"} \cup Locked, op : Ops, repo : Repos \cup {NoRepo},
         version : Nat, port : Ports \cup {0}, copy : [Repos -> Entries]]

(* The variables have their types, and a thread is at work exactly when it  *)
(* holds deploy_lock.                                                       *)
DeployTypeOK ==
    /\ state \in [Repos -> Entries]
    /\ container \in [Repos -> Containers]
    /\ up \in BOOLEAN
    /\ lock \in Threads \cup {NoThread}
    /\ job \in [Threads -> Jobs]
    /\ asked \in Nat
    /\ deployed \in [Repos -> Nat]
    /\ restarts \in Nat
    /\ \A t \in Threads : /\ job[t].at \in Locked <=> lock = t
                          /\ job[t].at \in Locked => job[t].repo \in Repos

DeployInit ==
    /\ state = NothingDeployed
    /\ container = [r \in Repos |-> Nothing]
    /\ up = TRUE
    /\ lock = NoThread
    /\ job = [t \in Threads |-> IdleJob]
    /\ asked = 0
    /\ deployed = [r \in Repos |-> 0]
    /\ restarts = 0

-----------------------------------------------------------------------------

At(t, where) == job[t].at = where
Go(t, where) == job' = [job EXCEPT ![t].at = where]
RepoOf(t)    == job[t].repo

\* Faulty: what acquire returns is not looked at.
Anyway == TRUE

LockIsFree == lock = NoThread

\* A request that gets deploy_lock.
Request(t, op, r) ==
    /\ up
    /\ At(t, "idle")
    /\ LockIsFree
    /\ asked < MaxRequests
    /\ asked' = asked + 1
    /\ lock' = t
    /\ job' = [job EXCEPT ![t] = [IdleJob EXCEPT !.at = op, !.op = op, !.repo = r,
                                                 !.version = asked + 1]]
    /\ UNCHANGED <<state, container, up, deployed, restarts>>

\* Faulty: there is no finally.
EndLocked(t, where) ==
    /\ lock' = lock
    /\ job' = [job EXCEPT ![t] = [IdleJob EXCEPT !.at = where]]

\* The finally of the handlers: the lock is released.
End(t, where) ==
    /\ lock' = NoThread
    /\ job' = [job EXCEPT ![t] = [IdleJob EXCEPT !.at = where]]

\* {"ok": False}, or an exception; and {"ok": True}.
Fail(t)    == End(t, "idle")
Succeed(t) == End(t, "answer")

\* Faulty: only a port that is in use right now counts as used.
PortsRunning(list) == {container[r].port : r \in {q \in Repos : container[q].status = "up"}}

\* _allocate_port: the one the repo has, or the lowest that no entry has.
PortsUsed(list) == {list[r].port : r \in Repos}

Allocates(r, list, p) ==
    \/ list[r].port # 0 /\ p = list[r].port
    \/ list[r].port = 0 /\ p \notin PortsUsed(list)
                        /\ \A q \in FirstPort..(p - 1) : q \in PortsUsed(list)

\* do_deploy up to the build: the clone, its Containerfile, the state, a port.
Prepare(t) ==
    /\ At(t, "deploy")
    /\ \/ /\ \E p \in Ports : /\ Allocates(RepoOf(t), state, p)
                              /\ job' = [job EXCEPT ![t].at = "build", ![t].port = p,
                                                    ![t].copy = state]
          /\ UNCHANGED lock
       \/ Fail(t)
    /\ UNCHANGED <<state, container, up, asked, deployed, restarts>>

Build(t) ==
    /\ At(t, "build")
    /\ \/ Go(t, "clear") /\ UNCHANGED lock
       \/ Fail(t)
    /\ UNCHANGED <<state, container, up, asked, deployed, restarts>>

\* What is left of a repo's container after a podman rm -f.
RemoveContainer(r) ==
    \/ container' = [container EXCEPT ![r] = Nothing]
    \/ container[r].status = "up" /\ container' = [container EXCEPT ![r].status = "exited"]
    \/ UNCHANGED container

Touch(r) == deployed' = [deployed EXCEPT ![r] = 0]

\* podman rm -f of the previous container: only a timeout ends the request.
Clear(t) ==
    /\ At(t, "clear")
    /\ RemoveContainer(RepoOf(t))
    /\ Touch(RepoOf(t))
    /\ \/ Go(t, "run") /\ UNCHANGED lock
       \/ Fail(t)
    /\ UNCHANGED <<state, up, asked, restarts>>

\* podman's own conditions: the name and the port are not taken.
PortIsFree(p) == \A q \in Repos : container[q].status = "up" => container[q].port # p
NewContainer(t, status) ==
    [status |-> status, port |-> job[t].port, version |-> job[t].version]

\* Faulty: the exit status of podman run is not looked at.
RunUnchecked(t) ==
    LET r == RepoOf(t) IN
    /\ At(t, "run")
    /\ container' \in {container, [container EXCEPT ![r] = NewContainer(t, "up")]}
    /\ Go(t, "save")
    /\ UNCHANGED <<state, up, lock, asked, deployed, restarts>>

\* podman run. One that fails may leave a container that was never started, one
\* that runs out of time a container that runs.
Run(t) ==
    LET r == RepoOf(t)
        MayStart == container[r].status = "none" /\ PortIsFree(job[t].port)
    IN
    /\ At(t, "run")
    /\ \/ /\ MayStart
          /\ container' = [container EXCEPT ![r] = NewContainer(t, "up")]
          /\ \/ Go(t, "save") /\ UNCHANGED lock
             \/ Fail(t)
       \/ /\ \/ UNCHANGED container
             \/ /\ container[r].status = "none"
                /\ container' = [container EXCEPT ![r] = NewContainer(t, "created")]
          /\ Fail(t)
    /\ UNCHANGED <<state, up, asked, deployed, restarts>>

\* _save_state, with the new entry.
Save(t) ==
    LET r == RepoOf(t) IN
    /\ At(t, "save")
    /\ state' = [job[t].copy EXCEPT ![r] = [port |-> job[t].port, version |-> job[t].version]]
    /\ deployed' = [deployed EXCEPT ![r] = job[t].version]
    /\ Succeed(t)
    /\ UNCHANGED <<container, up, asked, restarts>>

\* do_stop: the container stays, and so does its entry.
Stop(t) ==
    LET r == RepoOf(t) IN
    /\ At(t, "stop")
    /\ \/ UNCHANGED container
       \/ /\ state[r] # Undeployed
          /\ container[r].status = "up"
          /\ container' = [container EXCEPT ![r].status = "exited"]
    /\ \/ Fail(t)
       \/ state[r] # Undeployed /\ container'[r].status \in {"created", "exited"} /\ Succeed(t)
    /\ UNCHANGED <<state, up, asked, deployed, restarts>>

\* do_remove: rm -f and rmi -f, whose exit statuses nobody looks at.
Remove(t) ==
    LET r == RepoOf(t) IN
    /\ At(t, "remove")
    /\ \/ /\ state[r] # Undeployed
          /\ RemoveContainer(r)
          /\ Touch(r)
          /\ \/ job' = [job EXCEPT ![t].at = "drop", ![t].copy = state] /\ UNCHANGED lock
             \/ Fail(t)
       \/ /\ state[r] = Undeployed
          /\ Fail(t)
          /\ UNCHANGED <<container, deployed>>
    /\ UNCHANGED <<state, up, asked, restarts>>

\* _save_state, without the entry.
Drop(t) ==
    /\ At(t, "drop")
    /\ state' = [job[t].copy EXCEPT ![RepoOf(t)] = Undeployed]
    /\ Succeed(t)
    /\ UNCHANGED <<container, up, asked, deployed, restarts>>

\* The proxy has its answer.
Answered(t) ==
    /\ At(t, "answer")
    /\ job' = [job EXCEPT ![t] = IdleJob]
    /\ UNCHANGED <<state, container, up, lock, asked, deployed, restarts>>

\* An app ends, or is killed for its memory.
Exits(r) ==
    /\ container[r].status = "up"
    /\ container' = [container EXCEPT ![r].status = "exited"]
    /\ UNCHANGED <<state, up, lock, job, asked, deployed, restarts>>

\* The process dies, alone or with the whole instance and its containers.
Halt ==
    /\ restarts < MaxRestarts
    /\ restarts' = restarts + 1
    /\ up' = FALSE
    /\ lock' = NoThread
    /\ job' = [t \in Threads |-> IdleJob]
    /\ \/ UNCHANGED container
       \/ container' = [r \in Repos |-> IF container[r].status = "up"
                                        THEN [container[r] EXCEPT !.status = "exited"]
                                        ELSE container[r]]
    /\ UNCHANGED <<state, asked, deployed>>

\* resume_if_needed, before the listener exists: what the state file knows, and
\* exists but does not run, is started; each may fail, and one that runs out of
\* time ends the process, which systemd starts again.
Resumable == {r \in Repos : /\ state[r] # Undeployed
                            /\ container[r].status \in {"created", "exited"}
                            /\ PortIsFree(container[r].port)}
Resume ==
    /\ ~up
    /\ up' \in BOOLEAN
    /\ \E started \in SUBSET Resumable :
          /\ \A r, q \in started : container[r].port = container[q].port => r = q
          /\ container' = [r \in Repos |-> IF r \in started
                                           THEN [container[r] EXCEPT !.status = "up"]
                                           ELSE container[r]]
    /\ UNCHANGED <<state, lock, job, asked, deployed, restarts>>

Work(t) == \/ Prepare(t) \/ Build(t) \/ Clear(t) \/ Run(t) \/ Save(t)
           \/ Stop(t)
           \/ Remove(t) \/ Drop(t)

DeployNext ==
    \/ \E t \in Threads :
          \/ \E op \in Ops, r \in Repos : Request(t, op, r)
          \/ Work(t)
          \/ Answered(t)
    \/ \E r \in Repos : Exits(r)
    \/ Halt
    \/ Resume

DeploySpec == DeployInit /\ [][DeployNext]_deployVars

-----------------------------------------------------------------------------

(* A port has one owner: no two repos are listed with the same one, and the *)
(* container of a listed repo listens where the list says, whichever        *)
(* request failed half-way and whenever the process died.                   *)
PortsHaveOneOwner ==
    \A r \in Repos : state[r] # Undeployed =>
        /\ \A q \in Repos : state[q].port = state[r].port => q = r
        /\ container[r] # Nothing => container[r].port = state[r].port

LeftAlone(r) ==
    \/ state'[r] = state[r] /\ container'[r] \in {container[r],
                                                  [container[r] EXCEPT !.status = "exited"]}
    \/ ~up
    \/ \E t \in Threads : job[t].at \in Locked /\ RepoOf(t) = r

(* "Deploying, stopping, or removing one repo never touches another repo's  *)
(* container": besides ending by itself and being resumed, a container and  *)
(* an entry change only by a request for that repo.                         *)
OthersAreLeftAlone == [][\A r \in Repos : LeftAlone(r)]_deployVars

(* What was reported as deployed is what is listed and what is there to run *)
(* until a later deployment or removal gets as far as its container: one    *)
(* that fails earlier, a stop, a crash and a resume leave it as it was.     *)
DeployedIsWhatRuns ==
    \A r \in Repos : deployed[r] # 0 =>
        /\ state[r].version = deployed[r]
        /\ container[r].version = deployed[r]
        /\ container[r].status \in {"up", "exited"}

\* What makes these inductive.  The state that a request read is still the state;
\* the port it chose is its own; once the old container was touched nothing counts
\* as deployed; and the container that is about to be saved is the new one.
CopyIsCurrent(t) ==
    job[t].at \in {"build", "clear", "run", "save", "drop"} => job[t].copy = state

PortIsItsOwn(t) ==
    job[t].at \in {"build", "clear", "run", "save"} =>
        /\ job[t].port # 0
        /\ \A q \in Repos \ {RepoOf(t)} : state[q].port # job[t].port
        /\ state[RepoOf(t)].port \in {0, job[t].port}

TouchedIsUntold(t) ==
    job[t].at \in {"run", "save", "drop"} => deployed[RepoOf(t)] = 0

SavesWhatRuns(t) ==
    job[t].at = "save" =>
        /\ container[RepoOf(t)].port = job[t].port
        /\ container[RepoOf(t)].version = job[t].version
        /\ container[RepoOf(t)].status \in {"up", "exited"}

ThreadIsRight(t) == /\ CopyIsCurrent(t)
                    /\ PortIsItsOwn(t)
                    /\ TouchedIsUntold(t)
                    /\ SavesWhatRuns(t)

EntriesHavePorts == \A r \in Repos : state[r].port = 0 => state[r] = Undeployed

DeployInvariant ==
    /\ DeployTypeOK
    /\ \A t \in Threads : ThreadIsRight(t)
    /\ EntriesHavePorts
    /\ PortsHaveOneOwner
    /\ DeployedIsWhatRuns
=============================================================================
