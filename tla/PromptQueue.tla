---------------------------- MODULE PromptQueue ----------------------------
(***************************************************************************)
(* The handler threads of POST /prompt in server/ai/claude_wrapper.py and  *)
(* the two fields of `state' they share: `busy' and the single `pending'   *)
(* slot.                                                                   *)
(*                                                                         *)
(* Every request has a thread of its own (ThreadingHTTPServer), so a       *)
(* request and its thread are one value here: an element of Prompts.  A    *)
(* slot is created by the thread that fills it, so slot[p] is the "result" *)
(* field of p's slot, and its event is set exactly when slot[p] is not     *)
(* Empty.  One action is one step of a thread between two points at which  *)
(* another thread can interfere: a section under state_lock, the call of   *)
(* run_claude, the answer.                                                 *)
(***************************************************************************)
EXTENDS Naturals

CONSTANTS Prompts,     \* the requests (and the texts they carry)
          NoPrompt,    \* None
          MayVanish,   \* the requests whose client may hang up before the answer
          MaxCrashes   \* bound: how often the process dies

ASSUME PromptAssumption == /\ NoPrompt \notin Prompts
                           /\ MayVanish \subseteq Prompts
                           /\ MaxCrashes \in Nat

VARIABLES busy,      \* state["busy"]
          pending,   \* state["pending"]: whose slot it is, or NoPrompt
          pc,        \* where the thread of each request is
          job,       \* job[d]: the text thread d drives (its local job_text, waiter)
          slot,      \* slot[p]: the result put into p's slot
          answer,    \* history: what the caller of p was told
          arrival,   \* history: p was the arrival[p]-th text accepted (0: not yet)
          accepted,  \* history: how many texts were accepted
          runs,      \* history: how often run_claude was entered for p's text
          crashes    \* history: how often the process died

queueVars == <<busy, pending, pc, job, slot>>
historyVars == <<answer, arrival, accepted, runs, crashes>>
promptVars == <<busy, pending, pc, job, slot, answer, arrival, accepted, runs, crashes>>

\* Results, and the outcomes of a connection.
Reply(p)   == [kind |-> "reply", text |-> p]
Superseded == [kind |-> "superseded", text |-> NoPrompt]
Empty      == [kind |-> "none", text |-> NoPrompt]
Broken     == [kind |-> "broken", text |-> NoPrompt]
Outcomes   == [kind : {"none", "reply", "superseded", "broken"},
               text : Prompts \cup {NoPrompt}]

\* Between claiming `busy' and clearing it a thread is the driver. "stuck" is
\* a driver whose answer raised, and whose thread is gone with `busy' set.
Working  == {"start", "running", "reply"}
Driving  == Working \cup {"next", "stuck"}
Pcs      == Driving \cup {"new", "waiting", "done", "lost"}
Drivers  == {p \in Prompts : pc[p] \in Driving}

TypeOK ==
    /\ busy \in BOOLEAN
    /\ pending \in Prompts \cup {NoPrompt}
    /\ pc \in [Prompts -> Pcs]
    /\ job \in [Prompts -> Prompts \cup {NoPrompt}]
    /\ slot \in [Prompts -> Outcomes]
    /\ answer \in [Prompts -> Outcomes]
    /\ arrival \in [Prompts -> Nat]
    /\ accepted \in Nat
    /\ runs \in [Prompts -> Nat]
    /\ crashes \in Nat

PromptInit ==
    /\ busy = FALSE
    /\ pending = NoPrompt
    /\ pc = [p \in Prompts |-> "new"]
    /\ job = [p \in Prompts |-> NoPrompt]
    /\ slot = [p \in Prompts |-> Empty]
    /\ answer = [p \in Prompts |-> Empty]
    /\ arrival = [p \in Prompts |-> 0]
    /\ accepted = 0
    /\ runs = [p \in Prompts |-> 0]
    /\ crashes = 0

-----------------------------------------------------------------------------

Arrive(p) ==
    /\ accepted' = accepted + 1
    /\ arrival' = [arrival EXCEPT ![p] = accepted + 1]

\* Faulty: the displaced waiter is not told.
DisplacedSilently(p) == slot

\* superseded["result"] = {"superseded": True}, and its event is set.
Displaced(p) == [slot EXCEPT ![p] = Superseded]

\* Faulty: busy was read in an earlier section than the one that sets it.
ClaimUnguarded(p) ==
    /\ pc[p] = "new"
    /\ busy' = TRUE
    /\ job' = [job EXCEPT ![p] = p]
    /\ pc' = [pc EXCEPT ![p] = "start"]
    /\ Arrive(p)
    /\ UNCHANGED <<pending, slot, answer, runs, crashes>>

\* The first section under state_lock, when nothing is running.
Claim(p) ==
    /\ pc[p] = "new"
    /\ ~busy
    /\ busy' = TRUE
    /\ job' = [job EXCEPT ![p] = p]
    /\ pc' = [pc EXCEPT ![p] = "start"]
    /\ Arrive(p)
    /\ UNCHANGED <<pending, slot, answer, runs, crashes>>

\* The first section under state_lock, when something is running: take the
\* pending slot, from whoever holds it.
Enqueue(p) ==
    /\ pc[p] = "new"
    /\ busy
    /\ pending' = p
    /\ slot' = IF pending = NoPrompt THEN slot ELSE Displaced(pending)
    /\ pc' = [pc EXCEPT ![p] = "waiting"]
    /\ Arrive(p)
    /\ UNCHANGED <<busy, job, answer, runs, crashes>>

\* run_claude is entered with job_text, and returns a reply or an error text.
BeginRun(d) ==
    /\ pc[d] = "start"
    /\ pc' = [pc EXCEPT ![d] = "running"]
    /\ runs' = [runs EXCEPT ![job[d]] = @ + 1]
    /\ UNCHANGED <<busy, pending, job, slot, answer, arrival, accepted, crashes>>

EndRun(d) ==
    /\ pc[d] = "running"
    /\ pc' = [pc EXCEPT ![d] = "reply"]
    /\ UNCHANGED <<busy, pending, job, slot, historyVars>>

\* The reply goes to the caller of the text that ran: over the driver's own
\* connection, or through the slot of the waiting thread.
AnswerOwn(d) ==
    /\ pc[d] = "reply"
    /\ job[d] = d
    /\ answer' = [answer EXCEPT ![d] = Reply(job[d])]
    /\ pc' = [pc EXCEPT ![d] = "next"]
    /\ UNCHANGED <<busy, pending, job, slot, arrival, accepted, runs, crashes>>

AnswerWaiter(d) ==
    /\ pc[d] = "reply"
    /\ job[d] # d
    /\ slot' = [slot EXCEPT ![job[d]] = Reply(job[d])]
    /\ pc' = [pc EXCEPT ![d] = "next"]
    /\ UNCHANGED <<busy, pending, job, answer, arrival, accepted, runs, crashes>>

\* _json raises because the driver's own client is gone: nothing between the
\* reply and the second section under state_lock catches it.
AnswerRaises(d) ==
    /\ pc[d] = "reply"
    /\ job[d] = d
    /\ d \in MayVanish
    /\ answer' = [answer EXCEPT ![d] = Broken]
    /\ pc' = [pc EXCEPT ![d] = "stuck"]
    /\ UNCHANGED <<busy, pending, job, slot, arrival, accepted, runs, crashes>>

\* Faulty: busy is cleared without a look at the pending slot.
TakeNothing(d) ==
    /\ pc[d] = "next"
    /\ busy' = FALSE
    /\ pc' = [pc EXCEPT ![d] = "done"]
    /\ job' = [job EXCEPT ![d] = NoPrompt]
    /\ UNCHANGED <<pending, slot, historyVars>>

\* Faulty: the slot that is taken stays pending.
TakeAndLeave(d) ==
    /\ pc[d] = "next"
    /\ IF pending = NoPrompt
       THEN /\ busy' = FALSE
            /\ pc' = [pc EXCEPT ![d] = "done"]
            /\ job' = [job EXCEPT ![d] = NoPrompt]
       ELSE /\ pc' = [pc EXCEPT ![d] = "start"]
            /\ job' = [job EXCEPT ![d] = pending]
            /\ UNCHANGED busy
    /\ UNCHANGED <<pending, slot, historyVars>>

\* The second section under state_lock: take what waits, or clear busy.
TakeNext(d) ==
    /\ pc[d] = "next"
    /\ IF pending = NoPrompt
       THEN /\ busy' = FALSE
            /\ pc' = [pc EXCEPT ![d] = "done"]
            /\ job' = [job EXCEPT ![d] = NoPrompt]
            /\ UNCHANGED pending
       ELSE /\ pending' = NoPrompt
            /\ pc' = [pc EXCEPT ![d] = "start"]
            /\ job' = [job EXCEPT ![d] = pending]
            /\ UNCHANGED busy
    /\ UNCHANGED <<slot, historyVars>>

\* A waiting thread's event was set: it tells its caller the result.
Wake(p) ==
    /\ pc[p] = "waiting"
    /\ slot[p] # Empty
    /\ \/ answer' = [answer EXCEPT ![p] = slot[p]]
       \/ p \in MayVanish /\ answer' = [answer EXCEPT ![p] = Broken]
    /\ pc' = [pc EXCEPT ![p] = "done"]
    /\ UNCHANGED <<busy, pending, job, slot, arrival, accepted, runs, crashes>>

\* The process dies and systemd starts it again: state is as at import time
\* and every connection that was open is broken.
InFlight(p) == pc[p] \notin {"new", "done", "lost"}

Crash ==
    /\ crashes < MaxCrashes
    /\ crashes' = crashes + 1
    /\ busy' = FALSE
    /\ pending' = NoPrompt
    /\ job' = [p \in Prompts |-> NoPrompt]
    /\ pc' = [p \in Prompts |-> IF InFlight(p) THEN "lost" ELSE pc[p]]
    /\ answer' = [p \in Prompts |-> IF InFlight(p) /\ answer[p] = Empty
                                    THEN Broken ELSE answer[p]]
    /\ UNCHANGED <<slot, arrival, accepted, runs>>

ThreadStep(p) ==
    \/ BeginRun(p) \/ EndRun(p)
    \/ AnswerOwn(p) \/ AnswerWaiter(p) \/ AnswerRaises(p)
    \/ TakeNext(p) \/ Wake(p)

\* Every request that will ever be sent was answered: the server listens on.
Listen == /\ \A p \in Prompts : pc[p] \in {"done", "lost"}
          /\ UNCHANGED promptVars

PromptNext ==
    \/ \E p \in Prompts : Claim(p) \/ Enqueue(p) \/ ThreadStep(p)
    \/ Crash
    \/ Listen

\* A thread that can go on does: the server's threads are never suspended,
\* and a run ends because _on_timeout kills one that does not end by itself.
PromptSpec == PromptInit /\ [][PromptNext]_promptVars
FairPromptSpec == PromptSpec /\ \A p \in Prompts : WF_promptVars(ThreadStep(p))

-----------------------------------------------------------------------------

(* `busy' is set exactly while one thread drives, and never two of them:    *)
(* the check and the assignment are in one section, and TakeNext hands busy *)
(* on without a gap in which a newcomer could claim it.                     *)
OneDriver ==
    /\ busy <=> Drivers # {}
    /\ \A d, e \in Drivers : d = e

(* A thread that waits for its event is never forgotten: its slot is the    *)
(* pending one and somebody is driving, or the driver has taken it and has  *)
(* not answered it yet.                                                     *)
NoWaiterForgotten ==
    \A p \in Prompts :
        pc[p] = "waiting" /\ slot[p] = Empty =>
            \/ busy /\ pending = p
            \/ \E d \in Drivers : job[d] = p /\ pc[d] \in Working

(* A caller that is told "superseded" had its text never sent to Claude,    *)
(* and one that gets a reply gets that of its own text, which ran once.     *)
AnswersAreTrue ==
    \A p \in Prompts :
        /\ answer[p].kind = "superseded" => runs[p] = 0
        /\ answer[p].kind = "reply" => answer[p].text = p /\ runs[p] = 1

(* Only an older text is ever replaced: the most recently accepted one is   *)
(* the one that is kept, whatever the order in which threads reach state.   *)
NewestIsKept ==
    \A p \in Prompts :
        slot[p] = Superseded => \E q \in Prompts : arrival[q] > arrival[p]

(* Texts are given to Claude at most once each, and in the order in which   *)
(* they were accepted.                                                      *)
RunsInArrivalOrder ==
    [][\A p \in Prompts : runs'[p] # runs[p] =>
          /\ runs[p] = 0
          /\ \A q \in Prompts : runs[q] > 0 => arrival[q] < arrival[p]]_promptVars

(* A text that was accepted is answered, superseded, or lost in a crash: no *)
(* caller that stays on the line waits forever, because the driver goes on  *)
(* until the slot is empty.                                                 *)
EveryPromptEnds ==
    \A p \in Prompts : (pc[p] # "new") ~> (pc[p] \in {"done", "lost", "stuck"})

-----------------------------------------------------------------------------
(* The inductive invariant behind the properties above, by parts.           *)

\* What each driver holds.
DriversHoldJobs ==
    \A d \in Drivers :
        /\ job[d] \in Prompts
        /\ pc[d] = "start" => runs[job[d]] = 0
        /\ pc[d] # "start" => runs[job[d]] = 1
        /\ pc[d] = "stuck" => job[d] = d
        /\ job[d] # d /\ pc[d] \in Working =>
              pc[job[d]] = "waiting" /\ slot[job[d]] = Empty
        /\ job[d] # d /\ pc[d] = "next" => slot[job[d]] = Reply(job[d])
        /\ job[d] # d => answer[d] = Reply(d)
        /\ job[d] = d /\ pc[d] \in Working => answer[d] = Empty
        /\ job[d] = d /\ pc[d] = "next" => answer[d] = Reply(d)
        /\ job[d] = d /\ pc[d] = "stuck" => answer[d] = Broken

\* Who is in the pending slot.
PendingWaits ==
    pending # NoPrompt =>
        /\ busy
        /\ pc[pending] = "waiting"
        /\ slot[pending] = Empty
        /\ runs[pending] = 0
        /\ \A d \in Drivers : job[d] # pending /\ arrival[job[d]] < arrival[pending]

\* What slots and answers can say.
ResultsAreTrue ==
    \A p \in Prompts :
        /\ slot[p] \in {Empty, Superseded, Reply(p)}
        /\ answer[p] \in {Empty, Superseded, Broken, Reply(p)}
        /\ Superseded \in {slot[p], answer[p]} => runs[p] = 0
        /\ Reply(p) \in {slot[p], answer[p]} => runs[p] = 1
        /\ answer[p] = Superseded => slot[p] = Superseded
        /\ pc[p] \in Driving => slot[p] = Empty
        /\ pc[p] = "waiting" => answer[p] = Empty
        /\ pc[p] = "done" /\ slot[p] = Empty => answer[p] = Reply(p)
        /\ pc[p] = "lost" => answer[p] # Empty
        /\ pc[p] = "new" => slot[p] = Empty /\ answer[p] = Empty /\ runs[p] = 0

\* Arrival numbers, and the texts that already ran.
ArrivalsAreOrdered ==
    /\ \A p \in Prompts : IF pc[p] = "new" THEN arrival[p] = 0
                                             ELSE arrival[p] \in 1..accepted
    /\ \A p, q \in Prompts : arrival[p] = arrival[q] /\ p # q => arrival[p] = 0
    /\ \A p \in Prompts : runs[p] > 0 =>
          \A d \in Drivers : arrival[p] < arrival[job[d]] \/ p = job[d]
    /\ \A p \in Prompts : runs[p] \in {0, 1}

QueueInvariant ==
    /\ TypeOK
    /\ OneDriver
    /\ NoWaiterForgotten
    /\ NewestIsKept
    /\ DriversHoldJobs
    /\ PendingWaits
    /\ ResultsAreTrue
    /\ ArrivalsAreOrdered

-----------------------------------------------------------------------------
(* The promise of LatestWins.  A text's fate is settled when a result is    *)
(* put into its slot, or into the driver's own connection.                  *)

Fate(p) ==
    IF pc[p] = "new" THEN "unsent"
    ELSE IF "reply" \in {slot[p].kind, answer[p].kind} THEN "answered"
    ELSE IF slot[p].kind = "superseded" THEN "superseded"
    ELSE IF answer[p].kind = "broken" THEN "lost"
    ELSE "accepted"

Active == IF \E d \in Drivers : TRUE
          THEN job[CHOOSE d \in Drivers : TRUE]
          ELSE NoPrompt

Abstract == INSTANCE LatestWins
    WITH fate <- [p \in Prompts |-> Fate(p)], active <- Active, waiting <- pending

(* Step by step the threads, the lock and the events implement LatestWins,  *)
(* whoever hangs up and whenever the process dies: no interleaving gives a  *)
(* text two fates, or a fate LatestWins does not allow.                     *)
ImplementsSafely == Abstract!SafeSpec

(* The same with LatestWins' progress: what is accepted is settled and what *)
(* waits is advanced, as long as no client hangs up on its driver.          *)
ImplementsLatestWins ==
    ImplementsSafely /\ ([](\A p \in Prompts : pc[p] # "stuck") => Abstract!Progress)
=============================================================================
