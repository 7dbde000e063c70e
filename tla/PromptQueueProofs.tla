------------------------- MODULE PromptQueueProofs -------------------------
(***************************************************************************)
(* Proofs about PromptQueue, for any number of requests, any set of        *)
(* clients that may hang up and any number of crashes.                     *)
(*                                                                         *)
(* QueueInvariant (defined in PromptQueue, where TLC checks it) is         *)
(* inductive; everything else follows from it.  Its heart is PendingWaits  *)
(* and DriversHoldJobs: a text is in exactly one place at a time, the      *)
(* pending slot or the driver's hands, and the pending one arrived last.   *)
(***************************************************************************)
EXTENDS PromptQueue, TLAPS

(* The four kinds of result are different from each other: with this, and with *)
(* their definitions hidden, the steps below need no reasoning about records.  *)
LEMMA OutcomeFacts ==
    /\ Empty \in Outcomes /\ Superseded \in Outcomes /\ Broken \in Outcomes
    /\ Empty # Superseded /\ Empty # Broken /\ Superseded # Broken
    /\ \A p \in Prompts : /\ Reply(p) \in Outcomes
                          /\ Reply(p) # Empty /\ Reply(p) # Superseded
                          /\ Reply(p) # Broken
BY DEF Outcomes, Empty, Superseded, Broken, Reply

(* No step of any thread, and no crash, leaves the inductive invariant.       *)
THEOREM QueueInductive == QueueInvariant /\ [PromptNext]_promptVars => QueueInvariant'
<1> SUFFICES ASSUME QueueInvariant, [PromptNext]_promptVars PROVE QueueInvariant'
  OBVIOUS
<1> USE PromptAssumption, OutcomeFacts
  DEF QueueInvariant, Drivers, Driving, Working, Pcs, historyVars, Arrive, Displaced
<1>1. ASSUME NEW p \in Prompts, Claim(p) PROVE QueueInvariant'
  <2>1. TypeOK'
    BY <1>1 DEF Claim, TypeOK, DriversHoldJobs, PendingWaits
  <2>2. OneDriver'
    BY <1>1 DEF Claim, OneDriver, TypeOK
  <2>3. NoWaiterForgotten'
    BY <1>1 DEF Claim, NoWaiterForgotten, TypeOK, OneDriver, DriversHoldJobs
  <2>4. NewestIsKept'
    BY <1>1
      DEF Claim, NewestIsKept, TypeOK, ArrivalsAreOrdered, PendingWaits,
          ResultsAreTrue
  <2>5. DriversHoldJobs'
    BY <1>1 DEF Claim, DriversHoldJobs, TypeOK, OneDriver, PendingWaits, ResultsAreTrue
  <2>6. PendingWaits'
    <3>1. pending = NoPrompt
      BY <1>1 DEF Claim, PendingWaits
    <3> QED BY <1>1, <3>1 DEF Claim, PendingWaits
  <2>7. ResultsAreTrue'
    BY <1>1 DEF Claim, ResultsAreTrue, TypeOK, DriversHoldJobs, PendingWaits
  <2>8. ArrivalsAreOrdered'
    BY <1>1
      DEF Claim, ArrivalsAreOrdered, TypeOK, OneDriver, DriversHoldJobs,
          PendingWaits, ResultsAreTrue
  <2> QED BY <2>1, <2>2, <2>3, <2>4, <2>5, <2>6, <2>7, <2>8 DEF QueueInvariant
<1>2. ASSUME NEW p \in Prompts, Enqueue(p) PROVE QueueInvariant'
  <2>1. TypeOK'
    BY <1>2 DEF Enqueue, TypeOK, DriversHoldJobs, PendingWaits
  <2>2. OneDriver'
    BY <1>2 DEF Enqueue, OneDriver, TypeOK
  <2>3. NoWaiterForgotten'
    BY <1>2 DEF Enqueue, NoWaiterForgotten, TypeOK, OneDriver, DriversHoldJobs
  <2>4. NewestIsKept'
    BY <1>2
      DEF Enqueue, NewestIsKept, TypeOK, ArrivalsAreOrdered, PendingWaits,
          ResultsAreTrue
  <2>5. DriversHoldJobs'
    BY <1>2
      DEF Enqueue, DriversHoldJobs, TypeOK, OneDriver, PendingWaits,
          ResultsAreTrue
  <2>6. PendingWaits'
    BY <1>2
      DEF Enqueue, PendingWaits, TypeOK, OneDriver, DriversHoldJobs,
          ArrivalsAreOrdered, ResultsAreTrue
  <2>7. ResultsAreTrue'
    BY <1>2 DEF Enqueue, ResultsAreTrue, TypeOK, DriversHoldJobs, PendingWaits
  <2>8. ArrivalsAreOrdered'
    BY <1>2
      DEF Enqueue, ArrivalsAreOrdered, TypeOK, OneDriver, DriversHoldJobs,
          PendingWaits, ResultsAreTrue
  <2> QED BY <2>1, <2>2, <2>3, <2>4, <2>5, <2>6, <2>7, <2>8 DEF QueueInvariant
<1>3. ASSUME NEW p \in Prompts, BeginRun(p) PROVE QueueInvariant'
  <2>1. TypeOK'
    <3>1. job[p] \in Prompts
      BY <1>3 DEF BeginRun, DriversHoldJobs
    <3>2. runs' \in [Prompts -> Nat]
      BY <1>3, <3>1 DEF BeginRun, TypeOK
    <3> QED BY <1>3, <3>2 DEF BeginRun, TypeOK
  <2>2. OneDriver'
    BY <1>3 DEF BeginRun, OneDriver, TypeOK
  <2>3. NoWaiterForgotten'
    BY <1>3 DEF BeginRun, NoWaiterForgotten, TypeOK, OneDriver, DriversHoldJobs
  <2>4. NewestIsKept'
    BY <1>3
      DEF BeginRun, NewestIsKept, TypeOK, ArrivalsAreOrdered, PendingWaits,
          ResultsAreTrue
  <2>5. DriversHoldJobs'
    BY <1>3
      DEF BeginRun, DriversHoldJobs, TypeOK, OneDriver, PendingWaits,
          ResultsAreTrue
  <2>6. PendingWaits'
    BY <1>3
      DEF BeginRun, PendingWaits, TypeOK, OneDriver, DriversHoldJobs,
          ArrivalsAreOrdered, ResultsAreTrue
  <2>7. ResultsAreTrue'
    <3>1. job[p] \in Prompts /\ runs[job[p]] = 0
      BY <1>3 DEF BeginRun, DriversHoldJobs
    <3>2. slot[job[p]] = Empty /\ answer[job[p]] = Empty
      BY <1>3, <3>1 DEF BeginRun, DriversHoldJobs, ResultsAreTrue
    <3>3. runs' = [runs EXCEPT ![job[p]] = 1]
      BY <1>3, <3>1 DEF BeginRun, TypeOK
    <3>4. pc[job[p]] # "new"
      BY <1>3, <3>1 DEF BeginRun, DriversHoldJobs
    <3> QED BY <1>3, <3>1, <3>2, <3>3, <3>4 DEF BeginRun, TypeOK, ResultsAreTrue
  <2>8. ArrivalsAreOrdered'
    <3>1. job[p] \in Prompts /\ runs[job[p]] = 0
      BY <1>3 DEF BeginRun, DriversHoldJobs
    <3>2. runs' = [runs EXCEPT ![job[p]] = 1]
      BY <1>3, <3>1 DEF BeginRun, TypeOK
    <3>3. Drivers' = Drivers /\ Drivers = {p}
      BY <1>3 DEF BeginRun, TypeOK, OneDriver
    <3> QED BY <1>3, <3>1, <3>2, <3>3 DEF BeginRun, TypeOK, ArrivalsAreOrdered
  <2> QED BY <2>1, <2>2, <2>3, <2>4, <2>5, <2>6, <2>7, <2>8 DEF QueueInvariant
<1>4. ASSUME NEW p \in Prompts, EndRun(p) PROVE QueueInvariant'
  <2>1. TypeOK'
    BY <1>4 DEF EndRun, TypeOK, DriversHoldJobs, PendingWaits
  <2>2. OneDriver'
    BY <1>4 DEF EndRun, OneDriver, TypeOK
  <2>3. NoWaiterForgotten'
    BY <1>4 DEF EndRun, NoWaiterForgotten, TypeOK, OneDriver, DriversHoldJobs
  <2>4. NewestIsKept'
    BY <1>4
      DEF EndRun, NewestIsKept, TypeOK, ArrivalsAreOrdered, PendingWaits,
          ResultsAreTrue
  <2>5. DriversHoldJobs'
    BY <1>4 DEF EndRun, DriversHoldJobs, TypeOK, OneDriver, PendingWaits, ResultsAreTrue
  <2>6. PendingWaits'
    BY <1>4
      DEF EndRun, PendingWaits, TypeOK, OneDriver, DriversHoldJobs,
          ArrivalsAreOrdered, ResultsAreTrue
  <2>7. ResultsAreTrue'
    BY <1>4 DEF EndRun, ResultsAreTrue, TypeOK, DriversHoldJobs, PendingWaits
  <2>8. ArrivalsAreOrdered'
    BY <1>4
      DEF EndRun, ArrivalsAreOrdered, TypeOK, OneDriver, DriversHoldJobs,
          PendingWaits, ResultsAreTrue
  <2> QED BY <2>1, <2>2, <2>3, <2>4, <2>5, <2>6, <2>7, <2>8 DEF QueueInvariant
<1>5. ASSUME NEW p \in Prompts, AnswerOwn(p) PROVE QueueInvariant'
  <2>1. TypeOK'
    BY <1>5 DEF AnswerOwn, TypeOK, DriversHoldJobs, PendingWaits
  <2>2. OneDriver'
    BY <1>5 DEF AnswerOwn, OneDriver, TypeOK
  <2>3. NoWaiterForgotten'
    BY <1>5 DEF AnswerOwn, NoWaiterForgotten, TypeOK, OneDriver, DriversHoldJobs
  <2>4. NewestIsKept'
    BY <1>5
      DEF AnswerOwn, NewestIsKept, TypeOK, ArrivalsAreOrdered, PendingWaits,
          ResultsAreTrue
  <2>5. DriversHoldJobs'
    BY <1>5
      DEF AnswerOwn, DriversHoldJobs, TypeOK, OneDriver, PendingWaits,
          ResultsAreTrue
  <2>6. PendingWaits'
    BY <1>5
      DEF AnswerOwn, PendingWaits, TypeOK, OneDriver, DriversHoldJobs,
          ArrivalsAreOrdered, ResultsAreTrue
  <2>7. ResultsAreTrue'
    BY <1>5 DEF AnswerOwn, ResultsAreTrue, TypeOK, DriversHoldJobs, PendingWaits
  <2>8. ArrivalsAreOrdered'
    BY <1>5
      DEF AnswerOwn, ArrivalsAreOrdered, TypeOK, OneDriver, DriversHoldJobs,
          PendingWaits, ResultsAreTrue
  <2> QED BY <2>1, <2>2, <2>3, <2>4, <2>5, <2>6, <2>7, <2>8 DEF QueueInvariant
<1>6. ASSUME NEW p \in Prompts, AnswerWaiter(p) PROVE QueueInvariant'
  <2>1. TypeOK'
    BY <1>6 DEF AnswerWaiter, TypeOK, DriversHoldJobs, PendingWaits
  <2>2. OneDriver'
    BY <1>6 DEF AnswerWaiter, OneDriver, TypeOK
  <2>3. NoWaiterForgotten'
    BY <1>6 DEF AnswerWaiter, NoWaiterForgotten, TypeOK, OneDriver, DriversHoldJobs
  <2>4. NewestIsKept'
    BY <1>6
      DEF AnswerWaiter, NewestIsKept, TypeOK, ArrivalsAreOrdered, PendingWaits,
          ResultsAreTrue
  <2>5. DriversHoldJobs'
    BY <1>6
      DEF AnswerWaiter, DriversHoldJobs, TypeOK, OneDriver, PendingWaits,
          ResultsAreTrue
  <2>6. PendingWaits'
    BY <1>6
      DEF AnswerWaiter, PendingWaits, TypeOK, OneDriver, DriversHoldJobs,
          ArrivalsAreOrdered, ResultsAreTrue
  <2>7. ResultsAreTrue'
    BY <1>6 DEF AnswerWaiter, ResultsAreTrue, TypeOK, DriversHoldJobs, PendingWaits
  <2>8. ArrivalsAreOrdered'
    BY <1>6
      DEF AnswerWaiter, ArrivalsAreOrdered, TypeOK, OneDriver, DriversHoldJobs,
          PendingWaits, ResultsAreTrue
  <2> QED BY <2>1, <2>2, <2>3, <2>4, <2>5, <2>6, <2>7, <2>8 DEF QueueInvariant
<1>7. ASSUME NEW p \in Prompts, AnswerRaises(p) PROVE QueueInvariant'
  <2>1. TypeOK'
    BY <1>7 DEF AnswerRaises, TypeOK, DriversHoldJobs, PendingWaits
  <2>2. OneDriver'
    BY <1>7 DEF AnswerRaises, OneDriver, TypeOK
  <2>3. NoWaiterForgotten'
    BY <1>7 DEF AnswerRaises, NoWaiterForgotten, TypeOK, OneDriver, DriversHoldJobs
  <2>4. NewestIsKept'
    BY <1>7
      DEF AnswerRaises, NewestIsKept, TypeOK, ArrivalsAreOrdered, PendingWaits,
          ResultsAreTrue
  <2>5. DriversHoldJobs'
    BY <1>7
      DEF AnswerRaises, DriversHoldJobs, TypeOK, OneDriver, PendingWaits,
          ResultsAreTrue
  <2>6. PendingWaits'
    BY <1>7
      DEF AnswerRaises, PendingWaits, TypeOK, OneDriver, DriversHoldJobs,
          ArrivalsAreOrdered, ResultsAreTrue
  <2>7. ResultsAreTrue'
    BY <1>7 DEF AnswerRaises, ResultsAreTrue, TypeOK, DriversHoldJobs, PendingWaits
  <2>8. ArrivalsAreOrdered'
    BY <1>7
      DEF AnswerRaises, ArrivalsAreOrdered, TypeOK, OneDriver, DriversHoldJobs,
          PendingWaits, ResultsAreTrue
  <2> QED BY <2>1, <2>2, <2>3, <2>4, <2>5, <2>6, <2>7, <2>8 DEF QueueInvariant
<1>8. ASSUME NEW p \in Prompts, TakeNext(p) PROVE QueueInvariant'
  <2>1. TypeOK'
    <3>1. job' \in [Prompts -> Prompts \cup {NoPrompt}] /\ pc' \in [Prompts -> Pcs]
      BY <1>8 DEF TakeNext, TypeOK
    <3> QED BY <1>8, <3>1 DEF TakeNext, TypeOK
  <2>2. OneDriver'
    BY <1>8 DEF TakeNext, OneDriver, TypeOK
  <2>3. NoWaiterForgotten'
    BY <1>8 DEF TakeNext, NoWaiterForgotten, TypeOK, OneDriver, DriversHoldJobs
  <2>4. NewestIsKept'
    BY <1>8
      DEF TakeNext, NewestIsKept, TypeOK, ArrivalsAreOrdered, PendingWaits,
          ResultsAreTrue
  <2>5. DriversHoldJobs'
    <3>1. CASE pending = NoPrompt
      BY <1>8, <3>1
        DEF TakeNext, TypeOK, OneDriver, DriversHoldJobs, PendingWaits,
            ResultsAreTrue
    <3>2. CASE pending # NoPrompt
      BY <1>8, <3>2
        DEF TakeNext, TypeOK, OneDriver, DriversHoldJobs, PendingWaits,
            ResultsAreTrue
    <3> QED BY <3>1, <3>2
  <2>6. PendingWaits'
    BY <1>8
      DEF TakeNext, PendingWaits, TypeOK, OneDriver, DriversHoldJobs,
          ArrivalsAreOrdered, ResultsAreTrue
  <2>7. ResultsAreTrue'
    <3>1. CASE pending = NoPrompt
      BY <1>8, <3>1 DEF TakeNext, TypeOK, DriversHoldJobs, PendingWaits, ResultsAreTrue
    <3>2. CASE pending # NoPrompt
      BY <1>8, <3>2 DEF TakeNext, TypeOK, DriversHoldJobs, PendingWaits, ResultsAreTrue
    <3> QED BY <3>1, <3>2
  <2>8. ArrivalsAreOrdered'
    <3>1. CASE pending = NoPrompt
      BY <1>8, <3>1
        DEF TakeNext, TypeOK, OneDriver, DriversHoldJobs, PendingWaits,
            ArrivalsAreOrdered
    <3>2. CASE pending # NoPrompt
      BY <1>8, <3>2
        DEF TakeNext, TypeOK, OneDriver, DriversHoldJobs, PendingWaits,
            ArrivalsAreOrdered
    <3> QED BY <3>1, <3>2
  <2> QED BY <2>1, <2>2, <2>3, <2>4, <2>5, <2>6, <2>7, <2>8 DEF QueueInvariant
<1>9. ASSUME NEW p \in Prompts, Wake(p) PROVE QueueInvariant'
  <2>1. TypeOK'
    <3>1. slot[p] \in Outcomes
      BY <1>9 DEF Wake, TypeOK
    <3>2. answer' \in [Prompts -> Outcomes]
      BY <1>9, <3>1 DEF Wake, TypeOK
    <3> QED BY <1>9, <3>2 DEF Wake, TypeOK
  <2>2. OneDriver'
    BY <1>9 DEF Wake, OneDriver, TypeOK
  <2>3. NoWaiterForgotten'
    BY <1>9 DEF Wake, NoWaiterForgotten, TypeOK, OneDriver, DriversHoldJobs
  <2>4. NewestIsKept'
    BY <1>9
      DEF Wake, NewestIsKept, TypeOK, ArrivalsAreOrdered, PendingWaits,
          ResultsAreTrue
  <2>5. DriversHoldJobs'
    BY <1>9 DEF Wake, DriversHoldJobs, TypeOK, OneDriver, PendingWaits, ResultsAreTrue
  <2>6. PendingWaits'
    BY <1>9
      DEF Wake, PendingWaits, TypeOK, OneDriver, DriversHoldJobs,
          ArrivalsAreOrdered, ResultsAreTrue
  <2>7. ResultsAreTrue'
    BY <1>9 DEF Wake, ResultsAreTrue, TypeOK, DriversHoldJobs, PendingWaits
  <2>8. ArrivalsAreOrdered'
    BY <1>9
      DEF Wake, ArrivalsAreOrdered, TypeOK, OneDriver, DriversHoldJobs,
          PendingWaits, ResultsAreTrue
  <2> QED BY <2>1, <2>2, <2>3, <2>4, <2>5, <2>6, <2>7, <2>8 DEF QueueInvariant
<1>10. CASE Crash
  <2>0. Drivers' = {}
    BY <1>10 DEF Crash, InFlight, TypeOK
  <2>1. TypeOK'
    <3>1. answer' \in [Prompts -> Outcomes] /\ pc' \in [Prompts -> Pcs]
      BY <1>10 DEF Crash, InFlight, TypeOK
    <3>2. job' \in [Prompts -> Prompts \cup {NoPrompt}] /\ crashes' \in Nat
      BY <1>10 DEF Crash, TypeOK
    <3> QED BY <1>10, <3>1, <3>2 DEF Crash, TypeOK
  <2>2. OneDriver'
    BY <1>10, <2>0 DEF Crash, OneDriver
  <2>3. NoWaiterForgotten'
    BY <1>10 DEF Crash, InFlight, TypeOK, NoWaiterForgotten
  <2>4. NewestIsKept'
    BY <1>10 DEF Crash, NewestIsKept
  <2>5. DriversHoldJobs'
    BY <2>0 DEF DriversHoldJobs
  <2>6. PendingWaits'
    BY <1>10 DEF Crash, PendingWaits
  <2>7. ResultsAreTrue'
    BY <1>10 DEF Crash, InFlight, TypeOK, ResultsAreTrue
  <2>8. ArrivalsAreOrdered'
    BY <1>10, <2>0 DEF Crash, InFlight, TypeOK, ArrivalsAreOrdered
  <2> QED BY <2>1, <2>2, <2>3, <2>4, <2>5, <2>6, <2>7, <2>8 DEF QueueInvariant
<1>11. CASE UNCHANGED promptVars
  BY <1>11 DEF promptVars, TypeOK, OneDriver, NoWaiterForgotten, NewestIsKept,
     DriversHoldJobs, PendingWaits, ResultsAreTrue, ArrivalsAreOrdered
<1> QED
  BY <1>1, <1>2, <1>3, <1>4, <1>5, <1>6, <1>7, <1>8, <1>9, <1>10, <1>11
    DEF PromptNext, ThreadStep, Listen

(* No thread has come yet.                                                    *)
LEMMA InitialQueue == PromptInit => QueueInvariant
<1> SUFFICES ASSUME PromptInit PROVE QueueInvariant
  OBVIOUS
<1>1. Drivers = {}
  BY DEF PromptInit, Drivers, Driving, Working
<1>2. TypeOK
  BY OutcomeFacts DEF PromptInit, TypeOK, Pcs
<1>3. OneDriver /\ NoWaiterForgotten /\ NewestIsKept
  BY <1>1, OutcomeFacts DEF PromptInit, OneDriver, NoWaiterForgotten, NewestIsKept
<1>4. DriversHoldJobs /\ PendingWaits /\ ArrivalsAreOrdered
  BY <1>1 DEF PromptInit, DriversHoldJobs, PendingWaits, ArrivalsAreOrdered
<1>5. ResultsAreTrue
  BY OutcomeFacts DEF PromptInit, ResultsAreTrue, Driving, Working
<1> QED
  BY <1>2, <1>3, <1>4, <1>5 DEF QueueInvariant

(* The inductive invariant holds in every state the threads can reach.        *)
THEOREM QueueInvariantHolds == PromptSpec => []QueueInvariant
BY InitialQueue, QueueInductive, PTL DEF PromptSpec

(* The shared fields of `state' and the threads' locals keep their types.      *)
THEOREM TypeCorrect == PromptSpec => []TypeOK
BY QueueInvariantHolds, PTL DEF QueueInvariant

(* `busy' is held by one thread exactly, no waiting thread is forgotten, and   *)
(* the newest text is never the one replaced.                                 *)
THEOREM OneDriverHolds == PromptSpec => [](OneDriver /\ NoWaiterForgotten /\ NewestIsKept)
<1>1. QueueInvariant => OneDriver /\ NoWaiterForgotten /\ NewestIsKept
  BY DEF QueueInvariant
<1> QED
  BY <1>1, QueueInvariantHolds, PTL

(* What a caller is told is what happened to its own text.                    *)
THEOREM AnswersAreTrueHolds == PromptSpec => []AnswersAreTrue
<1>1. QueueInvariant => AnswersAreTrue
  <2> SUFFICES ASSUME QueueInvariant, NEW p \in Prompts
               PROVE  /\ answer[p].kind = "superseded" => runs[p] = 0
                      /\ answer[p].kind = "reply" => answer[p].text = p /\ runs[p] = 1
    BY DEF AnswersAreTrue
  <2>1. answer[p] \in {Empty, Superseded, Broken, Reply(p)}
    BY DEF QueueInvariant, ResultsAreTrue
  <2>2. /\ answer[p] = Superseded => runs[p] = 0
        /\ answer[p] = Reply(p) => runs[p] = 1
    BY DEF QueueInvariant, ResultsAreTrue
  <2> QED
    BY <2>1, <2>2 DEF Empty, Superseded, Broken, Reply
<1> QED
  BY <1>1, QueueInvariantHolds, PTL

(* run_claude is entered once per text at most, in the order of acceptance.    *)
THEOREM RunsInArrivalOrderHolds == PromptSpec => RunsInArrivalOrder
<1> DEFINE Ordered == \A p \in Prompts : runs'[p] # runs[p] =>
                          /\ runs[p] = 0
                          /\ \A q \in Prompts : runs[q] > 0 => arrival[q] < arrival[p]
<1>1. QueueInvariant /\ [PromptNext]_promptVars => Ordered
  <2> SUFFICES ASSUME QueueInvariant, [PromptNext]_promptVars, NEW p \in Prompts,
                      runs'[p] # runs[p]
               PROVE  /\ runs[p] = 0
                      /\ \A q \in Prompts : runs[q] > 0 => arrival[q] < arrival[p]
    OBVIOUS
  <2>1. PICK d \in Prompts : BeginRun(d)
    BY
      DEF PromptNext, ThreadStep, Listen, promptVars, historyVars, Claim, Enqueue,
          EndRun,
           AnswerOwn, AnswerWaiter, AnswerRaises, TakeNext, Wake, Crash
  <2>2. d \in Drivers /\ pc[d] = "start"
    BY <2>1 DEF BeginRun, Drivers, Driving, Working
  <2>3. p = job[d] /\ runs[p] = 0
    BY <2>1, <2>2 DEF BeginRun, QueueInvariant, DriversHoldJobs, TypeOK
  <2>4. ASSUME NEW q \in Prompts, runs[q] > 0
        PROVE  arrival[q] < arrival[p]
    BY <2>2, <2>3, <2>4 DEF QueueInvariant, ArrivalsAreOrdered
  <2> QED
    BY <2>3, <2>4
<1> QED
  BY <1>1, QueueInvariantHolds, PTL DEF PromptSpec, RunsInArrivalOrder

(* The CHOOSE in Active picks the only driver there is.                       *)
LEMMA ActiveIsTheJob ==
    /\ OneDriver => \A d \in Drivers : Active = job[d]
    /\ OneDriver' => \A d \in Drivers' : Active' = job'[d]
    /\ Drivers = {} => Active = NoPrompt
    /\ Drivers' = {} => Active' = NoPrompt
BY DEF OneDriver, Active

(* The kinds of the four results.                                             *)
LEMMA Kinds ==
    /\ Empty.kind = "none" /\ Superseded.kind = "superseded" /\ Broken.kind = "broken"
    /\ \A p : Reply(p).kind = "reply"
BY DEF Empty, Superseded, Broken, Reply

(* Every step of the threads is a step of LatestWins or none at all.          *)
LEMMA StepsImplement ==
    ASSUME QueueInvariant, QueueInvariant', [PromptNext]_promptVars
    PROVE  [Abstract!Next]_(Abstract!vars)
<1> USE PromptAssumption, OutcomeFacts, Kinds
<1> DEFINE F == [p \in Prompts |-> Fate(p)]
<1> USE
  DEF Drivers, Driving, Working, QueueInvariant, TypeOK, historyVars, Arrive,
      Displaced
<1>1. ASSUME NEW p \in Prompts, Claim(p) PROVE Abstract!AcceptNow(p)
  <2>1. Active = NoPrompt /\ Active' = p
    BY <1>1, ActiveIsTheJob DEF Claim, OneDriver
  <2>2. Fate(p) = "unsent" /\ F' = [F EXCEPT ![p] = "accepted"]
    <3>1. slot[p] = Empty /\ answer[p] = Empty
      BY <1>1 DEF Claim, ResultsAreTrue
    <3>2. Fate(p) = "unsent" /\ Fate(p)' = "accepted"
      BY <1>1, <3>1 DEF Claim, Fate
    <3>3. \A q \in Prompts \ {p} : Fate(q)' = Fate(q)
      BY <1>1 DEF Claim, Fate
    <3> QED
      BY <3>2, <3>3
  <2> QED
    BY <1>1, <2>1, <2>2 DEF Claim, Abstract!AcceptNow
<1>2. ASSUME NEW p \in Prompts, Enqueue(p) PROVE Abstract!AcceptLater(p)
  <2>1. Active # NoPrompt /\ Active' = Active
    BY <1>2, ActiveIsTheJob DEF Enqueue, OneDriver, DriversHoldJobs
  <2>2. Fate(p) = "unsent" /\ pending # p
    BY <1>2 DEF Enqueue, Fate, PendingWaits
  <2>3. F' = [q \in Prompts |-> IF q = p THEN "accepted"
                               ELSE IF q = pending THEN "superseded" ELSE F[q]]
    BY <1>2, <2>2 DEF Enqueue, Fate, ResultsAreTrue, PendingWaits
  <2> QED
    BY <1>2, <2>1, <2>2, <2>3 DEF Enqueue, Abstract!AcceptLater
<1>3. ASSUME NEW p \in Prompts, BeginRun(p) \/ EndRun(p) PROVE UNCHANGED Abstract!vars
  <2>1. Active' = Active /\ pending' = pending
    BY <1>3, ActiveIsTheJob DEF BeginRun, EndRun, OneDriver
  <2>2. F' = F
    BY <1>3 DEF BeginRun, EndRun, Fate
  <2> QED
    BY <2>1, <2>2 DEF Abstract!vars
<1>4. ASSUME NEW p \in Prompts, AnswerOwn(p) PROVE Abstract!Answer
  <2>1. Active = p /\ Active' = p
    BY <1>4, ActiveIsTheJob DEF AnswerOwn, OneDriver
  <2>2. Fate(p) = "accepted" /\ F' = [F EXCEPT ![p] = "answered"]
    <3>1. slot[p] = Empty /\ answer[p] = Empty /\ pc[p] # "new"
      BY <1>4 DEF AnswerOwn, ResultsAreTrue, DriversHoldJobs
    <3>2. answer'[p] = Reply(p) /\ slot'[p] = Empty /\ pc'[p] # "new"
      BY <1>4, <3>1 DEF AnswerOwn
    <3>3. Fate(p) = "accepted" /\ Fate(p)' = "answered"
      BY <3>1, <3>2 DEF Fate
    <3>4. \A q \in Prompts \ {p} : Fate(q)' = Fate(q)
      BY <1>4 DEF AnswerOwn, Fate
    <3> QED
      BY <3>3, <3>4
  <2> QED
    BY <1>4, <2>1, <2>2 DEF AnswerOwn, Abstract!Answer, Abstract!Settle
<1>5. ASSUME NEW p \in Prompts, AnswerWaiter(p) PROVE Abstract!Answer
  <2>1. Active = job[p] /\ Active' = job[p] /\ job[p] \in Prompts
    BY <1>5, ActiveIsTheJob DEF AnswerWaiter, OneDriver, DriversHoldJobs
  <2>2. pc[job[p]] = "waiting" /\ slot[job[p]] = Empty /\ answer[job[p]] = Empty
    BY <1>5, <2>1 DEF AnswerWaiter, DriversHoldJobs, ResultsAreTrue
  <2>3. Fate(job[p]) = "accepted" /\ F' = [F EXCEPT ![job[p]] = "answered"]
    BY <1>5, <2>1, <2>2 DEF AnswerWaiter, Fate
  <2> QED
    BY <1>5, <2>1, <2>3 DEF AnswerWaiter, Abstract!Answer, Abstract!Settle
<1>6. ASSUME NEW p \in Prompts, AnswerRaises(p) PROVE Abstract!Settle("lost")
  <2>1. Active = p /\ Active' = p
    BY <1>6, ActiveIsTheJob DEF AnswerRaises, OneDriver
  <2>2. Fate(p) = "accepted" /\ F' = [F EXCEPT ![p] = "lost"]
    <3>1. slot[p] = Empty /\ answer[p] = Empty /\ pc[p] # "new"
      BY <1>6 DEF AnswerRaises, ResultsAreTrue, DriversHoldJobs
    <3>2. answer'[p] = Broken /\ slot'[p] = Empty /\ pc'[p] # "new"
      BY <1>6, <3>1 DEF AnswerRaises
    <3>3. Fate(p) = "accepted" /\ Fate(p)' = "lost"
      BY <3>1, <3>2 DEF Fate
    <3>4. \A q \in Prompts \ {p} : Fate(q)' = Fate(q)
      BY <1>6 DEF AnswerRaises, Fate
    <3> QED
      BY <3>3, <3>4
  <2> QED
    BY <1>6, <2>1, <2>2 DEF AnswerRaises, Abstract!Settle
<1>7. ASSUME NEW p \in Prompts, TakeNext(p) PROVE Abstract!Advance
  <2>1. Active = job[p] /\ job[p] \in Prompts
    BY <1>7, ActiveIsTheJob DEF TakeNext, OneDriver, DriversHoldJobs
  <2>2. Active' = pending /\ pending' = NoPrompt
    <3>1. CASE pending = NoPrompt
      <4>1. Drivers' = {}
        BY <1>7, <3>1 DEF TakeNext, OneDriver
      <4> QED
        BY <1>7, <3>1, <4>1, ActiveIsTheJob DEF TakeNext
    <3>2. CASE pending # NoPrompt
      BY <1>7, <3>2, ActiveIsTheJob DEF TakeNext, OneDriver
    <3> QED BY <3>1, <3>2
  <2>3. pc[job[p]] # "new" /\ Reply(job[p]) \in {slot[job[p]], answer[job[p]]}
    BY <1>7, <2>1 DEF TakeNext, DriversHoldJobs, ResultsAreTrue
  <2>4. Fate(job[p]) = "answered" /\ F' = F
    BY <1>7, <2>1, <2>3 DEF TakeNext, Fate
  <2> QED
    BY <2>1, <2>2, <2>4 DEF Abstract!Advance
<1>8. ASSUME NEW p \in Prompts, Wake(p) PROVE UNCHANGED Abstract!vars
  <2>1. Active' = Active /\ pending' = pending
    BY <1>8, ActiveIsTheJob DEF Wake, OneDriver
  <2>2. slot[p] \in {Superseded, Reply(p)}
    BY <1>8 DEF Wake, ResultsAreTrue
  <2>3. Fate(p)' = Fate(p)
    BY <1>8, <2>2 DEF Wake, Fate, ResultsAreTrue
  <2>4. F' = F
    BY <1>8, <2>3 DEF Wake, Fate
  <2> QED
    BY <2>1, <2>4 DEF Abstract!vars
<1>9. ASSUME Crash PROVE Abstract!Crash
  <2>1. Active' = NoPrompt /\ pending' = NoPrompt
    BY <1>9, ActiveIsTheJob DEF Crash, InFlight
  <2>2. ASSUME NEW p \in Prompts
        PROVE  Fate(p)' = IF Fate(p) = "accepted" THEN "lost" ELSE Fate(p)
    <3>1. CASE InFlight(p)
      <4>1. slot'[p] = slot[p] /\ pc[p] # "new" /\ pc'[p] # "new"
        BY <1>9, <3>1 DEF Crash, InFlight
      <4>2. answer'[p] = IF answer[p] = Empty THEN Broken ELSE answer[p]
        BY <1>9, <3>1 DEF Crash
      <4>3. answer[p] \in {Empty, Superseded, Broken, Reply(p)} /\ pc[p] \notin {"done", "lost"}
        BY <3>1 DEF ResultsAreTrue, InFlight
      <4>4. slot[p] \in {Empty, Superseded, Reply(p)}
        BY DEF ResultsAreTrue
      <4>5. answer[p] # Superseded
        BY <3>1, <4>4 DEF InFlight, DriversHoldJobs, ResultsAreTrue, Pcs
      <4> QED
        BY <4>1, <4>2, <4>3, <4>4, <4>5 DEF Fate
    <3>2. CASE ~InFlight(p)
      <4>1. slot'[p] = slot[p] /\ pc'[p] = pc[p] /\ answer'[p] = answer[p]
        BY <1>9, <3>2 DEF Crash
      <4>2. Fate(p) # "accepted"
        BY <3>2 DEF InFlight, Fate, ResultsAreTrue
      <4> QED
        BY <4>1, <4>2 DEF Fate
    <3> QED
      BY <3>1, <3>2
  <2>3. F' = [p \in Prompts |-> IF F[p] = "accepted" THEN "lost" ELSE F[p]]
    BY <2>2
  <2> QED
    BY <2>1, <2>3 DEF Abstract!Crash
<1>10. ASSUME UNCHANGED promptVars PROVE UNCHANGED Abstract!vars
  BY <1>10 DEF promptVars, Abstract!vars, Fate, Active
<1> QED
  BY <1>1, <1>2, <1>3, <1>4, <1>5, <1>6, <1>7, <1>8, <1>9, <1>10
  DEF PromptNext, ThreadStep, Listen, Abstract!Next

(* The threads, the lock and the events implement the latest-wins mailbox,     *)
(* whoever hangs up and whenever the process dies (progress is TLC's).        *)
THEOREM ImplementsLatestWinsSafely == PromptSpec => ImplementsSafely
<1>1. PromptInit => Abstract!Init
  <2> SUFFICES ASSUME PromptInit PROVE Abstract!Init
    OBVIOUS
  <2>1. Active = NoPrompt
    BY ActiveIsTheJob DEF PromptInit, Drivers, Driving, Working
  <2> QED
    BY <2>1 DEF PromptInit, Abstract!Init, Fate
<1>2. QueueInvariant /\ QueueInvariant' /\ [PromptNext]_promptVars
          => [Abstract!Next]_(Abstract!vars)
  BY StepsImplement
<1> QED
  BY <1>1, <1>2, QueueInvariantHolds, PTL
    DEF PromptSpec, ImplementsSafely, Abstract!SafeSpec

-----------------------------------------------------------------------------
(* The promise itself: a text has one fate, and only the waiting one is        *)
(* replaced.                                                                  *)

\* A step of LatestWins from the fates F to the fates G.
FateStep(F, G) ==
    \/ \E p \in Prompts : /\ F[p] = "unsent" /\ Active = NoPrompt /\ pending' = pending
                          /\ G = [F EXCEPT ![p] = "accepted"] /\ Active' = p
    \/ \E p \in Prompts : /\ F[p] = "unsent" /\ Active # NoPrompt /\ pending' = p /\ Active' = Active
                          /\ G = [q \in Prompts |-> IF q = p THEN "accepted"
                                                    ELSE IF q = pending THEN "superseded" ELSE F[q]]
    \/ \E o \in {"answered", "lost"} :
          /\ F[Active] = "accepted" /\ G = [F EXCEPT ![Active] = o]
          /\ Active' = Active /\ pending' = pending
    \/ /\ Active # NoPrompt /\ F[Active] # "accepted"
       /\ Active' = pending /\ pending' = NoPrompt /\ G = F
    \/ /\ G = [p \in Prompts |-> IF F[p] = "accepted" THEN "lost" ELSE F[p]]
       /\ Active' = NoPrompt /\ pending' = NoPrompt
    \/ G = F /\ Active' = Active /\ pending' = pending

LEMMA StepsOfFates ==
    ASSUME [Abstract!Next]_(Abstract!vars)
    PROVE  FateStep([p \in Prompts |-> Fate(p)], [p \in Prompts |-> Fate(p)'])
BY DEF FateStep, Abstract!Next, Abstract!vars, Abstract!AcceptNow, Abstract!AcceptLater, Abstract!Answer,
       Abstract!Settle, Abstract!Advance, Abstract!Crash

LEMMA FatesStayInOrder == Abstract!SafeSpec => [](Abstract!TypeOK /\ Abstract!InOrder)
<1> DEFINE F == [p \in Prompts |-> Fate(p)]
           G == [p \in Prompts |-> Fate(p)']
<1> USE PromptAssumption
<1>1. Abstract!Init => Abstract!TypeOK /\ Abstract!InOrder
  BY DEF Abstract!Init, Abstract!TypeOK, Abstract!InOrder, Abstract!Fates
<1>2. ASSUME Abstract!TypeOK, Abstract!InOrder, [Abstract!Next]_(Abstract!vars)
      PROVE  Abstract!TypeOK' /\ Abstract!InOrder'
  <2>1. /\ F \in [Prompts -> Abstract!Fates] /\ Active \in Prompts \cup {NoPrompt}
        /\ pending \in Prompts \cup {NoPrompt} /\ (Active = NoPrompt => pending = NoPrompt)
        /\ Active # NoPrompt => F[Active] # "unsent"
        /\ pending # NoPrompt => pending # Active /\ F[pending] = "accepted"
    BY <1>2 DEF Abstract!TypeOK, Abstract!InOrder
  <2> SUFFICES /\ G \in [Prompts -> Abstract!Fates] /\ Active' \in Prompts \cup {NoPrompt}
               /\ pending' \in Prompts \cup {NoPrompt} /\ (Active' = NoPrompt => pending' = NoPrompt)
               /\ Active' # NoPrompt => G[Active'] # "unsent"
               /\ pending' # NoPrompt => pending' # Active' /\ G[pending'] = "accepted"
    BY DEF Abstract!TypeOK, Abstract!InOrder
  <2>2. FateStep(F, G)
    BY <1>2, StepsOfFates
  <2> HIDE DEF F, G
  <2> QED
    BY <2>1, <2>2 DEF Abstract!Fates, FateStep
<1> QED
  BY <1>1, <1>2, PTL DEF Abstract!SafeSpec

LEMMA FatesStay == Abstract!SafeSpec => Abstract!FatesAreFinal
<1> DEFINE F == [p \in Prompts |-> Fate(p)]
           G == [p \in Prompts |-> Fate(p)']
<1>1. ASSUME Abstract!TypeOK, Abstract!InOrder, [Abstract!Next]_(Abstract!vars)
      PROVE  Abstract!KeepsFates
  <2>1. F \in [Prompts -> Abstract!Fates] /\ Active \in Prompts \cup {NoPrompt}
    BY <1>1 DEF Abstract!TypeOK
  <2>2. pending # NoPrompt => F[pending] = "accepted"
    BY <1>1 DEF Abstract!InOrder
  <2>3. FateStep(F, G)
    BY <1>1, StepsOfFates
  <2> SUFFICES \A p \in Prompts :
                  /\ F[p] \in {"answered", "superseded", "lost"} => G[p] = F[p]
                  /\ F[p] # "superseded" /\ G[p] = "superseded" =>
                        p = pending /\ pending' \in Prompts /\ F[pending'] = "unsent"
    BY DEF Abstract!KeepsFates
  <2> HIDE DEF F, G
  <2> QED
    BY <2>1, <2>2, <2>3, PromptAssumption DEF Abstract!Fates, FateStep
<1> QED
  BY <1>1, FatesStayInOrder, PTL DEF Abstract!SafeSpec, Abstract!FatesAreFinal

(* Whoever hangs up, and whenever the process dies, no text has two fates, and *)
(* none is replaced but by a newer one while it waits                         *)
(* (claude_wrapper.py:655-713).                                               *)
THEOREM FatesAreFinalHolds == PromptSpec => Abstract!FatesAreFinal
BY ImplementsLatestWinsSafely, FatesStay DEF ImplementsSafely
=============================================================================
