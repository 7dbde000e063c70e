-------------------------- MODULE MessagesProofs --------------------------
(***************************************************************************)
(* Proofs about Messages, for any number of messages, of deaths of either  *)
(* process, and any callers that may hang up.                              *)
(*                                                                         *)
(* Every step is a step of PromptQueue or leaves it alone, so              *)
(* QueueInvariant comes from PromptQueueProofs.  With it, WaitsAreShort    *)
(* follows a text from the pending slot to its own run; as no wait is      *)
(* longer than two runs, no caller gives up while somebody works, and only *)
(* the bridge's death makes a driver's answer raise (CallersListen).       *)
(***************************************************************************)
EXTENDS Messages, PromptQueueProofs

(* The bridge's threads use the wrapper only through POST /prompt.             *)
LEMMA StepsAreQueueSteps == [Next]_vars => [PromptNext]_promptVars
BY DEF Next, vars, Receive, BridgeStep, Hear, Post, Return, TimeOut, WrapperStep, Run, Serve,
       BridgeDies, WrapperDies, PromptNext, ThreadStep

(* All that is proved of the queue's threads holds with the bridge in front of *)
(* them, whichever process dies.                                               *)
THEOREM MessagesKeepToQueue == Spec => PromptSpec
<1>1. Init => PromptInit
  BY DEF Init
<1> QED
  BY <1>1, StepsAreQueueSteps, PTL DEF Spec, PromptSpec

-----------------------------------------------------------------------------
(* What the queue's steps do to a single text.                                 *)

(* Only the two sections of POST /prompt take a new text, each its own; a      *)
(* caller is told one thing, and a thread that ended stays so; and a caller    *)
(* that is told "superseded" has no thread any more.                           *)
LEMMA OneStepOfAText ==
    ASSUME QueueInvariant, [PromptNext]_promptVars, NEW p \in Prompts
    PROVE  /\ pc[p] # "new" => pc'[p] # "new"
           /\ pc[p] = "new" => pc'[p] = "new" \/ Claim(p) \/ Enqueue(p)
           /\ pc[p] = "done" => pc'[p] = "done"
           /\ answer[p] # Empty => answer'[p] = answer[p]
           /\ answer'[p] = Superseded => answer[p] = Superseded \/ pc'[p] = "done"
<1> DEFINE Moved == /\ pc[p] # "new" => pc'[p] # "new"
                    /\ pc[p] = "new" => pc'[p] = "new" \/ Claim(p) \/ Enqueue(p)
                    /\ pc[p] = "done" => pc'[p] = "done"
           Told == /\ answer[p] # Empty => answer'[p] = answer[p]
                   /\ answer'[p] = Superseded => answer[p] = Superseded \/ pc'[p] = "done"
<1> SUFFICES Moved /\ Told
  OBVIOUS
<1> USE OutcomeFacts
    DEF QueueInvariant, TypeOK, Drivers, Driving, Working, historyVars, Arrive
<1>1. ASSUME NEW q \in Prompts, Claim(q) \/ Enqueue(q) PROVE Moved /\ Told
  BY <1>1 DEF Claim, Enqueue
<1>2. ASSUME NEW d \in Prompts, BeginRun(d) \/ EndRun(d) \/ TakeNext(d) PROVE Moved /\ Told
  BY <1>2 DEF BeginRun, EndRun, TakeNext
<1>3. ASSUME NEW d \in Prompts, AnswerOwn(d) \/ AnswerRaises(d) PROVE Moved /\ Told
  <2>1. answer[d] = Empty
    BY <1>3 DEF AnswerOwn, AnswerRaises, DriversHoldJobs
  <2> QED
    BY <1>3, <2>1 DEF AnswerOwn, AnswerRaises
<1>4. ASSUME NEW d \in Prompts, AnswerWaiter(d) PROVE Moved /\ Told
  BY <1>4 DEF AnswerWaiter
<1>5. ASSUME NEW q \in Prompts, Wake(q) PROVE Moved /\ Told
  <2>1. answer[q] = Empty
    BY <1>5 DEF Wake, ResultsAreTrue
  <2> QED
    BY <1>5, <2>1 DEF Wake
<1>6. ASSUME Crash PROVE Moved /\ Told
  BY <1>6 DEF Crash, InFlight
<1>7. ASSUME UNCHANGED promptVars PROVE Moved /\ Told
  BY <1>7 DEF promptVars
<1> QED
  BY <1>1, <1>2, <1>3, <1>4, <1>5, <1>6, <1>7 DEF PromptNext, ThreadStep, Listen

-----------------------------------------------------------------------------
(* The parts of the invariant.                                                 *)

LEMMA InitialMessages == Init => MessagesInvariant
<1> SUFFICES ASSUME Init PROVE MessagesInvariant
  OBVIOUS
<1>1. QueueInvariant
  BY InitialQueue DEF Init
<1>2. Drivers = {}
  BY DEF Init, PromptInit, Drivers, Driving, Working
<1>3. MessagesTypeOK
  BY <1>1, MessageAssumption DEF Init, PromptInit, MessagesTypeOK, QueueInvariant, Stages, Ended
<1>4. WaitsAreShort /\ TwoRunsAtMost
  BY <1>2 DEF Init, PromptInit, WaitsAreShort, TwoRunsAtMost
<1>5. CallersListen /\ SilenceMeansReplaced /\ ToldWhatWasRun /\ OnlyDeathStrands
  BY <1>2, OutcomeFacts
  DEF Init, PromptInit, CallersListen, SilenceMeansReplaced, Ended, ToldWhatWasRun, OnlyDeathStrands
<1> QED
  BY <1>1, <1>3, <1>4, <1>5 DEF MessagesInvariant

(* What the phone shows of a text is what the wrapper told, and what became of *)
(* it.                                                                         *)
LEMMA WhatIsShownIsTrue ==
    QueueInvariant /\ CallersListen => SilenceMeansReplaced /\ ToldWhatWasRun
<1> SUFFICES ASSUME QueueInvariant, CallersListen
             PROVE  SilenceMeansReplaced /\ ToldWhatWasRun
  OBVIOUS
<1>1. ASSUME NEW p \in Prompts, stage[p] = "quiet" PROVE Replaced(p)
  <2>1. answer[p] = Superseded /\ pc[p] = "done"
    BY <1>1 DEF CallersListen
  <2>2. slot[p] = Superseded /\ runs[p] = 0
    BY <2>1 DEF QueueInvariant, ResultsAreTrue
  <2> QED
    BY <2>1, <2>2 DEF QueueInvariant, NewestIsKept, Replaced
<1>2. ASSUME NEW p \in Prompts, stage[p] = "told" PROVE answer[p] = Reply(p) /\ runs[p] = 1
  BY <1>2 DEF CallersListen, QueueInvariant, ResultsAreTrue
<1>3. \A p \in Prompts : stage[p] = "gone" => deaths > 0
  BY DEF CallersListen
<1> QED
  BY <1>1, <1>2, <1>3 DEF SilenceMeansReplaced, ToldWhatWasRun, Ended

(* A text in line is driven by its own thread, is the pending one, or was      *)
(* taken by the driver: in each place its wait is short.                       *)
LEMMA NobodyWaitsLong ==
    QueueInvariant /\ MessagesTypeOK /\ WaitsAreShort => TwoRunsAtMost
<1> SUFFICES ASSUME QueueInvariant, MessagesTypeOK, WaitsAreShort, NEW p \in Prompts, InLine(p)
             PROVE  sat[p] <= 2
  BY DEF TwoRunsAtMost
<1> USE OutcomeFacts DEF QueueInvariant, Drivers, Driving, Working
<1>1. pc[p] = "waiting" \/ (p \in Drivers /\ pc[p] \in Working /\ job[p] = p)
  BY DEF InLine, TypeOK, Pcs, DriversHoldJobs
<1>2. CASE p \in Drivers /\ pc[p] \in Working /\ job[p] = p
  BY <1>2 DEF WaitsAreShort
<1>3. CASE pc[p] = "waiting"
  <2>1. (busy /\ pending = p) \/ \E d \in Drivers : job[d] = p /\ pc[d] \in Working
    BY <1>3 DEF InLine, NoWaiterForgotten
  <2>2. pending = p => sat[p] <= 1
    BY PromptAssumption DEF WaitsAreShort
  <2> QED
    BY <2>1, <2>2 DEF WaitsAreShort, MessagesTypeOK
<1> QED
  BY <1>1, <1>2, <1>3

-----------------------------------------------------------------------------
(* What the steps do to the parts.                                             *)

LEMMA TypesStay ==
    ASSUME QueueInvariant', QueueInvariant, MessagesTypeOK, [Next]_vars
    PROVE  MessagesTypeOK'
<1> DEFINE Staged(p) == /\ stage[p] \in {"unsent", "hearing", "posting"} => pc[p] = "new"
                        /\ stage[p] \in {"asking", "told", "quiet"} => pc[p] # "new"
<1> SUFFICES /\ stage' \in [Prompts -> Stages] /\ deaths' \in 0..MaxDeaths
             /\ sat' \in [Prompts -> Nat]
             /\ \A p \in Prompts : Staged(p)'
  BY DEF MessagesTypeOK, QueueInvariant
<1> USE MessageAssumption DEF MessagesTypeOK, Stages, Ended, QueueInvariant, TypeOK
<1>1. ASSUME NEW p \in Prompts, Receive(p) \/ Hear(p)
      PROVE  /\ stage' \in [Prompts -> Stages] /\ UNCHANGED <<deaths, sat>>
             /\ \A q \in Prompts : Staged(q)'
  BY <1>1 DEF Receive, Hear, Say, Go, promptVars
<1>2. ASSUME NEW p \in Prompts, Post(p)
      PROVE  /\ stage' \in [Prompts -> Stages] /\ UNCHANGED <<deaths, sat>>
             /\ \A q \in Prompts : Staged(q)'
  <2>1. CASE Go(p, "posting", "asking") /\ (Claim(p) \/ Enqueue(p))
    BY <1>2, <2>1 DEF Post, Go, Claim, Enqueue
  <2>2. CASE Say(p, "posting", "failed") /\ UNCHANGED promptVars
    BY <1>2, <2>2 DEF Post, Say, Go, promptVars
  <2> QED
    BY <1>2, <2>1, <2>2 DEF Post
<1>3. ASSUME NEW p \in Prompts, Return(p) \/ TimeOut(p)
      PROVE  /\ stage' \in [Prompts -> Stages] /\ UNCHANGED <<deaths, sat>>
             /\ \A q \in Prompts : Staged(q)'
  <2>1. ToSay(p) \in {"quiet", "told", "failed"}
    BY DEF ToSay
  <2> QED
    BY <1>3, <2>1 DEF Return, TimeOut, Say, Go, promptVars
<1>4. ASSUME NEW p \in Prompts, WrapperStep(p)
      PROVE  /\ UNCHANGED messageVars /\ sat' \in [Prompts -> Nat]
             /\ \A q \in Prompts : Staged(q)'
  <2>1. UNCHANGED messageVars /\ sat' \in [Prompts -> Nat]
    BY <1>4 DEF WrapperStep, Run, Serve
  <2>2. ASSUME NEW q \in Prompts PROVE pc[q] = "new" <=> pc'[q] = "new"
    BY <1>4, OutcomeFacts
    DEF WrapperStep, Run, Serve, BeginRun, EndRun, AnswerOwn, AnswerWaiter, AnswerRaises,
        TakeNext, Wake
  <2> QED
    BY <2>1, <2>2 DEF messageVars
<1>5. ASSUME BridgeDies
      PROVE  /\ stage' \in [Prompts -> Stages] /\ deaths' \in 0..MaxDeaths /\ sat' = sat
             /\ \A q \in Prompts : Staged(q)'
  BY <1>5 DEF BridgeDies, promptVars
<1>6. ASSUME WrapperDies
      PROVE  /\ UNCHANGED <<messageVars, sat>>
             /\ \A q \in Prompts : Staged(q)'
  BY <1>6 DEF WrapperDies, Crash, InFlight, messageVars
<1>7. CASE UNCHANGED vars
  BY <1>7 DEF vars, messageVars, promptVars
<1> QED
  BY <1>1, <1>2, <1>3, <1>4, <1>5, <1>6, <1>7 DEF Next, BridgeStep, messageVars

(* A text's wait is counted in runs that begin: one more while it is pending,  *)
(* or its own.                                                                 *)
LEMMA WaitsStayShort ==
    ASSUME QueueInvariant, MessagesTypeOK, WaitsAreShort, [Next]_vars
    PROVE  WaitsAreShort'
<1> USE OutcomeFacts, PromptAssumption
    DEF QueueInvariant, TypeOK, MessagesTypeOK, Drivers, Driving, Working
<1>1. ASSUME UNCHANGED <<busy, pending, pc, job, sat>> PROVE WaitsAreShort'
  BY <1>1 DEF WaitsAreShort
<1>2. ASSUME NEW p \in Prompts, sat' = sat, Claim(p) PROVE WaitsAreShort'
  <2>1. pending = NoPrompt /\ Drivers = {}
    BY <1>2 DEF Claim, OneDriver, PendingWaits
  <2> QED
    BY <1>2, <2>1 DEF Claim, WaitsAreShort
<1>3. ASSUME NEW p \in Prompts, sat' = sat, Enqueue(p) PROVE WaitsAreShort'
  BY <1>3 DEF Enqueue, WaitsAreShort
<1>4. ASSUME NEW d \in Prompts, Run(d) PROVE WaitsAreShort'
  <2>1. \A e \in Drivers : e = d
    BY <1>4 DEF Run, BeginRun, OneDriver
  <2>2. \A p \in Prompts : pc[p] = "new" => ~InLine(p)
    BY DEF InLine
  <2>3. \A p \in Prompts : sat'[p] = sat[p] \/ (InLine(p) /\ sat'[p] = sat[p] + 1)
    BY <1>4 DEF Run
  <2>4. pending # NoPrompt => sat[pending] = 0
    BY <1>4 DEF Run, BeginRun, WaitsAreShort
  <2>5. sat[job[d]] <= 1 /\ job[d] \in Prompts
    BY <1>4 DEF Run, BeginRun, WaitsAreShort, DriversHoldJobs
  <2>6. /\ UNCHANGED <<pending, job>> /\ pc' = [pc EXCEPT ![d] = "running"]
    BY <1>4 DEF Run, BeginRun
  <2>7. /\ \A p \in Prompts : pc'[p] = "new" => sat'[p] = 0
        /\ \A e \in Drivers' : e = d
    BY <2>1, <2>2, <2>3, <2>6 DEF WaitsAreShort
  <2>8. pending' # NoPrompt => sat'[pending'] <= 1
    BY <2>3, <2>4, <2>6
  <2>9. sat'[job'[d]] <= 2
    BY <2>3, <2>5, <2>6
  <2> QED
    BY <2>6, <2>7, <2>8, <2>9 DEF WaitsAreShort
<1>5. ASSUME NEW d \in Prompts, sat' = sat,
             EndRun(d) \/ AnswerOwn(d) \/ AnswerWaiter(d) \/ AnswerRaises(d)
      PROVE  WaitsAreShort'
  BY <1>5 DEF EndRun, AnswerOwn, AnswerWaiter, AnswerRaises, WaitsAreShort
<1>6. ASSUME NEW d \in Prompts, sat' = sat, TakeNext(d) PROVE WaitsAreShort'
  <2>1. \A e \in Drivers : e = d
    BY <1>6 DEF TakeNext, OneDriver
  <2>2. pending # NoPrompt => sat[pending] <= 1
    BY DEF WaitsAreShort
  <2> QED
    BY <1>6, <2>1, <2>2 DEF TakeNext, WaitsAreShort
<1>7. ASSUME NEW p \in Prompts, sat' = sat, Wake(p) PROVE WaitsAreShort'
  BY <1>7 DEF Wake, WaitsAreShort
<1>8. ASSUME sat' = sat, Crash PROVE WaitsAreShort'
  BY <1>8 DEF Crash, InFlight, WaitsAreShort, Pcs
<1>9. ASSUME NEW p \in Prompts, BridgeStep(p) PROVE WaitsAreShort'
  BY <1>1, <1>2, <1>3, <1>9 DEF BridgeStep, Hear, Post, Return, TimeOut, promptVars
<1>10. ASSUME NEW d \in Prompts, WrapperStep(d) PROVE WaitsAreShort'
  BY <1>4, <1>5, <1>6, <1>7, <1>10 DEF WrapperStep, Serve, historyVars, EndRun
<1> QED
  BY <1>1, <1>8, <1>9, <1>10 DEF Next, vars, promptVars, Receive, BridgeDies, WrapperDies

(* Nobody but a dying bridge hangs up on a driver, and what is shown stays     *)
(* what was told.                                                              *)
LEMMA CallersStayListening ==
    ASSUME MessagesInvariant, [Next]_vars
    PROVE  CallersListen' /\ OnlyDeathStrands'
<1> DEFINE Heard(d) == pc[d] \in Working /\ job[d] = d => stage[d] \in {"asking", "gone"}
           Stuck(d) == pc[d] = "stuck" => stage[d] = "gone" /\ deaths > 0
           Shown(p) == /\ stage[p] = "gone" => deaths > 0
                       /\ stage[p] = "quiet" => answer[p] = Superseded
                       /\ stage[p] = "told" => answer[p] = Reply(p)
<1> SUFFICES ASSUME NEW p \in Prompts
             PROVE  /\ Heard(p)' /\ Stuck(p)' /\ Shown(p)'
                    /\ answer'[p] = Superseded => pc'[p] = "done"
  BY DEF CallersListen, OnlyDeathStrands, Drivers, Driving
<1>0. /\ Heard(p) /\ Stuck(p) /\ Shown(p)
      /\ answer[p] = Superseded => pc[p] = "done"
      /\ QueueInvariant /\ MessagesTypeOK
  BY DEF MessagesInvariant, CallersListen, OnlyDeathStrands, Drivers, Driving
<1>1. [PromptNext]_promptVars
  BY StepsAreQueueSteps
<1>2. /\ answer'[p] = Superseded => pc'[p] = "done"
      /\ answer[p] # Empty => answer'[p] = answer[p]
  BY <1>0, <1>1, OneStepOfAText
<1> USE OutcomeFacts DEF Working, Drivers, Driving
<1>3. ASSUME NEW q \in Prompts, Receive(q) \/ Hear(q) PROVE Heard(p)' /\ Stuck(p)' /\ Shown(p)'
  BY <1>0, <1>3 DEF Receive, Hear, Say, Go, promptVars, MessagesTypeOK, QueueInvariant, TypeOK
<1>4. ASSUME NEW q \in Prompts, Post(q) PROVE Heard(p)' /\ Stuck(p)' /\ Shown(p)'
  <2>1. CASE Go(q, "posting", "asking") /\ (Claim(q) \/ Enqueue(q))
    BY <1>0, <1>2, <1>4, <2>1
    DEF Post, Go, Claim, Enqueue, MessagesTypeOK, QueueInvariant, TypeOK
  <2>2. CASE Say(q, "posting", "failed") /\ UNCHANGED promptVars
    BY <1>0, <1>4, <2>2 DEF Post, Say, Go, promptVars, MessagesTypeOK, QueueInvariant, TypeOK
  <2> QED
    BY <1>4, <2>1, <2>2 DEF Post
<1>5. ASSUME NEW q \in Prompts, Return(q) PROVE Heard(p)' /\ Stuck(p)' /\ Shown(p)'
  <2>1. answer[q] \in {Superseded, Broken, Reply(q)}
    BY <1>0, <1>5 DEF Return, QueueInvariant, ResultsAreTrue
  <2>2. /\ ToSay(q) \in {"quiet", "told", "failed"}
        /\ ToSay(q) = "quiet" => answer[q] = Superseded
        /\ ToSay(q) = "told" => answer[q] = Reply(q)
    BY <2>1, Kinds DEF ToSay
  <2>3. ~(pc[q] \in Working /\ job[q] = q)
    BY <1>0, <1>5 DEF Return, QueueInvariant, DriversHoldJobs
  <2> QED
    BY <1>0, <1>5, <2>2, <2>3 DEF Return, Say, Go, promptVars, MessagesTypeOK
<1>6. ASSUME NEW q \in Prompts, TimeOut(q) PROVE Heard(p)' /\ Stuck(p)' /\ Shown(p)'
  <2>1. sat[q] <= 2
    BY <1>6 DEF TimeOut, MessagesInvariant, TwoRunsAtMost
  <2>2. \A d \in Drivers : pc[d] = "stuck"
    BY <1>0, <1>6, <2>1 DEF TimeOut, MessagesTypeOK
  <2>3. stage[q] = "asking" /\ pc[q] \notin Working
    BY <1>6, <2>2 DEF TimeOut, Say, Go
  <2> QED
    BY <1>0, <1>6, <2>3 DEF TimeOut, Say, Go, promptVars, MessagesTypeOK
<1>7. ASSUME NEW d \in Prompts, Run(d) \/ EndRun(d) \/ TakeNext(d), UNCHANGED messageVars
      PROVE  Heard(p)' /\ Stuck(p)' /\ Shown(p)'
  <2>1. pending # NoPrompt => pc[pending] = "waiting"
    BY <1>0 DEF QueueInvariant, PendingWaits
  <2>2. answer' = answer
    BY <1>7 DEF Run, BeginRun, EndRun, TakeNext, historyVars
  <2> QED
    BY <1>0, <1>7, <2>1, <2>2
    DEF Run, BeginRun, EndRun, TakeNext, messageVars, QueueInvariant, TypeOK
<1>8. ASSUME NEW d \in Prompts, AnswerOwn(d) \/ AnswerWaiter(d) \/ Wake(d), UNCHANGED messageVars
      PROVE  Heard(p)' /\ Stuck(p)' /\ Shown(p)'
  <2>1. Shown(p)'
    BY <1>0, <1>2, <1>8 DEF messageVars
  <2> QED
    BY <1>0, <1>8, <2>1 DEF AnswerOwn, AnswerWaiter, Wake, messageVars, QueueInvariant, TypeOK
<1>9. ASSUME NEW d \in Prompts, AnswerRaises(d), HungUp(d), UNCHANGED messageVars
      PROVE  Heard(p)' /\ Stuck(p)' /\ Shown(p)'
  <2>1. d \in Drivers /\ pc[d] \in Working /\ job[d] = d
    BY <1>9 DEF AnswerRaises
  <2>2. stage[d] = "gone" /\ deaths > 0
    BY <1>9, <2>1 DEF HungUp, MessagesInvariant, CallersListen
  <2>3. Shown(p)'
    BY <1>0, <1>2, <1>9 DEF messageVars
  <2> QED
    BY <1>0, <1>9, <2>2, <2>3 DEF AnswerRaises, messageVars, QueueInvariant, TypeOK
<1>10. ASSUME BridgeDies PROVE Heard(p)' /\ Stuck(p)' /\ Shown(p)'
  BY <1>0, <1>10 DEF BridgeDies, promptVars, Ended, MessagesTypeOK
<1>11. ASSUME WrapperDies PROVE Heard(p)' /\ Stuck(p)' /\ Shown(p)'
  <2>1. pc'[p] \notin Working \cup {"stuck"}
    BY <1>0, <1>11 DEF WrapperDies, Crash, InFlight, QueueInvariant, TypeOK, Pcs
  <2> QED
    BY <1>0, <1>2, <1>11, <2>1 DEF WrapperDies, messageVars
<1>12. CASE UNCHANGED vars
  BY <1>0, <1>12 DEF vars, promptVars, messageVars
<1>13. Heard(p)' /\ Stuck(p)' /\ Shown(p)'
  BY <1>3, <1>4, <1>5, <1>6, <1>7, <1>8, <1>9, <1>10, <1>11, <1>12
  DEF Next, BridgeStep, WrapperStep, Run, Serve
<1> QED
  BY <1>2, <1>13

-----------------------------------------------------------------------------

(* No step of the bridge's threads or the wrapper's, and no death of either,   *)
(* leaves the inductive invariant.                                             *)
THEOREM MessagesInductive == MessagesInvariant /\ [Next]_vars => MessagesInvariant'
<1>0. /\ (QueueInvariant /\ MessagesTypeOK /\ WaitsAreShort => TwoRunsAtMost)'
      /\ (QueueInvariant /\ CallersListen => SilenceMeansReplaced /\ ToldWhatWasRun)'
  BY NobodyWaitsLong, WhatIsShownIsTrue, PTL
<1> SUFFICES ASSUME MessagesInvariant, [Next]_vars PROVE MessagesInvariant'
  OBVIOUS
<1>1. QueueInvariant'
  BY StepsAreQueueSteps, QueueInductive DEF MessagesInvariant
<1>2. MessagesTypeOK'
  BY <1>1, TypesStay DEF MessagesInvariant
<1>3. WaitsAreShort'
  BY WaitsStayShort DEF MessagesInvariant
<1>4. CallersListen' /\ OnlyDeathStrands'
  BY CallersStayListening
<1>5. TwoRunsAtMost'
  BY <1>0, <1>1, <1>2, <1>3
<1>6. SilenceMeansReplaced' /\ ToldWhatWasRun'
  BY <1>0, <1>1, <1>4
<1> QED
  BY <1>1, <1>2, <1>3, <1>4, <1>5, <1>6 DEF MessagesInvariant

(* The inductive invariant holds however many messages come, whenever either   *)
(* process dies and whoever gives up.                                          *)
THEOREM MessagesInvariantHolds == Spec => []MessagesInvariant
BY InitialMessages, MessagesInductive, PTL DEF Spec

(* A caller sits out at most two runs, so that PROMPT_TIMEOUT_SECONDS, which   *)
(* is more than two of them, never passes while the wrapper works.             *)
THEOREM TwoRunsAtMostHolds == Spec => []TwoRunsAtMost
BY MessagesInvariantHolds, PTL DEF MessagesInvariant

(* A message ends without a word on the phone only if its text never ran and   *)
(* was replaced by one that reached the wrapper later, if what there was to    *)
(* say could not be sent, or if the bridge died.                               *)
THEOREM SilenceMeansReplacedHolds == Spec => []SilenceMeansReplaced
BY MessagesInvariantHolds, PTL DEF MessagesInvariant

(* A reply on the phone is to its own message, whose text ran once.            *)
THEOREM ToldWhatWasRunHolds == Spec => []ToldWhatWasRun
BY MessagesInvariantHolds, PTL DEF MessagesInvariant

(* Only when the bridge dies does a driver's answer raise: no timeout, and no  *)
(* number of messages, leaves `busy' set with nobody driving.                  *)
THEOREM OnlyDeathStrandsHolds == Spec => []OnlyDeathStrands
BY MessagesInvariantHolds, PTL DEF MessagesInvariant
=============================================================================
