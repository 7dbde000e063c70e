----------------------------- MODULE Messages -----------------------------
(***************************************************************************)
(* A message from the phone to Claude and back: the threads that           *)
(* server/proxy/signal_bridge.py starts for the messages it receives, and  *)
(* the threads that serve their POST /prompt in server/ai/claude_wrapper.  *)
(* py, which are those of PromptQueue.                                     *)
(*                                                                         *)
(* A prompt stands for its message, its thread in the bridge and the       *)
(* thread that serves it in the wrapper, and is the message's number in    *)
(* the order of receipt.  Either process may die, and a caller may give    *)
(* up.  A run takes at most CLAUDE_TIMEOUT_SECONDS and a caller waits for  *)
(* more than two of them: there is no clock, but TimeOut comes no sooner   *)
(* than that allows.  What becomes of a text that is sent to the phone is  *)
(* Bridge's subject.                                                       *)
(***************************************************************************)
EXTENDS PromptQueue

CONSTANT MaxDeaths    \* bound: how often the bridge dies

ASSUME MessageAssumption == Prompts \subseteq Nat /\ MaxDeaths \in Nat

VARIABLES stage,      \* where the bridge's thread for each message is
          deaths,     \* history: how often the bridge died
          sat         \* history: how many runs began while p was in line

messageVars == <<stage, deaths>>
vars == <<promptVars, messageVars, sat>>

\* A thread ends with a reply or an error on the phone ("told", "failed"), with
\* nothing to say to it ("quiet"), with something to say and a signal_send that
\* raised ("mute"), or with the bridge ("gone").
Ended  == {"told", "failed", "quiet", "mute", "gone"}
Stages == {"unsent", "hearing", "posting", "asking"} \cup Ended

\* The caller hung up: it gave up, or died.
HungUp(p) == stage[p] \in {"failed", "mute", "gone"}

\* p was accepted, and nothing was settled about it yet.
InLine(p) == pc[p] \notin {"new", "done", "lost"} /\ slot[p] = Empty /\ answer[p] = Empty

MessagesTypeOK ==
    /\ TypeOK
    /\ stage \in [Prompts -> Stages]
    /\ deaths \in 0..MaxDeaths
    /\ sat \in [Prompts -> Nat]
    /\ \A p \in Prompts :
          /\ stage[p] \in {"unsent", "hearing", "posting"} => pc[p] = "new"
          /\ stage[p] \in {"asking", "told", "quiet"} => pc[p] # "new"

Init ==
    /\ PromptInit
    /\ stage = [p \in Prompts |-> "unsent"]
    /\ deaths = 0
    /\ sat = [p \in Prompts |-> 0]

-----------------------------------------------------------------------------
(* The bridge.                                                             *)

Go(p, from, to) == stage[p] = from /\ stage' = [stage EXCEPT ![p] = to]

\* The thread's last act is a signal_send, if it has anything to say.  One that
\* raises is logged at best: nobody tries again.
Say(p, from, word) == \/ Go(p, from, word)
                      \/ word # "quiet" /\ Go(p, from, "mute")

\* on_envelope starts a thread for each message, whatever others are doing.
Receive(p) ==
    /\ \A q \in Prompts : q < p => stage[q] # "unsent"
    /\ \E to \in {"hearing", "posting"} : Go(p, "unsent", to)
    /\ UNCHANGED <<promptVars, deaths, sat>>

\* A voice note is transcribed, for up to two minutes.  Without anything heard the
\* thread ends with an error.  With it, "Heard: ..." is sent before the text is
\* posted; no signal_send of handle_voice_message is inside a try, and one that
\* raises ends the thread.
Hear(p) ==
    /\ Go(p, "hearing", "posting") \/ Say(p, "hearing", "failed")
    /\ UNCHANGED <<promptVars, deaths, sat>>

\* POST /prompt, after a look at /status that changes nothing: the wrapper takes
\* it, or there is none to take it.
Post(p) ==
    /\ \/ Go(p, "posting", "asking") /\ (Claim(p) \/ Enqueue(p))
       \/ Say(p, "posting", "failed") /\ UNCHANGED promptVars
    /\ UNCHANGED <<deaths, sat>>

\* Faulty: whatever is not a reply is passed over.
ToSayOfReplies(p) == IF answer[p].kind = "reply" THEN "told" ELSE "quiet"

\* What there is to say: nothing for a text that was replaced, else the reply, or
\* an error.
ToSay(p) == CASE answer[p].kind = "superseded" -> "quiet"
              [] answer[p].kind = "reply"      -> "told"
              [] OTHER                         -> "failed"

\* The answer, or the end of the connection, arrives.
Return(p) ==
    /\ answer[p] # Empty
    /\ Say(p, "asking", ToSay(p))
    /\ UNCHANGED <<promptVars, deaths, sat>>

\* Faulty: urlopen is given no timeout.
NoTimeOut(p) == FALSE

\* PROMPT_TIMEOUT_SECONDS is more than two runs: it passes when a third one has
\* begun, or when nobody runs anything.
TimeOut(p) ==
    /\ InLine(p)
    /\ sat[p] > 2 \/ \A d \in Drivers : pc[d] = "stuck"
    /\ Say(p, "asking", "failed")
    /\ UNCHANGED <<promptVars, deaths, sat>>

\* The bridge dies, and with it every thread.
BridgeDies ==
    /\ deaths < MaxDeaths
    /\ deaths' = deaths + 1
    /\ stage' = [p \in Prompts |-> IF stage[p] \in Ended \cup {"unsent"}
                                   THEN stage[p] ELSE "gone"]
    /\ UNCHANGED <<promptVars, sat>>

-----------------------------------------------------------------------------
(* The wrapper: a write can only raise when its client has hung up.        *)

Run(d) ==
    /\ sat' = [p \in Prompts |-> sat[p] + (IF InLine(p) THEN 1 ELSE 0)]
    /\ BeginRun(d)
    /\ UNCHANGED messageVars

Serve(p) ==
    /\ \/ EndRun(p) \/ AnswerOwn(p) \/ AnswerWaiter(p) \/ TakeNext(p)
       \/ AnswerRaises(p) /\ HungUp(p)
       \/ Wake(p) /\ (answer'[p] = Broken => HungUp(p))
    /\ UNCHANGED <<messageVars, sat>>

WrapperDies == Crash /\ UNCHANGED <<messageVars, sat>>

BridgeStep(p) == Hear(p) \/ Post(p) \/ Return(p) \/ TimeOut(p)
WrapperStep(p) == Run(p) \/ Serve(p)

Next == \/ \E p \in Prompts : Receive(p) \/ BridgeStep(p) \/ WrapperStep(p)
        \/ BridgeDies
        \/ WrapperDies

\* Threads are never suspended, and timeouts come; nobody has to write anything.
Spec == Init /\ [][Next]_vars
FairSpec == Spec /\ \A p \in Prompts : WF_vars(BridgeStep(p)) /\ WF_vars(WrapperStep(p))

-----------------------------------------------------------------------------

(* A caller sits out at most two runs, somebody else's and its own, however  *)
(* many messages come meanwhile: the comment on PROMPT_TIMEOUT_SECONDS says  *)
(* so, and with it no caller gives up on a wrapper that is working.          *)
TwoRunsAtMost ==
    \A p \in Prompts : InLine(p) => sat[p] <= 2

(* The comment on a superseded reply: silence is for a text that was         *)
(* replaced before Claude saw it.  A message that ended with neither a reply *)
(* nor an error was never run and never will be, because a text that reached *)
(* the wrapper later took its place; or what there was to say of it could    *)
(* not be sent; or the bridge died.                                          *)
Replaced(p) == /\ runs[p] = 0 /\ pc[p] = "done"
               /\ \E q \in Prompts : arrival[q] > arrival[p]
SilenceMeansReplaced ==
    \A p \in Prompts : stage[p] \in Ended \ {"told", "failed"} =>
        \/ Replaced(p)
        \/ stage[p] = "mute"
        \/ stage[p] = "gone" /\ deaths > 0

(* A reply on the phone is to that message, whose run is the only one of it. *)
ToldWhatWasRun ==
    \A p \in Prompts : stage[p] = "told" => answer[p] = Reply(p) /\ runs[p] = 1

(* No caller gives up on a wrapper that is working, so nothing but the end   *)
(* of the bridge leaves a driver stuck, and `busy' set with nobody to clear  *)
(* it (the finding of HungUpDriver).                                         *)
OnlyDeathStrands ==
    \A d \in Prompts : pc[d] = "stuck" => stage[d] = "gone" /\ deaths > 0

-----------------------------------------------------------------------------
(* The inductive invariant behind these, by parts.                           *)

\* How many runs began behind a text in each of its places: none before it is
\* the pending one, one before it is taken, two with its own.
WaitsAreShort ==
    /\ \A p \in Prompts : pc[p] = "new" => sat[p] = 0
    /\ pending # NoPrompt =>
          /\ sat[pending] <= 1
          /\ (\E d \in Drivers : pc[d] = "start") => sat[pending] = 0
    /\ \A d \in Drivers :
          /\ pc[d] = "start" => sat[job[d]] <= 1
          /\ pc[d] \in Working => sat[job[d]] <= 2

\* A driver that has not answered its own caller is still listened to, or that
\* caller died; what is shown on the phone is what the wrapper said.
CallersListen ==
    /\ \A d \in Drivers : job[d] = d /\ pc[d] \in Working => stage[d] \in {"asking", "gone"}
    /\ \A p \in Prompts :
          /\ stage[p] = "gone" => deaths > 0
          /\ answer[p] = Superseded => pc[p] = "done"
          /\ stage[p] = "quiet" => answer[p] = Superseded
          /\ stage[p] = "told" => answer[p] = Reply(p)

(* All of these: whatever the threads of either process do, and whichever    *)
(* dies, what the phone shows is what became of the text, and what it does   *)
(* not show has one of three reasons.                                        *)
MessagesInvariant ==
    /\ QueueInvariant
    /\ MessagesTypeOK
    /\ WaitsAreShort
    /\ CallersListen
    /\ TwoRunsAtMost
    /\ SilenceMeansReplaced
    /\ ToldWhatWasRun
    /\ OnlyDeathStrands

-----------------------------------------------------------------------------
(* Liveness, and what the README says.                                       *)

(* Every message that was received comes to an end, its thread's if not one  *)
(* that the phone shows, even when the bridge dies, hangs up on the          *)
(* wrapper's driver that way, and leaves `busy' set with nobody to clear it: *)
(* then its successors' timeouts do it.                                      *)
EveryMessageEnds ==
    \A p \in Prompts : (stage[p] # "unsent") ~> (stage[p] \in Ended)

(* README: "only the most recent pending message is ever actually sent to    *)
(* Claude".  Each message has a thread of its own that looks at /status, and *)
(* may transcribe, before it posts: an older message can come to the wrapper *)
(* later, and take the place of a newer one.  Refuted with the instance of   *)
(* Messages.                                                                 *)
NewestMessageIsKept ==
    \A p \in Prompts : stage[p] = "quiet" => \E q \in Prompts : q > p /\ stage[q] # "unsent"
=============================================================================
