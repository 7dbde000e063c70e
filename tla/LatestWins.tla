----------------------------- MODULE LatestWins -----------------------------
(***************************************************************************)
(* What POST /prompt promises its callers, without threads, locks or       *)
(* events: one text is being worked on, at most one more waits behind it,  *)
(* and a newer text replaces the one that waits.  Every accepted text has  *)
(* exactly one fate.                                                       *)
(*                                                                         *)
(* The promise is the one the module docstring of                          *)
(* server/ai/claude_wrapper.py describes; PromptQueue is shown to          *)
(* implement it.                                                           *)
(***************************************************************************)
CONSTANTS Prompts,   \* the texts that are ever sent, one per request
          NoPrompt   \* no text at all

VARIABLES fate,      \* what became of each text
          active,    \* the text being worked on
          waiting    \* the one text queued up behind it

vars == <<fate, active, waiting>>

Fates == {"unsent", "accepted", "answered", "superseded", "lost"}

TypeOK == /\ fate \in [Prompts -> Fates]
          /\ active \in Prompts \cup {NoPrompt}
          /\ waiting \in Prompts \cup {NoPrompt}

Init == /\ fate = [p \in Prompts |-> "unsent"]
        /\ active = NoPrompt
        /\ waiting = NoPrompt

\* Nothing is going on: the text is worked on at once.
AcceptNow(p) ==
    /\ fate[p] = "unsent"
    /\ active = NoPrompt
    /\ fate' = [fate EXCEPT ![p] = "accepted"]
    /\ active' = p
    /\ UNCHANGED waiting

\* Something is going on: the text takes the only place in the queue, from
\* whichever text held it.
AcceptLater(p) ==
    /\ fate[p] = "unsent"
    /\ active # NoPrompt
    /\ fate' = [q \in Prompts |-> IF q = p THEN "accepted"
                                  ELSE IF q = waiting THEN "superseded"
                                  ELSE fate[q]]
    /\ waiting' = p
    /\ UNCHANGED active

\* The active text is answered, or its caller is found to be gone.
Settle(outcome) ==
    /\ active # NoPrompt
    /\ fate[active] = "accepted"
    /\ fate' = [fate EXCEPT ![active] = outcome]
    /\ UNCHANGED <<active, waiting>>

Answer == Settle("answered")

Advance ==
    /\ active # NoPrompt
    /\ fate[active] # "accepted"
    /\ active' = waiting
    /\ waiting' = NoPrompt
    /\ UNCHANGED fate

\* The process dies: what was not settled is lost.
Crash ==
    /\ fate' = [p \in Prompts |-> IF fate[p] = "accepted" THEN "lost" ELSE fate[p]]
    /\ active' = NoPrompt
    /\ waiting' = NoPrompt

Next == \/ \E p \in Prompts : AcceptNow(p) \/ AcceptLater(p)
        \/ Answer
        \/ Settle("lost")
        \/ Advance
        \/ Crash

SafeSpec == Init /\ [][Next]_vars

\* What is active is settled, and what waits is advanced.
Progress == WF_vars(Answer) /\ WF_vars(Advance)

Spec == SafeSpec /\ Progress

-----------------------------------------------------------------------------

\* What waits waits behind something, and has no fate yet.
InOrder == /\ active = NoPrompt => waiting = NoPrompt
           /\ active # NoPrompt => fate[active] # "unsent"
           /\ waiting # NoPrompt => waiting # active /\ fate[waiting] = "accepted"

\* Only the text that waits is replaced, by one that has just come.
KeepsFates ==
    \A p \in Prompts :
        /\ fate[p] \in {"answered", "superseded", "lost"} => fate'[p] = fate[p]
        /\ fate[p] # "superseded" /\ fate'[p] = "superseded" =>
              p = waiting /\ waiting' \in Prompts /\ fate[waiting'] = "unsent"

(* One fate each: what was answered, replaced or lost stays that, and only  *)
(* an older text is ever replaced, while it waits (claude_wrapper.py:20-30).*)
FatesAreFinal == [][KeepsFates]_vars
=============================================================================
