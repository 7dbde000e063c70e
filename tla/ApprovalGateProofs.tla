------------------------- MODULE ApprovalGateProofs -------------------------
(***************************************************************************)
(* Proofs about ApprovalGate: its invariant, and from it that nothing      *)
(* happens without a yes, that what was approved happens at most once, and *)
(* that what the tools report is true, for any number of requests, admin   *)
(* threads, retries and restarts.                                          *)
(***************************************************************************)
EXTENDS ApprovalGate, AllowlistProofs

(* A step of the gate alone leaves the allowlist as right as it was.        *)
LEMMA AllowlistUntouched ==
    AllowlistInvariant /\ UNCHANGED allowlistVars => AllowlistInvariant' /\ AllowlistTypeOK'
BY AllowlistInductive DEF AllowlistInvariant

(* A tool that only moves on keeps the invariant if what it moves on to is  *)
(* warranted.                                                               *)
LEMMA ToolMoves ==
    ASSUME GateInvariant, NEW r \in Requests, NEW where \in ToolPcs \cup Reports,
           ToolGoes(r, where),
           UNCHANGED <<listVars, tableVars, call, handling, historyVars>>,
           where \in {"granted", "pushing", "triggering", "waiting", "done"} => r \in yes,
           where \in {"idle", "asking", "notifying", "polling", "denied", "timeout"} =>
               /\ pushes[r] = 0
               /\ effects[r] = 0
               /\ \A n \in Attempts : call[r][n] = "unsent",
           where = "pushing" => pushes[r] = 0,
           where \in {"triggering", "waiting"} => r \in Triggers,
           where = "done" => IF r \in Triggers THEN effects[r] > 0 ELSE pushes[r] > 0,
           where = "granted" /\ r \in Urls => Domain[r] \in listed
    PROVE  GateInvariant'
<1>1. UNCHANGED <<allowlistVars, listed, status, executed, call, handling, yes, told, pushes,
                  effects>>
  BY DEF listVars, tableVars, historyVars
<1>2. AllowlistInvariant' /\ AllowlistTypeOK'
  BY <1>1, AllowlistUntouched DEF GateInvariant
<1>3. \A q \in Requests : tool'[q] = IF q = r THEN where ELSE tool[q]
  BY DEF ToolGoes, GateInvariant, GateTypeOK
<1>4. tool' \in [Requests -> ToolPcs \cup Reports]
  BY DEF ToolGoes, GateInvariant, GateTypeOK
<1>5. GateTypeOK'
  BY <1>1, <1>2, <1>4 DEF GateInvariant, GateTypeOK
<1>6. OnlyWithYes'
  BY <1>1, <1>3 DEF GateInvariant, OnlyWithYes
<1>7. NothingYet' /\ PushedOnce'
  BY <1>1, <1>3 DEF GateInvariant, NothingYet, PushedOnce
<1>8. OneRelay'
  BY <1>1 DEF GateInvariant, OneRelay
<1>9. AnswersAreEarned' /\ SuccessIsReal'
  BY <1>1, <1>3 DEF GateInvariant, AnswersAreEarned, SuccessIsReal
<1>10. job' = job
  BY <1>1 DEF allowlistVars
<1>11. GrantsUnderWay'
  BY <1>1, <1>10 DEF GateInvariant, GrantsUnderWay, At
<1>12. ApprovedUrlIsListed'
  BY <1>1, <1>3 DEF GateInvariant, ApprovedUrlIsListed, Urls
<1>13. QED
  BY <1>2, <1>5, <1>6, <1>7, <1>8, <1>9, <1>11, <1>12 DEF GateInvariant

(* The steps of a tool that concern nobody else.                            *)
LEMMA ToolSteps ==
    ASSUME GateInvariant, NEW r \in Requests,
           \/ Ask(r) \/ AskFails(r) \/ Notified(r) \/ NotNotified(r) \/ Poll(r) \/ GiveUp(r)
           \/ StopWaiting(r) \/ Killed(r)
    PROVE  GateInvariant'
<1> USE DEF ToolPcs, Reports
<1>1. CASE Ask(r)
  BY <1>1, ToolMoves DEF Ask, GateInvariant, NothingYet
<1>2. CASE AskFails(r)
  BY <1>2, ToolMoves DEF AskFails
<1>3. CASE Notified(r)
  BY <1>3, ToolMoves DEF Notified, GateInvariant, NothingYet
<1>4. CASE NotNotified(r)
  BY <1>4, ToolMoves DEF NotNotified
<1>5. CASE Poll(r)
  <2>1. CASE status[r] = "approved" /\ ToolGoes(r, WhenApproved(r))
    <3>1. /\ WhenApproved(r) \in {"granted", "pushing", "triggering"}
          /\ WhenApproved(r) = "triggering" => r \in Triggers
      BY DEF WhenApproved, Urls, Pushes, Triggers
    <3>2. r \in yes /\ pushes[r] = 0
      BY <1>5, <2>1 DEF Poll, GateInvariant, OnlyWithYes, NothingYet
    <3>3. r \in Urls => Domain[r] \in listed
      BY <2>1 DEF GateInvariant, ApprovedUrlIsListed
    <3>4. QED  BY <1>5, <2>1, <3>1, <3>2, <3>3, ToolMoves DEF Poll
  <2>2. CASE ToolGoes(r, "denied")
    BY <1>5, <2>2, ToolMoves DEF Poll, GateInvariant, NothingYet
  <2>3. CASE ToolGoes(r, "unsure")
    BY <1>5, <2>3, ToolMoves DEF Poll
  <2>4. QED  BY <1>5, <2>1, <2>2, <2>3 DEF Poll
<1>6. CASE GiveUp(r)
  BY <1>6, ToolMoves DEF GiveUp, GateInvariant, NothingYet
<1>7. CASE StopWaiting(r)
  BY <1>7, ToolMoves DEF StopWaiting
<1>8. CASE Killed(r)
  BY <1>8, ToolMoves DEF Killed
<1>9. QED  BY <1>1, <1>2, <1>3, <1>4, <1>5, <1>6, <1>7, <1>8

(* git push, with its three endings.                                        *)
LEMMA PushStep ==
    ASSUME GateInvariant, NEW r \in Requests, Push(r)
    PROVE  GateInvariant'
<1>1. UNCHANGED <<allowlistVars, listed, status, executed, call, handling, yes, told, effects>>
  BY DEF Push, listVars, tableVars
<1>2. AllowlistInvariant' /\ AllowlistTypeOK' /\ job' = job
  BY <1>1, AllowlistUntouched DEF GateInvariant, allowlistVars
<1>3. r \in yes /\ pushes[r] = 0 /\ tool[r] = "pushing"
  BY DEF Push, GateInvariant, OnlyWithYes, PushedOnce
<1>4. PICK where \in {"triggering", "done", "failed", "unsure"} :
        /\ tool' = [tool EXCEPT ![r] = where]
        /\ where = "triggering" => r \in Triggers
        /\ where = "done" => r \notin Triggers /\ pushes' = [pushes EXCEPT ![r] = @ + 1]
  BY DEF Push, ToolGoes
<1>5. pushes' = pushes \/ pushes' = [pushes EXCEPT ![r] = @ + 1]
  BY DEF Push
<1>6. /\ pushes' \in [Requests -> Nat]
      /\ pushes'[r] \in {0, 1}
      /\ \A q \in Requests \ {r} : pushes'[q] = pushes[q]
  BY <1>3, <1>5 DEF GateInvariant, GateTypeOK
<1>7. \A q \in Requests : tool'[q] = IF q = r THEN where ELSE tool[q]
  BY <1>4 DEF GateInvariant, GateTypeOK
<1>8. GateTypeOK'
  BY <1>1, <1>2, <1>4, <1>6 DEF GateInvariant, GateTypeOK, Reports, ToolPcs
<1>9. OnlyWithYes'
  BY <1>1, <1>3, <1>6, <1>7 DEF GateInvariant, OnlyWithYes
<1>10. NothingYet' /\ PushedOnce'
  BY <1>1, <1>6, <1>7 DEF GateInvariant, NothingYet, PushedOnce
<1>11. OneRelay'
  BY <1>1 DEF GateInvariant, OneRelay
<1>12. AnswersAreEarned'
  BY <1>1, <1>4, <1>7 DEF GateInvariant, AnswersAreEarned
<1>13. SuccessIsReal'
  <2>1. where = "done" => pushes'[r] > 0
    BY <1>3, <1>4 DEF GateInvariant, GateTypeOK
  <2>2. QED  BY <1>1, <1>4, <1>6, <1>7, <2>1 DEF GateInvariant, SuccessIsReal
<1>14. GrantsUnderWay'
  BY <1>1, <1>2 DEF GateInvariant, GrantsUnderWay, At
<1>15. ApprovedUrlIsListed'
  BY <1>1, <1>7 DEF GateInvariant, ApprovedUrlIsListed, Urls
<1>16. QED
  BY <1>2, <1>8, <1>9, <1>10, <1>11, <1>12, <1>13, <1>14, <1>15 DEF GateInvariant

(* A trigger request that moves on keeps the invariant if it was sent after *)
(* a yes, does not come alive again, and is answered with what it did.      *)
LEMMA CallMoves ==
    ASSUME GateInvariant, NEW r \in Requests, NEW n \in Attempts,
           NEW where \in CallStates \ {"unsent", "worked"},
           NEW report \in ToolPcs \cup Reports,
           CallGoes(r, n, where), ToolGoes(r, report),
           UNCHANGED <<listVars, tableVars, handling, historyVars>>,
           r \in yes,
           tool[r] \notin {"idle", "asking", "notifying", "polling", "denied", "timeout"},
           where \in {"admitted", "orphan"} => call[r][n] \in {"admitted", "orphan"},
           report \in {"waiting", "failed", "done"} \/ report = tool[r],
           report = "waiting" => r \in Triggers,
           report = "done" /\ report # tool[r] => r \in Triggers /\ effects[r] > 0
    PROVE  GateInvariant'
<1>1. UNCHANGED <<allowlistVars, listed, status, executed, handling, yes, told, pushes, effects>>
  BY DEF listVars, tableVars, historyVars
<1>2. AllowlistInvariant' /\ AllowlistTypeOK' /\ job' = job
  BY <1>1, AllowlistUntouched DEF GateInvariant, allowlistVars
<1>3. \A q \in Requests : tool'[q] = IF q = r THEN report ELSE tool[q]
  BY DEF ToolGoes, GateInvariant, GateTypeOK
<1>4. \A q \in Requests, m \in Attempts :
         call'[q][m] = IF q = r /\ m = n THEN where ELSE call[q][m]
  BY DEF CallGoes, GateInvariant, GateTypeOK
<1>5. GateTypeOK'
  <2>1. call' \in [Requests -> [Attempts -> CallStates]]
    BY DEF CallGoes, GateInvariant, GateTypeOK
  <2>2. tool' \in [Requests -> ToolPcs \cup Reports]
    BY DEF ToolGoes, GateInvariant, GateTypeOK
  <2>3. QED  BY <1>1, <1>2, <2>1, <2>2 DEF GateInvariant, GateTypeOK
<1>6. OnlyWithYes'
  BY <1>1, <1>3, <1>4 DEF GateInvariant, OnlyWithYes
<1>7. NothingYet' /\ PushedOnce'
  BY <1>1, <1>3, <1>4 DEF GateInvariant, NothingYet, PushedOnce
<1>8. OneRelay'
  BY <1>1, <1>4 DEF GateInvariant, OneRelay
<1>9. AnswersAreEarned'
  BY <1>1, <1>3, <1>4 DEF GateInvariant, AnswersAreEarned
<1>10. SuccessIsReal'
  BY <1>1, <1>3 DEF GateInvariant, SuccessIsReal
<1>11. GrantsUnderWay'
  BY <1>1, <1>2 DEF GateInvariant, GrantsUnderWay, At
<1>12. ApprovedUrlIsListed'
  <2>1. report = "granted" => report = tool[r]
    OBVIOUS
  <2>2. QED  BY <1>1, <1>3, <2>1 DEF GateInvariant, ApprovedUrlIsListed, Urls
<1>13. QED
  BY <1>2, <1>5, <1>6, <1>7, <1>8, <1>9, <1>10, <1>11, <1>12 DEF GateInvariant

(* The steps of a trigger request but the two below.                        *)
LEMMA CallSteps ==
    ASSUME GateInvariant, NEW r \in Requests, NEW n \in Attempts,
           \/ Trigger(r) /\ n = 1
           \/ Retry(r, n)
           \/ ComesToNothing(r, n)
           \/ Answer(r, n)
           \/ RelayGivesUp(r, n)
    PROVE  GateInvariant'
<1> DEFINE Done == {"idle", "asking", "notifying", "polling", "denied", "timeout"}
<1>1. tool[r] \in ToolPcs \cup Reports /\ tool = [tool EXCEPT ![r] = tool[r]]
  BY DEF GateInvariant, GateTypeOK
<1>2. (\E m \in Attempts : call[r][m] # "unsent") => r \in yes /\ tool[r] \notin Done
  BY DEF GateInvariant, OnlyWithYes, NothingYet
<1>3. ASSUME NEW report \in {"failed", "done"}, Reply(r, n, report),
             NEW where \in {"over", "orphan"}, CallGoes(r, n, where),
             UNCHANGED <<listVars, tableVars, handling, historyVars>>,
             call[r][n] # "unsent",
             where = "orphan" => call[r][n] = "admitted",
             report = "done" => call[r][n] = "worked"
      PROVE  GateInvariant'
  <2>1. r \in yes /\ tool[r] \notin Done
    BY <1>2, <1>3
  <2>2. CASE tool[r] = "waiting" /\ ToolGoes(r, report)
    <3>1. report = "done" => r \in Triggers /\ effects[r] > 0
      BY <1>3, <2>2 DEF GateInvariant, AnswersAreEarned
    <3>2. QED
      BY <1>3, <2>1, <2>2, <3>1, CallMoves DEF Reports, CallStates
  <2>3. CASE UNCHANGED tool
    <3>1. ToolGoes(r, tool[r])
      BY <1>1, <2>3 DEF ToolGoes
    <3>2. tool[r] = "waiting" => r \in Triggers
      BY DEF GateInvariant, AnswersAreEarned
    <3>3. QED
      BY <1>1, <1>3, <2>1, <3>1, <3>2, CallMoves DEF CallStates
  <2>4. QED  BY <1>3, <2>2, <2>3 DEF Reply
<1>4. CASE Trigger(r) /\ n = 1
  <2>1. r \in yes /\ r \in Triggers /\ tool[r] = "triggering"
    BY <1>4 DEF Trigger, GateInvariant, OnlyWithYes, AnswersAreEarned
  <2>2. QED
    BY <1>4, <2>1, CallMoves DEF Trigger, ToolPcs, CallStates
<1>5. CASE Retry(r, n)
  <2>1. r \in yes /\ tool[r] \notin Done
    BY <1>2, <1>5 DEF Retry
  <2>2. ToolGoes(r, tool[r])
    BY <1>1, <1>5 DEF Retry, ToolGoes
  <2>3. tool[r] = "waiting" => r \in Triggers
    BY DEF GateInvariant, AnswersAreEarned
  <2>4. QED
    BY <1>1, <1>5, <2>1, <2>2, <2>3, CallMoves DEF Retry, CallStates
<1>6. CASE ComesToNothing(r, n)
  <2>1. CASE Reply(r, n, "failed")
    BY <1>3, <1>6, <2>1 DEF ComesToNothing
  <2>2. CASE UNCHANGED tool
    <3>1. r \in yes /\ tool[r] \notin Done
      BY <1>2, <1>6 DEF ComesToNothing
    <3>2. ToolGoes(r, tool[r])
      BY <1>1, <2>2 DEF ToolGoes
    <3>3. tool[r] = "waiting" => r \in Triggers
      BY DEF GateInvariant, AnswersAreEarned
    <3>4. QED
      BY <1>1, <1>6, <3>1, <3>2, <3>3, CallMoves DEF ComesToNothing, CallStates
  <2>3. QED  BY <1>6, <2>1, <2>2 DEF ComesToNothing
<1>7. CASE Answer(r, n)
  BY <1>3, <1>7 DEF Answer
<1>8. CASE RelayGivesUp(r, n)
  BY <1>3, <1>8 DEF RelayGivesUp
<1>9. QED  BY <1>4, <1>5, <1>6, <1>7, <1>8

(* The admission of a trigger: the first one of an approved request, which  *)
(* can then not have had any effect; every other one is turned away.        *)
LEMMA AdmitStep ==
    ASSUME GateInvariant, NEW r \in Requests, NEW n \in Attempts, Admit(r, n)
    PROVE  GateInvariant'
<1>1. UNCHANGED <<allowlistVars, listed, status, handling, yes, told, pushes, effects>>
  BY DEF Admit, listVars, historyVars
<1>2. AllowlistInvariant' /\ AllowlistTypeOK' /\ job' = job
  BY <1>1, AllowlistUntouched DEF GateInvariant, allowlistVars
<1>3. /\ call[r][n] = "sent"
      /\ r \in yes
      /\ tool[r] \notin {"idle", "asking", "notifying", "polling", "denied", "timeout"}
  BY DEF Admit, GateInvariant, OnlyWithYes, NothingYet
<1>4. CASE status[r] = "approved" /\ ~executed[r]
  <2>1. /\ executed' = [executed EXCEPT ![r] = TRUE]
        /\ call' = [call EXCEPT ![r][n] = "admitted"]
        /\ UNCHANGED tool
    BY <1>4 DEF Admit, CallGoes
  <2>2. GateTypeOK'
    BY <1>1, <1>2, <2>1 DEF GateInvariant, GateTypeOK, CallStates
  <2>3. \A q \in Requests, m \in Attempts :
           call'[q][m] = IF q = r /\ m = n THEN "admitted" ELSE call[q][m]
    BY <2>1 DEF GateInvariant, GateTypeOK
  <2>4. OnlyWithYes' /\ NothingYet' /\ PushedOnce'
    BY <1>1, <1>3, <2>1, <2>3 DEF GateInvariant, OnlyWithYes, NothingYet, PushedOnce
  <2>5. OneRelay'
    <3>1. effects[r] = 0 /\ (\A m \in Attempts : call[r][m] \notin {"admitted", "orphan"})
      BY <1>4 DEF GateInvariant, OneRelay
    <3>2. executed'[r] /\ (\A q \in Requests \ {r} : executed'[q] = executed[q])
      BY <2>1 DEF GateInvariant, GateTypeOK
    <3>3. \A m \in Attempts : call'[r][m] \in {"admitted", "orphan"} => m = n
      BY <2>3, <3>1
    <3>4. \A q \in Requests \ {r}, m \in Attempts : call'[q][m] = call[q][m]
      BY <2>3
    <3>5. QED  BY <1>1, <3>1, <3>2, <3>3, <3>4 DEF GateInvariant, OneRelay
  <2>6. AnswersAreEarned' /\ SuccessIsReal'
    BY <1>1, <2>1, <2>3 DEF GateInvariant, AnswersAreEarned, SuccessIsReal
  <2>7. GrantsUnderWay' /\ ApprovedUrlIsListed'
    BY <1>1, <1>2, <2>1 DEF GateInvariant, GrantsUnderWay, ApprovedUrlIsListed, At
  <2>8. QED  BY <1>2, <2>2, <2>4, <2>5, <2>6, <2>7 DEF GateInvariant
<1>5. CASE ~(status[r] = "approved" /\ ~executed[r])
  <2>1. /\ UNCHANGED <<listVars, tableVars, handling, historyVars>>
        /\ CallGoes(r, n, "over")
        /\ Reply(r, n, "failed")
    BY <1>5 DEF Admit, tableVars
  <2>2. PICK report \in {"failed", tool[r]} : ToolGoes(r, report)
    <3>1. tool = [tool EXCEPT ![r] = tool[r]]
      BY DEF GateInvariant, GateTypeOK
    <3>2. QED  BY <2>1, <3>1 DEF Reply, ToolGoes
  <2>3. report \in ToolPcs \cup Reports
    BY DEF Reports, GateInvariant, GateTypeOK
  <2>4. tool[r] = "waiting" => r \in Triggers
    BY DEF GateInvariant, AnswersAreEarned
  <2>5. QED
    BY <1>3, <2>1, <2>2, <2>3, <2>4, CallMoves DEF CallStates
<1>6. QED  BY <1>4, <1>5

(* The effect: of the only trigger that can still have one, and for the     *)
(* first time.                                                              *)
LEMMA EffectStep ==
    ASSUME GateInvariant, NEW r \in Requests, NEW n \in Attempts, TakesEffect(r, n)
    PROVE  GateInvariant'
<1>1. UNCHANGED <<allowlistVars, listed, status, executed, tool, handling, yes, told, pushes>>
  BY DEF TakesEffect, listVars, tableVars
<1>2. AllowlistInvariant' /\ AllowlistTypeOK' /\ job' = job
  BY <1>1, AllowlistUntouched DEF GateInvariant, allowlistVars
<1>3. call[r][n] \in {"admitted", "orphan"} /\ effects[r] = 0
  BY DEF TakesEffect, GateInvariant, OneRelay
<1>4. \A q \in Requests : effects'[q] = IF q = r THEN 1 ELSE effects[q]
  BY <1>3 DEF TakesEffect, GateInvariant, GateTypeOK
<1>5. PICK where \in {"worked", "over"} : call' = [call EXCEPT ![r][n] = where]
  BY DEF TakesEffect, CallGoes
<1>6. \A q \in Requests, m \in Attempts :
         call'[q][m] = IF q = r /\ m = n THEN where ELSE call[q][m]
  BY <1>5 DEF GateInvariant, GateTypeOK
<1>7. GateTypeOK'
  <2>1. effects' \in [Requests -> Nat]
    BY DEF TakesEffect, GateInvariant, GateTypeOK
  <2>2. call' \in [Requests -> [Attempts -> CallStates]]
    BY <1>5 DEF GateInvariant, GateTypeOK, CallStates
  <2>3. QED  BY <1>1, <1>2, <2>1, <2>2 DEF GateInvariant, GateTypeOK
<1>8. r \in yes /\ tool[r] \notin {"idle", "asking", "notifying", "polling", "denied", "timeout"}
  BY <1>3 DEF GateInvariant, OnlyWithYes, NothingYet
<1>9. OnlyWithYes' /\ NothingYet' /\ PushedOnce'
  BY <1>1, <1>4, <1>6, <1>8 DEF GateInvariant, OnlyWithYes, NothingYet, PushedOnce
<1>10. OneRelay'
  BY <1>1, <1>3, <1>4, <1>6 DEF GateInvariant, OneRelay
<1>11. AnswersAreEarned' /\ SuccessIsReal'
  BY <1>1, <1>4, <1>6 DEF GateInvariant, AnswersAreEarned, SuccessIsReal
<1>12. GrantsUnderWay' /\ ApprovedUrlIsListed'
  BY <1>1, <1>2 DEF GateInvariant, GrantsUnderWay, ApprovedUrlIsListed, At
<1>13. QED
  BY <1>2, <1>7, <1>9, <1>10, <1>11, <1>12 DEF GateInvariant

(* A new entry in the table: of a tool call that has done nothing yet.      *)
LEMMA CreateStep ==
    ASSUME GateInvariant, NEW r \in Requests, Create(r)
    PROVE  GateInvariant'
<1>1. UNCHANGED <<allowlistVars, listed, executed, call, handling, yes, told, pushes, effects>>
  BY DEF Create, listVars, historyVars
<1>2. AllowlistInvariant' /\ AllowlistTypeOK' /\ job' = job
  BY <1>1, AllowlistUntouched DEF GateInvariant, allowlistVars
<1>3. /\ status' = [status EXCEPT ![r] = "pending"]
      /\ tool' = [tool EXCEPT ![r] = "notifying"]
      /\ tool[r] = "asking"
  BY DEF Create, ToolGoes
<1>4. /\ \A q \in Requests : status'[q] = IF q = r THEN "pending" ELSE status[q]
      /\ \A q \in Requests : tool'[q] = IF q = r THEN "notifying" ELSE tool[q]
  BY <1>3 DEF GateInvariant, GateTypeOK
<1>5. GateTypeOK'
  BY <1>1, <1>2, <1>3 DEF GateInvariant, GateTypeOK, ToolPcs
<1>6. OnlyWithYes' /\ NothingYet' /\ PushedOnce'
  BY <1>1, <1>3, <1>4 DEF GateInvariant, OnlyWithYes, NothingYet, PushedOnce
<1>7. OneRelay'
  BY <1>1, <1>3, <1>4 DEF GateInvariant, OneRelay, NothingYet
<1>8. AnswersAreEarned' /\ SuccessIsReal'
  BY <1>1, <1>4 DEF GateInvariant, AnswersAreEarned, SuccessIsReal
<1>9. GrantsUnderWay'
  <2>1. \A a \in Threads : handling[a] # NoRequest => handling[a] \in Requests
    BY DEF GateInvariant, GateTypeOK, Urls
  <2>2. QED  BY <1>1, <1>2, <1>4, <2>1 DEF GateInvariant, GrantsUnderWay, At
<1>10. ApprovedUrlIsListed'
  BY <1>1, <1>4 DEF GateInvariant, ApprovedUrlIsListed, Urls
<1>11. QED
  BY <1>2, <1>5, <1>6, <1>7, <1>8, <1>9, <1>10 DEF GateInvariant

(* A decision that is only recorded: a no, or a yes to what is no URL.      *)
LEMMA DecisionSteps ==
    ASSUME GateInvariant, NEW a \in Threads, NEW r \in Requests,
           SayNo(a, r) \/ SayYes(a, r)
    PROVE  GateInvariant'
<1>1. /\ UNCHANGED <<allowlistVars, listed, executed, tool, call, handling, pushes, effects>>
      /\ status[r] # "absent"
  BY DEF SayNo, SayYes, listVars, toolVars
<1>2. AllowlistInvariant' /\ AllowlistTypeOK' /\ job' = job
  BY <1>1, AllowlistUntouched DEF GateInvariant, allowlistVars
<1>3. PICK verdict \in {"approved", "denied"} :
         /\ status' = [status EXCEPT ![r] = verdict]
         /\ told' = [told EXCEPT ![r] = verdict]
         /\ yes' \in {yes, yes \cup {r}}
         /\ verdict = "approved" => r \notin Urls /\ r \in yes'
  BY DEF SayNo, SayYes, Decide
<1>4. \A q \in Requests : status'[q] = IF q = r THEN verdict ELSE status[q]
  BY <1>3 DEF GateInvariant, GateTypeOK
<1>5. GateTypeOK'
  BY <1>1, <1>2, <1>3 DEF GateInvariant, GateTypeOK
<1>6. OnlyWithYes'
  BY <1>1, <1>3, <1>4 DEF GateInvariant, OnlyWithYes
<1>7. NothingYet' /\ PushedOnce' /\ AnswersAreEarned' /\ SuccessIsReal'
  BY <1>1 DEF GateInvariant, NothingYet, PushedOnce, AnswersAreEarned, SuccessIsReal
<1>8. OneRelay'
  BY <1>1, <1>4 DEF GateInvariant, OneRelay
<1>9. GrantsUnderWay'
  <2>1. \A b \in Threads : handling[b] # NoRequest => handling[b] \in Requests
    BY DEF GateInvariant, GateTypeOK, Urls
  <2>2. QED  BY <1>1, <1>2, <1>3, <1>4, <2>1 DEF GateInvariant, GrantsUnderWay, At
<1>10. ApprovedUrlIsListed'
  BY <1>1, <1>3, <1>4 DEF GateInvariant, ApprovedUrlIsListed, Urls
<1>11. QED
  BY <1>2, <1>5, <1>6, <1>7, <1>8, <1>9, <1>10 DEF GateInvariant

(* A yes to a URL: a thread sets out to add the domain.                     *)
LEMMA YesToUrlStep ==
    ASSUME GateInvariant, NEW a \in Threads, NEW r \in Requests, NEW grant \in Grants,
           SayYesToUrl(a, r, grant)
    PROVE  GateInvariant'
<1> DEFINE change == [op |-> "add", domain |-> Domain[r], grant |-> grant]
<1>1. /\ UNCHANGED <<allowlist, squidFile, listed, status, executed, tool, call, told, pushes,
                     effects>>
      /\ Begin(a, change)
      /\ status[r] # "absent"
      /\ r \in Urls
  BY DEF SayYesToUrl, Allow, Begin, tableVars, toolVars
<1>2. handling' = [handling EXCEPT ![a] = r] /\ yes' = yes \cup {r}
  BY DEF SayYesToUrl
<1>3. AllowlistInvariant' /\ AllowlistTypeOK'
  <2>1. Domain[r] \in Domains
    BY GateAssumption
  <2>2. AllowlistNext
    BY <1>1, <2>1 DEF AllowlistNext, Allow
  <2>3. QED
    BY <2>2, AllowlistInductive DEF GateInvariant, AllowlistInvariant
<1>4. /\ job'[a].at = "load"
      /\ job'[a].change = change
      /\ \A b \in Threads \ {a} : job'[b] = job[b]
  BY <1>1 DEF Begin, Workers, GateInvariant, AllowlistInvariant, AllowlistTypeOK
<1>5. GateTypeOK'
  BY <1>1, <1>2, <1>3 DEF GateInvariant, GateTypeOK
<1>6. OnlyWithYes' /\ NothingYet' /\ PushedOnce' /\ OneRelay'
  BY <1>1, <1>2 DEF GateInvariant, OnlyWithYes, NothingYet, PushedOnce, OneRelay
<1>7. AnswersAreEarned' /\ SuccessIsReal' /\ ApprovedUrlIsListed'
  BY <1>1 DEF GateInvariant, AnswersAreEarned, SuccessIsReal, ApprovedUrlIsListed
<1>8. GrantsUnderWay'
  <2>1. \A b \in Threads : handling'[b] = IF b = a THEN r ELSE handling[b]
    BY <1>2 DEF GateInvariant, GateTypeOK
  <2>2. QED
    BY <1>1, <1>2, <1>4, <2>1 DEF GateInvariant, GrantsUnderWay, At
<1>9. QED
  BY <1>3, <1>5, <1>6, <1>7, <1>8 DEF GateInvariant

(* The domain has been added: only now is the request marked approved.      *)
LEMMA UrlAddedStep ==
    ASSUME GateInvariant, NEW a \in Threads, NEW r \in Requests, UrlIsAdded(a, r)
    PROVE  GateInvariant'
<1>1. /\ UNCHANGED <<allowlist, listed, executed, tool, call, yes, pushes, effects>>
      /\ handling[a] = r
      /\ Answered(a)
      /\ status' = [status EXCEPT ![r] = "approved"]
      /\ told' = [told EXCEPT ![r] = "approved"]
      /\ handling' = [handling EXCEPT ![a] = NoRequest]
  BY DEF UrlIsAdded, Decide, Answered, toolVars
<1>2. AllowlistInvariant' /\ AllowlistTypeOK'
  BY <1>1, AllowlistInductive DEF AllowlistNext, Workers, GateInvariant, AllowlistInvariant
<1>3. r # NoRequest /\ At(a, "finish")
  BY <1>1, GateAssumption DEF Answered
<1>4. r \in yes /\ status[r] # "absent" /\ Domain[r] \in listed
  BY <1>1, <1>3 DEF GateInvariant, GrantsUnderWay, At
<1>5. /\ \A q \in Requests : status'[q] = IF q = r THEN "approved" ELSE status[q]
      /\ \A b \in Threads : handling'[b] = IF b = a THEN NoRequest ELSE handling[b]
  BY <1>1 DEF GateInvariant, GateTypeOK
<1>6. GateTypeOK'
  BY <1>1, <1>2 DEF GateInvariant, GateTypeOK
<1>7. OnlyWithYes'
  BY <1>1, <1>4, <1>5 DEF GateInvariant, OnlyWithYes
<1>8. NothingYet' /\ PushedOnce' /\ AnswersAreEarned' /\ SuccessIsReal'
  BY <1>1 DEF GateInvariant, NothingYet, PushedOnce, AnswersAreEarned, SuccessIsReal
<1>9. OneRelay'
  BY <1>1, <1>4, <1>5 DEF GateInvariant, OneRelay
<1>10. GrantsUnderWay'
  <2>1. \A b \in Threads \ {a} : job'[b] = job[b]
    BY <1>1 DEF Answered, Workers, GateInvariant, AllowlistInvariant, AllowlistTypeOK
  <2>2. \A b \in Threads : handling[b] # NoRequest => handling[b] \in Requests
    BY DEF GateInvariant, GateTypeOK, Urls
  <2>3. QED  BY <1>1, <1>5, <2>1, <2>2 DEF GateInvariant, GrantsUnderWay, At
<1>11. ApprovedUrlIsListed'
  BY <1>1, <1>4, <1>5 DEF GateInvariant, ApprovedUrlIsListed, Urls
<1>12. QED
  BY <1>2, <1>6, <1>7, <1>8, <1>9, <1>10, <1>11 DEF GateInvariant

(* What a thread writes for a domain it adds is an entry.                   *)
LEMMA GrantIsAnEntry ==
    ASSUME NEW list \in [Domains -> Entries], NEW change \in Changes, change.op = "add"
    PROVE  Changed(list, change)[change.domain] # Absent
<1>1. PICK d \in Domains, g \in Grants : change = [op |-> "add", domain |-> d, grant |-> g]
  BY DEF Changes
<1>2. Changed(list, change) = [list EXCEPT ![d] = GrantedEntry(g)]
  BY <1>1 DEF Changed
<1>3. GrantedEntry(g) # Absent
  BY DEF GrantedEntry, Permanent, Until, Absent
<1>4. QED  BY <1>1, <1>2, <1>3

(* A thread that is adding the domain of a URL request gets there, whatever *)
(* the other threads of the allowlist do.                                   *)
LEMMA GrantsProceed ==
    ASSUME GateInvariant, AllowlistStep, AllowlistTypeOK'
    PROVE  GrantsUnderWay'
<1>1. UNCHANGED <<status, handling, yes>> /\ listed \subseteq listed'
  BY DEF AllowlistStep, gateOnlyVars, tableVars, historyVars, NoteListed
<1>2. \A d \in Domains : allowlist'[d] # Absent => d \in listed'
  BY DEF AllowlistStep, NoteListed
<1>3. AllowlistTypeOK /\ Threads \subseteq Workers /\ Pruner \notin Threads
  BY AllowlistAssumption DEF GateInvariant, GateTypeOK, Workers
<1> SUFFICES ASSUME NEW a \in Threads, handling[a] # NoRequest
             PROVE  /\ ~At(a, "idle")'
                    /\ At(a, "load")' => /\ job'[a].change.op = "add"
                                         /\ job'[a].change.domain = Domain[handling[a]]
                    /\ At(a, "save")' => job'[a].copy[Domain[handling[a]]] # Absent
                    /\ job'[a].at \in {"render", "reconfigure", "finish"}
                          => Domain[handling[a]] \in listed'
  BY <1>1 DEF GrantsUnderWay, GateInvariant
<1>4. /\ ~At(a, "idle")
      /\ At(a, "load") => /\ job[a].change.op = "add"
                          /\ job[a].change.domain = Domain[handling[a]]
      /\ At(a, "save") => job[a].copy[Domain[handling[a]]] # Absent
      /\ job[a].at \in {"render", "reconfigure", "finish"} => Domain[handling[a]] \in listed
  BY DEF GateInvariant, GrantsUnderWay
<1>5. Domain[handling[a]] \in Domains
  BY GateAssumption DEF GateInvariant, GateTypeOK, Urls
<1>6. CASE job'[a] = job[a]
  BY <1>1, <1>4, <1>6 DEF At
<1>7. CASE Load(a)
  <2>1. job[a].change \in Changes /\ allowlist \in [Domains -> Entries]
    BY <1>3 DEF AllowlistTypeOK
  <2>2. At(a, "load") /\ job[a].change.op = "add"
    BY <1>4, <1>7 DEF Load
  <2>3. /\ job'[a].at = "save"
        /\ job'[a].copy = Changed(allowlist, job[a].change)
    BY <1>3, <1>7, <2>2 DEF Load, AllowlistTypeOK
  <2>4. QED
    BY <1>4, <2>1, <2>2, <2>3, GrantIsAnEntry DEF At
<1>8. CASE Save(a)
  <2>1. job'[a].at = "render" /\ allowlist' = job[a].copy /\ At(a, "save")
    BY <1>3, <1>8 DEF Save, AllowlistTypeOK
  <2>2. QED  BY <1>2, <1>4, <1>5, <2>1 DEF At
<1>9. CASE Render(a)
  <2>1. job'[a].at = "reconfigure" /\ At(a, "render")
    BY <1>3, <1>9 DEF Render, AllowlistTypeOK
  <2>2. QED  BY <1>1, <1>4, <2>1 DEF At
<1>10. CASE Reconfigure(a)
  <2>1. job'[a].at = "finish" /\ At(a, "reconfigure")
    BY <1>3, <1>10 DEF Reconfigure, AllowlistTypeOK, IdleJob
  <2>2. QED  BY <1>1, <1>4, <2>1 DEF At
<1>11. ASSUME NEW b \in Workers, b # a,
              \/ Load(b) \/ Save(b) \/ Render(b) \/ Reconfigure(b) \/ Answered(b)
              \/ \E change \in Changes : Begin(b, change)
       PROVE  job'[a] = job[a]
  BY <1>3, <1>11 DEF Load, Save, Render, Reconfigure, Answered, Begin, AllowlistTypeOK
<1>12. ASSUME NEW b \in Threads, NEW d \in Domains,
              (\E g \in Grants : Allow(b, d, g)) \/ Block(b, d)
       PROVE  job'[a] = job[a]
  <2>1. \E change \in Changes : Begin(b, change)
    BY <1>12 DEF Allow, Block, Changes
  <2>2. b # a
    BY <1>4, <2>1 DEF Begin
  <2>3. QED  BY <1>3, <1>11, <2>1, <2>2
<1>13. ASSUME Prune PROVE job'[a] = job[a]
  <2>1. \E change \in Changes : Begin(Pruner, change)
    BY <1>13 DEF Prune, Changes
  <2>2. QED  BY <1>3, <1>11, <2>1 DEF Workers
<1>14. ASSUME NEW b \in Threads, handling[b] = NoRequest, Answered(b)
       PROVE  job'[a] = job[a]
  BY <1>3, <1>11, <1>14
<1>15. ASSUME Answered(Pruner) PROVE job'[a] = job[a]
  BY <1>3, <1>11, <1>15 DEF Workers
<1>16. ASSUME Tick \/ Start PROVE job'[a] = job[a]
  BY <1>16 DEF Tick, Start
<1>17. ASSUME NEW b \in Workers, Work(b), b # a PROVE job'[a] = job[a]
  BY <1>11, <1>17 DEF Work
<1>18. QED
  BY <1>6, <1>7, <1>8, <1>9, <1>10, <1>12, <1>13, <1>14, <1>15, <1>16, <1>17
     DEF AllowlistStep, Work

(* A step of the allowlist's threads.                                       *)
LEMMA AllowlistSteps ==
    ASSUME GateInvariant, AllowlistStep
    PROVE  GateInvariant'
<1>1. /\ UNCHANGED <<status, executed, tool, call, handling, yes, told, pushes, effects>>
      /\ listed' = listed \cup {d \in Domains : allowlist'[d] # Absent}
  BY DEF AllowlistStep, gateOnlyVars, tableVars, toolVars, historyVars, NoteListed
<1>2. AllowlistNext
  BY DEF AllowlistStep, AllowlistNext, Workers
<1>3. AllowlistInvariant' /\ AllowlistTypeOK'
  BY <1>2, AllowlistInductive DEF GateInvariant, AllowlistInvariant
<1>4. GateTypeOK'
  BY <1>1, <1>3 DEF GateInvariant, GateTypeOK
<1>5. OnlyWithYes' /\ NothingYet' /\ PushedOnce' /\ OneRelay'
  BY <1>1 DEF GateInvariant, OnlyWithYes, NothingYet, PushedOnce, OneRelay
<1>6. AnswersAreEarned' /\ SuccessIsReal' /\ ApprovedUrlIsListed'
  BY <1>1 DEF GateInvariant, AnswersAreEarned, SuccessIsReal, ApprovedUrlIsListed
<1>7. GrantsUnderWay'
  BY <1>3, GrantsProceed
<1>8. QED
  BY <1>3, <1>4, <1>5, <1>6, <1>7 DEF GateInvariant

(* The daemon dies: the table is emptied, and no trigger comes alive.       *)
LEMMA DeathStep ==
    ASSUME GateInvariant, GateDies
    PROVE  GateInvariant'
<1>1. /\ UNCHANGED <<tool, listed, yes, told, pushes, effects>>
      /\ status' = [r \in Requests |-> "absent"]
      /\ executed' = [r \in Requests |-> FALSE]
      /\ handling' = [a \in Threads |-> NoRequest]
  BY DEF GateDies, historyVars
<1>2. AllowlistInvariant' /\ AllowlistTypeOK'
  BY AllowlistInductive DEF GateDies, AllowlistNext, GateInvariant, AllowlistInvariant
<1>3. call' = [r \in Requests |-> [n \in Attempts |->
                 CASE call[r][n] = "admitted" -> "orphan"
                   [] call[r][n] \in {"sent", "worked"} -> "over"
                   [] OTHER -> call[r][n]]]
  BY DEF GateDies
<1>4. \A r \in Requests, n \in Attempts :
         /\ call'[r][n] \in CallStates \ {"worked"}
         /\ call'[r][n] \in {"admitted", "orphan"} <=> call[r][n] \in {"admitted", "orphan"}
         /\ call'[r][n] = "unsent" <=> call[r][n] = "unsent"
  BY <1>3 DEF GateInvariant, GateTypeOK, CallStates
<1>5. GateTypeOK'
  <2>1. call' \in [Requests -> [Attempts -> CallStates]]
    BY <1>3, <1>4
  <2>2. QED  BY <1>1, <1>2, <2>1 DEF GateInvariant, GateTypeOK
<1>6. OnlyWithYes' /\ NothingYet' /\ PushedOnce'
  BY <1>1, <1>4 DEF GateInvariant, OnlyWithYes, NothingYet, PushedOnce
<1>7. OneRelay'
  BY <1>1, <1>4 DEF GateInvariant, OneRelay
<1>8. AnswersAreEarned' /\ SuccessIsReal'
  BY <1>1, <1>4 DEF GateInvariant, AnswersAreEarned, SuccessIsReal
<1>9. GrantsUnderWay' /\ ApprovedUrlIsListed'
  BY <1>1 DEF GateInvariant, GrantsUnderWay, ApprovedUrlIsListed, Urls
<1>10. QED
  BY <1>2, <1>5, <1>6, <1>7, <1>8, <1>9 DEF GateInvariant

(* Nothing has been asked yet.                                              *)
LEMMA GateStarts == GateInit => GateInvariant
<1> SUFFICES ASSUME GateInit PROVE GateInvariant
  OBVIOUS
<1>1. AllowlistInvariant /\ AllowlistTypeOK
  BY AllowlistStarts DEF GateInit, AllowlistInvariant
<1>2. GateTypeOK
  BY <1>1 DEF GateInit, GateTypeOK, ToolPcs, CallStates, Listed
<1>3. OnlyWithYes /\ NothingYet /\ PushedOnce /\ OneRelay
  BY DEF GateInit, OnlyWithYes, NothingYet, PushedOnce, OneRelay
<1>4. AnswersAreEarned /\ SuccessIsReal /\ GrantsUnderWay /\ ApprovedUrlIsListed
  BY DEF GateInit, AnswersAreEarned, SuccessIsReal, GrantsUnderWay, ApprovedUrlIsListed, Urls
<1>5. QED  BY <1>1, <1>2, <1>3, <1>4 DEF GateInvariant

(* Every step of the gate preserves the invariant.                          *)
LEMMA GateInductive == GateInvariant /\ [GateNext]_gateVars => GateInvariant'
<1> SUFFICES ASSUME GateInvariant, [GateNext]_gateVars PROVE GateInvariant'
  OBVIOUS
<1>1. CASE \E r \in Requests : ToolStep(r)
  <2>1. PICK r \in Requests : ToolStep(r)
    BY <1>1
  <2>2. CASE Trigger(r)
    BY <2>2, CallSteps, GateAssumption DEF Attempts
  <2>3. CASE Push(r)
    BY <2>3, PushStep
  <2>4. CASE Create(r)
    BY <2>4, CreateStep
  <2>5. QED  BY <2>1, <2>2, <2>3, <2>4, ToolSteps DEF ToolStep
<1>2. CASE \E r \in Requests, n \in Attempts : CallStep(r, n)
  BY <1>2, CallSteps, AdmitStep, EffectStep DEF CallStep
<1>3. CASE \E a \in Threads, r \in Requests : UserStep(a, r)
  BY <1>3, DecisionSteps, YesToUrlStep, UrlAddedStep DEF UserStep
<1>4. CASE AllowlistStep
  BY <1>4, AllowlistSteps
<1>5. CASE GateDies
  BY <1>5, DeathStep
<1>6. CASE UNCHANGED gateVars
  <2>1. /\ UNCHANGED <<allowlistVars, listed, status, executed, tool, call, handling, yes, told,
                       pushes, effects>>
        /\ job' = job
    BY <1>6 DEF gateVars, listVars, gateOnlyVars, tableVars, toolVars, historyVars,
       allowlistVars
  <2>2. AllowlistInvariant' /\ AllowlistTypeOK'
    BY <2>1, AllowlistUntouched DEF GateInvariant
  <2>3. GateTypeOK'
    BY <2>1, <2>2 DEF GateInvariant, GateTypeOK
  <2>4. OnlyWithYes' /\ NothingYet' /\ PushedOnce' /\ OneRelay'
    BY <2>1 DEF GateInvariant, OnlyWithYes, NothingYet, PushedOnce, OneRelay
  <2>5. AnswersAreEarned' /\ SuccessIsReal' /\ GrantsUnderWay' /\ ApprovedUrlIsListed'
    BY <2>1 DEF GateInvariant, AnswersAreEarned, SuccessIsReal, GrantsUnderWay,
       ApprovedUrlIsListed, At
  <2>6. QED  BY <2>2, <2>3, <2>4, <2>5 DEF GateInvariant
<1>7. QED  BY <1>1, <1>2, <1>3, <1>4, <1>5, <1>6 DEF GateNext

(* The invariant holds in every state the gate can reach.                   *)
THEOREM GateInvariantHolds == GateSpec => []GateInvariant
<1>1. GateInit => GateInvariant
  BY GateStarts
<1>2. GateInvariant /\ [GateNext]_gateVars => GateInvariant'
  BY GateInductive
<1>3. QED  BY <1>1, <1>2, PTL DEF GateSpec

(* The variables of the gate have their types.                              *)
THEOREM GateTypeCorrect == GateSpec => []GateTypeOK
<1>1. GateInvariant => GateTypeOK
  BY DEF GateInvariant
<1>2. QED  BY <1>1, GateInvariantHolds, PTL

(* No push, no effect and no grant without a yes of the user.               *)
THEOREM NothingWithoutApprovalHolds == GateSpec => []NothingWithoutApproval
<1>1. GateInvariant => NothingWithoutApproval
  BY DEF GateInvariant, OnlyWithYes, NothingWithoutApproval
<1>2. QED  BY <1>1, GateInvariantHolds, PTL

(* What was approved happens at most once.                                  *)
THEOREM AtMostOnceHolds == GateSpec => []AtMostOnce
<1>1. GateInvariant => AtMostOnce
  BY DEF GateInvariant, PushedOnce, OneRelay, AtMostOnce
<1>2. QED  BY <1>1, GateInvariantHolds, PTL

(* A tool that reports a denial or a timeout has done nothing, and never    *)
(* will.                                                                    *)
THEOREM NothingWasDoneHolds == GateSpec => []NothingWasDone
<1>1. GateInvariant => NothingWasDone
  BY DEF GateInvariant, NothingYet, NothingWasDone
<1>2. QED  BY <1>1, GateInvariantHolds, PTL

(* A success that is reported has happened.                                 *)
THEOREM SuccessIsRealHolds == GateSpec => []SuccessIsReal
<1>1. GateInvariant => SuccessIsReal
  BY DEF GateInvariant
<1>2. QED  BY <1>1, GateInvariantHolds, PTL

(* A URL that is seen to be approved has been put on the allowlist.         *)
THEOREM ApprovedUrlIsListedHolds == GateSpec => []ApprovedUrlIsListed
<1>1. GateInvariant => ApprovedUrlIsListed
  BY DEF GateInvariant
<1>2. QED  BY <1>1, GateInvariantHolds, PTL

(* The gate only does to the allowlist what Allowlist describes: what is    *)
(* proved of AllowlistSpec holds while requests are approved, too.          *)
THEOREM GateKeepsToAllowlist == GateSpec => AllowlistSpec
<1>1. GateInit => AllowlistInit
  BY DEF GateInit
<1>2. [GateNext]_gateVars => [AllowlistNext]_allowlistVars
  <2> SUFFICES ASSUME [GateNext]_gateVars PROVE [AllowlistNext]_allowlistVars
    OBVIOUS
  <2>1. ASSUME NEW r \in Requests, ToolStep(r)
        PROVE  UNCHANGED allowlistVars
    BY <2>1 DEF ToolStep, Ask, AskFails, Create, Notified, NotNotified, Poll, GiveUp, Push,
       Trigger, StopWaiting, Killed, listVars
  <2>2. ASSUME NEW r \in Requests, NEW n \in Attempts, CallStep(r, n)
        PROVE  UNCHANGED allowlistVars
    BY <2>2 DEF CallStep, Retry, Admit, TakesEffect, ComesToNothing, Answer, RelayGivesUp,
       listVars
  <2>3. ASSUME NEW a \in Threads, NEW r \in Requests, UserStep(a, r)
        PROVE  AllowlistNext \/ UNCHANGED allowlistVars
    <3>1. CASE SayNo(a, r) \/ SayYes(a, r)
      BY <3>1 DEF SayNo, SayYes, listVars
    <3>2. CASE \E g \in Grants : SayYesToUrl(a, r, g)
      BY <3>2, GateAssumption DEF SayYesToUrl, AllowlistNext
    <3>3. CASE UrlIsAdded(a, r)
      BY <3>3 DEF UrlIsAdded, AllowlistNext, Workers
    <3>4. QED  BY <2>3, <3>1, <3>2, <3>3 DEF UserStep
  <2>4. ASSUME AllowlistStep PROVE AllowlistNext
    BY <2>4 DEF AllowlistStep, AllowlistNext, Workers
  <2>5. ASSUME GateDies PROVE AllowlistNext
    BY <2>5 DEF GateDies, AllowlistNext
  <2>6. ASSUME UNCHANGED gateVars PROVE UNCHANGED allowlistVars
    BY <2>6 DEF gateVars, listVars
  <2>7. QED  BY <2>1, <2>2, <2>3, <2>4, <2>5, <2>6 DEF GateNext
<1>3. QED  BY <1>1, <1>2, PTL DEF GateSpec, AllowlistSpec
=============================================================================
