----------------------------- MODULE BridgeProofs -----------------------------
(***************************************************************************)
(* What rpc.call reports is true, for any messages, notices and losses of  *)
(* the connection.                                                         *)
(***************************************************************************)
EXTENDS Bridge, TLAPS

Stages  == {"off", "sent", "begun", "acking", "asking", "replying", "done", "dropped"}
Calls   == [n : 0..2, at : {"idle", "connect", "write", "wait"},
            result : {"none", "ok", "error", "raised", "timeout"}]

(* The lines in a sequence that is added to or taken from.                  *)
LEMMA AppendedLines ==
    ASSUME NEW s \in Seq(Lines), NEW x \in Lines
    PROVE  Append(s, x) \in Seq(Lines) /\ Elements(Append(s, x)) = Elements(s) \cup {x}
<1>1. Append(s, x) \in Seq(Lines) /\ Len(Append(s, x)) = Len(s) + 1
  OBVIOUS
<1>2. \A i \in DOMAIN s : Append(s, x)[i] = s[i] /\ i \in DOMAIN Append(s, x)
  OBVIOUS
<1>3. Append(s, x)[Len(s) + 1] = x /\ Len(s) + 1 \in DOMAIN Append(s, x)
  OBVIOUS
<1>4. DOMAIN Append(s, x) = DOMAIN s \cup {Len(s) + 1}
  OBVIOUS
<1> QED
  BY <1>1, <1>2, <1>3, <1>4 DEF Elements

LEMMA TakenLines ==
    ASSUME NEW s \in Seq(Lines), s # <<>>
    PROVE  /\ Head(s) \in Lines /\ Head(s) \in Elements(s)
           /\ Tail(s) \in Seq(Lines) /\ Elements(Tail(s)) \subseteq Elements(s)
<1>1. Head(s) = s[1] /\ 1 \in DOMAIN s /\ s[1] \in Lines
  OBVIOUS
<1>2. Tail(s) \in Seq(Lines)
  OBVIOUS
<1>3. \A i \in DOMAIN Tail(s) : Tail(s)[i] = s[i + 1] /\ i + 1 \in DOMAIN s
  OBVIOUS
<1> QED
  BY <1>1, <1>2, <1>3 DEF Elements

LEMMA CutLines ==
    ASSUME NEW s \in Seq(Lines), NEW a \in 1..(Len(s) + 1), NEW b \in 0..Len(s)
    PROVE  SubSeq(s, a, b) \in Seq(Lines) /\ Elements(SubSeq(s, a, b)) \subseteq Elements(s)
<1>1. SubSeq(s, a, b) \in Seq(Lines)
  OBVIOUS
<1>2. \A i \in DOMAIN SubSeq(s, a, b) : SubSeq(s, a, b)[i] = s[a + i - 1] /\ a + i - 1 \in DOMAIN s
  OBVIOUS
<1> QED
  BY <1>1, <1>2 DEF Elements

LEMMA NoLines == <<>> \in Seq(Lines) /\ Elements(<<>>) = {}
BY DEF Elements

-----------------------------------------------------------------------------

LEMMA BridgeInitEstablishes == BridgeInit => BridgeInvariant
<1> SUFFICES ASSUME BridgeInit PROVE BridgeInvariant
  OBVIOUS
<1>1. NoCall \in Calls
  BY DEF NoCall, Calls
<1>2. BridgeTypeOK
  BY <1>1, NoLines, BridgeAssumption DEF BridgeInit, BridgeTypeOK, Calls
<1>3. SlotsAreWaitedFor /\ StartsAlone /\ LineIsRead /\ CallsAreCounted
  BY DEF BridgeInit, SlotsAreWaitedFor, StartsAlone, LineIsRead, CallsAreCounted, NoCall, IsAt
<1>5. MessagesGetOneThread
  BY NoLines, BridgeAssumption DEF BridgeInit, MessagesGetOneThread, Once, Lines
<1>6. WaitersExpectAnswers /\ UnderWay
  BY BridgeAssumption
  DEF BridgeInit, WaitersExpectAnswers, UnderWay, NoCall, IsAt, Threads
<1>4. AnswersAreReal
  <2>1. Nothing \notin [id : Ids, ok : {TRUE}]
    BY BridgeAssumption DEF Lines
  <2> QED
    BY <2>1, NoLines DEF BridgeInit, AnswersAreReal
<1> QED
  BY <1>2, <1>3, <1>4, <1>5, <1>6 DEF BridgeInvariant

Types == /\ call \in [Threads -> Calls] /\ slot \in [Ids -> {"empty", "ok", "error"}]
         /\ stage \in [Threads -> Stages] /\ pending \subseteq Ids
         /\ NoCall \in Calls /\ Messages \subseteq Threads /\ Notices \subseteq Threads
         /\ Main \in Threads /\ Main \notin Messages /\ Main \notin Notices

LEMMA TypesOf == BridgeTypeOK => Types
BY BridgeAssumption DEF BridgeTypeOK, Types, Calls, NoCall, Threads, Stages

(* A new call is the thread's first or its second.                          *)
LEMMA Beginnings ==
    ASSUME Types, CallsAreCounted, NEW t \in Threads, Begin(t), IsAt(t, "idle"), call[t].n <= 1
    PROVE  call' \in [Threads -> Calls]
BY DEF Types, Begin, Calls

LEMMA BeginsOnce ==
    ASSUME Types, CallsAreCounted, NEW t \in Threads, AckIfBusy(t) \/ Reply(t) \/ Complain(t)
    PROVE  Begin(t) /\ IsAt(t, "idle") /\ call[t].n <= 1
BY DEF Types, CallsAreCounted, AckIfBusy, Reply, Complain, Move, NoCall, IsAt

LEMMA CallsKept ==
    BridgeTypeOK /\ CallsAreCounted /\ [BridgeNext]_bridgeVars => call' \in [Threads -> Calls]
<1> SUFFICES ASSUME BridgeTypeOK, CallsAreCounted, [BridgeNext]_bridgeVars
             PROVE  call' \in [Threads -> Calls]
  OBVIOUS
<1>0. Types
  BY TypesOf
<1>1. ASSUME NEW t \in Threads, AckIfBusy(t) \/ Reply(t) \/ Complain(t)
      PROVE  call' \in [Threads -> Calls]
  BY <1>0, <1>1, Beginnings, BeginsOnce
<1>2. ASSUME NEW t \in Threads, NEW r \in {"ok", "error", "raised", "timeout"}, End(t, r)
      PROVE  call' \in [Threads -> Calls]
  BY <1>0, <1>2 DEF End, Calls, Types
<1>3. ASSUME NEW t \in Threads, TimeOut(t) PROVE call' \in [Threads -> Calls]
  BY <1>2, <1>3 DEF TimeOut
<1>4. ASSUME NEW t \in Threads, Wake(t) PROVE call' \in [Threads -> Calls]
  <2>1. slot[Id(t)] \in {"ok", "error"}
    BY <1>0, <1>4 DEF Types, Wake, Id, Ids, IsAt, CallsAreCounted, Calls
  <2> QED
    BY <1>2, <1>4, <2>1 DEF Wake
<1>5. ASSUME NEW t \in Threads, Register(t) \/ Write(t) PROVE call' \in [Threads -> Calls]
  <2>1. ASSUME NEW w \in {"write", "wait"}, call' = [call EXCEPT ![t].at = w]
        PROVE  call' \in [Threads -> Calls]
    BY <1>0, <2>1 DEF Types, Calls
  <2> QED
    BY <1>2, <1>5, <2>1 DEF Register, Write
<1>6. ASSUME NEW t \in Threads, Ask(t) \/ Finish(t) PROVE call' \in [Threads -> Calls]
  BY <1>0, <1>6 DEF Types, Ask, Finish
<1>7. CASE Restart
  BY <1>0, <1>7 DEF Types, Restart
<1> QED
  BY <1>0, <1>1, <1>3, <1>4, <1>5, <1>6, <1>7
  DEF Types, BridgeNext, bridgeVars, ReaderStep, CallStep, ThreadStep, SignalStep, Connect, Readline,
      Dispatch, Lost, Sweep, Answer, Deliver, GoAway

(* A call that was begun has an id.                                         *)
LEMMA CallsHaveIds ==
    ASSUME Types, CallsAreCounted, NEW t \in Threads, ~IsAt(t, "idle")
    PROVE  Id(t) \in Ids
BY DEF Types, Calls, CallsAreCounted, Id, Ids

(* What the reader hands on comes out of the socket, in order.              *)
LEMMA LinesKept ==
    BridgeTypeOK /\ [BridgeNext]_bridgeVars
        => /\ line' \in Lines \cup {Nothing} /\ ahead' \in Seq(Lines) /\ lines' \in Seq(Lines)
           /\ lost' \subseteq Lines
<1> SUFFICES ASSUME BridgeTypeOK, [BridgeNext]_bridgeVars
             PROVE  /\ line' \in Lines \cup {Nothing} /\ ahead' \in Seq(Lines) /\ lines' \in Seq(Lines)
                    /\ lost' \subseteq Lines
  OBVIOUS
<1>0. /\ line \in Lines \cup {Nothing} /\ ahead \in Seq(Lines) /\ lines \in Seq(Lines)
      /\ lost \subseteq Lines
  BY DEF BridgeTypeOK
<1>1. CASE Readline
  <2>1. ASSUME lines # <<>>, NEW n \in 1..Len(lines)
        PROVE  SubSeq(lines, 2, n) \in Seq(Lines) /\ SubSeq(lines, n + 1, Len(lines)) \in Seq(Lines)
    BY <1>0, <2>1
  <2> QED
    BY <1>0, <1>1, <2>1, TakenLines DEF Readline
<1>2. ASSUME NEW c \in Ids, NEW ok \in BOOLEAN, Answer(c, ok)
      PROVE  lines' \in Seq(Lines) /\ UNCHANGED <<line, ahead, lost>>
  BY <1>0, <1>2, AppendedLines DEF Answer, Lines
<1>3. ASSUME NEW m \in Messages, Deliver(m)
      PROVE  lines' \in Seq(Lines) /\ UNCHANGED <<line, ahead, lost>>
  BY <1>0, <1>3, AppendedLines DEF Deliver, signalCli, Lines
<1>4. ASSUME NEW t \in Threads, Write(t)
      PROVE  ahead' \in Seq(Lines) /\ lost' \subseteq Lines /\ UNCHANGED <<line, lines>>
  <2>1. Elements(ahead) \subseteq Lines
    BY <1>0 DEF Elements
  <2> QED
    BY <1>0, <1>4, <2>1 DEF Write
<1>5. CASE Connect \/ Dispatch \/ Restart
  BY <1>0, <1>5, NoLines DEF Connect, Dispatch, Restart, signalCli
<1>6. CASE UNCHANGED <<line, ahead, lines, lost>>
  BY <1>0, <1>6
<1> QED
  BY <1>0, <1>1, <1>2, <1>3, <1>4, <1>5, <1>6
  DEF BridgeNext, bridgeVars, ReaderStep, CallStep, ThreadStep, SignalStep, Lost, Sweep, GoAway,
      Register, Wake, TimeOut, AckIfBusy, Ask, Reply, Complain, Finish, Elsewhere

LEMMA StagesKept == BridgeTypeOK /\ [BridgeNext]_bridgeVars => stage' \in [Threads -> Stages]
<1> SUFFICES ASSUME BridgeTypeOK, [BridgeNext]_bridgeVars PROVE stage' \in [Threads -> Stages]
  OBVIOUS
<1>0. Types
  BY TypesOf
<1>1. ASSUME NEW t \in Threads, NEW from \in Stages, NEW to \in Stages, Move(t, from, to)
      PROVE  stage' \in [Threads -> Stages]
  BY <1>0, <1>1 DEF Types, Move
<1>2. ASSUME NEW t \in Threads, ThreadStep(t) PROVE stage' \in [Threads -> Stages]
  BY <1>0, <1>1, <1>2 DEF Types, Stages, ThreadStep, AckIfBusy, Ask, Reply, Complain, Finish
<1>3. CASE Dispatch \/ Restart
  BY <1>0, <1>3 DEF Types, Stages, Dispatch, Unblock, OnMessage, Restart
<1>4. ASSUME NEW m \in Messages, Deliver(m) PROVE stage' \in [Threads -> Stages]
  BY <1>0, <1>4 DEF Types, Stages, Deliver
<1> QED
  BY <1>0, <1>2, <1>3, <1>4
  DEF Types, BridgeNext, bridgeVars, ReaderStep, CallStep, SignalStep, Connect, Readline, Lost, Sweep,
      Register, Write, Wake, TimeOut, Answer, GoAway

LEMMA ClientKept ==
    BridgeTypeOK /\ CallsAreCounted /\ [BridgeNext]_bridgeVars
        => /\ pending' \subseteq Ids /\ slot' \in [Ids -> {"empty", "ok", "error"}]
           /\ requests' \subseteq Ids /\ executed' \subseteq Ids
<1> SUFFICES ASSUME BridgeTypeOK, CallsAreCounted, [BridgeNext]_bridgeVars
             PROVE  /\ pending' \subseteq Ids /\ slot' \in [Ids -> {"empty", "ok", "error"}]
                    /\ requests' \subseteq Ids /\ executed' \subseteq Ids
  OBVIOUS
<1>0. Types /\ requests \subseteq Ids /\ executed \subseteq Ids
  BY TypesOf DEF BridgeTypeOK
<1>1. ASSUME NEW t \in Threads, CallStep(t) \/ TimeOut(t)
      PROVE  /\ pending' \subseteq Ids /\ slot' \in [Ids -> {"empty", "ok", "error"}]
             /\ requests' \subseteq Ids /\ executed' \subseteq Ids
  <2>1. Id(t) \in Ids
    BY <1>0, <1>1, CallsHaveIds DEF CallStep, TimeOut, Register, Write, Wake, IsAt
  <2> QED
    BY <1>0, <1>1, <2>1 DEF Types, CallStep, TimeOut, Register, Write, Wake, client, signalCli
<1>2. CASE Dispatch \/ Sweep \/ Restart
  BY <1>0, <1>2 DEF Types, Dispatch, Unblock, OnMessage, Sweep, Restart, client, signalCli
<1>3. CASE SignalStep
  BY <1>0, <1>3 DEF Types, SignalStep, Answer, Deliver, GoAway, client, signalCli
<1>4. CASE UNCHANGED <<client, requests, executed>>
  BY <1>0, <1>4 DEF Types, client
<1> QED
  BY <1>1, <1>2, <1>3, <1>4
  DEF BridgeNext, bridgeVars, ReaderStep, ThreadStep, Connect, Readline, Lost, AckIfBusy, Ask, Reply,
      Complain, Finish, Elsewhere, signalCli

LEMMA BridgeTypesKept ==
    BridgeTypeOK /\ CallsAreCounted /\ [BridgeNext]_bridgeVars => BridgeTypeOK'
<1> SUFFICES ASSUME BridgeTypeOK, CallsAreCounted, [BridgeNext]_bridgeVars PROVE BridgeTypeOK'
  OBVIOUS
<1>1. reader' \in {"down", "reading", "line", "lost"} /\ file' \in {"none", "open", "dead"}
  BY DEF BridgeTypeOK, BridgeNext, bridgeVars, ReaderStep, CallStep, ThreadStep, SignalStep, Connect,
      Readline, Dispatch, Lost, Sweep, Register, Write, Wake, TimeOut, Answer, Deliver, GoAway, AckIfBusy,
      Ask, Reply, Complain, Finish, Elsewhere, Restart
<1>2. losses' = losses \/ (losses' = losses + 1 /\ losses < MaxLosses)
  BY DEF BridgeNext, bridgeVars, ReaderStep, CallStep, ThreadStep, SignalStep, Connect, Readline, Dispatch,
      Lost, Sweep, Register, Write, Wake, TimeOut, Answer, Deliver, GoAway, AckIfBusy, Ask, Reply, Complain,
      Finish, Elsewhere, Restart, signalCli
<1>3. losses' \in 0..MaxLosses
  BY <1>2, BridgeAssumption DEF BridgeTypeOK
<1> QED
  BY <1>1, <1>3, CallsKept, LinesKept, StagesKept, ClientKept DEF BridgeTypeOK, Calls, Stages

-----------------------------------------------------------------------------
(* The parts of the invariant.                                              *)

LEMMA LineStaysRead ==
    BridgeTypeOK /\ LineIsRead /\ [BridgeNext]_bridgeVars => LineIsRead'
<1> SUFFICES ASSUME BridgeTypeOK, LineIsRead, [BridgeNext]_bridgeVars PROVE LineIsRead'
  OBVIOUS
<1>0. Nothing \notin Lines
  BY BridgeAssumption DEF Lines
<1>1. CASE Readline
  <2>1. line' \in Lines
    BY <1>1, TakenLines DEF Readline, BridgeTypeOK
  <2> QED
    BY <1>0, <1>1, <2>1 DEF Readline, LineIsRead
<1>2. CASE Connect \/ Dispatch \/ Lost \/ Sweep \/ Restart
  BY <1>2 DEF Connect, Dispatch, Lost, Sweep, Restart, LineIsRead
<1>3. CASE UNCHANGED <<reader, line>>
  BY <1>3 DEF LineIsRead
<1> QED
  BY <1>1, <1>2, <1>3
  DEF BridgeNext, bridgeVars, ReaderStep, CallStep, ThreadStep, SignalStep, Register, Write, Wake, TimeOut,
      Answer, Deliver, GoAway, AckIfBusy, Ask, Reply, Complain, Finish, Elsewhere

(* Every thread that is not the one that steps is left as it is.            *)
Others(t) == \A u \in Threads \ {t} : stage'[u] = stage[u] /\ call'[u] = call[u]

LEMMA ThreadsStepAlone ==
    ASSUME Types, NEW t \in Threads, CallStep(t) \/ TimeOut(t) \/ ThreadStep(t)
    PROVE  Others(t)
BY DEF Types, Others, CallStep, TimeOut, ThreadStep, Register, Write, Wake, AckIfBusy, Ask, Reply,
       Complain, Finish, Move, Begin, End

Counted(t) ==
    /\ stage[t] \in {"off", "sent", "dropped", "begun", "done"} => call[t] = NoCall
    /\ stage[t] = "acking" => call[t].n = 1
    /\ stage[t] = "asking" => call[t].n <= 1 /\ IsAt(t, "idle")
    /\ ~IsAt(t, "idle") => call[t].n > 0 /\ call[t].result = "none"

LEMMA CallsStayCounted ==
    BridgeTypeOK /\ LineIsRead /\ MessagesGetOneThread /\ CallsAreCounted /\ [BridgeNext]_bridgeVars
        => CallsAreCounted'
<1> SUFFICES ASSUME BridgeTypeOK, LineIsRead, MessagesGetOneThread, CallsAreCounted,
                    [BridgeNext]_bridgeVars, NEW t \in Threads
             PROVE  Counted(t)'
  BY DEF CallsAreCounted, Counted
<1>0. Types /\ Counted(t)
  BY TypesOf DEF CallsAreCounted, Counted
<1>1. CASE stage'[t] = stage[t] /\ call'[t] = call[t]
  BY <1>0, <1>1 DEF Counted, IsAt
<1>2. CASE call'[t] = NoCall /\ stage'[t] # "acking"
  BY <1>2 DEF Counted, IsAt, NoCall
<1>3. ASSUME NEW u \in Threads, CallStep(u) \/ TimeOut(u) \/ ThreadStep(u), u # t PROVE Counted(t)'
  BY <1>0, <1>1, <1>3, ThreadsStepAlone DEF Others
<1>4. CASE AckIfBusy(t) \/ Reply(t) \/ Complain(t)
  <2>1. Begin(t) /\ call[t].n <= 1 /\ call[t].n \in 0..2
    BY <1>0, <1>4, BeginsOnce DEF Types, Calls
  <2>2. call'[t] = [n |-> call[t].n + 1, at |-> "connect", result |-> "none"]
    BY <1>0, <2>1 DEF Types, Begin
  <2>3. (stage'[t] = "acking" /\ call[t].n = 0) \/ stage'[t] = "replying"
    BY <1>0, <1>4 DEF Types, Counted, AckIfBusy, Reply, Complain, Move, NoCall
  <2> QED
    BY <2>1, <2>2, <2>3 DEF Counted, IsAt
<1>5. CASE Ask(t) \/ Finish(t)
  <2>1. CASE Ask(t)
    BY <1>0, <2>1 DEF Types, Counted, Ask, Move, IsAt, NoCall
  <2>2. CASE Finish(t)
    BY <1>0, <1>2, <2>2 DEF Types, Finish, Move
  <2> QED
    BY <1>5, <2>1, <2>2
<1>6. CASE CallStep(t) \/ TimeOut(t)
  <2>1. /\ ~IsAt(t, "idle") /\ stage' = stage
        /\ \/ \E w \in {"write", "wait"} : call' = [call EXCEPT ![t].at = w]
           \/ \E r : End(t, r)
    BY <1>6 DEF CallStep, TimeOut, Register, Write, Wake, IsAt
  <2>2. call'[t].n = call[t].n /\ (call'[t].at # "idle" => call'[t].result = call[t].result)
    BY <1>0, <2>1 DEF Types, Calls, End
  <2> QED
    BY <1>0, <2>1, <2>2 DEF Counted, IsAt, NoCall
<1>7. CASE Dispatch
  <2>1. line \in Messages => stage[line] = "sent"
    BY DEF MessagesGetOneThread
  <2> QED
    BY <1>0, <1>1, <1>2, <1>7, <2>1 DEF Types, Dispatch, Unblock, OnMessage, Counted
<1>8. CASE Restart
  BY <1>0, <1>8 DEF Types, Restart, Counted, NoCall, IsAt
<1>9. ASSUME NEW m \in Messages, Deliver(m) PROVE Counted(t)'
  BY <1>0, <1>1, <1>2, <1>9 DEF Types, Deliver, Counted
<1>10. CASE UNCHANGED <<stage, call>>
  BY <1>1, <1>10
<1> QED
  BY <1>3, <1>4, <1>5, <1>6, <1>7, <1>8, <1>9, <1>10
  DEF BridgeNext, bridgeVars, ReaderStep, SignalStep, ThreadStep, Connect, Readline, Lost, Sweep,
      Answer, GoAway

(* Before it is ready the bridge has one thread besides its reader.         *)
LEMMA StaysAlone ==
    BridgeTypeOK /\ StartsAlone /\ [BridgeNext]_bridgeVars => StartsAlone'
<1> SUFFICES ASSUME BridgeTypeOK, StartsAlone, [BridgeNext]_bridgeVars, ~Ready', NEW t \in Threads \ {Main}
             PROVE  call'[t] = NoCall /\ stage'[t] \in {"off", "sent", "dropped"}
  BY DEF StartsAlone
<1>0. Types
  BY TypesOf
<1> DEFINE Alone == call'[t] = NoCall /\ stage'[t] \in {"off", "sent", "dropped"}
<1>1. ASSUME NEW u \in Threads, CallStep(u) \/ TimeOut(u) \/ ThreadStep(u) PROVE Alone
  <2>1. Others(u)
    BY <1>0, <1>1, ThreadsStepAlone
  <2>2. CASE u # Main
    <3>1. ~Ready
      BY <1>0, <2>1, <2>2 DEF Ready, Others, Types
    <3>2. call[u] = NoCall /\ stage[u] \in {"off", "sent", "dropped"}
      BY <2>2, <3>1 DEF StartsAlone
    <3> QED
      BY <1>1, <2>2, <3>1, <3>2
      DEF NoCall, CallStep, TimeOut, ThreadStep, Register, Write, Wake, IsAt, AckIfBusy, Ask, Reply,
          Complain, Finish, Move
  <2>3. CASE u = Main
    <3>1. ~Ready
      BY <1>0, <1>1, <2>3
      DEF Types, Ready, CallStep, TimeOut, ThreadStep, Register, Write, Wake, AckIfBusy, Ask, Reply,
          Complain, Finish, Move
    <3> QED
      BY <2>1, <2>3, <3>1 DEF Others, StartsAlone
  <2> QED
    BY <2>2, <2>3
<1>2. CASE Dispatch
  BY <1>0, <1>2 DEF Types, Dispatch, Unblock, OnMessage, Ready, StartsAlone
<1>3. CASE Restart
  BY <1>0, <1>3 DEF Types, Restart, Ready, StartsAlone
<1>4. ASSUME NEW m \in Messages, Deliver(m) PROVE Alone
  BY <1>0, <1>4 DEF Types, Deliver, Ready, StartsAlone
<1>5. CASE UNCHANGED <<stage, call>>
  BY <1>5 DEF Ready, StartsAlone
<1> QED
  BY <1>1, <1>2, <1>3, <1>4, <1>5
  DEF BridgeNext, bridgeVars, ReaderStep, SignalStep, Connect, Readline, Lost, Sweep, Answer, GoAway

(* A message taken from the socket is there no more.                        *)
LEMMA OnceInParts ==
    ASSUME NEW s \in Seq(Lines), Once(s), s # <<>>
    PROVE  /\ Once(Tail(s))
           /\ Head(s) \in Messages => Head(s) \notin Elements(Tail(s))
           /\ \A n \in 1..Len(s) :
                 /\ Once(SubSeq(s, 2, n)) /\ Once(SubSeq(s, n + 1, Len(s)))
                 /\ Elements(SubSeq(s, 2, n)) \cap Elements(SubSeq(s, n + 1, Len(s))) \cap Messages = {}
                 /\ Head(s) \in Messages =>
                       Head(s) \notin Elements(SubSeq(s, 2, n)) \cup Elements(SubSeq(s, n + 1, Len(s)))
<1>0. Head(s) = s[1] /\ 1 \in DOMAIN s /\ Len(s) \in Nat /\ Len(s) >= 1
  OBVIOUS
<1>1. \A i \in DOMAIN Tail(s) : Tail(s)[i] = s[i + 1] /\ i + 1 \in DOMAIN s /\ i \in Nat /\ i > 0
  OBVIOUS
<1>2. ASSUME NEW n \in 1..Len(s)
      PROVE  /\ \A i \in DOMAIN SubSeq(s, 2, n) :
                    /\ SubSeq(s, 2, n)[i] = s[i + 1] /\ i + 1 \in DOMAIN s /\ i \in Nat /\ i > 0
                    /\ i + 1 <= n
             /\ \A i \in DOMAIN SubSeq(s, n + 1, Len(s)) :
                    /\ SubSeq(s, n + 1, Len(s))[i] = s[n + i] /\ n + i \in DOMAIN s
                    /\ i \in Nat /\ i > 0
  BY <1>0, <1>2
<1>3. Once(Tail(s)) /\ (Head(s) \in Messages => Head(s) \notin Elements(Tail(s)))
  BY <1>0, <1>1 DEF Once, Elements
<1>4. ASSUME NEW n \in 1..Len(s)
      PROVE  /\ Once(SubSeq(s, 2, n)) /\ Once(SubSeq(s, n + 1, Len(s)))
             /\ Elements(SubSeq(s, 2, n)) \cap Elements(SubSeq(s, n + 1, Len(s))) \cap Messages = {}
             /\ Head(s) \in Messages =>
                   Head(s) \notin Elements(SubSeq(s, 2, n)) \cup Elements(SubSeq(s, n + 1, Len(s)))
  <2>1. Once(SubSeq(s, 2, n)) /\ Once(SubSeq(s, n + 1, Len(s)))
    <3>1. ASSUME NEW q, NEW k \in Nat,
                 \A i \in DOMAIN q : q[i] = s[k + i] /\ k + i \in DOMAIN s /\ i \in Nat
          PROVE  Once(q)
      <4> SUFFICES ASSUME NEW i \in DOMAIN q, NEW j \in DOMAIN q, q[i] = q[j], q[i] \in Messages
                   PROVE  i = j
        BY DEF Once
      <4>1. k + i = k + j
        BY <3>1 DEF Once
      <4> QED
        BY <3>1, <4>1
    <3>2. Once(SubSeq(s, 2, n))
      <4>1. \A i \in DOMAIN SubSeq(s, 2, n) :
               SubSeq(s, 2, n)[i] = s[1 + i] /\ 1 + i \in DOMAIN s /\ i \in Nat
        BY <1>2
      <4> QED
        BY <3>1, <4>1
    <3>3. Once(SubSeq(s, n + 1, Len(s)))
      <4>1. \A i \in DOMAIN SubSeq(s, n + 1, Len(s)) :
               SubSeq(s, n + 1, Len(s))[i] = s[n + i] /\ n + i \in DOMAIN s /\ i \in Nat
        BY <1>2
      <4>2. n \in Nat
        OBVIOUS
      <4> QED
        BY <3>1, <4>1, <4>2
    <3> QED
      BY <3>2, <3>3
  <2>2. \A i \in DOMAIN SubSeq(s, 2, n), j \in DOMAIN SubSeq(s, n + 1, Len(s)) :
           SubSeq(s, 2, n)[i] \in Messages => SubSeq(s, 2, n)[i] # SubSeq(s, n + 1, Len(s))[j]
    BY <1>0, <1>2 DEF Once
  <2>3. Head(s) \in Messages =>
           /\ \A i \in DOMAIN SubSeq(s, 2, n) : SubSeq(s, 2, n)[i] # Head(s)
           /\ \A j \in DOMAIN SubSeq(s, n + 1, Len(s)) : SubSeq(s, n + 1, Len(s))[j] # Head(s)
    BY <1>0, <1>2 DEF Once
  <2> QED
    BY <2>1, <2>2, <2>3 DEF Elements
<1> QED
  BY <1>3, <1>4

LEMMA OnceMore ==
    ASSUME NEW s \in Seq(Lines), Once(s), NEW x \in Lines, x \in Messages => x \notin Elements(s)
    PROVE  Once(Append(s, x))
<1>1. /\ \A i \in DOMAIN s : Append(s, x)[i] = s[i] /\ i # Len(s) + 1
      /\ Append(s, x)[Len(s) + 1] = x
      /\ DOMAIN Append(s, x) = DOMAIN s \cup {Len(s) + 1}
  OBVIOUS
<1>2. x \in Messages => \A i \in DOMAIN s : s[i] # x
  BY DEF Elements
<1> QED
  BY <1>1, <1>2 DEF Once

(* A message is in one place, and its thread comes from there.              *)
LEMMA OneThreadEach ==
    BridgeTypeOK /\ LineIsRead /\ MessagesGetOneThread /\ CallsAreCounted /\ [BridgeNext]_bridgeVars
        => MessagesGetOneThread'
<1> SUFFICES ASSUME BridgeTypeOK, LineIsRead, MessagesGetOneThread, CallsAreCounted,
                    [BridgeNext]_bridgeVars
             PROVE  MessagesGetOneThread'
  OBVIOUS
<1>0. Types /\ ahead \in Seq(Lines) /\ lines \in Seq(Lines) /\ Nothing \notin Messages
  BY TypesOf, BridgeAssumption DEF BridgeTypeOK, Lines
<1>1. CASE Readline
  <2>1. reader = "reading" /\ line = Nothing /\ stage' = stage
    BY <1>1 DEF Readline, LineIsRead
  <2>2. CASE ahead # <<>> /\ line' = Head(ahead) /\ ahead' = Tail(ahead) /\ UNCHANGED lines
    BY <1>0, <2>1, <2>2, TakenLines, OnceInParts DEF MessagesGetOneThread
  <2>3. ASSUME ahead = <<>>, lines # <<>>, line' = Head(lines), NEW n \in 1..Len(lines),
               ahead' = SubSeq(lines, 2, n), lines' = SubSeq(lines, n + 1, Len(lines))
        PROVE  MessagesGetOneThread'
    <3>1. Once(lines) /\ (\A m \in Messages \cap Elements(lines) : stage[m] = "sent")
      BY DEF MessagesGetOneThread
    <3>2. /\ Elements(ahead') \subseteq Elements(lines) /\ Elements(lines') \subseteq Elements(lines)
          /\ line' \in Elements(lines)
      <4>1. 2 \in 1..(Len(lines) + 1) /\ n \in 0..Len(lines)
            /\ n + 1 \in 1..(Len(lines) + 1) /\ Len(lines) \in 0..Len(lines)
        BY <1>0, <2>3
      <4> QED
        BY <1>0, <2>3, <4>1, CutLines, TakenLines
    <3>3. /\ Once(ahead') /\ Once(lines') /\ Elements(ahead') \cap Elements(lines') \cap Messages = {}
          /\ line' \in Messages => line' \notin Elements(ahead') \cup Elements(lines')
      BY <1>0, <2>3, <3>1, OnceInParts
    <3> QED
      BY <2>1, <3>1, <3>2, <3>3 DEF MessagesGetOneThread, Once, Elements
  <2> QED
    BY <1>1, <2>2, <2>3 DEF Readline
<1>2. CASE Dispatch
  <2>1. line' = Nothing /\ UNCHANGED <<ahead, lines>>
    BY <1>2 DEF Dispatch
  <2>2. \A m \in Messages \cap (Elements(ahead) \cup Elements(lines)) : stage'[m] = stage[m]
    BY <1>0, <1>2 DEF Types, Dispatch, Unblock, OnMessage, MessagesGetOneThread
  <2> QED
    BY <1>0, <2>1, <2>2 DEF MessagesGetOneThread, Once, Elements
<1>3. ASSUME NEW m \in Messages, Deliver(m) PROVE MessagesGetOneThread'
  <2>1. m \notin Elements(ahead) \cup Elements(lines) \cup {line} /\ m \in Lines
    BY <1>3 DEF Deliver, MessagesGetOneThread, Lines
  <2>2. Once(lines') /\ Elements(lines') = Elements(lines) \cup {m}
    BY <1>0, <1>3, <2>1, AppendedLines, OnceMore DEF Deliver, MessagesGetOneThread
  <2>3. UNCHANGED <<ahead, line>> /\ stage' = [stage EXCEPT ![m] = "sent"]
    BY <1>3 DEF Deliver
  <2>4. Once(ahead') /\ Elements(ahead') = Elements(ahead)
    BY <2>3 DEF MessagesGetOneThread, Once
  <2>5. \A x \in Messages \cap (Elements(ahead') \cup Elements(lines') \cup {line'}) : stage'[x] = "sent"
    BY <1>0, <2>2, <2>3, <2>4 DEF Types, MessagesGetOneThread
  <2>6. Elements(ahead') \cap Elements(lines') \cap Messages = {}
    BY <2>1, <2>2, <2>4 DEF MessagesGetOneThread
  <2>7. line' \in Messages => line' \notin Elements(ahead') \cup Elements(lines')
    BY <2>1, <2>2, <2>3, <2>4 DEF MessagesGetOneThread
  <2> QED
    BY <2>2, <2>4, <2>5, <2>6, <2>7 DEF MessagesGetOneThread, Once, Elements
<1>4. ASSUME NEW c \in Ids, NEW ok \in BOOLEAN, Answer(c, ok) PROVE MessagesGetOneThread'
  <2>1. [id |-> c, ok |-> ok] \in Lines \ Messages
    BY BridgeAssumption DEF Lines
  <2>2. Once(lines') /\ Elements(lines') = Elements(lines) \cup {[id |-> c, ok |-> ok]}
    BY <1>0, <1>4, <2>1, AppendedLines, OnceMore DEF Answer, MessagesGetOneThread
  <2>3. UNCHANGED <<ahead, line, stage>>
    BY <1>4 DEF Answer
  <2> QED
    BY <2>1, <2>2, <2>3 DEF MessagesGetOneThread, Once, Elements
<1>5. CASE Connect
  BY <1>5, NoLines DEF Connect, MessagesGetOneThread, Once
<1>6. CASE Restart
  BY <1>0, <1>6, NoLines DEF Restart, MessagesGetOneThread, Once
<1>7. ASSUME NEW t \in Threads, CallStep(t) \/ TimeOut(t) \/ ThreadStep(t) PROVE MessagesGetOneThread'
  <2>1. UNCHANGED <<line, lines>> /\ (ahead' = ahead \/ ahead' = <<>>)
    BY <1>7 DEF CallStep, TimeOut, ThreadStep, Register, Write, Wake, AckIfBusy, Ask, Reply, Complain,
                Finish, Elsewhere
  <2>2. \A m \in Messages : stage[m] = "sent" => stage'[m] = "sent"
    <3>1. stage[t] = "sent" => stage' = stage
      BY <1>0, <1>7
      DEF Types, CallStep, TimeOut, ThreadStep, Register, Write, Wake, AckIfBusy, Ask, Reply, Complain,
          Finish, Move
    <3>2. Others(t)
      BY <1>0, <1>7, ThreadsStepAlone
    <3> QED
      BY <1>0, <3>1, <3>2 DEF Types, Others
  <2> QED
    BY <2>1, <2>2, NoLines DEF MessagesGetOneThread, Once, Elements
<1>8. CASE UNCHANGED <<stage, line, ahead, lines>>
  BY <1>8 DEF MessagesGetOneThread, Once, Elements
<1> QED
  BY <1>1, <1>2, <1>3, <1>4, <1>5, <1>6, <1>7, <1>8
  DEF BridgeNext, bridgeVars, ReaderStep, SignalStep, Lost, Sweep, GoAway

(* Slots.  Ids of the threads are not mixed up.                             *)
LEMMA SlotsStayWaitedFor ==
    BridgeTypeOK /\ CallsAreCounted /\ CallsAreCounted' /\ SlotsAreWaitedFor
    /\ MessagesGetOneThread /\ StartsAlone /\ [BridgeNext]_bridgeVars => SlotsAreWaitedFor'
<1> SUFFICES ASSUME BridgeTypeOK, CallsAreCounted, CallsAreCounted', SlotsAreWaitedFor,
                    MessagesGetOneThread, StartsAlone, [BridgeNext]_bridgeVars
             PROVE  SlotsAreWaitedFor'
  OBVIOUS
<1>0. Types
  BY TypesOf
<1>id. \A c \in Ids : c[1] \in Threads /\ c[2] \in {1, 2} /\ c = <<c[1], c[2]>>
  BY DEF Ids
<1> USE DEF SlotsAreWaitedFor
\* Steps that leave slots and calls alone.
<1>1. CASE /\ UNCHANGED <<client, call>>
           /\ \A t \in Threads : stage[t] = "done" => stage'[t] = "done"
  BY <1>0, <1>1, <1>id DEF client, InFlight, Filled, Over, Id, IsAt, Types
<1>2. ASSUME NEW t \in Threads, AckIfBusy(t) \/ Reply(t) \/ Complain(t) PROVE SlotsAreWaitedFor'
  <2>1. Begin(t) /\ IsAt(t, "idle") /\ call[t].n \in 0..2 /\ call[t].n <= 1 /\ UNCHANGED client
    BY <1>0, <1>2, BeginsOnce DEF Types, Calls, AckIfBusy, Reply, Complain, Elsewhere
  <2>2. call'[t].n = call[t].n + 1 /\ Others(t)
    BY <1>0, <1>2, <2>1, ThreadsStepAlone DEF Types, Begin, ThreadStep
  <2>3. stage[t] # "done"
    BY <1>0, <1>2 DEF AckIfBusy, Reply, Complain, Move
  <2>4. \A c \in Ids : (InFlight(c) => InFlight(c)') /\ (Filled(c) => Filled(c)')
    <3> SUFFICES ASSUME NEW c \in Ids, InFlight(c) \/ Filled(c)
                 PROVE  (InFlight(c) => InFlight(c)') /\ (Filled(c) => Filled(c)')
      OBVIOUS
    <3>1. CASE c[1] = t
      <4>1. c[2] <= call[t].n
        BY <1>id, <2>1, <2>3, <3>1 DEF InFlight, Filled, Over, Id
      <4>2. c[2] < call'[t].n
        BY <1>id, <2>1, <2>2, <4>1
      <4> QED
        BY <3>1, <4>2 DEF InFlight, Filled, Over
    <3>2. CASE c[1] # t
      BY <1>id, <2>2, <3>2 DEF InFlight, Filled, Over, Id, IsAt, Others
    <3> QED
      BY <3>1, <3>2
  <2>5. \A c \in pending : InFlight(c)'
    BY <1>0, <2>4 DEF Types
  <2>6. \A c \in Ids : slot[c] # "empty" => c \notin pending /\ Filled(c)'
    BY <2>4
  <2> QED
    BY <2>1, <2>5, <2>6 DEF client
\* A step of a call.
<1>3. ASSUME NEW t \in Threads, CallStep(t) \/ TimeOut(t) PROVE SlotsAreWaitedFor'
  <2>1. /\ Id(t) \in Ids /\ stage' = stage /\ Others(t) /\ call'[t].n = call[t].n
        /\ stage[t] # "done" /\ Id(t)' = Id(t)
    <3>1. Id(t) \in Ids /\ stage' = stage /\ Others(t) /\ ~IsAt(t, "idle")
      BY <1>0, <1>3, CallsHaveIds, ThreadsStepAlone
      DEF CallStep, TimeOut, Register, Write, Wake, IsAt
    <3>2. stage[t] # "done"
      BY <3>1 DEF CallsAreCounted, NoCall, IsAt
    <3>3. call'[t].n = call[t].n
      BY <1>0, <1>3 DEF Types, Calls, CallStep, TimeOut, Register, Write, Wake, End
    <3> QED
      BY <3>1, <3>2, <3>3 DEF Id
  <2>2. \A c \in Ids \ {Id(t)} : (InFlight(c) => InFlight(c)') /\ (Filled(c) => Filled(c)')
    <3> SUFFICES ASSUME NEW c \in Ids \ {Id(t)}, InFlight(c) \/ Filled(c)
                 PROVE  (InFlight(c) => InFlight(c)') /\ (Filled(c) => Filled(c)')
      OBVIOUS
    <3>1. CASE c[1] = t
      BY <1>id, <2>1, <3>1 DEF InFlight, Filled, Over, Id
    <3>2. CASE c[1] # t
      BY <1>id, <2>1, <3>2 DEF InFlight, Filled, Over, Id, IsAt, Others
    <3> QED
      BY <3>1, <3>2
  <2>3. Id(t)[1] = t /\ ~Over(Id(t))
    BY <1>0, <2>1 DEF Id, Over, Types, Calls
  <2>4. CASE Register(t)
    <3>1. call'[t].at = "write" /\ slot' = slot /\ pending' = pending \cup {Id(t)}
      BY <1>0, <2>4 DEF Types, Calls, Register
    <3>2. slot[Id(t)] = "empty"
      BY <2>1, <2>3, <2>4 DEF Register, Filled
    <3> QED
      BY <1>0, <2>1, <2>2, <2>3, <3>1, <3>2 DEF Types, IsAt, InFlight, Filled
  <2>5. CASE Write(t)
    <3>1. call'[t].at = "wait" \/ (call'[t].at = "idle" /\ call'[t].result = "raised")
      BY <1>0, <2>5 DEF Types, Calls, Write, End
    <3>2. UNCHANGED <<pending, slot>>
      BY <2>5 DEF Write, client
    <3> QED
      BY <1>0, <2>1, <2>2, <2>3, <3>1, <3>2 DEF Types, IsAt, InFlight, Filled
  <2>6. CASE Wake(t)
    <3>1. pending' = pending /\ slot' = [slot EXCEPT ![Id(t)] = "empty"] /\ Id(t) \notin pending
      BY <2>1, <2>6 DEF Wake
    <3>2. \A c \in Ids : slot'[c] # "empty" => slot[c] # "empty" /\ c # Id(t)
      BY <1>0, <2>1, <3>1 DEF Types
    <3> QED
      BY <1>0, <2>2, <3>1, <3>2 DEF Types
  <2>7. CASE TimeOut(t)
    <3>1. pending' = pending \ {Id(t)} /\ slot' = slot /\ slot[Id(t)] = "empty"
      BY <2>7 DEF TimeOut
    <3> QED
      BY <1>0, <2>2, <3>1 DEF Types
  <2> QED
    BY <1>3, <2>4, <2>5, <2>6, <2>7 DEF CallStep
\* A call in flight may have its slot filled.
<1>4. ASSUME NEW c \in pending, InFlight(c) PROVE Filled(c)
  <2>1. c[1] \in Threads
    BY <1>0, <1>id DEF Types
  <2> QED
    BY <1>4, <2>1 DEF CallsAreCounted, IsAt, InFlight, Filled
<1>5. CASE Dispatch
  <2>1. CASE Unblock
    <3>1. UNCHANGED <<stage, call>>
      BY <1>5, <2>1 DEF Dispatch, Unblock
    <3>2. /\ pending' = pending \ {line.id}
          /\ \A c \in Ids : slot'[c] # "empty" => slot[c] # "empty" \/ (c \in pending /\ c = line.id)
      BY <1>0, <2>1 DEF Types, Unblock
    <3>3. \A c \in Ids : (InFlight(c) => InFlight(c)') /\ (Filled(c) => Filled(c)')
      BY <3>1 DEF InFlight, Filled, Over, Id, IsAt
    <3> QED
      BY <1>0, <1>4, <3>2, <3>3 DEF Types
  <2>2. CASE OnMessage
    <3>1. \A t \in Threads : stage[t] = "done" => stage'[t] = "done"
      BY <1>0, <2>2 DEF Types, OnMessage, MessagesGetOneThread
    <3> QED
      BY <1>1, <1>5, <2>2, <3>1 DEF Dispatch, OnMessage
  <2> QED
    BY <1>5, <2>1, <2>2 DEF Dispatch
<1>6. CASE Sweep
  <2>1. UNCHANGED <<stage, call>> /\ pending' = {}
    BY <1>6 DEF Sweep
  <2>2. \A c \in Ids : slot'[c] # "empty" => slot[c] # "empty" \/ c \in pending
    BY <1>0, <1>6 DEF Types, Sweep
  <2>3. \A c \in Ids : Filled(c) => Filled(c)'
    BY <2>1 DEF InFlight, Filled, Over, Id, IsAt
  <2> QED
    BY <1>4, <2>1, <2>2, <2>3
<1>7. CASE Restart
  BY <1>7 DEF Restart
<1>8. ASSUME NEW t \in Threads, Ask(t) PROVE SlotsAreWaitedFor'
  BY <1>0, <1>1, <1>8 DEF Types, Ask, Move, Elsewhere
<1>9. ASSUME NEW t \in Threads, Finish(t) PROVE SlotsAreWaitedFor'
  <2>1. Others(t) /\ stage'[t] = "done" /\ UNCHANGED <<pending, slot>>
    BY <1>0, <1>9, ThreadsStepAlone DEF Types, Finish, Move, ThreadStep, Elsewhere, client
  <2>2. \A c \in Ids : (InFlight(c) => InFlight(c)') /\ (Filled(c) => Filled(c)')
    BY <1>id, <2>1 DEF InFlight, Filled, Over, Id, IsAt, Others
  <2> QED
    BY <1>0, <2>1, <2>2 DEF Types
<1>10. ASSUME NEW m \in Messages, Deliver(m) PROVE SlotsAreWaitedFor'
  BY <1>0, <1>1, <1>10 DEF Types, Deliver
<1>11. CASE UNCHANGED <<client, stage, call>>
  BY <1>1, <1>11
<1> QED
  BY <1>2, <1>3, <1>5, <1>6, <1>7, <1>8, <1>9, <1>10, <1>11
  DEF BridgeNext, bridgeVars, ReaderStep, ThreadStep, SignalStep, Connect, Readline, Lost, Answer, GoAway

(* What is on its way to a slot was carried out.                            *)
OkAnswers == [id : Ids, ok : {TRUE}]

LEMMA AnswersStayReal ==
    BridgeTypeOK /\ CallsAreCounted /\ LineIsRead /\ AnswersAreReal /\ [BridgeNext]_bridgeVars
        => AnswersAreReal'
<1> SUFFICES ASSUME BridgeTypeOK, CallsAreCounted, LineIsRead, AnswersAreReal, [BridgeNext]_bridgeVars
             PROVE  AnswersAreReal'
  OBVIOUS
<1>0. /\ Types /\ ahead \in Seq(Lines) /\ lines \in Seq(Lines) /\ line \in Lines \cup {Nothing}
      /\ Nothing \notin OkAnswers
  BY TypesOf, BridgeAssumption DEF BridgeTypeOK, Lines, OkAnswers
<1> DEFINE Old == Elements(lines) \cup Elements(ahead) \cup {line}
           New == Elements(lines') \cup Elements(ahead') \cup {line'}
<1>1. CASE /\ New \subseteq Old \cup {Nothing} /\ executed \subseteq executed'
           /\ \A c \in Ids : slot'[c] = "ok" => slot[c] = "ok" \/ c \in executed'
  <2>1. \A a \in New : a \in OkAnswers => a.id \in executed'
    BY <1>0, <1>1 DEF AnswersAreReal, OkAnswers
  <2> QED
    BY <1>1, <2>1 DEF AnswersAreReal, Elements, OkAnswers
<1>2. CASE Readline
  <2>1. New \subseteq Old
    <3>1. CASE ahead # <<>> /\ line' = Head(ahead) /\ ahead' = Tail(ahead) /\ UNCHANGED lines
      BY <1>0, <3>1, TakenLines
    <3>2. ASSUME lines # <<>>, line' = Head(lines), NEW n \in 1..Len(lines),
                 ahead' = SubSeq(lines, 2, n), lines' = SubSeq(lines, n + 1, Len(lines))
          PROVE  New \subseteq Old
      <4>1. 2 \in 1..(Len(lines) + 1) /\ n \in 0..Len(lines)
            /\ n + 1 \in 1..(Len(lines) + 1) /\ Len(lines) \in 0..Len(lines)
        BY <1>0, <3>2
      <4>2. /\ Elements(ahead') \subseteq Elements(lines) /\ Elements(lines') \subseteq Elements(lines)
            /\ line' \in Elements(lines)
        BY <1>0, <3>2, <4>1, CutLines, TakenLines
      <4> QED
        BY <4>2
    <3> QED
      BY <1>2, <3>1, <3>2 DEF Readline
  <2> QED
    BY <1>1, <1>2, <2>1 DEF Readline, client, signalCli
<1>3. CASE Dispatch
  <2>1. New \subseteq Old \cup {Nothing} /\ executed' = executed
    BY <1>3 DEF Dispatch, signalCli, Elements
  <2>2. CASE Unblock
    <3>1. line \in [id : Ids, ok : BOOLEAN]
      BY <1>0, <1>3, <2>2 DEF Dispatch, Unblock, LineIsRead, Lines
    <3>2. line.ok => line \in OkAnswers
      BY <3>1 DEF OkAnswers
    <3>3. line.ok => line.id \in executed
      BY <3>2 DEF AnswersAreReal, OkAnswers
    <3>4. \A c \in Ids : slot'[c] = "ok" => slot[c] = "ok" \/ (c = line.id /\ line.ok)
      BY <1>0, <2>2 DEF Types, Unblock
    <3> QED
      BY <1>1, <2>1, <3>3, <3>4
  <2>3. CASE OnMessage
    BY <1>1, <2>1, <2>3 DEF OnMessage, client
  <2> QED
    BY <1>3, <2>2, <2>3 DEF Dispatch
<1>4. ASSUME NEW c \in Ids, NEW ok \in BOOLEAN, Answer(c, ok) PROVE AnswersAreReal'
  <2>1. Elements(lines') = Elements(lines) \cup {[id |-> c, ok |-> ok]} /\ UNCHANGED <<ahead, line, slot>>
    BY <1>0, <1>4, AppendedLines DEF Answer, Lines, client
  <2>2. executed \subseteq executed' /\ (ok => c \in executed')
    BY <1>4 DEF Answer
  <2>3. \A a \in Old : a \in OkAnswers => a.id \in executed'
    BY <2>2 DEF AnswersAreReal, OkAnswers
  <2>4. [id |-> c, ok |-> ok] \in OkAnswers => c \in executed'
    BY <2>2 DEF OkAnswers
  <2>5. New = Old \cup {[id |-> c, ok |-> ok]}
    BY <2>1 DEF Elements
  <2>6. \A a \in New : a \in OkAnswers => a.id \in executed'
    BY <2>3, <2>4, <2>5
  <2> QED
    BY <2>1, <2>2, <2>6 DEF AnswersAreReal, OkAnswers
<1>5. ASSUME NEW m \in Messages, Deliver(m) PROVE AnswersAreReal'
  <2>1. Elements(lines') = Elements(lines) \cup {m} /\ UNCHANGED <<ahead, line, slot, executed>>
    BY <1>0, <1>5, AppendedLines DEF Deliver, Lines, client, signalCli
  <2>2. m \notin OkAnswers
    <3>1. OkAnswers \subseteq [id : Ids, ok : BOOLEAN]
      BY DEF OkAnswers
    <3> QED
      BY <3>1, BridgeAssumption
  <2>3. \A a \in New : a \in OkAnswers => a.id \in executed'
    BY <2>1, <2>2 DEF AnswersAreReal, OkAnswers, Elements
  <2> QED
    BY <2>1, <2>3 DEF AnswersAreReal, OkAnswers
<1>6. CASE Restart
  BY <1>0, <1>6, NoLines DEF Restart, AnswersAreReal, OkAnswers
<1>7. ASSUME NEW t \in Threads, CallStep(t) \/ TimeOut(t) PROVE AnswersAreReal'
  <2>1. UNCHANGED <<line, lines, executed>> /\ (ahead' = ahead \/ ahead' = <<>>)
    BY <1>7 DEF CallStep, TimeOut, Register, Write, Wake, signalCli
  <2>2. New \subseteq Old
    BY <2>1, NoLines DEF Elements
  <2>3. \A c \in Ids : slot'[c] = "ok" => slot[c] = "ok"
    BY <1>0, <1>7 DEF Types, CallStep, TimeOut, Register, Write, Wake, client
  <2> QED
    BY <1>1, <2>1, <2>2, <2>3
<1>8. CASE Connect
  BY <1>1, <1>8, NoLines DEF Connect, client, signalCli, Elements
<1>9. CASE Sweep
  BY <1>0, <1>1, <1>9 DEF Types, Sweep, signalCli, Elements
<1>10. CASE GoAway
  BY <1>1, <1>10 DEF GoAway, client, Elements
<1>11. CASE UNCHANGED <<slot, line, ahead, lines, executed>>
  BY <1>1, <1>11 DEF Elements
<1> QED
  BY <1>2, <1>3, <1>4, <1>5, <1>6, <1>7, <1>8, <1>9, <1>10, <1>11
  DEF BridgeNext, bridgeVars, ReaderStep, ThreadStep, SignalStep, Lost, AckIfBusy, Ask, Reply, Complain,
      Finish, Elsewhere, client, signalCli

LEMMA SentStaysSent ==
    BridgeTypeOK /\ CallsAreCounted /\ AnswersAreReal /\ StartsAlone /\ SentIsSent /\ [BridgeNext]_bridgeVars
        => SentIsSent'
<1> SUFFICES ASSUME BridgeTypeOK, CallsAreCounted, AnswersAreReal, StartsAlone, SentIsSent,
                    [BridgeNext]_bridgeVars, NEW t \in Threads,
                    IsAt(t, "idle")', call'[t].result = "ok"
             PROVE  Id(t)' \in executed'
  BY DEF SentIsSent
<1>0. Types
  BY TypesOf
<1>1. CASE call'[t] = call[t] /\ executed \subseteq executed'
  BY <1>1 DEF SentIsSent, IsAt, Id
<1>2. ASSUME NEW u \in Threads, CallStep(u) \/ TimeOut(u) \/ ThreadStep(u) PROVE Id(t)' \in executed'
  <2>1. executed' = executed
    BY <1>2 DEF CallStep, TimeOut, ThreadStep, Register, Write, Wake, AckIfBusy, Ask, Reply, Complain,
                Finish, Elsewhere, signalCli
  <2>2. CASE u # t
    BY <1>0, <1>1, <1>2, <2>1, <2>2, ThreadsStepAlone DEF Others
  <2>3. CASE Wake(t)
    <3>1. call'[t].n = call[t].n /\ slot[Id(t)] = "ok" /\ Id(t) \in Ids
      BY <1>0, <2>3, CallsHaveIds DEF Types, Calls, Wake, End, IsAt
    <3> QED
      BY <2>1, <3>1 DEF AnswersAreReal, Id
  <2>4. CASE Ask(t)
    BY <1>1, <2>1, <2>4 DEF Ask
  <2>5. CASE Register(t) \/ Write(t) \/ TimeOut(t) \/ AckIfBusy(t) \/ Reply(t) \/ Complain(t) \/ Finish(t)
    BY <1>0, <2>5
    DEF Types, Calls, Register, Write, TimeOut, AckIfBusy, Reply, Complain, Finish, Begin, End, IsAt, NoCall
  <2> QED
    BY <1>2, <2>2, <2>3, <2>4, <2>5 DEF CallStep, ThreadStep
<1>3. CASE Restart
  BY <1>0, <1>3 DEF Types, Restart, StartsAlone, Ready, NoCall
<1>4. CASE UNCHANGED call /\ executed \subseteq executed'
  BY <1>1, <1>4
<1> QED
  BY <1>2, <1>3, <1>4
  DEF BridgeNext, bridgeVars, ReaderStep, SignalStep, Connect, Readline, Dispatch, Lost, Sweep, Answer,
      Deliver, GoAway, signalCli

-----------------------------------------------------------------------------
(* Nobody is stranded: neither a call nor a message.                        *)

(* Whatever is taken out of a sequence of lines is somewhere.               *)
LEMMA AllAreTaken ==
    ASSUME NEW s \in Seq(Lines), s # <<>>
    PROVE  /\ Elements(s) \subseteq {Head(s)} \cup Elements(Tail(s))
           /\ \A n \in 1..Len(s) :
                 Elements(s) \subseteq {Head(s)} \cup Elements(SubSeq(s, 2, n))
                                       \cup Elements(SubSeq(s, n + 1, Len(s)))
<1>0. Head(s) = s[1]
  OBVIOUS
<1> SUFFICES ASSUME NEW i \in DOMAIN s, i # 1
             PROVE  /\ s[i] \in Elements(Tail(s))
                    /\ \A n \in 1..Len(s) :
                          s[i] \in Elements(SubSeq(s, 2, n)) \cup Elements(SubSeq(s, n + 1, Len(s)))
  <2> DEFINE Taken(x) == /\ x \in Elements(Tail(s))
                         /\ \A n \in 1..Len(s) :
                               x \in Elements(SubSeq(s, 2, n)) \cup Elements(SubSeq(s, n + 1, Len(s)))
  <2> SUFFICES \A x \in Elements(s) : x = Head(s) \/ Taken(x)
    OBVIOUS
  <2> HIDE DEF Taken
  <2>1. \A i \in DOMAIN s : i # 1 => Taken(s[i])
    BY DEF Taken
  <2> QED
    BY <1>0, <2>1 DEF Elements
<1>1. i \in 2..Len(s) /\ Len(s) \in Nat
  OBVIOUS
<1>2. i - 1 \in DOMAIN Tail(s) /\ Tail(s)[i - 1] = s[i]
  BY <1>1
<1>3. ASSUME NEW n \in 1..Len(s)
      PROVE  s[i] \in Elements(SubSeq(s, 2, n)) \cup Elements(SubSeq(s, n + 1, Len(s)))
  <2>1. CASE i <= n
    <3>1. i - 1 \in DOMAIN SubSeq(s, 2, n) /\ SubSeq(s, 2, n)[i - 1] = s[i]
      BY <1>1, <2>1
    <3> QED
      BY <3>1 DEF Elements
  <2>2. CASE i > n
    <3>1. /\ i - n \in DOMAIN SubSeq(s, n + 1, Len(s))
          /\ SubSeq(s, n + 1, Len(s))[i - n] = s[i]
      BY <1>1, <2>2
    <3> QED
      BY <3>1 DEF Elements
  <2> QED
    BY <1>1, <2>1, <2>2
<1> QED
  BY <1>2, <1>3 DEF Elements

(* A line stays on its way until it is dispatched, or is forgotten.         *)
LEMMA LinesStayUnderWay ==
    ASSUME BridgeTypeOK, UnderWay, [BridgeNext]_bridgeVars, ~Restart
    PROVE  /\ lost \subseteq lost'
           /\ \A x \in OnItsWay : x \in OnItsWay' \cup lost' \/ (x = line /\ line' # line)
<1>0. ahead \in Seq(Lines) /\ lines \in Seq(Lines)
  BY DEF BridgeTypeOK
<1> DEFINE Kept == /\ lost \subseteq lost'
                   /\ \A x \in OnItsWay : x \in OnItsWay' \cup lost' \/ (x = line /\ line' # line)
<1>1. CASE Readline
  <2>1. Elements(ahead) \cup Elements(lines) \subseteq {line'} \cup Elements(ahead') \cup Elements(lines')
    <3>1. CASE ahead # <<>> /\ line' = Head(ahead) /\ ahead' = Tail(ahead) /\ UNCHANGED lines
      BY <1>0, <3>1, AllAreTaken
    <3>2. ASSUME ahead = <<>>, lines # <<>>, line' = Head(lines), NEW n \in 1..Len(lines),
                 ahead' = SubSeq(lines, 2, n), lines' = SubSeq(lines, n + 1, Len(lines))
          PROVE  Elements(ahead) \cup Elements(lines)
                     \subseteq {line'} \cup Elements(ahead') \cup Elements(lines')
      BY <1>0, <3>2, AllAreTaken, NoLines
    <3> QED
      BY <1>1, <3>1, <3>2 DEF Readline
  <2>2. lost' = lost
    BY <1>1 DEF Readline
  <2> QED
    BY <2>1, <2>2 DEF OnItsWay, Elements
<1>2. ASSUME NEW c \in Ids, NEW ok \in BOOLEAN, Answer(c, ok) PROVE Kept
  <2>1. Elements(lines') = Elements(lines) \cup {[id |-> c, ok |-> ok]} /\ UNCHANGED <<ahead, line, lost>>
    BY <1>0, <1>2, AppendedLines DEF Answer, Lines
  <2> QED
    BY <2>1 DEF OnItsWay, Elements
<1>3. ASSUME NEW m \in Messages, Deliver(m) PROVE Kept
  <2>1. Elements(lines') = Elements(lines) \cup {m} /\ UNCHANGED <<ahead, line, lost>>
    BY <1>0, <1>3, AppendedLines DEF Deliver, Lines
  <2> QED
    BY <2>1 DEF OnItsWay, Elements
<1>4. ASSUME NEW t \in Threads, Write(t) PROVE Kept
  <2>1. lost' = lost \cup Elements(ahead) /\ UNCHANGED <<line, lines>>
    BY <1>4 DEF Write
  <2> QED
    BY <2>1 DEF OnItsWay, Elements
<1>5. CASE Connect \/ Dispatch
  BY <1>5, NoLines DEF Connect, Dispatch, UnderWay, OnItsWay, Elements
<1>6. CASE UNCHANGED <<line, ahead, lines, lost>>
  BY <1>6 DEF OnItsWay, Elements
<1> QED
  BY <1>1, <1>2, <1>3, <1>4, <1>5, <1>6
  DEF BridgeNext, bridgeVars, ReaderStep, CallStep, ThreadStep, SignalStep, Lost, Sweep, GoAway,
      Register, Wake, TimeOut, AckIfBusy, Ask, Reply, Complain, Finish, Elsewhere

(* No message is stranded, and no connection that was lost is read on.      *)
LEMMA UnderWayStays ==
    BridgeTypeOK /\ LineIsRead /\ UnderWay /\ [BridgeNext]_bridgeVars => UnderWay'
<1> SUFFICES ASSUME BridgeTypeOK, LineIsRead, UnderWay, [BridgeNext]_bridgeVars PROVE UnderWay'
  OBVIOUS
<1>0. Types /\ Nothing \notin Messages
  BY TypesOf, BridgeAssumption DEF Lines
<1>1. /\ file' = "open" => reader' \in {"reading", "line"}
      /\ reader' \in {"lost", "down"} => ahead' = <<>> /\ lines' = <<>>
  BY DEF UnderWay, BridgeTypeOK, BridgeNext, bridgeVars, ReaderStep, CallStep, ThreadStep, SignalStep, Connect,
      Readline, Dispatch, Lost, Sweep, Register, Write, Wake, TimeOut, Answer, Deliver, GoAway, AckIfBusy,
      Ask, Reply, Complain, Finish, Elsewhere, Restart
<1>2. ASSUME NEW m \in Messages, stage'[m] = "sent" PROVE m \in OnItsWay' \cup lost'
  <2>1. CASE Deliver(m)
    <3>1. m \in Elements(lines')
      <4>1. lines \in Seq(Lines) /\ m \in Lines /\ lines' = Append(lines, m)
        BY <2>1 DEF Deliver, BridgeTypeOK, Lines
      <4> QED
        BY <4>1, AppendedLines
    <3> QED
      BY <3>1 DEF OnItsWay, Elements
  <2>2. CASE ~Deliver(m)
    <3>1. stage[m] = "sent" /\ ~Restart
      <4>1. ASSUME NEW t \in Threads, CallStep(t) \/ TimeOut(t) \/ ThreadStep(t) PROVE stage[m] = "sent" /\ ~Restart
        BY <1>0, <1>2, <4>1
        DEF Types, CallStep, TimeOut, ThreadStep, Register, Write, Wake, AckIfBusy, Ask, Reply, Complain,
            Finish, Move, Restart
      <4>2. CASE Dispatch
        BY <1>0, <1>2, <4>2 DEF Types, Dispatch, Unblock, OnMessage, Restart
      <4>3. ~Restart
        BY <1>0, <1>2 DEF Types, Restart
      <4>4. ASSUME NEW n \in Messages, Deliver(n) PROVE stage[m] = "sent"
        BY <1>0, <1>2, <2>2, <4>4 DEF Types, Deliver
      <4>5. CASE stage' = stage
        BY <1>2, <4>3, <4>5
      <4> QED
        BY <4>1, <4>2, <4>3, <4>4, <4>5
        DEF BridgeNext, bridgeVars, ReaderStep, SignalStep, Connect, Readline, Lost, Sweep, Answer, GoAway
    <3>2. m \in OnItsWay \cup lost
      BY <3>1 DEF UnderWay
    <3>3. ~(m = line /\ line' # line)
      <4>1. reader = "line" /\ line = m /\ line' # line => Dispatch
        BY <3>1
        DEF BridgeNext, bridgeVars, ReaderStep, CallStep, ThreadStep, SignalStep, Connect, Readline, Lost,
            Sweep, Register, Write, Wake, TimeOut, Answer, Deliver, GoAway, AckIfBusy, Ask, Reply, Complain,
            Finish, Elsewhere
      <4>2. Dispatch /\ line = m => stage'[m] # "sent"
        BY <1>0 DEF Types, Dispatch, Unblock, OnMessage
      <4> QED
        BY <1>0, <1>2, <4>1, <4>2 DEF LineIsRead
    <3> QED
      BY <3>1, <3>2, <3>3, LinesStayUnderWay
  <2> QED
    BY <2>1, <2>2
<1> QED
  BY <1>1, <1>2 DEF UnderWay

Waits(t) ==
    /\ IsAt(t, "write") /\ slot[Id(t)] = "empty" => Id(t) \in pending
    /\ IsAt(t, "wait") /\ slot[Id(t)] = "empty" =>
          Id(t) \in pending /\ reader # "down" /\ Expects(t)

(* An answer that is to come goes on coming, until it is dispatched.        *)
LEMMA ExpectsStill ==
    ASSUME BridgeTypeOK, LineIsRead, UnderWay, [BridgeNext]_bridgeVars, ~Restart, reader # "down",
           NEW t \in Threads, Expects(t), Id(t)' = Id(t), Id(t) \in Ids,
           ~(Dispatch /\ line \notin Messages /\ line.id = Id(t))
    PROVE  Expects(t)'
<1>0. lines \in Seq(Lines) /\ Nothing \notin [id : Ids, ok : BOOLEAN]
      /\ Messages \cap [id : Ids, ok : BOOLEAN] = {}
  BY BridgeAssumption DEF BridgeTypeOK, Lines
<1>1. CASE Id(t) \in requests
  <2>1. ASSUME NEW c \in Ids, NEW ok \in BOOLEAN, Answer(c, ok) PROVE Expects(t)'
    <3>1. CASE c = Id(t)
      <4>1. [id |-> c, ok |-> ok] \in Lines /\ lines' = Append(lines, [id |-> c, ok |-> ok])
        BY <2>1 DEF Answer, Lines
      <4>2. [id |-> c, ok |-> ok] \in Elements(lines')
        BY <1>0, <4>1, AppendedLines
      <4> QED
        BY <3>1, <4>2 DEF Expects, OnItsWay, Elements
    <3>2. CASE c # Id(t)
      BY <1>1, <2>1, <3>2 DEF Answer, Expects
    <3> QED
      BY <3>1, <3>2
  <2>2. CASE GoAway
    BY <2>2 DEF GoAway, Expects
  <2>3. CASE requests \subseteq requests'
    BY <1>1, <2>3 DEF Expects
  <2> QED
    BY <2>1, <2>2, <2>3
    DEF BridgeNext, bridgeVars, ReaderStep, CallStep, ThreadStep, SignalStep, Connect, Readline, Dispatch,
        Lost, Sweep, Deliver, Register, Write, Wake, TimeOut, AckIfBusy, Ask, Reply, Complain, Finish,
        Elsewhere, signalCli
<1>2. CASE file = "dead"
  <2>1. file' = "dead"
    BY <1>2
    DEF BridgeNext, bridgeVars, ReaderStep, CallStep, ThreadStep, SignalStep, Connect, Readline, Dispatch,
        Lost, Sweep, Answer, Deliver, GoAway, Register, Write, Wake, TimeOut, AckIfBusy, Ask, Reply,
        Complain, Finish, Elsewhere
  <2> QED
    BY <2>1 DEF Expects
<1>3. CASE Forgotten(t)
  BY <1>3, LinesStayUnderWay DEF Expects, Forgotten
<1>4. ASSUME NEW ok \in BOOLEAN, [id |-> Id(t), ok |-> ok] \in OnItsWay PROVE Expects(t)'
  <2> DEFINE a == [id |-> Id(t), ok |-> ok]
  <2>1. a \in [id : Ids, ok : BOOLEAN] /\ a.id = Id(t)
    OBVIOUS
  <2>2. ~(a = line /\ line' # line)
    <3>1. reader = "line" /\ line' # line => Dispatch
      BY DEF BridgeNext, bridgeVars, ReaderStep, CallStep, ThreadStep, SignalStep, Connect, Readline, Lost,
             Sweep, Register, Write, Wake, TimeOut, Answer, Deliver, GoAway, AckIfBusy, Ask, Reply, Complain,
             Finish, Elsewhere
    <3> QED
      BY <1>0, <2>1, <3>1 DEF LineIsRead
  <2>3. a \in OnItsWay' \cup lost'
    BY <1>4, <2>2, LinesStayUnderWay
  <2> QED
    BY <2>3 DEF Expects, Forgotten
<1> QED
  BY <1>1, <1>2, <1>3, <1>4 DEF Expects

(* No call is stranded.                                                     *)
LEMMA WaitersStayExpectant ==
    BridgeTypeOK /\ LineIsRead /\ CallsAreCounted /\ StartsAlone /\ UnderWay /\ WaitersExpectAnswers
    /\ [BridgeNext]_bridgeVars => WaitersExpectAnswers'
<1> SUFFICES ASSUME BridgeTypeOK, LineIsRead, CallsAreCounted, StartsAlone, UnderWay,
                    WaitersExpectAnswers, [BridgeNext]_bridgeVars, NEW t \in Threads
             PROVE  Waits(t)'
  BY DEF WaitersExpectAnswers, Waits
<1>0. Types /\ Waits(t)
  BY TypesOf DEF WaitersExpectAnswers, Waits
<1>1. CASE Restart
  <2>1. ~Ready
    BY <1>1 DEF Restart, Ready
  <2>2. call'[t] = NoCall
    BY <1>0, <1>1, <2>1 DEF Types, Restart, StartsAlone
  <2> QED
    BY <2>2 DEF Waits, IsAt, NoCall
\* The call is as it was, and its slot no fuller.
<1>2. CASE /\ ~Restart /\ call'[t] = call[t]
           /\ ~IsAt(t, "idle") /\ slot'[Id(t)] = "empty" => slot[Id(t)] = "empty"
           /\ Id(t) \in pending => Id(t) \in pending' \/ slot'[Id(t)] # "empty"
           /\ reader # "down" => reader' # "down" \/ slot'[Id(t)] # "empty" \/ Id(t) \notin pending
           /\ Dispatch /\ line \notin Messages /\ line.id = Id(t) /\ Id(t) \in pending
                  => slot'[Id(t)] # "empty"
  <2>1. Id(t)' = Id(t) /\ \A w \in {"write", "wait"} : IsAt(t, w)' = IsAt(t, w)
    BY <1>2 DEF Id, IsAt
  <2>2. CASE IsAt(t, "write") \/ IsAt(t, "wait")
    <3>1. Id(t) \in Ids
      BY <1>0, <2>2, CallsHaveIds DEF IsAt
    <3>2. IsAt(t, "write") /\ slot'[Id(t)] = "empty" => Id(t) \in pending'
      BY <1>0, <1>2, <2>2 DEF Waits, IsAt
    <3>3. ASSUME IsAt(t, "wait"), slot'[Id(t)] = "empty"
          PROVE  Id(t) \in pending' /\ reader' # "down" /\ Expects(t)'
      <4>1. Id(t) \in pending /\ reader # "down" /\ Expects(t)
        BY <1>0, <1>2, <3>3 DEF Waits, IsAt
      <4> QED
        BY <1>2, <2>1, <3>1, <3>3, <4>1, ExpectsStill
    <3> QED
      BY <2>1, <3>2, <3>3 DEF Waits
  <2>3. CASE ~IsAt(t, "write") /\ ~IsAt(t, "wait")
    BY <2>1, <2>3 DEF Waits
  <2> QED
    BY <2>2, <2>3
<1>3. CASE ~(IsAt(t, "write") \/ IsAt(t, "wait"))'
  BY <1>3 DEF Waits
<1>4. ASSUME NEW u \in Threads, ThreadStep(u) PROVE Waits(t)'
  <2>0. UNCHANGED <<pending, slot, reader>> /\ ~Restart /\ ~Dispatch
    BY <1>0, <1>4
    DEF ThreadStep, AckIfBusy, Ask, Reply, Complain, Finish, Elsewhere, client, Restart, Dispatch, Move, Types
  <2>1. CASE call'[t] = call[t]
    BY <1>2, <2>0, <2>1
  <2>2. CASE u = t /\ ~Ask(t)
    BY <1>0, <1>3, <1>4, <2>2
    DEF ThreadStep, AckIfBusy, Reply, Complain, Finish, Begin, IsAt, Types, NoCall
  <2> QED
    BY <1>0, <1>4, <2>1, <2>2, ThreadsStepAlone DEF Others, Ask
<1>5. ASSUME NEW u \in Threads, CallStep(u) \/ TimeOut(u) PROVE Waits(t)'
  <2>0. /\ UNCHANGED <<reader, stage>> /\ Id(u) \in Ids /\ ~IsAt(u, "idle")
        /\ ~Dispatch
    BY <1>0, <1>5, CallsHaveIds DEF CallStep, TimeOut, Register, Write, Wake, IsAt, Dispatch
  <2>r. ~Restart
    BY <1>0, <2>0 DEF Restart, Types
  <2>1. CASE u # t
    <3>1. call'[t] = call[t] /\ Id(u) # Id(t)
      BY <1>0, <1>5, <2>1, ThreadsStepAlone DEF Others, Id
    <3>2. CASE ~IsAt(t, "idle")
      <4>1. Id(t) \in Ids
        BY <1>0, <3>2, CallsHaveIds
      <4>2. slot'[Id(t)] = slot[Id(t)] /\ (Id(t) \in pending => Id(t) \in pending')
        BY <1>0, <1>5, <2>0, <3>1, <4>1 DEF Types, CallStep, TimeOut, Register, Write, Wake, client
      <4> QED
        BY <1>2, <2>0, <2>r, <3>1, <4>2
    <3>3. CASE IsAt(t, "idle")
      BY <1>3, <3>1, <3>3 DEF IsAt
    <3> QED
      BY <3>2, <3>3
  <2>2. CASE Register(t)
    <3>1. call'[t].at = "write" /\ Id(t)' \in pending'
      BY <1>0, <2>2 DEF Types, Calls, Register, Id
    <3> QED
      BY <3>1 DEF Waits, IsAt
  <2>3. CASE Write(t)
    <3>1. CASE file = "open"
      <4>1. /\ call'[t].at = "wait" /\ Id(t)' = Id(t) /\ Id(t) \in requests'
            /\ IsAt(t, "write") /\ UNCHANGED <<pending, slot>>
        BY <1>0, <2>3, <3>1 DEF Types, Calls, Write, Id, client
      <4>2. reader \in {"reading", "line"}
        BY <3>1 DEF UnderWay
      <4> QED
        BY <1>0, <2>0, <4>1, <4>2 DEF Waits, IsAt, Expects
    <3>2. CASE file # "open"
      <4>1. call'[t].at = "idle"
        BY <1>0, <2>3, <3>2 DEF Types, Calls, Write, End
      <4> QED
        BY <1>3, <4>1 DEF IsAt
    <3> QED
      BY <3>1, <3>2
  <2>4. CASE Wake(t) \/ TimeOut(t)
    <3>1. call'[t].at = "idle"
      BY <1>0, <2>4 DEF Types, Calls, Wake, TimeOut, End
    <3> QED
      BY <1>3, <3>1 DEF IsAt
  <2> QED
    BY <1>5, <2>1, <2>2, <2>3, <2>4 DEF CallStep
<1>6. CASE Dispatch
  <2>0. ~Restart /\ call' = call /\ reader' = "reading"
    BY <1>0, <1>6 DEF Dispatch, Restart, LineIsRead, BridgeTypeOK
  <2>1. CASE Unblock
    BY <1>0, <1>2, <1>6, <2>0, <2>1, CallsHaveIds DEF Types, Unblock
  <2>2. CASE OnMessage
    BY <1>2, <2>0, <2>2 DEF OnMessage, client
  <2> QED
    BY <1>6, <2>1, <2>2 DEF Dispatch
<1>7. CASE Sweep
  <2>0. ~Restart /\ call' = call /\ ~Dispatch
    BY <1>0, <1>7 DEF Types, Sweep, Restart, Dispatch
  <2> QED
    BY <1>0, <1>2, <1>7, <2>0, CallsHaveIds DEF Types, Sweep
<1>8. CASE Connect \/ Readline \/ Lost \/ SignalStep
  <2>1. ~Restart /\ UNCHANGED <<call, pending, slot>>
    BY <1>8 DEF Connect, Readline, Lost, SignalStep, Answer, Deliver, GoAway, client, Restart
  <2>2. (reader # "down" => reader' # "down") /\ ~Dispatch
    BY <1>8 DEF Connect, Readline, Lost, SignalStep, Answer, Deliver, GoAway, Dispatch
  <2> QED
    BY <1>2, <2>1, <2>2
<1>9. CASE UNCHANGED bridgeVars
  BY <1>0, <1>9 DEF bridgeVars, client, signalCli, Waits, IsAt, Id, Expects, Forgotten, OnItsWay, Elements
<1> QED
  BY <1>1, <1>4, <1>5, <1>6, <1>7, <1>8, <1>9 DEF BridgeNext, ReaderStep

-----------------------------------------------------------------------------

LEMMA BridgeStep ==
    BridgeInvariant /\ SentIsSent /\ [BridgeNext]_bridgeVars => BridgeInvariant' /\ SentIsSent'
BY BridgeTypesKept, LineStaysRead, OneThreadEach, CallsStayCounted, SlotsStayWaitedFor, AnswersStayReal,
   StaysAlone, WaitersStayExpectant, UnderWayStays, SentStaysSent
DEF BridgeInvariant

LEMMA BridgeStart == BridgeInit => BridgeInvariant /\ SentIsSent
<1>1. BridgeInit => SentIsSent
  BY DEF BridgeInit, SentIsSent, NoCall
<1> QED
  BY <1>1, BridgeInitEstablishes

LEMMA BridgeIsSafe == BridgeSpec => [](BridgeInvariant /\ SentIsSent)
BY BridgeStart, BridgeStep, PTL DEF BridgeSpec

(* Messages get one thread at most, slots are nobody else's, and answers    *)
(* are those of calls carried out (signal_bridge.py:108-207).               *)
THEOREM BridgeInvariantHolds == BridgeSpec => []BridgeInvariant
BY BridgeIsSafe, PTL

(* The safety core of NobodyWaitsInVain: whoever waits for an answer can    *)
(* still be given one, by signal-cli, by the reader or by the sweep, unless *)
(* the file forgot it (signal_bridge.py:132-169).                           *)
THEOREM WaitersExpectAnswersHolds == BridgeSpec => []WaitersExpectAnswers
BY BridgeInvariantHolds, PTL DEF BridgeInvariant

(* The safety core of MessagesAreHandled: a message that signal-cli         *)
(* delivered is on its way to its thread or was forgotten by the file, and  *)
(* the reader leaves a connection only when it is empty                     *)
(* (signal_bridge.py:111-153, 192-207).                                     *)
THEOREM UnderWayHolds == BridgeSpec => []UnderWay
BY BridgeInvariantHolds, PTL DEF BridgeInvariant

(* A call that returns was carried out (signal_bridge.py:156-173).          *)
THEOREM SentIsSentHolds == BridgeSpec => []SentIsSent
BY BridgeIsSafe, PTL

=============================================================================
