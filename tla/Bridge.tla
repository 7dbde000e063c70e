-------------------------------- MODULE Bridge --------------------------------
(***************************************************************************)
(* The Signal bridge (server/proxy/signal_bridge.py): SignalRpcClient with *)
(* its one reader thread, the threads that send through it, and signal-cli *)
(* at the other end of the socket.                                         *)
(*                                                                         *)
(* The socket is wrapped by makefile("rw") in one text file, which the     *)
(* reader reads and the senders write.  It reads ahead, and a write makes  *)
(* it forget what it has read ahead (io.TextIOWrapper).                    *)
(***************************************************************************)
EXTENDS Naturals, Sequences

CONSTANTS Messages,   \* the user's messages, prompts and commands
          Notices,    \* requests to /send
          Main,       \* the thread that starts the bridge
          Nothing,    \* no line
          MaxLosses   \* bound: how often signal-cli goes away

Threads  == Messages \cup Notices \cup {Main}
Ids      == Threads \X {1, 2}
Lines    == Messages \cup [id : Ids, ok : BOOLEAN]

ASSUME BridgeAssumption ==
    /\ Main \notin Messages \cup Notices
    /\ Messages \cap Notices = {}
    /\ Nothing \notin Lines
    /\ Messages \cap [id : Ids, ok : BOOLEAN] = {}
    /\ MaxLosses \in Nat

VARIABLES stage,     \* where each thread is
          call,      \* its calls of rpc.call: how many, where the last is, how it ended
          pending,   \* _pending: the calls that an answer can still reach
          slot,      \* what a call's slot holds
          reader,    \* where the reader thread is
          line,      \* the line it is about to dispatch
          ahead,     \* what the file has read ahead of it
          lines,     \* what is in the socket
          file,      \* _file: none yet, open, or dead because signal-cli has gone
          requests,  \* what signal-cli has been asked and not answered
          executed,  \* history: the calls it carried out
          lost,      \* history: the lines the file forgot
          losses     \* history: how often signal-cli went away

client     == <<pending, slot>>
signalCli  == <<requests, executed, losses>>
bridgeVars == <<stage, call, client, reader, line, ahead, lines, file, signalCli, lost>>

NoCall == [n |-> 0, at |-> "idle", result |-> "none"]

Elements(s) == {s[i] : i \in DOMAIN s}

BridgeTypeOK ==
    /\ stage \in [Threads -> {"off", "sent", "begun", "acking", "asking", "replying",
                              "done", "dropped"}]
    /\ call \in [Threads -> [n : 0..2, at : {"idle", "connect", "write", "wait"},
                             result : {"none", "ok", "error", "raised", "timeout"}]]
    /\ pending \subseteq Ids
    /\ slot \in [Ids -> {"empty", "ok", "error"}]
    /\ reader \in {"down", "reading", "line", "lost"}
    /\ line \in Lines \cup {Nothing}
    /\ ahead \in Seq(Lines)
    /\ lines \in Seq(Lines)
    /\ file \in {"none", "open", "dead"}
    /\ requests \subseteq Ids
    /\ executed \subseteq Ids
    /\ lost \subseteq Lines
    /\ losses \in 0..MaxLosses

BridgeInit ==
    /\ stage = [t \in Threads |-> IF t = Main THEN "begun" ELSE "off"]
    /\ call = [t \in Threads |-> NoCall]
    /\ pending = {}
    /\ slot = [c \in Ids |-> "empty"]
    /\ reader = "down"
    /\ line = Nothing
    /\ ahead = <<>>
    /\ lines = <<>>
    /\ file = "none"
    /\ requests = {}
    /\ executed = {}
    /\ lost = {}
    /\ losses = 0

-----------------------------------------------------------------------------
(* SignalRpcClient.call                                                     *)

Id(t)    == <<t, call[t].n>>
IsAt(t, where) == call[t].at = where

Begin(t) == call' = [call EXCEPT ![t] = [n |-> @.n + 1, at |-> "connect", result |-> "none"]]
End(t, result) == call' = [call EXCEPT ![t].at = "idle", ![t].result = result]

\* Whether there is a connection or the wait for one took too long.
Register(t) ==
    /\ IsAt(t, "connect")
    /\ pending' = pending \cup {Id(t)}
    /\ call' = [call EXCEPT ![t].at = "write"]
    /\ UNCHANGED <<stage, slot, reader, line, ahead, lines, file, signalCli, lost>>

\* write and flush.  Without a file, or with a dead one, they raise, and the
\* slot stays behind.
Write(t) ==
    /\ IsAt(t, "write")
    /\ ahead' = <<>>
    /\ lost' = lost \cup Elements(ahead)
    /\ \/ /\ file = "open"
          /\ requests' = requests \cup {Id(t)}
          /\ call' = [call EXCEPT ![t].at = "wait"]
       \/ /\ file # "open"
          /\ End(t, "raised")
          /\ UNCHANGED requests
    /\ UNCHANGED <<stage, client, reader, line, lines, file, executed, losses>>

\* Faulty: whatever the slot holds is a result.
WakeUnchecked(t) ==
    /\ IsAt(t, "wait")
    /\ slot[Id(t)] # "empty"
    /\ slot' = [slot EXCEPT ![Id(t)] = "empty"]
    /\ End(t, "ok")
    /\ UNCHANGED <<stage, pending, reader, line, ahead, lines, file, signalCli, lost>>

\* The slot is set; it goes with the call.
Wake(t) ==
    /\ IsAt(t, "wait")
    /\ slot[Id(t)] # "empty"
    /\ slot' = [slot EXCEPT ![Id(t)] = "empty"]
    /\ End(t, slot[Id(t)])
    /\ UNCHANGED <<stage, pending, reader, line, ahead, lines, file, signalCli, lost>>

\* Faulty: the slot stays.
TimeOutAndLeave(t) ==
    /\ IsAt(t, "wait")
    /\ slot[Id(t)] = "empty"
    /\ End(t, "timeout")
    /\ UNCHANGED <<stage, client, reader, line, ahead, lines, file, signalCli, lost>>

TimeOut(t) ==
    /\ IsAt(t, "wait")
    /\ slot[Id(t)] = "empty"
    /\ pending' = pending \ {Id(t)}
    /\ End(t, "timeout")
    /\ UNCHANGED <<stage, slot, reader, line, ahead, lines, file, signalCli, lost>>

-----------------------------------------------------------------------------
(* SignalRpcClient._run                                                     *)

Connect ==
    /\ reader = "down"
    /\ reader' = "reading"
    /\ file' = "open"
    /\ ahead' = <<>>
    /\ UNCHANGED <<stage, call, client, line, lines, signalCli, lost>>

\* readline: from what was read ahead, or else from what the socket has, of
\* which it takes more than a line.
Readline ==
    /\ reader = "reading"
    /\ \/ /\ ahead # <<>>
          /\ line' = Head(ahead)
          /\ ahead' = Tail(ahead)
          /\ UNCHANGED lines
       \/ /\ ahead = <<>>
          /\ lines # <<>>
          /\ line' = Head(lines)
          /\ \E n \in 1..Len(lines) :
                /\ ahead' = SubSeq(lines, 2, n)
                /\ lines' = SubSeq(lines, n + 1, Len(lines))
    /\ reader' = "line"
    /\ UNCHANGED <<stage, call, client, file, signalCli, lost>>

Ready == stage[Main] = "done"

\* An answer goes to its slot if that is still waited for.
Unblock ==
    /\ line \notin Messages
    /\ pending' = pending \ {line.id}
    /\ slot' = IF line.id \in pending
               THEN [slot EXCEPT ![line.id] = IF line.ok THEN "ok" ELSE "error"]
               ELSE slot
    /\ UNCHANGED stage

\* A message gets a thread of its own; until the bridge knows whom to listen to
\* on_message raises, and the message is gone.
OnMessage ==
    /\ line \in Messages
    /\ stage' = [stage EXCEPT ![line] = IF Ready THEN "begun" ELSE "dropped"]
    /\ UNCHANGED client

\* Faulty: the reader runs the message's handler itself, and reads on after it.
DispatchInline ==
    /\ reader = "line"
    /\ \/ Unblock /\ reader' = "reading" /\ line' = Nothing
       \/ line \in Messages /\ stage[line] = "sent" /\ OnMessage /\ UNCHANGED <<reader, line>>
       \/ /\ line \in Messages
          /\ stage[line] \in {"done", "dropped"}
          /\ reader' = "reading" /\ line' = Nothing
          /\ UNCHANGED <<stage, client>>
    /\ UNCHANGED <<call, ahead, lines, file, signalCli, lost>>

Dispatch ==
    /\ reader = "line"
    /\ Unblock \/ OnMessage
    /\ reader' = "reading"
    /\ line' = Nothing
    /\ UNCHANGED <<call, ahead, lines, file, signalCli, lost>>

Lost ==
    /\ reader = "reading"
    /\ file = "dead" /\ ahead = <<>> /\ lines = <<>>
    /\ reader' = "lost"
    /\ UNCHANGED <<stage, call, client, line, ahead, lines, file, signalCli, lost>>

\* Faulty: calls in flight are left to time out.
SweepNothing ==
    /\ reader = "lost"
    /\ reader' = "down"
    /\ UNCHANGED <<stage, call, client, line, ahead, lines, file, signalCli, lost>>

\* Every call in flight fails at once.
Sweep ==
    /\ reader = "lost"
    /\ reader' = "down"
    /\ slot' = [c \in Ids |-> IF c \in pending THEN "error" ELSE slot[c]]
    /\ pending' = {}
    /\ UNCHANGED <<stage, call, line, ahead, lines, file, signalCli, lost>>

-----------------------------------------------------------------------------
(* signal-cli                                                               *)

\* It carries out a request or refuses it, and answers.
Answer(c, ok) ==
    /\ file = "open"
    /\ c \in requests
    /\ requests' = requests \ {c}
    /\ executed' = IF ok THEN executed \cup {c} ELSE executed
    /\ lines' = Append(lines, [id |-> c, ok |-> ok])
    /\ UNCHANGED <<stage, call, client, reader, line, ahead, file, losses, lost>>

Deliver(m) ==
    /\ file = "open"
    /\ stage[m] = "off"
    /\ stage' = [stage EXCEPT ![m] = "sent"]
    /\ lines' = Append(lines, m)
    /\ UNCHANGED <<call, client, reader, line, ahead, file, signalCli, lost>>

\* It goes away; what it was asked may have been done.
GoAway ==
    /\ file = "open"
    /\ losses < MaxLosses
    /\ losses' = losses + 1
    /\ file' = "dead"
    /\ requests' = {}
    /\ \E done \in SUBSET requests : executed' = executed \cup done
    /\ UNCHANGED <<stage, call, client, reader, line, ahead, lines, lost>>

-----------------------------------------------------------------------------
(* The threads                                                              *)

Move(t, from, to) == stage[t] = from /\ stage' = [stage EXCEPT ![t] = to]
Elsewhere == UNCHANGED <<client, reader, line, ahead, lines, file, signalCli, lost>>

\* A first message: to a prompt, when the wrapper is busy, that it was received;
\* to a voice note, what was heard.
AckIfBusy(m) == /\ m \in Messages
                /\ Move(m, "begun", "acking") /\ Begin(m) /\ Elsewhere

\* The request to the wrapper or the daemon, whatever became of a prompt's first
\* message.
Ask(m) == /\ m \in Messages
          /\ \/ Move(m, "begun", "asking")
             \/ IsAt(m, "idle") /\ Move(m, "acking", "asking")
          /\ UNCHANGED call /\ Elsewhere

\* The answer is sent; /send does nothing else, and the bridge starts by
\* asking for the user's uuid.
Reply(t) == /\ \/ t \in Messages /\ Move(t, "asking", "replying")
               \/ t \in Notices /\ Ready /\ Move(t, "off", "replying")
               \/ t = Main /\ Move(t, "begun", "replying")
            /\ Begin(t) /\ Elsewhere

\* The handler of a command that could not send its answer says "Couldn't ...".
Complain(m) ==
    /\ m \in Messages
    /\ stage[m] = "replying" /\ IsAt(m, "idle") /\ call[m].n = 1 /\ call[m].result # "ok"
    /\ Begin(m)
    /\ UNCHANGED stage /\ Elsewhere

\* The thread ends: a prompt's that was superseded without a word, a voice note's
\* before its request if what was heard could not be sent.
Finish(t) ==
    /\ IsAt(t, "idle")
    /\ t = Main => call[t].result = "ok"
    /\ \/ Move(t, "replying", "done") \/ Move(t, "asking", "done")
       \/ call[t].result # "ok" /\ Move(t, "acking", "done")
    /\ call' = [call EXCEPT ![t] = NoCall]
    /\ Elsewhere

\* A bridge that does not learn whom to listen to dies, and is restarted.
Restart ==
    /\ stage[Main] = "replying" /\ IsAt(Main, "idle") /\ call[Main].result # "ok"
    /\ stage' = [t \in Threads |-> IF t = Main THEN "begun"
                                   ELSE IF stage[t] = "sent" THEN "dropped" ELSE stage[t]]
    /\ call' = [call EXCEPT ![Main] = NoCall]
    /\ pending' = {}
    /\ slot' = [c \in Ids |-> "empty"]
    /\ reader' = "down"
    /\ line' = Nothing
    /\ ahead' = <<>> /\ lines' = <<>>
    /\ file' = "none"
    /\ requests' = {}
    /\ executed' = {}
    /\ UNCHANGED <<lost, losses>>

-----------------------------------------------------------------------------

ReaderStep    == Connect \/ Readline \/ Dispatch \/ Lost \/ Sweep
CallStep(t)   == Register(t) \/ Write(t) \/ Wake(t)
ThreadStep(t) == AckIfBusy(t) \/ Ask(t) \/ Reply(t) \/ Complain(t) \/ Finish(t)
SignalStep    == \/ \E c \in Ids, ok \in BOOLEAN : Answer(c, ok)
                 \/ \E m \in Messages : Deliver(m)
                 \/ GoAway

BridgeNext == \/ ReaderStep \/ SignalStep \/ Restart
              \/ \E t \in Threads : CallStep(t) \/ ThreadStep(t) \/ TimeOut(t)

BridgeSpec == BridgeInit /\ [][BridgeNext]_bridgeVars

\* Threads run, requests to the wrapper and the daemon have timeouts, signal-cli
\* is restarted and answers what it is asked.  Nothing of TimeOut: no call is to
\* need it.
BridgeFairness ==
    /\ WF_bridgeVars(ReaderStep)
    /\ WF_bridgeVars(Restart)
    /\ \A t \in Threads : WF_bridgeVars(CallStep(t)) /\ WF_bridgeVars(ThreadStep(t))
    /\ \A c \in Ids : WF_bridgeVars(\E ok \in BOOLEAN : Answer(c, ok))

FairBridgeSpec == BridgeSpec /\ BridgeFairness

-----------------------------------------------------------------------------
(* Properties                                                               *)

\* A message is in one place, until it gets its thread.
Once(q) == \A i, j \in DOMAIN q : q[i] = q[j] /\ q[i] \in Messages => i = j
MessagesGetOneThread ==
    /\ Once(ahead) /\ Once(lines)
    /\ Elements(ahead) \cap Elements(lines) \cap Messages = {}
    /\ line \in Messages => line \notin Elements(ahead) \cup Elements(lines)
    /\ \A m \in Messages \cap (Elements(ahead) \cup Elements(lines) \cup {line}) : stage[m] = "sent"

\* A thread makes two calls at most, one at a time.
CallsAreCounted ==
    \A t \in Threads :
        /\ stage[t] \in {"off", "sent", "dropped", "begun", "done"} => call[t] = NoCall
        /\ stage[t] = "acking" => call[t].n = 1
        /\ stage[t] = "asking" => call[t].n <= 1 /\ IsAt(t, "idle")
        /\ ~IsAt(t, "idle") => call[t].n > 0 /\ call[t].result = "none"

\* A slot is there for a call in flight, or for one whose write raised, and is
\* filled once it is nobody's to fill any more.
Over(c) == stage[c[1]] = "done" \/ c[2] < call[c[1]].n
InFlight(c) == \/ Over(c)
               \/ c = Id(c[1]) /\ (\/ IsAt(c[1], "write") \/ IsAt(c[1], "wait")
                                   \/ call[c[1]].result = "raised")
Filled(c) == Over(c) \/ (c = Id(c[1]) /\ ~IsAt(c[1], "connect"))
SlotsAreWaitedFor ==
    /\ \A c \in pending : InFlight(c)
    /\ \A c \in Ids : slot[c] # "empty" => c \notin pending /\ Filled(c)

\* Answers are those of requests that were carried out.
AnswersAreReal ==
    /\ \A a \in Elements(lines) \cup Elements(ahead) \cup {line} :
          a \in [id : Ids, ok : {TRUE}] => a.id \in executed
    /\ \A c \in Ids : slot[c] = "ok" => c \in executed

\* There is a line to dispatch just when the reader is about to.
LineIsRead == (reader = "line") <=> (line # Nothing)

\* Until the bridge is ready nobody but Main uses the connection.
StartsAlone ==
    ~Ready => \A t \in Threads \ {Main} : call[t] = NoCall /\ stage[t] \in {"off", "sent", "dropped"}

\* Whoever waits will be answered or swept, and whoever is about to write will
\* be swept if the connection goes, unless the file forgets the answer: this and
\* UnderWay are what NobodyWaitsInVain and MessagesAreHandled rest on.
Forgotten(t) == \E ok \in BOOLEAN : [id |-> Id(t), ok |-> ok] \in lost
OnItsWay == Elements(lines) \cup Elements(ahead) \cup {line}
Expects(t) == \/ Id(t) \in requests \/ file = "dead" \/ Forgotten(t)
              \/ \E ok \in BOOLEAN : [id |-> Id(t), ok |-> ok] \in OnItsWay
WaitersExpectAnswers ==
    \A t \in Threads :
        /\ IsAt(t, "write") /\ slot[Id(t)] = "empty" => Id(t) \in pending
        /\ IsAt(t, "wait") /\ slot[Id(t)] = "empty" =>
              Id(t) \in pending /\ reader # "down" /\ Expects(t)

\* A message that was not handled is on its way, or forgotten by the file; and
\* nothing is left in a connection that the reader has given up.
UnderWay ==
    /\ \A m \in Messages : stage[m] = "sent" => m \in OnItsWay \cup lost
    /\ file = "open" => reader \in {"reading", "line"}
    /\ reader \in {"lost", "down"} => ahead = <<>> /\ lines = <<>>

(* The inductive invariant: a message gets one thread at most (202-207),    *)
(* slots are nobody else's and do not pile up (signal_bridge.py:156-169),   *)
(* what is on its way to a slot is what signal-cli did (132-137), nothing   *)
(* is handled before the bridge knows whom it listens to (225), and no call *)
(* and no message is stranded (138-153).                                    *)
BridgeInvariant ==
    /\ BridgeTypeOK /\ LineIsRead /\ MessagesGetOneThread
    /\ CallsAreCounted /\ SlotsAreWaitedFor /\ AnswersAreReal /\ StartsAlone
    /\ WaitersExpectAnswers /\ UnderWay

(* A call that returns was carried out: "sent" is never said of a message   *)
(* that signal-cli refused or never saw, whatever is lost, late or swept in *)
(* between (signal_bridge.py:166-173).                                      *)
SentIsSent ==
    \A t \in Threads : IsAt(t, "idle") /\ call[t].result = "ok" => Id(t) \in executed

(* No call has to wait for its timeout, unless the file forgot its answer:  *)
(* not one in flight when the connection is lost, and not one registered    *)
(* while it is being replaced (signal_bridge.py:138-153, 156-169).          *)
NobodyWaitsInVain ==
    \A t \in Threads : IsAt(t, "wait") ~> ~IsAt(t, "wait") \/ Forgotten(t)

(* Every message that reaches a bridge that is ready is handled to its end, *)
(* while any number of others wait for answers: the reader is never kept    *)
(* by a handler (signal_bridge.py:192-207).                                 *)
MessagesAreHandled ==
    \A m \in Messages :
        stage[m] = "sent" /\ Ready ~>
            stage[m] = "done" \/ m \in lost \/ (IsAt(m, "wait") /\ Forgotten(m))

(* The docstring of SignalRpcClient: "One dedicated reader thread           *)
(* dispatches every incoming line" (91-92).  Refuted: a write forgets the   *)
(* lines that were read ahead.                                              *)
EveryLineIsDispatched == lost = {}
=============================================================================
