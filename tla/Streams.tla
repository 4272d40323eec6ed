------------------------------ MODULE Streams ------------------------------
(***************************************************************************)
(* A websocket session and its goroutines: the console of a server or of   *)
(* a container (internal/http/console.go on the pipes of                   *)
(* internal/ssh/client.go), the live statistics of a server (stats_ws.go)  *)
(* and of an app (app_stats_ws.go, StreamStats).                           *)
(*                                                                         *)
(* The context of a session ends only when its handler returns: the        *)
(* request's own context does not outlive the upgrade of the connection.   *)
(* Messages are counted; what they say does not matter here.               *)
(***************************************************************************)
EXTENDS Naturals, Sequences

CONSTANTS
  Kinds,         \* the kinds of session
  OutCap, InCap, SnapCap, LineCap,   \* capacities of channels; rangeCh has 1
  MaxMessages,   \* bound: messages of the browser
  MaxOutput,     \* bound: pieces of output of the remote command
  MaxStreams     \* bound: times that docker stats is started

AllKinds == {"console", "server", "app"}

ASSUME StreamsAssumption ==
  /\ Kinds \subseteq AllKinds
  /\ OutCap \in Nat \ {0} /\ InCap \in Nat \ {0}
  /\ SnapCap \in Nat \ {0} /\ LineCap \in Nat \ {0}
  /\ MaxMessages \in Nat /\ MaxOutput \in Nat /\ MaxStreams \in Nat

VARIABLES
  kind,
  peer,      \* the browser: "here", "stalled" (connected, reads nothing), "gone"
  conn,      \* our end of the websocket is open
  cancelled, \* the context is done
  pc,        \* where each goroutine is
  remote,    \* the command on the worker: "up", "stuck" (reads nothing), "exited"
  session,   \* our end of the SSH session is open
  out, outClosed,     \* outCh: data, and Closed at the end
  in, inClosed,       \* inCh, as a number of messages
  errs,               \* errCh
  range, rangeClosed, \* rangeCh
  snaps, fresh, got,  \* snapCh; latestSnap; lastSnapReceived
  lines, linesClosed, \* the lines of ExecStream
  farewell,           \* the close frame has been written
  messages, outputs, streams

peers   == <<kind, peer, remote>>
console == <<out, outClosed, in, inClosed, errs, farewell>>
live    == <<range, rangeClosed, snaps, fresh, got, lines, linesClosed, streams>>
bound   == <<messages, outputs>>
vars    == <<peers, conn, cancelled, pc, session, console, live, bound>>

---------------------------------------------------------------------------
(* Types.                                                                  *)

Goroutines(k) ==
  CASE k = "console" -> {"handler", "reader", "pinger", "stdout", "stdin",
                         "copier", "waiter"}
    [] k = "server"  -> {"handler", "reader", "pinger"}
    [] k = "app"     -> {"handler", "reader", "pinger", "collector", "scanner",
                         "fallback"}

AllGoroutines == UNION {Goroutines(k) : k \in AllKinds}

Start(g) ==
  CASE g = "reader"    -> "read"
    [] g = "pinger"    -> "wait"
    [] g = "stdout"    -> "receive"
    [] g = "stdin"     -> "receive"
    [] g = "copier"    -> "read"
    [] g = "waiter"    -> "wait"
    [] g = "collector" -> "start"
    [] g = "scanner"   -> "ended"
    [] g = "fallback"  -> "wait"

Labels == {"connect", "chart", "select", "exec", "write", "read", "send", "wait", "receive", "start",
           "stream", "pause", "poll", "close", "ended"}

TypeOK ==
  /\ kind \in Kinds
  /\ peer \in {"here", "stalled", "gone"}
  /\ conn \in BOOLEAN /\ cancelled \in BOOLEAN /\ session \in BOOLEAN
  /\ pc \in [AllGoroutines -> Labels]
  /\ remote \in {"up", "stuck", "exited"}
  /\ out \in Seq({"data", "closed"}) /\ Len(out) <= OutCap
  /\ in \in 0..InCap /\ range \in 0..1
  /\ errs \in 0..2
  /\ snaps \in 0..SnapCap /\ lines \in 0..LineCap
  /\ {outClosed, inClosed, rangeClosed, linesClosed} \subseteq BOOLEAN
  /\ {fresh, got, farewell} \subseteq BOOLEAN
  /\ messages \in Nat /\ outputs \in Nat /\ streams \in Nat

Init ==
  /\ kind \in Kinds
  /\ peer = "here" /\ remote = "up"
  /\ conn = TRUE /\ cancelled = FALSE /\ session = FALSE
  /\ pc = [g \in AllGoroutines |-> CASE g = "handler" -> "connect"
                                     [] g = "pinger"  -> Start("pinger")
                                     [] OTHER         -> "ended"]
  /\ out = <<>> /\ outClosed = FALSE
  /\ in = 0 /\ inClosed = FALSE
  /\ errs = 0
  /\ range = 0 /\ rangeClosed = FALSE
  /\ snaps = 0 /\ fresh = FALSE /\ got = FALSE
  /\ lines = 0 /\ linesClosed = FALSE
  /\ farewell = FALSE
  /\ messages = 0 /\ outputs = 0 /\ streams = 0

---------------------------------------------------------------------------
(* Control.                                                                *)

At(g, label) == g \in Goroutines(kind) /\ pc[g] = label

Goto(g, label) == pc' = [pc EXCEPT ![g] = label]

\* The handler returns: client.Close, cancel and conn.Close, deferred.
HandlerReturns ==
  /\ Goto("handler", "ended")
  /\ session' = FALSE /\ cancelled' = TRUE /\ conn' = FALSE

Stays == UNCHANGED <<peers, conn, cancelled, session>>

\* What a read and a write of the websocket meet.
ReadFails  == peer # "here" \/ ~conn
WriteFails == peer = "gone" \/ ~conn

---------------------------------------------------------------------------
(* Plausible slips: variants of the definitions below that the             *)
(* specification does not use; each breaks a property.                     *)

\* Wait does not wait for the copies of the output.
OutputDrained_Exit == remote = "exited" \/ ~session

\* The copy of the output does not watch the context.
GivesUp_Never == FALSE

\* The end of the command is not passed on.
Farewells_Lost == FALSE

---------------------------------------------------------------------------
(* The beginning of a session; the connection is a websocket already, and  *)
(* wsKeepAlive watches it.                                                 *)

\* The goroutines of the session, beside the pinger; the handler waits.
Starts ==
  pc' = [g \in AllGoroutines |->
           CASE g = "handler" -> "select"
             [] g \in Goroutines(kind) \ {"handler", "pinger"} -> Start(g)
             [] OTHER -> pc[g]]

\* The shell, or the command in a container, with its pipes.
OpenConsole == kind = "console" /\ Starts

OpenStats == kind # "console" /\ Goto("handler", "chart")

\* The SSH connection; an error of it, or of the shell, ends the session.
Connect ==
  /\ At("handler", "connect")
  /\ \/ /\ OpenConsole \/ OpenStats
        /\ session' = TRUE /\ UNCHANGED <<conn, cancelled>>
     \/ HandlerReturns
  /\ UNCHANGED <<peers, console, live, bound>>

\* The first chart; whether it could be written does not matter.
FirstChart ==
  /\ At("handler", "chart")
  /\ Starts
  /\ Stays /\ UNCHANGED <<console, live, bound>>

---------------------------------------------------------------------------
(* The goroutine that reads the websocket.                                 *)

\* relay and the statistics: the failure goes to errCh, or closes rangeCh.
ReadError ==
  /\ At("reader", "read") /\ ReadFails
  /\ Goto("reader", "ended")
  /\ IF kind = "console"
       THEN errs' = errs + 1 /\ inClosed' = TRUE /\ UNCHANGED rangeClosed
       ELSE rangeClosed' = TRUE /\ UNCHANGED <<errs, inClosed>>
  /\ UNCHANGED <<peers, conn, cancelled, session, out, outClosed, in, farewell,
                 range, snaps, fresh, got, lines, linesClosed, streams, bound>>

\* A keystroke, a resize or a change of range; others are dropped.
ReadMessage ==
  /\ At("reader", "read") /\ peer = "here" /\ conn
  /\ messages < MaxMessages
  /\ messages' = messages + 1
  /\ Goto("reader", "send")
  /\ Stays /\ UNCHANGED <<console, live, outputs>>

\* The select of relay: a message that cannot be handed over is given up when
\* the context is done.  The statistics have no such alternative.
Forward ==
  /\ At("reader", "send")
  /\ IF kind = "console"
       THEN \/ /\ in < InCap
               /\ in' = in + 1
               /\ Goto("reader", "read")
               /\ UNCHANGED <<inClosed, range>>
            \/ /\ cancelled
               /\ inClosed' = TRUE
               /\ Goto("reader", "ended")
               /\ UNCHANGED <<in, range>>
       ELSE /\ range < 1
            /\ range' = range + 1
            /\ Goto("reader", "read")
            /\ UNCHANGED <<in, inClosed>>
  /\ Stays
  /\ UNCHANGED <<out, outClosed, errs, farewell, rangeClosed, snaps, fresh, got,
                 lines, linesClosed, streams, bound>>

Reader == ReadError \/ ReadMessage \/ Forward

\* wsKeepAlive: until a ping cannot be written or the context is done.
Pinger ==
  /\ At("pinger", "wait") /\ (cancelled \/ peer # "here" \/ ~conn)
  /\ Goto("pinger", "ended")
  /\ Stays /\ UNCHANGED <<console, live, bound>>

---------------------------------------------------------------------------
(* The console: relay, pump and channelWriter.                             *)

\* relay waits for the first error; the context is its own.
RelayReturns ==
  /\ kind = "console" /\ At("handler", "select")
  /\ errs > 0
  /\ HandlerReturns
  /\ UNCHANGED <<peers, console, live, bound>>

StdoutReceive ==
  /\ At("stdout", "receive")
  /\ \/ /\ out # <<>>
        /\ Goto("stdout", IF Head(out) = "data" THEN "write" ELSE "close")
        /\ out' = Tail(out)
     \/ /\ out = <<>> /\ outClosed
        /\ Goto("stdout", "ended")
        /\ UNCHANGED out
  /\ Stays
  /\ UNCHANGED <<outClosed, in, inClosed, errs, farewell, live, bound>>

\* Closed writes the close frame and ends the goroutine, without an error.
Farewells == TRUE

\* An error ends the goroutine.
AfterWriteError == "ended"

\* A write has no deadline.
StdoutWrite ==
  /\ pc["stdout"] \in {"write", "close"}
  /\ \/ /\ ~WriteFails
        /\ Goto("stdout", IF pc["stdout"] = "write" THEN "receive" ELSE "ended")
        /\ farewell' = (pc["stdout"] = "close" /\ Farewells)
        /\ UNCHANGED errs
     \/ /\ WriteFails
        /\ Goto("stdout", AfterWriteError)
        /\ errs' = IF pc["stdout"] = "write" THEN errs + 1 ELSE errs
        /\ UNCHANGED farewell
  /\ Stays /\ UNCHANGED <<out, outClosed, in, inClosed, live, bound>>

\* channelWriter: output that cannot be handed over is given up when the context
\* is done.
GivesUp == cancelled

\* session.Stdout: what the command writes goes to outCh, until the context is done.
Copier ==
  /\ \/ /\ At("copier", "read") /\ session
        /\ remote # "exited" /\ outputs < MaxOutput
        /\ outputs' = outputs + 1
        /\ Goto("copier", "send")
        /\ UNCHANGED out
     \/ /\ At("copier", "read") /\ (remote = "exited" \/ ~session)
        /\ Goto("copier", "ended")
        /\ UNCHANGED <<out, outputs>>
     \/ /\ At("copier", "send") /\ Len(out) < OutCap
        /\ out' = Append(out, "data")
        /\ Goto("copier", "read")
        /\ UNCHANGED outputs
     \/ /\ At("copier", "send") /\ GivesUp
        /\ Goto("copier", "ended")
        /\ UNCHANGED <<out, outputs>>
  /\ Stays
  /\ UNCHANGED <<outClosed, in, inClosed, errs, farewell, live, messages>>

\* session.Wait returns when the command has exited and the copies have finished.
OutputDrained == (remote = "exited" \/ ~session) /\ pc["copier"] = "ended"

Waiter ==
  /\ \/ /\ At("waiter", "wait") /\ OutputDrained
        /\ session' = FALSE
        /\ Goto("waiter", "send")
        /\ UNCHANGED <<out, outClosed>>
     \/ /\ At("waiter", "send")
        /\ \/ Len(out) < OutCap /\ out' = Append(out, "closed")
           \/ cancelled /\ UNCHANGED out
        /\ outClosed' = TRUE
        /\ Goto("waiter", "ended")
        /\ UNCHANGED session
  /\ UNCHANGED <<peers, conn, cancelled, in, inClosed, errs, farewell, live, bound>>

\* Keystrokes to the command, which may have stopped to read them.
Stdin ==
  /\ \/ /\ At("stdin", "receive") /\ in > 0
        /\ in' = in - 1
        /\ Goto("stdin", "write")
     \/ /\ At("stdin", "receive") /\ in = 0 /\ inClosed
        /\ Goto("stdin", "ended")
        /\ UNCHANGED in
     \/ /\ At("stdin", "write") /\ (remote # "stuck" \/ ~session)
        /\ Goto("stdin", "receive")
        /\ UNCHANGED in
  /\ Stays /\ UNCHANGED <<out, outClosed, inClosed, errs, farewell, live, bound>>

---------------------------------------------------------------------------
(* Live statistics.                                                        *)

\* A tick: the server's figures are asked for, the app's latest snapshot is sent,
\* or the chart of the current range.
Tick ==
  /\ kind # "console" /\ At("handler", "select")
  /\ \/ kind = "server" /\ Goto("handler", "exec") /\ UNCHANGED fresh
     \/ kind = "app" /\ fresh /\ fresh' = FALSE /\ Goto("handler", "write")
     \/ Goto("handler", "write") /\ UNCHANGED fresh
  /\ Stays
  /\ UNCHANGED <<console, range, rangeClosed, snaps, got, lines, linesClosed,
                 streams, bound>>

\* head -1 /proc/stat ends, with an error or without.
Sampled ==
  /\ At("handler", "exec")
  /\ Goto("handler", "write") \/ Goto("handler", "select")
  /\ Stays /\ UNCHANGED <<console, live, bound>>

\* The chart of the chosen range; the closed channel ends the session.
RangeReceived ==
  /\ kind # "console" /\ At("handler", "select")
  /\ \/ /\ range > 0
        /\ range' = range - 1
        /\ Goto("handler", "write")
        /\ UNCHANGED <<conn, cancelled, session>>
     \/ /\ range = 0 /\ rangeClosed
        /\ HandlerReturns
        /\ UNCHANGED range
  /\ UNCHANGED <<peers, console, rangeClosed, snaps, fresh, got, lines,
                 linesClosed, streams, bound>>

SnapReceived ==
  /\ kind = "app" /\ At("handler", "select") /\ snaps > 0
  /\ snaps' = snaps - 1 /\ fresh' = TRUE /\ got' = TRUE
  /\ Stays
  /\ UNCHANGED <<pc, console, range, rangeClosed, lines, linesClosed, streams, bound>>

\* A write without a deadline; its failure ends the session.
LiveWrite ==
  /\ kind # "console" /\ At("handler", "write")
  /\ \/ ~WriteFails /\ Goto("handler", "select") /\ UNCHANGED <<conn, cancelled, session>>
     \/ WriteFails /\ HandlerReturns
  /\ UNCHANGED <<peers, console, live, bound>>

\* ExecStream: lines of docker stats, until it ends or the context is done.
Scanner ==
  /\ kind = "app"
  /\ \/ /\ At("scanner", "read") /\ session /\ remote = "up" /\ outputs < MaxOutput
        /\ outputs' = outputs + 1
        /\ Goto("scanner", "send")
        /\ UNCHANGED <<lines, linesClosed>>
     \/ /\ At("scanner", "send") /\ lines < LineCap
        /\ lines' = lines + 1
        /\ Goto("scanner", "read")
        /\ UNCHANGED <<linesClosed, outputs>>
     \/ /\ At("scanner", "send") /\ cancelled
        /\ linesClosed' = TRUE
        /\ Goto("scanner", "ended")
        /\ UNCHANGED <<lines, outputs>>
     \/ /\ At("scanner", "read")     \* EOF: a container restarted, or Close
        /\ linesClosed' = TRUE
        /\ Goto("scanner", "ended")
        /\ UNCHANGED <<lines, outputs>>
  /\ Stays
  /\ UNCHANGED <<console, range, rangeClosed, snaps, fresh, got, streams, messages>>

\* When docker stats ends it is started again, a second later.
AfterStream == "pause"

\* The loop around StreamStats.
Collector ==
  /\ \/ /\ At("collector", "start") /\ pc["scanner"] = "ended" /\ streams < MaxStreams
        /\ streams' = streams + 1
        /\ \/ /\ pc' = [pc EXCEPT !["collector"] = "stream", !["scanner"] = "read"]
              /\ lines' = 0 /\ linesClosed' = FALSE
           \/ Goto("collector", AfterStream) /\ UNCHANGED <<lines, linesClosed>>
        /\ UNCHANGED snaps
     \/ /\ At("collector", "stream") /\ lines > 0
        /\ lines' = lines - 1
        /\ Goto("collector", "send") \/ UNCHANGED pc    \* a line that says nothing
        /\ UNCHANGED <<snaps, linesClosed, streams>>
     \/ /\ At("collector", "stream") /\ lines = 0 /\ linesClosed
        /\ Goto("collector", AfterStream)
        /\ UNCHANGED <<snaps, lines, linesClosed, streams>>
     \/ /\ At("collector", "send") /\ snaps < SnapCap
        /\ snaps' = snaps + 1
        /\ Goto("collector", "stream")
        /\ UNCHANGED <<lines, linesClosed, streams>>
     \/ /\ At("collector", "pause") /\ ~cancelled
        /\ Goto("collector", "start")
        /\ UNCHANGED <<snaps, lines, linesClosed, streams>>
     \/ /\ kind = "app" /\ cancelled /\ pc["collector"] # "ended"
        /\ Goto("collector", "ended")
        /\ UNCHANGED <<snaps, lines, linesClosed, streams>>
  /\ Stays
  /\ UNCHANGED <<console, range, rangeClosed, fresh, got, bound>>

\* Without a snapshot in the first three seconds the figures are polled.
Fallback ==
  /\ \/ /\ At("fallback", "wait")
        /\ Goto("fallback", IF got THEN "ended" ELSE "poll")
        /\ UNCHANGED <<snaps, outputs>>
     \/ /\ At("fallback", "poll") /\ outputs < MaxOutput
        /\ outputs' = outputs + 1
        /\ Goto("fallback", "send") \/ UNCHANGED pc
        /\ UNCHANGED snaps
     \/ /\ At("fallback", "send") /\ snaps < SnapCap
        /\ snaps' = snaps + 1
        /\ Goto("fallback", "poll")
        /\ UNCHANGED outputs
     \/ /\ kind = "app" /\ cancelled /\ pc["fallback"] # "ended"
        /\ Goto("fallback", "ended")
        /\ UNCHANGED <<snaps, outputs>>
  /\ Stays
  /\ UNCHANGED <<console, range, rangeClosed, fresh, got, lines, linesClosed,
                 streams, messages>>

---------------------------------------------------------------------------
(* The two ends.                                                           *)

\* The browser closes, loses the network, or stops reading.
PeerChanges ==
  /\ \/ peer = "here" /\ peer' \in {"stalled", "gone"}
     \/ peer = "stalled" /\ peer' = "gone"
  /\ UNCHANGED <<kind, remote, conn, cancelled, pc, session, console, live, bound>>

\* A browser answers the close frame by closing.
PeerCloses ==
  /\ farewell /\ peer = "here" /\ peer' = "gone"
  /\ UNCHANGED <<kind, remote, conn, cancelled, pc, session, console, live, bound>>

\* The command ends, stops reading its input, or reads again.
RemoteChanges ==
  /\ remote # "exited" /\ session
  /\ remote' \in {"up", "stuck", "exited"} \ {remote}
  /\ kind = "console"
  /\ UNCHANGED <<kind, peer, conn, cancelled, pc, session, console, live, bound>>

Next ==
  \/ Connect \/ FirstChart \/ Reader \/ Pinger
  \/ RelayReturns \/ StdoutReceive \/ StdoutWrite \/ Copier \/ Waiter \/ Stdin
  \/ Tick \/ Sampled \/ RangeReceived \/ SnapReceived \/ LiveWrite
  \/ Scanner \/ Collector \/ Fallback
  \/ PeerChanges \/ PeerCloses \/ RemoteChanges

Spec == Init /\ [][Next]_vars

\* Goroutines are scheduled, remote commands time out, TCP gives up on a peer that
\* is gone and the read deadline on one that is silent; a browser answers a close
\* frame.  A write to a stalled peer need not end, and nothing makes a command
\* write, read its input or exit.
FairSpec ==
  /\ Spec
  /\ WF_vars(Connect) /\ WF_vars(peer # "stalled" /\ FirstChart)
  /\ WF_vars(ReadError \/ Forward) /\ WF_vars(Pinger)
  /\ WF_vars(RelayReturns)
  /\ WF_vars(StdoutReceive) /\ WF_vars(peer # "stalled" /\ StdoutWrite)
  /\ WF_vars(~conn /\ StdoutWrite)
  /\ WF_vars((pc["copier"] = "send" \/ remote = "exited" \/ ~session) /\ Copier)
  /\ WF_vars(Waiter) /\ WF_vars(Stdin)
  /\ WF_vars(Sampled) /\ SF_vars(RangeReceived)
  /\ WF_vars(peer # "stalled" /\ LiveWrite)
  /\ WF_vars((pc["scanner"] = "send" \/ ~session) /\ Scanner)
  /\ WF_vars(Collector) /\ WF_vars(Fallback)
  /\ WF_vars(PeerCloses)

---------------------------------------------------------------------------
(* Properties.                                                             *)

\* Nobody sends on a channel that is closed, which would end the controller: the
\* waiter closes outCh after the last copy, the reader is inCh's only sender.
NoSendOnClosed ==
  /\ outClosed => pc["copier"] = "ended" /\ pc["waiter"] = "ended"
  /\ inClosed \/ rangeClosed => pc["reader"] = "ended"

\* What keeps goroutines after the browser has gone: a command that reads no input
\* while the console's reader has a keystroke to hand over; a range that the
\* reader of the statistics could not hand over before the handler returned; a
\* browser that keeps the connection and does not read the statistics.
Held ==
  \/ kind = "console" /\ remote = "stuck" /\ pc["reader"] = "send"
  \/ kind # "console" /\ pc["reader"] = "send" /\ range = 1
       /\ pc["handler"] = "ended"
  \/ kind # "console" /\ peer = "stalled"

\* Once the browser is gone or silent every goroutine of the session ends, but for
\* those cases.
EveryGoroutineEnds ==
  peer # "here" ~> (Held \/ \A g \in AllGoroutines : pc[g] = "ended")

\* When the command exits, the session ends: all output is passed on, the browser
\* is told, and the handler returns.
ExitEndsSession == (remote = "exited") ~> (pc["handler"] = "ended")

=============================================================================
