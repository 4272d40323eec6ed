--------------------------- MODULE StreamsProofs ---------------------------
(***************************************************************************)
(* No send on a closed channel, for every kind of session and every        *)
(* capacity.  The channels of a console are closed by the goroutine that   *)
(* sends last: the waiter, which waits for the copier, and the reader.     *)
(***************************************************************************)
EXTENDS Streams, TLAPS

\* The waiter comes to its message only after the last copy.
WaiterIsLast == pc["waiter"] = "send" => pc["copier"] = "ended"

\* Until the handler has started the goroutines no channel is closed, and neither
\* the waiter nor the reader is there.
NotStarted ==
  pc["handler"] \in {"connect", "chart"} =>
    /\ ~outClosed /\ ~inClosed /\ ~rangeClosed
    /\ pc["waiter"] = "ended" /\ pc["reader"] = "ended"

\* The inductive invariant.
StreamsInv ==
  /\ pc \in [AllGoroutines -> Labels]
  /\ NoSendOnClosed
  /\ WaiterIsLast
  /\ NotStarted

---------------------------------------------------------------------------
(* The goroutines.                                                         *)

\* Every goroutine of a session has a place in pc.
LEMMA Known ==
  /\ {"handler", "reader", "pinger", "stdout", "stdin", "copier", "waiter",
      "collector", "scanner", "fallback"} = AllGoroutines
  /\ \A k \in AllKinds : Goroutines(k) \subseteq AllGoroutines
<1>1. AllKinds = {"console", "server", "app"}
  BY DEF AllKinds
<1>2. /\ Goroutines("console") = {"handler", "reader", "pinger", "stdout", "stdin",
                                  "copier", "waiter"}
      /\ Goroutines("server") = {"handler", "reader", "pinger"}
      /\ Goroutines("app") = {"handler", "reader", "pinger", "collector", "scanner",
                              "fallback"}
  BY DEF Goroutines
<1>3. AllGoroutines = Goroutines("console") \cup Goroutines("server")
                        \cup Goroutines("app")
  BY <1>1 DEF AllGoroutines
<1> QED
  BY <1>1, <1>2, <1>3

\* Where a goroutine begins: none of them in the midst of a send.
LEMMA Beginnings ==
  /\ \A g \in AllGoroutines \ {"handler"} : Start(g) \in Labels
  /\ Start("waiter") = "wait"
BY Known DEF Start, Labels

---------------------------------------------------------------------------
(* What the steps do.                                                      *)

\* Starting the goroutines, while no channel is closed.
LEMMA StartsKeep ==
  ASSUME StreamsInv, pc["handler"] \in {"connect", "chart"}, Starts,
         UNCHANGED <<outClosed, inClosed, rangeClosed>>
  PROVE  StreamsInv'
<1>1. pc' \in [AllGoroutines -> Labels]
  <2>1. \A g \in AllGoroutines :
          (CASE g = "handler" -> "select"
             [] g \in Goroutines(kind) \ {"handler", "pinger"} -> Start(g)
             [] OTHER -> pc[g]) \in Labels
    BY Beginnings, Known DEF StreamsInv, Labels
  <2> QED
    BY <2>1 DEF Starts
<1>2. pc'["handler"] = "select"
  BY Known DEF Starts
<1>3. ~outClosed' /\ ~inClosed' /\ ~rangeClosed'
  BY DEF StreamsInv, NotStarted
<1>4. WaiterIsLast'
  <2>1. CASE pc'["waiter"] = Start("waiter")
    BY <2>1, Beginnings DEF WaiterIsLast
  <2>2. CASE pc'["waiter"] = pc["waiter"]
    BY <2>2 DEF StreamsInv, NotStarted, WaiterIsLast
  <2> QED
    BY <2>1, <2>2, Known DEF Starts
<1> QED
  BY <1>1, <1>2, <1>3, <1>4 DEF StreamsInv, NoSendOnClosed, NotStarted

\* A goroutine that neither sends on nor closes these channels moves.
LEMMA OthersKeep ==
  ASSUME StreamsInv,
         UNCHANGED <<outClosed, inClosed, rangeClosed>>,
         NEW g \in AllGoroutines \ {"waiter", "copier", "reader", "handler"},
         NEW label \in Labels, Goto(g, label)
  PROVE  StreamsInv'
BY Known DEF StreamsInv, NoSendOnClosed, WaiterIsLast, NotStarted, Goto

\* The handler goes on, once its goroutines have started.
LEMMA HandlerKeeps ==
  ASSUME StreamsInv,
         UNCHANGED <<outClosed, inClosed, rangeClosed>>,
         NEW label \in Labels \ {"connect", "chart"}, Goto("handler", label)
  PROVE  StreamsInv'
BY Known DEF StreamsInv, NoSendOnClosed, WaiterIsLast, NotStarted, Goto

\* The beginning of the session.
LEMMA BeginningKeeps ==
  ASSUME StreamsInv, Connect \/ FirstChart
  PROVE  StreamsInv'
<1>1. UNCHANGED <<outClosed, inClosed, rangeClosed>>
  BY DEF Connect, FirstChart, console, live
<1>2. CASE Starts
  BY <1>1, <1>2, StartsKeep DEF Connect, FirstChart, At
<1>3. CASE At("handler", "connect") /\ Goto("handler", "chart")
  BY <1>1, <1>3, Known
     DEF At, Goto, StreamsInv, NoSendOnClosed, WaiterIsLast, NotStarted, Labels
<1>4. CASE HandlerReturns
  BY <1>1, <1>4, HandlerKeeps DEF HandlerReturns, Labels
<1> QED
  BY <1>2, <1>3, <1>4 DEF Connect, FirstChart, OpenConsole, OpenStats

\* The reader closes inCh or rangeCh with its last step.
LEMMA ReaderKeeps ==
  ASSUME StreamsInv, Reader
  PROVE  StreamsInv'
<1> USE Known DEF StreamsInv, NoSendOnClosed, WaiterIsLast, NotStarted, At, Goto
<1>1. pc["reader"] # "ended" /\ UNCHANGED outClosed
  BY DEF Reader, ReadError, ReadMessage, Forward, console
<1>2. pc' \in [AllGoroutines -> Labels]
  BY DEF Reader, ReadError, ReadMessage, Forward, Labels
<1>3. \A g \in AllGoroutines \ {"reader"} : pc'[g] = pc[g]
  BY DEF Reader, ReadError, ReadMessage, Forward
<1>4. inClosed' \/ rangeClosed' => pc'["reader"] = "ended"
  BY <1>1 DEF Reader, ReadError, ReadMessage, Forward, console, live
<1>5. pc["handler"] \notin {"connect", "chart"}
  BY <1>1
<1> QED
  BY <1>1, <1>2, <1>3, <1>4, <1>5

\* The waiter closes outCh after its message, when the copier has ended.
LEMMA WaiterKeeps ==
  ASSUME StreamsInv, Waiter
  PROVE  StreamsInv'
<1> USE Known DEF StreamsInv, NoSendOnClosed, WaiterIsLast, NotStarted, At, Goto
<1>1. pc["waiter"] # "ended" /\ UNCHANGED <<inClosed, rangeClosed>>
  BY DEF Waiter, live
<1>2. pc' \in [AllGoroutines -> Labels]
  BY DEF Waiter, Labels
<1>3. \A g \in AllGoroutines \ {"waiter"} : pc'[g] = pc[g]
  BY DEF Waiter
<1>4. CASE At("waiter", "wait") /\ OutputDrained /\ Goto("waiter", "send")
           /\ UNCHANGED outClosed
  BY <1>1, <1>2, <1>3, <1>4 DEF OutputDrained
<1>5. CASE At("waiter", "send") /\ Goto("waiter", "ended")
  BY <1>1, <1>2, <1>3, <1>5
<1> QED
  BY <1>4, <1>5 DEF Waiter

\* The copier, which sends on outCh, moves only while it is open.
LEMMA CopierKeeps ==
  ASSUME StreamsInv, Copier
  PROVE  StreamsInv'
<1> USE Known DEF StreamsInv, NoSendOnClosed, WaiterIsLast, NotStarted, At, Goto
<1>1. pc["copier"] # "ended" /\ UNCHANGED <<outClosed, inClosed, rangeClosed>>
  BY DEF Copier, live
<1>2. pc' \in [AllGoroutines -> Labels]
  BY DEF Copier, Labels
<1>3. \A g \in AllGoroutines \ {"copier"} : pc'[g] = pc[g]
  BY DEF Copier
<1> QED
  BY <1>1, <1>2, <1>3

\* The handlers' own steps.
LEMMA HandlersKeep ==
  ASSUME StreamsInv,
         RelayReturns \/ Tick \/ Sampled \/ RangeReceived \/ LiveWrite
  PROVE  StreamsInv'
<1>1. UNCHANGED <<outClosed, inClosed, rangeClosed>>
  BY DEF RelayReturns, Tick, Sampled, RangeReceived, LiveWrite, console, live
<1>2. \E label \in Labels \ {"connect", "chart"} : Goto("handler", label)
  BY DEF RelayReturns, Tick, Sampled, RangeReceived, LiveWrite, HandlerReturns, Labels
<1> QED
  BY <1>1, <1>2, HandlerKeeps

\* The goroutines that only receive, and those of the statistics.
LEMMA ReceiversKeep ==
  ASSUME StreamsInv, UNCHANGED <<outClosed, inClosed, rangeClosed>>,
         \E g \in AllGoroutines \ {"waiter", "copier", "reader", "handler"} :
           \E label \in Labels : Goto(g, label)
  PROVE  StreamsInv'
BY OthersKeep

\* A step that leaves the goroutines where they are.
LEMMA IdleKeeps ==
  ASSUME StreamsInv, UNCHANGED <<pc, outClosed, inClosed, rangeClosed>>
  PROVE  StreamsInv'
BY DEF StreamsInv, NoSendOnClosed, WaiterIsLast, NotStarted

---------------------------------------------------------------------------
(* The induction.                                                          *)

\* Every step keeps the invariant.
LEMMA StreamsStep == StreamsInv /\ [Next]_vars => StreamsInv'
<1> SUFFICES ASSUME StreamsInv, [Next]_vars PROVE StreamsInv'
  OBVIOUS
<1>1. CASE Connect \/ FirstChart
  BY <1>1, BeginningKeeps
<1>2. CASE Reader
  BY <1>2, ReaderKeeps
<1>3. CASE Waiter
  BY <1>3, WaiterKeeps
<1>4. CASE Copier
  BY <1>4, CopierKeeps
<1>5. CASE RelayReturns \/ Tick \/ Sampled \/ RangeReceived \/ LiveWrite
  BY <1>5, HandlersKeep
<1>6. CASE Pinger
  BY <1>6, ReceiversKeep, Known DEF Pinger, console, live, Labels
<1>7. CASE StdoutReceive
  <2>1. \E label \in Labels : Goto("stdout", label)
    BY <1>7 DEF StdoutReceive, Labels
  <2> QED
    BY <1>7, <2>1, ReceiversKeep, Known DEF StdoutReceive, live
<1>8. CASE StdoutWrite
  <2>1. \E label \in Labels : Goto("stdout", label)
    BY <1>8 DEF StdoutWrite, AfterWriteError, Labels
  <2> QED
    BY <1>8, <2>1, ReceiversKeep, Known DEF StdoutWrite, live
<1>9. CASE Stdin
  <2>1. \E label \in Labels : Goto("stdin", label)
    BY <1>9 DEF Stdin, Labels
  <2> QED
    BY <1>9, <2>1, ReceiversKeep, Known DEF Stdin, live
<1>10. CASE Scanner
  <2>1. \E label \in Labels : Goto("scanner", label)
    BY <1>10 DEF Scanner, Labels
  <2> QED
    BY <1>10, <2>1, ReceiversKeep, Known DEF Scanner, console
<1>11. CASE Collector
  <2>1. UNCHANGED <<outClosed, inClosed, rangeClosed>>
    BY <1>11 DEF Collector, console
  <2>2. CASE \E label \in Labels : Goto("collector", label)
    BY <2>1, <2>2, ReceiversKeep, Known
  <2>3. CASE pc' = [pc EXCEPT !["collector"] = "stream", !["scanner"] = "read"]
    BY <2>1, <2>3, Known
       DEF StreamsInv, NoSendOnClosed, WaiterIsLast, NotStarted, Labels
  <2>4. CASE UNCHANGED pc
    BY <2>1, <2>4, IdleKeeps
  <2> QED
    BY <1>11, <2>2, <2>3, <2>4 DEF Collector, AfterStream, Labels
<1>12. CASE Fallback
  <2>1. UNCHANGED <<outClosed, inClosed, rangeClosed>>
    BY <1>12 DEF Fallback, console
  <2>2. CASE \E label \in Labels : Goto("fallback", label)
    BY <2>1, <2>2, ReceiversKeep, Known
  <2>3. CASE UNCHANGED pc
    BY <2>1, <2>3, IdleKeeps
  <2> QED
    BY <1>12, <2>2, <2>3 DEF Fallback, Labels
<1>13. CASE SnapReceived
  BY <1>13, IdleKeeps DEF SnapReceived, console
<1>14. CASE PeerChanges \/ PeerCloses \/ RemoteChanges
  BY <1>14, IdleKeeps DEF PeerChanges, PeerCloses, RemoteChanges, console, live
<1>15. CASE UNCHANGED vars
  BY <1>15, IdleKeeps DEF vars, console, live
<1> QED
  BY <1>1, <1>2, <1>3, <1>4, <1>5, <1>6, <1>7, <1>8, <1>9, <1>10, <1>11, <1>12,
     <1>13, <1>14, <1>15 DEF Next

\* It holds before the first connection.
LEMMA StreamsStart == Init => StreamsInv
<1> SUFFICES ASSUME Init PROVE StreamsInv
  OBVIOUS
<1>1. pc \in [AllGoroutines -> Labels]
  BY Known, Beginnings DEF Init, Labels
<1>2. pc["waiter"] = "ended" /\ pc["reader"] = "ended"
  BY Known DEF Init
<1> QED
  BY <1>1, <1>2 DEF Init, StreamsInv, NoSendOnClosed, WaiterIsLast, NotStarted

\* Nobody sends on a channel that has been closed, in a session of any kind and
\* with channels of any capacity, whenever the browser leaves, the command exits
\* or the context is cancelled.
THEOREM NeverSendsOnClosed == Spec => []NoSendOnClosed
<1>1. StreamsInv => NoSendOnClosed
  BY DEF StreamsInv
<1> QED
  BY <1>1, StreamsStart, StreamsStep, PTL DEF Spec

============================================================================
