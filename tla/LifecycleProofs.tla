-------------------------- MODULE LifecycleProofs --------------------------
(* Proofs about Lifecycle, for any numbers of requests and workers: what holds  *)
(* at a stage of main because of the stages before it.                          *)
EXTENDS Lifecycle, TLAPS

TypeOK ==
    /\ main \in {"starting", "serving", "shutdown", "stopWorkers", "waitWorkers",
                 "waitWebSockets", "waitSink", "closeDB", "exited"}
    /\ listener \in {"up", "closed", "failed"}
    /\ signal \in BOOLEAN /\ graceOver \in BOOLEAN /\ shutdownDone \in BOOLEAN
    /\ workersStopped \in BOOLEAN
    /\ worker \in [Workers -> {"idle", "busy", "done"}]
    /\ pc \in [Requests -> {"none", "accepted", "active", "handshake", "tunnel", "stuck", "done"}]
    /\ sink \in {"running", "stopped", "done"} /\ unsaved \in BOOLEAN
    /\ db \in {"open", "closed"}
    /\ refused \subseteq Requests

Closing == {"stopWorkers", "waitWorkers", "waitWebSockets", "waitSink", "closeDB", "exited"}
SinkStopped == {"waitSink", "closeDB", "exited"}

\* The sink and the database follow main, nothing is refused while the sink runs,
\* and a worker does not come back once main has seen it done.
Stages ==
    /\ main \in {"waitWebSockets"} \union SinkStopped => WorkersDone
    /\ sink # "running" <=> main \in SinkStopped
    /\ main \in {"closeDB", "exited"} => sink = "done"
    /\ sink = "done" => ~unsaved
    /\ main \notin SinkStopped => refused = {}
    /\ db = "closed" <=> main = "exited"

\* Only WebSockets are upgraded; Shutdown leaves no request whose header is not
\* read, and none at all unless its ten seconds ran out; no tunnel is left when
\* the sink is stopped.
Handlers ==
    /\ \A r \in Requests : pc[r] = "active" => r \in Http
    /\ \A r \in Requests : pc[r] \in {"handshake", "tunnel", "stuck"} => r \in WebSockets
    /\ main \in {"shutdown"} \union Closing => listener # "up"
    /\ listener # "failed" /\ main \in Closing => \A r \in Requests : pc[r] # "accepted"
    /\ listener # "failed" /\ main \in Closing /\ ~graceOver => Tracked = {}
    /\ listener # "failed" /\ main \in SinkStopped => WebSocketsDone

IInv == TypeOK /\ Stages /\ Handlers /\ WebSocketUsageKept /\ HttpUsageKept

LEMMA InitInv == Init => IInv
  BY RequestsAssumption DEF Init, IInv, TypeOK, Stages, Handlers, WebSocketUsageKept, HttpUsageKept,
     Closing, SinkStopped, Requests, WorkersDone, Tracked, WebSocketsDone

----------------------------------------------------------------------------
(* One step at a time.                                                          *)

LEMMA Unchanged == IInv /\ UNCHANGED vars => IInv'
  BY DEF vars, mainVars, dataVars, IInv, TypeOK, Stages, Handlers, WebSocketUsageKept, HttpUsageKept,
     Requests, WorkersDone, Tracked, WebSocketsDone

\* A request's handler: it records while the sink runs, or is one that Shutdown
\* or a failed listener left behind.
LEMMA HandlerStep ==
    ASSUME IInv, NEW r \in Requests,
           \/ Accept(r)
           \/ Enter(r)
           \/ HttpEnds(r)
           \/ HandshakeEnds(r)
           \/ TunnelRecords(r)
           \/ TunnelEnds(r)
           \/ TunnelSticks(r)
    PROVE  IInv'
<1> USE DEF At, Goto, mainVars, dataVars
<1>1. /\ UNCHANGED <<mainVars, worker, db>>
      /\ pc' \in [Requests -> {"none", "accepted", "active", "handshake", "tunnel", "stuck", "done"}]
  BY DEF IInv, TypeOK, Accept, Enter, HttpEnds, HandshakeEnds, TunnelRecords, TunnelEnds, TunnelSticks,
     RecordTokenUsage
<1>2. RecordTokenUsage(r) \/ UNCHANGED dataVars
  BY DEF Accept, Enter, HttpEnds, HandshakeEnds, TunnelRecords, TunnelEnds, TunnelSticks
<1>3. TypeOK'
  <2>1. unsaved' \in BOOLEAN /\ sink' = sink /\ refused' \subseteq Requests
    BY <1>2 DEF IInv, TypeOK, RecordTokenUsage
  <2> QED BY <1>1, <2>1 DEF IInv, TypeOK
<1>4. Stages'
  BY <1>1, <1>2 DEF IInv, TypeOK, Stages, RecordTokenUsage, WorkersDone, SinkStopped
<1>5. Handlers'
  <2>1. \A q \in Requests \ {r} : pc'[q] = pc[q]
    BY DEF IInv, TypeOK, Accept, Enter, HttpEnds, HandshakeEnds, TunnelRecords, TunnelEnds, TunnelSticks
  <2>2. CASE Accept(r)
    BY <1>1, <2>1, <2>2 DEF Accept, IInv, TypeOK, Handlers, Closing, SinkStopped, Tracked,
       WebSocketsDone, Requests
  <2>3. CASE Enter(r)
    BY <1>1, <2>1, <2>3 DEF Enter, IInv, TypeOK, Handlers, Closing, SinkStopped, Tracked,
       WebSocketsDone, Requests
  <2>4. CASE HttpEnds(r)
    BY <1>1, <2>1, <2>4 DEF HttpEnds, IInv, TypeOK, Handlers, Closing, SinkStopped, Tracked,
       WebSocketsDone, Requests
  <2>5. CASE HandshakeEnds(r)
    BY <1>1, <2>1, <2>5 DEF HandshakeEnds, IInv, TypeOK, Handlers, Closing, SinkStopped, Tracked,
       WebSocketsDone, Requests
  <2>6. CASE TunnelRecords(r) \/ TunnelEnds(r) \/ TunnelSticks(r)
    BY <1>1, <2>1, <2>6 DEF TunnelRecords, TunnelEnds, TunnelSticks, IInv, TypeOK, Handlers, Closing,
       SinkStopped, Tracked, WebSocketsDone, Requests
  <2> QED BY <2>2, <2>3, <2>4, <2>5, <2>6
<1>6. WebSocketUsageKept' /\ HttpUsageKept'
  <2>1. CASE refused' = refused
    BY <1>1, <2>1 DEF IInv, WebSocketUsageKept, HttpUsageKept
  <2>2. CASE refused' # refused
    <3>1. refused' = refused \union {r} /\ main \in SinkStopped /\ main \in Closing
      BY <1>2, <2>2 DEF RecordTokenUsage, IInv, Stages, SinkStopped, Closing
    <3>2. pc[r] \in {"active", "handshake", "tunnel"}
      BY <2>2 DEF Accept, Enter, HttpEnds, HandshakeEnds, TunnelRecords, TunnelEnds, TunnelSticks
    <3>3. CASE pc[r] = "active"
      <4>1. r \in Http /\ r \notin WebSockets /\ r \in Tracked
        BY <3>3, RequestsAssumption DEF IInv, Handlers, Tracked
      <4> QED BY <1>1, <3>1, <4>1 DEF IInv, Handlers, WebSocketUsageKept, HttpUsageKept
    <3>4. CASE pc[r] \in {"handshake", "tunnel"}
      <4>1. r \in WebSockets /\ r \notin Http
        BY <3>4, RequestsAssumption DEF IInv, Handlers
      <4>2. listener = "failed"
        BY <3>1, <3>4, <4>1 DEF IInv, Handlers, WebSocketsDone
      <4> QED BY <1>1, <3>1, <4>1, <4>2 DEF IInv, WebSocketUsageKept, HttpUsageKept
    <3> QED BY <3>2, <3>3, <3>4
  <2> QED BY <2>1, <2>2
<1> QED BY <1>3, <1>4, <1>5, <1>6 DEF IInv

\* Workers, the sink's goroutine, the signal and the listener.
LEMMA OtherStep ==
    ASSUME IInv,
           \/ \E w \in Workers : WorkerBegins(w) \/ WorkerEnds(w) \/ WorkerStops(w)
           \/ SinkWrites
           \/ SinkReturns
           \/ Signal
           \/ ListenerFails
           \/ OnShutdown
    PROVE  IInv'
<1> USE DEF mainVars, dataVars
<1>1. ASSUME NEW w \in Workers, WorkerBegins(w) \/ WorkerEnds(w) \/ WorkerStops(w)
      PROVE  IInv'
  <2>1. UNCHANGED <<mainVars, pc, dataVars>> /\ worker[w] # "done"
    BY <1>1 DEF WorkerBegins, WorkerEnds, WorkerStops, SetWorker
  <2>2. worker' \in [Workers -> {"idle", "busy", "done"}]
    BY <1>1 DEF WorkerBegins, WorkerEnds, WorkerStops, SetWorker, IInv, TypeOK
  <2>3. TypeOK'
    BY <2>1, <2>2 DEF IInv, TypeOK
  <2>4. Stages'
    BY <2>1 DEF IInv, Stages, WorkersDone
  <2>5. Handlers' /\ WebSocketUsageKept' /\ HttpUsageKept'
    BY <2>1 DEF IInv, Handlers, WebSocketUsageKept, HttpUsageKept, Tracked, WebSocketsDone
  <2> QED BY <2>3, <2>4, <2>5 DEF IInv
<1>2. CASE SinkWrites \/ SinkReturns \/ Signal \/ OnShutdown
  <2>1. UNCHANGED <<main, listener, graceOver, worker, pc, db, refused>>
    BY <1>2 DEF SinkWrites, SinkReturns, Signal, OnShutdown
  <2>2. TypeOK'
    <3>1. /\ workersStopped' = workersStopped
          /\ sink' \in {sink, "done"}
      BY <1>2 DEF SinkWrites, SinkReturns, Signal, OnShutdown
    <3>2. signal' = signal \/ signal' = TRUE
      BY <1>2 DEF SinkWrites, SinkReturns, Signal, OnShutdown
    <3>3. shutdownDone' = shutdownDone \/ shutdownDone' = TRUE
      BY <1>2 DEF SinkWrites, SinkReturns, Signal, OnShutdown
    <3>4. unsaved' = unsaved \/ unsaved' = FALSE
      BY <1>2 DEF SinkWrites, SinkReturns, Signal, OnShutdown
    <3>5. signal' \in BOOLEAN /\ shutdownDone' \in BOOLEAN /\ unsaved' \in BOOLEAN
      BY <3>2, <3>3, <3>4, Zenon DEF IInv, TypeOK
    <3> QED BY <2>1, <3>1, <3>5 DEF IInv, TypeOK
  <2>3. Stages'
    BY <1>2, <2>1 DEF SinkWrites, SinkReturns, Signal, OnShutdown, IInv, TypeOK, Stages, WorkersDone,
       SinkStopped
  <2>4. Handlers' /\ WebSocketUsageKept' /\ HttpUsageKept'
    BY <2>1 DEF IInv, Handlers, WebSocketUsageKept, HttpUsageKept, Tracked, WebSocketsDone
  <2> QED BY <2>2, <2>3, <2>4 DEF IInv
<1>3. CASE ListenerFails
  <2>1. UNCHANGED <<main, graceOver, worker, pc, dataVars>> /\ main = "serving" /\ listener' = "failed"
    BY <1>3 DEF ListenerFails
  <2>2. TypeOK'
    BY <1>3 DEF ListenerFails, IInv, TypeOK
  <2>3. Stages'
    BY <2>1 DEF IInv, Stages, WorkersDone
  <2>4. Handlers' /\ WebSocketUsageKept' /\ HttpUsageKept'
    BY <2>1 DEF IInv, Handlers, WebSocketUsageKept, HttpUsageKept, Closing, SinkStopped
  <2> QED BY <2>2, <2>3, <2>4 DEF IInv
<1> QED BY <1>1, <1>2, <1>3

\* Each stage of main passes on what the ones before it have brought about.
LEMMA StageStep ==
    ASSUME IInv, MainStep
    PROVE  IInv'
<1> USE DEF mainVars, dataVars, IInv, TypeOK, Main
<1>0. /\ UNCHANGED <<worker, pc, unsaved, refused>>
      /\ graceOver => graceOver'
      /\ main \notin SinkStopped \/ UNCHANGED <<listener, graceOver>>
      /\ main \in SinkStopped => main' \in SinkStopped
  BY DEF MainStep, Serve, ServeFails, Shutdown, ShutdownEnds, ShutdownTimesOut, StopWorkers,
     WaitWorkers, WaitWebSockets, WaitSink, CloseDB, SinkStopped
<1>1. TypeOK'
  <2>1. main' \in {"serving", "shutdown"} \union Closing
    BY DEF MainStep, Serve, ServeFails, Shutdown, ShutdownEnds, ShutdownTimesOut, StopWorkers,
       WaitWorkers, WaitWebSockets, WaitSink, CloseDB, Closing
  <2>2. signal' = signal /\ listener' \in {listener, "closed"}
    BY DEF MainStep, Serve, ServeFails, Shutdown, ShutdownEnds, ShutdownTimesOut, StopWorkers,
       WaitWorkers, WaitWebSockets, WaitSink, CloseDB
  <2>3. graceOver' \in BOOLEAN /\ shutdownDone' \in BOOLEAN /\ workersStopped' \in BOOLEAN
    <3>1. graceOver' = graceOver \/ graceOver' = TRUE
      BY DEF MainStep, Serve, ServeFails, Shutdown, ShutdownEnds, ShutdownTimesOut, StopWorkers,
       WaitWorkers, WaitWebSockets, WaitSink, CloseDB
    <3>2. shutdownDone' = shutdownDone \/ shutdownDone' = TRUE
      BY DEF MainStep, Serve, ServeFails, Shutdown, ShutdownEnds, ShutdownTimesOut, StopWorkers,
       WaitWorkers, WaitWebSockets, WaitSink, CloseDB
    <3>3. workersStopped' = workersStopped \/ workersStopped' = TRUE
      BY DEF MainStep, Serve, ServeFails, Shutdown, ShutdownEnds, ShutdownTimesOut, StopWorkers,
       WaitWorkers, WaitWebSockets, WaitSink, CloseDB
    <3> QED BY <3>1, <3>2, <3>3, Zenon
  <2>4. sink' \in {sink, "stopped"} /\ db' \in {db, "closed"}
    BY DEF MainStep, Serve, ServeFails, Shutdown, ShutdownEnds, ShutdownTimesOut, StopWorkers,
       WaitWorkers, WaitWebSockets, WaitSink, CloseDB
  <2> QED BY <1>0, <2>1, <2>2, <2>3, <2>4 DEF Closing
<1>2. Stages'
  BY <1>0 DEF MainStep, Serve, ServeFails, Shutdown, ShutdownEnds, ShutdownTimesOut, StopWorkers,
     WaitWorkers, WaitWebSockets, WaitSink, CloseDB, WorkersDone, SinkDone, Stages, SinkStopped
<1>3. WebSocketUsageKept' /\ HttpUsageKept'
  <2>1. CASE main \in SinkStopped
    BY <1>0, <2>1 DEF WebSocketUsageKept, HttpUsageKept
  <2>2. CASE main \notin SinkStopped
    BY <1>0, <2>2 DEF WebSocketUsageKept, HttpUsageKept, Stages
  <2> QED BY <2>1, <2>2
<1>4. Handlers'
  <2>1. CASE Serve \/ Shutdown
    BY <1>0, <2>1 DEF Serve, Shutdown, Handlers, Closing, SinkStopped, Tracked, WebSocketsDone, Requests
  <2>2. CASE ServeFails
    BY <1>0, <2>2 DEF ServeFails, Handlers, Closing, SinkStopped, Tracked, WebSocketsDone, Requests
  <2>3. CASE ShutdownEnds \/ ShutdownTimesOut
    <3>1. /\ listener' = listener /\ main' \in Closing /\ main' \notin SinkStopped
      BY <2>3 DEF ShutdownEnds, ShutdownTimesOut, Closing, SinkStopped
    <3>2. \A r \in Requests : pc[r] # "accepted"
      BY <2>3 DEF ShutdownEnds, ShutdownTimesOut, Tracked
    <3>3. graceOver' \/ Tracked = {}
      BY <2>3 DEF ShutdownEnds, ShutdownTimesOut
    <3>4. Tracked' = Tracked
      BY <1>0 DEF Tracked
    <3>5. ~graceOver' => Tracked' = {}
      BY <3>3, <3>4
    <3>6. /\ \A r \in Requests : pc'[r] = "active" => r \in Http
          /\ \A r \in Requests : pc'[r] \in {"handshake", "tunnel", "stuck"} => r \in WebSockets
          /\ \A r \in Requests : pc'[r] # "accepted"
      BY <1>0, <3>2 DEF Handlers
    <3>7. listener' # "up"
      BY <2>3, <3>1 DEF Handlers, ShutdownEnds, ShutdownTimesOut
    <3> QED BY <3>1, <3>5, <3>6, <3>7 DEF Handlers
  <2>5. CASE StopWorkers \/ WaitWorkers \/ WaitWebSockets \/ WaitSink \/ CloseDB
    <3>1. UNCHANGED <<listener, graceOver>> /\ main \in Closing /\ main' \in Closing
      BY <2>5 DEF StopWorkers, WaitWorkers, WaitWebSockets, WaitSink, CloseDB, Closing
    <3>2. main' \in SinkStopped => main \in SinkStopped \/ WebSocketsDone
      BY <2>5 DEF StopWorkers, WaitWorkers, WaitWebSockets, WaitSink, CloseDB, SinkStopped
    <3>3. Tracked' = Tracked /\ WebSocketsDone' = WebSocketsDone
      BY <1>0 DEF Tracked, WebSocketsDone
    <3> QED BY <1>0, <3>1, <3>2, <3>3 DEF Handlers
  <2> QED BY <2>1, <2>2, <2>3, <2>5 DEF MainStep
<1> QED BY <1>1, <1>2, <1>3, <1>4

LEMMA Invariance == Spec => []IInv
<1>1. IInv /\ [Next]_vars => IInv'
  BY Unchanged, HandlerStep, OtherStep, StageStep DEF Next
<1> QED BY <1>1, InitInv, PTL DEF Spec

----------------------------------------------------------------------------
\* What the sink accepted is in the database when it is closed and the process
\* exits.
THEOREM UsageSavedAtExit == Spec => []AcceptedUsageSaved
<1>1. IInv => AcceptedUsageSaved
  BY DEF IInv, Stages, AcceptedUsageSaved
<1> QED BY <1>1, Invariance, PTL

\* The sink refuses nothing a WebSocket reports, unless the listener failed and
\* main did not wait for the WebSockets.
THEOREM WebSocketUsageSaved == Spec => []WebSocketUsageKept
<1>1. IInv => WebSocketUsageKept
  BY DEF IInv
<1> QED BY <1>1, Invariance, PTL

\* It refuses a plain request's usage only if Shutdown gave up on the request or
\* the listener failed.
THEOREM HttpUsageSaved == Spec => []HttpUsageKept
<1>1. IInv => HttpUsageKept
  BY DEF IInv
<1> QED BY <1>1, Invariance, PTL

\* Neither a worker nor the sink nor a WebSocket handler outlives the database.
THEOREM DatabaseOutlives == Spec => []DatabaseClosedLast
<1>1. IInv => DatabaseClosedLast
  BY DEF IInv, Stages, Handlers, SinkStopped, WorkersDone, WebSocketsDone, DatabaseClosedLast
<1> QED BY <1>1, Invariance, PTL
=============================================================================
