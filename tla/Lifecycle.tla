----------------------------- MODULE Lifecycle -----------------------------
(* The process from start to exit: run, serve and closeRuntime, against the     *)
(* goroutines they have to wait for: the token watcher and the usage syncer,    *)
(* HTTP and WebSocket handlers, the usage sink and its database.  Handlers are  *)
(* reduced to whether they run and record usage (Failover.tla has the rest), a  *)
(* tunnel to ending, or being stuck for ever (WsTunnel.tla), the sink to        *)
(* draining when stopped (UsageSink.tla).                                       *)
EXTENDS Naturals, FiniteSets

CONSTANTS
    Http, WebSockets,   \* requests the clients make
    Workers             \* runTokenWatcher, runUsageSyncer

ASSUME RequestsAssumption == Http \intersect WebSockets = {}

VARIABLES
    main,               \* where run() is
    signal,             \* SIGINT or SIGTERM came
    listener,           \* "up", "closed" by Shutdown, or "failed"
    graceOver,          \* Shutdown gave up after ten seconds
    shutdownDone,       \* Server.shutdownDone is closed
    workersStopped,     \* stopWorkers was called
    worker,             \* worker[w]: "idle", "busy" or "done"
    pc,                 \* pc[r]: the request's handler
    sink,               \* "running", "stopped" or "done"
    unsaved,            \* the sink holds records
    db,                 \* "open" or "closed"
    refused             \* requests whose record the stopped sink refused

mainVars == <<main, signal, listener, graceOver, shutdownDone, workersStopped>>
dataVars == <<sink, unsaved, db, refused>>
vars == <<mainVars, worker, pc, dataVars>>

Requests == Http \union WebSockets

Init ==
    /\ main = "starting" /\ signal = FALSE /\ listener = "up"
    /\ graceOver = FALSE /\ shutdownDone = FALSE /\ workersStopped = FALSE
    /\ worker = [w \in Workers |-> "idle"]
    /\ pc = [r \in Requests |-> "none"]
    /\ sink = "running" /\ unsaved = FALSE /\ db = "open" /\ refused = {}

Running == main # "exited"
At(r, label) == Running /\ pc[r] = label
Goto(r, label) == pc' = [pc EXCEPT ![r] = label]
Main(from, to) == main = from /\ main' = to

----------------------------------------------------------------------------
(* Handlers.                                                                    *)

Accept(r) ==
    /\ main = "serving"
    /\ listener = "up"
    /\ At(r, "none")
    /\ Goto(r, "accepted")
    /\ UNCHANGED <<mainVars, worker, dataVars>>

\* The header is read; handleWebSocket registers in websocketWG first of all.
Enter(r) ==
    /\ At(r, "accepted")
    /\ Goto(r, IF r \in WebSockets THEN "handshake" ELSE "active")
    /\ UNCHANGED <<mainVars, worker, dataVars>>

\* recordTokenUsage: what a stopped sink refuses is not even logged.
RecordTokenUsage(r) ==
    \/ /\ sink = "running"
       /\ unsaved' = TRUE
       /\ UNCHANGED <<sink, db, refused>>
    \/ /\ sink # "running"
       /\ refused' = refused \union {r}
       /\ UNCHANGED <<sink, unsaved, db>>

\* Upstream answered, and the stream to the client, if any, ended.
HttpEnds(r) ==
    /\ At(r, "active")
    /\ Goto(r, "done")
    /\ RecordTokenUsage(r) \/ UNCHANGED dataVars
    /\ UNCHANGED <<mainVars, worker>>

\* Upstream answered: 101, or anything else, which is passed on.
HandshakeEnds(r) ==
    /\ At(r, "handshake")
    /\ \/ Goto(r, "tunnel") /\ UNCHANGED dataVars
       \/ Goto(r, "done") /\ (RecordTokenUsage(r) \/ UNCHANGED dataVars)
    /\ UNCHANGED <<mainVars, worker>>

TunnelRecords(r) ==
    /\ At(r, "tunnel")
    /\ RecordTokenUsage(r)
    /\ UNCHANGED <<mainVars, worker, pc>>

TunnelEnds(r) ==
    /\ At(r, "tunnel")
    /\ Goto(r, "done")
    /\ UNCHANGED <<mainVars, worker, dataVars>>

\* The copy is blocked in a write to the capture's pipe, from which nobody reads
\* any more.  No cancellation and no closed connection ends this write.
TunnelSticks(r) ==
    /\ At(r, "tunnel")
    /\ Goto(r, "stuck")
    /\ UNCHANGED <<mainVars, worker, dataVars>>

\* Mutant: the tunnel does not listen to the shutdown.
NeverMustEnd == FALSE

\* afterSignal: tunnelCtx is cancelled.
MustEnd == shutdownDone

TunnelIsClosed(r) == MustEnd /\ TunnelEnds(r)

----------------------------------------------------------------------------
(* Background workers and the sink's goroutine.                                 *)

SetWorker(w, state) ==
    /\ Running
    /\ worker' = [worker EXCEPT ![w] = state]
    /\ UNCHANGED <<mainVars, pc, dataVars>>

\* A tick: files are scanned or usage is synced, and rows are re-keyed.
WorkerBegins(w) == main # "starting" /\ worker[w] = "idle" /\ SetWorker(w, "busy")
WorkerEnds(w) == worker[w] = "busy" /\ SetWorker(w, "idle")
WorkerStops(w) == worker[w] = "idle" /\ (signal \/ workersStopped) /\ SetWorker(w, "done")

SinkWrites ==
    /\ Running
    /\ unsaved
    /\ unsaved' = FALSE
    /\ UNCHANGED <<mainVars, worker, pc, sink, db, refused>>

SinkReturns ==
    /\ Running
    /\ sink = "stopped"
    /\ ~unsaved
    /\ sink' = "done"
    /\ UNCHANGED <<mainVars, worker, pc, unsaved, db, refused>>

----------------------------------------------------------------------------
(* serve.                                                                       *)

Signal ==
    /\ Running
    /\ ~signal
    /\ signal' = TRUE
    /\ UNCHANGED <<main, listener, graceOver, shutdownDone, workersStopped, worker, pc, dataVars>>

\* The usage sync at startup is over, workers and server are started.
Serve ==
    /\ Main("starting", "serving")
    /\ UNCHANGED <<signal, listener, graceOver, shutdownDone, workersStopped, worker, pc, dataVars>>

ListenerFails ==
    /\ main = "serving"
    /\ listener = "up"
    /\ listener' = "failed"
    /\ UNCHANGED <<main, signal, graceOver, shutdownDone, workersStopped, worker, pc, dataVars>>

ServeFails ==
    /\ listener = "failed"
    /\ Main("serving", "stopWorkers")
    /\ UNCHANGED <<signal, listener, graceOver, shutdownDone, workersStopped, worker, pc, dataVars>>

Shutdown ==
    /\ signal
    /\ Main("serving", "shutdown")
    /\ listener' = "closed"
    /\ UNCHANGED <<signal, graceOver, shutdownDone, workersStopped, worker, pc, dataVars>>

\* RegisterOnShutdown runs beginShutdown in a goroutine of its own.
OnShutdown ==
    /\ Running
    /\ listener = "closed"
    /\ ~shutdownDone
    /\ shutdownDone' = TRUE
    /\ UNCHANGED <<main, signal, listener, graceOver, workersStopped, worker, pc, dataVars>>

\* Mutant: Shutdown waits for no request that is being answered.
TrackedHeaders == {r \in Requests : pc[r] = "accepted"}

\* Connections Shutdown waits for; it does not know of hijacked ones.
Tracked == {r \in Requests : pc[r] \in {"accepted", "active", "handshake"}}

ShutdownEnds ==
    /\ Tracked = {}
    /\ Main("shutdown", "stopWorkers")
    /\ UNCHANGED <<signal, listener, graceOver, shutdownDone, workersStopped, worker, pc, dataVars>>

\* A header is read within five seconds, before the ten are over.
ShutdownTimesOut ==
    /\ \A r \in Tracked : pc[r] # "accepted"
    /\ Main("shutdown", "stopWorkers")
    /\ graceOver' = TRUE
    /\ UNCHANGED <<signal, listener, shutdownDone, workersStopped, worker, pc, dataVars>>

----------------------------------------------------------------------------
(* closeRuntime.                                                                *)

StopWorkers ==
    /\ Main("stopWorkers", "waitWorkers")
    /\ workersStopped' = TRUE
    /\ UNCHANGED <<signal, listener, graceOver, shutdownDone, worker, pc, dataVars>>

\* Mutant: workers are told to stop, but not waited for.
NoWorkerWait == TRUE

WorkersDone == \A w \in Workers : worker[w] = "done"

\* workerWG.Wait, then beginShutdown
WaitWorkers ==
    /\ WorkersDone
    /\ Main("waitWorkers", "waitWebSockets")
    /\ shutdownDone' = TRUE
    /\ UNCHANGED <<signal, listener, graceOver, workersStopped, worker, pc, dataVars>>

\* Mutant: the sink is stopped at once.
NoWebSocketWait == TRUE

WebSocketsDone == \A r \in WebSockets : pc[r] \notin {"handshake", "tunnel", "stuck"}

WaitWebSockets ==
    /\ WebSocketsDone
    /\ Main("waitWebSockets", "waitSink")
    /\ sink' = "stopped"
    /\ UNCHANGED <<signal, listener, graceOver, shutdownDone, workersStopped, worker, pc,
                   unsaved, db, refused>>

\* Mutant: Stop is taken to be enough.
NoSinkWait == TRUE

SinkDone == sink = "done"

WaitSink ==
    /\ SinkDone
    /\ Main("waitSink", "closeDB")
    /\ UNCHANGED <<signal, listener, graceOver, shutdownDone, workersStopped, worker, pc, dataVars>>

CloseDB ==
    /\ Main("closeDB", "exited")
    /\ db' = "closed"
    /\ UNCHANGED <<signal, listener, graceOver, shutdownDone, workersStopped, worker, pc,
                   sink, unsaved, refused>>

MainStep ==
    \/ Serve
    \/ ServeFails
    \/ Shutdown
    \/ ShutdownEnds
    \/ ShutdownTimesOut
    \/ StopWorkers
    \/ WaitWorkers
    \/ WaitWebSockets
    \/ WaitSink
    \/ CloseDB

Next ==
    \/ \E r \in Requests : \/ Accept(r) \/ Enter(r) \/ HttpEnds(r)
                           \/ HandshakeEnds(r) \/ TunnelRecords(r) \/ TunnelEnds(r)
                           \/ TunnelSticks(r)
    \/ \E w \in Workers : WorkerBegins(w) \/ WorkerEnds(w) \/ WorkerStops(w)
    \/ SinkWrites
    \/ SinkReturns
    \/ Signal
    \/ ListenerFails
    \/ OnShutdown
    \/ MainStep

\* Goroutines are scheduled, headers time out, a sync's requests do, a tunnel that
\* is not stuck ends when told to, and select takes the cancelled context sooner or
\* later.  Clients and upstream owe nothing, not even an answer to a handshake.
Fairness ==
    /\ WF_vars(MainStep)
    /\ WF_vars(OnShutdown)
    /\ SF_vars(SinkReturns) /\ WF_vars(SinkWrites)
    /\ \A r \in Requests : WF_vars(Enter(r)) /\ WF_vars(TunnelIsClosed(r))
    /\ \A w \in Workers : WF_vars(WorkerEnds(w)) /\ SF_vars(WorkerStops(w))

Spec == Init /\ [][Next]_vars /\ Fairness

----------------------------------------------------------------------------
\* The process does not exit, and the database is not closed, on records the
\* sink accepted and has not written.
AcceptedUsageSaved == main \in {"closeDB", "exited"} => ~unsaved

\* Usage a handler reports is refused by the stopped sink only if it is a plain
\* HTTP request that outlasted the ten seconds of Shutdown, or the listener broke
\* and nobody waited: a WebSocket, which Shutdown does not wait for, is drained.
WebSocketUsageKept == listener # "failed" => refused \intersect WebSockets = {}
HttpUsageKept == refused \intersect Http # {} => graceOver \/ listener = "failed"

\* Nothing that writes to the database outlives it: not a re-keying worker, nor
\* the sink, nor a WebSocket handler.
DatabaseClosedLast ==
    db = "closed" =>
        /\ \A w \in Workers : worker[w] = "done"
        /\ sink = "done"
        /\ listener # "failed" => \A r \in WebSockets : pc[r] \notin {"handshake", "tunnel", "stuck"}

\* Upstream has not answered the handshake (upstream.go:99 sets no deadline), or
\* the tunnel is stuck: what nothing in the process ends.
Hung(r) == pc[r] \in {"handshake", "stuck"}

\* main.go:225 "Signal received -- graceful shutdown": after a signal the process
\* exits, whatever clients do, or one WebSocket handler hangs for ever.  There is
\* nothing else it could wait for in vain: no request, worker, sink or tunnel.
ExitsAfterSignal ==
    signal ~> (main = "exited" \/ \E r \in WebSockets : []Hung(r))
=============================================================================
