------------------------------ MODULE WsTunnel ------------------------------
(* One WebSocket session after the upgrade: tunnelWebSocket copies in both      *)
(* directions until either ends, and websocketUsageCapture, which sees what the *)
(* client is sent, follows frames and fragmented messages and hands the text of *)
(* each message through an io.Pipe to a goroutine that decodes it as JSON.  The *)
(* copy, the decoder and the handler wait for each other; the request's end or  *)
(* the server's shutdown closes both connections under them.                    *)
(*                                                                              *)
(* A frame's payload is a piece of its message's text: "part" leaves the JSON   *)
(* value open, "end" completes it (or is where it turns out to be none) with    *)
(* nothing after it, "surplus" does so with bytes left that the decoder did not *)
(* read, "none" is empty.  Splitting a frame over several reads is the same as  *)
(* fragmenting its message.  Messages above 10 MB are left out.                 *)
EXTENDS Naturals, Sequences, FiniteSets

CONSTANTS
    Frames,             \* [op, fin, piece, content] upstream may send
    MaxFrames           \* bound: frames upstream sends

ASSUME FramesAssumption ==
    \A f \in Frames :
        /\ f.op \in {"text", "binary", "cont", "control"}
        /\ f.fin \in BOOLEAN
        /\ f.piece \in {"none", "part", "end", "surplus"}
        /\ f.content \in {"usage", "limit", "other"}
ASSUME BoundAssumption == MaxFrames \in Nat

VARIABLES
    conns,              \* connections not closed yet: "client", "upstream"
    cancelled,          \* tunnelCtx
    handler,            \* tunnelWebSocket: waits for the first or second copy
    up,                 \* copy from client to upstream
    down,               \* copy from upstream to client, with the capture in it
    frame,              \* frame the latter is at
    message,            \* messageOpcode: "none", "text" or "binary"
    content,            \* what the JSON of the text message amounts to
    body,               \* messageLimit: is the text so far a whole JSON value?
    decoder, outcome,   \* the decoding goroutine, and its result
    pipe,               \* the io.Pipe to it: a piece not fully read, or a state
    usages, limits,     \* calls of onUsage and of onLimit
    log                 \* history: frames the client was sent

tunnelVars == <<conns, cancelled, handler, up>>
textVars == <<content, body, decoder, outcome, pipe>>
captureVars == <<message, textVars, usages, limits>>
vars == <<tunnelVars, down, frame, captureVars, log>>

Both == {"client", "upstream"}
NoFrame == [op |-> "control", fin |-> TRUE, piece |-> "none", content |-> "other"]

Init ==
    /\ conns = Both /\ cancelled = FALSE /\ handler = "first" /\ up = "copy"
    /\ down = "read" /\ frame = NoFrame
    /\ message = "none" /\ content = "other" /\ body = "open"
    /\ decoder = "none" /\ outcome = "none" /\ pipe = "empty"
    /\ usages = 0 /\ limits = 0
    /\ log = <<>>

Goto(label) == down' = label

----------------------------------------------------------------------------
(* tunnelWebSocket.                                                             *)

\* The client disconnected, or the server shuts down.
Cancel ==
    /\ ~cancelled
    /\ cancelled' = TRUE
    /\ UNCHANGED <<conns, handler, up, down, frame, captureVars, log>>

\* Mutant: only the client's side is closed.
CloseClient == conns \ {"client"}

CloseBoth == {}

\* context.AfterFunc, unless the tunnel is over
CancelCloses ==
    /\ cancelled
    /\ handler # "returned"
    /\ conns # CloseBoth
    /\ conns' = CloseBoth
    /\ UNCHANGED <<cancelled, handler, up, down, frame, captureVars, log>>

FirstResult ==
    /\ handler = "first"
    /\ up = "done" \/ down = "done"
    /\ conns' = CloseBoth
    /\ handler' = "second"
    /\ UNCHANGED <<cancelled, up, down, frame, captureVars, log>>

BothDone == up = "done" /\ down = "done"

SecondResult ==
    /\ handler = "second"
    /\ BothDone
    /\ handler' = "returned"
    /\ UNCHANGED <<conns, cancelled, up, down, frame, captureVars, log>>

\* The client closes or breaks the protocol, or upstream stops reading for good.
UpEnds ==
    /\ up = "copy"
    /\ up' = "done"
    /\ UNCHANGED <<conns, cancelled, handler, down, frame, captureVars, log>>

UpFails == conns # Both /\ UpEnds

----------------------------------------------------------------------------
(* io.Copy from upstream to the client and, after it, to the capture.           *)

Receive ==
    /\ down = "read"
    /\ "upstream" \in conns
    /\ Len(log) < MaxFrames
    /\ frame' \in Frames
    /\ Goto("forward")
    /\ UNCHANGED <<tunnelVars, captureVars, log>>

\* Upstream ended the connection, or the proxy closed it.
DownEnds ==
    /\ down \in {"read", "forward"}
    /\ Goto("done")
    /\ UNCHANGED <<tunnelVars, frame, captureVars, log>>

DownFails ==
    /\ IF down = "read" THEN "upstream" \notin conns ELSE "client" \notin conns
    /\ DownEnds

Forward ==
    /\ down = "forward"
    /\ "client" \in conns
    /\ log' = Append(log, frame)
    /\ Goto("begin")
    /\ UNCHANGED <<tunnelVars, frame, captureVars>>

----------------------------------------------------------------------------
(* websocketUsageCapture.Write, on one frame.                                   *)

\* messageText is set, so its goroutine's result has not been received.
Capturing == decoder # "none"

\* resetUnexpectedMessage: Abort closes the pipe and waits for the goroutine.
AbortCloses ==
    /\ down = "begin"
    /\ frame.op \in {"text", "binary"}
    /\ Capturing
    /\ pipe' = "aborted"
    /\ Goto("abort")
    /\ UNCHANGED <<tunnelVars, frame, message, content, body, decoder, outcome, usages, limits, log>>

AbortReceives ==
    /\ down = "abort"
    /\ decoder = "returned"
    /\ decoder' = "none"
    /\ Goto("begin")
    /\ UNCHANGED <<tunnelVars, frame, message, content, body, outcome, pipe, usages, limits, log>>

BeginText ==
    /\ down = "begin"
    /\ frame.op = "text"
    /\ ~Capturing
    /\ message' = "text" /\ content' = frame.content /\ body' = "open"
    /\ decoder' = "reading" /\ outcome' = "none" /\ pipe' = "empty"
    /\ Goto("payload")
    /\ UNCHANGED <<tunnelVars, frame, usages, limits, log>>

BeginOther ==
    /\ down = "begin"
    /\ frame.op # "text"
    /\ frame.op = "binary" => ~Capturing
    /\ message' = IF frame.op = "binary" THEN "binary" ELSE message
    /\ Goto("payload")
    /\ UNCHANGED <<tunnelVars, frame, textVars, usages, limits, log>>

IsText == frame.op = "text" \/ (frame.op = "cont" /\ message = "text")

\* consumePayload: the write returns when the decoder has read all of it.
Payload ==
    /\ down = "payload"
    /\ IF IsText /\ frame.piece # "none"
       THEN pipe' = frame.piece /\ Goto("write")
       ELSE UNCHANGED pipe /\ Goto("finish")
    /\ UNCHANGED <<tunnelVars, frame, message, content, body, decoder, outcome, usages, limits, log>>

Written ==
    /\ down = "write"
    /\ pipe = "empty"
    /\ body' = IF frame.piece = "end" THEN "whole" ELSE body
    /\ Goto("finish")
    /\ UNCHANGED <<tunnelVars, frame, message, content, decoder, outcome, pipe, usages, limits, log>>

\* Mutant: a control frame between two fragments ends the message.
EndsAnyMessage == frame.fin

EndsMessage == frame.fin /\ frame.op # "control"

\* finishFrame, where no text message ends
FinishFrame ==
    /\ down = "finish"
    /\ ~(EndsMessage /\ message = "text")
    /\ message' = IF EndsMessage THEN "none" ELSE message
    /\ Goto("read")
    /\ UNCHANGED <<tunnelVars, frame, textVars, usages, limits, log>>

\* Mutant: every limit error is reported.
MarkEveryLimit == limits + 1

MarkLimit == IF limits = 0 THEN 1 ELSE limits

\* finishTextMessage, up to closing the pipe
FinishText ==
    /\ down = "finish"
    /\ EndsMessage
    /\ message = "text"
    /\ limits' = IF content = "limit" /\ body = "whole" THEN MarkLimit ELSE limits
    /\ pipe' = "closed"
    /\ Goto("result")
    /\ UNCHANGED <<tunnelVars, frame, message, content, body, decoder, outcome, usages, log>>

ResetMessage == message' = "none"

FinishReceives ==
    /\ down = "result"
    /\ decoder = "returned"
    /\ usages' = IF outcome = "usage" THEN usages + 1 ELSE usages
    /\ decoder' = "none"
    /\ ResetMessage
    /\ Goto("read")
    /\ UNCHANGED <<tunnelVars, frame, content, body, outcome, pipe, limits, log>>

----------------------------------------------------------------------------
(* The decoding goroutine: Decode reads on until the value is complete or known *)
(* to be malformed, or the pipe is closed; then nobody reads the pipe any more. *)

Decoder(to, result, left) ==
    /\ decoder = "reading"
    /\ decoder' = to /\ outcome' = result /\ pipe' = left
    /\ UNCHANGED <<tunnelVars, down, frame, message, content, body, usages, limits, log>>

DecoderReads == pipe = "part" /\ Decoder("reading", "none", "empty")
DecoderEnds == pipe = "end" /\ Decoder("returned", content, "empty")
DecoderLeaves == pipe = "surplus" /\ Decoder("returned", content, "surplus")
DecoderFails == pipe \in {"closed", "aborted"} /\ Decoder("returned", "error", pipe)

Capture ==
    \/ AbortCloses
    \/ AbortReceives
    \/ BeginText
    \/ BeginOther
    \/ Payload
    \/ Written
    \/ FinishFrame
    \/ FinishText
    \/ FinishReceives

Decode == DecoderReads \/ DecoderEnds \/ DecoderLeaves \/ DecoderFails

Proxy == CancelCloses \/ FirstResult \/ SecondResult \/ UpFails \/ DownFails \/ Capture \/ Decode

Next ==
    \/ Cancel
    \/ UpEnds
    \/ Receive
    \/ DownEnds
    \/ Forward
    \/ Proxy

\* Goroutines are scheduled, and reads and writes of a closed connection return.
\* The peers owe nothing: not to send, to read or to close.
Fairness ==
    /\ WF_vars(CancelCloses)
    /\ WF_vars(FirstResult)
    /\ WF_vars(SecondResult)
    /\ WF_vars(UpFails)
    /\ WF_vars(DownFails)
    /\ WF_vars(Capture)
    /\ WF_vars(Decode)

Spec == Init /\ [][Next]_vars /\ Fairness

----------------------------------------------------------------------------
(* The messages in what the client was sent, by the rules of RFC 6455.          *)
IsData(i) == log[i].op # "control"

\* Frame i starts a text message that frame j ends.
TextMessage(i, j) ==
    /\ log[i].op = "text" /\ IsData(j) /\ log[j].fin
    /\ \A k \in i + 1 .. j : log[k].op \in {"cont", "control"}
    /\ \A k \in i .. j - 1 : IsData(k) => ~log[k].fin

\* Where the text messages start that are whole and amount to c.
Whole(c) ==
    {i \in DOMAIN log : log[i].content = c /\
        \E j \in i .. Len(log) : TextMessage(i, j) /\
            \E k \in i .. j : IsData(k) /\ log[k].piece = "end"}

\* README.md:13 "Per-request token usage persistence": each response.completed
\* message the client was sent is reported once, also when it was fragmented and
\* control frames came between, and nothing else is: no broken-off message, no
\* binary one, none that is cut short.
UsageReportedPerMessage == down = "read" => usages = Cardinality(Whole("usage"))

\* A limit error among the messages is reported, once per connection: the
\* token's cooldown is not renewed by every further message.
LimitReportedOnce ==
    down = "read" => limits = (IF Whole("limit") = {} THEN 0 ELSE 1)

\* When tunnelWebSocket has returned, and its handler leaves websocketWG, neither
\* copy runs any more: no usage is recorded after shutdown stopped waiting.
QuietAfterReturn == handler = "returned" => up = "done" /\ down = "done" /\ conns = {}

\* The copy offers the decoder bytes it will never read: it returned already.
Stuck == down = "write" /\ decoder = "returned" /\ pipe # "empty"

\* Once the tunnel is cancelled or one direction ends, tunnelWebSocket returns,
\* unless the copy is stopped by bytes of a text message that its decoder had not
\* read when it returned.
TunnelEnds == cancelled \/ up = "done" \/ down = "done" ~> handler = "returned" \/ Stuck

\* README.md:101 "WebSocket requests are proxied": a frame the client was sent
\* does not hold up the ones behind it: the copy gets to the next read.
FramesKeepFlowing == down = "begin" ~> down \in {"read", "done"}
=============================================================================
