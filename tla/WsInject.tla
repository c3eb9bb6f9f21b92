------------------------------ MODULE WsInject ------------------------------
(* copyWebsocketClientToUpstream (websocket_transform.go): the client's frames  *)
(* on their way upstream.  On a /responses connection text messages are put     *)
(* together from their fragments, so that the tool injection can read them, and *)
(* leave as one frame; everything else is passed on frame by frame.             *)
(*                                                                              *)
(* A payload is a sequence of pieces of a number of bytes each, and the mark    *)
(* that the injection changed the request they make.  Frames are read and       *)
(* written as FrameCodec has it.                                                *)
EXTENDS ToolInjection, FrameCodec

CONSTANTS
    Frames,             \* what a client may send
    MaxBytes,           \* defaultMaxRequestBody
    MaxFrames,          \* bound on the frames of a run
    PlanType,           \* of the connection's token
    Decode(_)           \* the request a payload is, as ToolInjection has it

ASSUME FramesAssumption ==
    Frames \subseteq [op : {"text", "cont", "binary", "ping", "close"},
                      fin : BOOLEAN, rsv : BOOLEAN, payload : Seq(STRING)]
ASSUME BoundsAssumption ==
    /\ MaxBytes \in Nat /\ MaxBytes >= 125 /\ MaxFrames \in Nat /\ ToolSize \in Nat
    /\ FitsUint64(MaxBytes + ToolSize)
ASSUME SizesAssumption ==
    \A f \in Frames :
        /\ \A i \in DOMAIN f.payload : Size(f.payload[i]) \in Nat
        /\ FitsUint64(Bytes(f.payload))

VARIABLES
    injecting,          \* injectResponseTools: the path is /responses
    copy,               \* "running", "closed" (a close frame was passed on), "failed"
    bufferingText,
    textFragments,
    sent,               \* the frames read from the client
    out                 \* what was written to upstream, as wires

vars == <<injecting, copy, bufferingText, textFragments, sent, out>>

Init ==
    /\ injecting \in BOOLEAN
    /\ copy = "running"
    /\ bufferingText = FALSE
    /\ textFragments = <<>>
    /\ sent = <<>>
    /\ out = <<>>

----------------------------------------------------------------------------
Frame(f, tool) ==
    [op |-> f.op, fin |-> f.fin, rsv |-> f.rsv, text |-> [pieces |-> f.payload, tool |-> tool]]

\* What the client writes for a frame, with a mask as clients must.
FromClient == [f \in Frames |-> buildProxyWebsocketFrame(Frame(f, FALSE), "client")]

Arriving == [f \in Frames |-> readProxyWebsocketFrame(FromClient[f])]

Write(wire) == out' = Append(out, wire)

\* writeProxyWebsocketFrame, with a mask of its own
PassOn(f) ==
    Write(buildProxyWebsocketFrame(f, "proxy")) /\ UNCHANGED <<bufferingText, textFragments>>

\* injectWebsocketTextMessage
Changes(payload) == injectResponseTools(Decode(payload), PlanType) # Decode(payload)

\* writeToolInjectedTextFrame: always one final text frame.
WriteInjected(payload) ==
    Write(buildProxyWebsocketFrame(
            [op |-> "text", fin |-> TRUE, rsv |-> FALSE,
             text |-> [pieces |-> payload, tool |-> Changes(payload)]], "proxy"))

Keep(state) == copy' = state /\ UNCHANGED injecting

Fail == Keep("failed") /\ UNCHANGED <<out, bufferingText, textFragments>>

\* appendWebsocketTextFragment
Fits(fragments) == Bytes(fragments) <= MaxBytes

Buffer(fragments) ==
    /\ bufferingText' = TRUE
    /\ textFragments' = fragments
    /\ UNCHANGED out

\* readProxyWebsocketFrame refuses a frame that is too large by itself.
TooLarge(f) == f.length > MaxBytes /\ Fail

\* io.Copy, where nothing is injected
CopyRaw(f) == Write(FromClient[f]) /\ Keep("running") /\ UNCHANGED <<bufferingText, textFragments>>

Text(f) ==
    /\ f.op = "text"
    /\ \/ f.rsv /\ PassOn(f) /\ Keep("running")
       \/ /\ ~f.rsv /\ f.fin
          /\ WriteInjected(f.text.pieces)
          /\ Keep("running")
          /\ UNCHANGED <<bufferingText, textFragments>>
       \/ ~f.rsv /\ ~f.fin /\ Buffer(f.text.pieces) /\ Keep("running")

StopBuffering == bufferingText' = FALSE /\ textFragments' = <<>>

\* Mutant: a final continuation is passed on by itself.
BuffersUnfinished(f) == bufferingText /\ ~f.fin

Buffers(f) == bufferingText

Continuation(f) ==
    LET whole == textFragments \o f.text.pieces IN
    /\ f.op = "cont"
    /\ \/ ~Buffers(f) /\ PassOn(f) /\ Keep("running")
       \/ Buffers(f) /\ ~Fits(whole) /\ Fail
       \/ Buffers(f) /\ Fits(whole) /\ ~f.fin /\ Buffer(whole) /\ Keep("running")
       \/ Buffers(f) /\ Fits(whole) /\ f.fin /\ WriteInjected(whole) /\ StopBuffering /\ Keep("running")

\* Mutant: a control frame interrupts a fragmented message.
AnyInterrupts(f) == bufferingText

\* Only a data frame interrupts a message.
Interrupts(f) == bufferingText /\ f.op = "binary"

\* binary, ping, pong and close
Other(f) ==
    /\ f.op \in {"binary", "ping", "close"}
    /\ IF Interrupts(f)
       THEN Fail
       ELSE PassOn(f) /\ Keep(IF f.op = "close" THEN "closed" ELSE "running")

Forward(f) ==
    \/ TooLarge(f)
    \/ f.length <= MaxBytes /\ (Text(f) \/ Continuation(f) \/ Other(f))

Next ==
    /\ copy = "running"
    /\ Len(sent) < MaxFrames
    /\ \E f \in Frames :
        /\ sent' = Append(sent, f)
        /\ IF injecting THEN Forward(Arriving[f]) ELSE CopyRaw(f)

Spec == Init /\ [][Next]_vars

----------------------------------------------------------------------------
(* Frames, read by the rules of RFC 6455: "open" is the message that is being   *)
(* fragmented, "data" and "control" are complete.                               *)
NoMessage == [op |-> "none", rsv |-> FALSE, text |-> [pieces |-> <<>>, tool |-> FALSE]]
Control == {"ping", "close"}

ReadFrame(state, f) ==
    LET message == IF f.op = "cont"
                   THEN [state.open EXCEPT !.text.pieces = @ \o f.text.pieces]
                   ELSE [op |-> f.op, rsv |-> f.rsv, text |-> f.text]
    IN IF f.op \in Control THEN [state EXCEPT !.control = Append(@, message)]
       ELSE IF f.fin THEN [state EXCEPT !.open = NoMessage, !.data = Append(@, message)]
       ELSE [state EXCEPT !.open = message]

Start == [open |-> NoMessage, data |-> <<>>, control |-> <<>>]

Read(log) == FoldLeft(ReadFrame, Start, log)

\* A data message starts when none is open, and is continued when one is; a
\* control frame is short and whole.
Valid(log) ==
    \A i \in DOMAIN log :
        LET open == Read(SubSeq(log, 1, i - 1)).open.op # "none"
        IN /\ log[i].op = "cont" => open
           /\ log[i].op \in {"text", "binary"} => ~open
           /\ log[i].op \in Control => log[i].fin /\ Bytes(log[i].text.pieces) <= 125
           /\ log[i].op = "close" => i = Len(log)

Sent == [i \in DOMAIN sent |-> Frame(sent[i], FALSE)]

\* How many bytes a header announces: in its second byte up to 125, in two bytes
\* up to 65535, in eight beyond; 0 - 1 if it says so in another way.
Announced(header) ==
    LET field == header.second % 128
        more == header.extended
    IN CASE field <= 125 /\ Len(more) = 0 -> field
         [] field = 126 /\ Len(more) = 2 /\ Uint16(more) > 125 -> Uint16(more)
         [] field = 127 /\ Len(more) = 8 /\ Uint64(more) > 65535 -> Uint64(more)
         [] OTHER -> 0 - 1

\* The reader of a wire that is announced so finds the next frame where it begins.
InStep(wire) ==
    /\ Announced(wire.header) = TextLength(wire.text)
    /\ wire.header.second >= 128 /\ wire.key # NoKey

\* The first byte is fin, three reserved bits and the opcode.
FrameOn(wire) ==
    LET first == wire.header.first
    IN [op |-> CHOOSE op \in DOMAIN OpCode : first % 16 = OpCode[op],
        fin |-> first \div 128 = 1, rsv |-> (first \div 16) % 8 # 0, text |-> wire.text]

Got == [i \in DOMAIN out |-> FrameOn(out[i])]

\* What upstream is to get for a message of the client.
Relayed(m) ==
    IF injecting /\ m.op = "text" /\ ~m.rsv
    THEN [m EXCEPT !.text.tool = Changes(m.text.pieces)] ELSE m

\* README.md:101 "WebSocket requests are proxied": of a client that keeps to the
\* protocol, upstream gets exactly the messages that are complete, whole and in
\* order, with a tool added to those text messages that ask for a response and to
\* no other; and every control frame, also one in the middle of a message.
MessagesRelayed ==
    Valid(Sent) /\ copy # "failed" =>
        LET from == Read(Sent) to == Read(Got) IN
        /\ to.data = [i \in DOMAIN from.data |-> Relayed(from.data[i])]
        /\ to.control = from.control

\* However fragments were buffered, put together and made longer, what upstream is
\* sent keeps to the protocol if the client does, also when a message grew too
\* large to be passed on: each frame is masked and as long as it announces, in the
\* shortest form, so that upstream stays in step; and fragments are in order.
UpstreamStaysValid == Valid(Sent) => Valid(Got) /\ \A i \in DOMAIN out : InStep(out[i])

\* A client that keeps to the protocol is cut off for nothing but a message that
\* is beyond the limit, the one its last frame belongs to; and for such a text
\* message it is, before more than the limit was buffered.
CutOffForSizeOnly ==
    LET from == Read(Sent)
        ended == IF from.data = <<>> THEN NoMessage ELSE Last(from.data)
        latest == IF from.open = NoMessage THEN ended ELSE from.open
        fits == Bytes(latest.text.pieces) <= MaxBytes
        buffered == injecting /\ latest.op = "text" /\ ~latest.rsv
    IN /\ Valid(Sent) /\ copy = "failed" => ~fits
       /\ Valid(Sent) /\ buffered /\ ~fits => copy = "failed"
       /\ Bytes(textFragments) <= MaxBytes
=============================================================================
