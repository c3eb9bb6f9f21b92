----------------------------- MODULE FrameCodec -----------------------------
(* WebSocket frames on the wire (websocket_transform.go).  What a wire carries  *)
(* is [header, key, text]: the header's bytes up to the length, the first, the  *)
(* second and those that extend it; the mask's key, NoKey where there is none;  *)
(* and the payload as the receiver finds it once it has taken the mask off.  A  *)
(* text is [pieces, tool]: what the payload is made of, and whether the hosted  *)
(* tool was put in; only its length is known here.                              *)
EXTENDS Integers, Sequences, SequencesExt

CONSTANTS
    Size(_),            \* bytes of a piece
    ToolSize            \* bytes a tool adds

NoKey == "none"

OpCode == [cont |-> 0, text |-> 1, binary |-> 2, close |-> 8, ping |-> 9]
OpOf(code) == CHOOSE op \in DOMAIN OpCode : OpCode[op] = code

Bytes(pieces) == FoldLeft(LAMBDA n, p : n + Size(p), 0, pieces)
TextLength(text) == Bytes(text.pieces) + (IF text.tool THEN ToolSize ELSE 0)

Bit(b, weight) == IF b THEN weight ELSE 0

\* binary.BigEndian.PutUint16 and PutUint64, of the lowest 16 and 64 bits
PutUint16(n) == <<(n \div 256) % 256, n % 256>>
PutUint64(n) ==
    LET above == n \div 65536
        upper == above \div 65536
        top == upper \div 65536
    IN <<(top \div 256) % 256, top % 256, (upper \div 256) % 256, upper % 256,
         (above \div 256) % 256, above % 256, (n \div 256) % 256, n % 256>>

\* binary.BigEndian.Uint16 and Uint64
Uint16(b) == b[1] * 256 + b[2]
Uint64(b) ==
    (((b[1] * 256 + b[2]) * 65536 + (b[3] * 256 + b[4])) * 65536
     + (b[5] * 256 + b[6])) * 65536 + (b[7] * 256 + b[8])

\* The lengths a payload can have: an int in the code, 64 bits in a header.
FitsUint64(n) == ((n \div 65536) \div 65536) \div 65536 < 65536

\* Mutant: a length of 126 is put where it announces a longer field.
LengthFieldUpTo126(n) ==
    IF n <= 126 THEN [second |-> n, extended |-> <<>>]
    ELSE IF n <= 65535 THEN [second |-> 126, extended |-> PutUint16(n)]
    ELSE [second |-> 127, extended |-> PutUint64(n)]

\* What of a length goes into the second byte, and what follows it.
LengthField(n) ==
    IF n < 126 THEN [second |-> n, extended |-> <<>>]
    ELSE IF n <= 65535 THEN [second |-> 126, extended |-> PutUint16(n)]
    ELSE [second |-> 127, extended |-> PutUint64(n)]

\* buildProxyWebsocketFrame
buildProxyWebsocketFrame(frame, key) ==
    LET length == LengthField(TextLength(frame.text))
    IN [header |-> [first |-> OpCode[frame.op] + Bit(frame.rsv, 64) + Bit(frame.fin, 128),
                    second |-> length.second + Bit(key # NoKey, 128),
                    extended |-> length.extended],
        key |-> key, text |-> frame.text]

\* websocketFrameHeaderLen, of what comes between the second byte and the mask
websocketFrameHeaderLen(second) ==
    IF second % 128 = 126 THEN 2 ELSE IF second % 128 = 127 THEN 8 ELSE 0

TooShort == 0 - 1

\* parseWebsocketFrameHeader
parseWebsocketFrameHeader(header) ==
    LET need == websocketFrameHeaderLen(header.second)
    IN [op |-> OpOf(header.first % 16),
        rsv |-> (header.first \div 64) % 2 = 1,
        fin |-> header.first >= 128,
        length |-> IF Len(header.extended) < need THEN TooShort
                   ELSE IF need = 0 THEN header.second % 128
                   ELSE IF need = 2 THEN Uint16(header.extended)
                   ELSE Uint64(header.extended)]

\* readProxyWebsocketFrame, of a wire that is in step
readProxyWebsocketFrame(wire) ==
    LET header == parseWebsocketFrameHeader(wire.header)
    IN [op |-> header.op, fin |-> header.fin, rsv |-> header.rsv,
        length |-> header.length, text |-> wire.text]
=============================================================================
