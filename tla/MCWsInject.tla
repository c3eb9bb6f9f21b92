----------------------------- MODULE MCWsInject -----------------------------
(* Messages of up to five frames; reserved bits, empty payloads, frames out of  *)
(* place, a control frame beyond all limits.  Pieces are sized so that messages *)
(* of two fall on the edges where the length of a frame takes another form, 126 *)
(* and 65536, the latter the limit.                                             *)
EXTENDS WsInject

MCSize(piece) == CASE piece \in {"create", "small"} -> 63 [] piece = "large" -> 65473

F(op, fin, rsv, payload) == [op |-> op, fin |-> fin, rsv |-> rsv, payload |-> payload]

MCFrames ==
    {F("text", fin, rsv, <<"create">>) : fin \in BOOLEAN, rsv \in BOOLEAN}
    \union {F("text", fin, FALSE, <<>>) : fin \in BOOLEAN}
    \union {F("cont", fin, FALSE, p) : fin \in BOOLEAN, p \in {<<>>, <<"small">>, <<"large">>}}
    \union {F("binary", fin, FALSE, <<"small", "small">>) : fin \in BOOLEAN}
    \union {F("binary", TRUE, FALSE, <<"large", "small", "small">>)}
    \union {F(op, TRUE, FALSE, <<>>) : op \in {"ping", "close"}}
    \union {F("ping", TRUE, FALSE, <<"large", "small", "small">>)}

\* A message that starts with "create" is a response.create without tools.
MCDecode(payload) ==
    [json |-> payload # <<>>, model |-> "plain", input |-> TRUE,
     type |-> IF payload # <<>> /\ Head(payload) = "create" THEN "create" ELSE "other",
     tools |-> [kind |-> "absent", list |-> <<>>]]
=============================================================================
