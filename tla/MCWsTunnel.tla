----------------------------- MODULE MCWsTunnel -----------------------------
(* Messages of one frame and of two or three, control frames in between,        *)
(* binary ones, empty ones, ones cut short.                                     *)
EXTENDS WsTunnel

Frame(op, fin, piece, c) == [op |-> op, fin |-> fin, piece |-> piece, content |-> c]

MCFrames ==
    {Frame("text", TRUE, "end", c) : c \in {"usage", "limit"}}
    \union {Frame("text", FALSE, "part", c) : c \in {"usage", "limit"}}
    \union {Frame("text", FALSE, "end", "usage"), Frame("text", FALSE, "none", "other")}
    \union {Frame("cont", fin, "part", "other") : fin \in BOOLEAN}
    \union {Frame("cont", TRUE, piece, "other") : piece \in {"none", "end"}}
    \union {Frame("binary", fin, "part", "other") : fin \in BOOLEAN}
    \union {Frame("control", TRUE, "none", "other")}

AllFrames ==
    MCFrames \union {Frame("text", TRUE, "surplus", "usage")}

TrailingFrames == {Frame("text", TRUE, piece, "other") : piece \in {"end", "surplus"}}
=============================================================================
