-------------------------- MODULE RequestContract --------------------------
(* What the proxy promises about a client's request, whichever of its two      *)
(* handlers serves it and whatever happens to tokens and sessions meanwhile:    *)
(* upstream is asked with at most two tokens, and with neither a second time    *)
(* unless it answered 401 and the token was refreshed; another token is asked   *)
(* only after a failure; and the client is answered once, with the last reply   *)
(* that was heard, if any was.                                                  *)

CONSTANTS
    Tokens,
    Failures,           \* replies that are worth another token: "unauth" ...
    Replies             \* all replies

\* "unauth" is one of the Failures, which are Replies; "none", "unavailable" and
\* "upstreamError" are not Replies.

VARIABLES
    phase,              \* "idle", "choosing", "asked", "refused", "askedAgain",
                        \* "heard", "answered"
    asked,              \* tokens upstream was asked with
    heard,              \* the last reply, or "none"
    answer              \* what the client got, or "none"

contract == <<phase, asked, heard, answer>>

Init == phase = "idle" /\ asked = {} /\ heard = "none" /\ answer = "none"

TakeUp ==
    /\ phase = "idle"
    /\ phase' = "choosing"
    /\ UNCHANGED <<asked, heard, answer>>

\* None was asked with yet, or a single one.
Ask ==
    /\ phase = "choosing"
    /\ \A t \in asked : asked = {t}
    /\ \E t \in Tokens \ asked : asked' = asked \union {t}
    /\ phase' = "asked"
    /\ UNCHANGED <<heard, answer>>

\* A token's first 401 may be mended by a refresh.
Hear ==
    /\ phase \in {"asked", "askedAgain"}
    /\ heard' \in Replies
    /\ phase' = IF phase = "asked" /\ heard' = "unauth" THEN "refused" ELSE "heard"
    /\ UNCHANGED <<asked, answer>>

Refreshed ==
    /\ phase = "refused"
    /\ phase' \in {"askedAgain", "heard"}
    /\ UNCHANGED <<asked, heard, answer>>

TryAnother ==
    /\ phase = "heard"
    /\ heard \in Failures
    /\ phase' = "choosing"
    /\ UNCHANGED <<asked, heard, answer>>

Answer(a) ==
    /\ answer' = a
    /\ phase' = "answered"
    /\ UNCHANGED <<asked, heard>>

AnswerHeard == phase \in {"heard", "choosing"} /\ heard # "none" /\ Answer(heard)
Unavailable == phase = "choosing" /\ asked = {} /\ Answer("unavailable")
ConnectionFails == phase \in {"asked", "askedAgain"} /\ Answer("upstreamError")

Proceed ==
    \/ Ask
    \/ Hear
    \/ Refreshed
    \/ TryAnother
    \/ AnswerHeard
    \/ Unavailable
    \/ ConnectionFails

Next == TakeUp \/ Proceed

\* A request that was taken up is answered in the end.
Spec == Init /\ [][Next]_contract /\ WF_contract(Proceed)
=============================================================================
