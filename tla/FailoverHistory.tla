--------------------------- MODULE FailoverHistory ---------------------------
(* Failover with two history variables, to say what a request could have had.   *)
EXTENDS Failover

VARIABLES
    steady,             \* steady[r]: tokens usable ever since r was taken up
    anchor              \* anchor[r]: the usable token r's session was bound to
                        \* when r's attempt began to look for one, as long as
                        \* it stays bound and usable

history == <<steady, anchor>>

HInit ==
    /\ Init
    /\ steady = [r \in Requests |-> {}]
    /\ anchor = [r \in Requests |-> NoToken]

Started(r) == At(r, "idle") /\ At(r, "lookup")'

\* A request is taken up, or tries once more.
Seeks(r) == At(r, "lookup")' /\ ~At(r, "lookup")

\* What can no longer matter is forgotten with the answer.
Remember ==
    /\ steady' = [r \in Requests |->
                    IF Started(r) THEN Usable'
                    ELSE IF At(r, "done") THEN {} ELSE steady[r] \intersect Usable']
    /\ anchor' = [r \in Requests |->
                    LET t == IF Seeks(r) THEN Binding(r)' ELSE anchor[r]
                    IN  IF t \in Usable' /\ t = Binding(r)' /\ ~At(r, "done")' THEN t ELSE NoToken]

HNext == Next /\ Remember

HSpec == HInit /\ [][HNext]_<<vars, history>>

----------------------------------------------------------------------------
\* README.md:120 "Non-stream requests are retried once with another token": a
\* client is handed a 401, a deactivated workspace or a limit, or told that no
\* token is available, only if no token the request had not tried was usable all
\* the time the request ran -- unless it used up both attempts.
FailoverReachesHealthyToken ==
    \A r \in Requests :
        /\ At(r, "done")
        /\ req[r].answer \in Failures \union {"unavailable"}
        /\ Cardinality(req[r].tried) < MaxAttempts
        => steady[r] \subseteq req[r].tried

\* README.md:103-107: an attempt of a session bound to a token that is usable, that
\* the request has not tried, and that stays bound and usable, goes to that token.
StickyHonoured ==
    \A r \in Requests :
        req[r].pc \in {"stale", "send"} /\ anchor[r] \notin req[r].tried \union {NoToken}
        => Token(r) = anchor[r]

Loses(s) == sessions[s] # NoToken /\ sessions'[s] # sessions[s]

\* Whoever put the token aside or removed it clears its sessions.
Cleared(t) ==
    \/ t \in leaving \ leaving'
    \/ \E r \in Requests : At(r, "clear") /\ ~At(r, "clear")' /\ Token(r) = t

\* A request gives up its session's binding, or writes it anew.
Rebinds(r) == req[r].pc \in {"unbind", "bind"} /\ req'[r].pc # req[r].pc

\* A session is taken off its token, by clearing the binding or by overwriting it,
\* only because the token failed a request or was removed; or by a request of the
\* session that could not go to the token: the token failed that request, or was
\* unusable at a time since the attempt began to look, or was bound only after
\* that.  The latter is a race: of two requests of a session that choose at the
\* same time, the later one to bind wins, and one that found the old binding
\* unusable clears the new one unseen.  Requests of a session that come one after
\* the other keep its token while it is usable and fails none.
AffinityLostForCause ==
    [][\A s \in Sessions : Loses(s) =>
            \/ Cleared(sessions[s])
            \/ \E r \in Requests :
                    /\ SessionOf[r] = s /\ Rebinds(r)
                    /\ anchor[r] # sessions[s] \/ sessions[s] \in req[r].tried]_<<vars, history>>
=============================================================================
