------------------------------ MODULE Failover ------------------------------
(* The proxy's request path: handleProxy and handleWebSocket pick a token for   *)
(* the session, forward the request, and on a 401, a deactivated workspace or   *)
(* a usage limit put the token aside and try once more with another one.  Any   *)
(* number of requests run at once over the shared TokenStore; every access to   *)
(* it under one of its locks is a step of its own, so requests interleave with  *)
(* each other, with the usage syncer and with the token watcher in between.     *)
(* Refreshing is one step here; Credentials.tla opens it.  The clock is read    *)
(* where the store is: "cooling" is CooldownUntil being set and in the future.  *)
EXTENDS TokenRanking, FiniteSets

CONSTANTS
    Tokens,             \* token ids, numbers in file name order
    Sessions,           \* values of the session_id header
    Requests,           \* requests the clients send
    SessionOf,          \* their session, or NoSession
    WebSocket,          \* those that ask for an upgrade
    QuotaStates,        \* [five, weekly]: rate windows upstream may report
    FreshQuota,         \* that of a token nothing was reported for yet
    NoToken, NoSession

ASSUME TokensAssumption == Tokens \subseteq Int /\ NoToken \notin Tokens
ASSUME RequestsAssumption ==
    /\ NoSession \notin Sessions
    /\ SessionOf \in [Requests -> Sessions \union {NoSession}]
    /\ WebSocket \subseteq Requests
ASSUME QuotaAssumption == FreshQuota \in QuotaStates

VARIABLES
    store,              \* ids in s.tokens
    invalid,            \* of these, those marked Invalid
    cooling,            \* of these, those cooling down
    quota,              \* rate windows, kept for ids out of the store too
    sessions,           \* s.sessions
    leaving,            \* removed ids whose sessions RemoveToken has yet to clear
    req                 \* the requests, see RequestType

tokenVars == <<store, invalid, cooling, quota>>
vars == <<tokenVars, sessions, leaving, req>>

MaxAttempts == 2

View(t) ==
    [invalid |-> t \in invalid, cooling |-> t \in cooling,
     five |-> quota[t].five, weekly |-> quota[t].weekly]

Usable == {t \in store : Available(View(t))}

\* What upstream answers, as far as the handlers tell replies apart: a stream is
\* an event stream or a 101; ok is everything else that is no failover case.
Failures == {"unauth", "deactivated", "limit"}
Replies == Failures \union {"ok", "stream"}

NewRequest ==
    [pc |-> "idle", attempt |-> 1, token |-> NoToken, sticky |-> FALSE,
     tried |-> {}, reply |-> "none", held |-> "none", answer |-> "none"]

Init ==
    /\ store \in SUBSET Tokens
    /\ invalid = {}
    /\ cooling = {}
    /\ quota \in [Tokens -> QuotaStates]
    /\ sessions = [s \in Sessions |-> NoToken]
    /\ leaving = {}
    /\ req = [r \in Requests |-> NewRequest]

At(r, label) == req[r].pc = label
Token(r) == req[r].token
Goto(r, label) == req' = [req EXCEPT ![r].pc = label]

\* The handler returns, and what it held back is gone.
Answer(r, a) ==
    req' = [req EXCEPT ![r].pc = "done", ![r].answer = a,
                       ![r].attempt = 1, ![r].sticky = FALSE, ![r].held = "none"]

----------------------------------------------------------------------------
(* Operations of TokenStore the handlers share.                                 *)

MarkInvalid(t) ==
    /\ invalid' = invalid \union ({t} \intersect store)
    /\ UNCHANGED <<store, cooling, quota>>

\* Mutant: the token is marked without looking whether it is still there.
MarkCooldownBlindly(t) ==
    /\ cooling' = cooling \union {t}
    /\ UNCHANGED <<store, invalid, quota>>

MarkCooldown(t) ==
    /\ cooling' = cooling \union ({t} \intersect store)
    /\ UNCHANGED <<store, invalid, quota>>

UpdateCredentials(t) ==
    /\ invalid' = invalid \ {t}
    /\ cooling' = cooling \ {t}
    /\ UNCHANGED <<store, quota>>

\* RemoveToken's first critical section; its last one clears the sessions.
DeleteToken(t) ==
    /\ store' = store \ {t}
    /\ invalid' = invalid \ {t}
    /\ cooling' = cooling \ {t}
    /\ quota' = [quota EXCEPT ![t] = FreshQuota]

\* Mutant: every session is cleared.
ClearAllSessions(t) == sessions' = [s \in Sessions |-> NoToken]

ClearSessionsForToken(t) ==
    sessions' = [s \in Sessions |-> IF sessions[s] = t THEN NoToken ELSE sessions[s]]

HasAvailableToken(tried) == Usable \ tried # {}

----------------------------------------------------------------------------
(* SelectToken: a bound session first, the ranking otherwise.                   *)

Start(r) ==
    /\ At(r, "idle")
    /\ Goto(r, "lookup")
    /\ UNCHANGED <<tokenVars, sessions, leaving>>

Binding(r) == IF SessionOf[r] = NoSession THEN NoToken ELSE sessions[SessionOf[r]]

\* Mutant: the binding is consulted for a retry only.
FollowsBindingLate(r) ==
    Binding(r) # NoToken /\ Binding(r) \notin req[r].tried /\ req[r].attempt > 1

FollowsBinding(r) == Binding(r) # NoToken /\ Binding(r) \notin req[r].tried

Lookup(r) ==
    /\ At(r, "lookup")
    /\ req' = [req EXCEPT ![r].token = Binding(r),
                          ![r].pc = IF FollowsBinding(r) THEN "peek" ELSE "rank"]
    /\ UNCHANGED <<tokenVars, sessions, leaving>>

\* TokenSnapshot and Available
Peek(r) ==
    /\ At(r, "peek")
    /\ IF Token(r) \in Usable
       THEN req' = [req EXCEPT ![r].pc = "stale", ![r].sticky = TRUE]
       ELSE Goto(r, "unbind")
    /\ UNCHANGED <<tokenVars, sessions, leaving>>

\* ClearSession drops whatever the session is bound to by now.
Unbind(r) ==
    /\ At(r, "unbind")
    /\ sessions' = [sessions EXCEPT ![SessionOf[r]] = NoToken]
    /\ Goto(r, "rank")
    /\ UNCHANGED <<tokenVars, leaving>>

CandidatesFor(r) == {Candidate(t, View(t)) : t \in Usable \ req[r].tried}

WithoutToken(r) == IF req[r].held = "none" THEN "unavailable" ELSE req[r].held

\* TokenSelection shows that the loop picks the one candidate better than the rest.
Rank(r) ==
    LET C == CandidatesFor(r) IN
    /\ At(r, "rank")
    /\ \/ \E c \in C :
            /\ \A d \in C \ {c} : Better(c, d)
            /\ req' = [req EXCEPT ![r].token = c.id, ![r].sticky = FALSE, ![r].pc = "stale"]
       \/ C = {} /\ Answer(r, WithoutToken(r))
    /\ UNCHANGED <<tokenVars, sessions, leaving>>

\* maybeRefreshTokenIfStale: refreshed or not, an error is only logged.
RefreshIfStale(r) ==
    /\ At(r, "stale")
    /\ Goto(r, "send")
    /\ UpdateCredentials(Token(r)) \/ UNCHANGED tokenVars
    /\ UNCHANGED <<sessions, leaving>>

----------------------------------------------------------------------------
(* One forwarded request and what its reply leads to.                           *)

\* Mutant: every 401 is answered with another refresh.
AlwaysRefresh(reply, first) ==
    CASE reply = "unauth" -> "refresh"
      [] reply = "deactivated" -> "remove"
      [] OTHER -> "usage"

AfterReply(reply, first) ==
    CASE reply = "unauth" /\ first -> "refresh"
      [] reply = "unauth" /\ ~first -> "setAside"
      [] reply = "deactivated" -> "remove"
      [] OTHER -> "usage"

Forward(r) ==
    /\ At(r, "send") \/ At(r, "resend")
    /\ \/ \E reply \in Replies :
            req' = [req EXCEPT ![r].reply = reply, ![r].pc = AfterReply(reply, At(r, "send"))]
       \/ Answer(r, "upstreamError")
    /\ UNCHANGED <<tokenVars, sessions, leaving>>

\* refreshTokenAfterUnauthorized: this request or another one refreshed the
\* token; or it could not be refreshed, for good or for now; or there was
\* nothing to do (no refresh token, or refreshed moments ago).
RefreshAfterUnauthorized(r) ==
    /\ At(r, "refresh")
    /\ \/ Goto(r, "resend") /\ (UpdateCredentials(Token(r)) \/ UNCHANGED tokenVars)
       \/ /\ Goto(r, "setAside")
          /\ MarkInvalid(Token(r)) \/ MarkCooldown(Token(r)) \/ UNCHANGED tokenVars
    /\ UNCHANGED <<sessions, leaving>>

\* applyUsageFromHeaders writes whole windows it read a moment earlier, so the
\* quota can come out as any reported state.
ApplyUsage(r) ==
    /\ At(r, "usage")
    /\ \/ UNCHANGED quota
       \/ /\ Token(r) \in store
          /\ \E q \in QuotaStates : quota' = [quota EXCEPT ![Token(r)] = q]
    /\ CASE req[r].reply = "limit" -> Goto(r, "setAside")
         [] req[r].reply = "ok" /\ r \in WebSocket -> Answer(r, "ok")
         [] OTHER -> Goto(r, "bind")
    /\ UNCHANGED <<store, invalid, cooling, sessions, leaving>>

Tried(r) == req[r].tried \union {Token(r)}

\* retryWithAlternateToken, retryAfterUsageLimit
SetAside(r) ==
    /\ At(r, "setAside")
    /\ MarkCooldown(Token(r))
    /\ req' = [req EXCEPT ![r].tried = Tried(r), ![r].pc = "clear"]
    /\ UNCHANGED <<sessions, leaving>>

\* retryAfterDeactivatedWorkspace: a token somebody else removed is left alone.
Remove(r) ==
    /\ At(r, "remove")
    /\ IF Token(r) \in store
       THEN /\ DeleteToken(Token(r))
            /\ req' = [req EXCEPT ![r].tried = Tried(r), ![r].pc = "clear"]
       ELSE /\ req' = [req EXCEPT ![r].tried = Tried(r), ![r].pc = "retry"]
            /\ UNCHANGED tokenVars
    /\ UNCHANGED <<sessions, leaving>>

ClearSessions(r) ==
    /\ At(r, "clear")
    /\ ClearSessionsForToken(Token(r))
    /\ Goto(r, IF req[r].reply = "streamLimit" THEN "streaming" ELSE "retry")
    /\ UNCHANGED <<tokenVars, leaving>>

\* Mutant: a session's own token is not replaced within the request.
MayRetryUnbound(r) ==
    req[r].attempt < MaxAttempts /\ HasAvailableToken(req[r].tried) /\ ~req[r].sticky

MayRetry(r) == req[r].attempt < MaxAttempts /\ HasAvailableToken(req[r].tried)

Retry(r) ==
    /\ At(r, "retry")
    /\ IF MayRetry(r)
       THEN req' = [req EXCEPT ![r].attempt = @ + 1, ![r].held = req[r].reply,
                               ![r].pc = "lookup"]
       ELSE Answer(r, req[r].reply)
    /\ UNCHANGED <<tokenVars, sessions, leaving>>

BindProxySession(r) ==
    /\ At(r, "bind")
    /\ IF SessionOf[r] = NoSession \/ req[r].sticky
       THEN UNCHANGED sessions
       ELSE sessions' = [sessions EXCEPT ![SessionOf[r]] = Token(r)]
    /\ IF req[r].reply = "stream" THEN Goto(r, "streaming") ELSE Answer(r, "ok")
    /\ UNCHANGED <<tokenVars, leaving>>

\* The capture reports a limit at most once per stream: markTokenUsageLimit.
StreamLimit(r) ==
    /\ At(r, "streaming")
    /\ req[r].reply = "stream"
    /\ MarkCooldown(Token(r))
    /\ req' = [req EXCEPT ![r].reply = "streamLimit", ![r].pc = "clear"]
    /\ UNCHANGED <<sessions, leaving>>

StreamEnds(r) ==
    /\ At(r, "streaming")
    /\ Answer(r, "stream")
    /\ UNCHANGED <<tokenVars, sessions, leaving>>

Handle(r) ==
    \/ Lookup(r)
    \/ Peek(r)
    \/ Unbind(r)
    \/ Rank(r)
    \/ RefreshIfStale(r)
    \/ Forward(r)
    \/ RefreshAfterUnauthorized(r)
    \/ ApplyUsage(r)
    \/ SetAside(r)
    \/ Remove(r)
    \/ ClearSessions(r)
    \/ Retry(r)
    \/ BindProxySession(r)
    \/ StreamLimit(r)
    \/ StreamEnds(r)

----------------------------------------------------------------------------
(* The rest of the process, as the requests see it.                             *)

CooldownOver(t) ==
    /\ t \in cooling
    /\ cooling' = cooling \ {t}
    /\ UNCHANGED <<store, invalid, quota, sessions, leaving, req>>

\* UpsertToken by the watcher, or UpdateCredentials by the usage syncer.
Renew(t) ==
    /\ store' = store \union {t}
    /\ invalid' = invalid \ {t}
    /\ cooling' = cooling \ {t}
    /\ UNCHANGED <<quota, sessions, leaving, req>>

SyncUsage(t) ==
    /\ t \in store
    /\ \E q \in QuotaStates : quota' = [quota EXCEPT ![t] = q]
    /\ UNCHANGED <<store, invalid, cooling, sessions, leaving, req>>

\* Removed by the syncer, or by the watcher for a missing or unreadable file.
EvictToken(t) ==
    /\ t \in store
    /\ DeleteToken(t)
    /\ leaving' = leaving \union {t}
    /\ UNCHANGED <<sessions, req>>

EvictSessions(t) ==
    /\ t \in leaving
    /\ ClearSessionsForToken(t)
    /\ leaving' = leaving \ {t}
    /\ UNCHANGED <<tokenVars, req>>

Elsewhere ==
    \E t \in Tokens : CooldownOver(t) \/ Renew(t) \/ SyncUsage(t) \/ EvictToken(t)

Next ==
    \/ \E r \in Requests : Start(r) \/ Handle(r)
    \/ \E t \in Tokens : EvictSessions(t)
    \/ Elsewhere

\* A handler keeps running: upstream answers or the connection fails, streams and
\* tunnels end, and locks are held for a few instructions only.  For a WebSocket
\* the code does not enforce it: no deadline on the handshake's answer
\* (upstream.go:99), and a tunnel can be stuck (WsTunnel!Stuck).
Fairness == \A r \in Requests : WF_vars(Handle(r))

Spec == Init /\ [][Next]_vars /\ Fairness

----------------------------------------------------------------------------
Labels ==
    {"idle", "lookup", "peek", "unbind", "rank", "stale", "send", "refresh", "resend",
     "usage", "setAside", "remove", "clear", "retry", "bind", "streaming", "done"}
Answers == Replies \union {"none", "unavailable", "upstreamError"}

RequestType ==
    [pc : Labels, attempt : 1..MaxAttempts, token : Tokens \union {NoToken},
     sticky : BOOLEAN, tried : SUBSET Tokens,
     reply : Replies \union {"none", "streamLimit"},
     held : Failures \union {"none"}, answer : Answers]

\* Shapes, and what the steps of a handler rely on: a label past the selection
\* has a token, a request unbinds only a session it has, and the marks and
\* bindings speak of tokens only.
TypeOK ==
    /\ store \subseteq Tokens
    /\ invalid \subseteq store
    /\ cooling \subseteq store
    /\ quota \in [Tokens -> QuotaStates]
    /\ sessions \in [Sessions -> Tokens \union {NoToken}]
    /\ leaving \subseteq Tokens
    /\ req \in [Requests -> RequestType]

----------------------------------------------------------------------------
(* A request as its client and upstream see it.                                 *)
Choosing == {"lookup", "peek", "unbind", "rank", "stale"}

PhaseAt ==
    [label \in Labels |->
        CASE label = "idle" -> "idle"
          [] label \in Choosing -> "choosing"
          [] label = "send" -> "asked"
          [] label = "refresh" -> "refused"
          [] label = "resend" -> "askedAgain"
          [] label = "done" -> "answered"
          [] OTHER -> "heard"]

Phase(r) == PhaseAt[req[r].pc]

SentWithToken(r) ==
    IF At(r, "done") THEN req[r].answer \in {"ok", "stream", "upstreamError"}
    ELSE req[r].pc \notin Choosing \union {"idle"}

Asked(r) == IF SentWithToken(r) THEN Tried(r) ELSE req[r].tried

\* A limit within a stream is no reply of its own.
Heard(r) == IF req[r].reply = "streamLimit" THEN "stream" ELSE req[r].reply
=============================================================================
