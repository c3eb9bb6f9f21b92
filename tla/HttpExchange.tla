---------------------------- MODULE HttpExchange ----------------------------
(* The contents of one HTTP request in handleProxy (proxy_http.go): the body    *)
(* each attempt sends, the reply, the usage it is charged with, and the event   *)
(* stream that is copied to the client and read on the way.  Which token an     *)
(* attempt gets, and whether there is another, is left to Failover: here it is  *)
(* any token that was not tried.                                                *)
(*                                                                              *)
(* The request's body is not read any more once a reply is passed on; it is     *)
(* then forgotten, which keeps the states few.                                  *)
EXTENDS ToolInjection, SseCapture, ProxyHeaders, FiniteSets

CONSTANTS
    Tokens,
    Snapshots,          \* [plan, access, account, user] the store may hold of a token,
                        \* account and user "" where it is not known
    Requests,           \* [responses, body, headers]: whether the path is /responses
    Replies,            \* [kind, body, headers] of upstream; a "stream" has no body
    StreamLines,        \* lines an event stream may have
    MaxLines            \* bound on the lines of a stream

ASSUME RequestsAssumption == \A q \in Requests : q.body \in RequestShapes
ASSUME RepliesAssumption ==
    \A reply \in Replies :
        /\ reply.kind \in {"unauth", "deactivated", "limit", "ok", "stream"}
        /\ reply.body \in Bodies
ASSUME LinesAssumption == StreamLines \subseteq LineSet
ASSUME MaxLinesAssumption == MaxLines \in Nat

VARIABLES
    request,            \* the client's, until the reply is passed on
    pc,                 \* where handleProxy is
    attempt,
    tried,
    token,              \* the handler's TokenState: its id ...
    snapshot,           \* ... and the rest of it
    given,              \* what the store last said of the token, which is history
    wire,               \* what was sent last: [given, body, headers]
    heard,              \* upstream's replies: <<[token, key, reply], ...>>
    answer,             \* what the client was answered: [kind, headers]
    recorded,           \* taken to the usage sink: [token, key, usage, stream]
    limited,            \* calls of markTokenUsageLimit
    written,            \* the lines of the stream upstream has sent
    passed,             \* how many of its symbols were passed on and observed
    capture             \* the sseUsageCapture

attemptVars == <<attempt, tried, token>>
tokenState == <<snapshot, given>>
books == <<recorded, limited>>
streamVars == <<written, passed, capture>>
vars == <<request, pc, attemptVars, tokenState, wire, heard, answer, books, streamVars>>

NoToken == "none"
Gone == [responses |-> FALSE, body |-> <<>>, headers |-> <<>>]
NoHeaders == [n \in {} |-> ""]
NoSnapshot == [plan |-> "", access |-> "", account |-> "", user |-> ""]

Init ==
    /\ request \in Requests
    /\ pc = "select"
    /\ attempt = 0
    /\ tried = {}
    /\ token = NoToken
    /\ snapshot = NoSnapshot
    /\ given = NoSnapshot
    /\ wire = <<>>
    /\ heard = <<>>
    /\ answer = [kind |-> "none", headers |-> NoHeaders]
    /\ recorded = <<>>
    /\ limited = <<>>
    /\ written = <<>>
    /\ passed = 0
    /\ capture = newSSEUsageCapture

Reply == Last(heard).reply

Goto(place) == pc' = place

\* identityKey: the user, or failing that the account; "" for neither.
accountKeyFromToken(s) == IF s.user # "" THEN s.user ELSE s.account

\* All but whom to charge.
Forget ==
    /\ request' = Gone
    /\ wire' = <<>>
    /\ snapshot' = [NoSnapshot EXCEPT !.user = accountKeyFromToken(snapshot)]
    /\ given' = NoSnapshot

\* http.Error
AnswerError(kind) ==
    Goto("done") /\ answer' = [kind |-> kind, headers |-> NoHeaders] /\ Forget

\* What writeResponse and streamResponseWithObserver write before the body.
WriteHead(reply) ==
    answer' = [kind |-> reply.kind, headers |-> copyHeaders(NoHeaders, reply.headers)]

\* writeResponse
AnswerReply == Goto("done") /\ WriteHead(Reply) /\ Forget

Remember == UNCHANGED <<request, wire, answer>>

----------------------------------------------------------------------------
\* SelectToken, maybe refreshed: whatever the store holds of the token then.
Select ==
    /\ pc = "select"
    /\ token' \in Tokens \ tried
    /\ snapshot' \in Snapshots
    /\ given' = snapshot'
    /\ Goto("send")
    /\ Remember
    /\ UNCHANGED <<attempt, tried, heard, books, streamVars>>

\* No token is left: the reply held from the first attempt is written.
NoTokenLeft ==
    /\ pc = "select"
    /\ IF heard = <<>> THEN AnswerError("unavailable") ELSE AnswerReply
    /\ UNCHANGED <<attemptVars, heard, books, streamVars>>

\* Mutant: a later attempt sends what the one before had sent.
BodyCarriedOver(q, p) ==
    IF q.responses THEN injectResponseTools(IF wire = <<>> THEN q.body ELSE wire.body, p) ELSE q.body

responseBodyForToken(q, p) ==
    IF q.responses THEN injectResponseTools(q.body, p) ELSE q.body

AfterReply(reply) ==
    IF reply.kind = "unauth" /\ pc = "send" THEN "refresh"
    ELSE IF reply.kind \in {"unauth", "deactivated"} THEN "setAside"
    ELSE "account"

\* History: the key a reply's usage is to be charged under; a refusal has none.
Payer(reply) ==
    IF reply.kind \in {"unauth", "deactivated"} THEN "" ELSE accountKeyFromToken(given)

\* forwardRequest, with the reply's body unless it is an event stream.
Forward ==
    /\ pc \in {"send", "resend"}
    /\ wire' = [given |-> given, body |-> responseBodyForToken(request, snapshot.plan),
                headers |-> forwardHeaders(request.headers, snapshot.access, snapshot.account)]
    /\ \E reply \in Replies :
        /\ heard' = Append(heard, [token |-> token, key |-> Payer(reply), reply |-> reply])
        /\ Goto(AfterReply(reply))
    /\ UNCHANGED <<request, attemptVars, tokenState, answer, books, streamVars>>

ForwardFails ==
    /\ pc \in {"send", "resend"}
    /\ AnswerError("upstreamError")
    /\ UNCHANGED <<attemptVars, heard, books, streamVars>>

\* Mutant: a refresh renews the credentials and the plan only.
KeepsAccount(fresh) == [fresh EXCEPT !.account = snapshot.account]

\* The handler's copy is replaced as a whole.
Renewed(fresh) == fresh

\* refreshTokenAfterUnauthorized: refreshed, and the store still has the token, or
\* not any more; or not refreshed.
RefreshAfterUnauthorized ==
    /\ pc = "refresh"
    /\ \/ given' \in Snapshots /\ snapshot' = Renewed(given') /\ Goto("resend")
       \/ Goto("resend") /\ UNCHANGED tokenState
       \/ Goto("setAside") /\ UNCHANGED tokenState
    /\ Remember
    /\ UNCHANGED <<attemptVars, heard, books, streamVars>>

\* recordTokenUsage: there is no key to record an unknown account's usage under.
Record(usage, stream) ==
    LET key == accountKeyFromToken(snapshot) IN
    recorded' = IF usage = <<>> \/ key = "" THEN recorded
                ELSE Append(recorded, [token |-> token, key |-> key, usage |-> usage[1],
                                       stream |-> stream])

\* A reply about a limit may carry usage as well.
ChargedUsage(reply) == extractTokenUsageFromBody(reply.body)

AccountReply ==
    /\ pc = "account"
    /\ Reply.kind # "stream"
    /\ Record(ChargedUsage(Reply), FALSE)
    /\ \/ Reply.kind = "limit" /\ Goto("setAside") /\ Remember /\ UNCHANGED tokenState
       \/ Reply.kind = "ok" /\ AnswerReply
    /\ UNCHANGED <<attemptVars, heard, limited, streamVars>>

MayRetry == attempt # 1

\* retryWithAlternateToken, retryAfterDeactivatedWorkspace, retryAfterUsageLimit;
\* HasAvailableToken may say yes or no.
SetAside ==
    /\ pc = "setAside"
    /\ tried' = tried \union {token}
    /\ limited' = IF Reply.kind = "limit" THEN Append(limited, token) ELSE limited
    /\ \/ MayRetry /\ attempt' = attempt + 1 /\ Goto("select") /\ Remember /\ UNCHANGED tokenState
       \/ AnswerReply /\ UNCHANGED attempt
    /\ UNCHANGED <<token, heard, recorded, streamVars>>

----------------------------------------------------------------------------
(* streamResponseWithObserver                                                   *)

StreamStarts ==
    /\ pc = "account"
    /\ Reply.kind = "stream"
    /\ Goto("stream")
    /\ WriteHead(Reply)
    /\ Forget
    /\ UNCHANGED <<attemptVars, heard, books, streamVars>>

Coming == LET text == Text(written) IN SubSeq(text, passed + 1, Len(text))

\* Upstream has another line ready; at most the rest of one waits already.
UpstreamWrites ==
    /\ pc = "stream"
    /\ Len(written) < MaxLines
    /\ Len(Coming) < 3
    /\ \E line \in StreamLines : written' = Append(written, line)
    /\ UNCHANGED <<request, pc, attemptVars, tokenState, wire, heard, answer, books, passed, capture>>

\* io.Copy reads a chunk, the client's writer takes it, then the capture, whose
\* callback is markTokenUsageLimit.
CopyChunk ==
    /\ pc = "stream"
    /\ \E n \in 1..Len(Coming) :
        /\ passed' = passed + n
        /\ capture' = WriteChunk(capture, SubSeq(Coming, 1, n))
        /\ limited' = limited \o [i \in 1..(capture'.onLimitCalls - capture.onLimitCalls) |-> token]
    /\ UNCHANGED <<request, pc, attemptVars, tokenState, wire, heard, answer, recorded, written>>

\* The end of the stream, an error of upstream, or of the client, whose writer
\* comes first: the capture does not see a chunk that could not be written.
StreamEnds ==
    /\ pc = "stream"
    /\ Record(capture.usage, TRUE)
    /\ Goto("done")
    /\ UNCHANGED <<request, attemptVars, tokenState, wire, heard, answer, limited, streamVars>>

Next ==
    \/ Select
    \/ NoTokenLeft
    \/ Forward
    \/ ForwardFails
    \/ RefreshAfterUnauthorized
    \/ AccountReply
    \/ SetAside
    \/ StreamStarts
    \/ UpstreamWrites
    \/ CopyChunk
    \/ StreamEnds

Spec == Init /\ [][Next]_vars

----------------------------------------------------------------------------
OwnTools(q) == IF q.tools.kind = "list" THEN q.tools.list ELSE <<>>

HasKnownField(q) == q.model # "absent" \/ q.input \/ q.tools.kind # "absent"

AsksForResponse(q) ==
    /\ q.json /\ q.tools.kind # "bad"
    /\ q.type = "create" \/ (q.type = "absent" /\ HasKnownField(q))

MayUseImages(q, p) == p # "free" /\ q.model # "spark" /\ ~Contains(OwnTools(q), "image")

\* tool_injection.go: what an attempt sends is the client's request with the hosted
\* tool after the client's own tools, if the token of this very attempt may use it
\* and the client did not ask for it; otherwise it is the client's request as it
\* came.  An earlier attempt on another plan, or before a refresh, leaves no trace.
SentFitsToken ==
    wire # <<>> =>
        LET q == request.body
            adds == request.responses /\ AsksForResponse(q) /\ MayUseImages(q, wire.given.plan)
        IN IF adds
           THEN wire.body = [q EXCEPT !.tools = [kind |-> "list", list |-> OwnTools(q) \o <<"image">>]]
           ELSE wire.body = q

EndToEnd(h) == DOMAIN h.fields \ (HopByHop \union h.connection)

SameOn(names, f, g) == \A n \in names : n \in DOMAIN f /\ f[n] = g[n]

\* README.md:97 "Most request headers are preserved; `Authorization` is replaced":
\* an attempt carries the authorization, and the account, that the store holds of
\* its own token, as of the last refresh, and of no earlier one; what concerns one
\* connection only, by the fixed list or because the sender's Connection header
\* says so, crosses in neither direction, and all else does unchanged.  A client's
\* own account header is kept instead of the token's, beside the token's own
\* authorization, where README.md:76 says that the token's account is used.
HeadersFitToken ==
    /\ wire # <<>> =>
         LET kept == EndToEnd(request.headers) \ {"Authorization", "Accept-Encoding"}
             named == wire.given.account # "" /\ "Account" \notin kept
         IN /\ wire.headers["Authorization"] = wire.given.access
            /\ SameOn(kept, wire.headers, request.headers.fields)
            /\ DOMAIN wire.headers \ kept =
                  {"Authorization"} \union (IF named THEN {"Account"} ELSE {})
            /\ named => wire.headers["Account"] = wire.given.account
    /\ answer.kind \notin {"none", "unavailable", "upstreamError"} =>
         /\ DOMAIN answer.headers = EndToEnd(Reply.headers)
         /\ SameOn(DOMAIN answer.headers, answer.headers, Reply.headers.fields)

----------------------------------------------------------------------------
(* The stream, read as a whole: the lines the client was sent completely, each  *)
(* data line under the event that was named last since a blank line.            *)
LineEnds(text) == {i \in DOMAIN text : text[i] = NL}

LinesPassed ==
    SubSeq(written, 1, Cardinality(LineEnds(SubSeq(Text(written), 1, passed))))

Under(lines, i, names) ==
    \E j \in 1..(i - 1) :
        /\ lines[j].kind = "event" /\ lines[j].name \in names
        /\ \A k \in (j + 1)..(i - 1) : lines[k].kind \notin {"blank", "event"}

UsageIn(envelope) ==
    LET object == UsageObject(envelope)
    IN IF object = <<>> \/ ~HasUsageField(object[1]) THEN <<>> ELSE object

UsageLines(lines) ==
    {i \in DOMAIN lines : /\ lines[i].kind = "data"
                          /\ UsageIn(lines[i].envelope) # <<>>
                          /\ Under(lines, i, {"completed"})}

\* The usage of the last completed response.
StreamUsage(lines) ==
    LET found == UsageLines(lines)
    IN IF found = {} THEN <<>> ELSE UsageIn(lines[Max(found)].envelope)

StreamLimit(lines) ==
    \E i \in DOMAIN lines :
        lines[i].kind = "data" /\ lines[i].limit /\ Under(lines, i, {"failed", "error"})

\* How a list is about replies of heard: about each of them once, in their order.
Matchings(list, replies) ==
    {of \in Surjection(DOMAIN list, replies) :
        \A m, n \in DOMAIN list : m < n => of[m] < of[n]}

ReportsLimit(reply) ==
    reply.kind = "limit" \/ (reply.kind = "stream" /\ StreamLimit(LinesPassed))

\* A token is set aside for a limit once for a reply that reports one, also if a
\* stream reports it several times, and it does so while the stream goes on.
LimitMarkedOnce ==
    pc \in {"stream", "done"} =>
        LET reports == {i \in DOMAIN heard : ReportsLimit(heard[i].reply)}
        IN \E of \in Matchings(limited, reports) :
               \A n \in DOMAIN limited : limited[n] = heard[of[n]].token

\* A JSON body's usage, or that of the event stream it holds.
BodyUsage(body) == IF body.json THEN UsageIn(body.envelope) ELSE StreamUsage(body.lines)

UsageHeard(reply) ==
    CASE reply.kind \in {"ok", "limit"} -> BodyUsage(reply.body)
      [] reply.kind = "stream" -> StreamUsage(LinesPassed)
      [] OTHER -> <<>>

\* Each reply with usage is charged once, by what it reports, to the token it was
\* got with and under the account key that token had then: also the reply of a
\* first attempt that the client never sees, and a stream that broke off after its
\* completed response.  Of a stream that counts
\* which the client was sent, however it was cut into chunks, and nothing under
\* another event, after the event's end or on half a line.  Nothing else is
\* charged, and nothing to a token of which neither user nor account was known.
EachReplyChargedOnce ==
    pc = "done" =>
        LET charged == {i \in DOMAIN heard : /\ heard[i].key # ""
                                             /\ UsageHeard(heard[i].reply) # <<>>}
        IN \E of \in Matchings(recorded, charged) :
               \A n \in DOMAIN recorded :
                   LET h == heard[of[n]] r == recorded[n] IN
                   /\ r.token = h.token /\ r.key = h.key
                   /\ r.stream = (h.reply.kind = "stream")
                   /\ ChargedSoundly(UsageHeard(h.reply)[1], r.usage)
=============================================================================
