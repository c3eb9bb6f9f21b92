------------------------- MODULE HttpExchangeProofs -------------------------
(* Proofs about one HTTP exchange: what it sends upstream and answers the       *)
(* client, and what it charges and marks for the replies, for any tokens,       *)
(* snapshots, requests, replies and streams.                              *)
EXTENDS HttpExchange, FiniteSetTheorems, TLAPS

----------------------------------------------------------------------------
(* The loops over the additions, of which the proxy has one.  FoldLeft is a     *)
(* recursive function on the sets of indices; here these are {} and {1}.        *)

LEMMA OneIndex ==
    ASSUME NEW a
    PROVE  /\ DOMAIN <<a>> = {1} /\ SUBSET {1} = {{}, {1}} /\ {1} \ {1} = {}
           /\ <<a>>[1] = a /\ Max({1}) = 1
  BY DEF Max

\* A tool is appended unless the list has one of its type.
LEMMA AppendOne ==
    ASSUME NEW a, NEW tools
    PROVE  appendMissingTools(tools, <<a>>) =
               IF Contains(tools, a.toolType) THEN tools ELSE Append(tools, a.toolType)
<1> DEFINE
      step(list, b) == IF Contains(list, b.toolType) THEN list ELSE Append(list, b.toolType)
      S == DOMAIN <<a>>
      iter == CHOOSE iter : iter = [s \in SUBSET S |->
                IF s = {} THEN tools
                ELSE LET x == Max(s)
                     IN  IF Contains(iter[s \ {x}], <<a>>[x].toolType) THEN iter[s \ {x}]
                         ELSE Append(iter[s \ {x}], <<a>>[x].toolType)]
      rec(f) == [s \in SUBSET S |->
                IF s = {} THEN tools
                ELSE LET x == Max(s)
                     IN  IF Contains(f[s \ {x}], <<a>>[x].toolType) THEN f[s \ {x}]
                         ELSE Append(f[s \ {x}], <<a>>[x].toolType)]
      g == [s \in SUBSET S |-> IF s = {} THEN tools ELSE step(tools, a)]
<1>1. appendMissingTools(tools, <<a>>) = iter[S]
  BY Zenon DEF appendMissingTools, FoldLeft, MapThenFoldSet
<1>2. S = {1} /\ SUBSET S = {{}, {1}} /\ <<a>>[1] = a /\ {1} \ {1} = {} /\ Max({1}) = 1
  BY OneIndex
<1>3. g = rec(g)
  <2>1. g[{}] = tools
    BY <1>2
  <2>2. ASSUME NEW s \in SUBSET S PROVE g[s] = rec(g)[s]
    <3>1. CASE s = {}
      BY <3>1
    <3>2. CASE s = {1}
      BY <3>2, <1>2, <2>1
    <3> QED BY <3>1, <3>2, <1>2
  <2> QED BY <2>2
<1>4. iter = rec(iter)
  <2>1. \E f : f = rec(f)
    BY <1>3
  <2> HIDE DEF S, g
  <2> QED BY <2>1, Zenon
<1> HIDE DEF iter
<1>5. iter[{}] = tools
  BY <1>4, <1>2
<1>6. iter[{1}] = step(iter[{}], a)
  <2>1. iter[{1}] = rec(iter)[{1}]
    BY <1>4
  <2> QED BY <1>2, <2>1
<1> QED BY <1>1, <1>2, <1>5, <1>6

\* An addition is kept unless the plan or the model has no use for it.
LEMMA FilterOne ==
    ASSUME NEW a, NEW q, NEW p
    PROVE  filterResponseToolInjections(q, <<a>>, p) =
               IF skipsPlan(a, p) \/ skipsModel(a, q.model) THEN <<>> ELSE <<a>>
<1> DEFINE
      step(kept, b) ==
          IF skipsPlan(b, p) \/ skipsModel(b, q.model) THEN kept ELSE Append(kept, b)
      S == DOMAIN <<a>>
      iter == CHOOSE iter : iter = [s \in SUBSET S |->
                IF s = {} THEN <<>>
                ELSE LET x == Max(s)
                     IN  IF skipsPlan(<<a>>[x], p) \/ skipsModel(<<a>>[x], q.model)
                         THEN iter[s \ {x}] ELSE Append(iter[s \ {x}], <<a>>[x])]
      rec(f) == [s \in SUBSET S |->
                IF s = {} THEN <<>>
                ELSE LET x == Max(s)
                     IN  IF skipsPlan(<<a>>[x], p) \/ skipsModel(<<a>>[x], q.model)
                         THEN f[s \ {x}] ELSE Append(f[s \ {x}], <<a>>[x])]
      g == [s \in SUBSET S |-> IF s = {} THEN <<>> ELSE step(<<>>, a)]
<1>1. filterResponseToolInjections(q, <<a>>, p) = iter[S]
  BY Zenon DEF filterResponseToolInjections, FoldLeft, MapThenFoldSet
<1>2. S = {1} /\ SUBSET S = {{}, {1}} /\ <<a>>[1] = a /\ {1} \ {1} = {} /\ Max({1}) = 1
  BY OneIndex
<1>3. g = rec(g)
  <2>1. g[{}] = <<>>
    BY <1>2
  <2>2. ASSUME NEW s \in SUBSET S PROVE g[s] = rec(g)[s]
    <3>1. CASE s = {}
      BY <3>1
    <3>2. CASE s = {1}
      BY <3>2, <1>2, <2>1
    <3> QED BY <3>1, <3>2, <1>2
  <2> QED BY <2>2
<1>4. iter = rec(iter)
  <2>1. \E f : f = rec(f)
    BY <1>3
  <2> HIDE DEF S, g
  <2> QED BY <2>1, Zenon
<1> HIDE DEF iter
<1>5. iter[{}] = <<>>
  BY <1>4, <1>2
<1>6. iter[{1}] = step(iter[{}], a)
  <2>1. iter[{1}] = rec(iter)[{1}]
    BY <1>4
  <2> QED BY <1>2, <2>1
<1> QED BY <1>1, <1>2, <1>5, <1>6
(* What the proxy makes of a request's body and headers.                        *)

LEMMA InjectedBody ==
    ASSUME NEW q \in RequestShapes, NEW p
    PROVE  injectResponseTools(q, p) =
               IF AsksForResponse(q) /\ MayUseImages(q, p)
               THEN [q EXCEPT !.tools = [kind |-> "list", list |-> OwnTools(q) \o <<"image">>]]
               ELSE q
<1> DEFINE a == [toolType |-> "image", skipPlans |-> {"free"}, skipModels |-> {"spark"}]
           wanted == filterResponseToolInjections(q, <<a>>, p)
           with(tools) == [q EXCEPT !.tools = [kind |-> "list", list |-> tools]]
<1>1. /\ q.tools \in [kind : {"absent", "null", "bad", "list"}, list : Seq(STRING)]
      /\ q.tools.kind \in {"absent", "null", "bad", "list"} /\ q.tools.list \in Seq(STRING)
      /\ q.json \in BOOLEAN
  BY DEF RequestShapes
<1>2. wanted = IF p = "free" \/ q.model = "spark" THEN <<>> ELSE <<a>>
  <2>1. wanted = IF skipsPlan(a, p) \/ skipsModel(a, q.model) THEN <<>> ELSE <<a>>
    BY FilterOne
  <2>2. skipsPlan(a, p) <=> p = "free"
    BY DEF skipsPlan
  <2>3. skipsModel(a, q.model) <=> q.model = "spark"
    BY DEF skipsModel
  <2> QED BY <2>1, <2>2, <2>3
<1>3. <<a>> # <<>> /\ ToolTypes(<<a>>) = <<"image">>
  BY DEF ToolTypes
<1>4. appendMissingTools(q.tools.list, <<a>>) =
        IF Contains(q.tools.list, "image") THEN q.tools.list ELSE q.tools.list \o <<"image">>
  <2>1. Append(q.tools.list, "image") = q.tools.list \o <<"image">>
    BY <1>1
  <2>2. appendMissingTools(q.tools.list, <<a>>) =
          IF Contains(q.tools.list, a.toolType) THEN q.tools.list
          ELSE Append(q.tools.list, a.toolType)
    BY AppendOne
  <2> QED BY <2>1, <2>2
<1>5. canInjectResponseTools(q) <=> q.type = "create" \/ (q.type = "absent" /\ HasKnownField(q))
  BY DEF canInjectResponseTools, HasKnownField
<1>6. q.tools.kind = "list" => with(q.tools.list) = q
  <2>1. q.tools.kind = "list" => q.tools = [kind |-> "list", list |-> q.tools.list]
    BY <1>1
  <2> QED BY <2>1 DEF RequestShapes
<1>7. q.tools.kind # "list" => OwnTools(q) = <<>> /\ ~Contains(OwnTools(q), "image")
  BY DEF OwnTools, Contains
<1>8. <<>> \o <<"image">> = <<"image">>
  OBVIOUS
<1>9. injectResponseTools(q, p) =
        IF ~q.json \/ ~canInjectResponseTools(q) \/ wanted = <<>> THEN q
        ELSE CASE q.tools.kind \in {"absent", "null"} -> with(ToolTypes(wanted))
               [] q.tools.kind = "list" -> with(appendMissingTools(q.tools.list, wanted))
               [] OTHER -> q
  BY DEF injectResponseTools, injectTools, DefaultInjections
<1> HIDE DEF with, wanted, a
<1>10. CASE ~q.json \/ ~canInjectResponseTools(q) \/ wanted = <<>>
  BY <1>2, <1>3, <1>5, <1>9, <1>10 DEF AsksForResponse, MayUseImages
<1>11. CASE q.json /\ canInjectResponseTools(q) /\ wanted # <<>>
  <2>1. wanted = <<a>> /\ p # "free" /\ q.model # "spark"
    BY <1>2, <1>11
  <2>2. CASE q.tools.kind \in {"absent", "null"}
    <3>1. injectResponseTools(q, p) = with(<<"image">>)
      BY <1>3, <1>9, <1>11, <2>1, <2>2
    <3>2. AsksForResponse(q) /\ MayUseImages(q, p)
      BY <1>5, <1>7, <1>11, <2>1, <2>2 DEF AsksForResponse, MayUseImages
    <3> QED BY <1>7, <1>8, <2>2, <3>1, <3>2 DEF with
  <2>3. CASE q.tools.kind = "list"
    <3>1. injectResponseTools(q, p) = with(appendMissingTools(q.tools.list, <<a>>))
      BY <1>9, <1>11, <2>1, <2>3
    <3>2. AsksForResponse(q) /\ OwnTools(q) = q.tools.list
      BY <1>5, <1>11, <2>3 DEF AsksForResponse, OwnTools
    <3>3. MayUseImages(q, p) <=> ~Contains(q.tools.list, "image")
      BY <2>1, <3>2 DEF MayUseImages
    <3> QED BY <1>4, <1>6, <2>3, <3>1, <3>2, <3>3 DEF with
  <2>4. CASE q.tools.kind = "bad"
    BY <1>9, <1>11, <2>4 DEF AsksForResponse
  <2> QED BY <1>1, <2>2, <2>3, <2>4
<1> QED BY <1>10, <1>11

LEMMA EndToEndHeaders ==
    ASSUME NEW h
    PROVE  /\ DOMAIN cloneForwardHeaders(h) = EndToEnd(h)
           /\ SameOn(EndToEnd(h), cloneForwardHeaders(h), h.fields)
  BY DEF cloneForwardHeaders, Without, hopByHopHeaderNames, EndToEnd, SameOn

\* What is set in headers is there, and the rest is as it was.
IsSet(result, fields, name, value) ==
    /\ DOMAIN result = DOMAIN fields \union {name}
    /\ result[name] = value
    /\ \A n \in DOMAIN fields \ {name} : result[n] = fields[n]

LEMMA SetOne ==
    ASSUME NEW fields, NEW name, NEW value
    PROVE  IsSet(Set(fields, name, value), fields, name, value)
  BY DEF Set, Replaced, IsSet

\* The headers an attempt sends for the client's, a token and its account.
Kept(h) == EndToEnd(h) \ {"Authorization", "Accept-Encoding"}

Names(h, a) == a # "" /\ "Account" \notin Kept(h)

Fits(sent, h, t, a) ==
    /\ sent["Authorization"] = t
    /\ SameOn(Kept(h), sent, h.fields)
    /\ DOMAIN sent \ Kept(h) =
          {"Authorization"} \union (IF Names(h, a) THEN {"Account"} ELSE {})
    /\ Names(h, a) => sent["Account"] = a

LEMMA ForwardedHeaders ==
    ASSUME NEW h, NEW t, NEW a
    PROVE  Fits(forwardHeaders(h, t, a), h, t, a)
<1> DEFINE clean == Without(cloneForwardHeaders(h), {"Accept-Encoding"})
           signed == Set(clean, "Authorization", t)
           sent == forwardHeaders(h, t, a)
<1>1. /\ DOMAIN clean = EndToEnd(h) \ {"Accept-Encoding"}
      /\ SameOn(DOMAIN clean, clean, h.fields)
  BY EndToEndHeaders DEF Without, SameOn
<1>2. sent = WithAccount(signed, a)
  BY DEF forwardHeaders
<1> HIDE DEF clean, sent
<1>3. /\ DOMAIN signed = Kept(h) \union {"Authorization"} /\ signed["Authorization"] = t
      /\ SameOn(Kept(h), signed, h.fields)
  <2>1. IsSet(signed, clean, "Authorization", t)
    BY SetOne
  <2> HIDE DEF signed
  <2> QED BY <1>1, <2>1 DEF SameOn, Kept, IsSet
<1> HIDE DEF signed
<1>4. CASE Names(h, a)
  <2>1. sent = Set(signed, "Account", a)
    BY <1>2, <1>3, <1>4 DEF WithAccount, Names
  <2>2. IsSet(sent, signed, "Account", a)
    BY <2>1, SetOne
  <2>3. Fits(sent, h, t, a)
    BY <1>3, <1>4, <2>2 DEF SameOn, Fits, Names, Kept, IsSet
  <2> QED BY <2>3 DEF sent
<1>5. CASE ~Names(h, a)
  <2>1. sent = signed
    BY <1>2, <1>3, <1>5 DEF WithAccount, Names
  <2>2. Fits(sent, h, t, a)
    BY <1>3, <1>5, <2>1 DEF SameOn, Fits, Kept
  <2> QED BY <2>2 DEF sent
<1> QED BY <1>4, <1>5

LEMMA AnsweredHeaders ==
    ASSUME NEW h
    PROVE  /\ DOMAIN copyHeaders(NoHeaders, h) = EndToEnd(h)
           /\ SameOn(EndToEnd(h), copyHeaders(NoHeaders, h), h.fields)
  BY EndToEndHeaders DEF copyHeaders, Replaced, NoHeaders, SameOn

----------------------------------------------------------------------------
(* The invariant: what was sent last was made from the client's request, and    *)
(* what the client was answered from the last reply.                            *)

Undecided == {"select", "send", "resend", "refresh", "setAside", "account"}

RequestKept == pc \in Undecided => request \in Requests

\* The handler's snapshot is what the store last said of the token, as a whole,
\* also after a refresh: so the plan, the access token and the account agree.
SnapshotIsGiven ==
    pc \in Undecided \ {"select"} => snapshot = given /\ given \in Snapshots

Sent(g) ==
    [given |-> g, body |-> responseBodyForToken(request, g.plan),
     headers |-> forwardHeaders(request.headers, g.access, g.account)]

WireMade == wire # <<>> => request \in Requests /\ \E g \in Snapshots : wire = Sent(g)

ErrorAnswers == {"none", "unavailable", "upstreamError"}

AnswerMade ==
    answer.kind \notin ErrorAnswers =>
        /\ pc \in {"stream", "done"}
        /\ answer.headers = copyHeaders(NoHeaders, Reply.headers)

ExchangeInv == RequestKept /\ SnapshotIsGiven /\ WireMade /\ AnswerMade

LEMMA ExchangeInit == Init => ExchangeInv
<1> SUFFICES ASSUME Init PROVE ExchangeInv
  OBVIOUS
<1>1. request \in Requests /\ wire = <<>> /\ answer.kind = "none" /\ pc = "select"
  BY DEF Init
<1> QED
  BY <1>1 DEF ExchangeInv, RequestKept, SnapshotIsGiven, WireMade, AnswerMade, ErrorAnswers

LEMMA ExchangeStep == ExchangeInv /\ [Next]_vars => ExchangeInv'
<1> SUFFICES ASSUME ExchangeInv, [Next]_vars PROVE ExchangeInv'
  OBVIOUS
<1> USE DEF ExchangeInv
<1>1. ASSUME UNCHANGED <<request, wire, answer, heard>>, pc' \in Undecided => pc \in Undecided,
             pc \in {"stream", "done"} => pc' \in {"stream", "done"}, SnapshotIsGiven'
      PROVE  ExchangeInv'
  BY <1>1 DEF RequestKept, WireMade, AnswerMade, Reply, Sent
<1>2. ASSUME Forget, pc' \in {"stream", "done"}, UNCHANGED heard,
             answer'.kind \in ErrorAnswers \/ WriteHead(Reply)
      PROVE  ExchangeInv'
  <2>1. wire' = <<>> /\ pc' \notin Undecided
    BY <1>2 DEF Forget, Undecided
  <2>2. AnswerMade'
    BY <1>2 DEF WriteHead, AnswerMade, Reply
  <2> QED BY <2>1, <2>2 DEF RequestKept, SnapshotIsGiven, WireMade
<1>3. ASSUME AnswerReply, UNCHANGED heard PROVE ExchangeInv'
  BY <1>2, <1>3 DEF AnswerReply, Goto
<1>4. ASSUME NEW kind \in ErrorAnswers, AnswerError(kind), UNCHANGED heard PROVE ExchangeInv'
  BY <1>2, <1>4 DEF AnswerError, Goto
<1>5. CASE Select
  <2>1. SnapshotIsGiven'
    BY <1>5 DEF Select, SnapshotIsGiven
  <2> QED BY <1>1, <1>5, <2>1 DEF Select, Goto, Remember, Undecided
<1>6. CASE NoTokenLeft
  <2>1. CASE heard = <<>>
    BY <1>4, <1>6, <2>1 DEF NoTokenLeft, ErrorAnswers
  <2>2. CASE heard # <<>>
    BY <1>3, <1>6, <2>2 DEF NoTokenLeft
  <2> QED BY <2>1, <2>2
<1>7. CASE Forward
  <2>1. /\ pc \in Undecided \ {"select"} /\ UNCHANGED <<request, snapshot, given, answer>>
        /\ snapshot = given /\ given \in Snapshots /\ wire' = Sent(given)
    BY <1>7 DEF Forward, SnapshotIsGiven, Undecided, tokenState, Sent
  <2>2. RequestKept' /\ SnapshotIsGiven' /\ WireMade'
    BY <2>1 DEF RequestKept, SnapshotIsGiven, WireMade, Sent
  <2>3. answer.kind \in ErrorAnswers
    BY <2>1 DEF AnswerMade, Undecided
  <2> QED BY <2>1, <2>2, <2>3 DEF AnswerMade
<1>8. CASE ForwardFails
  BY <1>4, <1>8 DEF ForwardFails, ErrorAnswers
<1>9. CASE RefreshAfterUnauthorized
  <2>1. SnapshotIsGiven'
    BY <1>9 DEF RefreshAfterUnauthorized, Renewed, tokenState, SnapshotIsGiven, Undecided
  <2> QED BY <1>1, <1>9, <2>1 DEF RefreshAfterUnauthorized, Goto, Remember, Undecided
<1>10. CASE AccountReply
  <2>1. CASE AnswerReply
    BY <1>3, <1>10, <2>1 DEF AccountReply
  <2>2. CASE ~ AnswerReply
    <3>1. SnapshotIsGiven'
      BY <1>10, <2>2 DEF AccountReply, tokenState, SnapshotIsGiven, Undecided
    <3> QED BY <1>1, <1>10, <2>2, <3>1 DEF AccountReply, Goto, Remember, Undecided
  <2> QED BY <2>1, <2>2
<1>11. CASE SetAside
  <2>1. CASE AnswerReply
    BY <1>3, <1>11, <2>1 DEF SetAside
  <2>2. CASE ~ AnswerReply
    <3>1. SnapshotIsGiven'
      BY <1>11, <2>2 DEF SetAside, Goto, SnapshotIsGiven
    <3> QED BY <1>1, <1>11, <2>2, <3>1 DEF SetAside, Goto, Remember, Undecided
  <2> QED BY <2>1, <2>2
<1>12. CASE StreamStarts
  BY <1>2, <1>12 DEF StreamStarts, Goto
<1>13. CASE UpstreamWrites \/ CopyChunk
  <2>1. SnapshotIsGiven'
    BY <1>13 DEF UpstreamWrites, CopyChunk, SnapshotIsGiven, Undecided
  <2> QED BY <1>1, <1>13, <2>1 DEF UpstreamWrites, CopyChunk
<1>14. CASE StreamEnds
  BY <1>1, <1>14 DEF StreamEnds, Goto, SnapshotIsGiven, Undecided
<1>15. CASE UNCHANGED vars
  <2>1. SnapshotIsGiven'
    BY <1>15 DEF vars, tokenState, SnapshotIsGiven
  <2> QED BY <1>1, <1>15, <2>1 DEF vars
<1> QED
  BY <1>5, <1>6, <1>7, <1>8, <1>9, <1>10, <1>11, <1>12, <1>13, <1>14, <1>15 DEF Next

LEMMA Invariance == Spec => []ExchangeInv
  BY ExchangeInit, ExchangeStep, PTL DEF Spec

\* Each attempt sends the client's body, with the hosted tool where this very
\* attempt's token may use it and the client did not ask for it.
THEOREM BodyFitsToken == Spec => []SentFitsToken
<1>1. ExchangeInv => SentFitsToken
  <2> SUFFICES ASSUME ExchangeInv, wire # <<>> PROVE SentFitsToken
    BY DEF SentFitsToken
  <2>1. PICK g \in Snapshots : wire = Sent(g)
    BY DEF ExchangeInv, WireMade
  <2>2. wire.given = g /\ wire.body = responseBodyForToken(request, g.plan)
    BY <2>1 DEF Sent
  <2>3. request.body \in RequestShapes
    BY RequestsAssumption DEF ExchangeInv, WireMade
  <2> QED BY <2>2, <2>3, InjectedBody DEF SentFitsToken, responseBodyForToken
<1> QED BY <1>1, Invariance, PTL

\* Each attempt carries the authorization and the account that the store gave of its
\* token, of which a refresh may bring others; hop-by-hop headers cross in neither
\* direction, and all others do unchanged.
THEOREM HeadersFit == Spec => []HeadersFitToken
<1>1. ExchangeInv => HeadersFitToken
  <2> SUFFICES ASSUME ExchangeInv PROVE HeadersFitToken
    OBVIOUS
  <2>1. ASSUME wire # <<>>
        PROVE  Fits(wire.headers, request.headers, wire.given.access, wire.given.account)
    <3>1. PICK g \in Snapshots : wire = Sent(g)
      BY <2>1 DEF ExchangeInv, WireMade
    <3>2. /\ wire.given = g
          /\ wire.headers = forwardHeaders(request.headers, g.access, g.account)
      BY <3>1 DEF Sent
    <3> QED BY <3>2, ForwardedHeaders
  <2>2. ASSUME answer.kind \notin ErrorAnswers
        PROVE  /\ DOMAIN answer.headers = EndToEnd(Reply.headers)
               /\ SameOn(DOMAIN answer.headers, answer.headers, Reply.headers.fields)
    BY <2>2, AnsweredHeaders DEF ExchangeInv, AnswerMade
  <2> QED BY <2>1, <2>2 DEF HeadersFitToken, ErrorAnswers, Fits, Kept, Names
<1> QED BY <1>1, Invariance, PTL

----------------------------------------------------------------------------
(* A chunk is read one symbol after the other.                                  *)

Symbolwise == INSTANCE FoldFacts WITH Op <- ReadSymbol

LEMMA WriteFolds ==
    ASSUME NEW c, NEW s
    PROVE  WriteChunk(c, s) = Symbolwise!Fold(c, s)
  BY DEF WriteChunk, Symbolwise!Fold, FoldLeft, Symbolwise!FoldLeft,
         MapThenFoldSet, Symbolwise!MapThenFoldSet, Max, Symbolwise!Max

LEMMA Greatest ==
    ASSUME NEW n \in Nat, NEW S, S \subseteq 1..n, S # {}
    PROVE  Max(S) \in S /\ \A k \in S : k <= Max(S)
  BY Symbolwise!Greatest DEF Max, Symbolwise!Max

LEMMA WriteNothing ==
    ASSUME NEW c
    PROVE  WriteChunk(c, <<>>) = c
  BY WriteFolds, Symbolwise!FoldNothing

\* WriteChunk, one symbol more.
LEMMA WriteAppend ==
    ASSUME NEW c, NEW S, NEW s \in Seq(S), NEW x \in S
    PROVE  WriteChunk(c, Append(s, x)) = ReadSymbol(WriteChunk(c, s), x)
  BY WriteFolds, Symbolwise!FoldAppend

----------------------------------------------------------------------------
(* A text is the symbols of one line after the other.                           *)

SymbolSet == [line : LineSet, half : 0..2]

\* The symbols of a line.
LEMMA SymbolsOfLine ==
    ASSUME NEW line \in LineSet
    PROVE  /\ Symbols(line) \in Seq(SymbolSet)
           /\ line = Blank => Symbols(line) = <<NL>>
           /\ line # Blank => Symbols(line) = <<Half(line, 1), Half(line, 2), NL>>
<1>1. NL \in SymbolSet /\ Half(line, 1) \in SymbolSet /\ Half(line, 2) \in SymbolSet
  <2>1. Blank \in LineSet
    BY DEF LineSet
  <2> HIDE DEF LineSet
  <2> QED BY <2>1 DEF NL, Half, SymbolSet
<1> HIDE DEF SymbolSet
<1> QED BY <1>1 DEF Symbols

Parts(lines) == [i \in DOMAIN lines |-> Symbols(lines[i])]

FlattensTo(f, parts, n) ==
    f = [i \in 1..n |-> IF i = 1 THEN parts[i] ELSE f[i - 1] \o parts[i]]

\* FlattenSeq has a value for any number of parts.
LEMMA FlattenExists ==
    ASSUME NEW parts, NEW m \in Nat
    PROVE  \E f : FlattensTo(f, parts, m)
<1> DEFINE T == {n \in Nat : \E f : FlattensTo(f, parts, n)}
<1>1. 0 \in T
  <2>1. FlattensTo([i \in 1..0 |-> <<>>], parts, 0)
    BY DEF FlattensTo
  <2> QED BY <2>1
<1>2. ASSUME NEW n \in Nat, n \in T PROVE n + 1 \in T
  <2>1. PICK f : FlattensTo(f, parts, n)
    BY <1>2
  <2> DEFINE g == [i \in 1..(n + 1) |-> IF i = 1 THEN parts[i] ELSE f[i - 1] \o parts[i]]
  <2>2. ASSUME NEW i \in 1..n PROVE g[i] = f[i]
    <3>1. i \in 1..(n + 1)
      OBVIOUS
    <3>2. f[i] = IF i = 1 THEN parts[i] ELSE f[i - 1] \o parts[i]
      BY <2>1, Zenon DEF FlattensTo
    <3> QED BY <3>1, <3>2, Zenon
  <2>3. ASSUME NEW i \in 1..(n + 1), i # 1 PROVE f[i - 1] = g[i - 1]
    <3>1. i - 1 \in 1..n
      BY <2>3
    <3> QED BY <2>2, <3>1
  <2>4. FlattensTo(g, parts, n + 1)
    BY <2>3, Zenon DEF FlattensTo
  <2> QED BY <2>4
<1>3. Nat \subseteq T
  <2> HIDE DEF T
  <2> QED BY <1>1, <1>2, Symbolwise!Induction
<1> QED BY <1>3

LEMMA FlattenNext ==
    ASSUME NEW parts, NEW n \in Nat, NEW f, FlattensTo(f, parts, n)
    PROVE  \A i \in 1..n : f[i] = IF i = 1 THEN parts[i] ELSE f[i - 1] \o parts[i]
  BY Zenon DEF FlattensTo

LEMMA FlattensAgree ==
    ASSUME NEW p, NEW q, NEW n \in Nat, NEW m \in Nat, n <= m,
           NEW f, NEW g, FlattensTo(f, p, n), FlattensTo(g, q, m),
           \A i \in 1..n : p[i] = q[i]
    PROVE  \A i \in 1..n : f[i] = g[i]
<1> DEFINE T == {i \in Nat : i \in 1..n => f[i] = g[i]}
<1>1. \A i \in 1..n : f[i] = IF i = 1 THEN p[i] ELSE f[i - 1] \o p[i]
  BY FlattenNext
<1>2. \A i \in 1..m : g[i] = IF i = 1 THEN q[i] ELSE g[i - 1] \o q[i]
  BY FlattenNext
<1>3. 0 \in T
  OBVIOUS
<1>4. ASSUME NEW i \in Nat, i \in T PROVE i + 1 \in T
  <2> SUFFICES ASSUME i + 1 \in 1..n PROVE f[i + 1] = g[i + 1]
    OBVIOUS
  <2>1. i + 1 \in 1..m /\ p[i + 1] = q[i + 1]
    OBVIOUS
  <2>2. (i + 1) - 1 = i /\ (i + 1 # 1 => f[i] = g[i])
    BY <1>4
  <2> QED BY <1>1, <1>2, <2>1, <2>2
<1>5. Nat \subseteq T
  <2> HIDE DEF T
  <2> QED BY <1>3, <1>4, Symbolwise!Induction
<1> QED BY <1>5

LEMMA TextIs ==
    ASSUME NEW S, NEW w \in Seq(S), w # <<>>
    PROVE  \E f : FlattensTo(f, Parts(w), Len(w)) /\ Text(w) = f[Len(w)]
<1> DEFINE parts == Parts(w)
           flat == CHOOSE f : FlattensTo(f, parts, Len(parts))
<1>1. Len(w) \in Nat /\ DOMAIN w = 1..Len(w) /\ Len(w) # 0
  OBVIOUS
<1>2. Len(parts) = Len(w)
  BY <1>1 DEF Parts
<1> HIDE DEF parts
<1>3. FlattensTo(flat, parts, Len(parts))
  BY <1>1, <1>2, FlattenExists
<1>4. FlattenSeq(parts) = flat[Len(parts)]
  BY <1>1, <1>2, Zenon DEF FlattenSeq, FlattensTo
<1>5. Text(w) = FlattenSeq(parts)
  BY DEF Text, Parts, parts
<1> QED BY <1>2, <1>3, <1>4, <1>5 DEF parts

\* No lines have no text.
LEMMA TextOfNone == Text(<<>>) = <<>>
<1>1. Parts(<<>>) = <<>> /\ Len(<<>>) = 0
  BY DEF Parts
<1> QED BY <1>1 DEF Text, Parts, FlattenSeq

\* Another line adds its symbols.
LEMMA TextOfOneMore ==
    ASSUME NEW w \in Seq(LineSet), NEW line \in LineSet
    PROVE  Text(Append(w, line)) = Text(w) \o Symbols(line)
<1> DEFINE r == Append(w, line)
           n == Len(w)
<1>1. /\ n \in Nat /\ r \in Seq(LineSet) /\ r # <<>> /\ Len(r) = n + 1 /\ r[n + 1] = line
      /\ \A i \in 1..n : r[i] = w[i] /\ DOMAIN r = 1..(n + 1) /\ DOMAIN w = 1..n
  <2> HIDE DEF r
  <2>1. r = Append(w, line)
    BY DEF r
  <2> QED BY <2>1
<1> HIDE DEF r
<1>2. PICK g : FlattensTo(g, Parts(r), n + 1) /\ Text(r) = g[n + 1]
  <2> HIDE DEF n
  <2> QED BY <1>1, TextIs
<1>3. /\ \A i \in 1..n : Parts(w)[i] = Parts(r)[i]
      /\ Parts(r)[n + 1] = Symbols(line)
  <2>1. DOMAIN r = 1..(n + 1) /\ DOMAIN w = 1..n
    BY <1>1
  <2> HIDE DEF n
  <2> QED BY <1>1, <2>1 DEF Parts
<1>4. \A i \in 1..(n + 1) : g[i] = IF i = 1 THEN Parts(r)[i] ELSE g[i - 1] \o Parts(r)[i]
  <2> HIDE DEF n
  <2>1. n + 1 \in Nat
    BY <1>1
  <2> QED BY <1>2, <2>1, FlattenNext
<1>5. CASE w = <<>>
  <2>1. n = 0 /\ Text(w) = <<>>
    BY <1>5, TextOfNone
  <2>2. Text(r) = Symbols(line)
    BY <1>2, <1>3, <1>4, <2>1
  <2> QED BY <2>1, <2>2, SymbolsOfLine DEF r
<1>6. CASE w # <<>>
  <2>1. PICK f : FlattensTo(f, Parts(w), n) /\ Text(w) = f[n]
    BY <1>6, TextIs
  <2>2. n \in 1..n /\ n + 1 \in Nat /\ n <= n + 1 /\ n + 1 \in 1..(n + 1) /\ n + 1 # 1
        /\ (n + 1) - 1 = n
    BY <1>6
  <2> HIDE DEF n
  <2>5. n \in Nat /\ \A i \in 1..n : Parts(w)[i] = Parts(r)[i]
    BY <1>1, <1>3
  <2>6. \A i \in 1..n : f[i] = g[i]
    BY <1>2, <2>1, <2>2, <2>5, FlattensAgree
  <2>3. f[n] = g[n]
    BY <2>2, <2>6
  <2>4. g[n + 1] = g[n] \o Parts(r)[n + 1]
    BY <1>4, <2>2
  <2> QED BY <1>2, <1>3, <2>1, <2>3, <2>4 DEF r
<1> QED BY <1>5, <1>6

\* The first m + 1 lines are the first m and the next.
LEMMA OneMoreLine ==
    ASSUME NEW S, NEW w \in Seq(S), NEW m \in Nat, m < Len(w)
    PROVE  /\ SubSeq(w, 1, m) \in Seq(S) /\ Len(SubSeq(w, 1, m)) = m
           /\ SubSeq(w, 1, m + 1) = Append(SubSeq(w, 1, m), w[m + 1]) /\ w[m + 1] \in S
  OBVIOUS

\* A text is a sequence of symbols.
LEMMA TextType ==
    ASSUME NEW w \in Seq(LineSet)
    PROVE  Text(w) \in Seq(SymbolSet)
<1> DEFINE T == {n \in Nat : n <= Len(w) => Text(SubSeq(w, 1, n)) \in Seq(SymbolSet)}
<1>1. 0 \in T
  <2>1. SubSeq(w, 1, 0) = <<>> /\ <<>> \in Seq(SymbolSet)
    OBVIOUS
  <2> QED BY <2>1, TextOfNone
<1>2. ASSUME NEW n \in Nat, n \in T PROVE n + 1 \in T
  <2> SUFFICES ASSUME n + 1 <= Len(w) PROVE Text(SubSeq(w, 1, n + 1)) \in Seq(SymbolSet)
    OBVIOUS
  <2> DEFINE v == SubSeq(w, 1, n)
  <2>1. /\ v \in Seq(LineSet) /\ SubSeq(w, 1, n + 1) = Append(v, w[n + 1])
        /\ w[n + 1] \in LineSet
    <3>1. n < Len(w)
      OBVIOUS
    <3> QED BY <3>1, OneMoreLine
  <2>2. Text(v) \in Seq(SymbolSet)
    BY <1>2
  <2> HIDE DEF v
  <2>3. Text(Append(v, w[n + 1])) = Text(v) \o Symbols(w[n + 1])
    BY <2>1, TextOfOneMore
  <2>4. Symbols(w[n + 1]) \in Seq(SymbolSet)
    BY <2>1, SymbolsOfLine
  <2>5. Text(v) \o Symbols(w[n + 1]) \in Seq(SymbolSet)
    <3> HIDE DEF SymbolSet
    <3> QED BY <2>2, <2>4
  <2> QED BY <2>1, <2>3, <2>5
<1>3. Nat \subseteq T
  <2> HIDE DEF T
  <2> QED BY <1>1, <1>2, Symbolwise!Induction
<1>4. SubSeq(w, 1, Len(w)) = w /\ Len(w) \in Nat /\ Len(w) <= Len(w)
  OBVIOUS
<1>5. Len(w) \in T
  BY <1>3, <1>4
<1> QED BY <1>4, <1>5

LEMMA TextOfNext ==
    ASSUME NEW w \in Seq(LineSet), NEW m \in Nat, m < Len(w)
    PROVE  Text(SubSeq(w, 1, m + 1)) = Text(SubSeq(w, 1, m)) \o Symbols(w[m + 1])
<1>1. /\ SubSeq(w, 1, m) \in Seq(LineSet) /\ w[m + 1] \in LineSet
      /\ SubSeq(w, 1, m + 1) = Append(SubSeq(w, 1, m), w[m + 1])
  BY OneMoreLine
<1>2. Text(Append(SubSeq(w, 1, m), w[m + 1])) = Text(SubSeq(w, 1, m)) \o Symbols(w[m + 1])
  BY <1>1, TextOfOneMore
<1> QED BY <1>1, <1>2

\* One text begins with the other.
Begins(text, begin) ==
    /\ Len(begin) <= Len(text)
    /\ \A i \in 1..Len(begin) : text[i] = begin[i]

LEMMA TextBegins ==
    ASSUME NEW w \in Seq(LineSet), NEW m \in Nat, m <= Len(w)
    PROVE  Begins(Text(w), Text(SubSeq(w, 1, m)))
<1> DEFINE upTo(n) == Text(SubSeq(w, 1, n))
           T == {d \in Nat : m + d <= Len(w) => Begins(upTo(m + d), upTo(m))}
<1>1. \A n \in Nat : n <= Len(w) => upTo(n) \in Seq(SymbolSet)
  <2> SUFFICES ASSUME NEW n \in Nat, n <= Len(w) PROVE upTo(n) \in Seq(SymbolSet)
    OBVIOUS
  <2>1. SubSeq(w, 1, n) \in Seq(LineSet)
    OBVIOUS
  <2> QED BY <2>1, TextType
<1>2. 0 \in T
  <2>1. m + 0 = m /\ upTo(m) \in Seq(SymbolSet)
    BY <1>1
  <2> HIDE DEF upTo
  <2> QED BY <2>1 DEF Begins
<1>3. ASSUME NEW d \in Nat, d \in T PROVE d + 1 \in T
  <2> SUFFICES ASSUME m + (d + 1) <= Len(w) PROVE Begins(upTo(m + (d + 1)), upTo(m))
    OBVIOUS
  <2> DEFINE n == m + d
  <2>1. /\ n \in Nat /\ n < Len(w) /\ m + (d + 1) = n + 1
        /\ upTo(n) \in Seq(SymbolSet) /\ upTo(m) \in Seq(SymbolSet)
    BY <1>1
  <2>2. Begins(upTo(n), upTo(m))
    BY <1>3, <2>1
  <2>3. upTo(n + 1) = upTo(n) \o Symbols(w[n + 1]) /\ Symbols(w[n + 1]) \in Seq(SymbolSet)
    <3> HIDE DEF n
    <3> QED BY <2>1, TextOfNext, OneMoreLine, SymbolsOfLine
  <2> HIDE DEF n, upTo, SymbolSet
  <2>4. Begins(upTo(n) \o Symbols(w[n + 1]), upTo(m))
    BY <2>1, <2>2, <2>3 DEF Begins
  <2> QED BY <2>1, <2>3, <2>4
<1>4. Nat \subseteq T
  <2> HIDE DEF T
  <2> QED BY <1>2, <1>3, Symbolwise!Induction
<1>5. Len(w) - m \in T /\ m + (Len(w) - m) = Len(w) /\ SubSeq(w, 1, Len(w)) = w
  <2>1. Len(w) - m \in Nat
    OBVIOUS
  <2> HIDE DEF T
  <2> QED BY <1>4, <2>1
<1>6. m + (Len(w) - m) <= Len(w)
  OBVIOUS
<1>7. Begins(upTo(m + (Len(w) - m)), upTo(m))
  <2> HIDE DEF upTo
  <2> QED BY <1>5, <1>6
<1> QED BY <1>5, <1>7, Zenon

\* The symbols that follow the first m lines are those of the next.
LEMMA NextSymbols ==
    ASSUME NEW w \in Seq(LineSet), NEW m \in Nat, m < Len(w)
    PROVE  LET k == Len(Text(SubSeq(w, 1, m))) next == Symbols(w[m + 1]) IN
           /\ k \in Nat /\ k + Len(next) <= Len(Text(w))
           /\ \A j \in 1..Len(next) : Text(w)[k + j] = next[j]
           /\ Len(Text(SubSeq(w, 1, m + 1))) = k + Len(next)
<1> DEFINE before == Text(SubSeq(w, 1, m))
           after == Text(SubSeq(w, 1, m + 1))
           next == Symbols(w[m + 1])
<1>1. /\ before \in Seq(SymbolSet) /\ next \in Seq(SymbolSet) /\ Text(w) \in Seq(SymbolSet)
      /\ after = before \o next
  BY OneMoreLine, TextType, TextOfNext, SymbolsOfLine
<1>2. Begins(Text(w), after)
  <2>1. m + 1 \in Nat /\ m + 1 <= Len(w)
    OBVIOUS
  <2> QED BY <2>1, TextBegins
<1> HIDE DEF before, after, next, SymbolSet
<1>3. /\ Len(after) = Len(before) + Len(next) /\ Len(before) \in Nat /\ Len(next) \in Nat
      /\ \A j \in 1..Len(next) : after[Len(before) + j] = next[j]
  BY <1>1
<1>4. \A j \in 1..Len(next) : Text(w)[Len(before) + j] = next[j]
  BY <1>2, <1>3 DEF Begins
<1> QED BY <1>2, <1>3, <1>4 DEF Begins, before, after, next

\* The next symbol may be the end of another line.
LEMMA LineEndsOfNext ==
    ASSUME NEW S, NEW t \in Seq(S), NEW k \in Nat, k < Len(t)
    PROVE  LineEnds(SubSeq(t, 1, k + 1)) =
              LineEnds(SubSeq(t, 1, k)) \union (IF t[k + 1] = NL THEN {k + 1} ELSE {})
  BY DEF LineEnds

----------------------------------------------------------------------------
(* What a capture knows of the lines it has read.                               *)

Usages == [input : Int, cached : Int, output : Int, reasoning : Int]

\* A usage object, or none, and what is charged for it.
Charges(said, usage) ==
    /\ said = <<>> <=> usage = <<>>
    /\ usage # <<>> => ChargedSoundly(said[1], usage[1])

\* What Write may leave behind.
CaptureSet ==
    [buffer : Seq(SymbolSet), currentEvent : EventNames \union {"none"}, usage : Optional(Usages),
     limitFound : BOOLEAN, onLimitCalls : {0, 1}]

\* The capture has of these lines the event they end under, the usage and the limit.
Knows(c, lines) ==
    /\ \A names \in {{"completed"}, {"failed", "error"}} :
          Under(lines, Len(lines) + 1, names) <=> c.currentEvent \in names
    /\ Charges(StreamUsage(lines), c.usage)
    /\ c.limitFound <=> StreamLimit(lines)
    /\ c.onLimitCalls = IF c.limitFound THEN 1 ELSE 0

LEMMA Deref ==
    ASSUME NEW v \in Optional(Int)
    PROVE  derefInt64(v) \in Int
  BY DEF Optional, derefInt64

\* What is charged for an envelope, whichever counts it has.
LEMMA ChargedAsSaid ==
    ASSUME NEW envelope \in Envelopes
    PROVE  /\ Charges(UsageIn(envelope), usageFromEnvelope(envelope))
           /\ usageFromEnvelope(envelope) \in Optional(Usages)
<1> DEFINE object == UsageObject(envelope)
<1>1. object \in Optional(Counts)
  BY DEF Envelopes, UsageObject
<1>2. CASE object = <<>> \/ ~HasUsageField(object[1])
  BY <1>2 DEF usageFromEnvelope, UsageIn, Charges, Optional
<1>3. CASE ~(object = <<>> \/ ~HasUsageField(object[1]))
  <2> DEFINE u == object[1]
             said == UsageIn(envelope)
             usage == usageFromEnvelope(envelope)
             charged == [input |-> InputTokens(u), cached |-> CachedTokens(u),
                         output |-> NonNegative(derefInt64(u.output)),
                         reasoning |-> NonNegative(derefInt64(u.reasoning))]
  <2>1. u \in Counts /\ said = object /\ object # <<>>
    BY <1>1, <1>3 DEF UsageIn, Optional
  <2>2. usage = <<charged>>
    BY <1>3 DEF usageFromEnvelope
  <2>3. /\ derefInt64(u.input) \in Int /\ derefInt64(u.cached) \in Int
        /\ derefInt64(u.detail) \in Int /\ derefInt64(u.output) \in Int
        /\ derefInt64(u.reasoning) \in Int
    BY <2>1, Deref DEF Counts
  <2>4. charged \in Usages
    BY <2>3 DEF Usages, InputTokens, CachedTokens, NonNegative
  <2>5. ChargedSoundly(u, charged)
    BY <2>3 DEF ChargedSoundly, InputTokens, CachedTokens, NonNegative
  <2> HIDE DEF charged
  <2>6. usage[1] = charged /\ usage # <<>> /\ usage \in Optional(Usages) /\ said[1] = u
    BY <2>1, <2>2, <2>4 DEF Optional
  <2> QED BY <2>1, <2>5, <2>6 DEF Charges
<1> QED BY <1>2, <1>3

LEMMA UnderEarlier ==
    ASSUME NEW lines \in Seq(LineSet), NEW line \in LineSet, NEW names,
           NEW i \in 1..(Len(lines) + 1)
    PROVE  Under(Append(lines, line), i, names) <=> Under(lines, i, names)
<1> DEFINE r == Append(lines, line)
<1>1. \A j \in 1..Len(lines) : r[j] = lines[j]
  OBVIOUS
<1>2. \A j \in 1..(i - 1) : r[j] = lines[j]
  BY <1>1
<1> HIDE DEF r
<1>3. \A j \in 1..(i - 1) : \A k \in (j + 1)..(i - 1) : r[k] = lines[k]
  BY <1>2
<1>4. Under(r, i, names) <=> Under(lines, i, names)
  BY <1>2, <1>3 DEF Under
<1> QED BY <1>4 DEF r

\* The event a line is under, from that of the line before.
LEMMA UnderNext ==
    ASSUME NEW lines \in Seq(LineSet), NEW line \in LineSet, NEW names
    PROVE  Under(Append(lines, line), Len(lines) + 2, names) <=>
              \/ line.kind = "event" /\ line.name \in names
              \/ line.kind \notin {"blank", "event"} /\ Under(lines, Len(lines) + 1, names)
<1> DEFINE r == Append(lines, line)
           n == Len(lines)
<1>1. n \in Nat /\ r[n + 1] = line /\ \A j \in 1..n : r[j] = lines[j]
  OBVIOUS
<1> HIDE DEF r, n
<1>2. Under(r, n + 2, names) <=>
        \/ line.kind = "event" /\ line.name \in names
        \/ line.kind \notin {"blank", "event"} /\ Under(r, n + 1, names)
  <2>1. (n + 2) - 1 = n + 1 /\ (n + 1) - 1 = n
    BY <1>1
  <2>2. ASSUME Under(r, n + 2, names)
        PROVE  \/ line.kind = "event" /\ line.name \in names
               \/ line.kind \notin {"blank", "event"} /\ Under(r, n + 1, names)
    <3>1. PICK j \in 1..(n + 1) :
            /\ r[j].kind = "event" /\ r[j].name \in names
            /\ \A k \in (j + 1)..(n + 1) : r[k].kind \notin {"blank", "event"}
      BY <2>1, <2>2 DEF Under
    <3>2. CASE j = n + 1
      BY <1>1, <3>1, <3>2
    <3>3. CASE j # n + 1
      <4>1. j \in 1..n /\ n + 1 \in (j + 1)..(n + 1) /\ (j + 1)..n \subseteq (j + 1)..(n + 1)
        BY <1>1, <3>3
      <4> QED BY <1>1, <2>1, <3>1, <4>1 DEF Under
    <3> QED BY <3>2, <3>3
  <2>3. ASSUME line.kind = "event", line.name \in names PROVE Under(r, n + 2, names)
    <3>1. n + 1 \in 1..(n + 1) /\ (n + 1 + 1)..(n + 1) = {}
      BY <1>1
    <3> QED BY <1>1, <2>1, <2>3, <3>1 DEF Under
  <2>4. ASSUME line.kind \notin {"blank", "event"}, Under(r, n + 1, names)
        PROVE  Under(r, n + 2, names)
    <3>1. PICK j \in 1..n :
            /\ r[j].kind = "event" /\ r[j].name \in names
            /\ \A k \in (j + 1)..n : r[k].kind \notin {"blank", "event"}
      BY <2>1, <2>4 DEF Under
    <3>2. j \in 1..(n + 1) /\ \A k \in (j + 1)..(n + 1) : k \in (j + 1)..n \/ k = n + 1
      BY <1>1
    <3>3. \A k \in (j + 1)..(n + 1) : r[k].kind \notin {"blank", "event"}
      BY <1>1, <2>4, <3>1, <3>2
    <3> QED BY <2>1, <3>1, <3>2, <3>3 DEF Under
  <2> QED BY <2>2, <2>3, <2>4
<1>3. Under(r, n + 1, names) <=> Under(lines, n + 1, names)
  <2>1. n + 1 \in 1..(n + 1)
    BY <1>1
  <2> QED BY <2>1, UnderEarlier DEF r, n
<1> QED BY <1>2, <1>3 DEF r, n

\* The kinds of line, and what each has.
LEMMA LineKinds ==
    ASSUME NEW line \in LineSet
    PROVE  /\ line.kind \in {"blank", "event", "data", "other"}
           /\ line.kind = "blank" <=> line = Blank
           /\ line.kind = "event" => line.name \in EventNames
           /\ line.kind = "data" => line.envelope \in Envelopes /\ line.limit \in BOOLEAN
  BY DEF LineSet, Blank

\* The usage of a stream that has one more line.
LEMMA UsageOfNext ==
    ASSUME NEW lines \in Seq(LineSet), NEW line \in LineSet
    PROVE  StreamUsage(Append(lines, line)) =
              IF /\ line.kind = "data" /\ UsageIn(line.envelope) # <<>>
                 /\ Under(lines, Len(lines) + 1, {"completed"})
              THEN UsageIn(line.envelope) ELSE StreamUsage(lines)
<1> DEFINE r == Append(lines, line)
           n == Len(lines)
           counts == /\ line.kind = "data" /\ UsageIn(line.envelope) # <<>>
                     /\ Under(lines, n + 1, {"completed"})
<1>1. /\ n \in Nat /\ r[n + 1] = line /\ \A j \in 1..n : r[j] = lines[j]
      /\ DOMAIN r = 1..(n + 1) /\ DOMAIN lines = 1..n
  OBVIOUS
<1>2. \A i \in 1..(n + 1) : Under(r, i, {"completed"}) <=> Under(lines, i, {"completed"})
  BY UnderEarlier
<1> HIDE DEF r, n
<1>3. UsageLines(r) = UsageLines(lines) \union (IF counts THEN {n + 1} ELSE {})
  <2>1. \A i \in 1..n : i \in UsageLines(r) <=> i \in UsageLines(lines)
    <3>1. \A i \in 1..n : i \in 1..(n + 1)
      BY <1>1
    <3> QED BY <1>1, <1>2, <3>1 DEF UsageLines
  <2>2. n + 1 \in UsageLines(r) <=> counts
    <3>1. n + 1 \in 1..(n + 1)
      BY <1>1
    <3> QED BY <1>1, <1>2, <3>1 DEF UsageLines
  <2>3. UsageLines(r) \subseteq 1..(n + 1) /\ UsageLines(lines) \subseteq 1..n
    BY <1>1 DEF UsageLines
  <2>4. \A i \in 1..(n + 1) : i \in 1..n \/ i = n + 1
    BY <1>1
  <2>5. n + 1 \notin 1..n
    BY <1>1
  <2> HIDE DEF counts
  <2> QED BY <2>1, <2>2, <2>3, <2>4, <2>5
<1>4. UsageLines(lines) \subseteq 1..n /\ UsageLines(r) \subseteq 1..(n + 1)
  BY <1>1 DEF UsageLines
<1>5. CASE counts
  <2>1. UsageLines(r) # {} /\ n + 1 \in UsageLines(r) /\ n + 1 \in Nat
    BY <1>1, <1>3, <1>5
  <2>2. Max(UsageLines(r)) \in 1..(n + 1) /\ n + 1 <= Max(UsageLines(r))
    BY <1>4, <2>1, Greatest
  <2>3. Max(UsageLines(r)) = n + 1
    BY <1>1, <2>2
  <2> QED BY <1>1, <1>5, <2>1, <2>3 DEF StreamUsage, r, n
<1>6. CASE ~counts
  <2>1. UsageLines(r) = UsageLines(lines)
    BY <1>3, <1>6
  <2>2. UsageLines(lines) # {} => Max(UsageLines(lines)) \in 1..n
    BY <1>1, <1>4, Greatest
  <2>3. StreamUsage(r) = StreamUsage(lines)
    BY <1>1, <2>1, <2>2 DEF StreamUsage
  <2> HIDE DEF counts
  <2>4. ~ (/\ line.kind = "data" /\ UsageIn(line.envelope) # <<>>
           /\ Under(lines, Len(lines) + 1, {"completed"}))
    BY <1>6 DEF counts, n
  <2> QED BY <2>3, <2>4 DEF r
<1> QED BY <1>5, <1>6

\* A stream that has one more line reports a limit.
LEMMA LimitOfNext ==
    ASSUME NEW lines \in Seq(LineSet), NEW line \in LineSet
    PROVE  StreamLimit(Append(lines, line)) <=>
              \/ StreamLimit(lines)
              \/ /\ line.kind = "data" /\ line.limit
                 /\ Under(lines, Len(lines) + 1, {"failed", "error"})
<1> DEFINE r == Append(lines, line)
           n == Len(lines)
<1>1. /\ n \in Nat /\ r[n + 1] = line /\ \A j \in 1..n : r[j] = lines[j]
      /\ DOMAIN r = 1..(n + 1) /\ DOMAIN lines = 1..n
  OBVIOUS
<1>2. \A i \in 1..(n + 1) :
        Under(r, i, {"failed", "error"}) <=> Under(lines, i, {"failed", "error"})
  BY UnderEarlier
<1> HIDE DEF r, n
<1>3. \A i \in 1..(n + 1) : i \in 1..n \/ i = n + 1
  BY <1>1
<1>4. n + 1 \in 1..(n + 1) /\ \A i \in 1..n : i \in 1..(n + 1)
  BY <1>1
<1>5. StreamLimit(r) <=>
        \/ StreamLimit(lines)
        \/ line.kind = "data" /\ line.limit /\ Under(lines, n + 1, {"failed", "error"})
  BY <1>1, <1>2, <1>3, <1>4 DEF StreamLimit
<1> QED BY <1>5 DEF r, n

\* A capture that knows some lines knows the next when it has read it.
LEMMA ReadOneLine ==
    ASSUME NEW c \in CaptureSet, NEW lines \in Seq(LineSet), NEW line \in LineSet,
           Knows(c, lines)
    PROVE  /\ ReadLine(c, line) \in CaptureSet
           /\ Knows(ReadLine(c, line), Append(lines, line))
<1> DEFINE d == ReadLine(c, line)
           r == Append(lines, line)
           n == Len(lines)
           completed == {"completed"}
           failed == {"failed", "error"}
           event == IF line.kind = "blank" THEN "none"
                    ELSE IF line.kind = "event" THEN line.name ELSE c.currentEvent
           limit == line.kind = "data" /\ line.limit /\ Under(lines, n + 1, failed)
           usage == IF line.kind = "data" /\ c.currentEvent = "completed"
                    THEN usageFromEnvelope(line.envelope) ELSE <<>>
<1>1. /\ line.kind \in {"blank", "event", "data", "other"}
      /\ line.kind = "blank" <=> line = Blank
      /\ line.kind = "event" => line.name \in EventNames
      /\ line.kind = "data" => line.envelope \in Envelopes /\ line.limit \in BOOLEAN
  BY LineKinds
<1>2. /\ c.currentEvent \in EventNames \union {"none"} /\ c.usage \in Optional(Usages) /\ c.limitFound \in BOOLEAN
      /\ c.onLimitCalls = IF c.limitFound THEN 1 ELSE 0
      /\ Under(lines, n + 1, completed) <=> c.currentEvent = "completed"
      /\ Under(lines, n + 1, failed) <=> c.currentEvent \in failed
      /\ Charges(StreamUsage(lines), c.usage) /\ (c.limitFound <=> StreamLimit(lines))
  BY DEF Knows, CaptureSet
<1>3. /\ usage \in Optional(Usages)
      /\ line.kind = "data" /\ c.currentEvent = "completed" =>
            Charges(UsageIn(line.envelope), usage)
  <2>1. <<>> \in Optional(Usages)
    BY DEF Optional
  <2> QED BY <1>1, <2>1, ChargedAsSaid
\* What reading the line changes.
<1>4. d = [c EXCEPT !.currentEvent = event,
                    !.usage = IF usage = <<>> THEN c.usage ELSE usage,
                    !.limitFound = c.limitFound \/ limit,
                    !.onLimitCalls = IF c.limitFound \/ limit THEN 1 ELSE 0]
  <2>1. c = [buffer |-> c.buffer, currentEvent |-> c.currentEvent, usage |-> c.usage,
             limitFound |-> c.limitFound, onLimitCalls |-> c.onLimitCalls]
    BY DEF CaptureSet
  <2>2. CASE line.kind = "blank"
    BY <1>1, <1>2, <2>1, <2>2 DEF ReadLine, CaptureSet
  <2>3. CASE line.kind = "event"
    BY <1>1, <1>2, <2>1, <2>3 DEF ReadLine, CaptureSet
  <2>4. CASE line.kind = "other"
    BY <1>1, <1>2, <2>1, <2>4 DEF ReadLine, CaptureSet
  <2>5. CASE line.kind = "data"
    <3>1. d = ReadData(c, line)
      BY <1>1, <2>5 DEF ReadLine
    <3>2. limit <=> shouldInspectLimitPayload(c.currentEvent) /\ line.limit
      BY <1>2, <2>5 DEF shouldInspectLimitPayload
    <3>3. d = [(IF limit THEN markLimit(c) ELSE c)
               EXCEPT !.usage = IF usage = <<>> THEN @ ELSE usage]
      <4>1. usage = IF c.currentEvent = "completed" THEN usageFromEnvelope(line.envelope) ELSE <<>>
        BY <2>5
      <4> HIDE DEF usage, limit, d
      <4> QED BY <3>1, <3>2, <4>1 DEF ReadData
    <3>4. event = c.currentEvent
      BY <2>5
    <3>5. CASE limit
      <4>1. markLimit(c) = [c EXCEPT !.limitFound = TRUE, !.onLimitCalls = 1]
        <5>1. CASE c.limitFound
          <6>1. c.limitFound = TRUE /\ c.onLimitCalls = 1 /\ markLimit(c) = c
            BY <1>2, <5>1 DEF markLimit
          <6> QED BY <2>1, <6>1
        <5>2. CASE ~c.limitFound
          BY <1>2, <5>2 DEF markLimit
        <5> QED BY <5>1, <5>2
      <4> HIDE DEF usage, limit, d, event
      <4>2. d = [[c EXCEPT !.limitFound = TRUE, !.onLimitCalls = 1]
                 EXCEPT !.usage = IF usage = <<>> THEN @ ELSE usage]
        BY <3>3, <3>5, <4>1
      <4> QED BY <2>1, <3>4, <3>5, <4>2
    <3>6. CASE ~limit
      <4> HIDE DEF usage, limit, d, event
      <4> QED BY <1>2, <2>1, <3>3, <3>4, <3>6 DEF CaptureSet
    <3> QED BY <3>5, <3>6
  <2> QED BY <1>1, <2>2, <2>3, <2>4, <2>5
<1> HIDE DEF d, usage, limit
<1>5. /\ d \in CaptureSet
      /\ d.currentEvent = event
      /\ d.usage = (IF usage = <<>> THEN c.usage ELSE usage)
      /\ d.limitFound = (c.limitFound \/ limit)
      /\ d.onLimitCalls = (IF d.limitFound THEN 1 ELSE 0)
  <2>1. event \in EventNames \union {"none"}
    BY <1>1, <1>2
  <2> HIDE DEF event
  <2> HIDE DEF event
  <2> QED BY <1>2, <1>3, <1>4, <2>1 DEF CaptureSet
<1>6. Len(r) + 1 = n + 2
  OBVIOUS
<1>7. ASSUME NEW names \in {completed, failed}
      PROVE  Under(r, Len(r) + 1, names) <=> d.currentEvent \in names
  <2>1. Under(r, n + 2, names) <=>
          \/ line.kind = "event" /\ line.name \in names
          \/ line.kind \notin {"blank", "event"} /\ Under(lines, n + 1, names)
    BY UnderNext
  <2>2. Under(lines, n + 1, names) <=> c.currentEvent \in names
    BY DEF Knows
  <2>3. "none" \notin names
    OBVIOUS
  <2> QED BY <1>1, <1>5, <1>6, <2>1, <2>2, <2>3
<1>8. Charges(StreamUsage(r), d.usage)
  <2>1. StreamUsage(r) =
          IF /\ line.kind = "data" /\ UsageIn(line.envelope) # <<>> /\ Under(lines, n + 1, completed)
          THEN UsageIn(line.envelope) ELSE StreamUsage(lines)
    BY UsageOfNext
  <2>2. CASE line.kind = "data" /\ c.currentEvent = "completed"
    <3>1. Charges(UsageIn(line.envelope), usage)
      BY <1>3, <2>2
    <3>2. UsageIn(line.envelope) = <<>> <=> usage = <<>>
      BY <3>1 DEF Charges
    <3> QED BY <1>2, <1>5, <2>1, <2>2, <3>1, <3>2
  <2>3. CASE ~(line.kind = "data" /\ c.currentEvent = "completed")
    BY <1>2, <1>5, <2>1, <2>3 DEF usage
  <2> QED BY <2>2, <2>3
<1>9. d.limitFound <=> StreamLimit(r)
  BY <1>2, <1>5, LimitOfNext DEF limit
<1> HIDE DEF r
<1> QED BY <1>5, <1>7, <1>8, <1>9 DEF Knows, d, r

\* A new capture knows nothing, and nothing was said.
LEMMA NothingRead ==
    /\ newSSEUsageCapture \in CaptureSet
    /\ newSSEUsageCapture.buffer = <<>>
    /\ Knows(newSSEUsageCapture, <<>>)
<1>2. Len(<<>>) + 1 = 1 /\ \A names : ~ Under(<<>>, 1, names)
  <2>1. 1..(1 - 1) = {}
    OBVIOUS
  <2> QED BY <2>1 DEF Under
<1>3. UsageLines(<<>>) = {} /\ ~ StreamLimit(<<>>)
  BY DEF UsageLines, StreamLimit
<1> DEFINE c == newSSEUsageCapture
<1>4. /\ c.buffer = <<>> /\ c.currentEvent = "none" /\ c.usage = <<>>
      /\ c.limitFound = FALSE /\ c.onLimitCalls = 0
      /\ c = [buffer |-> c.buffer, currentEvent |-> c.currentEvent, usage |-> c.usage,
              limitFound |-> c.limitFound, onLimitCalls |-> c.onLimitCalls]
  BY DEF newSSEUsageCapture
<1>5. <<>> \in Seq(SymbolSet) /\ <<>> \in Optional(Usages)
  BY DEF Optional
<1> HIDE DEF c
<1>6. c \in CaptureSet
  <2> HIDE DEF SymbolSet
  <2> QED BY <1>4, <1>5 DEF CaptureSet
<1>7. Charges(StreamUsage(<<>>), c.usage)
  BY <1>3, <1>4 DEF Charges, StreamUsage
<1>8. Knows(c, <<>>)
  BY <1>2, <1>3, <1>4, <1>7 DEF Knows
<1> QED BY <1>4, <1>6, <1>8 DEF c

----------------------------------------------------------------------------
(* A capture that has read the first k symbols of the lines w: m of them whole, *)
(* and h symbols of the next.                                                   *)

Waiting(c, w, m, h) ==
    /\ h = 0 => c.buffer = <<>>
    /\ h > 0 => m < Len(w) /\ w[m + 1] # Blank
    /\ h = 1 => c.buffer = <<Half(w[m + 1], 1)>>
    /\ h = 2 => c.buffer = <<Half(w[m + 1], 1), Half(w[m + 1], 2)>>

Counted(w, k, m) ==
    LET ends == LineEnds(SubSeq(Text(w), 1, k))
    IN IsFiniteSet(ends) /\ Cardinality(ends) = m

Captured(c, w, k) ==
    /\ c \in CaptureSet
    /\ k \in 0..Len(Text(w))
    /\ \E m \in 0..Len(w), h \in 0..2 :
          /\ k = Len(Text(SubSeq(w, 1, m))) + h
          /\ Waiting(c, w, m, h)
          /\ Knows(c, SubSeq(w, 1, m))
          /\ Counted(w, k, m)

\* The line ends of the next symbol.
LEMMA CountedNext ==
    ASSUME NEW w \in Seq(LineSet), NEW k \in Nat, k < Len(Text(w)), NEW m \in Nat,
           Counted(w, k, m)
    PROVE  Counted(w, k + 1, IF Text(w)[k + 1] = NL THEN m + 1 ELSE m)
<1> DEFINE t == Text(w)
           ends == LineEnds(SubSeq(t, 1, k))
<1>1. t \in Seq(SymbolSet)
  BY TextType
<1>2. LineEnds(SubSeq(t, 1, k + 1)) = ends \union (IF t[k + 1] = NL THEN {k + 1} ELSE {})
  BY <1>1, LineEndsOfNext
<1>3. k + 1 \notin ends
  <2> HIDE DEF t, SymbolSet
  <2> QED BY <1>1 DEF LineEnds
<1>4. IsFiniteSet(ends) /\ Cardinality(ends) = m
  BY DEF Counted
<1> HIDE DEF t, ends
<1>5. CASE t[k + 1] = NL
  <2>1. IsFiniteSet(ends \union {k + 1}) /\ Cardinality(ends \union {k + 1}) = m + 1
    BY <1>3, <1>4, FS_AddElement
  <2> QED BY <1>2, <1>5, <2>1 DEF Counted, t
<1>6. CASE t[k + 1] # NL
  BY <1>2, <1>4, <1>6 DEF Counted, t
<1> QED BY <1>5, <1>6

\* The end of a line has it read.
LEMMA LineOfHalves ==
    ASSUME NEW line \in LineSet
    PROVE  /\ LineOf(<<>>) = Blank
           /\ LineOf(<<Half(line, 1), Half(line, 2)>>) = line
           /\ Half(line, 1) # NL /\ Half(line, 2) # NL
  BY DEF LineOf, Half, NL

LEMMA LineCompleted ==
    ASSUME NEW c \in CaptureSet, NEW lines \in Seq(LineSet), NEW line \in LineSet,
           LineOf(c.buffer) = line, Knows(c, lines)
    PROVE  LET d == ReadSymbol(c, NL) IN
           d \in CaptureSet /\ d.buffer = <<>> /\ Knows(d, Append(lines, line))
<1> DEFINE e == ReadLine(c, line)
           d == [e EXCEPT !.buffer = <<>>]
<1>1. e \in CaptureSet /\ Knows(e, Append(lines, line))
  BY ReadOneLine
<1>2. ReadSymbol(c, NL) = d
  BY DEF ReadSymbol
<1> HIDE DEF e
<1>3. <<>> \in Seq(SymbolSet)
  OBVIOUS
<1>4. /\ d \in CaptureSet /\ d.buffer = <<>> /\ d.currentEvent = e.currentEvent
      /\ d.usage = e.usage /\ d.limitFound = e.limitFound /\ d.onLimitCalls = e.onLimitCalls
  BY <1>1, <1>3 DEF CaptureSet
<1> HIDE DEF d
<1>5. Knows(d, Append(lines, line))
  BY <1>1, <1>4 DEF Knows
<1> QED BY <1>2, <1>4, <1>5

\* Any other symbol waits.
LEMMA HalfWaits ==
    ASSUME NEW c \in CaptureSet, NEW lines, NEW symbol \in SymbolSet, symbol # NL,
           Knows(c, lines)
    PROVE  LET d == ReadSymbol(c, symbol) IN
           d \in CaptureSet /\ d.buffer = Append(c.buffer, symbol) /\ Knows(d, lines)
<1> DEFINE d == [c EXCEPT !.buffer = Append(c.buffer, symbol)]
<1>1. ReadSymbol(c, symbol) = d
  BY DEF ReadSymbol
<1>2. c.buffer \in Seq(SymbolSet) /\ Append(c.buffer, symbol) \in Seq(SymbolSet)
  <2> HIDE DEF SymbolSet
  <2> QED BY DEF CaptureSet
<1>3. /\ d \in CaptureSet /\ d.buffer = Append(c.buffer, symbol)
      /\ d.currentEvent = c.currentEvent /\ d.usage = c.usage
      /\ d.limitFound = c.limitFound /\ d.onLimitCalls = c.onLimitCalls
  BY <1>2 DEF CaptureSet
<1> HIDE DEF d
<1>4. Knows(d, lines)
  BY <1>3 DEF Knows
<1> QED BY <1>1, <1>3, <1>4

LEMMA Pair ==
    ASSUME NEW S, NEW a \in S, NEW b \in S
    PROVE  Append(<<a>>, b) = <<a, b>>
<1> DEFINE s == Append(<<a>>, b)
           r == <<a, b>>
<1>1. <<a>> \in Seq(S) /\ Len(<<a>>) = 1 /\ <<a>>[1] = a
  OBVIOUS
<1>2. s \in Seq(S) /\ Len(s) = 2 /\ s[1] = a /\ s[2] = b
  BY <1>1
<1>3. r \in Seq(S) /\ Len(r) = 2 /\ r[1] = a /\ r[2] = b
  OBVIOUS
<1> HIDE DEF s, r
<1>4. \A i \in 1..2 : s[i] = r[i]
  BY <1>2, <1>3
<1>5. s = r
  BY <1>2, <1>3, <1>4
<1> QED BY <1>5 DEF s, r

\* One symbol, wherever in its line.
LEMMA SymbolCaptured ==
    ASSUME NEW w \in Seq(LineSet), NEW c, NEW k \in Nat, k < Len(Text(w)), Captured(c, w, k)
    PROVE  Captured(ReadSymbol(c, Text(w)[k + 1]), w, k + 1)
<1>1. PICK m \in 0..Len(w), h \in 0..2 :
        /\ k = Len(Text(SubSeq(w, 1, m))) + h
        /\ Waiting(c, w, m, h)
        /\ Knows(c, SubSeq(w, 1, m))
        /\ Counted(w, k, m)
  BY DEF Captured
<1> DEFINE begin == Text(SubSeq(w, 1, m))
           next == Symbols(w[m + 1])
           symbol == Text(w)[k + 1]
           line == w[m + 1]
           d == ReadSymbol(c, symbol)
<1>2. /\ m \in Nat /\ m < Len(w)
  <2> SUFFICES ASSUME m = Len(w), h = 0 PROVE FALSE
    BY <1>1 DEF Waiting
  <2>1. SubSeq(w, 1, m) = w
    OBVIOUS
  <2>2. Len(Text(w)) \in Nat
    BY TextType
  <2>3. k = Len(Text(w)) + 0
    BY <1>1, <2>1
  <2> QED BY <2>2, <2>3
<1>3. /\ c \in CaptureSet /\ line \in LineSet /\ SubSeq(w, 1, m) \in Seq(LineSet)
      /\ SubSeq(w, 1, m + 1) = Append(SubSeq(w, 1, m), line)
  BY <1>2, OneMoreLine DEF Captured
<1>4. /\ Len(begin) \in Nat /\ Len(begin) + Len(next) <= Len(Text(w))
      /\ \A j \in 1..Len(next) : Text(w)[Len(begin) + j] = next[j]
      /\ Len(Text(SubSeq(w, 1, m + 1))) = Len(begin) + Len(next)
  BY <1>2, NextSymbols
<1>5. /\ line = Blank => next = <<NL>>
      /\ line # Blank => next = <<Half(line, 1), Half(line, 2), NL>>
  BY <1>3, SymbolsOfLine
<1>6. line = Blank => h = 0
  BY <1>1 DEF Waiting
<1>7. k + 1 = Len(begin) + (h + 1)
  BY <1>1, <1>4
<1>8. h + 1 \in 1..Len(next) /\ (h + 1 = Len(next) <=> next[h + 1] = NL)
  <2>1. CASE line = Blank
    <3>1. next = <<NL>> /\ h = 0
      BY <1>5, <1>6, <2>1
    <3> HIDE DEF next
    <3> QED BY <3>1
  <2>2. CASE line # Blank
    <3>1. next = <<Half(line, 1), Half(line, 2), NL>>
      BY <1>5, <2>2
    <3>2. Half(line, 1) # NL /\ Half(line, 2) # NL
      BY <1>3, LineOfHalves
    <3> HIDE DEF next, line
    <3>3. Len(next) = 3 /\ next[1] # NL /\ next[2] # NL /\ next[3] = NL
      BY <3>1, <3>2
    <3>4. h = 0 \/ h = 1 \/ h = 2
      OBVIOUS
    <3> QED BY <3>3, <3>4
  <2> QED BY <2>1, <2>2
<1>9. symbol = next[h + 1]
  <2> HIDE DEF begin, next
  <2> QED BY <1>4, <1>7, <1>8
<1>10. k + 1 \in 0..Len(Text(w))
  <2>1. Len(Text(w)) \in Nat
    BY TextType
  <2> QED BY <2>1
<1>11. Counted(w, k + 1, IF symbol = NL THEN m + 1 ELSE m)
  BY <1>1, <1>2, CountedNext
<1>12. CASE symbol = NL
  <2>1. LineOf(c.buffer) = line
    <3>1. CASE line = Blank
      BY <1>1, <1>3, <1>6, <3>1, LineOfHalves DEF Waiting
    <3>2. CASE line # Blank
      <4>1. next = <<Half(line, 1), Half(line, 2), NL>> /\ h + 1 = Len(next)
        BY <1>5, <1>8, <1>9, <1>12, <3>2
      <4>2. h = 2
        <5> HIDE DEF next, line
        <5> QED BY <4>1
      <4> QED BY <1>1, <1>3, <4>2, LineOfHalves DEF Waiting
    <3> QED BY <3>1, <3>2
  <2>2. d \in CaptureSet /\ d.buffer = <<>> /\ Knows(d, SubSeq(w, 1, m + 1))
    BY <1>1, <1>3, <1>12, <2>1, LineCompleted
  <2>3. m + 1 \in 0..Len(w) /\ 0 \in 0..2
    BY <1>2
  <2>4. k + 1 = Len(Text(SubSeq(w, 1, m + 1))) + 0
    <3> HIDE DEF begin, next
    <3> QED BY <1>4, <1>7, <1>8, <1>9, <1>12
  <2>5. Waiting(d, w, m + 1, 0)
    BY <2>2 DEF Waiting
  <2>6. Counted(w, k + 1, m + 1)
    BY <1>11, <1>12
  <2> HIDE DEF d
  <2>7. Captured(d, w, k + 1)
    BY <1>10, <2>2, <2>3, <2>4, <2>5, <2>6 DEF Captured
  <2> QED BY <2>7 DEF d
<1>13. CASE symbol # NL
  <2>1. line # Blank /\ next = <<Half(line, 1), Half(line, 2), NL>>
    <3>1. line # Blank
      <4> SUFFICES ASSUME line = Blank PROVE FALSE
        OBVIOUS
      <4>1. next = <<NL>> /\ h = 0
        BY <1>5, <1>6
      <4> HIDE DEF next
      <4> QED BY <1>9, <1>13, <4>1
    <3> QED BY <1>5, <3>1
  <2>2. /\ h = 0 \/ h = 1
        /\ symbol = Half(line, h + 1) /\ symbol \in SymbolSet
    <3>1. line \in LineSet /\ (h = 0 \/ h = 1 \/ h = 2)
      BY <1>3
    <3>2. /\ h = 0 => symbol = Half(line, 1)
          /\ h = 1 => symbol = Half(line, 2)
          /\ h # 2
      <4> HIDE DEF next, line, symbol
      <4> QED BY <1>9, <1>13, <2>1
    <3>3. Half(line, 1) \in SymbolSet /\ Half(line, 2) \in SymbolSet
      <4> HIDE DEF line
      <4> QED BY <3>1 DEF Half, SymbolSet
    <3> HIDE DEF line, symbol, SymbolSet
    <3> QED BY <3>1, <3>2, <3>3
  <2>3. /\ d \in CaptureSet /\ d.buffer = Append(c.buffer, symbol)
        /\ Knows(d, SubSeq(w, 1, m))
    BY <1>1, <1>3, <1>13, <2>2, HalfWaits
  <2>4. Waiting(d, w, m, h + 1)
    <3>1. CASE h = 0
      <4>1. c.buffer = <<>> /\ d.buffer = <<Half(line, 1)>>
        BY <1>1, <2>2, <2>3, <3>1 DEF Waiting
      <4> HIDE DEF d
      <4> QED BY <1>2, <2>1, <3>1, <4>1 DEF Waiting
    <3>2. CASE h = 1
      <4>2. c.buffer = <<Half(line, 1)>> /\ symbol = Half(line, 2)
        BY <1>1, <2>2, <3>2 DEF Waiting
      <4>3. Append(<<Half(line, 1)>>, Half(line, 2)) = <<Half(line, 1), Half(line, 2)>>
        <5>1. Half(line, 1) \in SymbolSet /\ Half(line, 2) \in SymbolSet
          <6> HIDE DEF line
          <6> QED BY <1>3 DEF Half, SymbolSet
        <5> QED BY <5>1, Pair
      <4>1. d.buffer = <<Half(line, 1), Half(line, 2)>>
        <5> HIDE DEF d, symbol
        <5> QED BY <2>3, <4>2, <4>3
      <4> HIDE DEF d
      <4> QED BY <1>2, <2>1, <3>2, <4>1 DEF Waiting
    <3> QED BY <2>2, <3>1, <3>2
  <2>5. h + 1 \in 0..2 /\ Counted(w, k + 1, m)
    BY <1>11, <1>13, <2>2
  <2> HIDE DEF d
  <2>6. Captured(d, w, k + 1)
    BY <1>7, <1>10, <2>3, <2>4, <2>5 DEF Captured
  <2> QED BY <2>6 DEF d
<1> QED BY <1>12, <1>13

\* A chunk is read as if its symbols came one by one.
LEMMA ChunkCaptured ==
    ASSUME NEW w \in Seq(LineSet), NEW c, NEW k \in Nat, Captured(c, w, k),
           NEW n \in Nat, k + n <= Len(Text(w))
    PROVE  Captured(WriteChunk(c, SubSeq(SubSeq(Text(w), k + 1, Len(Text(w))), 1, n)), w, k + n)
<1> DEFINE t == Text(w)
           coming == SubSeq(t, k + 1, Len(t))
           after(j) == WriteChunk(c, SubSeq(coming, 1, j))
           T == {j \in Nat : k + j <= Len(t) => Captured(after(j), w, k + j)}
<1>1. t \in Seq(SymbolSet) /\ Len(t) \in Nat /\ k <= Len(t)
  BY TextType
<1>2. /\ coming \in Seq(SymbolSet) /\ Len(coming) = Len(t) - k
      /\ \A j \in 1..Len(coming) : coming[j] = t[k + j]
  <2> HIDE DEF t, SymbolSet
  <2> QED BY <1>1
<1> HIDE DEF t, coming
<1>3. 0 \in T
  <2>1. SubSeq(coming, 1, 0) = <<>> /\ k + 0 = k
    <3> HIDE DEF SymbolSet
    <3> QED BY <1>2
  <2>2. Captured(after(0), w, k + 0)
    BY <2>1, WriteNothing
  <2> HIDE DEF after
  <2> QED BY <2>2
<1>4. ASSUME NEW j \in Nat, j \in T PROVE j + 1 \in T
  <2> SUFFICES ASSUME k + (j + 1) <= Len(t) PROVE Captured(after(j + 1), w, k + (j + 1))
    OBVIOUS
  <2>1. /\ j < Len(coming) /\ k + j \in Nat /\ k + j < Len(t) /\ k + (j + 1) = (k + j) + 1
        /\ coming[j + 1] = t[(k + j) + 1]
    BY <1>1, <1>2
  <2>2. /\ SubSeq(coming, 1, j) \in Seq(SymbolSet) /\ coming[j + 1] \in SymbolSet
        /\ SubSeq(coming, 1, j + 1) = Append(SubSeq(coming, 1, j), coming[j + 1])
    BY <1>2, <2>1, OneMoreLine
  <2>3. after(j + 1) = ReadSymbol(after(j), coming[j + 1])
    <3> DEFINE s == SubSeq(coming, 1, j)
    <3> HIDE DEF s, SymbolSet
    <3>1. WriteChunk(c, Append(s, coming[j + 1])) = ReadSymbol(WriteChunk(c, s), coming[j + 1])
      BY <2>2, WriteAppend DEF s
    <3> QED BY <2>2, <3>1 DEF s
  <2>4. Captured(after(j), w, k + j)
    BY <1>4, <2>1
  <2> HIDE DEF after
  <2>5. Captured(ReadSymbol(after(j), t[(k + j) + 1]), w, (k + j) + 1)
    BY <2>1, <2>4, SymbolCaptured DEF t
  <2> QED BY <2>1, <2>3, <2>5
<1>5. Nat \subseteq T
  <2> HIDE DEF T
  <2> QED BY <1>3, <1>4, Symbolwise!Induction
<1>6. Captured(after(n), w, k + n)
  <2> HIDE DEF after
  <2> QED BY <1>5 DEF t
<1> QED BY <1>6 DEF coming, t

\* A line that upstream writes is not read before it is passed on.
LEMMA CapturedAsItGrows ==
    ASSUME NEW w \in Seq(LineSet), NEW line \in LineSet, NEW c, NEW k, Captured(c, w, k)
    PROVE  Captured(c, Append(w, line), k)
<1> DEFINE r == Append(w, line)
<1>1. PICK m \in 0..Len(w), h \in 0..2 :
        /\ k = Len(Text(SubSeq(w, 1, m))) + h
        /\ Waiting(c, w, m, h)
        /\ Knows(c, SubSeq(w, 1, m))
        /\ Counted(w, k, m)
  BY DEF Captured
<1>2. /\ r \in Seq(LineSet) /\ m \in 0..Len(r) /\ SubSeq(r, 1, m) = SubSeq(w, 1, m)
      /\ m < Len(w) => m < Len(r) /\ r[m + 1] = w[m + 1]
  <2> HIDE DEF LineSet
  <2> QED OBVIOUS
<1>3. Text(r) = Text(w) \o Symbols(line) /\ Text(w) \in Seq(SymbolSet)
      /\ Symbols(line) \in Seq(SymbolSet) /\ k \in 0..Len(Text(w))
  BY TextOfOneMore, TextType, SymbolsOfLine DEF Captured
<1> HIDE DEF r
<1>4. k \in 0..Len(Text(r)) /\ SubSeq(Text(r), 1, k) = SubSeq(Text(w), 1, k)
  <2> DEFINE t == Text(w)
             s == Symbols(line)
  <2>1. t \in Seq(SymbolSet) /\ s \in Seq(SymbolSet) /\ k \in 0..Len(t)
    BY <1>3
  <2> HIDE DEF t, s, SymbolSet
  <2>2. k \in 0..Len(t \o s) /\ SubSeq(t \o s, 1, k) = SubSeq(t, 1, k)
    BY <2>1
  <2> QED BY <1>3, <2>2 DEF t, s
<1>5. Counted(r, k, m)
  BY <1>1, <1>4 DEF Counted
<1>6. Waiting(c, r, m, h)
  BY <1>1, <1>2 DEF Waiting
<1>7. k = Len(Text(SubSeq(r, 1, m))) + h /\ Knows(c, SubSeq(r, 1, m))
  BY <1>1, <1>2
<1>8. Captured(c, r, k)
  BY <1>2, <1>4, <1>5, <1>6, <1>7 DEF Captured
<1> QED BY <1>8 DEF r

\* A stream before its first line.
LEMMA NothingCaptured == Captured(newSSEUsageCapture, <<>>, 0)
<1> DEFINE c == newSSEUsageCapture
<1>1. Text(<<>>) = <<>> /\ Len(<<>>) = 0 /\ SubSeq(<<>>, 1, 0) = <<>>
  BY TextOfNone
<1>9. Text(SubSeq(<<>>, 1, 0)) = <<>>
  BY <1>1, Zenon
<1>2. LineEnds(<<>>) = {}
  BY DEF LineEnds
<1>3. Counted(<<>>, 0, 0)
  BY <1>1, <1>2, FS_EmptySet DEF Counted
<1>4. c \in CaptureSet /\ c.buffer = <<>> /\ Knows(c, <<>>)
  BY NothingRead
<1> HIDE DEF c
<1>5. Waiting(c, <<>>, 0, 0)
  BY <1>4 DEF Waiting
<1>6. 0 \in 0..Len(<<>>) /\ 0 \in 0..2 /\ 0 = Len(Text(SubSeq(<<>>, 1, 0))) + 0
      /\ Knows(c, SubSeq(<<>>, 1, 0))
  <2>1. Knows(c, SubSeq(<<>>, 1, 0))
    BY <1>1, <1>4, Zenon
  <2>2. Len(Text(SubSeq(<<>>, 1, 0))) = 0
    BY <1>1, <1>9, Zenon
  <2> QED BY <2>1, <2>2, <1>1
<1>7. 0 \in 0..Len(Text(<<>>))
  BY <1>1
<1>8. Captured(c, <<>>, 0)
  BY <1>3, <1>4, <1>5, <1>6, <1>7 DEF Captured
<1> QED BY <1>8 DEF c

\* Of a body, which is read in one go, all lines are known.
LEMMA TextRead ==
    ASSUME NEW w \in Seq(LineSet)
    PROVE  LET c == WriteChunk(newSSEUsageCapture, Text(w)) IN
           c \in CaptureSet /\ Knows(c, w)
<1> DEFINE t == Text(w)
           c == WriteChunk(newSSEUsageCapture, t)
<1>1. t \in Seq(SymbolSet) /\ Len(t) \in Nat
  BY TextType
<1>2. SubSeq(SubSeq(t, 0 + 1, Len(t)), 1, Len(t)) = t /\ 0 + Len(t) = Len(t)
  <2> HIDE DEF t, SymbolSet
  <2> QED BY <1>1
<1>3. Captured(newSSEUsageCapture, w, 0)
  <2> DEFINE T == {n \in Nat : n <= Len(w) => Captured(newSSEUsageCapture, SubSeq(w, 1, n), 0)}
  <2>1. 0 \in T
    <3>1. SubSeq(w, 1, 0) = <<>>
      OBVIOUS
    <3>2. Captured(newSSEUsageCapture, SubSeq(w, 1, 0), 0)
      BY <3>1, NothingCaptured, Zenon
    <3> QED BY <3>2
  <2>2. ASSUME NEW n \in Nat, n \in T PROVE n + 1 \in T
    <3> SUFFICES ASSUME n + 1 <= Len(w)
                 PROVE  Captured(newSSEUsageCapture, SubSeq(w, 1, n + 1), 0)
      OBVIOUS
    <3>1. /\ n < Len(w) /\ SubSeq(w, 1, n) \in Seq(LineSet) /\ w[n + 1] \in LineSet
          /\ SubSeq(w, 1, n + 1) = Append(SubSeq(w, 1, n), w[n + 1])
      BY OneMoreLine
    <3>2. Captured(newSSEUsageCapture, SubSeq(w, 1, n), 0)
      BY <2>2, <3>1
    <3> QED BY <3>1, <3>2, CapturedAsItGrows
  <2>3. Nat \subseteq T
    <3> HIDE DEF T
    <3> QED BY <2>1, <2>2, Symbolwise!Induction
  <2>4. Len(w) \in Nat /\ Len(w) <= Len(w) /\ SubSeq(w, 1, Len(w)) = w
    OBVIOUS
  <2>5. Captured(newSSEUsageCapture, SubSeq(w, 1, Len(w)), 0)
    BY <2>3, <2>4
  <2> QED BY <2>4, <2>5
<1>4. Captured(c, w, Len(t))
  <2>1. 0 + Len(t) <= Len(Text(w)) /\ 0 \in Nat
    BY <1>1
  <2>2. Captured(WriteChunk(newSSEUsageCapture, SubSeq(SubSeq(t, 0 + 1, Len(t)), 1, Len(t))),
                 w, 0 + Len(t))
    BY <1>1, <1>3, <2>1, ChunkCaptured
  <2> QED BY <1>2, <2>2
<1>5. PICK m \in 0..Len(w), h \in 0..2 :
        /\ Len(t) = Len(Text(SubSeq(w, 1, m))) + h
        /\ Waiting(c, w, m, h)
        /\ Knows(c, SubSeq(w, 1, m))
  <2> HIDE DEF c
  <2> QED BY <1>4 DEF Captured
<1>6. m = Len(w)
  <2> SUFFICES ASSUME m < Len(w) PROVE FALSE
    OBVIOUS
  <2> DEFINE begin == Text(SubSeq(w, 1, m))
             next == Symbols(w[m + 1])
  <2>1. Len(begin) \in Nat /\ Len(begin) + Len(next) <= Len(t) /\ w[m + 1] \in LineSet
    BY NextSymbols, OneMoreLine
  <2>2. /\ w[m + 1] = Blank => next = <<NL>>
        /\ w[m + 1] # Blank => next = <<Half(w[m + 1], 1), Half(w[m + 1], 2), NL>>
    BY <2>1, SymbolsOfLine
  <2>3. h < Len(next)
    <3>1. CASE w[m + 1] = Blank
      <4>1. h = 0 /\ next = <<NL>>
        BY <1>5, <2>2, <3>1 DEF Waiting
      <4> HIDE DEF next
      <4> QED BY <4>1
    <3>2. CASE w[m + 1] # Blank
      <4>1. next = <<Half(w[m + 1], 1), Half(w[m + 1], 2), NL>>
        BY <2>2, <3>2
      <4> HIDE DEF next
      <4> QED BY <4>1
    <3> QED BY <3>1, <3>2
  <2>4. Len(next) \in Nat
    BY <2>1, SymbolsOfLine
  <2>5. Len(t) = Len(begin) + h
    BY <1>5
  <2> HIDE DEF begin, next
  <2> QED BY <1>1, <2>1, <2>3, <2>4, <2>5
<1>7. SubSeq(w, 1, Len(w)) = w
  OBVIOUS
<1> HIDE DEF c
<1>8. c \in CaptureSet /\ Knows(c, w)
  BY <1>4, <1>5, <1>6, <1>7 DEF Captured
<1> QED BY <1>8 DEF c, t

\* Of a body, JSON or not, is charged what it reports.
LEMMA BodyCharged ==
    ASSUME NEW body \in Bodies
    PROVE  /\ Charges(BodyUsage(body), extractTokenUsageFromBody(body))
           /\ extractTokenUsageFromBody(body) \in Optional(Usages)
<1> DEFINE c == WriteChunk(newSSEUsageCapture, Text(body.lines))
<1>1. /\ body.json \in BOOLEAN /\ body.envelope \in Envelopes /\ body.lines \in Seq(LineSet)
      /\ body.json => body.lines = <<>>
  BY DEF Bodies
<1>2. c \in CaptureSet /\ Knows(c, body.lines)
  BY <1>1, TextRead
<1>3. c.usage \in Optional(Usages) /\ Charges(StreamUsage(body.lines), c.usage)
  <2> HIDE DEF c
  <2> QED BY <1>2 DEF CaptureSet, Knows
<1>4. body.json => c.usage = <<>>
  BY <1>1, TextOfNone, WriteNothing DEF newSSEUsageCapture
<1>5. /\ Charges(UsageIn(body.envelope), usageFromEnvelope(body.envelope))
      /\ usageFromEnvelope(body.envelope) \in Optional(Usages)
  BY <1>1, ChargedAsSaid
<1>6. extractTokenUsageFromBody(body) =
        IF body.json /\ usageFromEnvelope(body.envelope) # <<>>
        THEN usageFromEnvelope(body.envelope) ELSE c.usage
  BY <1>1 DEF extractTokenUsageFromBody
<1> HIDE DEF c
<1> QED BY <1>1, <1>3, <1>4, <1>5, <1>6 DEF BodyUsage

----------------------------------------------------------------------------
(* Lists that are about some replies.                                           *)

\* Another entry is about a reply later than the others.
LEMMA MatchMore ==
    ASSUME NEW S, NEW list \in Seq(S), NEW e \in S, NEW R, R \subseteq Nat,
           NEW of \in Matchings(list, R), NEW x \in Nat, \A r \in R : r < x
    PROVE  \E g \in Matchings(Append(list, e), R \union {x}) :
           /\ \A n \in DOMAIN list : g[n] = of[n] /\ Append(list, e)[n] = list[n]
           /\ g[Len(list) + 1] = x /\ Append(list, e)[Len(list) + 1] = e
           /\ DOMAIN Append(list, e) = DOMAIN list \union {Len(list) + 1}
<1> DEFINE m == Len(list)
           more == Append(list, e)
           g == [n \in 1..(m + 1) |-> IF n = m + 1 THEN x ELSE of[n]]
<1>1. /\ m \in Nat /\ DOMAIN list = 1..m /\ DOMAIN more = 1..(m + 1)
      /\ more[m + 1] = e /\ \A n \in 1..m : more[n] = list[n]
  OBVIOUS
<1> HIDE DEF m, more
<1>2. /\ of \in [1..m -> R] /\ \A r \in R : \E n \in 1..m : of[n] = r
      /\ \A i, j \in 1..m : i < j => of[i] < of[j]
  BY <1>1 DEF Matchings, Surjection
<1>3. 1..(m + 1) = 1..m \union {m + 1} /\ m + 1 \notin 1..m
  BY <1>1
<1>4. g[m + 1] = x /\ \A n \in 1..m : g[n] = of[n]
  BY <1>3
<1>5. g \in [1..(m + 1) -> R \union {x}]
  BY <1>2, <1>3
<1>6. \A r \in R \union {x} : \E n \in 1..(m + 1) : g[n] = r
  BY <1>2, <1>3, <1>4
<1>7. ASSUME NEW i \in 1..(m + 1), NEW j \in 1..(m + 1), i < j PROVE g[i] < g[j]
  <2>1. i \in 1..m
    BY <1>1, <1>7
  <2>2. CASE j = m + 1
    BY <1>2, <1>4, <2>1, <2>2
  <2>3. CASE j \in 1..m
    BY <1>2, <1>4, <1>7, <2>1, <2>3
  <2> QED BY <1>3, <2>2, <2>3
<1> HIDE DEF g
<1>8. g \in Matchings(more, R \union {x})
  BY <1>1, <1>5, <1>6, <1>7 DEF Matchings, Surjection
<1> QED BY <1>1, <1>3, <1>4, <1>8 DEF m, more, g

LEMMA MatchNone == << >> \in Matchings(<<>>, {})
  BY DEF Matchings, Surjection

----------------------------------------------------------------------------
(* The books of an exchange: what was charged and marked is what the replies    *)
(* said that are dealt with.                                                    *)

Keys == {accountKeyFromToken(s) : s \in Snapshots} \union {""}

Heard == [token : Tokens, key : Keys, reply : Replies]

HasToken == {"send", "resend", "refresh", "setAside", "account", "stream"}
HasReply == {"refresh", "setAside", "account", "stream"}

\* Where handleProxy can be with which last reply.  Only the last can be a stream.
ExchangeShape ==
    /\ heard \in Seq(Heard)
    /\ pc \in {"select", "done"} \union HasToken
    /\ pc \in HasToken => token \in Tokens
    /\ pc \in HasReply => heard # <<>> /\ Last(heard).token = token
    /\ pc = "refresh" => Reply.kind = "unauth"
    /\ pc = "setAside" => Reply.kind \in {"unauth", "deactivated", "limit"}
    /\ pc = "account" => Reply.kind \in {"limit", "ok", "stream"}
    /\ pc = "stream" => Reply.kind = "stream"
    /\ pc \in {"account", "stream"} => Last(heard).key = accountKeyFromToken(snapshot)
    /\ \A i \in DOMAIN heard :
          heard[i].reply.kind = "stream" =>
              i = Len(heard) /\ pc \in {"account", "stream", "done"}

\* The capture has read what was passed on, and there was a limit in it only after.
StreamRead ==
    /\ written \in Seq(LineSet)
    /\ Captured(capture, written, passed)
    /\ pc \notin {"stream", "done"} => ~ capture.limitFound

Pending(i, places) == i = Len(heard) /\ pc \in places

\* There is a key to charge the reply under.
Chargeable(h) == h.key # ""

\* The replies whose usage is to be in the books by now.
Due ==
    {i \in DOMAIN heard : /\ Chargeable(heard[i])
                          /\ UsageHeard(heard[i].reply) # <<>>
                          /\ ~ Pending(i, {"account", "stream"})}

Entry == [token : Tokens, key : Keys, usage : Usages, stream : BOOLEAN]

Charged(r, h) ==
    /\ r.token = h.token /\ r.key = h.key
    /\ r.stream = (h.reply.kind = "stream")
    /\ ChargedSoundly(UsageHeard(h.reply)[1], r.usage)

\* recorded is about the replies due, each once, in order.
DueCharged ==
    /\ recorded \in Seq(Entry)
    /\ \E of \in Matchings(recorded, Due) :
          \A n \in DOMAIN recorded : Charged(recorded[n], heard[of[n]])

\* The replies whose limit is to be marked by now.
Marked ==
    {i \in DOMAIN heard :
        \/ heard[i].reply.kind = "limit" /\ ~ Pending(i, {"account", "setAside"})
        \/ heard[i].reply.kind = "stream" /\ capture.limitFound}

\* limited is about the replies to be marked, each once, in order.
LimitsMarked ==
    /\ limited \in Seq(Tokens)
    /\ \E of \in Matchings(limited, Marked) :
          \A n \in DOMAIN limited : limited[n] = heard[of[n]].token

BooksInv == ExchangeShape /\ StreamRead /\ DueCharged /\ LimitsMarked

\* What the capture knows is what the lines say that the client was sent.
LEMMA PassedKnown ==
    ASSUME StreamRead
    PROVE  capture \in CaptureSet /\ Knows(capture, LinesPassed)
<1>1. PICK m \in 0..Len(written), h \in 0..2 :
        Knows(capture, SubSeq(written, 1, m)) /\ Counted(written, passed, m)
  BY DEF StreamRead, Captured
<1>2. LinesPassed = SubSeq(written, 1, m)
  BY <1>1 DEF LinesPassed, Counted
<1> QED BY <1>1, <1>2 DEF StreamRead, Captured

\* A reply that was heard is one of Replies.
LEMMA ReplyTypes ==
    ASSUME NEW i \in DOMAIN heard, heard \in Seq(Heard)
    PROVE  /\ i \in 1..Len(heard) /\ heard[i].token \in Tokens /\ heard[i].reply \in Replies
           /\ heard[i].reply.kind \in {"unauth", "deactivated", "limit", "ok", "stream"}
           /\ heard[i].reply.body \in Bodies
<1>1. heard[i] \in Heard /\ i \in 1..Len(heard)
  OBVIOUS
<1> QED BY <1>1, RepliesAssumption DEF Heard

\* Nothing heard, nothing charged.
LEMMA BooksInit == Init => BooksInv
<1> SUFFICES ASSUME Init PROVE BooksInv
  OBVIOUS
<1>1. /\ pc = "select" /\ heard = <<>> /\ recorded = <<>> /\ limited = <<>> /\ written = <<>>
      /\ passed = 0 /\ capture = newSSEUsageCapture
  BY DEF Init
<1>2. DOMAIN heard = {} /\ DOMAIN recorded = {} /\ DOMAIN limited = {}
  BY <1>1
<1>3. ExchangeShape
  BY <1>1, <1>2 DEF ExchangeShape, HasToken, HasReply
<1>4. StreamRead
  BY <1>1, NothingCaptured DEF StreamRead, newSSEUsageCapture
<1>5. Due = {} /\ Marked = {}
  BY <1>2 DEF Due, Marked
<1>6. DueCharged
  BY <1>1, <1>2, <1>5, MatchNone DEF DueCharged
<1>7. LimitsMarked
  BY <1>1, <1>2, <1>5, MatchNone DEF LimitsMarked
<1> QED BY <1>3, <1>4, <1>6, <1>7 DEF BooksInv

\* A step that charges nothing and settles nothing.
LEMMA DueKept ==
    ASSUME ExchangeShape, DueCharged, pc # "done", UNCHANGED <<heard, recorded>>,
           pc' \in {"account", "stream"} <=> pc \in {"account", "stream"}
    PROVE  DueCharged'
<1>1. \A i \in DOMAIN heard : Pending(i, {"account", "stream"})' <=> Pending(i, {"account", "stream"})
  BY DEF Pending
<1>2. ASSUME NEW i \in DOMAIN heard, ~ Pending(i, {"account", "stream"})
      PROVE  UsageHeard(heard[i].reply)' = UsageHeard(heard[i].reply)
  <2>1. heard[i].reply \in Replies /\ heard[i].reply.kind # "stream"
    BY <1>2, ReplyTypes DEF ExchangeShape, Pending
  <2> QED BY <2>1 DEF UsageHeard
<1>3. Due' = Due
  BY <1>1, <1>2 DEF Due
<1>4. PICK of \in Matchings(recorded, Due) :
        \A n \in DOMAIN recorded : Charged(recorded[n], heard[of[n]])
  BY DEF DueCharged
<1>5. ASSUME NEW n \in DOMAIN recorded
      PROVE  Charged(recorded[n], heard[of[n]])'
  <2>1. of[n] \in Due
    BY <1>5 DEF Matchings, Surjection
  <2>2. UsageHeard(heard[of[n]].reply)' = UsageHeard(heard[of[n]].reply)
    BY <1>2, <2>1 DEF Due
  <2> QED BY <1>4, <1>5, <2>2 DEF Charged
<1>6. of \in Matchings(recorded, Due)'
  BY <1>3, <1>4
<1> QED BY <1>5, <1>6 DEF DueCharged

\* A step that marks nothing and settles nothing.
LEMMA MarkedKept ==
    ASSUME LimitsMarked, UNCHANGED <<heard, limited>>,
           capture'.limitFound <=> capture.limitFound,
           Reply.kind = "limit" =>
               (pc' \in {"account", "setAside"} <=> pc \in {"account", "setAside"})
    PROVE  LimitsMarked'
<1>1. ASSUME NEW i \in DOMAIN heard, heard[i].reply.kind = "limit"
      PROVE  Pending(i, {"account", "setAside"})' <=> Pending(i, {"account", "setAside"})
  BY <1>1 DEF Pending, Reply, Last
<1>2. Marked' = Marked
  BY <1>1 DEF Marked
<1> QED BY <1>2 DEF LimitsMarked

LEMMA MatchRecorded ==
    ASSUME NEW e \in Entry, recorded \in Seq(Entry), NEW R, R \subseteq Nat,
           NEW of \in Matchings(recorded, R), NEW x \in Nat, \A r \in R : r < x
    PROVE  \E g \in Matchings(Append(recorded, e), R \union {x}) :
           /\ \A n \in DOMAIN recorded : g[n] = of[n] /\ Append(recorded, e)[n] = recorded[n]
           /\ g[Len(recorded) + 1] = x /\ Append(recorded, e)[Len(recorded) + 1] = e
           /\ DOMAIN Append(recorded, e) = DOMAIN recorded \union {Len(recorded) + 1}
  BY MatchMore

\* recordTokenUsage, for the last reply.
LEMMA DueRecorded ==
    ASSUME ExchangeShape, DueCharged, NEW usage \in Optional(Usages),
           pc \in {"account", "stream"}, pc' \notin {"account", "stream"},
           UNCHANGED <<heard, token, streamVars>>,
           Charges(UsageHeard(Reply), usage),
           NEW stream \in BOOLEAN, stream <=> Reply.kind = "stream",
           Record(usage, stream)
    PROVE  DueCharged'
<1> DEFINE x == Len(heard)
           key == accountKeyFromToken(snapshot)
<1>1. /\ heard \in Seq(Heard) /\ x \in Nat /\ x \in 1..x /\ DOMAIN heard = 1..x
      /\ token \in Tokens /\ heard[x].token = token /\ heard[x].key = key
      /\ key \in Keys /\ Reply = heard[x].reply
  <2>1. /\ heard \in Seq(Heard) /\ heard # <<>> /\ token \in Tokens
        /\ heard[x].token = token /\ heard[x].key = key /\ Reply = heard[x].reply
    BY DEF ExchangeShape, HasToken, HasReply, Last, Reply
  <2>2. x \in Nat /\ x \in 1..x /\ DOMAIN heard = 1..x
    BY <2>1
  <2>3. heard[x] \in Heard
    BY <2>1, <2>2
  <2> QED BY <2>1, <2>2, <2>3 DEF Heard
<1>2. \A reply : UsageHeard(reply)' = UsageHeard(reply)
  BY DEF UsageHeard, LinesPassed, streamVars
<1>3. \A i \in DOMAIN heard : Pending(i, {"account", "stream"}) <=> i = x
  BY DEF Pending
<1>4. \A i \in DOMAIN heard : ~ Pending(i, {"account", "stream"})'
  BY DEF Pending
<1>5. Due \subseteq Nat /\ \A i \in Due : i < x /\ i \in DOMAIN heard
  BY <1>1, <1>3 DEF Due
<1>6. Due' = Due \union (IF Chargeable(heard[x]) /\ UsageHeard(Reply) # <<>> THEN {x} ELSE {})
  <2>1. \A i \in DOMAIN heard : i \in Due' <=>
            Chargeable(heard[i]) /\ UsageHeard(heard[i].reply) # <<>>
    BY <1>2, <1>4 DEF Due
  <2>2. \A i \in DOMAIN heard : i \in Due <=>
            Chargeable(heard[i]) /\ UsageHeard(heard[i].reply) # <<>> /\ i # x
    BY <1>3 DEF Due
  <2>3. Due' \subseteq DOMAIN heard /\ Due \subseteq DOMAIN heard
    BY DEF Due
  <2> QED BY <1>1, <2>1, <2>2, <2>3
<1>7. UsageHeard(Reply) = <<>> <=> usage = <<>>
  BY DEF Charges
<1>8. PICK of \in Matchings(recorded, Due) :
        \A n \in DOMAIN recorded : Charged(recorded[n], heard[of[n]])
  BY DEF DueCharged
<1>9. \A r, h : Charged(r, h)' <=> Charged(r, h)
  BY <1>2 DEF Charged
<1>12. recorded' = IF usage = <<>> \/ key = "" THEN recorded
                   ELSE Append(recorded, [token |-> token, key |-> key, usage |-> usage[1],
                                          stream |-> stream])
  BY DEF Record
<1>13. Chargeable(heard[x]) <=> key # ""
  BY <1>1 DEF Chargeable
<1> HIDE DEF key
<1>10. CASE usage = <<>> \/ key = ""
  <2>1. recorded' = recorded /\ Due' = Due
    BY <1>6, <1>7, <1>10, <1>12, <1>13
  <2>2. \A n \in DOMAIN recorded : Charged(recorded[n], heard[of[n]])'
    BY <1>8, <2>1 DEF Charged, UsageHeard, LinesPassed, streamVars
  <2> QED BY <1>8, <2>1, <2>2 DEF DueCharged
<1>11. CASE ~(usage = <<>> \/ key = "")
  <2> DEFINE e == [token |-> token, key |-> key, usage |-> usage[1], stream |-> stream]
             more == Append(recorded, e)
             R == Due \union {x}
  <2>1. recorded' = more /\ Due' = R
    BY <1>6, <1>7, <1>11, <1>12, <1>13
  <2>2. usage[1] \in Usages /\ e \in Entry /\ recorded \in Seq(Entry)
    <3>1. usage[1] \in Usages
      <4>1. usage # <<>>
        BY <1>11
      <4> HIDE DEF Usages
      <4> QED BY <4>1 DEF Optional
    <3> QED BY <1>1, <3>1 DEF Entry, DueCharged
  <2>3. Charged(e, heard[x])
    <3>1. ChargedSoundly(UsageHeard(Reply)[1], usage[1])
      BY <1>11 DEF Charges
    <3> QED BY <1>1, <3>1 DEF Charged
  <2> HIDE DEF e
  <2>4. PICK g \in Matchings(more, R) :
          /\ \A n \in DOMAIN recorded : g[n] = of[n] /\ more[n] = recorded[n]
          /\ g[Len(recorded) + 1] = x /\ more[Len(recorded) + 1] = e
          /\ DOMAIN more = DOMAIN recorded \union {Len(recorded) + 1}
    <3>1. /\ of \in Matchings(recorded, Due) /\ Due \subseteq Nat /\ x \in Nat
          /\ \A r \in Due : r < x
      BY <1>1, <1>5
    <3>2. recorded \in Seq(Entry) /\ e \in Entry
      BY <2>2
    <3> HIDE DEF x
    <3> QED BY <3>1, <3>2, MatchRecorded
  <2>5. more \in Seq(Entry)
    BY <2>2
  <2>6. \A n \in DOMAIN more : Charged(more[n], heard[g[n]])
    <3> HIDE DEF more, R, x
    <3> QED BY <1>8, <2>3, <2>4
  <2>7. g \in Matchings(recorded', Due')
    BY <2>1, <2>4
  <2>8. \A n \in DOMAIN recorded' : Charged(recorded'[n], heard[g[n]])
    BY <2>1, <2>6
  <2>9. \A n \in DOMAIN recorded' : Charged(recorded[n], heard[g[n]])'
    BY <2>8 DEF Charged, UsageHeard, LinesPassed, streamVars
  <2>10. recorded' \in Seq(Entry)
    BY <2>1, <2>5
  <2> QED BY <2>7, <2>9, <2>10 DEF DueCharged
<1> QED BY <1>10, <1>11

\* markTokenUsageLimit, for the last reply.
LEMMA LimitAdded ==
    ASSUME ExchangeShape, LimitsMarked, UNCHANGED heard, token \in Tokens, heard # <<>>,
           Last(heard).token = token, limited' = Append(limited, token),
           Marked' = Marked \union {Len(heard)}, Len(heard) \notin Marked
    PROVE  LimitsMarked'
<1> DEFINE x == Len(heard)
           more == Append(limited, token)
           R == Marked \union {x}
<1>1. x \in Nat /\ DOMAIN heard = 1..x /\ heard[x].token = token /\ limited \in Seq(Tokens)
  BY DEF ExchangeShape, Last, LimitsMarked
<1>2. Marked \subseteq Nat /\ \A i \in Marked : i < x
  BY <1>1 DEF Marked
<1>3. PICK of \in Matchings(limited, Marked) :
        \A n \in DOMAIN limited : limited[n] = heard[of[n]].token
  BY DEF LimitsMarked
<1>4. PICK g \in Matchings(more, R) :
        /\ \A n \in DOMAIN limited : g[n] = of[n] /\ more[n] = limited[n]
        /\ g[Len(limited) + 1] = x /\ more[Len(limited) + 1] = token
        /\ DOMAIN more = DOMAIN limited \union {Len(limited) + 1}
  <2> HIDE DEF x
  <2> QED BY <1>1, <1>2, <1>3, MatchMore
<1>5. more \in Seq(Tokens)
  BY <1>1
<1> HIDE DEF x, more, R
<1>6. \A n \in DOMAIN more : more[n] = heard[g[n]].token
  BY <1>1, <1>3, <1>4
<1>7. limited' = more /\ Marked' = R
  BY DEF more, R, x
<1>8. g \in Matchings(limited', Marked') /\ limited' \in Seq(Tokens)
  BY <1>4, <1>5, <1>7
<1>9. \A n \in DOMAIN limited' : limited'[n] = heard'[g[n]].token
  BY <1>6, <1>7
<1> QED BY <1>8, <1>9 DEF LimitsMarked

LEMMA OneMore ==
    ASSUME NEW S, NEW s \in Seq(S), NEW e \in S
    PROVE  LET r == Append(s, e) n == Len(s) IN
           /\ r \in Seq(S) /\ n \in Nat /\ Len(r) = n + 1 /\ r[n + 1] = e
           /\ \A i \in 1..n : r[i] = s[i]
           /\ DOMAIN s = 1..n /\ DOMAIN r = 1..(n + 1)
  OBVIOUS

\* A step that only goes on to another place, where the last reply fits.
LEMMA QuietStep ==
    ASSUME BooksInv, UNCHANGED <<heard, token, streamVars>>, pc # "done",
           pc' \in {"done", "resend", "setAside", "stream", "select"},
           pc' \in HasToken => pc \in HasReply,
           pc' = "setAside" => Reply.kind \in {"unauth", "deactivated", "limit"},
           pc' = "stream" =>
               /\ pc = "account" /\ Reply.kind = "stream"
               /\ accountKeyFromToken(snapshot') = accountKeyFromToken(snapshot),
           pc \in {"account", "stream"} => Reply.kind # "stream" \/ pc' \in {"stream", "done"}
    PROVE  ExchangeShape' /\ StreamRead'
<1>1. /\ heard \in Seq(Heard) /\ pc \in {"select", "done"} \union HasToken
      /\ pc \in HasToken => token \in Tokens
      /\ pc \in HasReply => heard # <<>> /\ Last(heard).token = token
  BY DEF BooksInv, ExchangeShape
<1>2. Reply' = Reply
  BY DEF Reply
<1>3. ASSUME NEW i \in DOMAIN heard, heard[i].reply.kind = "stream"
      PROVE  i = Len(heard) /\ pc' \in {"account", "stream", "done"}
  <2>1. i = Len(heard) /\ pc \in {"account", "stream", "done"}
    BY <1>3 DEF BooksInv, ExchangeShape
  <2> QED BY <1>3, <2>1 DEF Reply, Last
<1>6. pc' \in {"account", "stream"} => Last(heard').key = accountKeyFromToken(snapshot')
  BY DEF BooksInv, ExchangeShape
<1>4. ExchangeShape'
  <2>1. /\ heard' \in Seq(Heard) /\ pc' \in {"select", "done"} \union HasToken
        /\ pc' \in HasToken => token' \in Tokens
        /\ pc' \in HasReply => heard' # <<>> /\ Last(heard').token = token'
    BY <1>1 DEF HasToken, HasReply
  <2>2. /\ pc' # "refresh" /\ pc' # "account"
        /\ pc' = "setAside" => Reply'.kind \in {"unauth", "deactivated", "limit"}
        /\ pc' = "stream" => Reply'.kind = "stream"
    BY <1>2
  <2> QED BY <1>3, <1>6, <2>1, <2>2 DEF ExchangeShape
<1>5. StreamRead'
  BY DEF BooksInv, ExchangeShape, StreamRead, streamVars
<1> QED BY <1>4, <1>5

\* A new reply is due, or to be marked, only after it is dealt with.
LEMMA ForwardStep ==
    ASSUME ExchangeInv, BooksInv, Forward
    PROVE  BooksInv'
<1>1. PICK reply \in Replies :
        /\ heard' = Append(heard, [token |-> token, key |-> Payer(reply), reply |-> reply])
        /\ pc' = AfterReply(reply)
  BY DEF Forward, Goto
<1>2. /\ heard \in Seq(Heard) /\ token \in Tokens /\ pc \in {"send", "resend"}
      /\ UNCHANGED <<token, recorded, limited, written, passed, capture>>
      /\ \A i \in DOMAIN heard : heard[i].reply.kind # "stream"
  BY DEF Forward, BooksInv, ExchangeShape, HasToken, attemptVars, books, streamVars
<1>3. PICK n \in Nat : n = Len(heard)
  BY <1>2
<1> DEFINE h == [token |-> token, key |-> Payer(reply), reply |-> reply]
<1>22. snapshot = given /\ given \in Snapshots /\ snapshot' = snapshot
  BY <1>2 DEF Forward, ExchangeInv, SnapshotIsGiven, Undecided, tokenState
<1>23. Payer(reply) \in Keys
  BY <1>22 DEF Payer, Keys
<1>4. h \in Heard
  BY <1>2, <1>23 DEF Heard
<1>5. /\ heard' \in Seq(Heard) /\ n \in Nat /\ Len(heard') = n + 1 /\ heard'[n + 1] = h
      /\ \A i \in 1..n : heard'[i] = heard[i]
  <2> HIDE DEF h
  <2>1. heard' = Append(heard, h)
    BY <1>1 DEF h
  <2> QED BY <1>2, <1>3, <1>4, <2>1, OneMore
<1>6. DOMAIN heard = 1..n /\ DOMAIN heard' = 1..(n + 1)
  BY <1>2, <1>5, <1>3
<1>7. /\ heard' # <<>> /\ Last(heard') = h /\ Reply' = reply
      /\ h.token = token /\ h.key = Payer(reply) /\ h.reply = reply
  BY <1>5 DEF Last, Reply
<1>8. /\ reply.kind \in {"unauth", "deactivated", "limit", "ok", "stream"}
      /\ pc' \in {"refresh", "setAside", "account"}
      /\ pc' = "refresh" => reply.kind = "unauth"
      /\ pc' = "setAside" => reply.kind \in {"unauth", "deactivated"}
      /\ pc' = "account" => reply.kind \in {"limit", "ok", "stream"}
      /\ reply.kind \in {"limit", "ok", "stream"} => pc' = "account"
  BY <1>1, RepliesAssumption DEF AfterReply
<1>9. \A i \in 1..(n + 1) : i \in 1..n \/ i = n + 1
  BY <1>5
<1>10. n + 1 \notin 1..n
  BY <1>5
<1>11. ExchangeShape'
  <2>1. ASSUME NEW i \in DOMAIN heard', heard'[i].reply.kind = "stream"
        PROVE  i = Len(heard') /\ pc' \in {"account", "stream", "done"}
    <3>1. i = n + 1
      BY <1>2, <1>5, <1>6, <1>9, <2>1
    <3> QED BY <1>5, <1>7, <1>8, <2>1, <3>1
  <2>2. pc' = "account" => Last(heard').key = accountKeyFromToken(snapshot')
    BY <1>7, <1>8, <1>22 DEF Payer
  <2> QED BY <1>2, <1>5, <1>7, <1>8, <2>1, <2>2 DEF ExchangeShape, HasToken, HasReply
<1>12. StreamRead'
  BY <1>2, <1>8 DEF BooksInv, StreamRead
<1>13. ~ capture.limitFound /\ ~ capture'.limitFound
  BY <1>2 DEF BooksInv, StreamRead
<1>14. \A i \in 1..n : UsageHeard(heard[i].reply)' = UsageHeard(heard[i].reply)
  BY <1>2, <1>5, <1>6 DEF UsageHeard
<1>15. UsageHeard(heard[n + 1].reply)' = <<>> \/ pc' = "account"
  <2>1. heard[n + 1]'.reply = reply
    BY <1>5, <1>7
  <2>2. CASE reply.kind \in {"unauth", "deactivated"}
    BY <2>1, <2>2 DEF UsageHeard
  <2> QED BY <1>8, <2>2
<1>16. \A i \in 1..n : ~ Pending(i, {"account", "stream"}) /\ ~ Pending(i, {"account", "stream"})'
  BY <1>2, <1>5, <1>10, <1>3 DEF Pending
<1>17. \A i \in 1..n : ~ Pending(i, {"account", "setAside"}) /\ ~ Pending(i, {"account", "setAside"})'
  BY <1>2, <1>5, <1>10, <1>3 DEF Pending
<1>18. Due' = Due
  <2>1. \A i \in 1..n : i \in Due' <=> i \in Due
    BY <1>5, <1>6, <1>9, <1>14, <1>16 DEF Due
  <2>2. n + 1 \notin Due'
    <3>1. Pending(n + 1, {"account", "stream"})' <=> pc' \in {"account", "stream"}
      BY <1>5 DEF Pending
    <3> QED BY <1>15, <3>1 DEF Due
  <2>3. Due \subseteq 1..n /\ Due' \subseteq 1..(n + 1)
    BY <1>6 DEF Due
  <2> QED BY <1>9, <2>1, <2>2, <2>3
<1>19. Marked' = Marked
  <2>1. \A i \in 1..n : i \in Marked' <=> i \in Marked
    BY <1>5, <1>6, <1>9, <1>13, <1>17 DEF Marked
  <2>2. n + 1 \notin Marked'
    BY <1>5, <1>7, <1>8, <1>13 DEF Marked, Pending
  <2>3. Marked \subseteq 1..n /\ Marked' \subseteq 1..(n + 1)
    BY <1>6 DEF Marked
  <2> QED BY <1>9, <2>1, <2>2, <2>3
<1>20. DueCharged'
  <2>1. PICK of \in Matchings(recorded, Due) :
          \A i \in DOMAIN recorded : Charged(recorded[i], heard[of[i]])
    BY DEF BooksInv, DueCharged
  <2>2. \A i \in DOMAIN recorded : of[i] \in 1..n
    BY <1>6 DEF Matchings, Surjection, Due
  <2>3. ASSUME NEW i \in DOMAIN recorded PROVE Charged(recorded[i], heard[of[i]])'
    <3>1. heard'[of[i]] = heard[of[i]]
      BY <1>5, <2>2
    <3>2. UsageHeard(heard[of[i]].reply)' = UsageHeard(heard[of[i]].reply)
      BY <1>14, <2>2
    <3> QED BY <1>2, <2>1, <3>1, <3>2 DEF Charged
  <2>4. of \in Matchings(recorded', Due') /\ recorded' \in Seq(Entry)
    BY <1>2, <1>18 DEF BooksInv, DueCharged
  <2> QED BY <1>2, <2>3, <2>4 DEF DueCharged
<1>21. LimitsMarked'
  <2>1. PICK of \in Matchings(limited, Marked) :
          \A i \in DOMAIN limited : limited[i] = heard[of[i]].token
    BY DEF BooksInv, LimitsMarked
  <2>2. \A i \in DOMAIN limited : of[i] \in 1..n
    BY <1>6 DEF Matchings, Surjection, Marked
  <2>3. of \in Matchings(limited', Marked') /\ limited' \in Seq(Tokens)
    BY <1>2, <1>19 DEF BooksInv, LimitsMarked
  <2> QED BY <1>2, <1>5, <2>1, <2>2, <2>3 DEF LimitsMarked
<1> QED BY <1>11, <1>12, <1>20, <1>21 DEF BooksInv

\* markTokenUsageLimit for a reply that is not a stream.
LEMMA SetAsideStep ==
    ASSUME BooksInv, SetAside
    PROVE  BooksInv'
<1> DEFINE n == Len(heard)
<1>1. /\ pc = "setAside" /\ pc' \in {"select", "done"} /\ Reply.kind \in {"unauth", "deactivated", "limit"}
      /\ UNCHANGED <<token, heard, recorded, streamVars>>
      /\ limited' = IF Reply.kind = "limit" THEN Append(limited, token) ELSE limited
  BY DEF SetAside, Goto, AnswerReply, BooksInv, ExchangeShape, streamVars
<1>2. ExchangeShape' /\ StreamRead'
  BY <1>1, QuietStep DEF HasToken, HasReply
<1>3. DueCharged'
  BY <1>1, DueKept DEF BooksInv
<1>4. CASE Reply.kind # "limit"
  <2>1. UNCHANGED limited /\ capture'.limitFound = capture.limitFound
    BY <1>1, <1>4 DEF streamVars
  <2> QED BY <1>1, <1>2, <1>3, <1>4, <2>1, MarkedKept DEF BooksInv
<1>5. CASE Reply.kind = "limit"
  <2>1. /\ heard \in Seq(Heard) /\ token \in Tokens /\ heard # <<>> /\ Last(heard).token = token
        /\ heard[n].reply.kind = "limit" /\ n \in DOMAIN heard
    <3>1. heard \in Seq(Heard) /\ token \in Tokens /\ heard # <<>> /\ Last(heard).token = token
      BY <1>1 DEF BooksInv, ExchangeShape, HasToken, HasReply
    <3> QED BY <1>5, <3>1 DEF Last, Reply
  <2>2. capture' = capture /\ ~ capture.limitFound
    BY <1>1 DEF BooksInv, StreamRead, streamVars
  <2>3. Marked' = Marked \union {n}
    <3>1. \A i \in DOMAIN heard : ~ Pending(i, {"account", "setAside"})'
      BY <1>1 DEF Pending
    <3>2. \A i \in DOMAIN heard : Pending(i, {"account", "setAside"}) <=> i = n
      BY <1>1 DEF Pending
    <3>3. \A i \in DOMAIN heard : i \in Marked' <=> heard[i].reply.kind = "limit"
      BY <1>1, <2>2, <3>1 DEF Marked
    <3>4. \A i \in DOMAIN heard : i \in Marked <=> heard[i].reply.kind = "limit" /\ i # n
      BY <2>2, <3>2 DEF Marked
    <3>5. Marked \subseteq DOMAIN heard /\ Marked' \subseteq DOMAIN heard
      BY <1>1 DEF Marked
    <3> QED BY <2>1, <3>3, <3>4, <3>5
  <2>4. n \notin Marked
    BY <1>1, <2>1, <2>2 DEF Marked, Pending
  <2>5. LimitsMarked'
    BY <1>1, <1>5, <2>1, <2>3, <2>4, LimitAdded DEF BooksInv
  <2> QED BY <1>2, <1>3, <2>5 DEF BooksInv
<1> QED BY <1>4, <1>5

\* recordTokenUsage for a body.
LEMMA AccountStep ==
    ASSUME BooksInv, AccountReply
    PROVE  BooksInv'
<1>1. /\ pc = "account" /\ pc' \in {"setAside", "done"} /\ Reply.kind \in {"limit", "ok"}
      /\ pc' = "setAside" => Reply.kind = "limit"
      /\ pc' = "done" => Reply.kind = "ok"
      /\ UNCHANGED <<token, heard, limited, streamVars>>
      /\ Record(ChargedUsage(Reply), FALSE)
  BY DEF AccountReply, Goto, AnswerReply, BooksInv, ExchangeShape, attemptVars
<1>2. ExchangeShape' /\ StreamRead'
  BY <1>1, QuietStep DEF HasToken, HasReply
<1>3. LimitsMarked'
  <2>1. capture'.limitFound = capture.limitFound
    BY <1>1 DEF streamVars
  <2> QED BY <1>1, <2>1, MarkedKept DEF BooksInv
<1>4. DueCharged'
  <2>1. Reply.body \in Bodies
    <3>1. heard \in Seq(Heard) /\ heard # <<>>
      BY <1>1 DEF BooksInv, ExchangeShape, HasReply
    <3>2. Len(heard) \in DOMAIN heard
      BY <3>1
    <3> QED BY <3>1, <3>2, ReplyTypes DEF Reply, Last
  <2>2. /\ Charges(UsageHeard(Reply), ChargedUsage(Reply))
        /\ ChargedUsage(Reply) \in Optional(Usages)
    <3>1. UsageHeard(Reply) = BodyUsage(Reply.body)
      BY <1>1 DEF UsageHeard
    <3> QED BY <2>1, <3>1, BodyCharged DEF ChargedUsage
  <2>3. FALSE <=> Reply.kind = "stream"
    BY <1>1
  <2> QED BY <1>1, <2>2, <2>3, DueRecorded DEF BooksInv
<1> QED BY <1>2, <1>3, <1>4 DEF BooksInv

\* recordTokenUsage for a stream: what the capture knows by then.
LEMMA StreamEndsStep ==
    ASSUME BooksInv, StreamEnds
    PROVE  BooksInv'
<1>1. /\ pc = "stream" /\ pc' = "done" /\ Reply.kind = "stream"
      /\ UNCHANGED <<token, heard, limited, streamVars>>
      /\ Record(capture.usage, TRUE)
  BY DEF StreamEnds, Goto, BooksInv, ExchangeShape, attemptVars
<1>2. ExchangeShape' /\ StreamRead'
  BY <1>1, QuietStep DEF HasToken, HasReply
<1>3. LimitsMarked'
  <2>1. capture'.limitFound = capture.limitFound
    BY <1>1 DEF streamVars
  <2> QED BY <1>1, <2>1, MarkedKept DEF BooksInv
<1>4. DueCharged'
  <2>1. capture \in CaptureSet /\ Knows(capture, LinesPassed)
    BY PassedKnown DEF BooksInv
  <2>2. UsageHeard(Reply) = StreamUsage(LinesPassed)
    BY <1>1 DEF UsageHeard
  <2>3. Charges(UsageHeard(Reply), capture.usage) /\ capture.usage \in Optional(Usages)
    BY <2>1, <2>2 DEF Knows, CaptureSet
  <2>4. TRUE <=> Reply.kind = "stream"
    BY <1>1
  <2> QED BY <1>1, <2>3, <2>4, DueRecorded DEF BooksInv
<1> QED BY <1>2, <1>3, <1>4 DEF BooksInv

LEMMA SelectStep ==
    ASSUME BooksInv, Select
    PROVE  BooksInv'
<1>1. /\ pc = "select" /\ pc' = "send" /\ token' \in Tokens
      /\ UNCHANGED <<heard, recorded, limited, streamVars>>
  BY DEF Select, Goto, books
<1>2. ExchangeShape'
  BY <1>1 DEF BooksInv, ExchangeShape, HasToken, HasReply
<1>3. StreamRead'
  BY <1>1 DEF BooksInv, StreamRead, streamVars
<1>4. DueCharged'
  BY <1>1, DueKept DEF BooksInv
<1>5. LimitsMarked'
  BY <1>1, MarkedKept DEF BooksInv, streamVars
<1> QED BY <1>2, <1>3, <1>4, <1>5 DEF BooksInv

LEMMA FailStep ==
    ASSUME BooksInv, NoTokenLeft \/ ForwardFails
    PROVE  BooksInv'
<1>1. /\ pc \in {"select", "send", "resend"} /\ pc' = "done"
      /\ UNCHANGED <<token, heard, recorded, limited, streamVars>>
  BY DEF NoTokenLeft, ForwardFails, AnswerError, AnswerReply, Goto, attemptVars, books
<1>2. ExchangeShape' /\ StreamRead'
  BY <1>1, QuietStep DEF HasToken
<1>3. DueCharged'
  BY <1>1, DueKept DEF BooksInv
<1>4. LimitsMarked'
  BY <1>1, MarkedKept DEF BooksInv, streamVars
<1> QED BY <1>2, <1>3, <1>4 DEF BooksInv

LEMMA RefreshStep ==
    ASSUME BooksInv, RefreshAfterUnauthorized
    PROVE  BooksInv'
<1>1. /\ pc = "refresh" /\ pc' \in {"resend", "setAside"} /\ Reply.kind = "unauth"
      /\ UNCHANGED <<token, heard, recorded, limited, streamVars>>
  BY DEF RefreshAfterUnauthorized, Goto, attemptVars, books, BooksInv, ExchangeShape
<1>2. ExchangeShape' /\ StreamRead'
  BY <1>1, QuietStep DEF HasToken, HasReply
<1>3. DueCharged'
  BY <1>1, DueKept DEF BooksInv
<1>4. LimitsMarked'
  BY <1>1, MarkedKept DEF BooksInv, streamVars
<1> QED BY <1>2, <1>3, <1>4 DEF BooksInv

LEMMA StreamStartsStep ==
    ASSUME BooksInv, StreamStarts
    PROVE  BooksInv'
<1>1. /\ pc = "account" /\ pc' = "stream" /\ Reply.kind = "stream"
      /\ UNCHANGED <<token, heard, recorded, limited, streamVars>>
      /\ snapshot' = [NoSnapshot EXCEPT !.user = accountKeyFromToken(snapshot)]
  BY DEF StreamStarts, Forget, Goto, attemptVars, books
<1>6. accountKeyFromToken(snapshot') = accountKeyFromToken(snapshot)
  BY <1>1 DEF accountKeyFromToken, NoSnapshot
<1>2. ExchangeShape' /\ StreamRead'
  BY <1>1, <1>6, QuietStep DEF HasToken, HasReply
<1>3. DueCharged'
  BY <1>1, DueKept DEF BooksInv
<1>4. LimitsMarked'
  BY <1>1, MarkedKept DEF BooksInv, streamVars
<1> QED BY <1>2, <1>3, <1>4 DEF BooksInv

LEMMA UpstreamWritesStep ==
    ASSUME BooksInv, UpstreamWrites
    PROVE  BooksInv'
<1>1. PICK line \in StreamLines : written' = Append(written, line)
  BY DEF UpstreamWrites
<1>2. /\ pc = "stream" /\ UNCHANGED <<pc, token, snapshot, heard, recorded, limited, passed, capture>>
  BY DEF UpstreamWrites, attemptVars, tokenState, books
<1>3. ExchangeShape'
  BY <1>2 DEF BooksInv, ExchangeShape, Reply
<1>4. StreamRead'
  <2>1. written \in Seq(LineSet) /\ Captured(capture, written, passed) /\ line \in LineSet
    BY LinesAssumption DEF BooksInv, StreamRead
  <2>2. written' \in Seq(LineSet)
    <3> HIDE DEF LineSet
    <3> QED BY <1>1, <2>1
  <2>3. Captured(capture, written', passed)
    BY <1>1, <2>1, CapturedAsItGrows
  <2>4. Captured(capture, written, passed)'
    BY <1>2, <2>3
  <2> QED BY <1>2, <2>2, <2>4 DEF StreamRead
<1>5. DueCharged'
  BY <1>2, DueKept DEF BooksInv
<1>6. LimitsMarked'
  BY <1>2, MarkedKept DEF BooksInv
<1> QED BY <1>3, <1>4, <1>5, <1>6 DEF BooksInv

\* What is passed on grows, and with it what is known of limits.
LEMMA LimitStays ==
    ASSUME NEW w \in Seq(LineSet), NEW c, NEW k \in Nat, Captured(c, w, k),
           NEW d, NEW l \in Nat, k <= l, Captured(d, w, l), c.limitFound
    PROVE  d.limitFound
<1>1. PICK m \in 0..Len(w) : Knows(c, SubSeq(w, 1, m)) /\ Counted(w, k, m)
  BY DEF Captured
<1>2. PICK n \in 0..Len(w) : Knows(d, SubSeq(w, 1, n)) /\ Counted(w, l, n)
  BY DEF Captured
<1>3. l <= Len(Text(w)) /\ Len(Text(w)) \in Nat /\ Text(w) \in Seq(SymbolSet)
  BY TextType DEF Captured
<1>4. m <= n
  <2> DEFINE t == Text(w)
             short == SubSeq(t, 1, k)
             long == SubSeq(t, 1, l)
  <2>1. LineEnds(short) \subseteq LineEnds(long)
    <3>1. /\ DOMAIN short \subseteq DOMAIN long
          /\ \A i \in DOMAIN short : short[i] = long[i]
      <4> HIDE DEF t, SymbolSet
      <4> QED BY <1>3 DEF t
    <3> QED BY <3>1 DEF LineEnds
  <2> QED BY <1>1, <1>2, <2>1, FS_Subset DEF Counted
<1>5. PICK i \in DOMAIN SubSeq(w, 1, m) :
        LET lines == SubSeq(w, 1, m) IN
        lines[i].kind = "data" /\ lines[i].limit /\ Under(lines, i, {"failed", "error"})
  BY <1>1 DEF Knows, StreamLimit
<1> DEFINE few == SubSeq(w, 1, m)
           many == SubSeq(w, 1, n)
<1>6. /\ DOMAIN few = 1..m /\ DOMAIN many = 1..n /\ \A j \in 1..m : few[j] = many[j]
  <2> HIDE DEF LineSet
  <2> QED BY <1>4
<1>7. i \in 1..m /\ 1..m \subseteq 1..n
  BY <1>4, <1>5, <1>6
<1> HIDE DEF few, many
<1>8. Under(few, i, {"failed", "error"}) => Under(many, i, {"failed", "error"})
  <2>1. \A j \in 1..(i - 1) : j \in 1..m
    BY <1>7
  <2>2. \A j \in 1..(i - 1) : \A k1 \in (j + 1)..(i - 1) : k1 \in 1..m
    BY <1>7
  <2> QED BY <1>6, <2>1, <2>2 DEF Under
<1>9. StreamLimit(many)
  BY <1>5, <1>6, <1>7, <1>8 DEF StreamLimit, few
<1> QED BY <1>2, <1>9 DEF Knows, many

LEMMA NothingAdded ==
    ASSUME NEW S, NEW s \in Seq(S)
    PROVE  s \o <<>> = s
  OBVIOUS

LEMMA CapturedCalls ==
    ASSUME NEW w, NEW c, NEW k, Captured(c, w, k)
    PROVE  /\ k \in 0..Len(Text(w)) /\ c.limitFound \in BOOLEAN
           /\ c.onLimitCalls = IF c.limitFound THEN 1 ELSE 0
  BY DEF Captured, Knows, CaptureSet

\* The callback runs in the chunk that completes the first line about a limit.
LEMMA CopyChunkStep ==
    ASSUME BooksInv, CopyChunk
    PROVE  BooksInv'
<1> DEFINE t == Text(written)
<1>1. PICK n \in 1..Len(Coming) :
        /\ passed' = passed + n
        /\ capture' = WriteChunk(capture, SubSeq(Coming, 1, n))
        /\ limited' = limited \o [i \in 1..(capture'.onLimitCalls - capture.onLimitCalls) |-> token]
  BY DEF CopyChunk
<1>2. pc = "stream" /\ UNCHANGED <<pc, token, snapshot, heard, recorded, written>>
  BY DEF CopyChunk, attemptVars, tokenState
<1>3. /\ written \in Seq(LineSet) /\ Captured(capture, written, passed)
      /\ t \in Seq(SymbolSet) /\ Len(t) \in Nat /\ passed \in 0..Len(t)
  BY TextType, CapturedCalls DEF BooksInv, StreamRead
<1>4. /\ Coming = SubSeq(t, passed + 1, Len(t))
      /\ n \in Nat /\ passed \in Nat /\ passed + n <= Len(t)
  <2>1. Coming = SubSeq(t, passed + 1, Len(t))
    BY DEF Coming
  <2> HIDE DEF t, SymbolSet
  <2>2. Len(Coming) = Len(t) - passed
    BY <1>3, <2>1
  <2> QED BY <1>3, <2>1, <2>2
<1>5. Captured(capture', written, passed + n)
  <2>1. capture' = WriteChunk(capture, SubSeq(SubSeq(t, passed + 1, Len(t)), 1, n))
    BY <1>1, <1>4
  <2> QED BY <1>3, <1>4, <2>1, ChunkCaptured
<1>6. ExchangeShape'
  BY <1>2 DEF BooksInv, ExchangeShape, Reply
<1>7. StreamRead'
  <2>1. Captured(capture, written, passed)'
    BY <1>1, <1>2, <1>5
  <2> QED BY <1>2, <1>3, <2>1 DEF StreamRead
<1>8. DueCharged'
  BY <1>2, DueKept DEF BooksInv
<1>9. /\ capture.limitFound \in BOOLEAN /\ capture'.limitFound \in BOOLEAN
      /\ capture.onLimitCalls = IF capture.limitFound THEN 1 ELSE 0
      /\ capture'.onLimitCalls = IF capture'.limitFound THEN 1 ELSE 0
      /\ capture.limitFound => capture'.limitFound
  <2>1. capture.limitFound => capture'.limitFound
    BY <1>3, <1>4, <1>5, LimitStays
  <2> QED BY <1>3, <1>5, <2>1, CapturedCalls
<1>10. /\ Reply.kind = "stream" /\ heard \in Seq(Heard) /\ heard # <<>> /\ token \in Tokens
       /\ Last(heard).token = token /\ limited \in Seq(Tokens)
       /\ \A i \in DOMAIN heard : heard[i].reply.kind = "stream" => i = Len(heard)
  BY <1>2 DEF BooksInv, ExchangeShape, HasToken, HasReply, LimitsMarked
<1>11. CASE capture'.limitFound <=> capture.limitFound
  <2>1. limited' = limited
    <3> DEFINE d == capture'.onLimitCalls - capture.onLimitCalls
    <3>1. d = 0
      BY <1>9, <1>11
    <3>2. 1..d = {} /\ limited' = limited \o [i \in 1..d |-> token]
      BY <1>1, <3>1
    <3> HIDE DEF d
    <3>3. [i \in 1..d |-> token] = <<>>
      BY <3>2
    <3>4. limited \o <<>> = limited
      BY <1>10, NothingAdded
    <3> QED BY <3>2, <3>3, <3>4
  <2>2. LimitsMarked'
    BY <1>2, <1>11, <2>1, MarkedKept DEF BooksInv
  <2> QED BY <1>6, <1>7, <1>8, <2>2 DEF BooksInv
<1>12. CASE ~ capture.limitFound /\ capture'.limitFound
  <2>1. limited' = Append(limited, token)
    <3> DEFINE d == capture'.onLimitCalls - capture.onLimitCalls
               one == [i \in 1..d |-> token]
    <3>1. d = 1
      BY <1>9, <1>12
    <3>2. limited' = limited \o one
      BY <1>1
    <3> HIDE DEF d
    <3>3. one \in Seq(Tokens) /\ Len(one) = 1 /\ one[1] = token
      BY <1>10, <3>1
    <3> HIDE DEF one
    <3>4. one = <<token>>
      BY <3>3
    <3> QED BY <1>10, <3>2, <3>4
  <2>2. Len(heard) \in DOMAIN heard /\ heard[Len(heard)].reply.kind = "stream"
    BY <1>10 DEF Reply, Last
  <2>3. \A i \in DOMAIN heard : Pending(i, {"account", "setAside"})' <=> Pending(i, {"account", "setAside"})
    BY <1>2 DEF Pending
  <2>4. Marked' = Marked \union {Len(heard)}
    <3>1. \A i \in DOMAIN heard : i \in Marked' <=> i \in Marked \/ i = Len(heard)
      BY <1>2, <1>10, <1>12, <2>2, <2>3 DEF Marked
    <3>2. Marked \subseteq DOMAIN heard /\ Marked' \subseteq DOMAIN heard
      BY <1>2 DEF Marked
    <3> QED BY <2>2, <3>1, <3>2
  <2>5. Len(heard) \notin Marked
    BY <1>12, <2>2 DEF Marked
  <2>6. LimitsMarked'
    BY <1>2, <1>10, <2>1, <2>4, <2>5, LimitAdded DEF BooksInv
  <2> QED BY <1>6, <1>7, <1>8, <2>6 DEF BooksInv
<1> QED BY <1>9, <1>11, <1>12

\* Each action keeps the books.
LEMMA BooksStep == ExchangeInv /\ BooksInv /\ [Next]_vars => BooksInv'
<1> SUFFICES ASSUME ExchangeInv, BooksInv, [Next]_vars PROVE BooksInv'
  OBVIOUS
<1>1. CASE Next
  BY <1>1, SelectStep, FailStep, ForwardStep, RefreshStep, AccountStep, SetAsideStep,
     StreamStartsStep, UpstreamWritesStep, CopyChunkStep, StreamEndsStep DEF Next
<1>2. CASE UNCHANGED vars
  <2>1. UNCHANGED <<pc, heard, token, snapshot, recorded, limited, written, passed, capture>>
    BY <1>2 DEF vars, attemptVars, tokenState, books, streamVars
  <2>2. ExchangeShape' /\ StreamRead'
    BY <2>1 DEF BooksInv, ExchangeShape, StreamRead, Reply
  <2>3. \A reply : UsageHeard(reply)' = UsageHeard(reply)
    BY <2>1 DEF UsageHeard, LinesPassed
  <2>4. Due' = Due /\ Marked' = Marked
    BY <2>1, <2>3 DEF Due, Marked, Pending
  <2>5. \A r, h : Charged(r, h)' <=> Charged(r, h)
    BY <2>3 DEF Charged
  <2>6. LimitsMarked'
    BY <2>1, <2>4 DEF BooksInv, LimitsMarked
  <2>7. DueCharged'
    BY <2>1, <2>4, <2>3 DEF BooksInv, DueCharged, Charged
  <2> QED BY <2>2, <2>6, <2>7 DEF BooksInv
<1> QED BY <1>1, <1>2

LEMMA BooksInvariance == Spec => []BooksInv
  BY BooksInit, BooksStep, Invariance, PTL DEF Spec

\* A token is set aside for a limit once for each reply that reports one: a reply
\* of its own, or a stream, however often the stream says so and however it is cut.
THEOREM LimitsMarkedOnce == Spec => []LimitMarkedOnce
<1>1. BooksInv => LimitMarkedOnce
  <2> SUFFICES ASSUME BooksInv, pc \in {"stream", "done"}
               PROVE  LET reports == {i \in DOMAIN heard : ReportsLimit(heard[i].reply)}
                      IN \E of \in Matchings(limited, reports) :
                             \A n \in DOMAIN limited : limited[n] = heard[of[n]].token
    BY DEF LimitMarkedOnce
  <2>1. capture.limitFound <=> StreamLimit(LinesPassed)
    BY PassedKnown DEF BooksInv, Knows
  <2>2. Marked = {i \in DOMAIN heard : ReportsLimit(heard[i].reply)}
    BY <2>1 DEF Marked, ReportsLimit, Pending
  <2> QED BY <2>2 DEF BooksInv, LimitsMarked
<1> QED BY <1>1, BooksInvariance, PTL

\* Each reply with usage is charged once, by what it reports, to the token it was
\* got with and under the account key it had then, for streams of any length in
\* chunks of any size.
THEOREM RepliesCharged == Spec => []EachReplyChargedOnce
<1>1. BooksInv => EachReplyChargedOnce
  <2> SUFFICES ASSUME BooksInv, pc = "done"
               PROVE  EachReplyChargedOnce
    BY DEF EachReplyChargedOnce
  <2>1. Due = {i \in DOMAIN heard : /\ heard[i].key # ""
                                    /\ UsageHeard(heard[i].reply) # <<>>}
    BY DEF Due, Chargeable, Pending
  <2>2. PICK of \in Matchings(recorded, Due) :
          \A n \in DOMAIN recorded : Charged(recorded[n], heard[of[n]])
    BY DEF BooksInv, DueCharged
  <2>3. \A n \in DOMAIN recorded :
          LET h == heard[of[n]] r == recorded[n] IN
          /\ r.token = h.token /\ r.key = h.key
          /\ r.stream = (h.reply.kind = "stream")
          /\ ChargedSoundly(UsageHeard(h.reply)[1], r.usage)
    BY <2>2 DEF Charged
  <2> QED BY <2>1, <2>2, <2>3 DEF EachReplyChargedOnce
<1> QED BY <1>1, BooksInvariance, PTL
=============================================================================
