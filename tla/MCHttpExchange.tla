--------------------------- MODULE MCHttpExchange ---------------------------
(* Two tokens of which the store may hold any of three snapshots; requests that *)
(* may and may not get the tool; streams of up to four lines, cut anywhere.     *)
EXTENDS HttpExchange, TLC

TokensAlike == Permutations(Tokens)

Held(plan, access, account, user) ==
    [plan |-> plan, access |-> access, account |-> account, user |-> user]

\* Of no known plan and owner; the other two have one account key, by the account
\* and by the user.
MCSnapshots ==
    {Held("", "first", "", ""), Held("free", "first", "me", ""),
     Held("plus", "second", "team", "me")}

NoTools == [kind |-> "absent", list |-> <<>>]

MCBodies ==
    {[json |-> TRUE, type |-> type, model |-> model, input |-> TRUE, tools |-> NoTools] :
        type \in {"absent", "create", "other"}, model \in {"plain", "spark"}}
    \union
    {[json |-> TRUE, type |-> "absent", model |-> "absent", input |-> FALSE,
      tools |-> [kind |-> kind, list |-> <<>>]] : kind \in {"absent", "null", "bad"}}
    \union
    {[json |-> TRUE, type |-> "create", model |-> "plain", input |-> FALSE,
      tools |-> [kind |-> "list", list |-> list]] :
        list \in {<<>>, <<"function", "">>, <<"image", "function">>}}
    \union
    {[json |-> FALSE, type |-> "absent", model |-> "absent", input |-> FALSE, tools |-> NoTools]}

Headers(present, listed) ==
    [fields |-> [n \in present |-> "sender"], connection |-> listed]

MCHeaders ==
    {Headers({}, {}),
     Headers({"Authorization", "Accept-Encoding", "Account", "Own"}, {}),
     Headers({"Authorization", "Connection", "Te", "Own"}, {"Own"}),
     Headers({"Authorization", "Connection", "Account", "Own"}, {"Account", "Te"})}

Plain == Headers({"Authorization", "Own"}, {})

AnyCreate == CHOOSE body \in MCBodies : body.type = "create" /\ body.model = "plain"

Request(responses, body, headers) ==
    [responses |-> responses, body |-> body, headers |-> headers]

MCRequests ==
    {Request(TRUE, body, Plain) : body \in MCBodies}
    \union {Request(FALSE, AnyCreate, headers) : headers \in MCHeaders}

Usage(input, cached, detail) ==
    <<[input |-> <<input>>, cached |-> cached, output |-> <<1>>, detail |-> detail,
       reasoning |-> <<>>]>>

Top(usage) == [usage |-> usage, response |-> <<>>]
Nested(usage) == [usage |-> <<>>, response |-> usage]

Event(name) == [kind |-> "event", name |-> name]
Data(envelope, limit) == [kind |-> "data", envelope |-> envelope, limit |-> limit]

First == Data(Nested(Usage(3, <<1>>, <<>>)), FALSE)
Second == Data(Top(Usage(2, <<>>, <<2>>)), FALSE)
Limit == Data(Top(<<>>), TRUE)

MCStreamLines ==
    {Event("completed"), Event("failed"), Event("error"), First, Second, Limit,
     [kind |-> "blank"], [kind |-> "other"]}

Json(envelope) == [json |-> TRUE, envelope |-> envelope, lines |-> <<>>]
Lined(lines) == [json |-> FALSE, envelope |-> Top(<<>>), lines |-> lines]

ReplyOf(kind, body) == [kind |-> kind, body |-> body, headers |-> Headers({"Own"}, {})]

\* Usage with and without cached input, reported in either place, or both, or
\* more of it than of input.
MCReplies ==
    {ReplyOf(kind, Json(Top(<<>>))) : kind \in {"unauth", "deactivated", "limit"}}
    \union {ReplyOf("limit", Json(Top(Usage(1, <<>>, <<>>)))),
            ReplyOf("ok", Lined(<<Event("completed"), First, [kind |-> "blank"]>>)),
            ReplyOf("ok", Lined(<<[kind |-> "other"]>>))}
    \union {ReplyOf("ok", Json(Nested(Usage(3, cached, detail)))) :
                cached \in {<<>>, <<0>>, <<4>>}, detail \in {<<>>, <<2>>, <<-1>>}}
    \union {[kind |-> "stream", body |-> Lined(<<>>),
             headers |-> Headers({"Connection", "Own", "Te", "Date"}, {"Own"})]}
=============================================================================
