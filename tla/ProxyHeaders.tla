---------------------------- MODULE ProxyHeaders ----------------------------
(* Which headers cross the proxy (proxy_writer.go, upstream.go).  A message's   *)
(* headers are [names -> value], with the names its Connection header lists     *)
(* beside it: [fields |-> ..., connection |-> a set of names].  A name stands   *)
(* for its canonical form, and the values of a name for one value.              *)
\* The fixed list, of which three stand for all.
HopByHop == {"Connection", "Te", "Upgrade"}

hopByHopHeaderNames(h) == HopByHop \union h.connection

Without(fields, names) == [n \in DOMAIN fields \ names |-> fields[n]]

\* Mutant: only the fixed list is held back.
KeepConnectionNamed(h) == Without(h.fields, HopByHop)

cloneForwardHeaders(h) == Without(h.fields, hopByHopHeaderNames(h))

\* Of the destination, only what the source has is replaced.
Replaced(dst, src) ==
    [n \in DOMAIN dst \union DOMAIN src |-> IF n \in DOMAIN src THEN src[n] ELSE dst[n]]

copyHeaders(dst, src) == Replaced(dst, cloneForwardHeaders(src))

\* http.Header.Set
Set(fields, name, value) == Replaced(fields, [n \in {name} |-> value])

WithAccount(fields, account) ==
    IF account # "" /\ "Account" \notin DOMAIN fields
    THEN Set(fields, "Account", account) ELSE fields

\* forwardRequestWithTarget
forwardHeaders(h, token, account) ==
    WithAccount(Set(Without(cloneForwardHeaders(h), {"Accept-Encoding"}), "Authorization", token),
                account)
=============================================================================
