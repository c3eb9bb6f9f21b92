# A verification of codex-load-balancer

The repository is a Go reverse proxy that spreads Codex requests over a directory of
ChatGPT credentials. This directory models the parts of it where order, failure and
concurrency matter, checks the models with TLC, and proves the central results for every
size of the system with TLAPS.

    tlc -workers 2 -config MCFailover.cfg MCFailover       one run
    tlapm UsageProofs.tla                                  one module's proofs

`PROJECT.json` lists the runs, what each definition translates (`map`), the hazards, and
for every property a mutated definition that makes it fail (`mutants`; the mutated forms
stand in the modules beside the definition they replace, under "Mutant:").

## 1. The system

| Component | Code | State | Operations |
|---|---|---|---|
| Token store and ranking | `store.go` | tokens with cooldown, invalid flag, quota windows; session bindings; file mtimes; refresh mutexes; three locks | `SelectToken`, `UpsertToken`, `RemoveToken`, `MarkCooldown`, `MarkInvalid`, `BindSession`, `ClearSessionsForToken`, ... |
| Request handlers | `proxy_http.go`, `proxy_ws.go`, `proxy_token.go`, `upstream.go` | per request: attempt, token, tokens tried, the reply held back | select, refresh if stale, forward, fail over, bind |
| Credential refresh | `refresh.go` | one mutex per token; the JSON file | `maybeRefreshToken(IfStale)`, `updateAuthFileTokens` |
| Token watcher | `tokens.go` | mtimes seen | scan the directory every 10 s |
| Usage sync | `syncer.go`, `usage.go` | none of its own | fetch usage of each token, refresh, remove, re-key rows |
| Rate windows | `rate_limits.go`, `usage.go` | a token's five-hour and weekly windows | read from headers and from snapshots, merge |
| Usage sink | `usage_sink.go`, `usage_db.go` | queue, overflow map, stopped flag; `usage_events` | `Record`, worker, `Stop`, `Wait` |
| WebSocket tunnel | `websocket_tunnel.go`, `usage_capture.go` | two copies, the message being captured, its pipe and decoder | copy, capture, close, report |
| WebSocket client copy | `websocket_transform.go`, `tool_injection.go` | the buffered text message | decode, buffer, inject, encode, forward |
| Process | `main.go`, `server.go` | signal, workers, WebSocket wait group | start, serve, shut down |
| SSE and body capture | `usage_capture.go` | line buffer, event name, usage found | read chunks, report a limit, report usage |
| Request and reply contents | `proxy_http.go`, `upstream.go`, `proxy_writer.go`, `tool_injection.go` | none of their own | inject tools, filter headers, write, stream |
| Dashboard and its queries | `dashboard.go`, `usage_db.go` | none: reads table and store | totals, daily bars, lines per account |
| Flags, auth, routing, web page | `flags.go`, `auth.go`, `routing.go`, `web/` | none | not modelled |

How they interact:

- Handlers, syncer and watcher share the `TokenStore`. It has a lock for tokens, one for
  sessions and one for the mutex map, and no operation holds two of them: `SelectToken`
  and `RemoveToken` are sequences of critical sections, between which the others run.
- Handlers and syncer refresh a token under its own mutex, held across an HTTP exchange
  and the rewriting of the file; the watcher reads the same file without it.
- Handlers and captures record usage in the sink, under the account key they know; the
  syncer learns better keys and rewrites the stored rows; the dashboard sums them up.
- A capture calls back into the store when a stream ends on a usage limit.
- `main` ends them in an order: HTTP server, workers, WebSocket handlers, sink, database.

What is hard, and what makes each part correct:

- *Failover*: a retry must use another token, find it if there is one, and answer the
  client with the right reply; a session must stay with its token and leave it only for a
  cause. Everything the decision rests on can change between two of its steps.
- *Credentials*: a rotated refresh token exists in three places (server, file, store),
  updated one after the other by actors that can fail, be killed, or overtake each other.
  The file must stay usable, two exchanges must not race, a stale entry must heal.
- *Contents*: each attempt has a token, a plan and an account of its own, and nothing of an
  earlier attempt may be left in what it sends; a stream is read while it is passed on, in
  chunks cut anywhere; each reply that cost tokens is charged once, also one nobody sees.
- *Usage*: bounded memory against bursts, failing transactions, a stop in the middle:
  an accepted record is counted once, under its own dimensions, or reported lost.
- *Tunnels*: three goroutines per connection wait for each other over a synchronous pipe,
  driven by whatever frames two peers send; each complete response is counted once and
  the tunnel ends.
- *Shutdown*: nothing is used after it was closed, and the process exits.

`PROJECT.json`, `hazards`, has the full list with lines.

## 2. The modules

| Module | Models | Composition |
|---|---|---|
| `UsageLedger` | abstract: each record is refused, or accepted and in the end counted or reported lost | |
| `UsageSink` | the sink and the inserting half of the database | implements `UsageLedger` |
| `UsageAccounting` | sink, syncer's key discovery and re-keying | extends `UsageSink` |
| `UsageReport` | the dashboard's sums over the rows | extends `UsageAccounting` |
| `TokenRanking` | availability, remaining points, the comparison of candidates | |
| `SelectBest` | one walk over the map in random order | extends `TokenRanking` |
| `RequestContract` | abstract: a request asks at most two tokens, and is answered once | |
| `Failover` | both handlers over the shared store | extends `TokenRanking`; implements `RequestContract` |
| `FailoverHistory` | `Failover` with what a request could have had | extends `Failover` |
| `Credentials` | refresh, callers, watcher, file, server, operator, crash | |
| `RateWindows` | windows from headers and snapshots; read-merge-write | |
| `WindowsHistory` | `RateWindows` with what was reported last, and what a reply wrote over | extends `RateWindows` |
| `TokenSelection` | picks among tokens while windows of one are reported | extends `WindowsHistory`, `SelectBest` |
| `WsTunnel` | one tunnel with its capture (upstream to client) | |
| `ToolInjection` | which request gets which hosted tools | |
| `ProxyHeaders` | which headers cross, with what authorization and account | |
| `SseCapture` | usage and limits off JSON bodies and event streams | |
| `HttpExchange` | one HTTP request's bodies, headers, replies and charges | extends the three above |
| `FrameCodec` | frames as bytes: lengths, mask, opcode | |
| `WsInject` | the copy from client to upstream | extends `ToolInjection`, `FrameCodec` |
| `Lifecycle` | the process, with the others reduced to what it waits for | |
| `UsageProofs` | theorems about `UsageSink`, `UsageAccounting`, `UsageReport` | extends `UsageReport` |
| `RoutingProofs` | theorems about `RateWindows`, `WindowsHistory`, `TokenSelection`, `Failover`, `FailoverHistory` | extends `FailoverHistory`, `TokenSelection` |
| `CredentialsProofs`, `HttpExchangeProofs`, `WsTunnelProofs`, `WsInjectProofs`, `LifecycleProofs` | theorems about the module of that name | extend it |
| `FoldFacts` | what `FoldLeft` of any operation does, by induction | instantiated by the proofs of `HttpExchange` and `WsInject` |
| `MC*` | small instances for TLC | extend the module |

### How state and actions correspond to the code

**UsageSink.** `queued` and `overflow` are `UsageSink.queue` and `.overflow`, `stopped`
the flag; a `Record(r)` is one critical section with its five ways out, one action each.
`worker` is where the goroutine is; `cond.Wait`, `Signal` and `Broadcast` are the state
"wait" and `Wake`. A batch is inserted by one transaction, which commits as a whole or
fails after any of its statements; then the records go one by one. A stored row keeps the
set of records it stands for (`of`), which is history; token counts are left out, since a
merged row's counts are the sums over `of`. Path, status and stream flag are one value,
`shape`; account key, token and hour are kept.

**UsageAccounting.** `known[t]` is the keys a token has had, the latest first. A request
records under whichever it saw. `rekeyUsageForToken` reads the key in one step and runs
its UPDATE in a later one.

**UsageReport.** A sum of tokens is the set of records summed. A row's time is its record's,
or the hour's start where records were coalesced; days, periods and `ListAccountSummaries`
are the queries' WHERE and GROUP BY.

**SelectBest / Failover.** The ranking is exact: points, defaults for unknown windows, the
four criteria. `TokenSelection` shows that the loop's pick is *the* best candidate whatever the
order of the map, so that `Failover!Rank` may say "the candidate better than all others".
In `Failover` every access to the store under one lock is a step; labels follow the handler
from `SelectToken` to the answer. What upstream answers is one of five kinds, as far as the
handlers tell replies apart. `Elsewhere` is the rest of the process: cooldowns end, tokens
are reloaded, synced, removed. Refreshing is one step here and opened in `Credentials`.
`Phase`, `Asked` and `Heard` map a handler to `RequestContract`.

**HttpExchange.** What `Failover` leaves out of one HTTP request: the body, as far as
`injectTools` reads it; headers, three hop-by-hop ones standing for the list; the handler's
`snapshot` of its token, with plan, access token, account and user, which a selection and a
refresh replace as a whole by whatever the store then holds (`given`); the reply, its usage
and its event stream. Usage is charged under `accountKeyFromToken` of the snapshot. A
stream's line is two symbols and a line end, so that chunks cut lines. Which token an
attempt gets is left open, as is what `HasAvailableToken` says.

**Credentials.** One token, since tokens share nothing. `entry`, `fileMod`, `lockEntry` are
its slots in the store's maps, `file` the JSON file, `issued`, `spent`, `rejected` the
server. A call goes through check, mutex, second check, exchange, temporary file, rename,
store update. Locking and the snapshot after it are one step, as are the last store access
and unlocking; nobody can tell them apart. An exchange can be refused, fail, succeed with
its answer lost, or succeed. `lost` and `orphaned` are history.

**RateWindows.** A window is kept with the reported window it was made of, which the code
forgets and the properties need. Percentages and lengths at each range's edge are inputs.
`WindowsHistory` adds `latest`, the last report of each window; `missed`, the windows
reported since a handler read the token; and `overtaken`, those whose last report a reply
that is silent about them has written over.
`TokenSelection` runs `SelectBest`'s walk over a store in which one token, `Watched`, has these
windows, and the others have any state. A walk works on copies that `availableCandidates` makes
under one lock, so nothing is reported while it lasts.

**WsTunnel.** `down` is the copy to the client and, after each frame, the capture; `pipe`
is the `io.Pipe`, whose write returns when the decoder has read all of it. A frame's payload
says only how far the message's JSON value is along. **WsInject** is the other direction; a
payload is a sequence of pieces, of which the model knows the bytes (63 or 65473 in the run).
A header is the first byte, the second, and the bytes that extend the length: `FrameCodec`
builds and parses them. Length fields are bytes put together as `binary.BigEndian` does.

**Lifecycle.** `main` goes through `run`, `serve` and `closeRuntime`; handlers, workers, sink
and database are what it waits for, in the order in which it does. A tunnel ends when it is
told to, unless it has got stuck (`TunnelSticks`): `WsTunnel` opens what is one step here.

## 3. The runs

| Run | Configuration | What it asks | Distinct states |
|---|---|---|---|
| `accounting` | `MCUsageAccounting` | accounting, single counting, dimensions, draining, implementation of the ledger, rows under the current key, the dashboard's days, periods and accounts | 56,064 |
| `selection` | `MCTokenSelection` | the pick does not depend on map order; windows are not confused, and stay as last reported but for a race | 3,802,951 |
| `ranking_documented` | `MCTokenSelectionDocumented` | violated, section 6 | |
| `failover` | `MCFailover` | retries, stickiness, affinity, implementation of the request's contract | 706,939 |
| `credentials` | `MCCredentials` | usable file, exclusion, healing | 4,250,834 |
| `credentials_live` | `MCCredentialsLive` | every refresh returns | 478,518 |
| `credentials_sync` | `MCCredentialsSync` | violated, section 6 | |
| `tunnel` | `MCWsTunnel` | usage per message, one limit report, termination | 190,232 |
| `tunnel_trailing` | `MCWsTunnelTrailing` | violated, section 6 | |
| `exchange` | `MCHttpExchange` | bodies and headers per attempt, charges, limits of a stream | 2,825,317 |
| `inject` | `MCWsInject` | messages whole, in order, valid frames, size limits | 2,897,786 |
| `lifecycle` | `MCLifecycle` | order of shutdown, saved usage, exit or what hangs | 31,341 |

### Bounds, and why they suffice

- `accounting`: capacity one each; of four records over two tokens of one team account, two
  keys, two hours and two days, up to three are made (`MaxRecorded`). The smallest queue and
  map make every way out of `Record` happen: queued, merged, overflowed, full, stopped; a
  batch of two and its fallback occur, as do a late record under an old key and a re-keying
  that overtakes another. The page is asked for at a time that cuts the hour of the coalesced
  records, and at one that cuts none (`ReportTimes`), for two periods (`Spans`).
- `selection`: three tokens: transitivity, the one thing a loop's result can depend on, is
  about three. One of them has its windows reported by a handler and by the sync, which may run
  between the handler's read and its write; lengths inside and at the edge of the ranges, and
  missing; percentages outside 0..100 and NaN. The others are ahead of it, behind it, equal to
  each other, absent, invalid or cooling, and have quotas around the README's 30%; any of the
  three may have been tried. For more handlers there are the theorems (section 5).
- `failover`: two tokens, one session, two requests of it, one of them a WebSocket. Two
  attempts are all a request has, so a third token adds none; binding races need two requests.
  The run starts with both tokens loaded and no usage reported. `MaxElsewhere = 1` bounds what
  the rest of the process does to one step, at any moment; what requests do to each other is
  not bounded.
- `credentials`: a request and a worker, one tick, login, deletion or crash at any moment
  (`MaxEvents`), three credentials. The run starts at time 3 with no date or one that is due
  for a refresh (`Interval` and `Debounce` are one tick); a refresh makes it recent. Two
  mutexes are enough: a third would have to be made while two calls hold others. Mutexes are
  interchangeable (`SYMMETRY`), and `SafetyView` drops the values that decide nothing but which
  of the replies is possible, all of which are possible in another way; no property of the run
  reads them. `credentials_live` has neither, since both can hide a cycle, and no events.
- `tunnel`: three frames, which hold a message in three fragments, one with a control frame
  between its fragments, one broken off by another. `tunnel_trailing`: two frames.
- `exchange`: two interchangeable tokens (`SYMMETRY`), as two attempts are all there are. At
  each selection and each refresh the store may hold any of three snapshots for a token, with
  different plans, access tokens, accounts and users, one of them without an owner; requests
  with every kind of model, type and tools; replies with usage in either place, contradictory,
  or within lines of text; streams of four lines, the fewest in which an event, its data, its
  end and more data, or two limits, occur.
- `inject`: five frames: too large at once, too large by its second or third fragment, control
  and data frames in between, a ping longer than the protocol allows; a fragment more, or a
  tool, takes a message across 126 and 65536 bytes, and 65536 is the limit.
- `lifecycle`: one HTTP request, two WebSockets (one may be in its handshake while the
  other is in its tunnel), both workers.

`CHECK_DEADLOCK FALSE` stands where the system really ends: the sink's worker has returned,
every request is answered, the tunnel ended, the process exited; and in
`inject`, when the client has sent its frames. In `exchange` it is the answered request.

### Fairness

| Module | Assumed | Because |
|---|---|---|
| `UsageSink` | WF of the worker | a goroutine is scheduled; SQLite is local, has one connection and a busy timeout, so inserts return |
| `UsageAccounting` | also WF of starting a re-keying, SF of its UPDATE | the sync's ticker goes on; a failing UPDATE is logged and tried at the next sync. A sync re-keys only after it has fetched the token's usage (`syncer.go:113-133`): this assumes that the token stays and that fetching succeeds now and then |
| `Failover` | WF of each handler's steps | HTTP: the transport's header timeout. It is an assumption that streams and tunnels end, that no tunnel is stuck and that upstream answers a WebSocket's handshake (section 6) |
| `Credentials` | WF of each call's steps, SF of taking the mutex | the clients' timeouts of 15 s; `sync.Mutex` hands over to a starving waiter |
| `WsTunnel` | WF of the proxy's goroutines only | reads and writes of closed connections return; peers owe nothing: not to send, read or close |
| `Lifecycle` | WF of `main`, of handlers reading a header (5 s) and of the end of a tunnel that is told to end and not stuck; SF of a worker's stop and of the sink's return. Nothing of a handshake or of a stuck tunnel | `select` picks among ready cases at random; a stopped sink gets no new records |

`RequestContract` states the fairness it promises: whoever was taken up proceeds. `Failover`'s
own implies it.

`TokenSelection` and what it is made of, `HttpExchange` and `WsInject` have safety properties
only. Nothing assumes that clients send or that the operator acts; of upstream,
only `Failover` and `UsageAccounting` assume what the table says.

## 4. What the runs show

- **accounting**: `AcceptedAccounted`, `CountedOnce`: through any failure of any insert, an
  accepted record is at each moment in exactly one place. `DimensionsPreserved`: coalescing
  never merges across account, token, shape or hour. `StopDrains`, `StopTerminates`: `Wait`
  returns, and then nothing is left in memory. `ImplementsLedger`: with fairness, every
  accepted record is settled, so no wake-up is lost. `RowsFollowIdentity`: late records under
  an old key and re-keyings that overtake each other are mended by a later sync; it would not
  hold if re-keying were done only when a key is learnt (the mutant). `DaysExact`: the day's
  figure and every bar count the stored usage of that day, all of it and no other, for an hour
  lies within a day. `PeriodsWithinAnHour`: a period that starts at a time of day counts
  nothing older and misses at most coalesced usage of its first hour. `AccountsShowOwnUsage`:
  when one of two logins of a team account learns its user, its usage is split off and no
  other's (re-keying by the old key instead of the token would take both, the mutant).
- **selection**: `PickIsTheFavourite`: the pick is the best candidate of the code's ranking. It
  is not the documented ranking (`PickIsAsDocumented`, section 6). `WindowsNotConfused`: a
  window that says it is of five hours is never the weekly quota, nor the other way round.
  `LatestWordKept`: through replies that report one window, or no number, the token's windows
  are the last report of each, but for one race that the property names: a reply that is silent
  about a window writes back what its handler had read, over a report that was made in between.
  `ExhaustedNotPicked`: but for that race, no token is picked that is used up by its last
  report.
- **failover**: `FailoverReachesHealthyToken`: if a token the request had not tried was usable
  throughout, the client is not handed a failure before both attempts were spent.
  `StickyHonoured`. `AffinityLostForCause` is about a session that is taken off its token, by
  clearing the binding or by overwriting it. Either the token failed a request or was removed;
  or a request of the session did it that could not go to the token, because the token had
  failed it, was unusable at a time since the attempt began to look, or was bound only after
  that. The last is a race: of two requests of a session that choose a token at the same time
  the later one to bind wins, and one that found the old binding unusable clears the new one
  unseen. Requests that come one after the other keep their token. `KeepsContract`: both
  handlers implement `RequestContract`: at most two tokens are asked, each once, or twice if a
  refresh followed its 401; another only after a failure; the answer is the last reply heard,
  or "no available tokens" if upstream was never asked; and it comes.
- **exchange**: `SentFitsToken`, `HeadersFitToken`: what an attempt sends depends on the
  client's request and on what the store holds of its token only, also after a refresh that
  brings another plan, access token or account. A client's own account header is sent instead
  of the token's, as the code does it (section 6). `LimitMarkedOnce`, `EachReplyChargedOnce`: a
  reference reading of the lines the client was sent, against the capture's reading of chunks;
  and of a usage object, against `usageFromEnvelope`. A charge is under the key
  of the account the reply's attempt had; usage of a token of unknown account is dropped, as
  the code does it.
- **credentials**: `FileUsable`, `OneRefreshAtATime` (with the one exception that the
  token was removed, and its mutex with it, while a call was using it), `SpentEntryHeals`:
  a reload that overtakes a refresh leaves an older mtime behind, so the next scan repairs
  it; this hinges on the mtime being taken before the contents are read (the mutant).
- **tunnel**: `UsageReportedPerMessage`, `LimitReportedOnce`, `TunnelEnds` (with the exception of section 6: a capture that writes bytes nobody reads).
- **inject**: `MessagesRelayed`: unless it was cut off, a client that keeps to RFC 6455 has
  every complete message relayed, in order and with the hosted tool where one is due.
  `UpstreamStaysValid`: what upstream is sent keeps to the protocol if the client does, read
  off the bytes of the headers by the rules of RFC 6455, not by the code's parser.
  `CutOffForSizeOnly`: a client is cut off when a message is over the limit, and for nothing
  else. All three are about clients that keep to the protocol (`Valid`): fragments in order,
  nothing after a close frame, control frames final and of at most 125 bytes. The run also
  has a ping that is longer than the limit, which the copy does refuse.
- **lifecycle**: `AcceptedUsageSaved`, `WebSocketUsageKept`, `HttpUsageKept`,
  `DatabaseClosedLast`. `ExitsAfterSignal`: after a signal the process exits, whatever clients
  do, or else one WebSocket hangs for ever: in the handshake, which has no deadline, or in a
  tunnel stuck as in section 6.

## 5. What is proved

For every value of the constants, from the assumptions named in the modules.

**UsageProofs**, for any records, capacity, tokens, keys, hour, day that is a whole number of
hours, and periods. Of the sink alone: `TypeCorrect`, `NothingSilentlyLost`,
`NothingCountedTwice`, `RowsKeepDimensions`, `DrainedAtStop`, `SinkImplementsLedger`. The
safety properties are not inductive: that no record is counted twice needs that queue,
buckets, batch and rows are pairwise disjoint and that only accepted records are in them;
that dimensions are kept needs that each bucket's entry agrees with its key and each record
in it; that a stop drains needs that a worker at rest has an empty batch and returned only
with queue and map empty. The invariant is the conjunction of these, proved action by
action. `SinkImplementsLedger` is the safety half of the refinement, `[][Ledger!Next]` under
the mapping; its fairness stays with TLC.

Of the sink with the syncer and the dashboard (`ASpec`, which the run checks):
`AccountedThroughRekeying`, `DimensionsKeptThroughRekeying`, `LedgerKeptThroughRekeying`,
`LinesShowOwnUsage`, `DaysAreExact`, `PeriodsAreClose`. A step of the composition is a step of
the sink, a step of the syncer that leaves the sink alone, or an UPDATE, which keeps what each
row counts and so keeps rows disjoint. What is added to the invariant: a row is under a key
that the token of each of its records has had, and so is what an UPDATE under way will write
and what every accepted record was made under (`KeysInv`, `RowsInv`); and a row's time is its
records' own or the start of their hour. Lines of the page are then about own usage, and
disjoint because rows are. Days are exact since an hour's start is on the day of the whole
hour (`HourStart`), which is where `Day % Hour = 0` is needed; a chart's bar out of the query
over the longest period is the bar asked for (`TrendDay`). A period is close since a row is
never later than its records and earlier only by part of an hour.

**CredentialsProofs** (`TypeCorrect`, `FileStaysUsable`, `RefreshesExclude`,
`OvertakenEntryHeals`), for any numbers of requests, workers, mutexes, any periods and either
policy of the server. `FileUsable` rests on two facts: a refresh token that was exchanged,
replaced and is neither in hand nor lost is never in the file again, and credentials in the
hands of a call are its own. `OneRefreshAtATime` rests on: as long as no mutex was dropped
while in use, every call that has, or is about to take, a mutex has the one in the map; and a
mutex is held once. `SpentEntryHeals` is the one that speaks of mtimes and needs most: every
mtime is behind the clock that stamps writes; between an exchange and its rename the store has
noted nothing newer than the file (`RenameAhead`); and an exchanged token that the store, or
the watcher on its way to the store, carries has an mtime behind the file's, or is in the
hands of the call that will replace it (`EntryBehind`, `ReadBehind`). That the watcher takes
the mtime before it reads keeps the last. All hold as long as no token was removed under a
refresh.

**HttpExchangeProofs**, for any requests, replies, headers, plans and accounts, and streams
of any length cut into chunks of any size. `BodyFitsToken`, `HeadersFit`: until the reply is
passed on the request is the client's own, and what was sent last was made from it and from
the handler's snapshot; and the snapshot is what the store gave at the last selection or
refresh (`SnapshotIsGiven`), account included: nothing of an earlier attempt, or of the token
as it was before a refresh, is left in it. The rest are lemmas on
the operators: what `injectResponseTools` does to a body, what `forwardHeaders` and
`copyHeaders` let pass.

`LimitsMarkedOnce`, `RepliesCharged`: the invariant (`BooksInv`) says of the capture that it
has read what was passed on: some lines whole, of which it knows what a reader of these lines
finds in them (`Knows`), and up to two symbols of the next, which wait in its buffer
(`Waiting`); and of the books that `recorded` and `limited` are about just the replies that
are dealt with by now (`Due`, `Marked`), each once and in their order. That a chunk keeps the
first is an induction over its symbols (`SymbolCaptured`, `ChunkCaptured`); that one more line
changes what is known as `ReadLine` has it is `ReadOneLine`. The capture's last usage is the
usage of the stream's last completed response because no line that follows is one
(`UsageOfNext`), and its callback ran once if there is a limit, as a limit stays found when
more lines follow (`LimitStays`). A body that is not JSON is a stream in one chunk
(`TextRead`). From the constants the theorems need that bodies and lines are of the
shapes of `SseCapture` (`RepliesAssumption`, `LinesAssumption`).

**RoutingProofs** holds what decides which token a request gets, for any tokens, sessions,
requests, handlers, windows and lengths.

*Failover*. `TypeCorrect` and `FailoverKeepsContract`: the invariant is a fact about each
request's record that only its own handler changes: a token in use is none of those tried and
one given up is; attempts count the tokens given up; a reply is held back exactly during the
second attempt, and the one at hand fits the label. `FailoverKeepsContract` is
`[][Contract!Next]` for an arbitrary request `one`, by a case per action; the other requests
and the rest of the process stutter. `AffinityKept`, `HealthyTokenReached`,
`StickinessHonoured` are for `HSpec`, with the history variables. A binding changes where the
evicted or failing token's sessions are cleared, and where a request unbinds or binds; such a
request does not follow the binding, and only an anchor it has tried can go unfollowed
(`AnchorKnown`). An anchor is still bound and usable, so a first attempt, which has tried
nothing, follows it; what was usable all along is usable when a request finds no candidate, so
it was tried.

*Rate windows* (`WindowsTypeCorrect`, `WindowsApart`, `LatestWindowsKept`). The invariant adds
that what handlers have read of the token is as good as the token itself, for they write it
back. That the two quotas are not confused is a matter of the guesses: a window is picked by
its length, or by its place only where it has none. `LatestWindowsKept` is about `NotedSpec`:
what a handler has read of a window is its last report, unless it has missed one since or that
window was overtaken (`CopyKnown`).

*The pick* (`PickCorrect`, `ExhaustedOut`), for `SelectSpec`. The invariant: what is kept is
better than everything the walk has passed, and the watched token's copy has its present
windows. The comparison is shown total and transitive on candidates of different ids, and its
maximum to be the element the four filters leave. `SelectionKeepsWindows`: whatever is proved
of the windows alone holds beside the picks.

**FoldFacts**. The library states its induction theorems for an operator, which the provers
cannot instantiate. `LeastNatural` and `Induction` have the same for a set of naturals, from
the library's order on finite sets. With them `FoldLeft` is shown to go one element at a time
(`FoldNothing`, `FoldAppend`), for an operation that is a constant of the module: the
proofs of `HttpExchange` instantiate it with `ReadSymbol`, those of `WsInject` with the sum of
a payload's bytes and with the reading of a frame.

**WsTunnelProofs** (`NothingRunsOn`, `UsageOncePerMessage`, `LimitOncePerConnection`), for any
frames and number of them. `NothingRunsOn` (`QuietAfterReturn`, which no run checks): a copy that
is done and a connection that is closed stay so. The
capture's variables are tied to the log of frames (`CaptureFollows`): what message is open and
since which frame, how far its JSON value is, and what its decoder has seen of it; the counts
are then those of the messages that ended before the frame at hand (`UsageCounted`,
`LimitCounted`).

**WsInjectProofs** (`Relays`, `StaysValid`, `CutsOff`), for any frames, sizes of pieces, plan
and decoding of requests. The assumptions: a payload's length, and the limit with a tool
added, fit a header's 64 bits, as any `int` of the code does; and the limit is at least the
125 bytes a control frame may have (`BoundsAssumption`, `SizesAssumption`; the code's limit
is 10 MB).

The invariant (`InjectInv`) compares what a reader of the client's frames finds in them with
what a reader of the frames written upstream finds (`Link`): while a text message is being
buffered, upstream has the same messages but that one, of which the buffer holds the text so
far; otherwise it has the same, each complete one with the tool the injection adds, the
open one as it is. None of the three properties is inductive: that nothing is lost when a
message is put together needs to know what the buffer stands for; that fragments sent
upstream are in order needs that a message is buffered only while upstream has none open;
that a client is cut off for size alone needs that a buffered message has fitted so far
(`Behind`, `Failed`). A client that does not keep to the protocol is left out by `Valid`,
which stays false once it is false. Steps are sorted by what they do to the reading
(`ForwardIs`: the copy fails, passes the frame on, keeps it, or completes the message), one
lemma each, and the plain copy.

That a frame is read back as it was written is `WireRead`: for each form of the length, the
bytes that `PutUint16` and `PutUint64` write give the number back, and the opcode and the
three bits come out of the first two bytes as they went in.

**LifecycleProofs** (`UsageSavedAtExit`, `WebSocketUsageSaved`, `HttpUsageSaved`,
`DatabaseOutlives`), for any requests and workers. Each stage of `main` passes on what those
before it brought about: workers that are done stay so, the sink refuses nothing before it is
stopped, no header is unread once `Shutdown` is over, no tunnel is left when the sink is
stopped.

Only model-checked is every liveness property: `StopTerminates`, `RowsFollowIdentity`,
`RefreshEnds`, `TunnelEnds`, `ExitsAfterSignal`, and the fairness half of `ImplementsLedger`
and `KeepsContract`. The provers at hand do not reason about fairness beyond what is
propositional. Every invariant and every safety action property that a passing run checks is
the conclusion of a theorem.

Each inductive invariant was checked by TLC on the instance of its module's run before it was
proved.

## 6. Where code and documentation differ

Three runs state what the README says and are violated by what the code does:

- `credentials_sync`: README.md:129 has the sync remove a token that stays unauthorized
  after a refresh and a retry. `syncOneToken` also removes it when the forced refresh fails
  or finds nothing to do: then the 401 belongs to an access token that a request has
  replaced since the sync took its copy, and the present one was never refused.
- `tunnel_trailing`: the decoder of a text message returns after the first JSON value, or
  at the first syntax error, and leaves the pipe's reader open. If bytes of the message are
  left that it had not read by then (a short rest in its last read does no harm), the
  capture's write blocks for good, and with it the copy to the client and the tunnel.
- `ranking_documented`: README.md:114-116 describes weekly limits first, with a threshold of
  30% on the five-hour one. The code prefers the larger of the tokens' smaller quotas, then
  the five-hour one: 60 and 60 go before 40 and a weekly 90.

Four more were met on the way and are not runs of their own; properties of passing runs state
what the code does and name the exception:

- README.md:76 has upstream requests use the token's account, while a `ChatGPT-Account-ID` that
  the client sends is kept, beside the authorization of a token of another account
  (`upstream.go:41`; `HeadersFitToken`).
- README.md:112 has exhausted tokens filtered out, while `applyUsageFromHeaders` reads the token
  and writes both windows back in a later critical section (`proxy_http.go:181-196`): a report
  in between that finds a window used up is undone by a reply that is silent about it, and the
  token is picked (`LatestWordKept`, `ExhaustedNotPicked`).
- Two requests of a session may take its binding from each other (`AffinityLostForCause`).
- `upstream.go:99` reads the reply to a WebSocket handshake without a deadline, so that a signal
  need not end the process (`ExitsAfterSignal`).

## 7. Not modelled

- The quota windows the dashboard shows beside the sums, its JSON and the web page: rendering
  of what `UsageReport` and `RateWindows` have. The schema's migrations run before anything
  else.
- Flags, authorization, path rules: stateless predicates.
- The headers of a WebSocket handshake, which are forwarded verbatim but for three names.
- Case and white space of models and plans, the order of JSON fields, values of one header.
- The capture's reading of a frame header that is split over two reads; text messages above
  its 10 MB.
- Several credential files in one scan, id-token claims, backdated files.
- Reset times of windows; the limit on concurrent syncs.
- A commit that reports failure after it took effect (SQLite does not, short of I/O errors).

## 8. Plan

Order, most important first; the first fifteen are done.

1. `UsageLedger`, `UsageSink`, refinement, proofs.
2. `UsageAccounting`.
3. `TokenRanking`, `SelectBest`, proof; `TokenSelection` over both, with `RateWindows`.
4. `Failover`, `FailoverHistory`.
5. `Credentials`, proofs.
6. `WsTunnel`.
7. `Lifecycle`.
8. `WsInject`, `RateWindows`, `WindowsHistory`.
9. `SseCapture`, `ToolInjection`, `ProxyHeaders`, `HttpExchange`; `FrameCodec`; `UsageReport`.
10. `RequestContract`, which `Failover` implements.
11. Proofs of `Failover`, `FailoverHistory`, `Lifecycle` and of `WsTunnel`'s quiet end.
12. Proofs that a stale entry heals (`Credentials`), that captures count each message once
    (`WsTunnel`), that windows are not confused (`RateWindows`), that contents fit their token
    (`HttpExchange`).
13. Proofs of `UsageAccounting` and `UsageReport`: the ledger through re-keying, the
    dashboard's days, periods and lines.
14. Proofs that limits are marked and replies charged once (`HttpExchange`), by induction
    over the symbols of a stream.
15. Proofs of `WsInject`: that a frame is read back as it was written (`FrameCodec`), and, by
    induction over the frames, that messages are relayed, upstream's frames stay valid and a
    client is cut off for size only.
16. Several files in the watcher's scan; a capture's header split over two reads.
