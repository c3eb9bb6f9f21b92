-------------------------- MODULE UsageAccounting --------------------------
(* The usage sink together with the usage syncer's re-keying of stored rows     *)
(* (rekeyUsageForToken in syncer.go, RekeyTokenUsage in usage_db.go).  A token  *)
(* is first known by its account id; a usage sync can learn its user id, which  *)
(* becomes the key usage is recorded under (identityKey).  Requests record with *)
(* the token as they saw it, so records under the old key still arrive, and may *)
(* wait in the sink, after the rows were re-keyed.                              *)
EXTENDS UsageSink, Sequences

CONSTANTS
    Tokens,             \* token ids
    InitialKey,         \* the key each starts with
    LaterKeys,          \* the keys a sync may learn for it
    MaxRecorded         \* bound on the calls of Record in a behaviour

ASSUME RecordTokens == \A r \in Records : r.token \in Tokens

VARIABLES
    known,              \* known[t]: the keys t has had, the last one first
    rekeys              \* RekeyTokenUsage calls under way: <<token, key>>

allVars == <<vars, known, rekeys>>

CurrentKey(t) == known[t][1]
Known(t) == {known[t][i] : i \in DOMAIN known[t]}

AInit ==
    /\ Init
    /\ known = [t \in Tokens |-> <<InitialKey[t]>>]
    /\ rekeys = {}

\* recordTokenUsage: the key is the one the request's token snapshot had.
RecordTokenUsage(r) ==
    /\ r.account \in Known(r.token)
    /\ Cardinality({q \in Records : result[q] # "none"}) < MaxRecorded
    /\ Record(r)
    /\ UNCHANGED <<known, rekeys>>

SinkWorker == Worker /\ UNCHANGED <<known, rekeys>>
SinkStop == Stop /\ UNCHANGED <<known, rekeys>>

\* UpdateUsageAccountMetadata: the usage endpoint named the token's user.
LearnKey(t) ==
    \E k \in LaterKeys[t] \ Known(t) :
        known' = [known EXCEPT ![t] = <<k>> \o @]
    /\ UNCHANGED <<vars, rekeys>>

\* Mutant: re-key only while no row has the current key yet.
SyncedOnce(t) == ~stopped /\ \A w \in rows : w.token = t => w.account # CurrentKey(t)

\* The workers are stopped before the sink.
Synced(t) == ~stopped

\* rekeyUsageForToken: every sync of a token reads its key ...
RekeyBegins(t) ==
    /\ Synced(t)
    /\ rekeys' = rekeys \union {<<t, CurrentKey(t)>>}
    /\ UNCHANGED <<vars, known>>

\* Mutant: the rows are found by the key they have, not by the token.
RekeyAccountRows(t, k) ==
    rows' = {IF w.account \in Known(t) THEN [w EXCEPT !.account = k] ELSE w : w \in rows}

RekeyTokenUsage(t, k) ==
    rows' = {IF w.token = t THEN [w EXCEPT !.account = k] ELSE w : w \in rows}

\* ... and runs the UPDATE later, when the single connection is free.
RekeyRuns(t, k) ==
    /\ <<t, k>> \in rekeys
    /\ ~stopped
    /\ RekeyTokenUsage(t, k)
    /\ rekeys' = rekeys \ {<<t, k>>}
    /\ UNCHANGED <<mem, stopped, worker, result, dropped, known>>

\* The UPDATE fails, or shutdown cancelled its context: only logged.
RekeyFails(t, k) ==
    /\ <<t, k>> \in rekeys
    /\ rekeys' = rekeys \ {<<t, k>>}
    /\ UNCHANGED <<vars, known>>

Keys(t) == {InitialKey[t]} \union LaterKeys[t]

ANext ==
    \/ \E r \in Records : RecordTokenUsage(r)
    \/ SinkWorker
    \/ SinkStop
    \/ \E t \in Tokens :
        \/ LearnKey(t)
        \/ RekeyBegins(t)
        \/ \E k \in Keys(t) : RekeyRuns(t, k) \/ RekeyFails(t, k)

\* The syncer's ticker keeps starting syncs, and an UPDATE that is tried again
\* and again succeeds.
AFairness ==
    /\ WF_allVars(SinkWorker)
    /\ \A t \in Tokens :
        /\ WF_allVars(RekeyBegins(t))
        /\ \A k \in Keys(t) : SF_allVars(RekeyRuns(t, k))

ASpec == AInit /\ [][ANext]_allVars /\ AFairness

----------------------------------------------------------------------------
\* Usage of one person ends up under one key: while the process runs, every
\* stored row is in the end under its token's current key, also when records
\* made under the old key were still queued, and when a re-keying that read the
\* old key overtook one that read the new one.
RowsFollowIdentity ==
    <>[](stopped \/ \A w \in rows : w.account = CurrentKey(w.token))
=============================================================================
