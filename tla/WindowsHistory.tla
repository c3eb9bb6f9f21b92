--------------------------- MODULE WindowsHistory ---------------------------
(* RateWindows with history variables, to compare the token's windows with what *)
(* was reported of them last.  A reply whose headers are silent about a window  *)
(* writes back what its handler read of it, which may be older than the report. *)
EXTENDS RateWindows

VARIABLES
    latest,             \* what was last reported of each window
    missed,             \* missed[h]: windows reported since h read the token
    overtaken           \* windows whose last report a silent reply wrote over

noted == <<latest, missed, overtaken>>

Windows == {1, 2}       \* the five-hour and the weekly one
Stored == <<fiveHour, weekly>>

NotedInit ==
    /\ WindowsInit
    /\ latest = <<Unknown, Unknown>>
    /\ missed = [h \in Handlers |-> {}]
    /\ overtaken = {}

\* The windows h's reply has a number for.
OfReply(h) ==
    <<HeaderFiveHour(reply[h][1], reply[h][2]), HeaderWeekly(reply[h][1], reply[h][2])>>
Spoken(h) == {k \in Windows : OfReply(h)[k] # NoWindow /\ WindowUsage(OfReply(h)[k]).known}

NoteRead(h) ==
    /\ missed' = [missed EXCEPT ![h] = {}]
    /\ UNCHANGED <<latest, overtaken>>

NoteReply(h) ==
    /\ latest' = [k \in Windows |-> IF k \in Spoken(h) THEN WindowUsage(OfReply(h)[k]) ELSE latest[k]]
    /\ missed' = [g \in Handlers |-> IF g = h THEN {} ELSE missed[g] \union Spoken(h)]
    /\ overtaken' = (overtaken \union missed[h]) \ Spoken(h)

NoteSync ==
    /\ latest' = Stored'
    /\ missed' = [h \in Handlers |-> Windows]
    /\ overtaken' = {}

NotedNext ==
    \/ \E h \in Handlers : ReadToken(h) /\ NoteRead(h)
    \/ \E h \in Handlers : WriteUsage(h) /\ NoteReply(h)
    \/ SyncWindows /\ NoteSync

NotedSpec == NotedInit /\ [][NotedNext]_<<windowVars, noted>>

----------------------------------------------------------------------------
\* The token's windows are what was last reported of them, by headers or by the
\* sync, through replies that report only one, or no number -- unless a reply
\* that is silent about a window was read before the last report of it and
\* written back after it (applyUsageFromHeaders).
LatestWordKept == \A k \in Windows : Stored[k] # latest[k] => k \in overtaken
=============================================================================
