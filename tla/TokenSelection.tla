--------------------------- MODULE TokenSelection ---------------------------
(* SelectToken among tokens of which one, Watched, has its quota windows set by *)
(* the replies of its requests and by the usage sync: what they report and the  *)
(* ranking that reads it.  The other tokens' states are any.                    *)
EXTENDS WindowsHistory, SelectBest

CONSTANTS
    Watched,            \* the id of the token whose windows are reported
    Others              \* what the store may hold of the others: id -> state

ASSUME OthersAssumption ==
    /\ Watched \in Ids
    /\ \A o \in Others :
        /\ DOMAIN o \subseteq Ids \ {Watched}
        /\ \A i \in DOMAIN o :
            RemainingPoints(o[i].five) \in Int /\ RemainingPoints(o[i].weekly) \in Int

selectVars == <<windowVars, noted, pickVars>>

\* A window as the ranking reads it: windowUsageFromPercent sets the limit.
Points(u) == [known |-> u.known, limit |-> DefaultLimitPoints, used |-> u.used]

\* Cooldowns and marks are Failover's.
WatchedState ==
    [invalid |-> FALSE, cooling |-> FALSE, five |-> Points(fiveHour), weekly |-> Points(weekly)]

Store(o) == [i \in DOMAIN o \union {Watched} |-> IF i = Watched THEN WatchedState ELSE o[i]]

SelectInit == NotedInit /\ PickInit

\* What is reported while a request walks its copies does not touch them.
Report == ~Picking /\ NotedNext /\ UNCHANGED pickVars

PickToken ==
    /\ \/ \E o \in Others : BeginPick(Store(o))
       \/ Visit
       \/ EndPick
    /\ UNCHANGED <<windowVars, noted>>

SelectNext == Report \/ PickToken

SelectSpec == SelectInit /\ [][SelectNext]_selectVars

----------------------------------------------------------------------------
UsedUp(u) == u.known /\ u.used >= 100

\* README.md:112 "Filter out invalid, cooled down, or exhausted tokens.": a token is
\* not picked when the last report of one of its windows has it used up, through
\* replies that report the other window, or no number -- unless a reply that is
\* silent about that window was read before the report and written back after it.
\* By that race an exhausted token is picked (proxy_http.go:181-196).
ExhaustedNotPicked ==
    \A b \in best, k \in Windows : b.id = Watched /\ UsedUp(latest[k]) => k \in overtaken
=============================================================================
