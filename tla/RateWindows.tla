----------------------------- MODULE RateWindows -----------------------------
(* Where a token's two quota windows come from (rate_limits.go, usage.go): the  *)
(* headers of every reply and the usage endpoint each report up to two windows, *)
(* "primary" and "secondary", and the code decides by their length, or failing  *)
(* that by their place, which is the five-hour and which the weekly one.        *)
(* Handlers read a token, merge what their reply said and write both windows    *)
(* back; the usage sync writes both at once.                                    *)
EXTENDS Integers, Sequences, FiniteSets

CONSTANTS
    Handlers,           \* requests being answered, all with this token
    HeaderWindows,      \* windows the headers can report; length in minutes
    SnapshotWindows,    \* windows the endpoint can report; length in seconds
    NoWindow,           \* absent, or its used-percent does not parse
    NotANumber          \* a used-percent that parses as NaN or an infinity

\* parseHeaderWindow drops a length that is not positive; the endpoint's numbers
\* are taken as they come.
ASSUME WindowsAssumption ==
    /\ HeaderWindows \subseteq [used : Int \union {NotANumber}, length : Nat]
    /\ SnapshotWindows \subseteq [used : Int, length : Int, resetAfter : Int]
    /\ NoWindow \notin HeaderWindows \union SnapshotWindows
    /\ NotANumber \notin Int

VARIABLES
    fiveHour, weekly,   \* the token's WindowUsage values
    pc, reply, current  \* per handler: where it is, its reply, the token it read

windowVars == <<fiveHour, weekly, pc, reply, current>>

\* "window" is the reported window a value was made of: what the code forgets.
Unknown == [known |-> FALSE, used |-> 0, window |-> NoWindow]

----------------------------------------------------------------------------
\* windowUsageFromPercent
Clamp(used) == IF used < 0 THEN 0 ELSE IF used > 100 THEN 100 ELSE used

WindowUsage(w) ==
    IF w.used = NotANumber THEN Unknown ELSE [known |-> TRUE, used |-> Clamp(w.used), window |-> w]

Within(n, low, high) == low <= n /\ n <= high

Distance(m, n) == IF m < n THEN n - m ELSE m - n

\* pickHeaderWindow, pickSnapshotWindow: the one nearest to the target, the
\* first of two that are equally near.
Pick(windows, target, low, high) ==
    LET near(i) == Distance(windows[i].length, target)
        fit == {i \in DOMAIN windows : Within(windows[i].length, low, high)}
    IN IF fit = {} THEN NoWindow
       ELSE windows[CHOOSE i \in fit :
                        \A j \in fit \ {i} : near(i) < near(j) \/ (near(i) = near(j) /\ i < j)]

Reported(w) == IF w = NoWindow THEN <<>> ELSE <<w>>
Listed(primary, secondary) == Reported(primary) \o Reported(secondary)

\* Mutant: a window is taken by its place whatever its length.
TakenByPlace(w) == w # NoWindow

ByPlace(w) == w # NoWindow /\ w.length = 0

\* usageFromHeaders
HeaderFiveHour(primary, secondary) ==
    LET w == Pick(Listed(primary, secondary), 300, 240, 360)
    IN IF w = NoWindow /\ ByPlace(primary) THEN primary ELSE w

HeaderWeekly(primary, secondary) ==
    LET w == Pick(Listed(primary, secondary), 10080, 8640, 11520)
    IN IF w = NoWindow /\ ByPlace(secondary) THEN secondary ELSE w

\* isLikelyFiveHourWindow
IsLikelyFiveHour(w) ==
    LET seconds == IF w.length > 0 THEN w.length ELSE w.resetAfter
    IN seconds > 0 /\ seconds <= 12 * 60 * 60

\* fallbackSnapshotWindows
FallbackWindows(primary, secondary) ==
    IF secondary # NoWindow THEN <<primary, secondary>>
    ELSE IF primary # NoWindow /\ IsLikelyFiveHour(primary) THEN <<primary, NoWindow>>
    ELSE <<NoWindow, primary>>

\* mapUsageSnapshotFromDetails: the five-hour and the weekly window
SnapshotDetails(d) ==
    LET ws == Listed(d.primary, d.secondary)
        picked == <<Pick(ws, 18000, 14400, 21600), Pick(ws, 604800, 518400, 691200)>>
    IN IF picked = <<NoWindow, NoWindow>> THEN FallbackWindows(d.primary, d.secondary) ELSE picked

\* mapUsageSnapshot: the first of the limits that says something of a window.
FirstKnown(ds, k) ==
    LET said == {i \in DOMAIN ds : SnapshotDetails(ds[i])[k] # NoWindow}
    IN IF said = {} THEN Unknown
       ELSE WindowUsage(SnapshotDetails(ds[CHOOSE i \in said : \A j \in said : i <= j])[k])

Limits ==
    [primary : SnapshotWindows \union {NoWindow}, secondary : SnapshotWindows \union {NoWindow}]

----------------------------------------------------------------------------
WindowsInit ==
    /\ fiveHour = Unknown /\ weekly = Unknown
    /\ pc = [h \in Handlers |-> "idle"]
    /\ reply = [h \in Handlers |-> <<NoWindow, NoWindow>>]
    /\ current = [h \in Handlers |-> <<Unknown, Unknown>>]

\* UpdateUsage
UpdateUsage(five, week) == fiveHour' = five /\ weekly' = week

\* applyUsageFromHeaders, up to TokenSnapshot
ReadToken(h) ==
    /\ pc[h] = "idle"
    /\ \E primary, secondary \in HeaderWindows \union {NoWindow} :
        /\ HeaderFiveHour(primary, secondary) # NoWindow \/ HeaderWeekly(primary, secondary) # NoWindow
        /\ reply' = [reply EXCEPT ![h] = <<primary, secondary>>]
    /\ current' = [current EXCEPT ![h] = <<fiveHour, weekly>>]
    /\ pc' = [pc EXCEPT ![h] = "merge"]
    /\ UNCHANGED <<fiveHour, weekly>>

\* Mutant: a window the headers do not report is forgotten.
MergeBlindly(cur, w) == IF w = NoWindow THEN Unknown ELSE WindowUsage(w)

\* A window the headers do not report stays, and so does one reported as NaN.
MergeUsage(cur, w) == IF w = NoWindow \/ ~WindowUsage(w).known THEN cur ELSE WindowUsage(w)

WriteUsage(h) ==
    /\ pc[h] = "merge"
    /\ UpdateUsage(MergeUsage(current[h][1], HeaderFiveHour(reply[h][1], reply[h][2])),
                   MergeUsage(current[h][2], HeaderWeekly(reply[h][1], reply[h][2])))
    /\ pc' = [pc EXCEPT ![h] = "idle"]
    /\ reply' = [reply EXCEPT ![h] = <<NoWindow, NoWindow>>]
    /\ current' = [current EXCEPT ![h] = <<Unknown, Unknown>>]

\* syncOneToken: rate_limit and one of the additional_rate_limits.
SyncWindows ==
    /\ \E W \in Limits \X Limits :
        UpdateUsage(FirstKnown(W, 1), FirstKnown(W, 2))
    /\ UNCHANGED <<pc, reply, current>>

WindowsNext ==
    \/ \E h \in Handlers : ReadToken(h) \/ WriteUsage(h)
    \/ SyncWindows

WindowsSpec == WindowsInit /\ [][WindowsNext]_windowVars

----------------------------------------------------------------------------
\* The headers count in minutes, the endpoint in seconds.
SaysFiveHour(w) ==
    IF w \in HeaderWindows THEN Within(w.length, 240, 360) ELSE Within(w.length, 14400, 21600)
SaysWeekly(w) ==
    IF w \in HeaderWindows THEN Within(w.length, 8640, 11520) ELSE Within(w.length, 518400, 691200)

\* A window that says it is a weekly one never becomes the five-hour quota, nor
\* the other way round: not through its place in the headers, nor through the
\* guesses about a snapshot without lengths, nor by mixing several limits.
WindowsNotConfused ==
    /\ fiveHour.known => ~SaysWeekly(fiveHour.window)
    /\ weekly.known => ~SaysFiveHour(weekly.window)
=============================================================================
