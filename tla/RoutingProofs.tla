---------------------------- MODULE RoutingProofs ----------------------------
(* Which token a request gets, for any numbers of tokens, sessions, requests    *)
(* and handlers and any windows: what the two quotas are made of (RateWindows   *)
(* and its history), the pick among the tokens (TokenSelection), and the        *)
(* requests that go from one token to the next (Failover and its history).      *)
EXTENDS FailoverHistory, TokenSelection, SequenceTheorems, FiniteSetTheorems, TLAPS

----------------------------------------------------------------------------
(* RateWindows: the two quotas keep their type, they are never taken for one    *)
(* another, and only a stale write takes a reported one back.                   *)

HeaderWindow == HeaderWindows \union {NoWindow}
SnapshotWindow == SnapshotWindows \union {NoWindow}

\* The values a quota takes: unknown, or a percentage of 0..100 together with the
\* window it was made of.
FiveHourValues ==
    {u \in [known : {TRUE}, used : 0..100, window : HeaderWindows \union SnapshotWindows] :
        ~SaysWeekly(u.window)} \union {Unknown}

WeeklyValues ==
    {u \in [known : {TRUE}, used : 0..100, window : HeaderWindows \union SnapshotWindows] :
        ~SaysFiveHour(u.window)} \union {Unknown}

\* The inductive invariant. What a handler read of the token is as good as what
\* the token holds: it is written back later for a window its reply is silent on.
WindowsInv ==
    /\ fiveHour \in FiveHourValues /\ weekly \in WeeklyValues
    /\ pc \in [Handlers -> {"idle", "merge"}]
    /\ reply \in [Handlers -> HeaderWindow \X HeaderWindow]
    /\ current \in [Handlers -> FiveHourValues \X WeeklyValues]

----------------------------------------------------------------------------
\* Only the headers' windows are without a reset time, so none is of both kinds.
LEMMA KindsApart == ASSUME NEW w \in SnapshotWindows PROVE w \notin HeaderWindows
<1> SUFFICES ASSUME w \in HeaderWindows PROVE FALSE
    OBVIOUS
<1>1. w \in [used : Int \union {NotANumber}, length : Nat]
    BY WindowsAssumption
<1>2. w \in [used : Int, length : Int, resetAfter : Int]
    BY WindowsAssumption
<1>3. DOMAIN w = {"used", "length"}
    BY <1>1
<1>4. DOMAIN w = {"used", "length", "resetAfter"}
    BY <1>2
<1> QED
    BY <1>3, <1>4

\* No length is both a five-hour and a weekly one, and "not given" is neither.
LEMMA LengthsApart ==
    \A n \in Int :
        /\ ~(Within(n, 240, 360) /\ Within(n, 8640, 11520))
        /\ ~(Within(n, 14400, 21600) /\ Within(n, 518400, 691200))
        /\ n = 0 => ~Within(n, 240, 360) /\ ~Within(n, 8640, 11520)
BY SMT DEF Within

\* windowUsageFromPercent: the percentage is cut to 0..100, or nothing is known.
LEMMA WindowUsageType ==
    ASSUME NEW w \in HeaderWindows \union SnapshotWindows
    PROVE  \/ WindowUsage(w) = Unknown
           \/ /\ WindowUsage(w) \in [known : {TRUE}, used : 0..100, window : HeaderWindows \union SnapshotWindows]
              /\ WindowUsage(w).window = w
<1>1. w.used \in Int \union {NotANumber}
    BY WindowsAssumption
<1>2. w.used # NotANumber => Clamp(w.used) \in 0..100
    BY <1>1 DEF Clamp
<1> QED
    BY <1>2 DEF WindowUsage

\* What is said of the windows a reply or a limit lists.
Lists(ws, p, s, S) ==
    /\ ws \in Seq(S)
    /\ DOMAIN ws \subseteq {1, 2}
    /\ \A w \in {p, s} \ {NoWindow} : \E i \in DOMAIN ws : ws[i] = w
    /\ \A i \in DOMAIN ws : ws[i] \in {p, s} \ {NoWindow}

LEMMA ListedWindows ==
    ASSUME NEW S, NEW p \in S \union {NoWindow}, NEW s \in S \union {NoWindow}
    PROVE  Lists(Listed(p, s), p, s, S)
<1> USE DEF Lists
<1>1. CASE p = NoWindow /\ s = NoWindow
    <2>1. Listed(p, s) = <<>>
        BY <1>1 DEF Listed, Reported
    <2> QED BY <1>1, <2>1
<1>2. CASE p # NoWindow /\ s = NoWindow
    <2>1. Listed(p, s) = <<p>>
        BY <1>2 DEF Listed, Reported
    <2> QED BY <1>2, <2>1
<1>3. CASE p = NoWindow /\ s # NoWindow
    <2>1. Listed(p, s) = <<s>>
        BY <1>3 DEF Listed, Reported
    <2> QED BY <1>3, <2>1
<1>4. CASE p # NoWindow /\ s # NoWindow
    <2>1. Listed(p, s) = <<p>> \o <<s>>
        BY <1>4 DEF Listed, Reported
    <2>2. <<p>> \o <<s>> = <<p, s>>
        <3>1. p \in S /\ s \in S
            BY <1>4
        <3>2. /\ <<p>> \o <<s>> \in Seq(S) /\ Len(<<p>> \o <<s>>) = 2
              /\ (<<p>> \o <<s>>)[1] = p /\ (<<p>> \o <<s>>)[2] = s
            BY <3>1
        <3>3. <<p, s>> \in Seq(S) /\ Len(<<p, s>>) = 2
            BY <3>1
        <3>4. \A i \in 1..2 : (<<p>> \o <<s>>)[i] = <<p, s>>[i]
            BY <3>2, <3>3
        <3> QED BY <3>2, <3>3, <3>4, SeqEqual
    <2>3. /\ <<p, s>> \in Seq(S) /\ DOMAIN <<p, s>> = {1, 2}
          /\ <<p, s>>[1] = p /\ <<p, s>>[2] = s
        BY <1>4
    <2>4. Listed(p, s) = <<p, s>>
        BY <2>1, <2>2
    <2> QED BY <1>4, <2>3, <2>4
<1> QED BY <1>1, <1>2, <1>3, <1>4

\* pickHeaderWindow and pickSnapshotWindow answer with a window of an admitted
\* length, and with none only when there is none.
LEMMA PickFits ==
    ASSUME NEW S, NoWindow \notin S, \A w \in S : w.length \in Int,
           NEW windows \in Seq(S), DOMAIN windows \subseteq {1, 2},
           NEW target \in Int, NEW low \in Int, NEW high \in Int
    PROVE  \/ /\ Pick(windows, target, low, high) = NoWindow
              /\ \A i \in DOMAIN windows : ~Within(windows[i].length, low, high)
           \/ \E i \in DOMAIN windows :
                /\ Pick(windows, target, low, high) = windows[i]
                /\ Within(windows[i].length, low, high)
<1> DEFINE near(i) == Distance(windows[i].length, target)
           fit == {i \in DOMAIN windows : Within(windows[i].length, low, high)}
           Best(i) == \A j \in fit \ {i} : near(i) < near(j) \/ (near(i) = near(j) /\ i < j)
<1>1. CASE fit = {}
    BY <1>1 DEF Pick
<1>2. CASE fit # {}
    <2>1. \A i \in fit : near(i) \in Int /\ i \in {1, 2}
        <3>1. \A i \in fit : windows[i] \in S
            OBVIOUS
        <3> QED BY <3>1 DEF Distance
    <2>2. \E i \in fit : Best(i)
        <3> HIDE DEF near, fit
        <3> QED BY <1>2, <2>1
    <2>3. PICK i \in fit : i = CHOOSE j \in fit : Best(j)
        <3> HIDE DEF Best
        <3> QED BY <2>2
    <2>4. Pick(windows, target, low, high) = windows[i]
        BY <1>2, <2>3 DEF Pick
    <2> QED BY <2>4
<1> QED BY <1>1, <1>2

\* usageFromHeaders: a length that says otherwise is never overruled by a place.
LEMMA HeaderWindowsFit ==
    ASSUME NEW p \in HeaderWindow, NEW s \in HeaderWindow
    PROVE  /\ HeaderFiveHour(p, s) \in HeaderWindow
           /\ HeaderFiveHour(p, s) # NoWindow => ~SaysWeekly(HeaderFiveHour(p, s))
           /\ HeaderWeekly(p, s) \in HeaderWindow
           /\ HeaderWeekly(p, s) # NoWindow => ~SaysFiveHour(HeaderWeekly(p, s))
<1> DEFINE windows == Listed(p, s)
<1>1. /\ NoWindow \notin HeaderWindows
      /\ \A w \in HeaderWindows : w.length \in Int
    BY WindowsAssumption
<1>2. /\ windows \in Seq(HeaderWindows) /\ DOMAIN windows \subseteq {1, 2}
      /\ \A i \in DOMAIN windows : windows[i] \in HeaderWindows
    <2>1. Lists(windows, p, s, HeaderWindows)
        BY ListedWindows DEF HeaderWindow
    <2> HIDE DEF windows
    <2> QED BY <2>1 DEF Lists, HeaderWindow
<1>3. \/ HeaderFiveHour(p, s) = NoWindow
      \/ HeaderFiveHour(p, s) \in HeaderWindows /\ (Within(HeaderFiveHour(p, s).length, 240, 360) \/ HeaderFiveHour(p, s).length = 0)
    <2>1. \/ Pick(windows, 300, 240, 360) = NoWindow
          \/ \E i \in DOMAIN windows :
                Pick(windows, 300, 240, 360) = windows[i] /\ Within(windows[i].length, 240, 360)
        BY <1>1, <1>2, PickFits, SMT
    <2> HIDE DEF windows
    <2>2. HeaderFiveHour(p, s) =
            IF Pick(windows, 300, 240, 360) = NoWindow /\ ByPlace(p) THEN p
            ELSE Pick(windows, 300, 240, 360)
        BY SMT DEF HeaderFiveHour, windows
    <2> QED BY <1>2, <2>1, <2>2 DEF ByPlace, HeaderWindow
<1>4. \/ HeaderWeekly(p, s) = NoWindow
      \/ HeaderWeekly(p, s) \in HeaderWindows /\ (Within(HeaderWeekly(p, s).length, 8640, 11520) \/ HeaderWeekly(p, s).length = 0)
    <2>1. \/ Pick(windows, 10080, 8640, 11520) = NoWindow
          \/ \E i \in DOMAIN windows :
                Pick(windows, 10080, 8640, 11520) = windows[i] /\ Within(windows[i].length, 8640, 11520)
        BY <1>1, <1>2, PickFits, SMT
    <2> HIDE DEF windows
    <2>2. HeaderWeekly(p, s) =
            IF Pick(windows, 10080, 8640, 11520) = NoWindow /\ ByPlace(s) THEN s
            ELSE Pick(windows, 10080, 8640, 11520)
        BY SMT DEF HeaderWeekly, windows
    <2> QED BY <1>2, <2>1, <2>2 DEF ByPlace, HeaderWindow
<1> QED BY <1>1, <1>3, <1>4, LengthsApart, SMT DEF SaysWeekly, SaysFiveHour, HeaderWindow

\* mapUsageSnapshotFromDetails: the fallback guesses only about lengths that are
\* neither a five-hour nor a weekly one.
LEMMA SnapshotDetailsFit ==
    ASSUME NEW d \in Limits
    PROVE  /\ SnapshotDetails(d)[1] \in SnapshotWindow
           /\ SnapshotDetails(d)[1] # NoWindow => ~SaysWeekly(SnapshotDetails(d)[1])
           /\ SnapshotDetails(d)[2] \in SnapshotWindow
           /\ SnapshotDetails(d)[2] # NoWindow => ~SaysFiveHour(SnapshotDetails(d)[2])
<1> DEFINE ws == Listed(d.primary, d.secondary)
           five == Pick(ws, 18000, 14400, 21600)
           week == Pick(ws, 604800, 518400, 691200)
           guess == FallbackWindows(d.primary, d.secondary)
<1>1. /\ NoWindow \notin SnapshotWindows
      /\ \A w \in SnapshotWindows : w.length \in Int
      /\ d.primary \in SnapshotWindow /\ d.secondary \in SnapshotWindow
    BY WindowsAssumption DEF Limits, SnapshotWindow
<1>2. /\ ws \in Seq(SnapshotWindows) /\ DOMAIN ws \subseteq {1, 2}
      /\ \A i \in DOMAIN ws : ws[i] \in SnapshotWindows
      /\ \A w \in {d.primary, d.secondary} \ {NoWindow} : \E i \in DOMAIN ws : ws[i] = w
    <2>1. Lists(ws, d.primary, d.secondary, SnapshotWindows)
        BY <1>1, ListedWindows DEF SnapshotWindow
    <2> HIDE DEF ws
    <2> QED BY <1>1, <2>1 DEF Lists, SnapshotWindow
<1> HIDE DEF ws
<1>a. ASSUME NEW target \in Int, NEW low \in Int, NEW high \in Int
      PROVE  \/ /\ Pick(ws, target, low, high) = NoWindow
                /\ \A i \in DOMAIN ws : ~Within(ws[i].length, low, high)
             \/ \E i \in DOMAIN ws :
                    Pick(ws, target, low, high) = ws[i] /\ Within(ws[i].length, low, high)
    BY <1>1, <1>2, PickFits
<1>3. \/ five = NoWindow /\ \A i \in DOMAIN ws : ~Within(ws[i].length, 14400, 21600)
      \/ \E i \in DOMAIN ws : five = ws[i] /\ Within(ws[i].length, 14400, 21600)
    BY <1>a, SMT
<1>4. \/ week = NoWindow /\ \A i \in DOMAIN ws : ~Within(ws[i].length, 518400, 691200)
      \/ \E i \in DOMAIN ws : week = ws[i] /\ Within(ws[i].length, 518400, 691200)
    BY <1>a, SMT
<1>5. SnapshotDetails(d) = IF <<five, week>> = <<NoWindow, NoWindow>> THEN guess ELSE <<five, week>>
    BY SMT DEF SnapshotDetails, ws
<1> HIDE DEF five, week
<1>6. \A w \in SnapshotWindows :
        /\ ~Within(w.length, 518400, 691200) => ~SaysWeekly(w)
        /\ ~Within(w.length, 14400, 21600) => ~SaysFiveHour(w)
    BY KindsApart DEF SaysWeekly, SaysFiveHour
<1>7. CASE five = NoWindow /\ week = NoWindow
    <2>1. \A w \in {d.primary, d.secondary} \ {NoWindow} : ~SaysWeekly(w) /\ ~SaysFiveHour(w)
        <3> SUFFICES ASSUME NEW w \in {d.primary, d.secondary} \ {NoWindow}
                     PROVE  ~SaysWeekly(w) /\ ~SaysFiveHour(w)
            OBVIOUS
        <3>1. ~Within(w.length, 14400, 21600) /\ ~Within(w.length, 518400, 691200)
            <4>1. PICK i \in DOMAIN ws : ws[i] = w
                BY <1>2
            <4>2. w \in SnapshotWindows
                BY <1>1 DEF SnapshotWindow
            <4> QED BY <1>1, <1>2, <1>3, <1>4, <1>7, <4>1, SMT
        <3> QED BY <1>1, <1>6, <3>1 DEF SnapshotWindow
    <2>2. /\ guess[1] \in {d.primary, NoWindow}
          /\ guess[2] \in {d.primary, d.secondary, NoWindow}
        BY DEF FallbackWindows
    <2>3. SnapshotDetails(d) = guess
        BY <1>5, <1>7
    <2> HIDE DEF guess
    <2> QED BY <1>1, <2>1, <2>2, <2>3 DEF SnapshotWindow
<1>8. CASE ~(five = NoWindow /\ week = NoWindow)
    <2>1. SnapshotDetails(d)[1] = five /\ SnapshotDetails(d)[2] = week
        BY <1>5, <1>8
    <2>2. five = NoWindow \/ (five \in SnapshotWindows /\ Within(five.length, 14400, 21600))
        BY <1>2, <1>3
    <2>3. week = NoWindow \/ (week \in SnapshotWindows /\ Within(week.length, 518400, 691200))
        BY <1>2, <1>4
    <2> HIDE DEF five, week
    <2>4. five # NoWindow => ~SaysWeekly(five)
        <3>1. ASSUME five # NoWindow PROVE ~Within(five.length, 518400, 691200)
            BY <1>1, <2>2, <3>1, LengthsApart, SMT
        <3> QED BY <1>6, <2>2, <3>1, SMT
    <2>5. week # NoWindow => ~SaysFiveHour(week)
        <3>1. ASSUME week # NoWindow PROVE ~Within(week.length, 14400, 21600)
            BY <1>1, <2>3, <3>1, LengthsApart, SMT
        <3> QED BY <1>6, <2>3, <3>1, SMT
    <2> QED BY <2>1, <2>2, <2>3, <2>4, <2>5 DEF SnapshotWindow
<1> QED BY <1>7, <1>8

\* A value made of a reported window is one its quota may take.
LEMMA UsageValues ==
    ASSUME NEW w \in HeaderWindows \union SnapshotWindows
    PROVE  /\ ~SaysWeekly(w) => WindowUsage(w) \in FiveHourValues
           /\ ~SaysFiveHour(w) => WindowUsage(w) \in WeeklyValues
BY WindowUsageType DEF FiveHourValues, WeeklyValues

\* mapUsageSnapshot: mixing several limits keeps the two quotas apart.
LEMMA FirstKnownValues ==
    ASSUME NEW W \in Limits \X Limits
    PROVE  FirstKnown(W, 1) \in FiveHourValues /\ FirstKnown(W, 2) \in WeeklyValues
<1>1. ASSUME NEW k \in {1, 2}
      PROVE  \/ FirstKnown(W, k) = Unknown
             \/ \E i \in {1, 2} :
                    /\ SnapshotDetails(W[i])[k] # NoWindow
                    /\ FirstKnown(W, k) = WindowUsage(SnapshotDetails(W[i])[k])
    <2> DEFINE said == {i \in DOMAIN W : SnapshotDetails(W[i])[k] # NoWindow}
               Least(i) == \A j \in said : i <= j
    <2>1. DOMAIN W = {1, 2}
        OBVIOUS
    <2>2. CASE said = {}
        BY <2>2 DEF FirstKnown
    <2>3. CASE said # {}
        <3>1. \E i \in said : Least(i)
            <4>1. \A i \in said : i \in {1, 2}
                BY <2>1
            <4> HIDE DEF said
            <4> QED BY <2>3, <4>1
        <3>2. PICK i \in said : i = CHOOSE j \in said : Least(j)
            <4> HIDE DEF Least
            <4> QED BY <3>1
        <3>3. FirstKnown(W, k) = WindowUsage(SnapshotDetails(W[i])[k])
            BY <2>3, <3>2 DEF FirstKnown
        <3> QED BY <2>1, <3>2, <3>3
    <2> QED BY <2>2, <2>3
<1>2. \A i \in {1, 2} : W[i] \in Limits
    OBVIOUS
<1>3. Unknown \in FiveHourValues /\ Unknown \in WeeklyValues
    BY DEF FiveHourValues, WeeklyValues
<1>4. FirstKnown(W, 1) \in FiveHourValues
    BY <1>1, <1>2, <1>3, SnapshotDetailsFit, UsageValues DEF SnapshotWindow
<1>5. FirstKnown(W, 2) \in WeeklyValues
    BY <1>1, <1>2, <1>3, SnapshotDetailsFit, UsageValues DEF SnapshotWindow
<1> QED BY <1>4, <1>5

----------------------------------------------------------------------------
LEMMA InitWindowsInv == WindowsInit => WindowsInv
<1>1. Unknown \in FiveHourValues /\ Unknown \in WeeklyValues /\ NoWindow \in HeaderWindow
    BY DEF FiveHourValues, WeeklyValues, HeaderWindow
<1> QED BY <1>1 DEF WindowsInit, WindowsInv

LEMMA StepWindowsInv == WindowsInv /\ [WindowsNext]_windowVars => WindowsInv'
<1> SUFFICES ASSUME WindowsInv, [WindowsNext]_windowVars PROVE WindowsInv'
    OBVIOUS
<1> USE DEF WindowsInv
<1>1. ASSUME NEW h \in Handlers, ReadToken(h) PROVE WindowsInv'
    <2>1. PICK p \in HeaderWindow, s \in HeaderWindow : reply' = [reply EXCEPT ![h] = <<p, s>>]
        BY <1>1 DEF ReadToken, HeaderWindow
    <2>2. <<p, s>> \in HeaderWindow \X HeaderWindow /\ <<fiveHour, weekly>> \in FiveHourValues \X WeeklyValues
        OBVIOUS
    <2> QED BY <1>1, <2>1, <2>2 DEF ReadToken
<1>2. ASSUME NEW h \in Handlers, WriteUsage(h) PROVE WindowsInv'
    <2> DEFINE five == HeaderFiveHour(reply[h][1], reply[h][2])
               week == HeaderWeekly(reply[h][1], reply[h][2])
    <2>1. /\ current[h][1] \in FiveHourValues /\ current[h][2] \in WeeklyValues
          /\ reply[h][1] \in HeaderWindow /\ reply[h][2] \in HeaderWindow
        <3>1. current[h] \in FiveHourValues \X WeeklyValues /\ reply[h] \in HeaderWindow \X HeaderWindow
            OBVIOUS
        <3> QED BY <3>1
    <2>2. MergeUsage(current[h][1], five) \in FiveHourValues
        <3>1. five = NoWindow \/ (five \in HeaderWindows /\ ~SaysWeekly(five))
            BY <2>1, HeaderWindowsFit DEF HeaderWindow
        <3> HIDE DEF five
        <3> QED BY <2>1, <3>1, UsageValues DEF MergeUsage
    <2>3. MergeUsage(current[h][2], week) \in WeeklyValues
        <3>1. week = NoWindow \/ (week \in HeaderWindows /\ ~SaysFiveHour(week))
            BY <2>1, HeaderWindowsFit DEF HeaderWindow
        <3> HIDE DEF week
        <3> QED BY <2>1, <3>1, UsageValues DEF MergeUsage
    <2>4. /\ <<NoWindow, NoWindow>> \in HeaderWindow \X HeaderWindow
          /\ <<Unknown, Unknown>> \in FiveHourValues \X WeeklyValues
        BY DEF HeaderWindow, FiveHourValues, WeeklyValues
    <2>5. fiveHour' \in FiveHourValues /\ weekly' \in WeeklyValues
        BY <1>2, <2>2, <2>3 DEF WriteUsage, UpdateUsage
    <2> QED BY <1>2, <2>4, <2>5 DEF WriteUsage
<1>3. ASSUME SyncWindows PROVE WindowsInv'
    <2>1. fiveHour' \in FiveHourValues /\ weekly' \in WeeklyValues
        BY <1>3, FirstKnownValues DEF SyncWindows, UpdateUsage
    <2> QED BY <1>3, <2>1 DEF SyncWindows
<1>4. CASE UNCHANGED windowVars
    BY <1>4 DEF windowVars
<1> QED BY <1>1, <1>2, <1>3, <1>4 DEF WindowsNext

\* Every quota is unknown or a percentage of 0..100, whatever the replies say: no
\* NaN, and nothing beyond the limit, reaches the choice of a token.
THEOREM WindowsTypeCorrect == WindowsSpec => []WindowsInv
BY InitWindowsInv, StepWindowsInv, PTL DEF WindowsSpec

\* A window that says it is weekly is never the token's five-hour quota, nor one
\* that says it is of five hours its weekly quota (usageFromHeaders, mapUsageSnapshot).
THEOREM WindowsApart == WindowsSpec => []WindowsNotConfused
<1>1. WindowsInv => WindowsNotConfused
    <2>1. \A u \in FiveHourValues : u.known => ~SaysWeekly(u.window)
        <3> SUFFICES ASSUME NEW u \in FiveHourValues, u.known PROVE ~SaysWeekly(u.window)
            OBVIOUS
        <3>1. u # Unknown
            BY DEF Unknown
        <3> QED BY <3>1 DEF FiveHourValues
    <2>2. \A u \in WeeklyValues : u.known => ~SaysFiveHour(u.window)
        <3> SUFFICES ASSUME NEW u \in WeeklyValues, u.known PROVE ~SaysFiveHour(u.window)
            OBVIOUS
        <3>1. u # Unknown
            BY DEF Unknown
        <3> QED BY <3>1 DEF WeeklyValues
    <2> QED BY <2>1, <2>2, Zenon DEF WindowsInv, WindowsNotConfused
<1> QED BY <1>1, WindowsTypeCorrect, PTL

----------------------------------------------------------------------------
(* WindowsHistory: what was reported last is what the token has.                *)

\* What a handler read is the latest, or was reported anew since, or was stale
\* already.
CopyKnown(h, k) ==
    pc[h] = "merge" /\ current[h][k] # latest[k] => k \in missed[h] \union overtaken

LatestInv ==
    /\ WindowsInv
    /\ missed \in [Handlers -> SUBSET Windows]
    /\ LatestWordKept
    /\ \A h \in Handlers, k \in Windows : CopyKnown(h, k)

LEMMA LatestInit == NotedInit => LatestInv
<1> SUFFICES ASSUME NotedInit PROVE LatestInv
    OBVIOUS
<1>1. Stored[1] = latest[1] /\ Stored[2] = latest[2]
    BY DEF NotedInit, WindowsInit, Stored
<1>2. \A h \in Handlers : pc[h] # "merge"
    BY DEF NotedInit, WindowsInit
<1> QED BY <1>1, <1>2, InitWindowsInv DEF NotedInit, LatestInv, LatestWordKept, CopyKnown, Windows

\* A reply's windows are written as they are, and what it is silent about is
\* written as it was read.
LEMMA ReplyWritten ==
    ASSUME NEW h \in Handlers, WriteUsage(h), NEW k \in Windows
    PROVE  /\ k \in Spoken(h) => Stored'[k] = WindowUsage(OfReply(h)[k])
           /\ k \notin Spoken(h) => Stored'[k] = current[h][k]
<1>1. Stored'[k] = MergeUsage(current[h][k], OfReply(h)[k])
    <2>1. CASE k = 1
        BY <2>1 DEF WriteUsage, UpdateUsage, Stored, OfReply
    <2>2. CASE k = 2
        BY <2>2 DEF WriteUsage, UpdateUsage, Stored, OfReply
    <2> QED BY <2>1, <2>2 DEF Windows
<1> QED BY <1>1 DEF MergeUsage, Spoken

LEMMA LatestStep == LatestInv /\ [NotedNext]_<<windowVars, noted>> => LatestInv'
<1> SUFFICES ASSUME LatestInv, [NotedNext]_<<windowVars, noted>> PROVE LatestInv'
    OBVIOUS
<1>0. /\ WindowsInv' /\ missed \in [Handlers -> SUBSET Windows]
      /\ pc \in [Handlers -> {"idle", "merge"}]
      /\ DOMAIN current = Handlers
      /\ LatestWordKept /\ \A h \in Handlers, k \in Windows : CopyKnown(h, k)
    <2>1. [WindowsNext]_windowVars
        BY DEF NotedNext, WindowsNext
    <2> QED BY <2>1, StepWindowsInv DEF LatestInv, WindowsInv
<1>1. ASSUME NEW h \in Handlers, ReadToken(h), NoteRead(h)
      PROVE  LatestInv'
    <2>1. Stored' = Stored /\ latest' = latest /\ overtaken' = overtaken
        BY <1>1 DEF ReadToken, NoteRead, Stored
    <2>2. missed' \in [Handlers -> SUBSET Windows]
        BY <1>0, <1>1 DEF NoteRead
    <2>3. ASSUME NEW g \in Handlers, NEW k \in Windows
          PROVE  CopyKnown(g, k)'
        <3>1. CASE g = h
            <4>1. current'[h] = Stored
                BY <1>0, <1>1 DEF ReadToken, Stored
            <4> QED BY <1>0, <2>1, <3>1, <4>1 DEF CopyKnown, LatestWordKept
        <3>2. CASE g # h
            <4>1. pc'[g] = pc[g] /\ current'[g] = current[g] /\ missed'[g] = missed[g]
                BY <1>0, <1>1, <3>2 DEF ReadToken, NoteRead
            <4> QED BY <1>0, <2>1, <4>1 DEF CopyKnown
        <3> QED BY <3>1, <3>2
    <2>4. LatestWordKept'
        BY <1>0, <2>1 DEF LatestWordKept
    <2> QED BY <1>0, <2>2, <2>3, <2>4 DEF LatestInv
<1>2. ASSUME NEW h \in Handlers, WriteUsage(h), NoteReply(h)
      PROVE  LatestInv'
    <2>1. \A k \in Windows :
            /\ k \in Spoken(h) => latest'[k] = WindowUsage(OfReply(h)[k]) /\ k \notin overtaken'
            /\ k \notin Spoken(h) => latest'[k] = latest[k] /\ (k \in overtaken' <=> k \in overtaken \union missed[h])
        BY <1>2 DEF NoteReply
    <2>2. missed' \in [Handlers -> SUBSET Windows]
        BY <1>0, <1>2 DEF NoteReply, Spoken
    <2>3. LatestWordKept'
        <3> SUFFICES ASSUME NEW k \in Windows, Stored'[k] # latest'[k] PROVE k \in overtaken'
            BY DEF LatestWordKept
        <3>1. k \notin Spoken(h) /\ Stored'[k] = current[h][k] /\ latest'[k] = latest[k]
            BY <1>2, <2>1, ReplyWritten
        <3>2. k \in missed[h] \union overtaken
            BY <1>0, <1>2, <3>1 DEF CopyKnown, WriteUsage
        <3> QED BY <2>1, <3>1, <3>2
    <2>4. ASSUME NEW g \in Handlers, NEW k \in Windows
          PROVE  CopyKnown(g, k)'
        <3>1. CASE g = h
            <4>1. pc'[h] = "idle"
                BY <1>0, <1>2 DEF WriteUsage
            <4> QED BY <3>1, <4>1 DEF CopyKnown
        <3>2. CASE g # h
            <4>1. /\ pc'[g] = pc[g] /\ current'[g] = current[g]
                  /\ missed'[g] = missed[g] \union Spoken(h)
                BY <1>0, <1>2, <3>2 DEF WriteUsage, NoteReply
            <4> QED BY <1>0, <2>1, <4>1 DEF CopyKnown
        <3> QED BY <3>1, <3>2
    <2> QED BY <1>0, <2>2, <2>3, <2>4 DEF LatestInv
<1>3. ASSUME SyncWindows, NoteSync
      PROVE  LatestInv'
    BY <1>0, <1>3 DEF SyncWindows, NoteSync, LatestInv, LatestWordKept, CopyKnown
<1>4. ASSUME UNCHANGED <<windowVars, noted>>
      PROVE  LatestInv'
    <2>1. /\ Stored' = Stored /\ latest' = latest /\ overtaken' = overtaken
          /\ missed' = missed /\ pc' = pc /\ current' = current
        BY <1>4 DEF windowVars, noted, Stored
    <2> QED BY <1>0, <2>1 DEF LatestInv, LatestWordKept, CopyKnown
<1> QED BY <1>1, <1>2, <1>3, <1>4 DEF NotedNext

\* A window of the token is what was last reported of it, unless a reply that was
\* silent about it was read before that report and written back after it.
THEOREM LatestWindowsKept == NotedSpec => []LatestWordKept
<1>1. LatestInv => LatestWordKept
    BY DEF LatestInv
<1> QED BY <1>1, LatestInit, LatestStep, PTL DEF NotedSpec

----------------------------------------------------------------------------
(* SelectBest: the pick is the favourite.                                       *)

IsCandidate(c) == c.id \in Int /\ c.five \in Int /\ c.weekly \in Int

\* Better is a strict order, total on candidates of different ids.
LEMMA BetterOrder ==
  ASSUME NEW a, IsCandidate(a), NEW b, IsCandidate(b), NEW c, IsCandidate(c)
  PROVE  /\ Better(a, b) => ~Better(b, a)
         /\ Better(a, b) /\ Better(b, c) => Better(a, c)
         /\ a.id # b.id => Better(a, b) \/ Better(b, a)
  BY DEF IsCandidate, Better, Bottleneck

\* A candidate better than every other one is the only favourite.
LEMMA FavouriteIsBest ==
  ASSUME NEW C, \A c \in C : IsCandidate(c),
         NEW b \in C, \A c \in C : c = b \/ Better(b, c)
  PROVE  Favourites(C) = {b}
<1> DEFINE H1 == Highest(C, Bottleneck)
           H2 == Highest(H1, Five)
           H3 == Highest(H2, Weekly)
           H4 == Highest(H3, MinusId)
<1>0. \A c \in C : /\ Bottleneck(c) \in Int /\ Five(c) \in Int
                   /\ Weekly(c) \in Int /\ MinusId(c) \in Int
  BY DEF IsCandidate, Bottleneck, Five, Weekly, MinusId
<1>1. /\ H1 \subseteq C /\ b \in H1
      /\ \A c \in H1 : Bottleneck(c) = Bottleneck(b)
  BY <1>0 DEF Highest, Better
<1> HIDE DEF H1
<1>2. /\ H2 \subseteq H1 /\ b \in H2
      /\ \A c \in H2 : Five(c) = Five(b)
  BY <1>0, <1>1 DEF Highest, Better, Five
<1> HIDE DEF H2
<1>3. /\ H3 \subseteq H2 /\ b \in H3
      /\ \A c \in H3 : Weekly(c) = Weekly(b)
  BY <1>0, <1>1, <1>2 DEF Highest, Better, Five, Weekly
<1> HIDE DEF H3
<1>4. b \in H4
  BY <1>0, <1>1, <1>2, <1>3 DEF Highest, Better, Five, Weekly, MinusId, IsCandidate
<1>5. ASSUME NEW c \in H4 PROVE c = b
  <2>1. c \in H3 /\ MinusId(b) <= MinusId(c)
    BY <1>3, <1>5 DEF Highest
  <2>2. /\ Bottleneck(c) = Bottleneck(b) /\ c.five = b.five /\ c.weekly = b.weekly
        /\ c \in C
    BY <2>1, <1>1, <1>2, <1>3 DEF Five, Weekly
  <2>3. ~(b.id < c.id)
    <3>1. b.id \in Int /\ c.id \in Int
      BY <2>2 DEF IsCandidate
    <3>2. 0 - b.id <= 0 - c.id
      BY <2>1 DEF MinusId
    <3> QED BY <3>1, <3>2
  <2>4. Bottleneck(b) \in Int /\ b.five \in Int /\ b.weekly \in Int
    BY <1>0 DEF IsCandidate
  <2>5. ~Better(b, c)
    BY <2>2, <2>3, <2>4 DEF Better
  <2> QED BY <2>2, <2>5
<1>6. H4 = {b}
  BY <1>4, <1>5
<1> QED BY <1>6 DEF H1, H2, H3, Favourites

----------------------------------------------------------------------------
\* The candidate kept so far is the best of those the walk has passed.
PickTyped ==
    /\ DOMAIN tokens \subseteq Ids
    /\ \A i \in DOMAIN tokens :
        RemainingPoints(tokens[i].five) \in Int /\ RemainingPoints(tokens[i].weekly) \in Int
    /\ left \subseteq DOMAIN tokens
    /\ best \subseteq Seen

PickInv ==
    /\ PickTyped
    /\ Seen # {} => best # {}
    /\ \A b \in best : \A c \in Seen : c = b \/ Better(b, c)

LEMMA CandidatesTyped ==
  ASSUME PickTyped
  PROVE  /\ \A c \in Candidates : IsCandidate(c) /\ c.id \in DOMAIN tokens
         /\ \A i \in DOMAIN tokens : IsCandidate(Candidate(i, tokens[i]))
<1>1. ASSUME NEW i \in DOMAIN tokens
      PROVE  IsCandidate(Candidate(i, tokens[i])) /\ Candidate(i, tokens[i]).id = i
  BY IdsAssumption DEF PickTyped, Candidate, IsCandidate
<1> QED BY <1>1 DEF Candidates

LEMMA InitPickInv == PickInit => PickInv
BY DEF PickInit, PickInv, PickTyped, Seen, Candidates

\* A walk that begins has passed nothing.
LEMMA BeginPickInv ==
    ASSUME NEW copies, BeginPick(copies), DOMAIN copies \subseteq Ids,
           \A i \in DOMAIN copies :
               RemainingPoints(copies[i].five) \in Int /\ RemainingPoints(copies[i].weekly) \in Int
    PROVE  PickInv'
<1>1. Seen' = {}
  BY DEF BeginPick, Seen, Candidates, Candidate
<1> QED BY <1>1 DEF BeginPick, PickInv, PickTyped

LEMMA EndPickInv == EndPick => PickInv'
BY DEF EndPick, PickInv, PickTyped, Seen, Candidates

LEMMA VisitPickInv == PickInv /\ (Visit \/ UNCHANGED pickVars) => PickInv'
<1> SUFFICES ASSUME PickInv, Visit \/ UNCHANGED pickVars PROVE PickInv'
  OBVIOUS
<1>1. CASE UNCHANGED pickVars
  BY <1>1 DEF pickVars, PickInv, PickTyped, Seen, Candidates
<1>2. CASE Visit
  <2>1. PICK i \in left : /\ Skip(i) \/ Consider(i)
                          /\ left' = left \ {i}
                          /\ UNCHANGED <<tokens, tried>>
    BY <1>2 DEF Visit
  <2> DEFINE c == Candidate(i, tokens[i])
  <2>2. i \in DOMAIN tokens /\ c.id = i /\ IsCandidate(c)
    BY <2>1, CandidatesTyped DEF PickInv, PickTyped, Candidate
  <2>3. Candidates' = Candidates
    BY <2>1 DEF Candidates
  <2>4. \A d \in Candidates : d.id = i => d = c
    BY DEF Candidates, Candidate
  <2>5. c \in Candidates <=> i \notin tried /\ Available(tokens[i])
    BY <2>2 DEF Candidates, Candidate
  <2> HIDE DEF c
  <2>6. CASE Skip(i)
    <3>1. Seen' = Seen
      BY <2>1, <2>3, <2>4, <2>5, <2>6 DEF Seen, Skip
    <3> QED BY <3>1, <2>1, <2>6 DEF Skip, PickInv, PickTyped
  <2>7. CASE Consider(i)
    <3>1. Seen' = Seen \union {c} /\ c \notin Seen
      BY <2>1, <2>2, <2>3, <2>4, <2>5, <2>7 DEF Seen, Consider
    <3>2. best' = IF \A b \in best : Better(c, b) THEN {c} ELSE best
      BY <2>7 DEF Consider, c
    <3>3. \A d \in Seen : IsCandidate(d) /\ d.id # i
      BY <2>1, CandidatesTyped DEF Seen, PickInv
    <3>4. best \subseteq Seen /\ \A b \in best : \A d \in Seen : d = b \/ Better(b, d)
      BY DEF PickInv, PickTyped
    <3>5. ASSUME NEW b \in best', NEW d \in Seen' PROVE d = b \/ Better(b, d)
      <4>1. CASE \A e \in best : Better(c, e)
        <5>1. b = c
          BY <3>2, <4>1
        <5>2. CASE d = c
          BY <5>1, <5>2
        <5>3. CASE d \in Seen
          <6>1. PICK e \in best : TRUE
            BY <5>3 DEF PickInv
          <6>2. d = e \/ Better(e, d)
            BY <6>1, <5>3, <3>4
          <6>3. IsCandidate(e) /\ IsCandidate(d) /\ Better(c, e)
            BY <6>1, <5>3, <3>3, <3>4, <4>1
          <6> QED BY <5>1, <6>2, <6>3, <2>2, BetterOrder
        <5> QED BY <5>2, <5>3, <3>1
      <4>2. CASE ~ \A e \in best : Better(c, e)
        <5>1. best' = best
          BY <3>2, <4>2
        <5>2. PICK e \in best : ~Better(c, e)
          BY <4>2
        <5>3. b = e
          BY <5>1, <5>2, <3>3, <3>4, BetterOrder
        <5>4. Better(e, c)
          BY <5>2, <2>2, <3>3, <3>4, BetterOrder
        <5> QED BY <5>1, <5>3, <5>4, <3>1, <3>4
      <4> QED BY <4>1, <4>2
    <3>6. best' \subseteq Seen' /\ best' # {}
      BY <3>1, <3>2, <3>4
    <3> QED BY <3>5, <3>6, <2>1 DEF PickInv, PickTyped
  <2> QED BY <2>1, <2>6, <2>7
<1> QED BY <1>1, <1>2

----------------------------------------------------------------------------
(* TokenSelection: the windows as reported, and the pick among them.            *)

\* A walk that has come upon the watched token has its present windows.
SelectInv ==
    /\ LatestInv
    /\ PickInv
    /\ Watched \in DOMAIN tokens => tokens[Watched] = WatchedState

LEMMA UsedIsNumber ==
    ASSUME WindowsInv
    PROVE  fiveHour.used \in Int /\ weekly.used \in Int
<1>1. \A u \in FiveHourValues \union WeeklyValues : u.used \in Int
    <2> SUFFICES ASSUME NEW u \in FiveHourValues \union WeeklyValues PROVE u.used \in Int
        OBVIOUS
    <2>1. CASE u = Unknown
        BY <2>1 DEF Unknown
    <2>2. CASE u # Unknown
        <3>1. u.used \in 0..100
            BY <2>2 DEF FiveHourValues, WeeklyValues
        <3> QED BY <3>1
    <2> QED BY <2>1, <2>2
<1>2. fiveHour \in FiveHourValues \union WeeklyValues /\ weekly \in FiveHourValues \union WeeklyValues
    BY DEF WindowsInv
<1> QED BY <1>1, <1>2

LEMMA WatchedPoints ==
    ASSUME WindowsInv
    PROVE  /\ RemainingPoints(WatchedState.five) \in Int
           /\ RemainingPoints(WatchedState.weekly) \in Int
<1>1. fiveHour.used \in Int /\ weekly.used \in Int
    BY UsedIsNumber
<1> QED BY <1>1 DEF WatchedState, Points, RemainingPoints, DefaultLimitPoints

LEMMA StoreTyped ==
    ASSUME WindowsInv, NEW o \in Others
    PROVE  /\ DOMAIN Store(o) \subseteq Ids
           /\ \A i \in DOMAIN Store(o) :
                RemainingPoints(Store(o)[i].five) \in Int /\ RemainingPoints(Store(o)[i].weekly) \in Int
           /\ Store(o)[Watched] = WatchedState
<1> HIDE DEF WatchedState
<1> QED BY OthersAssumption, WatchedPoints DEF Store

LEMMA SelectInitInv == SelectInit => SelectInv
BY LatestInit, InitPickInv DEF SelectInit, SelectInv, PickInit

LEMMA SelectStepInv == SelectInv /\ [SelectNext]_selectVars => SelectInv'
<1> SUFFICES ASSUME SelectInv, [SelectNext]_selectVars PROVE SelectInv'
    OBVIOUS
<1>1. LatestInv'
    <2>1. [NotedNext]_<<windowVars, noted>>
        BY DEF SelectNext, Report, PickToken, selectVars
    <2> QED BY <2>1, LatestStep DEF SelectInv
<1>2. CASE Report
    <2>1. PickInv'
        BY <1>2, VisitPickInv DEF Report, SelectInv
    <2>2. DOMAIN tokens' = {}
        BY <1>2 DEF Report, Picking, pickVars
    <2> QED BY <1>1, <2>1, <2>2 DEF SelectInv
<1>3. ASSUME NEW o \in Others, BeginPick(Store(o)), UNCHANGED <<windowVars, noted>>
      PROVE  SelectInv'
    <2>1. WindowsInv
        BY DEF SelectInv, LatestInv
    <2>2. PickInv'
        BY <1>3, <2>1, StoreTyped, BeginPickInv
    <2>3. tokens'[Watched] = WatchedState /\ WatchedState' = WatchedState
        BY <1>3, <2>1, StoreTyped DEF BeginPick, WatchedState, windowVars
    <2> QED BY <1>1, <2>2, <2>3 DEF SelectInv
<1>4. CASE Visit /\ UNCHANGED <<windowVars, noted>>
    <2>1. PickInv'
        BY <1>4, VisitPickInv DEF SelectInv
    <2>2. tokens' = tokens /\ WatchedState' = WatchedState
        BY <1>4 DEF Visit, WatchedState, windowVars
    <2> QED BY <1>1, <2>1, <2>2 DEF SelectInv
<1>5. CASE EndPick /\ UNCHANGED <<windowVars, noted>>
    <2>1. DOMAIN tokens' = {}
        BY <1>5 DEF EndPick
    <2> QED BY <1>1, <1>5, <2>1, EndPickInv DEF SelectInv
<1>6. CASE UNCHANGED selectVars
    <2>1. PickInv'
        BY <1>6, VisitPickInv DEF selectVars, SelectInv
    <2> QED BY <1>1, <1>6, <2>1 DEF SelectInv, selectVars, pickVars, windowVars, WatchedState
<1> QED BY <1>2, <1>3, <1>4, <1>5, <1>6 DEF SelectNext, PickToken

LEMMA SelectInvariance == SelectSpec => []SelectInv
BY SelectInitInv, SelectStepInv, PTL DEF SelectSpec

\* What is proved of the windows alone holds beside the requests that pick tokens.
THEOREM SelectionKeepsWindows == SelectSpec => NotedSpec /\ WindowsSpec
<1>1. SelectInit => NotedInit /\ WindowsInit
    BY DEF SelectInit, NotedInit
<1>2. [SelectNext]_selectVars => [NotedNext]_<<windowVars, noted>> /\ [WindowsNext]_windowVars
    BY DEF SelectNext, Report, PickToken, selectVars, NotedNext, WindowsNext
<1> QED BY <1>1, <1>2, PTL DEF SelectSpec, NotedSpec, WindowsSpec

\* A token is not picked with a window used up by its last report, but for a reply
\* silent about it that was read before that report and written back after it.
THEOREM ExhaustedOut == SelectSpec => []ExhaustedNotPicked
<1>1. SelectInv => ExhaustedNotPicked
    <2> SUFFICES ASSUME SelectInv, NEW b \in best, NEW k \in Windows,
                        b.id = Watched, UsedUp(latest[k])
                 PROVE  k \in overtaken
        BY DEF ExhaustedNotPicked
    <2>1. b \in Candidates
        BY DEF SelectInv, PickInv, PickTyped, Seen
    <2>2. Watched \in DOMAIN tokens /\ Available(tokens[Watched])
        BY <2>1 DEF Candidates, Candidate
    <2>3. Available(WatchedState)
        BY <2>2 DEF SelectInv
    <2>4. ~Exhausted(Points(fiveHour)) /\ ~Exhausted(Points(weekly))
        BY <2>3 DEF Available, WatchedState
    <2>5. fiveHour.used \in Int /\ weekly.used \in Int
        BY UsedIsNumber DEF SelectInv, LatestInv
    <2>6. ~UsedUp(fiveHour) /\ ~UsedUp(weekly)
        BY <2>4, <2>5 DEF Exhausted, Points, RemainingPoints, UsedUp, DefaultLimitPoints
    <2>7. ~UsedUp(Stored[k])
        BY <2>6 DEF Stored, Windows
    <2> QED BY <2>7 DEF SelectInv, LatestInv, LatestWordKept
<1> QED BY <1>1, SelectInvariance, PTL

\* For any store, the pick does not depend on the order Go walks the map in: it
\* is the one candidate the ranking prefers.
THEOREM PickCorrect == SelectSpec => []PickIsTheFavourite
<1>1. PickInv => PickIsTheFavourite
  <2> SUFFICES ASSUME PickInv, left = {}
               PROVE  best = Favourites(Candidates) /\ (best = {} <=> Candidates = {})
    BY DEF PickIsTheFavourite
  <2>1. Seen = Candidates
    BY DEF Seen
  <2>2. CASE Candidates = {}
    <3>1. best = {}
      BY <2>1, <2>2 DEF PickInv, PickTyped
    <3>2. Favourites(Candidates) = {}
      BY <2>2 DEF Favourites, Highest
    <3> QED BY <3>1, <3>2, <2>2
  <2>3. CASE Candidates # {}
    <3>1. PICK b \in best : TRUE
      BY <2>1, <2>3 DEF PickInv
    <3>2. b \in Candidates /\ \A c \in Candidates : c = b \/ Better(b, c)
      BY <2>1, <3>1 DEF PickInv, PickTyped
    <3>3. \A c \in Candidates : IsCandidate(c)
      BY CandidatesTyped DEF PickInv
    <3>4. Favourites(Candidates) = {b}
      BY <3>2, <3>3, FavouriteIsBest
    <3>5. ASSUME NEW d \in best PROVE d = b
      BY <2>1, <3>1, <3>2, <3>3, <3>5, BetterOrder DEF PickInv, PickTyped
    <3> QED BY <3>1, <3>4, <3>5, <2>3
  <2> QED BY <2>2, <2>3
<1>2. SelectInv => PickInv
  BY DEF SelectInv
<1> QED BY <1>1, <1>2, SelectInvariance, PTL

----------------------------------------------------------------------------
(* What a request knows, by where it stands: these are facts about one record   *)
(* of req, and nobody but its own handler changes it.                           *)

Choice == {"idle"} \union Choosing
InUse == {"peek", "stale", "send", "refresh", "resend", "usage", "setAside", "remove",
          "bind", "streaming"}

\* The request's token was set aside, to be replaced if there is another one.
GivenUp(q) == q.pc = "retry" \/ (q.pc = "clear" /\ q.reply # "streamLimit")

\* A token in use is none of those the request has tried; one given up is.
TokenKnown(q) ==
    /\ q.pc \in InUse => q.token \in Tokens \ q.tried
    /\ q.pc = "clear" /\ q.reply = "streamLimit" => q.token \in Tokens \ q.tried
    /\ GivenUp(q) => q.token \in q.tried

\* Attempts count the tokens given up.
AttemptsCounted(q) ==
    q.pc # "done" =>
        /\ q.attempt = 1 /\ ~GivenUp(q) => q.tried = {}
        /\ q.attempt = 1 /\ GivenUp(q) => q.tried = {q.token}
        /\ q.attempt = 2 /\ ~GivenUp(q) => \E t \in Tokens : q.tried = {t}
        /\ q.attempt = 2 /\ GivenUp(q) => \E t, u \in Tokens : t # u /\ q.tried = {t, u}

\* A reply is held back exactly during the second attempt, and the reply at hand
\* fits the label.
ReplyKnown(q) ==
    /\ q.pc # "done" => q.answer = "none" /\ (q.attempt = 1 <=> q.held = "none")
    /\ q.pc \in Choice => q.reply = q.held
    /\ q.pc = "refresh" => q.reply = "unauth"
    /\ q.pc = "usage" => q.reply \in {"limit", "ok", "stream"}
    /\ q.pc \in {"setAside", "remove", "retry"} => q.reply \in Failures
    /\ q.pc = "bind" => q.reply \in {"ok", "stream"}
    /\ q.pc = "streaming" => q.reply \in {"stream", "streamLimit"}
    /\ q.pc = "clear" => q.reply \in Failures \union {"streamLimit"}

Sound(q) == TokenKnown(q) /\ AttemptsCounted(q) /\ ReplyKnown(q)

IInv == TypeOK /\ \A r \in Requests : Sound(req[r])

----------------------------------------------------------------------------
(* Type correctness.                                                            *)

\* A request's record holds when its handler leaves it well-typed and sound.
LEMMA OneRequest ==
    ASSUME IInv, NEW r \in Requests, NEW q \in RequestType, Sound(q),
           req' = [req EXCEPT ![r] = q]
    PROVE  /\ req' \in [Requests -> RequestType]
           /\ \A p \in Requests : Sound(req'[p])
  BY DEF IInv, TypeOK

\* What the operations of the store make of its types.
StoreOK ==
    /\ store \subseteq Tokens /\ invalid \subseteq store /\ cooling \subseteq store
    /\ quota \in [Tokens -> QuotaStates]

LEMMA StoreKeeps ==
    ASSUME StoreOK, NEW t \in Tokens,
           \/ MarkInvalid(t)
           \/ MarkCooldown(t)
           \/ UpdateCredentials(t)
           \/ DeleteToken(t)
           \/ UNCHANGED tokenVars
    PROVE  StoreOK'
<1>1. CASE MarkInvalid(t)
  BY <1>1 DEF MarkInvalid, StoreOK
<1>2. CASE MarkCooldown(t)
  BY <1>2 DEF MarkCooldown, StoreOK
<1>3. CASE UpdateCredentials(t)
  BY <1>3 DEF UpdateCredentials, StoreOK
<1>4. CASE DeleteToken(t)
  BY <1>4, QuotaAssumption DEF DeleteToken, StoreOK
<1>5. CASE UNCHANGED tokenVars
  BY <1>5 DEF tokenVars, StoreOK
<1> QED BY <1>1, <1>2, <1>3, <1>4, <1>5

SessionsOK == sessions \in [Sessions -> Tokens \union {NoToken}]

LEMMA Parts ==
    TypeOK <=> StoreOK /\ SessionsOK /\ leaving \subseteq Tokens /\ req \in [Requests -> RequestType]
  BY DEF TypeOK, StoreOK, SessionsOK

LEMMA Clears ==
    ASSUME SessionsOK, NEW t, ClearSessionsForToken(t)
    PROVE  SessionsOK'
  BY DEF SessionsOK, ClearSessionsForToken

LEMMA InitInv == Init => IInv
<1> SUFFICES ASSUME Init PROVE IInv
  OBVIOUS
<1>1. NewRequest \in RequestType
  BY DEF NewRequest, RequestType, Labels, MaxAttempts, Answers
<1>2. Sound(NewRequest)
  BY DEF NewRequest, Sound, TokenKnown, AttemptsCounted, ReplyKnown, GivenUp, InUse, Choice
<1>3. store \in SUBSET Tokens /\ quota \in [Tokens -> QuotaStates]
  BY DEF Init
<1> QED BY <1>1, <1>2, <1>3 DEF Init, IInv, TypeOK

----------------------------------------------------------------------------
(* The steps of a handler.                                                      *)

\* A step of r's handler, from the record it leaves behind.
LEMMA Moves ==
    ASSUME IInv, NEW r \in Requests, NEW q \in RequestType, Sound(q),
           req' = [req EXCEPT ![r] = q], StoreOK', SessionsOK', leaving' = leaving
    PROVE  IInv'
<1>1. req' \in [Requests -> RequestType] /\ \A p \in Requests : Sound(req'[p])
  BY OneRequest
<1>2. TypeOK'
  BY <1>1 DEF IInv, TypeOK, StoreOK, SessionsOK
<1> QED BY <1>1, <1>2 DEF IInv

LEMMA Record ==
    ASSUME IInv, NEW r \in Requests
    PROVE  /\ req[r] \in RequestType /\ Sound(req[r])
           /\ StoreOK /\ SessionsOK /\ leaving \subseteq Tokens
           /\ req \in [Requests -> RequestType]
  BY Parts DEF IInv

\* An answered request keeps its types and owes nothing more.
LEMMA AnswerStep ==
    ASSUME IInv, NEW r \in Requests, NEW a \in Answers, Answer(r, a),
           StoreOK', SessionsOK', leaving' = leaving
    PROVE  IInv'
<1> DEFINE q == [req[r] EXCEPT !.pc = "done", !.answer = a, !.attempt = 1,
                               !.sticky = FALSE, !.held = "none"]
<1>0. req[r] \in RequestType
  BY Record
<1>1. q \in RequestType
  <2>1. "done" \in Labels /\ 1 \in 1..MaxAttempts /\ FALSE \in BOOLEAN
    BY DEF Labels, MaxAttempts
  <2> QED BY <1>0, <2>1 DEF RequestType
<1>2. Sound(q)
  BY <1>0 DEF RequestType, Sound, TokenKnown, AttemptsCounted, ReplyKnown, GivenUp, InUse, Choice, Choosing
<1>3. req' = [req EXCEPT ![r] = q]
  BY <1>0, Record DEF Answer, RequestType
<1> HIDE DEF q
<1> QED BY <1>1, <1>2, <1>3, Moves

\* The selection: it takes a binding or a candidate the request has not tried.
LEMMA SelectionSteps ==
    ASSUME IInv, NEW r \in Requests,
           Start(r) \/ Lookup(r) \/ Peek(r) \/ Unbind(r) \/ Rank(r) \/ RefreshIfStale(r)
    PROVE  IInv'
<1> DEFINE R == req[r]
<1>0. R \in RequestType /\ Sound(R) /\ StoreOK /\ SessionsOK /\ req \in [Requests -> RequestType]
  BY Record
<1> USE DEF At, Token
<1>1. CASE Start(r)
  <2> DEFINE q == [R EXCEPT !.pc = "lookup"]
  <2>1. q \in RequestType /\ req' = [req EXCEPT ![r] = q]
    BY <1>0, <1>1 DEF Start, Goto, RequestType, Labels
  <2>2. Sound(q)
    BY <1>0, <1>1 DEF Start, RequestType, Sound, TokenKnown, AttemptsCounted, ReplyKnown,
                      GivenUp, InUse, Choice, Choosing
  <2>3. StoreOK' /\ SessionsOK' /\ leaving' = leaving
    BY <1>0, <1>1 DEF Start, tokenVars, StoreOK, SessionsOK
  <2> HIDE DEF q
  <2> QED BY <2>1, <2>2, <2>3, Moves
<1>2. CASE Lookup(r)
  <2> DEFINE q == [R EXCEPT !.token = Binding(r),
                            !.pc = IF FollowsBinding(r) THEN "peek" ELSE "rank"]
  <2>1. Binding(r) \in Tokens \union {NoToken}
    BY <1>0, RequestsAssumption DEF Binding, SessionsOK
  <2>2. q \in RequestType /\ req' = [req EXCEPT ![r] = q]
    BY <1>0, <1>2, <2>1 DEF Lookup, RequestType, Labels
  <2>3. FollowsBinding(r) => Binding(r) \in Tokens \ R.tried
    BY <2>1 DEF FollowsBinding
  <2>4. Sound(q)
    BY <1>0, <1>2, <2>3 DEF Lookup, RequestType, Sound, TokenKnown, AttemptsCounted, ReplyKnown,
                            GivenUp, InUse, Choice, Choosing
  <2>5. StoreOK' /\ SessionsOK' /\ leaving' = leaving
    BY <1>0, <1>2 DEF Lookup, tokenVars, StoreOK, SessionsOK
  <2> HIDE DEF q
  <2> QED BY <2>2, <2>4, <2>5, Moves
<1>3. CASE Peek(r)
  <2> DEFINE q == IF R.token \in Usable
                  THEN [R EXCEPT !.pc = "stale", !.sticky = TRUE]
                  ELSE [R EXCEPT !.pc = "unbind"]
  <2>1. q \in RequestType /\ req' = [req EXCEPT ![r] = q]
    BY <1>0, <1>3 DEF Peek, Goto, RequestType, Labels
  <2>2. Sound(q)
    BY <1>0, <1>3 DEF Peek, RequestType, Sound, TokenKnown, AttemptsCounted, ReplyKnown,
                      GivenUp, InUse, Choice, Choosing
  <2>3. StoreOK' /\ SessionsOK' /\ leaving' = leaving
    BY <1>0, <1>3 DEF Peek, tokenVars, StoreOK, SessionsOK
  <2> HIDE DEF q
  <2> QED BY <2>1, <2>2, <2>3, Moves
<1>4. CASE Unbind(r)
  <2> DEFINE q == [R EXCEPT !.pc = "rank"]
  <2>1. q \in RequestType /\ req' = [req EXCEPT ![r] = q]
    BY <1>0, <1>4 DEF Unbind, Goto, RequestType, Labels
  <2>2. Sound(q)
    BY <1>0, <1>4 DEF Unbind, RequestType, Sound, TokenKnown, AttemptsCounted, ReplyKnown,
                      GivenUp, InUse, Choice, Choosing
  <2>3. StoreOK' /\ SessionsOK' /\ leaving' = leaving
    BY <1>0, <1>4 DEF Unbind, tokenVars, StoreOK, SessionsOK
  <2> HIDE DEF q
  <2> QED BY <2>1, <2>2, <2>3, Moves
<1>5. CASE Rank(r)
  <2>0. StoreOK' /\ SessionsOK' /\ leaving' = leaving
    BY <1>0, <1>5 DEF Rank, tokenVars, StoreOK, SessionsOK
  <2>1. CASE CandidatesFor(r) = {} /\ Answer(r, WithoutToken(r))
    <3>1. WithoutToken(r) \in Answers
      BY <1>0 DEF WithoutToken, RequestType, Answers, Replies
    <3> QED BY <2>0, <2>1, <3>1, AnswerStep
  <2>2. ASSUME NEW c \in CandidatesFor(r),
               req' = [req EXCEPT ![r].token = c.id, ![r].sticky = FALSE, ![r].pc = "stale"]
        PROVE  IInv'
    <3> DEFINE q == [R EXCEPT !.token = c.id, !.sticky = FALSE, !.pc = "stale"]
    <3>1. c.id \in Usable \ R.tried
      BY DEF CandidatesFor, Candidate
    <3>2. c.id \in Tokens \ R.tried
      BY <1>0, <3>1 DEF Usable, StoreOK
    <3>3. q \in RequestType /\ req' = [req EXCEPT ![r] = q]
      BY <1>0, <2>2, <3>2 DEF RequestType, Labels
    <3>4. Sound(q)
      BY <1>0, <1>5, <3>2 DEF Rank, RequestType, Sound, TokenKnown, AttemptsCounted, ReplyKnown,
                              GivenUp, InUse, Choice, Choosing
    <3> HIDE DEF q
    <3> QED BY <2>0, <3>3, <3>4, Moves
  <2> QED BY <1>5, <2>1, <2>2 DEF Rank
<1>6. CASE RefreshIfStale(r)
  <2> DEFINE q == [R EXCEPT !.pc = "send"]
  <2>1. q \in RequestType /\ req' = [req EXCEPT ![r] = q]
    BY <1>0, <1>6 DEF RefreshIfStale, Goto, RequestType, Labels
  <2>2. Sound(q)
    BY <1>0, <1>6 DEF RefreshIfStale, RequestType, Sound, TokenKnown, AttemptsCounted, ReplyKnown,
                      GivenUp, InUse, Choice, Choosing
  <2>3. R.token \in Tokens
    BY <1>0, <1>6 DEF RefreshIfStale, Sound, TokenKnown, InUse
  <2>4. StoreOK' /\ SessionsOK' /\ leaving' = leaving
    BY <1>0, <1>6, <2>3, StoreKeeps DEF RefreshIfStale, SessionsOK
  <2> HIDE DEF q
  <2> QED BY <2>1, <2>2, <2>4, Moves
<1> QED BY <1>1, <1>2, <1>3, <1>4, <1>5, <1>6

\* Upstream's replies, the refresh after a 401 and what is read off a reply.
LEMMA ForwardSteps ==
    ASSUME IInv, NEW r \in Requests,
           Forward(r) \/ RefreshAfterUnauthorized(r) \/ ApplyUsage(r)
    PROVE  IInv'
<1> DEFINE R == req[r]
<1>0. R \in RequestType /\ Sound(R) /\ StoreOK /\ SessionsOK /\ req \in [Requests -> RequestType]
  BY Record
<1> USE DEF At, Token
<1>1. CASE Forward(r)
  <2>0. StoreOK' /\ SessionsOK' /\ leaving' = leaving
    BY <1>0, <1>1 DEF Forward, tokenVars, StoreOK, SessionsOK
  <2>1. CASE Answer(r, "upstreamError")
    BY <2>0, <2>1, AnswerStep DEF Answers
  <2>2. ASSUME NEW said \in Replies,
               req' = [req EXCEPT ![r].reply = said,
                                  ![r].pc = AfterReply(said, At(r, "send"))]
        PROVE  IInv'
    <3> DEFINE label == AfterReply(said, At(r, "send"))
               q == [R EXCEPT !.reply = said, !.pc = label]
    <3>1. /\ label \in {"refresh", "setAside", "remove", "usage"}
          /\ label = "refresh" => said = "unauth"
          /\ label \in {"setAside", "remove"} => said \in Failures
          /\ label = "usage" => said \in {"limit", "ok", "stream"}
      BY DEF AfterReply, Replies, Failures
    <3> HIDE DEF label
    <3>2. q \in RequestType /\ req' = [req EXCEPT ![r] = q]
      <4>1. label \in Labels
        BY <3>1 DEF Labels
      <4>2. q \in RequestType
        BY <1>0, <4>1 DEF RequestType
      <4>3. req' = [req EXCEPT ![r] = q]
        BY <1>0, <2>2 DEF RequestType, label
      <4> QED BY <4>2, <4>3
    <3>3. Sound(q)
      BY <1>0, <1>1, <3>1 DEF Forward, RequestType, Sound, TokenKnown, AttemptsCounted,
                              ReplyKnown, GivenUp, InUse, Choice, Choosing
    <3> HIDE DEF q
    <3> QED BY <2>0, <3>2, <3>3, Moves
  <2> QED BY <1>1, <2>1, <2>2 DEF Forward
<1>2. CASE RefreshAfterUnauthorized(r)
  <2>1. R.token \in Tokens
    BY <1>0, <1>2 DEF RefreshAfterUnauthorized, Sound, TokenKnown, InUse
  <2>2. StoreOK' /\ SessionsOK' /\ leaving' = leaving
    BY <1>0, <1>2, <2>1, StoreKeeps DEF RefreshAfterUnauthorized, SessionsOK
  <2>3. ASSUME NEW label \in {"resend", "setAside"}, Goto(r, label)
        PROVE  IInv'
    <3> DEFINE q == [R EXCEPT !.pc = label]
    <3>1. q \in RequestType /\ req' = [req EXCEPT ![r] = q]
      BY <1>0, <2>3 DEF Goto, RequestType, Labels
    <3>2. Sound(q)
      BY <1>0, <1>2 DEF RefreshAfterUnauthorized, RequestType, Sound, TokenKnown, AttemptsCounted,
                        ReplyKnown, GivenUp, InUse, Choice, Choosing, Failures
    <3> HIDE DEF q
    <3> QED BY <2>2, <3>1, <3>2, Moves
  <2> QED BY <1>2, <2>3 DEF RefreshAfterUnauthorized
<1>3. CASE ApplyUsage(r)
  <2>1. StoreOK' /\ SessionsOK' /\ leaving' = leaving
    BY <1>0, <1>3 DEF ApplyUsage, StoreOK, SessionsOK
  <2>2. CASE Answer(r, "ok")
    BY <2>1, <2>2, AnswerStep DEF Answers, Replies
  <2>3. ASSUME NEW label \in {"setAside", "bind"}, Goto(r, label),
               label = "setAside" <=> R.reply = "limit"
        PROVE  IInv'
    <3> DEFINE q == [R EXCEPT !.pc = label]
    <3>1. q \in RequestType /\ req' = [req EXCEPT ![r] = q]
      BY <1>0, <2>3 DEF Goto, RequestType, Labels
    <3>2. Sound(q)
      BY <1>0, <1>3, <2>3 DEF ApplyUsage, RequestType, Sound, TokenKnown, AttemptsCounted,
                        ReplyKnown, GivenUp, InUse, Choice, Choosing, Failures
    <3> HIDE DEF q
    <3> QED BY <2>1, <3>1, <3>2, Moves
  <2>4. CASE R.reply = "limit"
    BY <1>3, <2>3, <2>4 DEF ApplyUsage
  <2>5. CASE R.reply # "limit"
    BY <1>3, <2>2, <2>3, <2>5 DEF ApplyUsage
  <2> QED BY <2>4, <2>5
<1> QED BY <1>1, <1>2, <1>3

\* A failed token is put aside, its sessions are let go, and the request tries
\* another one or answers.
LEMMA SetAsideSteps ==
    ASSUME IInv, NEW r \in Requests,
           SetAside(r) \/ Remove(r) \/ ClearSessions(r) \/ Retry(r)
    PROVE  IInv'
<1> DEFINE R == req[r]
<1>0. R \in RequestType /\ Sound(R) /\ StoreOK /\ SessionsOK /\ req \in [Requests -> RequestType]
  BY Record
<1> USE DEF At, Token
<1>a. R.pc \in {"setAside", "remove"} => R.token \in Tokens \ R.tried /\ R.tried \subseteq Tokens
  BY <1>0 DEF Sound, TokenKnown, InUse, RequestType
<1>1. CASE SetAside(r)
  <2> DEFINE q == [R EXCEPT !.tried = Tried(r), !.pc = "clear"]
  <2>1. q \in RequestType /\ req' = [req EXCEPT ![r] = q]
    BY <1>0, <1>1, <1>a DEF SetAside, Tried, RequestType, Labels
  <2>2. Sound(q)
    BY <1>0, <1>1, <1>a DEF SetAside, Tried, RequestType, Sound, TokenKnown, AttemptsCounted,
                      ReplyKnown, GivenUp, InUse, Choice, Choosing, Failures
  <2>3. StoreOK' /\ SessionsOK' /\ leaving' = leaving
    BY <1>0, <1>1, <1>a, StoreKeeps DEF SetAside, SessionsOK
  <2> HIDE DEF q
  <2> QED BY <2>1, <2>2, <2>3, Moves
<1>2. CASE Remove(r)
  <2> DEFINE q == [R EXCEPT !.tried = Tried(r), !.pc = IF R.token \in store THEN "clear" ELSE "retry"]
  <2>1. q \in RequestType /\ req' = [req EXCEPT ![r] = q]
    BY <1>0, <1>2, <1>a DEF Remove, Tried, RequestType, Labels
  <2>2. Sound(q)
    BY <1>0, <1>2, <1>a DEF Remove, Tried, RequestType, Sound, TokenKnown, AttemptsCounted,
                      ReplyKnown, GivenUp, InUse, Choice, Choosing, Failures
  <2>3. StoreOK' /\ SessionsOK' /\ leaving' = leaving
    BY <1>0, <1>2, <1>a, StoreKeeps DEF Remove, SessionsOK
  <2> HIDE DEF q
  <2> QED BY <2>1, <2>2, <2>3, Moves
<1>3. CASE ClearSessions(r)
  <2> DEFINE q == [R EXCEPT !.pc = IF R.reply = "streamLimit" THEN "streaming" ELSE "retry"]
  <2>1. q \in RequestType /\ req' = [req EXCEPT ![r] = q]
    BY <1>0, <1>3 DEF ClearSessions, Goto, RequestType, Labels
  <2>2. Sound(q)
    BY <1>0, <1>3 DEF ClearSessions, RequestType, Sound, TokenKnown, AttemptsCounted,
                      ReplyKnown, GivenUp, InUse, Choice, Choosing, Failures
  <2>3. StoreOK' /\ SessionsOK' /\ leaving' = leaving
    BY <1>0, <1>3, Clears DEF ClearSessions, tokenVars, StoreOK
  <2> HIDE DEF q
  <2> QED BY <2>1, <2>2, <2>3, Moves
<1>4. CASE Retry(r)
  <2>1. StoreOK' /\ SessionsOK' /\ leaving' = leaving
    BY <1>0, <1>4 DEF Retry, tokenVars, StoreOK, SessionsOK
  <2>2. CASE ~MayRetry(r)
    <3>1. R.reply \in Answers
      BY <1>0, <1>4 DEF Retry, Sound, ReplyKnown, Answers, Replies
    <3> QED BY <1>4, <2>1, <2>2, <3>1, AnswerStep DEF Retry
  <2>3. CASE MayRetry(r)
    <3> DEFINE q == [R EXCEPT !.attempt = R.attempt + 1, !.held = R.reply, !.pc = "lookup"]
    <3>1. R.attempt = 1 /\ R.pc = "retry" /\ R.reply \in Failures
      BY <1>0, <1>4, <2>3 DEF Retry, MayRetry, MaxAttempts, RequestType, Sound, ReplyKnown
    <3>2. R.tried = {R.token} /\ R.token \in Tokens
      BY <1>0, <3>1 DEF Sound, AttemptsCounted, GivenUp, RequestType
    <3>3. q \in RequestType /\ req' = [req EXCEPT ![r] = q]
      <4>1. 2 \in 1..MaxAttempts /\ "lookup" \in Labels
        BY DEF MaxAttempts, Labels
      <4> QED BY <1>0, <1>4, <2>3, <3>1, <4>1 DEF Retry, RequestType
    <3>4. Sound(q)
      BY <1>0, <3>1, <3>2 DEF RequestType, Sound, TokenKnown, AttemptsCounted,
                      ReplyKnown, GivenUp, InUse, Choice, Choosing, Failures
    <3> HIDE DEF q
    <3> QED BY <2>1, <3>3, <3>4, Moves
  <2> QED BY <2>2, <2>3
<1> QED BY <1>1, <1>2, <1>3, <1>4

\* Binding the session, and the stream to the client.
LEMMA StreamSteps ==
    ASSUME IInv, NEW r \in Requests, BindProxySession(r) \/ StreamLimit(r) \/ StreamEnds(r)
    PROVE  IInv'
<1> DEFINE R == req[r]
<1>0. R \in RequestType /\ Sound(R) /\ StoreOK /\ SessionsOK /\ req \in [Requests -> RequestType]
  BY Record
<1> USE DEF At, Token
<1>1. CASE BindProxySession(r)
  <2>1. R.token \in Tokens
    BY <1>0, <1>1 DEF BindProxySession, Sound, TokenKnown, InUse
  <2>2. StoreOK' /\ SessionsOK' /\ leaving' = leaving
    BY <1>0, <1>1, <2>1 DEF BindProxySession, tokenVars, StoreOK, SessionsOK
  <2>3. CASE R.reply = "stream"
    <3> DEFINE q == [R EXCEPT !.pc = "streaming"]
    <3>1. q \in RequestType /\ req' = [req EXCEPT ![r] = q]
      BY <1>0, <1>1, <2>3 DEF BindProxySession, Goto, RequestType, Labels
    <3>2. Sound(q)
      BY <1>0, <1>1, <2>3 DEF BindProxySession, RequestType, Sound, TokenKnown, AttemptsCounted,
                        ReplyKnown, GivenUp, InUse, Choice, Choosing
    <3> HIDE DEF q
    <3> QED BY <2>2, <3>1, <3>2, Moves
  <2>4. CASE R.reply # "stream"
    <3>1. Answer(r, "ok") /\ "ok" \in Answers
      BY <1>1, <2>4 DEF BindProxySession, Answers, Replies
    <3> QED BY <2>2, <3>1, AnswerStep
  <2> QED BY <2>3, <2>4
<1>2. CASE StreamLimit(r)
  <2> DEFINE q == [R EXCEPT !.reply = "streamLimit", !.pc = "clear"]
  <2>1. q \in RequestType /\ req' = [req EXCEPT ![r] = q]
    BY <1>0, <1>2 DEF StreamLimit, RequestType, Labels
  <2>2. Sound(q)
    BY <1>0, <1>2 DEF StreamLimit, RequestType, Sound, TokenKnown, AttemptsCounted,
                      ReplyKnown, GivenUp, InUse, Choice, Choosing
  <2>3. R.token \in Tokens
    BY <1>0, <1>2 DEF StreamLimit, Sound, TokenKnown, InUse
  <2>4. StoreOK' /\ SessionsOK' /\ leaving' = leaving
    BY <1>0, <1>2, <2>3, StoreKeeps DEF StreamLimit, SessionsOK
  <2> HIDE DEF q
  <2> QED BY <2>1, <2>2, <2>4, Moves
<1>3. CASE StreamEnds(r)
  <2>1. StoreOK' /\ SessionsOK' /\ leaving' = leaving /\ "stream" \in Answers
    BY <1>0, <1>3 DEF StreamEnds, tokenVars, StoreOK, SessionsOK, Answers, Replies
  <2> QED BY <1>3, <2>1, AnswerStep DEF StreamEnds
<1> QED BY <1>1, <1>2, <1>3

LEMMA HandlerStep ==
    ASSUME IInv, NEW r \in Requests, Start(r) \/ Handle(r)
    PROVE  IInv'
  BY SelectionSteps, ForwardSteps, SetAsideSteps, StreamSteps DEF Handle

\* What the rest of the process does leaves the requests alone.
LEMMA ElsewhereStep ==
    ASSUME IInv, NEW t \in Tokens,
           \/ CooldownOver(t)
           \/ Renew(t)
           \/ SyncUsage(t)
           \/ EvictToken(t)
           \/ EvictSessions(t)
    PROVE  IInv' /\ UNCHANGED req
<1>0. StoreOK /\ SessionsOK /\ leaving \subseteq Tokens
  BY Parts DEF IInv
<1>1. UNCHANGED req
  BY DEF CooldownOver, Renew, SyncUsage, EvictToken, EvictSessions
<1>2. leaving' \subseteq Tokens
  BY <1>0 DEF CooldownOver, Renew, SyncUsage, EvictToken, EvictSessions
<1>3. SessionsOK'
  BY <1>0, Clears DEF CooldownOver, Renew, SyncUsage, EvictToken, EvictSessions, SessionsOK
<1>4. ASSUME CooldownOver(t) PROVE StoreOK'
  BY <1>0, <1>4 DEF CooldownOver, StoreOK
<1>5. ASSUME Renew(t) PROVE StoreOK'
  BY <1>0, <1>5 DEF Renew, StoreOK
<1>6. ASSUME SyncUsage(t) PROVE StoreOK'
  BY <1>0, <1>6 DEF SyncUsage, StoreOK
<1>7. ASSUME EvictToken(t) PROVE StoreOK'
  BY <1>0, <1>7, StoreKeeps DEF EvictToken
<1>8. ASSUME EvictSessions(t) PROVE StoreOK'
  BY <1>0, <1>8 DEF EvictSessions, tokenVars, StoreOK
<1>9. StoreOK'
  BY <1>4, <1>5, <1>6, <1>7, <1>8
<1>10. TypeOK'
  BY <1>1, <1>2, <1>3, <1>9 DEF IInv, TypeOK, StoreOK, SessionsOK, RequestType, Labels, Answers
<1> QED BY <1>1, <1>10 DEF IInv

LEMMA InvStep == IInv /\ [Next]_vars => IInv'
<1> SUFFICES ASSUME IInv, [Next]_vars PROVE IInv'
  OBVIOUS
<1>1. CASE \E r \in Requests : Start(r) \/ Handle(r)
  BY <1>1, HandlerStep
<1>2. CASE \E t \in Tokens : EvictSessions(t) \/ CooldownOver(t) \/ Renew(t) \/ SyncUsage(t) \/ EvictToken(t)
  BY <1>2, ElsewhereStep
<1>3. CASE UNCHANGED vars
  BY <1>3 DEF vars, tokenVars, IInv, TypeOK, RequestType, Labels, Answers
<1> QED BY <1>1, <1>2, <1>3 DEF Next, Elsewhere

LEMMA Invariance == Spec => []IInv
  BY InitInv, InvStep, PTL DEF Spec

\* Type correctness: TypeOK holds in every reachable state.
THEOREM TypeCorrect == Spec => []TypeOK
<1>1. IInv => TypeOK
  BY DEF IInv
<1> QED BY <1>1, Invariance, PTL

----------------------------------------------------------------------------
(* Every step is a step of the contract of a request, or none.                  *)

CONSTANT one            \* the request in question

Contract == INSTANCE RequestContract WITH
    phase <- Phase(one), asked <- Asked(one), heard <- Heard(one), answer <- req[one].answer

LEMMA Phases ==
    /\ PhaseAt["idle"] = "idle"
    /\ \A label \in Choosing : PhaseAt[label] = "choosing"
    /\ PhaseAt["send"] = "asked" /\ PhaseAt["resend"] = "askedAgain"
    /\ PhaseAt["refresh"] = "refused" /\ PhaseAt["done"] = "answered"
    /\ \A label \in {"usage", "setAside", "remove", "clear", "retry", "bind", "streaming"} :
            PhaseAt[label] = "heard"
  BY DEF PhaseAt, Labels, Choosing

\* What the contract sees of a request depends on its record only.
LEMMA SeenUnchanged ==
    ASSUME req'[one] = req[one]
    PROVE  UNCHANGED Contract!contract
  BY DEF Contract!contract, Phase, Asked, SentWithToken, Tried, Token, At, Heard

\* Another request's handler leaves this one's record alone.
LEMMA OthersStay ==
    ASSUME NEW p \in Requests, NEW r \in Requests \ {p}, req \in [Requests -> RequestType],
           Start(r) \/ Handle(r)
    PROVE  req'[p] = req[p]
<1>1. \A label : Goto(r, label) => req'[p] = req[p]
  BY DEF Goto
<1>2. \A a : Answer(r, a) => req'[p] = req[p]
  BY DEF Answer
<1> QED
  BY <1>1, <1>2 DEF Start, Handle, Lookup, Peek, Unbind, Rank, RefreshIfStale, Forward,
     RefreshAfterUnauthorized, ApplyUsage, SetAside, Remove, ClearSessions, Retry,
     BindProxySession, StreamLimit, StreamEnds

\* How the contract reads a record.
LEMMA Reading ==
    ASSUME one \in Requests, IInv
    PROVE  LET R == req[one] IN
           /\ R.pc \in Choice => Asked(one) = R.tried
           /\ R.pc \in Labels \ (Choice \union {"done"}) => Asked(one) = R.tried \union {R.token}
           /\ GivenUp(R) => Asked(one) = R.tried
           /\ R.reply # "streamLimit" => Heard(one) = R.reply
           /\ R.pc = "streaming" => Heard(one) = "stream"
  BY Record DEF Sound, TokenKnown, ReplyKnown, GivenUp, Asked, SentWithToken, Tried, Token, At,
     Heard, Choice, Choosing

\* Answering: what was asked and heard stays.
LEMMA AnswerSeen ==
    ASSUME one \in Requests, IInv, NEW a, Answer(one, a)
    PROVE  /\ Phase(one)' = "answered" /\ req'[one].answer = a
           /\ Heard(one)' = Heard(one)
           /\ Asked(one)' = IF a \in {"ok", "stream", "upstreamError"}
                            THEN req[one].tried \union {req[one].token} ELSE req[one].tried
<1>1. req \in [Requests -> RequestType] /\ req[one] \in RequestType
  BY Record
<1>2. /\ req'[one].pc = "done" /\ req'[one].answer = a
      /\ req'[one].tried = req[one].tried /\ req'[one].token = req[one].token
      /\ req'[one].reply = req[one].reply
  BY <1>1 DEF Answer, RequestType
<1> QED
  BY <1>2, Phases DEF Phase, Asked, SentWithToken, Tried, Token, At, Heard

\* Taking a request up, choosing a token and asking upstream with it.
LEMMA ContractSelection ==
    ASSUME one \in Requests, IInv,
           \/ Start(one)
           \/ Lookup(one)
           \/ Peek(one)
           \/ Unbind(one)
           \/ Rank(one)
           \/ RefreshIfStale(one)
    PROVE  [Contract!Next]_(Contract!contract)
<1> DEFINE R == req[one]
           Q == req'[one]
<1>0. R \in RequestType /\ Sound(R) /\ StoreOK /\ SessionsOK /\ req \in [Requests -> RequestType]
  BY Record
<1> USE DEF At, Token
<1>1. CASE Start(one)
  <2>1. R.pc = "idle" /\ Q.pc = "lookup" /\ Q.tried = R.tried /\ Q.reply = R.reply /\ Q.answer = R.answer
    BY <1>0, <1>1 DEF Start, Goto, RequestType
  <2>2. Contract!TakeUp
    BY <2>1, Phases DEF Contract!TakeUp, Phase, Asked, SentWithToken, Heard, Choosing
  <2> QED BY <2>2 DEF Contract!Next
<1>2. ASSUME R.pc \in Choosing, Q.pc \in Choosing, Q.tried = R.tried, Q.reply = R.reply,
             Q.answer = R.answer
      PROVE  UNCHANGED Contract!contract
  BY <1>2, Phases DEF Contract!contract, Phase, Asked, SentWithToken, Heard, Choosing
<1>3. CASE Lookup(one) \/ Peek(one) \/ Unbind(one)
  BY <1>0, <1>2, <1>3 DEF Lookup, Peek, Unbind, Goto, RequestType, Choosing
<1>4. CASE Rank(one)
  <2>1. CASE \E c \in CandidatesFor(one) :
               req' = [req EXCEPT ![one].token = c.id, ![one].sticky = FALSE, ![one].pc = "stale"]
    <3>0. PICK c \in CandidatesFor(one) :
               req' = [req EXCEPT ![one].token = c.id, ![one].sticky = FALSE, ![one].pc = "stale"]
      BY <2>1
    <3>1. /\ R.pc = "rank" /\ Q.pc = "stale" /\ Q.tried = R.tried
          /\ Q.reply = R.reply /\ Q.answer = R.answer
      <4>1. R.pc = "rank"
        BY <1>4 DEF Rank
      <4> QED BY <1>0, <3>0, <4>1 DEF RequestType
    <3>2. UNCHANGED Contract!contract
      BY <1>2, <3>1 DEF Choosing
    <3> QED BY <3>2
  <2>2. CASE Answer(one, WithoutToken(one))
    <3>1. R.pc = "rank" /\ R.reply = R.held /\ R.answer = "none" /\ (R.attempt = 1 <=> R.held = "none")
      BY <1>0, <1>4 DEF Rank, Sound, ReplyKnown, Choice, Choosing
    <3>2. Phase(one) = "choosing" /\ Asked(one) = R.tried /\ Heard(one) = R.held
      <4>1. R.held # "streamLimit"
        BY <1>0 DEF RequestType, Failures
      <4> QED BY <3>1, <4>1, Phases, Reading DEF Phase, Choice, Choosing
    <3>3. WithoutToken(one) \in Failures \union {"unavailable"}
      BY <1>0 DEF WithoutToken, RequestType
    <3>4. Asked(one)' = R.tried
      BY <2>2, <3>3, AnswerSeen DEF Failures
    <3>5. Contract!Answer(WithoutToken(one))
      BY <2>2, <3>2, <3>4, AnswerSeen DEF Contract!Answer
    <3>6. CASE R.held = "none"
      <4>1. R.tried = {}
        BY <1>0, <3>1, <3>6 DEF Sound, AttemptsCounted, GivenUp
      <4>2. Contract!Unavailable
        BY <3>2, <3>5, <3>6, <4>1 DEF Contract!Unavailable, WithoutToken
      <4> QED BY <4>2 DEF Contract!Next, Contract!Proceed
    <3>7. CASE R.held # "none"
      <4>1. Contract!AnswerHeard
        BY <3>2, <3>5, <3>7 DEF Contract!AnswerHeard, WithoutToken
      <4> QED BY <4>1 DEF Contract!Next, Contract!Proceed
    <3> QED BY <3>6, <3>7
  <2> QED BY <1>4, <2>1, <2>2 DEF Rank
<1>5. CASE RefreshIfStale(one)
  <2>1. R.pc = "stale" /\ Q.pc = "send" /\ Q.tried = R.tried /\ Q.token = R.token
        /\ Q.reply = R.reply /\ Q.answer = R.answer
    BY <1>0, <1>5 DEF RefreshIfStale, Goto, RequestType
  <2>2. R.token \in Tokens \ R.tried
    BY <1>0, <2>1 DEF Sound, TokenKnown, InUse
  <2>3. /\ Phase(one) = "choosing" /\ Phase(one)' = "asked"
        /\ Asked(one) = R.tried /\ Asked(one)' = R.tried \union {R.token}
        /\ Heard(one)' = Heard(one)
    BY <2>1, Phases DEF Phase, Asked, SentWithToken, Tried, Heard, Choosing
  <2>4. R.tried = {} \/ \E t \in Tokens : R.tried = {t}
    BY <1>0, <2>1 DEF Sound, AttemptsCounted, GivenUp, RequestType, MaxAttempts
  <2>5. \A t \in Asked(one) : Asked(one) = {t}
    BY <2>3, <2>4
  <2>6. Contract!Ask
    BY <2>1, <2>2, <2>3, <2>5 DEF Contract!Ask
  <2> QED BY <2>6 DEF Contract!Next, Contract!Proceed
<1> QED BY <1>1, <1>3, <1>4, <1>5

\* Upstream's replies and the refresh that mends a token's first 401.
LEMMA ContractForward ==
    ASSUME one \in Requests, IInv,
           Forward(one) \/ RefreshAfterUnauthorized(one) \/ ApplyUsage(one)
    PROVE  [Contract!Next]_(Contract!contract)
<1> DEFINE R == req[one]
           Q == req'[one]
<1>0. R \in RequestType /\ Sound(R) /\ StoreOK /\ SessionsOK /\ req \in [Requests -> RequestType]
  BY Record
<1> USE DEF At, Token
<1>1. CASE Forward(one)
  <2>1. /\ R.pc \in {"send", "resend"}
        /\ Phase(one) = IF R.pc = "send" THEN "asked" ELSE "askedAgain"
        /\ Asked(one) = R.tried \union {R.token}
        /\ R.reply # "streamLimit" => Heard(one) = R.reply
    BY <1>1, Phases DEF Forward, Phase, Asked, SentWithToken, Tried, Heard, Choosing
  <2>2. CASE Answer(one, "upstreamError")
    <3>1. Contract!ConnectionFails
      BY <2>1, <2>2, AnswerSeen DEF Contract!ConnectionFails, Contract!Answer
    <3> QED BY <3>1 DEF Contract!Next, Contract!Proceed
  <2>3. ASSUME NEW said \in Replies,
               req' = [req EXCEPT ![one].reply = said,
                                  ![one].pc = AfterReply(said, At(one, "send"))]
        PROVE  Contract!Next
    <3> DEFINE label == AfterReply(said, At(one, "send"))
    <3>1. Q.reply = said /\ Q.pc = label /\ Q.tried = R.tried /\ Q.token = R.token /\ Q.answer = R.answer
      BY <1>0, <2>3 DEF RequestType
    <3>2. /\ label \in {"refresh", "setAside", "remove", "usage"}
          /\ label = "refresh" <=> said = "unauth" /\ R.pc = "send"
      <4>1. CASE said = "unauth"
        <5>1. label = IF R.pc = "send" THEN "refresh" ELSE "setAside"
          BY <4>1 DEF AfterReply
        <5> QED BY <4>1, <5>1
      <4>2. CASE said # "unauth"
        <5>1. label = IF said = "deactivated" THEN "remove" ELSE "usage"
          BY <4>2 DEF AfterReply
        <5> QED BY <4>2, <5>1
      <4> QED BY <4>1, <4>2
    <3> HIDE DEF label
    <3>3. Heard(one)' = said
      BY <3>1 DEF Heard, Replies, Failures
    <3>4. Asked(one)' = R.tried \union {R.token}
      BY <3>1, <3>2 DEF Asked, SentWithToken, Tried, Choosing
    <3>5. Phase(one)' = IF R.pc = "send" /\ said = "unauth" THEN "refused" ELSE "heard"
      BY <3>1, <3>2, Phases DEF Phase
    <3>6. Contract!Hear
      BY <2>1, <3>1, <3>3, <3>4, <3>5 DEF Contract!Hear
    <3> QED BY <3>6 DEF Contract!Next, Contract!Proceed
  <2> QED BY <1>1, <2>2, <2>3 DEF Forward
<1>2. CASE RefreshAfterUnauthorized(one)
  <2>1. /\ R.pc = "refresh" /\ Q.pc \in {"resend", "setAside"} /\ Q.tried = R.tried
        /\ Q.token = R.token /\ Q.reply = R.reply /\ Q.answer = R.answer
    BY <1>0, <1>2 DEF RefreshAfterUnauthorized, Goto, RequestType
  <2>2. /\ Phase(one) = "refused" /\ Phase(one)' \in {"askedAgain", "heard"}
        /\ Asked(one)' = Asked(one) /\ Heard(one)' = Heard(one)
    BY <2>1, Phases DEF Phase, Asked, SentWithToken, Tried, Heard, Choosing
  <2>3. Contract!Refreshed
    BY <2>1, <2>2 DEF Contract!Refreshed
  <2> QED BY <2>3 DEF Contract!Next, Contract!Proceed
<1>3. CASE ApplyUsage(one)
  <2>1. R.pc = "usage" /\ Phase(one) = "heard" /\ Asked(one) = R.tried \union {R.token}
    BY <1>3, Phases DEF ApplyUsage, Phase, Asked, SentWithToken, Tried, Choosing
  <2>2. CASE R.reply = "ok" /\ Answer(one, "ok")
    <3>1. Heard(one) = "ok"
      BY <2>2 DEF Heard
    <3>2. Contract!AnswerHeard
      BY <2>1, <2>2, <3>1, AnswerSeen DEF Contract!AnswerHeard, Contract!Answer
    <3> QED BY <3>2 DEF Contract!Next, Contract!Proceed
  <2>3. CASE Goto(one, "setAside") \/ Goto(one, "bind")
    <3>1. /\ Q.pc \in {"setAside", "bind"} /\ Q.tried = R.tried /\ Q.token = R.token
          /\ Q.reply = R.reply /\ Q.answer = R.answer
      BY <1>0, <2>3 DEF Goto, RequestType
    <3>2. UNCHANGED Contract!contract
      BY <2>1, <3>1, Phases DEF Contract!contract, Phase, Asked, SentWithToken, Tried, Heard, Choosing
    <3> QED BY <3>2
  <2>4. CASE R.reply = "limit"
    BY <1>3, <2>3, <2>4 DEF ApplyUsage
  <2>5. CASE R.reply # "limit"
    BY <1>3, <2>2, <2>3, <2>5 DEF ApplyUsage
  <2> QED BY <2>4, <2>5
<1> QED BY <1>1, <1>2, <1>3

\* Putting a token aside shows when another one is tried or the reply is passed on.
LEMMA ContractSetAside ==
    ASSUME one \in Requests, IInv,
           SetAside(one) \/ Remove(one) \/ ClearSessions(one) \/ Retry(one)
    PROVE  [Contract!Next]_(Contract!contract)
<1> DEFINE R == req[one]
           Q == req'[one]
<1>0. R \in RequestType /\ Sound(R) /\ StoreOK /\ SessionsOK /\ req \in [Requests -> RequestType]
  BY Record
<1> USE DEF At, Token
<1>1. CASE SetAside(one) \/ Remove(one)
  <2>1. /\ R.pc \in {"setAside", "remove"} /\ Q.pc \in {"clear", "retry"}
        /\ Q.tried = R.tried \union {R.token} /\ Q.token = R.token
        /\ Q.reply = R.reply /\ Q.answer = R.answer
    BY <1>0, <1>1 DEF SetAside, Remove, Tried, RequestType
  <2>2. UNCHANGED Contract!contract
    BY <2>1, Phases DEF Contract!contract, Phase, Asked, SentWithToken, Tried, Heard, Choosing
  <2> QED BY <2>2
<1>2. CASE ClearSessions(one)
  <2>1. /\ R.pc = "clear" /\ Q.pc \in {"streaming", "retry"} /\ Q.tried = R.tried
        /\ Q.token = R.token /\ Q.reply = R.reply /\ Q.answer = R.answer
    BY <1>0, <1>2 DEF ClearSessions, Goto, RequestType
  <2>2. UNCHANGED Contract!contract
    BY <2>1, Phases DEF Contract!contract, Phase, Asked, SentWithToken, Tried, Heard, Choosing
  <2> QED BY <2>2
<1>3. CASE Retry(one)
  <2>1. R.pc = "retry" /\ R.reply \in Failures /\ R.token \in R.tried /\ R.answer = "none"
    BY <1>0, <1>3 DEF Retry, Sound, TokenKnown, ReplyKnown, GivenUp
  <2>2. Phase(one) = "heard" /\ Asked(one) = R.tried /\ Heard(one) = R.reply
    <3>1. R.reply # "streamLimit"
      BY <2>1 DEF Failures
    <3> QED BY <2>1, <3>1, Phases, Reading DEF Phase, GivenUp
  <2>3. CASE MayRetry(one)
    <3>1. Q.pc = "lookup" /\ Q.tried = R.tried /\ Q.reply = R.reply /\ Q.answer = R.answer
      BY <1>0, <1>3, <2>3 DEF Retry, RequestType
    <3>2. /\ Phase(one)' = "choosing" /\ Asked(one)' = R.tried
          /\ Heard(one)' = Heard(one)
      BY <3>1, Phases DEF Phase, Asked, SentWithToken, Heard, Choosing
    <3>3. Contract!TryAnother
      BY <2>1, <2>2, <3>1, <3>2 DEF Contract!TryAnother
    <3> QED BY <3>3 DEF Contract!Next, Contract!Proceed
  <2>4. CASE ~MayRetry(one)
    <3>1. Answer(one, R.reply)
      BY <1>3, <2>4 DEF Retry
    <3>2. Asked(one)' = R.tried
      BY <2>1, <3>1, AnswerSeen DEF Failures
    <3>3. Contract!Answer(R.reply)
      BY <2>2, <3>1, <3>2, AnswerSeen DEF Contract!Answer
    <3>4. Contract!AnswerHeard
      BY <2>1, <2>2, <3>3 DEF Contract!AnswerHeard, Failures
    <3> QED BY <3>4 DEF Contract!Next, Contract!Proceed
  <2> QED BY <2>3, <2>4
<1> QED BY <1>1, <1>2, <1>3

\* A limit within a stream changes nothing the client sees.
LEMMA ContractStream ==
    ASSUME one \in Requests, IInv,
           BindProxySession(one) \/ StreamLimit(one) \/ StreamEnds(one)
    PROVE  [Contract!Next]_(Contract!contract)
<1> DEFINE R == req[one]
           Q == req'[one]
<1>0. R \in RequestType /\ Sound(R) /\ StoreOK /\ SessionsOK /\ req \in [Requests -> RequestType]
  BY Record
<1> USE DEF At, Token
<1>1. ASSUME NEW a \in {"ok", "stream"}, R.pc \in {"bind", "streaming"}, Heard(one) = a, Answer(one, a)
      PROVE  Contract!Next
  <2>1. Phase(one) = "heard" /\ Asked(one) = R.tried \union {R.token}
    BY <1>1, Phases DEF Phase, Asked, SentWithToken, Tried, Choosing
  <2>2. Contract!Answer(a)
    BY <1>1, <2>1, AnswerSeen DEF Contract!Answer
  <2>3. Contract!AnswerHeard
    BY <1>1, <2>1, <2>2 DEF Contract!AnswerHeard
  <2> QED BY <2>3 DEF Contract!Next, Contract!Proceed
<1>2. ASSUME R.pc \in {"bind", "streaming"}, Q.pc \in {"streaming", "clear"}, Q.tried = R.tried,
             Q.token = R.token, Heard(one)' = Heard(one), Q.answer = R.answer
      PROVE  UNCHANGED Contract!contract
  BY <1>2, Phases DEF Contract!contract, Phase, Asked, SentWithToken, Tried, Choosing
<1>3. CASE BindProxySession(one)
  <2>1. R.pc = "bind" /\ R.reply \in {"ok", "stream"}
    BY <1>0, <1>3 DEF BindProxySession, Sound, ReplyKnown
  <2>2. CASE R.reply = "stream"
    <3>1. /\ Q.pc = "streaming" /\ Q.tried = R.tried /\ Q.token = R.token
          /\ Q.reply = R.reply /\ Q.answer = R.answer
      BY <1>0, <1>3, <2>2 DEF BindProxySession, Goto, RequestType
    <3>2. Heard(one)' = Heard(one)
      BY <3>1 DEF Heard
    <3> QED BY <1>2, <2>1, <3>1, <3>2
  <2>3. CASE R.reply = "ok"
    <3>1. Heard(one) = "ok" /\ Answer(one, "ok")
      BY <1>3, <2>3 DEF Heard, BindProxySession
    <3> QED BY <1>1, <2>1, <3>1
  <2> QED BY <2>1, <2>2, <2>3
<1>4. CASE StreamLimit(one)
  <2>1. /\ R.pc = "streaming" /\ R.reply = "stream" /\ Q.pc = "clear" /\ Q.reply = "streamLimit"
        /\ Q.tried = R.tried /\ Q.token = R.token /\ Q.answer = R.answer
    BY <1>0, <1>4 DEF StreamLimit, RequestType
  <2>2. Heard(one)' = Heard(one)
    BY <2>1 DEF Heard
  <2> QED BY <1>2, <2>1, <2>2
<1>5. CASE StreamEnds(one)
  <2>1. R.pc = "streaming" /\ Answer(one, "stream")
    BY <1>5 DEF StreamEnds
  <2>2. Heard(one) = "stream"
    BY <2>1, Reading
  <2> QED BY <1>1, <2>1, <2>2
<1> QED BY <1>3, <1>4, <1>5

LEMMA ContractStep ==
    ASSUME one \in Requests
    PROVE  IInv /\ [Next]_vars => [Contract!Next]_(Contract!contract)
<1> SUFFICES ASSUME IInv, [Next]_vars PROVE [Contract!Next]_(Contract!contract)
  OBVIOUS
<1>1. CASE \E r \in Requests : Start(r) \/ Handle(r)
  <2>1. CASE Start(one) \/ Handle(one)
    BY <2>1, ContractSelection, ContractForward, ContractSetAside, ContractStream DEF Handle
  <2>2. CASE \E r \in Requests \ {one} : Start(r) \/ Handle(r)
    <3>1. req \in [Requests -> RequestType]
      BY DEF IInv, TypeOK
    <3> QED BY <2>2, <3>1, OthersStay, SeenUnchanged
  <2> QED BY <1>1, <2>1, <2>2
<1>2. CASE \E t \in Tokens : EvictSessions(t) \/ CooldownOver(t) \/ Renew(t) \/ SyncUsage(t) \/ EvictToken(t)
  BY <1>2, ElsewhereStep, SeenUnchanged
<1>3. CASE UNCHANGED vars
  BY <1>3, SeenUnchanged DEF vars
<1> QED BY <1>1, <1>2, <1>3 DEF Next, Elsewhere

\* Every request keeps the safety of its contract, whatever the others and the
\* rest of the process do: at most two tokens are asked, each once or, mended by
\* a refresh, twice; a second one only after a failure; and one answer is given,
\* the last reply if there was any.
THEOREM FailoverKeepsContract ==
    ASSUME one \in Requests
    PROVE  Spec => Contract!Init /\ [][Contract!Next]_(Contract!contract)
<1>1. Init => Contract!Init
  <2> SUFFICES ASSUME Init PROVE Contract!Init
    OBVIOUS
  <2>1. req[one] = NewRequest
    BY DEF Init
  <2> QED BY <2>1, Phases DEF Contract!Init, Phase, Asked, SentWithToken, At, Heard, NewRequest
<1>2. IInv /\ [Next]_vars => [Contract!Next]_(Contract!contract)
  BY ContractStep
<1> QED BY <1>1, <1>2, Invariance, PTL DEF Spec

----------------------------------------------------------------------------
(* What the history variables record.                                           *)

\* An anchor is still bound and usable, and an attempt that may go to it does.
AnchorKnown(r) ==
    /\ anchor[r] # NoToken => anchor[r] \in Usable /\ anchor[r] = Binding(r)
    /\ anchor[r] \notin req[r].tried \union {NoToken} =>
        /\ req[r].pc \notin {"unbind", "rank"}
        /\ req[r].pc \in {"peek", "stale", "send"} => req[r].token = anchor[r]
        /\ req[r].pc \in {"stale", "send", "refresh", "resend", "usage", "bind"} => req[r].sticky

\* A failure is handed out when no token is left that was usable all along.
Reached(r) ==
    /\ At(r, "done")
    /\ req[r].answer \in Failures \union {"unavailable"}
    /\ Cardinality(req[r].tried) < MaxAttempts
    => steady[r] \subseteq req[r].tried

HInv ==
    /\ IInv
    /\ \A r \in Requests : steady[r] \subseteq Usable /\ AnchorKnown(r) /\ Reached(r)

LEMMA HInitInv == HInit => HInv
  BY InitInv DEF HInit, Init, HInv, AnchorKnown, Reached, At, NewRequest

\* A step is one of the request's own or leaves its record alone.
LEMMA OwnOrOther ==
    ASSUME IInv, Next, NEW p \in Requests
    PROVE  Start(p) \/ Handle(p) \/ req'[p] = req[p]
<1>1. req \in [Requests -> RequestType]
  BY DEF IInv, TypeOK
<1>2. CASE \E r \in Requests : Start(r) \/ Handle(r)
  BY <1>1, <1>2, OthersStay
<1>3. CASE \E t \in Tokens : EvictSessions(t) \/ CooldownOver(t) \/ Renew(t) \/ SyncUsage(t) \/ EvictToken(t)
  BY <1>3, ElsewhereStep
<1> QED BY <1>2, <1>3 DEF Next, Elsewhere

\* How Remember moves an anchor.
LEMMA AnchorMoves ==
    ASSUME Remember, NEW r \in Requests, NoToken \notin Usable'
    PROVE  /\ anchor'[r] # NoToken => anchor'[r] \in Usable' /\ anchor'[r] = Binding(r)'
           /\ ~Seeks(r) => anchor'[r] \in {anchor[r], NoToken}
           /\ At(r, "done")' => anchor'[r] = NoToken
           /\ steady'[r] \subseteq Usable'
           /\ ~Started(r) => steady'[r] \subseteq steady[r]
           /\ At(r, "done") /\ ~Started(r) => steady'[r] = {}
  BY DEF Remember

LEMMA NoTokenUnusable == IInv => NoToken \notin Usable
  BY TokensAssumption DEF IInv, TypeOK, Usable

----------------------------------------------------------------------------
(* A step keeps the anchor.                                                     *)

LEMMA AnchorStep ==
    ASSUME HInv, IInv', Next, Remember, NEW r \in Requests
    PROVE  AnchorKnown(r)'
<1> DEFINE R == req[r]
           Q == req'[r]
           Free == {"idle", "lookup", "setAside", "remove", "clear", "retry", "streaming", "done"}
<1>0. R \in RequestType /\ AnchorKnown(r) /\ req \in [Requests -> RequestType]
  BY Record DEF HInv
<1>1. NoToken \notin Usable /\ NoToken \notin Usable'
  BY NoTokenUnusable, TokensAssumption DEF HInv, IInv, TypeOK, Usable
<1>2. anchor'[r] # NoToken => anchor'[r] \in Usable' /\ anchor'[r] = Binding(r)'
  BY <1>1, AnchorMoves
<1>3. SUFFICES ASSUME anchor'[r] \notin Q.tried \union {NoToken}, Q.pc \notin Free
               PROVE  /\ Q.pc \notin {"unbind", "rank"}
                      /\ Q.pc \in {"peek", "stale", "send"} => Q.token = anchor'[r]
                      /\ Q.pc \in {"stale", "send", "refresh", "resend", "usage", "bind"} => Q.sticky
  BY <1>2 DEF AnchorKnown
<1>4. anchor'[r] = anchor[r] /\ anchor[r] # NoToken /\ anchor[r] \in Usable /\ anchor[r] = Binding(r)
  BY <1>0, <1>1, <1>3, AnchorMoves DEF AnchorKnown, Seeks, At
<1>5. ASSUME Q.tried = R.tried
      PROVE  /\ R.pc \notin {"unbind", "rank"}
             /\ R.pc \in {"peek", "stale", "send"} => R.token = anchor[r]
             /\ R.pc \in {"stale", "send", "refresh", "resend", "usage", "bind"} => R.sticky
  BY <1>0, <1>3, <1>4, <1>5 DEF AnchorKnown
<1>6. CASE Q = R
  BY <1>3, <1>4, <1>5, <1>6
<1>7. CASE Start(r)
  BY <1>0, <1>3, <1>7 DEF Start, Goto, RequestType
<1>8. CASE Lookup(r)
  <2>1. Q.tried = R.tried /\ Q.token = Binding(r) /\ Q.pc = IF FollowsBinding(r) THEN "peek" ELSE "rank"
    BY <1>0, <1>8 DEF Lookup, RequestType
  <2>2. FollowsBinding(r)
    BY <1>3, <1>4, <2>1 DEF FollowsBinding
  <2> QED BY <1>4, <2>1, <2>2
<1>9. CASE Peek(r)
  <2>1. R.pc = "peek" /\ Q.tried = R.tried /\ Q.token = R.token
    BY <1>0, <1>9 DEF Peek, Goto, At, RequestType
  <2>2. Token(r) \in Usable
    BY <1>4, <1>5, <2>1 DEF Token
  <2>3. Q.pc = "stale" /\ Q.sticky
    BY <1>0, <1>9, <2>2 DEF Peek, RequestType
  <2> QED BY <1>4, <1>5, <2>1, <2>3
<1>10. CASE Unbind(r)
  <2>1. R.pc = "unbind" /\ Q.tried = R.tried
    BY <1>0, <1>10 DEF Unbind, Goto, At, RequestType
  <2> QED BY <1>5, <2>1
<1>11. CASE Rank(r)
  <2>1. R.pc = "rank"
    BY <1>11 DEF Rank, At
  <2>2. CASE \E c \in CandidatesFor(r) :
               req' = [req EXCEPT ![r].token = c.id, ![r].sticky = FALSE, ![r].pc = "stale"]
    <3>1. Q.tried = R.tried
      BY <1>0, <2>2 DEF RequestType
    <3> QED BY <1>5, <2>1, <3>1
  <2>3. CASE Answer(r, WithoutToken(r))
    BY <1>0, <1>3, <2>3 DEF Answer, RequestType
  <2> QED BY <1>11, <2>2, <2>3 DEF Rank
<1>12. CASE RefreshIfStale(r)
  <2>1. R.pc = "stale" /\ Q.pc = "send" /\ Q.token = R.token /\ Q.tried = R.tried /\ Q.sticky = R.sticky
    BY <1>0, <1>12 DEF RefreshIfStale, Goto, At, RequestType
  <2> QED BY <1>4, <1>5, <2>1
<1>13. CASE Forward(r)
  <2>1. \A said, first : AfterReply(said, first) \in Free \union {"refresh", "usage"}
    BY DEF AfterReply
  <2>2. CASE Answer(r, "upstreamError")
    BY <1>0, <1>3, <2>2 DEF Answer, RequestType
  <2>3. ASSUME NEW said, req' = [req EXCEPT ![r].reply = said,
                                             ![r].pc = AfterReply(said, At(r, "send"))]
        PROVE  Q.pc \in {"refresh", "usage"} /\ Q.sticky
    <3>1. Q.pc = AfterReply(said, At(r, "send")) /\ Q.tried = R.tried /\ Q.sticky = R.sticky
      BY <1>0, <2>3 DEF RequestType
    <3>2. R.pc \in {"send", "resend"}
      BY <1>13 DEF Forward, At
    <3> QED BY <1>3, <1>5, <2>1, <3>1, <3>2
  <2>4. \/ Answer(r, "upstreamError")
        \/ \E said \in Replies : req' = [req EXCEPT ![r].reply = said,
                                             ![r].pc = AfterReply(said, At(r, "send"))]
    BY <1>13 DEF Forward
  <2> QED BY <2>2, <2>3, <2>4
<1>14. CASE RefreshAfterUnauthorized(r)
  <2>1. R.pc = "refresh" /\ Q.pc \in {"resend", "setAside"} /\ Q.tried = R.tried /\ Q.sticky = R.sticky
    BY <1>0, <1>14 DEF RefreshAfterUnauthorized, Goto, At, RequestType
  <2> QED BY <1>3, <1>5, <2>1
<1>15. CASE ApplyUsage(r)
  <2>1. R.pc = "usage"
    BY <1>15 DEF ApplyUsage, At
  <2>2. \/ Q.pc \in {"setAside", "done"}
        \/ Q.pc = "bind" /\ Q.tried = R.tried /\ Q.sticky = R.sticky
    BY <1>0, <1>15 DEF ApplyUsage, Goto, Answer, RequestType
  <2> QED BY <1>3, <1>5, <2>1, <2>2
<1>16. CASE SetAside(r) \/ Remove(r) \/ ClearSessions(r) \/ BindProxySession(r) \/ StreamLimit(r) \/ StreamEnds(r)
  <2>1. Q.pc \in Free
    BY <1>0, <1>16 DEF SetAside, Remove, ClearSessions, BindProxySession, StreamLimit, StreamEnds,
       Goto, Answer, RequestType
  <2> QED BY <1>3, <2>1
<1>17. CASE Retry(r)
  <2>1. Q.pc \in {"lookup", "done"}
    BY <1>0, <1>17 DEF Retry, Answer, RequestType
  <2> QED BY <1>3, <2>1
<1> QED
  BY <1>6, <1>7, <1>8, <1>9, <1>10, <1>11, <1>12, <1>13, <1>14, <1>15, <1>16, <1>17, OwnOrOther
  DEF HInv, Handle

----------------------------------------------------------------------------
(* An answered failure has reached every token it could.                        *)

LEMMA TwoElements ==
    ASSUME NEW t, NEW u, t # u
    PROVE  Cardinality({t, u}) = 2
<1>1. IsFiniteSet({t}) /\ Cardinality({t}) = 1 /\ u \notin {t} /\ {t, u} = {t} \union {u}
  BY FS_Singleton
<1> QED BY <1>1, FS_AddElement

\* Which steps answer, and with what.
LEMMA AnsweringSteps ==
    ASSUME IInv, NEW r \in Requests, Handle(r), req'[r].pc = "done",
           req'[r].answer \in Failures \union {"unavailable"}
    PROVE  /\ req'[r].tried = req[r].tried
           /\ \/ Rank(r) /\ CandidatesFor(r) = {}
              \/ Retry(r) /\ ~MayRetry(r)
<1> DEFINE R == req[r]
           Q == req'[r]
<1>0. R \in RequestType /\ Sound(R) /\ req \in [Requests -> RequestType]
  BY Record
<1>1. \A label : Goto(r, label) => Q.pc = label
  BY <1>0 DEF Goto, RequestType
<1>2. \A a : Answer(r, a) => Q.answer = a /\ Q.tried = R.tried
  BY <1>0 DEF Answer, RequestType
<1>3. CASE Lookup(r) \/ Peek(r) \/ Unbind(r) \/ RefreshIfStale(r)
  BY <1>0, <1>1, <1>3 DEF Lookup, Peek, Unbind, RefreshIfStale, RequestType
<1>4. CASE Rank(r)
  <2>1. CASE \E c \in CandidatesFor(r) :
               req' = [req EXCEPT ![r].token = c.id, ![r].sticky = FALSE, ![r].pc = "stale"]
    BY <1>0, <2>1 DEF RequestType
  <2> QED BY <1>2, <1>4, <2>1 DEF Rank
<1>5. CASE Forward(r)
  <2>1. \A said, first : AfterReply(said, first) # "done"
    BY DEF AfterReply
  <2>2. ASSUME NEW said, req' = [req EXCEPT ![r].reply = said,
                                             ![r].pc = AfterReply(said, At(r, "send"))]
        PROVE  FALSE
    <3>1. Q.pc = AfterReply(said, At(r, "send"))
      BY <1>0, <2>2 DEF RequestType
    <3> QED BY <2>1, <3>1
  <2>3. Answer(r, "upstreamError")
    BY <1>5, <2>2 DEF Forward
  <2> QED BY <1>2, <2>3 DEF Failures
<1>6. CASE RefreshAfterUnauthorized(r) \/ ClearSessions(r)
  BY <1>1, <1>6 DEF RefreshAfterUnauthorized, ClearSessions
<1>7. CASE ApplyUsage(r) \/ BindProxySession(r) \/ StreamEnds(r)
  BY <1>1, <1>2, <1>7 DEF ApplyUsage, BindProxySession, StreamEnds, Failures
<1>8. CASE SetAside(r) \/ Remove(r) \/ StreamLimit(r)
  BY <1>0, <1>8 DEF SetAside, Remove, StreamLimit, RequestType
<1>9. CASE Retry(r)
  <2>1. CASE MayRetry(r)
    BY <1>0, <1>9, <2>1 DEF Retry, RequestType
  <2>2. CASE ~MayRetry(r)
    BY <1>2, <1>9, <2>2 DEF Retry
  <2> QED BY <2>1, <2>2
<1> QED BY <1>3, <1>4, <1>5, <1>6, <1>7, <1>8, <1>9 DEF Handle

LEMMA ReachedStep ==
    ASSUME HInv, IInv', Next, Remember, NEW r \in Requests
    PROVE  Reached(r)'
<1> DEFINE R == req[r]
           Q == req'[r]
<1> SUFFICES ASSUME Q.pc = "done", Q.answer \in Failures \union {"unavailable"},
                    Cardinality(Q.tried) < MaxAttempts
             PROVE  steady'[r] \subseteq Q.tried
  BY DEF Reached, At
<1>0. R \in RequestType /\ Sound(R) /\ steady[r] \subseteq Usable
  BY Record DEF HInv
<1>1. NoToken \notin Usable'
  BY NoTokenUnusable, TokensAssumption DEF IInv, TypeOK, Usable
<1>2. ~Started(r)
  BY DEF Started, At
<1>3. steady'[r] \subseteq Usable
  BY <1>0, <1>1, <1>2, AnchorMoves
<1>4. CASE Q = R
  BY <1>1, <1>2, <1>4, AnchorMoves DEF At
<1>5. CASE Start(r)
  <2>1. Q.pc = "lookup"
    BY <1>5, Record DEF HInv, Start, Goto, RequestType
  <2> QED BY <2>1
<1>6. CASE Handle(r)
  <2>1. Q.tried = R.tried
    BY <1>6, AnsweringSteps DEF HInv
  <2>2. CASE CandidatesFor(r) = {}
    <3>1. Usable \subseteq R.tried
      BY <2>2 DEF CandidatesFor
    <3> QED BY <1>3, <2>1, <3>1
  <2>3. CASE Retry(r) /\ ~MayRetry(r)
    <3>1. CASE R.attempt = 1
      <4>1. Usable \ R.tried = {}
        BY <2>3, <3>1 DEF MayRetry, MaxAttempts, HasAvailableToken
      <4> QED BY <1>3, <2>1, <4>1
    <3>2. CASE R.attempt = 2
      <4>1. PICK t, u \in Tokens : t # u /\ R.tried = {t, u}
        BY <1>0, <2>3, <3>2 DEF Retry, At, Sound, AttemptsCounted, GivenUp
      <4>2. Cardinality(R.tried) = 2
        BY <4>1, TwoElements
      <4> QED BY <2>1, <4>2 DEF MaxAttempts
    <3>3. R.attempt \in {1, 2}
      BY <1>0 DEF RequestType, MaxAttempts
    <3> QED BY <3>1, <3>2, <3>3
  <2> QED BY <1>6, <2>2, <2>3, AnsweringSteps DEF HInv
<1> QED BY <1>4, <1>5, <1>6, OwnOrOther DEF HInv

LEMMA HInvStep == HInv /\ [HNext]_<<vars, history>> => HInv'
<1> SUFFICES ASSUME HInv, [HNext]_<<vars, history>> PROVE HInv'
  OBVIOUS
<1>1. IInv'
  BY InvStep DEF HInv, HNext
<1>2. CASE HNext
  <2>1. \A r \in Requests : steady'[r] \subseteq Usable'
    BY <1>2 DEF HNext, Remember
  <2>2. \A r \in Requests : AnchorKnown(r)' /\ Reached(r)'
    BY <1>1, <1>2, AnchorStep, ReachedStep DEF HNext
  <2> QED BY <1>1, <2>1, <2>2 DEF HInv
<1>3. CASE UNCHANGED <<vars, history>>
  BY <1>1, <1>3 DEF HInv, vars, tokenVars, history, AnchorKnown, Reached, Usable, View, Binding, At
<1> QED BY <1>2, <1>3

LEMMA HInvariance == HSpec => []HInv
  BY HInitInv, HInvStep, PTL DEF HSpec

\* A failure is handed to the client only when every token that was usable all
\* along was tried, or both attempts were used up.
THEOREM HealthyTokenReached == HSpec => []FailoverReachesHealthyToken
<1>1. HInv => FailoverReachesHealthyToken
  BY DEF HInv, Reached, FailoverReachesHealthyToken
<1> QED BY <1>1, HInvariance, PTL

\* An attempt goes to its session's token, if that stays bound and usable.
THEOREM StickinessHonoured == HSpec => []StickyHonoured
<1>1. HInv => StickyHonoured
  BY DEF HInv, AnchorKnown, StickyHonoured, Token
<1> QED BY <1>1, HInvariance, PTL

----------------------------------------------------------------------------
(* Sessions lose their token for a cause only, also when it is overwritten.     *)

LEMMA LossForCause ==
    ASSUME HInv, [Next]_vars, NEW s \in Sessions, Loses(s)
    PROVE  \/ Cleared(sessions[s])
           \/ \E r \in Requests :
                    /\ SessionOf[r] = s /\ Rebinds(r)
                    /\ anchor[r] # sessions[s] \/ sessions[s] \in req[r].tried
<1>0. /\ sessions \in [Sessions -> Tokens \union {NoToken}] /\ sessions' # sessions
      /\ req \in [Requests -> RequestType]
  BY DEF HInv, IInv, TypeOK, Loses
<1>1. ASSUME NEW r \in Requests, req[r].pc \in {"unbind", "bind"}, ~req[r].sticky \/ req[r].pc = "unbind"
      PROVE  anchor[r] # sessions[s] \/ sessions[s] \in req[r].tried
  BY <1>1 DEF HInv, AnchorKnown, Loses
<1>2. ASSUME NEW r \in Requests, Unbind(r)
      PROVE  /\ SessionOf[r] = s /\ Rebinds(r)
             /\ anchor[r] # sessions[s] \/ sessions[s] \in req[r].tried
  <2>1. req[r].pc = "unbind" /\ req'[r].pc = "rank"
    BY <1>0, <1>2 DEF Unbind, Goto, At, RequestType
  <2>2. SessionOf[r] = s
    BY <1>0, <1>2 DEF Unbind, Loses
  <2> QED BY <1>1, <2>1, <2>2 DEF Rebinds
<1>3. ASSUME NEW r \in Requests, BindProxySession(r)
      PROVE  /\ SessionOf[r] = s /\ Rebinds(r)
             /\ anchor[r] # sessions[s] \/ sessions[s] \in req[r].tried
  <2>1. req[r].pc = "bind" /\ req'[r].pc \in {"streaming", "done"}
    BY <1>0, <1>3 DEF BindProxySession, Goto, Answer, At, RequestType
  <2>2. ~req[r].sticky /\ sessions' = [sessions EXCEPT ![SessionOf[r]] = Token(r)]
    BY <1>0, <1>3 DEF BindProxySession
  <2>3. SessionOf[r] = s
    BY <1>0, <2>2 DEF Loses
  <2> QED BY <1>1, <2>1, <2>2, <2>3 DEF Rebinds
<1>4. ASSUME NEW r \in Requests, ClearSessions(r)
      PROVE  At(r, "clear") /\ ~At(r, "clear")' /\ Token(r) = sessions[s]
  <2>1. req[r].pc = "clear" /\ req'[r].pc \in {"streaming", "retry"}
    BY <1>0, <1>4 DEF ClearSessions, Goto, At, RequestType
  <2>2. Token(r) = sessions[s]
    BY <1>0, <1>4 DEF ClearSessions, ClearSessionsForToken, Loses
  <2> QED BY <2>1, <2>2 DEF At
<1>5. ASSUME NEW t \in Tokens, EvictSessions(t)
      PROVE  sessions[s] \in leaving \ leaving'
  BY <1>0, <1>5 DEF EvictSessions, ClearSessionsForToken, Loses
<1>6. ASSUME NEW r \in Requests, Start(r) \/ Handle(r)
      PROVE  Unbind(r) \/ ClearSessions(r) \/ BindProxySession(r)
  BY <1>0, <1>6 DEF Start, Handle, Lookup, Peek, Rank, RefreshIfStale, Forward,
     RefreshAfterUnauthorized, ApplyUsage, SetAside, Remove, Retry, StreamLimit, StreamEnds
<1>7. ASSUME NEW t \in Tokens, CooldownOver(t) \/ Renew(t) \/ SyncUsage(t) \/ EvictToken(t)
      PROVE  FALSE
  BY <1>0, <1>7 DEF CooldownOver, Renew, SyncUsage, EvictToken
<1>8. CASE \E r \in Requests : Start(r) \/ Handle(r)
  BY <1>2, <1>3, <1>4, <1>6, <1>8 DEF Cleared
<1>9. CASE \E t \in Tokens : EvictSessions(t)
  BY <1>5, <1>9 DEF Cleared
<1> QED BY <1>0, <1>7, <1>8, <1>9 DEF Next, Elsewhere, vars

\* A session is taken off its token, by clearing or by overwriting, only because
\* the token failed or was removed, or by a request whose attempt had not found
\* the session bound to it, or has had it failing or unusable since.
THEOREM AffinityKept == HSpec => AffinityLostForCause
<1> DEFINE ForCause(s) ==
               \/ Cleared(sessions[s])
               \/ \E r \in Requests :
                    /\ SessionOf[r] = s /\ Rebinds(r)
                    /\ anchor[r] # sessions[s] \/ sessions[s] \in req[r].tried
<1>1. HInv /\ [HNext]_<<vars, history>> =>
        [\A s \in Sessions : Loses(s) => ForCause(s)]_<<vars, history>>
  <2> SUFFICES ASSUME HInv, HNext, NEW s \in Sessions, Loses(s) PROVE ForCause(s)
    OBVIOUS
  <2>1. [Next]_vars
    BY DEF HNext
  <2> QED BY <2>1, LossForCause
<1> QED BY <1>1, HInvariance, PTL DEF HSpec, AffinityLostForCause
=============================================================================
