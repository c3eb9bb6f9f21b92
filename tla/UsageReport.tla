---------------------------- MODULE UsageReport ----------------------------
(* What the dashboard reads from the table (usage_db.go, dashboard.go), over    *)
(* the rows the sink wrote and the syncer re-keyed.  A sum of token counts is   *)
(* the set of the records counted, as in UsageSink.  Some sums start at a       *)
(* calendar day, some at so many hours before the question; rows that were      *)
(* coalesced carry the hour's start for the time of all their records.          *)
EXTENDS UsageAccounting

CONSTANTS
    Day,                \* length of a day on the records' clock
    Spans,              \* 7, 30 and 90 days: the periods shown
    ReportTimes         \* when the dashboard may be asked for

ASSUME DayAssumption == Day \in Nat \ {0} /\ Day % Hour = 0
ASSUME SpansAssumption ==
    /\ Spans \subseteq Nat \ {0}
    /\ \E longest \in Spans : \A other \in Spans : other <= longest
ASSUME ReportTimesAssumption ==
    \A now \in ReportTimes : now \in Nat /\ \A r \in Records : r.time <= now

DayOf(time) == time \div Day
DayStart(time) == DayOf(time) * Day

\* SUM ... WHERE created_at_unix >= cutoff
CountedSince(R, cutoff) == OfAll({w \in R : w.time >= cutoff})

CountedOn(R, day) == OfAll({w \in R : DayOf(w.time) = day})

GlobalPeriodTotals(R, now) ==
    [daily  |-> CountedSince(R, DayStart(now)),
     recent |-> [days \in Spans |-> CountedSince(R, now - days * Day)],
     total  |-> OfAll(R)]

\* Mutant: the first day is one too early, and today is missing.
BucketsFromTooEarly(R, now, days) ==
    [i \in 1..days |-> CountedOn(R, DayOf(now) - days + i - 1)]

\* One bucket per day up to today, the days without usage included.
DailyUsageBuckets(R, now, days) ==
    [i \in 1..days |-> CountedOn(R, DayOf(now) - days + i)]

LongestSpan == CHOOSE days \in Spans : \A other \in Spans : other <= days

\* trendFromDailyBuckets: of one query over the longest span, the last days.
Trend(R, now, days) ==
    LET buckets == DailyUsageBuckets(R, now, LongestSpan)
    IN SubSeq(buckets, Len(buckets) - days + 1, Len(buckets))

\* activeAccountTokens: the keys the store's tokens have now.
ActiveAccounts == {CurrentKey(t) : t \in Tokens}

\* One line per active account, with what its rows sum up to; an account without
\* rows has a line as well.
accountSummaries(R, keys) == [key \in keys |-> OfAll({w \in R : w.account = key})]

----------------------------------------------------------------------------
MadeSince(cutoff) == {r \in Stored : r.time >= cutoff}

\* The day's figure and every bar of the charts are exact: they count the stored
\* usage made on that day, all of it and no other, although rows were coalesced
\* and the bars come from another query than the figure.
DaysExact ==
    \A now \in ReportTimes :
        /\ GlobalPeriodTotals(rows, now).daily = MadeSince(DayStart(now))
        /\ \A days \in Spans : \A i \in 1..days :
              Trend(rows, now, days)[i] =
                  {r \in Stored : DayOf(r.time) = DayOf(now) - days + i}

\* A period that starts at a time of day counts nothing older, and misses of what
\* it should count only coalesced usage of the hour in which it starts.
PeriodsWithinAnHour ==
    \A now \in ReportTimes, days \in Spans :
        LET cutoff == now - days * Day
            shown == GlobalPeriodTotals(rows, now).recent[days]
        IN /\ shown \subseteq MadeSince(cutoff)
           /\ \A r \in MadeSince(cutoff) \ shown : TruncateHour(r.time) < cutoff

\* An account's line on the page shows usage of tokens that were known by that
\* key when the usage was made or since, and no usage shows on two lines: also for
\* two logins of one team account, whose usage has one key until their users are
\* learned and is then split.
AccountsShowOwnUsage ==
    LET shown == accountSummaries(rows, ActiveAccounts) IN
    \A key \in ActiveAccounts :
        /\ \A r \in shown[key] : key \in Known(r.token)
        /\ \A other \in ActiveAccounts \ {key} : shown[key] \intersect shown[other] = {}
=============================================================================
