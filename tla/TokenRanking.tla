---------------------------- MODULE TokenRanking ----------------------------
(* How store.go judges and ranks tokens: remaining points of a rate window,     *)
(* availability, and the order selectBestCandidate picks by.  Points are        *)
(* integers (percent of a window); token ids are numbers in the order of the    *)
(* file names they stand for.                                                   *)
EXTENDS Integers

DefaultLimitPoints == 100

\* A window is [known, limit, used]; an unknown one counts as untouched.
RemainingPoints(w) ==
    IF ~w.known \/ w.limit <= 0 THEN DefaultLimitPoints
    ELSE IF w.limit < w.used THEN 0
    ELSE w.limit - w.used

Exhausted(w) == w.known /\ RemainingPoints(w) <= 0

\* Mutant: the weekly window is not looked at.
AvailableToday(t) == ~t.invalid /\ ~t.cooling /\ ~Exhausted(t.five)

\* TokenState.Available: t is [invalid, cooling, five, weekly], cooling being
\* "CooldownUntil is set and in the future".
Available(t) ==
    /\ ~t.invalid
    /\ ~t.cooling
    /\ ~Exhausted(t.five)
    /\ ~Exhausted(t.weekly)

\* A candidate is [id, five, weekly] with its remaining points.
Candidate(id, t) ==
    [id |-> id, five |-> RemainingPoints(t.five), weekly |-> RemainingPoints(t.weekly)]

Bottleneck(c) == IF c.five <= c.weekly THEN c.five ELSE c.weekly

\* Mutant: equal candidates are left to the order of the map.
BetterUntied(c, b) ==
    \/ Bottleneck(c) > Bottleneck(b)
    \/ /\ Bottleneck(c) = Bottleneck(b)
       /\ \/ c.five > b.five
          \/ c.five = b.five /\ c.weekly > b.weekly

\* betterTokenCandidate(candidate, current)
Better(c, b) ==
    \/ Bottleneck(c) > Bottleneck(b)
    \/ /\ Bottleneck(c) = Bottleneck(b)
       /\ \/ c.five > b.five
          \/ /\ c.five = b.five
             /\ \/ c.weekly > b.weekly
                \/ c.weekly = b.weekly /\ c.id < b.id
=============================================================================
