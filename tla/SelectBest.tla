----------------------------- MODULE SelectBest -----------------------------
(* TokenStore.SelectToken without a bound session: availableCandidates walks    *)
(* the token map in Go's random order and selectBestCandidate keeps the best    *)
(* candidate seen so far.  TokenSelection says which store it is called on.     *)
EXTENDS TokenRanking, FiniteSets

CONSTANT Ids            \* token ids

ASSUME IdsAssumption == Ids \subseteq Int

VARIABLES
    tokens,             \* s.tokens: id -> [invalid, cooling, five, weekly], for the
                        \* ids in the store; nothing between calls
    tried,              \* ids this request used already
    left,               \* ids the walk has not reached
    best                \* the candidates kept so far: none or one

pickVars == <<tokens, tried, left, best>>

Candidates == {Candidate(i, tokens[i]) : i \in {j \in DOMAIN tokens \ tried : Available(tokens[j])}}

\* The candidates the walk has passed.
Seen == {c \in Candidates : c.id \notin left}

Picking == tokens # <<>>

PickInit == tokens = <<>> /\ tried = {} /\ left = {} /\ best = {}

\* availableCandidates copies what it needs of the store under one lock.
BeginPick(copies) ==
    /\ ~Picking
    /\ tokens' = copies
    /\ tried' \in SUBSET Ids
    /\ left' = DOMAIN copies
    /\ best' = {}

\* availableCandidates: skipped by either of its guards
Skip(i) ==
    /\ i \in tried \/ ~Available(tokens[i])
    /\ UNCHANGED best

\* selectBestCandidate on a candidate
Consider(i) ==
    LET c == Candidate(i, tokens[i]) IN
    /\ i \notin tried
    /\ Available(tokens[i])
    /\ best' = IF \A b \in best : Better(c, b) THEN {c} ELSE best

Visit ==
    \E i \in left :
        /\ Skip(i) \/ Consider(i)
        /\ left' = left \ {i}
        /\ UNCHANGED <<tokens, tried>>

\* SelectToken returns.
EndPick ==
    /\ Picking
    /\ left = {}
    /\ tokens' = <<>> /\ tried' = {} /\ left' = {} /\ best' = {}

----------------------------------------------------------------------------
\* The code's ranking, stated without the loop: among the candidates the highest
\* bottleneck, among those the highest five-hour points, among those the highest
\* weekly points, among those the smallest id.
Highest(C, f(_)) == {c \in C : \A d \in C : f(d) <= f(c)}
Five(c) == c.five
Weekly(c) == c.weekly
MinusId(c) == 0 - c.id
Favourites(C) ==
    Highest(Highest(Highest(Highest(C, Bottleneck), Five), Weekly), MinusId)

\* Whatever order the map is walked in, the pick is the one best candidate of the
\* code's ranking, and there is none exactly when no token is available ("no
\* available tokens").
PickIsTheFavourite ==
    left = {} => best = Favourites(Candidates) /\ (best = {} <=> Candidates = {})

\* The documented ranking: the highest weekly points, then the highest five-hour
\* points; where those are under LowFiveHour, a healthier token if there is one.
LowFiveHour == 30
TopWeekly(C) == Highest(Highest(C, Weekly), Five)
Healthier(C) == {c \in C : \E t \in TopWeekly(C) : t.five < LowFiveHour /\ c.five > t.five}
DocumentedChoices(C) == IF Healthier(C) = {} THEN TopWeekly(C) ELSE Healthier(C)

\* README.md:113-116 "Prefer higher `weekly_limit`. [...] If the top token has
\* <30% 5-hour remaining and another token has higher 5-hour remaining, pick the
\* healthier token. [...] If weekly limits tie, pick higher 5-hour remaining."
\* The code ranks the smaller of the two windows first: see MCTokenSelectionDocumented.
PickIsAsDocumented == left = {} => best \subseteq DocumentedChoices(Candidates)
=============================================================================
