----------------------------- MODULE MCFailover -----------------------------
(* Two tokens, one session and two requests of it, one of them a WebSocket.     *)
(* What the rest of the process does to the store is bounded by MaxElsewhere.   *)
EXTENDS FailoverHistory

CONSTANTS MaxElsewhere, r1, r2, s1

VARIABLE moves

Window(used) == [known |-> TRUE, limit |-> 100, used |-> used]
Unreported == [known |-> FALSE, limit |-> 0, used |-> 0]
MCFreshQuota == [five |-> Unreported, weekly |-> Unreported]
MCQuotaStates == {MCFreshQuota, [five |-> Window(100), weekly |-> Window(20)]}
MCSessionOf == [r \in Requests |-> s1]
MCWebSocket == {r2}

\* Both tokens are loaded and unused; replies and moves lead to the rest.
MCInit == HInit /\ store = Tokens /\ quota = [t \in Tokens |-> MCFreshQuota] /\ moves = 0

MCNext ==
    /\ \/ \E r \in Requests : (Start(r) \/ Handle(r)) /\ UNCHANGED moves
       \/ \E t \in Tokens : EvictSessions(t) /\ UNCHANGED moves
       \/ moves < MaxElsewhere /\ Elsewhere /\ tokenVars' # tokenVars /\ moves' = moves + 1
    /\ Remember

MCSpec == MCInit /\ [][MCNext]_<<vars, history, moves>> /\ Fairness

HttpContract == INSTANCE RequestContract WITH
    phase <- Phase(r1), asked <- Asked(r1), heard <- Heard(r1), answer <- req[r1].answer

WebSocketContract == INSTANCE RequestContract WITH
    phase <- Phase(r2), asked <- Asked(r2), heard <- Heard(r2), answer <- req[r2].answer

\* README.md:120 "retried once with another token": both handlers keep the
\* contract of a request, through whatever other requests and the rest of the
\* process do to tokens and sessions, and answer it in the end.
KeepsContract == HttpContract!Spec /\ WebSocketContract!Spec
=============================================================================
