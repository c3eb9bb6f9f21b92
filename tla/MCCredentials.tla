--------------------------- MODULE MCCredentials ---------------------------
(* One request and one usage-sync worker; as many mutexes, for whoever makes    *)
(* one holds none yet; and at most MaxEvents ticks, logins, deletions and       *)
(* crashes in all.  The last refresh is unknown, or so old that one is due.     *)
EXTENDS Credentials, TLC

CONSTANTS MaxEvents, r1, w1, l1, l2

VARIABLE events

MCInit == Init /\ now = 3 /\ file.last \in {0, 1} /\ events = 0

MCNext ==
    \/ \E p \in Processes : (Begin(p) \/ Run(p)) /\ UNCHANGED events
    \/ Scan /\ UNCHANGED events
    \/ events < MaxEvents /\ (Tick \/ Login \/ Delete \/ Crash) /\ events' = events + 1

MCSpec == MCInit /\ [][MCNext]_<<vars, events>>
MCFairSpec == MCSpec /\ Fairness

LockSymmetry == Permutations(Locks)

\* Which access token a call sends and which ones upstream refuses decides over
\* nothing but the reply, and every reply is possible in some other way; what
\* Check remembers is compared once, under the mutex.
ViewOfCall(p) ==
    LET c == [call[p] EXCEPT !.ref = 0, !.deactivated = FALSE]
    IN IF pc[p] \in {"getlock", "lock"} THEN c ELSE [c EXCEPT !.access = 0, !.last = 0]

SafetyView ==
    <<now, storeVars, diskVars, pc, [p \in Processes |-> ViewOfCall(p)], watcher,
      issued, spent, lost, events>>
=============================================================================
