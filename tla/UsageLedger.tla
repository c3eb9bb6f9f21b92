---------------------------- MODULE UsageLedger ----------------------------
(* What usage recording promises its callers: a record handed to the sink is    *)
(* either refused on the spot or accepted, and an accepted record ends up       *)
(* counted in the database or reported lost by a failed insert -- once, and     *)
(* even when the sink is told to stop meanwhile.  UsageSink.tla implements it.  *)
CONSTANT Records        \* the calls of UsageSink.Record

VARIABLES
    fate,               \* fate[r]: what became of record r
    closed              \* the sink no longer accepts

vars == <<fate, closed>>

Fates == {"new", "refused", "pending", "counted", "lost"}

Init == fate = [r \in Records |-> "new"] /\ closed = FALSE

Accept(r) ==
    /\ ~closed
    /\ fate[r] = "new"
    /\ fate' = [fate EXCEPT ![r] = "pending"]
    /\ UNCHANGED closed

Refuse(r) ==
    /\ fate[r] = "new"
    /\ fate' = [fate EXCEPT ![r] = "refused"]
    /\ UNCHANGED closed

\* A flush settles a set of pending records together, all with one outcome.
Settle(R, outcome) ==
    /\ R # {}
    /\ \A r \in R : fate[r] = "pending"
    /\ fate' = [r \in Records |-> IF r \in R THEN outcome ELSE fate[r]]
    /\ UNCHANGED closed

Close ==
    /\ closed' = TRUE
    /\ UNCHANGED fate

SettleSome(r) ==
    \E R \in SUBSET Records, outcome \in {"counted", "lost"} :
        r \in R /\ Settle(R, outcome)

Next ==
    \/ \E r \in Records : Accept(r) \/ Refuse(r) \/ SettleSome(r)
    \/ Close

\* A pending record is settled in the end, whatever else happens.
Spec == Init /\ [][Next]_vars /\ \A r \in Records : WF_vars(SettleSome(r))
=============================================================================
