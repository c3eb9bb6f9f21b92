-------------------------- MODULE MCUsageAccounting --------------------------
(* Two logins of one team account, first known by the account's id; the user id *)
(* of the first is learned.  Three of four records are made: 1 and 2 share an   *)
(* hourly bucket, 3 has the same key and hour but the other token, 4 is made    *)
(* under the new key on the next day.  A queue and an overflow map of one.  The *)
(* page is asked for within the days and at times that cut the hour of 1 to 3.  *)
EXTENDS UsageReport

Rec(id, token, account, time) ==
    [id |-> id, account |-> account, token |-> token, shape |-> "ok", time |-> time]

MCRecords ==
    {Rec(1, "a", "team", 10), Rec(2, "a", "team", 50),
     Rec(3, "b", "team", 30), Rec(4, "a", "user", 130)}

MCInitialKey == [t \in Tokens |-> "team"]
MCLaterKeys == [t \in Tokens |-> IF t = "a" THEN {"user"} ELSE {}]
=============================================================================
