-------------------------- MODULE MCTokenSelection --------------------------
(* One handler and the sync report the windows of the second of three tokens:   *)
(* lengths at the edges of the ranges and none at all, percentages outside      *)
(* 0..100 and none.  The other two are ahead of it, behind it, equal or out.    *)
EXTENDS TokenSelection, TLC

MCHeaderWindows ==
    {[used |-> -5, length |-> 300], [used |-> NotANumber, length |-> 360],
     [used |-> 120, length |-> 0], [used |-> 60, length |-> 10080]}

MCSnapshotWindows ==
    {[used |-> 100, length |-> 18000, resetAfter |-> 0],
     [used |-> 20, length |-> 604800, resetAfter |-> 0],
     [used |-> 30, length |-> 0, resetAfter |-> 43200]}

Used(percent) == [known |-> TRUE, limit |-> 100, used |-> percent]
Tok(short, long) == [invalid |-> FALSE, cooling |-> FALSE, five |-> short, weekly |-> long]

Short == Tok(Used(60), Used(10))
Even == Tok(Used(40), Used(40))
Fresh == Tok(Used(0), [known |-> FALSE, limit |-> 0, used |-> 0])

MCOthers ==
    {1 :> Short @@ 3 :> Even, 1 :> Even @@ 3 :> Even,
     1 :> Fresh @@ 3 :> Tok(Used(0), Used(60)), 1 :> Tok(Used(105), Used(0)),
     1 :> [Fresh EXCEPT !.cooling = TRUE] @@ 3 :> [Fresh EXCEPT !.invalid = TRUE]}
=============================================================================
