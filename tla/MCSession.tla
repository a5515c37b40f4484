------------------------------ MODULE MCSession ------------------------------
(* Two people, two buddy lists, one of them with a quote in its name. *)
EXTENDS Session, TLC

CONSTANTS a, b

Twice(s) == [s EXCEPT !.twice = TRUE]

Alone == [groups |-> {1}, buddies |-> a :> {1}, strangers |-> {}, twice |-> FALSE]
Moved == [groups |-> {1, 2}, buddies |-> a :> {1, 2}, strangers |-> {b}, twice |-> FALSE]
Other == [groups |-> {2}, buddies |-> b :> {2}, strangers |-> {a}, twice |-> FALSE]

SnapshotsUsed == {Alone, Moved, Other, Twice(Moved)}
ListsUsed == {1, 2}
================================================================================
