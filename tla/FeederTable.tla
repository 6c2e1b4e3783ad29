------------------------------ MODULE FeederTable ------------------------------
(***************************************************************************)
(* What every user of table feeders may assume of it: rows get ids in the  *)
(* order of AUTOINCREMENT, any of them may be deleted, and an id that was  *)
(* used once never names another row.  Handlers of beast-proxy keep an id  *)
(* for as long as their session lasts, and the dashboard's pages for as    *)
(* long as they are open; both rely on it.                                 *)
(***************************************************************************)
EXTENDS Integers

CONSTANT MaxFeeder  \* bound: rows ever inserted

VARIABLES rows, nextId

FeederId == 1..MaxFeeder

Init == rows = {} /\ nextId = 1

Insert ==
    /\ nextId \in FeederId
    /\ rows' = rows \cup {nextId}
    /\ nextId' = nextId + 1

Delete ==
    /\ \E S \in SUBSET rows : rows' = rows \ S
    /\ UNCHANGED nextId

Next == Insert \/ Delete

Spec == Init /\ [][Next]_<<rows, nextId>>
=============================================================================
