----------------------------- MODULE FeederRequests -----------------------------
(***************************************************************************)
(* What the tunnel promises of each request it takes.  It reaches no other *)
(* feeder than the one it names, and that one at most once; it has at most *)
(* one answer and one result; it is not sent once it has a result, and one *)
(* that is refused as offline has not been sent at all, so that to ask     *)
(* again under another id repeats nothing.  A reply is the answer the      *)
(* feeder gave.  A request with any other result may have been carried out *)
(* all the same.                                                           *)
(***************************************************************************)

CONSTANTS
    Post,    \* requests
    Feeder,  \* ids of feeders
    None

VARIABLES
    asked,  \* the feeder each request names, or None before it is made
    way,    \* where it is: unsent, with the feeder, answered, or lost
    result  \* how it ended, or "none"

vars == <<asked, way, result>>

Init ==
    /\ asked = [p \in Post |-> None]
    /\ way = [p \in Post |-> "unsent"]
    /\ result = [p \in Post |-> "none"]

Open(p) == asked[p] # None /\ result[p] = "none"

Named(p) ==
    \/ asked'[p] = asked[p]
    \/ asked[p] = None /\ asked'[p] \in Feeder

Moved(p) ==
    \/ way'[p] = way[p]
    \/ way[p] = "unsent" /\ Open(p) /\ way'[p] = "out"
    \/ way[p] = "out" /\ way'[p] \in {"answered", "lost"}
    \/ way[p] = "answered" /\ way'[p] = "lost"

Ended(p) ==
    \/ result'[p] = result[p]
    \/ /\ Open(p)
       /\ \/ result'[p] \in {"timeout", "error", "lost"}
          \/ result'[p] = "offline" /\ way[p] = "unsent"
          \/ result'[p] = "reply" /\ way[p] = "answered"

\* Requests do not depend on one another; several may move at a time.
Next ==
    /\ asked' \in [Post -> Feeder \cup {None}]
    /\ way' \in [Post -> {"unsent", "out", "answered", "lost"}]
    /\ result' \in [Post -> {"none", "offline", "timeout", "error", "reply", "lost"}]
    /\ \A p \in Post : Named(p) /\ Moved(p) /\ Ended(p)

Spec == Init /\ [][Next]_vars
=============================================================================
