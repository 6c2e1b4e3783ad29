------------------------------- MODULE TrackFeed -------------------------------
(***************************************************************************)
(* What the CoT sender promises a TAK server of each aircraft.  It is sent *)
(* when its state is not the one the sender remembers having sent, and     *)
(* then in that new state; what is on its way is given to the server once  *)
(* or lost.  What is lost is not sent again by itself: the aircraft stays  *)
(* behind until it changes once more, or is forgotten.  So unless a track  *)
(* is on its way, lost or forgotten, the sender remembers what the server  *)
(* was given.                                                              *)
(***************************************************************************)

CONSTANTS
    Server,  \* outputs, each with its server
    Track,   \* aircraft
    State,   \* what is said of one
    None

VARIABLES
    given,  \* what each server was last given of each aircraft, or None
    known,  \* what the sender remembers as sent, or None
    way,    \* the update on its way, or None
    lost    \* aircraft whose last update was lost

Picture == [Server -> [Track -> State \cup {None}]]

Init ==
    /\ given = [s \in Server |-> [t \in Track |-> None]]
    /\ known = [s \in Server |-> [t \in Track |-> None]]
    /\ way = [s \in Server |-> [t \in Track |-> None]]
    /\ lost = [s \in Server |-> {}]

\* Nothing happens to the track, but that it may be forgotten once landed.
Stays(s, t) ==
    /\ given'[s][t] = given[s][t]
    /\ way'[s][t] = way[s][t]
    /\ t \in lost'[s] <=> t \in lost[s]
    /\ known'[s][t] = known[s][t] \/ (way[s][t] = None /\ known'[s][t] = None)

\* A new state, which may be forgotten as soon as it is remembered.
Departs(s, t) ==
    /\ way[s][t] = None
    /\ given'[s][t] = given[s][t]
    /\ way'[s][t] \in State \ {known[s][t]}
    /\ known'[s][t] \in {way'[s][t], None}
    /\ t \in lost'[s] <=> t \in lost[s]

Arrives(s, t) ==
    /\ way[s][t] # None
    /\ given'[s][t] = way[s][t]
    /\ way'[s][t] = None
    /\ known'[s][t] = known[s][t]
    /\ t \notin lost'[s]

IsLost(s, t) ==
    /\ way[s][t] # None
    /\ given'[s][t] = given[s][t]
    /\ way'[s][t] = None
    /\ known'[s][t] = known[s][t]
    /\ t \in lost'[s]

\* It is remembered, and never leaves.
NeverDeparts(s, t) ==
    /\ way[s][t] = None
    /\ given'[s][t] = given[s][t]
    /\ way'[s][t] = None
    /\ known'[s][t] # known[s][t] \/ known'[s][t] = None
    /\ t \in lost'[s]

\* Several aircraft of a server may move at a time.
Move ==
    /\ given' \in Picture /\ known' \in Picture /\ way' \in Picture
    /\ lost' \in [Server -> SUBSET Track]
    /\ \A s \in Server, t \in Track :
          \/ Stays(s, t) \/ Departs(s, t) \/ Arrives(s, t)
          \/ IsLost(s, t) \/ NeverDeparts(s, t)

\* The sender starts anew: it remembers nothing, and sends all again.
Forget ==
    /\ known' = [s \in Server |-> [t \in Track |-> None]]
    /\ way' = [s \in Server |-> [t \in Track |-> None]]
    /\ lost' = [s \in Server |-> {}]
    /\ UNCHANGED given

Spec == Init /\ [][Move \/ Forget]_<<given, known, way, lost>>
=============================================================================
