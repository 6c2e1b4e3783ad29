------------------------------- MODULE ChunkFeed -------------------------------
(***************************************************************************)
(* What a Beast output promises its clients: the chunks readsb sends after *)
(* the client was let in, each once, in order and without a gap, until the *)
(* client is gone.  How many it gets is not promised: a slow client may be *)
(* left behind at any chunk, but never skips one.                          *)
(***************************************************************************)
EXTENDS Integers

CONSTANTS
    Client,   \* connections, each let in at most once
    MaxChunk  \* bound: chunks ever read from readsb

VARIABLES
    last,  \* the last chunk read from readsb
    sent,  \* the last chunk each client was sent, or 0
    due    \* the chunk each client is to be sent next; 0 before it is let in

Gone == -1

Init ==
    /\ last = 0
    /\ sent = [c \in Client |-> 0]
    /\ due = [c \in Client |-> 0]

Read ==
    /\ last < MaxChunk
    /\ last' = last + 1
    /\ UNCHANGED <<sent, due>>

\* What was read before is not for this client.
Join(c) ==
    /\ due[c] = 0
    /\ due' = [due EXCEPT ![c] = last + 1]
    /\ UNCHANGED <<last, sent>>

Send(c) ==
    /\ due[c] \in 1..last
    /\ sent' = [sent EXCEPT ![c] = due[c]]
    /\ due' = [due EXCEPT ![c] = @ + 1]
    /\ UNCHANGED last

\* Clients leave, or are refused: one by one, or all when the process ends.
Part(S) ==
    /\ due' = [c \in Client |-> IF c \in S THEN Gone ELSE due[c]]
    /\ UNCHANGED <<last, sent>>

Next ==
    \/ Read
    \/ \E c \in Client : Join(c) \/ Send(c)
    \/ \E S \in SUBSET Client : Part(S)

Spec == Init /\ [][Next]_<<last, sent, due>>
=============================================================================
