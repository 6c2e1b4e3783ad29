------------------------------ MODULE BeastOutput ------------------------------
(***************************************************************************)
(* Beast outputs: consumers connect to beast-proxy with the key of an      *)
(* output (proxy.py, _handle_output_client) and are sent what readsb       *)
(* sends, through a bounded queue each.  The dashboard, another process,   *)
(* makes outputs and keys, and leaves a signal in a table when the clients *)
(* of an output are to be dropped.                                         *)
(*                                                                         *)
(* Actors:                                                                 *)
(*   - one handler per client; what it does between two awaits is one step;*)
(*   - the broadcaster, which puts a chunk into every queue in one step;   *)
(*   - the stats flusher's poll of the signals: two statements, between    *)
(*     which nothing else of the proxy runs, but the dashboard may;        *)
(*   - the dashboard's single worker, whose statements commit one by one.  *)
(*                                                                         *)
(* A definition whose name begins with Bug is a mistake the code does not  *)
(* make: put in place of the definition below it, it breaks a property.    *)
(***************************************************************************)
EXTENDS Integers, Sequences

CONSTANTS
    Client,    \* connections to the output port, each handled once
    Output,    \* ids of outputs in mode 'api'
    Nil,
    MaxGen,    \* bound: keys ever made for an output
    MaxChunk,  \* bound: chunks ever read from readsb
    MaxQueue   \* maxsize of a client's queue

ASSUME OutputAssumption ==
    /\ Nil \notin Output
    /\ MaxGen \in Nat
    /\ MaxChunk \in Nat
    /\ MaxQueue \in Nat \ {0}

VARIABLES
    status,   \* of each row of outputs
    type,     \* its output_type
    key,      \* of each output: how many keys were made, the last one's type and status
    signals,  \* table output_drop_signals
    dash,     \* the dashboard's request between its two commits
    found,    \* what the poll has read and not yet deleted, or Nil
    drops,    \* _drop_output_ids
    at,       \* where each client's handler is
    pass,     \* the output and the key each client was let in with
    listed,   \* clients whose queue is in _output_clients
    queue,    \* each client's queue of chunks
    got,      \* the last chunk written to each client, or 0
    chunk     \* the last chunk read from readsb

tables == <<status, type, key, signals>>
streams == <<listed, queue, got, chunk>>
vars == <<status, type, key, signals, dash, found, drops, at, pass, listed, queue, got, chunk>>

Key == [gen : 0..MaxGen, durable : BOOLEAN, used : BOOLEAN]
Type == {"beast_raw", "json"}   \* "json": of any other
NoKey == [gen |-> 0, durable |-> FALSE, used |-> FALSE]

\* A request with its first commit done: the new row's, or the signal's.
Request ==
    [do : {"create", "regenerate", "delete"}, out : Output, durable : BOOLEAN]

Pass == [out : Output, gen : 1..MaxGen, durable : BOOLEAN]

\* "greeting": OK is being sent; "looping": looks at the signals next;
\* "waiting": for its queue; "writing": in drain().
Place == {"new", "greeting", "looping", "waiting", "writing", "gone"}
Streaming(c) == at[c] \in {"looping", "waiting", "writing"}

Init ==
    /\ status = [o \in Output |-> "none"]
    /\ type = [o \in Output |-> "json"]
    /\ key = [o \in Output |-> NoKey]
    /\ signals = {}
    /\ dash = Nil
    /\ found = Nil
    /\ drops = {}
    /\ at = [c \in Client |-> "new"]
    /\ pass = [c \in Client |-> Nil]
    /\ listed = {}
    /\ queue = [c \in Client |-> <<>>]
    /\ got = [c \in Client |-> 0]
    /\ chunk = 0

-----------------------------------------------------------------------------
(* The dashboard *)

\* output_create: the row is committed first.
Create(o, t, durable) ==
    /\ dash = Nil
    /\ status[o] = "none"
    /\ key[o].gen < MaxGen
    /\ status' = [status EXCEPT ![o] = "active"]
    /\ type' = [type EXCEPT ![o] = t]
    /\ dash' = [do |-> "create", out |-> o, durable |-> durable]
    /\ UNCHANGED <<key, signals, found, drops, at, pass, streams>>

\* output_update: a client that streams is not told.
Update(o, s, t) ==
    /\ dash = Nil
    /\ status[o] \in {"active", "inactive"}
    /\ status' = [status EXCEPT ![o] = s]
    /\ type' = [type EXCEPT ![o] = t]
    /\ UNCHANGED <<key, signals, dash, found, drops, at, pass, streams>>

\* output_regenerate_key, output_delete: the signal is committed first.  The new
\* key will have the old one's type, or be single-use if there is none; that of one
\* other kind of output (adsb_direct) is durable whatever the old one was.
Signal(o, do) ==
    /\ dash = Nil
    /\ status[o] \in {"active", "inactive"}
    /\ do = "regenerate" => key[o].gen < MaxGen
    /\ signals' = signals \cup {o}
    /\ \E durable \in {key[o].durable, key[o].durable \/ type[o] # "beast_raw"} :
          dash' = [do |-> do, out |-> o, durable |-> durable]
    /\ UNCHANGED <<status, type, key, found, drops, at, pass, streams>>

\* The new key takes the place of the output's old one, if there is one.
Generate ==
    /\ dash # Nil
    /\ dash.do \in {"create", "regenerate"}
    /\ key' = [key EXCEPT ![dash.out] =
          [gen |-> @.gen + 1, durable |-> dash.durable, used |-> FALSE]]
    /\ dash' = Nil
    /\ UNCHANGED <<status, type, signals, found, drops, at, pass, streams>>

\* The key's row stays: foreign keys are off.
Delete ==
    /\ dash # Nil
    /\ dash.do = "delete"
    /\ status' = [status EXCEPT ![dash.out] = "deleted"]
    /\ dash' = Nil
    /\ UNCHANGED <<type, key, signals, found, drops, at, pass, streams>>

\* The worker is killed between the two commits.
DashboardEnds ==
    /\ dash # Nil
    /\ dash' = Nil
    /\ UNCHANGED <<tables, found, drops, at, pass, streams>>

-----------------------------------------------------------------------------
(* The poll: pop_drop_signals *)

Read ==
    /\ found = Nil
    /\ found' = signals
    /\ UNCHANGED <<tables, dash, drops, at, pass, streams>>

\* Deletes every signal there is by now, if it has read any.
Clear ==
    /\ found # Nil
    /\ signals' = IF found = {} THEN signals ELSE {}
    /\ drops' = drops \cup found
    /\ found' = Nil
    /\ UNCHANGED <<status, type, key, dash, at, pass, streams>>

\* The DELETE raises; the signals stay for the next cycle.
ClearFails ==
    /\ found \notin {Nil, {}}
    /\ found' = Nil
    /\ UNCHANGED <<tables, dash, drops, at, pass, streams>>

-----------------------------------------------------------------------------
(* A client: _handle_output_client, validate_output_key *)

\* No line within ten seconds, an empty one, a key that was never made, or the
\* database stays locked.
NoEntry(c) ==
    /\ found = Nil
    /\ at[c] = "new"
    /\ at' = [at EXCEPT ![c] = "gone"]
    /\ UNCHANGED <<tables, dash, found, drops, pass, streams>>

Valid(o, g) ==
    /\ status[o] = "active"
    /\ key[o].gen = g
    /\ key[o].durable \/ ~key[o].used

\* The key is left ready.
BugConsumed(o) == key

\* A single-use key is used up by its first client.
Consumed(o) ==
    [key EXCEPT ![o].used = ~key[o].durable]

\* Presents the g-th key of output o.  (No statement of the dashboard between
\* the SELECT and the UPDATE can tell: the UPDATE names the key's row, and row
\* ids are not used again.)  The key of another kind of output is used up, too.
Presents(c, o, g) ==
    /\ found = Nil
    /\ at[c] = "new"
    /\ IF Valid(o, g)
       THEN /\ key' = Consumed(o)
            /\ at' = [at EXCEPT ![c] = IF type[o] = "beast_raw" THEN "greeting" ELSE "gone"]
            /\ pass' = [pass EXCEPT ![c] =
                  IF type[o] = "beast_raw"
                  THEN [out |-> o, gen |-> g, durable |-> key[o].durable]
                  ELSE Nil]
       ELSE /\ at' = [at EXCEPT ![c] = "gone"]
            /\ UNCHANGED <<key, pass>>
    /\ UNCHANGED <<status, type, signals, dash, found, drops, streams>>

\* OK is sent, and the queue listed; or the connection is lost.
Greeted(c) ==
    /\ found = Nil
    /\ at[c] = "greeting"
    /\ \/ /\ at' = [at EXCEPT ![c] = "looping"]
          /\ listed' = listed \cup {c}
       \/ /\ at' = [at EXCEPT ![c] = "gone"]
          /\ UNCHANGED listed
    /\ UNCHANGED <<tables, dash, found, drops, pass, queue, got, chunk>>

\* The queue stays listed.
BugUnlist(c) == listed' = listed

Unlist(c) == listed' = listed \ {c}

\* The finally blocks: whoever leaves takes the output's signal along.  Nobody has
\* the queue any more.
Leave(c) ==
    /\ at' = [at EXCEPT ![c] = "gone"]
    /\ Unlist(c)
    /\ drops' = drops \ {pass[c].out}
    /\ queue' = [queue EXCEPT ![c] = <<>>]
    /\ UNCHANGED <<tables, dash, found, pass, got, chunk>>

Dropped(c) ==
    /\ found = Nil
    /\ at[c] = "looping"
    /\ pass[c].out \in drops
    /\ Leave(c)

Loop(c) ==
    /\ found = Nil
    /\ at[c] = "looping"
    /\ pass[c].out \notin drops
    /\ at' = [at EXCEPT ![c] = "waiting"]
    /\ UNCHANGED <<tables, dash, found, drops, pass, streams>>

\* Five seconds without a chunk.  (One that comes together with the timeout
\* stays in the queue.)
Nothing(c) ==
    /\ found = Nil
    /\ at[c] = "waiting"
    /\ at' = [at EXCEPT ![c] = "looping"]
    /\ UNCHANGED <<tables, dash, found, drops, pass, streams>>

Write(c) ==
    /\ found = Nil
    /\ at[c] = "waiting"
    /\ queue[c] # <<>>
    /\ at' = [at EXCEPT ![c] = "writing"]
    /\ got' = [got EXCEPT ![c] = Head(queue[c])]
    /\ queue' = [queue EXCEPT ![c] = Tail(queue[c])]
    /\ UNCHANGED <<tables, dash, found, drops, pass, listed, chunk>>

Drained(c) ==
    /\ found = Nil
    /\ at[c] = "writing"
    /\ at' = [at EXCEPT ![c] = "looping"]
    /\ UNCHANGED <<tables, dash, found, drops, pass, streams>>

\* Only a write notices that the client is gone.
DrainFails(c) ==
    /\ found = Nil
    /\ at[c] = "writing"
    /\ Leave(c)

-----------------------------------------------------------------------------
(* The broadcaster: _broadcast_beast_to_output_clients *)

Full(c) == Len(queue[c]) = MaxQueue

\* A full queue misses the chunk and stays listed.
BugUnlisted == {}

\* put_nowait raises QueueFull: the queue is taken off the list for good.
Unlisted == {c \in listed : Full(c)}

\* The oldest chunk gives way to the new one.
BugPut(c) ==
    IF c \in listed THEN Append(IF Full(c) THEN Tail(queue[c]) ELSE queue[c], chunk + 1)
    ELSE queue[c]

Put(c) == IF c \in listed /\ ~Full(c) THEN Append(queue[c], chunk + 1) ELSE queue[c]

Broadcast ==
    /\ found = Nil
    /\ chunk < MaxChunk
    /\ chunk' = chunk + 1
    /\ queue' = [c \in Client |-> Put(c)]
    /\ listed' = listed \ Unlisted
    /\ UNCHANGED <<tables, dash, found, drops, at, pass, got>>

\* The proxy ends and is started again: signals stay in the table.
Restart ==
    /\ found' = Nil
    /\ drops' = {}
    /\ at' = [c \in Client |-> IF at[c] = "new" THEN "new" ELSE "gone"]
    /\ listed' = {}
    /\ queue' = [c \in Client |-> <<>>]
    /\ UNCHANGED <<tables, dash, pass, got, chunk>>

-----------------------------------------------------------------------------
Dashboard ==
    \/ \E o \in Output :
          \/ \E t \in Type, durable \in BOOLEAN : Create(o, t, durable)
          \/ \E s \in {"active", "inactive"}, t \in Type : Update(o, s, t)
          \/ \E do \in {"regenerate", "delete"} : Signal(o, do)
    \/ Generate \/ Delete \/ DashboardEnds

Handler(c) ==
    \/ NoEntry(c) \/ (\E o \in Output, g \in 1..MaxGen : Presents(c, o, g))
    \/ Greeted(c) \/ Dropped(c) \/ Loop(c) \/ Nothing(c) \/ Write(c)
    \/ Drained(c) \/ DrainFails(c)

Next ==
    \/ Dashboard
    \/ Read \/ Clear \/ ClearFails
    \/ \E c \in Client : Handler(c)
    \/ Broadcast
    \/ Restart

Spec == Init /\ [][Next]_vars

-----------------------------------------------------------------------------
(* Properties *)

\* Every variable has its type; queues keep their bound.
TypeOK ==
    /\ status \in [Output -> {"none", "active", "inactive", "deleted"}]
    /\ type \in [Output -> Type]
    /\ key \in [Output -> Key]
    /\ signals \subseteq Output
    /\ dash \in Request \cup {Nil}
    /\ found = Nil \/ found \subseteq Output
    /\ drops \subseteq Output
    /\ at \in [Client -> Place]
    /\ pass \in [Client -> Pass \cup {Nil}]
    /\ listed \subseteq Client
    /\ queue \in [Client -> Seq(1..chunk)]
    /\ \A c \in Client : Len(queue[c]) <= MaxQueue
    /\ got \in [Client -> 0..chunk]
    /\ chunk \in 0..MaxChunk

\* A single-use key lets one client in, ever: whatever is regenerated, and
\* whoever presents it when, also after a restart of the proxy.
SingleUseOnce ==
    \A c, d \in Client :
        c # d /\ pass[c] # Nil /\ pass[c] = pass[d] => pass[c].durable

Unbroken(c) ==
    /\ \A i \in 1..(Len(queue[c]) - 1) : queue[c][i + 1] = queue[c][i] + 1
    /\ queue[c] # <<>> /\ got[c] # 0 => queue[c][1] = got[c] + 1
    /\ c \in listed /\ queue[c] # <<>> => queue[c][Len(queue[c])] = chunk
    /\ c \in listed /\ queue[c] = <<>> /\ got[c] # 0 => got[c] = chunk

\* What a client is sent has no gap: chunks follow one another in its queue
\* and after what was written, and as long as the queue is listed its end is
\* the newest chunk.  (A chunk is 4096 bytes and ends anywhere in a message.)
NoGap == \A c \in Client : Unbroken(c)

\* Nobody broadcasts into the queue of a client that is gone.
ListedIsStreaming == \A c \in listed : Streaming(c)

\* The chunk client c is to be sent next: the first of its queue, or the one after
\* what it was sent; before any, the next that is read.
Due(c) ==
    IF at[c] = "gone" THEN -1
    ELSE IF ~Streaming(c) THEN 0
    ELSE IF queue[c] # <<>> THEN Head(queue[c])
    ELSE IF got[c] # 0 THEN got[c] + 1
    ELSE chunk + 1

\* Each client is sent the chunks from its entry on, one after the other, as
\* ChunkFeed promises: whatever is dropped, overflows or restarts in between, it
\* is sent no chunk twice, skips none, and is sent nothing once it is gone.
Feed == INSTANCE ChunkFeed WITH last <- chunk, sent <- got, due <- [c \in Client |-> Due(c)]
IsChunkFeed == Feed!Spec

\* The dashboard says of a regeneration "drop any active connection using the
\* old key" (api.py), and of a single-use key "if you need to reconnect,
\* regenerate the key first" (outputs.html).  A client whose key is the
\* output's present one, and of an output that nobody is regenerating or
\* deleting, is not dropped.  It is: a signal that finds no client stays in
\* _drop_output_ids for the next, which has the new key, and has used it up.
DropsOnlyOldKeys ==
    [][\A c \in Client :
          Dropped(c) =>
              LET o == pass[c].out IN
              \/ key[o].gen # pass[c].gen
              \/ status[o] = "deleted"
              \/ dash # Nil /\ dash.out = o]_vars
=============================================================================
