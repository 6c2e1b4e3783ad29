------------------------- MODULE BeastOutputProofs -------------------------
(* Theorems about BeastOutput, for any clients, outputs and bounds. *)
EXTENDS BeastOutput, TLAPS

-----------------------------------------------------------------------------
(* Types *)

\* The key a request is about to make stays within the bound.
TypeInv ==
    /\ TypeOK
    /\ dash # Nil /\ dash.do # "delete" => key[dash.out].gen < MaxGen

LEMMA NoKeyType == NoKey \in Key
  BY OutputAssumption DEF NoKey, Key

LEMMA RequestType ==
  ASSUME NEW do \in {"create", "regenerate", "delete"}, NEW o \in Output, NEW d \in BOOLEAN
  PROVE  [do |-> do, out |-> o, durable |-> d] \in Request
  BY DEF Request

LEMMA PassType ==
  ASSUME NEW o \in Output, NEW g \in 1..MaxGen, NEW d \in BOOLEAN
  PROVE  [out |-> o, gen |-> g, durable |-> d] \in Pass
  BY DEF Pass

LEMMA NewKeyType ==
  ASSUME NEW g \in 0..MaxGen, g < MaxGen, NEW d \in BOOLEAN
  PROVE  [gen |-> g + 1, durable |-> d, used |-> FALSE] \in Key
  BY OutputAssumption DEF Key

LEMMA UsedType ==
  ASSUME NEW k \in Key, NEW u \in BOOLEAN
  PROVE  /\ [k EXCEPT !.used = u] \in Key
         /\ [k EXCEPT !.used = u].gen = k.gen
         /\ [k EXCEPT !.used = u].durable = k.durable
         /\ [k EXCEPT !.used = u].used = u
  BY DEF Key

\* What a queue becomes when a chunk is put into it, or taken out.
LEMMA PutType ==
  ASSUME NEW n \in Nat, NEW q \in Seq(1..n)
  PROVE  /\ Append(q, n + 1) \in Seq(1..(n + 1))
         /\ q \in Seq(1..(n + 1))
         /\ Len(Append(q, n + 1)) = Len(q) + 1
<1>1. \A i \in 1..Len(q) : q[i] \in 1..(n + 1)
  OBVIOUS
<1>2. QED
  BY <1>1

LEMMA TakeType ==
  ASSUME NEW n \in Nat, NEW q \in Seq(1..n), q # <<>>
  PROVE  /\ Head(q) \in 1..n
         /\ Tail(q) \in Seq(1..n)
         /\ Len(Tail(q)) = Len(q) - 1
  OBVIOUS

LEMMA TypeInit == Init => TypeInv
<1>1. SUFFICES ASSUME Init PROVE TypeInv
  OBVIOUS
<1>2. /\ queue \in [Client -> Seq(1..chunk)]
      /\ \A c \in Client : Len(queue[c]) <= MaxQueue
  BY <1>1, OutputAssumption DEF Init
<1>3. /\ key \in [Output -> Key]
      /\ got \in [Client -> 0..chunk] /\ chunk \in 0..MaxChunk
  BY <1>1, NoKeyType, OutputAssumption DEF Init
<1>4. /\ status \in [Output -> {"none", "active", "inactive", "deleted"}]
      /\ type \in [Output -> Type]
      /\ at \in [Client -> Place]
      /\ pass \in [Client -> Pass \cup {Nil}]
  BY <1>1 DEF Init, Type, Place
<1>5. QED
  BY <1>1, <1>2, <1>3, <1>4 DEF Init, TypeInv, TypeOK

LEMMA TypeStep == TypeInv /\ [Next]_vars => TypeInv'
<1> SUFFICES ASSUME TypeInv, [Next]_vars PROVE TypeInv'
  OBVIOUS
<1> USE DEF TypeInv, TypeOK
<1>1. ASSUME NEW o \in Output, NEW t \in Type, NEW d \in BOOLEAN, Create(o, t, d)
      PROVE  TypeInv'
  <2>1. dash' \in Request /\ dash'.do = "create" /\ dash'.out = o
    BY <1>1, RequestType DEF Create
  <2>2. QED
    BY <1>1, <2>1 DEF Create, streams
<1>2. ASSUME NEW o \in Output, NEW s \in {"active", "inactive"}, NEW t \in Type,
             Update(o, s, t)
      PROVE  TypeInv'
  BY <1>2 DEF Update, streams
<1>3. ASSUME NEW o \in Output, NEW do \in {"regenerate", "delete"}, Signal(o, do)
      PROVE  TypeInv'
  <2>1. key[o].durable \in BOOLEAN
    BY DEF Key
  <2>2. dash' \in Request /\ dash'.do = do /\ dash'.out = o
    <3>1. PICK d \in {key[o].durable, key[o].durable \/ type[o] # "beast_raw"} :
                dash' = [do |-> do, out |-> o, durable |-> d]
      BY <1>3 DEF Signal
    <3>2. d \in BOOLEAN
      BY <2>1
    <3>3. QED
      BY <3>1, <3>2, RequestType
  <2>3. do # "delete" => key[o].gen < MaxGen
    BY <1>3 DEF Signal
  <2>4. QED
    BY <1>3, <2>2, <2>3 DEF Signal, streams
<1>4. CASE Generate
  <2>1. dash \in Request /\ dash.do # "delete"
    BY <1>4 DEF Generate
  <2>2. dash.out \in Output /\ dash.durable \in BOOLEAN /\ key[dash.out].gen \in 0..MaxGen
    BY <2>1 DEF Request, Key
  <2>3. [gen |-> key[dash.out].gen + 1, durable |-> dash.durable, used |-> FALSE] \in Key
    BY <1>4, <2>1, <2>2, NewKeyType DEF Generate
  <2>4. QED
    BY <1>4, <2>2, <2>3 DEF Generate, streams
<1>5. CASE Delete
  <2>1. dash.out \in Output
    BY <1>5 DEF Delete, Request
  <2>2. QED
    BY <1>5, <2>1 DEF Delete, streams
<1>6. CASE DashboardEnds
  BY <1>6 DEF DashboardEnds, tables, streams
<1>7. CASE Read
  BY <1>7 DEF Read, tables, streams
<1>8. CASE Clear
  BY <1>8 DEF Clear, streams
<1>9. CASE ClearFails
  BY <1>9 DEF ClearFails, tables, streams
<1>10. ASSUME NEW c \in Client, NoEntry(c) PROVE TypeInv'
  BY <1>10 DEF NoEntry, tables, streams, Place
<1>11. ASSUME NEW c \in Client, NEW o \in Output, NEW g \in 1..MaxGen, Presents(c, o, g)
       PROVE  TypeInv'
  <2>1. key[o] \in Key /\ key[o].durable \in BOOLEAN
    BY DEF Key
  <2>2. [out |-> o, gen |-> g, durable |-> key[o].durable] \in Pass
    BY <2>1, PassType
  <2>3. key' \in [Output -> Key] /\ \A p \in Output : key'[p].gen = key[p].gen
    <3>1. [key[o] EXCEPT !.used = ~key[o].durable] \in Key
          /\ [key[o] EXCEPT !.used = ~key[o].durable].gen = key[o].gen
      BY <2>1, UsedType
    <3>2. QED
      BY <1>11, <3>1 DEF Presents, Consumed
  <2>4. dash # Nil => dash.out \in Output
    BY DEF Request
  <2>5. pass' \in [Client -> Pass \cup {Nil}] /\ at' \in [Client -> Place]
    BY <1>11, <2>2 DEF Presents, Place
  <2>6. QED
    BY <1>11, <2>3, <2>4, <2>5 DEF Presents, streams
<1>12. ASSUME NEW c \in Client, Greeted(c) PROVE TypeInv'
  BY <1>12 DEF Greeted, tables, Place
<1>13. ASSUME NEW c \in Client, Leave(c) PROVE TypeInv'
  <2>1. queue' \in [Client -> Seq(1..chunk)]
    BY <1>13 DEF Leave
  <2>2. \A d \in Client : Len(queue'[d]) <= MaxQueue
    <3>1. Len(<<>>) <= MaxQueue
      BY OutputAssumption
    <3> QED
      BY <1>13, <3>1 DEF Leave
  <2> QED
    BY <1>13, <2>1, <2>2 DEF Leave, Unlist, tables, Place
<1>14. ASSUME NEW c \in Client, Loop(c) \/ Nothing(c) \/ Drained(c) PROVE TypeInv'
  BY <1>14 DEF Loop, Nothing, Drained, tables, streams, Place
<1>15. ASSUME NEW c \in Client, Write(c) PROVE TypeInv'
  <2> /\ queue[c] # <<>>
      /\ chunk \in Nat
      /\ queue[c] \in Seq(1..chunk)
    BY <1>15, OutputAssumption DEF Write
  <2>1. /\ Head(queue[c]) \in 1..chunk
        /\ Tail(queue[c]) \in Seq(1..chunk)
        /\ Len(Tail(queue[c])) = Len(queue[c]) - 1
    BY TakeType
  <2>2. /\ queue' \in [Client -> Seq(1..chunk)]
        /\ \A d \in Client : Len(queue'[d]) <= MaxQueue
    <3>1. Len(queue[c]) \in Nat /\ Len(queue[c]) <= MaxQueue
      OBVIOUS
    <3>2. queue' = [queue EXCEPT ![c] = Tail(queue[c])]
      BY <1>15 DEF Write
    <3>3. ASSUME NEW d \in Client PROVE Len(queue'[d]) <= MaxQueue
      <4>1. CASE d = c
        BY <2>1, <3>1, <3>2, <4>1, OutputAssumption
      <4>2. CASE d # c
        BY <3>2, <4>2
      <4>3. QED
        BY <4>1, <4>2
    <3>4. QED
      BY <2>1, <3>2, <3>3
  <2>3. got' \in [Client -> 0..chunk] /\ at' \in [Client -> Place]
    BY <1>15, <2>1 DEF Write, Place
  <2>4. QED
    BY <1>15, <2>2, <2>3 DEF Write, tables
<1>16. CASE Broadcast
  <2>1. /\ chunk \in Nat
        /\ chunk' = chunk + 1
        /\ chunk' \in 0..MaxChunk
    BY <1>16, OutputAssumption DEF Broadcast, Put
  <2>2. ASSUME NEW c \in Client
        PROVE  queue'[c] \in Seq(1..chunk') /\ Len(queue'[c]) <= MaxQueue
    <3>1. queue[c] \in Seq(1..chunk) /\ Len(queue[c]) \in Nat /\ Len(queue[c]) <= MaxQueue
      OBVIOUS
    <3>2. CASE c \in listed /\ ~Full(c)
      <4>1. queue'[c] = Append(queue[c], chunk + 1)
        BY <1>16, <3>2 DEF Broadcast, Put
      <4>2. Len(queue[c]) < MaxQueue
        BY <3>1, <3>2, OutputAssumption DEF Full
      <4>3. QED
        BY <2>1, <3>1, <4>1, <4>2, PutType, OutputAssumption
    <3>3. CASE ~(c \in listed /\ ~Full(c))
      <4>1. queue'[c] = queue[c]
        BY <1>16, <3>3 DEF Broadcast, Put
      <4>2. QED
        BY <2>1, <3>1, <4>1, PutType
    <3>4. QED
      BY <3>2, <3>3
  <2>3. got' \in [Client -> 0..chunk']
    BY <1>16, <2>1 DEF Broadcast, Put
  <2>4. queue' \in [Client -> Seq(1..chunk')]
    BY <1>16, <2>2 DEF Broadcast, Put
  <2>5. QED
    BY <1>16, <2>1, <2>2, <2>3, <2>4 DEF Broadcast, Put, Unlisted, tables
<1>17. CASE Restart
  <2>1. /\ queue' \in [Client -> Seq(1..chunk)]
        /\ \A c \in Client : Len(queue'[c]) <= MaxQueue
    BY <1>17, OutputAssumption DEF Restart
  <2>2. at' \in [Client -> Place]
    BY <1>17 DEF Restart, Place
  <2>3. QED
    BY <1>17, <2>1, <2>2 DEF Restart, tables
<1>18. CASE UNCHANGED vars
  BY <1>18 DEF vars
<1> USE DEF Dropped, DrainFails
<1>19. QED
  BY <1>1, <1>2, <1>3, <1>4, <1>5, <1>6, <1>7, <1>8, <1>9, <1>10, <1>11, <1>12,
     <1>13, <1>14, <1>15, <1>16, <1>17, <1>18
  DEF Next, Dashboard, Handler

\* Every variable of BeastOutput keeps its type, and no queue exceeds its
\* bound, for any clients and outputs.
THEOREM TypeCorrect == Spec => []TypeOK
<1>1. TypeInv => TypeOK
  BY DEF TypeInv
<1>2. QED
  BY <1>1, TypeInit, TypeStep, PTL DEF Spec

-----------------------------------------------------------------------------
(* Single-use keys *)

\* The last key of an output that let a client in is durable or used up, and
\* the client remembers its type.
Remembers(c) ==
    /\ pass[c].gen <= key[pass[c].out].gen
    /\ pass[c].gen = key[pass[c].out].gen =>
          /\ pass[c].durable = key[pass[c].out].durable
          /\ key[pass[c].out].durable \/ key[pass[c].out].used

SingleUseInv ==
    /\ \A c \in Client : pass[c] # Nil => Remembers(c)
    /\ SingleUseOnce

LEMMA SingleUseStep == TypeInv /\ SingleUseInv /\ [Next]_vars => SingleUseInv'
<1> SUFFICES ASSUME TypeInv, SingleUseInv, [Next]_vars PROVE SingleUseInv'
  OBVIOUS
<1>1. ASSUME pass' = pass, key' = key PROVE SingleUseInv'
  BY <1>1 DEF SingleUseInv, SingleUseOnce, Remembers
<1>2. CASE Generate
  <2>1. /\ dash.out \in Output /\ key[dash.out].gen \in Nat
        /\ \A c \in Client : pass[c] # Nil =>
              pass[c].out \in Output /\ pass[c].gen \in Nat /\ key[pass[c].out].gen \in Nat
    BY <1>2 DEF Generate, TypeInv, TypeOK, Request, Key, Pass
  <2>2. pass' = pass
    BY <1>2 DEF Generate
  <2>3. ASSUME NEW c \in Client, pass[c] # Nil PROVE Remembers(c)'
    <3>1. CASE pass[c].out = dash.out
      <4>1. key'[pass[c].out].gen = key[pass[c].out].gen + 1
        BY <1>2, <2>1, <2>3, <3>1 DEF Generate, TypeInv, TypeOK
      <4>2. pass[c].gen < key'[pass[c].out].gen
        BY <2>1, <2>3, <4>1 DEF SingleUseInv, Remembers
      <4>3. QED
        BY <2>1, <2>2, <2>3, <4>1, <4>2 DEF Remembers
    <3>2. CASE pass[c].out # dash.out
      <4>1. key'[pass[c].out] = key[pass[c].out]
        BY <1>2, <2>1, <2>3, <3>2 DEF Generate, TypeInv, TypeOK
      <4>2. QED
        BY <2>2, <2>3, <4>1 DEF SingleUseInv, Remembers
    <3>3. QED
      BY <3>1, <3>2
  <2>4. QED
    BY <2>2, <2>3 DEF SingleUseInv, SingleUseOnce
<1>3. ASSUME NEW c \in Client, NEW o \in Output, NEW g \in 1..MaxGen, Presents(c, o, g)
      PROVE  SingleUseInv'
  <2>1. CASE ~Valid(o, g)
    BY <1>1, <1>3, <2>1 DEF Presents
  <2>2. CASE Valid(o, g)
    <3>1. /\ key[o] \in Key /\ key[o].durable \in BOOLEAN
          /\ key' = [key EXCEPT ![o].used = ~key[o].durable]
      BY <1>3, <2>2 DEF Presents, Consumed, TypeInv, TypeOK, Key
    <3>2. /\ \A p \in Output \ {o} : key'[p] = key[p]
          /\ key'[o].gen = key[o].gen /\ key'[o].durable = key[o].durable
          /\ key'[o].durable \/ key'[o].used
      <4>1. key'[o] = [key[o] EXCEPT !.used = ~key[o].durable]
        BY <3>1 DEF TypeInv, TypeOK
      <4>2. \A p \in Output \ {o} : key'[p] = key[p]
        BY <3>1 DEF TypeInv, TypeOK
      <4> DEFINE k == key[o]
                 u == ~key[o].durable
      <4>3. k \in Key /\ u \in BOOLEAN /\ key'[o] = [k EXCEPT !.used = u]
        BY <3>1, <4>1
      <4>4. k.gen = key[o].gen /\ k.durable = key[o].durable /\ (u \/ key[o].durable)
        OBVIOUS
      <4> HIDE DEF k, u
      <4>5. /\ [k EXCEPT !.used = u].gen = k.gen
            /\ [k EXCEPT !.used = u].durable = k.durable
            /\ [k EXCEPT !.used = u].used = u
        BY <4>3, UsedType
      <4>6. QED
        BY <4>2, <4>3, <4>4, <4>5
    <3>3. \A d \in Client : pass[d] # Nil => pass[d].out \in Output
      BY DEF TypeInv, TypeOK, Pass
    <3>4. ASSUME NEW d \in Client, pass[d] # Nil, pass'[d] = pass[d] PROVE Remembers(d)'
      BY <3>2, <3>3, <3>4 DEF SingleUseInv, Remembers
    <3>5. g = key[o].gen /\ (key[o].durable \/ ~key[o].used)
      BY <2>2 DEF Valid
    <3>6. /\ \A d \in Client \ {c} : pass'[d] = pass[d]
          /\ pass'[c] # Nil => pass'[c] = [out |-> o, gen |-> g, durable |-> key[o].durable]
      BY <1>3, <2>2 DEF Presents, TypeInv, TypeOK
    <3>7. g \in Nat
      BY OutputAssumption
    <3>8. ASSUME pass'[c] # Nil PROVE Remembers(c)'
      BY <3>2, <3>5, <3>6, <3>7, <3>8 DEF Remembers
    <3>9. ASSUME NEW d \in Client, d # c, pass'[c] # Nil, pass'[c] = pass'[d]
          PROVE  key[o].durable
      <4>1. pass[d] # Nil /\ pass[d].out = o /\ pass[d].gen = key[o].gen
        BY <3>5, <3>6, <3>9
      <4>2. QED
        BY <3>5, <4>1 DEF SingleUseInv, Remembers
    <3>10. SingleUseOnce'
      <4>1. SUFFICES ASSUME NEW d1 \in Client, NEW d2 \in Client,
                            d1 # d2, pass'[d1] # Nil, pass'[d1] = pass'[d2]
                     PROVE  pass'[d1].durable
        BY DEF SingleUseOnce
      <4>2. CASE d1 = c
        BY <3>6, <3>9, <4>1, <4>2
      <4>3. CASE d2 = c
        BY <3>6, <3>9, <4>1, <4>3
      <4>4. CASE d1 # c /\ d2 # c
        BY <3>6, <4>1, <4>4 DEF SingleUseInv, SingleUseOnce
      <4>5. QED
        BY <4>2, <4>3, <4>4
    <3>11. \A d \in Client : pass'[d] # Nil => Remembers(d)'
      BY <3>4, <3>6, <3>8
    <3>12. QED
      BY <3>10, <3>11 DEF SingleUseInv
  <2>3. QED
    BY <2>1, <2>2
<1>4. QED
  BY <1>1, <1>2, <1>3
  DEF Next, Dashboard, Handler, Create, Update, Signal, Delete, DashboardEnds, Read, Clear,
      ClearFails, NoEntry, Greeted, Dropped, DrainFails, Leave, Loop, Nothing, Write,
      Drained, Broadcast, Restart, tables, vars

\* A single-use key lets one client in, ever, whatever is regenerated or
\* restarted and in whatever order the commits fall.
THEOREM KeysAreSingleUse == Spec => []SingleUseOnce
<1>1. Init => SingleUseInv
  BY DEF Init, SingleUseInv, SingleUseOnce
<1>2. SingleUseInv => SingleUseOnce
  BY DEF SingleUseInv
<1>3. QED
  BY <1>1, <1>2, TypeInit, TypeStep, SingleUseStep, PTL DEF Spec

-----------------------------------------------------------------------------
(* The stream *)

\* A client that has not been let in has been sent nothing.
Fresh(c) == at[c] \in {"new", "greeting"} => queue[c] = <<>> /\ got[c] = 0

StreamInv ==
    /\ \A c \in Client : Fresh(c)
    /\ NoGap
    /\ ListedIsStreaming

\* A client whose queue nobody touches, and which is not put on the list.
LEMMA UnbrokenKept ==
  ASSUME NEW c \in Client, Unbroken(c), queue'[c] = queue[c], got'[c] = got[c],
         chunk' = chunk, c \in listed' => c \in listed
  PROVE  Unbroken(c)'
  BY DEF Unbroken

LEMMA EmptySeq ==
  ASSUME NEW S, NEW q \in Seq(S)
  PROVE  q = <<>> <=> Len(q) = 0
  OBVIOUS

\* A chunk is taken out of a queue and written.
LEMMA TakeUnbroken ==
  ASSUME NEW n \in Nat, NEW q \in Seq(1..n), q # <<>>,
         \A i \in 1..(Len(q) - 1) : q[i + 1] = q[i] + 1
  PROVE  /\ \A i \in 1..(Len(Tail(q)) - 1) : Tail(q)[i + 1] = Tail(q)[i] + 1
         /\ Head(q) = q[1]
         /\ Tail(q) # <<>> => Tail(q)[1] = q[1] + 1 /\ Tail(q)[Len(Tail(q))] = q[Len(q)]
         /\ Tail(q) = <<>> => q[Len(q)] = q[1]
<1>1. /\ Len(q) \in Nat \ {0} /\ Len(Tail(q)) = Len(q) - 1 /\ Tail(q) \in Seq(1..n)
      /\ \A i \in 1..Len(Tail(q)) : Tail(q)[i] = q[i + 1]
      /\ Head(q) = q[1]
  OBVIOUS
<1>2. \A i \in 1..(Len(Tail(q)) - 1) : Tail(q)[i + 1] = Tail(q)[i] + 1
  BY <1>1
<1> DEFINE r == Tail(q)
<1>6. r = <<>> <=> Len(r) = 0
  <2> r \in Seq(1..n)
    BY <1>1
  <2> QED
    BY EmptySeq
<1>3. ASSUME Tail(q) # <<>>
      PROVE  Tail(q)[1] = q[1] + 1 /\ Tail(q)[Len(Tail(q))] = q[Len(q)]
  <2>1. Len(Tail(q)) \in Nat \ {0}
    BY <1>1, <1>3, <1>6
  <2>2. QED
    BY <1>1, <2>1
<1>4. ASSUME Tail(q) = <<>> PROVE q[Len(q)] = q[1]
  BY <1>1, <1>4, <1>6
<1>5. QED
  BY <1>1, <1>2, <1>3, <1>4

\* A chunk is put into a queue.
LEMMA PutUnbroken ==
  ASSUME NEW n \in Nat, NEW q \in Seq(1..n),
         \A i \in 1..(Len(q) - 1) : q[i + 1] = q[i] + 1,
         q # <<>> => q[Len(q)] = n
  PROVE  LET p == Append(q, n + 1) IN
         /\ \A i \in 1..(Len(p) - 1) : p[i + 1] = p[i] + 1
         /\ p # <<>> /\ p[Len(p)] = n + 1
         /\ p[1] = IF q = <<>> THEN n + 1 ELSE q[1]
<1> DEFINE p == Append(q, n + 1)
<1>1. /\ Len(q) \in Nat /\ Len(p) = Len(q) + 1
      /\ \A i \in 1..Len(q) : p[i] = q[i]
      /\ p[Len(p)] = n + 1
      /\ q = <<>> <=> Len(q) = 0
  OBVIOUS
<1>2. \A i \in 1..(Len(p) - 1) : p[i + 1] = p[i] + 1
  <2>1. SUFFICES ASSUME NEW i \in 1..Len(q) PROVE p[i + 1] = p[i] + 1
    BY <1>1
  <2>2. CASE i = Len(q)
    BY <1>1, <2>2
  <2>3. CASE i # Len(q)
    BY <1>1, <2>3
  <2>4. QED
    BY <2>2, <2>3
<1>3. p # <<>>
  OBVIOUS
<1>4. p[1] = IF q = <<>> THEN n + 1 ELSE q[1]
  BY <1>1
<1>5. QED
  BY <1>1, <1>2, <1>3, <1>4

LEMMA StreamStep == TypeInv /\ StreamInv /\ [Next]_vars => StreamInv'
<1> SUFFICES ASSUME TypeInv, StreamInv, [Next]_vars PROVE StreamInv'
  OBVIOUS
<1> USE DEF StreamInv, NoGap, ListedIsStreaming, Fresh, Streaming
<1>1. ASSUME UNCHANGED <<at, listed, queue, got, chunk>> PROVE StreamInv'
  BY <1>1, UnbrokenKept
<1>2. ASSUME NEW c \in Client, NoEntry(c) PROVE StreamInv'
  BY <1>2, UnbrokenKept DEF NoEntry, TypeInv, TypeOK, streams
<1>3. ASSUME NEW c \in Client, NEW o \in Output, NEW g \in 1..MaxGen, Presents(c, o, g)
      PROVE  StreamInv'
  BY <1>3, UnbrokenKept DEF Presents, TypeInv, TypeOK, streams
<1>4. ASSUME NEW c \in Client, Greeted(c) PROVE StreamInv'
  <2>1. queue[c] = <<>> /\ got[c] = 0
    BY <1>4 DEF Greeted
  <2>2. Unbroken(c)'
    BY <1>4, <2>1 DEF Greeted, Unbroken
  <2>3. ASSUME NEW d \in Client, d # c PROVE Unbroken(d)'
    BY <1>4, <2>3, UnbrokenKept DEF Greeted
  <2>4. QED
    BY <1>4, <2>2, <2>3 DEF Greeted, TypeInv, TypeOK
<1>5. ASSUME NEW c \in Client, Leave(c) PROVE StreamInv'
  <2>1. queue'[c] = <<>> /\ c \notin listed'
    BY <1>5 DEF Leave, Unlist, TypeInv, TypeOK
  <2>2. Unbroken(c)'
    BY <2>1 DEF Unbroken
  <2>3. ASSUME NEW d \in Client, d # c PROVE Unbroken(d)'
    BY <1>5, <2>3, UnbrokenKept DEF Leave, Unlist, TypeInv, TypeOK
  <2> QED
    BY <1>5, <2>1, <2>2, <2>3 DEF Leave, Unlist, TypeInv, TypeOK
<1>6. ASSUME NEW c \in Client, Loop(c) \/ Nothing(c) \/ Drained(c) PROVE StreamInv'
  BY <1>6, UnbrokenKept DEF Loop, Nothing, Drained, TypeInv, TypeOK, streams
<1>7. ASSUME NEW c \in Client, Write(c) PROVE StreamInv'
  <2>1. /\ queue[c] \in Seq(1..chunk) /\ queue[c] # <<>> /\ chunk \in Nat
        /\ queue'[c] = Tail(queue[c]) /\ got'[c] = Head(queue[c])
        /\ listed' = listed /\ chunk' = chunk
        /\ \A d \in Client \ {c} : queue'[d] = queue[d] /\ got'[d] = got[d]
    BY <1>7, OutputAssumption DEF Write, TypeInv, TypeOK
  <2>2. Unbroken(c)'
    <3>1. /\ \A i \in 1..(Len(queue[c]) - 1) : queue[c][i + 1] = queue[c][i] + 1
          /\ c \in listed => queue[c][Len(queue[c])] = chunk
      BY <2>1 DEF Unbroken
    <3>2. queue[c][1] = got'[c]
      BY <2>1, <3>1, TakeUnbroken
    <3>3. /\ \A i \in 1..(Len(queue'[c]) - 1) : queue'[c][i + 1] = queue'[c][i] + 1
          /\ queue'[c] # <<>> => /\ queue'[c][1] = got'[c] + 1
                                /\ queue'[c][Len(queue'[c])] = queue[c][Len(queue[c])]
          /\ queue'[c] = <<>> => queue[c][Len(queue[c])] = got'[c]
      <4> DEFINE q == queue[c]
      <4>1. /\ q \in Seq(1..chunk) /\ q # <<>> /\ chunk \in Nat
            /\ \A i \in 1..(Len(q) - 1) : q[i + 1] = q[i] + 1
        BY <2>1, <3>1
      <4>2. queue'[c] = Tail(q) /\ got'[c] = q[1] /\ queue[c] = q
        BY <2>1, <3>2
      <4> HIDE DEF q
      <4>3. /\ \A i \in 1..(Len(Tail(q)) - 1) : Tail(q)[i + 1] = Tail(q)[i] + 1
            /\ Tail(q) # <<>> => Tail(q)[1] = q[1] + 1 /\ Tail(q)[Len(Tail(q))] = q[Len(q)]
            /\ Tail(q) = <<>> => q[Len(q)] = q[1]
        BY <4>1, TakeUnbroken
      <4>4. QED
        BY <4>2, <4>3
    <3>4. QED
      BY <2>1, <3>1, <3>3 DEF Unbroken
  <2>3. \A d \in Client \ {c} : Unbroken(d)'
    BY <2>1, UnbrokenKept
  <2>4. QED
    BY <1>7, <2>1, <2>2, <2>3 DEF Write, TypeInv, TypeOK
<1>8. CASE Broadcast
  <2>1. /\ chunk \in Nat /\ chunk' = chunk + 1 /\ got' = got /\ at' = at
        /\ listed' \subseteq listed
    BY <1>8, OutputAssumption DEF Broadcast, Put, TypeInv, TypeOK
  <2>2. ASSUME NEW c \in Client, ~(c \in listed /\ ~Full(c)) PROVE Unbroken(c)'
    <3>1. queue'[c] = queue[c] /\ c \notin listed'
      BY <1>8, <2>2 DEF Broadcast, Put, Unlisted
    <3>2. QED
      BY <2>1, <3>1 DEF Unbroken
  <2>3. ASSUME NEW c \in Client, c \in listed, ~Full(c) PROVE Unbroken(c)'
    <3>1. /\ queue[c] \in Seq(1..chunk) /\ got[c] \in Nat
          /\ queue'[c] = Append(queue[c], chunk + 1)
      BY <1>8, <2>1, <2>3 DEF Broadcast, Put, TypeInv, TypeOK
    <3>2. /\ \A i \in 1..(Len(queue[c]) - 1) : queue[c][i + 1] = queue[c][i] + 1
          /\ queue[c] # <<>> => queue[c][Len(queue[c])] = chunk
          /\ got[c] # 0 => IF queue[c] = <<>> THEN got[c] = chunk ELSE queue[c][1] = got[c] + 1
      BY <2>3 DEF Unbroken
    <3>3. /\ \A i \in 1..(Len(queue'[c]) - 1) : queue'[c][i + 1] = queue'[c][i] + 1
          /\ queue'[c] # <<>> /\ queue'[c][Len(queue'[c])] = chunk + 1
          /\ queue'[c][1] = IF queue[c] = <<>> THEN chunk + 1 ELSE queue[c][1]
      <4> DEFINE q == queue[c]
                 p == Append(q, chunk + 1)
      <4>1. /\ q \in Seq(1..chunk) /\ chunk \in Nat
            /\ \A i \in 1..(Len(q) - 1) : q[i + 1] = q[i] + 1
            /\ q # <<>> => q[Len(q)] = chunk
        BY <2>1, <3>1, <3>2
      <4>2. queue'[c] = p /\ queue[c] = q
        BY <3>1
      <4> HIDE DEF q
      <4>3. /\ \A i \in 1..(Len(p) - 1) : p[i + 1] = p[i] + 1
            /\ p # <<>> /\ p[Len(p)] = chunk + 1
            /\ p[1] = IF q = <<>> THEN chunk + 1 ELSE q[1]
        BY <4>1, PutUnbroken
      <4> HIDE DEF p
      <4>4. QED
        BY <4>2, <4>3
    <3>4. QED
      BY <2>1, <3>1, <3>2, <3>3 DEF Unbroken
  <2>4. ASSUME NEW c \in Client, at[c] \in {"new", "greeting"} PROVE queue'[c] = queue[c]
    <3>1. c \notin listed
      BY <2>4
    <3>2. QED
      BY <1>8, <3>1 DEF Broadcast, Put
  <2>5. QED
    BY <2>1, <2>2, <2>3, <2>4
<1>9. CASE Restart
  <2>1. \A c \in Client : queue'[c] = <<>> /\ c \notin listed'
    BY <1>9 DEF Restart
  <2>2. \A c \in Client : Unbroken(c)'
    BY <2>1 DEF Unbroken
  <2>3. ASSUME NEW c \in Client, at'[c] \in {"new", "greeting"} PROVE got'[c] = 0
    BY <1>9, <2>3 DEF Restart
  <2>4. QED
    BY <1>9, <2>1, <2>2, <2>3 DEF Restart
<1>10. QED
  BY <1>1, <1>2, <1>3, <1>4, <1>5, <1>6, <1>7, <1>8, <1>9
  DEF Next, Dashboard, Handler, Create, Update, Signal, Generate, Delete, DashboardEnds,
      Read, Clear, ClearFails, Dropped, DrainFails, tables, streams, vars

LEMMA StreamInit == Init => StreamInv
  BY DEF Init, StreamInv, NoGap, Unbroken, ListedIsStreaming, Fresh

\* What a client is sent has no gap, however slow it is and whoever else comes
\* and goes.
THEOREM NoGapInStream == Spec => []NoGap
<1>1. StreamInv => NoGap
  BY DEF StreamInv
<1>2. QED
  BY <1>1, TypeInit, TypeStep, StreamInit, StreamStep, PTL DEF Spec

\* The broadcaster's list holds no queue that nobody reads.
THEOREM ListHasNoLeak == Spec => []ListedIsStreaming
<1>1. StreamInv => ListedIsStreaming
  BY DEF StreamInv
<1>2. QED
  BY <1>1, TypeInit, TypeStep, StreamInit, StreamStep, PTL DEF Spec
-----------------------------------------------------------------------------
(* The promise: ChunkFeed *)

\* A client that streams, and has been sent nothing, waits for the next chunk.
Joined == \A c \in Client : Streaming(c) /\ queue[c] = <<>> /\ got[c] = 0 => c \in listed

LEMMA PutSome ==
  ASSUME NEW n \in Nat, NEW q \in Seq(1..n)
  PROVE  Append(q, n + 1) # <<>>
<1> DEFINE p == Append(q, n + 1)
<1>1. p \in Seq(1..(n + 1)) /\ Len(p) = Len(q) + 1 /\ Len(q) \in Nat
  BY PutType
<1> HIDE DEF p
<1>2. p # <<>>
  BY <1>1, EmptySeq
<1> QED
  BY <1>2 DEF p

LEMMA JoinedStep == TypeInv /\ StreamInv /\ Joined /\ [Next]_vars => Joined'
<1> SUFFICES ASSUME TypeInv, StreamInv, Joined, [Next]_vars PROVE Joined'
  OBVIOUS
<1> USE DEF Joined, Streaming
<1>1. ASSUME listed' = listed, queue' = queue, got' = got,
             \A c \in Client : Streaming(c)' => Streaming(c)
      PROVE  Joined'
  BY <1>1
<1>2. ASSUME NEW c \in Client, NoEntry(c) \/ Loop(c) \/ Nothing(c) \/ Drained(c) PROVE Joined'
  BY <1>2 DEF NoEntry, Loop, Nothing, Drained, TypeInv, TypeOK, streams
<1>3. ASSUME NEW c \in Client, NEW o \in Output, NEW g \in 1..MaxGen, Presents(c, o, g)
      PROVE  Joined'
  BY <1>3 DEF Presents, TypeInv, TypeOK, streams
<1>4. ASSUME NEW c \in Client, Greeted(c) PROVE Joined'
  BY <1>4 DEF Greeted, TypeInv, TypeOK
<1>5. ASSUME NEW c \in Client, Leave(c) PROVE Joined'
  BY <1>5 DEF Leave, Unlist, TypeInv, TypeOK
<1>6. ASSUME NEW c \in Client, Write(c) PROVE Joined'
  <2>1. /\ queue[c] \in Seq(1..chunk) /\ queue[c] # <<>> /\ chunk \in Nat
        /\ got' = [got EXCEPT ![c] = Head(queue[c])] /\ listed' = listed
        /\ queue' = [queue EXCEPT ![c] = Tail(queue[c])]
        /\ at' = [at EXCEPT ![c] = "writing"]
        /\ \A d \in Client \ {c} : queue'[d] = queue[d] /\ got'[d] = got[d] /\ at'[d] = at[d]
    BY <1>6, OutputAssumption DEF Write, TypeInv, TypeOK
  <2>2. Head(queue[c]) \in 1..chunk
    BY <2>1, TakeType
  <2>3. got'[c] # 0
    BY <2>1, <2>2 DEF TypeInv, TypeOK
  <2>4. QED
    BY <2>1, <2>3
<1>7. CASE Broadcast
  <2>1. ASSUME NEW c \in Client, Streaming(c), queue'[c] = <<>>, got[c] = 0
        PROVE  c \in listed'
    <3>1. queue[c] \in Seq(1..chunk) /\ queue'[c] = Put(c)
      BY <1>7 DEF Broadcast, TypeInv, TypeOK
    <3>2. queue[c] = <<>> /\ ~(c \in listed /\ ~Full(c))
      <4>1. Append(queue[c], chunk + 1) # <<>>
        <5>1. chunk \in Nat
          BY OutputAssumption DEF TypeInv, TypeOK
        <5> QED
          BY <3>1, <5>1, PutSome
      <4> QED
        BY <2>1, <3>1, <4>1 DEF Put
    <3>3. ~Full(c)
      BY <3>2, OutputAssumption DEF Full
    <3>4. QED
      BY <2>1, <3>2, <3>3
  <2>2. at' = at /\ got' = got
    BY <1>7 DEF Broadcast
  <2>3. QED
    BY <2>1, <2>2
<1>8. CASE Restart
  BY <1>8 DEF Restart
<1>9. QED
  BY <1>1, <1>2, <1>3, <1>4, <1>5, <1>6, <1>7, <1>8
  DEF Next, Dashboard, Handler, Create, Update, Signal, Generate, Delete, DashboardEnds,
      Read, Clear, ClearFails, Dropped, DrainFails, tables, streams, vars

\* A client that nothing is written to, and that stays where it was: outside,
\* streaming, or gone.
LEMMA DueKept ==
  ASSUME NEW c \in Client, at[c] \in Place, at'[c] \in Place,
         queue'[c] = queue[c], got'[c] = got[c], chunk' = chunk,
         at'[c] = "gone" <=> at[c] = "gone",
         at'[c] \in {"new", "greeting"} <=> at[c] \in {"new", "greeting"}
  PROVE  Due(c)' = Due(c)
<1>1. Streaming(c)' <=> Streaming(c)
  BY DEF Streaming, Place
<1>2. CASE at[c] = "gone"
  BY <1>2 DEF Due
<1>3. CASE at[c] \in {"new", "greeting"}
  BY <1>3 DEF Due, Streaming
<1>4. CASE Streaming(c)
  BY <1>1, <1>4 DEF Due, Streaming
<1> QED
  BY <1>2, <1>3, <1>4 DEF Place, Streaming

\* A chunk is read: whoever waits for the next now has it.
LEMMA DueRead ==
  ASSUME TypeInv, StreamInv, Joined, Broadcast, NEW c \in Client
  PROVE  Due(c)' = Due(c)
<1>1. /\ queue[c] \in Seq(1..chunk) /\ queue'[c] = Put(c) /\ got'[c] = got[c]
      /\ chunk \in Nat /\ chunk' = chunk + 1 /\ at'[c] = at[c] /\ at[c] \in Place /\ got[c] \in Nat
  BY OutputAssumption DEF Broadcast, TypeInv, TypeOK
<1>2. CASE ~Streaming(c)
  BY <1>1, <1>2 DEF Due, Streaming, Place
<1>3. CASE Streaming(c) /\ queue[c] # <<>>
  <2>1. queue'[c] # <<>> /\ Head(queue'[c]) = Head(queue[c])
    BY <1>1, <1>3 DEF Put
  <2> QED
    BY <1>1, <1>3, <2>1 DEF Due, Streaming
<1>4. CASE Streaming(c) /\ queue[c] = <<>>
  <2>1. ~Full(c)
    BY <1>4, OutputAssumption DEF Full
  <2>2. c \in listed => queue'[c] # <<>> /\ Head(queue'[c]) = chunk + 1
    BY <1>1, <1>4, <2>1 DEF Put
  <2>3. c \notin listed => queue'[c] = <<>> /\ got[c] # 0
    BY <1>1, <1>4 DEF Put, Joined
  <2>4. c \in listed /\ got[c] # 0 => got[c] = chunk
    BY <1>4 DEF StreamInv, NoGap, Unbroken
  <2>5. Due(c) = IF got[c] # 0 THEN got[c] + 1 ELSE chunk + 1
    BY <1>4 DEF Due, Streaming
  <2>6. Due(c)' = IF queue'[c] # <<>> THEN Head(queue'[c])
                  ELSE IF got[c] # 0 THEN got[c] + 1 ELSE chunk + 2
    BY <1>1, <1>4 DEF Due, Streaming
  <2> QED
    BY <1>1, <2>2, <2>3, <2>4, <2>5, <2>6
<1> QED
  BY <1>2, <1>3, <1>4

\* A chunk is written: the one that was due, and the next is due.
LEMMA DueWritten ==
  ASSUME TypeInv, StreamInv, NEW c \in Client, Write(c)
  PROVE  /\ Due(c) \in 1..chunk /\ got' = [got EXCEPT ![c] = Due(c)]
         /\ Due(c)' = Due(c) + 1
<1> DEFINE q == queue[c]
<1>1. /\ q \in Seq(1..chunk) /\ q # <<>> /\ chunk \in Nat /\ Streaming(c) /\ Streaming(c)'
      /\ at'[c] = "writing" /\ at[c] = "waiting"
      /\ queue'[c] = Tail(q) /\ got'[c] = Head(q)
      /\ got' = [got EXCEPT ![c] = Head(q)]
  BY OutputAssumption DEF Write, TypeInv, TypeOK, Streaming
<1>2. Due(c) = Head(q)
  BY <1>1 DEF Due
<1>3. \A i \in 1..(Len(q) - 1) : q[i + 1] = q[i] + 1
  BY DEF StreamInv, NoGap, Unbroken
<1> HIDE DEF q
<1>4. Head(q) \in 1..chunk /\ Tail(q) \in Seq(1..chunk)
  BY <1>1, TakeType
<1>5. /\ Head(q) = q[1]
      /\ Tail(q) # <<>> => Tail(q)[1] = q[1] + 1
  BY <1>1, <1>3, TakeUnbroken
<1>6. Due(c)' = IF Tail(q) # <<>> THEN Head(Tail(q)) ELSE Head(q) + 1
  <2>1. Head(q) # 0
    BY <1>1, <1>4
  <2> QED
    BY <1>1, <2>1 DEF Due
<1>7. Tail(q) # <<>> => Head(Tail(q)) = Tail(q)[1]
  BY <1>4
<1> QED
  BY <1>1, <1>2, <1>4, <1>5, <1>6, <1>7

\* Each step reads a chunk, lets a client in, sends a chunk that is due, parts
\* clients, or changes nothing a client sees.
LEMMA FeedStep ==
  TypeInv /\ TypeInv' /\ StreamInv /\ Joined /\ [Next]_vars
    => [Feed!Next]_<<chunk, got, [c \in Client |-> Due(c)]>>
<1> SUFFICES ASSUME TypeInv, TypeInv', StreamInv, Joined, [Next]_vars
             PROVE  [Feed!Next]_<<chunk, got, [c \in Client |-> Due(c)]>>
  OBVIOUS
<1> DEFINE due == [c \in Client |-> Due(c)]
<1>0. /\ at \in [Client -> Place] /\ at' \in [Client -> Place]
      /\ due' = [c \in Client |-> Due(c)']
  BY DEF TypeInv, TypeOK
<1> USE DEF Feed!Next
<1>1. ASSUME chunk' = chunk, got' = got, \A c \in Client : Due(c)' = Due(c)
      PROVE  UNCHANGED <<chunk, got, due>>
  BY <1>0, <1>1
<1>2. ASSUME NEW S \in SUBSET Client, chunk' = chunk, got' = got,
             \A c \in S : at'[c] = "gone",
             \A c \in Client \ S : Due(c)' = Due(c)
      PROVE  Feed!Part(S)
  BY <1>0, <1>2 DEF Due, Feed!Part, Feed!Gone
<1>3. ASSUME NEW c \in Client, at'[c] = "gone", chunk' = chunk, got' = got,
             \A d \in Client \ {c} : at'[d] = at[d] /\ queue'[d] = queue[d]
      PROVE  Feed!Part({c})
  BY <1>0, <1>2, <1>3, DueKept
<1>4. ASSUME UNCHANGED <<at, queue, got, chunk>>
      PROVE  UNCHANGED <<chunk, got, due>>
  BY <1>0, <1>1, <1>4, DueKept
<1>5. ASSUME NEW c \in Client, NoEntry(c) \/ Leave(c) PROVE Feed!Part({c})
  BY <1>0, <1>3, <1>5 DEF NoEntry, Leave, streams, TypeInv, TypeOK
<1>6. ASSUME NEW c \in Client, NEW o \in Output, NEW g \in 1..MaxGen, Presents(c, o, g)
      PROVE  Feed!Part({c}) \/ UNCHANGED <<chunk, got, due>>
  <2>1. /\ chunk' = chunk /\ got' = got /\ queue' = queue /\ at[c] = "new"
        /\ \A d \in Client \ {c} : at'[d] = at[d]
        /\ at'[c] \in {"greeting", "gone"}
    BY <1>0, <1>6 DEF Presents, streams
  <2>2. CASE at'[c] = "gone"
    BY <1>3, <2>1, <2>2
  <2>3. CASE at'[c] = "greeting"
    <3>1. \A d \in Client : Due(d)' = Due(d)
      BY <1>0, <2>1, <2>3, DueKept
    <3> QED
      BY <1>1, <2>1, <3>1
  <2> QED
    BY <2>1, <2>2, <2>3
<1>7. ASSUME NEW c \in Client, Loop(c) \/ Nothing(c) \/ Drained(c)
      PROVE  UNCHANGED <<chunk, got, due>>
  <2>1. /\ chunk' = chunk /\ got' = got /\ queue' = queue
        /\ at[c] \in {"looping", "waiting", "writing"}
        /\ at'[c] \in {"looping", "waiting", "writing"}
        /\ \A d \in Client \ {c} : at'[d] = at[d]
    BY <1>0, <1>7 DEF Loop, Nothing, Drained, streams
  <2>2. \A d \in Client : Due(d)' = Due(d)
    BY <1>0, <2>1, DueKept
  <2> QED
    BY <1>1, <2>1, <2>2
<1>8. ASSUME NEW c \in Client, Greeted(c) PROVE Feed!Join(c) \/ Feed!Part({c})
  <2>1. /\ chunk' = chunk /\ got' = got /\ queue' = queue /\ at[c] = "greeting"
        /\ \A d \in Client \ {c} : at'[d] = at[d]
        /\ at'[c] \in {"looping", "gone"}
        /\ queue[c] = <<>> /\ got[c] = 0
    BY <1>0, <1>8 DEF Greeted, StreamInv, Fresh
  <2>2. CASE at'[c] = "gone"
    BY <1>3, <2>1, <2>2
  <2>3. CASE at'[c] = "looping"
    <3>1. \A d \in Client \ {c} : Due(d)' = Due(d)
      BY <1>0, <2>1, DueKept
    <3>2. Due(c) = 0 /\ Due(c)' = chunk + 1
      BY <2>1, <2>3 DEF Due, Streaming
    <3>3. due' = [due EXCEPT ![c] = chunk + 1] /\ due[c] = 0
      BY <1>0, <3>1, <3>2
    <3> QED
      BY <2>1, <3>3 DEF Feed!Join
  <2> QED
    BY <2>1, <2>2, <2>3
<1>9. ASSUME NEW c \in Client, Write(c) PROVE Feed!Send(c)
  <2>1. /\ chunk' = chunk
        /\ \A d \in Client \ {c} : queue'[d] = queue[d] /\ got'[d] = got[d] /\ at'[d] = at[d]
    BY <1>9 DEF Write, TypeInv, TypeOK
  <2>2. \A d \in Client \ {c} : Due(d)' = Due(d)
    BY <1>0, <2>1, DueKept
  <2>3. /\ Due(c) \in 1..chunk /\ got' = [got EXCEPT ![c] = Due(c)]
        /\ Due(c)' = Due(c) + 1
    BY <1>9, DueWritten
  <2>4. due' = [due EXCEPT ![c] = @ + 1] /\ due[c] = Due(c)
    BY <1>0, <2>2, <2>3
  <2> QED
    BY <2>1, <2>3, <2>4 DEF Feed!Send
<1>10. ASSUME Broadcast PROVE Feed!Next
  <2>1. chunk < MaxChunk /\ chunk' = chunk + 1 /\ got' = got
    BY <1>10 DEF Broadcast
  <2>2. due' = due
    BY <1>0, <1>10, DueRead
  <2> QED
    BY <2>1, <2>2 DEF Feed!Read
<1>11. ASSUME Restart PROVE Feed!Next
  <2> DEFINE S == {c \in Client : at[c] # "new"}
  <2>1. /\ chunk' = chunk /\ got' = got
        /\ \A c \in S : at'[c] = "gone"
        /\ \A c \in Client \ S : at'[c] = "new" /\ at[c] = "new"
    BY <1>11 DEF Restart
  <2>2. \A c \in Client \ S : Due(c)' = Due(c)
    BY <2>1 DEF Due, Streaming
  <2> QED
    BY <1>2, <2>1, <2>2
<1> HIDE DEF due, Feed!Next
<1>12. UNCHANGED <<at, queue, got, chunk>> => UNCHANGED <<chunk, got, due>>
  BY <1>4
<1>13. Feed!Next \/ UNCHANGED <<chunk, got, due>>
  <2>1. ASSUME NEW c \in Client, Handler(c) PROVE Feed!Next \/ UNCHANGED <<chunk, got, due>>
    BY <1>5, <1>6, <1>7, <1>8, <1>9, <2>1 DEF Handler, Dropped, DrainFails, Feed!Next
  <2>2. Dashboard \/ Read \/ Clear \/ ClearFails \/ UNCHANGED vars => UNCHANGED <<at, queue, got, chunk>>
    BY DEF Dashboard, Create, Update, Signal, Generate, Delete, DashboardEnds,
           Read, Clear, ClearFails, tables, streams, vars
  <2>3. Broadcast \/ Restart => Feed!Next
    BY <1>10, <1>11 DEF Feed!Next
  <2> QED
    BY <1>12, <2>1, <2>2, <2>3 DEF Next
<1> QED
  BY <1>13 DEF due

\* What _handle_output_client writes of what _broadcast_beast_to_output_clients
\* queues is what ChunkFeed promises: from its entry on each chunk once, in order,
\* none skipped, until the client is gone.
THEOREM OutputImplementsFeed == Spec => IsChunkFeed
<1>1. Init => Feed!Init /\ Joined
  BY DEF Init, Feed!Init, Due, Joined, Streaming
<1>2. TypeInv /\ TypeInv' /\ StreamInv /\ Joined /\ [Next]_vars
        => [Feed!Next]_<<chunk, got, [c \in Client |-> Due(c)]>>
  BY FeedStep
<1>3. QED
  BY <1>1, <1>2, TypeInit, TypeStep, StreamInit, StreamStep, JoinedStep, PTL
  DEF Spec, IsChunkFeed, Feed!Spec
=============================================================================
