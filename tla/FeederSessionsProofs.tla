------------------------ MODULE FeederSessionsProofs ------------------------
(* Theorems about FeederSessions, for any number of sessions, rows, bytes and *)
(* any timeouts.                                                              *)
EXTENDS FeederSessions, TLAPS

-----------------------------------------------------------------------------
(* Types *)

\* The flusher never remembers more than was forwarded.
FlushedBounded == \A s \in Active : sess[s].flushed <= sess[s].bytes

TypeInv == TypeOK /\ FlushedBounded

LEMMA ActiveType == Active \subseteq Session
  BY DEF Active

\* What is left to flush is a number of bytes.
LEMMA UnflushedType ==
  ASSUME TypeInv, NEW s \in Active
  PROVE  Unflushed(s) \in Nat
  BY DEF TypeInv, TypeOK, FlushedBounded, Info, Unflushed, Active

LEMMA NoRowType == NoRow \in Row
  BY SizesAssumption DEF NoRow, Row

\* A row that was just seen.
LEMMA SeenType ==
  ASSUME NEW c \in [Session -> Nat]
  PROVE  Seen(c) \in Row
  BY SizesAssumption DEF Seen, Row

\* The row that update_feeder_stats leaves, in the finally block ...
LEMMA CreditedType ==
  ASSUME TypeInv, NEW s \in Active, NEW f \in FeederId
  PROVE  Credited(f, s) \in Row
<1>1. feeder[f].credit \in [Session -> Nat]
  BY DEF TypeInv, TypeOK, Row
<1>2. Unflushed(s) \in Nat
  BY UnflushedType
<1>3. [feeder[f].credit EXCEPT ![s] = @ + Unflushed(s)] \in [Session -> Nat]
  BY <1>1, <1>2, ActiveType
<1>4. QED
  BY <1>3, SeenType DEF Credited

\* ... and in the flusher's loop.
LEMMA FlushedType ==
  ASSUME TypeInv, NEW S \in SUBSET Active, NEW f \in FeederId
  PROVE  Flushed(f, S) \in Row
<1>1. feeder[f] \in Row
  BY DEF TypeInv, TypeOK
<1>2. \A s \in S : Unflushed(s) \in Nat
  BY UnflushedType
<1>3. Credits(f, S) \in [Session -> Nat]
  BY <1>1, <1>2 DEF Credits, Row
<1>4. QED
  BY <1>1, <1>3, SeenType DEF Flushed

LEMMA MarkedType ==
  ASSUME TypeInv, NEW f \in FeederId
  PROVE  Marked(f) \in Row
  BY DEF TypeInv, TypeOK, Marked, Row

\* Upserting keeps the table's type.
LEMMA UpsertType ==
  ASSUME TypeInv, NEW f \in FeederId, Upsert(f)
  PROVE  /\ rows' \subseteq FeederId
         /\ feeder' \in [FeederId -> Row]
         /\ nextId' \in 1..(MaxFeeder + 1)
<1>1. CASE UpdateRow(f)
  <2>1. feeder[f].credit \in [Session -> Nat]
    BY DEF TypeInv, TypeOK, Row
  <2>2. Seen(feeder[f].credit) \in Row
    BY <2>1, SeenType
  <2>3. QED
    BY <1>1, <2>2 DEF UpdateRow, TypeInv, TypeOK
<1>2. CASE InsertRow(f)
  <2>1. Seen(NoRow.credit) \in Row
    BY SeenType DEF NoRow
  <2>2. QED
    BY <1>2, <2>1, SizesAssumption DEF InsertRow, TypeInv, TypeOK, FeederId
<1>3. QED
  BY <1>1, <1>2 DEF Upsert

\* Closing and flushing keeps conn_info's type and the bound.
LEMMA FlushSessionsType ==
  ASSUME TypeInv, NEW S \in SUBSET Active, FlushSessions(S), UNCHANGED pc
  PROVE  sess' \in [Session -> Info] /\ FlushedBounded'
<1>1. \A s \in Session : Idle(s) \in BOOLEAN
  BY DEF Idle
<1>2. \A s \in Session : sess'[s] \in Info
  <2> TAKE s \in Session
  <2>1. sess[s] \in Info
    BY DEF TypeInv, TypeOK
  <2>2. CASE s \notin Active
    BY <2>1, <2>2 DEF FlushSessions
  <2>3. CASE s \in Active
    <3> DEFINE shut == sess[s].shut \/ Idle(s)
               flushed == IF s \in S THEN sess[s].bytes ELSE sess[s].flushed
    <3>1. sess'[s] = [sess[s] EXCEPT !.shut = shut, !.flushed = flushed]
      BY <2>3 DEF FlushSessions
    <3>2. shut \in BOOLEAN
      BY Zenon
    <3>3. flushed \in Nat
      BY <2>1 DEF Info
    <3> HIDE DEF shut, flushed
    <3>4. QED
      BY <2>1, <3>1, <3>2, <3>3 DEF Info
  <2>4. QED
    BY <2>2, <2>3
<1>3. Active' = Active
  BY DEF Active
<1>4. ASSUME NEW s \in Active
      PROVE  sess'[s].flushed <= sess'[s].bytes
  <2>1. sess[s] \in Info /\ sess[s].flushed <= sess[s].bytes
    BY ActiveType DEF TypeInv, TypeOK, FlushedBounded
  <2>2. /\ sess'[s].bytes = sess[s].bytes
        /\ sess'[s].flushed = IF s \in S THEN sess[s].bytes ELSE sess[s].flushed
    BY <2>1, ActiveType DEF FlushSessions, Info
  <2>3. QED
    BY <2>1, <2>2 DEF Info
<1>5. QED
  BY <1>2, <1>3, <1>4 DEF FlushSessions, FlushedBounded

\* conn_info with some of its fields changed.
LEMMA InfoFidFlushed ==
  ASSUME NEW r \in Info, NEW f \in 0..MaxFeeder, NEW n \in Nat, NEW m \in Nat
  PROVE  [r EXCEPT !.fid = f, !.flushed = n, !.unlogged = m] \in Info
  BY DEF Info

LEMMA InfoUnlogged ==
  ASSUME NEW r \in Info, NEW m \in Nat
  PROVE  /\ [r EXCEPT !.unlogged = m] \in Info
         /\ [r EXCEPT !.unlogged = m].fid = r.fid /\ [r EXCEPT !.unlogged = m].bytes = r.bytes
         /\ [r EXCEPT !.unlogged = m].flushed = r.flushed
         /\ [r EXCEPT !.unlogged = m].silent = r.silent
         /\ [r EXCEPT !.unlogged = m].shut = r.shut
         /\ [r EXCEPT !.unlogged = m].unlogged = m
  BY DEF Info

LEMMA InfoSilent ==
  ASSUME NEW r \in Info, NEW i \in 0..(IdleTicks + 2)
  PROVE  [r EXCEPT !.silent = i] \in Info
  BY DEF Info

LEMMA InfoTasks ==
  ASSUME NEW r \in Info, NEW b \in BOOLEAN, NEW c \in BOOLEAN
  PROVE  [r EXCEPT !.inbound = b, !.outbound = c] \in Info
  BY DEF Info

LEMMA InfoData ==
  ASSUME NEW r \in Info, NEW n \in Nat, NEW i \in 0..(IdleTicks + 2)
  PROVE  [r EXCEPT !.bytes = n, !.silent = i] \in Info
  BY DEF Info

\* A finally block that fails leaves conn_info as it was.
LEMMA FailedSess ==
  ASSUME TypeInv, NEW s \in Session, FinishFails(s)
  PROVE  /\ sess' \in [Session -> Info]
         /\ \A r \in Session :
              /\ sess'[r].fid = sess[r].fid /\ sess'[r].bytes = sess[r].bytes
              /\ sess'[r].flushed = sess[r].flushed
              /\ sess'[r].silent = sess[r].silent /\ sess'[r].shut = sess[r].shut
              /\ r # s => sess'[r] = sess[r]
<1>1. sess[s] \in Info /\ sess \in [Session -> Info]
  BY DEF TypeInv, TypeOK
<1>2. CASE sess' = sess
  BY <1>1, <1>2
<1>3. CASE sess' # sess
  <2> DEFINE m == Unflushed(s)
             new == [sess[s] EXCEPT !.unlogged = m]
  <2>1. m \in Nat
    BY UnflushedType DEF FinishFails, Ending, Active
  <2>2. sess' = [sess EXCEPT ![s] = new]
    BY <1>3 DEF FinishFails
  <2> HIDE DEF m
  <2>3. /\ new \in Info /\ new.fid = sess[s].fid /\ new.bytes = sess[s].bytes
        /\ new.flushed = sess[s].flushed /\ new.silent = sess[s].silent
        /\ new.shut = sess[s].shut
    BY <1>1, <2>1, InfoUnlogged
  <2> HIDE DEF new
  <2>4. QED
    BY <1>1, <2>2, <2>3
<1>4. QED
  BY <1>2, <1>3

LEMMA NoInfoType == NoInfo \in Info
<1>1. 0 \in 0..MaxFeeder /\ 0 \in 0..(IdleTicks + 2)
  BY SizesAssumption
<1>2. QED
  BY <1>1 DEF NoInfo, Info

LEMMA AgeType ==
  ASSUME NEW r \in Row, NEW a \in 0..(PurgeTicks + 1)
  PROVE  [r EXCEPT !.age = a] \in Row
  BY DEF Row

LEMMA OlderType ==
  ASSUME NEW n \in Nat, NEW i \in 0..n
  PROVE  Older(i, n) \in 0..n
  BY DEF Older

LEMMA InitType == Init => TypeInv
<1> SUFFICES ASSUME Init PROVE TypeInv
  OBVIOUS
<1>1. 0 \in 0..(GraceCycles + 1) /\ 1 \in 1..(MaxFeeder + 1)
  BY SizesAssumption
<1>2. TypeOK
  BY <1>1, NoRowType, NoInfoType
     DEF Init, TypeOK, Place, NoConnection, Connection
<1>3. FlushedBounded
  BY DEF Init, FlushedBounded, Active
<1>4. QED
  BY <1>2, <1>3 DEF TypeInv

LEMMA StepType == TypeInv /\ [Next]_vars => TypeInv'
<1> SUFFICES ASSUME TypeInv, [Next]_vars PROVE TypeInv'
  OBVIOUS
<1> USE DEF TypeInv
<1>1. ASSUME NEW s \in Session, Accept(s) PROVE TypeInv'
  BY <1>1 DEF Accept, clock, table, TypeOK, FlushedBounded, Active, Place
<1>2. ASSUME NEW s \in Session, Register(s) PROVE TypeInv'
  <2>1. PICK f \in FeederId :
          /\ Upsert(f)
          /\ sess' = [sess EXCEPT ![s] = [NoInfo EXCEPT !.fid = f]]
          /\ conn' = [conn EXCEPT ![s] = [state |-> "open", bytes |-> 0]]
    BY <1>2 DEF Register
  <2>2. [NoInfo EXCEPT !.fid = f] \in Info
    BY NoInfoType, SizesAssumption DEF Info, FeederId
  <2>3. TypeOK'
    BY <1>2, <2>1, <2>2, UpsertType DEF Register, clock, TypeOK, Place, Connection
  <2>4. FlushedBounded'
    BY <1>2, <2>1 DEF Register, TypeOK, FlushedBounded, Active, NoInfo
  <2>5. QED
    BY <2>3, <2>4
<1>3. ASSUME NEW s \in Session, RegisterFails(s) PROVE TypeInv'
  <2>1. /\ rows' \subseteq FeederId
        /\ feeder' \in [FeederId -> Row]
        /\ nextId' \in 1..(MaxFeeder + 1)
    BY <1>3, UpsertType DEF RegisterFails, table, TypeOK
  <2>2. QED
    BY <1>3, <2>1 DEF RegisterFails, clock, TypeOK, FlushedBounded, Active, Place
<1>4. ASSUME NEW s \in Session, ConnectReadsb(s) PROVE TypeInv'
  <2>1. sess' = [sess EXCEPT ![s] = [sess[s] EXCEPT !.inbound = TRUE, !.outbound = TRUE]]
    BY <1>4 DEF ConnectReadsb
  <2>2. sess' \in [Session -> Info]
    BY <2>1, InfoTasks DEF TypeOK
  <2>3. \A r \in Session : /\ sess'[r].flushed = sess[r].flushed
                            /\ sess'[r].bytes = sess[r].bytes
    BY <2>1 DEF TypeOK, Info
  <2>4. QED
    BY <1>4, <2>2, <2>3
       DEF ConnectReadsb, clock, table, TypeOK, FlushedBounded, Active, Place
<1>5. ASSUME NEW s \in Session, InboundData(s) PROVE TypeInv'
  <2>1. sess' = [sess EXCEPT ![s] = [sess[s] EXCEPT !.bytes = sess[s].bytes + 1, !.silent = 0]]
    BY <1>5 DEF InboundData
  <2>2. sess[s].bytes + 1 \in Nat /\ 0 \in 0..(IdleTicks + 2)
    BY SizesAssumption DEF TypeOK, Info
  <2>3. sess' \in [Session -> Info]
    BY <2>1, <2>2, InfoData DEF TypeOK
  <2>4. \A r \in Session : /\ sess'[r].flushed = sess[r].flushed
                            /\ sess'[r].bytes = IF r = s THEN sess[r].bytes + 1
                                                ELSE sess[r].bytes
    BY <2>1 DEF TypeOK, Info
  <2>5. \A r \in Active : sess[r].flushed \in Nat /\ sess[r].bytes \in Nat
    BY ActiveType DEF TypeOK, Info
  <2>6. FlushedBounded'
    <3>1. Active' = Active
      BY <1>5 DEF InboundData, Active
    <3>2. \A r \in Active : sess'[r].flushed <= sess'[r].bytes
      BY <2>4, <2>5, ActiveType DEF FlushedBounded
    <3>3. QED
      BY <3>1, <3>2 DEF FlushedBounded
  <2>7. QED
    BY <1>5, <2>3, <2>6 DEF InboundData, clock, table, TypeOK
<1>6. ASSUME NEW s \in Session, InboundEnds(s) PROVE TypeInv'
  <2>1. [sess[s] EXCEPT !.inbound = FALSE] \in Info
    BY DEF TypeOK, Info
  <2>2. sess' = [sess EXCEPT ![s] = [sess[s] EXCEPT !.inbound = FALSE]]
    BY <1>6 DEF InboundEnds
  <2>3. sess' \in [Session -> Info]
    BY <2>1, <2>2 DEF TypeOK
  <2>4. \A r \in Session : /\ sess'[r].flushed = sess[r].flushed
                            /\ sess'[r].bytes = sess[r].bytes
    BY <1>6 DEF InboundEnds, TypeOK, Info
  <2>5. QED
    BY <1>6, <2>3, <2>4 DEF InboundEnds, clock, table, TypeOK, FlushedBounded, Active
<1>7. ASSUME NEW s \in Session, OutboundEnds(s) PROVE TypeInv'
  <2>1. [sess[s] EXCEPT !.outbound = FALSE] \in Info
    BY DEF TypeOK, Info
  <2>2. sess' = [sess EXCEPT ![s] = [sess[s] EXCEPT !.outbound = FALSE]]
    BY <1>7 DEF OutboundEnds
  <2>3. sess' \in [Session -> Info]
    BY <2>1, <2>2 DEF TypeOK
  <2>4. \A r \in Session : /\ sess'[r].flushed = sess[r].flushed
                            /\ sess'[r].bytes = sess[r].bytes
    BY <1>7 DEF OutboundEnds, TypeOK, Info
  <2>5. QED
    BY <1>7, <2>3, <2>4 DEF OutboundEnds, clock, table, TypeOK, FlushedBounded, Active
<1>8. ASSUME NEW s \in Session, Finish(s) PROVE TypeInv'
  <2>1. s \in Active
    BY <1>8 DEF Finish, Ending, Active
  <2>2. feeder' \in [FeederId -> Row]
    <3>1. \A f \in FeederId : [Credited(f, s) EXCEPT !.status = "offline"] \in Row
      BY <2>1, CreditedType DEF Row
    <3>2. QED
      BY <1>8, <3>1 DEF Finish, TypeOK
  <2>3. [NoInfo EXCEPT !.fid = sess[s].fid] \in Info
    BY NoInfoType DEF Info, TypeOK
  <2>4. TypeOK'
    <3>1. sess' \in [Session -> Info]
      BY <1>8, <2>3 DEF Finish, TypeOK
    <3>2. conn' \in [Session -> Connection]
      <4>1. sess[s].bytes \in Nat
        BY DEF TypeOK, Info
      <4>2. QED
        BY <1>8, <4>1 DEF Finish, TypeOK, Connection
    <3>3. QED
      BY <1>8, <2>2, <3>1, <3>2 DEF Finish, clock, TypeOK, Place
  <2>5. FlushedBounded'
    BY <1>8 DEF Finish, TypeOK, FlushedBounded, Active
  <2>6. QED
    BY <2>4, <2>5
<1>9. ASSUME NEW s \in Session, FinishFails(s) PROVE TypeInv'
  <2>1. s \in Active
    BY <1>9 DEF FinishFails, Ending, Active
  <2>2. feeder' \in [FeederId -> Row]
    BY <1>9, <2>1, CreditedType DEF FinishFails, table, TypeOK
  <2>3. /\ sess' \in [Session -> Info]
        /\ \A r \in Session : sess'[r].flushed = sess[r].flushed /\ sess'[r].bytes = sess[r].bytes
    BY <1>9, FailedSess
  <2>4. QED
    BY <1>9, <2>1, <2>2, <2>3
       DEF FinishFails, clock, table, TypeOK, FlushedBounded, Active, Place
<1>10. ASSUME StatsCycle PROVE TypeInv'
  <2>1. sess' \in [Session -> Info] /\ FlushedBounded'
    BY <1>10, FlushSessionsType DEF StatsCycle
  <2>2. \A f \in FeederId : feeder'[f] \in Row
    BY <1>10, NoRowType, FlushedType, MarkedType DEF StatsCycle, TypeOK
  <2>3. feeder' \in [FeederId -> Row]
    BY <1>10, <2>2 DEF StatsCycle
  <2>4. cycles' \in 0..(GraceCycles + 1)
    BY <1>10, OlderType, SizesAssumption DEF StatsCycle, TypeOK
  <2>5. QED
    BY <1>10, <2>1, <2>3, <2>4 DEF StatsCycle, TypeOK
<1>11. ASSUME StatsCycleFails PROVE TypeInv'
  <2>1. PICK S \in SUBSET Active :
          /\ FlushSessions(S)
          /\ feeder' = [f \in FeederId |-> IF f \in rows THEN Flushed(f, S) ELSE feeder[f]]
    BY <1>11 DEF StatsCycleFails
  <2>2. sess' \in [Session -> Info] /\ FlushedBounded'
    BY <1>11, <2>1, FlushSessionsType DEF StatsCycleFails
  <2>3. feeder' \in [FeederId -> Row]
    BY <2>1, FlushedType DEF TypeOK
  <2>4. QED
    BY <1>11, <2>2, <2>3 DEF StatsCycleFails, TypeOK
<1>12. ASSUME ProcessEnds PROVE TypeInv'
  <2>1. \A s \in Session :
          [NoInfo EXCEPT !.fid = sess[s].fid, !.flushed = sess[s].flushed,
                         !.unlogged = sess[s].unlogged] \in Info
    BY NoInfoType, InfoFidFlushed DEF TypeOK, Info
  <2>2. pc' \in [Session -> Place]
    BY <1>12 DEF ProcessEnds, TypeOK, Place
  <2>3. Active' = {}
    BY <1>12 DEF ProcessEnds, Active, TypeOK, Place
  <2>4. QED
    BY <1>12, <2>1, <2>2, <2>3 DEF ProcessEnds, table, TypeOK, FlushedBounded
<1>13. ASSUME Shutdown PROVE TypeInv'
  <2>1. pc' \in [Session -> Place] /\ Active' = Active
    BY <1>13 DEF Shutdown, TypeOK, Place, Active
  <2>2. QED
    BY <1>13, <2>1 DEF Shutdown, table, TypeOK, FlushedBounded
<1>14. ASSUME Restart PROVE TypeInv'
  BY <1>14, SizesAssumption DEF Restart, table, TypeOK, FlushedBounded, Active
<1>15. ASSUME Tick PROVE TypeInv'
  <2>1. \A f \in FeederId : [feeder[f] EXCEPT !.age = Older(@, PurgeTicks + 1)] \in Row
    <3>1. \A f \in FeederId : Older(feeder[f].age, PurgeTicks + 1) \in 0..(PurgeTicks + 1)
      BY OlderType, SizesAssumption DEF TypeOK, Row
    <3>2. QED
      BY <3>1, AgeType DEF TypeOK
  <2>2. \A s \in Session : [sess[s] EXCEPT !.silent = Older(@, IdleTicks + 2)] \in Info
    <3>1. \A s \in Session : Older(sess[s].silent, IdleTicks + 2) \in 0..(IdleTicks + 2)
      BY OlderType, SizesAssumption DEF TypeOK, Info
    <3>2. QED
      BY <3>1, InfoSilent DEF TypeOK
  <2>3. TypeOK'
    BY <1>15, <2>1, <2>2 DEF Tick, TypeOK
  <2>4. FlushedBounded'
    BY <1>15 DEF Tick, TypeOK, FlushedBounded, Active, Info
  <2>5. QED
    BY <2>3, <2>4
<1>16. ASSUME NEW S \in SUBSET rows, DeleteRows(S) PROVE TypeInv'
  BY <1>16, NoRowType DEF DeleteRows, clock, TypeOK, FlushedBounded, Active
<1>17. ASSUME Dashboard PROVE TypeInv'
  BY <1>17, <1>16 DEF Dashboard, DeleteFeeder, PurgeInactive, PurgeOld
<1>18. CASE UNCHANGED vars
  BY <1>18 DEF vars, TypeOK, FlushedBounded, Active
<1>19. QED
  BY <1>1, <1>2, <1>3, <1>4, <1>5, <1>6, <1>7, <1>8, <1>9, <1>10, <1>11, <1>12,
     <1>13, <1>14, <1>15, <1>17, <1>18
     DEF Next, Handler

\* Every variable keeps its type: in particular no counter of a row ever goes
\* below zero, since no more is counted as flushed than was forwarded (handle_client,
\* stats_flusher).
THEOREM TypeCorrect == Spec => []TypeOK
<1>1. Init => TypeInv
  BY InitType
<1>2. TypeInv /\ [Next]_vars => TypeInv'
  BY StepType
<1>3. TypeInv => TypeOK
  BY DEF TypeInv
<1>4. QED
  BY <1>1, <1>2, <1>3, PTL DEF Spec

-----------------------------------------------------------------------------
(* Ids and entries *)

\* Every id in use was given out by AUTOINCREMENT: a new row is nobody's.
Ids ==
    /\ rows \subseteq 1..(nextId - 1)
    /\ \A s \in Session : sess[s].fid < nextId

\* A handler logs its connection with its entry, and closes it when the
\* finally block is over.
Logged ==
    \A s \in Session :
        /\ pc[s] \in {"new", "prefix"} => conn[s].state = "none"
        /\ s \in Active \/ pc[s] = "lost" => conn[s].state = "open"

\* active_connections is empty while the process is down.
DownIsEmpty == proxy = "down" => Active = {}

\* A session's feeder changes only when it is registered.
LEMMA FidStep ==
  ASSUME TypeInv, [Next]_vars, NEW r \in Session, ~Register(r)
  PROVE  sess'[r].fid = sess[r].fid
<1> USE DEF TypeInv
<1>1. ASSUME NEW s \in Session, Register(s) PROVE sess'[r].fid = sess[r].fid
  BY <1>1 DEF Register, TypeOK
<1>2. ASSUME NEW s \in Session,
             Accept(s) \/ RegisterFails(s) \/ FinishFails(s)
      PROVE  sess'[r].fid = sess[r].fid
  BY <1>2, FailedSess DEF Accept, RegisterFails
<1>3. ASSUME NEW s \in Session, ConnectReadsb(s) \/ InboundData(s)
      PROVE  sess'[r].fid = sess[r].fid
  BY <1>3 DEF ConnectReadsb, InboundData, TypeOK, Info
<1>4. ASSUME NEW s \in Session, InboundEnds(s) \/ OutboundEnds(s)
      PROVE  sess'[r].fid = sess[r].fid
  <2>1. CASE InboundEnds(s)
    BY <2>1 DEF InboundEnds, TypeOK, Info
  <2>2. CASE OutboundEnds(s)
    BY <2>2 DEF OutboundEnds, TypeOK, Info
  <2>3. QED
    BY <1>4, <2>1, <2>2
<1>5. ASSUME NEW s \in Session, Finish(s) PROVE sess'[r].fid = sess[r].fid
  BY <1>5 DEF Finish, TypeOK, NoInfo
<1>6. ASSUME NEW S \in SUBSET Active, FlushSessions(S)
      PROVE  sess'[r].fid = sess[r].fid
  BY <1>6 DEF FlushSessions, TypeOK, Info
<1>7. CASE StatsCycle \/ StatsCycleFails
  BY <1>6, <1>7 DEF StatsCycle, StatsCycleFails
<1>8. CASE ProcessEnds
  BY <1>8 DEF ProcessEnds, NoInfo
<1>9. CASE Tick
  BY <1>9 DEF Tick, TypeOK, Info
<1>10. CASE Shutdown \/ Restart \/ Dashboard \/ UNCHANGED vars
  BY <1>10 DEF Shutdown, Restart, Dashboard, DeleteFeeder, PurgeInactive, PurgeOld,
               DeleteRows, vars
<1>11. QED
  BY <1>1, <1>2, <1>3, <1>4, <1>5, <1>7, <1>8, <1>9, <1>10 DEF Next, Handler

\* Rows leave the table, or one is added with the next id.
LEMMA RowsStep ==
  ASSUME TypeInv, [Next]_vars
  PROVE  \/ rows' \subseteq rows /\ nextId' = nextId
         \/ \E f \in FeederId : InsertRow(f)
<1>1. ASSUME NEW s \in Session, Register(s) \/ RegisterFails(s)
      PROVE  \/ rows' \subseteq rows /\ nextId' = nextId
             \/ \E f \in FeederId : InsertRow(f)
  BY <1>1 DEF Register, RegisterFails, Upsert, UpdateRow, table
<1>2. ASSUME NEW s \in Session, Handler(s), ~Register(s), ~RegisterFails(s)
      PROVE  rows' \subseteq rows /\ nextId' = nextId
  BY <1>2 DEF Handler, Accept, ConnectReadsb, InboundData, InboundEnds, OutboundEnds,
              Finish, FinishFails, table
<1>3. CASE StatsCycle \/ StatsCycleFails \/ ProcessEnds \/ Shutdown \/ Restart \/ Tick
  BY <1>3 DEF StatsCycle, StatsCycleFails, ProcessEnds, Shutdown, Restart, Tick, table
<1>4. CASE Dashboard \/ UNCHANGED vars
  BY <1>4 DEF Dashboard, DeleteFeeder, PurgeInactive, PurgeOld, DeleteRows, vars
<1>5. QED
  BY <1>1, <1>2, <1>3, <1>4 DEF Next

LEMMA IdsStep == TypeInv /\ Ids /\ [Next]_vars => Ids'
<1> SUFFICES ASSUME TypeInv, Ids, [Next]_vars PROVE Ids'
  OBVIOUS
<1>1. rows' \subseteq 1..(nextId' - 1) /\ nextId <= nextId'
  <2>1. CASE rows' \subseteq rows /\ nextId' = nextId
    BY <2>1 DEF Ids, TypeInv, TypeOK
  <2>2. CASE \E f \in FeederId : InsertRow(f)
    <3>1. rows' = rows \cup {nextId} /\ nextId' = nextId + 1
      BY <2>2 DEF InsertRow
    <3>2. nextId \in Nat \ {0}
      BY SizesAssumption DEF TypeInv, TypeOK
    <3>3. QED
      BY <3>1, <3>2 DEF Ids
  <2>3. QED
    BY <2>1, <2>2, RowsStep
<1>2. ASSUME NEW r \in Session PROVE sess'[r].fid < nextId'
  <2>1. sess'[r].fid = sess[r].fid \/ sess'[r].fid \in rows'
    <3>1. CASE ~Register(r)
      BY <3>1, FidStep
    <3>2. CASE Register(r)
      BY <3>2 DEF Register, Upsert, UpdateRow, InsertRow, NoInfo, TypeInv, TypeOK
    <3>3. QED
      BY <3>1, <3>2
  <2>2. sess[r].fid < nextId /\ sess[r].fid \in Int /\ nextId \in Int /\ nextId' \in Int
    BY StepType DEF Ids, TypeInv, TypeOK, Info
  <2>3. CASE sess'[r].fid = sess[r].fid
    BY <1>1, <2>2, <2>3
  <2>4. CASE sess'[r].fid \in rows'
    <3>1. sess'[r].fid \in 1..(nextId' - 1)
      BY <1>1, <2>4
    <3>2. QED
      BY <2>2, <3>1
  <2>5. QED
    BY <2>1, <2>3, <2>4
<1>3. QED
  BY <1>1, <1>2 DEF Ids

LEMMA LoggedStep == TypeInv /\ Logged /\ [Next]_vars => Logged'
<1> SUFFICES ASSUME TypeInv, Logged, [Next]_vars PROVE Logged'
  OBVIOUS
<1> USE DEF TypeInv, Logged, Active
<1>1. ASSUME NEW s \in Session, Accept(s) \/ RegisterFails(s) \/ ConnectReadsb(s)
      PROVE  Logged'
  BY <1>1 DEF Accept, RegisterFails, ConnectReadsb, TypeOK
<1>2. ASSUME NEW s \in Session, Register(s) PROVE Logged'
  BY <1>2 DEF Register, TypeOK
<1>3. ASSUME NEW s \in Session, InboundData(s) \/ InboundEnds(s) \/ OutboundEnds(s)
      PROVE  Logged'
  BY <1>3 DEF InboundData, InboundEnds, OutboundEnds
<1>4. ASSUME NEW s \in Session, Finish(s) PROVE Logged'
  BY <1>4 DEF Finish, TypeOK, Connection
<1>5. ASSUME NEW s \in Session, FinishFails(s) PROVE Logged'
  BY <1>5 DEF FinishFails, Ending, TypeOK
<1>6. CASE ProcessEnds
  BY <1>6 DEF ProcessEnds, TypeOK
<1>7. CASE Shutdown
  BY <1>7 DEF Shutdown, TypeOK
<1>8. CASE StatsCycle \/ StatsCycleFails \/ Restart \/ Tick
  BY <1>8 DEF StatsCycle, StatsCycleFails, Restart, Tick
<1>9. CASE Dashboard \/ UNCHANGED vars
  BY <1>9 DEF Dashboard, DeleteFeeder, PurgeInactive, PurgeOld, DeleteRows, vars
<1>10. QED
  BY <1>1, <1>2, <1>3, <1>4, <1>5, <1>6, <1>7, <1>8, <1>9 DEF Next, Handler

LEMMA DownStep == TypeInv /\ DownIsEmpty /\ [Next]_vars => DownIsEmpty'
<1> SUFFICES ASSUME TypeInv, DownIsEmpty, [Next]_vars PROVE DownIsEmpty'
  OBVIOUS
<1>1. CASE ProcessEnds
  BY <1>1 DEF ProcessEnds, DownIsEmpty, Active, TypeInv, TypeOK
<1>2. ASSUME NEW s \in Session, Handler(s) PROVE DownIsEmpty'
  BY <1>2 DEF Handler, Accept, Register, RegisterFails, ConnectReadsb, InboundData,
              InboundEnds, OutboundEnds, Finish, FinishFails, DownIsEmpty
<1>3. CASE StatsCycle \/ StatsCycleFails \/ Shutdown \/ Restart
  BY <1>3 DEF StatsCycle, StatsCycleFails, Shutdown, Restart, DownIsEmpty
<1>4. CASE Tick \/ Dashboard \/ UNCHANGED vars
  BY <1>4 DEF Tick, Dashboard, DeleteFeeder, PurgeInactive, PurgeOld, DeleteRows, vars,
              DownIsEmpty, Active
<1>5. QED
  BY <1>1, <1>2, <1>3, <1>4 DEF Next

-----------------------------------------------------------------------------
(* Who is connected *)

\* A step in which no handler registers or finishes, and the process goes on,
\* changes no entry of active_connections.
LEMMA ActiveStep ==
  ASSUME TypeInv, [Next]_vars, ~ProcessEnds,
         \A s \in Session : ~Register(s) /\ ~Finish(s)
  PROVE  /\ Active' = Active
         /\ \A s \in Active : sess'[s].fid = sess[s].fid
         /\ ActiveFeeders' = ActiveFeeders
<1> USE DEF TypeInv, TypeOK
<1>1. ASSUME NEW s \in Session, Handler(s) PROVE Active' = Active
  <2>1. CASE Accept(s) \/ RegisterFails(s) \/ ConnectReadsb(s)
    BY <2>1 DEF Accept, RegisterFails, ConnectReadsb, Active
  <2>2. CASE InboundData(s) \/ InboundEnds(s) \/ OutboundEnds(s)
    BY <2>2 DEF InboundData, InboundEnds, OutboundEnds, Active
  <2>3. CASE FinishFails(s)
    BY <2>3 DEF FinishFails, Ending, Active
  <2>4. QED
    BY <1>1, <2>1, <2>2, <2>3 DEF Handler
<1>2. ASSUME StatsCycle \/ StatsCycleFails \/ Restart \/ Tick PROVE Active' = Active
  BY <1>2 DEF StatsCycle, StatsCycleFails, Restart, Tick, Active
<1>3. ASSUME Shutdown PROVE Active' = Active
  BY <1>3 DEF Shutdown, Active
<1>4. ASSUME Dashboard \/ UNCHANGED vars PROVE Active' = Active
  BY <1>4 DEF Dashboard, DeleteFeeder, PurgeInactive, PurgeOld, DeleteRows, vars, Active
<1>5. Active' = Active
  BY <1>1, <1>2, <1>3, <1>4 DEF Next
<1>6. \A s \in Active : sess'[s].fid = sess[s].fid
  BY FidStep, ActiveType
<1>7. QED
  BY <1>5, <1>6 DEF ActiveFeeders

\* What a registration leaves: the new entry's row was just seen, every other
\* row and entry is what it was.
LEMMA RegisterStep ==
  ASSUME TypeInv, NEW s \in Session, Register(s)
  PROVE  /\ Active' = Active \cup {s}
         /\ \A r \in Session \ {s} : sess'[r] = sess[r]
         /\ sess'[s] = [NoInfo EXCEPT !.fid = sess'[s].fid]
         /\ sess'[s].fid \in FeederId
         /\ feeder'[sess'[s].fid].status = "active"
         /\ feeder'[sess'[s].fid].age = 0
         /\ rows' = rows \cup {sess'[s].fid}
         /\ \A f \in FeederId \ {sess'[s].fid} : feeder'[f] = feeder[f]
<1>1. PICK f \in FeederId :
        /\ Upsert(f)
        /\ sess' = [sess EXCEPT ![s] = [NoInfo EXCEPT !.fid = f]]
  BY DEF Register
<1>2. Active' = Active \cup {s}
  BY DEF Register, Active, TypeInv, TypeOK
<1>3. /\ sess'[s].fid = f
      /\ sess'[s] = [NoInfo EXCEPT !.fid = f]
      /\ \A r \in Session \ {s} : sess'[r] = sess[r]
  BY <1>1 DEF TypeInv, TypeOK, NoInfo
<1>4. \E c : feeder' = [feeder EXCEPT ![f] = Seen(c)]
  BY <1>1 DEF Upsert, UpdateRow, InsertRow
<1>5. rows' = rows \cup {f}
  BY <1>1 DEF Upsert, UpdateRow, InsertRow
<1>6. QED
  BY <1>2, <1>3, <1>4, <1>5 DEF Seen, TypeInv, TypeOK

\* So the row of an entry was just seen, or it is what it was.
LEMMA RegisterRow ==
  ASSUME TypeInv, NEW s \in Session, Register(s),
         NEW r \in Active', sess'[r].fid \in rows'
  PROVE  \/ /\ feeder'[sess'[r].fid].status = "active"
            /\ feeder'[sess'[r].fid].age = 0
         \/ /\ r \in Active /\ sess'[r].fid = sess[r].fid /\ sess[r].fid \in rows
            /\ feeder'[sess[r].fid] = feeder[sess[r].fid]
<1> DEFINE f == sess'[s].fid
<1>1. /\ rows' = rows \cup {f}
      /\ feeder'[f].status = "active"
      /\ feeder'[f].age = 0
      /\ \A g \in FeederId \ {f} : feeder'[g] = feeder[g]
  BY RegisterStep
<1>2. CASE sess'[r].fid = f
  BY <1>1, <1>2
<1>3. CASE sess'[r].fid # f
  <2>1. r \in Active /\ sess'[r].fid = sess[r].fid
    <3>1. Active' = Active \cup {s} /\ \A q \in Session \ {s} : sess'[q] = sess[q]
      BY RegisterStep
    <3>2. r # s
      BY <1>3
    <3>3. r \in Active /\ r \in Session
      BY <3>1, <3>2, ActiveType
    <3>4. QED
      BY <3>1, <3>2, <3>3
  <2>2. sess[r].fid \in rows /\ sess[r].fid \in FeederId \ {f}
    BY <1>1, <1>3, <2>1 DEF TypeInv, TypeOK
  <2> HIDE DEF f
  <2>3. QED
    BY <1>1, <2>1, <2>2
<1>4. QED
  BY <1>2, <1>3

\* What a finally block leaves: one entry less, and its feeder offline.
LEMMA FinishStep ==
  ASSUME TypeInv, NEW s \in Session, Finish(s)
  PROVE  /\ Active' = Active \ {s}
         /\ s \in Active
         /\ \A r \in Session \ {s} : sess'[r] = sess[r]
         /\ sess'[s].fid = sess[s].fid
         /\ \A f \in rows \ {sess[s].fid} : feeder'[f] = feeder[f]
         /\ sess[s].fid \in rows =>
               /\ feeder'[sess[s].fid].status = "offline"
               /\ feeder'[sess[s].fid].age = 0
<1>1. Active' = Active \ {s} /\ s \in Active
  BY DEF Finish, Ending, Active, TypeInv, TypeOK
<1>2. sess'[s].fid = sess[s].fid /\ \A r \in Session \ {s} : sess'[r] = sess[r]
  BY DEF Finish, TypeInv, TypeOK, NoInfo
<1>3. \A f \in rows \ {sess[s].fid} : feeder'[f] = feeder[f]
  BY DEF Finish, TypeInv, TypeOK
<1>4. ASSUME sess[s].fid \in rows
      PROVE  /\ feeder'[sess[s].fid].status = "offline"
             /\ feeder'[sess[s].fid].age = 0
  <2>1. feeder'[sess[s].fid] =
          [Credited(sess[s].fid, s) EXCEPT !.status = "offline"]
    BY <1>4 DEF Finish, TypeInv, TypeOK
  <2>2. QED
    BY <2>1 DEF Credited, Seen
<1>5. QED
  BY <1>1, <1>2, <1>3, <1>4

\* What a cycle of the flusher leaves of a row that stays.
LEMMA CycleStep ==
  ASSUME TypeInv, StatsCycle, NEW f \in rows'
  PROVE  /\ f \in rows
         /\ f \in ActiveFeeders => /\ feeder'[f].status = "active"
                                   /\ feeder'[f].age = 0
         /\ f \notin ActiveFeeders => feeder'[f] = Marked(f)
<1>1. f \in rows \ Purged /\ f \in FeederId
  BY DEF StatsCycle, TypeInv, TypeOK
<1>2. CASE f \in ActiveFeeders
  <2>1. feeder'[f] = Flushed(f, Active)
    BY <1>1, <1>2 DEF StatsCycle
  <2>2. \E s \in Active : sess[s].fid = f
    BY <1>2 DEF ActiveFeeders
  <2>3. QED
    BY <1>1, <1>2, <2>1, <2>2 DEF Flushed, Seen
<1>3. CASE f \notin ActiveFeeders
  BY <1>1, <1>3 DEF StatsCycle
<1>4. QED
  BY <1>1, <1>2, <1>3

\* A row is as it was, or it was seen by the proxy in this step, unless a
\* registration, a finally block, the flusher or the clock wrote it.
LEMMA RowKept ==
  ASSUME TypeInv, [Next]_vars, NEW f \in rows',
         \A s \in Session : ~Register(s) /\ ~Finish(s),
         ~StatsCycle, ~StatsCycleFails, ~Tick
  PROVE  \/ f \in rows /\ feeder'[f] = feeder[f]
         \/ feeder'[f].status = "active" /\ feeder'[f].age = 0
<1> DEFINE Kept == \/ f \in rows /\ feeder'[f] = feeder[f]
                   \/ feeder'[f].status = "active" /\ feeder'[f].age = 0
<1> USE DEF TypeInv, TypeOK
<1>1. ASSUME NEW s \in Session, RegisterFails(s) PROVE Kept
  <2>1. CASE UNCHANGED table
    BY <2>1 DEF table
  <2>2. ASSUME NEW g \in FeederId, Upsert(g) PROVE Kept
    <3>1. \E c : feeder' = [feeder EXCEPT ![g] = Seen(c)]
      BY <2>2 DEF Upsert, UpdateRow, InsertRow
    <3>2. rows' = rows \cup {g}
      BY <2>2 DEF Upsert, UpdateRow, InsertRow
    <3>3. QED
      BY <3>1, <3>2 DEF Seen
  <2>3. QED
    BY <1>1, <2>1, <2>2 DEF RegisterFails
<1>2. ASSUME NEW s \in Session, FinishFails(s) PROVE Kept
  BY <1>2 DEF FinishFails, table, Credited, Seen
<1>3. ASSUME NEW s \in Session,
             \/ Accept(s) \/ ConnectReadsb(s) \/ InboundData(s)
             \/ InboundEnds(s) \/ OutboundEnds(s)
      PROVE  Kept
  BY <1>3 DEF Accept, ConnectReadsb, InboundData, InboundEnds, OutboundEnds, table
<1>4. ASSUME ProcessEnds \/ Shutdown \/ Restart \/ UNCHANGED vars PROVE Kept
  BY <1>4 DEF ProcessEnds, Shutdown, Restart, table, vars
<1>5. ASSUME NEW S \in SUBSET rows, DeleteRows(S) PROVE Kept
  BY <1>5 DEF DeleteRows
<1>6. ASSUME Dashboard PROVE Kept
  BY <1>5, <1>6 DEF Dashboard, DeleteFeeder, PurgeInactive, PurgeOld
<1>7. QED
  BY <1>1, <1>2, <1>3, <1>4, <1>6 DEF Next, Handler

-----------------------------------------------------------------------------
(* Freshness and status of the connected, and of the rest *)

\* The actions by what they do to freshness and status.
LEMMA Quiet ==
  ASSUME [Next]_vars, ~ProcessEnds, ~Shutdown, ~Restart, ~Tick,
         ~StatsCycle, ~StatsCycleFails
  PROVE  UNCHANGED <<proxy, flusher, due, cycles>>
<1>1. ASSUME NEW s \in Session, Handler(s) PROVE UNCHANGED <<proxy, clock>>
  BY <1>1 DEF Handler, Accept, Register, RegisterFails, ConnectReadsb, InboundData,
              InboundEnds, OutboundEnds, Finish, FinishFails
<1>2. ASSUME Dashboard PROVE UNCHANGED <<proxy, clock>>
  BY <1>2 DEF Dashboard, DeleteFeeder, PurgeInactive, PurgeOld, DeleteRows
<1>3. QED
  BY <1>1, <1>2 DEF Next, clock, vars

LEMMA FreshStep ==
  TypeInv /\ DownIsEmpty /\ ConnectedIsFresh /\ [Next]_vars => ConnectedIsFresh'
<1> SUFFICES ASSUME TypeInv, DownIsEmpty, ConnectedIsFresh, [Next]_vars,
                    proxy' = "up", flusher' = "running"
             PROVE  \A s \in Active' : sess'[s].fid \in rows' =>
                       feeder'[sess'[s].fid].age <= (IF due' THEN 1 ELSE 0)
  BY DEF ConnectedIsFresh
<1>1. CASE Restart
  <2>1. Active' = {}
    BY <1>1 DEF Restart, DownIsEmpty, Active
  <2>2. QED
    BY <2>1
<1>2. CASE ProcessEnds \/ Shutdown \/ StatsCycleFails
  BY <1>2 DEF ProcessEnds, Shutdown, StatsCycleFails
<1>3. CASE StatsCycle
  <2>1. Active' = Active /\ \A s \in Active : sess'[s].fid \in ActiveFeeders
    <3>1. Active' = Active
      BY <1>3 DEF StatsCycle, Active
    <3>2. \A s \in Session : ~Register(s)
      BY <1>3 DEF StatsCycle, Register, TypeInv, TypeOK
    <3>3. QED
      BY <3>1, <3>2, FidStep, ActiveType DEF ActiveFeeders
  <2>2. QED
    BY <1>3, <2>1, CycleStep
<1>4. CASE Tick
  <2>1. ~due /\ due' = TRUE /\ proxy = "up" /\ flusher = "running"
    BY <1>4 DEF Tick
  <2>2. Active' = Active /\ rows' = rows /\ \A s \in Active : sess'[s].fid = sess[s].fid
    BY <1>4, ActiveType DEF Tick, Active, TypeInv, TypeOK, Info
  <2>3. \A f \in rows : feeder'[f].age = Older(feeder[f].age, PurgeTicks + 1)
    BY <1>4 DEF Tick, TypeInv, TypeOK, Row
  <2>4. \A f \in rows : feeder[f].age \in Nat
    BY SizesAssumption DEF TypeInv, TypeOK, Row
  <2>5. \A s \in Active : sess[s].fid \in rows => feeder[sess[s].fid].age <= 0
    BY <2>1 DEF ConnectedIsFresh
  <2>6. \A s \in Active : sess[s].fid \in rows => feeder'[sess[s].fid].age <= 1
    BY <2>3, <2>4, <2>5 DEF Older
  <2>7. QED
    BY <2>1, <2>2, <2>6
<1>5. ASSUME NEW s \in Session, Register(s), NEW r \in Active', sess'[r].fid \in rows'
      PROVE  feeder'[sess'[r].fid].age <= (IF due' THEN 1 ELSE 0)
  <2>1. UNCHANGED <<proxy, flusher, due>>
    BY <1>5 DEF Register, clock
  <2>2. CASE feeder'[sess'[r].fid].age = 0
    BY <2>2
  <2>3. CASE /\ r \in Active /\ sess'[r].fid = sess[r].fid /\ sess[r].fid \in rows
             /\ feeder'[sess[r].fid] = feeder[sess[r].fid]
    BY <1>5, <2>1, <2>3 DEF ConnectedIsFresh
  <2>4. QED
    BY <1>5, <2>2, <2>3, RegisterRow
<1>6. ASSUME NEW s \in Session, Finish(s), NEW r \in Active', sess'[r].fid \in rows'
      PROVE  feeder'[sess'[r].fid].age <= (IF due' THEN 1 ELSE 0)
  <2>1. UNCHANGED <<flusher, due, rows>> /\ proxy = "up"
    BY <1>6 DEF Finish, clock
  <2>2. r \in Active /\ r \in Session \ {s} /\ sess'[r] = sess[r]
    BY <1>6, FinishStep, ActiveType
  <2>3. feeder'[sess[r].fid].age = 0 \/ feeder'[sess[r].fid] = feeder[sess[r].fid]
    BY <1>6, <2>1, <2>2, FinishStep
  <2>4. QED
    BY <1>6, <2>1, <2>2, <2>3 DEF ConnectedIsFresh
<1>7. ASSUME ~ProcessEnds, ~Shutdown, ~Restart, ~Tick, ~StatsCycle, ~StatsCycleFails,
             \A s \in Session : ~Register(s) /\ ~Finish(s),
             NEW r \in Active', sess'[r].fid \in rows'
      PROVE  feeder'[sess'[r].fid].age <= (IF due' THEN 1 ELSE 0)
  <2>1. r \in Active /\ sess'[r].fid = sess[r].fid
    BY <1>7, ActiveStep
  <2>2. UNCHANGED <<proxy, flusher, due>>
    BY <1>7, Quiet
  <2>3. QED
    BY <1>7, <2>1, <2>2, RowKept DEF ConnectedIsFresh
<1>8. QED
  BY <1>1, <1>2, <1>3, <1>4, <1>5, <1>6, <1>7

LEMMA StaleStep ==
  TypeInv /\ StaleMeansDisconnected /\ [Next]_vars => StaleMeansDisconnected'
<1> SUFFICES ASSUME TypeInv, StaleMeansDisconnected, [Next]_vars,
                    NEW r \in Active', sess'[r].fid \in rows'
             PROVE  feeder'[sess'[r].fid].status # "stale"
  BY DEF StaleMeansDisconnected
<1>1. CASE ProcessEnds
  BY <1>1 DEF ProcessEnds, Active, TypeInv, TypeOK
<1>2. CASE StatsCycle
  <2>1. Active' = Active /\ \A s \in Session : ~Register(s)
    BY <1>2 DEF StatsCycle, Register, Active, TypeInv, TypeOK
  <2>2. sess'[r].fid \in ActiveFeeders
    BY <2>1, FidStep, ActiveType DEF ActiveFeeders
  <2>3. QED
    BY <1>2, <2>2, CycleStep
<1>3. CASE StatsCycleFails
  <2>1. Active' = Active /\ \A s \in Session : ~Register(s)
    BY <1>3 DEF StatsCycleFails, Register, Active, TypeInv, TypeOK
  <2>2. r \in Active /\ sess'[r].fid = sess[r].fid
    BY <2>1, FidStep, ActiveType
  <2>3. PICK S \in SUBSET Active :
          feeder' = [f \in FeederId |-> IF f \in rows THEN Flushed(f, S) ELSE feeder[f]]
    BY <1>3 DEF StatsCycleFails
  <2>4. sess[r].fid \in rows /\ sess[r].fid \in FeederId
    BY <1>3, <2>2 DEF StatsCycleFails, TypeInv, TypeOK
  <2>5. feeder'[sess[r].fid] = Flushed(sess[r].fid, S)
    BY <2>3, <2>4
  <2>6. QED
    BY <2>2, <2>4, <2>5 DEF Flushed, Seen, StaleMeansDisconnected
<1>4. CASE Tick
  <2>1. Active' = Active /\ rows' = rows /\ sess'[r].fid = sess[r].fid
    BY <1>4, ActiveType DEF Tick, Active, TypeInv, TypeOK, Info
  <2>2. \A f \in rows : feeder'[f].status = feeder[f].status
    BY <1>4 DEF Tick, TypeInv, TypeOK, Row
  <2>3. QED
    BY <2>1, <2>2 DEF StaleMeansDisconnected
<1>5. ASSUME NEW s \in Session, Register(s) PROVE feeder'[sess'[r].fid].status # "stale"
  BY <1>5, RegisterRow DEF StaleMeansDisconnected
<1>6. ASSUME NEW s \in Session, Finish(s) PROVE feeder'[sess'[r].fid].status # "stale"
  <2>1. r \in Active /\ r \in Session \ {s} /\ sess'[r] = sess[r]
    BY <1>6, FinishStep, ActiveType
  <2>2. rows' = rows
    BY <1>6 DEF Finish
  <2>3. QED
    BY <1>6, <2>1, <2>2, FinishStep DEF StaleMeansDisconnected
<1>7. CASE /\ ~ProcessEnds /\ ~Tick /\ ~StatsCycle /\ ~StatsCycleFails
           /\ \A s \in Session : ~Register(s) /\ ~Finish(s)
  BY <1>7, ActiveStep, RowKept DEF StaleMeansDisconnected
<1>8. QED
  BY <1>1, <1>2, <1>3, <1>4, <1>5, <1>6, <1>7

\* SilentIsClosed is inductive once it says when in a period it holds: before
\* the flusher's run a session may be silent one period longer than after it.
SilentInv ==
    proxy = "up" /\ flusher = "running" =>
        \A s \in Active :
            sess[s].silent > IdleTicks + (IF due THEN 1 ELSE 0) => sess[s].shut

LEMMA SilentInvImplies == TypeInv /\ SilentInv => SilentIsClosed
  BY ActiveType, SizesAssumption DEF TypeInv, TypeOK, Info, SilentInv, SilentIsClosed

LEMMA SilentStep == TypeInv /\ DownIsEmpty /\ SilentInv /\ [Next]_vars => SilentInv'
<1> SUFFICES ASSUME TypeInv, DownIsEmpty, SilentInv, [Next]_vars,
                    proxy' = "up", flusher' = "running", NEW r \in Active',
                    sess'[r].silent > IdleTicks + (IF due' THEN 1 ELSE 0)
             PROVE  sess'[r].shut
  BY DEF SilentInv
<1>1. CASE Restart
  BY <1>1 DEF Restart, DownIsEmpty, Active
<1>2. CASE ProcessEnds \/ Shutdown \/ StatsCycleFails
  BY <1>2 DEF ProcessEnds, Shutdown, StatsCycleFails
<1>3. CASE StatsCycle
  <2>1. r \in Active /\ due' = FALSE
    BY <1>3 DEF StatsCycle, Active
  <2>2. sess'[r] = [sess[r] EXCEPT !.shut = @ \/ Idle(r), !.flushed = sess[r].bytes]
    BY <1>3, <2>1, ActiveType DEF StatsCycle, FlushSessions
  <2>3. sess'[r].silent = sess[r].silent /\ sess'[r].shut = (sess[r].shut \/ Idle(r))
    BY <2>1, <2>2, ActiveType DEF TypeInv, TypeOK, Info
  <2>4. Idle(r)
    BY <2>1, <2>3, SizesAssumption DEF Idle
  <2>5. QED
    BY <2>3, <2>4
<1>4. CASE Tick
  <2>1. ~due /\ due' = TRUE /\ proxy = "up" /\ flusher = "running" /\ r \in Active
    BY <1>4 DEF Tick, Active
  <2>2. sess'[r] = [sess[r] EXCEPT !.silent = Older(@, IdleTicks + 2)]
    BY <1>4, <2>1, ActiveType DEF Tick
  <2>3. sess'[r].silent = Older(sess[r].silent, IdleTicks + 2) /\ sess'[r].shut = sess[r].shut
    BY <2>1, <2>2, ActiveType DEF TypeInv, TypeOK, Info
  <2>4. sess[r].silent \in Nat /\ IdleTicks \in Nat
    BY <2>1, ActiveType, SizesAssumption DEF TypeInv, TypeOK, Info
  <2>5. sess[r].silent > IdleTicks
    BY <2>1, <2>3, <2>4 DEF Older
  <2>6. QED
    BY <2>1, <2>3, <2>4, <2>5 DEF SilentInv
<1>5. ASSUME NEW s \in Session, Register(s) PROVE sess'[r].shut
  <2>1. r # s
    <3>1. CASE r = s
      <4>1. sess'[s].silent = 0
        BY <1>5, RegisterStep DEF NoInfo
      <4>2. QED
        BY <3>1, <4>1, SizesAssumption
    <3>2. QED
      BY <3>1
  <2>2. r \in Active /\ sess'[r] = sess[r] /\ UNCHANGED <<proxy, flusher, due>>
    <3>1. Active' = Active \cup {s} /\ \A q \in Session \ {s} : sess'[q] = sess[q]
      BY <1>5, RegisterStep
    <3>2. QED
      BY <1>5, <2>1, <3>1, ActiveType DEF Register, clock
  <2>3. QED
    BY <2>2 DEF SilentInv
<1>6. ASSUME NEW s \in Session, Finish(s) PROVE sess'[r].shut
  <2>1. r \in Active /\ r \in Session \ {s} /\ sess'[r] = sess[r]
    BY <1>6, FinishStep, ActiveType
  <2>2. UNCHANGED <<flusher, due>> /\ proxy = "up"
    BY <1>6 DEF Finish, clock
  <2>3. QED
    BY <2>1, <2>2 DEF SilentInv
<1>7. ASSUME NEW s \in Session, Handler(s), ~Register(s), ~Finish(s) PROVE sess'[r].shut
  <2>1. r \in Active /\ r \in Session
    <3>1. \A q \in Session : ~Register(q) /\ ~Finish(q)
      BY <1>7 DEF Handler, Accept, RegisterFails, ConnectReadsb, InboundData, InboundEnds,
                  OutboundEnds, FinishFails, Register, Finish, Ending, TypeInv, TypeOK
    <3>2. QED
      BY <1>7, <3>1, ActiveStep, ActiveType DEF Handler, Accept, RegisterFails, ConnectReadsb,
                  InboundData, InboundEnds, OutboundEnds, FinishFails, ProcessEnds
  <2>2. UNCHANGED <<flusher, due>> /\ proxy = "up"
    BY <1>7 DEF Handler, Accept, RegisterFails, ConnectReadsb, InboundData, InboundEnds,
                OutboundEnds, FinishFails, clock
  <2>3. sess'[r].shut = sess[r].shut
    BY <1>7, <2>1 DEF Handler, Accept, RegisterFails, ConnectReadsb, InboundData, InboundEnds,
                OutboundEnds, FinishFails, TypeInv, TypeOK, Info
  <2>4. sess'[r].silent = sess[r].silent \/ sess'[r].silent = 0
    BY <1>7, <2>1 DEF Handler, Accept, RegisterFails, ConnectReadsb, InboundData, InboundEnds,
                OutboundEnds, FinishFails, TypeInv, TypeOK, Info
  <2>5. QED
    BY <2>1, <2>2, <2>3, <2>4, SizesAssumption DEF SilentInv
<1>8. CASE Dashboard \/ UNCHANGED vars
  BY <1>8 DEF Dashboard, DeleteFeeder, PurgeInactive, PurgeOld, DeleteRows, clock, vars,
              SilentInv, Active
<1>9. QED
  BY <1>1, <1>2, <1>3, <1>4, <1>5, <1>6, <1>7, <1>8 DEF Next

LEMMA RecentStep == TypeInv /\ ActiveIsRecent /\ [Next]_vars => ActiveIsRecent'
<1> SUFFICES ASSUME TypeInv, ActiveIsRecent, [Next]_vars,
                    proxy' = "up", flusher' = "running", cycles' > 0,
                    NEW f \in rows', f \notin ActiveFeeders',
                    feeder'[f].status = "active"
             PROVE  feeder'[f].age <= StaleTicks + (IF due' THEN 1 ELSE 0)
  BY DEF ActiveIsRecent
<1>1. CASE ProcessEnds \/ Shutdown \/ StatsCycleFails \/ Restart
  BY <1>1 DEF ProcessEnds, Shutdown, StatsCycleFails, Restart
<1>2. CASE StatsCycle
  <2>1. Active' = Active /\ (\A s \in Session : ~Register(s)) /\ due' = FALSE
    BY <1>2 DEF StatsCycle, Register, Active, TypeInv, TypeOK
  <2>2. ActiveFeeders' = ActiveFeeders
    BY <2>1, FidStep, ActiveType DEF ActiveFeeders
  <2>3. f \in rows /\ f \in FeederId /\ feeder'[f] = Marked(f)
    BY <1>2, <2>2, CycleStep DEF TypeInv, TypeOK
  <2>4. feeder[f].age \in Nat
    BY <2>3, SizesAssumption DEF TypeInv, TypeOK, Row
  <2>5. feeder'[f] = feeder[f] /\ ~(feeder[f].age > StaleTicks)
    BY <2>3 DEF Marked, TypeInv, TypeOK, Row
  <2>6. QED
    BY <2>1, <2>4, <2>5, SizesAssumption
<1>3. CASE Tick
  <2>1. ~due /\ due' = TRUE /\ proxy = "up" /\ flusher = "running" /\ cycles' = cycles
    BY <1>3 DEF Tick
  <2>2. rows' = rows /\ f \in FeederId
    BY <1>3 DEF Tick, TypeInv, TypeOK
  <2>3. f \notin ActiveFeeders
    <3>1. Active' = Active /\ \A s \in Session : ~Register(s)
      BY <1>3 DEF Tick, Active, Register, TypeInv, TypeOK
    <3>2. QED
      BY <3>1, FidStep, ActiveType DEF ActiveFeeders
  <2>4. feeder'[f] = [feeder[f] EXCEPT !.age = Older(@, PurgeTicks + 1)]
    BY <1>3, <2>2 DEF Tick
  <2>5. /\ feeder'[f].status = feeder[f].status
        /\ feeder'[f].age = Older(feeder[f].age, PurgeTicks + 1)
        /\ feeder[f].age \in Nat
    BY <2>2, <2>4, SizesAssumption DEF TypeInv, TypeOK, Row
  <2>6. feeder[f].age <= StaleTicks
    BY <2>1, <2>2, <2>3, <2>5, SizesAssumption DEF ActiveIsRecent
  <2>7. QED
    BY <2>1, <2>5, <2>6, SizesAssumption DEF Older
<1>4. ASSUME NEW s \in Session, Register(s)
      PROVE  feeder'[f].age <= StaleTicks + (IF due' THEN 1 ELSE 0)
  <2> DEFINE g == sess'[s].fid
  <2>1. Active' = Active \cup {s} /\ \A q \in Session \ {s} : sess'[q] = sess[q]
    BY <1>4, RegisterStep
  <2>2. s \notin Active
    BY <1>4 DEF Register, Active
  <2>3. f # g /\ f \notin ActiveFeeders
    BY <2>1, <2>2, ActiveType DEF ActiveFeeders
  <2>4. f \in rows /\ f \in FeederId
    BY <1>4, <2>3, RegisterStep DEF TypeInv, TypeOK
  <2>5. feeder'[f] = feeder[f]
    BY <1>4, <2>3, <2>4, RegisterStep
  <2>6. UNCHANGED <<proxy, flusher, due, cycles>>
    BY <1>4 DEF Register, clock
  <2>7. QED
    BY <2>3, <2>4, <2>5, <2>6 DEF ActiveIsRecent
<1>5. ASSUME NEW s \in Session, Finish(s)
      PROVE  feeder'[f].age <= StaleTicks + (IF due' THEN 1 ELSE 0)
  <2>1. rows' = rows /\ UNCHANGED <<flusher, due, cycles>> /\ proxy = "up"
    BY <1>5 DEF Finish, clock
  <2>2. f # sess[s].fid
    BY <1>5, <2>1, FinishStep
  <2>3. f \notin ActiveFeeders
    BY <1>5, <2>2, FinishStep, ActiveType DEF ActiveFeeders
  <2>4. feeder'[f] = feeder[f]
    BY <1>5, <2>1, <2>2, FinishStep
  <2>5. QED
    BY <2>1, <2>3, <2>4 DEF ActiveIsRecent
<1>6. CASE /\ ~ProcessEnds /\ ~Shutdown /\ ~Restart /\ ~Tick
           /\ ~StatsCycle /\ ~StatsCycleFails
           /\ \A s \in Session : ~Register(s) /\ ~Finish(s)
  <2>1. UNCHANGED <<proxy, flusher, due, cycles>> /\ ActiveFeeders' = ActiveFeeders
    BY <1>6, Quiet, ActiveStep
  <2>2. CASE f \in rows /\ feeder'[f] = feeder[f]
    BY <2>1, <2>2 DEF ActiveIsRecent
  <2>3. CASE feeder'[f].age = 0
    BY <2>3, SizesAssumption
  <2>4. QED
    BY <1>6, <2>2, <2>3, RowKept
<1>7. QED
  BY <1>1, <1>2, <1>3, <1>4, <1>5, <1>6

-----------------------------------------------------------------------------
(* Counters *)

\* What of session s the row of f is to show.
Owed(f, s) ==
    IF conn[s].state = "none" \/ sess[s].fid # f THEN 0
    ELSE IF conn[s].state = "closed" THEN conn[s].bytes
    ELSE sess[s].flushed + sess[s].unlogged

\* Only a handler's own end leaves something credited and not logged.
NothingUnlogged ==
    \A s \in Session : pc[s] \notin {"phantom", "over"} => sess[s].unlogged = 0

LEMMA UnloggedStep == TypeInv /\ NothingUnlogged /\ [Next]_vars => NothingUnlogged'
<1> SUFFICES ASSUME TypeInv, NothingUnlogged, [Next]_vars, NEW s \in Session,
                    pc'[s] \notin {"phantom", "over"}
             PROVE  sess'[s].unlogged = 0
  BY DEF NothingUnlogged
<1> USE DEF TypeInv, TypeOK, NothingUnlogged
<1>1. ASSUME NEW q \in Session, Accept(q) \/ RegisterFails(q) PROVE sess'[s].unlogged = 0
  BY <1>1 DEF Accept, RegisterFails
<1>2. ASSUME NEW q \in Session, Register(q) PROVE sess'[s].unlogged = 0
  BY <1>2 DEF Register, NoInfo
<1>3. ASSUME NEW q \in Session, ConnectReadsb(q) PROVE sess'[s].unlogged = 0
  BY <1>3 DEF ConnectReadsb, Info
<1>4. ASSUME NEW q \in Session, InboundData(q) PROVE sess'[s].unlogged = 0
  BY <1>4 DEF InboundData, Info
<1>5. ASSUME NEW q \in Session, InboundEnds(q) PROVE sess'[s].unlogged = 0
  BY <1>5 DEF InboundEnds, Info
<1>6. ASSUME NEW q \in Session, OutboundEnds(q) PROVE sess'[s].unlogged = 0
  BY <1>6 DEF OutboundEnds, Info
<1>7. ASSUME NEW q \in Session, Finish(q) \/ FinishFails(q) PROVE sess'[s].unlogged = 0
  <2>1. s # q /\ pc'[s] = pc[s]
    BY <1>7 DEF Finish, FinishFails
  <2>2. sess'[s] = sess[s]
    BY <1>7, <2>1, FailedSess DEF Finish
  <2>3. QED
    BY <2>1, <2>2
<1>8. ASSUME NEW S \in SUBSET Active, FlushSessions(S), pc' = pc
      PROVE  sess'[s].unlogged = 0
  BY <1>8 DEF FlushSessions, Info
<1>9. ASSUME StatsCycle \/ StatsCycleFails PROVE sess'[s].unlogged = 0
  BY <1>8, <1>9 DEF StatsCycle, StatsCycleFails
<1>10. ASSUME ProcessEnds PROVE sess'[s].unlogged = 0
  BY <1>10 DEF ProcessEnds, NoInfo
<1>11. ASSUME Shutdown \/ Restart PROVE sess'[s].unlogged = 0
  BY <1>11 DEF Shutdown, Restart
<1>12. ASSUME Tick PROVE sess'[s].unlogged = 0
  BY <1>12 DEF Tick, Info
<1>13. ASSUME Dashboard \/ UNCHANGED vars PROVE sess'[s].unlogged = 0
  BY <1>13 DEF Dashboard, DeleteFeeder, PurgeInactive, PurgeOld, DeleteRows, vars
<1>14. QED
  BY <1>1, <1>2, <1>3, <1>4, <1>5, <1>6, <1>7, <1>9, <1>10, <1>11, <1>12, <1>13
     DEF Next, Handler

\* A registration leaves every credit alone; a new row has none.
LEMMA UpsertCredit ==
  ASSUME TypeInv, NEW g \in FeederId, Upsert(g), NEW f \in rows', NEW s \in Session
  PROVE  \/ f \in rows /\ feeder'[f].credit[s] = feeder[f].credit[s]
         \/ f = nextId /\ feeder'[f].credit[s] = 0
<1>1. CASE UpdateRow(g)
  BY <1>1 DEF UpdateRow, Seen, TypeInv, TypeOK
<1>2. CASE InsertRow(g)
  BY <1>2 DEF InsertRow, Seen, NoRow, TypeInv, TypeOK
<1>3. QED
  BY <1>1, <1>2 DEF Upsert

\* Whatever a step does, it gives session s what is new of its bytes, and once more
\* only what a finally block credited and could not log.
LEMMA CreditStep ==
  ASSUME TypeInv, Ids, Logged, NothingUnlogged, CountersExact, [Next]_vars,
         NEW f \in rows', NEW s \in Session
  PROVE  feeder'[f].credit[s] = Owed(f, s)'
<1> DEFINE Goal == feeder'[f].credit[s] = Owed(f, s)'
<1> USE DEF TypeInv, TypeOK
<1>a. ASSUME f \in rows PROVE feeder[f].credit[s] = Owed(f, s)
  BY <1>a DEF CountersExact, Owed
<1>b. sess[s].fid < nextId /\ nextId \in Nat
  BY SizesAssumption DEF Ids
<1>c. sess[s].flushed \in Nat /\ sess[s].bytes \in Nat /\ sess[s].unlogged \in Nat
  BY DEF Info
<1>1. ASSUME NEW q \in Session, Register(q) PROVE Goal
  <2>1. PICK g \in FeederId :
          /\ Upsert(g)
          /\ sess' = [sess EXCEPT ![q] = [NoInfo EXCEPT !.fid = g]]
          /\ conn' = [conn EXCEPT ![q] = [state |-> "open", bytes |-> 0]]
    BY <1>1 DEF Register
  <2>2. pc[q] = "prefix" /\ conn[q].state = "none"
    BY <1>1 DEF Register, Logged
  <2>3. \/ f \in rows /\ feeder'[f].credit[s] = feeder[f].credit[s]
        \/ f = nextId /\ feeder'[f].credit[s] = 0
    BY <2>1, UpsertCredit
  <2>4. CASE s = q
    <3>1. Owed(f, s)' = 0
      BY <2>1, <2>4 DEF Owed, NoInfo
    <3>2. Owed(f, s) = 0
      BY <2>2, <2>4 DEF Owed
    <3>3. QED
      BY <1>a, <2>3, <3>1, <3>2
  <2>5. CASE s # q
    <3>1. pc'[s] = pc[s] /\ sess'[s] = sess[s] /\ conn'[s] = conn[s]
      BY <1>1, <2>1, <2>5 DEF Register
    <3>2. Owed(f, s)' = Owed(f, s)
      BY <3>1 DEF Owed
    <3>3. f = nextId => Owed(f, s) = 0
      BY <1>b DEF Owed
    <3>4. QED
      BY <1>a, <2>3, <3>2, <3>3
  <2>6. QED
    BY <2>4, <2>5
<1>2. ASSUME NEW q \in Session, RegisterFails(q) PROVE Goal
  <2>1. sess' = sess /\ conn' = conn /\ Owed(f, s)' = Owed(f, s)
    BY <1>2 DEF RegisterFails, Owed
  <2>3. \/ f \in rows /\ feeder'[f].credit[s] = feeder[f].credit[s]
        \/ f = nextId /\ feeder'[f].credit[s] = 0
    BY <1>2, UpsertCredit DEF RegisterFails, table
  <2>4. f = nextId => Owed(f, s) = 0
    BY <1>b DEF Owed
  <2>5. QED
    BY <1>a, <2>1, <2>3, <2>4
<1>3. ASSUME NEW q \in Session, Accept(q) \/ ConnectReadsb(q) \/ InboundData(q)
      PROVE  Goal
  <2>1. rows' = rows /\ feeder' = feeder /\ conn' = conn
    BY <1>3 DEF Accept, ConnectReadsb, InboundData, table
  <2>2. /\ sess'[s].fid = sess[s].fid /\ sess'[s].flushed = sess[s].flushed
        /\ sess'[s].unlogged = sess[s].unlogged
    BY <1>3 DEF Accept, ConnectReadsb, InboundData, Info
  <2>3. QED
    BY <1>a, <2>1, <2>2 DEF Owed
<1>4. ASSUME NEW q \in Session, InboundEnds(q) \/ OutboundEnds(q) PROVE Goal
  <2>1. rows' = rows /\ feeder' = feeder /\ conn' = conn /\ pc' = pc
    BY <1>4 DEF InboundEnds, OutboundEnds, table
  <2>2. /\ sess'[s].fid = sess[s].fid /\ sess'[s].flushed = sess[s].flushed
        /\ sess'[s].unlogged = sess[s].unlogged
    <3>1. CASE InboundEnds(q)
      BY <3>1 DEF InboundEnds, Info
    <3>2. CASE OutboundEnds(q)
      BY <3>2 DEF OutboundEnds, Info
    <3>3. QED
      BY <1>4, <3>1, <3>2
  <2>3. QED
    BY <1>a, <2>1, <2>2 DEF Owed
<1>5. ASSUME NEW q \in Session, Finish(q) PROVE Goal
  <2>1. rows' = rows /\ f \in FeederId /\ pc[q] \in {"connecting", "forwarding", "cancelled"}
    BY <1>5 DEF Finish, Ending
  <2>2. CASE s # q
    <3>1. sess'[s] = sess[s] /\ conn'[s] = conn[s] /\ pc'[s] = pc[s]
      BY <1>5, <2>2 DEF Finish
    <3>2. feeder'[f].credit[s] = feeder[f].credit[s]
      BY <1>5, <2>1, <2>2 DEF Finish, Credited, Seen, Row
    <3>3. QED
      BY <1>a, <2>1, <3>1, <3>2 DEF Owed
  <2>3. CASE s = q
    <3>1. conn[s].state = "open" /\ sess[s].unlogged = 0
      BY <2>1, <2>3 DEF Logged, Active, NothingUnlogged
    <3>2. /\ sess'[s].fid = sess[s].fid
          /\ conn'[s].state = "closed"
          /\ conn'[s].bytes = sess[s].bytes
      BY <1>5, <2>3 DEF Finish, NoInfo, Connection
    <3>3. CASE sess[s].fid # f
      <4>1. feeder'[f] = feeder[f]
        BY <1>5, <2>1, <2>3, <3>3 DEF Finish
      <4>2. QED
        BY <1>a, <2>1, <3>1, <3>2, <3>3, <4>1 DEF Owed
    <3>4. CASE sess[s].fid = f
      <4>1. feeder'[f] = [Credited(f, s) EXCEPT !.status = "offline"]
        BY <1>5, <2>1, <2>3, <3>4 DEF Finish
      <4>2. feeder'[f].credit[s] = feeder[f].credit[s] + Unflushed(s)
        BY <2>1, <4>1 DEF Credited, Seen, Row
      <4>3. feeder[f].credit[s] = sess[s].flushed
        BY <1>a, <1>c, <2>1, <3>1, <3>4 DEF Owed
      <4>4. QED
        BY <1>c, <3>2, <3>4, <4>2, <4>3 DEF Owed, Unflushed
    <3>5. QED
      BY <3>3, <3>4
  <2>4. QED
    BY <2>2, <2>3
<1>6. ASSUME NEW q \in Session, FinishFails(q) PROVE Goal
  <2>1. /\ rows' = rows /\ conn' = conn /\ f \in FeederId
        /\ sess'[s].fid = sess[s].fid /\ sess'[s].flushed = sess[s].flushed
        /\ pc[q] \in {"connecting", "forwarding", "cancelled"}
    BY <1>6, FailedSess DEF FinishFails, Ending, table
  <2>2. CASE s # q
    <3>1. sess'[s] = sess[s]
      BY <1>6, <2>2, FailedSess
    <3>2. feeder'[f].credit[s] = feeder[f].credit[s]
      BY <1>6, <2>1, <2>2 DEF FinishFails, table, Credited, Seen, Row
    <3>3. QED
      BY <1>a, <2>1, <3>1, <3>2 DEF Owed
  <2>3. CASE s = q /\ UNCHANGED <<table, sess>>
    BY <1>a, <2>1, <2>3 DEF Owed, table
  <2>4. CASE /\ s = q /\ sess' = [sess EXCEPT ![q].unlogged = Unflushed(q)]
             /\ feeder' = IF sess[q].fid \in rows
                          THEN [feeder EXCEPT ![sess[q].fid] = Credited(sess[q].fid, q)]
                          ELSE feeder
    <3>1. conn[s].state = "open" /\ sess[s].unlogged = 0
      BY <2>1, <2>4 DEF Logged, Active, NothingUnlogged
    <3>2. sess'[s].unlogged = Unflushed(s)
      BY <2>4 DEF Info
    <3>3. CASE sess[s].fid # f
      <4>1. feeder'[f] = feeder[f]
        BY <2>1, <2>4, <3>3
      <4>2. QED
        BY <1>a, <2>1, <3>1, <3>3, <4>1 DEF Owed
    <3>4. CASE sess[s].fid = f
      <4>1. feeder'[f] = Credited(f, s)
        BY <2>1, <2>4, <3>4
      <4>2. feeder'[f].credit[s] = feeder[f].credit[s] + Unflushed(s)
        BY <2>1, <4>1 DEF Credited, Seen, Row
      <4>3. feeder[f].credit[s] = sess[s].flushed
        BY <1>a, <1>c, <2>1, <3>1, <3>4 DEF Owed
      <4>4. QED
        BY <1>c, <2>1, <3>1, <3>2, <3>4, <4>2, <4>3 DEF Owed
    <3>5. QED
      BY <3>3, <3>4
  <2>5. QED
    BY <1>6, <2>2, <2>3, <2>4 DEF FinishFails
<1>7. ASSUME NEW S \in SUBSET Active, FlushSessions(S), pc' = pc, conn' = conn, f \in rows,
             feeder'[f] = Flushed(f, S)
      PROVE  Goal
  <2>1. f \in FeederId
    BY <1>7
  <2>2. feeder[f].credit[s] = Owed(f, s)
    BY <1>a, <1>7, <2>1
  <2>3. /\ sess'[s].fid = sess[s].fid /\ sess'[s].unlogged = sess[s].unlogged
        /\ sess'[s].flushed = IF s \in S THEN sess[s].bytes ELSE sess[s].flushed
    BY <1>7, ActiveType DEF FlushSessions, Info
  <2>4. CASE s \in S /\ sess[s].fid = f
    <3>1. feeder'[f].credit[s] = feeder[f].credit[s] + Unflushed(s)
      BY <1>7, <2>4 DEF Flushed, Seen, Credits
    <3>2. conn[s].state = "open"
      BY <2>4 DEF Logged
    <3>3. QED
      BY <1>7, <1>c, <2>2, <2>3, <2>4, <3>1, <3>2 DEF Owed, Unflushed
  <2>5. CASE ~(s \in S /\ sess[s].fid = f)
    <3>1. feeder'[f].credit[s] = feeder[f].credit[s]
      BY <1>7, <2>5 DEF Flushed, Seen, Credits
    <3>2. QED
      BY <1>7, <2>2, <2>3, <2>5, <3>1 DEF Owed
  <2>6. QED
    BY <2>4, <2>5
<1>8. ASSUME StatsCycle PROVE Goal
  <2>1. f \in rows \ Purged /\ f \in FeederId /\ pc' = pc /\ conn' = conn
    BY <1>8 DEF StatsCycle
  <2>2. CASE f \in ActiveFeeders
    BY <1>7, <1>8, <2>1, <2>2 DEF StatsCycle
  <2>3. CASE f \notin ActiveFeeders
    <3>1. feeder'[f] = Marked(f)
      BY <1>8, <2>1, <2>3 DEF StatsCycle
    <3>2. feeder'[f].credit = feeder[f].credit
      BY <2>1, <3>1 DEF Marked, Row
    <3>3. s \in Active => sess[s].fid # f
      BY <2>3 DEF ActiveFeeders
    <3>4. /\ sess'[s].fid = sess[s].fid /\ sess'[s].unlogged = sess[s].unlogged
          /\ s \notin Active => sess'[s].flushed = sess[s].flushed
      BY <1>8, ActiveType DEF StatsCycle, FlushSessions, Info
    <3>5. QED
      BY <1>a, <2>1, <3>2, <3>3, <3>4 DEF Owed
  <2>4. QED
    BY <2>2, <2>3
<1>9. ASSUME StatsCycleFails PROVE Goal
  <2>1. PICK S \in SUBSET Active :
          /\ FlushSessions(S)
          /\ feeder' = [g \in FeederId |-> IF g \in rows THEN Flushed(g, S) ELSE feeder[g]]
    BY <1>9 DEF StatsCycleFails
  <2>2. f \in rows /\ f \in FeederId /\ pc' = pc /\ conn' = conn
    BY <1>9 DEF StatsCycleFails
  <2>3. QED
    BY <1>7, <2>1, <2>2
<1>10. ASSUME ProcessEnds PROVE Goal
  <2>1. rows' = rows /\ feeder' = feeder /\ conn' = conn
    BY <1>10 DEF ProcessEnds, table
  <2>2. /\ sess'[s].fid = sess[s].fid /\ sess'[s].flushed = sess[s].flushed
        /\ sess'[s].unlogged = sess[s].unlogged
    BY <1>10 DEF ProcessEnds, NoInfo
  <2>3. QED
    BY <1>a, <2>1, <2>2 DEF Owed
<1>11. ASSUME Shutdown PROVE Goal
  <2>1. rows' = rows /\ feeder' = feeder /\ conn' = conn /\ sess' = sess
    BY <1>11 DEF Shutdown, table
  <2>2. QED
    BY <1>a, <2>1 DEF Owed
<1>12. ASSUME Restart PROVE Goal
  BY <1>12, <1>a DEF Restart, table, Owed
<1>13. ASSUME Tick PROVE Goal
  <2>1. rows' = rows /\ conn' = conn /\ pc' = pc /\ f \in FeederId
    BY <1>13 DEF Tick
  <2>2. feeder'[f].credit = feeder[f].credit
    BY <1>13, <2>1 DEF Tick, Row
  <2>3. /\ sess'[s].fid = sess[s].fid /\ sess'[s].flushed = sess[s].flushed
        /\ sess'[s].unlogged = sess[s].unlogged
    BY <1>13 DEF Tick, Info
  <2>4. QED
    BY <1>a, <2>1, <2>2, <2>3 DEF Owed
<1>14. ASSUME NEW S \in SUBSET rows, DeleteRows(S) PROVE Goal
  BY <1>14, <1>a DEF DeleteRows, Owed
<1>15. ASSUME Dashboard PROVE Goal
  BY <1>14, <1>15 DEF Dashboard, DeleteFeeder, PurgeInactive, PurgeOld
<1>16. ASSUME UNCHANGED vars PROVE Goal
  BY <1>16, <1>a DEF vars, Owed
<1>17. QED
  BY <1>1, <1>2, <1>3, <1>4, <1>5, <1>6, <1>8, <1>9, <1>10, <1>11, <1>12, <1>13,
     <1>15, <1>16 DEF Next, Handler

LEMMA CountersStep ==
  ASSUME TypeInv, Ids, Logged, NothingUnlogged, CountersExact, [Next]_vars
  PROVE  CountersExact'
<1>1. \A f \in rows', s \in Session : feeder'[f].credit[s] = Owed(f, s)'
  BY CreditStep
<1>2. QED
  BY <1>1 DEF CountersExact, Owed

-----------------------------------------------------------------------------
(* Theorems *)

\* The inductive invariant.
SafeInv ==
    /\ TypeInv
    /\ Ids
    /\ Logged
    /\ DownIsEmpty
    /\ NothingUnlogged
    /\ CountersExact
    /\ ConnectedIsFresh
    /\ StaleMeansDisconnected
    /\ SilentInv
    /\ ActiveIsRecent

LEMMA InitSafe == Init => SafeInv
<1> SUFFICES ASSUME Init PROVE SafeInv
  OBVIOUS
<1>1. TypeInv
  BY InitType
<1>2. Active = {} /\ rows = {}
  BY DEF Init, Active
<1>3. Ids
  BY DEF Init, Ids, NoInfo
<1>4. Logged
  BY <1>2 DEF Init, Logged, NoConnection
<1>5. DownIsEmpty /\ CountersExact /\ ConnectedIsFresh /\ StaleMeansDisconnected
  BY <1>2 DEF DownIsEmpty, CountersExact, ConnectedIsFresh, StaleMeansDisconnected
<1>6. SilentInv /\ ActiveIsRecent
  BY <1>2 DEF SilentInv, ActiveIsRecent
<1>7. NothingUnlogged
  BY DEF Init, NothingUnlogged, NoInfo
<1>8. QED
  BY <1>1, <1>3, <1>4, <1>5, <1>6, <1>7 DEF SafeInv

LEMMA StepSafe == SafeInv /\ [Next]_vars => SafeInv'
  BY StepType, IdsStep, LoggedStep, DownStep, UnloggedStep, CountersStep, FreshStep, StaleStep,
     SilentStep, RecentStep
     DEF SafeInv

\* The invariant holds in every reachable state.
THEOREM Safe == Spec => []SafeInv
<1>1. Init => SafeInv
  BY InitSafe
<1>2. SafeInv /\ [Next]_vars => SafeInv'
  BY StepSafe
<1>3. QED
  BY <1>1, <1>2, PTL DEF Spec

\* What a feeder was credited of a session is what its connection row says, or what
\* was flushed, to the byte, whatever the flusher (stats_flusher) and the finally block
\* (handle_client) do, fail at or are stopped at; where log_disconnection raised after
\* update_feeder_stats, it is more by what that had credited, and by no more.
THEOREM CreditsAreExact == Spec => []CountersExact
<1>1. SafeInv => CountersExact
  BY DEF SafeInv
<1>2. QED
  BY <1>1, Safe, PTL

\* The row of a connected feeder was seen in this period or the one before
\* (touch_feeder).
THEOREM ConnectedStaysFresh == Spec => []ConnectedIsFresh
<1>1. SafeInv => ConnectedIsFresh
  BY DEF SafeInv
<1>2. QED
  BY <1>1, Safe, PTL

\* mark_inactive_feeders never leaves a connected feeder stale.
THEOREM StaleIsDisconnected == Spec => []StaleMeansDisconnected
<1>1. SafeInv => StaleMeansDisconnected
  BY DEF SafeInv
<1>2. QED
  BY <1>1, Safe, PTL

\* The idle timeout closes the socket of a silent feeder within a period.
THEOREM SilenceCloses == Spec => []SilentIsClosed
<1>1. SafeInv => SilentIsClosed
  BY SilentInvImplies DEF SafeInv
<1>2. QED
  BY <1>1, Safe, PTL

\* What a crash leaves active is marked stale (mark_inactive_feeders).
THEOREM LeftoversAreMarked == Spec => []ActiveIsRecent
<1>1. SafeInv => ActiveIsRecent
  BY DEF SafeInv
<1>2. QED
  BY <1>1, Safe, PTL

\* The dashboard's purge-old, which excludes nobody, spares the connected.
THEOREM PurgeOldIsHarmless == Spec => PurgeOldSparesConnected
<1> DEFINE Spares == PurgeOld /\ proxy = "up" /\ flusher = "running" =>
                       \A s \in Active : sess[s].fid \in rows => sess[s].fid \in rows'
<1>1. SafeInv => Spares
  <2> SUFFICES ASSUME SafeInv, PurgeOld, proxy = "up", flusher = "running",
                      NEW s \in Active, sess[s].fid \in rows
               PROVE  sess[s].fid \in rows'
    OBVIOUS
  <2>1. feeder[sess[s].fid].age <= 1 /\ feeder[sess[s].fid].age \in Nat
    BY SizesAssumption DEF SafeInv, TypeInv, TypeOK, Row, ConnectedIsFresh
  <2>2. ~(feeder[sess[s].fid].age > PurgeTicks)
    BY <2>1, SizesAssumption
  <2>3. QED
    BY <2>2 DEF PurgeOld, DeleteRows
<1>2. SafeInv /\ [Next]_vars => [Spares]_vars
  BY <1>1
<1>3. QED
  BY <1>2, Safe, PTL DEF Spec, PurgeOldSparesConnected

\* Handlers, flusher, crashes and purges use table feeders as FeederTable says.
THEOREM SessionsImplementTable == Spec => IsFeederTable
<1>1. Init => Table!Init
  BY DEF Init, Table!Init
<1>2. SafeInv /\ [Next]_vars => [Table!Next]_<<rows, nextId>>
  <2> SUFFICES ASSUME SafeInv, [Next]_vars
               PROVE  [Table!Next]_<<rows, nextId>>
    OBVIOUS
  <2>1. CASE rows' \subseteq rows /\ nextId' = nextId
    <3>1. rows' = rows \ (rows \ rows')
      BY <2>1
    <3>2. Table!Delete
      BY <2>1, <3>1 DEF Table!Delete
    <3>3. QED
      BY <3>2 DEF Table!Next
  <2>2. CASE \E f \in FeederId : InsertRow(f)
    BY <2>2 DEF InsertRow, FeederId, Table!Insert, Table!Next, Table!FeederId
  <2>3. QED
    BY <2>1, <2>2, RowsStep DEF SafeInv
<1>3. QED
  BY <1>1, <1>2, Safe, PTL DEF Spec, IsFeederTable, Table!Spec
=============================================================================
