------------------------ MODULE FeederRegistryProofs ------------------------
(* Theorems about FeederRegistry, for any connections, addresses, identities, *)
(* users and resolver answers.                                                *)
EXTENDS FeederRegistry, TLAPS

-----------------------------------------------------------------------------
(* Types *)

LEMMA NoRowType == NoRow \in Row
  BY DEF NoRow, Row, OrNone, ConnType

\* A row with some of its columns changed.
LEMMA RowOwners ==
  ASSUME NEW r \in Row, NEW S \in SUBSET User, NEW l \in BOOLEAN
  PROVE  /\ [r EXCEPT !.owners = S] \in Row
         /\ [r EXCEPT !.owners = S, !.locked = l] \in Row
  BY DEF Row

LEMMA RowClass ==
  ASSUME NEW r \in Row, NEW t \in ConnType, NEW h \in OrNone(Host)
  PROVE  [r EXCEPT !.type = t, !.host = h] \in Row
  BY DEF Row

LEMMA RowHome ==
  ASSUME NEW r \in Row, NEW t \in ConnType, NEW ip \in IP
  PROVE  [r EXCEPT !.ip = ip, !.type = t] \in Row
  BY DEF Row, OrNone

LEMMA AnswerType ==
  ASSUME NEW ip \in IP, NEW a \in Answer[ip]
  PROVE  a.type \in ConnType /\ a.host \in OrNone(Host)
  BY RegistryAssumption

LEMMA HelloType ==
  ASSUME NEW h \in Hello
  PROVE  h.uuid \in OrNone(Uuid) /\ h.mac \in OrNone(Mac) /\ h.claim \in OrNone(User)
  BY RegistryAssumption

\* The row a registration updates.
LEMMA UpdateRowType ==
  ASSUME TypeOK, NEW f \in FeederId, NEW ip \in IP, NEW a \in Answer[ip], NEW h \in Hello,
         UpdateRow(f, ip, a, h)
  PROVE  feeder' \in [FeederId -> Row]
<1>1. feeder[f] \in Row
  BY DEF TypeOK
<1>2. /\ Coalesce(h.uuid, feeder[f].uuid) \in OrNone(Uuid)
      /\ Coalesce(h.mac, feeder[f].mac) \in OrNone(Mac)
      /\ Coalesce(a.host, feeder[f].host) \in OrNone(Host)
  BY <1>1, AnswerType, HelloType DEF Coalesce, Row
<1>3. [feeder[f] EXCEPT !.ip = ip, !.type = a.type,
          !.uuid = Coalesce(h.uuid, @), !.mac = Coalesce(h.mac, @),
          !.host = Coalesce(a.host, @)] \in Row
  BY <1>1, <1>2, AnswerType DEF Row, OrNone
<1>4. QED
  BY <1>3 DEF UpdateRow, TypeOK

LEMMA RehomeRowType ==
  ASSUME TypeOK, NEW f \in FeederId, NEW ip \in IP, NEW a \in Answer[ip], NEW h \in Hello,
         RehomeRow(f, ip, a, h)
  PROVE  feeder' \in [FeederId -> Row]
<1>1. [feeder[f] EXCEPT !.ip = ip, !.type = "netbird"] \in Row
  BY RowHome DEF TypeOK, ConnType
<1>2. QED
  BY <1>1 DEF RehomeRow, TypeOK

LEMMA InsertRowType ==
  ASSUME TypeOK, NEW f \in FeederId, NEW ip \in IP, NEW a \in Answer[ip], NEW h \in Hello,
         InsertRow(f, ip, a, h)
  PROVE  feeder' \in [FeederId -> Row]
<1>1. [ip |-> ip, uuid |-> h.uuid, mac |-> h.mac, host |-> a.host,
       type |-> a.type, owners |-> {}, locked |-> FALSE] \in Row
  BY AnswerType, HelloType DEF Row, OrNone
<1>2. QED
  BY <1>1 DEF InsertRow, TypeOK

\* What a registration does to the table keeps its type.
LEMMA UpsertType ==
  ASSUME TypeOK, NEW f \in FeederId, NEW ip \in IP, NEW a \in Answer[ip], NEW h \in Hello,
         UpdateRow(f, ip, a, h) \/ RehomeRow(f, ip, a, h) \/ InsertRow(f, ip, a, h)
  PROVE  /\ rows' \subseteq FeederId
         /\ feeder' \in [FeederId -> Row]
         /\ nextId' \in 1..(MaxFeeder + 1)
<1>1. CASE UpdateRow(f, ip, a, h)
  BY <1>1, UpdateRowType DEF UpdateRow, TypeOK
<1>2. CASE RehomeRow(f, ip, a, h)
  BY <1>2, RehomeRowType DEF RehomeRow, TypeOK
<1>3. CASE InsertRow(f, ip, a, h)
  <2>1. nextId' \in 1..(MaxFeeder + 1)
    BY <1>3, RegistryAssumption DEF InsertRow, TypeOK, FeederId
  <2>2. QED
    BY <1>3, <2>1, InsertRowType DEF InsertRow, TypeOK
<1>4. QED
  BY <1>1, <1>2, <1>3

\* A handler moves on.
LEMMA TaskMoves ==
  ASSUME NEW t \in Task, NEW p \in {"new", "upserted", "claiming", "logging", "on", "off"}
  PROVE  [t EXCEPT !.at = p] \in Task
  BY DEF Task

LEMMA TaskReads ==
  ASSUME NEW t \in Task, NEW p \in {"new", "upserted", "claiming", "logging", "on", "off"},
         NEW S \in SUBSET User
  PROVE  [t EXCEPT !.at = p, !.owners = S] \in Task
  BY DEF Task

LEMMA InitType == Init => TypeOK
<1> SUFFICES ASSUME Init PROVE TypeOK
  OBVIOUS
<1>1. 0 \in 0..MaxFeeder /\ 1 \in 1..(MaxFeeder + 1)
  BY RegistryAssumption
<1>2. NoTask \in Task
  BY <1>1 DEF NoTask, Task, OrNone
<1>3. QED
  BY <1>1, <1>2, NoRowType DEF Init, TypeOK

\* Only a handler that was sent a claim gets as far as the owners.
Claiming ==
    \A s \in Session : task[s].at \in {"upserted", "claiming"} => task[s].claim \in User

LEMMA StepType == TypeOK /\ Claiming /\ [Next]_vars => TypeOK'
<1> SUFFICES ASSUME TypeOK, Claiming, [Next]_vars PROVE TypeOK'
  OBVIOUS
<1>1. ASSUME NEW s \in Session, Upsert(s) PROVE TypeOK'
  <2>1. PICK ip \in IP, h \in Hello, f \in FeederId :
          /\ \E a \in Answer[ip] :
                UpdateRow(f, ip, a, h) \/ RehomeRow(f, ip, a, h) \/ InsertRow(f, ip, a, h)
          /\ task' = [task EXCEPT ![s] =
                [at |-> IF h.claim = None THEN "logging" ELSE "upserted",
                 fid |-> f, uuid |-> h.uuid, claim |-> h.claim, owners |-> {}]]
    BY <1>1 DEF Upsert
  <2>2. [at |-> IF h.claim = None THEN "logging" ELSE "upserted",
         fid |-> f, uuid |-> h.uuid, claim |-> h.claim, owners |-> {}] \in Task
    BY HelloType, RegistryAssumption DEF Task, FeederId
  <2>3. task' \in [Session -> Task]
    BY <2>1, <2>2 DEF TypeOK
  <2>4. QED
    BY <1>1, <2>1, <2>3, UpsertType DEF Upsert, TypeOK
<1>2. ASSUME NEW s \in Session, ReadOwners(s) PROVE TypeOK'
  <2>1. [task[s] EXCEPT !.at = "logging"] \in Task
    BY TaskMoves DEF TypeOK
  <2>2. task' \in [Session -> Task]
    <3>1. CASE task' = [task EXCEPT ![s].at = "logging"]
      BY <2>1, <3>1 DEF TypeOK
    <3>2. CASE /\ task[s].fid \in rows
               /\ task' = [task EXCEPT ![s].at = "claiming",
                                       ![s].owners = feeder[task[s].fid].owners]
      <4>1. feeder[task[s].fid].owners \in SUBSET User
        BY <3>2 DEF TypeOK, Row
      <4>2. [task[s] EXCEPT !.at = "claiming",
                            !.owners = feeder[task[s].fid].owners] \in Task
        BY <4>1, TaskReads DEF TypeOK
      <4>3. QED
        BY <3>2, <4>2 DEF TypeOK
    <3>3. QED
      BY <1>2, <3>1, <3>2 DEF ReadOwners
  <2>3. QED
    BY <1>2, <2>2 DEF ReadOwners, TypeOK
<1>3. ASSUME NEW s \in Session, WriteOwners(s) PROVE TypeOK'
  <2>1. task' \in [Session -> Task]
    <3>1. [task[s] EXCEPT !.at = "logging", !.owners = {}] \in Task
      BY TaskReads DEF TypeOK
    <3>2. QED
      BY <1>3, <3>1 DEF WriteOwners, TypeOK
  <2>2. feeder' \in [FeederId -> Row]
    <3>1. CASE task[s].fid \notin rows \/ feeder[task[s].fid].locked
      BY <1>3, <3>1 DEF WriteOwners, TypeOK
    <3>2. CASE task[s].fid \in rows /\ ~feeder[task[s].fid].locked
      <4>1. task[s].owners \cup {task[s].claim} \in SUBSET User
        BY <1>3 DEF WriteOwners, Claiming, TypeOK, Task
      <4>2. [feeder[task[s].fid] EXCEPT !.owners = task[s].owners \cup {task[s].claim}] \in Row
        BY <3>2, <4>1, RowOwners DEF TypeOK
      <4>3. QED
        BY <1>3, <4>2 DEF WriteOwners, TypeOK
    <3>3. QED
      BY <3>1, <3>2
  <2>3. QED
    BY <1>3, <2>1, <2>2 DEF WriteOwners, TypeOK
<1>4. ASSUME NEW s \in Session, LogConnection(s) \/ Disconnect(s) PROVE TypeOK'
  <2>1. task' \in [Session -> Task]
    <3>1. \A p \in {"on", "off"} : [task[s] EXCEPT !.at = p] \in Task
      BY TaskMoves DEF TypeOK
    <3>2. \E p \in {"on", "off"} : task' = [task EXCEPT ![s] = [task[s] EXCEPT !.at = p]]
      BY <1>4 DEF LogConnection, Disconnect
    <3>3. QED
      BY <3>1, <3>2 DEF TypeOK
  <2>2. conn' \in [Session -> 0..MaxFeeder]
    BY <1>4 DEF LogConnection, Disconnect, TypeOK, Task
  <2>3. QED
    BY <1>4, <2>1, <2>2 DEF LogConnection, Disconnect, TypeOK
<1>5. ASSUME Reclassify PROVE TypeOK'
  <2>1. task' \in [Session -> Task]
    BY <1>5, TaskMoves DEF Reclassify, TypeOK
  <2>2. PICK a \in [rows -> UNION {Answer[ip] : ip \in IP}] :
          feeder' = [f \in FeederId |->
              IF f \in rows /\ a[f].type # feeder[f].type
              THEN [feeder[f] EXCEPT !.type = a[f].type, !.host = Coalesce(a[f].host, @)]
              ELSE feeder[f]]
    BY <1>5 DEF Reclassify
  <2>3. \A f \in rows : a[f].type \in ConnType /\ a[f].host \in OrNone(Host)
    BY AnswerType
  <2>4. \A f \in rows : Coalesce(a[f].host, feeder[f].host) \in OrNone(Host)
    BY <2>3 DEF Coalesce, TypeOK, Row
  <2>5. \A f \in rows :
          [feeder[f] EXCEPT !.type = a[f].type, !.host = Coalesce(a[f].host, @)] \in Row
    BY <2>3, <2>4, RowClass DEF TypeOK
  <2>6. feeder' \in [FeederId -> Row]
    BY <2>2, <2>5 DEF TypeOK
  <2>7. QED
    BY <1>5, <2>1, <2>6 DEF Reclassify, TypeOK
<1>6. ASSUME NEW f \in FeederId, UpdateOwners(f) PROVE TypeOK'
  <2>1. PICK S \in SUBSET User, l \in BOOLEAN :
          feeder' = [feeder EXCEPT ![f].owners = S, ![f].locked = l]
    BY <1>6 DEF UpdateOwners
  <2>2. [feeder[f] EXCEPT !.owners = S, !.locked = l] \in Row
    BY RowOwners DEF TypeOK
  <2>3. feeder' \in [FeederId -> Row]
    BY <2>1, <2>2 DEF TypeOK
  <2>4. QED
    BY <1>6, <2>3 DEF UpdateOwners, TypeOK
<1>7. ASSUME NEW f \in FeederId, DeleteFeeder(f) PROVE TypeOK'
  BY <1>7, NoRowType DEF DeleteFeeder, TypeOK
<1>8. ASSUME NEW f \in FeederId, NEW into \in FeederId, MergeFeeders(f, into) PROVE TypeOK'
  <2>1. conn' \in [Session -> 0..MaxFeeder]
    BY <1>8, RegistryAssumption DEF MergeFeeders, TypeOK, FeederId
  <2>2. QED
    BY <1>8, <2>1, NoRowType DEF MergeFeeders, TypeOK
<1>9. CASE UNCHANGED vars
  BY <1>9 DEF vars, TypeOK
<1>10. QED
  BY <1>1, <1>2, <1>3, <1>4, <1>5, <1>6, <1>7, <1>8, <1>9 DEF Next

LEMMA ClaimingStep == TypeOK /\ Claiming /\ [Next]_vars => Claiming'
<1> SUFFICES ASSUME TypeOK, Claiming, [Next]_vars, NEW r \in Session,
                    task'[r].at \in {"upserted", "claiming"}
             PROVE  task'[r].claim \in User
  BY DEF Claiming
<1> USE DEF TypeOK
<1>1. ASSUME NEW s \in Session, Upsert(s) PROVE task'[r].claim \in User
  <2>1. PICK h \in Hello, f \in FeederId :
          task' = [task EXCEPT ![s] =
                [at |-> IF h.claim = None THEN "logging" ELSE "upserted",
                 fid |-> f, uuid |-> h.uuid, claim |-> h.claim, owners |-> {}]]
    BY <1>1 DEF Upsert
  <2>2. h.claim # None => h.claim \in User
    BY HelloType DEF OrNone
  <2>3. CASE r = s
    BY <2>1, <2>2, <2>3
  <2>4. CASE r # s
    BY <2>1, <2>4 DEF Claiming
  <2>5. QED
    BY <2>3, <2>4
<1>2. ASSUME NEW s \in Session, ReadOwners(s) PROVE task'[r].claim \in User
  <2>1. task'[r].claim = task[r].claim
    BY <1>2 DEF ReadOwners, Task
  <2>2. task[r].at \in {"upserted", "claiming"}
    BY <1>2 DEF ReadOwners, Task
  <2>3. QED
    BY <2>1, <2>2 DEF Claiming
<1>3. ASSUME NEW s \in Session, WriteOwners(s) \/ LogConnection(s) \/ Disconnect(s)
      PROVE  task'[r].claim \in User
  <2>1. task'[r].claim = task[r].claim
    BY <1>3 DEF WriteOwners, LogConnection, Disconnect, Task
  <2>2. r # s
    BY <1>3 DEF WriteOwners, LogConnection, Disconnect, Task
  <2>3. task'[r].at = task[r].at
    BY <1>3, <2>2 DEF WriteOwners, LogConnection, Disconnect
  <2>4. QED
    BY <2>1, <2>3 DEF Claiming
<1>4. CASE Reclassify
  <2>1. task'[r] = IF task[r].at = "new" THEN task[r] ELSE [task[r] EXCEPT !.at = "off"]
    BY <1>4 DEF Reclassify
  <2>2. task[r] \in Task
    OBVIOUS
  <2>3. task'[r].at \in {"new", "off"}
    BY <2>1, <2>2 DEF Task
  <2>4. QED
    BY <2>3
<1>5. CASE UNCHANGED task
  BY <1>5 DEF Claiming
<1>6. QED
  BY <1>1, <1>2, <1>3, <1>4, <1>5
     DEF Next, UpdateOwners, DeleteFeeder, MergeFeeders, vars

-----------------------------------------------------------------------------
(* Identity *)

\* Matching by uuid before anything else is what keeps uuids apart: a row found
\* by mac or by address, and a new row, is given a uuid that no row has.
LEMMA UniqueStep == TypeOK /\ UuidUnique /\ [Next]_vars => UuidUnique'
<1> SUFFICES ASSUME TypeOK, UuidUnique, [Next]_vars PROVE UuidUnique'
  OBVIOUS
<1> USE DEF TypeOK
<1>1. ASSUME rows' \subseteq rows, \A f \in rows' : feeder'[f].uuid = feeder[f].uuid
      PROVE  UuidUnique'
  BY <1>1 DEF UuidUnique
<1>2. ASSUME NEW f \in FeederId, NEW ip \in IP, NEW a, NEW h \in Hello,
             UpdateRow(f, ip, a, h)
      PROVE  UuidUnique'
  <2>1. rows' = rows /\ f \in Match(h, ip) /\ f \in rows
    BY <1>2 DEF UpdateRow, Match, ByUuid, ByMac, ByIp
  <2>2. /\ feeder'[f].uuid = Coalesce(h.uuid, feeder[f].uuid)
        /\ \A g \in rows \ {f} : feeder'[g] = feeder[g]
    BY <1>2 DEF UpdateRow, Row
  <2>3. CASE h.uuid = None
    <3>1. \A g \in rows' : feeder'[g].uuid = feeder[g].uuid
      BY <2>1, <2>2, <2>3 DEF Coalesce
    <3>2. QED
      BY <1>1, <2>1, <3>1
  <2>4. CASE h.uuid # None
    <3>1. \A g \in rows \ {f} : feeder[g].uuid # h.uuid
      <4>1. CASE ByUuid(h) # {}
        BY <2>1, <2>4, <4>1 DEF Match, ByUuid, UuidUnique
      <4>2. CASE ByUuid(h) = {}
        BY <2>4, <4>2 DEF ByUuid
      <4>3. QED
        BY <4>1, <4>2
    <3>2. feeder'[f].uuid = h.uuid
      BY <2>2, <2>4 DEF Coalesce
    <3>3. QED
      BY <2>1, <2>2, <3>1, <3>2 DEF UuidUnique
  <2>5. QED
    BY <2>3, <2>4
<1>3. ASSUME NEW f \in FeederId, NEW ip \in IP, NEW a, NEW h \in Hello,
             RehomeRow(f, ip, a, h)
      PROVE  UuidUnique'
  <2>1. rows' = rows /\ \A g \in rows' : feeder'[g].uuid = feeder[g].uuid
    BY <1>3 DEF RehomeRow, Row
  <2>2. QED
    BY <1>1, <2>1
<1>4. ASSUME NEW f \in FeederId, NEW ip \in IP, NEW a, NEW h \in Hello,
             InsertRow(f, ip, a, h)
      PROVE  UuidUnique'
  <2>1. ByUuid(h) = {}
    BY <1>4 DEF InsertRow, Match
  <2>2. h.uuid # None => \A g \in rows : feeder[g].uuid # h.uuid
    BY <2>1 DEF ByUuid
  <2>3. /\ rows' = rows \cup {f} /\ feeder'[f].uuid = h.uuid
        /\ \A g \in rows \ {f} : feeder'[g] = feeder[g]
    BY <1>4 DEF InsertRow
  <2>4. QED
    BY <2>2, <2>3 DEF UuidUnique
<1>5. ASSUME NEW s \in Session, Upsert(s) PROVE UuidUnique'
  BY <1>2, <1>3, <1>4, <1>5 DEF Upsert
<1>6. ASSUME NEW s \in Session, WriteOwners(s) PROVE UuidUnique'
  <2>1. rows' = rows /\ \A g \in rows' : feeder'[g].uuid = feeder[g].uuid
    BY <1>6 DEF WriteOwners, Row
  <2>2. QED
    BY <1>1, <2>1
<1>7. ASSUME Reclassify PROVE UuidUnique'
  <2>1. rows' = rows /\ \A g \in rows' : feeder'[g].uuid = feeder[g].uuid
    BY <1>7 DEF Reclassify, Row
  <2>2. QED
    BY <1>1, <2>1
<1>8. ASSUME NEW f \in FeederId, UpdateOwners(f) PROVE UuidUnique'
  <2>1. rows' = rows /\ \A g \in rows' : feeder'[g].uuid = feeder[g].uuid
    BY <1>8 DEF UpdateOwners, Row
  <2>2. QED
    BY <1>1, <2>1
<1>9. ASSUME NEW f \in FeederId, rows' = rows \ {f}, feeder' = [feeder EXCEPT ![f] = NoRow]
      PROVE  UuidUnique'
  BY <1>1, <1>9
<1>10. CASE UNCHANGED <<rows, feeder>>
  BY <1>10 DEF UuidUnique
<1>11. QED
  BY <1>5, <1>6, <1>7, <1>8, <1>9, <1>10
     DEF Next, ReadOwners, LogConnection, Disconnect, DeleteFeeder, MergeFeeders, vars

\* Every id in the table was given out by AUTOINCREMENT.
Ids == rows \subseteq 1..(nextId - 1)

LEMMA IdsStep == TypeOK /\ Ids /\ [Next]_vars => Ids'
<1> SUFFICES ASSUME TypeOK, Ids, [Next]_vars PROVE Ids'
  OBVIOUS
<1> USE DEF TypeOK
<1>1. nextId \in Nat
  BY RegistryAssumption
<1>2. CASE rows' \subseteq rows /\ nextId' = nextId
  BY <1>2 DEF Ids
<1>3. CASE rows' = rows \cup {nextId} /\ nextId' = nextId + 1 /\ nextId # 0
  BY <1>1, <1>3 DEF Ids
<1>4. ASSUME NEW s \in Session, Upsert(s) PROVE Ids'
  BY <1>2, <1>3, <1>4 DEF Upsert, UpdateRow, RehomeRow, InsertRow
<1>5. QED
  BY <1>2, <1>4
     DEF Next, ReadOwners, WriteOwners, LogConnection, Disconnect, Reclassify,
         UpdateOwners, DeleteFeeder, MergeFeeders, vars

-----------------------------------------------------------------------------
(* Theorems *)

\* The inductive invariant.
RegistryInv == TypeOK /\ Claiming /\ UuidUnique /\ Ids

\* It holds in every reachable state.
THEOREM RegistrySafe == Spec => []RegistryInv
<1>1. Init => RegistryInv
  BY InitType DEF RegistryInv, Init, Claiming, UuidUnique, NoTask, Ids
<1>2. RegistryInv /\ [Next]_vars => RegistryInv'
  BY StepType, ClaimingStep, UniqueStep, IdsStep DEF RegistryInv
<1>3. QED
  BY <1>1, <1>2, PTL DEF Spec

\* Every column holds what belongs in it (upsert_feeder, try_apply_feeder_claim).
THEOREM TypeCorrect == Spec => []TypeOK
<1>1. RegistryInv => TypeOK
  BY DEF RegistryInv
<1>2. QED
  BY <1>1, RegistrySafe, PTL

\* No two rows carry the same feeder_uuid (upsert_feeder), whatever the feeders
\* announce and whatever addresses they come from.
THEOREM UuidsStayUnique == Spec => []UuidUnique
<1>1. RegistryInv => UuidUnique
  BY DEF RegistryInv
<1>2. QED
  BY <1>1, RegistrySafe, PTL

\* Owners and lock of a locked row are an administrator's alone
\* (try_apply_feeder_claim's UPDATE, FeederModel.update).
THEOREM LockedRowsKeepOwners == Spec => LockHolds
<1> DEFINE Holds == \A f \in rows \cap rows' :
              feeder[f].locked =>
                  \/ UpdateOwners(f)
                  \/ feeder'[f].locked /\ feeder'[f].owners = feeder[f].owners
<1>1. RegistryInv /\ [Next]_vars => Holds
  <2> SUFFICES ASSUME RegistryInv, [Next]_vars, NEW f \in rows \cap rows',
                      feeder[f].locked, ~UpdateOwners(f)
               PROVE  feeder'[f].locked /\ feeder'[f].owners = feeder[f].owners
    OBVIOUS
  <2> USE DEF RegistryInv, TypeOK
  <2>1. ASSUME feeder'[f] = feeder[f]
        PROVE  feeder'[f].locked /\ feeder'[f].owners = feeder[f].owners
    BY <2>1
  <2>2. ASSUME NEW s \in Session, Upsert(s)
        PROVE  feeder'[f].locked /\ feeder'[f].owners = feeder[f].owners
    <3>1. PICK ip \in IP, h \in Hello, g \in FeederId, a \in UNION {Answer[i] : i \in IP} :
             UpdateRow(g, ip, a, h) \/ RehomeRow(g, ip, a, h) \/ InsertRow(g, ip, a, h)
      BY <2>2 DEF Upsert
    <3>2. CASE UpdateRow(g, ip, a, h)
      BY <3>2 DEF UpdateRow, Row
    <3>3. CASE RehomeRow(g, ip, a, h)
      BY <3>3 DEF RehomeRow, Row
    <3>4. CASE InsertRow(g, ip, a, h)
      <4>1. g \notin rows
        BY <3>4, RegistryAssumption DEF InsertRow, Ids
      <4>2. QED
        BY <3>4, <4>1 DEF InsertRow
    <3>5. QED
      BY <3>1, <3>2, <3>3, <3>4
  <2>3. CASE \E s \in Session : WriteOwners(s)
    BY <2>1, <2>3 DEF WriteOwners
  <2>4. CASE Reclassify
    BY <2>4 DEF Reclassify, Row
  <2>5. ASSUME NEW g \in FeederId, UpdateOwners(g) PROVE feeder'[f] = feeder[f]
    BY <2>5 DEF UpdateOwners
  <2>6. ASSUME NEW g \in FeederId, DeleteFeeder(g) PROVE feeder'[f] = feeder[f]
    BY <2>6 DEF DeleteFeeder
  <2>7. ASSUME NEW g \in FeederId, NEW into \in FeederId, MergeFeeders(g, into)
        PROVE  feeder'[f] = feeder[f]
    BY <2>7 DEF MergeFeeders
  <2>8. QED
    BY <2>1, <2>2, <2>3, <2>4, <2>5, <2>6, <2>7
       DEF Next, ReadOwners, LogConnection, Disconnect, vars
<1>2. QED
  BY <1>1, RegistrySafe, PTL DEF Spec, LockHolds
=============================================================================
