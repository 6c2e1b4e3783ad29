---------------------------- MODULE FeederRegistry ----------------------------
(***************************************************************************)
(* Which row of table feeders a connection is given, who owns it, and what *)
(* the dashboard does to both: upsert_feeder and try_apply_feeder_claim of *)
(* beast-proxy/db.py against the feeder routes of the dashboard.           *)
(*                                                                         *)
(* beast-proxy registers one connection at a time (no await between the    *)
(* upsert and the connection's log entry), but every statement commits or  *)
(* reads on its own, and the dashboard is another process: its statements  *)
(* fall between any two of the proxy's.  (upsert_feeder is one step all    *)
(* the same: all that can happen to a row between its SELECT and its       *)
(* UPDATE is that it is deleted, or given owners, and either could as well *)
(* have happened after the UPDATE.)  Sessions' progress, counters and      *)
(* status are FeederSessions' subject.  A definition whose name begins     *)
(* with Bug is a mistake the code does not make: put in place of the       *)
(* definition below it, it breaks a property.                              *)
(***************************************************************************)
EXTENDS Integers

CONSTANTS
    Session,             \* connections, each registered once
    IP, Uuid, Mac, Host, \* what a row knows a feeder by
    User,                \* dashboard users, who own feeders
    None,                \* SQL NULL, an absent metadata line
    Answer,              \* Answer[ip]: what the VPN resolver may say of ip
    Hello,               \* the metadata lines a feeder may send
    MaxFeeder            \* bound: rows ever inserted

ConnType == {"public", "netbird", "tailscale"}
OrNone(S) == S \cup {None}
FeederId == 1..MaxFeeder

\* A line that does not match its pattern leaves its field None; a claim is
\* represented by the user whose key it is.
ASSUME RegistryAssumption ==
    /\ MaxFeeder \in Nat
    /\ None \notin IP \cup Uuid \cup Mac \cup Host \cup User
    /\ Hello \subseteq [uuid : OrNone(Uuid), mac : OrNone(Mac), claim : OrNone(User)]
    /\ Answer \in [IP -> SUBSET [type : ConnType, host : OrNone(Host)]]

VARIABLES
    rows,    \* ids in table feeders
    feeder,  \* the row of each id
    nextId,  \* AUTOINCREMENT
    task,    \* each connection's handler
    conn     \* feeder_id in each handler's row of table connections, or 0

vars == <<rows, feeder, nextId, task, conn>>

Row == [ip : OrNone(IP), uuid : OrNone(Uuid), mac : OrNone(Mac),
        host : OrNone(Host), type : ConnType,
        owners : SUBSET User, locked : BOOLEAN]

\* The row of an id that is not in the table.
NoRow == [ip |-> None, uuid |-> None, mac |-> None, host |-> None,
          type |-> "public", owners |-> {}, locked |-> FALSE]

\* "upserted": has its feeder's id; "claiming": has read the row's owners;
\* "logging": about to log the connection; "on" and "off": connected or not.
Task == [at : {"new", "upserted", "claiming", "logging", "on", "off"},
         fid : 0..MaxFeeder, uuid : OrNone(Uuid), claim : OrNone(User),
         owners : SUBSET User]

NoTask == [at |-> "new", fid |-> 0, uuid |-> None, claim |-> None, owners |-> {}]

Registering(s) == task[s].at \in {"upserted", "claiming", "logging"}
On(s) == task[s].at = "on"

Init ==
    /\ rows = {}
    /\ feeder = [f \in FeederId |-> NoRow]
    /\ nextId = 1
    /\ task = [s \in Session |-> NoTask]
    /\ conn = [s \in Session |-> 0]

-----------------------------------------------------------------------------
(* upsert_feeder *)

ByUuid(h) == {f \in rows : h.uuid # None /\ feeder[f].uuid = h.uuid}
ByMac(h)  == {f \in rows : h.mac # None /\ feeder[f].mac = h.mac}
ByIp(ip)  == {f \in rows : feeder[f].ip = ip}

\* By address before anything else.
BugMatch(h, ip) ==
    CASE ByIp(ip) # {} -> ByIp(ip)
      [] ByIp(ip) = {} /\ ByUuid(h) # {} -> ByUuid(h)
      [] OTHER -> ByMac(h)

\* The rows the first SELECT that finds one may return: by uuid, then by mac,
\* then by address.  fetchone() without ORDER BY: any of them.
Match(h, ip) ==
    CASE ByUuid(h) # {} -> ByUuid(h)
      [] ByUuid(h) = {} /\ ByMac(h) # {} -> ByMac(h)
      [] OTHER -> ByIp(ip)

\* The rows of other addresses that carry a NetBird peer's hostname.
Rehomable(a, ip) ==
    {f \in rows : /\ a.type = "netbird" /\ a.host # None
                  /\ feeder[f].host = a.host /\ feeder[f].ip # ip}

Coalesce(new, old) == IF new # None THEN new ELSE old

UpdateRow(f, ip, a, h) ==
    /\ f \in Match(h, ip)
    /\ feeder' = [feeder EXCEPT
            ![f].ip = ip, ![f].type = a.type,
            ![f].uuid = Coalesce(h.uuid, @), ![f].mac = Coalesce(h.mac, @),
            ![f].host = Coalesce(a.host, @)]
    /\ UNCHANGED <<rows, nextId>>

\* The hostname where the address belongs.
BugRehomeRow(f, ip, a, h) ==
    /\ Match(h, ip) = {}
    /\ f \in Rehomable(a, ip)
    /\ feeder' = [feeder EXCEPT ![f].ip = a.host, ![f].type = "netbird"]
    /\ UNCHANGED <<rows, nextId>>

\* Takes the row over for the new address, and returns before the statement
\* that would store uuid and mac.
RehomeRow(f, ip, a, h) ==
    /\ Match(h, ip) = {}
    /\ f \in Rehomable(a, ip)
    /\ feeder' = [feeder EXCEPT ![f].ip = ip, ![f].type = "netbird"]
    /\ UNCHANGED <<rows, nextId>>

InsertRow(f, ip, a, h) ==
    /\ Match(h, ip) = {}
    /\ Rehomable(a, ip) = {}
    /\ f = nextId
    /\ rows' = rows \cup {f}
    /\ nextId' = nextId + 1
    /\ feeder' = [feeder EXCEPT ![f] =
            [ip |-> ip, uuid |-> h.uuid, mac |-> h.mac, host |-> a.host,
             type |-> a.type, owners |-> {}, locked |-> FALSE]]

\* A connection's metadata is read and its row found, updated or made.
Upsert(s) ==
    /\ task[s].at = "new"
    /\ \A t \in Session : ~Registering(t)
    /\ \E ip \in IP, h \in Hello, f \in FeederId :
          /\ \E a \in Answer[ip] :
                UpdateRow(f, ip, a, h) \/ RehomeRow(f, ip, a, h) \/ InsertRow(f, ip, a, h)
          /\ task' = [task EXCEPT ![s] =
                [at |-> IF h.claim = None THEN "logging" ELSE "upserted",
                 fid |-> f, uuid |-> h.uuid, claim |-> h.claim, owners |-> {}]]
    /\ UNCHANGED conn

-----------------------------------------------------------------------------
(* try_apply_feeder_claim, log_connection *)

\* Reads the row's lock and owners, and looks the user up.  Goes no further if
\* the row is gone or locked, or if no active user has the key.
ReadOwners(s) ==
    /\ task[s].at = "upserted"
    /\ LET f == task[s].fid IN
       \/ /\ f \in rows
          /\ ~feeder[f].locked
          /\ task' = [task EXCEPT ![s].at = "claiming", ![s].owners = feeder[f].owners]
       \/ task' = [task EXCEPT ![s].at = "logging"]
    /\ UNCHANGED <<rows, feeder, nextId, conn>>

\* The UPDATE without `COALESCE(owners_locked, 0) = 0'.
BugWriteOwners(s) ==
    /\ task[s].at = "claiming"
    /\ LET f == task[s].fid IN
       feeder' = IF f \in rows
                 THEN [feeder EXCEPT ![f].owners = task[s].owners \cup {task[s].claim}]
                 ELSE feeder
    /\ task' = [task EXCEPT ![s].at = "logging", ![s].owners = {}]
    /\ UNCHANGED <<rows, nextId, conn>>

\* Writes what was read with the user added, unless the row is locked by now.
WriteOwners(s) ==
    /\ task[s].at = "claiming"
    /\ LET f == task[s].fid IN
       feeder' = IF f \in rows /\ ~feeder[f].locked
                 THEN [feeder EXCEPT ![f].owners = task[s].owners \cup {task[s].claim}]
                 ELSE feeder
    /\ task' = [task EXCEPT ![s].at = "logging", ![s].owners = {}]
    /\ UNCHANGED <<rows, nextId, conn>>

LogConnection(s) ==
    /\ task[s].at = "logging"
    /\ task' = [task EXCEPT ![s].at = "on"]
    /\ conn' = [conn EXCEPT ![s] = task[s].fid]
    /\ UNCHANGED <<rows, feeder, nextId>>

Disconnect(s) ==
    /\ On(s)
    /\ task' = [task EXCEPT ![s].at = "off"]
    /\ UNCHANGED <<rows, feeder, nextId, conn>>

\* The proxy is restarted and classifies every row again.
Reclassify ==
    /\ task' = [s \in Session |->
          IF task[s].at = "new" THEN task[s] ELSE [task[s] EXCEPT !.at = "off"]]
    /\ \E a \in [rows -> UNION {Answer[ip] : ip \in IP}] :
          /\ \A f \in rows : a[f] \in Answer[feeder[f].ip]
          /\ feeder' = [f \in FeederId |->
                IF f \in rows /\ a[f].type # feeder[f].type
                THEN [feeder[f] EXCEPT !.type = a[f].type, !.host = Coalesce(a[f].host, @)]
                ELSE feeder[f]]
    /\ UNCHANGED <<rows, nextId, conn>>

-----------------------------------------------------------------------------
(* The dashboard *)

\* An administrator's edit: owners, the lock, or both.
UpdateOwners(f) ==
    /\ f \in rows
    /\ \E S \in SUBSET User, l \in BOOLEAN :
          feeder' = [feeder EXCEPT ![f].owners = S, ![f].locked = l]
    /\ UNCHANGED <<rows, nextId, task, conn>>

\* By itself or by a purge.  Foreign keys are off: connections stay.
DeleteFeeder(f) ==
    /\ f \in rows
    /\ rows' = rows \ {f}
    /\ feeder' = [feeder EXCEPT ![f] = NoRow]
    /\ UNCHANGED <<nextId, task, conn>>

\* Moves the connection history of f, then deletes f.  The target's id is
\* what the page held: nobody looks whether the row still exists.
MergeFeeders(f, into) ==
    /\ f \in rows
    /\ into \in 1..(nextId - 1) \ {f}
    /\ rows' = rows \ {f}
    /\ feeder' = [feeder EXCEPT ![f] = NoRow]
    /\ conn' = [s \in Session |-> IF conn[s] = f THEN into ELSE conn[s]]
    /\ UNCHANGED <<nextId, task>>

Next ==
    \/ \E s \in Session :
          Upsert(s) \/ ReadOwners(s) \/ WriteOwners(s) \/ LogConnection(s) \/ Disconnect(s)
    \/ Reclassify
    \/ \E f \in FeederId : UpdateOwners(f) \/ DeleteFeeder(f)
    \/ \E f, into \in FeederId : MergeFeeders(f, into)

Spec == Init /\ [][Next]_vars

-----------------------------------------------------------------------------
(* Properties *)

\* Every variable has its type; a row's columns are of a feeder's making.
TypeOK ==
    /\ rows \subseteq FeederId
    /\ feeder \in [FeederId -> Row]
    /\ nextId \in 1..(MaxFeeder + 1)
    /\ task \in [Session -> Task]
    /\ conn \in [Session -> 0..MaxFeeder]

\* No two rows carry the same uuid, though the column has no UNIQUE constraint
\* and upsert_feeder writes the uuid onto rows it found by mac or by address.
UuidUnique ==
    \A f, g \in rows :
        feeder[f].uuid # None /\ feeder[f].uuid = feeder[g].uuid => f = g

\* An administrator's lock holds: while a row is locked nobody but an
\* administrator changes its owners or its lock, whatever a claim had read
\* before the row was locked, and whoever takes the row over.
LockHolds ==
    [][\A f \in rows \cap rows' :
          feeder[f].locked =>
              \/ UpdateOwners(f)
              \/ feeder'[f].locked /\ feeder'[f].owners = feeder[f].owners]_vars

\* README: "One row per unique feeder".  Two connected feeders that announced
\* different uuids are on different rows.  They are not when they share an
\* address and one of them is new: it is given the row of the other.
OneRowPerFeeder ==
    \A s, t \in {r \in Session : On(r) /\ task[r].uuid # None} :
        task[s].uuid # task[t].uuid => task[s].fid # task[t].fid
=============================================================================
