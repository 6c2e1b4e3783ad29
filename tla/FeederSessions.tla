---------------------------- MODULE FeederSessions ----------------------------
(***************************************************************************)
(* The life cycle of a feeder's TCP session in beast-proxy, and the rows   *)
(* of the shared SQLite tables `feeders' and `connections' it writes.      *)
(*                                                                         *)
(* Actors:                                                                 *)
(*   - one handler per accepted connection (proxy.py, handle_client), with *)
(*     an inbound (feeder to readsb) and an outbound forwarding task;      *)
(*   - the stats flusher (proxy.py, stats_flusher), once per period;       *)
(*   - the proxy process, which may be killed, stopped and restarted;      *)
(*   - the dashboard, another process, which deletes rows;                 *)
(*   - feeders, readsb and the clock: the environment.                     *)
(*                                                                         *)
(* asyncio is cooperative: what the proxy does between two awaits is one   *)
(* step here.  Time is counted in periods of the flusher (STATS_INTERVAL): *)
(* Tick ends a period, and the flusher runs once in each.                  *)
(*                                                                         *)
(* Which row a connection is given, and who owns it, is FeederRegistry's   *)
(* subject: here a registration takes any row there is, or a new one.      *)
(* A definition whose name begins with Bug is a mistake the code does not  *)
(* make: put in place of the definition below it, it breaks a property.    *)
(***************************************************************************)
EXTENDS Integers

CONSTANTS
    Session,      \* accepted TCP connections, each handled once
    MaxFeeder,    \* bound: rows ever inserted into feeders
    MaxBytes,     \* bound: chunks one session forwards
    IdleTicks,    \* INACTIVE_FEEDER_TIMEOUT, in periods
    StaleTicks,   \* mark_inactive_feeders' five minutes, in periods
    PurgeTicks,   \* purge_old_feeders' 24 hours, in periods
    GraceCycles,  \* cycles after a start in which nothing is purged
    DbMayFail     \* whether a write of the proxy to SQLite may raise

FeederId == 1..MaxFeeder

ASSUME SizesAssumption ==
    /\ MaxFeeder \in Nat
    /\ MaxBytes \in Nat
    /\ IdleTicks \in Nat \ {0}
    /\ StaleTicks \in Nat \ {0}
    /\ PurgeTicks \in Nat \ {0}
    /\ GraceCycles \in Nat
    /\ DbMayFail \in BOOLEAN

VARIABLES
    proxy,    \* the process: "up", "stopping" (SIGTERM received) or "down"
    flusher,  \* the stats task: "running", or "dead" once it has raised
    due,      \* the flusher's sleep of this period is over
    cycles,   \* flusher cycles since the start, counted up to GraceCycles + 1
    rows,     \* ids in table feeders
    feeder,   \* the row of each id
    nextId,   \* AUTOINCREMENT of table feeders
    pc,       \* where each handler is
    sess,     \* conn_info of each handler
    conn      \* the row of table connections each handler wrote

table == <<rows, feeder, nextId>>
clock == <<flusher, due, cycles>>
vars  == <<proxy, flusher, due, cycles, rows, feeder, nextId, pc, sess, conn>>

-----------------------------------------------------------------------------
(* Rows and sessions *)

\* `credit' is bytes_received kept as its summands: what each session added.
\* `age' is how long ago last_seen was, in periods.
Row == [status : {"active", "stale", "offline"},
        credit : [Session -> Nat], age : 0..(PurgeTicks + 1)]

\* The row of an id that is not in the table.
NoRow == [status |-> "offline", credit |-> [s \in Session |-> 0], age |-> 0]

\* The row of a feeder that is heard of now: last_seen, status = 'active'.
Seen(credit) == [status |-> "active", credit |-> credit, age |-> 0]

\* `silent' counts periods since last_data, `shut' is writer.is_closing().
\* `unlogged' is no field of the code's: what a finally block credited before its
\* next write raised, and left in bytes_flushed as still to be credited.
Info == [fid : 0..MaxFeeder, bytes : Nat, flushed : Nat, unlogged : Nat,
         silent : 0..(IdleTicks + 2), shut : BOOLEAN,
         inbound : BOOLEAN, outbound : BOOLEAN]

NoInfo == [fid |-> 0, bytes |-> 0, flushed |-> 0, unlogged |-> 0, silent |-> 0,
           shut |-> FALSE, inbound |-> FALSE, outbound |-> FALSE]

Connection == [state : {"none", "open", "closed"}, bytes : Nat]
NoConnection == [state |-> "none", bytes |-> 0]

\* "phantom": the handler ended without removing its entry.
\* "lost": the process ended under the handler.
Place == {"new", "prefix", "connecting", "forwarding", "cancelled",
          "over", "phantom", "lost"}

\* active_connections: the sessions that have an entry.
Active == {s \in Session :
              pc[s] \in {"connecting", "forwarding", "cancelled", "phantom"}}
ActiveFeeders == {sess[s].fid : s \in Active}

\* The difference taken the wrong way round.
BugUnflushed(s) == sess[s].flushed - sess[s].bytes
Unflushed(s) == sess[s].bytes - sess[s].flushed

Older(n, limit) == IF n < limit THEN n + 1 ELSE n

Init ==
    /\ proxy = "up"
    /\ flusher = "running"
    /\ due = FALSE
    /\ cycles = 0
    /\ rows = {}
    /\ feeder = [f \in FeederId |-> NoRow]
    /\ nextId = 1
    /\ pc = [s \in Session |-> "new"]
    /\ sess = [s \in Session |-> NoInfo]
    /\ conn = [s \in Session |-> NoConnection]

-----------------------------------------------------------------------------
(* Table feeders: what upsert_feeder does to it, whichever row it finds.  How *)
(* it finds one is FeederRegistry's subject.                                  *)

\* The UPDATE without `status = 'active''.
BugUpdateRow(f) ==
    /\ f \in rows
    /\ feeder' = [feeder EXCEPT ![f].age = 0]
    /\ UNCHANGED <<rows, nextId>>

UpdateRow(f) ==
    /\ f \in rows
    /\ feeder' = [feeder EXCEPT ![f] = Seen(@.credit)]
    /\ UNCHANGED <<rows, nextId>>

\* The column without AUTOINCREMENT: one more than the largest id there is.
BugInsertRow(f) ==
    /\ f = 1 \/ f - 1 \in rows
    /\ \A g \in rows : g < f
    /\ rows' = rows \cup {f}
    /\ nextId' = f + 1
    /\ feeder' = [feeder EXCEPT ![f] = Seen(NoRow.credit)]

InsertRow(f) ==
    /\ f = nextId
    /\ rows' = rows \cup {f}
    /\ nextId' = nextId + 1
    /\ feeder' = [feeder EXCEPT ![f] = Seen(NoRow.credit)]

Upsert(f) == UpdateRow(f) \/ InsertRow(f)

-----------------------------------------------------------------------------
(* A handler: handle_client *)

Accept(s) ==
    /\ proxy = "up"
    /\ pc[s] = "new"
    /\ pc' = [pc EXCEPT ![s] = "prefix"]
    /\ UNCHANGED <<proxy, clock, table, sess, conn>>

\* The metadata lines are read (none, some, or the feeder is gone already),
\* and up to the next await the row is chosen, the connection is logged and
\* the entry of active_connections is made.
Register(s) ==
    /\ proxy = "up"
    /\ pc[s] = "prefix"
    /\ \E f \in FeederId :
          /\ Upsert(f)
          /\ sess' = [sess EXCEPT ![s] = [NoInfo EXCEPT !.fid = f]]
          /\ conn' = [conn EXCEPT ![s] =
                [state |-> "open", bytes |-> 0]]
    /\ pc' = [pc EXCEPT ![s] = "connecting"]
    /\ UNCHANGED <<proxy, clock>>

\* upsert_feeder or log_connection raises: the task dies before its entry is
\* made, with the row's update committed or not.
RegisterFails(s) ==
    /\ DbMayFail
    /\ proxy = "up"
    /\ pc[s] = "prefix"
    /\ \/ UNCHANGED table
       \/ \E f \in FeederId : Upsert(f)
    /\ pc' = [pc EXCEPT ![s] = "over"]
    /\ UNCHANGED <<proxy, clock, sess, conn>>

ConnectReadsb(s) ==
    /\ proxy = "up"
    /\ pc[s] = "connecting"
    /\ pc' = [pc EXCEPT ![s] = "forwarding"]
    /\ sess' = [sess EXCEPT ![s].inbound = TRUE, ![s].outbound = TRUE]
    /\ UNCHANGED <<proxy, clock, table, conn>>

\* A chunk reaches readsb; what a closing socket had buffered still does.
InboundData(s) ==
    /\ proxy = "up"
    /\ pc[s] = "forwarding"
    /\ sess[s].inbound
    /\ sess[s].bytes < MaxBytes
    /\ sess' = [sess EXCEPT ![s].bytes = @ + 1, ![s].silent = 0]
    /\ UNCHANGED <<proxy, clock, table, pc, conn>>

\* End of input: the feeder is gone, readsb refuses a write, or the flusher
\* has closed the socket.
InboundEnds(s) ==
    /\ proxy = "up"
    /\ pc[s] = "forwarding"
    /\ sess[s].inbound
    /\ sess' = [sess EXCEPT ![s].inbound = FALSE]
    /\ UNCHANGED <<proxy, clock, table, pc, conn>>

\* readsb closes its side, or sends what the feeder's socket cannot take: the
\* only ways the outbound task ends.
OutboundEnds(s) ==
    /\ proxy = "up"
    /\ pc[s] = "forwarding"
    /\ sess[s].outbound
    /\ sess' = [sess EXCEPT ![s].outbound = FALSE]
    /\ UNCHANGED <<proxy, clock, table, pc, conn>>

\* gather() has returned, readsb refused the connection, or the task was
\* cancelled: the finally block is next.
Ending(s) ==
    \/ pc[s] = "forwarding" /\ ~sess[s].inbound /\ ~sess[s].outbound
    \/ pc[s] \in {"connecting", "cancelled"}

\* The finally block credits all bytes, not what the flusher has left of them.
BugCredited(f, s) ==
    Seen([feeder[f].credit EXCEPT ![s] = @ + sess[s].bytes])

\* The row after update_feeder_stats for what is unflushed of session s.
Credited(f, s) ==
    Seen([feeder[f].credit EXCEPT ![s] = @ + Unflushed(s)])

\* The finally block: credit the rest, log the disconnection (which marks the
\* feeder offline), drop the entry, close both sockets.
Finish(s) ==
    /\ proxy \in {"up", "stopping"}
    /\ Ending(s)
    /\ feeder' = IF sess[s].fid \in rows
                 THEN [feeder EXCEPT ![sess[s].fid] =
                         [Credited(sess[s].fid, s) EXCEPT !.status = "offline"]]
                 ELSE feeder
    /\ conn' = [conn EXCEPT ![s].state = "closed", ![s].bytes = sess[s].bytes]
    /\ pc' = [pc EXCEPT ![s] = "over"]
    /\ sess' = [sess EXCEPT ![s] = [NoInfo EXCEPT !.fid = sess[s].fid]]
    /\ UNCHANGED <<proxy, clock, rows, nextId>>

\* A write of the finally block raises: nothing after it runs, so the entry
\* stays and the sockets are not closed.
FinishFails(s) ==
    /\ DbMayFail
    /\ proxy \in {"up", "stopping"}
    /\ Ending(s)
    /\ pc' = [pc EXCEPT ![s] = "phantom"]
    /\ \/ UNCHANGED <<table, sess>>
       \/ \* update_feeder_stats is committed, log_disconnection raises
          /\ Unflushed(s) > 0
          /\ feeder' = IF sess[s].fid \in rows
                       THEN [feeder EXCEPT ![sess[s].fid] = Credited(sess[s].fid, s)]
                       ELSE feeder
          /\ sess' = [sess EXCEPT ![s].unlogged = Unflushed(s)]
          /\ UNCHANGED <<rows, nextId>>
    /\ UNCHANGED <<proxy, clock, conn>>

-----------------------------------------------------------------------------
(* The flusher: stats_flusher *)

\* The timeout is noticed one period too late.
BugIdle(s) == sess[s].silent > IdleTicks + 1

Idle(s) == sess[s].silent > IdleTicks

\* What update_feeder_stats adds to the row of f for the sessions in S.
Credits(f, S) ==
    [s \in Session |-> IF s \in S /\ sess[s].fid = f
                       THEN feeder[f].credit[s] + Unflushed(s)
                       ELSE feeder[f].credit[s]]

\* Without touch_feeder: a session that is merely silent leaves last_seen.
BugFlushedNoTouch(f, S) ==
    IF \E s \in S : sess[s].fid = f /\ Unflushed(s) > 0
    THEN Seen(Credits(f, S))
    ELSE feeder[f]

\* update_feeder_stats and touch_feeder without `status = 'active''.
BugFlushedStatus(f, S) ==
    IF \E s \in S : sess[s].fid = f
    THEN [Seen(Credits(f, S)) EXCEPT !.status = feeder[f].status]
    ELSE feeder[f]

\* The row of f after the loop has flushed or touched the sessions in S.
Flushed(f, S) ==
    IF \E s \in S : sess[s].fid = f
    THEN Seen(Credits(f, S))
    ELSE feeder[f]

\* Stale only once it could be purged.
BugMarked(f) ==
    IF feeder[f].status = "active" /\ feeder[f].age > PurgeTicks
    THEN [feeder[f] EXCEPT !.status = "stale"] ELSE feeder[f]

\* mark_inactive_feeders
Marked(f) ==
    IF feeder[f].status = "active" /\ feeder[f].age > StaleTicks
    THEN [feeder[f] EXCEPT !.status = "stale"] ELSE feeder[f]

\* Closes the idle sessions and remembers what was flushed of those in S.
FlushSessions(S) ==
    sess' = [s \in Session |->
        IF s \in Active
        THEN [sess[s] EXCEPT !.shut = @ \/ Idle(s),
                             !.flushed = IF s \in S THEN sess[s].bytes ELSE @]
        ELSE sess[s]]

\* purge_old_feeders, from the fourth cycle on.
Purged ==
    IF cycles >= GraceCycles
    THEN {f \in rows \ ActiveFeeders : feeder[f].age > PurgeTicks}
    ELSE {}

StatsCycle ==
    /\ proxy = "up"
    /\ flusher = "running"
    /\ due
    /\ FlushSessions(Active)
    /\ rows' = rows \ Purged
    /\ feeder' = [f \in FeederId |->
          CASE f \in Purged -> NoRow
            [] f \in rows \cap ActiveFeeders -> Flushed(f, Active)
            [] f \in rows \ (Purged \cup ActiveFeeders) -> Marked(f)
            [] OTHER -> feeder[f]]
    /\ due' = FALSE
    /\ cycles' = Older(cycles, GraceCycles + 1)
    /\ UNCHANGED <<proxy, flusher, nextId, pc, conn>>

\* A write raises in the loop: the sessions before it are flushed, and the
\* task, which nobody awaits, never runs again.
StatsCycleFails ==
    /\ DbMayFail
    /\ proxy = "up"
    /\ flusher = "running"
    /\ due
    /\ \E S \in SUBSET Active :
          /\ FlushSessions(S)
          /\ feeder' = [f \in FeederId |->
                IF f \in rows THEN Flushed(f, S) ELSE feeder[f]]
    /\ flusher' = "dead"
    /\ due' = FALSE
    /\ UNCHANGED <<proxy, cycles, rows, nextId, pc, conn>>

-----------------------------------------------------------------------------
(* The process and the clock *)

\* Every entry dies with the process; its connection row stays open.  (Kept of
\* an entry, for the properties: its feeder and what of it was credited.)
ProcessEnds ==
    /\ proxy \in {"up", "stopping"}
    /\ proxy' = "down"
    /\ due' = FALSE
    /\ pc' = [s \in Session |->
          CASE pc[s] \in {"connecting", "forwarding", "cancelled"} -> "lost"
            [] pc[s] \in {"prefix", "phantom"} -> "over"
            [] OTHER -> pc[s]]
    /\ sess' = [s \in Session |->
          [NoInfo EXCEPT !.fid = sess[s].fid, !.flushed = sess[s].flushed,
                         !.unlogged = sess[s].unlogged]]
    /\ UNCHANGED <<flusher, cycles, table, conn>>

\* SIGTERM: every task is cancelled; handlers past their registration still
\* owe their finally block, and have until the loop closes to run it.
Shutdown ==
    /\ proxy = "up"
    /\ proxy' = "stopping"
    /\ due' = FALSE
    /\ pc' = [s \in Session |->
          CASE pc[s] \in {"connecting", "forwarding"} -> "cancelled"
            [] pc[s] = "prefix" -> "over"
            [] OTHER -> pc[s]]
    /\ UNCHANGED <<flusher, cycles, table, sess, conn>>

\* A new process: no entry is left, the flusher starts its first sleep.  (What
\* it does to the rows' classification is in FeederRegistry.)
Restart ==
    /\ proxy = "down"
    /\ proxy' = "up"
    /\ flusher' = "running"
    /\ cycles' = 0
    /\ UNCHANGED <<due, table, pc, sess, conn>>

\* A period ends: everything is one period older, and the flusher wakes up.
\* It has run in the period before, and a shutdown is over within one.
Tick ==
    /\ ~due
    /\ proxy # "stopping"
    /\ due' = (proxy = "up" /\ flusher = "running")
    /\ feeder' = [f \in FeederId |->
          IF f \in rows
          THEN [feeder[f] EXCEPT !.age = Older(@, PurgeTicks + 1)] ELSE feeder[f]]
    /\ sess' = [s \in Session |->
          IF s \in Active
          THEN [sess[s] EXCEPT !.silent = Older(@, IdleTicks + 2)] ELSE sess[s]]
    /\ UNCHANGED <<proxy, flusher, cycles, rows, nextId, pc, conn>>

-----------------------------------------------------------------------------
(* The dashboard *)

\* Rows leave table feeders.  Foreign keys are off: nothing cascades.
DeleteRows(S) ==
    /\ rows' = rows \ S
    /\ feeder' = [f \in FeederId |-> IF f \in S THEN NoRow ELSE feeder[f]]
    /\ UNCHANGED <<proxy, clock, nextId, pc, sess, conn>>

\* By itself, or because it was merged into another row (FeederRegistry).
DeleteFeeder(f) == f \in rows /\ DeleteRows({f})

PurgeInactive == DeleteRows({f \in rows : feeder[f].status # "active"})

PurgeOld == DeleteRows({f \in rows : feeder[f].age > PurgeTicks})

-----------------------------------------------------------------------------
Handler(s) ==
    \/ Accept(s) \/ Register(s) \/ RegisterFails(s) \/ ConnectReadsb(s)
    \/ InboundData(s) \/ InboundEnds(s) \/ OutboundEnds(s)
    \/ Finish(s) \/ FinishFails(s)

Dashboard ==
    \/ \E f \in FeederId : DeleteFeeder(f)
    \/ PurgeInactive
    \/ PurgeOld

Next ==
    \/ \E s \in Session : Handler(s)
    \/ StatsCycle \/ StatsCycleFails
    \/ ProcessEnds \/ Shutdown \/ Restart \/ Tick
    \/ Dashboard

Spec == Init /\ [][Next]_vars

\* Time passes, the flusher wakes up, docker restarts the process, and a
\* handler goes on wherever it does not wait for a feeder or for readsb's
\* outbound bytes: opening the connection to readsb succeeds or is refused, a
\* socket the proxy has closed reads as ended, a finally block is run.
Fairness ==
    /\ WF_vars(Tick)
    /\ WF_vars(StatsCycle)
    /\ WF_vars(Restart)
    /\ WF_vars(proxy = "stopping" /\ ProcessEnds)
    /\ \A s \in Session :
          /\ WF_vars(ConnectReadsb(s) \/ Finish(s))
          /\ WF_vars(sess[s].shut /\ InboundEnds(s))
          /\ WF_vars(pc[s] \in {"forwarding", "cancelled"} /\ Finish(s))

FairSpec == Spec /\ Fairness

-----------------------------------------------------------------------------
(* Properties *)

\* Every variable has its type (the tables' columns and conn_info's fields).
TypeOK ==
    /\ proxy \in {"up", "stopping", "down"}
    /\ flusher \in {"running", "dead"}
    /\ due \in BOOLEAN
    /\ cycles \in 0..(GraceCycles + 1)
    /\ rows \subseteq FeederId
    /\ feeder \in [FeederId -> Row]
    /\ nextId \in 1..(MaxFeeder + 1)
    /\ pc \in [Session -> Place]
    /\ sess \in [Session -> Info]
    /\ conn \in [Session -> Connection]

\* What a feeder's bytes_received has of a session, to the byte, in whatever order
\* the flusher, the finally block, failing writes and the end of the process come:
\* once the connection row is closed, what that row says was transferred; before,
\* what was flushed.  So no byte is credited twice, but for those a finally block
\* credited before log_disconnection raised: its entry stays with bytes_flushed as
\* it was, and the next flush credits them once more, and no other.
CountersExact ==
    \A f \in rows, s \in Session :
        feeder[f].credit[s] =
            IF conn[s].state = "none" \/ sess[s].fid # f THEN 0
            ELSE IF conn[s].state = "closed" THEN conn[s].bytes
            ELSE sess[s].flushed + sess[s].unlogged

\* While the flusher runs, the row of a connected feeder was seen in this
\* period or the one before.  The dashboard's purge-old excludes no
\* connected feeder: this is all that keeps it from deleting one.
ConnectedIsFresh ==
    proxy = "up" /\ flusher = "running" =>
        \A s \in Active :
            sess[s].fid \in rows =>
                feeder[sess[s].fid].age <= (IF due THEN 1 ELSE 0)

\* A feeder marked stale has no session: mark_inactive_feeders runs over
\* whatever is connected at that moment, and a later connection clears it.
StaleMeansDisconnected ==
    \A s \in Active :
        sess[s].fid \in rows => feeder[sess[s].fid].status # "stale"

\* While the flusher runs, a session silent for longer than the timeout and
\* one more period has had its socket closed.
SilentIsClosed ==
    proxy = "up" /\ flusher = "running" =>
        \A s \in Active : sess[s].silent > IdleTicks + 1 => sess[s].shut

\* purge-old, run from the dashboard at any moment, deletes no feeder that is
\* connected while the flusher runs.
PurgeOldSparesConnected ==
    [][PurgeOld /\ proxy = "up" /\ flusher = "running" =>
          \A s \in Active : sess[s].fid \in rows => sess[s].fid \in rows']_vars

\* While the flusher runs, and has run since the start, a row still "active"
\* without a session was seen at most StaleTicks periods before its last run:
\* what a crash or a failed registration leaves behind is found and marked.
ActiveIsRecent ==
    proxy = "up" /\ flusher = "running" /\ cycles > 0 =>
        \A f \in rows \ ActiveFeeders :
            feeder[f].status = "active" =>
                feeder[f].age <= StaleTicks + (IF due THEN 1 ELSE 0)

\* The rows come and go as FeederTable promises: an id a handler still holds,
\* whose row a purge has deleted, never comes to name another feeder's row.
Table == INSTANCE FeederTable WITH MaxFeeder <- MaxFeeder, rows <- rows, nextId <- nextId
IsFeederTable == Table!Spec

\* A connected feeder whose row says otherwise (an older session of the same
\* feeder has ended after the newer one began) becomes active again.
ConnectedBecomesActive ==
    \A s \in Session :
        (s \in Active /\ sess[s].fid \in rows /\ feeder[sess[s].fid].status # "active")
            ~> (s \in Active /\ sess[s].fid \in rows
                   => feeder[sess[s].fid].status = "active")

\* proxy.py calls INACTIVE_FEEDER_TIMEOUT "seconds without data -> treat as
\* offline": a feeder all of whose sessions have been silent for longer does
\* not stay "active", unless one of them sends again.  It may, for ever: the
\* flusher closes the socket, but the handler also waits for readsb to close
\* its side, and as long as it waits the flusher touches the row.
SilentFeederLeavesActive ==
    \A f \in FeederId :
        LET AllSilent == /\ f \in rows /\ f \in ActiveFeeders
                         /\ feeder[f].status = "active"
                         /\ \A s \in Active : sess[s].fid = f => Idle(s)
        IN  AllSilent ~> ~AllSilent

\* README: "offline -- TCP session ended".  A feeder marked offline is not
\* connected.  It is when a session of it ends after the next has begun, and
\* until the next flush "purge inactive" deletes it.
OfflineMeansDisconnected ==
    \A s \in Active :
        sess[s].fid \in rows => feeder[sess[s].fid].status # "offline"
=============================================================================
