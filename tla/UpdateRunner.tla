----------------------------- MODULE UpdateRunner -----------------------------
(***************************************************************************)
(* The dashboard's update of the whole installation (web/routes/api.py): a *)
(* thread starts a docker:cli container that clones and rebuilds, puts its *)
(* output in a queue, and a page streams the queue until a last line.      *)
(*                                                                         *)
(* There is one worker and it serves one request at a time, so while a page*)
(* streams nothing else is served.  The worker is killed when it does so   *)
(* for 120 s (gunicorn --timeout), and by the update itself when docker    *)
(* compose up recreates the dashboard: its memory is lost, the container   *)
(* goes on.                                                                *)
(*                                                                         *)
(* A definition whose name begins with Bug is a mistake the code does not  *)
(* make: put in place of the definition below it, it breaks a property.    *)
(***************************************************************************)
EXTENDS Naturals, Sequences

CONSTANTS
    MaxUpdates,  \* bound: updates ever started
    MaxLines     \* bound: lines in the queue

VARIABLES
    updateRunning,  \* _update_running
    updateQueue,    \* _update_queue: the update each line is of, and whether it is the last
    updateThread,   \* where _run_update is; "ending": in a text of several lines
    update,         \* the last update started
    script,         \* the state of each update's container
    streaming,      \* a page streams
    logged          \* updates in update_log, all as successes

updateVars == <<updateRunning, updateQueue, updateThread, update, script, streaming, logged>>

Updates == 1..MaxUpdates

UpdateInit ==
    /\ updateRunning = FALSE /\ updateQueue = <<>> /\ updateThread = "none"
    /\ update = 0 /\ script = [u \in Updates |-> "none"]
    /\ streaming = FALSE /\ logged = {}

\* log puts one item per line of a text.
PutLine(last) ==
    /\ Len(updateQueue) < MaxLines
    /\ updateQueue' = Append(updateQueue, [of |-> update, last |-> last])

-----------------------------------------------------------------------------
Starts ==
    /\ ~streaming /\ ~updateRunning /\ update < MaxUpdates
    /\ updateRunning' = TRUE
    /\ updateThread' = "start"
    /\ update' = update + 1
    /\ UNCHANGED <<script, streaming, logged>>

BugUpdatesRun == Starts /\ UNCHANGED updateQueue

\* Refused while an update runs; what is left of an earlier one is thrown away.
UpdatesRun == Starts /\ updateQueue' = <<>>

\* create and start, either of which may raise.
CreateContainer ==
    /\ updateThread = "start"
    /\ PutLine(FALSE)
    /\ script' \in {script, [script EXCEPT ![update] = "runs"]}
    /\ updateThread' = "follow"
    /\ UNCHANGED <<updateRunning, update, streaming, logged>>

\* A line of type "done" or "error".  What it says, an exception above all, may
\* have more lines: each is an item of the same type.
LastLine == PutLine(TRUE) /\ updateThread' \in {"ending", "finally"}

\* Without Docker, or when any step raises.
UpdateFails ==
    /\ updateThread \in {"start", "follow"}
    /\ LastLine
    /\ UNCHANGED <<updateRunning, update, script, streaming, logged>>

NextLastLine ==
    /\ updateThread = "ending"
    /\ LastLine
    /\ UNCHANGED <<updateRunning, update, script, streaming, logged>>

FollowLog ==
    /\ updateThread = "follow" /\ script[update] # "none"
    /\ PutLine(FALSE)
    /\ UNCHANGED <<updateRunning, updateThread, update, script, streaming, logged>>

ScriptEnds(u) ==
    /\ script[u] = "runs"
    /\ \E how \in {"succeeded", "failed"} : script' = [script EXCEPT ![u] = how]
    /\ UNCHANGED <<updateRunning, updateQueue, updateThread, update, streaming, logged>>

\* Only now, and only by this thread, is the update entered in the history, unless
\* the database refuses.
FollowEnds ==
    /\ updateThread = "follow" /\ script[update] \in {"succeeded", "failed"}
    /\ LastLine
    /\ \/ script[update] = "succeeded" /\ logged' = logged \cup {update}
       \/ UNCHANGED logged
    /\ UNCHANGED <<updateRunning, update, script, streaming>>

Finally ==
    /\ updateThread = "finally"
    /\ updateRunning' = FALSE
    /\ updateThread' = "none"
    /\ UNCHANGED <<updateQueue, update, script, streaming, logged>>

-----------------------------------------------------------------------------
\* With nothing to stream the page gets heartbeats until the worker is killed.
OpenStream ==
    /\ ~streaming
    /\ streaming' = TRUE
    /\ UNCHANGED <<updateRunning, updateQueue, updateThread, update, script, logged>>

Deliver ==
    /\ streaming /\ updateQueue # <<>>
    /\ updateQueue' = Tail(updateQueue)
    /\ streaming' = ~Head(updateQueue).last
    /\ UNCHANGED <<updateRunning, updateThread, update, script, logged>>

\* The browser goes away: the line taken for it is lost.
StreamBreaks ==
    /\ streaming
    /\ streaming' = FALSE
    /\ updateQueue' = IF updateQueue = <<>> THEN <<>> ELSE Tail(updateQueue)
    /\ UNCHANGED <<updateRunning, updateThread, update, script, logged>>

WorkerKilled ==
    /\ streaming \/ \E u \in Updates : script[u] = "runs"
    /\ updateRunning' = FALSE /\ updateQueue' = <<>> /\ updateThread' = "none"
    /\ streaming' = FALSE
    /\ UNCHANGED <<update, script, logged>>

UpdateNext ==
    \/ UpdatesRun \/ CreateContainer \/ UpdateFails \/ NextLastLine
    \/ FollowLog \/ FollowEnds \/ Finally
    \/ \E u \in Updates : ScriptEnds(u)
    \/ OpenStream \/ Deliver \/ StreamBreaks \/ WorkerKilled

UpdateSpec == UpdateInit /\ [][UpdateNext]_updateVars

-----------------------------------------------------------------------------
(* Properties *)

\* Every line a page is shown is of the update started last: what an earlier update
\* left in the queue, with its thread gone or killed, is never shown as the progress
\* of another.  And the line that ends a page is near the update's own end: nothing
\* but lines of the same text is left in the queue or still to come.
LinesAreOwn ==
    [][Deliver => /\ Head(updateQueue).of = update
                  /\ Head(updateQueue).last =>
                       /\ \A i \in DOMAIN updateQueue : updateQueue[i].last
                       /\ updateThread \notin {"start", "follow"}]_updateVars
=============================================================================
