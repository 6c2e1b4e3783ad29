------------------------------- MODULE CotSender -------------------------------
(***************************************************************************)
(* The CoT sender (cot_pipeline.py, run_cot_sender_cycle): every few       *)
(* seconds a thread of the dashboard's process pushes changed aircraft to  *)
(* the TAK server of each output, over a TLS socket it keeps per output.   *)
(* An output whose server cannot be reached is paused, and tried again     *)
(* after ten minutes.                                                      *)
(*                                                                         *)
(* Actors:                                                                 *)
(*   - the sender: one cycle at a time (_cot_sender_lock), which serves one*)
(*     output after the other from the rows it read when it started.  Its  *)
(*     steps end where it reads or writes the database, connects or sends; *)
(*   - the dashboard's worker: one request at a time, in another thread of *)
(*     the same process, so that both share the table of sockets;          *)
(*   - the page of an output in a browser, which keeps the configuration   *)
(*     it loaded and posts it back as a whole.                             *)
(*                                                                         *)
(* A definition whose name begins with Bug is a mistake the code does not  *)
(* make: put in place of the definition below it, it breaks a property.    *)
(***************************************************************************)
EXTENDS CotDelta

CONSTANTS
    Outputs,     \* ids of outputs of type cot in mode push
    Urls,        \* values of cot_url
    Endpoints,   \* those _parse_tls_cot_endpoint accepts
    Certs,       \* client certificates with their keys
    PassAll,     \* outputs with pass_all
    Tisb,        \* aircraft that are TIS-B
    PassTisb,    \* outputs with pass_only_tisb
    NoRow,       \* no such row in outputs
    Malformed,   \* a configuration that is not a JSON object
    MaxEdits     \* bound: requests to the dashboard

ASSUME SenderAssumption ==
    /\ None \notin Outputs \cup Urls \cup Certs
    /\ NoRow # Malformed
    /\ Endpoints \subseteq Urls
    /\ PassAll \subseteq Outputs
    /\ PassTisb \subseteq Outputs
    /\ Tisb \subseteq Hexes
    /\ MaxEdits \in Nat

VARIABLES
    cfg,        \* outputs.config of each row
    active,     \* outputs with status 'active'
    cert,       \* output_cot_certs
    rules,      \* hexes with a transform, of each output
    sock,       \* _persistent_sockets
    lastSent,   \* _last_sent_state
    running,    \* _cot_sender_lock is held
    todo,       \* outputs the cycle has not served yet
    snap,       \* their configurations, as read when it started
    air,        \* the aircraft it fetched
    job,        \* the output being served, or None
    req,        \* the dashboard's request between its commits, or None
    form,       \* the configuration a page has loaded, or None
    edits,      \* requests made
    got,        \* what the server of each output was last given of each aircraft
    missed,     \* aircraft whose last update was computed and not handed over
    streak,     \* failed connects since the last that succeeded (at most 3)
    disturbed   \* outputs whose count was written from something outdated

tables  == <<cfg, active, cert, rules>>
memory  == <<sock, lastSent>>
cycle   == <<running, todo, snap, air>>
pages   == <<req, form, edits>>
history == <<got, missed, streak, disturbed>>
vars == <<cfg, active, cert, rules, sock, lastSent, running, todo, snap, air, job,
          req, form, edits, got, missed, streak, disturbed>>

\* due: cot_tls_last_check is missing, 0 or more than ten minutes ago.
Config == [url : Urls \cup {None}, paused : BOOLEAN, fails : 0..2, due : BOOLEAN]
EmptyConfig == [url |-> None, paused |-> FALSE, fails |-> 0, due |-> TRUE]
Row == Config \cup {NoRow, Malformed}

Socket == [url : Urls, cert : Certs]

Pausing == {"pause", "reject"}   \* after three failures; after a rejection
Patch == Pausing \cup {"count", "resume", "checked", "release", "adopt"}

\* batch: what is to be sent; row: the configuration merge_config has read;
\* then: what follows the merge; open: the socket in hand is not closed.
Job == [at : {"cert", "connect", "merge", "write", "drop", "send"},
        out : Outputs, batch : SUBSET Hexes, cert : Certs \cup {None},
        patch : Patch, fails : 0..2, row : Config,
        then : {"send", "drop", "done"}, open : BOOLEAN]

Request == [at : {"merge", "write", "drop"}, out : Outputs, patch : Patch,
            url : Urls \cup {None}, row : Config]

Page == [out : Outputs, row : Config]

ASSUME KindsAssumption ==
    /\ NoRow \notin Config /\ Malformed \notin Config
    /\ None \notin Job

NoPicture == [h \in Hexes |-> None]
NoRows == [o \in Outputs |-> NoRow]

Init ==
    /\ cfg \in [Outputs -> {[EmptyConfig EXCEPT !.url = u] : u \in Endpoints}]
    /\ active = Outputs
    /\ cert \in [Outputs -> Certs]
    /\ rules \in [Outputs -> SUBSET Hexes]
    /\ sock = [o \in Outputs |-> None]
    /\ lastSent = [o \in Outputs |-> NoPicture]
    /\ running = FALSE /\ todo = {} /\ snap = NoRows /\ air = NoPicture
    /\ job = None /\ req = None /\ edits = 0
    /\ form \in {None} \cup {[out |-> o, row |-> cfg[o]] : o \in Outputs}
    /\ got = [o \in Outputs |-> NoPicture]
    /\ missed = [o \in Outputs |-> {}]
    /\ streak = [o \in Outputs |-> 0]
    /\ disturbed = {}

-----------------------------------------------------------------------------
(* merge_config: read, change, write back *)

\* What is not a JSON object is merged into an empty one.
Base(row) == IF row \in Config THEN row ELSE EmptyConfig

Merged(row, patch, n, url) ==
    CASE patch = "count"   -> [row EXCEPT !.fails = n]
      [] patch \in Pausing -> [row EXCEPT !.paused = TRUE, !.fails = 0, !.due = FALSE]
      [] patch = "resume"  -> [row EXCEPT !.paused = FALSE, !.fails = 0, !.due = TRUE]
      [] patch = "checked" -> [row EXCEPT !.due = FALSE]
      [] patch = "release" -> [row EXCEPT !.paused = FALSE]
      [] patch = "adopt"   -> [row EXCEPT !.paused = FALSE, !.url = url]

\* The UPDATE of a row that is gone changes nothing.
Stored(o, row) ==
    cfg' = [cfg EXCEPT ![o] = IF @ = NoRow THEN @ ELSE row]

-----------------------------------------------------------------------------
(* A cycle *)

EndCycle ==
    /\ running' = FALSE
    /\ todo' = {}
    /\ snap' = NoRows
    /\ air' = NoPicture

BugListed == {o \in active : cfg[o] \in Config /\ cfg[o].url # None /\ ~cfg[o].paused}

\* get_cot_push_outputs.
Listed == {o \in active : cfg[o] \in Config /\ cfg[o].url # None}

\* Reading one malformed configuration raises, and so no output is served; nor
\* is any when the aircraft cannot be fetched.
StartCycle ==
    /\ ~running
    /\ \A o \in active : cfg[o] # Malformed
    /\ Listed # {}
    /\ running' = TRUE
    /\ todo' = Listed
    /\ snap' = [o \in Outputs |-> IF o \in Listed THEN cfg[o] ELSE NoRow]
    /\ air' \in Picture
    /\ UNCHANGED <<tables, memory, job, pages, history>>

FinishCycle ==
    /\ running /\ job = None /\ todo = {}
    /\ EndCycle
    /\ UNCHANGED <<tables, memory, job, pages, history>>

NewJob(o) ==
    [at |-> "cert", out |-> o, batch |-> {}, cert |-> None, patch |-> "count",
     fails |-> 0, row |-> EmptyConfig, then |-> "done", open |-> FALSE]

Merging(j, patch, n, then) ==
    [j EXCEPT !.at = "merge", !.patch = patch, !.fails = n, !.then = then]

Take(o) ==
    /\ running /\ job = None /\ o \in todo
    /\ todo' = todo \ {o}
    /\ UNCHANGED <<running, snap, air>>

CanRecheck(o) == snap[o].paused /\ snap[o].due /\ snap[o].url \in Endpoints

SkipPaused(o) ==
    /\ Take(o)
    /\ snap[o].paused /\ ~CanRecheck(o)
    /\ UNCHANGED <<tables, memory, job, pages, history>>

\* The recheck connects with the certificate there is; with none, by TCP alone.
Recheck(o) ==
    /\ Take(o)
    /\ CanRecheck(o)
    /\ job' \in {Merging(NewJob(o), "resume", 0, "drop"),
                 Merging(NewJob(o), "checked", 0, "done")}
    /\ UNCHANGED <<tables, memory, pages, history>>

TisbOf(o) == IF o \in PassTisb THEN Tisb ELSE {}

Found(o) ==
    GetForHexes([norm |-> rules[o], legacy |-> {}],
                Queried(o \in PassAll, TisbOf(o), lastSent[o], air))

PlanOf(o, broken) ==
    Plan(o \in PassAll, TisbOf(o), lastSent[o], air, Found(o), broken)

\* What is remembered is stored before anything is sent.
Prepare(o) ==
    /\ Take(o)
    /\ ~snap[o].paused
    /\ \E broken \in SUBSET Changed(lastSent[o], air) :
         LET plan == PlanOf(o, broken)
             j == [NewJob(o) EXCEPT !.batch = plan.send]
         IN  /\ \E last \in Capped(plan.last) : lastSent' = [lastSent EXCEPT ![o] = last]
             /\ IF plan.send # {}
                THEN IF snap[o].url \in Endpoints
                     THEN job' = j /\ UNCHANGED missed
                     ELSE job' = None /\ missed' = [missed EXCEPT ![o] = @ \cup plan.send]
                ELSE /\ job' = IF snap[o].fails > 0 THEN Merging(j, "count", 0, "done")
                               ELSE None
                     /\ UNCHANGED missed
    /\ UNCHANGED <<tables, sock, pages, got, streak, disturbed>>

-----------------------------------------------------------------------------
(* Serving an output *)

At(where) == running /\ job # None /\ job.at = where

Goto(where) ==
    job' = IF where = "done" THEN None
           ELSE [job EXCEPT !.at = where, !.patch = "count", !.fails = 0, !.row = EmptyConfig]

Miss(S) == missed' = [missed EXCEPT ![job.out] = @ \cup S]

Held(j) == [j EXCEPT !.at = "send", !.cert = None, !.open = TRUE]

\* A cached socket is used whatever it was connected to and with.
ReadCert ==
    /\ At("cert")
    /\ IF cert[job.out] = None
       THEN Goto("done") /\ Miss(job.batch)
       ELSE /\ job' = IF sock[job.out] # None THEN Held(job)
                      ELSE [job EXCEPT !.at = "connect", !.cert = cert[job.out]]
            /\ UNCHANGED missed
    /\ UNCHANGED <<tables, memory, cycle, pages, got, streak, disturbed>>

BugConnected ==
    /\ At("connect")
    /\ sock' = [sock EXCEPT ![job.out] = [url |-> snap[job.out].url, cert |-> job.cert]]
    /\ streak' = [streak EXCEPT ![job.out] = 0]
    /\ job' = Held(job)
    /\ UNCHANGED <<tables, lastSent, cycle, pages, got, missed, disturbed>>

Connected ==
    /\ At("connect")
    /\ sock' = [sock EXCEPT ![job.out] = [url |-> snap[job.out].url, cert |-> job.cert]]
    /\ streak' = [streak EXCEPT ![job.out] = 0]
    /\ job' = IF snap[job.out].fails > 0 THEN Merging(Held(job), "count", 0, "send")
              ELSE Held(job)
    /\ UNCHANGED <<tables, lastSent, cycle, pages, got, missed, disturbed>>

\* The TLS handshake fails: paused at once.
Rejected ==
    /\ At("connect")
    /\ job' = Merging(job, "reject", 0, "drop")
    /\ Miss(job.batch)
    /\ UNCHANGED <<tables, memory, cycle, pages, got, streak, disturbed>>

BugUnreachableSoon ==
    /\ At("connect")
    /\ LET n == snap[job.out].fails + 1
       IN  job' = IF n >= 2 THEN Merging(job, "pause", 0, "drop")
                  ELSE Merging(job, "count", n, "done")
    /\ streak' = [streak EXCEPT ![job.out] = IF @ = 3 THEN 3 ELSE @ + 1]
    /\ Miss(job.batch)
    /\ UNCHANGED <<tables, memory, cycle, pages, got, disturbed>>

\* No TCP connection, or a handshake that times out: paused at the third.
Unreachable ==
    /\ At("connect")
    /\ LET n == snap[job.out].fails + 1
       IN  job' = IF n >= 3 THEN Merging(job, "pause", 0, "drop")
                  ELSE Merging(job, "count", n, "done")
    /\ streak' = [streak EXCEPT ![job.out] = IF @ = 3 THEN 3 ELSE @ + 1]
    /\ Miss(job.batch)
    /\ UNCHANGED <<tables, memory, cycle, pages, got, disturbed>>

\* _cot_pause_tls_push leaves a row that is gone, and one already paused.
MergeRead ==
    /\ At("merge")
    /\ LET row == cfg[job.out]
           pausing == job.patch \in Pausing
       IN  CASE row = NoRow
                  -> Goto(IF pausing THEN "done" ELSE job.then) /\ UNCHANGED disturbed
             [] pausing /\ row # NoRow /\ Base(row).paused
                  -> Goto("drop") /\ UNCHANGED disturbed
             [] OTHER
                  -> /\ job' = [job EXCEPT !.at = "write", !.row = Base(row)]
                     /\ disturbed' = IF Base(row).fails # snap[job.out].fails
                                     THEN disturbed \cup {job.out} ELSE disturbed
    /\ UNCHANGED <<tables, memory, cycle, pages, got, missed, streak>>

\* What another wrote since MergeRead is overwritten.
MergeWrite ==
    /\ At("write")
    /\ Stored(job.out, Merged(job.row, job.patch, job.fails, None))
    /\ disturbed' = IF Base(cfg[job.out]) # job.row
                    THEN disturbed \cup {job.out} ELSE disturbed
    /\ Goto(job.then)
    /\ UNCHANGED <<active, cert, rules, memory, cycle, pages, got, missed, streak>>

DropSocket ==
    /\ At("drop")
    /\ sock' = [sock EXCEPT ![job.out] = None]
    /\ job' = None
    /\ UNCHANGED <<tables, lastSent, cycle, pages, history>>

Given(S) ==
    got' = [got EXCEPT ![job.out] = [h \in Hexes |-> IF h \in S THEN air[h] ELSE @[h]]]

Sent ==
    /\ At("send") /\ job.open
    /\ Given(job.batch)
    /\ missed' = [missed EXCEPT ![job.out] = @ \ job.batch]
    /\ job' = None
    /\ UNCHANGED <<tables, memory, cycle, pages, streak, disturbed>>

\* Whole chunks may have been taken before one fails.
SendFails ==
    /\ At("send")
    /\ \E S \in IF job.open THEN SUBSET job.batch ELSE {{}} :
         /\ Given(S)
         /\ missed' = [missed EXCEPT ![job.out] = (@ \ S) \cup (job.batch \ S)]
    /\ sock' = [sock EXCEPT ![job.out] = None]
    /\ job' = None
    /\ UNCHANGED <<tables, lastSent, cycle, pages, streak, disturbed>>

\* A count that was about to be written is not.
CutShort ==
    disturbed' = IF At("merge") \/ At("write") THEN disturbed \cup {job.out} ELSE disturbed

\* The database stays locked: the exception ends the cycle, and the outputs not
\* served yet wait for the next.
Abort ==
    /\ running
    /\ IF job = None THEN todo # {} /\ UNCHANGED <<missed, disturbed>>
       ELSE /\ job.at \in {"cert", "merge", "write"}
            /\ Miss(job.batch)
            /\ CutShort
    /\ EndCycle
    /\ job' = None
    /\ UNCHANGED <<tables, memory, pages, got, streak>>

-----------------------------------------------------------------------------
(* The dashboard's worker *)

Asked == edits < MaxEdits /\ req = None /\ edits' = edits + 1

Idle == UNCHANGED <<memory, cycle, job>>

Posted(o, patch, url) ==
    req' = [at |-> "merge", out |-> o, patch |-> patch, url |-> url, row |-> EmptyConfig]

\* cot_certs_upload: the certificate is stored before the rest is done.
Upload(o, c) ==
    /\ Asked /\ cfg[o] # NoRow
    /\ cert' = [cert EXCEPT ![o] = c]
    /\ Posted(o, "release", None)
    /\ Idle
    /\ UNCHANGED <<cfg, active, rules, form, history>>

\* cot_test_tls, of the URL saved (None) or of one in the form.
TestTls(o, u) ==
    /\ Asked /\ cfg[o] # NoRow
    /\ \/ /\ cert[o] # None
          /\ (IF u = None THEN Base(cfg[o]).url ELSE u) \in Endpoints
          /\ Posted(o, IF u = None THEN "release" ELSE "adopt", u)
       \/ Posted(o, "pause", None)
    /\ Idle
    /\ UNCHANGED <<tables, form, history>>

ReqRead ==
    /\ req # None /\ req.at = "merge"
    /\ req' = IF cfg[req.out] = NoRow THEN [req EXCEPT !.at = "drop"]
              ELSE [req EXCEPT !.at = "write", !.row = Base(cfg[req.out])]
    /\ Idle
    /\ UNCHANGED <<tables, form, edits, history>>

ReqWrite ==
    /\ req # None /\ req.at = "write"
    /\ Stored(req.out, Merged(req.row, req.patch, 0, req.url))
    /\ disturbed' = IF Base(cfg[req.out]) # req.row
                    THEN disturbed \cup {req.out} ELSE disturbed
    /\ req' = [req EXCEPT !.at = "drop", !.row = EmptyConfig]
    /\ Idle
    /\ UNCHANGED <<active, cert, rules, form, edits, got, missed, streak>>

\* drop_cot_persistent_socket closes the socket even while the sender uses it.
ReqDrop ==
    /\ req # None /\ req.at = "drop"
    /\ sock' = [sock EXCEPT ![req.out] = None]
    /\ job' = IF job # None /\ job.out = req.out /\ sock[req.out] # None
              THEN [job EXCEPT !.open = FALSE] ELSE job
    /\ req' = None
    /\ UNCHANGED <<tables, lastSent, cycle, form, edits, history>>

ReqAbort ==
    /\ req # None /\ req.at \in {"merge", "write"}
    /\ req' = None
    /\ Idle
    /\ UNCHANGED <<tables, form, edits, history>>

OpenPage(o) ==
    /\ Asked /\ cfg[o] \in Config
    /\ form' = [out |-> o, row |-> cfg[o]]
    /\ Idle
    /\ UNCHANGED <<tables, req, history>>

\* output_update: the page's copy replaces the row's configuration; a changed
\* URL resumes the output, and nobody drops its socket.
SavePage(u, on) ==
    /\ Asked /\ form # None
    /\ LET o == form.out
           new == [form.row EXCEPT !.url = u]
       IN  /\ Stored(o, IF u # Base(cfg[o]).url THEN [new EXCEPT !.paused = FALSE] ELSE new)
           /\ active' = IF on /\ cfg[o] # NoRow THEN active \cup {o} ELSE active \ {o}
           /\ disturbed' = IF Base(cfg[o]) # form.row THEN disturbed \cup {o} ELSE disturbed
    /\ form' = None
    /\ Idle
    /\ UNCHANGED <<cert, rules, req, got, missed, streak>>

\* A client of the API may post any text as the configuration.
SaveText(o) ==
    /\ Asked /\ cfg[o] # NoRow
    /\ cfg' = [cfg EXCEPT ![o] = Malformed]
    /\ disturbed' = disturbed \cup {o}
    /\ Idle
    /\ UNCHANGED <<active, cert, rules, req, form, got, missed, streak>>

\* output_delete leaves the certificate and the transforms.
Delete(o) ==
    /\ Asked /\ cfg[o] # NoRow
    /\ cfg' = [cfg EXCEPT ![o] = NoRow]
    /\ active' = active \ {o}
    /\ Idle
    /\ UNCHANGED <<cert, rules, req, form, history>>

EditRules(o, S) ==
    /\ Asked
    /\ rules' = [rules EXCEPT ![o] = S]
    /\ Idle
    /\ UNCHANGED <<cfg, active, cert, req, form, history>>

\* Ten minutes pass.
Age(o) ==
    /\ cfg[o] \in Config /\ ~cfg[o].due
    /\ cfg' = [cfg EXCEPT ![o].due = TRUE]
    /\ snap' = [snap EXCEPT ![o] = IF @ \in Config THEN [@ EXCEPT !.due = TRUE] ELSE @]
    /\ UNCHANGED <<active, cert, rules, memory, running, todo, air, job, pages, history>>

\* The process ends and another starts.
Restart ==
    /\ sock' = [o \in Outputs |-> None]
    /\ lastSent' = [o \in Outputs |-> NoPicture]
    /\ EndCycle
    /\ job' = None /\ req' = None
    /\ missed' = [o \in Outputs |-> {}]
    /\ CutShort
    /\ UNCHANGED <<tables, form, edits, got, streak>>

-----------------------------------------------------------------------------
Sender ==
    \/ StartCycle \/ FinishCycle
    \/ \E o \in Outputs : SkipPaused(o) \/ Recheck(o) \/ Prepare(o)
    \/ ReadCert \/ Connected \/ Rejected \/ Unreachable
    \/ MergeRead \/ MergeWrite \/ DropSocket
    \/ Sent \/ SendFails

Dashboard ==
    \/ \E o \in Outputs :
         \/ \E c \in Certs : Upload(o, c)
         \/ \E u \in Urls \cup {None} : TestTls(o, u)
         \/ \E S \in SUBSET Hexes : EditRules(o, S)
         \/ OpenPage(o) \/ SaveText(o) \/ Delete(o)
    \/ \E u \in Urls, on \in BOOLEAN : SavePage(u, on)
    \/ ReqRead \/ ReqWrite \/ ReqDrop \/ ReqAbort

Next ==
    \/ Sender
    \/ Dashboard
    \/ Abort
    \/ \E o \in Outputs : Age(o)
    \/ Restart

Spec == Init /\ [][Next]_vars

\* The scheduler starts a cycle again and again, and a cycle's calls return;
\* time passes; the database is not locked every time a recheck is stored.
Fairness ==
    /\ WF_vars(Sender)
    /\ \A o \in Outputs :
         /\ SF_vars(Recheck(o))
         /\ SF_vars(MergeRead /\ job.out = o)
         /\ SF_vars(MergeWrite /\ job.out = o)

FairSpec == Spec /\ Fairness

-----------------------------------------------------------------------------
(* Properties *)

\* Every variable holds what the code keeps there: rows, sockets, what was sent,
\* the cycle's copies, and the requests between two commits.
TypeOK ==
    /\ cfg \in [Outputs -> Row]
    /\ active \subseteq Outputs
    /\ cert \in [Outputs -> Certs \cup {None}]
    /\ rules \in [Outputs -> SUBSET Hexes]
    /\ sock \in [Outputs -> Socket \cup {None}]
    /\ lastSent \in [Outputs -> Picture]
    /\ running \in BOOLEAN
    /\ todo \subseteq Outputs
    /\ snap \in [Outputs -> Config \cup {NoRow}]
    /\ air \in Picture
    /\ job \in Job \cup {None}
    /\ req \in Request \cup {None}
    /\ form \in Page \cup {None}
    /\ edits \in 0..MaxEdits
    /\ got \in [Outputs -> Picture]
    /\ missed \in [Outputs -> SUBSET Hexes]
    /\ streak \in [Outputs -> 0..3]
    /\ disturbed \subseteq Outputs

\* Is being sent, or about to be.
InFlight(o) == IF job # None /\ job.out = o THEN job.batch ELSE {}

\* What the sender remembers as last sent of an aircraft is what the server was
\* given, but for an aircraft whose update is in flight or was lost by a failure:
\* the delta is computed against the truth as long as nothing fails
\* (cot_pipeline.py, the update of _last_sent_state before the send).
DeltaIsTrue ==
    \A o \in Outputs : \A h \in Hexes \ (missed[o] \cup InFlight(o)) :
        lastSent[o][h] \in {None, got[o][h]}

\* The job being served is still going to be sent.
Heading ==
    /\ job # None
    /\ job.at \in {"merge", "write"} => job.then = "send"
    /\ job.at # "drop"

UnderWay(o, h) ==
    IF Heading /\ job.out = o /\ h \in job.batch THEN air[h] ELSE None

\* Each aircraft's updates go the way TrackFeed promises, whatever connection fails,
\* is refused or cut in between, and whatever the dashboard does at that time.
Feed == INSTANCE TrackFeed WITH
    Server <- Outputs, Track <- Hexes, State <- States,
    given <- got, known <- lastSent, lost <- missed,
    way <- [o \in Outputs |-> [h \in Hexes |-> UnderWay(o, h)]]
IsTrackFeed == Feed!Spec

\* The count kept in an output's configuration never exceeds the connects that
\* failed in a row, unless two writers met or one failed (fail_streak; while the
\* output is served, a reset may be on its way).
CountIsTrue ==
    \A o \in Outputs \ disturbed :
        cfg[o] \in Config /\ ~(job # None /\ job.out = o) => cfg[o].fails <= streak[o]

\* The sender pauses an output only when its server rejected the handshake or
\* after three connects in a row failed, unless the count was disturbed.
PauseEarned ==
    At("write") /\ job.patch = "pause" => job.out \in disturbed \/ streak[job.out] = 3

\* An output is due for a recheck, with an address to connect to.
Overdue(o) ==
    /\ o \in active /\ cfg[o] \in Config
    /\ cfg[o].paused /\ cfg[o].due /\ cfg[o].url \in Endpoints

\* A paused output does not stay overdue: each ten minutes it is rechecked, and
\* an output whose cycles are cut short by others is still reached, unless a
\* configuration that cannot be read stops every cycle.
PausedIsRechecked ==
    \A o \in Outputs :
        Overdue(o) ~> (~Overdue(o) \/ \E p \in active : cfg[p] = Malformed)
=============================================================================
