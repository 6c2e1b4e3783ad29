--------------------------- MODULE CotSenderProofs ---------------------------
(* Theorems about CotSender, for any outputs, aircraft, URLs and bounds. *)
EXTENDS CotSender, TLAPS

-----------------------------------------------------------------------------
(* Configurations *)

LEMMA EmptyType == EmptyConfig \in Config /\ EmptyConfig.fails = 0
  BY DEF EmptyConfig, Config

LEMMA CountRow ==
  ASSUME NEW row \in Config, NEW n \in 0..2
  PROVE  [row EXCEPT !.fails = n] \in Config /\ [row EXCEPT !.fails = n].fails = n
  BY DEF Config

Paused(row, p, n, d) == [row EXCEPT !.paused = p, !.fails = n, !.due = d]

LEMMA PausedRow ==
  ASSUME NEW row \in Config, NEW p \in BOOLEAN, NEW n \in 0..2, NEW d \in BOOLEAN
  PROVE  Paused(row, p, n, d) \in Config /\ Paused(row, p, n, d).fails = n
  BY DEF Paused, Config

LEMMA PausedRows ==
  ASSUME NEW row \in Config
  PROVE  /\ Paused(row, TRUE, 0, FALSE) \in Config /\ Paused(row, TRUE, 0, FALSE).fails = 0
         /\ Paused(row, FALSE, 0, TRUE) \in Config /\ Paused(row, FALSE, 0, TRUE).fails = 0
<1>1. TRUE \in BOOLEAN /\ FALSE \in BOOLEAN /\ 0 \in 0..2
  OBVIOUS
<1> QED
  BY <1>1, PausedRow, Zenon

LEMMA DueRow ==
  ASSUME NEW row \in Config, NEW d \in BOOLEAN
  PROVE  /\ [row EXCEPT !.due = d] \in Config
         /\ [row EXCEPT !.due = d].fails = row.fails
         /\ [row EXCEPT !.due = d].url = row.url
  BY DEF Config

LEMMA ReleaseRow ==
  ASSUME NEW row \in Config
  PROVE  /\ [row EXCEPT !.paused = FALSE] \in Config
         /\ [row EXCEPT !.paused = FALSE].fails = row.fails
  BY DEF Config

LEMMA AdoptRow ==
  ASSUME NEW row \in Config, NEW u \in Urls \cup {None}
  PROVE  /\ [row EXCEPT !.paused = FALSE, !.url = u] \in Config
         /\ [row EXCEPT !.paused = FALSE, !.url = u].fails = row.fails
  BY DEF Config

LEMMA UrlRow ==
  ASSUME NEW row \in Config, NEW u \in Urls \cup {None}
  PROVE  /\ [row EXCEPT !.url = u] \in Config
         /\ [row EXCEPT !.url = u].fails = row.fails
  BY DEF Config

LEMMA BaseType ==
  ASSUME NEW row \in Row
  PROVE  /\ Base(row) \in Config
         /\ row \in Config => Base(row) = row
         /\ row \notin Config => Base(row).fails = 0
  BY EmptyType DEF Base

Resetting == Pausing \cup {"resume"}
Keeping == {"checked", "release", "adopt"}

\* What a merge does with the count.
LEMMA MergedType ==
  ASSUME NEW row \in Config, NEW patch \in Patch, NEW n \in 0..2, NEW url \in Urls \cup {None}
  PROVE  /\ Merged(row, patch, n, url) \in Config
         /\ patch = "count" => Merged(row, patch, n, url).fails = n
         /\ patch \in Resetting => Merged(row, patch, n, url).fails = 0
         /\ patch \in Keeping => Merged(row, patch, n, url).fails = row.fails
<1>1. CASE patch = "count"
  <2>1. Merged(row, patch, n, url) = [row EXCEPT !.fails = n]
    BY <1>1 DEF Merged, Pausing
  <2> QED
    BY <1>1, <2>1, CountRow DEF Resetting, Keeping, Pausing
<1>2. CASE patch \in Pausing
  <2>1. Merged(row, patch, n, url) = Paused(row, TRUE, 0, FALSE)
    BY <1>2 DEF Merged, Pausing, Paused
  <2> QED
    BY <1>2, <2>1, PausedRows DEF Resetting, Keeping, Pausing
<1>3. CASE patch = "resume"
  <2>1. Merged(row, patch, n, url) = Paused(row, FALSE, 0, TRUE)
    BY <1>3 DEF Merged, Pausing, Paused
  <2> QED
    BY <1>3, <2>1, PausedRows DEF Resetting, Keeping, Pausing
<1>4. CASE patch = "checked"
  <2>1. Merged(row, patch, n, url) = [row EXCEPT !.due = FALSE]
    BY <1>4 DEF Merged, Pausing
  <2> QED
    BY <1>4, <2>1, DueRow DEF Resetting, Keeping, Pausing
<1>5. CASE patch = "release"
  <2>1. Merged(row, patch, n, url) = [row EXCEPT !.paused = FALSE]
    BY <1>5 DEF Merged, Pausing
  <2> QED
    BY <1>5, <2>1, ReleaseRow DEF Resetting, Keeping, Pausing
<1>6. CASE patch = "adopt"
  <2>1. Merged(row, patch, n, url) = [row EXCEPT !.paused = FALSE, !.url = url]
    BY <1>6 DEF Merged, Pausing
  <2> QED
    BY <1>6, <2>1, AdoptRow DEF Resetting, Keeping, Pausing
<1> QED
  BY <1>1, <1>2, <1>3, <1>4, <1>5, <1>6 DEF Patch

LEMMA MergedFails ==
  ASSUME NEW row \in Config, NEW patch \in Patch, NEW n \in 0..2, NEW url \in Urls \cup {None},
         NEW new, new = Merged(row, patch, n, url)
  PROVE  /\ new \in Config
         /\ patch = "count" => new.fails = n
         /\ patch # "count" => new.fails = 0 \/ new.fails = row.fails
<1>1. patch \in {"count"} \cup Resetting \cup Keeping
  BY DEF Patch, Resetting, Keeping
<1> QED
  BY <1>1, MergedType

-----------------------------------------------------------------------------
(* Jobs *)

Thens == {"send", "drop", "done"}
Counts == 0..2

LEMMA NewJobType ==
  ASSUME NEW o \in Outputs
  PROVE  /\ NewJob(o) \in Job
         /\ NewJob(o).at = "cert" /\ NewJob(o).out = o /\ NewJob(o).batch = {}
         /\ NewJob(o).patch = "count" /\ NewJob(o).fails = 0
  BY EmptyType DEF NewJob, Job, Patch

LEMMA BatchType ==
  ASSUME NEW j \in Job, NEW S \in SUBSET Hexes
  PROVE  /\ [j EXCEPT !.batch = S] \in Job
         /\ [j EXCEPT !.batch = S].at = j.at /\ [j EXCEPT !.batch = S].out = j.out
         /\ [j EXCEPT !.batch = S].batch = S
  BY DEF Job

LEMMA MergingType ==
  ASSUME NEW j \in Job, NEW patch \in Patch, NEW n \in Counts, NEW then \in Thens
  PROVE  /\ Merging(j, patch, n, then) \in Job
         /\ Merging(j, patch, n, then).at = "merge"
         /\ Merging(j, patch, n, then).out = j.out
         /\ Merging(j, patch, n, then).batch = j.batch
         /\ Merging(j, patch, n, then).patch = patch
         /\ Merging(j, patch, n, then).fails = n
         /\ Merging(j, patch, n, then).then = then
  BY DEF Merging, Job, Thens, Counts

LEMMA MergingZero ==
  ASSUME NEW j \in Job, NEW patch \in Patch, NEW then \in Thens
  PROVE  /\ Merging(j, patch, 0, then) \in Job
         /\ Merging(j, patch, 0, then).at = "merge"
         /\ Merging(j, patch, 0, then).out = j.out
         /\ Merging(j, patch, 0, then).batch = j.batch
         /\ Merging(j, patch, 0, then).patch = patch
         /\ Merging(j, patch, 0, then).fails = 0
         /\ Merging(j, patch, 0, then).then = then
<1> DEFINE n == 0
<1>1. n \in Counts
  BY DEF Counts
<1> HIDE DEF n
<1>2. /\ Merging(j, patch, n, then) \in Job
      /\ Merging(j, patch, n, then).at = "merge"
      /\ Merging(j, patch, n, then).out = j.out
      /\ Merging(j, patch, n, then).batch = j.batch
      /\ Merging(j, patch, n, then).patch = patch
      /\ Merging(j, patch, n, then).fails = n
      /\ Merging(j, patch, n, then).then = then
  BY <1>1, MergingType
<1> QED
  BY <1>2 DEF n

LEMMA HeldType ==
  ASSUME NEW j \in Job
  PROVE  /\ Held(j) \in Job
         /\ Held(j).at = "send" /\ Held(j).out = j.out /\ Held(j).batch = j.batch
  BY DEF Held, Job

LEMMA ConnectType ==
  ASSUME NEW j \in Job, NEW c \in Certs
  PROVE  /\ [j EXCEPT !.at = "connect", !.cert = c] \in Job
         /\ [j EXCEPT !.at = "connect", !.cert = c].at = "connect"
         /\ [j EXCEPT !.at = "connect", !.cert = c].cert = c
         /\ [j EXCEPT !.at = "connect", !.cert = c].out = j.out
         /\ [j EXCEPT !.at = "connect", !.cert = c].batch = j.batch
  BY DEF Job

LEMMA ReadType ==
  ASSUME NEW j \in Job, NEW row \in Config
  PROVE  /\ [j EXCEPT !.at = "write", !.row = row] \in Job
         /\ [j EXCEPT !.at = "write", !.row = row].at = "write"
         /\ [j EXCEPT !.at = "write", !.row = row].row = row
         /\ [j EXCEPT !.at = "write", !.row = row].out = j.out
         /\ [j EXCEPT !.at = "write", !.row = row].batch = j.batch
         /\ [j EXCEPT !.at = "write", !.row = row].patch = j.patch
         /\ [j EXCEPT !.at = "write", !.row = row].fails = j.fails
         /\ [j EXCEPT !.at = "write", !.row = row].then = j.then
  BY DEF Job

Gone(j, where, patch, n, row) ==
    [j EXCEPT !.at = where, !.patch = patch, !.fails = n, !.row = row]

LEMMA GoneType ==
  ASSUME NEW j \in Job, NEW where \in {"drop", "send"}, NEW patch \in Patch, NEW n \in 0..2,
         NEW row \in Config
  PROVE  /\ Gone(j, where, patch, n, row) \in Job
         /\ Gone(j, where, patch, n, row).at = where
         /\ Gone(j, where, patch, n, row).out = j.out
         /\ Gone(j, where, patch, n, row).batch = j.batch
  BY DEF Job, Gone

LEMMA ClosedType ==
  ASSUME NEW j \in Job
  PROVE  /\ [j EXCEPT !.open = FALSE] \in Job
         /\ [j EXCEPT !.open = FALSE].at = j.at
         /\ [j EXCEPT !.open = FALSE].out = j.out
         /\ [j EXCEPT !.open = FALSE].batch = j.batch
         /\ [j EXCEPT !.open = FALSE].cert = j.cert
         /\ [j EXCEPT !.open = FALSE].patch = j.patch
         /\ [j EXCEPT !.open = FALSE].fails = j.fails
         /\ [j EXCEPT !.open = FALSE].row = j.row
         /\ [j EXCEPT !.open = FALSE].then = j.then
  BY DEF Job

LEMMA GotoStep ==
  ASSUME job \in Job, NEW where \in {"drop", "send", "done"}, Goto(where)
  PROVE  \/ where = "done" /\ job' = None
         \/ /\ job' \in Job /\ job'.at = where /\ where # "done"
            /\ job'.out = job.out /\ job'.batch = job.batch
<1>1. CASE where = "done"
  BY <1>1 DEF Goto
<1>2. CASE where \in {"drop", "send"}
  <2>1. job' = Gone(job, where, "count", 0, EmptyConfig)
    BY <1>2 DEF Goto, Gone
  <2>2. "count" \in Patch /\ 0 \in 0..2 /\ EmptyConfig \in Config
    BY EmptyType DEF Patch
  <2>3. /\ job' \in Job /\ job'.at = where
        /\ job'.out = job.out /\ job'.batch = job.batch
    BY <1>2, <2>1, <2>2, GoneType
  <2> QED
    BY <1>2, <2>3
<1> QED
  BY <1>1, <1>2

-----------------------------------------------------------------------------
(* Types *)

\* What a cycle holds: outputs waiting are read, the one being served was taken from
\* them, and it connects with a certificate to an address that is accepted.
Served ==
    /\ ~running => job = None /\ todo = {}
    /\ \A o \in todo : snap[o] \in Config
    /\ job # None =>
         /\ job.out \notin todo /\ snap[job.out] \in Config
         /\ job.at \in {"cert", "connect"} => snap[job.out].url \in Endpoints
         /\ job.at = "connect" => job.cert \in Certs

TypeInv == TypeOK /\ Served

\* What a plan remembers, and what is left of it by the cap.
LEMMA CappedType ==
  ASSUME NEW last \in Picture, NEW last2 \in Capped(last)
  PROVE  last2 \in Picture /\ \A h \in Hexes : last2[h] \in {last[h], None}
<1>1. CASE last2 = last
  BY <1>1
<1>2. CASE \E S \in SUBSET {h \in Hexes : last[h] # None} :
             last2 = [h \in Hexes |-> IF h \in S THEN last[h] ELSE None]
  BY <1>2 DEF Picture
<1> QED
  BY <1>1, <1>2 DEF Capped

LEMMA PlanType ==
  ASSUME TypeOK, NEW o \in Outputs, NEW broken
  PROVE  /\ PlanOf(o, broken).send \in SUBSET Hexes
         /\ PlanOf(o, broken).last \in Picture
         /\ \A h \in Hexes \ PlanOf(o, broken).send :
              PlanOf(o, broken).last[h] \in {lastSent[o][h], None}
         /\ \A h \in PlanOf(o, broken).send : PlanOf(o, broken).last[h] = air[h]
<1> DEFINE all == o \in PassAll
           tisb == TisbOf(o)
           last == lastSent[o]
           found == Found(o)
           send == ToSend(all, tisb, last, air, found, broken)
           kept == Remembered(all, tisb, last, air, found, broken)
<1>1. PlanOf(o, broken).send = send /\ PlanOf(o, broken).last = kept
  BY DEF PlanOf, Plan
<1>2. last \in Picture /\ air \in Picture
  BY DEF TypeOK
<1> HIDE DEF all, tisb, last, found
<1>3. send \in SUBSET Hexes
  BY DEF ToSend, Seen, Present
<1>4. kept = [h \in Hexes |-> IF h \in send THEN air[h]
                              ELSE IF h \in Seen(all, tisb, air, found) THEN last[h]
                              ELSE None]
  BY DEF Remembered
<1> HIDE DEF send, kept
<1>5. kept \in Picture
  BY <1>2, <1>4 DEF Picture
<1>6. /\ \A h \in Hexes \ send : kept[h] \in {last[h], None}
      /\ \A h \in send : kept[h] = air[h]
  BY <1>3, <1>4
<1> QED
  BY <1>1, <1>3, <1>5, <1>6 DEF last

LEMMA InitType == Init => TypeInv
<1> SUFFICES ASSUME Init PROVE TypeInv
  OBVIOUS
<1> DEFINE Fresh == {[EmptyConfig EXCEPT !.url = u] : u \in Endpoints}
<1>1. Fresh \subseteq Config
  BY EmptyType, UrlRow, SenderAssumption
<1> HIDE DEF Fresh
<1>2. cfg \in [Outputs -> Fresh]
  BY DEF Init, Fresh
<1>3. cfg \in [Outputs -> Row]
  BY <1>1, <1>2 DEF Row
<1>4. form \in Page \cup {None}
  BY <1>1, <1>2 DEF Init, Page
<1>5. NoPicture \in Picture
  BY DEF NoPicture, Picture
<1>6. NoRows \in [Outputs -> Config \cup {NoRow}]
  BY DEF NoRows
<1>7. /\ active \subseteq Outputs
      /\ cert \in [Outputs -> Certs \cup {None}]
      /\ rules \in [Outputs -> SUBSET Hexes]
      /\ sock \in [Outputs -> Socket \cup {None}]
  BY DEF Init
<1>8. lastSent \in [Outputs -> Picture] /\ got \in [Outputs -> Picture]
  BY <1>5 DEF Init
<1>9. /\ running = FALSE /\ todo = {} /\ snap \in [Outputs -> Config \cup {NoRow}]
      /\ air \in Picture /\ job = None /\ req = None /\ edits \in 0..MaxEdits
  BY <1>5, <1>6, SenderAssumption DEF Init
<1>10. /\ missed \in [Outputs -> SUBSET Hexes]
       /\ streak \in [Outputs -> 0..3]
       /\ disturbed \subseteq Outputs
  BY DEF Init
<1> QED
  BY <1>3, <1>4, <1>7, <1>8, <1>9, <1>10 DEF TypeInv, TypeOK, Served

LEMMA EmptyPictures ==
  /\ NoPicture \in Picture
  /\ NoRows \in [Outputs -> Config \cup {NoRow}]
  BY DEF NoPicture, Picture, NoRows

LEMMA StoredType ==
  ASSUME TypeOK, NEW o \in Outputs, NEW row \in Row, Stored(o, row)
  PROVE  /\ cfg' \in [Outputs -> Row]
         /\ \A p \in Outputs \ {o} : cfg'[p] = cfg[p]
         /\ cfg[o] = NoRow => cfg'[o] = NoRow
         /\ cfg[o] # NoRow => cfg'[o] = row
  BY DEF TypeOK, Stored, Row

\* The parts of the cycle that take an output, or none.
LEMMA CycleType ==
  ASSUME TypeInv,
         \/ StartCycle \/ FinishCycle
         \/ \E o \in Outputs : SkipPaused(o) \/ Recheck(o) \/ Prepare(o)
  PROVE  TypeInv'
<1> USE DEF tables, memory, cycle, pages, history
<1>1. CASE StartCycle
  <2>1. Listed \subseteq Outputs /\ \A o \in Listed : cfg[o] \in Config
    BY DEF Listed, TypeInv, TypeOK
  <2>2. snap' \in [Outputs -> Config \cup {NoRow}] /\ \A o \in Listed : snap'[o] \in Config
    BY <1>1, <2>1 DEF StartCycle
  <2>3. job = None
    BY <1>1 DEF StartCycle, TypeInv, Served
  <2> QED
    BY <1>1, <2>1, <2>2, <2>3 DEF StartCycle, TypeInv, TypeOK, Served
<1>2. CASE FinishCycle
  BY <1>2, EmptyPictures DEF FinishCycle, EndCycle, TypeInv, TypeOK, Served
<1>3. ASSUME NEW o \in Outputs, SkipPaused(o)
      PROVE  TypeInv'
  BY <1>3 DEF SkipPaused, Take, TypeInv, TypeOK, Served
<1>4. ASSUME NEW o \in Outputs, Recheck(o)
      PROVE  TypeInv'
  <2> DEFINE j == NewJob(o)
  <2>1. PICK patch \in Patch, then \in Thens : job' = Merging(j, patch, 0, then)
    BY <1>4 DEF Recheck, Patch, Thens
  <2>2. j \in Job /\ j.out = o /\ 0 \in 0..2
    BY NewJobType
  <2> HIDE DEF j
  <2>3. job' \in Job /\ job'.at = "merge" /\ job'.out = o
    BY <2>1, <2>2, MergingZero
  <2>4. o \in todo /\ snap[o] \in Config
    BY <1>4 DEF Recheck, Take, TypeInv, Served
  <2> QED
    BY <1>4, <2>3, <2>4 DEF Recheck, Take, TypeInv, TypeOK, Served
<1>5. ASSUME NEW o \in Outputs, Prepare(o)
      PROVE  TypeInv'
  <2>1. PICK broken \in SUBSET Changed(lastSent[o], air) :
          LET plan == PlanOf(o, broken)
              j == [NewJob(o) EXCEPT !.batch = plan.send]
          IN  /\ \E last \in Capped(plan.last) : lastSent' = [lastSent EXCEPT ![o] = last]
              /\ IF plan.send # {}
                 THEN IF snap[o].url \in Endpoints
                      THEN job' = j /\ UNCHANGED missed
                      ELSE job' = None /\ missed' = [missed EXCEPT ![o] = @ \cup plan.send]
                 ELSE /\ job' = IF snap[o].fails > 0 THEN Merging(j, "count", 0, "done")
                                ELSE None
                      /\ UNCHANGED missed
    BY <1>5 DEF Prepare
  <2> DEFINE send == PlanOf(o, broken).send
             last1 == PlanOf(o, broken).last
             j == [NewJob(o) EXCEPT !.batch = send]
  <2>2. send \in SUBSET Hexes /\ last1 \in Picture
    BY PlanType DEF TypeInv
  <2>3. j \in Job /\ j.at = "cert" /\ j.out = o
    BY <2>2, NewJobType, BatchType
  <2>4. lastSent' \in [Outputs -> Picture]
    BY <2>1, <2>2, CappedType DEF TypeInv, TypeOK
  <2>5. missed' \in [Outputs -> SUBSET Hexes]
    BY <2>1, <2>2 DEF TypeInv, TypeOK
  <2>6. "count" \in Patch /\ "done" \in Thens
    BY DEF Patch, Thens
  <2>7. \/ job' = None
        \/ job' = j /\ snap[o].url \in Endpoints
        \/ job' = Merging(j, "count", 0, "done")
    BY <2>1
  <2> HIDE DEF j
  <2>8. \/ job' = None
        \/ /\ job' \in Job /\ job'.out = o
           /\ job'.at = "merge" \/ (job'.at = "cert" /\ snap[o].url \in Endpoints)
    BY <2>3, <2>6, <2>7, MergingZero
  <2>9. o \in todo /\ snap[o] \in Config
    BY <1>5 DEF Prepare, Take, TypeInv, Served
  <2>10. /\ running /\ todo' = todo \ {o}
         /\ UNCHANGED <<cfg, active, cert, rules, sock, running, snap, air, req, form, edits,
                       got, streak, disturbed>>
    BY <1>5 DEF Prepare, Take
  <2>11. TypeOK'
    BY <2>4, <2>5, <2>8, <2>10 DEF TypeInv, TypeOK
  <2> QED
    BY <2>8, <2>9, <2>10, <2>11 DEF TypeInv, Served
<1> QED
  BY <1>1, <1>2, <1>3, <1>4, <1>5

LEMMA JobAt ==
  ASSUME TypeInv, NEW where, At(where)
  PROVE  /\ job \in Job /\ job.at = where /\ job # None /\ running
         /\ job.out \in Outputs /\ job.batch \in SUBSET Hexes
         /\ job.out \notin todo /\ snap[job.out] \in Config
         /\ missed \in [Outputs -> SUBSET Hexes]
         /\ job.patch \in Patch /\ job.fails \in 0..2 /\ job.row \in Config
         /\ job.then \in {"send", "drop", "done"}
  BY DEF At, TypeInv, TypeOK, Served, Job

LEMMA MissType ==
  ASSUME TypeInv, NEW where, At(where), Miss(job.batch)
  PROVE  missed' \in [Outputs -> SUBSET Hexes]
  BY JobAt DEF Miss

\* What MergeRead and Unreachable do to the job.
LEMMA MergeReadJob ==
  ASSUME TypeInv, MergeRead
  PROVE  \/ /\ cfg[job.out] = NoRow \/ job.patch \in Pausing
            /\ job' = None \/ (/\ job' \in Job /\ job'.at \in {"send", "drop"}
                               /\ job'.at = "send" => job.patch \notin Pausing /\ job.then = "send"
                               /\ job'.at = "drop" => job.patch \in Pausing \/ job.then = "drop"
                               /\ job'.out = job.out /\ job'.batch = job.batch)
            /\ job' = None => job.patch \in Pausing \/ job.then = "done"
            /\ UNCHANGED disturbed
         \/ /\ job' \in Job /\ job'.at = "write" /\ job'.out = job.out /\ job'.batch = job.batch
            /\ job'.patch = job.patch /\ job'.fails = job.fails /\ job'.then = job.then
            /\ job'.row = Base(cfg[job.out])
            /\ disturbed' = IF Base(cfg[job.out]).fails # snap[job.out].fails
                            THEN disturbed \cup {job.out} ELSE disturbed
<1> DEFINE row == cfg[job.out]
           pausing == job.patch \in Pausing
<1>1. /\ job \in Job /\ row \in Row /\ Base(row) \in Config /\ job.then \in {"send", "drop", "done"}
  BY JobAt, BaseType DEF MergeRead, TypeInv, TypeOK
<1>2. CASE row = NoRow
  <2> DEFINE where == IF pausing THEN "done" ELSE job.then
  <2>1. Goto(where) /\ UNCHANGED disturbed
    BY <1>2 DEF MergeRead
  <2>2. where \in {"drop", "send", "done"} /\ (where = "send" => ~pausing /\ job.then = "send")
        /\ (where = "done" => pausing \/ job.then = "done")
        /\ (where = "drop" => job.then = "drop")
    BY <1>1
  <2> HIDE DEF where
  <2>3. \/ where = "done" /\ job' = None
        \/ /\ job' \in Job /\ job'.at = where /\ where # "done"
           /\ job'.out = job.out /\ job'.batch = job.batch
    BY <1>1, <2>1, <2>2, GotoStep
  <2>4. CASE where = "done"
    BY <1>2, <2>1, <2>2, <2>3, <2>4
  <2>5. CASE where # "done"
    <3>1. job' # None /\ where \in {"send", "drop"}
      BY <2>2, <2>3, <2>5, KindsAssumption
    <3> QED
      BY <1>2, <2>1, <2>2, <2>3, <2>5, <3>1
  <2> QED
    BY <2>4, <2>5
<1>3. CASE row # NoRow /\ pausing /\ Base(row).paused
  <2>1. Goto("drop") /\ UNCHANGED disturbed
    BY <1>3 DEF MergeRead
  <2> DEFINE where == "drop"
  <2>2. Goto(where) /\ where \in {"drop", "send", "done"} /\ where \notin {"send", "done"}
    BY <2>1
  <2> HIDE DEF where
  <2>3. /\ job' \in Job /\ job'.at = where
        /\ job'.out = job.out /\ job'.batch = job.batch
    BY <1>1, <2>2, GotoStep
  <2>4. job' # None
    BY <2>3, KindsAssumption
  <2> QED
    BY <1>3, <2>1, <2>2, <2>3, <2>4 DEF where
<1>4. CASE row # NoRow /\ ~ (pausing /\ Base(row).paused)
  <2>1. /\ job' = [job EXCEPT !.at = "write", !.row = Base(row)]
        /\ disturbed' = IF Base(row).fails # snap[job.out].fails
                        THEN disturbed \cup {job.out} ELSE disturbed
    BY <1>4 DEF MergeRead
  <2> QED
    BY <1>1, <2>1, ReadType
<1> QED
  BY <1>2, <1>3, <1>4

LEMMA UnreachableJob ==
  ASSUME TypeInv, Unreachable
  PROVE  /\ job' \in Job /\ job'.at = "merge" /\ job'.out = job.out /\ job'.batch = job.batch
         /\ \/ /\ snap[job.out].fails = 2
               /\ job'.patch = "pause" /\ job'.fails = 0 /\ job'.then = "drop"
            \/ /\ snap[job.out].fails + 1 \in Counts
               /\ job'.patch = "count" /\ job'.fails = snap[job.out].fails + 1
               /\ job'.then = "done"
<1> DEFINE n == snap[job.out].fails + 1
<1>1. job \in Job /\ snap[job.out].fails \in 0..2
  BY JobAt DEF Unreachable, Config
<1>2. "pause" \in Patch /\ "count" \in Patch /\ "drop" \in Thens /\ "done" \in Thens
  BY DEF Patch, Pausing, Thens
<1>3. CASE n >= 3
  <2>1. job' = Merging(job, "pause", 0, "drop")
    BY <1>3 DEF Unreachable
  <2>2. snap[job.out].fails = 2
    BY <1>1, <1>3
  <2> QED
    BY <1>1, <1>2, <2>1, <2>2, MergingZero
<1>4. CASE ~(n >= 3)
  <2>1. job' = Merging(job, "count", n, "done")
    BY <1>4 DEF Unreachable
  <2>2. n \in Counts
    BY <1>1, <1>4 DEF Counts
  <2> HIDE DEF n
  <2>3. /\ job' \in Job /\ job'.at = "merge" /\ job'.out = job.out /\ job'.batch = job.batch
        /\ job'.patch = "count" /\ job'.fails = n /\ job'.then = "done"
    BY <1>1, <1>2, <2>1, <2>2, MergingType
  <2> QED
    BY <2>2, <2>3 DEF n
<1> QED
  BY <1>3, <1>4

LEMMA StreakStep ==
  ASSUME TypeInv, Unreachable
  PROVE  /\ streak' \in [Outputs -> 0..3]
         /\ \A o \in Outputs \ {job.out} : streak'[o] = streak[o]
         /\ streak[job.out] = 3 => streak'[job.out] = 3
         /\ streak[job.out] # 3 => streak'[job.out] = streak[job.out] + 1
<1> DEFINE n == IF streak[job.out] = 3 THEN 3 ELSE streak[job.out] + 1
<1>1. job.out \in Outputs /\ streak \in [Outputs -> 0..3]
  BY JobAt DEF Unreachable, TypeInv, TypeOK
<1>2. n \in 0..3
  BY <1>1
<1>3. streak' = [streak EXCEPT ![job.out] = n]
  BY DEF Unreachable
<1> HIDE DEF n
<1>4. streak' \in [Outputs -> 0..3] /\ streak'[job.out] = n
      /\ \A o \in Outputs \ {job.out} : streak'[o] = streak[o]
  BY <1>1, <1>2, <1>3
<1> QED
  BY <1>4 DEF n

LEMMA ConnectedJob ==
  ASSUME TypeInv, Connected
  PROVE  /\ job' \in Job /\ job'.out = job.out /\ job'.batch = job.batch
         /\ \/ snap[job.out].fails = 0 /\ job'.at = "send"
            \/ /\ job'.at = "merge" /\ job'.patch = "count" /\ job'.fails = 0
               /\ job'.then = "send"
<1> DEFINE j == Held(job)
<1>1. job \in Job /\ snap[job.out].fails \in 0..2
  BY JobAt DEF Connected, Config
<1>2. j \in Job /\ j.at = "send" /\ j.out = job.out /\ j.batch = job.batch
  BY <1>1, HeldType
<1>3. job' = IF snap[job.out].fails > 0 THEN Merging(j, "count", 0, "send") ELSE j
  BY DEF Connected
<1>4. "count" \in Patch /\ "send" \in Thens
  BY DEF Patch, Thens
<1> HIDE DEF j
<1>5. CASE snap[job.out].fails > 0
  <2>1. job' = Merging(j, "count", 0, "send")
    BY <1>3, <1>5
  <2> QED
    BY <1>2, <1>4, <2>1, MergingZero
<1>6. CASE ~(snap[job.out].fails > 0)
  BY <1>1, <1>2, <1>3, <1>6
<1> QED
  BY <1>5, <1>6

LEMMA RejectedJob ==
  ASSUME TypeInv, Rejected
  PROVE  /\ job' \in Job /\ job'.at = "merge" /\ job'.out = job.out /\ job'.batch = job.batch
         /\ job'.patch = "reject" /\ job'.then = "drop"
<1>1. job \in Job /\ "reject" \in Patch /\ "drop" \in Thens
  BY JobAt DEF Rejected, Patch, Pausing, Thens
<1>2. job' = Merging(job, "reject", 0, "drop")
  BY DEF Rejected
<1> QED
  BY <1>1, <1>2, MergingZero

LEMMA ReadCertJob ==
  ASSUME TypeInv, ReadCert
  PROVE  \/ job' = None /\ Miss(job.batch)
         \/ /\ job' \in Job /\ job'.out = job.out /\ job'.batch = job.batch
            /\ job'.at = "send" \/ (job'.at = "connect" /\ job'.cert \in Certs)
            /\ UNCHANGED missed
<1>1. job \in Job /\ cert[job.out] \in Certs \cup {None}
  BY JobAt DEF ReadCert, TypeInv, TypeOK
<1>2. CASE cert[job.out] = None
  BY <1>2 DEF ReadCert, Goto
<1>3. CASE cert[job.out] # None
  <2>1. job' = (IF sock[job.out] # None THEN Held(job)
                ELSE [job EXCEPT !.at = "connect", !.cert = cert[job.out]]) /\ UNCHANGED missed
    BY <1>3 DEF ReadCert
  <2>2. CASE sock[job.out] # None
    BY <1>1, <2>1, <2>2, HeldType
  <2>3. CASE sock[job.out] = None
    <3>1. job' = [job EXCEPT !.at = "connect", !.cert = cert[job.out]]
      BY <2>1, <2>3
    <3> DEFINE c == cert[job.out]
    <3>2. c \in Certs
      BY <1>1, <1>3
    <3> HIDE DEF c
    <3>3. job' = [job EXCEPT !.at = "connect", !.cert = c]
      BY <3>1 DEF c
    <3>4. /\ job' \in Job /\ job'.at = "connect" /\ job'.cert = c
          /\ job'.out = job.out /\ job'.batch = job.batch
      BY <1>1, <3>2, <3>3, ConnectType
    <3> QED
      BY <2>1, <3>2, <3>4
  <2> QED
    BY <2>2, <2>3
<1> QED
  BY <1>2, <1>3

LEMMA MergeWriteJob ==
  ASSUME TypeInv, MergeWrite
  PROVE  \/ job' = None /\ job.then = "done"
         \/ /\ job' \in Job /\ job'.at = job.then /\ job.then \in {"drop", "send"}
            /\ job'.out = job.out /\ job'.batch = job.batch
<1> DEFINE where == job.then
<1>1. job \in Job /\ where \in {"drop", "send", "done"}
  BY JobAt DEF MergeWrite
<1>2. Goto(where)
  BY DEF MergeWrite
<1> HIDE DEF where
<1>3. \/ where = "done" /\ job' = None
      \/ /\ job' \in Job /\ job'.at = where /\ where # "done"
         /\ job'.out = job.out /\ job'.batch = job.batch
  BY <1>1, <1>2, GotoStep
<1> QED
  BY <1>1, <1>3 DEF where

LEMMA GivenType ==
  ASSUME TypeInv, NEW where, At(where), NEW S \in SUBSET Hexes, Given(S)
  PROVE  got' \in [Outputs -> Picture]
<1> DEFINE new == [h \in Hexes |-> IF h \in S THEN air[h] ELSE got[job.out][h]]
<1>1. job.out \in Outputs /\ got[job.out] \in Picture /\ air \in Picture
  BY JobAt DEF TypeInv, TypeOK
<1>2. new \in Picture
  BY <1>1 DEF Picture
<1>3. got' = [got EXCEPT ![job.out] = new]
  BY DEF Given
<1> HIDE DEF new
<1> QED
  BY <1>1, <1>2, <1>3 DEF TypeInv, TypeOK

\* The parts of the cycle that serve the output taken.
LEMMA ServeType ==
  ASSUME TypeInv,
         \/ ReadCert \/ Connected \/ Rejected \/ Unreachable
         \/ MergeRead \/ MergeWrite \/ DropSocket
         \/ Sent \/ SendFails
  PROVE  TypeInv'
<1> USE DEF tables, memory, cycle, pages, history
<1>1. CASE ReadCert
  <2>1. missed' \in [Outputs -> SUBSET Hexes]
    BY <1>1, ReadCertJob, MissType DEF ReadCert, TypeInv, TypeOK
  <2>2. snap[job.out].url \in Endpoints /\ snap[job.out] \in Config /\ job.out \notin todo /\ running
    BY <1>1, JobAt DEF ReadCert, At, TypeInv, Served
  <2> QED
    BY <1>1, <2>1, <2>2, ReadCertJob DEF ReadCert, TypeInv, TypeOK, Served
<1>2. CASE Connected
  <2>1. /\ job \in Job /\ job.out \in Outputs /\ snap[job.out] \in Config /\ job.out \notin todo
        /\ running /\ job.cert \in Certs /\ snap[job.out].url \in Urls
    BY <1>2, JobAt, SenderAssumption DEF Connected, TypeInv, Served
  <2>2. [url |-> snap[job.out].url, cert |-> job.cert] \in Socket
    BY <2>1 DEF Socket
  <2>3. sock' \in [Outputs -> Socket \cup {None}] /\ streak' \in [Outputs -> 0..3]
    BY <1>2, <2>1, <2>2 DEF Connected, TypeInv, TypeOK
  <2> QED
    BY <1>2, <2>1, <2>3, ConnectedJob DEF Connected, TypeInv, TypeOK, Served
<1>3. CASE Rejected
  <2>1. missed' \in [Outputs -> SUBSET Hexes]
    BY <1>3, MissType DEF Rejected
  <2>2. snap[job.out] \in Config /\ job.out \notin todo /\ running
    BY <1>3, JobAt DEF Rejected
  <2> QED
    BY <1>3, <2>1, <2>2, RejectedJob DEF Rejected, TypeInv, TypeOK, Served
<1>4. CASE Unreachable
  <2>1. missed' \in [Outputs -> SUBSET Hexes]
    BY <1>4, MissType DEF Unreachable
  <2>2. snap[job.out] \in Config /\ job.out \notin todo /\ running
    BY <1>4, JobAt DEF Unreachable
  <2>3. streak' \in [Outputs -> 0..3]
    BY <1>4, StreakStep
  <2>4. job' \in Job /\ job'.at = "merge" /\ job'.out = job.out
    BY <1>4, UnreachableJob
  <2>5. UNCHANGED <<cfg, active, cert, rules, sock, lastSent, running, todo, snap, air, req, form,
                    edits, got, disturbed>>
    BY <1>4 DEF Unreachable
  <2> QED
    BY <2>1, <2>2, <2>3, <2>4, <2>5 DEF TypeInv, TypeOK, Served
<1>5. CASE MergeRead
  <2>1. snap[job.out] \in Config /\ job.out \notin todo /\ running /\ job.out \in Outputs
    BY <1>5, JobAt DEF MergeRead
  <2> QED
    BY <1>5, <2>1, MergeReadJob DEF MergeRead, TypeInv, TypeOK, Served
<1>6. CASE MergeWrite
  <2>1. /\ snap[job.out] \in Config /\ job.out \notin todo /\ running /\ job.out \in Outputs
        /\ job.row \in Config /\ job.patch \in Patch /\ job.fails \in 0..2
    BY <1>6, JobAt DEF MergeWrite
  <2>2. Merged(job.row, job.patch, job.fails, None) \in Row
    BY <2>1, MergedType DEF Row
  <2>3. cfg' \in [Outputs -> Row]
    BY <1>6, <2>1, <2>2, StoredType DEF MergeWrite, TypeInv
  <2> QED
    BY <1>6, <2>1, <2>3, MergeWriteJob DEF MergeWrite, TypeInv, TypeOK, Served
<1>7. CASE DropSocket
  BY <1>7 DEF DropSocket, At, TypeInv, TypeOK, Served
<1>8. CASE Sent
  <2>1. got' \in [Outputs -> Picture]
    BY <1>8, JobAt, GivenType DEF Sent
  <2>2. missed' \in [Outputs -> SUBSET Hexes]
    BY <1>8 DEF Sent, TypeInv, TypeOK
  <2> QED
    BY <1>8, <2>1, <2>2 DEF Sent, At, TypeInv, TypeOK, Served
<1>9. CASE SendFails
  <2>1. PICK S \in SUBSET job.batch :
          /\ Given(S)
          /\ missed' = [missed EXCEPT ![job.out] = (@ \ S) \cup (job.batch \ S)]
    BY <1>9 DEF SendFails
  <2>2. At("send") /\ job.batch \in SUBSET Hexes
    BY <1>9, JobAt DEF SendFails
  <2>3. got' \in [Outputs -> Picture] /\ missed' \in [Outputs -> SUBSET Hexes]
    BY <2>1, <2>2, GivenType DEF TypeInv, TypeOK
  <2> QED
    BY <1>9, <2>3 DEF SendFails, At, TypeInv, TypeOK, Served
<1> QED
  BY <1>1, <1>2, <1>3, <1>4, <1>5, <1>6, <1>7, <1>8, <1>9

\* What the dashboard's requests leave to the sender.
DashboardLeaves ==
    /\ UNCHANGED <<lastSent, running, todo, snap, air, got, missed, streak>>
    /\ job' = job \/ (job # None /\ job' = [job EXCEPT !.open = FALSE])
    /\ \A o \in disturbed : o \in disturbed'

RequestAts == {"merge", "write", "drop"}

LEMMA PostedType ==
  ASSUME NEW o \in Outputs, NEW patch \in Patch, NEW u \in Urls \cup {None}, Posted(o, patch, u)
  PROVE  req' \in Request
  BY EmptyType DEF Posted, Request

LEMMA RequestMoves ==
  ASSUME NEW r \in Request, NEW at \in RequestAts, NEW row \in Config
  PROVE  [r EXCEPT !.at = at, !.row = row] \in Request /\ [r EXCEPT !.at = at] \in Request
  BY DEF Request, RequestAts

LEMMA DashboardType ==
  ASSUME TypeInv, Dashboard
  PROVE  TypeInv' /\ DashboardLeaves
<1> USE DEF tables, memory, cycle, pages, history, Idle
<1>1. ASSUME NEW o \in Outputs, NEW c \in Certs, Upload(o, c)
      PROVE  TypeInv' /\ DashboardLeaves
  <2>1. "release" \in Patch /\ None \in Urls \cup {None}
    BY DEF Patch
  <2>2. req' \in Request
    BY <1>1, <2>1, PostedType DEF Upload
  <2>3. cert' \in [Outputs -> Certs \cup {None}] /\ edits' \in 0..MaxEdits
    BY <1>1, SenderAssumption DEF Upload, Asked, TypeInv, TypeOK
  <2> QED
    BY <1>1, <2>2, <2>3 DEF Upload, TypeInv, TypeOK, Served, DashboardLeaves
<1>2. ASSUME NEW o \in Outputs, NEW u \in Urls \cup {None}, TestTls(o, u)
      PROVE  TypeInv' /\ DashboardLeaves
  <2>1. "release" \in Patch /\ "adopt" \in Patch /\ "pause" \in Patch /\ None \in Urls \cup {None}
    BY DEF Patch, Pausing
  <2>2. req' \in Request
    <3>1. PICK patch \in Patch, u2 \in Urls \cup {None} : Posted(o, patch, u2)
      BY <1>2, <2>1 DEF TestTls
    <3> QED
      BY <3>1, PostedType
  <2>3. edits' \in 0..MaxEdits
    BY <1>2, SenderAssumption DEF TestTls, Asked, TypeInv, TypeOK
  <2> QED
    BY <1>2, <2>2, <2>3 DEF TestTls, TypeInv, TypeOK, Served, DashboardLeaves
<1>3. ASSUME NEW o \in Outputs, NEW S \in SUBSET Hexes, EditRules(o, S)
      PROVE  TypeInv' /\ DashboardLeaves
  <2>1. rules' \in [Outputs -> SUBSET Hexes] /\ edits' \in 0..MaxEdits
    BY <1>3, SenderAssumption DEF EditRules, Asked, TypeInv, TypeOK
  <2> QED
    BY <1>3, <2>1 DEF EditRules, TypeInv, TypeOK, Served, DashboardLeaves
<1>4. ASSUME NEW o \in Outputs, OpenPage(o)
      PROVE  TypeInv' /\ DashboardLeaves
  <2>1. form' \in Page /\ edits' \in 0..MaxEdits
    BY <1>4, SenderAssumption DEF OpenPage, Asked, Page, TypeInv, TypeOK
  <2> QED
    BY <1>4, <2>1 DEF OpenPage, Asked, TypeInv, TypeOK, Served, DashboardLeaves
<1>5. ASSUME NEW o \in Outputs, SaveText(o)
      PROVE  TypeInv' /\ DashboardLeaves
  <2>1. cfg' \in [Outputs -> Row] /\ edits' \in 0..MaxEdits
    BY <1>5, SenderAssumption DEF SaveText, Asked, Row, TypeInv, TypeOK
  <2> QED
    BY <1>5, <2>1 DEF SaveText, Asked, TypeInv, TypeOK, Served, DashboardLeaves
<1>6. ASSUME NEW o \in Outputs, Delete(o)
      PROVE  TypeInv' /\ DashboardLeaves
  <2>1. cfg' \in [Outputs -> Row] /\ edits' \in 0..MaxEdits
    BY <1>6, SenderAssumption DEF Delete, Asked, Row, TypeInv, TypeOK
  <2> QED
    BY <1>6, <2>1 DEF Delete, Asked, TypeInv, TypeOK, Served, DashboardLeaves
<1>7. ASSUME NEW u \in Urls, NEW on \in BOOLEAN, SavePage(u, on)
      PROVE  TypeInv' /\ DashboardLeaves
  <2> DEFINE o == form.out
             new == [form.row EXCEPT !.url = u]
             row == IF u # Base(cfg[o]).url THEN [new EXCEPT !.paused = FALSE] ELSE new
  <2>1. o \in Outputs /\ form.row \in Config
    BY <1>7 DEF SavePage, TypeInv, TypeOK, Page
  <2>2. new \in Config
    BY <2>1, UrlRow
  <2>3. row \in Config
    <3> HIDE DEF new
    <3> QED
      BY <2>2, ReleaseRow
  <2>4. Stored(o, row)
    BY <1>7 DEF SavePage
  <2>5. cfg' \in [Outputs -> Row]
    <3> HIDE DEF row, o
    <3> QED
      BY <2>1, <2>3, <2>4, StoredType DEF TypeInv, Row
  <2>6. active' \subseteq Outputs /\ disturbed' \subseteq Outputs /\ edits' \in 0..MaxEdits
    BY <1>7, <2>1, SenderAssumption DEF SavePage, Asked, TypeInv, TypeOK
  <2>7. disturbed \subseteq disturbed'
    BY <1>7 DEF SavePage
  <2> QED
    BY <1>7, <2>5, <2>6, <2>7 DEF SavePage, Asked, TypeInv, TypeOK, Served, DashboardLeaves
<1>8. CASE ReqRead
  <2>1. req \in Request /\ req.out \in Outputs
    BY <1>8 DEF ReqRead, TypeInv, TypeOK, Request
  <2>2. "drop" \in RequestAts /\ "write" \in RequestAts /\ Base(cfg[req.out]) \in Config
    BY <2>1, BaseType DEF RequestAts, TypeInv, TypeOK
  <2>3. req' \in Request
    BY <1>8, <2>1, <2>2, RequestMoves, EmptyType DEF ReqRead
  <2> QED
    BY <1>8, <2>3 DEF ReqRead, TypeInv, TypeOK, Served, DashboardLeaves
<1>9. CASE ReqWrite
  <2>1. /\ req \in Request /\ req.out \in Outputs /\ req.row \in Config /\ req.patch \in Patch
        /\ req.url \in Urls \cup {None}
    BY <1>9 DEF ReqWrite, TypeInv, TypeOK, Request
  <2>2. Merged(req.row, req.patch, 0, req.url) \in Row
    <3> DEFINE n == 0
    <3>1. n \in 0..2
      OBVIOUS
    <3> HIDE DEF n
    <3>2. Merged(req.row, req.patch, n, req.url) \in Row
      BY <2>1, <3>1, MergedType DEF Row
    <3> QED
      BY <3>2 DEF n
  <2>3. cfg' \in [Outputs -> Row]
    BY <1>9, <2>1, <2>2, StoredType DEF ReqWrite, TypeInv
  <2>4. "drop" \in RequestAts /\ EmptyConfig \in Config
    BY EmptyType DEF RequestAts
  <2>5. req' \in Request
    BY <1>9, <2>1, <2>4, RequestMoves DEF ReqWrite
  <2>6. disturbed' \subseteq Outputs /\ disturbed \subseteq disturbed'
    BY <1>9, <2>1 DEF ReqWrite, TypeInv, TypeOK
  <2> QED
    BY <1>9, <2>3, <2>5, <2>6 DEF ReqWrite, TypeInv, TypeOK, Served, DashboardLeaves
<1>10. CASE ReqDrop
  <2>1. job' = job \/ (job # None /\ job' = [job EXCEPT !.open = FALSE])
    BY <1>10 DEF ReqDrop
  <2>2. /\ job' \in Job \cup {None}
        /\ job' # None => /\ job # None /\ job'.out = job.out /\ job'.at = job.at
                          /\ job'.cert = job.cert
    BY <2>1, ClosedType DEF TypeInv, TypeOK
  <2>3. sock' \in [Outputs -> Socket \cup {None}]
    BY <1>10 DEF ReqDrop, TypeInv, TypeOK
  <2>4. ~running => job' = None
    BY <2>1 DEF TypeInv, Served
  <2> QED
    BY <1>10, <2>1, <2>2, <2>3, <2>4 DEF ReqDrop, TypeInv, TypeOK, Served, DashboardLeaves
<1>11. CASE ReqAbort
  BY <1>11 DEF ReqAbort, TypeInv, TypeOK, Served, DashboardLeaves
<1> QED
  BY <1>1, <1>2, <1>3, <1>4, <1>5, <1>6, <1>7, <1>8, <1>9, <1>10, <1>11 DEF Dashboard

LEMMA AbortType ==
  ASSUME TypeInv, Abort
  PROVE  /\ TypeInv'
         /\ job = None => UNCHANGED <<missed, disturbed>>
         /\ job # None => Miss(job.batch)
<1>1. /\ running' = FALSE /\ todo' = {} /\ snap' = NoRows /\ air' = NoPicture /\ job' = None
      /\ UNCHANGED <<cfg, active, cert, rules, sock, lastSent, req, form, edits, got, streak>>
  BY DEF Abort, EndCycle, tables, memory, pages
<1>2. /\ job = None => UNCHANGED <<missed, disturbed>>
      /\ job # None => Miss(job.batch) /\ CutShort
  BY DEF Abort
<1>3. job # None => job.out \in Outputs /\ job.batch \in SUBSET Hexes
  BY DEF TypeInv, TypeOK, Job
<1>4. missed' \in [Outputs -> SUBSET Hexes]
  BY <1>2, <1>3 DEF Miss, TypeInv, TypeOK
<1>5. disturbed' \subseteq Outputs
  BY <1>2, <1>3 DEF CutShort, TypeInv, TypeOK
<1> QED
  BY <1>1, <1>2, <1>4, <1>5, EmptyPictures DEF TypeInv, TypeOK, Served

LEMMA AgeType ==
  ASSUME TypeInv, NEW o \in Outputs, Age(o)
  PROVE  /\ TypeInv'
         /\ \A p \in Outputs : /\ cfg'[p] \in Config <=> cfg[p] \in Config
                               /\ cfg'[p] \in Config => cfg'[p].fails = cfg[p].fails
                               /\ snap[p] \in Config => /\ snap'[p] \in Config
                                                        /\ snap'[p].fails = snap[p].fails
                                                        /\ snap'[p].url = snap[p].url
<1> DEFINE due == TRUE
           row == [cfg[o] EXCEPT !.due = due]
           read == IF snap[o] \in Config THEN [snap[o] EXCEPT !.due = due] ELSE snap[o]
<1>1. /\ cfg' = [cfg EXCEPT ![o] = row] /\ snap' = [snap EXCEPT ![o] = read]
      /\ UNCHANGED <<active, cert, rules, sock, lastSent, running, todo, air, job, req, form,
                     edits, got, missed, streak, disturbed>>
      /\ cfg[o] \in Config
  BY DEF Age, memory, pages, history
<1>2. due \in BOOLEAN
  OBVIOUS
<1> HIDE DEF due
<1>3. row \in Config /\ row.fails = cfg[o].fails
  BY <1>1, <1>2, DueRow
<1>4. /\ snap[o] \in Config => read \in Config /\ read.fails = snap[o].fails /\ read.url = snap[o].url
      /\ snap[o] \notin Config => read = snap[o]
  BY <1>2, DueRow
<1> HIDE DEF row, read
<1>5. cfg' \in [Outputs -> Row] /\ snap' \in [Outputs -> Config \cup {NoRow}]
  BY <1>1, <1>3, <1>4 DEF TypeInv, TypeOK, Row
<1>6. \A p \in Outputs : /\ cfg'[p] \in Config <=> cfg[p] \in Config
                         /\ cfg'[p] \in Config => cfg'[p].fails = cfg[p].fails
                         /\ snap[p] \in Config => /\ snap'[p] \in Config
                                                  /\ snap'[p].fails = snap[p].fails
                                                  /\ snap'[p].url = snap[p].url
  BY <1>1, <1>3, <1>4 DEF TypeInv, TypeOK
<1>7. TypeOK'
  BY <1>1, <1>5 DEF TypeInv, TypeOK
<1>8. job # None => job.out \in Outputs
  BY DEF TypeInv, TypeOK, Job
<1>9. Served'
  BY <1>1, <1>6, <1>8 DEF TypeInv, TypeOK, Served
<1> QED
  BY <1>6, <1>7, <1>9 DEF TypeInv

LEMMA RestartType ==
  ASSUME TypeInv, Restart
  PROVE  TypeInv'
<1>1. /\ running' = FALSE /\ todo' = {} /\ snap' = NoRows /\ air' = NoPicture
      /\ job' = None /\ req' = None
      /\ sock' = [o \in Outputs |-> None] /\ lastSent' = [o \in Outputs |-> NoPicture]
      /\ missed' = [o \in Outputs |-> {}]
      /\ UNCHANGED <<cfg, active, cert, rules, form, edits, got, streak>>
  BY DEF Restart, EndCycle, tables
<1>2. disturbed' \subseteq Outputs
  BY DEF Restart, CutShort, At, TypeInv, TypeOK, Job
<1>3. /\ sock' \in [Outputs -> Socket \cup {None}]
      /\ lastSent' \in [Outputs -> Picture]
      /\ missed' \in [Outputs -> SUBSET Hexes]
  BY <1>1, EmptyPictures
<1> QED
  BY <1>1, <1>2, <1>3, EmptyPictures DEF TypeInv, TypeOK, Served

LEMMA StepType ==
  ASSUME TypeInv, [Next]_vars
  PROVE  TypeInv'
<1>1. CASE UNCHANGED vars
  BY <1>1 DEF TypeInv, TypeOK, Served, vars
<1>2. CASE Next
  BY <1>2, CycleType, ServeType, DashboardType, AbortType, AgeType, RestartType DEF Next, Sender
<1> QED
  BY <1>1, <1>2

THEOREM TypeInvHolds == Spec => []TypeInv
  BY InitType, StepType, PTL DEF Spec

\* Every variable holds what the code keeps there.
THEOREM TypeCorrect == Spec => []TypeOK
<1>1. TypeInv => TypeOK
  BY DEF TypeInv
<1> QED
  BY <1>1, TypeInvHolds, PTL

-----------------------------------------------------------------------------
(* What was last sent *)

\* The batch being served is of the picture of this cycle; once the job is not to be
\* sent its aircraft are missed.
BatchInv ==
    job # None =>
        /\ \A h \in job.batch : lastSent[job.out][h] \in {air[h], None}
        /\ \/ job.at = "drop"
           \/ job.at \in {"merge", "write"} /\ job.then # "send"
           => job.batch \subseteq missed[job.out]
        /\ job.at \in {"merge", "write"} /\ job.patch \in Pausing => job.then # "send"

DeltaInv == DeltaIsTrue /\ BatchInv

\* A step that gives nothing and forgets nothing, and misses what it does not go on with.
LEMMA DeltaKept ==
  ASSUME DeltaIsTrue, UNCHANGED <<lastSent, got>>,
         \A o \in Outputs : missed[o] \subseteq missed'[o],
         job # None => \/ job.batch \subseteq missed'[job.out]
                       \/ job' # None /\ job'.out = job.out /\ job'.batch = job.batch
  PROVE  DeltaIsTrue'
<1> SUFFICES ASSUME NEW o \in Outputs, NEW h \in Hexes \ (missed'[o] \cup InFlight(o)')
             PROVE  lastSent[o][h] \in {None, got[o][h]}
  BY DEF DeltaIsTrue
<1>1. h \notin missed[o]
  OBVIOUS
<1>2. h \notin InFlight(o)
  BY DEF InFlight
<1> QED
  BY <1>1, <1>2 DEF DeltaIsTrue

LEMMA MissMore ==
  ASSUME TypeInv, NEW where, At(where), Miss(job.batch)
  PROVE  /\ \A o \in Outputs : missed[o] \subseteq missed'[o]
         /\ job.batch \subseteq missed'[job.out]
  BY JobAt DEF Miss

LEMMA PrepareDelta ==
  ASSUME TypeInv, DeltaInv, NEW o \in Outputs, Prepare(o)
  PROVE  DeltaInv'
<1>1. PICK broken \in SUBSET Changed(lastSent[o], air) :
        LET plan == PlanOf(o, broken)
            j == [NewJob(o) EXCEPT !.batch = plan.send]
        IN  /\ \E last \in Capped(plan.last) : lastSent' = [lastSent EXCEPT ![o] = last]
            /\ IF plan.send # {}
               THEN IF snap[o].url \in Endpoints
                    THEN job' = j /\ UNCHANGED missed
                    ELSE job' = None /\ missed' = [missed EXCEPT ![o] = @ \cup plan.send]
               ELSE /\ job' = IF snap[o].fails > 0 THEN Merging(j, "count", 0, "done")
                              ELSE None
                    /\ UNCHANGED missed
  BY DEF Prepare
<1> DEFINE send == PlanOf(o, broken).send
           last1 == PlanOf(o, broken).last
           j == [NewJob(o) EXCEPT !.batch = send]
<1>2. /\ send \in SUBSET Hexes /\ last1 \in Picture
      /\ \A h \in Hexes \ send : last1[h] \in {lastSent[o][h], None}
      /\ \A h \in send : last1[h] = air[h]
  BY PlanType DEF TypeInv
<1>3. j \in Job /\ j.at = "cert" /\ j.out = o /\ j.batch = send
  BY <1>2, NewJobType, BatchType
<1>4. \/ job' = None /\ missed' = [missed EXCEPT ![o] = @ \cup send]
      \/ job' = j /\ UNCHANGED missed
      \/ /\ send = {} /\ UNCHANGED missed
         /\ job' = None \/ job' = Merging(j, "count", 0, "done")
  BY <1>1
<1>5. \E last \in Capped(last1) : lastSent' = [lastSent EXCEPT ![o] = last]
  BY <1>1
<1> HIDE DEF send, last1, j
<1>6. "count" \in Patch /\ "done" \in Thens /\ "count" \notin Pausing
  BY DEF Patch, Thens, Pausing
<1>7. \/ job' = None /\ send \subseteq missed'[o]
      \/ /\ job' \in Job /\ job'.out = o /\ job'.batch = send
         /\ job'.at = "cert" \/ (job'.at = "merge" /\ send = {} /\ job'.patch \notin Pausing)
  <2>1. CASE job' = None /\ missed' = [missed EXCEPT ![o] = @ \cup send]
    BY <2>1 DEF TypeInv, TypeOK
  <2>2. CASE job' = j
    BY <1>3, <2>2
  <2>3. CASE send = {} /\ job' = None
    BY <2>3
  <2>4. CASE send = {} /\ job' = Merging(j, "count", 0, "done")
    BY <1>3, <1>6, <2>4, MergingZero
  <2> QED
    BY <1>4, <2>1, <2>2, <2>3, <2>4
<1>8. \A p \in Outputs : missed[p] \subseteq missed'[p]
  BY <1>4 DEF TypeInv, TypeOK
<1>9. /\ \A h \in Hexes : lastSent'[o][h] \in {last1[h], None}
      /\ \A p \in Outputs \ {o} : lastSent'[p] = lastSent[p]
  BY <1>2, <1>5, CappedType DEF TypeInv, TypeOK
<1>10. job = None /\ UNCHANGED <<air, got>>
  BY DEF Prepare, Take
<1>11. job' # None => InFlight(o)' = send
  BY <1>7 DEF InFlight
<1>12. DeltaIsTrue'
  <2> SUFFICES ASSUME NEW p \in Outputs, NEW h \in Hexes \ (missed'[p] \cup InFlight(p)')
               PROVE  lastSent'[p][h] \in {None, got[p][h]}
    BY <1>10 DEF DeltaIsTrue
  <2>1. h \notin missed[p] /\ h \notin InFlight(p)
    BY <1>8, <1>10 DEF InFlight
  <2>2. lastSent[p][h] \in {None, got[p][h]}
    BY <2>1 DEF DeltaInv, DeltaIsTrue
  <2>3. CASE p # o
    BY <1>9, <2>2, <2>3
  <2>4. CASE p = o
    <3>1. h \notin missed'[o] /\ h \notin InFlight(o)'
      BY <2>4
    <3>2. CASE job' = None
      <4>1. send \subseteq missed'[o]
        BY <1>7, <3>2, KindsAssumption
      <4> QED
        BY <1>2, <1>9, <2>2, <2>4, <3>1, <4>1
    <3>3. CASE job' # None
      BY <1>2, <1>9, <1>11, <2>2, <2>4, <3>1, <3>3
    <3> QED
      BY <3>2, <3>3
  <2> QED
    BY <2>3, <2>4
<1>13. BatchInv'
  BY <1>2, <1>7, <1>9, <1>10 DEF BatchInv
<1> QED
  BY <1>12, <1>13 DEF DeltaInv

LEMMA SendDelta ==
  ASSUME TypeInv, DeltaInv, At("send"), NEW S \in SUBSET job.batch, Given(S),
         missed' = [missed EXCEPT ![job.out] = (@ \ S) \cup (job.batch \ S)],
         job' = None, UNCHANGED lastSent
  PROVE  DeltaInv'
<1>1. job # None /\ job.out \in Outputs /\ job.batch \in SUBSET Hexes
  BY JobAt
<1>2. /\ \A o \in Outputs \ {job.out} : got'[o] = got[o] /\ missed'[o] = missed[o]
      /\ missed'[job.out] = (missed[job.out] \ S) \cup (job.batch \ S)
      /\ \A h \in Hexes : got'[job.out][h] = IF h \in S THEN air[h] ELSE got[job.out][h]
  BY <1>1 DEF Given, TypeInv, TypeOK
<1> SUFFICES ASSUME NEW o \in Outputs, NEW h \in Hexes \ missed'[o]
             PROVE  lastSent[o][h] \in {None, got'[o][h]}
  BY DEF DeltaInv, DeltaIsTrue, BatchInv
<1>3. CASE o # job.out
  BY <1>2, <1>3 DEF DeltaInv, DeltaIsTrue, InFlight
<1>4. CASE o = job.out /\ h \in S
  BY <1>1, <1>2, <1>4 DEF DeltaInv, BatchInv
<1>5. CASE o = job.out /\ h \notin S
  BY <1>1, <1>2, <1>5 DEF DeltaInv, DeltaIsTrue, InFlight
<1> QED
  BY <1>3, <1>4, <1>5

LEMMA InitDelta == Init => DeltaInv
  BY DEF Init, DeltaInv, DeltaIsTrue, BatchInv, NoPicture

LEMMA StepDelta ==
  ASSUME TypeInv, DeltaInv, [Next]_vars
  PROVE  DeltaInv'
<1> USE DEF tables, memory, cycle, pages, history
<1>1. CASE UNCHANGED vars
  BY <1>1 DEF DeltaInv, DeltaIsTrue, BatchInv, InFlight, vars
<1>2. CASE StartCycle
  <2>1. job = None
    BY <1>2 DEF StartCycle, TypeInv, Served
  <2> QED
    BY <1>2, <2>1 DEF StartCycle, DeltaInv, DeltaIsTrue, BatchInv, InFlight
<1>3. CASE FinishCycle
  BY <1>3 DEF FinishCycle, EndCycle, DeltaInv, DeltaIsTrue, BatchInv, InFlight
<1>4. ASSUME NEW o \in Outputs, SkipPaused(o)
      PROVE  DeltaInv'
  BY <1>4 DEF SkipPaused, Take, DeltaInv, DeltaIsTrue, BatchInv, InFlight
<1>5. ASSUME NEW o \in Outputs, Recheck(o)
      PROVE  DeltaInv'
  <2> DEFINE j == NewJob(o)
  <2>1. PICK patch \in Patch, then \in Thens :
          job' = Merging(j, patch, 0, then) /\ then # "send"
    BY <1>5 DEF Recheck, Patch, Thens
  <2>2. j \in Job /\ j.batch = {}
    BY NewJobType
  <2> HIDE DEF j
  <2>3. job' \in Job /\ job'.batch = {} /\ job'.then = then /\ job'.at = "merge"
    BY <2>1, <2>2, MergingZero
  <2>4. job = None /\ UNCHANGED <<lastSent, got, missed>>
    BY <1>5 DEF Recheck, Take
  <2> QED
    BY <2>1, <2>3, <2>4 DEF DeltaInv, DeltaIsTrue, BatchInv, InFlight
<1>6. ASSUME NEW o \in Outputs, Prepare(o)
      PROVE  DeltaInv'
  BY <1>6, PrepareDelta
<1>7. CASE ReadCert
  <2>1. At("cert") /\ job # None /\ UNCHANGED <<lastSent, got, air>>
    BY <1>7, JobAt DEF ReadCert
  <2>2. CASE job' = None /\ Miss(job.batch)
    BY <2>1, <2>2, MissMore, DeltaKept DEF DeltaInv, BatchInv
  <2>3. CASE /\ job' \in Job /\ job'.out = job.out /\ job'.batch = job.batch
             /\ job'.at = "send" \/ (job'.at = "connect" /\ job'.cert \in Certs)
             /\ UNCHANGED missed
    <3>1. job' # None
      BY <2>3, KindsAssumption
    <3> QED
      BY <2>1, <2>3, <3>1, DeltaKept DEF DeltaInv, BatchInv
  <2> QED
    BY <1>7, <2>2, <2>3, ReadCertJob
<1>8. CASE Connected
  <2>1. At("connect") /\ job # None /\ UNCHANGED <<lastSent, got, air, missed>>
    BY <1>8, JobAt DEF Connected
  <2>2. /\ job' \in Job /\ job'.out = job.out /\ job'.batch = job.batch
        /\ job'.at = "send" \/ (job'.at = "merge" /\ job'.patch = "count" /\ job'.then = "send")
    BY <1>8, ConnectedJob
  <2>3. job' # None /\ "count" \notin Pausing
    BY <2>2, KindsAssumption DEF Pausing
  <2> QED
    BY <2>1, <2>2, <2>3, DeltaKept DEF DeltaInv, BatchInv
<1>9. CASE Rejected \/ Unreachable
  <2>1. At("connect") /\ job # None /\ UNCHANGED <<lastSent, got, air>> /\ Miss(job.batch)
    BY <1>9, JobAt DEF Rejected, Unreachable
  <2>2. /\ job' \in Job /\ job'.out = job.out /\ job'.batch = job.batch
        /\ job'.at = "merge" /\ job'.then \in {"drop", "done"}
    BY <1>9, RejectedJob, UnreachableJob
  <2>3. job' # None
    BY <2>2, KindsAssumption
  <2> QED
    BY <2>1, <2>2, <2>3, MissMore, DeltaKept DEF DeltaInv, BatchInv
<1>10. CASE MergeRead
  <2>1. At("merge") /\ job # None /\ job.at = "merge" /\ UNCHANGED <<lastSent, got, air, missed>>
    BY <1>10, JobAt DEF MergeRead
  <2>2. CASE job' = None
    <3>1. job.patch \in Pausing \/ job.then = "done"
      BY <1>10, <2>2, MergeReadJob, KindsAssumption
    <3>2. job.batch \subseteq missed[job.out]
      BY <2>1, <3>1 DEF DeltaInv, BatchInv
    <3> QED
      BY <2>1, <2>2, <3>2, DeltaKept DEF DeltaInv, BatchInv
  <2>3. CASE job' # None
    <3>1. /\ job'.out = job.out /\ job'.batch = job.batch
          /\ \/ job'.at = "send"
             \/ job'.at = "drop" /\ (job.patch \in Pausing \/ job.then = "drop")
             \/ job'.at = "write" /\ job'.patch = job.patch /\ job'.then = job.then
      BY <1>10, <2>3, MergeReadJob
    <3> QED
      BY <2>1, <2>3, <3>1, DeltaKept DEF DeltaInv, BatchInv
  <2> QED
    BY <2>2, <2>3
<1>11. CASE MergeWrite
  <2>1. At("write") /\ job # None /\ job.at = "write" /\ UNCHANGED <<lastSent, got, air, missed>>
    BY <1>11, JobAt DEF MergeWrite
  <2>2. CASE job' = None /\ job.then = "done"
    BY <2>1, <2>2, DeltaKept DEF DeltaInv, BatchInv
  <2>3. CASE /\ job' \in Job /\ job'.at = job.then /\ job.then \in {"drop", "send"}
             /\ job'.out = job.out /\ job'.batch = job.batch
    <3>1. job' # None
      BY <2>3, KindsAssumption
    <3> QED
      BY <2>1, <2>3, <3>1, DeltaKept DEF DeltaInv, BatchInv
  <2> QED
    BY <1>11, <2>2, <2>3, MergeWriteJob
<1>12. CASE DropSocket
  <2>1. /\ job # None /\ job.at = "drop" /\ job' = None
        /\ UNCHANGED <<lastSent, got, air, missed>>
    BY <1>12 DEF DropSocket, At
  <2> QED
    BY <2>1, DeltaKept DEF DeltaInv, BatchInv
<1>13. CASE Sent
  <2> DEFINE S == job.batch
  <2>1. /\ At("send") /\ Given(S) /\ job' = None /\ UNCHANGED lastSent
        /\ missed' = [missed EXCEPT ![job.out] = (@ \ S) \cup (job.batch \ S)]
    BY <1>13 DEF Sent
  <2>2. S \in SUBSET job.batch
    OBVIOUS
  <2> HIDE DEF S
  <2> QED
    BY <2>1, <2>2, SendDelta
<1>14. CASE SendFails
  <2>1. PICK S \in SUBSET job.batch :
          /\ Given(S)
          /\ missed' = [missed EXCEPT ![job.out] = (@ \ S) \cup (job.batch \ S)]
    BY <1>14 DEF SendFails
  <2>2. At("send") /\ job' = None /\ UNCHANGED lastSent
    BY <1>14 DEF SendFails
  <2> QED
    BY <2>1, <2>2, SendDelta
<1>15. CASE Dashboard
  <2>1. UNCHANGED <<lastSent, got, air, missed>>
    BY <1>15, DashboardType DEF DashboardLeaves
  <2>2. \/ job' = job
        \/ /\ job # None /\ job' # None /\ job'.out = job.out /\ job'.batch = job.batch
           /\ job'.at = job.at /\ job'.patch = job.patch /\ job'.then = job.then
    <3>1. job' = job \/ (job # None /\ job' = [job EXCEPT !.open = FALSE])
      BY <1>15, DashboardType DEF DashboardLeaves
    <3>2. job # None => job \in Job
      BY DEF TypeInv, TypeOK
    <3> QED
      BY <3>1, <3>2, ClosedType, KindsAssumption
  <2> QED
    BY <2>1, <2>2, DeltaKept DEF DeltaInv, BatchInv
<1>16. CASE Abort
  <2>1. job' = None /\ UNCHANGED <<lastSent, got>>
    BY <1>16 DEF Abort
  <2>2. /\ job = None => UNCHANGED missed
        /\ job # None => Miss(job.batch) /\ At(job.at)
    BY <1>16 DEF Abort, At
  <2>3. CASE job = None
    BY <2>1, <2>2, <2>3, DeltaKept DEF DeltaInv, BatchInv
  <2>4. CASE job # None
    BY <2>1, <2>2, <2>4, MissMore, DeltaKept DEF DeltaInv, BatchInv
  <2> QED
    BY <2>3, <2>4
<1>17. ASSUME NEW o \in Outputs, Age(o)
       PROVE  DeltaInv'
  BY <1>17 DEF Age, DeltaInv, DeltaIsTrue, BatchInv, InFlight
<1>18. CASE Restart
  BY <1>18 DEF Restart, DeltaInv, DeltaIsTrue, BatchInv, NoPicture
<1> QED
  BY <1>1, <1>2, <1>3, <1>4, <1>5, <1>6, <1>7, <1>8, <1>9, <1>10, <1>11, <1>12, <1>13, <1>14,
     <1>15, <1>16, <1>17, <1>18 DEF Next, Sender

\* What the sender remembers as last sent is what the server was given, but for aircraft
\* in flight or missed.
THEOREM DeltaStaysTrue == Spec => []DeltaIsTrue
<1>1. DeltaInv => DeltaIsTrue
  BY DEF DeltaInv
<1>2. Spec => []DeltaInv
  BY InitDelta, StepDelta, TypeInvHolds, PTL DEF Spec
<1> QED
  BY <1>1, <1>2, PTL

-----------------------------------------------------------------------------
(* The promise: TrackFeed *)

\* What is on its way is of an aircraft the cycle has fetched.
FeedInv == Heading => \A h \in job.batch : air[h] # None

\* The steps of a track, as TrackFeed has them.
Stay(o, h) ==
    /\ got'[o][h] = got[o][h]
    /\ UnderWay(o, h)' = UnderWay(o, h)
    /\ h \in missed'[o] <=> h \in missed[o]
    /\ lastSent'[o][h] = lastSent[o][h] \/ (UnderWay(o, h) = None /\ lastSent'[o][h] = None)

Depart(o, h) ==
    /\ UnderWay(o, h) = None
    /\ got'[o][h] = got[o][h]
    /\ UnderWay(o, h)' \in States \ {lastSent[o][h]}
    /\ lastSent'[o][h] \in {UnderWay(o, h)', None}
    /\ h \in missed'[o] <=> h \in missed[o]

Arrive(o, h) ==
    /\ UnderWay(o, h) # None
    /\ got'[o][h] = UnderWay(o, h)
    /\ UnderWay(o, h)' = None
    /\ lastSent'[o][h] = lastSent[o][h]
    /\ h \notin missed'[o]

BeLost(o, h) ==
    /\ UnderWay(o, h) # None
    /\ got'[o][h] = got[o][h]
    /\ UnderWay(o, h)' = None
    /\ lastSent'[o][h] = lastSent[o][h]
    /\ h \in missed'[o]

NeverDepart(o, h) ==
    /\ UnderWay(o, h) = None
    /\ got'[o][h] = got[o][h]
    /\ UnderWay(o, h)' = None
    /\ lastSent'[o][h] # lastSent[o][h] \/ lastSent'[o][h] = None
    /\ h \in missed'[o]

TrackStep(o, h) ==
    Stay(o, h) \/ Depart(o, h) \/ Arrive(o, h) \/ BeLost(o, h) \/ NeverDepart(o, h)

Tracks == \A o \in Outputs, h \in Hexes : TrackStep(o, h)

LEMMA HeadingAt ==
  ASSUME NEW where \in {"cert", "connect", "send"}, At(where)
  PROVE  Heading
  BY DEF At, Heading

LEMMA Grounded ==
  ASSUME ~Heading, NEW o, NEW h
  PROVE  UnderWay(o, h) = None
  BY DEF UnderWay

LEMMA GroundedNext ==
  ASSUME ~Heading', NEW o, NEW h
  PROVE  UnderWay(o, h)' = None
  BY DEF UnderWay

\* A step in which what is on its way goes on.
LEMMA GoesOn ==
  ASSUME FeedInv, UNCHANGED <<lastSent, got, missed>>,
         \/ /\ Heading /\ Heading' /\ job'.out = job.out /\ job'.batch = job.batch
            /\ UNCHANGED air
         \/ ~Heading /\ ~Heading'
  PROVE  Tracks /\ FeedInv'
<1>1. FeedInv'
  BY DEF FeedInv
<1>2. ASSUME NEW o \in Outputs, NEW h \in Hexes PROVE TrackStep(o, h)
  <2>1. UnderWay(o, h)' = UnderWay(o, h)
    BY DEF UnderWay
  <2> QED
    BY <2>1 DEF TrackStep, Stay
<1> QED
  BY <1>1, <1>2 DEF Tracks

\* A step that ends the way of a batch: S is given to the server, the rest is lost.
LEMMA Ends ==
  ASSUME TypeInv, FeedInv, NEW where, At(where), Heading, ~Heading', UNCHANGED lastSent,
         NEW S \in SUBSET job.batch,
         \A o \in Outputs, h \in Hexes :
            /\ got'[o][h] = IF o = job.out /\ h \in S THEN air[h] ELSE got[o][h]
            /\ h \in missed'[o] <=> \/ o = job.out /\ h \in job.batch \ S
                                    \/ h \in missed[o] /\ ~(o = job.out /\ h \in S)
  PROVE  Tracks /\ FeedInv'
<1>1. FeedInv'
  BY DEF FeedInv
<1>2. ASSUME NEW o \in Outputs, NEW h \in Hexes PROVE TrackStep(o, h)
  <2>1. UnderWay(o, h)' = None
    BY GroundedNext
  <2>2. CASE o = job.out /\ h \in S
    <3>1. UnderWay(o, h) = air[h] /\ air[h] # None
      BY <2>2 DEF UnderWay, FeedInv
    <3> QED
      BY <2>1, <2>2, <3>1 DEF TrackStep, Arrive
  <2>3. CASE o = job.out /\ h \in job.batch \ S
    <3>1. UnderWay(o, h) = air[h] /\ air[h] # None
      BY <2>3 DEF UnderWay, FeedInv
    <3> QED
      BY <2>1, <2>3, <3>1 DEF TrackStep, BeLost
  <2>4. CASE ~(o = job.out /\ h \in job.batch)
    <3>1. UnderWay(o, h) = None
      BY <2>4 DEF UnderWay
    <3> QED
      BY <2>1, <2>4, <3>1 DEF TrackStep, Stay
  <2> QED
    BY <2>2, <2>3, <2>4
<1> QED
  BY <1>1, <1>2 DEF Tracks

\* A step that loses the batch.
LEMMA LosesAll ==
  ASSUME TypeInv, FeedInv, NEW where, At(where), Heading, ~Heading',
         UNCHANGED <<lastSent, got>>, Miss(job.batch)
  PROVE  Tracks /\ FeedInv'
<1> DEFINE S == {}
<1>1. job.out \in Outputs /\ missed \in [Outputs -> SUBSET Hexes]
  BY JobAt
<1>2. \A o \in Outputs, h \in Hexes :
         h \in missed'[o] <=> (o = job.out /\ h \in job.batch) \/ h \in missed[o]
  BY <1>1 DEF Miss
<1>3. /\ S \in SUBSET job.batch /\ \A h : h \notin S
  OBVIOUS
<1> HIDE DEF S
<1>4. \A o \in Outputs, h \in Hexes :
         /\ got'[o][h] = IF o = job.out /\ h \in S THEN air[h] ELSE got[o][h]
         /\ h \in missed'[o] <=> \/ o = job.out /\ h \in job.batch \ S
                                 \/ h \in missed[o] /\ ~(o = job.out /\ h \in S)
  BY <1>2, <1>3
<1> QED
  BY <1>3, <1>4, Ends

\* A send, of which the server takes S.
LEMMA Takes ==
  ASSUME TypeInv, FeedInv, At("send"), NEW S \in SUBSET job.batch, Given(S),
         missed' = [missed EXCEPT ![job.out] = (@ \ S) \cup (job.batch \ S)],
         job' = None, UNCHANGED lastSent
  PROVE  Tracks /\ FeedInv'
<1>1. job.out \in Outputs /\ missed \in [Outputs -> SUBSET Hexes] /\ job # None
  BY JobAt
<1>2. Heading /\ ~Heading'
  BY HeadingAt DEF Heading
<1>3. \A o \in Outputs, h \in Hexes :
         got'[o][h] = IF o = job.out /\ h \in S THEN air[h] ELSE got[o][h]
  BY <1>1 DEF Given, TypeInv, TypeOK
<1>4. \A o \in Outputs, h \in Hexes :
         h \in missed'[o] <=> \/ o = job.out /\ h \in job.batch \ S
                              \/ h \in missed[o] /\ ~(o = job.out /\ h \in S)
  BY <1>1
<1>5. \A o \in Outputs, h \in Hexes :
         /\ got'[o][h] = IF o = job.out /\ h \in S THEN air[h] ELSE got[o][h]
         /\ h \in missed'[o] <=> \/ o = job.out /\ h \in job.batch \ S
                                 \/ h \in missed[o] /\ ~(o = job.out /\ h \in S)
  BY <1>3, <1>4
<1> QED
  BY <1>2, <1>5, Ends

LEMMA SendsChanged ==
  ASSUME NEW o, NEW broken
  PROVE  \A h \in PlanOf(o, broken).send : air[h] # None /\ lastSent[o][h] # air[h]
<1> DEFINE send == ToSend(o \in PassAll, TisbOf(o), lastSent[o], air, Found(o), broken)
<1>1. PlanOf(o, broken).send = send
  BY DEF PlanOf, Plan
<1>2. send \subseteq Changed(lastSent[o], air)
  BY DEF ToSend
<1>3. Changed(lastSent[o], air) \subseteq {h \in Hexes : air[h] # None /\ lastSent[o][h] # air[h]}
  BY DEF Changed, Present
<1> HIDE DEF send
<1> QED
  BY <1>1, <1>2, <1>3

LEMMA PrepareTracks ==
  ASSUME TypeInv, NEW o \in Outputs, Prepare(o)
  PROVE  Tracks /\ FeedInv'
<1>1. PICK broken \in SUBSET Changed(lastSent[o], air) :
        LET plan == PlanOf(o, broken)
            j == [NewJob(o) EXCEPT !.batch = plan.send]
        IN  /\ \E last \in Capped(plan.last) : lastSent' = [lastSent EXCEPT ![o] = last]
            /\ IF plan.send # {}
               THEN IF snap[o].url \in Endpoints
                    THEN job' = j /\ UNCHANGED missed
                    ELSE job' = None /\ missed' = [missed EXCEPT ![o] = @ \cup plan.send]
               ELSE /\ job' = IF snap[o].fails > 0 THEN Merging(j, "count", 0, "done")
                              ELSE None
                    /\ UNCHANGED missed
  BY DEF Prepare
<1> DEFINE send == PlanOf(o, broken).send
           last1 == PlanOf(o, broken).last
           j == [NewJob(o) EXCEPT !.batch = send]
<1>2. /\ send \in SUBSET Hexes /\ last1 \in Picture
      /\ \A h \in Hexes \ send : last1[h] \in {lastSent[o][h], None}
      /\ \A h \in send : last1[h] = air[h]
  BY PlanType DEF TypeInv
<1>3. \A h \in send : air[h] \in States /\ lastSent[o][h] # air[h]
  BY <1>2, SendsChanged DEF TypeInv, TypeOK, Picture
<1>4. j \in Job /\ j.at = "cert" /\ j.out = o /\ j.batch = send
  BY <1>2, NewJobType, BatchType
<1>5. \/ job' = None /\ missed' = [missed EXCEPT ![o] = @ \cup send]
      \/ job' = j /\ UNCHANGED missed
      \/ /\ send = {} /\ UNCHANGED missed
         /\ job' = None \/ job' = Merging(j, "count", 0, "done")
  BY <1>1
<1>6. \E last \in Capped(last1) : lastSent' = [lastSent EXCEPT ![o] = last]
  BY <1>1
<1> HIDE DEF send, last1, j
<1>7. /\ \A h \in Hexes : lastSent'[o][h] \in {last1[h], None}
      /\ \A p \in Outputs \ {o} : lastSent'[p] = lastSent[p]
  BY <1>2, <1>6, CappedType DEF TypeInv, TypeOK
<1>8. job = None /\ ~Heading /\ UNCHANGED <<air, got>>
  BY DEF Prepare, Take, Heading
<1>9. ASSUME NEW p \in Outputs, NEW h \in Hexes
      PROVE  UnderWay(p, h) = None
  BY <1>8, Grounded
<1>10. CASE ~Heading' /\ missed' = [missed EXCEPT ![o] = @ \cup send]
  <2>1. ASSUME NEW p \in Outputs, NEW h \in Hexes PROVE TrackStep(p, h)
    <3>1. UnderWay(p, h)' = None /\ got'[p][h] = got[p][h]
      BY <1>8, <1>10, GroundedNext
    <3>2. CASE p = o /\ h \in send
      <4>1. h \in missed'[o]
        BY <1>10, <3>2 DEF TypeInv, TypeOK
      <4>2. lastSent'[o][h] # lastSent[o][h] \/ lastSent'[o][h] = None
        BY <1>2, <1>3, <1>7, <3>2
      <4> QED
        BY <1>9, <3>1, <3>2, <4>1, <4>2 DEF TrackStep, NeverDepart
    <3>3. CASE ~(p = o /\ h \in send)
      <4>1. h \in missed'[p] <=> h \in missed[p]
        BY <1>10, <3>3 DEF TypeInv, TypeOK
      <4>2. lastSent'[p][h] = lastSent[p][h] \/ lastSent'[p][h] = None
        BY <1>2, <1>7, <3>3
      <4> QED
        BY <1>9, <3>1, <4>1, <4>2 DEF TrackStep, Stay
    <3> QED
      BY <3>2, <3>3
  <2> QED
    BY <1>10, <2>1 DEF Tracks, FeedInv
<1>11. CASE job' = j /\ UNCHANGED missed
  <2>1. job' # None /\ job'.at = "cert" /\ job'.out = o /\ job'.batch = send
    BY <1>4, <1>11, KindsAssumption
  <2>2. Heading' /\ FeedInv'
    BY <1>3, <1>8, <2>1, DeltaAssumption DEF Heading, FeedInv
  <2>3. ASSUME NEW p \in Outputs, NEW h \in Hexes PROVE TrackStep(p, h)
    <3>1. UnderWay(p, h)' = IF p = o /\ h \in send THEN air[h] ELSE None
      BY <1>8, <2>1, <2>2 DEF UnderWay
    <3>2. got'[p][h] = got[p][h] /\ missed'[p] = missed[p]
      BY <1>8, <1>11
    <3>3. CASE p = o /\ h \in send
      <4>1. lastSent'[o][h] \in {air[h], None}
        BY <1>2, <1>7, <3>3
      <4> QED
        BY <1>3, <1>9, <3>1, <3>2, <3>3, <4>1 DEF TrackStep, Depart
    <3>4. CASE ~(p = o /\ h \in send)
      <4>1. lastSent'[p][h] = lastSent[p][h] \/ lastSent'[p][h] = None
        BY <1>2, <1>7, <3>4
      <4> QED
        BY <1>9, <3>1, <3>2, <3>4, <4>1 DEF TrackStep, Stay
    <3> QED
      BY <3>3, <3>4
  <2> QED
    BY <2>2, <2>3 DEF Tracks
<1>12. CASE send = {} /\ UNCHANGED missed /\ job' = None
  <2>1. ~Heading'
    BY <1>12 DEF Heading
  <2>2. missed' = [missed EXCEPT ![o] = @ \cup send]
    BY <1>12 DEF TypeInv, TypeOK
  <2> QED
    BY <1>10, <2>1, <2>2
<1>13. CASE send = {} /\ UNCHANGED missed /\ job' = Merging(j, "count", 0, "done")
  <2>1. job'.at = "merge" /\ job'.then = "done"
    <3>1. "count" \in Patch /\ "done" \in Thens
      BY DEF Patch, Thens
    <3> QED
      BY <1>4, <1>13, <3>1, MergingZero
  <2>2. ~Heading'
    BY <2>1 DEF Heading
  <2>3. missed' = [missed EXCEPT ![o] = @ \cup send]
    BY <1>13 DEF TypeInv, TypeOK
  <2> QED
    BY <1>10, <2>2, <2>3
<1>14. CASE job' = None /\ missed' = [missed EXCEPT ![o] = @ \cup send]
  <2>1. ~Heading'
    BY <1>14 DEF Heading
  <2> QED
    BY <1>10, <1>14, <2>1
<1> QED
  BY <1>5, <1>11, <1>12, <1>13, <1>14

\* The process starts again.
Forgotten ==
    /\ lastSent' = [o \in Outputs |-> NoPicture]
    /\ missed' = [o \in Outputs |-> {}]
    /\ job' = None
    /\ UNCHANGED got

LEMMA FeedStep ==
  ASSUME TypeInv, DeltaInv, FeedInv, [Next]_vars
  PROVE  FeedInv' /\ (Tracks \/ Forgotten)
<1> USE DEF tables, memory, cycle, pages, history
<1> DEFINE Done == Tracks /\ FeedInv'
<1>1. CASE UNCHANGED vars
  <2>1. (Heading' <=> Heading) /\ UNCHANGED <<lastSent, got, missed, air, job>>
    BY <1>1 DEF vars, Heading
  <2> QED
    BY <2>1, GoesOn
<1>2. CASE StartCycle \/ FinishCycle
  <2>1. job = None /\ UNCHANGED <<lastSent, got, missed, job>>
    BY <1>2 DEF StartCycle, FinishCycle, TypeInv, Served
  <2>2. ~Heading /\ ~Heading'
    BY <2>1 DEF Heading
  <2> QED
    BY <2>1, <2>2, GoesOn
<1>3. ASSUME NEW o \in Outputs, SkipPaused(o)
      PROVE  Done
  <2>1. job = None /\ UNCHANGED <<lastSent, got, missed, job>>
    BY <1>3 DEF SkipPaused, Take
  <2>2. ~Heading /\ ~Heading'
    BY <2>1 DEF Heading
  <2> QED
    BY <2>1, <2>2, GoesOn
<1>4. ASSUME NEW o \in Outputs, Recheck(o)
      PROVE  Done
  <2> DEFINE j == NewJob(o)
  <2>1. PICK patch \in Patch, then \in Thens :
          job' = Merging(j, patch, 0, then) /\ then # "send"
    BY <1>4 DEF Recheck, Patch, Thens
  <2>2. j \in Job
    BY NewJobType
  <2> HIDE DEF j
  <2>3. job'.then = then /\ job'.at = "merge"
    BY <2>1, <2>2, MergingZero
  <2>4. job = None /\ UNCHANGED <<lastSent, got, missed>>
    BY <1>4 DEF Recheck, Take
  <2>5. ~Heading /\ ~Heading'
    BY <2>1, <2>3, <2>4 DEF Heading
  <2> QED
    BY <2>4, <2>5, GoesOn
<1>5. ASSUME NEW o \in Outputs, Prepare(o)
      PROVE  Done
  BY <1>5, PrepareTracks
<1>6. CASE ReadCert
  <2>1. At("cert") /\ Heading /\ UNCHANGED <<lastSent, got, air>>
    BY <1>6, HeadingAt DEF ReadCert
  <2>2. CASE job' = None /\ Miss(job.batch)
    <3>1. ~Heading'
      BY <2>2 DEF Heading
    <3> QED
      BY <2>1, <2>2, <3>1, LosesAll
  <2>3. CASE /\ job' \in Job /\ job'.out = job.out /\ job'.batch = job.batch
             /\ job'.at = "send" \/ (job'.at = "connect" /\ job'.cert \in Certs)
             /\ UNCHANGED missed
    <3>1. Heading'
      BY <2>3, KindsAssumption DEF Heading
    <3> QED
      BY <2>1, <2>3, <3>1, GoesOn
  <2> QED
    BY <1>6, <2>2, <2>3, ReadCertJob
<1>7. CASE Connected
  <2>1. At("connect") /\ Heading /\ UNCHANGED <<lastSent, got, air, missed>>
    BY <1>7, HeadingAt DEF Connected
  <2>2. /\ job' \in Job /\ job'.out = job.out /\ job'.batch = job.batch
        /\ job'.at = "send" \/ (job'.at = "merge" /\ job'.then = "send")
    BY <1>7, ConnectedJob
  <2>3. Heading'
    BY <2>2, KindsAssumption DEF Heading
  <2> QED
    BY <2>1, <2>2, <2>3, GoesOn
<1>8. CASE Rejected \/ Unreachable
  <2>1. At("connect") /\ Heading /\ UNCHANGED <<lastSent, got>> /\ Miss(job.batch)
    BY <1>8, HeadingAt DEF Rejected, Unreachable
  <2>2. job'.at = "merge" /\ job'.then \in {"drop", "done"}
    BY <1>8, RejectedJob, UnreachableJob
  <2>3. ~Heading'
    BY <2>2 DEF Heading
  <2> QED
    BY <2>1, <2>3, LosesAll
<1>9. CASE MergeRead
  <2>1. /\ At("merge") /\ job # None /\ job.at = "merge"
        /\ UNCHANGED <<lastSent, got, air, missed>>
    BY <1>9, JobAt DEF MergeRead
  <2>2. job.patch \in Pausing => job.then # "send"
    BY <2>1 DEF DeltaInv, BatchInv
  <2>3. CASE job' = None
    <3>1. ~Heading /\ ~Heading'
      BY <1>9, <2>1, <2>2, <2>3, MergeReadJob, KindsAssumption DEF Heading
    <3> QED
      BY <2>1, <3>1, GoesOn
  <2>4. CASE job' # None
    <3>1. /\ job'.out = job.out /\ job'.batch = job.batch
          /\ \/ job'.at = "send" /\ job.then = "send"
             \/ job'.at = "drop" /\ (job.patch \in Pausing \/ job.then = "drop")
             \/ job'.at = "write" /\ job'.then = job.then
      BY <1>9, <2>4, MergeReadJob
    <3>2. Heading <=> Heading'
      BY <2>1, <2>2, <2>4, <3>1 DEF Heading
    <3> QED
      BY <2>1, <3>1, <3>2, GoesOn
  <2> QED
    BY <2>3, <2>4
<1>10. CASE MergeWrite
  <2>1. /\ At("write") /\ job # None /\ job.at = "write"
        /\ UNCHANGED <<lastSent, got, air, missed>>
    BY <1>10, JobAt DEF MergeWrite
  <2>2. CASE job' = None /\ job.then = "done"
    <3>1. ~Heading /\ ~Heading'
      BY <2>1, <2>2 DEF Heading
    <3> QED
      BY <2>1, <3>1, GoesOn
  <2>3. CASE /\ job' \in Job /\ job'.at = job.then /\ job.then \in {"drop", "send"}
             /\ job'.out = job.out /\ job'.batch = job.batch
    <3>1. Heading <=> Heading'
      BY <2>1, <2>3, KindsAssumption DEF Heading
    <3> QED
      BY <2>1, <2>3, <3>1, GoesOn
  <2> QED
    BY <1>10, <2>2, <2>3, MergeWriteJob
<1>11. CASE DropSocket
  <2>1. /\ ~Heading /\ ~Heading' /\ UNCHANGED <<lastSent, got, missed>>
    BY <1>11 DEF DropSocket, At, Heading
  <2> QED
    BY <2>1, GoesOn
<1>12. CASE Sent
  <2> DEFINE S == job.batch
  <2>1. /\ At("send") /\ Given(S) /\ job' = None /\ UNCHANGED lastSent
        /\ missed' = [missed EXCEPT ![job.out] = (@ \ S) \cup (job.batch \ S)]
    BY <1>12 DEF Sent
  <2>2. S \in SUBSET job.batch
    OBVIOUS
  <2> HIDE DEF S
  <2> QED
    BY <2>1, <2>2, Takes
<1>13. CASE SendFails
  <2>1. PICK S \in SUBSET job.batch :
          /\ Given(S)
          /\ missed' = [missed EXCEPT ![job.out] = (@ \ S) \cup (job.batch \ S)]
    BY <1>13 DEF SendFails
  <2>2. At("send") /\ job' = None /\ UNCHANGED lastSent
    BY <1>13 DEF SendFails
  <2> QED
    BY <2>1, <2>2, Takes
<1>14. CASE Dashboard
  <2>1. UNCHANGED <<lastSent, got, air, missed>>
    BY <1>14, DashboardType DEF DashboardLeaves
  <2>2. \/ job' = job
        \/ /\ job # None /\ job' # None /\ job'.out = job.out /\ job'.batch = job.batch
           /\ job'.at = job.at /\ job'.then = job.then
    <3>1. job' = job \/ (job # None /\ job' = [job EXCEPT !.open = FALSE])
      BY <1>14, DashboardType DEF DashboardLeaves
    <3>2. job # None => job \in Job
      BY DEF TypeInv, TypeOK
    <3> QED
      BY <3>1, <3>2, ClosedType, KindsAssumption
  <2>3. Heading <=> Heading'
    BY <2>2 DEF Heading
  <2> QED
    BY <2>1, <2>2, <2>3, GoesOn DEF Heading
<1>15. CASE Abort
  <2>1. job' = None /\ UNCHANGED <<lastSent, got>> /\ ~Heading'
    BY <1>15 DEF Abort, Heading
  <2>2. /\ job = None => UNCHANGED missed
        /\ job # None => /\ Miss(job.batch) /\ At(job.at)
                         /\ job.at \in {"cert", "merge", "write"}
    BY <1>15 DEF Abort, At
  <2>3. CASE job = None
    <3>1. ~Heading
      BY <2>3 DEF Heading
    <3> QED
      BY <2>1, <2>2, <2>3, <3>1, GoesOn
  <2>4. CASE job # None /\ Heading
    BY <2>1, <2>2, <2>4, LosesAll
  <2>5. CASE job # None /\ ~Heading
    <3>1. job.batch \subseteq missed[job.out]
      BY <2>2, <2>5 DEF Heading, DeltaInv, BatchInv
    <3>2. job.out \in Outputs /\ missed \in [Outputs -> SUBSET Hexes]
      BY <2>2, <2>5, JobAt
    <3>3. UNCHANGED missed
      BY <2>2, <2>5, <3>1, <3>2 DEF Miss
    <3> QED
      BY <2>1, <2>5, <3>3, GoesOn
  <2> QED
    BY <2>3, <2>4, <2>5
<1>16. ASSUME NEW o \in Outputs, Age(o)
       PROVE  Done
  <2>1. (Heading' <=> Heading) /\ UNCHANGED <<lastSent, got, missed, air, job>>
    BY <1>16 DEF Age, Heading
  <2> QED
    BY <2>1, GoesOn
<1>17. CASE Restart
  BY <1>17 DEF Restart, Forgotten, FeedInv, Heading
<1> QED
  BY <1>1, <1>2, <1>3, <1>4, <1>5, <1>6, <1>7, <1>8, <1>9, <1>10, <1>11, <1>12, <1>13, <1>14,
     <1>15, <1>16, <1>17 DEF Next, Sender

\* run_cot_sender_cycle does with each aircraft what TrackFeed promises: an update goes out
\* when the state is not what is remembered, and is given to the server once or is lost.
THEOREM SenderImplementsFeed == Spec => IsTrackFeed
<1> DEFINE way == [o \in Outputs |-> [h \in Hexes |-> UnderWay(o, h)]]
<1>1. Init => FeedInv /\ Feed!Init
  <2> SUFFICES ASSUME Init PROVE FeedInv /\ Feed!Init
    OBVIOUS
  <2>1. ~Heading
    BY DEF Init, Heading
  <2>2. way = [o \in Outputs |-> [h \in Hexes |-> None]]
    BY <2>1, Grounded
  <2> QED
    BY <2>1, <2>2 DEF Init, Feed!Init, FeedInv, NoPicture
<1>2. TypeInv' /\ Tracks => Feed!Move
  <2> SUFFICES ASSUME TypeInv', Tracks PROVE Feed!Move
    OBVIOUS
  <2>1. way' = [o \in Outputs |-> [h \in Hexes |-> UnderWay(o, h)']]
    OBVIOUS
  <2>2. \A o \in Outputs, h \in Hexes : UnderWay(o, h)' \in States \cup {None}
    BY DEF UnderWay, TypeInv, TypeOK, Picture
  <2>3. way' \in Feed!Picture
    BY <2>1, <2>2 DEF Feed!Picture
  <2>4. got' \in Feed!Picture /\ lastSent' \in Feed!Picture /\ missed' \in [Outputs -> SUBSET Hexes]
    BY DEF Feed!Picture, Picture, TypeInv, TypeOK
  <2>5. ASSUME NEW o \in Outputs, NEW h \in Hexes
        PROVE  \/ Feed!Stays(o, h) \/ Feed!Departs(o, h) \/ Feed!Arrives(o, h)
               \/ Feed!IsLost(o, h) \/ Feed!NeverDeparts(o, h)
    <3>1. way[o][h] = UnderWay(o, h) /\ way'[o][h] = UnderWay(o, h)'
      BY <2>1
    <3>2. TrackStep(o, h)
      BY DEF Tracks
    <3> HIDE DEF way
    <3> QED
      BY <3>1, <3>2
      DEF TrackStep, Stay, Depart, Arrive, BeLost, NeverDepart,
          Feed!Stays, Feed!Departs, Feed!Arrives, Feed!IsLost, Feed!NeverDeparts
  <2> QED
    BY <2>3, <2>4, <2>5 DEF Feed!Move
<1>3. Forgotten => Feed!Forget
  <2> SUFFICES ASSUME Forgotten PROVE Feed!Forget
    OBVIOUS
  <2>1. ~Heading'
    BY DEF Forgotten, Heading
  <2>2. way' = [o \in Outputs |-> [h \in Hexes |-> None]]
    BY <2>1, GroundedNext
  <2> QED
    BY <2>2 DEF Forgotten, Feed!Forget, NoPicture
<1>4. TypeInv /\ TypeInv' /\ DeltaInv /\ FeedInv /\ [Next]_vars
        => FeedInv' /\ (Feed!Move \/ Feed!Forget)
  BY <1>2, <1>3, FeedStep
<1>5. Spec => []DeltaInv
  BY InitDelta, StepDelta, TypeInvHolds, PTL DEF Spec
<1> HIDE DEF way
<1> QED
  BY <1>1, <1>4, <1>5, TypeInvHolds, PTL DEF Spec, IsTrackFeed, Feed!Spec
-----------------------------------------------------------------------------
(* How often a server could not be reached *)

\* The cycle has still to connect to the output's server.
Waiting(o) == o \in todo \/ (job # None /\ job.out = o /\ job.at \in {"cert", "connect"})

Storing(o, patch) ==
    /\ job # None /\ job.out = o
    /\ job.at \in {"merge", "write"} /\ job.patch = patch

\* Of an output nobody disturbed: the count stored, but for one about to be replaced; the
\* count the cycle has read; the count it is about to store; and a pause.
CountOf(o) ==
    /\ cfg[o] \in Config /\ ~Storing(o, "count") => cfg[o].fails <= streak[o]
    /\ Waiting(o) => /\ snap[o].fails <= streak[o]
                     /\ cfg[o] \in Config => cfg[o].fails <= snap[o].fails
    /\ Storing(o, "count") => job.fails <= streak[o]
    /\ Storing(o, "pause") => streak[o] = 3

CountInv == \A o \in Outputs \ disturbed : CountOf(o)

CountLeft(o) ==
    cfg'[o] \in Config => \/ cfg'[o].fails = 0
                          \/ cfg[o] \in Config /\ cfg'[o].fails = cfg[o].fails

SnapLeft(o) ==
    snap[o] \in Config => snap'[o] \in Config /\ snap'[o].fails = snap[o].fails

LEMMA Fails ==
  ASSUME TypeInv, NEW o \in Outputs
  PROVE  /\ streak[o] \in 0..3
         /\ cfg[o] \in Config => cfg[o].fails \in 0..2
         /\ Waiting(o) => snap[o] \in Config /\ snap[o].fails \in 0..2
  BY DEF TypeInv, TypeOK, Served, Waiting, Config

\* A step that stores no count but 0, and does not pause for a count.
LEMMA CountKept ==
  ASSUME TypeInv, NEW o \in Outputs, CountOf(o), o \notin disturbed',
         CountLeft(o), streak'[o] = streak[o],
         Waiting(o)' => Waiting(o) /\ SnapLeft(o),
         Storing(o, "count") => Storing(o, "count")' \/ cfg'[o] \notin Config,
         Storing(o, "count")' => job'.fails = 0 \/ (Storing(o, "count") /\ job'.fails = job.fails),
         Storing(o, "pause")' => Storing(o, "pause")
  PROVE  CountOf(o)'
<1>1. /\ streak[o] \in 0..3
      /\ cfg[o] \in Config => cfg[o].fails \in 0..2
      /\ Waiting(o) => snap[o] \in Config /\ snap[o].fails \in 0..2
  BY Fails
<1>2. ASSUME cfg'[o] \in Config, ~Storing(o, "count")'
      PROVE  cfg'[o].fails <= streak'[o]
  BY <1>1, <1>2 DEF CountLeft, CountOf
<1>3. ASSUME Waiting(o)'
      PROVE  /\ snap'[o].fails <= streak'[o]
             /\ cfg'[o] \in Config => cfg'[o].fails <= snap'[o].fails
  <2>1. Waiting(o) /\ snap[o].fails \in 0..2 /\ snap'[o].fails = snap[o].fails
    BY <1>1, <1>3 DEF SnapLeft
  <2> QED
    BY <1>1, <2>1 DEF CountLeft, CountOf
<1>4. ASSUME Storing(o, "count")'
      PROVE  job'.fails <= streak'[o]
  BY <1>1, <1>4 DEF CountOf
<1>5. Storing(o, "pause")' => streak'[o] = 3
  BY DEF CountOf
<1> QED
  BY <1>2, <1>3, <1>4, <1>5 DEF CountOf

LEMMA DashboardCounts ==
  ASSUME TypeInv, Dashboard, NEW o \in Outputs, o \notin disturbed'
  PROVE  CountLeft(o)
<1> USE DEF tables, memory, cycle, pages, history, Idle
<1>1. CASE UNCHANGED cfg
  BY <1>1 DEF CountLeft
<1>2. CASE \E p \in Outputs : SaveText(p) \/ Delete(p)
  BY <1>2, KindsAssumption DEF SaveText, Delete, CountLeft, TypeInv, TypeOK
<1>3. ASSUME NEW u \in Urls, NEW on \in BOOLEAN, SavePage(u, on)
      PROVE  CountLeft(o)
  <2> DEFINE p == form.out
             new == [form.row EXCEPT !.url = u]
             row == IF u # Base(cfg[p]).url THEN [new EXCEPT !.paused = FALSE] ELSE new
  <2>1. p \in Outputs /\ form.row \in Config
    BY <1>3 DEF SavePage, TypeInv, TypeOK, Page
  <2>2. new \in Config /\ new.fails = form.row.fails
    BY <2>1, UrlRow
  <2>3. row \in Config /\ row.fails = form.row.fails
    <3> HIDE DEF new
    <3> QED
      BY <2>2, ReleaseRow
  <2>4. Stored(p, row)
    BY <1>3 DEF SavePage
  <2>5. o = p => Base(cfg[p]) = form.row
    BY <1>3 DEF SavePage
  <2> HIDE DEF row, p
  <2>6. /\ \A q \in Outputs \ {p} : cfg'[q] = cfg[q]
        /\ cfg[p] = NoRow => cfg'[p] = NoRow
        /\ cfg[p] # NoRow => cfg'[p] = row
    BY <2>1, <2>3, <2>4, StoredType DEF TypeInv, Row
  <2>7. /\ cfg[p] \in Config => Base(cfg[p]) = cfg[p]
        /\ cfg[p] \notin Config => Base(cfg[p]).fails = 0
    BY <2>1, BaseType DEF TypeInv, TypeOK
  <2> QED
    BY <2>3, <2>5, <2>6, <2>7, KindsAssumption DEF CountLeft
<1>4. CASE ReqWrite
  <2> DEFINE p == req.out
             n == 0
             row == Merged(req.row, req.patch, n, req.url)
  <2>1. /\ p \in Outputs /\ req.row \in Config /\ req.patch \in Patch
        /\ req.url \in Urls \cup {None} /\ n \in 0..2
    BY <1>4 DEF ReqWrite, TypeInv, TypeOK, Request
  <2>2. Stored(p, row) /\ (o = p => Base(cfg[p]) = req.row) /\ n = 0
    BY <1>4 DEF ReqWrite
  <2> HIDE DEF n
  <2>3. row \in Config /\ row.fails \in {n, 0, req.row.fails}
    BY <2>1, MergedFails
  <2> HIDE DEF row, p
  <2>4. /\ \A q \in Outputs \ {p} : cfg'[q] = cfg[q]
        /\ cfg[p] = NoRow => cfg'[p] = NoRow
        /\ cfg[p] # NoRow => cfg'[p] = row
    BY <2>1, <2>2, <2>3, StoredType DEF TypeInv, Row
  <2>5. /\ cfg[p] \in Config => Base(cfg[p]) = cfg[p]
        /\ cfg[p] \notin Config => Base(cfg[p]).fails = 0
    BY <2>1, BaseType DEF TypeInv, TypeOK
  <2> QED
    BY <2>2, <2>3, <2>4, <2>5, KindsAssumption DEF CountLeft
<1> QED
  BY <1>1, <1>2, <1>3, <1>4 DEF Dashboard, Upload, TestTls, EditRules, OpenPage, ReqRead, ReqDrop, ReqAbort

LEMMA PrepareJob ==
  ASSUME TypeInv, NEW o \in Outputs, Prepare(o)
  PROVE  \/ job' = None
         \/ /\ job' \in Job /\ job'.out = o
            /\ \/ job'.at = "cert"
               \/ job'.at = "merge" /\ job'.patch = "count" /\ job'.fails = 0
<1>1. PICK broken \in SUBSET Changed(lastSent[o], air) :
        LET j == [NewJob(o) EXCEPT !.batch = PlanOf(o, broken).send]
        IN  job' \in {None, j, Merging(j, "count", 0, "done")}
  BY DEF Prepare
<1> DEFINE send == PlanOf(o, broken).send
           j == [NewJob(o) EXCEPT !.batch = send]
<1>2. send \in SUBSET Hexes
  BY PlanType DEF TypeInv
<1>3. j \in Job /\ j.at = "cert" /\ j.out = o
  BY <1>2, NewJobType, BatchType
<1>4. job' \in {None, j, Merging(j, "count", 0, "done")}
  BY <1>1
<1> HIDE DEF j
<1>5. "count" \in Patch /\ "done" \in Thens
  BY DEF Patch, Thens
<1> QED
  BY <1>3, <1>4, <1>5, MergingZero

\* After a connect the count is reset, or was 0.
LEMMA ConnectedCount ==
  ASSUME TypeInv, Connected, NEW o \in Outputs, CountOf(o), o \notin disturbed'
  PROVE  CountOf(o)'
<1>1. /\ job # None /\ job.at = "connect" /\ job.out \in Outputs
      /\ UNCHANGED <<cfg, snap, todo, disturbed>>
      /\ job.out \notin todo
  BY JobAt DEF Connected, tables, cycle
<1>2. /\ job' \in Job /\ job'.out = job.out /\ job' # None
      /\ \/ snap[job.out].fails = 0 /\ job'.at = "send"
         \/ /\ job'.at = "merge" /\ job'.patch = "count" /\ job'.fails = 0
            /\ job'.then = "send"
  BY ConnectedJob, KindsAssumption
<1>3. streak'[job.out] = 0 /\ \A p \in Outputs \ {job.out} : streak'[p] = streak[p]
  BY <1>1 DEF Connected, TypeInv, TypeOK
<1>4. CASE o # job.out
  <2>1. CountLeft(o) /\ SnapLeft(o) /\ streak'[o] = streak[o]
    BY <1>1, <1>3, <1>4 DEF CountLeft, SnapLeft
  <2>2. ~Storing(o, "count") /\ ~Storing(o, "count")' /\ ~Storing(o, "pause")'
    BY <1>1, <1>2, <1>4 DEF Storing
  <2>3. Waiting(o)' => Waiting(o)
    BY <1>1, <1>2, <1>4 DEF Waiting
  <2> QED
    BY <2>1, <2>2, <2>3, CountKept
<1>5. CASE o = job.out
  <2>1. Waiting(o) /\ ~Waiting(o)'
    BY <1>1, <1>2, <1>5 DEF Waiting
  <2>2. ~Storing(o, "pause")'
    BY <1>2 DEF Storing
  <2>3. Storing(o, "count")' => job'.fails = 0
    BY <1>2 DEF Storing
  <2>4. ~Storing(o, "count")' => snap[o].fails = 0
    BY <1>2, <1>5 DEF Storing
  <2>5. cfg[o] \in Config => cfg[o].fails \in 0..2 /\ cfg[o].fails <= snap[o].fails
    BY <2>1, Fails DEF CountOf
  <2> QED
    BY <1>1, <1>3, <1>5, <2>1, <2>2, <2>3, <2>4, <2>5 DEF CountOf
<1> QED
  BY <1>4, <1>5

\* One more failure, in the count as in the streak.
LEMMA UnreachableCount ==
  ASSUME TypeInv, Unreachable, NEW o \in Outputs, CountOf(o), o \notin disturbed'
  PROVE  CountOf(o)'
<1>1. /\ job # None /\ job.at = "connect" /\ job.out \in Outputs
      /\ UNCHANGED <<cfg, snap, todo, disturbed>>
      /\ job.out \notin todo
  BY JobAt DEF Unreachable, tables, cycle
<1>2. /\ job' \in Job /\ job'.at = "merge" /\ job'.out = job.out /\ job' # None
      /\ \/ snap[job.out].fails = 2 /\ job'.patch = "pause"
         \/ /\ snap[job.out].fails + 1 \in Counts
            /\ job'.patch = "count" /\ job'.fails = snap[job.out].fails + 1
  BY UnreachableJob, KindsAssumption
<1>3. /\ \A p \in Outputs \ {job.out} : streak'[p] = streak[p]
      /\ streak[job.out] = 3 => streak'[job.out] = 3
      /\ streak[job.out] # 3 => streak'[job.out] = streak[job.out] + 1
  BY StreakStep
<1>4. CASE o # job.out
  <2>1. CountLeft(o) /\ SnapLeft(o) /\ streak'[o] = streak[o]
    BY <1>1, <1>3, <1>4 DEF CountLeft, SnapLeft
  <2>2. ~Storing(o, "count") /\ ~Storing(o, "count")' /\ ~Storing(o, "pause")'
    BY <1>1, <1>2, <1>4 DEF Storing
  <2>3. Waiting(o)' => Waiting(o)
    BY <1>1, <1>2, <1>4 DEF Waiting
  <2> QED
    BY <2>1, <2>2, <2>3, CountKept
<1>5. CASE o = job.out
  <2>1. Waiting(o) /\ ~Storing(o, "count") /\ ~Waiting(o)'
    BY <1>1, <1>2, <1>5 DEF Waiting, Storing
  <2>2. /\ streak[o] \in 0..3 /\ snap[o].fails \in 0..2 /\ snap[o].fails <= streak[o]
        /\ cfg[o] \in Config => cfg[o].fails \in 0..2 /\ cfg[o].fails <= streak[o]
    BY <2>1, Fails DEF CountOf
  <2>3. /\ streak'[o] \in 0..3 /\ streak[o] <= streak'[o] /\ snap[o].fails + 1 <= streak'[o]
    BY <1>3, <1>5, <2>2
  <2>4. Storing(o, "count")' => job'.fails <= streak'[o]
    BY <1>2, <1>5, <2>3 DEF Storing
  <2>5. Storing(o, "pause")' => streak'[o] = 3
    BY <1>2, <1>5, <2>3 DEF Storing
  <2>6. cfg[o] \in Config => cfg[o].fails <= streak'[o]
    BY <2>2, <2>3
  <2> QED
    BY <1>1, <2>1, <2>4, <2>5, <2>6 DEF CountOf
<1> QED
  BY <1>4, <1>5

\* What is written is 0, what was read, or the count of the job.
LEMMA MergeWriteCount ==
  ASSUME TypeInv, MergeWrite, NEW o \in Outputs, CountOf(o), o \notin disturbed'
  PROVE  CountOf(o)'
<1> DEFINE row == Merged(job.row, job.patch, job.fails, None)
<1>1. /\ job # None /\ job.at = "write" /\ job.out \in Outputs /\ job.row \in Config
      /\ job.patch \in Patch /\ job.fails \in 0..2
      /\ UNCHANGED <<snap, todo, streak>>
  BY JobAt DEF MergeWrite, cycle
<1>2. Stored(job.out, row) /\ (o = job.out => Base(cfg[job.out]) = job.row)
  BY DEF MergeWrite
<1>3. /\ row \in Config
      /\ job.patch = "count" => row.fails = job.fails
      /\ job.patch # "count" => row.fails \in {0, job.row.fails}
  <2>1. None \in Urls \cup {None}
    OBVIOUS
  <2> QED
    BY <1>1, <2>1, MergedFails
<1> HIDE DEF row
<1>4. /\ \A q \in Outputs \ {job.out} : cfg'[q] = cfg[q]
      /\ cfg[job.out] = NoRow => cfg'[job.out] = NoRow
      /\ cfg[job.out] # NoRow => cfg'[job.out] = row
  BY <1>1, <1>2, <1>3, StoredType DEF TypeInv, Row
<1>5. job' = None \/ (job'.at \in {"drop", "send"} /\ job'.out = job.out)
  BY MergeWriteJob
<1>6. ~Storing(o, "count")' /\ ~Storing(o, "pause")'
  BY <1>5 DEF Storing
<1>7. Waiting(o)' => Waiting(o) /\ SnapLeft(o)
  BY <1>1, <1>5 DEF Waiting, SnapLeft
<1>8. CASE o # job.out
  <2>1. CountLeft(o) /\ ~Storing(o, "count")
    BY <1>4, <1>8 DEF CountLeft, Storing
  <2> QED
    BY <1>1, <1>6, <1>7, <2>1, CountKept
<1>9. CASE o = job.out
  <2>1. /\ cfg[o] \in Config => Base(cfg[o]) = cfg[o]
        /\ cfg[o] \notin Config => Base(cfg[o]).fails = 0
    BY BaseType DEF TypeInv, TypeOK
  <2>2. CASE job.patch # "count"
    <3>1. CountLeft(o) /\ ~Storing(o, "count")
      BY <1>2, <1>3, <1>4, <1>9, <2>1, <2>2, KindsAssumption DEF CountLeft, Storing
    <3> QED
      BY <1>1, <1>6, <1>7, <3>1, CountKept
  <2>3. CASE job.patch = "count"
    <3>1. Storing(o, "count") /\ ~Waiting(o)'
      BY <1>1, <1>5, <1>9, <2>3, JobAt DEF Storing, Waiting, MergeWrite
    <3>2. job.fails <= streak[o]
      BY <3>1 DEF CountOf
    <3>3. cfg'[o] \in Config => cfg'[o].fails <= streak'[o]
      BY <1>1, <1>3, <1>4, <1>9, <2>3, <3>2, KindsAssumption
    <3> QED
      BY <1>6, <3>1, <3>3 DEF CountOf
  <2> QED
    BY <2>2, <2>3
<1> QED
  BY <1>8, <1>9

LEMMA InitCount == Init => CountInv
<1> SUFFICES ASSUME Init, NEW o \in Outputs
             PROVE  CountOf(o)
  BY DEF CountInv
<1>1. todo = {} /\ job = None /\ streak[o] = 0
  BY DEF Init
<1>2. PICK u \in Endpoints : cfg[o] = [EmptyConfig EXCEPT !.url = u]
  BY DEF Init
<1>3. cfg[o].fails = 0
  BY <1>2, UrlRow, EmptyType, SenderAssumption
<1> QED
  BY <1>1, <1>3 DEF CountOf, Waiting, Storing

LEMMA StepCount ==
  ASSUME TypeInv, CountInv, [Next]_vars
  PROVE  CountInv'
<1> USE DEF tables, memory, cycle, pages, history
<1> SUFFICES ASSUME NEW o \in Outputs, o \notin disturbed'
             PROVE  CountOf(o)'
  BY DEF CountInv
<1>0. disturbed \subseteq disturbed' => CountOf(o)
  BY DEF CountInv
<1>1. CASE UNCHANGED vars
  BY <1>0, <1>1 DEF CountOf, Waiting, Storing, vars
<1>2. CASE StartCycle
  <2>1. job = None /\ CountOf(o) /\ UNCHANGED <<cfg, streak, job>>
    BY <1>0, <1>2 DEF StartCycle, TypeInv, Served
  <2>2. o \in todo' => snap'[o] = cfg[o] /\ cfg[o] \in Config
    BY <1>2 DEF StartCycle, Listed
  <2>3. streak[o] \in 0..3 /\ (cfg[o] \in Config => cfg[o].fails \in 0..2)
    BY Fails
  <2> QED
    BY <2>1, <2>2, <2>3 DEF CountOf, Waiting, Storing
<1>3. CASE FinishCycle
  BY <1>0, <1>3, CountKept DEF FinishCycle, EndCycle, CountLeft, Waiting, Storing
<1>4. ASSUME NEW p \in Outputs, SkipPaused(p)
      PROVE  CountOf(o)'
  BY <1>0, <1>4, CountKept DEF SkipPaused, Take, CountLeft, SnapLeft, Waiting, Storing
<1>5. ASSUME NEW p \in Outputs, Recheck(p)
      PROVE  CountOf(o)'
  <2> DEFINE j == NewJob(p)
  <2>1. PICK patch \in {"resume", "checked"}, then \in Thens : job' = Merging(j, patch, 0, then)
    BY <1>5 DEF Recheck, Thens
  <2>2. j \in Job /\ patch \in Patch
    BY NewJobType DEF Patch
  <2> HIDE DEF j
  <2>3. job'.at = "merge" /\ job'.patch = patch
    BY <2>1, <2>2, MergingZero
  <2>4. /\ job = None /\ todo' \subseteq todo
        /\ UNCHANGED <<cfg, snap, streak, disturbed>>
    BY <1>5 DEF Recheck, Take
  <2> QED
    BY <1>0, <2>3, <2>4, CountKept DEF CountLeft, SnapLeft, Waiting, Storing
<1>6. ASSUME NEW p \in Outputs, Prepare(p)
      PROVE  CountOf(o)'
  <2>1. /\ job = None /\ p \in todo /\ todo' \subseteq todo
        /\ UNCHANGED <<cfg, snap, streak, disturbed>>
    BY <1>6 DEF Prepare, Take
  <2>2. \/ job' = None
        \/ /\ job'.out = p
           /\ \/ job'.at = "cert"
              \/ job'.at = "merge" /\ job'.patch = "count" /\ job'.fails = 0
    BY <1>6, PrepareJob
  <2> QED
    BY <1>0, <2>1, <2>2, CountKept DEF CountLeft, SnapLeft, Waiting, Storing
<1>7. CASE ReadCert
  <2>1. /\ job # None /\ job.at = "cert"
        /\ UNCHANGED <<cfg, snap, todo, streak, disturbed>>
    BY <1>7, JobAt DEF ReadCert
  <2>2. job' = None \/ (job'.out = job.out /\ job'.at \in {"send", "connect"})
    BY <1>7, ReadCertJob
  <2> QED
    BY <1>0, <2>1, <2>2, CountKept DEF CountLeft, SnapLeft, Waiting, Storing
<1>8. CASE Connected
  BY <1>0, <1>8, ConnectedCount DEF Connected
<1>9. CASE Rejected
  <2>1. /\ job # None /\ job.at = "connect"
        /\ UNCHANGED <<cfg, snap, todo, streak, disturbed>>
    BY <1>9, JobAt DEF Rejected
  <2>2. job'.at = "merge" /\ job'.patch = "reject"
    BY <1>9, RejectedJob
  <2> QED
    BY <1>0, <2>1, <2>2, CountKept DEF CountLeft, SnapLeft, Waiting, Storing
<1>10. CASE Unreachable
  BY <1>0, <1>10, UnreachableCount DEF Unreachable
<1>11. CASE MergeRead
  <2>1. /\ job # None /\ job.at = "merge" /\ disturbed \subseteq disturbed'
        /\ UNCHANGED <<cfg, snap, todo, streak>>
    BY <1>11, JobAt DEF MergeRead
  <2>2. CASE /\ cfg[job.out] = NoRow \/ job.patch \in Pausing
             /\ job' = None \/ job'.at \in {"send", "drop"}
    <3>1. "count" \notin Pausing
      BY DEF Pausing
    <3> QED
      BY <1>0, <2>1, <2>2, <3>1, CountKept, KindsAssumption
         DEF CountLeft, SnapLeft, Waiting, Storing
  <2>3. CASE /\ job' \in Job /\ job'.at = "write" /\ job'.out = job.out
             /\ job'.patch = job.patch /\ job'.fails = job.fails
    <3>1. job' # None
      BY <2>3, KindsAssumption
    <3> QED
      BY <1>0, <2>1, <2>3, <3>1, CountKept DEF CountLeft, SnapLeft, Waiting, Storing
  <2> QED
    BY <1>11, <2>2, <2>3, MergeReadJob
<1>12. CASE MergeWrite
  BY <1>0, <1>12, MergeWriteCount DEF MergeWrite
<1>13. CASE DropSocket \/ Sent \/ SendFails
  <2>1. /\ job' = None /\ job.at \in {"drop", "send"}
        /\ UNCHANGED <<cfg, snap, todo, streak, disturbed>>
    BY <1>13 DEF DropSocket, Sent, SendFails, At
  <2> QED
    BY <1>0, <2>1, CountKept DEF CountLeft, SnapLeft, Waiting, Storing
<1>14. CASE Dashboard
  <2>1. /\ UNCHANGED <<todo, snap, streak>> /\ disturbed \subseteq disturbed'
    BY <1>14, DashboardType DEF DashboardLeaves
  <2>2. \/ job' = job
        \/ /\ job # None /\ job' # None /\ job'.out = job.out /\ job'.at = job.at
           /\ job'.patch = job.patch /\ job'.fails = job.fails
    <3>1. job' = job \/ (job # None /\ job' = [job EXCEPT !.open = FALSE])
      BY <1>14, DashboardType DEF DashboardLeaves
    <3>2. job # None => job \in Job
      BY DEF TypeInv, TypeOK
    <3> QED
      BY <3>1, <3>2, ClosedType, KindsAssumption
  <2>3. CountLeft(o)
    BY <1>14, DashboardCounts
  <2> QED
    BY <1>0, <2>1, <2>2, <2>3, CountKept DEF SnapLeft, Waiting, Storing
<1>15. CASE Abort
  <2>1. job' = None /\ todo' = {} /\ UNCHANGED <<cfg, streak>>
    BY <1>15 DEF Abort, EndCycle
  <2>2. /\ disturbed \subseteq disturbed'
        /\ Storing(o, "count") => o \in disturbed'
    BY <1>15 DEF Abort, CutShort, At, Storing
  <2> QED
    BY <1>0, <2>1, <2>2, CountKept DEF CountLeft, Waiting, Storing
<1>16. ASSUME NEW p \in Outputs, Age(p)
       PROVE  CountOf(o)'
  <2>1. UNCHANGED <<todo, job, streak, disturbed>>
    BY <1>16 DEF Age
  <2>2. CountLeft(o) /\ SnapLeft(o)
    BY <1>16, AgeType DEF CountLeft, SnapLeft
  <2> QED
    BY <1>0, <2>1, <2>2, CountKept DEF Waiting, Storing
<1>17. CASE Restart
  <2>1. job' = None /\ todo' = {} /\ UNCHANGED <<cfg, streak>>
    BY <1>17 DEF Restart, EndCycle
  <2>2. /\ disturbed \subseteq disturbed'
        /\ Storing(o, "count") => running /\ o \in disturbed'
    BY <1>17 DEF Restart, CutShort, At, Storing, TypeInv, Served
  <2> QED
    BY <1>0, <2>1, <2>2, CountKept DEF CountLeft, Waiting, Storing
<1> QED
  BY <1>1, <1>2, <1>3, <1>4, <1>5, <1>6, <1>7, <1>8, <1>9, <1>10, <1>11, <1>12, <1>13, <1>14,
     <1>15, <1>16, <1>17 DEF Next, Sender

LEMMA CountInvHolds == Spec => []CountInv
  BY InitCount, StepCount, TypeInvHolds, PTL DEF Spec

\* The count of an output nobody disturbed never exceeds the connects that failed in a row.
THEOREM CountStaysTrue == Spec => []CountIsTrue
<1>1. CountInv => CountIsTrue
  BY DEF CountInv, CountOf, CountIsTrue, Storing
<1> QED
  BY <1>1, CountInvHolds, PTL

\* The sender pauses an output for a rejection or for three failures in a row.
THEOREM PausesAreEarned == Spec => []PauseEarned
<1>1. TypeInv /\ CountInv => PauseEarned
  <2> SUFFICES ASSUME TypeInv, CountInv, At("write"), job.patch = "pause"
               PROVE  job.out \in disturbed \/ streak[job.out] = 3
    BY DEF PauseEarned
  <2>1. job.out \in Outputs /\ Storing(job.out, "pause")
    BY JobAt DEF Storing, At
  <2> QED
    BY <2>1 DEF CountInv, CountOf
<1> QED
  BY <1>1, CountInvHolds, TypeInvHolds, PTL
=============================================================================
