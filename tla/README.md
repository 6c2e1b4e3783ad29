# TAKNET-PS Aggregator: formal models

TLA+ models of the TAKNET-PS Aggregator (v1.0.364), the configurations that
check them with TLC, and theorems about them checked by TLAPS. Paths below are
relative to `src/`; `web/models.py:439` is line 439 of `src/web/models.py`.

Contents: [the system](#the-system), [the plan](#the-plan),
[modules](#the-modules), [runs](#the-runs), [fairness](#fairness),
[proofs](#what-is-proved), [divergences](#where-code-and-documents-differ),
[limits](#what-is-not-shown).

## The system

An aggregator takes ADS-B data (Beast over TCP) from many feeders, hands it to
one `readsb`, and offers the result to TAK servers (CoT), to other consumers
(Beast, JSON), and to people (a dashboard). It is a set of Docker containers
around one SQLite file in WAL mode.

| component | state it keeps | operations | talks to |
|---|---|---|---|
| beast-proxy: feeder sessions (`beast-proxy/proxy.py`, `db.py`) | `active_connections` in memory; rows of `feeders`, `connections` | accept, register, forward, idle close, flush, mark stale, purge, shutdown, restart | feeders, readsb, SQLite |
| beast-proxy: feeder registry (`db.py`) | identity columns, owners and lock of `feeders` | match or insert a row, claim ownership, log the connection, reclassify at start | SQLite, VPN resolver |
| beast-proxy: metadata prefix (`proxy.py:31-176`) | none | read optional text lines before the Beast stream | feeders |
| beast-proxy: output listener (`proxy.py:443-547`) | `_output_clients`, `_drop_output_ids`; keys and drop signals in SQLite | authenticate by key, broadcast into bounded queues, drop | consumers, readsb, dashboard through SQLite |
| beast-proxy: VPN resolver, GeoIP | peer lists, cached for a while | classify an address | Tailscale socket, NetBird API |
| feeder tunnel (`tunnel-service/main.py`, `web/routes/feeder_tunnel.py`) | `feeder_connections`, `feeder_hosts`, `pending_requests` under one asyncio lock; two caches in the dashboard | register a WebSocket, send a request over it, match the answer, time out | feeders' clients, dashboard, SQLite |
| tunnel response rewriting (`feeder_tunnel.py`) | none | rewrite HTML, CSS, JavaScript | browser |
| CoT pipeline (`web/cot_pipeline.py`, `web/app.py`) | persistent sockets, last state sent of each aircraft, per-output configuration | one sender cycle every few seconds, pause and recheck of TLS outputs | TAK servers, aircraft merger, dashboard |
| CoT transforms (`web/models.py:1400-1990`, `web/routes/api.py`) | lines of an output, keyed by hex | create, edit, delete, import, find and merge duplicates | users, the CoT sender |
| outputs and keys (`web/models.py`, `web/routes/api.py`) | rows of outputs, keys and certificates | create, edit, delete, regenerate, upload, test | users, beast-proxy and the CoT sender |
| accounts (`web/models.py`, `web/routes/auth.py`, `config.py`) | users, their claim keys, links to set a password | register, approve, deny, change roles, delete, reset | users, mail |
| dashboard: feeder administration (`web/routes/api.py`, `web/models.py:400-620`) | rows of `feeders`, `connections` | edit owners and lock, delete, merge, purge | beast-proxy through SQLite |
| dashboard: software update, settings, scheduler, watchdog, VPN pages | a flag and a queue; the `.env` file; alert state | run the update, persist a setting, periodic jobs | Docker, mail |
| aircraft merger (`aircraft-merger/merge.py`) | dictionaries shared by threads | read SBS, poll readsb, merge, expire | ADSBHub, readsb |
| ADSBHub feeder (`adsbhub-feeder/feeder.py`) | none | copy one socket to another, reconnect | readsb, ADSBHub |
| read APIs (`api-server/app.py`, `taknet-api/api.py`) | none | answer reads | SQLite, files |

What is hard in it:

- Three kinds of concurrency meet in the tables: asyncio handlers that
  interleave at awaits inside beast-proxy and the tunnel, threads in the
  dashboard and the merger, and independent processes on one SQLite file
  whose statements each commit on their own.
- Ids outlive rows: a handler holds `feeder_id` for days while the dashboard
  deletes, merges and purges; pages hold ids, too.
- Two writers add the same counters (the flusher and a handler's `finally`
  block), and each may fail half-way.
- Liveness of a feeder is told from time stamps that one periodic task writes;
  if that task dies, nothing tells.
- A feeder's new session overlaps the old one's late end, in beast-proxy as
  in the tunnel.
- A request through the tunnel has three possible ends (answer, failed send,
  timeout) that can race, and two clocks of 30 s.

What makes each component correct:

- **sessions**: every byte is credited once, but for the last ones of a handler
  whose end fails half-way, which are credited twice; a connected feeder looks alive
  and is not purged, a disconnected one does not stay active; an idle session
  is closed; a crash leaves nothing that is not found later.
- **registry**: an identity is on one row; a lock on the owners holds against
  claims in flight; an id never names two feeders.
- **tunnel**: a reconnection wins and survives its predecessor's end; a reply
  reaches the request it answers; nothing leaks; everything ends.
- **output listener**: a single-use key lets one client in; a stream has no
  gap; queues nobody reads are not kept. That a revoked key ends every client
  that used it and nobody else would be right, too, and does not hold.
- **CoT sender**: what it believes a server has is what the server was given,
  but for what is known to be lost; its count of failures is of failures in a
  row, and a pause is earned and does not last for ever.
- **merger**: an aircraft from ADSBHub is shown while it was heard recently,
  and not longer, though the reader's dictionary never forgets one.
- **accounts, transforms, update, settings**: the last administrator is lost by
  an own request only, a link or key is of one user; a hex has one line, and a
  merge deletes nothing unseen; a page follows its own update; a setting is
  read as it was written, if it has one line.

The file `PROJECT.json` lists the components with their status, and the
hazards at the lines where they bite.

## The plan

Ordered by what the system is for: feeders first.

| # | module | subject | state |
|---|---|---|---|
| 1 | `FeederSessions` | sessions, counters, freshness, purges, crashes | done, safety proved |
| 2 | `FeederTable` | abstract: what users of `feeders.id` may assume | done |
| 3 | `FeederRegistry` | identity, owners, merge, claims | done, safety proved |
| 4 | `FeederTunnel` | WebSockets, requests, answers, timeouts | done, safety proved |
| 5 | `FeederRequests` | abstract: what the tunnel promises of a request | done, implementation proved |
| 6 | `BeastOutput` | keys, drop signals between two processes, the broadcaster's bounded queues | done, safety proved |
| 7 | `ChunkFeed` | abstract: what an output promises of a stream | done, implementation proved |
| 8 | `CotDelta`, `CotPlans` | which aircraft a cycle sends and remembers, and which transforms it reads for that | done, proved |
| 9 | `CotSender` | the sender's thread against the dashboard: cached sockets, certificates, `merge_config`, the pause and its recheck | done, safety proved |
| 10 | `TrackFeed` | abstract: what the sender promises a server of each aircraft | done, implementation proved |
| 11 | `CotTransforms` | the lines of an output and their duplicates | done, proved |
| 12 | `CotEvent` | what an event says of an aircraft, and its two serializers | done, proved for texts of any length |
| 13 | `Accounts` | roles, approval, claim keys, reset links | done, proved |
| 14 | `AircraftMerger` | the SBS thread against the merge loop | done, proved |
| 15 | `UpdateRunner` | the update's thread and queue, the page, the killed worker | done, proved |
| 16 | `EnvFile` | quoting a setting and reading it back | done, proved for settings of any length |

Composition: `FeederSessions` and `FeederRegistry` model two views of one
program, the progress of a session and the choice of its row; each abstracts
the other to what it may do (a registration takes any row; a session is on or
off). `FeederSessions`, in which a handler holds an id while its row is deleted
and others are inserted, is shown to implement `FeederTable` (`IsFeederTable`,
with `INSTANCE FeederTable WITH`), the interface the rest of the system relies
on. `FeederTunnel`, `BeastOutput` and `CotSender` each have an abstract
specification of their own, which those who use them could rely on without
their queues, sockets and locks: `FeederRequests` of a request, `ChunkFeed` of
a stream and `TrackFeed` of an aircraft. `BeastOutput` stands by itself: it
shares the process and the flusher with the sessions, and no state, and is
checked in the run `parts`. `CotSender` composes the sender, the dashboard and
the delta: it extends `CotDelta`, whose plans it follows, and `CotPlans` says
of each single plan what a cycle that read all transforms would do. `MCParts`
puts `BeastOutput` and the remaining modules side by side (see [the
runs](#the-runs)).

What could follow: the metadata prefix as an operator against a reference
definition, and `update_feeder_db` with the dashboard's two caches of feeder
rows. [Not modelled](#not-modelled) says why they are left.

## The modules

Every module is read with the code beside it: `PROJECT.json` maps each
definition to its lines. Names are the source's where TLA+ allows it.
Definitions named `Bug...` are no part of a model: each is what the definition
below it would be after a plausible mistake, and a property that is checked is
one that such a mistake breaks.

### FeederSessions

`handle_client`, `forward_stream`, `stats_flusher`, start, SIGTERM and death
of beast-proxy, and the dashboard's deletes.

| TLA+ | code |
|---|---|
| `pc`, `sess` | where each `handle_client` task is, and its `conn_info` |
| `Active` | keys of `active_connections` |
| `rows`, `feeder`, `nextId` | table `feeders` and its AUTOINCREMENT |
| `conn` | the row of `connections` a handler wrote |
| `flusher`, `due`, `cycles` | the stats task, whether its sleep is over, cycles since start |
| `proxy` | the process: up, stopping, down |
| `Accept` .. `FinishFails` | the handler from accept to its `finally` block, with each place it can raise |
| `StatsCycle`, `StatsCycleFails` | one round of the flusher; a round in which a write raises |
| `Shutdown`, `ProcessEnds`, `Restart` | SIGTERM, the end or crash, Docker's restart |
| `DeleteFeeder`, `PurgeInactive`, `PurgeOld` | the dashboard |
| `Tick` | a period of `STATS_INTERVAL` ends |

A row's `bytes_received` is kept as its summands, one per session, so that
"credited once" can be said at all; messages, bytes and positions are handled
alike by the code and are one counter here. `unlogged` is no field of the code:
it is what a `finally` block credited before `log_disconnection` raised. Such a
handler leaves its entry with `bytes_flushed` as it was, so the flusher credits
these bytes once more (`proxy.py:292`, `374`); `CountersExact` says that these
and no others are credited twice. No document speaks of that case, so it is no
divergence, but it is a flaw of the code that the model has. What lies between
two awaits is one step. The exceptions are `StatsCycle` and `Finish`, which
make several statements, each of which the dashboard can see: they are one step
because the only thing the dashboard does to a row in between is delete it, and
a delete commutes with an UPDATE by id (which then finds nothing). A failed
statement or commit is taken to leave nothing behind; each place where one can
fail is a disjunct.

### FeederTable

The abstract table: rows get increasing ids, any may be deleted, none is used
again. It is short because that is the promise.

### FeederRegistry

`upsert_feeder`'s order of lookups (uuid, mac, address, NetBird hostname),
the claim that reads owners in one statement and writes them in another,
the reclassification at start, and the dashboard's edits, deletes and merges.
`Answer[ip]` is what the VPN resolver may say of an address, stale lists
included; `Hello` is what metadata a feeder may send. Where the code fetches
one row without ORDER BY, the model takes any.

### FeederTunnel

| TLA+ | code |
|---|---|
| `sess`, `lock` | `tunnel_websocket` handlers, `_lock` held across `old.close()` |
| `connected`, `hosts` | `feeder_connections`; `feeder_hosts`, as the session whose host it holds |
| `pending`, `post` | `pending_requests`; `proxy_request` handlers with their holder |
| `wire` | requests on their way to a feeder or being processed there, with the session they were sent over; they stay there when it ends |
| `back` | answers on their way on a WebSocket, with the session they come over (`by`); they are lost when it ends |
| `call` | `feeder_tunnel_proxy`: which spelling of the id is being tried |
| `ToTry` | `_tunnel_feeder_ids_to_try` |
| `TakeLock`, `Replace` | register: enter, or close the predecessor first and then enter |
| `Receive`, `Break`, `Leave` | an answer is taken off the socket; the loop ends; the `finally` block |
| `Look`, `Sent`, `SendFails`, `Wake`, `Timeout` | a POST, from lookup to its end |
| `FeederAnswers` | external: a feeder answers late, out of order, or never, on whichever session it has by then, be the one it was asked over gone or the service started again |
| `Take`, `PostEnds`, `GiveUp` | the dashboard posts a call, goes on to the next spelling on 503, or gives up after its own 30 s |
| `Restart` | the service ends and is started again; feeders keep the requests they have |

The service is one event loop, so what lies between two awaits is one step;
the lock needs a variable only because `old.close()` is awaited under it.
The dashboard is one synchronous gunicorn worker (`web/Dockerfile`, `-w 1`),
so it handles one call at a time: `Take` says so. The service goes on with a
POST whose client has left. An id that is blank after `strip()` is left out:
it is entered and never taken out, but `/proxy` refuses a blank id, so it is
never asked for.

### FeederRequests

What the dashboard may assume of a request it posts, which matters because it
posts again under another spelling: the request reaches the feeder it names,
no other one, and that one at most once; not after it has a result; and not at
all when the result is "offline". A reply is what the feeder answered. Other
results say nothing: such a request may have been carried out. `FeederTunnel`
maps to it what is on the sockets and in the holder of a handler (`Way`).

### BeastOutput

| TLA+ | code |
|---|---|
| `status`, `type` | rows of `outputs` |
| `key` | each output's row of `output_api_keys`: which key it is, its type, whether it is used |
| `signals`, `drops` | table `output_drop_signals`; the proxy's `_drop_output_ids` |
| `dash` | a dashboard request between its two commits |
| `found` | what `pop_drop_signals` has selected and not yet deleted |
| `at`, `pass` | where each `_handle_output_client` is, and the output and key it was let in with |
| `listed`, `queue` | `_output_clients` and its queues |
| `chunk`, `got` | the last chunk read from readsb, and the last one written to each client |
| `Create`, `Update`, `Signal`, `Generate`, `Delete`, `DashboardEnds` | the dashboard's requests, commit by commit |
| `Read`, `Clear`, `ClearFails` | the poll in `stats_flusher`: SELECT, then DELETE |
| `Presents`, `Greeted`, `Loop`, `Nothing`, `Write`, `Drained`, `Dropped`, `DrainFails` | a client, await by await |
| `Broadcast`, `Put`, `Unlisted` | one `read` of the broadcaster: into each queue that has room, while a full one is taken off the list |
| `Restart` | the process ends and starts again |

beast-proxy's SQLite calls are synchronous, so while the poll is between its
statements (`found`) no handler runs, but the dashboard, another process, may.
`Presents` is one step although `validate_output_key` reads and then writes:
the write names the key's row by an id that is not used again, so whatever the
dashboard does in between could as well come afterwards. An output may change
its type while clients stream; the code looks at it on entry only. A key
regenerated for `adsb_direct` is durable, whatever it was before
(`web/routes/api.py:1526`).

### ChunkFeed

A client is sent the chunks read after it was let in, each once, in order,
without a gap, and nothing once it is gone. How many is not promised.
`BeastOutput` maps to `due` the head of a client's queue, or what follows what
it was sent (`Due`): nothing in the abstract specification is a queue.

### CotDelta, CotPlans, CotSender

| TLA+ | code |
|---|---|
| `cfg`, `active`, `cert`, `rules` | rows of `outputs`, `output_cot_certs`, `cot_transforms` |
| `sock`, `lastSent` | `_persistent_sockets`, `_last_sent_state`, shared by the sender's thread and the worker |
| `running`, `todo`, `snap`, `air` | `_cot_sender_lock`, the outputs of the cycle, their rows and the aircraft as read when it started |
| `job` | the output being served and where: reading the certificate, connecting, in `merge_config`, sending |
| `req`, `form` | the dashboard's request between its commits; the configuration an open page will post |
| `StartCycle` .. `FinishCycle` | `run_cot_sender_cycle`, with the outputs in any order |
| `Queried`, `GetForHexes`, `Plan`, `Capped` | the lookup of transforms, the delta against what was last sent, the cap on it |
| `Prepare`, `ReadCert`, `Connected`, `Rejected`, `Unreachable`, `Sent`, `SendFails` | serving an output |
| `MergeRead`, `MergeWrite`, `DropSocket` | `merge_config`'s SELECT and UPDATE, and what follows a pause |
| `SkipPaused`, `Recheck`, `Age` | a paused output; its recheck after ten minutes |
| `Abort`, `ReqAbort`, `Restart` | the database stays locked; the process ends |
| `Upload`, `TestTls`, `ReqRead`, `ReqWrite`, `ReqDrop`, `SavePage`, `SaveText`, `Delete`, `EditRules` | the dashboard's requests |

An aircraft's state is the rounded tuple the code compares; a picture maps
aircraft to states and leaves out what an output's filters leave out.
`got`, `missed`, `streak` and `disturbed` are history: what each server was
last given, which updates were computed and lost, the connects that failed
since one succeeded, and the outputs whose count two writers, or an aborted
write, made wrong. The last is no excuse for anything: `disturbed` grows only
where the code overwrites a row it has read before another changed it.
The TCP and TLS parts of a connect are one step, with the outcomes the code
tells apart. `DropSocket` from the dashboard closes a socket the sender may be
holding (`open`); the send that follows fails.

### TrackFeed

An aircraft is sent when its state is not the one remembered as sent, and in
that new state; what is on its way arrives once, or is lost. What was lost is
not sent again by itself: it is remembered as if it had arrived, because the
code stores the state before it connects (`cot_pipeline.py:1404`), and the
aircraft stays behind until it changes or is forgotten. `CotSender` maps to
`way` the aircraft of the job being served while that job is still to be sent
(`Heading`): there is no cycle, no socket and no certificate in the abstract
specification, and what the dashboard does to them shows as a loss or not at
all. A server is sent again what it has only when the memory of it was pruned,
capped, or lost with the process.

### CotTransforms

Rows with increasing ids; `shown` is what a page of duplicates showed when it
was loaded. A request is one step, since the worker serves one at a time and
each operation is one transaction. All fields but the hex are one value.
Init admits duplicates, which tables from before the checks may have.

### CotEvent

An aircraft is what the decisions tell apart; `EventParts` follows
`_compute_cot_xml_parts` in the order in which the code overrides the type.
An emergency code is one the program has a label for, one that mentions an
emergency, or neither: of readsb's, `minfuel` and `unlawful` are no distress.
`XmlEscape`, `TreeText` and `TreeAttribute` are the two ways of writing text;
ElementTree writes line ends and tabs of an attribute as character references.

### Accounts

An administrator is whose row has that role, whatever its status: that is all
`admin_required` asks, and who is pending may log in (`auth.py:26`). `Approve`
and `Deny` act on any id that is posted, the own one included; only the routes
that change a role and delete compare it with the own (`config.py:111`, `135`).
So the last administrator may take the role from itself or delete itself, and
`LastAdminStays` says that this, and a cleaning after all were denied, are the
only ways: no administrator can leave the dashboard without one by acting on
others, and a table without one stays so until it is empty. `Ensured` includes
that storing a claim key may fail.

### AircraftMerger

`heard` is written by the SBS thread and purged by the merge loop without a
lock: `PurgeLook` compares, `PurgeDelete` deletes, and a message may come in
between. `lastMsg` and `lost` are history. `book`, the thread's dictionary, is
never purged, and is published whole.

### UpdateRunner

`WorkerKilled` is gunicorn's timeout and the update's own recreation of the
dashboard: the thread, the flag and the queue are gone, the container goes on
(`script`), and a second update may be started beside it. The text of an
exception may have several lines, each of which `log` queues as a line of type
"error" (`LastLine`, `NextLastLine`): the first ends the page, the others are
left in the queue, and the next update throws them away.

### EnvFile

`Escaped` and `Unescaped` are `_env_value_escape` and `_read_env_value`, on
sequences of the characters they tell apart. A line end within a value gets it
quoted, but the file is read line by line (`FirstLine`), so it comes back cut.

## The runs

| run | instance | what it shows |
|---|---|---|
| `sessions_safety` | two sessions, two rows, one chunk each, faults on | types; `CountersExact`, `ConnectedIsFresh`, `StaleMeansDisconnected`, `SilentIsClosed`, `ActiveIsRecent`, `PurgeOldSparesConnected`; refinement of `FeederTable` |
| `sessions_live` | the same without faults, with fairness | `ConnectedBecomesActive`: a connected feeder wrongly marked recovers |
| `sessions_silent` | one session | violated: `SilentFeederLeavesActive` |
| `sessions_overlap` | two sessions of one feeder | violated: `OfflineMeansDisconnected` |
| `registry` | three connections, two addresses, two uuids, three rows | types; `UuidUnique`, `LockHolds` |
| `registry_identity` | two connections from one address | violated: `OneRowPerFeeder` |
| `tunnel` | two WebSockets, a call under two spellings | `PendingIsAwaited`, `NewestIsConnected`, `ConnectedIsOpen`, `AnswerIsOwn`; `EveryPostEnds`; refinement of `FeederRequests` |
| `tunnel_offline` | one WebSocket, one call | violated: `OfflineMeansUnregistered` |
| `output_regenerate` | one client of one output | violated: `DropsOnlyOldKeys` |
| `cot` | one output, an aircraft with two states, two URLs, one request, faults on | `DeltaIsTrue`, `CountIsTrue`, `PauseEarned`; `PausedIsRechecked`; refinement of `TrackFeed` |
| `parts` | two clients of one output, two keys, three chunks, queues of two; two hexes, three users, two links, two updates, texts of three and settings of five characters | each part below in behaviours of its own |
| `serializers` | texts of one character | violated: `SerializersMatch` |

The run `parts` has one variable `part` that says which module's behaviour it
is; the modules share no state, so that one run says of each what a run of its
own would, and the others keep their first state. Four of them have no steps:
each initial state is one input. It checks

- of outputs `SingleUseOnce`, `NoGap`, `ListedIsStreaming` and the refinement
  of `ChunkFeed`;
- of transforms `ShownIsAll`, `NoNewDuplicates`, `MergesKeepLines`;
- of accounts `LastAdminStays`, `ClaimKeysStay`, `ResetsAreFresh`;
- of the merger `MergedIsRecent`, of the update `LinesAreOwn`;
- of every setting of a length `EnvRoundTrip`, of every aircraft and transform
  `AlertIsHostile`, of every text of a length `SerializersAgree`, of every
  cycle `LookupSuffices`.

Types are checked in the runs where a mistake would break them first, and
proved for every module with steps.

Every bound is a constant of a cfg. Why they are enough:

- Two sessions are an old and a new one of the same feeder, or two feeders;
  the conflicts in the code are between two. Two rows let a row be deleted
  while its id is held and another be inserted. One chunk distinguishes
  "credited", "not credited" and "credited twice" because credit is counted.
- The timeouts are small and different in order (`IdleTicks` = `StaleTicks` =
  1, `PurgeTicks` = 2); with `STATS_INTERVAL` = 30 s the deployed values are
  4, 10 and 2880. `GraceCycles` is 0 where the code waits for three cycles
  after a start: the purge comes as early as it can, which is the harder case.
  The theorems hold for all values.
- The registry has one NetBird address that may also be classified as public,
  one feeder without identity, one with uuid and mac, one with another uuid
  and a claim: each branch of the lookup is taken with each outcome.
- In the tunnel one call suffices for concurrency, because `GiveUp` leaves
  the first POST running while the second spelling is posted; two sessions
  are a predecessor and its successor, under equal ids or different ones.
- Two clients of one output may present the same key, or an old and a new
  one; with two keys, a regeneration lies between. Queues of two (256 in the
  code) and three chunks let a queue have an order, be full, and overflow.
  Outputs do not interact: a handler looks at its own output only, and the
  poll takes all signals alike.

- One output suffices for `cot`'s conflicts, which are between the sender and
  a request about the output it serves; that other outputs wait when a cycle
  is cut short is in the model, and in the proofs, which are for any number.
  One request (`MaxEdits`) has two commits, each of which may fall between any
  two steps of a cycle, and a page may be loaded before the first. Two states
  let an aircraft change, change back, and be lost. The cap on what is
  remembered (`MaxLastSent`) does not bite with one aircraft: that it does no
  harm is shown by the proofs only. Three failures, the code's own number, are
  within reach.
- `parts`: two hexes with two values and four ids have an exact and an inexact
  group of duplicates, and an import beside them; three users let an
  administrator, a pending user and a third change places and act on one
  another and on themselves; two links are an older and a newer one. One
  aircraft and `Stale` = 2 have every order of message, purge and switch. Two
  updates and a queue of four (`MaxLines`) let one leave lines for another.
  `MaxEnvLen` = 5 is the length of the escape itself, so that a value may
  spell it; `MaxText` = 3 has each pair of characters next to each other.

Deadlock is not checked: each instance has finitely many sessions, calls,
keys and chunks, and when all have been handled it may stop. Symmetry is used only on
sessions, in runs of safety properties, where nothing names one.

## Fairness

Only what the code's scheduling gives:

- FeederSessions: the clock advances, the flusher's sleep ends, Docker
  restarts the process (`restart: unless-stopped`), a shutdown comes to its
  end; a handler goes on where it waits for neither a feeder nor readsb.
  Feeders need not send, close or connect. readsb need not send or close on
  its side of a feeder's connection either: port 30006 is its Beast *input*
  (`docker-compose.yml`, `READSB_NET_BEAST_INPUT_PORT`), on which it has no
  reason to do so. The `sessions_silent` run rests on that.
- FeederTunnel: the loop runs a handler that can run; `old.close()` and a
  send return or raise (WebSocket close and keepalive timeouts); the 30 s of a
  POST pass. No feeder need answer, no session need end, no browser need ask.
- CotSender: WF of the sender as a whole, because the scheduler's thread
  starts a cycle every few seconds (`web/app.py:143-161`) and every call in a
  cycle returns (connects and sends have timeouts); and for each output SF of
  `Recheck`, `MergeRead` and `MergeWrite`, because a cycle may be cut short by
  a locked database before it comes to an output, or between the statements
  of its merge, but not every time. That a recheck succeeds is not assumed,
  nor that a server is ever there, nor that time passes: an output that has
  become due is what `PausedIsRechecked` begins with.
- The other modules have safety properties only.

## What is proved

All of it for every value of the constants, from the modules' named
assumptions alone (`SizesAssumption`, `RegistryAssumption`,
`TunnelAssumption`, `OutputAssumption`, `DeltaAssumption`,
`SenderAssumption`, `KindsAssumption`, `TfAssumption`, `AccountsAssumption`,
`MergerAssumption`), which TLC evaluates in each run. They say that bounds are
numbers and that the constants for "none" are none of the values they stand
beside; `SenderAssumption` adds that addresses a connect accepts are addresses.

**FeederSessionsProofs.** `Spec => []` of the type invariant and of the five
state invariants; the action property `PurgeOldSparesConnected`; the
refinement of `FeederTable`. The inductive invariant `SafeInv` adds to them
what they need:

- `TypeInv`: types, and a session's flushed count does not exceed its bytes;
- `Ids`: every id that is held or in the table was given out before, so a new
  row starts without credit and without a session;
- `Logged`: who has an entry has an open row of `connections`, who has yet to
  register has none;
- `DownIsEmpty`: no entries while the process is down, so a restart begins
  from none;
- `SilentInv`: `SilentIsClosed` with the moment within a period at which it
  holds, since a session is one period older before the flusher runs.

`CountersExact` is then a case split over who writes: a handler's end moves
what is unflushed into the row exactly when it leaves `Active`; a flush moves
it and remembers it; a partial flush does so for the sessions before the
failure. A handler that dies half-way between its two writes
moves what is unflushed and remembers it as `unlogged`; that nobody else has
any is `NothingUnlogged`, which `SafeInv` has, too.

**FeederRegistryProofs.** Types, `UuidUnique`, `LockHolds`. `UuidUnique` is
inductive because the lookup by uuid comes first: a row is given a uuid only if
no row has it, or if it has it itself, and a row that is re-homed is given
none.

**FeederTunnelProofs.** Types, `PendingIsAwaited`, `NewestIsConnected`,
`ConnectedIsOpen`, `AnswerIsOwn`. `TunnelInv` has three parts, preserved
separately:

- `TypeInv`: types; a call's attempt is a spelling of its id (`Asked`); a
  registered session and a posted request have a feeder (`Named`, `Posted`);
- `SessInv`: the lock is held exactly by the handler that is replacing
  (`LockHeld`), and the session it replaces stays entered, and is being
  closed, until it is done (`Replacing`). That is why the newest session wins:
  nobody else can change the entry meanwhile, and the replaced session no
  longer counts;
- `RequestInv`: what each request's record may look like (`Sound`), that an
  untried spelling has no request (`Untried`), and `PendingIsAwaited`.

The refinement of `FeederRequests` adds `ExchangeInv`: each request is in one
place at most, on the wire, on its way back or in its holder, and with the
feeder it names (`Straight`); one that was given no session is in none of them,
and one that has not ended has no result (`Orderly`); and whatever is on a
socket is on one that was registered (`Registered`), so that the feeder of that
session is fixed by then. Each step then moves at most one request, and `Step`
says how, except for the end of a session and the restart, which lose the
answers on their way and leave the feeders the requests (`AreLost`);
`LeftAlone` is what all others do, whose answers a step cannot touch.
`AnswerIsOwn` follows last, from `OwnInv`: an answer on its way is signed with
the session it comes over (`Signed`), a held one came over a session of the
feeder the request was posted for (`FromFeeder`), a call has posted each
spelling up to its present one (`Spelt`), and what it shows is the answer to
that one (`Shown`). `ExchangeInv` is needed for the second: a request on the
wire names the feeder of its session, and that feeder answers.

**BeastOutputProofs.** Types with the queues' bound, `SingleUseOnce`, `NoGap`,
`ListedIsStreaming`.

- `TypeInv` adds that a request which has yet to make a key may make one more.
- `SingleUseInv` adds `Remembers`: no client was let in with a key yet to be
  made, and the present key of an output is durable or used up as soon as it
  has let a client in. A second client is let in only with the present key,
  and `Valid` then leaves durable ones.
- `StreamInv` joins `NoGap` and `ListedIsStreaming` with `Fresh`: a client not
  yet let in has an empty queue and has been sent nothing, so joining the list
  opens no gap. What a `put_nowait` and a `get` do to a sequence of chunks are
  two lemmas (`PutUnbroken`, `TakeUnbroken`).

The refinement of `ChunkFeed` rests on `NoGap`: what follows what a client was
sent is the head of its queue, if there is one. It adds `Joined`: a client that
streams with an empty queue and was sent nothing is listed, so that the next
chunk read is the one it is due. A chunk read then changes nobody's due
(`DueRead`), and a full queue that is taken off the list keeps its own.

**CotSenderProofs.** Types, `DeltaIsTrue`, `CountIsTrue`, `PauseEarned`.

- `TypeInv` adds to the types what a cycle holds (`Served`): outputs waiting
  have been read, the one being served was taken from them, and a connect has
  a certificate and an address that is accepted.
- `DeltaInv` adds `BatchInv` to `DeltaIsTrue`: what is in flight is what the
  cycle fetched, and once a job is not to be sent any more its aircraft are
  among the missed. Storing what was sent before sending it is then harmless
  as far as the failure is known, which is what the property says.
- `CountInv` follows the count from the row through the cycle's copy to the
  write: `CountOf` bounds each by the streak, except a stored count that a
  reset is on its way to replace, and says that a pause for failures comes
  after three. `CountKept` is the step of everybody who stores no count.

The refinement of `TrackFeed` adds `FeedInv`, that what is on its way is of
aircraft the cycle has fetched, to `TypeInv` and `BatchInv`. A step moves the tracks
of one output: while the job goes on they stay (`GoesOn`), when it ends without
a send they are lost (`LosesAll`), and of a send each arrives or is lost
(`Takes`). `Prepare` is where they depart, from `SendsChanged`:
the delta sends a state only when it is not the one remembered (`PrepareTracks`).

**CotTransformsProofs.** Types, `NoNewDuplicates`, `ShownIsAll`,
`MergesKeepLines`. The lemma they share is `StepIsSingle`: a step leaves each
hex at most one line, or lines that it had. A group once shown can then only
shrink, or give way to one other line. Ids below the next are all that are in
use (`TfTypeOK`), so a new line never takes the id of one that was shown.

**PartsProofs.** Of accounts: types, `LastAdminStays`, `ClaimKeysStay`,
`ResetsAreFresh`, from one invariant `AccountsInv`: keys are of one user and of
nobody who is pending (`KeysOfOne`), an open link is the last of its user
(`OpenIsLast`). That the last administrator stays is not by counting them: each
request changes one row, and one about another's row leaves that of who asks
(`UntouchedAdministers`, `OneTouched`). Of the merger `MergedIsRecent` (each
time that is kept is that of the last message, each that is not is old or
lost), and of the update `LinesAreOwn` (behind a line that ends a page
are only such, and who put one adds no other: `QueueInv`).

**DecisionProofs.** What has no steps, for any input rather than for those a
run enumerates.

- `EveryValueComesBack`: a setting of any length, over any characters, is read
  back from the `.env` file as it was written, unless it has a line end, or is
  enclosed in double quotes and holds nothing to be escaped.
  `EveryTextAgrees`: the template and the tree write a text of any length, over
  any characters, alike, except as an attribute with a line end or a tab or as
  a text with a quotation mark. Both are "if and only if", so
  they prove the two divergences as well. `SettingsComeBack` and
  `SerializersAlwaysAgree` are the properties of the run, for any bound.
- `DistressAlwaysHostile`: the type, call sign and remarks of an aircraft say
  distress exactly if it is in distress, through every override, and a code
  the program does not know is none.
- `LookupAlwaysSuffices`: the transforms a cycle does not read are of
  aircraft of which nothing is remembered.

The first two are about recursive functions and need induction. The library's
rules cannot be instantiated by these provers, so it is done in the form of a
set: what fails for some number fails for a least one, since < on numbers is
well-founded (`NatLessThanWellFounded`). That the recursive functions satisfy
their equations is proved the same way, by joining the functions that are
right up to a bound. `Replaced` then goes from left to right over a
sequence, and a lemma for each way a sequence may begin says what it does
there.

Only model-checked: what is about liveness (`ConnectedBecomesActive`,
`EveryPostEnds`, `PausedIsRechecked`), which rests on fairness and ENABLED;
and the violations.

## Where code and documents differ

Each is a run whose counterexample TLC finds; `PROJECT.json` quotes the lines.

1. A silent feeder stays active. `proxy.py:25` says "seconds without data ->
   treat as offline". The flusher closes the feeder's socket, but the handler
   waits for both directions, and the flusher goes on touching the row.
2. A connected feeder is marked offline when its older session ends
   (`db.py:286` marks by feeder id), until the next flush; "purge inactive"
   deletes it in between. README: "offline - TCP session ended".
3. Two feeders behind one address share a row when the second is new
   (`db.py:181`). README: "One row per unique feeder".
4. The offline page is shown for a connected feeder that is slow, because the
   dashboard's limit runs out first and counts as 503. `feeder_web_tunnel.md`:
   503 is "No WebSocket registered", 504 a feeder that does not respond within
   30 s.
5. Regenerating an output's key drops the next client, which has the new key,
   if nobody was connected: the signal waits for it (`proxy.py:437`, `524`).
   `web/routes/api.py:1522` says "drop any active connection using the old
   key", and `outputs.html` advises to regenerate in order to reconnect; a
   single-use key is lost that way. The other half is in the model, too: the
   first client that leaves takes the signal along (`proxy.py:538`), and other
   clients with the old key stream on.
6. The two serializers of an event do not match "byte-for-byte", as
   `cot_pipeline.py:882` wants it: the template escapes quotation marks in the
   remarks' text, the tree escapes line ends and tabs in attributes.
   `SerializersAgree` says, of every text, where exactly they do.

Others were met on the way and have no run: where a model covers the code it
does what the code does.

- `COT_PUSH_COMPLIANCE.md:54` sends aircraft that "changed since last send".
  What was last sent is stored before the send (`cot_pipeline.py:1404`), so an
  update lost by a failure is not sent again until the aircraft changes. The
  model does so; `missed` is what is lost.
- `drop_cot_persistent_socket` is for use "after cert or URL change";
  `output_update` changes the URL and does not call it. The model's `SavePage`
  leaves the socket, too.
- `_cot_pause_tls_push` says reconnecting stops "until Test TLS clears the
  flag"; the recheck after ten minutes resumes the output, by TCP alone when
  there is no certificate. `outputs.html` describes the recheck.
- `COT_PUSH_COMPLIANCE.md:12` allows `tcp://`, which
  `_parse_tls_cot_endpoint` refuses.
- `get_for_hexes` is said to keep the result of a full lookup. With lines from
  before hexes were stored in upper case it does not: hence the condition in
  `LookupSuffices`.
- readsb's categories are text like `A7`, which `_parse_category_int` takes
  for a hexadecimal number, so that they decide nothing; the test against
  unknown air in the distress branch is always true, so that a TIS-B track in
  distress is shown as hostile; an altitude of 0 counts as none.
- The CSV export and its template begin with a byte order mark. The import
  reads it as part of the first column's name, so that DOMAIN is lost.
- `README.md:353` promises a history of updates. An update that recreates the
  dashboard is never entered, since the thread that would is killed; a second
  one can be started beside it; `/updates/stream` with nothing to stream
  blocks the only worker until gunicorn kills it.
- "Saved. Dashboard is restarting to apply CoT settings." (`web/routes/api.py`):
  `docker restart` keeps the old environment.
- A setting with a line end is cut there when it is read, though the docstring of
  `_env_value_escape` (`web/routes/api.py:911`) has its quotes keep newlines
  from breaking parsing; the routes strip a value's ends only. A setting
  enclosed in double quotes comes back without them. `EnvRoundTrip` says that
  these two are all.
- "Prevent admin from removing their own admin role" (`config.py`) is true of
  the route that has the comment; `/users/approve` with the own id and another
  role removes it, and `/users/deny` with the own id deletes the account.
- When `log_disconnection` raises, the bytes the handler has just credited are
  credited again by the flusher (`CountersExact`).
- `mark_stale_feeders` calls `get` on a row that has none and raises.
- `feeder_web_tunnel.md` promises close code 4000 on a register timeout and
  JSON pings from the service; the service closes without that code and sends
  none.

## What is not shown

- Data: contents of Beast messages, names, coordinates, map URLs, headers and
  bodies. Nothing modelled is decided by them.
- SQLite itself: statements are atomic, a failed one changes nothing, and a
  lock that cannot be had is a failed statement. Disk faults are left out.
- The proofs say nothing of liveness, and the models say nothing of real
  time below a period of the flusher, or a cycle of the sender.
- The run `cot` has one output; of several the proofs speak, except
  for `PausedIsRechecked`, which is checked for one.

### Not modelled

- The rewriting of tunnelled responses, the pages, mails and templates: text
  without state.
- The VPN pages, the read APIs and the JSON routes of outputs: each request
  reads services, files or tables and answers.
- The ADSBHub feeder: two sockets and a loop that connects them again; nothing
  it keeps could be related to anything.
- The metadata prefix's parsing: bytes in, a record out, without a bound in
  time; what it may yield is an input of the registry's model.
- `update_feeder_db` of the tunnel and the dashboard's two caches of feeder
  rows: which of two registrations a row keeps is promised nowhere, and a
  cache's age is what its constant says.
- What an output's filters compute (distances, altitudes, lists), slopes and
  speeds: arithmetic in floating point, of one aircraft.
- Host scripts, proxy configuration and images: installation. Docker's restart
  policy is the `Restart` of the models.
- `v139_work/` is an older copy of the web, proxy and schema sources and is
  not built; what of it differs is superseded by the files that are modelled.
