----------------------------- MODULE FeederTunnel -----------------------------
(***************************************************************************)
(* The web tunnel: a feeder keeps a WebSocket open to the tunnel service   *)
(* (tunnel-service/main.py), and the dashboard (web/routes/                *)
(* feeder_tunnel.py) sends browsers' requests through it.                  *)
(*                                                                         *)
(* Actors:                                                                 *)
(*   - one handler per WebSocket (tunnel_websocket), which registers it    *)
(*     and then takes answers off it;                                      *)
(*   - one handler per POST /proxy (proxy_request), which sends a request  *)
(*     over a feeder's WebSocket and waits for the answer;                 *)
(*   - the dashboard's single worker, which posts a browser's call to the  *)
(*     service, once for each spelling of the feeder's id it tries;        *)
(*   - feeders, which answer when they like, in any order, or not at all.  *)
(*                                                                         *)
(* The service is one asyncio loop: what happens between two awaits is one *)
(* step.  The only await under _lock is the old session's close().  A      *)
(* definition whose name begins with Bug is a mistake the code does not    *)
(* make: put in place of the definition below it, it breaks a property.    *)
(***************************************************************************)
EXTENDS Integers, Sequences

CONSTANTS
    WS,      \* WebSocket connections to /tunnel, each handled once
    Feeder,  \* ids feeders register with, and browsers' URLs name
    ToTry,   \* _tunnel_feeder_ids_to_try: the spellings of an id
    Call,    \* browsers' requests to the dashboard, each handled once
    None

Attempt == UNION {DOMAIN ToTry[f] : f \in Feeder}

\* A POST to /proxy, and the request id the service gives it.
Post == Call \X Attempt

ASSUME TunnelAssumption ==
    /\ None \notin WS \cup Feeder
    /\ Feeder # {}
    /\ ToTry \in [Feeder -> Seq(Feeder)]
    /\ \A f \in Feeder : ToTry[f] # <<>>

VARIABLES
    sess,       \* the handler of each WebSocket
    connected,  \* feeder_connections
    hosts,      \* feeder_hosts: the session whose host it holds
    lock,       \* the handler that awaits a close() under _lock
    pending,    \* pending_requests
    post,       \* the handler of each POST, and what it holds
    wire,       \* requests on their way to a feeder, or being processed there, with
                \* the session they were sent over: it may have ended since
    back,       \* answers on their way to the service
    call        \* the dashboard's handling of each call

service == <<connected, hosts, lock, pending>>
network == <<wire, back>>
vars == <<sess, connected, hosts, lock, pending, post, wire, back, call>>

\* "registering": its register message has arrived, and it needs the lock;
\* "replacing": closes the old session; "leaving": in the finally block.
Session == [at : {"new", "greeting", "registering", "replacing",
                  "serving", "leaving", "gone"},
            fid : Feeder \cup {None},
            shut : BOOLEAN]  \* closed by its successor

NoSession == [at |-> "new", fid |-> None, shut |-> FALSE]

\* `holder' is the answer: the request it answers, and the session it came over.
Answer == [to : Post, by : WS, status : {200, 503}]
NoAnswer == [to |-> None, by |-> None, status |-> 0]

Request == [at : {"none", "looking", "sending", "waiting", "done"},
            fid : Feeder \cup {None}, ws : WS \cup {None},
            holder : Answer \cup {NoAnswer},
            result : {"none", "offline", "timeout", "error", "reply", "lost"}]

NoRequest == [at |-> "none", fid |-> None, ws |-> None,
              holder |-> NoAnswer, result |-> "none"]

Status == {200, 502, 503, 504}
Visit == [at : {"new", "posting", "done"}, fid : Feeder \cup {None},
          attempt : Attempt, status : {0} \cup Status]

NoVisit == [at |-> "new", fid |-> None, attempt |-> 1, status |-> 0]

\* The service's handler waits, or is about to wait, for an answer.
Awaits(p) == post[p].at \in {"sending", "waiting"} /\ post[p].holder = NoAnswer

Init ==
    /\ sess = [w \in WS |-> NoSession]
    /\ connected = [f \in Feeder |-> None]
    /\ hosts = [f \in Feeder |-> None]
    /\ lock = None
    /\ pending = {}
    /\ post = [p \in Post |-> NoRequest]
    /\ wire = {}
    /\ back = {}
    /\ call = [c \in Call |-> NoVisit]

-----------------------------------------------------------------------------
(* A WebSocket: tunnel_websocket *)

Accept(w) ==
    /\ sess[w].at = "new"
    /\ sess' = [sess EXCEPT ![w].at = "greeting"]
    /\ UNCHANGED <<service, post, network, call>>

\* Thirty seconds pass, the peer is gone, or its first message is no register.
GreetingFails(w) ==
    /\ sess[w].at = "greeting"
    /\ sess' = [sess EXCEPT ![w].at = "gone"]
    /\ UNCHANGED <<service, post, network, call>>

Register(w, f) ==
    /\ sess[w].at = "greeting"
    /\ sess' = [sess EXCEPT ![w].at = "registering", ![w].fid = f]
    /\ UNCHANGED <<service, post, network, call>>

\* The host is not stored.
BugEnterHost(w) ==
    /\ connected' = [connected EXCEPT ![sess[w].fid] = w]
    /\ UNCHANGED hosts

Enter(w) ==
    /\ connected' = [connected EXCEPT ![sess[w].fid] = w]
    /\ hosts' = [hosts EXCEPT ![sess[w].fid] = w]

\* Enters itself, or begins to close the session that is entered.
TakeLock(w) ==
    /\ sess[w].at = "registering"
    /\ lock = None
    /\ LET old == connected[sess[w].fid] IN
       \/ /\ old = None
          /\ Enter(w)
          /\ sess' = [sess EXCEPT ![w].at = "serving"]
          /\ UNCHANGED lock
       \/ /\ old # None
          /\ lock' = w
          /\ sess' = [sess EXCEPT ![w].at = "replacing", ![old].shut = TRUE]
          /\ UNCHANGED <<connected, hosts>>
    /\ UNCHANGED <<pending, post, network, call>>

\* The old session's close() has returned, or raised.
Replace(w) ==
    /\ sess[w].at = "replacing"
    /\ Enter(w)
    /\ lock' = None
    /\ sess' = [sess EXCEPT ![w].at = "serving"]
    /\ UNCHANGED <<pending, post, network, call>>

\* Any session's answer will do, whichever session was asked.
BugAnswered(p, a) ==
    [q \in Post |-> IF Awaits(q) THEN [post[q] EXCEPT !.holder = a] ELSE post[q]]

\* The event of p is set.
Answered(p, a) == [post EXCEPT ![p].holder = a]

\* An answer is taken off the socket.  Nobody may be waiting for it any more.
Receive(w, a) ==
    /\ sess[w].at = "serving"
    /\ <<w, a>> \in back
    /\ back' = back \ {<<w, a>>}
    /\ IF a.to \in pending
       THEN pending' = pending \ {a.to} /\ post' = Answered(a.to, a)
       ELSE UNCHANGED <<pending, post>>
    /\ UNCHANGED <<sess, connected, hosts, lock, wire, call>>

\* The peer disconnects, sends no JSON, or was closed by its successor.
Break(w) ==
    /\ sess[w].at = "serving"
    /\ sess' = [sess EXCEPT ![w].at = "leaving"]
    /\ UNCHANGED <<service, post, network, call>>

\* Whoever is entered is taken out.
BugOwns(w) == connected[sess[w].fid] # None

Owns(w) == connected[sess[w].fid] = w

\* The finally block; what was on the socket to the service is lost.  The feeder
\* may have the requests it was sent, and be at work on them.
Leave(w) ==
    /\ sess[w].at = "leaving"
    /\ lock = None
    /\ IF Owns(w)
       THEN /\ connected' = [connected EXCEPT ![sess[w].fid] = None]
            /\ hosts' = [hosts EXCEPT ![sess[w].fid] = None]
       ELSE UNCHANGED <<connected, hosts>>
    /\ sess' = [sess EXCEPT ![w].at = "gone"]
    /\ back' = {m \in back : m[1] # w}
    /\ UNCHANGED <<lock, pending, post, wire, call>>

-----------------------------------------------------------------------------
(* A POST: proxy_request *)

Finished(p, result) == [post EXCEPT ![p].at = "done", ![p].result = result]

\* Entered in pending_requests before it is sent.
Look(p) ==
    /\ post[p].at = "looking"
    /\ lock = None
    /\ LET w == connected[post[p].fid] IN
       \/ /\ w = None
          /\ post' = Finished(p, "offline")
          /\ UNCHANGED <<pending, wire>>
       \/ /\ w # None
          /\ pending' = pending \cup {p}
          /\ wire' = wire \cup {<<w, p>>}
          /\ post' = [post EXCEPT ![p].at = "sending", ![p].ws = w]
    /\ UNCHANGED <<sess, connected, hosts, lock, back, call>>

Sent(p) ==
    /\ post[p].at = "sending"
    /\ post' = [post EXCEPT ![p].at = "waiting"]
    /\ UNCHANGED <<sess, service, network, call>>

\* A request that could not be sent is looked up again.
BugSendFails(p) ==
    /\ post[p].at = "sending"
    /\ pending' = pending \ {p}
    /\ post' = [post EXCEPT ![p].at = "looking"]
    /\ UNCHANGED <<sess, connected, hosts, lock, network, call>>

\* send_json raises, the request having left or not; an answer is forgotten.
SendFails(p) ==
    /\ post[p].at = "sending"
    /\ pending' = pending \ {p}
    /\ post' = Finished(p, "error")
    /\ \/ UNCHANGED wire
       \/ wire' = wire \ {<<post[p].ws, p>>}
    /\ UNCHANGED <<sess, connected, hosts, lock, back, call>>

Wake(p) ==
    /\ post[p].at = "waiting"
    /\ post[p].holder # NoAnswer
    /\ post' = Finished(p, "reply")
    /\ UNCHANGED <<sess, service, network, call>>

\* Only a request whose session is gone is given up.
BugExpires(p) == post[p].at = "waiting" /\ sess[post[p].ws].at = "gone"

Expires(p) == post[p].at = "waiting"

\* The entry is left behind.
BugForget(p) == pending' = pending

Forget(p) == pending' = pending \ {p}

\* Thirty seconds have passed; the answer may have come that very moment.
Timeout(p) ==
    /\ Expires(p)
    /\ Forget(p)
    /\ post' = Finished(p, "timeout")
    /\ UNCHANGED <<sess, connected, hosts, lock, network, call>>

-----------------------------------------------------------------------------
(* The feeder *)

\* Processes a request and answers on a session it has by then, be it that the one
\* it was asked over has ended, or the service was started again.
FeederAnswers(w, p) ==
    /\ <<w, p>> \in wire
    /\ wire' = wire \ {<<w, p>>}
    /\ \E v \in WS, status \in {200, 503} :
          /\ sess[v].fid = sess[w].fid
          /\ sess[v].at \in {"registering", "replacing", "serving"}
          /\ back' = back \cup {<<v, [to |-> p, by |-> v, status |-> status]>>}
    /\ UNCHANGED <<sess, service, post, call>>

-----------------------------------------------------------------------------
(* The dashboard: feeder_tunnel_proxy, _proxy_to_feeder *)

\* The status of a call whose POST has ended.
StatusOf(p) ==
    CASE post[p].result = "timeout" -> 504
      [] post[p].result = "error" -> 502
      [] post[p].result = "reply" -> post[p].holder.status
      [] post[p].result \in {"offline", "lost"} -> 503

\* Posts call c under the i-th spelling of its feeder's id.
Try(c, f, i) ==
    /\ call' = [call EXCEPT ![c] =
          [at |-> "posting", fid |-> f, attempt |-> i, status |-> 0]]
    /\ post' = [post EXCEPT ![<<c, i>>].at = "looking", ![<<c, i>>].fid = ToTry[f][i]]

\* One worker: it handles one call at a time.
Take(c, f) ==
    /\ call[c].at = "new"
    /\ \A d \in Call : call[d].at # "posting"
    /\ Try(c, f, 1)
    /\ UNCHANGED <<sess, service, network>>

\* Tries the next spelling on a 503, ends otherwise.
Proceed(c, status) ==
    \/ /\ status = 503
       /\ call[c].attempt < Len(ToTry[call[c].fid])
       /\ Try(c, call[c].fid, call[c].attempt + 1)
    \/ /\ status # 503 \/ call[c].attempt = Len(ToTry[call[c].fid])
       /\ call' = [call EXCEPT ![c] = [@ EXCEPT !.at = "done", !.status = status]]
       /\ UNCHANGED post

PostEnds(c) ==
    /\ call[c].at = "posting"
    /\ LET p == <<c, call[c].attempt>> IN
       post[p].at = "done" /\ Proceed(c, StatusOf(p))
    /\ UNCHANGED <<sess, service, network>>

\* requests raises: PROXY_TIMEOUT has passed, or the service is down.  The
\* service's handler goes on.
GiveUp(c) ==
    /\ call[c].at = "posting"
    /\ Proceed(c, 503)
    /\ UNCHANGED <<sess, service, network>>

-----------------------------------------------------------------------------
\* The tunnel service ends and is started again; the feeders go on.
Restart ==
    /\ sess' = [w \in WS |->
          IF sess[w].at = "new" THEN sess[w] ELSE [sess[w] EXCEPT !.at = "gone"]]
    /\ connected' = [f \in Feeder |-> None]
    /\ hosts' = [f \in Feeder |-> None]
    /\ lock' = None
    /\ pending' = {}
    /\ post' = [p \in Post |->
          IF post[p].at \in {"looking", "sending", "waiting"}
          THEN [post[p] EXCEPT !.at = "done", !.result = "lost"] ELSE post[p]]
    /\ back' = {}
    /\ UNCHANGED <<wire, call>>

Socket(w) ==
    \/ Accept(w) \/ GreetingFails(w) \/ (\E f \in Feeder : Register(w, f))
    \/ TakeLock(w) \/ Replace(w) \/ (\E a \in Answer : Receive(w, a))
    \/ Break(w) \/ Leave(w)

Proxy(p) ==
    Look(p) \/ Sent(p) \/ SendFails(p) \/ Wake(p) \/ Timeout(p)

Dashboard(c) ==
    (\E f \in Feeder : Take(c, f)) \/ PostEnds(c) \/ GiveUp(c)

Next ==
    \/ \E w \in WS : Socket(w)
    \/ \E p \in Post : Proxy(p)
    \/ \E w \in WS, p \in Post : FeederAnswers(w, p)
    \/ \E c \in Call : Dashboard(c)
    \/ Restart

Spec == Init /\ [][Next]_vars

\* The loop runs what can run, a close() and a send come to an end (WebSocket
\* keepalive and close timeouts), and clocks go on.  No feeder need answer.
Fairness ==
    /\ \A w \in WS : WF_vars(TakeLock(w)) /\ WF_vars(Replace(w)) /\ WF_vars(Leave(w))
    /\ \A p \in Post :
          /\ WF_vars(Look(p))
          /\ WF_vars(Sent(p) \/ SendFails(p))
          /\ WF_vars(Wake(p) \/ Timeout(p))

FairSpec == Spec /\ Fairness

-----------------------------------------------------------------------------
(* Properties *)

\* Every variable has its type; what is sent and answered was asked.
TypeOK ==
    /\ sess \in [WS -> Session]
    /\ connected \in [Feeder -> WS \cup {None}]
    /\ hosts \in [Feeder -> WS \cup {None}]
    /\ lock \in WS \cup {None}
    /\ pending \subseteq Post
    /\ post \in [Post -> Request]
    /\ wire \subseteq WS \X Post
    /\ back \subseteq WS \X Answer
    /\ call \in [Call -> Visit]

\* pending_requests holds exactly the requests somebody waits for an answer
\* to: none is left behind by a timeout, a failed send or a late answer, and
\* none is missing when its answer comes, be it before the send has returned.
PendingIsAwaited == pending = {p \in Post : Awaits(p)}

\* The session a feeder registered last is the one its requests go to, as long
\* as its handler serves it: an older session's end, whenever it is noticed,
\* does not take the newer one out.
NewestIsConnected ==
    \A w \in WS : sess[w].at = "serving" /\ ~sess[w].shut => connected[sess[w].fid] = w

\* An entered session is a session of that feeder whose handler has yet to run
\* its finally block, and the host that goes with it is its own.
ConnectedIsOpen ==
    \A f \in Feeder :
        /\ hosts[f] = connected[f]
        /\ connected[f] # None =>
              /\ sess[connected[f]].fid = f
              /\ sess[connected[f]].at \in {"serving", "leaving"}

\* A page that a browser's call gets is the answer to a request posted in that very
\* call, from a feeder registered under the spelling it was posted with: whichever
\* of its sessions the answer comes over, and though answers to earlier calls and
\* spellings come in late, on later sessions, or after a restart.
AnswerIsOwn ==
    \A c \in Call :
        call[c].status = 200 =>
            \E i \in DOMAIN ToTry[call[c].fid] :
                LET a == post[<<c, i>>].holder IN
                /\ post[<<c, i>>].result = "reply"
                /\ a.to = <<c, i>> /\ a.status = 200
                /\ sess[a.by].fid = ToTry[call[c].fid][i]

Held(p) == post[p].holder # NoAnswer
Out(p) == \E w \in WS : <<w, p>> \in wire
Back(p) == \E m \in back : m[2].to = p

\* There is one request p, or one answer to it, and it is with its feeder.
Straight(p) ==
    /\ \A v, w \in WS : <<v, p>> \in wire /\ <<w, p>> \in wire => v = w
    /\ \A w \in WS : <<w, p>> \in wire => sess[w].fid = post[p].fid
    /\ \A m, n \in back : m[2].to = p /\ n[2].to = p => m = n
    /\ \A m \in back : m[2].to = p => sess[m[1]].fid = post[p].fid
    /\ Out(p) => ~Back(p)
    /\ Held(p) => ~Out(p) /\ ~Back(p)

Way(p) ==
    IF ~Straight(p) THEN "astray"
    ELSE IF Out(p) THEN "out"
    ELSE IF Back(p) \/ Held(p) THEN "answered"
    ELSE IF post[p].ws = None THEN "unsent" ELSE "lost"

\* Each request goes to its feeder at most once, and what comes of it is as
\* FeederRequests promises, whichever sessions come and go, whatever is late, and
\* though sending may fail after the request has left.
Requests == INSTANCE FeederRequests WITH
    asked  <- [p \in Post |-> post[p].fid],
    way    <- [p \in Post |-> Way(p)],
    result <- [p \in Post |-> post[p].result]
IsFeederRequests == Requests!Spec

\* Every request the service takes is answered, though no feeder answers,
\* sessions break under it, and a close() holds the lock.
EveryPostEnds ==
    \A p \in Post : post[p].at = "looking" ~> post[p].at = "done"

\* feeder_web_tunnel.md: "503: Feeder is currently offline (No WebSocket
\* registered)", against "504: Feeder failed to respond to a request within
\* 30s".  A call that ends with 503 has been sent over no feeder's WebSocket.
\* It may have been: the dashboard's own limit is 30 s as well, began earlier,
\* and counts as 503; and so does a 503 the feeder itself answers.
OfflineMeansUnregistered ==
    [][\A c \in Call :
          call'[c].status = 503 /\ call[c].status # 503 =>
              \A i \in Attempt : post[<<c, i>>].ws = None]_vars
=============================================================================
