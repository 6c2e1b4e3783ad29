-------------------------- MODULE FeederTunnelProofs --------------------------
(* Theorems about FeederTunnel, for any sessions, ids, spellings and calls. *)
EXTENDS FeederTunnel, TLAPS

LEMMA NoneIsNone == None \notin WS /\ None \notin Feeder
  BY TunnelAssumption

-----------------------------------------------------------------------------
(* Types *)

SessionPlace == {"new", "greeting", "registering", "replacing",
                 "serving", "leaving", "gone"}
RequestPlace == {"none", "looking", "sending", "waiting", "done"}
Result == {"none", "offline", "timeout", "error", "reply", "lost"}

\* Records with a field changed.
LEMMA SessionAt ==
  ASSUME NEW r \in Session, NEW a \in SessionPlace
  PROVE  [r EXCEPT !.at = a] \in Session
  BY DEF Session, SessionPlace

LEMMA SessionNamed ==
  ASSUME NEW r \in Session, NEW a \in SessionPlace, NEW f \in Feeder
  PROVE  [r EXCEPT !.at = a, !.fid = f] \in Session
  BY DEF Session, SessionPlace

LEMMA SessionShut ==
  ASSUME NEW r \in Session
  PROVE  [r EXCEPT !.shut = TRUE] \in Session
  BY DEF Session

LEMMA RequestAt ==
  ASSUME NEW r \in Request, NEW a \in RequestPlace, NEW res \in Result
  PROVE  /\ [r EXCEPT !.at = a] \in Request
         /\ [r EXCEPT !.at = a, !.result = res] \in Request
  BY DEF Request, RequestPlace, Result

LEMMA RequestSent ==
  ASSUME NEW r \in Request, NEW a \in RequestPlace, NEW w \in WS
  PROVE  [r EXCEPT !.at = a, !.ws = w] \in Request
  BY DEF Request, RequestPlace

LEMMA RequestAsked ==
  ASSUME NEW r \in Request, NEW a \in RequestPlace, NEW f \in Feeder
  PROVE  [r EXCEPT !.at = a, !.fid = f] \in Request
  BY DEF Request, RequestPlace

LEMMA RequestHeld ==
  ASSUME NEW r \in Request, NEW a \in Answer
  PROVE  [r EXCEPT !.holder = a] \in Request
  BY DEF Request

LEMMA FinishedType ==
  ASSUME post \in [Post -> Request], NEW p \in Post, NEW res \in Result
  PROVE  Finished(p, res) \in [Post -> Request]
<1>1. [post[p] EXCEPT !.at = "done", !.result = res] \in Request
  BY RequestAt DEF RequestPlace
<1>2. QED
  BY <1>1 DEF Finished

LEMMA VisitDone ==
  ASSUME NEW v \in Visit, NEW a \in {"new", "posting", "done"},
         NEW st \in Status
  PROVE  [v EXCEPT !.at = a, !.status = st] \in Visit
  BY DEF Visit

\* Every id has a first spelling.
LEMMA FirstAttempt ==
  /\ \A f \in Feeder : 1 \in DOMAIN ToTry[f]
  /\ 1 \in Attempt
<1>1. ASSUME NEW f \in Feeder PROVE 1 \in DOMAIN ToTry[f]
  BY TunnelAssumption
<1>2. QED
  BY <1>1, TunnelAssumption DEF Attempt

\* Post under the i-th spelling.
LEMMA Spelling ==
  ASSUME NEW f \in Feeder, NEW i \in DOMAIN ToTry[f]
  PROVE  i \in Attempt /\ ToTry[f][i] \in Feeder /\ i \in Nat \ {0}
<1>1. ToTry[f] \in Seq(Feeder)
  BY TunnelAssumption
<1>2. QED
  BY <1>1 DEF Attempt

\* What a call that is being posted, or is done, was made for.
Asked ==
    \A c \in Call : call[c].at # "new" =>
        call[c].fid \in Feeder /\ call[c].attempt \in DOMAIN ToTry[call[c].fid]

\* A session that has registered has a name.
Named ==
    \A w \in WS : sess[w].at \in {"registering", "replacing", "serving", "leaving"}
        => sess[w].fid \in Feeder

\* A request the service handles was posted under an id, and is sent over a
\* session.
Posted ==
    \A p \in Post :
        /\ post[p].at \in {"looking", "sending", "waiting"} => post[p].fid \in Feeder
        /\ post[p].at \in {"sending", "waiting"} => post[p].ws \in WS

TypeInv == TypeOK /\ Asked /\ Named /\ Posted

LEMMA TryType ==
  ASSUME TypeInv, NEW c \in Call, NEW f \in Feeder, NEW i \in DOMAIN ToTry[f], Try(c, f, i)
  PROVE  /\ call' \in [Call -> Visit]
         /\ post' \in [Post -> Request]
         /\ Asked'
         /\ Posted'
<1> USE Spelling
<1>1. <<c, i>> \in Post
  BY DEF Post
<1>2. [at |-> "posting", fid |-> f, attempt |-> i, status |-> 0] \in Visit
  BY DEF Visit
<1>3. call' \in [Call -> Visit]
  BY <1>2 DEF Try, TypeInv, TypeOK
<1>4. [post[<<c, i>>] EXCEPT !.at = "looking", !.fid = ToTry[f][i]] \in Request
  BY <1>1, RequestAsked DEF RequestPlace, TypeInv, TypeOK
<1>5. post' = [post EXCEPT ![<<c, i>>] =
                  [post[<<c, i>>] EXCEPT !.at = "looking", !.fid = ToTry[f][i]]]
  BY <1>1 DEF Try, TypeInv, TypeOK
<1>6. post' \in [Post -> Request]
  BY <1>4, <1>5 DEF TypeInv, TypeOK
<1>7. Asked'
  BY DEF Try, TypeInv, TypeOK, Asked
<1>8. Posted'
  <2> SUFFICES ASSUME NEW q \in Post
               PROVE  /\ post'[q].at \in {"looking", "sending", "waiting"} => post'[q].fid \in Feeder
                      /\ post'[q].at \in {"sending", "waiting"} => post'[q].ws \in WS
    BY DEF Posted
  <2>1. CASE q = <<c, i>>
    BY <2>1, <1>1, <1>5 DEF TypeInv, TypeOK, Request
  <2>2. CASE q # <<c, i>>
    BY <2>2, <1>5 DEF TypeInv, TypeOK, Posted
  <2>3. QED
    BY <2>1, <2>2
<1>9. QED
  BY <1>3, <1>6, <1>7, <1>8

\* What becomes of a call keeps its type.
LEMMA ProceedType ==
  ASSUME TypeInv, NEW c \in Call, call[c].at = "posting",
         NEW st \in Status, Proceed(c, st)
  PROVE  /\ call' \in [Call -> Visit]
         /\ post' \in [Post -> Request]
         /\ Asked'
         /\ Posted'
<1>1. /\ call[c].fid \in Feeder
      /\ call[c].attempt \in DOMAIN ToTry[call[c].fid]
  BY DEF TypeInv, Asked
<1>2. CASE /\ st = 503
           /\ call[c].attempt < Len(ToTry[call[c].fid])
           /\ Try(c, call[c].fid, call[c].attempt + 1)
  <2>1. ToTry[call[c].fid] \in Seq(Feeder)
    BY <1>1, TunnelAssumption
  <2>2. call[c].attempt + 1 \in DOMAIN ToTry[call[c].fid]
    BY <2>1, <1>1, <1>2
  <2>3. QED
    BY <2>2, <1>1, <1>2, TryType
<1>3. CASE /\ call' = [call EXCEPT ![c] = [@ EXCEPT !.at = "done", !.status = st]]
           /\ UNCHANGED post
  <2>1. [call[c] EXCEPT !.at = "done", !.status = st] \in Visit
    BY VisitDone DEF TypeInv, TypeOK
  <2>2. call' = [call EXCEPT ![c] = [call[c] EXCEPT !.at = "done", !.status = st]]
    BY <1>3
  <2>3. call' \in [Call -> Visit]
    BY <2>1, <2>2 DEF TypeInv, TypeOK
  <2>4. /\ [call[c] EXCEPT !.at = "done", !.status = st].fid = call[c].fid
        /\ [call[c] EXCEPT !.at = "done", !.status = st].attempt = call[c].attempt
    BY DEF TypeInv, TypeOK, Visit
  <2>5. Asked'
    BY <2>2, <2>4, <1>1 DEF TypeInv, TypeOK, Asked
  <2>6. QED
    BY <2>3, <2>5, <1>3 DEF TypeInv, TypeOK, Posted
<1>4. QED
  BY <1>2, <1>3 DEF Proceed

\* The status of a POST that has ended is one a browser may be shown.
LEMMA StatusType ==
  ASSUME NEW p \in Post, post[p] \in Request, post[p].result # "none",
         post[p].result = "reply" => post[p].holder \in Answer
  PROVE  StatusOf(p) \in Status
  BY DEF StatusOf, Request, Answer, Status

\* A result is there when the request is done, an answer when it is a reply.
Ended ==
    \A p \in Post :
        /\ post[p].at = "done" => post[p].result # "none"
        /\ post[p].result = "reply" => post[p].holder # NoAnswer

LEMMA InitType == Init => TypeInv
<1> SUFFICES ASSUME Init PROVE TypeInv
  OBVIOUS
<1>1. NoSession \in Session /\ NoRequest \in Request
  BY DEF NoSession, Session, NoRequest, Request
<1>2. NoVisit \in Visit
  BY FirstAttempt DEF NoVisit, Visit
<1>3. TypeOK
  BY <1>1, <1>2 DEF Init, TypeOK
<1>4. Asked /\ Named /\ Posted
  BY DEF Init, NoVisit, NoSession, NoRequest, Asked, Named, Posted
<1>5. QED
  BY <1>3, <1>4 DEF TypeInv

\* A request's record is replaced by another.
LEMMA PostMoves ==
  ASSUME TypeOK, Posted, NEW p \in Post, NEW r \in Request,
         r.at \in {"looking", "sending", "waiting"} => r.fid \in Feeder,
         r.at \in {"sending", "waiting"} => r.ws \in WS,
         post' = [post EXCEPT ![p] = r]
  PROVE  post' \in [Post -> Request] /\ Posted'
<1>1. post' \in [Post -> Request]
  BY DEF TypeOK
<1>2. ASSUME NEW q \in Post PROVE post'[q] = IF q = p THEN r ELSE post[q]
  BY DEF TypeOK
<1>3. Posted'
  BY <1>2 DEF Posted
<1>4. QED
  BY <1>1, <1>3

LEMMA FinishedMoves ==
  ASSUME TypeOK, Posted, NEW p \in Post, NEW res \in Result, post' = Finished(p, res)
  PROVE  post' \in [Post -> Request] /\ Posted'
<1>1. post[p] \in Request
  BY DEF TypeOK
<1>2. [post[p] EXCEPT !.at = "done", !.result = res] \in Request
  BY <1>1, RequestAt DEF RequestPlace
<1>3. [post[p] EXCEPT !.at = "done", !.result = res].at = "done"
  BY <1>1 DEF Request
<1>4. post' = [post EXCEPT ![p] = [post[p] EXCEPT !.at = "done", !.result = res]]
  BY DEF Finished
<1>5. QED
  BY <1>2, <1>3, <1>4, PostMoves

\* A session moves on.
LEMMA SessionMoves ==
  ASSUME TypeOK, Named, NEW w \in WS, NEW a \in SessionPlace,
         a \in {"registering", "replacing", "serving", "leaving"} => sess[w].fid \in Feeder,
         sess' = [sess EXCEPT ![w].at = a]
  PROVE  sess' \in [WS -> Session] /\ Named'
<1>1. [sess[w] EXCEPT !.at = a] \in Session
  BY SessionAt DEF TypeOK
<1>2. sess' \in [WS -> Session]
  BY <1>1 DEF TypeOK
<1>3. ASSUME NEW v \in WS
      PROVE  /\ sess'[v].fid = sess[v].fid
             /\ sess'[v].at = IF v = w THEN a ELSE sess[v].at
  BY DEF TypeOK, Session
<1>4. Named'
  BY <1>3 DEF Named
<1>5. QED
  BY <1>2, <1>4

LEMMA EnterType ==
  ASSUME TypeOK, NEW w \in WS, Enter(w)
  PROVE  connected' \in [Feeder -> WS \cup {None}] /\ hosts' \in [Feeder -> WS \cup {None}]
  BY DEF Enter, TypeOK

LEMMA StepType == TypeInv /\ Ended /\ [Next]_vars => TypeInv'
<1> SUFFICES ASSUME TypeInv, Ended, [Next]_vars PROVE TypeInv'
  OBVIOUS
<1> USE DEF TypeInv
<1>a. ASSUME NEW w \in WS PROVE sess[w] \in Session
  BY DEF TypeOK
<1>b. ASSUME NEW p \in Post PROVE post[p] \in Request
  BY DEF TypeOK
<1>1. ASSUME NEW w \in WS, Accept(w) PROVE TypeInv'
  <2>1. sess' \in [WS -> Session] /\ Named'
    BY <1>1, SessionMoves DEF Accept, SessionPlace
  <2>2. QED
    BY <1>1, <2>1 DEF Accept, service, network, TypeOK, Asked, Posted
<1>2. ASSUME NEW w \in WS, GreetingFails(w) PROVE TypeInv'
  <2>1. sess' \in [WS -> Session] /\ Named'
    BY <1>2, SessionMoves DEF GreetingFails, SessionPlace
  <2>2. QED
    BY <1>2, <2>1 DEF GreetingFails, service, network, TypeOK, Asked, Posted
<1>3. ASSUME NEW w \in WS, NEW f \in Feeder, Register(w, f) PROVE TypeInv'
  <2>1. sess' = [sess EXCEPT ![w] = [sess[w] EXCEPT !.at = "registering", !.fid = f]]
    BY <1>3 DEF Register
  <2>2. [sess[w] EXCEPT !.at = "registering", !.fid = f] \in Session
    BY <1>a, SessionNamed DEF SessionPlace
  <2>3. [sess[w] EXCEPT !.at = "registering", !.fid = f].fid = f
    BY <1>a DEF Session
  <2>4. sess' \in [WS -> Session] /\ Named'
    BY <2>1, <2>2, <2>3 DEF TypeOK, Named
  <2>5. QED
    BY <1>3, <2>4 DEF Register, service, network, TypeOK, Asked, Posted
<1>4. ASSUME NEW w \in WS, TakeLock(w) PROVE TypeInv'
  <2>1. sess[w].fid \in Feeder /\ connected[sess[w].fid] \in WS \cup {None}
    BY <1>4 DEF TakeLock, TypeOK, Named
  <2>2. CASE connected[sess[w].fid] = None
    <3>1. sess' = [sess EXCEPT ![w].at = "serving"] /\ Enter(w) /\ UNCHANGED lock
      BY <1>4, <2>2 DEF TakeLock
    <3>2. sess' \in [WS -> Session] /\ Named'
      BY <3>1, <2>1, SessionMoves DEF SessionPlace
    <3>3. QED
      BY <1>4, <3>1, <3>2, EnterType DEF TakeLock, network, TypeOK, Asked, Posted
  <2>3. CASE connected[sess[w].fid] # None
    <3> DEFINE old == connected[sess[w].fid]
    <3>1. old \in WS
      BY <2>1, <2>3
    <3>2. sess' = [sess EXCEPT ![w].at = "replacing", ![old].shut = TRUE] /\ lock' = w
      BY <1>4, <2>3 DEF TakeLock
    <3>3. ASSUME NEW v \in WS
          PROVE  /\ sess'[v] \in Session
                 /\ sess'[v].fid = sess[v].fid
                 /\ sess'[v].at = IF v = w THEN "replacing" ELSE sess[v].at
      BY <3>1, <3>2, <1>a DEF TypeOK, Session
    <3>4. sess' \in [WS -> Session]
      BY <3>2, <3>3 DEF TypeOK
    <3>5. Named'
      BY <3>3, <2>1 DEF Named
    <3>6. QED
      BY <1>4, <2>3, <3>2, <3>4, <3>5 DEF TakeLock, network, TypeOK, Asked, Posted
  <2>4. QED
    BY <2>2, <2>3
<1>5. ASSUME NEW w \in WS, Replace(w) PROVE TypeInv'
  <2>1. sess[w].fid \in Feeder
    BY <1>5 DEF Replace, Named
  <2>2. sess' \in [WS -> Session] /\ Named'
    BY <1>5, <2>1, SessionMoves DEF Replace, SessionPlace
  <2>3. QED
    BY <1>5, <2>2, EnterType DEF Replace, network, TypeOK, Asked, Posted
<1>6. ASSUME NEW w \in WS, NEW a \in Answer, Receive(w, a) PROVE TypeInv'
  <2>1. a.to \in Post
    BY DEF Answer
  <2>2. post' \in [Post -> Request] /\ Posted'
    <3>1. CASE a.to \in pending
      <4>1. post' = [post EXCEPT ![a.to] = [post[a.to] EXCEPT !.holder = a]]
        BY <1>6, <3>1 DEF Receive, Answered
      <4>2. [post[a.to] EXCEPT !.holder = a] \in Request
        BY <1>b, <2>1, RequestHeld
      <4>3. /\ [post[a.to] EXCEPT !.holder = a].at = post[a.to].at
            /\ [post[a.to] EXCEPT !.holder = a].fid = post[a.to].fid
            /\ [post[a.to] EXCEPT !.holder = a].ws = post[a.to].ws
        BY <1>b, <2>1 DEF Request
      <4>4. QED
        BY <4>1, <4>2, <4>3, <2>1, PostMoves DEF Posted
    <3>2. CASE a.to \notin pending
      BY <1>6, <3>2 DEF Receive, TypeOK, Posted
    <3>3. QED
      BY <3>1, <3>2
  <2>3. pending' \subseteq Post /\ back' \subseteq WS \X Answer
    BY <1>6 DEF Receive, TypeOK
  <2>4. QED
    BY <1>6, <2>2, <2>3 DEF Receive, TypeOK, Asked, Named
<1>7. ASSUME NEW w \in WS, Break(w) PROVE TypeInv'
  <2>1. sess' \in [WS -> Session] /\ Named'
    BY <1>7, SessionMoves DEF Break, SessionPlace, Named
  <2>2. QED
    BY <1>7, <2>1 DEF Break, service, network, TypeOK, Asked, Posted
<1>8. ASSUME NEW w \in WS, Leave(w) PROVE TypeInv'
  <2>1. sess' \in [WS -> Session] /\ Named'
    BY <1>8, SessionMoves DEF Leave, SessionPlace, Named
  <2>2. connected' \in [Feeder -> WS \cup {None}] /\ hosts' \in [Feeder -> WS \cup {None}]
    BY <1>8 DEF Leave, TypeOK
  <2>3. wire' \subseteq WS \X Post /\ back' \subseteq WS \X Answer
    BY <1>8 DEF Leave, TypeOK
  <2>4. QED
    BY <1>8, <2>1, <2>2, <2>3 DEF Leave, TypeOK, Asked, Posted
<1>9. ASSUME NEW p \in Post, Look(p) PROVE TypeInv'
  <2>1. post[p].fid \in Feeder /\ connected[post[p].fid] \in WS \cup {None}
    BY <1>9 DEF Look, Posted, TypeOK
  <2>2. CASE connected[post[p].fid] = None
    <3>1. post' \in [Post -> Request] /\ Posted'
      BY <1>9, <2>2, FinishedMoves DEF Look, Result
    <3>2. QED
      BY <1>9, <2>2, <3>1 DEF Look, TypeOK, Asked, Named
  <2>3. CASE connected[post[p].fid] # None
    <3> DEFINE w == connected[post[p].fid]
    <3>1. w \in WS
      BY <2>1, <2>3
    <3>2. post' = [post EXCEPT ![p] = [post[p] EXCEPT !.at = "sending", !.ws = w]]
      BY <1>9, <2>3 DEF Look
    <3>3. [post[p] EXCEPT !.at = "sending", !.ws = w] \in Request
      BY <1>b, <3>1, RequestSent DEF RequestPlace
    <3>4. /\ [post[p] EXCEPT !.at = "sending", !.ws = w].fid = post[p].fid
          /\ [post[p] EXCEPT !.at = "sending", !.ws = w].ws = w
      BY <1>b DEF Request
    <3>5. post' \in [Post -> Request] /\ Posted'
      BY <2>1, <3>1, <3>2, <3>3, <3>4, PostMoves
    <3>6. pending' \subseteq Post /\ wire' \subseteq WS \X Post
      BY <1>9, <2>3, <3>1 DEF Look, TypeOK
    <3>7. QED
      BY <1>9, <2>3, <3>5, <3>6 DEF Look, TypeOK, Asked, Named
  <2>4. QED
    BY <2>2, <2>3
<1>10. ASSUME NEW p \in Post, Sent(p) PROVE TypeInv'
  <2>1. post' = [post EXCEPT ![p] = [post[p] EXCEPT !.at = "waiting"]]
    BY <1>10 DEF Sent
  <2>2. [post[p] EXCEPT !.at = "waiting"] \in Request
    BY <1>b, RequestAt DEF RequestPlace, Result
  <2>3. /\ [post[p] EXCEPT !.at = "waiting"].fid = post[p].fid
        /\ [post[p] EXCEPT !.at = "waiting"].ws = post[p].ws
    BY <1>b DEF Request
  <2>4. post' \in [Post -> Request] /\ Posted'
    BY <1>10, <2>1, <2>2, <2>3, PostMoves DEF Sent, Posted
  <2>5. QED
    BY <1>10, <2>4 DEF Sent, service, network, TypeOK, Asked, Named
<1>11. ASSUME NEW p \in Post, SendFails(p) PROVE TypeInv'
  <2>1. post' \in [Post -> Request] /\ Posted'
    BY <1>11, FinishedMoves DEF SendFails, Result
  <2>2. pending' \subseteq Post /\ wire' \subseteq WS \X Post
    BY <1>11 DEF SendFails, TypeOK
  <2>3. QED
    BY <1>11, <2>1, <2>2 DEF SendFails, TypeOK, Asked, Named
<1>12. ASSUME NEW p \in Post, Wake(p) PROVE TypeInv'
  <2>1. post' \in [Post -> Request] /\ Posted'
    BY <1>12, FinishedMoves DEF Wake, Result
  <2>2. QED
    BY <1>12, <2>1 DEF Wake, service, network, TypeOK, Asked, Named
<1>13. ASSUME NEW p \in Post, Timeout(p) PROVE TypeInv'
  <2>1. post' \in [Post -> Request] /\ Posted'
    BY <1>13, FinishedMoves DEF Timeout, Result
  <2>2. pending' \subseteq Post
    BY <1>13 DEF Timeout, Forget, TypeOK
  <2>3. QED
    BY <1>13, <2>1, <2>2 DEF Timeout, network, TypeOK, Asked, Named
<1>14. ASSUME NEW w \in WS, NEW p \in Post, FeederAnswers(w, p) PROVE TypeInv'
  <2>1. wire' \subseteq WS \X Post
    BY <1>14 DEF FeederAnswers, TypeOK
  <2>2. PICK v \in WS, st \in {200, 503} :
           back' = back \cup {<<v, [to |-> p, by |-> v, status |-> st]>>}
    BY <1>14 DEF FeederAnswers
  <2> DEFINE a == [to |-> p, by |-> v, status |-> st]
  <2>3. a \in Answer
    BY DEF Answer
  <2> HIDE DEF a
  <2>4. back' \subseteq WS \X Answer
    <3>1. back' = back \cup {<<v, a>>}
      BY <2>2 DEF a
    <3>2. QED
      BY <2>3, <3>1 DEF TypeOK
  <2>5. QED
    BY <1>14, <2>1, <2>4 DEF FeederAnswers, service, TypeOK, Asked, Named, Posted
<1>15. ASSUME NEW c \in Call, NEW f \in Feeder, Take(c, f) PROVE TypeInv'
  <2>1. 1 \in DOMAIN ToTry[f]
    BY FirstAttempt
  <2>2. call' \in [Call -> Visit] /\ post' \in [Post -> Request] /\ Asked' /\ Posted'
    BY <1>15, <2>1, TryType DEF Take
  <2>3. QED
    BY <1>15, <2>2 DEF Take, service, network, TypeOK, Named
<1>16. ASSUME NEW c \in Call, PostEnds(c) PROVE TypeInv'
  <2> DEFINE p == <<c, call[c].attempt>>
  <2>1. p \in Post
    BY DEF TypeOK, Visit, Post
  <2>2. post[p].holder # NoAnswer => post[p].holder \in Answer
    BY <1>b, <2>1 DEF Request
  <2>3. StatusOf(p) \in Status
    BY <1>16, <1>b, <2>1, <2>2, StatusType DEF PostEnds, Ended
  <2>4. call' \in [Call -> Visit] /\ post' \in [Post -> Request] /\ Asked' /\ Posted'
    BY <1>16, <2>3, ProceedType DEF PostEnds
  <2>5. QED
    BY <1>16, <2>4 DEF PostEnds, service, network, TypeOK, Named
<1>17. ASSUME NEW c \in Call, GiveUp(c) PROVE TypeInv'
  <2>1. 503 \in Status
    BY DEF Status
  <2>2. call' \in [Call -> Visit] /\ post' \in [Post -> Request] /\ Asked' /\ Posted'
    BY <1>17, <2>1, ProceedType DEF GiveUp
  <2>3. QED
    BY <1>17, <2>2 DEF GiveUp, service, network, TypeOK, Named
<1>18. ASSUME Restart PROVE TypeInv'
  <2>1. ASSUME NEW w \in WS
        PROVE  /\ sess'[w] \in Session
               /\ sess'[w].at \in {"new", "gone"}
    <3>1. [sess[w] EXCEPT !.at = "gone"] \in Session
      BY <1>a, SessionAt DEF SessionPlace
    <3>2. QED
      BY <1>18, <1>a, <3>1 DEF Restart, Session
  <2>2. sess' \in [WS -> Session] /\ Named'
    BY <1>18, <2>1 DEF Restart, Named
  <2>3. ASSUME NEW p \in Post
        PROVE  /\ post'[p] \in Request
               /\ post'[p].at \in {"none", "done"}
    <3>1. [post[p] EXCEPT !.at = "done", !.result = "lost"] \in Request
      BY <1>b, RequestAt DEF RequestPlace, Result
    <3>2. QED
      BY <1>18, <1>b, <3>1 DEF Restart, Request
  <2>4. post' \in [Post -> Request] /\ Posted'
    BY <1>18, <2>3 DEF Restart, Posted
  <2>5. QED
    BY <1>18, <2>2, <2>4 DEF Restart, TypeOK, Asked
<1>19. ASSUME UNCHANGED vars PROVE TypeInv'
  BY <1>19 DEF vars, service, network, TypeOK, Asked, Named, Posted
<1>20. QED
  BY <1>1, <1>2, <1>3, <1>4, <1>5, <1>6, <1>7, <1>8, <1>9, <1>10, <1>11, <1>12,
     <1>13, <1>14, <1>15, <1>16, <1>17, <1>18, <1>19 DEF Next, Socket, Proxy, Dashboard

-----------------------------------------------------------------------------
(* Sessions *)

\* The lock is held exactly by the handler that closes its predecessor.
LockHeld == \A w \in WS : sess[w].at = "replacing" <=> lock = w

\* While it does so the predecessor stays entered, and is being closed.
Replacing ==
    \A w \in WS : sess[w].at = "replacing" =>
        /\ connected[sess[w].fid] # None
        /\ sess[connected[sess[w].fid]].shut

SessInv == LockHeld /\ Replacing /\ NewestIsConnected /\ ConnectedIsOpen

\* A session moves on that neither was nor becomes one of those SessInv is
\* about, or that begins to leave.
LEMMA SessAside ==
  ASSUME TypeInv, SessInv, NEW w \in WS, UNCHANGED <<connected, hosts, lock>>,
         sess' \in [WS -> Session],
         \A v \in WS \ {w} : sess'[v] = sess[v],
         sess'[w].shut = sess[w].shut,
         \/ /\ sess[w].at \in {"new", "greeting"}
            /\ sess'[w].at \in {"greeting", "registering", "gone"}
         \/ /\ sess[w].at = "serving" /\ sess'[w].at = "leaving"
            /\ sess'[w].fid = sess[w].fid
  PROVE  SessInv'
<1> USE DEF SessInv, TypeInv
<1>1. LockHeld'
  BY DEF LockHeld, TypeOK
<1>2. \A f \in Feeder : connected[f] = w => sess'[w].fid = sess[w].fid /\ sess'[w].at = "leaving"
  BY NoneIsNone DEF ConnectedIsOpen
<1>3. ConnectedIsOpen'
  BY <1>2 DEF ConnectedIsOpen, TypeOK
<1>4. Replacing'
  BY <1>2 DEF Replacing, TypeOK, Named
<1>5. NewestIsConnected'
  BY DEF NewestIsConnected
<1>6. QED
  BY <1>1, <1>3, <1>4, <1>5

LEMMA SessStep == TypeInv /\ SessInv /\ [Next]_vars => SessInv'
<1> SUFFICES ASSUME TypeInv, SessInv, [Next]_vars PROVE SessInv'
  OBVIOUS
<1> USE DEF TypeInv
<1>a. ASSUME NEW w \in WS PROVE sess[w] \in Session
  BY DEF TypeOK
<1>b. ASSUME UNCHANGED <<sess, connected, hosts, lock>> PROVE SessInv'
  BY <1>b DEF SessInv, LockHeld, Replacing, NewestIsConnected, ConnectedIsOpen
<1>1. ASSUME NEW w \in WS, Accept(w) PROVE SessInv'
  <2>1. /\ sess' \in [WS -> Session]
        /\ \A v \in WS \ {w} : sess'[v] = sess[v]
        /\ sess'[w].shut = sess[w].shut
        /\ sess'[w].at = "greeting"
    BY <1>1, <1>a, SessionMoves DEF Accept, TypeOK, Session, SessionPlace
  <2>2. QED
    BY <1>1, <2>1, SessAside DEF Accept, service
<1>2. ASSUME NEW w \in WS, GreetingFails(w) PROVE SessInv'
  <2>1. /\ sess' \in [WS -> Session]
        /\ \A v \in WS \ {w} : sess'[v] = sess[v]
        /\ sess'[w].shut = sess[w].shut
        /\ sess'[w].at = "gone"
    BY <1>2, <1>a, SessionMoves DEF GreetingFails, TypeOK, Session, SessionPlace
  <2>2. QED
    BY <1>2, <2>1, SessAside DEF GreetingFails, service
<1>3. ASSUME NEW w \in WS, NEW f \in Feeder, Register(w, f) PROVE SessInv'
  <2>1. sess' = [sess EXCEPT ![w] = [sess[w] EXCEPT !.at = "registering", !.fid = f]]
    BY <1>3 DEF Register
  <2>2. [sess[w] EXCEPT !.at = "registering", !.fid = f] \in Session
    BY <1>a, SessionNamed DEF SessionPlace
  <2>3. /\ sess' \in [WS -> Session]
        /\ \A v \in WS \ {w} : sess'[v] = sess[v]
        /\ sess'[w].shut = sess[w].shut
        /\ sess'[w].at = "registering"
    BY <2>1, <2>2, <1>a DEF TypeOK, Session
  <2>4. QED
    BY <1>3, <2>3, SessAside DEF Register, service
<1>4. ASSUME NEW w \in WS, TakeLock(w) PROVE SessInv'
  <2>1. sess[w].fid \in Feeder /\ connected[sess[w].fid] \in WS \cup {None}
    BY <1>4 DEF TakeLock, TypeOK, Named
  <2>2. \A v \in WS : sess[v].at # "replacing"
    BY <1>4, NoneIsNone DEF TakeLock, SessInv, LockHeld
  <2>3. CASE connected[sess[w].fid] = None
    <3>1. sess' = [sess EXCEPT ![w].at = "serving"] /\ Enter(w) /\ UNCHANGED lock
      BY <1>4, <2>3 DEF TakeLock
    <3>2. ASSUME NEW v \in WS
          PROVE  /\ sess'[v].at = IF v = w THEN "serving" ELSE sess[v].at
                 /\ sess'[v].fid = sess[v].fid
                 /\ sess'[v].shut = sess[v].shut
      BY <3>1, <1>a DEF TypeOK, Session
    <3>3. ASSUME NEW f \in Feeder
          PROVE  /\ connected'[f] = IF f = sess[w].fid THEN w ELSE connected[f]
                 /\ hosts'[f] = IF f = sess[w].fid THEN w ELSE hosts[f]
      BY <3>1 DEF Enter, TypeOK
    <3>4. LockHeld' /\ Replacing'
      BY <1>4, <3>1, <3>2, <2>2, NoneIsNone DEF TakeLock, SessInv, LockHeld, Replacing
    <3>5. NewestIsConnected'
      <4> SUFFICES ASSUME NEW v \in WS, sess'[v].at = "serving", ~sess'[v].shut
                   PROVE  connected'[sess'[v].fid] = v
        BY DEF NewestIsConnected
      <4>1. CASE v = w
        BY <4>1, <2>1, <3>2, <3>3
      <4>2. CASE v # w
        <5>1. sess[v].at = "serving" /\ ~sess[v].shut /\ sess'[v].fid = sess[v].fid
          BY <4>2, <3>2
        <5>2. connected[sess[v].fid] = v /\ sess[v].fid \in Feeder
          BY <5>1 DEF SessInv, NewestIsConnected, Named
        <5>3. QED
          BY <5>1, <5>2, <2>3, <3>3, NoneIsNone
      <4>3. QED
        BY <4>1, <4>2
    <3>6. ConnectedIsOpen'
      BY <1>4, <3>2, <3>3 DEF TakeLock, SessInv, ConnectedIsOpen, TypeOK
    <3>7. QED
      BY <3>4, <3>5, <3>6 DEF SessInv
  <2>4. CASE connected[sess[w].fid] # None
    <3> DEFINE old == connected[sess[w].fid]
    <3>1. old \in WS /\ sess[old].at # "registering"
      BY <2>1, <2>4 DEF SessInv, ConnectedIsOpen
    <3>2. /\ sess' = [sess EXCEPT ![w].at = "replacing", ![old].shut = TRUE]
          /\ lock' = w /\ UNCHANGED <<connected, hosts>>
      BY <1>4, <2>4 DEF TakeLock
    <3>3. ASSUME NEW v \in WS
          PROVE  /\ sess'[v].fid = sess[v].fid
                 /\ sess'[v].at = IF v = w THEN "replacing" ELSE sess[v].at
                 /\ sess'[v].shut = IF v = old THEN TRUE ELSE sess[v].shut
      BY <3>1, <3>2, <1>a DEF TypeOK, Session
    <3>4. LockHeld'
      BY <2>2, <3>2, <3>3 DEF LockHeld
    <3>5. Replacing'
      <4>1. sess'[old].shut
        BY <3>1, <3>3
      <4>2. connected'[sess'[w].fid] = old
        BY <3>2, <3>3
      <4>3. \A v \in WS : sess'[v].at = "replacing" => v = w
        BY <2>2, <3>3
      <4>4. QED
        BY <4>1, <4>2, <4>3, <2>4 DEF Replacing
    <3>6. NewestIsConnected'
      <4> SUFFICES ASSUME NEW v \in WS, sess'[v].at = "serving", ~sess'[v].shut
                   PROVE  connected'[sess'[v].fid] = v
        BY DEF NewestIsConnected
      <4>1. v # old /\ v # w
        BY <3>3
      <4>2. sess[v].at = "serving" /\ sess[v].shut = sess'[v].shut /\ sess[v].fid = sess'[v].fid
        BY <4>1, <3>3
      <4>3. QED
        BY <4>2, <3>2 DEF SessInv, NewestIsConnected
    <3>7. ConnectedIsOpen'
      BY <1>4, <3>2, <3>3 DEF TakeLock, SessInv, ConnectedIsOpen, TypeOK
    <3>8. QED
      BY <3>4, <3>5, <3>6, <3>7 DEF SessInv
  <2>5. QED
    BY <2>3, <2>4
<1>5. ASSUME NEW w \in WS, Replace(w) PROVE SessInv'
  <2>1. sess[w].fid \in Feeder
    BY <1>5 DEF Replace, Named
  <2>2. lock = w /\ (\A v \in WS : sess[v].at = "replacing" => v = w)
    BY <1>5 DEF Replace, SessInv, LockHeld
  <2>3. ASSUME NEW v \in WS
        PROVE  /\ sess'[v].at = IF v = w THEN "serving" ELSE sess[v].at
               /\ sess'[v].fid = sess[v].fid
               /\ sess'[v].shut = sess[v].shut
    BY <1>5, <1>a DEF Replace, TypeOK, Session
  <2>4. ASSUME NEW f \in Feeder
        PROVE  /\ connected'[f] = IF f = sess[w].fid THEN w ELSE connected[f]
               /\ hosts'[f] = IF f = sess[w].fid THEN w ELSE hosts[f]
    BY <1>5 DEF Replace, Enter, TypeOK
  <2>5. LockHeld' /\ Replacing'
    BY <1>5, <2>2, <2>3, NoneIsNone DEF Replace, LockHeld, Replacing
  <2>6. connected[sess[w].fid] # None /\ sess[connected[sess[w].fid]].shut
    BY <1>5 DEF Replace, SessInv, Replacing
  <2>7. NewestIsConnected'
    BY <2>1, <2>3, <2>4, <2>6 DEF SessInv, NewestIsConnected, Named
  <2>8. ConnectedIsOpen'
    BY <1>5, <2>3, <2>4 DEF Replace, SessInv, ConnectedIsOpen, TypeOK
  <2>9. QED
    BY <2>5, <2>7, <2>8 DEF SessInv
<1>6. ASSUME NEW w \in WS, Break(w) PROVE SessInv'
  <2>1. /\ sess' \in [WS -> Session]
        /\ \A v \in WS \ {w} : sess'[v] = sess[v]
        /\ sess'[w].shut = sess[w].shut
        /\ sess'[w].fid = sess[w].fid
        /\ sess'[w].at = "leaving"
    BY <1>6, <1>a, SessionMoves DEF Break, TypeOK, Named, Session, SessionPlace
  <2>2. QED
    BY <1>6, <2>1, SessAside DEF Break, service
<1>7. ASSUME NEW w \in WS, Leave(w) PROVE SessInv'
  <2>1. sess[w].fid \in Feeder
    BY <1>7 DEF Leave, Named
  <2>2. ASSUME NEW v \in WS
        PROVE  /\ sess'[v].at = IF v = w THEN "gone" ELSE sess[v].at
               /\ sess'[v].fid = sess[v].fid
               /\ sess'[v].shut = sess[v].shut
    BY <1>7, <1>a DEF Leave, TypeOK, Session
  <2>3. ASSUME NEW f \in Feeder
        PROVE  /\ connected'[f] = IF Owns(w) /\ f = sess[w].fid THEN None ELSE connected[f]
               /\ hosts'[f] = IF Owns(w) /\ f = sess[w].fid THEN None ELSE hosts[f]
    BY <1>7 DEF Leave, TypeOK
  <2>4. LockHeld' /\ Replacing'
    BY <1>7, <2>2, NoneIsNone DEF Leave, SessInv, LockHeld, Replacing
  <2>5. NewestIsConnected'
    BY <1>7, <2>1, <2>2, <2>3 DEF Leave, Owns, SessInv, NewestIsConnected, Named
  <2>6. ConnectedIsOpen'
    BY <2>1, <2>2, <2>3 DEF Owns, SessInv, ConnectedIsOpen, TypeOK
  <2>7. QED
    BY <2>4, <2>5, <2>6 DEF SessInv
<1>8. ASSUME Restart PROVE SessInv'
  <2>1. ASSUME NEW w \in WS PROVE sess'[w].at \in {"new", "gone"}
    BY <1>8, <1>a DEF Restart, Session
  <2>2. QED
    BY <1>8, <2>1, NoneIsNone
    DEF Restart, SessInv, LockHeld, Replacing, NewestIsConnected, ConnectedIsOpen
<1>9. ASSUME NEW w \in WS, NEW a \in Answer, Receive(w, a) PROVE SessInv'
  BY <1>9, <1>b DEF Receive
<1>10. ASSUME NEW p \in Post, Proxy(p) PROVE SessInv'
  BY <1>10, <1>b DEF Proxy, Look, Sent, SendFails, Wake, Timeout, service
<1>11. ASSUME NEW w \in WS, NEW p \in Post, FeederAnswers(w, p) PROVE SessInv'
  BY <1>11, <1>b DEF FeederAnswers, service
<1>12. ASSUME NEW c \in Call, Dashboard(c) PROVE SessInv'
  BY <1>12, <1>b DEF Dashboard, Take, PostEnds, GiveUp, service
<1>13. ASSUME UNCHANGED vars PROVE SessInv'
  BY <1>13, <1>b DEF vars
<1>14. ASSUME NEW w \in WS, Socket(w) PROVE SessInv'
  BY <1>14, <1>1, <1>2, <1>3, <1>4, <1>5, <1>6, <1>7, <1>9 DEF Socket
<1>15. QED
  BY <1>8, <1>10, <1>11, <1>12, <1>13, <1>14 DEF Next

-----------------------------------------------------------------------------
(* Requests *)

\* What holds of the record of request p as long as it exists.
Sound(p, r) ==
    /\ r.at = "done" => r.result # "none"
    /\ r.at \in {"none", "looking"} =>
          r.holder = NoAnswer /\ r.result = "none" /\ r.ws = None
    /\ r.result = "reply" => r.holder # NoAnswer /\ r.ws \in WS
    /\ r.holder # NoAnswer => r.holder.to = p
    /\ r.ws # None =>
          /\ sess[r.ws].at \notin {"new", "greeting"}
          /\ sess[r.ws].fid = r.fid

AllSound == \A p \in Post : Sound(p, post[p])

\* A spelling that has not been tried yet has no request.
Untried ==
    \A c \in Call, i \in Attempt :
        call[c].at = "new" \/ i > call[c].attempt => post[<<c, i>>].at = "none"

RequestInv == AllSound /\ PendingIsAwaited /\ Untried

\* A registered session keeps its id.
SessKept ==
    \A w \in WS : sess[w].at \notin {"new", "greeting"} =>
        sess'[w].fid = sess[w].fid /\ sess'[w].at \notin {"new", "greeting"}

LEMMA AttemptIsNat == Attempt \subseteq Nat \ {0}
<1>1. ASSUME NEW f \in Feeder, NEW i \in DOMAIN ToTry[f] PROVE i \in Nat \ {0}
  BY <1>1, Spelling
<1>2. QED
  BY <1>1 DEF Attempt

\* Requests are left alone.
LEMMA RequestsStay ==
  ASSUME TypeInv, RequestInv, SessKept, UNCHANGED <<post, pending, call>>
  PROVE  RequestInv'
<1>1. AllSound'
  BY DEF AllSound, Sound, SessKept, TypeInv, TypeOK, Request, RequestInv
<1>2. PendingIsAwaited' /\ Untried'
  BY DEF RequestInv, PendingIsAwaited, Awaits, Untried
<1>3. QED
  BY <1>1, <1>2 DEF RequestInv

\* The record of one request that was posted is replaced by a sound one.
LEMMA RequestMoves ==
  ASSUME TypeInv, RequestInv, NEW p \in Post, NEW r \in Request, Sound(p, r),
         post[p].at # "none", post' = [post EXCEPT ![p] = r],
         UNCHANGED <<sess, call>>,
         pending' = IF r.at \in {"sending", "waiting"} /\ r.holder = NoAnswer
                    THEN pending \cup {p} ELSE pending \ {p}
  PROVE  RequestInv'
<1> USE DEF RequestInv
<1>1. ASSUME NEW q \in Post PROVE post'[q] = IF q = p THEN r ELSE post[q]
  BY DEF TypeInv, TypeOK
<1>2. AllSound'
  BY <1>1 DEF AllSound, Sound
<1>3. PendingIsAwaited'
  BY <1>1 DEF PendingIsAwaited, Awaits
<1>4. Untried'
  BY <1>1 DEF Untried, Post
<1>5. QED
  BY <1>2, <1>3, <1>4

\* The record of a request that is finished.
LEMMA FinishedSound ==
  ASSUME TypeInv, RequestInv, NEW p \in Post, NEW res \in Result \ {"none"},
         post[p].at # "none", post' = Finished(p, res),
         res = "reply" => post[p].holder # NoAnswer /\ post[p].ws \in WS,
         UNCHANGED <<sess, call>>, pending' = pending \ {p}
  PROVE  RequestInv'
<1> DEFINE r == [post[p] EXCEPT !.at = "done", !.result = res]
<1>1. post[p] \in Request
  BY DEF TypeInv, TypeOK
<1>2. r \in Request
  BY <1>1, RequestAt DEF RequestPlace
<1>3. /\ r.at = "done" /\ r.result = res /\ r.holder = post[p].holder
      /\ r.ws = post[p].ws /\ r.fid = post[p].fid
  BY <1>1 DEF Request
<1>4. Sound(p, r)
  BY <1>3 DEF RequestInv, AllSound, Sound, Result
<1>5. post' = [post EXCEPT ![p] = r]
  BY DEF Finished
<1> HIDE DEF r
<1>6. QED
  BY <1>2, <1>3, <1>4, <1>5, RequestMoves

\* A call is posted under a spelling that has not been tried.
LEMMA TryMoves ==
  ASSUME TypeInv, RequestInv, NEW c \in Call, NEW f \in Feeder,
         NEW i \in DOMAIN ToTry[f], Try(c, f, i), UNCHANGED <<sess, pending>>,
         call[c].at = "new" \/ i > call[c].attempt
  PROVE  RequestInv'
<1> USE DEF RequestInv
<1> DEFINE p == <<c, i>>
           r == [post[p] EXCEPT !.at = "looking", !.fid = ToTry[f][i]]
<1>1. p \in Post /\ i \in Attempt
  BY Spelling DEF Post
<1>2. post[p] \in Request /\ post[p].at = "none"
  BY <1>1 DEF TypeInv, TypeOK, Untried
<1>3. /\ r.at = "looking" /\ r.result = post[p].result
      /\ r.holder = post[p].holder /\ r.ws = post[p].ws
  BY <1>2 DEF Request
<1>4. Sound(p, r)
  BY <1>1, <1>2, <1>3 DEF AllSound, Sound
<1>5. ASSUME NEW q \in Post PROVE post'[q] = IF q = p THEN r ELSE post[q]
  BY <1>1 DEF Try, TypeInv, TypeOK
<1>6. ASSUME NEW d \in Call
      PROVE  call'[d] = IF d = c THEN [at |-> "posting", fid |-> f, attempt |-> i, status |-> 0]
                                 ELSE call[d]
  BY DEF Try, TypeInv, TypeOK
<1> HIDE DEF r
<1>7. AllSound'
  BY <1>4, <1>5 DEF AllSound, Sound
<1>8. PendingIsAwaited'
  BY <1>1, <1>2, <1>3, <1>5 DEF PendingIsAwaited, Awaits
<1>9. Untried'
  <2> SUFFICES ASSUME NEW d \in Call, NEW j \in Attempt,
                      call'[d].at = "new" \/ j > call'[d].attempt
               PROVE  post'[<<d, j>>].at = "none"
    BY DEF Untried
  <2>1. <<d, j>> \in Post /\ j \in Nat /\ i \in Nat
    BY <1>1, AttemptIsNat DEF Post
  <2>2. CASE d = c
    <3>1. j > i
      BY <2>2, <1>6
    <3>2. call[c].attempt \in Nat
      BY AttemptIsNat DEF TypeInv, TypeOK, Visit
    <3>3. call[c].at = "new" \/ j > call[c].attempt
      BY <3>1, <3>2, <2>1
    <3>4. <<d, j>> # p
      BY <3>1, <2>1
    <3>5. QED
      BY <3>3, <3>4, <2>1, <2>2, <1>5 DEF Untried
  <2>3. CASE d # c
    BY <2>1, <2>3, <1>5, <1>6 DEF Untried
  <2>4. QED
    BY <2>2, <2>3
<1>10. QED
  BY <1>7, <1>8, <1>9

LEMMA ProceedMoves ==
  ASSUME TypeInv, RequestInv, NEW c \in Call, call[c].at = "posting",
         NEW st \in Status, Proceed(c, st), UNCHANGED <<sess, pending>>
  PROVE  RequestInv'
<1>1. /\ call[c].fid \in Feeder
      /\ call[c].attempt \in DOMAIN ToTry[call[c].fid]
  BY DEF TypeInv, Asked
<1>2. CASE /\ st = 503
           /\ call[c].attempt < Len(ToTry[call[c].fid])
           /\ Try(c, call[c].fid, call[c].attempt + 1)
  <2>1. ToTry[call[c].fid] \in Seq(Feeder)
    BY <1>1, TunnelAssumption
  <2>2. /\ call[c].attempt + 1 \in DOMAIN ToTry[call[c].fid]
        /\ call[c].attempt + 1 > call[c].attempt
    BY <2>1, <1>1, <1>2
  <2>3. QED
    BY <2>2, <1>1, <1>2, TryMoves
<1>3. CASE /\ call' = [call EXCEPT ![c] = [@ EXCEPT !.at = "done", !.status = st]]
           /\ UNCHANGED post
  <2>1. ASSUME NEW d \in Call
        PROVE  call'[d].attempt = call[d].attempt /\ (call'[d].at = "new" => call[d].at = "new")
    <3>1. call'[d] = IF d = c THEN [call[c] EXCEPT !.at = "done", !.status = st] ELSE call[d]
      BY <1>3 DEF TypeInv, TypeOK
    <3>2. /\ [call[c] EXCEPT !.at = "done", !.status = st].attempt = call[c].attempt
          /\ [call[c] EXCEPT !.at = "done", !.status = st].at = "done"
      BY DEF TypeInv, TypeOK, Visit
    <3>3. QED
      BY <3>1, <3>2
  <2>2. Untried'
    BY <2>1, <1>3 DEF RequestInv, Untried
  <2>3. AllSound' /\ PendingIsAwaited'
    BY <1>3 DEF RequestInv, AllSound, Sound, PendingIsAwaited, Awaits
  <2>4. QED
    BY <2>2, <2>3 DEF RequestInv
<1>4. QED
  BY <1>2, <1>3 DEF Proceed

LEMMA SessKeeps ==
  ASSUME TypeInv, NEW w \in WS, Socket(w)
  PROVE  SessKept
<1>a. ASSUME NEW v \in WS PROVE sess[v] \in Session
  BY DEF TypeInv, TypeOK
<1>1. ASSUME Accept(w) \/ GreetingFails(w) \/ (\E f \in Feeder : Register(w, f))
      PROVE  SessKept
  <2>1. sess[w].at \in {"new", "greeting"} /\ (\A v \in WS \ {w} : sess'[v] = sess[v])
    BY <1>1 DEF Accept, GreetingFails, Register, TypeInv, TypeOK
  <2>2. QED
    BY <2>1 DEF SessKept
<1>2. ASSUME TakeLock(w) PROVE SessKept
  <2>1. CASE connected[sess[w].fid] = None
    BY <1>2, <2>1, <1>a DEF TakeLock, SessKept, TypeInv, TypeOK, Session
  <2>2. CASE connected[sess[w].fid] # None
    <3>1. connected[sess[w].fid] \in WS
      BY <1>2, <2>2 DEF TakeLock, TypeInv, TypeOK, Named
    <3>2. sess' = [sess EXCEPT ![w].at = "replacing", ![connected[sess[w].fid]].shut = TRUE]
      BY <1>2, <2>2 DEF TakeLock
    <3>3. QED
      BY <3>1, <3>2, <1>a DEF SessKept, TypeInv, TypeOK, Session
  <2>3. QED
    BY <2>1, <2>2
<1>3. ASSUME Replace(w) PROVE SessKept
  BY <1>3, <1>a DEF Replace, SessKept, TypeInv, TypeOK, Session
<1>4. ASSUME Break(w) PROVE SessKept
  BY <1>4, <1>a DEF Break, SessKept, TypeInv, TypeOK, Session
<1>5. ASSUME Leave(w) PROVE SessKept
  BY <1>5, <1>a DEF Leave, SessKept, TypeInv, TypeOK, Session
<1>6. ASSUME NEW a \in Answer, Receive(w, a) PROVE SessKept
  BY <1>6 DEF Receive, SessKept
<1>7. QED
  BY <1>1, <1>2, <1>3, <1>4, <1>5, <1>6 DEF Socket

LEMMA RequestStep == TypeInv /\ SessInv /\ RequestInv /\ [Next]_vars => RequestInv'
<1> SUFFICES ASSUME TypeInv, SessInv, RequestInv, [Next]_vars PROVE RequestInv'
  OBVIOUS
<1>a. ASSUME NEW p \in Post PROVE post[p] \in Request /\ Sound(p, post[p])
  BY DEF TypeInv, TypeOK, RequestInv, AllSound
<1>b. ASSUME NEW p \in Post PROVE p \in pending <=> Awaits(p)
  BY DEF RequestInv, PendingIsAwaited
<1>1. ASSUME NEW w \in WS, Socket(w), UNCHANGED <<post, pending, call>> PROVE RequestInv'
  BY <1>1, SessKeeps, RequestsStay
<1>2. ASSUME NEW w \in WS, NEW a \in Answer, Receive(w, a) PROVE RequestInv'
  <2>1. a.to \in Post /\ a # NoAnswer
    BY DEF Answer, NoAnswer
  <2>2. CASE a.to \in pending
    <3> DEFINE r == [post[a.to] EXCEPT !.holder = a]
    <3>1. r \in Request
      BY <1>a, <2>1, RequestHeld
    <3>2. /\ r.at = post[a.to].at /\ r.result = post[a.to].result /\ r.holder = a
          /\ r.ws = post[a.to].ws /\ r.fid = post[a.to].fid
      BY <1>a, <2>1 DEF Request
    <3>3. post[a.to].at \in {"sending", "waiting"}
      BY <1>b, <2>1, <2>2 DEF Awaits
    <3>4. Sound(a.to, post[a.to])
      BY <1>a, <2>1
    <3>5. /\ post' = [post EXCEPT ![a.to] = r]
          /\ pending' = pending \ {a.to} /\ UNCHANGED <<sess, call>>
      BY <1>2, <2>2 DEF Receive, Answered
    <3> HIDE DEF r
    <3>6. Sound(a.to, r)
      BY <2>1, <3>2, <3>3, <3>4 DEF Sound
    <3>7. QED
      BY <2>1, <3>1, <3>2, <3>3, <3>5, <3>6, RequestMoves
  <2>3. CASE a.to \notin pending
    <3>1. SessKept
      BY <1>2 DEF Receive, SessKept
    <3>2. QED
      BY <1>2, <2>3, <3>1, RequestsStay DEF Receive
  <2>4. QED
    BY <2>2, <2>3
<1>3. ASSUME NEW w \in WS, Socket(w) PROVE RequestInv'
  <2>1. CASE \E a \in Answer : Receive(w, a)
    BY <1>2, <2>1
  <2>2. CASE ~ \E a \in Answer : Receive(w, a)
    <3>1. UNCHANGED <<post, pending, call>>
      BY <1>3, <2>2 DEF Socket, Accept, GreetingFails, Register, TakeLock, Replace,
                        Break, Leave, service
    <3>2. QED
      BY <1>1, <1>3, <3>1
  <2>3. QED
    BY <2>1, <2>2
<1>4. ASSUME NEW p \in Post, Look(p) PROVE RequestInv'
  <2>1. post[p].fid \in Feeder /\ connected[post[p].fid] \in WS \cup {None}
    BY <1>4 DEF Look, TypeInv, Posted, TypeOK
  <2>2. Sound(p, post[p]) /\ post[p].at = "looking"
    BY <1>4, <1>a DEF Look
  <2>3. CASE connected[post[p].fid] = None
    <3>1. post' = Finished(p, "offline") /\ UNCHANGED <<sess, pending, call>>
      BY <1>4, <2>3 DEF Look
    <3>2. pending' = pending \ {p}
      BY <3>1, <2>2, <1>b DEF Awaits
    <3>3. QED
      BY <3>1, <3>2, <2>2, FinishedSound DEF Result
  <2>4. CASE connected[post[p].fid] # None
    <3> DEFINE w == connected[post[p].fid]
               r == [post[p] EXCEPT !.at = "sending", !.ws = w]
    <3>1. w \in WS /\ sess[w].fid = post[p].fid /\ sess[w].at \in {"serving", "leaving"}
      BY <2>1, <2>4 DEF SessInv, ConnectedIsOpen
    <3>2. r \in Request
      BY <1>a, <3>1, RequestSent DEF RequestPlace
    <3>3. /\ r.at = "sending" /\ r.ws = w /\ r.fid = post[p].fid
          /\ r.holder = post[p].holder /\ r.result = post[p].result
      BY <1>a DEF Request
    <3>4. post' = [post EXCEPT ![p] = r] /\ pending' = pending \cup {p} /\ UNCHANGED <<sess, call>>
      BY <1>4, <2>4 DEF Look
    <3> HIDE DEF r, w
    <3>5. Sound(p, r)
      BY <2>2, <3>1, <3>3 DEF Sound
    <3>6. r.holder = NoAnswer
      BY <2>2, <3>3 DEF Sound
    <3>7. QED
      BY <2>2, <3>2, <3>3, <3>4, <3>5, <3>6, RequestMoves
  <2>5. QED
    BY <2>3, <2>4
<1>5. ASSUME NEW p \in Post, Sent(p) PROVE RequestInv'
  <2> DEFINE r == [post[p] EXCEPT !.at = "waiting"]
  <2>1. r \in Request
    BY <1>a, RequestAt DEF RequestPlace, Result
  <2>2. /\ r.at = "waiting" /\ r.ws = post[p].ws /\ r.fid = post[p].fid
        /\ r.holder = post[p].holder /\ r.result = post[p].result
    BY <1>a DEF Request
  <2>3. /\ post' = [post EXCEPT ![p] = r] /\ UNCHANGED <<sess, call, pending>>
        /\ post[p].at = "sending"
    BY <1>5 DEF Sent, service
  <2> HIDE DEF r
  <2>4. Sound(p, r)
    BY <1>a, <2>2, <2>3 DEF Sound
  <2>5. p \in pending <=> r.holder = NoAnswer
    BY <1>b, <2>2, <2>3 DEF Awaits
  <2>6. pending' = IF r.holder = NoAnswer THEN pending \cup {p} ELSE pending \ {p}
    BY <2>3, <2>5
  <2>7. QED
    BY <2>1, <2>2, <2>3, <2>4, <2>6, RequestMoves
<1>6. ASSUME NEW p \in Post, SendFails(p) PROVE RequestInv'
  BY <1>6, FinishedSound DEF SendFails, Result
<1>7. ASSUME NEW p \in Post, Wake(p) PROVE RequestInv'
  <2>1. pending' = pending \ {p}
    BY <1>7, <1>b DEF Wake, service, Awaits
  <2>2. post[p].ws \in WS
    BY <1>7 DEF Wake, TypeInv, Posted
  <2>3. QED
    BY <1>7, <2>1, <2>2, FinishedSound DEF Wake, Result
<1>8. ASSUME NEW p \in Post, Timeout(p) PROVE RequestInv'
  BY <1>8, FinishedSound DEF Timeout, Expires, Forget, Result
<1>9. ASSUME NEW w \in WS, NEW p \in Post, FeederAnswers(w, p) PROVE RequestInv'
  BY <1>9, RequestsStay DEF FeederAnswers, service, SessKept
<1>10. ASSUME NEW c \in Call, NEW f \in Feeder, Take(c, f) PROVE RequestInv'
  BY <1>10, FirstAttempt, TryMoves DEF Take, service
<1>11. ASSUME NEW c \in Call, PostEnds(c) PROVE RequestInv'
  <2> DEFINE p == <<c, call[c].attempt>>
  <2>1. p \in Post
    BY DEF TypeInv, TypeOK, Visit, Post
  <2>2. StatusOf(p) \in Status
    <3>1. post[p].at = "done" /\ Sound(p, post[p]) /\ post[p] \in Request
      BY <1>11, <1>a, <2>1 DEF PostEnds
    <3>2. post[p].result = "reply" => post[p].holder \in Answer
      BY <3>1 DEF Sound, Request
    <3>3. QED
      BY <3>1, <3>2, <2>1, StatusType DEF Sound
  <2>3. QED
    BY <1>11, <2>2, ProceedMoves DEF PostEnds, service
<1>12. ASSUME NEW c \in Call, GiveUp(c) PROVE RequestInv'
  <2>1. 503 \in Status
    BY DEF Status
  <2>2. QED
    BY <1>12, <2>1, ProceedMoves DEF GiveUp, service
<1>13. ASSUME Restart PROVE RequestInv'
  <2>1. ASSUME NEW w \in WS, sess[w].at \notin {"new", "greeting"}
        PROVE  sess'[w].fid = sess[w].fid /\ sess'[w].at = "gone"
    <3>1. sess[w] \in Session
      BY DEF TypeInv, TypeOK
    <3>2. sess'[w] = [sess[w] EXCEPT !.at = "gone"]
      BY <1>13, <2>1 DEF Restart
    <3>3. QED
      BY <3>1, <3>2 DEF Session
  <2>2. ASSUME NEW p \in Post
        PROVE  /\ Sound(p, post[p])'
               /\ post'[p].at \in {"none", "done"}
               /\ post[p].at = "none" => post'[p].at = "none"
    <3> DEFINE r == [post[p] EXCEPT !.at = "done", !.result = "lost"]
    <3>1. /\ r.at = "done" /\ r.ws = post[p].ws /\ r.fid = post[p].fid
          /\ r.holder = post[p].holder /\ r.result = "lost"
      BY <1>a DEF Request
    <3>2. post'[p] = IF post[p].at \in {"looking", "sending", "waiting"} THEN r ELSE post[p]
      BY <1>13 DEF Restart
    <3>3. ASSUME post[p].ws # None
          PROVE  /\ sess'[post[p].ws].fid = post[p].fid
                 /\ sess'[post[p].ws].at = "gone"
      <4>1. /\ post[p].ws \in WS
            /\ sess[post[p].ws].at \notin {"new", "greeting"}
            /\ sess[post[p].ws].fid = post[p].fid
        BY <1>a, <3>3 DEF Request, Sound
      <4>2. QED
        BY <4>1, <2>1
    <3>4. post[p].at \in RequestPlace
      BY <1>a DEF Request, RequestPlace
    <3> HIDE DEF r
    <3>5. Sound(p, post[p])'
      BY <1>a, <3>1, <3>2, <3>3, <3>4 DEF Sound, RequestPlace
    <3>6. QED
      BY <3>1, <3>2, <3>4, <3>5 DEF RequestPlace
  <2>3. AllSound'
    BY <2>2 DEF AllSound
  <2>4. Untried'
    BY <1>13, <2>2 DEF Restart, Untried, RequestInv, Post
  <2>5. PendingIsAwaited'
    BY <1>13, <2>2 DEF Restart, PendingIsAwaited, Awaits
  <2>6. QED
    BY <2>3, <2>4, <2>5 DEF RequestInv
<1>14. ASSUME UNCHANGED vars PROVE RequestInv'
  BY <1>14, RequestsStay DEF vars, SessKept
<1>15. QED
  BY <1>3, <1>4, <1>5, <1>6, <1>7, <1>8, <1>9, <1>10, <1>11, <1>12, <1>13, <1>14
  DEF Next, Proxy, Dashboard

-----------------------------------------------------------------------------
(* Theorems *)

TunnelInv == TypeInv /\ SessInv /\ RequestInv

LEMMA Invariance == Spec => []TunnelInv
<1>1. Init => TunnelInv
  <2> SUFFICES ASSUME Init PROVE TunnelInv
    OBVIOUS
  <2>1. SessInv
    BY NoneIsNone DEF Init, NoSession, SessInv, LockHeld, Replacing,
                      NewestIsConnected, ConnectedIsOpen
  <2>2. AllSound /\ PendingIsAwaited
    BY DEF Init, NoRequest, AllSound, Sound, PendingIsAwaited, Awaits
  <2>3. Untried
    BY DEF Init, NoRequest, Untried, Post
  <2>4. QED
    BY <2>1, <2>2, <2>3, InitType DEF TunnelInv, RequestInv
<1>2. RequestInv => Ended
  BY DEF RequestInv, AllSound, Sound, Ended
<1>3. TunnelInv /\ [Next]_vars => TunnelInv'
  BY <1>2, StepType, SessStep, RequestStep DEF TunnelInv
<1>4. QED
  BY <1>1, <1>3, PTL DEF Spec

\* The type invariant holds for any number of sessions and calls, whatever
\* they ask and whatever fails.
THEOREM TypeCorrect == Spec => []TypeOK
<1>1. TunnelInv => TypeOK
  BY DEF TunnelInv, TypeInv
<1>2. QED
  BY <1>1, Invariance, PTL

\* pending_requests neither keeps a request nobody waits for nor loses one.
THEOREM NoPendingLeak == Spec => []PendingIsAwaited
<1>1. TunnelInv => PendingIsAwaited
  BY DEF TunnelInv, RequestInv
<1>2. QED
  BY <1>1, Invariance, PTL

\* A reconnected feeder stays connected when its older sessions end.
THEOREM NewestWins == Spec => []NewestIsConnected
<1>1. TunnelInv => NewestIsConnected
  BY DEF TunnelInv, SessInv
<1>2. QED
  BY <1>1, Invariance, PTL

\* Connections and hosts agree, and no ended session is left entered.
THEOREM NoEndedSession == Spec => []ConnectedIsOpen
<1>1. TunnelInv => ConnectedIsOpen
  BY DEF TunnelInv, SessInv
<1>2. QED
  BY <1>1, Invariance, PTL

-----------------------------------------------------------------------------
(* The promise: FeederRequests *)

\* What is under way is under way on sessions that have registered.
Registered ==
    /\ \A m \in wire : sess[m[1]].at \notin {"new", "greeting"}
    /\ \A m \in back : sess[m[1]].at \notin {"new", "greeting"}

Orderly(p) ==
    /\ Straight(p)
    /\ Out(p) \/ Back(p) => post[p].ws # None
    /\ post[p].at = "none" => post[p].fid = None
    /\ post[p].at # "done" => post[p].result = "none"

ExchangeInv == Registered /\ \A p \in Post : Orderly(p)

NameStep(p) ==
    \/ post'[p].fid = post[p].fid
    \/ post[p].fid = None /\ post'[p].fid \in Feeder

WayStep(p) ==
    \/ Way(p)' = Way(p)
    \/ /\ Way(p) = "unsent" /\ post[p].fid # None /\ post[p].result = "none"
       /\ Way(p)' = "out"
    \/ Way(p) = "out" /\ Way(p)' \in {"answered", "lost"}
    \/ Way(p) = "answered" /\ Way(p)' = "lost"

EndStep(p) ==
    \/ post'[p].result = post[p].result
    \/ /\ post[p].fid # None /\ post[p].result = "none"
       /\ \/ post'[p].result \in {"timeout", "error", "lost"}
          \/ post'[p].result = "offline" /\ Way(p) = "unsent"
          \/ post'[p].result = "reply" /\ Way(p) = "answered"

Step(p) == Orderly(p)' /\ NameStep(p) /\ WayStep(p) /\ EndStep(p)

\* Sessions with something under way keep their ids.
LEMMA FidsStay ==
  ASSUME TypeInv, SessKept, Registered
  PROVE  /\ \A m \in wire : /\ sess'[m[1]].fid = sess[m[1]].fid
                           /\ sess'[m[1]].at \notin {"new", "greeting"}
         /\ \A m \in back : /\ sess'[m[1]].fid = sess[m[1]].fid
                           /\ sess'[m[1]].at \notin {"new", "greeting"}
<1>1. ASSUME NEW m \in wire PROVE m[1] \in WS
  BY DEF TypeInv, TypeOK
<1>2. ASSUME NEW m \in back PROVE m[1] \in WS
  BY DEF TypeInv, TypeOK
<1> QED
  BY <1>1, <1>2 DEF Registered, SessKept

\* A request of which nothing new is under way, and which keeps its answer.
LEMMA Subsides ==
  ASSUME TypeInv, SessKept, Registered, NEW p \in Post, Orderly(p),
         \A m \in wire' : m[2] = p => m \in wire,
         \A m \in back' : m[2].to = p => m \in back,
         post'[p].fid = post[p].fid, post'[p].ws = post[p].ws,
         post'[p].holder = post[p].holder,
         post'[p].at = "none" => post[p].at = "none",
         post'[p].at # "done" => post[p].at # "done" /\ post'[p].result = post[p].result,
         EndStep(p)
  PROVE  Step(p)
<1>1. /\ \A w \in WS : <<w, p>> \in wire' => <<w, p>> \in wire /\ sess'[w].fid = sess[w].fid
      /\ \A m \in back' : m[2].to = p => m \in back /\ sess'[m[1]].fid = sess[m[1]].fid
  <2>1. ASSUME NEW w \in WS, <<w, p>> \in wire' PROVE <<w, p>> \in wire /\ sess'[w].fid = sess[w].fid
    <3>1. <<w, p>> \in wire
      BY <2>1
    <3> QED
      BY <3>1, FidsStay
  <2>2. ASSUME NEW m \in back', m[2].to = p PROVE m \in back /\ sess'[m[1]].fid = sess[m[1]].fid
    BY <2>2, FidsStay
  <2> QED
    BY <2>1, <2>2
<1>2. /\ Out(p)' => Out(p)
      /\ Back(p)' => Back(p)
      /\ Held(p)' <=> Held(p)
  BY <1>1 DEF Out, Back, Held
<1>3. Straight(p)'
  BY <1>1, <1>2 DEF Orderly, Straight
<1>4. Orderly(p)'
  BY <1>2, <1>3 DEF Orderly
<1>5. WayStep(p)
  BY <1>2, <1>3 DEF Orderly, WayStep, Way, Straight
<1> QED
  BY <1>4, <1>5 DEF Step, NameStep

\* A request whose record nobody touches.
LEMMA LeftAlone ==
  ASSUME TypeInv, SessKept, Registered, NEW p \in Post, Orderly(p),
         \A m \in wire' : m[2] = p => m \in wire,
         \A m \in back' : m[2].to = p => m \in back,
         post'[p] = post[p]
  PROVE  Step(p)
  BY Subsides DEF EndStep

\* A request that comes to its end.
LEMMA ComesToEnd ==
  ASSUME TypeInv, UNCHANGED <<sess, back>>, ExchangeInv, NEW p \in Post,
         NEW res \in Result \ {"none"}, post' = Finished(p, res),
         post[p].at \in {"looking", "sending", "waiting"},
         wire' \subseteq wire,
         res = "offline" => Way(p) = "unsent", res = "reply" => Way(p) = "answered"
  PROVE  /\ ExchangeInv'
         /\ \A q \in Post : Step(q)
<1> DEFINE r == [post[p] EXCEPT !.at = "done", !.result = res]
<1>1. /\ r.at = "done" /\ r.result = res /\ r.holder = post[p].holder
      /\ r.ws = post[p].ws /\ r.fid = post[p].fid
  BY DEF TypeInv, TypeOK, Request
<1>2. \A q \in Post : post'[q] = IF q = p THEN r ELSE post[q]
  BY DEF Finished, TypeInv, TypeOK
<1> HIDE DEF r
<1>3. post[p].fid # None /\ post[p].result = "none"
  BY NoneIsNone DEF TypeInv, Posted, ExchangeInv, Orderly
<1>4. EndStep(p)
  BY <1>1, <1>2, <1>3 DEF EndStep, Result
<1>5. SessKept /\ Registered
  BY DEF SessKept, ExchangeInv
<1>6. Step(p)
  BY <1>1, <1>2, <1>4, <1>5, Subsides DEF ExchangeInv
<1>7. ASSUME NEW q \in Post, q # p PROVE Step(q)
  BY <1>2, <1>5, <1>7, LeftAlone DEF ExchangeInv
<1>8. \A q \in Post : Step(q)
  BY <1>6, <1>7
<1> QED
  BY <1>5, <1>8, FidsStay DEF ExchangeInv, Registered, Step

\* A call is posted under its next spelling.
LEMMA IsPosted ==
  ASSUME TypeInv, RequestInv, ExchangeInv, NEW c \in Call, NEW f \in Feeder,
         NEW i \in DOMAIN ToTry[f], Try(c, f, i), UNCHANGED <<sess, wire, back>>,
         call[c].at = "new" \/ i > call[c].attempt
  PROVE  ExchangeInv' /\ \A q \in Post : Step(q)
<1> DEFINE p == <<c, i>>
           r == [post[p] EXCEPT !.at = "looking", !.fid = ToTry[f][i]]
<1>1. p \in Post /\ i \in Attempt /\ ToTry[f][i] \in Feeder
  BY Spelling DEF Post
<1>2. post[p] \in Request /\ post[p].at = "none" /\ Sound(p, post[p])
  BY <1>1 DEF TypeInv, TypeOK, RequestInv, Untried, AllSound
<1>3. /\ r.at = "looking" /\ r.result = post[p].result /\ r.fid = ToTry[f][i]
      /\ r.holder = post[p].holder /\ r.ws = post[p].ws
  BY <1>2 DEF Request
<1>4. ASSUME NEW q \in Post PROVE post'[q] = IF q = p THEN r ELSE post[q]
  BY <1>1 DEF Try, TypeInv, TypeOK
<1> HIDE DEF r
<1>5. post[p].ws = None /\ post[p].fid = None /\ ~Held(p) /\ post[p].result = "none" /\ Orderly(p)
  BY <1>1, <1>2 DEF Sound, Held, ExchangeInv, Orderly
<1> HIDE DEF p
<1>6. ~Out(p) /\ ~Back(p)
  BY <1>5 DEF Orderly
<1>7. post'[p] = r
  BY <1>1, <1>4
<1>8. ~Out(p)' /\ ~Back(p)' /\ ~Held(p)'
  BY <1>3, <1>5, <1>6, <1>7 DEF Out, Back, Held
<1>9. Straight(p) /\ Straight(p)'
  BY <1>5, <1>8 DEF Orderly, Straight, Out, Back
<1>10. Way(p) = "unsent" /\ Way(p)' = "unsent"
  BY <1>3, <1>5, <1>6, <1>7, <1>8, <1>9 DEF Way
<1>11. Step(p)
  BY <1>1, <1>3, <1>5, <1>7, <1>8, <1>9, <1>10 DEF Step, Orderly, NameStep, WayStep, EndStep
<1>12. SessKept /\ Registered /\ Registered'
  BY DEF SessKept, ExchangeInv, Registered
<1>13. ASSUME NEW q \in Post, q # p PROVE Step(q)
  BY <1>4, <1>12, <1>13, LeftAlone DEF ExchangeInv
<1>14. \A q \in Post : Step(q)
  BY <1>11, <1>13
<1> QED
  BY <1>12, <1>14 DEF ExchangeInv, Step

\* A call goes on to its next spelling, or ends.
LEMMA GoesOn ==
  ASSUME TypeInv, RequestInv, ExchangeInv, NEW c \in Call, call[c].at = "posting",
         NEW st \in Status, Proceed(c, st), UNCHANGED <<sess, wire, back>>
  PROVE  ExchangeInv' /\ \A q \in Post : Step(q)
<1>1. /\ call[c].fid \in Feeder
      /\ call[c].attempt \in DOMAIN ToTry[call[c].fid]
  BY DEF TypeInv, Asked
<1>2. CASE /\ call[c].attempt < Len(ToTry[call[c].fid])
           /\ Try(c, call[c].fid, call[c].attempt + 1)
  <2>1. ToTry[call[c].fid] \in Seq(Feeder)
    BY <1>1, TunnelAssumption
  <2>2. /\ call[c].attempt + 1 \in DOMAIN ToTry[call[c].fid]
        /\ call[c].attempt + 1 > call[c].attempt
    BY <2>1, <1>1, <1>2
  <2>3. QED
    BY <2>2, <1>1, <1>2, IsPosted
<1>3. CASE UNCHANGED post
  <2>1. SessKept /\ Registered /\ Registered'
    BY DEF SessKept, ExchangeInv, Registered
  <2>2. \A q \in Post : Step(q)
    BY <1>3, <2>1, LeftAlone DEF ExchangeInv
  <2> QED
    BY <2>1, <2>2 DEF ExchangeInv, Step
<1>4. QED
  BY <1>2, <1>3 DEF Proceed
\* A request is put on the session of its feeder.
LEMMA IsSent ==
  ASSUME TypeInv, SessInv, RequestInv, ExchangeInv, NEW p \in Post, Look(p),
         connected[post[p].fid] # None
  PROVE  ExchangeInv' /\ \A q \in Post : Step(q)
<1> DEFINE w == connected[post[p].fid]
           r == [post[p] EXCEPT !.at = "sending", !.ws = w]
<1>1. /\ post[p].at = "looking" /\ post[p].fid \in Feeder /\ post[p] \in Request
      /\ Sound(p, post[p]) /\ Orderly(p)
  BY DEF Look, TypeInv, Posted, TypeOK, RequestInv, AllSound, ExchangeInv
<1>2. w \in WS /\ sess[w].fid = post[p].fid /\ sess[w].at \in {"serving", "leaving"}
  BY <1>1 DEF SessInv, ConnectedIsOpen, TypeInv, TypeOK
<1>3. /\ r.at = "sending" /\ r.ws = w /\ r.fid = post[p].fid
      /\ r.holder = post[p].holder /\ r.result = post[p].result
  BY <1>1 DEF Request
<1>4. /\ wire' = wire \cup {<<w, p>>} /\ UNCHANGED <<sess, back>>
      /\ \A q \in Post : post'[q] = IF q = p THEN r ELSE post[q]
  BY DEF Look, TypeInv, TypeOK
<1> HIDE DEF r, w
<1>5. post[p].ws = None /\ post[p].result = "none" /\ ~Held(p) /\ post[p].fid # None
  BY <1>1, NoneIsNone DEF Sound, Held
<1>6. ~Out(p) /\ ~Back(p) /\ Straight(p)
  BY <1>1, <1>5 DEF Orderly
<1>7. Way(p) = "unsent"
  BY <1>5, <1>6 DEF Way
<1>8. Out(p)' /\ ~Back(p)' /\ ~Held(p)'
  BY <1>2, <1>3, <1>4, <1>5, <1>6 DEF Out, Back, Held
<1>9. Straight(p)'
  <2>1. \A v \in WS : <<v, p>> \in wire' => v = w
    BY <1>4, <1>6 DEF Out
  <2>2. \A v \in WS : <<v, p>> \in wire' => sess'[v].fid = post'[p].fid
    BY <1>2, <1>3, <1>4, <2>1
  <2> QED
    BY <1>8, <2>1, <2>2 DEF Straight, Back
<1>10. Way(p)' = "out"
  BY <1>8, <1>9 DEF Way
<1>11. Step(p)
  <2>1. w # None
    BY <1>2, NoneIsNone
  <2> QED
    BY <1>3, <1>4, <1>5, <1>7, <1>9, <1>10, <2>1 DEF Step, Orderly, NameStep, WayStep, EndStep
<1>12. SessKept /\ Registered
  BY <1>4 DEF SessKept, ExchangeInv
<1>13. Registered'
  BY <1>2, <1>4, <1>12 DEF Registered
<1>14. ASSUME NEW q \in Post, q # p PROVE Step(q)
  <2>1. \A m \in wire' : m[2] = q => m \in wire
    BY <1>4, <1>14
  <2> QED
    BY <1>4, <1>12, <1>14, <2>1, LeftAlone DEF ExchangeInv
<1>15. \A q \in Post : Step(q)
  BY <1>11, <1>14
<1> QED
  BY <1>13, <1>15 DEF ExchangeInv, Step

\* A feeder answers.
LEMMA IsAnswered ==
  ASSUME TypeInv, ExchangeInv, NEW w \in WS, NEW p \in Post, FeederAnswers(w, p)
  PROVE  ExchangeInv' /\ \A q \in Post : Step(q)
<1>1. PICK v \in WS, st \in {200, 503} :
        /\ sess[v].fid = sess[w].fid
        /\ sess[v].at \in {"registering", "replacing", "serving"}
        /\ back' = back \cup {<<v, [to |-> p, by |-> v, status |-> st]>>}
  BY DEF FeederAnswers
<1> DEFINE a == [to |-> p, by |-> v, status |-> st]
<1>2. a.to = p /\ back' = back \cup {<<v, a>>}
  BY <1>1
<1> HIDE DEF a
<1>3. <<w, p>> \in wire /\ wire' = wire \ {<<w, p>>} /\ UNCHANGED <<sess, post>>
  BY DEF FeederAnswers
<1>4. Out(p) /\ Orderly(p)
  BY <1>3 DEF Out, ExchangeInv
<1>5. /\ ~Back(p) /\ ~Held(p) /\ post[p].ws # None
      /\ sess[w].fid = post[p].fid
      /\ \A u \in WS : <<u, p>> \in wire => u = w
  BY <1>3, <1>4 DEF Orderly, Straight
<1>6. ~Out(p)' /\ Back(p)' /\ ~Held(p)'
  <2>1. ~Out(p)'
    BY <1>3, <1>5 DEF Out
  <2>2. <<v, a>> \in back' /\ <<v, a>>[2].to = p
    BY <1>2
  <2>3. Back(p)'
    BY <2>2 DEF Back
  <2>4. ~Held(p)'
    BY <1>3, <1>5 DEF Held
  <2> QED
    BY <2>1, <2>3, <2>4
<1>7. Straight(p)'
  <2>1. \A m \in back' : m[2].to = p => m = <<v, a>>
    BY <1>2, <1>5 DEF Back
  <2>2. \A m \in back' : m[2].to = p => sess'[m[1]].fid = post'[p].fid
    BY <1>1, <1>3, <1>5, <2>1
  <2> QED
    BY <1>6, <2>1, <2>2 DEF Straight, Out
<1>8. Way(p) = "out" /\ Way(p)' = "answered"
  BY <1>4, <1>6, <1>7 DEF Way, Orderly
<1>9. Step(p)
  BY <1>3, <1>4, <1>5, <1>7, <1>8 DEF Step, Orderly, NameStep, WayStep, EndStep
<1>10. SessKept /\ Registered
  BY <1>3 DEF SessKept, ExchangeInv
<1>11. Registered'
  BY <1>1, <1>2, <1>3, <1>10 DEF Registered
<1>12. ASSUME NEW q \in Post, q # p PROVE Step(q)
  <2>1. \A m \in back' : m[2].to = q => m \in back
    BY <1>2, <1>12
  <2> QED
    BY <1>3, <1>10, <1>12, <2>1, LeftAlone DEF ExchangeInv
<1>13. \A q \in Post : Step(q)
  BY <1>9, <1>12
<1> QED
  BY <1>11, <1>13 DEF ExchangeInv, Step

\* An answer is taken off a socket, and given to whoever waits for it.
LEMMA IsReceived ==
  ASSUME TypeInv, ExchangeInv, NEW w \in WS, NEW a \in Answer, Receive(w, a)
  PROVE  ExchangeInv' /\ \A q \in Post : Step(q)
<1> DEFINE p == a.to
<1>1. /\ p \in Post /\ a # NoAnswer
      /\ <<w, a>> \in back /\ back' = back \ {<<w, a>>} /\ UNCHANGED <<sess, wire>>
  BY DEF Receive, Answer, NoAnswer
<1>2. SessKept /\ Registered /\ Registered'
  BY <1>1 DEF SessKept, ExchangeInv, Registered
<1>3. ASSUME UNCHANGED post PROVE \A q \in Post : Step(q)
  BY <1>1, <1>2, <1>3, LeftAlone DEF ExchangeInv
<1>4. ASSUME post' = Answered(p, a) PROVE \A q \in Post : Step(q)
  <2> DEFINE r == [post[p] EXCEPT !.holder = a]
  <2>1. /\ r.at = post[p].at /\ r.result = post[p].result /\ r.holder = a
        /\ r.ws = post[p].ws /\ r.fid = post[p].fid
    BY <1>1 DEF TypeInv, TypeOK, Request
  <2>2. \A q \in Post : post'[q] = IF q = p THEN r ELSE post[q]
    BY <1>1, <1>4 DEF Answered, TypeInv, TypeOK
  <2> HIDE DEF r
  <2>3. Back(p) /\ Orderly(p)
    BY <1>1 DEF Back, ExchangeInv
  <2>4. ~Out(p) /\ (\A m \in back : m[2].to = p => m = <<w, a>>)
    <3>1. <<w, a>>[2].to = p
      OBVIOUS
    <3> QED
      BY <1>1, <2>3, <3>1 DEF Orderly, Straight
  <2>5. Held(p)' /\ ~Out(p)' /\ ~Back(p)'
    BY <1>1, <2>1, <2>2, <2>4 DEF Held, Out, Back
  <2>6. Straight(p)'
    BY <2>5 DEF Straight, Out, Back
  <2>7. Way(p) = "answered" /\ Way(p)' = "answered"
    BY <2>3, <2>4, <2>5, <2>6 DEF Way, Orderly
  <2>8. Step(p)
    BY <1>1, <2>1, <2>2, <2>3, <2>6, <2>7 DEF Step, Orderly, NameStep, WayStep, EndStep
  <2>9. ASSUME NEW q \in Post, q # p PROVE Step(q)
    BY <1>1, <1>2, <2>2, <2>9, LeftAlone DEF ExchangeInv
  <2> QED
    BY <2>8, <2>9
<1>5. \A q \in Post : Step(q)
  BY <1>3, <1>4 DEF Receive
<1> QED
  BY <1>2, <1>5 DEF ExchangeInv, Step

\* The answers on their way are lost, and who waits for one is told so; the feeders
\* keep the requests they have.
LEMMA AreLost ==
  ASSUME TypeInv, ExchangeInv, Restart
  PROVE  ExchangeInv' /\ \A q \in Post : Step(q)
<1>1. SessKept
  BY DEF Restart, SessKept, TypeInv, TypeOK, Session
<1>2. wire' = wire /\ back' = {} /\ Registered
  BY DEF Restart, ExchangeInv
<1>4. Registered'
  BY <1>1, <1>2, FidsStay DEF Registered
<1>3. ASSUME NEW p \in Post PROVE Step(p)
  <2> DEFINE r == [post[p] EXCEPT !.at = "done", !.result = "lost"]
  <2>1. /\ r.at = "done" /\ r.ws = post[p].ws /\ r.fid = post[p].fid
        /\ r.holder = post[p].holder /\ r.result = "lost"
    BY DEF TypeInv, TypeOK, Request
  <2>2. post'[p] = IF post[p].at \in {"looking", "sending", "waiting"} THEN r ELSE post[p]
    BY DEF Restart
  <2> HIDE DEF r
  <2>3. EndStep(p)
    <3>1. post[p].at \in {"looking", "sending", "waiting"} => post[p].fid # None /\ post[p].result = "none"
      BY NoneIsNone DEF TypeInv, Posted, ExchangeInv, Orderly
    <3> QED
      BY <2>1, <2>2, <3>1 DEF EndStep
  <2> QED
    BY <1>1, <1>2, <2>1, <2>2, <2>3, Subsides DEF ExchangeInv
<1> QED
  BY <1>3, <1>4 DEF ExchangeInv, Step

LEMMA ExchangeStep ==
  TypeInv /\ SessInv /\ RequestInv /\ ExchangeInv /\ [Next]_vars
    => ExchangeInv' /\ \A q \in Post : Step(q)
<1> SUFFICES ASSUME TypeInv, SessInv, RequestInv, ExchangeInv, [Next]_vars
             PROVE  ExchangeInv' /\ \A q \in Post : Step(q)
  OBVIOUS
<1> DEFINE Done == ExchangeInv' /\ \A q \in Post : Step(q)
<1>a. ASSUME SessKept, UNCHANGED post, wire' \subseteq wire, back' \subseteq back PROVE Done
  <2>1. Registered /\ Registered'
    BY <1>a, FidsStay DEF ExchangeInv, Registered
  <2>2. \A q \in Post : Step(q)
    BY <1>a, <2>1, LeftAlone DEF ExchangeInv
  <2> QED
    BY <2>1, <2>2 DEF ExchangeInv, Step
<1>1. ASSUME NEW w \in WS, Socket(w) PROVE Done
  <2>1. CASE \E a \in Answer : Receive(w, a)
    BY <2>1, IsReceived
  <2>2. CASE ~ \E a \in Answer : Receive(w, a)
    <3>1. UNCHANGED post /\ wire' \subseteq wire /\ back' \subseteq back
      BY <1>1, <2>2 DEF Socket, Accept, GreetingFails, Register, TakeLock, Replace,
                        Break, Leave, network
    <3> QED
      BY <1>a, <1>1, <3>1, SessKeeps
  <2> QED
    BY <2>1, <2>2
<1>2. ASSUME NEW p \in Post, Look(p) PROVE Done
  <2>1. CASE connected[post[p].fid] # None
    BY <1>2, <2>1, IsSent
  <2>2. CASE connected[post[p].fid] = None
    <3>1. post' = Finished(p, "offline") /\ UNCHANGED <<sess, back, wire>> /\ post[p].at = "looking"
      BY <1>2, <2>2 DEF Look
    <3>2. Way(p) = "unsent"
      <4>1. Sound(p, post[p]) /\ Orderly(p)
        BY DEF RequestInv, AllSound, ExchangeInv
      <4> QED
        BY <3>1, <4>1 DEF Sound, Orderly, Way, Held
    <3> QED
      BY <3>1, <3>2, ComesToEnd DEF Result
  <2> QED
    BY <2>1, <2>2
<1>3. ASSUME NEW p \in Post, Sent(p) PROVE Done
  <2> DEFINE r == [post[p] EXCEPT !.at = "waiting"]
  <2>1. /\ r.at = "waiting" /\ r.ws = post[p].ws /\ r.fid = post[p].fid
        /\ r.holder = post[p].holder /\ r.result = post[p].result
    BY DEF TypeInv, TypeOK, Request
  <2>2. /\ post[p].at = "sending" /\ UNCHANGED <<sess, wire, back>>
        /\ \A q \in Post : post'[q] = IF q = p THEN r ELSE post[q]
    BY <1>3 DEF Sent, network, TypeInv, TypeOK
  <2> HIDE DEF r
  <2>3. SessKept /\ Registered /\ Registered'
    BY <2>2 DEF SessKept, ExchangeInv, Registered
  <2>4. Step(p)
    BY <2>1, <2>2, <2>3, Subsides DEF ExchangeInv, EndStep
  <2>5. ASSUME NEW q \in Post, q # p PROVE Step(q)
    BY <2>2, <2>3, <2>5, LeftAlone DEF ExchangeInv
  <2>6. \A q \in Post : Step(q)
    BY <2>4, <2>5
  <2> QED
    BY <2>3, <2>6 DEF ExchangeInv, Step
<1>4. ASSUME NEW p \in Post, SendFails(p) PROVE Done
  BY <1>4, ComesToEnd DEF SendFails, Result
<1>5. ASSUME NEW p \in Post, Wake(p) PROVE Done
  <2>1. Held(p) /\ Orderly(p)
    BY <1>5 DEF Wake, Held, ExchangeInv
  <2>2. Way(p) = "answered"
    BY <2>1 DEF Way, Orderly, Straight
  <2> QED
    BY <1>5, <2>2, ComesToEnd DEF Wake, network, Result
<1>6. ASSUME NEW p \in Post, Timeout(p) PROVE Done
  BY <1>6, ComesToEnd DEF Timeout, Expires, network, Result
<1>7. ASSUME NEW w \in WS, NEW p \in Post, FeederAnswers(w, p) PROVE Done
  BY <1>7, IsAnswered
<1>8. ASSUME NEW c \in Call, NEW f \in Feeder, Take(c, f) PROVE Done
  BY <1>8, FirstAttempt, IsPosted DEF Take, network
<1>9. ASSUME NEW c \in Call, PostEnds(c) PROVE Done
  <2> DEFINE p == <<c, call[c].attempt>>
  <2>1. p \in Post
    BY DEF TypeInv, TypeOK, Visit, Post
  <2>2. StatusOf(p) \in Status
    <3>1. post[p].at = "done" /\ Sound(p, post[p]) /\ post[p] \in Request
      BY <1>9, <2>1 DEF PostEnds, TypeInv, TypeOK, RequestInv, AllSound
    <3>2. post[p].result = "reply" => post[p].holder \in Answer
      BY <3>1 DEF Sound, Request
    <3>3. QED
      BY <3>1, <3>2, <2>1, StatusType DEF Sound
  <2>3. QED
    BY <1>9, <2>2, GoesOn DEF PostEnds, network
<1>10. ASSUME NEW c \in Call, GiveUp(c) PROVE Done
  <2>1. 503 \in Status
    BY DEF Status
  <2> QED
    BY <1>10, <2>1, GoesOn DEF GiveUp, network
<1>11. ASSUME Restart PROVE Done
  BY <1>11, AreLost
<1>12. ASSUME UNCHANGED vars PROVE Done
  BY <1>12, <1>a DEF vars, network, SessKept
<1> HIDE DEF Done
<1>13. Done
  BY <1>1, <1>2, <1>3, <1>4, <1>5, <1>6, <1>7, <1>8, <1>9, <1>10, <1>11, <1>12
  DEF Next, Proxy, Dashboard
<1> QED
  BY <1>13 DEF Done

\* proxy_request, tunnel_websocket and the dashboard's retries do with a request
\* what FeederRequests promises: at most one feeder has it, and has it at most
\* once; it ends once, with the answer of that feeder or without one.
THEOREM TunnelImplementsRequests == Spec => IsFeederRequests
<1> DEFINE asked == [p \in Post |-> post[p].fid]
           way == [p \in Post |-> Way(p)]
           result == [p \in Post |-> post[p].result]
<1>1. Init => ExchangeInv /\ Requests!Init
  <2> SUFFICES ASSUME Init PROVE ExchangeInv /\ Requests!Init
    OBVIOUS
  <2>1. \A p \in Post : post[p] = NoRequest /\ ~Out(p) /\ ~Back(p)
    BY DEF Init, Out, Back
  <2>2. \A p \in Post : Straight(p) /\ ~Held(p)
    BY <2>1 DEF Init, Straight, Held, NoRequest
  <2>3. ExchangeInv
    BY <2>1, <2>2 DEF Init, ExchangeInv, Registered, Orderly, NoRequest
  <2>4. \A p \in Post : Way(p) = "unsent" /\ post[p].fid = None /\ post[p].result = "none"
    BY <2>1, <2>2 DEF Way, NoRequest
  <2> QED
    BY <2>3, <2>4 DEF Requests!Init
<1>2. TypeInv' /\ (\A p \in Post : Orderly(p)' /\ NameStep(p) /\ WayStep(p) /\ EndStep(p)) => Requests!Next
  <2> SUFFICES ASSUME TypeInv',
                      \A p \in Post : Orderly(p)' /\ NameStep(p) /\ WayStep(p) /\ EndStep(p)
               PROVE  Requests!Next
    OBVIOUS
  <2>1. /\ asked' = [p \in Post |-> post'[p].fid]
        /\ way' = [p \in Post |-> Way(p)']
        /\ result' = [p \in Post |-> post'[p].result]
    OBVIOUS
  <2>2. \A p \in Post : post'[p] \in Request
    BY DEF TypeInv, TypeOK
  <2>3. /\ asked' \in [Post -> Feeder \cup {None}]
        /\ result' \in [Post -> {"none", "offline", "timeout", "error", "reply", "lost"}]
    BY <2>1, <2>2 DEF Request
  <2>4. ASSUME NEW p \in Post PROVE Way(p)' \in {"unsent", "out", "answered", "lost"}
    BY DEF Way, Orderly
  <2>5. way' \in [Post -> {"unsent", "out", "answered", "lost"}]
    BY <2>1, <2>4
  <2>6. ASSUME NEW p \in Post PROVE Requests!Named(p) /\ Requests!Moved(p) /\ Requests!Ended(p)
    <3>1. /\ asked[p] = post[p].fid /\ asked'[p] = post'[p].fid
          /\ way[p] = Way(p) /\ way'[p] = Way(p)'
          /\ result[p] = post[p].result /\ result'[p] = post'[p].result
      BY <2>1
    <3> QED
      BY <3>1 DEF NameStep, WayStep, EndStep, Requests!Named, Requests!Moved, Requests!Ended, Requests!Open
  <2> QED
    BY <2>3, <2>5, <2>6 DEF Requests!Next
<1>3. TunnelInv /\ TunnelInv' /\ ExchangeInv /\ [Next]_vars => ExchangeInv' /\ Requests!Next
  BY <1>2, ExchangeStep DEF TunnelInv, Step
<1> HIDE DEF asked, way, result
<1> QED
  BY <1>1, <1>3, Invariance, PTL DEF Spec, IsFeederRequests, Requests!Spec

-----------------------------------------------------------------------------
(* Whose answer a browser is shown *)

\* The session an answer comes over is the one it was sent on, and a request's
\* answer came over a session of the feeder it was posted for.
Signed == \A m \in back : m[2].by = m[1]
FromFeeder(p) ==
    Held(p) =>
        /\ post[p].fid \in Feeder
        /\ post[p].holder.by \in WS
        /\ sess[post[p].holder.by].at \notin {"new", "greeting"}
        /\ sess[post[p].holder.by].fid = post[p].fid

\* A call has posted each spelling up to the present one, and is shown the answer
\* to that one.
Spelt(c) ==
    call[c].at # "new" =>
        \A i \in DOMAIN ToTry[call[c].fid] :
            i <= call[c].attempt => post[<<c, i>>].fid = ToTry[call[c].fid][i]
Shown(c) ==
    call[c].status = 200 =>
        /\ call[c].at = "done"
        /\ post[<<c, call[c].attempt>>].at = "done"
        /\ post[<<c, call[c].attempt>>].result = "reply"
        /\ post[<<c, call[c].attempt>>].holder.status = 200

OwnInv ==
    /\ Signed
    /\ \A p \in Post : FromFeeder(p)
    /\ \A c \in Call : Spelt(c) /\ Shown(c)

LEMMA AllSessKept == ASSUME TypeInv, [Next]_vars PROVE SessKept
<1>1. ASSUME Restart PROVE SessKept
  BY <1>1 DEF Restart, SessKept, TypeInv, TypeOK, Session
<1>2. ASSUME UNCHANGED sess PROVE SessKept
  BY <1>2 DEF SessKept
<1>3. ASSUME NEW p \in Post, Proxy(p) PROVE UNCHANGED sess
  BY <1>3 DEF Proxy, Look, Sent, SendFails, Wake, Timeout
<1>4. ASSUME NEW w \in WS, NEW p \in Post, FeederAnswers(w, p) PROVE UNCHANGED sess
  BY <1>4 DEF FeederAnswers
<1>5. ASSUME NEW c \in Call, Dashboard(c) PROVE UNCHANGED sess
  BY <1>5 DEF Dashboard, Take, PostEnds, GiveUp
<1>6. QED
  BY <1>1, <1>2, <1>3, <1>4, <1>5, SessKeeps DEF Next, vars

\* A post under a spelling that has not been tried touches no other, and none that
\* has ended.
LEMMA TryKeeps ==
  ASSUME TypeInv, RequestInv, NEW c \in Call, NEW f \in Feeder,
         NEW i \in DOMAIN ToTry[f], Try(c, f, i),
         call[c].at = "new" \/ i > call[c].attempt, NEW q \in Post
  PROVE  /\ post[q].at = "done" => post'[q] = post[q]
         /\ post'[q].holder = post[q].holder
<1>1. i \in Attempt /\ <<c, i>> \in Post
  BY Spelling DEF Post
<1>2. post[<<c, i>>].at = "none" /\ post[<<c, i>>] \in Request
  BY <1>1 DEF RequestInv, Untried, TypeInv, TypeOK
<1>3. post' = [post EXCEPT ![<<c, i>>] =
                  [post[<<c, i>>] EXCEPT !.at = "looking", !.fid = ToTry[f][i]]]
  BY <1>1 DEF Try, TypeInv, TypeOK
<1>4. QED
  BY <1>1, <1>2, <1>3 DEF TypeInv, TypeOK, Request

LEMMA ProceedKeeps ==
  ASSUME TypeInv, RequestInv, NEW c \in Call, call[c].at = "posting", NEW st \in Status,
         Proceed(c, st), NEW q \in Post
  PROVE  /\ post[q].at = "done" => post'[q] = post[q]
         /\ post'[q].holder = post[q].holder
<1>1. /\ call[c].fid \in Feeder
      /\ call[c].attempt \in DOMAIN ToTry[call[c].fid]
      /\ ToTry[call[c].fid] \in Seq(Feeder)
  BY TunnelAssumption DEF TypeInv, Asked
<1>2. CASE /\ call[c].attempt < Len(ToTry[call[c].fid])
           /\ Try(c, call[c].fid, call[c].attempt + 1)
  <2>1. /\ call[c].attempt + 1 \in DOMAIN ToTry[call[c].fid]
        /\ call[c].attempt + 1 > call[c].attempt
    BY <1>1, <1>2
  <2>2. QED
    BY <2>1, <1>1, <1>2, TryKeeps
<1>3. CASE UNCHANGED post
  BY <1>3
<1>4. QED
  BY <1>2, <1>3 DEF Proceed

\* The status of the POST of a call that has ended.
LEMMA EndsType ==
  ASSUME TypeInv, RequestInv, NEW c \in Call, PostEnds(c)
  PROVE  StatusOf(<<c, call[c].attempt>>) \in Status
<1> DEFINE p == <<c, call[c].attempt>>
<1>1. p \in Post
  BY DEF TypeInv, TypeOK, Visit, Post
<1>2. post[p].at = "done" /\ Sound(p, post[p]) /\ post[p] \in Request
  BY <1>1 DEF PostEnds, TypeInv, TypeOK, RequestInv, AllSound
<1>3. post[p].result = "reply" => post[p].holder \in Answer
  BY <1>2 DEF Sound, Request
<1>4. QED
  BY <1>1, <1>2, <1>3, StatusType DEF Sound

\* A request that has ended is left as it is, and an answer is only given to a
\* request that is waited for.
LEMMA RecordsKept ==
  ASSUME TypeInv, RequestInv, [Next]_vars, NEW q \in Post
  PROVE  /\ post[q].at = "done" => post'[q] = post[q]
         /\ \/ post'[q].holder = post[q].holder
            \/ \E w \in WS, a \in Answer :
                  Receive(w, a) /\ a.to = q /\ Awaits(q) /\ post'[q].holder = a
<1> DEFINE Kept == /\ post[q].at = "done" => post'[q] = post[q]
                   /\ post'[q].holder = post[q].holder
<1>a. post[q] \in Request
  BY DEF TypeInv, TypeOK
<1>1. ASSUME UNCHANGED post PROVE Kept
  BY <1>1
<1>2. ASSUME NEW w \in WS, NEW a \in Answer, Receive(w, a)
      PROVE  \/ Kept
             \/ /\ post[q].at = "done" => post'[q] = post[q]
                /\ a.to = q /\ Awaits(q) /\ post'[q].holder = a
  <2>1. CASE a.to \notin pending
    BY <2>1, <1>1, <1>2 DEF Receive
  <2>2. CASE a.to \in pending
    <3>1. a.to \in Post /\ Awaits(a.to) /\ post' = Answered(a.to, a)
      BY <2>2, <1>2 DEF Receive, RequestInv, PendingIsAwaited
    <3>2. CASE a.to # q
      BY <3>1, <3>2 DEF Answered, TypeInv, TypeOK
    <3>3. CASE a.to = q
      BY <3>1, <3>3, <1>a DEF Answered, TypeInv, TypeOK, Request, Awaits
    <3>4. QED
      BY <3>2, <3>3
  <2>3. QED
    BY <2>1, <2>2
<1>3. ASSUME NEW p \in Post, Proxy(p) PROVE Kept
  <2>1. CASE p # q
    BY <1>3, <2>1 DEF Proxy, Look, Sent, SendFails, Wake, Timeout, Finished, TypeInv, TypeOK
  <2>2. CASE p = q
    BY <1>3, <2>2, <1>a DEF Proxy, Look, Sent, SendFails, Wake, Timeout, Expires, Finished,
                            TypeInv, TypeOK, Request
  <2>3. QED
    BY <2>1, <2>2
<1>4. ASSUME NEW c \in Call, NEW f \in Feeder, Take(c, f) PROVE Kept
  BY <1>4, FirstAttempt, TryKeeps DEF Take
<1>5. ASSUME NEW c \in Call, PostEnds(c) PROVE Kept
  BY <1>5, EndsType, ProceedKeeps DEF PostEnds
<1>6. ASSUME NEW c \in Call, GiveUp(c) PROVE Kept
  <2>1. 503 \in Status
    BY DEF Status
  <2>2. QED
    BY <1>6, <2>1, ProceedKeeps DEF GiveUp
<1>7. ASSUME Restart PROVE Kept
  BY <1>7, <1>a DEF Restart, Request
<1>8. ASSUME NEW w \in WS, Socket(w), ~ \E a \in Answer : Receive(w, a) PROVE Kept
  BY <1>8, <1>1 DEF Socket, Accept, GreetingFails, Register, TakeLock, Replace, Break, Leave
<1>9. ASSUME NEW w \in WS, NEW p \in Post, FeederAnswers(w, p) PROVE Kept
  BY <1>9, <1>1 DEF FeederAnswers
<1> HIDE DEF Kept
<1>10. \/ Kept
       \/ \E w \in WS, a \in Answer :
             /\ Receive(w, a)
             /\ post[q].at = "done" => post'[q] = post[q]
             /\ a.to = q /\ Awaits(q) /\ post'[q].holder = a
  <2>1. CASE UNCHANGED vars
    BY <2>1, <1>1 DEF vars
  <2>2. CASE Next
    BY <2>2, <1>2, <1>3, <1>4, <1>5, <1>6, <1>7, <1>8, <1>9 DEF Next, Dashboard
  <2>3. QED
    BY <2>1, <2>2
<1>11. QED
  BY <1>10 DEF Kept

\* A call that is left alone.
LEMMA CallKept ==
  ASSUME TypeInv, RequestInv, [Next]_vars, NEW c \in Call, Spelt(c), Shown(c),
         \A q \in Post : NameStep(q), call'[c] = call[c]
  PROVE  Spelt(c)' /\ Shown(c)'
<1>1. ASSUME call[c].at # "new", NEW i \in DOMAIN ToTry[call[c].fid], i <= call[c].attempt
      PROVE  post'[<<c, i>>].fid = ToTry[call[c].fid][i]
  <2>1. <<c, i>> \in Post /\ ToTry[call[c].fid][i] \in Feeder
    BY <1>1, Spelling DEF Post, TypeInv, Asked
  <2>2. QED
    BY <2>1, <1>1, NoneIsNone DEF Spelt, NameStep
<1>2. Spelt(c)'
  BY <1>1 DEF Spelt
<1>3. <<c, call[c].attempt>> \in Post
  BY DEF Post, TypeInv, TypeOK, Visit
<1>4. Shown(c)'
  BY <1>3, RecordsKept DEF Shown
<1>5. QED
  BY <1>2, <1>4

\* A call is posted under its next spelling.
LEMMA TrySpelt ==
  ASSUME TypeInv, NEW c \in Call, NEW f \in Feeder, NEW i \in DOMAIN ToTry[f], Try(c, f, i),
         \A q \in Post : NameStep(q),
         i > 1 => call[c].at # "new" /\ call[c].fid = f /\ call[c].attempt = i - 1 /\ Spelt(c)
  PROVE  Spelt(c)' /\ Shown(c)'
<1>1. call'[c] = [at |-> "posting", fid |-> f, attempt |-> i, status |-> 0]
  BY DEF Try, TypeInv, TypeOK
<1>2. Shown(c)'
  BY <1>1 DEF Shown
<1>3. ASSUME NEW j \in DOMAIN ToTry[f], j <= i PROVE post'[<<c, j>>].fid = ToTry[f][j]
  <2>1. <<c, j>> \in Post /\ ToTry[f][j] \in Feeder /\ j \in Nat \ {0} /\ i \in Nat \ {0}
    BY Spelling DEF Post
  <2>2. CASE j = i
    BY <2>1, <2>2 DEF Try, TypeInv, TypeOK, Request
  <2>3. CASE j # i
    <3>1. i > 1 /\ j <= i - 1
      BY <2>1, <2>3, <1>3
    <3>2. post[<<c, j>>].fid = ToTry[f][j]
      BY <3>1 DEF Spelt
    <3>3. QED
      BY <3>2, <2>1, NoneIsNone DEF NameStep
  <2>4. QED
    BY <2>2, <2>3
<1>4. Spelt(c)'
  BY <1>1, <1>3 DEF Spelt
<1>5. QED
  BY <1>2, <1>4

\* What a call becomes when its POST has ended or was given up.
LEMMA ProceedShown ==
  ASSUME TypeInv, RequestInv, [Next]_vars, NEW c \in Call, call[c].at = "posting",
         Spelt(c), \A q \in Post : NameStep(q), NEW st \in Status, Proceed(c, st),
         st = 200 => LET p == <<c, call[c].attempt>> IN
                     post[p].at = "done" /\ StatusOf(p) = 200
  PROVE  Spelt(c)' /\ Shown(c)'
<1> DEFINE p == <<c, call[c].attempt>>
<1>1. /\ call[c].fid \in Feeder
      /\ call[c].attempt \in DOMAIN ToTry[call[c].fid]
      /\ ToTry[call[c].fid] \in Seq(Feeder)
      /\ p \in Post
  BY TunnelAssumption DEF TypeInv, Asked, TypeOK, Visit, Post
<1>2. CASE /\ call[c].attempt < Len(ToTry[call[c].fid])
           /\ Try(c, call[c].fid, call[c].attempt + 1)
  <2>1. /\ call[c].attempt + 1 \in DOMAIN ToTry[call[c].fid]
        /\ (call[c].attempt + 1) - 1 = call[c].attempt
    BY <1>1, <1>2
  <2>2. QED
    BY <2>1, <1>1, <1>2, TrySpelt
<1>3. CASE /\ call' = [call EXCEPT ![c] = [@ EXCEPT !.at = "done", !.status = st]]
           /\ UNCHANGED post
  <2>1. /\ call'[c].at = "done" /\ call'[c].status = st
        /\ call'[c].fid = call[c].fid /\ call'[c].attempt = call[c].attempt
    BY <1>3 DEF TypeInv, TypeOK, Visit
  <2>2. Spelt(c)'
    BY <2>1, <1>3 DEF Spelt
  <2>3. ASSUME st = 200
        PROVE  post[p].at = "done" /\ post[p].result = "reply" /\ post[p].holder.status = 200
    <3>1. post[p].at = "done" /\ StatusOf(p) = 200 /\ post[p] \in Request
      BY <2>3, <1>1 DEF TypeInv, TypeOK
    <3>2. post[p].result # "none"
      BY <3>1, <1>1 DEF RequestInv, AllSound, Sound
    <3>3. QED
      BY <3>1, <3>2 DEF StatusOf, Request
  <2>4. Shown(c)'
    BY <2>1, <2>3, <1>3 DEF Shown
  <2>5. QED
    BY <2>2, <2>4
<1>4. QED
  BY <1>2, <1>3 DEF Proceed

LEMMA OwnStep == TunnelInv /\ ExchangeInv /\ OwnInv /\ [Next]_vars => OwnInv'
<1> SUFFICES ASSUME TunnelInv, ExchangeInv, OwnInv, [Next]_vars PROVE OwnInv'
  OBVIOUS
<1>1. TypeInv /\ SessInv /\ RequestInv /\ SessKept
  BY AllSessKept DEF TunnelInv
<1>2. \A q \in Post : NameStep(q)
  BY <1>1, ExchangeStep DEF Step
<1>3. Signed'
  <2>1. ASSUME back' \subseteq back PROVE Signed'
    BY <2>1 DEF OwnInv, Signed
  <2>2. ASSUME NEW w \in WS, Socket(w) PROVE back' \subseteq back
    BY <2>2 DEF Socket, Accept, GreetingFails, Register, TakeLock, Replace, Receive, Break,
                Leave, network
  <2>3. ASSUME NEW p \in Post, Proxy(p) PROVE back' \subseteq back
    BY <2>3 DEF Proxy, Look, Sent, SendFails, Wake, Timeout, network
  <2>4. ASSUME NEW w \in WS, NEW p \in Post, FeederAnswers(w, p) PROVE Signed'
    BY <2>4 DEF FeederAnswers, OwnInv, Signed
  <2>5. ASSUME NEW c \in Call, Dashboard(c) PROVE back' \subseteq back
    BY <2>5 DEF Dashboard, Take, PostEnds, GiveUp, network
  <2>6. Restart => back' \subseteq back
    BY DEF Restart
  <2>7. UNCHANGED vars => back' \subseteq back
    BY DEF vars
  <2>8. QED
    BY <2>1, <2>2, <2>3, <2>4, <2>5, <2>6, <2>7 DEF Next
<1>4. ASSUME NEW q \in Post PROVE FromFeeder(q)'
  <2>1. CASE post'[q].holder = post[q].holder
    <3>1. Held(q)' => Held(q)
      BY <2>1 DEF Held
    <3>2. post[q].fid \in Feeder => post'[q].fid = post[q].fid
      BY <1>2, NoneIsNone DEF NameStep
    <3>3. QED
      BY <2>1, <3>1, <3>2, <1>1 DEF OwnInv, FromFeeder, SessKept
  <2>2. CASE \E w \in WS, a \in Answer :
                Receive(w, a) /\ a.to = q /\ Awaits(q) /\ post'[q].holder = a
    <3>1. PICK w \in WS, a \in Answer :
             Receive(w, a) /\ a.to = q /\ Awaits(q) /\ post'[q].holder = a
      BY <2>2
    <3>2. <<w, a>> \in back /\ UNCHANGED sess
      BY <3>1 DEF Receive
    <3>3. a.by = w /\ sess[w].at \notin {"new", "greeting"}
      <4>1. <<w, a>>[1] = w /\ <<w, a>>[2] = a
        OBVIOUS
      <4>2. QED
        BY <3>2, <4>1 DEF OwnInv, Signed, ExchangeInv, Registered
    <3>4. sess[w].fid = post[q].fid
      <4>1. Straight(q) /\ <<w, a>>[1] = w /\ <<w, a>>[2].to = q
        BY <3>1 DEF ExchangeInv, Orderly
      <4>2. QED
        BY <3>2, <4>1 DEF Straight
    <3>5. post[q].fid \in Feeder
      BY <3>1, <1>1 DEF Awaits, TypeInv, Posted
    <3>6. post'[q].fid = post[q].fid
      BY <3>5, <1>2, NoneIsNone DEF NameStep
    <3>7. QED
      BY <3>1, <3>2, <3>3, <3>4, <3>5, <3>6 DEF FromFeeder
  <2>3. QED
    BY <2>1, <2>2, <1>1, RecordsKept
<1>5. ASSUME NEW c \in Call, call'[c] = call[c] PROVE Spelt(c)' /\ Shown(c)'
  BY <1>5, <1>1, <1>2, CallKept DEF OwnInv
<1>6. ASSUME NEW c \in Call, NEW f \in Feeder, Take(c, f) PROVE \A d \in Call : Spelt(d)' /\ Shown(d)'
  <2>1. Spelt(c)' /\ Shown(c)'
    BY <1>6, <1>1, <1>2, FirstAttempt, TrySpelt DEF Take
  <2>2. ASSUME NEW d \in Call, d # c PROVE call'[d] = call[d]
    BY <1>6, <2>2 DEF Take, Try, TunnelInv, TypeInv, TypeOK
  <2>3. QED
    BY <2>1, <2>2, <1>5
<1>7. ASSUME NEW c \in Call, PostEnds(c) \/ GiveUp(c) PROVE \A d \in Call : Spelt(d)' /\ Shown(d)'
  <2>1. CASE PostEnds(c)
    <3>1. call[c].at = "posting" /\ Spelt(c) /\ post[<<c, call[c].attempt>>].at = "done"
      BY <2>1 DEF PostEnds, OwnInv
    <3>2. QED
      <4>1. Spelt(c)' /\ Shown(c)'
        BY <2>1, <3>1, <1>1, <1>2, EndsType, ProceedShown DEF PostEnds
      <4>2. ASSUME NEW d \in Call, d # c PROVE call'[d] = call[d]
        BY <2>1, <4>2 DEF PostEnds, Proceed, Try, TunnelInv, TypeInv, TypeOK
      <4>3. QED
        BY <4>1, <4>2, <1>5
  <2>2. CASE GiveUp(c)
    <3>1. call[c].at = "posting" /\ Spelt(c) /\ 503 \in Status /\ 503 # 200
      BY <2>2 DEF GiveUp, OwnInv, Status
    <3>2. Spelt(c)' /\ Shown(c)'
      <4>1. PICK st \in Status : st = 503
        BY <3>1
      <4>2. Proceed(c, st) /\ st # 200
        BY <2>2, <4>1 DEF GiveUp
      <4>3. st = 200 => LET p == <<c, call[c].attempt>> IN
                        post[p].at = "done" /\ StatusOf(p) = 200
        BY <4>2
      <4>4. QED
        BY <3>1, <4>2, <4>3, <1>1, <1>2, ProceedShown
    <3>3. ASSUME NEW d \in Call, d # c PROVE call'[d] = call[d]
      <4>1. call \in [Call -> Visit] /\ Proceed(c, 503)
        BY <2>2, <1>1 DEF GiveUp, TypeInv, TypeOK
      <4>2. QED
        BY <3>3, <4>1 DEF Proceed, Try
    <3>4. QED
      BY <3>2, <3>3, <1>5
  <2>3. QED
    BY <1>7, <2>1, <2>2
<1>8. ASSUME UNCHANGED call PROVE \A d \in Call : Spelt(d)' /\ Shown(d)'
  BY <1>8, <1>5
<1>9. \A c \in Call : Spelt(c)' /\ Shown(c)'
  <2>1. ASSUME NEW w \in WS, Socket(w) PROVE UNCHANGED call
    BY <2>1 DEF Socket, Accept, GreetingFails, Register, TakeLock, Replace, Receive, Break, Leave
  <2>2. ASSUME NEW p \in Post, Proxy(p) PROVE UNCHANGED call
    BY <2>2 DEF Proxy, Look, Sent, SendFails, Wake, Timeout
  <2>3. ASSUME NEW w \in WS, NEW p \in Post, FeederAnswers(w, p) PROVE UNCHANGED call
    BY <2>3 DEF FeederAnswers
  <2>4. Restart \/ UNCHANGED vars => UNCHANGED call
    BY DEF Restart, vars
  <2>5. QED
    BY <1>6, <1>7, <1>8, <2>1, <2>2, <2>3, <2>4 DEF Next, Dashboard
<1>10. QED
  BY <1>3, <1>4, <1>9 DEF OwnInv

\* A page a browser gets is the answer to a request of its own call, from a feeder
\* registered under the spelling it was posted with, for any spellings, calls and
\* sessions, however late answers are and whatever is started again.
THEOREM OwnAnswers == Spec => []AnswerIsOwn
<1>1. Init => ExchangeInv /\ OwnInv
  <2> SUFFICES ASSUME Init PROVE ExchangeInv /\ OwnInv
    OBVIOUS
  <2>1. \A p \in Post : post[p] = NoRequest /\ ~Out(p) /\ ~Back(p)
    BY DEF Init, Out, Back
  <2>2. ExchangeInv
    BY <2>1 DEF Init, ExchangeInv, Registered, Orderly, Straight, Held, NoRequest
  <2>3. OwnInv
    BY <2>1 DEF Init, OwnInv, Signed, FromFeeder, Held, NoRequest, Spelt, Shown, NoVisit
  <2>4. QED
    BY <2>2, <2>3
<1>2. TunnelInv /\ ExchangeInv /\ OwnInv /\ [Next]_vars => ExchangeInv' /\ OwnInv'
  BY ExchangeStep, OwnStep DEF TunnelInv
<1>3. TunnelInv /\ OwnInv => AnswerIsOwn
  <2> SUFFICES ASSUME TunnelInv, OwnInv, NEW c \in Call, call[c].status = 200
               PROVE  \E i \in DOMAIN ToTry[call[c].fid] :
                         LET a == post[<<c, i>>].holder IN
                         /\ post[<<c, i>>].result = "reply"
                         /\ a.to = <<c, i>> /\ a.status = 200
                         /\ sess[a.by].fid = ToTry[call[c].fid][i]
    BY DEF AnswerIsOwn
  <2> DEFINE i == call[c].attempt
             p == <<c, i>>
  <2>1. /\ call[c].at = "done" /\ post[p].result = "reply" /\ post[p].holder.status = 200
    BY DEF OwnInv, Shown
  <2>2. i \in DOMAIN ToTry[call[c].fid] /\ i \in Attempt /\ p \in Post
    BY <2>1 DEF TunnelInv, TypeInv, Asked, TypeOK, Visit, Post
  <2>3. Held(p) /\ post[p].holder.to = p
    BY <2>1, <2>2 DEF TunnelInv, RequestInv, AllSound, Sound, Held
  <2>4. sess[post[p].holder.by].fid = post[p].fid
    BY <2>2, <2>3 DEF OwnInv, FromFeeder
  <2>5. i <= i
    BY <2>2, AttemptIsNat
  <2>6. post[p].fid = ToTry[call[c].fid][i]
    BY <2>1, <2>2, <2>5 DEF OwnInv, Spelt
  <2> HIDE DEF i
  <2>7. QED
    BY <2>1, <2>2, <2>3, <2>4, <2>6
<1>4. QED
  BY <1>1, <1>2, <1>3, Invariance, PTL DEF Spec
=============================================================================
