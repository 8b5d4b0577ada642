------------------------------ MODULE Gateway -------------------------------
(***************************************************************************)
(* The HTTP gateway in front of the scorer pool (app/production_pool.py):  *)
(* bounded admission, routing of feed sessions to the scorer that holds    *)
(* them, proxying, the aggregated state, and what browsers and scorers do  *)
(* at its two ends.  A client is one browser: it keeps its cookie and the  *)
(* feed sessions it was given and has one request under way.               *)
(***************************************************************************)
EXTENDS ScorerPool, Sequences

CONSTANTS
    Clients,
    RouteLimit,     \* SESSION_ROUTE_LIMIT
    Threads,        \* max_workers of the executor
    Queue,          \* admission beyond them
    MaxSessions,    \* bound: feed sessions ever opened
    MaxEvents       \* bound: events recorded by one scorer process

ASSUME GatewayAssumption ==
    /\ RouteLimit \in Nat \ {0} /\ Threads \in Nat \ {0} /\ Queue \in Nat
    /\ MaxSessions \in Nat /\ MaxEvents \in Nat

Sessions == 1..MaxSessions
NoSession == 0
NoWorker == 0
NoRoute == [shard |-> NoWorker, generation |-> 0, age |-> 0]

VARIABLES
    routes,     \* routes[s]: entry of s in GatewayState.sessions, an
                \* OrderedDict: age counts the entries after it
    opened,     \* feed sessions opened so far
    holder,     \* holder[s]: the scorer process that opened session s
    events,     \* events[w]: what the running process of w has recorded
    cookie,     \* cookie[c]: recommendation_shard, NoWorker without it
    given,      \* given[c]: the sessions c was given, in all its tabs
    req,        \* req[c]: the request of c under way
    finishing   \* answered requests that still hold their admission permit

gatewayVars == <<routes, opened, holder, events, cookie, given, req, finishing>>
vars == <<poolVars, gatewayVars>>

Process(w) == <<w, inc[w]>>
Holds(w, s) == s \in Sessions /\ holder[s] = Process(w)

Idle == [at |-> "idle", kind |-> "feed", session |-> NoSession, cursor |-> FALSE,
         shard |-> NoWorker, sets |-> FALSE, stale |-> FALSE, seen |-> <<>>,
         answer |-> "none"]

Init ==
    /\ PoolInit
    /\ routes = [s \in Sessions |-> NoRoute]
    /\ opened = 0
    /\ holder = [s \in Sessions |-> <<NoWorker, 0>>]
    /\ events = [w \in Workers |-> 0]
    /\ cookie = [c \in Clients |-> NoWorker]
    /\ given = [c \in Clients |-> {}]
    /\ req = [c \in Clients |-> Idle]
    /\ finishing = 0

Admitted == {c \in Clients : req[c].at # "idle"}
Served == {c \in Admitted : req[c].at # "queued"}

-----------------------------------------------------------------------------
\* BoundedHTTPServer.process_request: a permit or 503 at once.

Send(c, kind, s, cursor) ==
    /\ main = <<"serve", 1>>
    /\ req[c].at = "idle"
    /\ s \in given[c] \cup {NoSession}
    /\ cursor => kind = "feed" /\ s # NoSession
    /\ s # NoSession => kind \in {"feed", "event"}
    /\ req' = IF Cardinality(Admitted) + finishing < Threads + Queue
              THEN [req EXCEPT ![c] = [Idle EXCEPT !.at = "queued", !.kind = kind,
                                                   !.session = s, !.cursor = cursor]]
              ELSE req
    /\ UNCHANGED <<poolVars, routes, opened, holder, events, cookie, given, finishing>>

\* The answer is written; the permit is released after it.
Answered(c) ==
    /\ req' = [req EXCEPT ![c] = Idle]
    /\ finishing' = finishing + 1

Release ==
    /\ finishing > 0
    /\ finishing' = finishing - 1
    /\ UNCHANGED <<poolVars, routes, opened, holder, events, cookie, given, req>>

-----------------------------------------------------------------------------
\* session_shard and remember_session.

Known(s) == s \in Sessions /\ routes[s] # NoRoute
Stale(s) == restarts[routes[s].shard] # routes[s].generation

\* Entry s is put, or moved, to the end of the dictionary; the first entry of
\* one too long is dropped.
Put(s, w, generation) ==
    [t \in Sessions |->
        IF t = s THEN [shard |-> w, generation |-> generation, age |-> 0]
        ELSE IF ~Known(t) \/ (Known(s) /\ routes[t].age > routes[s].age)
             THEN routes[t]
        ELSE IF routes[t].age + 1 < RouteLimit
             THEN [routes[t] EXCEPT !.age = @ + 1] ELSE NoRoute]

Pop(s) ==
    [t \in Sessions |->
        IF t = s THEN NoRoute
        ELSE IF Known(t) /\ routes[t].age > routes[s].age
             THEN [routes[t] EXCEPT !.age = @ - 1]
        ELSE routes[t]]

\* A free thread of the executor takes the request.
Begin(c) ==
    /\ req[c].at = "queued"
    /\ Cardinality(Served) + finishing < Threads
    /\ UNCHANGED <<poolVars, opened, holder, events, cookie, given>>

\* The control plane is closed at the gateway: 409.
RefuseControl(c) ==
    /\ Begin(c)
    /\ req[c].kind = "mine"
    /\ Answered(c)
    /\ UNCHANGED routes

BeginState(c) ==
    /\ Begin(c)
    /\ req[c].kind = "state"
    /\ req' = [req EXCEPT ![c].at = "gather"]
    /\ UNCHANGED <<routes, finishing>>

Proxied(c) == req[c].kind \in {"feed", "event"}
Forward(c, w, sets) ==
    /\ req' = [req EXCEPT ![c] = [@ EXCEPT !.at = "connect", !.shard = w, !.sets = sets]]
    /\ UNCHANGED finishing

\* The scorer of the session was restarted: the route is dropped; a page is
\* asked for without session and cursor, anything else is refused.
RouteStale(c) ==
    LET s == req[c].session IN
    /\ Begin(c)
    /\ Proxied(c)
    /\ Known(s) /\ Stale(s)
    /\ routes' = Pop(s)
    /\ IF req[c].kind = "feed"
       THEN /\ req' = [req EXCEPT ![c] = [@ EXCEPT !.at = "connect", !.stale = TRUE,
                                                   !.shard = routes[s].shard]]
            /\ UNCHANGED finishing
       ELSE Answered(c)

RouteKnown(c) ==
    LET s == req[c].session IN
    /\ Begin(c)
    /\ Proxied(c)
    /\ Known(s) /\ ~Stale(s)
    /\ routes' = Put(s, routes[s].shard, routes[s].generation)
    /\ Forward(c, routes[s].shard, FALSE)

\* Mutant of RouteUnknown: the user's hash goes before the cookie.
RouteUnknownByUser(c) ==
    /\ Begin(c)
    /\ Proxied(c)
    /\ ~Known(req[c].session)
    /\ \E w \in Workers : Forward(c, w, cookie[c] = NoWorker)
    /\ UNCHANGED routes

\* No route: the cookie, then a hash of the user, which may be any scorer.
RouteUnknown(c) ==
    /\ Begin(c)
    /\ Proxied(c)
    /\ ~Known(req[c].session)
    /\ IF cookie[c] # NoWorker
       THEN Forward(c, cookie[c], FALSE)
       ELSE \E w \in Workers : Forward(c, w, TRUE)
    /\ UNCHANGED routes

-----------------------------------------------------------------------------
\* The scorer's side of a proxied request (external to the pool).

\* _reset_feed_path takes session and cursor out of a stale request.
Named(c) == IF req[c].stale THEN NoSession ELSE req[c].session

OpensSession(c, w) ==
    /\ opened < MaxSessions
    /\ opened' = opened + 1
    /\ holder' = [holder EXCEPT ![opened + 1] = Process(w)]
    /\ UNCHANGED events

\* Feed page: the session's, a new one without a session or with a dead
\* cursor; "unknown or expired feed session" for a dead session alone.
FeedOutcome(c, w, session, answer) ==
    LET s == Named(c) IN
    /\ req[c].kind = "feed"
    /\ \/ /\ Holds(w, s)
          /\ session = s /\ answer = "page"
          /\ UNCHANGED <<opened, holder, events>>
       \/ /\ s = NoSession \/ (req[c].cursor /\ ~Holds(w, s))
          /\ OpensSession(c, w)
          /\ session = opened + 1
          /\ answer = IF req[c].session = NoSession THEN "page" ELSE "reset"
       \/ /\ s # NoSession /\ ~req[c].cursor /\ ~Holds(w, s)
          /\ session = NoSession /\ answer = "expired"
          /\ UNCHANGED <<opened, holder, events>>

\* An event is recorded unless it names a session the scorer does not have.
EventOutcome(c, w, session, answer) ==
    LET s == req[c].session IN
    /\ req[c].kind = "event"
    /\ session = NoSession
    /\ IF s = NoSession \/ Holds(w, s)
       THEN /\ events[w] < MaxEvents
            /\ events' = [events EXCEPT ![w] = @ + 1]
            /\ answer = "recorded"
       ELSE answer = "expired" /\ UNCHANGED events
    /\ UNCHANGED <<opened, holder>>

Outcome(c, w, session, answer) ==
    FeedOutcome(c, w, session, answer) \/ EventOutcome(c, w, session, answer)

OutcomeAnswers == {"page", "reset", "recorded", "expired"}

-----------------------------------------------------------------------------
\* _proxy, from the test of the process to the answer.

Unavailable(c) ==
    /\ req[c].at = "connect"
    /\ ~Running(req[c].shard)
    /\ Answered(c)
    /\ UNCHANGED <<poolVars, routes, opened, holder, events, cookie, given>>

\* Connection refused, reset or timed out, before the scorer did anything.
UpstreamFails(c) ==
    /\ req[c].at = "connect"
    /\ Running(req[c].shard)
    /\ Answered(c)
    /\ UNCHANGED <<poolVars, routes, opened, holder, events, cookie, given>>

\* The scorer handled the request and its answer is lost.
UpstreamLosesAnswer(c) ==
    LET w == req[c].shard IN
    /\ req[c].at = "connect"
    /\ Running(w) /\ life[w] = "ready"
    /\ \E session \in Sessions \cup {NoSession}, answer \in OutcomeAnswers :
         Outcome(c, w, session, answer)
    /\ Answered(c)
    /\ UNCHANGED <<poolVars, routes, cookie, given>>

UpstreamAnswers(c) ==
    LET w == req[c].shard IN
    /\ req[c].at = "connect"
    /\ Running(w) /\ life[w] = "ready"
    /\ \E session \in Sessions \cup {NoSession}, answer \in OutcomeAnswers :
         /\ Outcome(c, w, session, answer)
         /\ req' = [req EXCEPT ![c] = [@ EXCEPT !.at = "reply", !.session = session,
                                                !.answer = answer]]
    /\ UNCHANGED <<poolVars, routes, cookie, given, finishing>>

\* The session is remembered under the generation read now, and the client is
\* answered.
Reply(c) ==
    LET s == req[c].session
        w == req[c].shard IN
    /\ req[c].at = "reply"
    /\ routes' = IF s # NoSession THEN Put(s, w, restarts[w]) ELSE routes
    /\ given' = [given EXCEPT ![c] = IF s # NoSession THEN @ \cup {s} ELSE @]
    /\ cookie' = [cookie EXCEPT ![c] = IF req[c].sets THEN w ELSE @]
    /\ Answered(c)
    /\ UNCHANGED <<poolVars, opened, holder, events>>

-----------------------------------------------------------------------------
\* aggregate_state: one scorer after the other, then the comparison.  The
\* compared identity has the number of recorded events in it, as the
\* "train_cases" of dataset_info.

GatherOne(c) ==
    LET w == Len(req[c].seen) + 1 IN
    /\ req[c].at = "gather"
    /\ w \in Workers
    /\ life[w] \in {"ready", "sick"}
    /\ req' = [req EXCEPT ![c].seen = Append(@, events[w])]
    /\ UNCHANGED <<poolVars, routes, opened, holder, events, cookie, given, finishing>>

GatherFails(c) ==
    /\ req[c].at = "gather"
    /\ Len(req[c].seen) < NWorkers
    /\ Answered(c)
    /\ UNCHANGED <<poolVars, routes, opened, holder, events, cookie, given>>

\* The aggregate if all are equal, else 503.
GatherDone(c) ==
    /\ req[c].at = "gather"
    /\ Len(req[c].seen) = NWorkers
    /\ Answered(c)
    /\ UNCHANGED <<poolVars, routes, opened, holder, events, cookie, given>>

-----------------------------------------------------------------------------
\* server_close(): queued requests are cancelled, served ones end first.

ServerCloses ==
    /\ StopServing
    /\ req' = [c \in Clients |->
                 IF req[c].at = "queued"
                 THEN Idle ELSE req[c]]
    /\ UNCHANGED <<routes, opened, holder, events, cookie, given, finishing>>

PoolCloses ==
    /\ Admitted = {} /\ finishing = 0
    /\ BeginClose
    /\ UNCHANGED gatewayVars

\* A new process of a worker has recorded nothing.
GatewayRests ==
    /\ events' = [w \in Workers |-> IF inc'[w] = inc[w] THEN events[w] ELSE 0]
    /\ UNCHANGED <<routes, opened, holder, cookie, given, req, finishing>>

PoolStep == PoolNext /\ GatewayRests

ClientStep(c) ==
    \E kind \in {"feed", "event", "state", "mine"},
       s \in Sessions \cup {NoSession}, cursor \in BOOLEAN : Send(c, kind, s, cursor)

ThreadStep(c) ==
    \/ RefuseControl(c) \/ BeginState(c)
    \/ RouteStale(c) \/ RouteKnown(c) \/ RouteUnknown(c)
    \/ Unavailable(c) \/ UpstreamFails(c) \/ UpstreamLosesAnswer(c)
    \/ UpstreamAnswers(c) \/ Reply(c)
    \/ GatherOne(c) \/ GatherFails(c) \/ GatherDone(c)

Next ==
    \/ PoolStep
    \/ ServerCloses
    \/ PoolCloses
    \/ Release
    \/ \E c \in Clients : ClientStep(c) \/ ThreadStep(c)

Spec == Init /\ [][Next]_vars

\* The monitor thread runs, and a scorer that loads is ready or gone some
\* time; requests and faults are the environment's choice.
FairSpec ==
    /\ Spec
    /\ WF_vars(MonitorStep /\ GatewayRests)
    /\ \A w \in Workers : WF_vars(BecomesReady(w) /\ GatewayRests)

-----------------------------------------------------------------------------
(* Types; the session dictionary has at most RouteLimit entries, in one     *)
(* order.                                                                  *)
GatewayTypeOK ==
    /\ PoolTypeOK
    /\ routes \in [Sessions -> [shard : Workers \cup {NoWorker}, generation : Nat,
                               age : 0..(RouteLimit - 1)]]
    /\ \A s, t \in Sessions : Known(s) /\ Known(t) /\ s # t => routes[s].age # routes[t].age
    /\ opened \in 0..MaxSessions
    /\ holder \in [Sessions -> (Workers \cup {NoWorker}) \X Nat]
    /\ events \in [Workers -> 0..MaxEvents]
    /\ cookie \in [Clients -> Workers \cup {NoWorker}]
    /\ given \in [Clients -> SUBSET Sessions]
    /\ req \in [Clients ->
           [at : {"idle", "queued", "connect", "reply", "gather"},
            kind : {"feed", "event", "state", "mine"},
            session : Sessions \cup {NoSession}, cursor : BOOLEAN,
            shard : Workers \cup {NoWorker}, sets : BOOLEAN, stale : BOOLEAN,
            seen : Seq(0..MaxEvents), answer : OutcomeAnswers \cup {"none"}]]
    /\ finishing \in Nat

(* Sticky sessions: a request that names a feed session whose scorer       *)
(* process is still running is sent to that process and with its session,  *)
(* whatever was restarted, evicted from the routes or forgotten meanwhile: *)
(* the reader never loses a live session (_route, session_shard,           *)
(* remember_session, the cookie).                                          *)
AffinityKept ==
    \A c \in Clients :
        req[c].at = "connect" /\ req[c].session # NoSession =>
            LET w == holder[req[c].session][1] IN
            Running(w) /\ Holds(w, req[c].session) =>
                req[c].shard = w /\ ~req[c].stale

-----------------------------------------------------------------------------
(* README.md:147: /api/state verifies agreement on the model, the          *)
(* configuration and the dataset; none of them can change in a pool, so    *)
(* the comparison of aggregate_state never fails.  It does.                *)
StateAgrees ==
    \A c \in Clients :
        req[c].at = "gather" /\ Len(req[c].seen) = NWorkers =>
            \A w \in Workers : req[c].seen[w] = req[c].seen[1]

(* README.md:139: after a scorer restart its old browser sessions receive  *)
(* a new stream with reset=true; none of them is told that it is unknown.  *)
OldSessionsReset ==
    \A c \in Clients :
        ~(req[c].at = "reply" /\ req[c].kind = "feed" /\ req[c].answer = "expired")
=============================================================================
