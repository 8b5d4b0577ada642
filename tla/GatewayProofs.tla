--------------------------- MODULE GatewayProofs ----------------------------
(***************************************************************************)
(* Theorems about the scorer pool and its gateway, for any number of       *)
(* workers and clients and any limits.                                     *)
(***************************************************************************)
EXTENDS Gateway, TLAPS

-----------------------------------------------------------------------------
(* The pool.  Workers that close() has waited for already: *)
Reaped(w) ==
    main[1] \in {"closed", "exited"} \/ (main[1] = "reap" /\ w < main[2])

\* Only the first three parts are about one place of the code; OneLate is
\* CloseLeavesAtMostOne for every point of the close.
PoolInv ==
    /\ PoolTypeOK
    /\ \A w \in Workers : Alive(w) => attached[w]
    /\ \A w \in Workers : monitor = <<"spawn", w>> => ~Alive(w)
    /\ main[1] \in {"spawn", "ready"} => monitor[1] = "off"
    /\ main[1] \in {"signal", "reap", "closed", "exited"} => closing
    /\ closing /\ monitor[1] = "spawn" => \A v \in Workers : Reaped(v) => ~Alive(v)
    /\ \A v, w \in Workers :
          Reaped(v) /\ Reaped(w) /\ Alive(v) /\ Alive(w) => v = w

PoolMove == PoolNext \/ StopServing \/ BeginClose

(* A process that stopped stays so: a worker gets a running process only    *)
(* with a new incarnation, and its generation is counted up only then.      *)
Generations ==
    \A w \in Workers :
        \/ inc'[w] = inc[w] + 1
        \/ /\ inc'[w] = inc[w]
           /\ Alive(w)' => Alive(w) /\ restarts'[w] = restarts[w]

LEMMA OneWorker == 1 \in Workers
BY PoolAssumption DEF Workers

LEMMA AdvanceType ==
    ASSUME NEW place, NEW next, NEW w \in Workers
    PROVE  \/ /\ w = NWorkers
              /\ Advance(place, w, next) = <<next, 1>>
           \/ /\ w < NWorkers /\ w + 1 \in Workers
              /\ Advance(place, w, next) = <<place, w + 1>>
BY PoolAssumption DEF Workers, Advance

LEMMA PoolInitInv == PoolInit => PoolInv
<1> SUFFICES ASSUME PoolInit PROVE PoolInv
  OBVIOUS
<1> USE DEF PoolInit
<1>1. PoolTypeOK
  <2>1. <<"off", 1>> \in {"off", "scan", "spawn", "ready", "wait", "stopped", "broken"}
                           \X Workers
    BY OneWorker
  <2>2. <<"spawn", 1>> \in {"spawn", "ready", "bind", "serve", "drain", "signal", "reap",
                             "closed", "exited", "crashed"} \X Workers
    BY OneWorker
  <2> QED
    <3>1. /\ inc \in [Workers -> Nat] /\ life \in [Workers -> Life]
          /\ attached \in [Workers -> BOOLEAN] /\ restarts \in [Workers -> Nat]
      BY DEF Life
    <3>2. closing \in BOOLEAN
      OBVIOUS
    <3>3. faults \in 0..MaxFaults
      BY PoolAssumption
    <3> QED
      BY <2>1, <2>2, <3>1, <3>2, <3>3 DEF PoolTypeOK
<1>2. /\ main[1] = "spawn" /\ monitor[1] = "off" /\ ~closing
      /\ \A w \in Workers : ~Alive(w) /\ ~Reaped(w)
  BY DEF Alive, Reaped
<1> QED
  BY <1>1, <1>2 DEF PoolInv

LEMMA PoolStepInv ==
    ASSUME PoolInv, PoolMove
    PROVE  PoolInv' /\ Generations
<1> USE DEF PoolInv, PoolTypeOK, Life, Alive, Reaped, Generations
<1> USE OneWorker, PoolAssumption
<1>1. ASSUME NEW w \in Workers, BecomesReady(w) PROVE PoolInv' /\ Generations
  BY <1>1 DEF BecomesReady, Live
<1>2. ASSUME NEW w \in Workers, BecomesSick(w) PROVE PoolInv' /\ Generations
  BY <1>2 DEF BecomesSick, Live, Faulty
<1>3. ASSUME NEW w \in Workers, Crash(w) PROVE PoolInv' /\ Generations
  BY <1>3 DEF Crash, Live, Faulty
<1>4. ASSUME NEW w \in Workers, StartSpawn(w) PROVE PoolInv' /\ Generations
  <2> USE <1>4 DEF StartSpawn, Spawned
  <2>1. \/ main' = <<"spawn", w + 1>> /\ w + 1 \in Workers
        \/ main' = <<"ready", 1>>
    BY AdvanceType
  <2>2. PoolTypeOK'
    BY <2>1
  <2>3. \A v \in Workers : ~Reaped(v)'
    BY <2>1
  <2> QED
    BY <2>1, <2>2, <2>3
<1>5. ASSUME NEW w \in Workers, StartReady(w) PROVE PoolInv' /\ Generations
  BY <1>5, AdvanceType DEF StartReady
<1>6. ASSUME NEW w \in Workers, StartFails(w) PROVE PoolInv' /\ Generations
  BY <1>6 DEF StartFails
<1>7. ASSUME Bind PROVE PoolInv' /\ Generations
  BY <1>7 DEF Bind
<1>8. ASSUME Exit PROVE PoolInv' /\ Generations
  BY <1>8 DEF Exit
<1>9. ASSUME NEW w \in Workers, CloseSignals(w) PROVE PoolInv' /\ Generations
  <2> USE <1>9 DEF CloseSignals
  <2>1. PoolTypeOK' /\ Generations
    BY AdvanceType DEF Running
  <2>2. \A v \in Workers : Alive(v)' => Alive(v)
    BY DEF Running
  <2>3. /\ main'[1] \in {"signal", "reap"} /\ closing
        /\ UNCHANGED <<closing, monitor, attached>>
        /\ \A v \in Workers : ~Reaped(v)'
    <3>1. main' = <<"signal", w + 1>> \/ main' = <<"reap", 1>>
      BY AdvanceType
    <3>2. \A v \in Workers : ~(v < 1)
      BY DEF Workers
    <3> QED
      BY <3>1, <3>2
  <2> QED
    BY <2>1, <2>2, <2>3
<1>10. ASSUME NEW w \in Workers, CloseReaps(w) PROVE PoolInv' /\ Generations
  <2> USE <1>10 DEF CloseReaps
  <2>1. PoolTypeOK' /\ Generations
    BY AdvanceType DEF Running
  <2>2. ~Alive(w)' /\ \A v \in Workers : Alive(v)' => Alive(v)
    BY DEF Running
  <2>3. ASSUME NEW v \in Workers, Reaped(v)' PROVE Reaped(v) \/ v = w
    <3>1. main = <<"reap", w>> /\ v \in Int /\ w \in Int /\ v <= NWorkers
      BY DEF Workers
    <3> QED
      BY <3>1, <2>3, AdvanceType
  <2>4. \A u, v \in Workers : Reaped(u)' /\ Reaped(v)' /\ Alive(u)' /\ Alive(v)' => u = v
    <3> HIDE <1>10 DEF Reaped, Alive, CloseReaps, PoolTypeOK
    <3> QED
      BY <2>2, <2>3
  <2>5. closing' /\ monitor'[1] = "spawn" => \A v \in Workers : Reaped(v)' => ~Alive(v)'
    BY <2>2, <2>3
  <2>6. main'[1] \in {"reap", "closed"} /\ UNCHANGED <<closing, monitor, attached>>
    BY AdvanceType
  <2> QED
    BY <2>1, <2>2, <2>4, <2>5, <2>6
<1>11. ASSUME MonitorWakes PROVE PoolInv' /\ Generations
  BY <1>11 DEF MonitorWakes
<1>12. ASSUME NEW w \in Workers, MonitorSees(w) PROVE PoolInv' /\ Generations
  BY <1>12, AdvanceType DEF MonitorSees
<1>13. ASSUME NEW w \in Workers, MonitorTests(w) PROVE PoolInv' /\ Generations
  BY <1>13 DEF MonitorTests, Running
<1>14. ASSUME NEW w \in Workers, MonitorSpawns(w) PROVE PoolInv' /\ Generations
  BY <1>14 DEF MonitorSpawns, Spawned
<1>15. ASSUME NEW w \in Workers, MonitorBreaks(w) PROVE PoolInv' /\ Generations
  BY <1>15 DEF MonitorBreaks
<1>16. ASSUME NEW w \in Workers, MonitorReady(w) PROVE PoolInv' /\ Generations
  BY <1>16, AdvanceType DEF MonitorReady
<1>17. ASSUME NEW w \in Workers, MonitorGivesUp(w) PROVE PoolInv' /\ Generations
  BY <1>17, AdvanceType DEF MonitorGivesUp, Faulty
<1>18. ASSUME StopServing PROVE PoolInv' /\ Generations
  BY <1>18 DEF StopServing
<1>19. ASSUME BeginClose PROVE PoolInv' /\ Generations
  BY <1>19 DEF BeginClose
<1> HIDE DEF PoolInv, Generations
<1> QED
  BY <1>1, <1>2, <1>3, <1>4, <1>5, <1>6, <1>7, <1>8, <1>9, <1>10, <1>11, <1>12,
     <1>13, <1>14, <1>15, <1>16, <1>17, <1>18, <1>19
  DEF PoolMove, PoolNext, MonitorStep, MainStep, ScorerStep


-----------------------------------------------------------------------------
(* The gateway.  The scorer process that holds s is still running. *)
HolderRuns(s) ==
    LET w == holder[s][1] IN Alive(w) /\ holder[s] = Process(w)

\* A session that was opened belongs to a process that was spawned.
Opened(s) ==
    s \in Sessions /\ s <= opened /\ holder[s][1] \in Workers /\ holder[s][2] <= inc[holder[s][1]]

\* A route leads to the worker of its session, and is of the current
\* generation while the process that holds the session runs.
RouteInv ==
    \A s \in Sessions : Known(s) =>
        /\ Opened(s)
        /\ routes[s].shard = holder[s][1]
        /\ HolderRuns(s) => routes[s].generation = restarts[routes[s].shard]

\* The cookie of a browser names the worker of all its sessions.
CookieInv ==
    \A c \in Clients : \A s \in given[c] :
        Opened(s) /\ cookie[c] = holder[s][1]

ReqInv(c) ==
    /\ req[c].at \in {"queued", "connect"} /\ req[c].session # NoSession =>
          req[c].session \in given[c]
    /\ req[c].at = "queued" => ~req[c].stale /\ ~req[c].sets
    /\ req[c].at \in {"connect", "reply"} =>
          /\ req[c].shard \in Workers
          /\ cookie[c] = IF req[c].sets THEN NoWorker ELSE req[c].shard
    /\ req[c].at = "connect" /\ req[c].stale /\ req[c].session # NoSession =>
          ~HolderRuns(req[c].session)
    /\ req[c].at = "reply" /\ req[c].session # NoSession =>
          Opened(req[c].session) /\ holder[req[c].session][1] = req[c].shard
RequestInv == \A c \in Clients : ReqInv(c)

ReqType ==
    [at : {"idle", "queued", "connect", "reply", "gather"},
     kind : {"feed", "event", "state", "mine"},
     session : Sessions \cup {NoSession}, cursor : BOOLEAN,
     shard : Workers \cup {NoWorker}, sets : BOOLEAN, stale : BOOLEAN,
     seen : Seq(0..MaxEvents), answer : OutcomeAnswers \cup {"none"}]

GInv == PoolInv /\ GatewayTypeOK /\ RouteInv /\ CookieInv /\ RequestInv

LEMMA NoWorkerIsNone == NoWorker \notin Workers /\ NoSession \notin Sessions
BY PoolAssumption, GatewayAssumption DEF NoWorker, Workers, NoSession, Sessions

LEMMA Affinity == GInv => AffinityKept
<1> SUFFICES ASSUME GInv, NEW c \in Clients,
                    req[c].at = "connect", req[c].session # NoSession,
                    Running(holder[req[c].session][1]),
                    Holds(holder[req[c].session][1], req[c].session)
             PROVE  req[c].shard = holder[req[c].session][1] /\ ~req[c].stale
  BY DEF AffinityKept
<1> DEFINE s == req[c].session
<1>1. s \in given[c] /\ Opened(s) /\ cookie[c] = holder[s][1] /\ holder[s][1] \in Workers
  BY DEF GInv, RequestInv, ReqInv, CookieInv, Opened
<1>2. req[c].shard = holder[s][1]
  BY <1>1, NoWorkerIsNone DEF GInv, RequestInv, ReqInv
<1>3. HolderRuns(s)
  BY DEF HolderRuns, Running, Holds
<1> QED
  BY <1>2, <1>3 DEF GInv, RequestInv, ReqInv, GatewayTypeOK

(* Routes r are those that follow an entry of session s at worker w: the   *)
(* other sessions that still have a route keep it, no two of one age.      *)
Entered(r, s, w, g) ==
    /\ r \in [Sessions -> [shard : Workers \cup {NoWorker}, generation : Nat,
                           age : 0..(RouteLimit - 1)]]
    /\ r[s].shard = w /\ r[s].generation = g
    /\ \A t \in Sessions : t # s /\ r[t] # NoRoute =>
          /\ Known(t)
          /\ r[t].shard = routes[t].shard /\ r[t].generation = routes[t].generation
    /\ \A t, u \in Sessions : r[t] # NoRoute /\ r[u] # NoRoute /\ t # u =>
          r[t].age # r[u].age

-----------------------------------------------------------------------------
(* What Put and Pop do to the routes. *)
LEMMA PutRoutes ==
    ASSUME GatewayTypeOK, NEW s \in Sessions, NEW w \in Workers, NEW g \in Nat
    PROVE  Entered(Put(s, w, g), s, w, g)
<1> DEFINE r == Put(s, w, g)
           R == [shard : Workers \cup {NoWorker}, generation : Nat, age : 0..(RouteLimit - 1)]
<1> USE GatewayAssumption
<1>1. routes \in [Sessions -> R]
  BY DEF GatewayTypeOK
<1>2. NoRoute \in R
  BY DEF NoRoute
<1>3. r[s] = [shard |-> w, generation |-> g, age |-> 0] /\ r[s] \in R
  BY DEF Put
<1>4. ASSUME NEW t \in Sessions, t # s
      PROVE  /\ r[t] \in R
             /\ r[t] # NoRoute =>
                  /\ Known(t)
                  /\ r[t].shard = routes[t].shard /\ r[t].generation = routes[t].generation
                  /\ IF Known(s) /\ routes[t].age > routes[s].age
                     THEN r[t].age = routes[t].age
                     ELSE r[t].age = routes[t].age + 1
  <2>1. routes[t] \in R /\ routes[s] \in R
    BY <1>1
  <2>2. CASE ~Known(t) \/ (Known(s) /\ routes[t].age > routes[s].age)
    <3>1. r[t] = routes[t]
      BY <1>4, <2>2 DEF Put
    <3> QED
      BY <2>1, <2>2, <3>1, <1>4 DEF Known
  <2>3. CASE Known(t) /\ ~(Known(s) /\ routes[t].age > routes[s].age)
    <3>1. r[t] = IF routes[t].age + 1 < RouteLimit
                 THEN [routes[t] EXCEPT !.age = @ + 1] ELSE NoRoute
      BY <1>4, <2>3 DEF Put
    <3> QED
      BY <2>1, <2>3, <3>1, <1>2
  <2> QED
    BY <2>2, <2>3
<1>5. r \in [Sessions -> R]
  <2>1. \A t \in Sessions : r[t] \in R
    BY <1>3, <1>4
  <2>2. r = [t \in Sessions |-> r[t]]
    BY DEF Put
  <2> QED
    BY <2>1, <2>2
<1>6. ASSUME NEW t \in Sessions, NEW u \in Sessions, r[t] # NoRoute, r[u] # NoRoute, t # u
      PROVE  r[t].age # r[u].age
  <2>1. routes[t].age \in Int /\ routes[u].age \in Int /\ routes[s].age \in Int
        /\ routes[t].age >= 0 /\ routes[u].age >= 0
    BY <1>1
  <2>2. Known(t) /\ Known(u) => routes[t].age # routes[u].age
    BY <1>6 DEF GatewayTypeOK
  <2>3. Known(s) /\ t # s /\ Known(t) => routes[t].age # routes[s].age
    BY DEF GatewayTypeOK
  <2>4. Known(s) /\ u # s /\ Known(u) => routes[u].age # routes[s].age
    BY DEF GatewayTypeOK
  <2>5. r[s].age = 0
    BY <1>3
  <2> HIDE DEF r
  <2>6. CASE t = s
    BY <1>4, <1>6, <2>1, <2>4, <2>5, <2>6, <1>1
  <2>7. CASE u = s
    BY <1>4, <1>6, <2>1, <2>3, <2>5, <2>7, <1>1
  <2>8. CASE t # s /\ u # s
    BY <1>4, <1>6, <2>1, <2>2, <2>3, <2>4, <2>8
  <2> QED
    BY <2>6, <2>7, <2>8
<1> HIDE DEF r
<1>7. r[s].shard = w /\ r[s].generation = g
  BY <1>3
<1>8. Entered(r, s, w, g)
  BY <1>4, <1>5, <1>6, <1>7 DEF Entered
<1> QED
  BY <1>8 DEF r

LEMMA PopRoutes ==
    ASSUME GatewayTypeOK, NEW s \in Sessions, Known(s)
    PROVE  LET r == Pop(s) IN
           /\ r \in [Sessions -> [shard : Workers \cup {NoWorker}, generation : Nat,
                                  age : 0..(RouteLimit - 1)]]
           /\ \A t \in Sessions : r[t] # NoRoute =>
                 /\ Known(t)
                 /\ r[t].shard = routes[t].shard /\ r[t].generation = routes[t].generation
           /\ \A t, u \in Sessions : r[t] # NoRoute /\ r[u] # NoRoute /\ t # u =>
                 r[t].age # r[u].age
<1> DEFINE r == Pop(s)
           R == [shard : Workers \cup {NoWorker}, generation : Nat, age : 0..(RouteLimit - 1)]
<1> USE GatewayAssumption
<1>1. routes \in [Sessions -> R]
  BY DEF GatewayTypeOK
<1>2. NoRoute \in R /\ r[s] = NoRoute
  BY DEF NoRoute, Pop
<1>3. ASSUME NEW t \in Sessions, t # s
      PROVE  /\ r[t] \in R
             /\ r[t] # NoRoute =>
                  /\ Known(t)
                  /\ r[t].shard = routes[t].shard /\ r[t].generation = routes[t].generation
                  /\ IF routes[t].age > routes[s].age
                     THEN r[t].age = routes[t].age - 1
                     ELSE r[t].age = routes[t].age
  <2>1. routes[t] \in R /\ routes[s] \in R
    BY <1>1
  <2>2. CASE Known(t) /\ routes[t].age > routes[s].age
    <3>1. r[t] = [routes[t] EXCEPT !.age = @ - 1]
      BY <1>3, <2>2 DEF Pop
    <3> QED
      BY <2>1, <2>2, <3>1
  <2>3. CASE ~(Known(t) /\ routes[t].age > routes[s].age)
    <3>1. r[t] = routes[t]
      BY <1>3, <2>3 DEF Pop
    <3> QED
      BY <2>1, <2>3, <3>1, <1>3 DEF Known
  <2> QED
    BY <2>2, <2>3
<1>4. r \in [Sessions -> R]
  <2>1. \A t \in Sessions : r[t] \in R
    BY <1>2, <1>3
  <2>2. r = [t \in Sessions |-> r[t]]
    BY DEF Pop
  <2> QED
    BY <2>1, <2>2
<1>5. ASSUME NEW t \in Sessions, NEW u \in Sessions, r[t] # NoRoute, r[u] # NoRoute, t # u
      PROVE  r[t].age # r[u].age
  <2>1. t # s /\ u # s
    BY <1>2, <1>5
  <2>2. routes[t].age \in Int /\ routes[u].age \in Int /\ routes[s].age \in Int
    BY <1>1
  <2>3. Known(t) /\ Known(u) => /\ routes[t].age # routes[u].age
                                /\ routes[t].age # routes[s].age
                                /\ routes[u].age # routes[s].age
    BY <1>5, <2>1 DEF GatewayTypeOK
  <2> HIDE DEF r
  <2> QED
    BY <1>3, <1>5, <2>1, <2>2, <2>3
<1> HIDE DEF r
<1> QED
  BY <1>2, <1>3, <1>4, <1>5 DEF r

-----------------------------------------------------------------------------
LEMMA GInitInv == Init => GInv
<1> SUFFICES ASSUME Init PROVE GInv
  OBVIOUS
<1> USE DEF Init
<1>1. PoolInv
  BY PoolInitInv
<1>2. \A s \in Sessions : ~Known(s)
  BY DEF Known
<1>3. GatewayTypeOK
  <2>1. /\ routes \in [Sessions -> [shard : Workers \cup {NoWorker}, generation : Nat,
                                    age : 0..(RouteLimit - 1)]]
        /\ holder \in [Sessions -> (Workers \cup {NoWorker}) \X Nat]
        /\ opened \in 0..MaxSessions
        /\ finishing \in Nat
    BY GatewayAssumption DEF NoRoute
  <2>2. /\ events \in [Workers -> 0..MaxEvents]
        /\ cookie \in [Clients -> Workers \cup {NoWorker}]
        /\ given \in [Clients -> SUBSET Sessions]
    BY GatewayAssumption
  <2>3. Idle \in ReqType
    BY DEF Idle, ReqType
  <2> QED
    BY <1>1, <1>2, <2>1, <2>2, <2>3 DEF GatewayTypeOK, PoolInv, ReqType
<1>4. RouteInv /\ CookieInv
  BY <1>2 DEF RouteInv, CookieInv
<1>5. RequestInv
  BY DEF RequestInv, ReqInv, Idle
<1> QED
  BY <1>1, <1>3, <1>4, <1>5 DEF GInv

(* A step of the pool keeps every holder that runs in its generation. *)
LEMMA PoolKeeps ==
    ASSUME GInv, PoolMove, UNCHANGED <<routes, opened, holder, cookie, given, finishing>>,
           events' \in [Workers -> 0..MaxEvents],
           \A c \in Clients : req'[c] = req[c] \/ req'[c] = Idle,
           req' \in [Clients -> ReqType]
    PROVE  GInv'
<1> USE DEF GInv
<1>1. PoolInv' /\ Generations
  BY PoolStepInv
<1>2. GatewayTypeOK'
  BY <1>1 DEF GatewayTypeOK, PoolInv, Known, ReqType
<1>3. ASSUME NEW s, Opened(s)
      PROVE  /\ Opened(s)'
             /\ HolderRuns(s)' => /\ HolderRuns(s)
                                  /\ restarts'[holder[s][1]] = restarts[holder[s][1]]
  <2> DEFINE w == holder[s][1]
  <2>1. w \in Workers /\ inc[w] \in Nat /\ holder[s][2] \in Nat /\ holder[s][2] <= inc[w]
    BY <1>3 DEF Opened, PoolInv, PoolTypeOK, GatewayTypeOK
  <2>2. inc'[w] = inc[w] + 1 \/ (inc'[w] = inc[w] /\ (Alive(w)' => Alive(w) /\ restarts'[w] = restarts[w]))
    BY <1>1, <2>1 DEF Generations
  <2>3. Opened(s)'
    BY <1>3, <2>1, <2>2 DEF Opened
  <2>4. ASSUME HolderRuns(s)' PROVE HolderRuns(s) /\ restarts'[w] = restarts[w]
    <3>1. holder[s][2] = inc'[w] /\ Alive(w)'
      BY <2>4 DEF HolderRuns, Process
    <3>2. inc'[w] = inc[w]
      BY <2>1, <2>2, <3>1
    <3> QED
      BY <2>2, <2>4, <3>1, <3>2, <2>1 DEF HolderRuns, Process
  <2> QED
    BY <2>3, <2>4
<1>4. RouteInv'
  BY <1>3 DEF RouteInv, Known
<1>5. CookieInv'
  BY <1>3 DEF CookieInv
<1>6. RequestInv'
  <2> SUFFICES ASSUME NEW c \in Clients, req'[c] = req[c]
               PROVE  /\ req[c].at = "connect" /\ req[c].stale /\ req[c].session # NoSession =>
                            ~HolderRuns(req[c].session)'
                      /\ req[c].at = "reply" /\ req[c].session # NoSession =>
                            Opened(req[c].session)'
    BY DEF RequestInv, ReqInv, Idle
  <2>1. req[c].at = "connect" /\ req[c].session # NoSession => Opened(req[c].session)
    BY DEF RequestInv, ReqInv, CookieInv
  <2> QED
    BY <1>3, <2>1 DEF RequestInv, ReqInv
<1> QED
  BY <1>1, <1>2, <1>4, <1>5, <1>6

-----------------------------------------------------------------------------
LEMMA IdleType == Idle \in ReqType
BY DEF Idle, ReqType

LEMMA Types ==
    ASSUME GatewayTypeOK
    PROVE  /\ req \in [Clients -> ReqType]
           /\ \A c \in Clients : req[c].session \in Sessions \cup {NoSession}
BY DEF GatewayTypeOK, ReqType

(* A step of the gateway that gives no client anything: it may open a      *)
(* session, drop or reorder routes, and change requests to sound ones.     *)
LEMMA Frame ==
    ASSUME GInv, UNCHANGED <<poolVars, cookie, given>>,
           routes' \in [Sessions -> [shard : Workers \cup {NoWorker}, generation : Nat,
                                     age : 0..(RouteLimit - 1)]],
           \A t, u \in Sessions : routes'[t] # NoRoute /\ routes'[u] # NoRoute /\ t # u =>
                 routes'[t].age # routes'[u].age,
           \A t \in Sessions : routes'[t] # NoRoute =>
                 /\ Known(t)
                 /\ routes'[t].shard = routes[t].shard
                 /\ routes'[t].generation = routes[t].generation,
           opened' \in 0..MaxSessions, opened <= opened',
           holder' \in [Sessions -> (Workers \cup {NoWorker}) \X Nat],
           \A s \in Sessions : s <= opened => holder'[s] = holder[s],
           events' \in [Workers -> 0..MaxEvents],
           finishing' \in Nat,
           req' \in [Clients -> ReqType],
           \A c \in Clients : req'[c] = req[c] \/ ReqInv(c)'
    PROVE  GInv'
<1> USE DEF GInv
<1>1. PoolInv'
  BY DEF PoolInv, PoolTypeOK, Alive, Reaped, poolVars
<1>2. GatewayTypeOK'
  BY <1>1 DEF GatewayTypeOK, PoolInv, Known, ReqType
<1>3. ASSUME NEW s, Opened(s)
      PROVE  Opened(s)' /\ (HolderRuns(s)' <=> HolderRuns(s)) /\ holder'[s] = holder[s]
  <2>1. holder'[s] = holder[s]
    BY <1>3 DEF Opened
  <2>2. s <= opened'
    BY <1>3 DEF Opened, GatewayTypeOK, Sessions
  <2> QED
    BY <1>3, <2>1, <2>2 DEF Opened, HolderRuns, Process, Alive, poolVars
<1>4. RouteInv'
  BY <1>3 DEF RouteInv, Known, poolVars
<1>5. CookieInv'
  BY <1>3 DEF CookieInv
<1>6. RequestInv'
  <2> SUFFICES ASSUME NEW c \in Clients, req'[c] = req[c] PROVE ReqInv(c)'
    BY DEF RequestInv
  <2>1. ReqInv(c)
    BY DEF RequestInv
  <2>2. req[c].at = "connect" /\ req[c].session # NoSession => Opened(req[c].session)
    BY <2>1 DEF ReqInv, CookieInv
  <2> QED
    BY <1>3, <2>1, <2>2 DEF ReqInv
<1> QED
  BY <1>1, <1>2, <1>4, <1>5, <1>6

(* A request that is answered is forgotten. *)
LEMMA AnsweredReq ==
    ASSUME GatewayTypeOK, NEW c \in Clients, Answered(c)
    PROVE  /\ req' \in [Clients -> ReqType]
           /\ \A d \in Clients : req'[d] = req[d] \/ ReqInv(d)'
           /\ finishing' \in Nat
<1>1. req' \in [Clients -> ReqType] /\ req'[c] = Idle /\ \A d \in Clients \ {c} : req'[d] = req[d]
  BY IdleType, Types DEF Answered
<1>2. ReqInv(c)'
  BY <1>1 DEF ReqInv, Idle
<1>3. finishing' \in Nat
  BY DEF Answered, GatewayTypeOK
<1> QED
  BY <1>1, <1>2, <1>3

(* The conjuncts of Frame about what a step leaves alone. *)
LEMMA SameRoutes ==
    ASSUME GInv
    PROVE  /\ routes \in [Sessions -> [shard : Workers \cup {NoWorker}, generation : Nat,
                                       age : 0..(RouteLimit - 1)]]
           /\ \A t, u \in Sessions : routes[t] # NoRoute /\ routes[u] # NoRoute /\ t # u =>
                 routes[t].age # routes[u].age
           /\ opened \in 0..MaxSessions /\ opened <= opened
           /\ holder \in [Sessions -> (Workers \cup {NoWorker}) \X Nat]
           /\ events \in [Workers -> 0..MaxEvents]
           /\ finishing \in Nat
           /\ \A t \in Sessions : routes[t] # NoRoute => Known(t)
BY DEF GInv, GatewayTypeOK, Known

-----------------------------------------------------------------------------
(* The fields of a request that a step sets, one lemma for each handler.   *)
LEMMA SendInv ==
    ASSUME GInv, NEW c \in Clients, ClientStep(c)
    PROVE  GInv'
<1> PICK kind \in {"feed", "event", "state", "mine"}, s \in Sessions \cup {NoSession},
         cursor \in BOOLEAN : Send(c, kind, s, cursor)
  BY DEF ClientStep
<1> DEFINE q == [Idle EXCEPT !.at = "queued", !.kind = kind, !.session = s, !.cursor = cursor]
<1>1. q \in ReqType /\ q.at = "queued" /\ q.session = s /\ ~q.stale /\ ~q.sets
  <2>1. q \in ReqType /\ q.at = "queued" /\ q.session = s /\ q.stale = Idle.stale
          /\ q.sets = Idle.sets
    BY IdleType DEF ReqType
  <2> QED
    BY <2>1 DEF Idle
<1>2. UNCHANGED <<poolVars, routes, opened, holder, events, cookie, given, finishing>>
  BY DEF Send
<1>3. GatewayTypeOK /\ req \in [Clients -> ReqType]
  BY Types DEF GInv
<1>4. CASE req' = req
  BY <1>4, <1>2, <1>3, SameRoutes, Frame
<1>5. CASE req' = [req EXCEPT ![c] = q]
  <2>1. req' \in [Clients -> ReqType] /\ req'[c] = q /\ \A d \in Clients \ {c} : req'[d] = req[d]
    <3> HIDE DEF q
    <3> QED
      BY <1>1, <1>5, <1>3
  <2>2. ReqInv(c)'
    BY <1>1, <2>1 DEF ReqInv, Send
  <2> QED
    BY <2>1, <2>2, <1>2, SameRoutes, Frame
<1> QED
  BY <1>4, <1>5 DEF Send

LEMMA AnswerInv ==
    ASSUME GInv, NEW c \in Clients,
           \/ RefuseControl(c) \/ Unavailable(c) \/ UpstreamFails(c)
           \/ GatherFails(c) \/ GatherDone(c)
    PROVE  GInv'
<1>1. Answered(c) /\ UNCHANGED <<poolVars, routes, opened, holder, events, cookie, given>>
  BY DEF RefuseControl, Begin, Unavailable, UpstreamFails, GatherFails, GatherDone
<1>2. GatewayTypeOK
  BY DEF GInv
<1> QED
  BY <1>1, <1>2, AnsweredReq, SameRoutes, Frame

LEMMA GatherInv ==
    ASSUME GInv, NEW c \in Clients, BeginState(c) \/ GatherOne(c)
    PROVE  GInv'
<1>1. /\ UNCHANGED <<poolVars, routes, opened, holder, events, cookie, given, finishing>>
      /\ req' \in [Clients -> ReqType]
      /\ req'[c].at = "gather" /\ \A d \in Clients \ {c} : req'[d] = req[d]
  <2>1. CASE BeginState(c)
    BY <2>1, Types DEF GInv, BeginState, Begin, ReqType
  <2>2. CASE GatherOne(c)
    <3> DEFINE w == Len(req[c].seen) + 1
    <3>1. events[w] \in 0..MaxEvents /\ req[c].seen \in Seq(0..MaxEvents)
      BY <2>2, Types DEF GInv, GatherOne, GatewayTypeOK, ReqType
    <3>2. Append(req[c].seen, events[w]) \in Seq(0..MaxEvents)
      BY <3>1
    <3>3. req' = [req EXCEPT ![c].seen = Append(req[c].seen, events[w])]
      BY <2>2 DEF GatherOne
    <3>4. req[c].at = "gather"
          /\ UNCHANGED <<poolVars, routes, opened, holder, events, cookie, given, finishing>>
      BY <2>2 DEF GatherOne
    <3> HIDE DEF w
    <3> QED
      BY <3>2, <3>3, <3>4, Types DEF GInv, ReqType
  <2> QED
    BY <2>1, <2>2
<1>2. ReqInv(c)'
  BY <1>1 DEF ReqInv
<1> QED
  BY <1>1, <1>2, SameRoutes, Frame

(* A named session that has a route is the client's own, and so is the     *)
(* worker of its route.                                                    *)
LEMMA OwnRoute ==
    ASSUME GInv, NEW c \in Clients, req[c].at = "queued", Known(req[c].session)
    PROVE  /\ req[c].session \in Sessions /\ req[c].session # NoSession
           /\ req[c].session \in given[c]
           /\ routes[req[c].session].shard \in Workers
           /\ cookie[c] = routes[req[c].session].shard
           /\ routes[req[c].session].generation \in Nat
           /\ HolderRuns(req[c].session) => ~Stale(req[c].session)
<1> DEFINE s == req[c].session
<1>1. s \in Sessions /\ s # NoSession
  BY NoWorkerIsNone DEF Known
<1>2. s \in given[c]
  BY <1>1 DEF GInv, RequestInv, ReqInv
<1>3. Opened(s) /\ cookie[c] = holder[s][1] /\ routes[s].shard = holder[s][1]
      /\ (HolderRuns(s) => routes[s].generation = restarts[routes[s].shard])
  BY <1>1, <1>2 DEF GInv, CookieInv, RouteInv
<1> QED
  BY <1>1, <1>2, <1>3 DEF Opened, Stale, GInv, GatewayTypeOK

LEMMA RouteStaleInv ==
    ASSUME GInv, NEW c \in Clients, RouteStale(c)
    PROVE  GInv'
<1> DEFINE s == req[c].session
<1>1. /\ req[c].at = "queued" /\ Known(s) /\ Stale(s) /\ routes' = Pop(s)
      /\ UNCHANGED <<poolVars, opened, holder, events, cookie, given>>
  BY DEF RouteStale, Begin
<1>2. s \in Sessions /\ s # NoSession /\ s \in given[c] /\ routes[s].shard \in Workers
      /\ cookie[c] = routes[s].shard /\ ~HolderRuns(s)
  BY <1>1, OwnRoute
<1>3. GatewayTypeOK
  BY DEF GInv
<1>4. /\ req' \in [Clients -> ReqType]
      /\ \A d \in Clients : req'[d] = req[d] \/ ReqInv(d)'
      /\ finishing' \in Nat
  <2>1. CASE req[c].kind = "feed"
    <3> DEFINE q == [req[c] EXCEPT !.at = "connect", !.stale = TRUE,
                                   !.shard = routes[s].shard]
    <3>1. req' = [req EXCEPT ![c] = q] /\ finishing' = finishing
      BY <2>1 DEF RouteStale
    <3>5. /\ q \in ReqType /\ q.at = "connect" /\ q.session = s /\ q.stale
          /\ q.shard = routes[s].shard /\ q.sets = req[c].sets
      <4>1. req[c] \in ReqType
        BY <1>3, Types
      <4> QED
        BY <4>1, <1>2 DEF ReqType
    <3> HIDE DEF q
    <3>2. /\ req' \in [Clients -> ReqType] /\ \A d \in Clients \ {c} : req'[d] = req[d]
          /\ req'[c].at = "connect" /\ req'[c].session = s /\ req'[c].stale
          /\ req'[c].shard = routes[s].shard /\ req'[c].sets = req[c].sets
      BY <3>1, <3>5, <1>3, Types
    <3>3. ~req[c].sets
      BY <1>1 DEF GInv, RequestInv, ReqInv
    <3>4. ReqInv(c)'
      BY <1>1, <1>2, <3>2, <3>3 DEF ReqInv, HolderRuns, Process, Alive, poolVars
    <3> QED
      BY <3>1, <3>2, <3>4, SameRoutes
  <2>2. CASE req[c].kind # "feed"
    BY <2>2, <1>3, AnsweredReq DEF RouteStale
  <2> QED
    BY <2>1, <2>2
<1> QED
  BY <1>1, <1>2, <1>3, <1>4, PopRoutes, SameRoutes, Frame

(* Forward leaves a request that is routed to the worker of the cookie. *)
LEMMA ForwardReq ==
    ASSUME GInv, NEW c \in Clients, NEW w \in Workers, NEW sets \in BOOLEAN,
           Forward(c, w, sets), req[c].at = "queued", UNCHANGED <<cookie, given>>,
           cookie[c] = IF sets THEN NoWorker ELSE w
    PROVE  /\ req' \in [Clients -> ReqType]
           /\ \A d \in Clients : req'[d] = req[d] \/ ReqInv(d)'
<1>1. /\ req' \in [Clients -> ReqType] /\ \A d \in Clients \ {c} : req'[d] = req[d]
      /\ req'[c].at = "connect" /\ req'[c].session = req[c].session
      /\ req'[c].stale = req[c].stale /\ req'[c].shard = w /\ req'[c].sets = sets
  <2> DEFINE q == [req[c] EXCEPT !.at = "connect", !.shard = w, !.sets = sets]
  <2>1. req \in [Clients -> ReqType] /\ req' = [req EXCEPT ![c] = q]
    BY Types DEF GInv, Forward
  <2>2. /\ q \in ReqType /\ q.at = "connect" /\ q.session = req[c].session
        /\ q.stale = req[c].stale /\ q.shard = w /\ q.sets = sets
    BY <2>1 DEF ReqType
  <2> HIDE DEF q
  <2> QED
    BY <2>1, <2>2
<1>2. ReqInv(c)'
  BY <1>1 DEF GInv, RequestInv, ReqInv
<1> QED
  BY <1>1, <1>2

LEMMA RouteKnownInv ==
    ASSUME GInv, NEW c \in Clients, RouteKnown(c)
    PROVE  GInv'
<1> DEFINE s == req[c].session
<1>1. /\ req[c].at = "queued" /\ Known(s)
      /\ routes' = Put(s, routes[s].shard, routes[s].generation)
      /\ Forward(c, routes[s].shard, FALSE)
      /\ UNCHANGED <<poolVars, opened, holder, events, cookie, given>>
  BY DEF RouteKnown, Begin
<1>2. s \in Sessions /\ routes[s].shard \in Workers /\ cookie[c] = routes[s].shard
      /\ routes[s].generation \in Nat
  BY <1>1, OwnRoute
<1>3. UNCHANGED <<finishing, cookie, given>>
  BY <1>1 DEF Forward
<1>6. /\ req' \in [Clients -> ReqType]
      /\ \A d \in Clients : req'[d] = req[d] \/ ReqInv(d)'
  <2>1. cookie[c] \in Workers /\ Forward(c, cookie[c], FALSE)
    BY <1>1, <1>2
  <2> HIDE DEF s
  <2> QED
    BY <1>1, <1>3, <2>1, ForwardReq
<1>4. /\ routes' \in [Sessions -> [shard : Workers \cup {NoWorker}, generation : Nat,
                                    age : 0..(RouteLimit - 1)]]
      /\ \A t, u \in Sessions : routes'[t] # NoRoute /\ routes'[u] # NoRoute /\ t # u =>
             routes'[t].age # routes'[u].age
      /\ \A t \in Sessions : routes'[t] # NoRoute =>
             /\ Known(t)
             /\ routes'[t].shard = routes[t].shard
             /\ routes'[t].generation = routes[t].generation
  <2> DEFINE w == routes[s].shard
             g == routes[s].generation
  <2>1. w \in Workers /\ g \in Nat /\ s \in Sessions /\ GatewayTypeOK /\ routes' = Put(s, w, g)
        /\ Known(s)
    BY <1>1, <1>2 DEF GInv
  <2>2. w = routes[s].shard /\ g = routes[s].generation
    OBVIOUS
  <2> HIDE DEF s, w, g
  <2>4. Entered(Put(s, w, g), s, w, g)
    BY <2>1, PutRoutes
  <2>5. Entered(routes', s, w, g)
    BY <2>1, <2>4
  <2> QED
    BY <2>1, <2>2, <2>5 DEF Entered
<1> HIDE DEF s
<1> QED
  BY <1>1, <1>3, <1>4, <1>6, SameRoutes, Frame

LEMMA RouteUnknownInv ==
    ASSUME GInv, NEW c \in Clients, RouteUnknown(c)
    PROVE  GInv'
<1>1. req[c].at = "queued" /\ UNCHANGED <<poolVars, routes, opened, holder, events, cookie, given>>
  BY DEF RouteUnknown, Begin
<1>2. /\ req' \in [Clients -> ReqType]
      /\ \A d \in Clients : req'[d] = req[d] \/ ReqInv(d)'
      /\ UNCHANGED finishing
  <2>1. CASE cookie[c] # NoWorker
    <3>1. Forward(c, cookie[c], FALSE) /\ cookie[c] \in Workers
      BY <2>1 DEF RouteUnknown, GInv, GatewayTypeOK
    <3> QED
      BY <1>1, <3>1, ForwardReq DEF Forward
  <2>2. CASE cookie[c] = NoWorker
    <3>1. PICK w \in Workers : Forward(c, w, TRUE)
      BY <2>2 DEF RouteUnknown
    <3> QED
      BY <1>1, <2>2, <3>1, ForwardReq DEF Forward
  <2> QED
    BY <2>1, <2>2
<1> QED
  BY <1>1, <1>2, SameRoutes, Frame

(* What a scorer may do with a request keeps its sessions in order. *)
LEMMA OutcomeFacts ==
    ASSUME GInv, NEW c \in Clients, req[c].at = "connect",
           NEW session \in Sessions \cup {NoSession}, NEW answer \in OutcomeAnswers,
           Outcome(c, req[c].shard, session, answer)
    PROVE  /\ opened' \in 0..MaxSessions /\ opened <= opened'
           /\ holder' \in [Sessions -> (Workers \cup {NoWorker}) \X Nat]
           /\ \A s \in Sessions : s <= opened => holder'[s] = holder[s]
           /\ events' \in [Workers -> 0..MaxEvents]
           /\ session # NoSession =>
                /\ session <= opened'
                /\ holder'[session][1] = req[c].shard
                /\ holder'[session][2] <= inc[req[c].shard]
<1> DEFINE w == req[c].shard
<1> USE GatewayAssumption
<1>1. /\ w \in Workers /\ GatewayTypeOK /\ inc[w] \in Nat
      /\ opened \in 0..MaxSessions
      /\ holder \in [Sessions -> (Workers \cup {NoWorker}) \X Nat]
      /\ events \in [Workers -> 0..MaxEvents]
  BY DEF GInv, RequestInv, ReqInv, PoolInv, PoolTypeOK, GatewayTypeOK
<1>2. Process(w) \in (Workers \cup {NoWorker}) \X Nat
      /\ Process(w)[1] = w /\ Process(w)[2] = inc[w]
  BY <1>1 DEF Process
<1>3. CASE FeedOutcome(c, w, session, answer)
  <2>1. CASE Holds(w, Named(c)) /\ session = Named(c) /\ UNCHANGED <<opened, holder, events>>
    <3>1. session \in Sessions /\ session # NoSession /\ holder[session] = Process(w)
      BY <2>1, NoWorkerIsNone DEF Holds
    <3>2. session = req[c].session
      BY <2>1, <3>1 DEF Named
    <3>3. Opened(session)
      BY <3>1, <3>2 DEF GInv, RequestInv, ReqInv, CookieInv
    <3>4. session <= opened
      BY <3>3 DEF Opened
    <3> HIDE DEF w
    <3>5. inc[w] <= inc[w] /\ opened <= opened
      BY <1>1
    <3>6. holder'[session][1] = w /\ holder'[session][2] <= inc[w]
      BY <1>2, <2>1, <3>1, <3>5
    <3> QED
      BY <1>1, <2>1, <3>4, <3>5, <3>6 DEF w
  <2>2. CASE OpensSession(c, w) /\ session = opened + 1
    <3>1. opened + 1 \in Sessions /\ opened' = opened + 1
      BY <1>1, <2>2 DEF OpensSession, Sessions
    <3>2. holder' = [holder EXCEPT ![opened + 1] = Process(w)]
      BY <2>2 DEF OpensSession
    <3>3. holder' \in [Sessions -> (Workers \cup {NoWorker}) \X Nat]
          /\ holder'[session] = Process(w)
          /\ \A s \in Sessions : s <= opened => holder'[s] = holder[s]
      BY <1>1, <1>2, <2>2, <3>1, <3>2 DEF Sessions
    <3>4. events' = events
      BY <2>2 DEF OpensSession
    <3> HIDE DEF w
    <3>5. holder'[session][1] = w /\ holder'[session][2] <= inc[w]
      BY <1>1, <1>2, <3>3
    <3> QED
      BY <1>1, <2>2, <3>1, <3>3, <3>4, <3>5 DEF w, OpensSession
  <2>3. CASE session = NoSession /\ UNCHANGED <<opened, holder, events>>
    BY <1>1, <2>3
  <2> QED
    BY <1>3, <2>1, <2>2, <2>3 DEF FeedOutcome
<1>4. CASE EventOutcome(c, w, session, answer)
  <2>1. session = NoSession /\ UNCHANGED <<opened, holder>>
    BY <1>4 DEF EventOutcome
  <2>2. events' \in [Workers -> 0..MaxEvents]
    <3>1. CASE events[w] < MaxEvents /\ events' = [events EXCEPT ![w] = events[w] + 1]
      <4>1. events[w] + 1 \in 0..MaxEvents
        BY <1>1, <3>1
      <4> QED
        BY <1>1, <3>1, <4>1
    <3>2. CASE UNCHANGED events
      BY <1>1, <3>2
    <3> QED
      BY <1>4, <3>1, <3>2 DEF EventOutcome
  <2> QED
    BY <1>1, <2>1, <2>2
<1> QED
  BY <1>3, <1>4 DEF Outcome

LEMMA UpstreamInv ==
    ASSUME GInv, NEW c \in Clients, UpstreamLosesAnswer(c) \/ UpstreamAnswers(c)
    PROVE  GInv'
<1>1. req[c].at = "connect" /\ UNCHANGED <<poolVars, routes, cookie, given>> /\ GatewayTypeOK
  BY DEF UpstreamLosesAnswer, UpstreamAnswers, GInv
<1>2. CASE UpstreamLosesAnswer(c)
  <2>1. PICK session \in Sessions \cup {NoSession}, answer \in OutcomeAnswers :
           Outcome(c, req[c].shard, session, answer)
    BY <1>2 DEF UpstreamLosesAnswer
  <2>2. Answered(c)
    BY <1>2 DEF UpstreamLosesAnswer
  <2> QED
    BY <1>1, <2>1, <2>2, OutcomeFacts, AnsweredReq, SameRoutes, Frame
<1>3. CASE UpstreamAnswers(c)
  <2>1. PICK session \in Sessions \cup {NoSession}, answer \in OutcomeAnswers :
           /\ Outcome(c, req[c].shard, session, answer)
           /\ req' = [req EXCEPT ![c] = [req[c] EXCEPT !.at = "reply", !.session = session,
                                                       !.answer = answer]]
    BY <1>3 DEF UpstreamAnswers
  <2>2. UNCHANGED finishing
    BY <1>3 DEF UpstreamAnswers
  <2> DEFINE q == [req[c] EXCEPT !.at = "reply", !.session = session, !.answer = answer]
  <2>3. /\ q \in ReqType /\ q.at = "reply" /\ q.session = session
        /\ q.shard = req[c].shard /\ q.sets = req[c].sets
    <3>1. req[c] \in ReqType
      BY <1>1, Types
    <3> QED
      BY <3>1 DEF ReqType
  <2>4. req' = [req EXCEPT ![c] = q] /\ req \in [Clients -> ReqType]
    BY <1>1, <2>1, Types
  <2> HIDE DEF q
  <2>5. /\ req' \in [Clients -> ReqType] /\ \A d \in Clients \ {c} : req'[d] = req[d]
        /\ req'[c].at = "reply" /\ req'[c].session = session
        /\ req'[c].shard = req[c].shard /\ req'[c].sets = req[c].sets
    BY <2>3, <2>4
  <2>6. req[c].shard \in Workers /\ cookie[c] = IF req[c].sets THEN NoWorker ELSE req[c].shard
    BY <1>1 DEF GInv, RequestInv, ReqInv
  <2>7. session # NoSession => Opened(session)' /\ holder'[session][1] = req[c].shard
    <3>1. session # NoSession =>
            /\ session <= opened' /\ holder'[session][1] = req[c].shard
            /\ holder'[session][2] <= inc[req[c].shard]
      BY <1>1, <2>1, OutcomeFacts
    <3> QED
      BY <1>1, <2>6, <3>1 DEF Opened, poolVars
  <2>8. ReqInv(c)'
    BY <1>1, <2>5, <2>6, <2>7 DEF ReqInv
  <2> QED
    BY <1>1, <2>1, <2>2, <2>5, <2>8, OutcomeFacts, SameRoutes, Frame
<1> QED
  BY <1>2, <1>3

(* The answer is written: the session is remembered and the browser's own,  *)
(* with the cookie of the worker that answered.                             *)
LEMMA ReplyInv ==
    ASSUME GInv, NEW c \in Clients, Reply(c)
    PROVE  GInv'
<1> DEFINE s == req[c].session
           w == req[c].shard
<1>1. /\ req[c].at = "reply" /\ Answered(c) /\ GatewayTypeOK /\ PoolInv
      /\ UNCHANGED <<poolVars, opened, holder, events>>
      /\ routes' = IF s # NoSession THEN Put(s, w, restarts[w]) ELSE routes
      /\ given' = [given EXCEPT ![c] = IF s # NoSession THEN given[c] \cup {s} ELSE given[c]]
      /\ cookie' = [cookie EXCEPT ![c] = IF req[c].sets THEN w ELSE cookie[c]]
  BY DEF Reply, GInv
<1>2. /\ w \in Workers /\ s \in Sessions \cup {NoSession}
      /\ cookie[c] = IF req[c].sets THEN NoWorker ELSE w
      /\ s # NoSession => Opened(s) /\ holder[s][1] = w
      /\ restarts[w] \in Nat
      /\ given \in [Clients -> SUBSET Sessions]
      /\ cookie \in [Clients -> Workers \cup {NoWorker}]
  BY <1>1, Types DEF GInv, RequestInv, ReqInv, PoolInv, PoolTypeOK, GatewayTypeOK
<1>3. /\ req' \in [Clients -> ReqType] /\ finishing' \in Nat
      /\ req'[c] = Idle /\ \A d \in Clients \ {c} : req'[d] = req[d]
  <2>1. req' \in [Clients -> ReqType] /\ finishing' \in Nat
    BY <1>1, AnsweredReq
  <2>2. req \in [Clients -> ReqType] /\ req' = [req EXCEPT ![c] = Idle]
    BY <1>1, Types DEF Answered
  <2> QED
    BY <2>1, <2>2
<1> HIDE DEF s, w
<1>4. \A t : (Opened(t)' <=> Opened(t)) /\ (HolderRuns(t)' <=> HolderRuns(t))
  BY <1>1 DEF Opened, HolderRuns, Process, Alive, poolVars
<1>5. /\ routes' \in [Sessions -> [shard : Workers \cup {NoWorker}, generation : Nat,
                                    age : 0..(RouteLimit - 1)]]
      /\ \A t, u \in Sessions : routes'[t] # NoRoute /\ routes'[u] # NoRoute /\ t # u =>
             routes'[t].age # routes'[u].age
      /\ RouteInv'
  <2>1. CASE s = NoSession
    BY <1>1, <1>4, <2>1, SameRoutes DEF GInv, RouteInv, Known, poolVars
  <2>2. CASE s # NoSession
    <3>1. Entered(routes', s, w, restarts[w])
      <4>1. GatewayTypeOK /\ s \in Sessions /\ w \in Workers /\ restarts[w] \in Nat
        BY <1>1, <1>2, <2>2
      <4>2. Entered(Put(s, w, restarts[w]), s, w, restarts[w])
        BY <4>1, PutRoutes
      <4>3. routes' = Put(s, w, restarts[w])
        BY <1>1, <2>2 DEF s, w
      <4> QED
        BY ONLY <4>2, <4>3
    <3>2. RouteInv'
      BY <1>1, <1>2, <1>4, <2>2, <3>1 DEF GInv, RouteInv, Known, Entered, poolVars
    <3> QED
      BY <3>1, <3>2 DEF Entered
  <2> QED
    BY <2>1, <2>2
<1>6. GatewayTypeOK' /\ PoolInv'
  <2>1. PoolInv'
    BY <1>1 DEF PoolInv, PoolTypeOK, Alive, Reaped, poolVars
  <2>2. given' \in [Clients -> SUBSET Sessions] /\ cookie' \in [Clients -> Workers \cup {NoWorker}]
    BY <1>1, <1>2
  <2> QED
    BY <1>1, <1>3, <1>5, <2>1, <2>2 DEF GatewayTypeOK, PoolInv, Known, ReqType
<1>7. CookieInv'
  <2>1. cookie'[c] = w /\ \A t \in given'[c] : (t = s /\ s # NoSession) \/ t \in given[c]
    BY <1>1, <1>2
  <2>2. \A t \in given[c] : Opened(t) /\ w = holder[t][1]
    BY <1>2, NoWorkerIsNone DEF GInv, CookieInv, Opened
  <2>3. \A d \in Clients \ {c} : given'[d] = given[d] /\ cookie'[d] = cookie[d]
    BY <1>1, <1>2
  <2> QED
    BY <1>1, <1>2, <1>4, <2>1, <2>2, <2>3 DEF GInv, CookieInv
<1>8. RequestInv'
  <2>1. ReqInv(c)'
    BY <1>3 DEF ReqInv, Idle
  <2>2. ASSUME NEW d \in Clients \ {c} PROVE ReqInv(d)'
    <3>1. /\ req'[d] = req[d] /\ given'[d] = given[d] /\ cookie'[d] = cookie[d] /\ ReqInv(d)
      BY <1>1, <1>2, <1>3 DEF GInv, RequestInv
    <3> QED
      BY <1>1, <1>4, <3>1 DEF ReqInv
  <2> QED
    BY <2>1, <2>2 DEF RequestInv
<1> QED
  BY <1>5, <1>6, <1>7, <1>8 DEF GInv

LEMMA NextInv == GInv /\ [Next]_vars => GInv'
<1> SUFFICES ASSUME GInv, [Next]_vars PROVE GInv'
  OBVIOUS
<1>0. GatewayTypeOK /\ req \in [Clients -> ReqType]
  BY Types DEF GInv
<1>1. CASE PoolStep
  <2>1. events' \in [Workers -> 0..MaxEvents]
    BY <1>1, <1>0, GatewayAssumption DEF PoolStep, GatewayRests, GatewayTypeOK
  <2> QED
    BY <1>0, <1>1, <2>1, PoolKeeps DEF PoolStep, GatewayRests, PoolMove
<1>2. CASE ServerCloses
  <2>1. /\ UNCHANGED <<routes, opened, holder, events, cookie, given, finishing>>
        /\ StopServing
        /\ req' = [c \in Clients |-> IF req[c].at = "queued" THEN Idle ELSE req[c]]
    BY <1>2 DEF ServerCloses
  <2>2. req' \in [Clients -> ReqType] /\ \A c \in Clients : req'[c] = req[c] \/ req'[c] = Idle
    BY <1>0, <2>1, IdleType
  <2>3. events' \in [Workers -> 0..MaxEvents]
    BY <1>0, <2>1 DEF GatewayTypeOK
  <2> QED
    BY <2>1, <2>2, <2>3, PoolKeeps DEF PoolMove
<1>3. CASE PoolCloses
  <2>1. events' \in [Workers -> 0..MaxEvents]
    BY <1>0, <1>3 DEF PoolCloses, gatewayVars, GatewayTypeOK
  <2> QED
    BY <1>0, <1>3, <2>1, PoolKeeps DEF PoolCloses, PoolMove, gatewayVars
<1>4. CASE Release
  <2>1. finishing' \in Nat /\ UNCHANGED <<poolVars, routes, opened, holder, events, cookie, given, req>>
    BY <1>0, <1>4 DEF Release, GatewayTypeOK
  <2> QED
    BY <1>0, <2>1, SameRoutes, Frame
<1>5. ASSUME NEW c \in Clients, ClientStep(c) \/ ThreadStep(c) PROVE GInv'
  BY <1>5, SendInv, AnswerInv, GatherInv, RouteStaleInv, RouteKnownInv, RouteUnknownInv,
     UpstreamInv, ReplyInv DEF ThreadStep
<1>6. CASE UNCHANGED vars
  BY <1>0, <1>6, SameRoutes, Frame DEF vars, gatewayVars
<1> QED
  BY <1>1, <1>2, <1>3, <1>4, <1>5, <1>6 DEF Next

THEOREM GInvHolds == Spec => []GInv
<1>1. Init => GInv
  BY GInitInv
<1> QED
  BY <1>1, NextInv, PTL DEF Spec

-----------------------------------------------------------------------------
(* The gateway's dictionary of sessions keeps its limit and its order, and  *)
(* everything else has its type, in every reachable state.                  *)
THEOREM GatewayTypeCorrect == Spec => []GatewayTypeOK
<1>1. GInv => GatewayTypeOK
  BY DEF GInv
<1> QED
  BY <1>1, GInvHolds, PTL

(* Whatever the monitor was doing when the pool was closed, at most one     *)
(* scorer process outlives it.                                              *)
THEOREM CloseLeavesOne == Spec => []CloseLeavesAtMostOne
<1>1. GInv => CloseLeavesAtMostOne
  BY DEF GInv, PoolInv, CloseLeavesAtMostOne, Reaped
<1> QED
  BY <1>1, GInvHolds, PTL

(* A request that names a feed session whose scorer process still runs is   *)
(* sent to that process, with its session.                                  *)
THEOREM AffinityHolds == Spec => []AffinityKept
<1> QED
  BY Affinity, GInvHolds, PTL
=============================================================================
