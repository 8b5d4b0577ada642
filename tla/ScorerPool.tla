----------------------------- MODULE ScorerPool -----------------------------
(***************************************************************************)
(* The pool of scorer processes of app/production_pool.py: start, the      *)
(* monitor thread that replaces dead scorers, and close.  Only the last    *)
(* process spawned for a worker can still be alive, because a new one is   *)
(* spawned only when the old one is gone.                                  *)
(***************************************************************************)
EXTENDS Integers, FiniteSets

CONSTANTS
    NWorkers,   \* size of the pool
    MaxFaults   \* bound: scorers that die, fall sick or load too long

ASSUME PoolAssumption == NWorkers \in Nat \ {0} /\ MaxFaults \in Nat

Workers == 1..NWorkers

VARIABLES
    inc,        \* inc[w]: processes spawned for w so far
    life,       \* life[w]: state of the last of them
    attached,   \* attached[w]: worker.process is that process (else None)
    restarts,   \* restarts[w]: worker.restarts
    closing,    \* the event _closing
    faults,     \* how many did so far
    monitor,    \* where the monitor thread is: <<place, worker>>
    main        \* where the main thread is: <<place, worker>>

poolVars == <<inc, life, attached, restarts, closing, faults, monitor, main>>

Life == {"none", "loading", "ready", "sick", "dead"}
Alive(w) == life[w] \in {"loading", "ready", "sick"}
\* process is not None and process.poll() is None
Running(w) == attached[w] /\ Alive(w)

PoolInit ==
    /\ inc = [w \in Workers |-> 0]
    /\ life = [w \in Workers |-> "none"]
    /\ attached = [w \in Workers |-> FALSE]
    /\ restarts = [w \in Workers |-> 0]
    /\ closing = FALSE
    /\ faults = 0
    /\ monitor = <<"off", 1>>
    /\ main = <<"spawn", 1>>

\* After worker w: the next of this loop, or the next place.
Advance(place, w, next) == IF w < NWorkers THEN <<place, w + 1>> ELSE <<next, 1>>

-----------------------------------------------------------------------------
\* The scorer processes, which may change at any time.

Spawned(w) ==
    /\ inc' = [inc EXCEPT ![w] = @ + 1]
    /\ life' = [life EXCEPT ![w] = "loading"]
    /\ attached' = [attached EXCEPT ![w] = TRUE]

Live(w, from, to) ==
    /\ life[w] \in from
    /\ life' = [life EXCEPT ![w] = to]
    /\ UNCHANGED <<inc, attached, restarts, closing, monitor, main>>

\* The Lab is loaded, its rules compiled and prewarmed: /health/ready is 200.
BecomesReady(w) == Live(w, {"loading"}, "ready") /\ UNCHANGED faults

\* The proof worker inside the scorer is lost and not recovered: the process
\* runs on, /health/ready is 503.
Faulty == faults < MaxFaults /\ faults' = faults + 1
BecomesSick(w) == Live(w, {"ready"}, "sick") /\ Faulty
Crash(w) == Live(w, {"loading", "ready", "sick"}, "dead") /\ Faulty

-----------------------------------------------------------------------------
\* start(): spawn all, wait for all, start the monitor.  Any error closes.

StartSpawn(w) ==
    /\ main = <<"spawn", w>>
    /\ Spawned(w)
    /\ main' = Advance("spawn", w, "ready")
    /\ UNCHANGED <<restarts, closing, faults, monitor>>

\* _wait_ready returns for w; after the last one the monitor starts.
StartReady(w) ==
    /\ main = <<"ready", w>>
    /\ Running(w)
    /\ life[w] = "ready"
    /\ main' = Advance("ready", w, "bind")
    /\ monitor' = IF w = NWorkers THEN <<"scan", 1>> ELSE monitor
    /\ UNCHANGED <<inc, life, attached, restarts, closing, faults>>

\* Popen raises, a scorer exits during startup or its deadline passes.
StartFails(w) ==
    /\ \/ main = <<"spawn", w>>
       \/ main = <<"ready", w>> /\ life[w] # "ready"
    /\ closing' = TRUE
    /\ main' = <<"signal", 1>>
    /\ UNCHANGED <<inc, life, attached, restarts, monitor, faults>>

\* serve_pool: the gateway's socket is bound after the pool started and
\* outside of the try block that closes the pool.
Bind ==
    /\ main = <<"bind", 1>>
    /\ main' \in {<<"serve", 1>>, <<"crashed", 1>>}
    /\ UNCHANGED <<inc, life, attached, restarts, closing, faults, monitor>>

-----------------------------------------------------------------------------
\* _monitor_loop.  The lock is never contended by close(), which does not take
\* it: the test of _closing and the spawn after it are two steps.

\* Mutant of MonitorSees: a worker without a process is passed over.
MonitorSeesNone(w) ==
    /\ monitor = <<"scan", w>>
    /\ Running(w) \/ ~attached[w]
    /\ monitor' = Advance("scan", w, "wait")
    /\ UNCHANGED <<inc, life, attached, restarts, closing, faults, main>>

MonitorSees(w) ==
    /\ monitor = <<"scan", w>>
    /\ Running(w)
    /\ monitor' = Advance("scan", w, "wait")
    /\ UNCHANGED <<inc, life, attached, restarts, closing, faults, main>>

\* Mutant of MonitorTests: _closing is tested between two rounds only.
MonitorTestsNot(w) ==
    /\ monitor = <<"scan", w>>
    /\ ~Running(w)
    /\ monitor' = <<"spawn", w>>
    /\ UNCHANGED <<inc, life, attached, restarts, closing, faults, main>>

MonitorTests(w) ==
    /\ monitor = <<"scan", w>>
    /\ ~Running(w)
    /\ monitor' = IF closing THEN <<"stopped", 1>> ELSE <<"spawn", w>>
    /\ UNCHANGED <<inc, life, attached, restarts, closing, faults, main>>

MonitorSpawns(w) ==
    /\ monitor = <<"spawn", w>>
    /\ restarts' = [restarts EXCEPT ![w] = @ + 1]
    /\ Spawned(w)
    /\ monitor' = <<"ready", w>>
    /\ UNCHANGED <<closing, faults, main>>

\* Popen raises: nothing catches it in the thread.
MonitorBreaks(w) ==
    /\ monitor = <<"spawn", w>>
    /\ restarts' = [restarts EXCEPT ![w] = @ + 1]
    /\ monitor' = <<"broken", 1>>
    /\ UNCHANGED <<inc, life, attached, closing, faults, main>>

MonitorReady(w) ==
    /\ monitor = <<"ready", w>>
    /\ Running(w)
    /\ life[w] = "ready"
    /\ monitor' = Advance("scan", w, "wait")
    /\ UNCHANGED <<inc, life, attached, restarts, closing, faults, main>>

\* The scorer exited or was not ready in time: _terminate, and the next worker.
MonitorGivesUp(w) ==
    /\ monitor = <<"ready", w>>
    /\ life[w] # "ready"
    /\ IF life[w] = "loading" THEN Faulty ELSE UNCHANGED faults
    /\ life' = [life EXCEPT ![w] = "dead"]
    /\ attached' = [attached EXCEPT ![w] = FALSE]
    /\ monitor' = Advance("scan", w, "wait")
    /\ UNCHANGED <<inc, restarts, closing, main>>

MonitorWakes ==
    /\ monitor = <<"wait", 1>>
    /\ monitor' = IF closing THEN <<"stopped", 1>> ELSE <<"scan", 1>>
    /\ UNCHANGED <<inc, life, attached, restarts, closing, faults, main>>

-----------------------------------------------------------------------------
\* serve_pool's finally block: server_close() waits for the requests being
\* served ("drain", the guard is the gateway's), then close().
StopServing ==
    /\ main = <<"serve", 1>>
    /\ main' = <<"drain", 1>>
    /\ UNCHANGED <<inc, life, attached, restarts, closing, faults, monitor>>

BeginClose ==
    /\ main = <<"drain", 1>>
    /\ closing' = TRUE
    /\ main' = <<"signal", 1>>
    /\ UNCHANGED <<inc, life, attached, restarts, monitor, faults>>

\* close(): SIGTERM to every process there is, then wait for each, at last
\* with SIGKILL.  SIGTERM ends a scorer at once or not before the wait.

CloseSignals(w) ==
    /\ main = <<"signal", w>>
    /\ \/ life' = [life EXCEPT ![w] = IF Running(w) THEN "dead" ELSE @]
       \/ UNCHANGED life
    /\ main' = Advance("signal", w, "reap")
    /\ UNCHANGED <<inc, attached, restarts, closing, faults, monitor>>

CloseReaps(w) ==
    /\ main = <<"reap", w>>
    /\ life' = [life EXCEPT ![w] = IF Running(w) THEN "dead" ELSE @]
    /\ main' = Advance("reap", w, "closed")
    /\ UNCHANGED <<inc, attached, restarts, closing, faults, monitor>>

Exit ==
    /\ main = <<"closed", 1>>
    /\ main' = <<"exited", 1>>
    /\ UNCHANGED <<inc, life, attached, restarts, closing, faults, monitor>>

\* The interpreter exits: the monitor is a daemon thread and ends with it.
Over == main[1] \in {"exited", "crashed"}

ScorerStep(w) == BecomesReady(w) \/ BecomesSick(w) \/ Crash(w)
MonitorStep ==
    /\ ~Over
    /\ \/ MonitorWakes
       \/ \E w \in Workers :
            MonitorSees(w) \/ MonitorTests(w) \/ MonitorSpawns(w)
              \/ MonitorBreaks(w) \/ MonitorReady(w) \/ MonitorGivesUp(w)
MainStep ==
    \/ Bind
    \/ Exit
    \/ \E w \in Workers :
         StartSpawn(w) \/ StartReady(w) \/ StartFails(w)
           \/ CloseSignals(w) \/ CloseReaps(w)

PoolNext == MonitorStep \/ MainStep \/ \E w \in Workers : ScorerStep(w)

-----------------------------------------------------------------------------
(* The types of the pool's state.                                          *)
PoolTypeOK ==
    /\ inc \in [Workers -> Nat]
    /\ life \in [Workers -> Life]
    /\ attached \in [Workers -> BOOLEAN]
    /\ restarts \in [Workers -> Nat]
    /\ closing \in BOOLEAN
    /\ faults \in 0..MaxFaults
    /\ monitor \in {"off", "scan", "spawn", "ready", "wait", "stopped", "broken"}
                    \X Workers
    /\ main \in {"spawn", "ready", "bind", "serve", "drain", "signal", "reap", "closed",
                  "exited", "crashed"} \X Workers

(* close() races with the monitor thread, whose lock it does not take: a   *)
(* replacement may outlive the pool, but never more than the one that the  *)
(* monitor had decided on when the close began.                            *)
CloseLeavesAtMostOne ==
    main[1] = "exited" =>
        \A v, w \in Workers : Alive(v) /\ Alive(w) => v = w

(* A scorer that died is replaced while the pool serves, unless starting a *)
(* process fails in the monitor, which ends it.                            *)
ScorerReplaced ==
    \A w \in Workers :
        life[w] = "dead" /\ main[1] = "serve" ~>
            life[w] \in {"ready", "sick"} \/ main[1] # "serve"
              \/ monitor[1] = "broken"
=============================================================================
