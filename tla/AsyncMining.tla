----------------------------- MODULE AsyncMining -----------------------------
(***************************************************************************)
(* The single-flight mining coordinator, AsyncMiningCoordinator in         *)
(* app/async_mining.py.  Requests (schedule) bump an epoch and start at    *)
(* most one worker thread; the thread runs attempts (capture, build,       *)
(* promote, dispose) and then decides, from the should_retrigger callback  *)
(* and the epoch, whether to run another attempt or to go idle.            *)
(*                                                                         *)
(* Every critical section of the coordinator's lock is one action.  The    *)
(* callbacks run outside the lock: each is an action of its own, whose     *)
(* result is the environment's choice.  Timestamps, error texts and the    *)
(* status counters no decision reads are left out; _failures is kept.      *)
(***************************************************************************)
EXTENDS Naturals

CONSTANTS
    Worker,          \* identities of _run threads; a finished one may be reused
    Waiter,          \* callers of wait()
    TimedWaiter,     \* the waiters that gave a timeout
    MaxEpoch,        \* bound on the number of schedule() calls
    Fault            \* which callbacks may raise

ASSUME WaiterAssumption == TimedWaiter \subseteq Waiter
ASSUME WorkerAssumption == Worker # {}
ASSUME MaxEpochAssumption == MaxEpoch \in Nat
ASSUME FaultAssumption == Fault \subseteq {"capture", "build", "promote", "dispose"}

VARIABLES
    closed,          \* _closed
    running,         \* _running
    epoch,           \* _request_epoch
    failures,        \* _failures
    lastError,       \* _last_error is not None
    pc,              \* where each _run thread stands; "idle": no such thread
    attemptEpoch,    \* attempt_epoch of each thread
    failed,          \* failed of each thread
    replacement,     \* what became of the object the attempt's build returned
    observed,        \* observed_epoch, then decision_epoch, of each thread
    needed,          \* the last answer of should_retrigger
    waiter           \* the callers of wait()

threadVars == <<attemptEpoch, failed, replacement, observed, needed>>
coordVars  == <<closed, running, epoch, failures, lastError, pc, threadVars, waiter>>

PC == {"idle", "attempt", "capture", "build", "check", "promote", "dispose",
       "dispose_failed", "publish", "observe", "ask", "validate", "decide"}

TypeOK ==
    /\ closed \in BOOLEAN
    /\ running \in BOOLEAN
    /\ epoch \in Nat
    /\ failures \in Nat
    /\ lastError \in BOOLEAN
    /\ pc \in [Worker -> PC]
    /\ attemptEpoch \in [Worker -> Nat]
    /\ failed \in [Worker -> BOOLEAN]
    /\ replacement \in [Worker -> {"none", "live", "adopted", "disposed"}]
    /\ observed \in [Worker -> Nat]
    /\ needed \in [Worker -> BOOLEAN]
    /\ waiter \in [Waiter -> {"outside", "blocked", "woken", "returned", "expired"}]

CoordInit ==
    /\ closed = FALSE
    /\ running = FALSE
    /\ epoch = 0
    /\ failures = 0
    /\ lastError = FALSE
    /\ pc = [w \in Worker |-> "idle"]
    /\ attemptEpoch = [w \in Worker |-> 0]
    /\ failed = [w \in Worker |-> FALSE]
    /\ replacement = [w \in Worker |-> "none"]
    /\ observed = [w \in Worker |-> 0]
    /\ needed = [w \in Worker |-> FALSE]
    /\ waiter = [c \in Waiter |-> "outside"]

Goto(w, from, to) == pc[w] = from /\ pc' = [pc EXCEPT ![w] = to]

(* notify_all: every blocked waiter re-enters the loop of wait().          *)
NotifyAll == waiter' = [c \in Waiter |-> IF waiter[c] = "blocked" THEN "woken" ELSE waiter[c]]

-----------------------------------------------------------------------------
(* schedule(), wait() and close()                                          *)

ScheduleCoalesced ==
    /\ ~closed /\ running
    /\ epoch < MaxEpoch
    /\ epoch' = epoch + 1
    /\ UNCHANGED <<closed, running, failures, lastError, pc, threadVars, waiter>>

(* Mutant: without "if self._running: return False".                       *)
ScheduleStartsAnyway(w) ==
    /\ ~closed
    /\ epoch < MaxEpoch
    /\ epoch' = epoch + 1
    /\ running' = TRUE
    /\ lastError' = FALSE
    /\ Goto(w, "idle", "attempt")
    /\ UNCHANGED <<closed, failures, threadVars, waiter>>

ScheduleStarts(w) ==
    /\ ~closed /\ ~running
    /\ epoch < MaxEpoch
    /\ epoch' = epoch + 1
    /\ running' = TRUE
    /\ lastError' = FALSE
    /\ Goto(w, "idle", "attempt")
    /\ UNCHANGED <<closed, failures, threadVars, waiter>>

Schedule == ScheduleCoalesced \/ \E w \in Worker : ScheduleStarts(w)

(* wait(): the test of _running under the condition's lock, on entry and   *)
(* after each wake-up; with a timeout it gives up while still running.     *)
WaitTests(c) ==
    /\ waiter[c] \in {"outside", "woken"}
    /\ waiter' = [waiter EXCEPT ![c] = IF running THEN "blocked" ELSE "returned"]
    /\ UNCHANGED <<closed, running, epoch, failures, lastError, pc, threadVars>>

WaitExpires(c) ==
    /\ c \in TimedWaiter
    /\ waiter[c] \in {"blocked", "woken"}
    /\ running
    /\ waiter' = [waiter EXCEPT ![c] = "expired"]
    /\ UNCHANGED <<closed, running, epoch, failures, lastError, pc, threadVars>>

CloseCoordinator ==
    /\ ~closed
    /\ closed' = TRUE
    /\ NotifyAll
    /\ UNCHANGED <<running, epoch, failures, lastError, pc, threadVars>>

-----------------------------------------------------------------------------
(* One attempt of _run                                                     *)

BeginAttempt(w) ==
    /\ Goto(w, "attempt", "capture")
    /\ attemptEpoch' = [attemptEpoch EXCEPT ![w] = epoch]
    /\ failed' = [failed EXCEPT ![w] = FALSE]
    /\ replacement' = [replacement EXCEPT ![w] = "none"]
    /\ UNCHANGED <<closed, running, epoch, failures, lastError, observed, needed, waiter>>

CaptureReturns(w) ==
    /\ Goto(w, "capture", "build")
    /\ UNCHANGED <<closed, running, epoch, failures, lastError, threadVars, waiter>>

(* A callback that raises before a replacement exists: nothing to dispose. *)
RaisesUnbuilt(w, callback) ==
    /\ callback \in Fault
    /\ Goto(w, callback, "publish")
    /\ failed' = [failed EXCEPT ![w] = TRUE]
    /\ UNCHANGED <<closed, running, epoch, failures, lastError, attemptEpoch, replacement,
                   observed, needed, waiter>>

CaptureRaises(w) == RaisesUnbuilt(w, "capture")
BuildRaises(w)   == RaisesUnbuilt(w, "build")

BuildReturns(w) ==
    /\ Goto(w, "build", "check")
    /\ replacement' = [replacement EXCEPT ![w] = "live"]
    /\ UNCHANGED <<closed, running, epoch, failures, lastError, attemptEpoch, failed, observed,
                   needed, waiter>>

(* _closed is read under the lock; the promotion follows outside of it.    *)
CheckClosed(w) ==
    /\ Goto(w, "check", IF closed THEN "dispose" ELSE "promote")
    /\ UNCHANGED <<closed, running, epoch, failures, lastError, threadVars, waiter>>

PromoteAccepts(w) ==
    /\ Goto(w, "promote", "publish")
    /\ replacement' = [replacement EXCEPT ![w] = "adopted"]
    /\ UNCHANGED <<closed, running, epoch, failures, lastError, attemptEpoch, failed, observed,
                   needed, waiter>>

PromoteRejects(w) ==
    /\ Goto(w, "promote", "dispose")
    /\ UNCHANGED <<closed, running, epoch, failures, lastError, threadVars, waiter>>

(* A callback that raises while the replacement is live: the handler calls *)
(* dispose (again), and swallows what that call raises.                    *)
RaisesBuilt(w, callback) ==
    /\ callback \in Fault
    /\ Goto(w, callback, "dispose_failed")
    /\ failed' = [failed EXCEPT ![w] = TRUE]
    /\ UNCHANGED <<closed, running, epoch, failures, lastError, attemptEpoch, replacement,
                   observed, needed, waiter>>

(* Mutant: the error path forgets the object that was built.               *)
PromoteRaisesUndisposed(w) == RaisesUnbuilt(w, "promote")

PromoteRaises(w) == RaisesBuilt(w, "promote")
DisposeRaises(w) == RaisesBuilt(w, "dispose")

DisposeFrom(w, from) ==
    /\ Goto(w, from, "publish")
    /\ replacement' = [replacement EXCEPT ![w] = "disposed"]
    /\ UNCHANGED <<closed, running, epoch, failures, lastError, attemptEpoch, failed, observed,
                   needed, waiter>>

DisposeReturns(w)    == DisposeFrom(w, "dispose")
DisposeAfterError(w) == DisposeFrom(w, "dispose_failed")

PublishOutcome(w) ==
    /\ Goto(w, "publish", "observe")
    /\ failures' = IF failed[w] THEN failures + 1 ELSE failures
    /\ lastError' = failed[w]
    /\ UNCHANGED <<closed, running, epoch, threadVars, waiter>>

-----------------------------------------------------------------------------
(* _stable_retrigger_decision and the loop around it                       *)

ObserveEpoch(w) ==
    /\ Goto(w, "observe", IF closed THEN "decide" ELSE "ask")
    /\ observed' = [observed EXCEPT ![w] = epoch]
    /\ UNCHANGED <<closed, running, epoch, failures, lastError, attemptEpoch, failed,
                   replacement, needed, waiter>>

RetriggerAnswers(w, answer) ==
    /\ Goto(w, "ask", "validate")
    /\ needed' = [needed EXCEPT ![w] = answer]
    /\ UNCHANGED <<closed, running, epoch, failures, lastError, attemptEpoch, failed,
                   replacement, observed, waiter>>

ValidateEpoch(w) ==
    /\ Goto(w, "validate", IF closed \/ observed[w] = epoch THEN "decide" ELSE "observe")
    /\ UNCHANGED <<closed, running, epoch, failures, lastError, threadVars, waiter>>

(* Mutant: a failed attempt is retried as long as work is due.             *)
RetryHot(w) == needed[w]

(* A failed attempt is retried only for a request newer than the attempt.  *)
Retry(w) == needed[w] /\ (failed[w] => observed[w] > attemptEpoch[w])

(* Mutant: goes idle without comparing the epochs under the lock.          *)
GoIdleUnchecked(w) ==
    /\ closed \/ ~Retry(w)
    /\ Goto(w, "decide", "idle")
    /\ running' = FALSE
    /\ NotifyAll
    /\ UNCHANGED <<closed, epoch, failures, lastError, threadVars>>

(* Mutant: without notify_all.                                             *)
GoIdleSilently(w) ==
    /\ closed \/ (observed[w] = epoch /\ ~Retry(w))
    /\ Goto(w, "decide", "idle")
    /\ running' = FALSE
    /\ UNCHANGED <<closed, epoch, failures, lastError, threadVars, waiter>>

GoIdle(w) ==
    /\ closed \/ (observed[w] = epoch /\ ~Retry(w))
    /\ Goto(w, "decide", "idle")
    /\ running' = FALSE
    /\ NotifyAll
    /\ UNCHANGED <<closed, epoch, failures, lastError, threadVars>>

Reobserve(w) ==
    /\ ~closed /\ observed[w] # epoch
    /\ Goto(w, "decide", "observe")
    /\ UNCHANGED <<closed, running, epoch, failures, lastError, threadVars, waiter>>

Retrigger(w) ==
    /\ ~closed /\ observed[w] = epoch /\ Retry(w)
    /\ Goto(w, "decide", "attempt")
    /\ UNCHANGED <<closed, running, epoch, failures, lastError, threadVars, waiter>>

-----------------------------------------------------------------------------
(* The steps of a thread that need nothing of the caller's callbacks, and  *)
(* the coordinator on its own, under callbacks that may answer anything.   *)
InternalStep(w) ==
    \/ BeginAttempt(w) \/ CheckClosed(w) \/ PublishOutcome(w)
    \/ ObserveEpoch(w) \/ ValidateEpoch(w)
    \/ GoIdle(w) \/ Reobserve(w) \/ Retrigger(w)

CallbackStep(w) ==
    \/ CaptureReturns(w) \/ CaptureRaises(w)
    \/ BuildReturns(w) \/ BuildRaises(w)
    \/ PromoteAccepts(w) \/ PromoteRejects(w) \/ PromoteRaises(w)
    \/ DisposeReturns(w) \/ DisposeRaises(w) \/ DisposeAfterError(w)
    \/ \E answer \in BOOLEAN : RetriggerAnswers(w, answer)

ThreadStep(w) == InternalStep(w) \/ CallbackStep(w)
WaiterStep(c) == WaitTests(c) \/ WaitExpires(c)

CoordNext ==
    \/ Schedule
    \/ CloseCoordinator
    \/ \E w \in Worker : ThreadStep(w)
    \/ \E c \in Waiter : WaiterStep(c)

CoordSpec == CoordInit /\ [][CoordNext]_coordVars

(* A started thread runs, its callbacks return, and a woken waiter runs.   *)
CoordFairness ==
    /\ \A w \in Worker : WF_coordVars(ThreadStep(w))
    /\ \A c \in Waiter : WF_coordVars(waiter[c] = "woken" /\ WaitTests(c))

CoordFairSpec == CoordSpec /\ CoordFairness

-----------------------------------------------------------------------------
(* Safety                                                                  *)

Active(w) == pc[w] # "idle"
Settled(w) == pc[w] \in {"publish", "observe", "ask", "validate", "decide", "idle"}

(* At most one _run thread exists, and _running tells exactly whether it   *)
(* does ("Run at most one background model build"): a request that sees    *)
(* _running may rely on a thread that will still look at its epoch.        *)
SingleFlight ==
    /\ running <=> \E w \in Worker : Active(w)
    /\ \A v, w \in Worker : Active(v) /\ Active(w) => v = w

(* A thread goes idle only on an answer of should_retrigger that is newer  *)
(* than every request, and that answer was no, or the attempt it follows   *)
(* failed and no request came since: no trigger is lost.                   *)
IdleIsJustified ==
    ~running /\ ~closed /\ epoch > 0 =>
        \E w \in Worker : /\ observed[w] = epoch
                          /\ needed[w] => failed[w] /\ attemptEpoch[w] = epoch

(* A permanent miner error never becomes a hot loop: every failed attempt  *)
(* consumes a request of its own.                                          *)
FailuresBounded == failures <= epoch

(* Whatever the callbacks raise, a built replacement is promoted or        *)
(* disposed of before the outcome of its attempt is published.             *)
NoLeakedBuild == \A w \in Worker : Settled(w) => replacement[w] # "live"

(* A caller is asleep in wait() only while a thread exists to wake it.     *)
NoStrandedWaiter == \A c \in Waiter : waiter[c] = "blocked" => running

(* A replacement that was adopted is never disposed of, and a disposed one *)
(* is never adopted: neither happens to one object.                        *)
FateIsFinal ==
    [][\A w \in Worker : replacement[w] \in {"adopted", "disposed"} =>
            replacement'[w] \in {replacement[w], "none"}]_coordVars

(* Liveness: after close() the thread finishes and every waiter returns.   *)
ClosedQuiesces == closed ~> (~running /\ \A c \in Waiter : waiter[c] \notin {"blocked", "woken"})

(* Liveness: each request is followed by an attempt that started at or     *)
(* after it, or by an answer of should_retrigger given at or after it.     *)
RequestAnswered ==
    \A e \in 1..MaxEpoch :
        epoch >= e ~> \/ closed
                      \/ \E w \in Worker : \/ attemptEpoch[w] >= e
                                           \/ observed[w] >= e /\ pc[w] # "ask"
=============================================================================
