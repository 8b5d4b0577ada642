------------------------------ MODULE LabProofs ------------------------------
(*****************************************************************************)
(* Theorems about the Lab and what is beside it: live mining, the frozen    *)
(* model, the semantic previews and the relational evidence.                *)
(*                                                                          *)
(* Live mining comes in two parts.  The coordinator: its safety for every   *)
(* number of threads, waiters and requests, and whatever its callbacks return *)
(* or raise.  The Lab, for every number of events, configurations and       *)
(* engines: every step of the Lab is a step of the coordinator or leaves it *)
(* alone, so what is proved of the coordinator holds here; LabInv adds what *)
(* the Lab's counters, engines and snapshots keep.                          *)
(*****************************************************************************)
EXTENDS BackgroundMining, FrozenModel, SemanticPreview, RelationalProjection, FoldFacts,
        SequenceTheorems, FunctionTheorems, TLAPS

-----------------------------------------------------------------------------
(* The coordinator                                                         *)

Attempting == {"capture", "build", "check", "promote", "dispose", "dispose_failed", "publish"}
Deciding   == {"observe", "ask", "validate", "decide"}
Holding    == {"check", "promote", "dispose", "dispose_failed"}

(* The replacement is live exactly while the thread has to settle it.      *)
Owned(w) ==
    /\ replacement[w] = "live" <=> pc[w] \in Holding
    /\ pc[w] \in {"capture", "build"} => replacement[w] = "none"

(* The request each failure has consumed: a thread about to attempt has    *)
(* one more request than there were failures, and spends it when it fails. *)
Budget(w) ==
    /\ attemptEpoch[w] <= epoch
    /\ pc[w] = "attempt" => failures < epoch
    /\ pc[w] \in Attempting => failures < attemptEpoch[w]
    /\ pc[w] \in Deciding => /\ failures <= attemptEpoch[w]
                             /\ ~failed[w] => failures < attemptEpoch[w]

IndInv ==
    /\ TypeOK
    /\ SingleFlight
    /\ NoStrandedWaiter
    /\ \A w \in Worker : Owned(w) /\ Budget(w)
    /\ FailuresBounded
    /\ IdleIsJustified

(* What every thread step shares that neither starts nor ends a thread and *)
(* leaves the requests and the failures alone.                             *)
ThreadMove(w, to) ==
    /\ pc[w] # "idle" /\ to # "idle"
    /\ pc' = [pc EXCEPT ![w] = to]
    /\ UNCHANGED <<closed, running, epoch, waiter>>

LEMMA MoveKeepsFlight ==
    ASSUME IndInv, NEW w \in Worker, NEW to \in PC, ThreadMove(w, to)
    PROVE  /\ running /\ SingleFlight' /\ NoStrandedWaiter' /\ IdleIsJustified'
           /\ \A v \in Worker \ {w} : pc[v] = "idle" /\ pc'[v] = "idle"
<1>1. /\ running
      /\ \A v \in Worker \ {w} : pc[v] = "idle" /\ pc'[v] = "idle"
  BY DEF IndInv, TypeOK, SingleFlight, Active, ThreadMove
<1>2. SingleFlight'
  BY <1>1 DEF IndInv, TypeOK, SingleFlight, Active, ThreadMove
<1>3. NoStrandedWaiter' /\ IdleIsJustified'
  BY <1>1 DEF IndInv, NoStrandedWaiter, IdleIsJustified, ThreadMove
<1> QED
  BY <1>1, <1>2, <1>3

LEMMA InitIndInv == CoordInit => IndInv
<1> SUFFICES ASSUME CoordInit PROVE IndInv
  OBVIOUS
<1> USE DEF CoordInit
<1>1. TypeOK
  BY DEF TypeOK, PC
<1>2. SingleFlight
  BY DEF SingleFlight, Active
<1>3. NoStrandedWaiter /\ FailuresBounded /\ IdleIsJustified
  BY DEF NoStrandedWaiter, FailuresBounded, IdleIsJustified
<1>4. \A w \in Worker : Owned(w)
  BY DEF Owned, Holding
<1>5. ASSUME NEW w \in Worker PROVE Budget(w)
  <2>1. epoch = 0 /\ attemptEpoch[w] = 0 /\ pc[w] = "idle"
    OBVIOUS
  <2> HIDE DEF CoordInit
  <2> QED
    BY <2>1 DEF Budget, Attempting, Deciding
<1> QED
  BY <1>1, <1>2, <1>3, <1>4, <1>5 DEF IndInv

LEMMA ScheduleKeeps == ASSUME IndInv, Schedule PROVE IndInv'
<1> USE DEF threadVars
<1>0. TypeOK /\ SingleFlight /\ NoStrandedWaiter /\ FailuresBounded
      /\ \A w \in Worker : Owned(w) /\ Budget(w)
  BY DEF IndInv
<1>1. CASE ScheduleCoalesced
  <2> USE <1>1 DEF ScheduleCoalesced
  <2>1. TypeOK'
    BY <1>0 DEF TypeOK
  <2>2. SingleFlight' /\ NoStrandedWaiter' /\ IdleIsJustified'
    BY <1>0 DEF SingleFlight, Active, NoStrandedWaiter, IdleIsJustified
  <2>3. \A w \in Worker : Owned(w)'
    BY <1>0 DEF Owned
  <2>4. FailuresBounded' /\ \A w \in Worker : Budget(w)'
    BY <1>0 DEF TypeOK, FailuresBounded, Budget
  <2> QED
    BY <2>1, <2>2, <2>3, <2>4 DEF IndInv
<1>2. ASSUME NEW w \in Worker, ScheduleStarts(w) PROVE IndInv'
  <2> USE <1>2 DEF ScheduleStarts, Goto
  <2>1. TypeOK'
    <3>1. pc' \in [Worker -> PC] /\ epoch' \in Nat
      BY <1>0 DEF TypeOK, PC
    <3> QED
      BY <1>0, <3>1 DEF TypeOK
  <2>2. SingleFlight'
    BY <1>0 DEF TypeOK, SingleFlight, Active
  <2>3. NoStrandedWaiter' /\ IdleIsJustified' /\ FailuresBounded'
    BY <1>0 DEF TypeOK, NoStrandedWaiter, IdleIsJustified, FailuresBounded
  <2>4. \A v \in Worker : Owned(v)' /\ Budget(v)'
    BY <1>0 DEF TypeOK, FailuresBounded, Owned, Budget, Holding, Attempting, Deciding
  <2> QED
    BY <2>1, <2>2, <2>3, <2>4 DEF IndInv
<1> QED
  BY <1>1, <1>2 DEF Schedule

LEMMA CallerKeeps ==
    ASSUME IndInv, CloseCoordinator \/ \E c \in Waiter : WaiterStep(c)
    PROVE  IndInv'
<1> USE DEF threadVars
<1>0. TypeOK /\ SingleFlight /\ NoStrandedWaiter /\ FailuresBounded /\ IdleIsJustified
      /\ \A w \in Worker : Owned(w) /\ Budget(w)
  BY DEF IndInv
<1>1. /\ UNCHANGED <<running, epoch, failures, lastError, pc, threadVars>>
      /\ closed' \in BOOLEAN /\ (closed => closed')
      /\ waiter' \in [Waiter -> {"outside", "blocked", "woken", "returned", "expired"}]
      /\ \A c \in Waiter : waiter'[c] = "blocked" => waiter[c] = "blocked" \/ running
  BY <1>0 DEF CloseCoordinator, NotifyAll, WaiterStep, WaitTests, WaitExpires, TypeOK
<1>2. TypeOK'
  BY <1>0, <1>1 DEF TypeOK
<1>3. SingleFlight' /\ NoStrandedWaiter' /\ IdleIsJustified'
  BY <1>0, <1>1 DEF SingleFlight, Active, NoStrandedWaiter, IdleIsJustified
<1>4. FailuresBounded' /\ \A w \in Worker : Owned(w)' /\ Budget(w)'
  BY <1>0, <1>1 DEF FailuresBounded, Owned, Budget
<1> QED
  BY <1>2, <1>3, <1>4 DEF IndInv

LEMMA InternalKeeps == ASSUME IndInv, NEW w \in Worker, InternalStep(w) PROVE IndInv'
<1> USE DEF threadVars, Goto
<1>0. TypeOK /\ SingleFlight /\ NoStrandedWaiter /\ FailuresBounded
      /\ \A v \in Worker : Owned(v) /\ Budget(v)
  BY DEF IndInv
<1>1. CASE BeginAttempt(w)
  <2> USE <1>1 DEF BeginAttempt
  <2>1. TypeOK' /\ ThreadMove(w, "capture")
    BY <1>0 DEF TypeOK, PC, ThreadMove
  <2>2. running /\ SingleFlight' /\ NoStrandedWaiter' /\ IdleIsJustified'
        /\ \A v \in Worker \ {w} : pc[v] = "idle" /\ pc'[v] = "idle"
    BY <2>1, MoveKeepsFlight DEF PC
  <2>3. FailuresBounded' /\ \A v \in Worker : Owned(v)' /\ Budget(v)'
    BY <1>0, <2>2 DEF TypeOK, FailuresBounded, Owned, Budget, Holding, Attempting, Deciding
  <2> QED
    BY <2>1, <2>2, <2>3 DEF IndInv
<1>2. CASE CheckClosed(w)
  <2> USE <1>2 DEF CheckClosed
  <2>1. TypeOK' /\ ThreadMove(w, IF closed THEN "dispose" ELSE "promote")
    BY <1>0 DEF TypeOK, PC, ThreadMove
  <2>2. running /\ SingleFlight' /\ NoStrandedWaiter' /\ IdleIsJustified'
        /\ \A v \in Worker \ {w} : pc[v] = "idle" /\ pc'[v] = "idle"
    BY <2>1, MoveKeepsFlight DEF PC
  <2>3. FailuresBounded' /\ \A v \in Worker : Owned(v)' /\ Budget(v)'
    BY <1>0, <2>2 DEF TypeOK, FailuresBounded, Owned, Budget, Holding, Attempting, Deciding
  <2> QED
    BY <2>1, <2>2, <2>3 DEF IndInv
<1>3. CASE PublishOutcome(w)
  <2> USE <1>3 DEF PublishOutcome
  <2>1. TypeOK' /\ ThreadMove(w, "observe")
    BY <1>0 DEF TypeOK, PC, ThreadMove
  <2>2. running /\ SingleFlight' /\ NoStrandedWaiter' /\ IdleIsJustified'
        /\ \A v \in Worker \ {w} : pc[v] = "idle" /\ pc'[v] = "idle"
    BY <2>1, MoveKeepsFlight DEF PC
  <2>3. FailuresBounded' /\ \A v \in Worker : Owned(v)' /\ Budget(v)'
    BY <1>0, <2>2 DEF TypeOK, FailuresBounded, Owned, Budget, Holding, Attempting, Deciding
  <2> QED
    BY <2>1, <2>2, <2>3 DEF IndInv
<1>4. CASE ObserveEpoch(w)
  <2> USE <1>4 DEF ObserveEpoch
  <2>1. TypeOK' /\ ThreadMove(w, IF closed THEN "decide" ELSE "ask")
    BY <1>0 DEF TypeOK, PC, ThreadMove
  <2>2. running /\ SingleFlight' /\ NoStrandedWaiter' /\ IdleIsJustified'
        /\ \A v \in Worker \ {w} : pc[v] = "idle" /\ pc'[v] = "idle"
    BY <2>1, MoveKeepsFlight DEF PC
  <2>3. FailuresBounded' /\ \A v \in Worker : Owned(v)' /\ Budget(v)'
    BY <1>0, <2>2 DEF TypeOK, FailuresBounded, Owned, Budget, Holding, Attempting, Deciding
  <2> QED
    BY <2>1, <2>2, <2>3 DEF IndInv
<1>5. CASE ValidateEpoch(w)
  <2> USE <1>5 DEF ValidateEpoch
  <2>1. TypeOK' /\ ThreadMove(w, IF closed \/ observed[w] = epoch THEN "decide" ELSE "observe")
    BY <1>0 DEF TypeOK, PC, ThreadMove
  <2>2. running /\ SingleFlight' /\ NoStrandedWaiter' /\ IdleIsJustified'
        /\ \A v \in Worker \ {w} : pc[v] = "idle" /\ pc'[v] = "idle"
    BY <2>1, MoveKeepsFlight DEF PC
  <2>3. FailuresBounded' /\ \A v \in Worker : Owned(v)' /\ Budget(v)'
    BY <1>0, <2>2 DEF TypeOK, FailuresBounded, Owned, Budget, Holding, Attempting, Deciding
  <2> QED
    BY <2>1, <2>2, <2>3 DEF IndInv
<1>6. CASE Reobserve(w)
  <2> USE <1>6 DEF Reobserve
  <2>1. TypeOK' /\ ThreadMove(w, "observe")
    BY <1>0 DEF TypeOK, PC, ThreadMove
  <2>2. running /\ SingleFlight' /\ NoStrandedWaiter' /\ IdleIsJustified'
        /\ \A v \in Worker \ {w} : pc[v] = "idle" /\ pc'[v] = "idle"
    BY <2>1, MoveKeepsFlight DEF PC
  <2>3. FailuresBounded' /\ \A v \in Worker : Owned(v)' /\ Budget(v)'
    BY <1>0, <2>2 DEF TypeOK, FailuresBounded, Owned, Budget, Holding, Attempting, Deciding
  <2> QED
    BY <2>1, <2>2, <2>3 DEF IndInv
<1>7. CASE Retrigger(w)
  <2> USE <1>7 DEF Retrigger
  <2>1. TypeOK' /\ ThreadMove(w, "attempt")
    BY <1>0 DEF TypeOK, PC, ThreadMove
  <2>2. running /\ SingleFlight' /\ NoStrandedWaiter' /\ IdleIsJustified'
        /\ \A v \in Worker \ {w} : pc[v] = "idle" /\ pc'[v] = "idle"
    BY <2>1, MoveKeepsFlight DEF PC
  <2>3. FailuresBounded' /\ \A v \in Worker : Owned(v)' /\ Budget(v)'
    BY <1>0, <2>2 DEF TypeOK, FailuresBounded, Owned, Budget, Holding, Attempting, Deciding, Retry
  <2> QED
    BY <2>1, <2>2, <2>3 DEF IndInv
<1>8. CASE GoIdle(w)
  <2> USE <1>8 DEF GoIdle, NotifyAll
  <2>1. TypeOK'
    BY <1>0 DEF TypeOK, PC
  <2>2. SingleFlight'
    BY <1>0 DEF TypeOK, SingleFlight, Active
  <2>3. NoStrandedWaiter'
    BY <1>0 DEF TypeOK, NoStrandedWaiter
  <2>4. IdleIsJustified'
    BY <1>0 DEF TypeOK, IdleIsJustified, Retry, Budget
  <2>5. FailuresBounded' /\ \A v \in Worker : Owned(v)' /\ Budget(v)'
    BY <1>0 DEF TypeOK, FailuresBounded, Owned, Budget, Holding, Attempting, Deciding
  <2> QED
    BY <2>1, <2>2, <2>3, <2>4, <2>5 DEF IndInv
<1> QED
  BY <1>1, <1>2, <1>3, <1>4, <1>5, <1>6, <1>7, <1>8 DEF InternalStep

LEMMA CallbackKeeps == ASSUME IndInv, NEW w \in Worker, CallbackStep(w) PROVE IndInv'
<1> USE DEF threadVars, Goto
<1>0. TypeOK /\ SingleFlight /\ NoStrandedWaiter /\ FailuresBounded
      /\ \A v \in Worker : Owned(v) /\ Budget(v)
  BY DEF IndInv
<1>1. CASE CaptureReturns(w)
  <2> USE <1>1 DEF CaptureReturns
  <2>1. TypeOK' /\ ThreadMove(w, "build")
    BY <1>0 DEF TypeOK, PC, ThreadMove
  <2>2. running /\ SingleFlight' /\ NoStrandedWaiter' /\ IdleIsJustified'
        /\ \A v \in Worker \ {w} : pc[v] = "idle" /\ pc'[v] = "idle"
    BY <2>1, MoveKeepsFlight DEF PC
  <2>3. FailuresBounded' /\ \A v \in Worker : Owned(v)' /\ Budget(v)'
    BY <1>0, <2>2 DEF TypeOK, FailuresBounded, Owned, Budget, Holding, Attempting, Deciding
  <2> QED
    BY <2>1, <2>2, <2>3 DEF IndInv
<1>2. CASE CaptureRaises(w)
  <2> USE <1>2 DEF CaptureRaises, RaisesUnbuilt
  <2>1. TypeOK' /\ ThreadMove(w, "publish")
    BY <1>0 DEF TypeOK, PC, ThreadMove
  <2>2. running /\ SingleFlight' /\ NoStrandedWaiter' /\ IdleIsJustified'
        /\ \A v \in Worker \ {w} : pc[v] = "idle" /\ pc'[v] = "idle"
    BY <2>1, MoveKeepsFlight DEF PC
  <2>3. FailuresBounded' /\ \A v \in Worker : Owned(v)' /\ Budget(v)'
    BY <1>0, <2>2 DEF TypeOK, FailuresBounded, Owned, Budget, Holding, Attempting, Deciding
  <2> QED
    BY <2>1, <2>2, <2>3 DEF IndInv
<1>3. CASE BuildReturns(w)
  <2> USE <1>3 DEF BuildReturns
  <2>1. TypeOK' /\ ThreadMove(w, "check")
    BY <1>0 DEF TypeOK, PC, ThreadMove
  <2>2. running /\ SingleFlight' /\ NoStrandedWaiter' /\ IdleIsJustified'
        /\ \A v \in Worker \ {w} : pc[v] = "idle" /\ pc'[v] = "idle"
    BY <2>1, MoveKeepsFlight DEF PC
  <2>3. FailuresBounded' /\ \A v \in Worker : Owned(v)' /\ Budget(v)'
    BY <1>0, <2>2 DEF TypeOK, FailuresBounded, Owned, Budget, Holding, Attempting, Deciding
  <2> QED
    BY <2>1, <2>2, <2>3 DEF IndInv
<1>4. CASE BuildRaises(w)
  <2> USE <1>4 DEF BuildRaises, RaisesUnbuilt
  <2>1. TypeOK' /\ ThreadMove(w, "publish")
    BY <1>0 DEF TypeOK, PC, ThreadMove
  <2>2. running /\ SingleFlight' /\ NoStrandedWaiter' /\ IdleIsJustified'
        /\ \A v \in Worker \ {w} : pc[v] = "idle" /\ pc'[v] = "idle"
    BY <2>1, MoveKeepsFlight DEF PC
  <2>3. FailuresBounded' /\ \A v \in Worker : Owned(v)' /\ Budget(v)'
    BY <1>0, <2>2 DEF TypeOK, FailuresBounded, Owned, Budget, Holding, Attempting, Deciding
  <2> QED
    BY <2>1, <2>2, <2>3 DEF IndInv
<1>5. CASE PromoteAccepts(w)
  <2> USE <1>5 DEF PromoteAccepts
  <2>1. TypeOK' /\ ThreadMove(w, "publish")
    BY <1>0 DEF TypeOK, PC, ThreadMove
  <2>2. running /\ SingleFlight' /\ NoStrandedWaiter' /\ IdleIsJustified'
        /\ \A v \in Worker \ {w} : pc[v] = "idle" /\ pc'[v] = "idle"
    BY <2>1, MoveKeepsFlight DEF PC
  <2>3. FailuresBounded' /\ \A v \in Worker : Owned(v)' /\ Budget(v)'
    BY <1>0, <2>2 DEF TypeOK, FailuresBounded, Owned, Budget, Holding, Attempting, Deciding
  <2> QED
    BY <2>1, <2>2, <2>3 DEF IndInv
<1>6. CASE PromoteRejects(w)
  <2> USE <1>6 DEF PromoteRejects
  <2>1. TypeOK' /\ ThreadMove(w, "dispose")
    BY <1>0 DEF TypeOK, PC, ThreadMove
  <2>2. running /\ SingleFlight' /\ NoStrandedWaiter' /\ IdleIsJustified'
        /\ \A v \in Worker \ {w} : pc[v] = "idle" /\ pc'[v] = "idle"
    BY <2>1, MoveKeepsFlight DEF PC
  <2>3. FailuresBounded' /\ \A v \in Worker : Owned(v)' /\ Budget(v)'
    BY <1>0, <2>2 DEF TypeOK, FailuresBounded, Owned, Budget, Holding, Attempting, Deciding
  <2> QED
    BY <2>1, <2>2, <2>3 DEF IndInv
<1>7. CASE PromoteRaises(w)
  <2> USE <1>7 DEF PromoteRaises, RaisesBuilt
  <2>1. TypeOK' /\ ThreadMove(w, "dispose_failed")
    BY <1>0 DEF TypeOK, PC, ThreadMove
  <2>2. running /\ SingleFlight' /\ NoStrandedWaiter' /\ IdleIsJustified'
        /\ \A v \in Worker \ {w} : pc[v] = "idle" /\ pc'[v] = "idle"
    BY <2>1, MoveKeepsFlight DEF PC
  <2>3. FailuresBounded' /\ \A v \in Worker : Owned(v)' /\ Budget(v)'
    BY <1>0, <2>2 DEF TypeOK, FailuresBounded, Owned, Budget, Holding, Attempting, Deciding
  <2> QED
    BY <2>1, <2>2, <2>3 DEF IndInv
<1>8. CASE DisposeReturns(w)
  <2> USE <1>8 DEF DisposeReturns, DisposeFrom
  <2>1. TypeOK' /\ ThreadMove(w, "publish")
    BY <1>0 DEF TypeOK, PC, ThreadMove
  <2>2. running /\ SingleFlight' /\ NoStrandedWaiter' /\ IdleIsJustified'
        /\ \A v \in Worker \ {w} : pc[v] = "idle" /\ pc'[v] = "idle"
    BY <2>1, MoveKeepsFlight DEF PC
  <2>3. FailuresBounded' /\ \A v \in Worker : Owned(v)' /\ Budget(v)'
    BY <1>0, <2>2 DEF TypeOK, FailuresBounded, Owned, Budget, Holding, Attempting, Deciding
  <2> QED
    BY <2>1, <2>2, <2>3 DEF IndInv
<1>9. CASE DisposeRaises(w)
  <2> USE <1>9 DEF DisposeRaises, RaisesBuilt
  <2>1. TypeOK' /\ ThreadMove(w, "dispose_failed")
    BY <1>0 DEF TypeOK, PC, ThreadMove
  <2>2. running /\ SingleFlight' /\ NoStrandedWaiter' /\ IdleIsJustified'
        /\ \A v \in Worker \ {w} : pc[v] = "idle" /\ pc'[v] = "idle"
    BY <2>1, MoveKeepsFlight DEF PC
  <2>3. FailuresBounded' /\ \A v \in Worker : Owned(v)' /\ Budget(v)'
    BY <1>0, <2>2 DEF TypeOK, FailuresBounded, Owned, Budget, Holding, Attempting, Deciding
  <2> QED
    BY <2>1, <2>2, <2>3 DEF IndInv
<1>10. CASE DisposeAfterError(w)
  <2> USE <1>10 DEF DisposeAfterError, DisposeFrom
  <2>1. TypeOK' /\ ThreadMove(w, "publish")
    BY <1>0 DEF TypeOK, PC, ThreadMove
  <2>2. running /\ SingleFlight' /\ NoStrandedWaiter' /\ IdleIsJustified'
        /\ \A v \in Worker \ {w} : pc[v] = "idle" /\ pc'[v] = "idle"
    BY <2>1, MoveKeepsFlight DEF PC
  <2>3. FailuresBounded' /\ \A v \in Worker : Owned(v)' /\ Budget(v)'
    BY <1>0, <2>2 DEF TypeOK, FailuresBounded, Owned, Budget, Holding, Attempting, Deciding
  <2> QED
    BY <2>1, <2>2, <2>3 DEF IndInv
<1>11. CASE \E answer \in BOOLEAN : RetriggerAnswers(w, answer)
  <2> USE <1>11 DEF RetriggerAnswers
  <2>1. TypeOK' /\ ThreadMove(w, "validate")
    BY <1>0 DEF TypeOK, PC, ThreadMove
  <2>2. running /\ SingleFlight' /\ NoStrandedWaiter' /\ IdleIsJustified'
        /\ \A v \in Worker \ {w} : pc[v] = "idle" /\ pc'[v] = "idle"
    BY <2>1, MoveKeepsFlight DEF PC
  <2>3. FailuresBounded' /\ \A v \in Worker : Owned(v)' /\ Budget(v)'
    BY <1>0, <2>2 DEF TypeOK, FailuresBounded, Owned, Budget, Holding, Attempting, Deciding
  <2> QED
    BY <2>1, <2>2, <2>3 DEF IndInv
<1> QED
  BY <1>1, <1>2, <1>3, <1>4, <1>5, <1>6, <1>7, <1>8, <1>9, <1>10, <1>11 DEF CallbackStep

LEMMA StepIndInv == IndInv /\ [CoordNext]_coordVars => IndInv'
<1> SUFFICES ASSUME IndInv, [CoordNext]_coordVars PROVE IndInv'
  OBVIOUS
<1>1. CASE UNCHANGED coordVars
  BY <1>1 DEF coordVars, threadVars, IndInv, TypeOK, SingleFlight, Active, NoStrandedWaiter,
              Owned, Budget, FailuresBounded, IdleIsJustified
<1>2. CASE CoordNext
  BY <1>2, ScheduleKeeps, CallerKeeps, InternalKeeps, CallbackKeeps DEF CoordNext, ThreadStep
<1> QED
  BY <1>1, <1>2

THEOREM Invariance == CoordSpec => []IndInv
<1>1. CoordInit => IndInv
  BY InitIndInv
<1>2. IndInv /\ [CoordNext]_coordVars => IndInv'
  BY StepIndInv
<1> QED
  BY <1>1, <1>2, PTL DEF CoordSpec

(* The coordinator's variables always hold values of their types.          *)
THEOREM TypeCorrect == CoordSpec => []TypeOK
<1>1. IndInv => TypeOK
  BY DEF IndInv
<1> QED
  BY <1>1, Invariance, PTL

(* schedule() and the end of _run keep at most one _run thread, and        *)
(* _running says exactly whether there is one.                             *)
THEOREM SingleFlightHolds == CoordSpec => []SingleFlight
<1>1. IndInv => SingleFlight
  BY DEF IndInv
<1> QED
  BY <1>1, Invariance, PTL

(* The epoch test of the retrigger decision loses no request: the thread   *)
(* goes idle only on an answer newer than every schedule() call.           *)
THEOREM NoLostTrigger == CoordSpec => []IdleIsJustified
<1>1. IndInv => IdleIsJustified
  BY DEF IndInv
<1> QED
  BY <1>1, Invariance, PTL

(* However often builds fail, there are no more failures than requests.    *)
THEOREM NoHotLoop == CoordSpec => []FailuresBounded
<1>1. IndInv => FailuresBounded
  BY DEF IndInv
<1> QED
  BY <1>1, Invariance, PTL

(* A built replacement never outlives its attempt unpromoted, whichever    *)
(* callback raises.                                                        *)
THEOREM NoLeak == CoordSpec => []NoLeakedBuild
<1>1. IndInv => NoLeakedBuild
  BY DEF IndInv, Owned, Holding, NoLeakedBuild, Settled
<1> QED
  BY <1>1, Invariance, PTL

(* The notifications of _run and close() leave no caller of wait() asleep. *)
THEOREM NoLostWakeup == CoordSpec => []NoStrandedWaiter
<1>1. IndInv => NoStrandedWaiter
  BY DEF IndInv
<1> QED
  BY <1>1, Invariance, PTL

Final(w) == replacement[w] \in {"adopted", "disposed"} =>
                replacement'[w] \in {replacement[w], "none"}

LEMMA FinalStep == IndInv /\ [CoordNext]_coordVars => \A w \in Worker : Final(w)
<1> SUFFICES ASSUME IndInv, [CoordNext]_coordVars, NEW w \in Worker PROVE Final(w)
  OBVIOUS
<1> USE DEF Final, threadVars
<1>0. TypeOK /\ Owned(w)
  BY DEF IndInv
<1>1. CASE UNCHANGED coordVars
  BY <1>1 DEF coordVars
<1>2. CASE Schedule \/ CloseCoordinator \/ \E c \in Waiter : WaiterStep(c)
  BY <1>2 DEF Schedule, ScheduleCoalesced, ScheduleStarts, CloseCoordinator, WaiterStep,
              WaitTests, WaitExpires
<1>3. ASSUME NEW v \in Worker, InternalStep(v) PROVE Final(w)
  BY <1>0, <1>3
     DEF InternalStep, BeginAttempt, CheckClosed, PublishOutcome, ObserveEpoch, ValidateEpoch,
         GoIdle, Reobserve, Retrigger, TypeOK
<1>4. ASSUME NEW v \in Worker, CallbackStep(v) PROVE Final(w)
  <2>1. CASE UNCHANGED replacement
    BY <2>1
  <2>2. CASE BuildReturns(v) \/ PromoteAccepts(v) \/ DisposeReturns(v) \/ DisposeAfterError(v)
    BY <1>0, <2>2 DEF BuildReturns, PromoteAccepts, DisposeReturns, DisposeAfterError,
                      DisposeFrom, Goto, TypeOK, Owned, Holding
  <2> QED
    BY <1>4, <2>1, <2>2
       DEF CallbackStep, CaptureReturns, CaptureRaises, BuildRaises, PromoteRejects,
           PromoteRaises, DisposeRaises, RetriggerAnswers, RaisesUnbuilt, RaisesBuilt
<1> QED
  BY <1>1, <1>2, <1>3, <1>4 DEF CoordNext, ThreadStep

(* One replacement is never both adopted by the Lab and disposed of.       *)
THEOREM FateIsFinalHolds == CoordSpec => FateIsFinal
<1>1. IndInv /\ [CoordNext]_coordVars => [\A w \in Worker : Final(w)]_coordVars
  BY FinalStep
<1> QED
  BY <1>1, Invariance, PTL DEF CoordSpec, FateIsFinal, Final

-----------------------------------------------------------------------------
(* The Lab                                                                 *)

InFlight == {"build", "check", "promote", "dispose", "dispose_failed"}

(* The snapshot of a running attempt is a past state of this Lab: its      *)
(* sequence is how many of its events were counted, which no later event   *)
(* changes.  If the version has not moved since, no mine has either.       *)
Past(w) ==
    pc[w] \in InFlight =>
        /\ snapshot[w].base <= version
        /\ snapshot[w].events <= recorded
        /\ snapshot[w].seq = Cardinality(UpTo(counted, snapshot[w].events))
        /\ snapshot[w].base = version => rules.events <= snapshot[w].events

(* Where the engine a thread built is, and the engine its promotion        *)
(* replaced.                                                               *)
Staging(w) ==
    /\ retiring[w] # None => pc[w] = "promote" /\ staged[w] = None /\ retiring[w] # serving
    /\ staged[w] # None <=> pc[w] \in Holding /\ retiring[w] = None
    /\ staged[w] # None =>
           /\ staged[w] # serving
           /\ compiled[staged[w]] = [events |-> snapshot[w].events, config |-> snapshot[w].config]

(* What a thread knows of the threshold while no request has come since.   *)
Informed(w) ==
    /\ observed[w] <= epoch
    /\ pc[w] \in Deciding => lastError = failed[w]
    /\ pc[w] \in {"validate", "decide"} /\ observed[w] = epoch =>
           (LabFree /\ ~labClosed /\ Due => needed[w] \/ lowered)

Closing ==
    /\ inEvent => ~labClosed
    /\ closed => labClosed
    /\ \A c \in Waiter : waiter[c] \notin {"outside", "expired"} => closed
    /\ released \/ (\E c \in Waiter : waiter[c] = "returned") => closed /\ ~running

LabInv ==
    /\ LabTypeOK
    /\ PendingExact
    /\ ModelCoherent
    /\ ModelMatchesState
    /\ EnginesOwned
    /\ DueImpliesWork
    /\ Closing
    /\ \A w \in Worker : Past(w) /\ Staging(w) /\ Informed(w)
-----------------------------------------------------------------------------
(* Composition: every step of the Lab is a step of the coordinator or      *)
(* leaves its variables alone.                                             *)

LEMMA Composes == [Next]_vars => [CoordNext]_coordVars
<1> SUFFICES ASSUME [Next]_vars PROVE [CoordNext]_coordVars
  OBVIOUS
<1>1. CASE UNCHANGED vars
  BY <1>1 DEF vars
<1>2. CASE RecordEvent \/ RecordUncounted \/ FinishEvent \/ CloseLab \/ CloseStep
  BY <1>2 DEF RecordEvent, RecordUncounted, AppendEvent, FinishEvent, CloseLab, CloseStep, CancelMining, AwaitMining,
              ReleaseWorkspaces, CloseEngine, CoordNext, WaiterStep
<1>3. CASE \E c \in Config : Configure(c) \/ MineSucceeds(c) \/ MinePrewarmRaises(c)
  BY <1>3 DEF Configure, MineSucceeds, MinePrewarmRaises, MineNow
<1>4. ASSUME NEW w \in Worker, BuilderStep(w) PROVE [CoordNext]_coordVars
  <2>1. ThreadStep(w) \/ UNCHANGED coordVars
    BY <1>4 DEF BuilderStep, Capture, CaptureFails, BuildLocks, Build, BuildFails, Promote,
                PromoteWith, PromoteRetires, PromoteIsStale, PromoteFails, Dispose, RemineDue,
                CoordinatorStep, ThreadStep, CallbackStep
  <2> QED
    BY <2>1 DEF CoordNext
<1> QED
  BY <1>1, <1>2, <1>3, <1>4 DEF Next

(* The composite behaves as the coordinator on its own, so every theorem   *)
(* about the coordinator is a theorem of it.                               *)
THEOREM RefinesCoordinator == Spec => CoordSpec
<1>1. Init => CoordInit
  BY DEF Init
<1> QED
  BY <1>1, Composes, PTL DEF Spec, CoordSpec

-----------------------------------------------------------------------------
(* Counting, of m events: those up to the n-th and the others; and one more *)
(* event, which is behind all of them.                                      *)

LEMMA CountsSplit ==
    ASSUME NEW m \in Nat, NEW S \in SUBSET (1..m), NEW n \in Nat
    PROVE  /\ Cardinality(UpTo(S, n)) \in Nat /\ Cardinality(S \ UpTo(S, n)) \in Nat
           /\ Cardinality(S) = Cardinality(UpTo(S, n)) + Cardinality(S \ UpTo(S, n))
<1>1. IsFiniteSet(S)
  <2>1. IsFiniteSet(1..m)
    BY FS_Interval
  <2> QED
    BY <2>1, FS_Subset
<1>2. /\ UpTo(S, n) \in SUBSET S /\ UpTo(S, n) \cap (S \ UpTo(S, n)) = {}
      /\ UpTo(S, n) \cup (S \ UpTo(S, n)) = S
  BY DEF UpTo
<1>3. IsFiniteSet(UpTo(S, n)) /\ IsFiniteSet(S \ UpTo(S, n))
  BY <1>1, <1>2, FS_Subset
<1>4. Cardinality(S) = Cardinality(UpTo(S, n)) + Cardinality(S \ UpTo(S, n)) - Cardinality({})
  BY <1>2, <1>3, FS_Union
<1> QED
  BY <1>3, <1>4, FS_CardinalityType, FS_EmptySet

LEMMA CountsGrow ==
    ASSUME NEW m \in Nat, NEW S \in SUBSET (1..m), NEW n \in Nat, NEW k \in Nat, n <= k
    PROVE  Cardinality(UpTo(S, n)) <= Cardinality(UpTo(S, k))
<1>1. UpTo(S, n) \in SUBSET UpTo(S, k)
  <2>1. ASSUME NEW i \in UpTo(S, n) PROVE i \in UpTo(S, k)
    <3>1. i \in S /\ i \in Int /\ i <= n
      BY DEF UpTo
    <3>2. i <= k
      BY <3>1
    <3> QED
      BY <3>1, <3>2 DEF UpTo
  <2> QED
    BY <2>1
<1>2. IsFiniteSet(UpTo(S, k))
  <2>1. IsFiniteSet(1..m)
    BY FS_Interval
  <2>2. UpTo(S, k) \in SUBSET (1..m)
    BY DEF UpTo
  <2> QED
    BY <2>1, <2>2, FS_Subset
<1> QED
  BY <1>1, <1>2, FS_Subset

LEMMA CountsAll ==
    ASSUME NEW m \in Nat, NEW S \in SUBSET (1..m)
    PROVE  UpTo(S, m) = S /\ Cardinality(S \ UpTo(S, m)) = 0
<1>1. \A i \in S : i <= m
  OBVIOUS
<1>2. UpTo(S, m) = S
  BY <1>1 DEF UpTo
<1>3. S \ UpTo(S, m) = {}
  BY <1>2
<1> QED
  BY <1>2, <1>3, FS_EmptySet

LEMMA CountsOneMore ==
    ASSUME NEW m \in Nat, NEW S \in SUBSET (1..m), NEW n \in 0..m
    PROVE  /\ S \cup {m + 1} \in SUBSET (1..(m + 1))
           /\ UpTo(S \cup {m + 1}, n) = UpTo(S, n)
           /\ Cardinality((S \cup {m + 1}) \ UpTo(S \cup {m + 1}, n))
                = Cardinality(S \ UpTo(S, n)) + 1
<1>1. IsFiniteSet(S) /\ m + 1 \notin S
  <2>1. IsFiniteSet(1..m)
    BY FS_Interval
  <2>2. IsFiniteSet(S)
    BY <2>1, FS_Subset
  <2>3. m + 1 \notin 1..m
    OBVIOUS
  <2> QED
    BY <2>2, <2>3
<1>2. UpTo(S \cup {m + 1}, n) = UpTo(S, n)
  BY DEF UpTo
<1>3. (S \cup {m + 1}) \ UpTo(S, n) = (S \ UpTo(S, n)) \cup {m + 1}
  BY <1>1 DEF UpTo
<1>4. IsFiniteSet(S \ UpTo(S, n)) /\ m + 1 \notin S \ UpTo(S, n)
  BY <1>1, FS_Subset
<1>5. Cardinality((S \ UpTo(S, n)) \cup {m + 1}) = Cardinality(S \ UpTo(S, n)) + 1
  BY <1>4, FS_AddElement
<1> QED
  BY <1>2, <1>3, <1>5

\* The event sequence is how many of the recorded events were counted.
LEMMA SequenceCounts ==
    ASSUME LabTypeOK, PendingExact, ModelMatchesState
    PROVE  /\ recorded \in Nat /\ counted \in SUBSET (1..recorded)
           /\ eventSeq = Cardinality(counted) /\ UpTo(counted, recorded) = counted
           /\ Cardinality(counted \ UpTo(counted, recorded)) = 0
           /\ rules.events \in 0..recorded
<1>1. /\ recorded \in Nat /\ counted \in SUBSET (1..recorded)
      /\ rules.events \in 0..recorded
  BY DEF LabTypeOK, Model, ModelMatchesState
<1>2. Cardinality(counted) =
        Cardinality(UpTo(counted, rules.events)) + Cardinality(counted \ UpTo(counted, rules.events))
  <2>1. rules.events \in Nat
    BY <1>1
  <2> QED
    BY <1>1, <2>1, CountsSplit
<1> QED
  BY <1>1, <1>2, CountsAll DEF PendingExact, ModelMatchesState

LEMMA InitLabInv == Init => LabInv
<1> SUFFICES ASSUME Init PROVE LabInv
  OBVIOUS
<1>1. IndInv
  BY InitIndInv DEF Init
<1>2. /\ rules \in Model /\ serving \in Engine /\ config \in Config
      /\ compiled[serving] = rules
  BY DEF Init, Model
<1>3. LabTypeOK
  BY <1>1, <1>2 DEF Init, LabTypeOK, Snapshot, IndInv
<1>4. PendingExact /\ ModelCoherent /\ ModelMatchesState
  <2>1. /\ UpTo({}, 0) = {} /\ {} \ UpTo({}, 0) = {} /\ Cardinality({}) = 0
        /\ counted = {} /\ rules.events = 0
    BY FS_EmptySet DEF Init, UpTo
  <2> QED
    BY <1>2, <2>1 DEF Init, PendingExact, ModelCoherent, ModelMatchesState
<1>5. EnginesOwned
  BY DEF Init, EnginesOwned
<1>6. DueImpliesWork
  <2>1. Interval[config] \in Nat \ {0} /\ pending = 0
    BY <1>2, IntervalAssumption DEF Init
  <2> QED
    BY <2>1 DEF DueImpliesWork, Due
<1>7. Closing
  BY DEF Init, CoordInit, Closing
<1>8. ASSUME NEW w \in Worker PROVE Past(w) /\ Staging(w) /\ Informed(w)
  <2>1. pc[w] = "idle" /\ staged[w] = None /\ retiring[w] = None /\ observed[w] = 0 /\ epoch = 0
    BY DEF Init, CoordInit
  <2> QED
    BY <2>1 DEF Past, Staging, Informed, InFlight, Holding, Deciding
<1> QED
  BY <1>3, <1>4, <1>5, <1>6, <1>7, <1>8 DEF LabInv

LEMMA RequestKeeps ==
    ASSUME LabInv, IndInv, IndInv', NEW c \in Config,
           \/ RecordEvent \/ RecordUncounted \/ FinishEvent
           \/ Configure(c) \/ MineSucceeds(c)
    PROVE  LabInv'
<1> USE DEF vars, labVars, modelVars, countVars, buildVars, auxVars
<1>0. /\ LabTypeOK /\ PendingExact /\ ModelCoherent /\ ModelMatchesState /\ EnginesOwned
      /\ DueImpliesWork /\ Closing
      /\ \A v \in Worker : Past(v) /\ Staging(v) /\ Informed(v)
      /\ \A u, v \in Worker : pc[u] # "idle" /\ pc[v] # "idle" => u = v
      /\ \A v \in Worker : pc[v] # "idle" => running
      /\ \A k \in Config : Interval[k] \in Nat /\ Interval[k] > 0
      /\ TypeOK /\ TypeOK'
  BY IntervalAssumption DEF LabInv, IndInv, SingleFlight, Active
<1>1. CASE RecordEvent
  <2> USE <1>1 DEF RecordEvent, AppendEvent, coordVars, threadVars
  <2>1. /\ recorded \in Nat /\ counted \in SUBSET (1..recorded)
        /\ rules.events \in 0..recorded
    BY <1>0, SequenceCounts
  <2>2. /\ counted' = counted \cup {recorded + 1} /\ counted' \in SUBSET (1..recorded')
        /\ \A n \in 0..recorded : UpTo(counted', n) = UpTo(counted, n)
        /\ Cardinality(counted' \ UpTo(counted', rules.events))
             = Cardinality(counted \ UpTo(counted, rules.events)) + 1
    BY <2>1, CountsOneMore
  <2>3. PendingExact' /\ ModelMatchesState'
    BY <1>0, <2>1, <2>2 DEF LabTypeOK, PendingExact, ModelMatchesState
  <2>4. LabTypeOK' /\ ModelCoherent' /\ EnginesOwned' /\ Closing'
    BY <1>0, <2>2 DEF LabTypeOK, TypeOK, Model, Snapshot, ModelCoherent, Closing, Staging,
                      EnginesOwned, LabFree
  <2>5. \A v \in Worker : Past(v)'
    <3> SUFFICES ASSUME NEW v \in Worker, pc[v] \in InFlight PROVE Past(v)'
      BY DEF Past
    <3>1. /\ snapshot[v].base <= version /\ snapshot[v].events <= recorded
          /\ snapshot[v].seq = Cardinality(UpTo(counted, snapshot[v].events))
          /\ snapshot[v].base = version => rules.events <= snapshot[v].events
      BY <1>0 DEF Past
    <3>2. snapshot[v].events \in Nat
      BY <1>0 DEF LabTypeOK, Snapshot
    <3>3. snapshot[v].events \in 0..recorded /\ snapshot[v].events <= recorded + 1
      BY <2>1, <3>1, <3>2
    <3>4. UpTo(counted', snapshot[v].events) = UpTo(counted, snapshot[v].events)
      BY <2>2, <3>3
    <3> QED
      BY <3>1, <3>3, <3>4 DEF Past
  <2>6. /\ DueImpliesWork' /\ \A v \in Worker : Staging(v)' /\ Informed(v)'
    BY <1>0 DEF LabTypeOK, TypeOK, DueImpliesWork, Due, LabFree, Snapshot, Staging, Holding,
                Informed, Deciding
  <2> QED
    BY <2>3, <2>4, <2>5, <2>6 DEF LabInv
<1>5. CASE RecordUncounted
  <2> USE <1>5 DEF RecordUncounted, AppendEvent, coordVars, threadVars
  <2>1. recorded' = recorded + 1 /\ counted \in SUBSET (1..recorded') /\ recorded \in Nat
    BY <1>0 DEF LabTypeOK
  <2>2. LabTypeOK' /\ ModelCoherent' /\ EnginesOwned' /\ Closing'
    BY <1>0, <2>1 DEF LabTypeOK, TypeOK, Model, Snapshot, ModelCoherent, Closing, Staging,
                      EnginesOwned, LabFree
  <2>3. PendingExact' /\ ModelMatchesState'
    BY <1>0, <2>1 DEF LabTypeOK, Model, PendingExact, ModelMatchesState
  <2>4. /\ DueImpliesWork' /\ \A v \in Worker : Past(v)' /\ Staging(v)' /\ Informed(v)'
    BY <1>0, <2>1 DEF LabTypeOK, TypeOK, DueImpliesWork, Due, LabFree, Past, InFlight, Snapshot,
                      Staging, Holding, Informed, Deciding
  <2> QED
    BY <2>2, <2>3, <2>4 DEF LabInv
<1>2. CASE FinishEvent
  <2> USE <1>2 DEF FinishEvent, coordVars, threadVars, Schedule, ScheduleCoalesced,
          ScheduleStarts, Goto
  <2>1. /\ EnginesOwned' /\ Closing'
    BY <1>0 DEF LabTypeOK, EnginesOwned, Staging, TypeOK, Closing, LabFree
  <2>2. /\ DueImpliesWork' /\ \A v \in Worker : Past(v)' /\ Informed(v)'
    BY <1>0 DEF LabTypeOK, TypeOK, DueImpliesWork, Due, LabFree, Past, InFlight, Snapshot,
                Informed, Deciding
  <2>3. LabTypeOK'
    BY <1>0 DEF LabTypeOK, TypeOK, Model, Snapshot
  <2>4. PendingExact' /\ ModelMatchesState'
    BY <1>0 DEF LabTypeOK, PendingExact, ModelMatchesState, Past
  <2>5. ModelCoherent'
    BY <1>0 DEF LabTypeOK, ModelCoherent, Closing, Staging
  <2>6. \A v \in Worker : Staging(v)'
    <3>1. \A v \in Worker : pc'[v] = pc[v] \/ (pc[v] = "idle" /\ pc'[v] = "attempt")
      BY <1>0 DEF LabTypeOK, TypeOK
    <3> QED
      BY <1>0, <3>1 DEF Staging, Holding
  <2> QED
    BY <2>1, <2>2, <2>3, <2>4, <2>5, <2>6 DEF LabInv
<1>3. CASE Configure(c)
  <2> USE <1>3 DEF Configure, coordVars, threadVars
  <2>1. /\ LabTypeOK' /\ PendingExact' /\ ModelMatchesState' /\ ModelCoherent'
       /\ EnginesOwned' /\ Closing'
    BY <1>0 DEF LabTypeOK, TypeOK, Model, Snapshot, PendingExact, ModelMatchesState, Past,
                ModelCoherent, Closing, Staging, EnginesOwned, LabFree
  <2>2. \A v \in Worker : Past(v)'
    BY <1>0 DEF LabTypeOK, TypeOK, Past, InFlight, Snapshot
  <2>3. DueImpliesWork'
    <3>1. /\ Interval[c] \in Nat /\ Interval[config] \in Nat /\ pending \in Nat
          /\ lowered' = (lowered \/ Interval[c] < Interval[config])
          /\ config' = c /\ LabFree /\ ~labClosed
      BY <1>0 DEF LabTypeOK
    <3>2. Due' => Due \/ lowered'
      <4>1. pending' = pending /\ Interval[config'] = Interval[c]
        BY <3>1
      <4>2. CASE Interval[c] < Interval[config]
        BY <3>1, <4>2
      <4>3. CASE Interval[config] <= Interval[c]
        BY <3>1, <4>1, <4>3 DEF Due
      <4> QED
        BY <3>1, <4>2, <4>3
    <3> QED
      BY <1>0, <3>1, <3>2 DEF DueImpliesWork
  <2>4. \A v \in Worker : Staging(v)'
    BY <1>0 DEF LabTypeOK, TypeOK, Staging, Holding
  <2>5. \A v \in Worker : Informed(v)'
    BY <1>0 DEF LabTypeOK, TypeOK, Informed, Deciding, Due, LabFree
  <2> QED
    BY <2>1, <2>2, <2>3, <2>4, <2>5 DEF LabInv
<1>4. CASE MineSucceeds(c)
  <2> USE <1>4 DEF MineSucceeds, MineNow, coordVars, threadVars
  <2>1. /\ ModelCoherent' /\ EnginesOwned' /\ Closing'
    BY <1>0 DEF LabTypeOK, ModelCoherent, Closing, Staging, EnginesOwned, TypeOK, LabFree
  <2>5. PendingExact' /\ ModelMatchesState'
    <3>1. rules'.events = recorded /\ rules'.config = config'
      OBVIOUS
    <3> QED
      BY <1>0, <3>1, SequenceCounts DEF LabTypeOK, PendingExact, ModelMatchesState
  <2>2. /\ DueImpliesWork' /\ \A v \in Worker : Past(v)' /\ Informed(v)'
    BY <1>0 DEF LabTypeOK, TypeOK, DueImpliesWork, Due, LabFree, Past, InFlight, Snapshot,
                Informed, Deciding
  <2>3. LabTypeOK'
    <3>1. [events |-> recorded, config |-> c] \in Model
      BY <1>0 DEF LabTypeOK, Model
    <3>2. compiled' \in [Engine -> Model \cup {None}] /\ rules' \in Model
      BY <1>0, <3>1 DEF LabTypeOK
    <3>3. version' \in Nat /\ lastMined' \in Nat /\ pending' \in Nat
      BY <1>0 DEF LabTypeOK
    <3> QED
      BY <1>0, <3>2, <3>3 DEF LabTypeOK
  <2>4. \A v \in Worker : Staging(v)'
    <3>1. \A e \in Engine : e # serving => compiled'[e] = compiled[e]
      BY <1>0 DEF LabTypeOK
    <3> QED
      BY <1>0, <3>1 DEF LabTypeOK, Staging
  <2> QED
    BY <2>1, <2>2, <2>3, <2>4, <2>5 DEF LabInv
<1> QED
  BY <1>1, <1>2, <1>3, <1>4, <1>5

LEMMA LabKeeps ==
    ASSUME LabInv, IndInv, IndInv', NEW w \in Worker,
           BuildLocks(w) \/ Promote(w) \/ CloseLab \/ ReleaseWorkspaces \/ CloseEngine
    PROVE  LabInv'
<1> USE DEF vars, labVars, modelVars, countVars, buildVars, auxVars
<1>0. /\ LabTypeOK /\ PendingExact /\ ModelCoherent /\ ModelMatchesState /\ EnginesOwned
      /\ DueImpliesWork /\ Closing
      /\ \A v \in Worker : Past(v) /\ Staging(v) /\ Informed(v)
      /\ \A u, v \in Worker : pc[u] # "idle" /\ pc[v] # "idle" => u = v
      /\ \A v \in Worker : pc[v] # "idle" => running
      /\ \A k \in Config : Interval[k] \in Nat /\ Interval[k] > 0
      /\ TypeOK /\ TypeOK'
  BY IntervalAssumption DEF LabInv, IndInv, SingleFlight, Active
<1>1. CASE BuildLocks(w)
  <2> USE <1>1 DEF BuildLocks, coordVars, threadVars
  <2>1. /\ LabTypeOK' /\ PendingExact' /\ ModelMatchesState' /\ ModelCoherent'
       /\ EnginesOwned' /\ Closing'
    BY <1>0 DEF LabTypeOK, TypeOK, Model, Snapshot, PendingExact, ModelMatchesState, Past,
                ModelCoherent, Closing, Staging, EnginesOwned, LabFree
  <2>2. /\ DueImpliesWork' /\ \A v \in Worker : Past(v)' /\ Staging(v)' /\ Informed(v)'
    BY <1>0 DEF LabTypeOK, TypeOK, DueImpliesWork, Due, LabFree, Past, InFlight, Snapshot,
                Staging, Holding, Informed, Deciding
  <2> QED
    BY <2>1, <2>2 DEF LabInv
<1>2. CASE Promote(w)
  <2> USE <1>2 DEF Promote, PromoteWith, Stale, coordVars, threadVars
  <2>1. /\ ModelCoherent' /\ EnginesOwned' /\ Closing'
    BY <1>0 DEF LabTypeOK, ModelCoherent, Closing, Staging, EnginesOwned, TypeOK, LabFree
  <2>2. /\ DueImpliesWork' /\ \A v \in Worker : Past(v)' /\ Informed(v)'
    BY <1>0 DEF LabTypeOK, TypeOK, DueImpliesWork, Due, LabFree, Past, InFlight, Snapshot,
                Informed, Deciding
  <2>3. LabTypeOK'
    <3>1. staged[w] \in Engine /\ compiled[staged[w]] \in Model
      <4>1. staged[w] \in Engine
        BY <1>0 DEF LabTypeOK, Staging, Holding
      <4>2. compiled[staged[w]] = [events |-> snapshot[w].events, config |-> snapshot[w].config]
        BY <1>0, <4>1, EngineAssumption DEF Staging
      <4> QED
        BY <1>0, <4>1, <4>2 DEF LabTypeOK, Model, Snapshot
    <3>2. version' \in Nat /\ lastMined' \in Nat /\ pending' \in Nat
      BY <1>0 DEF LabTypeOK, Snapshot
    <3> QED
      BY <1>0, <3>1, <3>2 DEF LabTypeOK
  <2>4. PendingExact' /\ ModelMatchesState'
    <3>1. /\ rules' = [events |-> snapshot[w].events, config |-> snapshot[w].config]
          /\ snapshot[w].config = config
          /\ snapshot[w].events \in Nat /\ snapshot[w].events <= recorded
          /\ snapshot[w].seq = Cardinality(UpTo(counted, snapshot[w].events))
      BY <1>0 DEF LabTypeOK, Staging, Past, Holding, InFlight, Snapshot
    <3>2. PendingExact'
      <4> DEFINE n == snapshot[w].events
                 mined == Cardinality(UpTo(counted, n))
                 newer == Cardinality(counted \ UpTo(counted, n))
      <4>1. mined \in Nat /\ newer \in Nat /\ eventSeq = mined + newer
        BY <1>0, <3>1, SequenceCounts, CountsSplit
      <4>2. pending' = newer /\ lastMined' = mined /\ eventSeq' = eventSeq
        <5>1. pending' = IF eventSeq > mined THEN eventSeq - mined ELSE 0
          BY <3>1
        <5> HIDE DEF mined, newer
        <5> QED
          BY <3>1, <4>1, <5>1 DEF mined
      <4> QED
        BY <3>1, <4>1, <4>2 DEF PendingExact
    <3>3. ModelMatchesState'
      BY <1>0, <3>1 DEF ModelMatchesState
    <3> QED
      BY <3>2, <3>3
  <2>5. \A v \in Worker : Staging(v)'
    <3> SUFFICES ASSUME NEW v \in Worker PROVE Staging(v)'
      OBVIOUS
    <3>1. CASE v = w
      <4>1. staged[w] # None /\ staged[w] # serving
        BY <1>0 DEF Staging, Holding
      <4>2. /\ retiring'[w] = serving /\ staged'[w] = None /\ serving' = staged[w]
            /\ pc'[w] = "promote"
        BY <1>0 DEF LabTypeOK, coordVars
      <4> QED
        BY <1>0, <3>1, <4>1, <4>2, EngineAssumption DEF LabTypeOK, Staging
    <3>2. CASE v # w
      <4>1. pc[v] = "idle" /\ staged[v] = None /\ retiring[v] = None
        BY <1>0, <3>2 DEF Staging, Holding
      <4>2. staged'[v] = None /\ retiring'[v] = None
        BY <1>0, <3>2, <4>1 DEF LabTypeOK
      <4> QED
        BY <4>1, <4>2 DEF Staging, Holding
    <3> QED
      BY <3>1, <3>2
  <2> QED
    BY <2>1, <2>2, <2>3, <2>4, <2>5 DEF LabInv
<1>3. CASE CloseLab
  <2> USE <1>3 DEF CloseLab, coordVars, threadVars
  <2>1. /\ LabTypeOK' /\ PendingExact' /\ ModelMatchesState' /\ ModelCoherent'
       /\ EnginesOwned' /\ Closing'
    BY <1>0 DEF LabTypeOK, TypeOK, Model, Snapshot, PendingExact, ModelMatchesState, Past,
                ModelCoherent, Closing, Staging, EnginesOwned, LabFree
  <2>2. /\ DueImpliesWork' /\ \A v \in Worker : Past(v)' /\ Staging(v)' /\ Informed(v)'
    BY <1>0 DEF LabTypeOK, TypeOK, DueImpliesWork, Due, LabFree, Past, InFlight, Snapshot,
                Staging, Holding, Informed, Deciding
  <2> QED
    BY <2>1, <2>2 DEF LabInv
<1>4. CASE ReleaseWorkspaces
  <2> USE <1>4 DEF ReleaseWorkspaces, coordVars, threadVars
  <2>1. /\ LabTypeOK' /\ PendingExact' /\ ModelMatchesState' /\ ModelCoherent'
       /\ EnginesOwned' /\ Closing'
    BY <1>0 DEF LabTypeOK, TypeOK, Model, Snapshot, PendingExact, ModelMatchesState, Past,
                ModelCoherent, Closing, Staging, EnginesOwned, LabFree
  <2>2. /\ DueImpliesWork' /\ \A v \in Worker : Past(v)' /\ Staging(v)' /\ Informed(v)'
    BY <1>0 DEF LabTypeOK, TypeOK, DueImpliesWork, Due, LabFree, Past, InFlight, Snapshot,
                Staging, Holding, Informed, Deciding
  <2> QED
    BY <2>1, <2>2 DEF LabInv
<1>5. CASE CloseEngine
  <2> USE <1>5 DEF CloseEngine, coordVars, threadVars
  <2>1. /\ LabTypeOK' /\ PendingExact' /\ ModelMatchesState' /\ ModelCoherent'
       /\ EnginesOwned' /\ Closing'
    BY <1>0 DEF LabTypeOK, TypeOK, Model, Snapshot, PendingExact, ModelMatchesState, Past,
                ModelCoherent, Closing, Staging, EnginesOwned, LabFree
  <2>2. /\ DueImpliesWork' /\ \A v \in Worker : Past(v)' /\ Informed(v)'
    BY <1>0 DEF LabTypeOK, TypeOK, DueImpliesWork, Due, LabFree, Past, InFlight, Snapshot,
                Informed, Deciding
  <2>3. \A v \in Worker : Staging(v)'
    <3>1. \A e \in Engine : e # serving => compiled'[e] = compiled[e]
      BY <1>0 DEF LabTypeOK
    <3> QED
      BY <1>0, <3>1 DEF LabTypeOK, Staging, coordVars
  <2> QED
    BY <2>1, <2>2, <2>3 DEF LabInv
<1> QED
  BY <1>1, <1>2, <1>3, <1>4, <1>5

LEMMA CoordinatorKeeps ==
    ASSUME LabInv, IndInv, IndInv', NEW w \in Worker,
           \/ CoordinatorStep(w) \/ CaptureFails(w) \/ PromoteIsStale(w)
           \/ PromoteFails(w) \/ RemineDue(w)
           \/ CancelMining \/ \E c \in Waiter : AwaitMining(c)
    PROVE  LabInv'
<1> USE DEF vars, labVars, modelVars, countVars, buildVars, auxVars
<1>0. /\ LabTypeOK /\ PendingExact /\ ModelCoherent /\ ModelMatchesState /\ EnginesOwned
      /\ DueImpliesWork /\ Closing
      /\ \A v \in Worker : Past(v) /\ Staging(v) /\ Informed(v)
      /\ \A u, v \in Worker : pc[u] # "idle" /\ pc[v] # "idle" => u = v
      /\ \A v \in Worker : pc[v] # "idle" => running
      /\ \A k \in Config : Interval[k] \in Nat /\ Interval[k] > 0
      /\ TypeOK /\ TypeOK'
  BY IntervalAssumption DEF LabInv, IndInv, SingleFlight, Active
<1>1. CASE CaptureFails(w)
  <2> USE <1>1 DEF CaptureFails, CaptureRaises, RaisesUnbuilt, threadVars, Goto
  <2>1. /\ LabTypeOK' /\ PendingExact' /\ ModelMatchesState' /\ ModelCoherent'
       /\ EnginesOwned' /\ Closing'
    BY <1>0 DEF LabTypeOK, TypeOK, Model, Snapshot, PendingExact, ModelMatchesState, Past,
                ModelCoherent, Closing, Staging, EnginesOwned, LabFree
  <2>2. /\ DueImpliesWork' /\ \A v \in Worker : Past(v)' /\ Staging(v)' /\ Informed(v)'
    BY <1>0 DEF LabTypeOK, TypeOK, DueImpliesWork, Due, LabFree, Past, InFlight, Snapshot,
                Staging, Holding, Informed, Deciding
  <2> QED
    BY <2>1, <2>2 DEF LabInv
<1>2. CASE PromoteIsStale(w)
  <2> USE <1>2 DEF PromoteIsStale, PromoteRejects, threadVars, Goto
  <2>1. /\ LabTypeOK' /\ PendingExact' /\ ModelMatchesState' /\ ModelCoherent'
       /\ EnginesOwned' /\ Closing'
    BY <1>0 DEF LabTypeOK, TypeOK, Model, Snapshot, PendingExact, ModelMatchesState, Past,
                ModelCoherent, Closing, Staging, EnginesOwned, LabFree
  <2>2. /\ DueImpliesWork' /\ \A v \in Worker : Past(v)' /\ Staging(v)' /\ Informed(v)'
    BY <1>0 DEF LabTypeOK, TypeOK, DueImpliesWork, Due, LabFree, Past, InFlight, Snapshot,
                Staging, Holding, Informed, Deciding
  <2> QED
    BY <2>1, <2>2 DEF LabInv
<1>3. CASE PromoteFails(w)
  <2> USE <1>3 DEF PromoteFails, PromoteRaises, RaisesBuilt, threadVars, Goto
  <2>1. /\ LabTypeOK' /\ PendingExact' /\ ModelMatchesState' /\ ModelCoherent'
       /\ EnginesOwned' /\ Closing'
    BY <1>0 DEF LabTypeOK, TypeOK, Model, Snapshot, PendingExact, ModelMatchesState, Past,
                ModelCoherent, Closing, Staging, EnginesOwned, LabFree
  <2>2. /\ DueImpliesWork' /\ \A v \in Worker : Past(v)' /\ Staging(v)' /\ Informed(v)'
    BY <1>0 DEF LabTypeOK, TypeOK, DueImpliesWork, Due, LabFree, Past, InFlight, Snapshot,
                Staging, Holding, Informed, Deciding
  <2> QED
    BY <2>1, <2>2 DEF LabInv
<1>4. CASE RemineDue(w)
  <2> USE <1>4 DEF RemineDue, RetriggerAnswers, threadVars, Goto
  <2>1. /\ LabTypeOK' /\ PendingExact' /\ ModelMatchesState' /\ ModelCoherent'
       /\ EnginesOwned' /\ Closing'
    BY <1>0 DEF LabTypeOK, TypeOK, Model, Snapshot, PendingExact, ModelMatchesState, Past,
                ModelCoherent, Closing, Staging, EnginesOwned, LabFree
  <2>2. /\ DueImpliesWork' /\ \A v \in Worker : Past(v)' /\ Staging(v)' /\ Informed(v)'
    BY <1>0 DEF LabTypeOK, TypeOK, DueImpliesWork, Due, LabFree, Past, InFlight, Snapshot,
                Staging, Holding, Informed, Deciding
  <2> QED
    BY <2>1, <2>2 DEF LabInv
<1>5. CASE CancelMining
  <2> USE <1>5 DEF CancelMining, CloseCoordinator, NotifyAll, threadVars
  <2>1. /\ LabTypeOK' /\ PendingExact' /\ ModelMatchesState' /\ ModelCoherent'
       /\ EnginesOwned' /\ Closing'
    BY <1>0 DEF LabTypeOK, TypeOK, Model, Snapshot, PendingExact, ModelMatchesState, Past,
                ModelCoherent, Closing, Staging, EnginesOwned, LabFree
  <2>2. /\ DueImpliesWork' /\ \A v \in Worker : Past(v)' /\ Staging(v)' /\ Informed(v)'
    BY <1>0 DEF LabTypeOK, TypeOK, DueImpliesWork, Due, LabFree, Past, InFlight, Snapshot,
                Staging, Holding, Informed, Deciding
  <2> QED
    BY <2>1, <2>2 DEF LabInv
<1>6. ASSUME NEW c \in Waiter, AwaitMining(c) PROVE LabInv'
  <2> USE <1>6 DEF AwaitMining, WaitTests, threadVars
  <2>1. /\ LabTypeOK' /\ PendingExact' /\ ModelMatchesState' /\ ModelCoherent'
       /\ EnginesOwned' /\ Closing'
    BY <1>0 DEF LabTypeOK, TypeOK, Model, Snapshot, PendingExact, ModelMatchesState, Past,
                ModelCoherent, Closing, Staging, EnginesOwned, LabFree
  <2>2. /\ DueImpliesWork' /\ \A v \in Worker : Past(v)' /\ Staging(v)' /\ Informed(v)'
    BY <1>0 DEF LabTypeOK, TypeOK, DueImpliesWork, Due, LabFree, Past, InFlight, Snapshot,
                Staging, Holding, Informed, Deciding
  <2> QED
    BY <2>1, <2>2 DEF LabInv
<1>7. CASE CoordinatorStep(w) /\ BeginAttempt(w)
  <2> USE <1>7 DEF CoordinatorStep, BeginAttempt, threadVars, Goto
  <2>1. /\ LabTypeOK' /\ PendingExact' /\ ModelMatchesState' /\ ModelCoherent'
       /\ EnginesOwned' /\ Closing'
    BY <1>0 DEF LabTypeOK, TypeOK, Model, Snapshot, PendingExact, ModelMatchesState, Past,
                ModelCoherent, Closing, Staging, EnginesOwned, LabFree
  <2>2. /\ DueImpliesWork' /\ \A v \in Worker : Past(v)' /\ Staging(v)' /\ Informed(v)'
    BY <1>0 DEF LabTypeOK, TypeOK, DueImpliesWork, Due, LabFree, Past, InFlight, Snapshot,
                Staging, Holding, Informed, Deciding
  <2> QED
    BY <2>1, <2>2 DEF LabInv
<1>8. CASE CoordinatorStep(w) /\ CheckClosed(w)
  <2> USE <1>8 DEF CoordinatorStep, CheckClosed, threadVars, Goto
  <2>1. /\ LabTypeOK' /\ PendingExact' /\ ModelMatchesState' /\ ModelCoherent'
       /\ EnginesOwned' /\ Closing'
    BY <1>0 DEF LabTypeOK, TypeOK, Model, Snapshot, PendingExact, ModelMatchesState, Past,
                ModelCoherent, Closing, Staging, EnginesOwned, LabFree
  <2>2. /\ DueImpliesWork' /\ \A v \in Worker : Past(v)' /\ Staging(v)' /\ Informed(v)'
    BY <1>0 DEF LabTypeOK, TypeOK, DueImpliesWork, Due, LabFree, Past, InFlight, Snapshot,
                Staging, Holding, Informed, Deciding
  <2> QED
    BY <2>1, <2>2 DEF LabInv
<1>9. CASE CoordinatorStep(w) /\ PublishOutcome(w)
  <2> USE <1>9 DEF CoordinatorStep, PublishOutcome, threadVars, Goto
  <2>1. /\ LabTypeOK' /\ PendingExact' /\ ModelMatchesState' /\ ModelCoherent'
       /\ EnginesOwned' /\ Closing'
    BY <1>0 DEF LabTypeOK, TypeOK, Model, Snapshot, PendingExact, ModelMatchesState, Past,
                ModelCoherent, Closing, Staging, EnginesOwned, LabFree
  <2>2. /\ DueImpliesWork' /\ \A v \in Worker : Past(v)' /\ Staging(v)' /\ Informed(v)'
    BY <1>0 DEF LabTypeOK, TypeOK, DueImpliesWork, Due, LabFree, Past, InFlight, Snapshot,
                Staging, Holding, Informed, Deciding
  <2> QED
    BY <2>1, <2>2 DEF LabInv
<1>10. CASE CoordinatorStep(w) /\ ObserveEpoch(w)
  <2> USE <1>10 DEF CoordinatorStep, ObserveEpoch, threadVars, Goto
  <2>1. /\ LabTypeOK' /\ PendingExact' /\ ModelMatchesState' /\ ModelCoherent'
       /\ EnginesOwned' /\ Closing'
    BY <1>0 DEF LabTypeOK, TypeOK, Model, Snapshot, PendingExact, ModelMatchesState, Past,
                ModelCoherent, Closing, Staging, EnginesOwned, LabFree
  <2>2. /\ DueImpliesWork' /\ \A v \in Worker : Past(v)' /\ Staging(v)'
    BY <1>0 DEF LabTypeOK, TypeOK, DueImpliesWork, Due, LabFree, Past, InFlight, Snapshot,
                Staging, Holding
  <2>3. \A v \in Worker : Informed(v)'
    <3> SUFFICES ASSUME NEW v \in Worker PROVE Informed(v)'
      OBVIOUS
    <3>1. observed'[v] <= epoch'
      BY <1>0 DEF TypeOK, Informed
    <3>2. pc'[v] \in Deciding => lastError' = failed'[v]
      BY <1>0 DEF TypeOK, Informed, Deciding
    <3>3. CASE v = w
      <4>1. closed => labClosed
        BY <1>0 DEF Closing
      <4>2. pc'[v] \notin {"validate", "decide"} \/ labClosed'
        BY <1>0, <3>3, <4>1 DEF TypeOK
      <4> QED
        BY <3>1, <3>2, <4>2 DEF Informed
    <3>4. CASE v # w
      BY <1>0, <3>1, <3>2, <3>4 DEF TypeOK, Informed, Due, LabFree
    <3> QED
      BY <3>3, <3>4
  <2> QED
    BY <2>1, <2>2, <2>3 DEF LabInv
<1>11. CASE CoordinatorStep(w) /\ ValidateEpoch(w)
  <2> USE <1>11 DEF CoordinatorStep, ValidateEpoch, threadVars, Goto
  <2>1. /\ LabTypeOK' /\ PendingExact' /\ ModelMatchesState' /\ ModelCoherent'
       /\ EnginesOwned' /\ Closing'
    BY <1>0 DEF LabTypeOK, TypeOK, Model, Snapshot, PendingExact, ModelMatchesState, Past,
                ModelCoherent, Closing, Staging, EnginesOwned, LabFree
  <2>2. /\ DueImpliesWork' /\ \A v \in Worker : Past(v)' /\ Staging(v)' /\ Informed(v)'
    BY <1>0 DEF LabTypeOK, TypeOK, DueImpliesWork, Due, LabFree, Past, InFlight, Snapshot,
                Staging, Holding, Informed, Deciding
  <2> QED
    BY <2>1, <2>2 DEF LabInv
<1>12. CASE CoordinatorStep(w) /\ GoIdle(w)
  <2> USE <1>12 DEF CoordinatorStep, GoIdle, NotifyAll, Retry, threadVars, Goto
  <2>1. /\ LabTypeOK' /\ PendingExact' /\ ModelMatchesState' /\ ModelCoherent'
       /\ Closing'
    BY <1>0 DEF LabTypeOK, TypeOK, Model, Snapshot, PendingExact, ModelMatchesState, Past,
                ModelCoherent, Closing, Staging, LabFree
  <2>2. \A v \in Worker : Past(v)' /\ Staging(v)' /\ Informed(v)'
    BY <1>0 DEF LabTypeOK, TypeOK, Past, InFlight, Snapshot, Staging, Holding, Informed,
                Deciding, Due, LabFree
  <2>3. EnginesOwned'
    <3>1. \A v \in Worker : staged[v] = None /\ retiring[v] = None
      BY <1>0 DEF Staging, Holding
    <3>2. \A e \in Engine : compiled[e] # None => e = serving
      BY <1>0, <3>1, EngineAssumption DEF EnginesOwned
    <3> QED
      BY <3>2 DEF EnginesOwned
  <2>4. DueImpliesWork'
    <3>1. CASE labClosed
      BY <3>1 DEF DueImpliesWork
    <3>2. CASE ~labClosed /\ LabFree /\ Due
      <4>1. observed[w] = epoch /\ ~Retry(w)
        BY <1>0, <3>2 DEF Closing
      <4>2. needed[w] \/ lowered
        BY <1>0, <3>2, <4>1 DEF Informed
      <4>3. lastError = failed[w]
        BY <1>0 DEF Informed, Deciding
      <4> QED
        BY <4>1, <4>2, <4>3 DEF DueImpliesWork
    <3> QED
      BY <3>1, <3>2 DEF DueImpliesWork, Due, LabFree
  <2> QED
    BY <2>1, <2>2, <2>3, <2>4 DEF LabInv
<1>13. CASE CoordinatorStep(w) /\ Reobserve(w)
  <2> USE <1>13 DEF CoordinatorStep, Reobserve, threadVars, Goto
  <2>1. /\ LabTypeOK' /\ PendingExact' /\ ModelMatchesState' /\ ModelCoherent'
       /\ EnginesOwned' /\ Closing'
    BY <1>0 DEF LabTypeOK, TypeOK, Model, Snapshot, PendingExact, ModelMatchesState, Past,
                ModelCoherent, Closing, Staging, EnginesOwned, LabFree
  <2>2. /\ DueImpliesWork' /\ \A v \in Worker : Past(v)' /\ Staging(v)' /\ Informed(v)'
    BY <1>0 DEF LabTypeOK, TypeOK, DueImpliesWork, Due, LabFree, Past, InFlight, Snapshot,
                Staging, Holding, Informed, Deciding
  <2> QED
    BY <2>1, <2>2 DEF LabInv
<1>14. CASE CoordinatorStep(w) /\ Retrigger(w)
  <2> USE <1>14 DEF CoordinatorStep, Retrigger, threadVars, Goto
  <2>1. /\ LabTypeOK' /\ PendingExact' /\ ModelMatchesState' /\ ModelCoherent'
       /\ EnginesOwned' /\ Closing'
    BY <1>0 DEF LabTypeOK, TypeOK, Model, Snapshot, PendingExact, ModelMatchesState, Past,
                ModelCoherent, Closing, Staging, EnginesOwned, LabFree
  <2>2. /\ DueImpliesWork' /\ \A v \in Worker : Past(v)' /\ Staging(v)' /\ Informed(v)'
    BY <1>0 DEF LabTypeOK, TypeOK, DueImpliesWork, Due, LabFree, Past, InFlight, Snapshot,
                Staging, Holding, Informed, Deciding
  <2> QED
    BY <2>1, <2>2 DEF LabInv
<1> QED
  BY <1>1, <1>2, <1>3, <1>4, <1>5, <1>6, <1>7, <1>8, <1>9, <1>10, <1>11, <1>12, <1>13, <1>14
  DEF CoordinatorStep, InternalStep

LEMMA BuilderKeeps ==
    ASSUME LabInv, IndInv, IndInv', NEW w \in Worker,
           Capture(w) \/ Build(w) \/ BuildFails(w) \/ PromoteRetires(w) \/ Dispose(w)
    PROVE  LabInv'
<1> USE DEF vars, labVars, modelVars, countVars, buildVars, auxVars
<1>0. /\ LabTypeOK /\ PendingExact /\ ModelCoherent /\ ModelMatchesState /\ EnginesOwned
      /\ DueImpliesWork /\ Closing
      /\ \A v \in Worker : Past(v) /\ Staging(v) /\ Informed(v)
      /\ \A u, v \in Worker : pc[u] # "idle" /\ pc[v] # "idle" => u = v
      /\ \A v \in Worker : pc[v] # "idle" => running
      /\ \A k \in Config : Interval[k] \in Nat /\ Interval[k] > 0
      /\ TypeOK /\ TypeOK'
  BY IntervalAssumption DEF LabInv, IndInv, SingleFlight, Active
<1>1. CASE Capture(w)
  <2> USE <1>1 DEF Capture, CaptureReturns, threadVars, Goto
  <2>1. /\ LabTypeOK' /\ PendingExact' /\ ModelMatchesState' /\ ModelCoherent'
       /\ EnginesOwned' /\ Closing'
    BY <1>0 DEF LabTypeOK, TypeOK, Model, Snapshot, PendingExact, ModelMatchesState, Past,
                ModelCoherent, Closing, Staging, EnginesOwned, LabFree
  <2>2. DueImpliesWork'
    BY <1>0 DEF LabTypeOK, TypeOK, DueImpliesWork, Due, LabFree
  <2>3. \A v \in Worker : Past(v)'
    <3> SUFFICES ASSUME NEW v \in Worker PROVE Past(v)'
      OBVIOUS
    <3>1. CASE v = w
      <4>1. snapshot'[v] = [seq |-> eventSeq, events |-> recorded, base |-> version,
                           config |-> config]
        BY <1>0, <3>1 DEF LabTypeOK
      <4> QED
        BY <1>0, <4>1, SequenceCounts DEF LabTypeOK, Past, ModelMatchesState
    <3>2. CASE v # w
      <4>1. pc[v] = "idle" /\ pc'[v] = "idle"
        BY <1>0, <3>2 DEF TypeOK
      <4> QED
        BY <4>1 DEF Past, InFlight
    <3> QED
      BY <3>1, <3>2
  <2>4. \A v \in Worker : Staging(v)'
    BY <1>0 DEF LabTypeOK, TypeOK, Staging, Holding
  <2>5. \A v \in Worker : Informed(v)'
    BY <1>0 DEF LabTypeOK, TypeOK, Informed, Deciding, Due, LabFree
  <2> QED
    BY <2>1, <2>2, <2>3, <2>4, <2>5 DEF LabInv
<1>2. CASE Build(w)
  <2> USE <1>2 DEF Build, BuildReturns, threadVars, Goto
  <2>1. /\ LabTypeOK' /\ PendingExact' /\ ModelMatchesState' /\ ModelCoherent'
       /\ Closing'
    BY <1>0 DEF LabTypeOK, TypeOK, Model, Snapshot, PendingExact, ModelMatchesState, Past,
                ModelCoherent, Closing, Staging, LabFree
  <2>2. /\ DueImpliesWork' /\ \A v \in Worker : Past(v)' /\ Informed(v)'
    BY <1>0 DEF LabTypeOK, TypeOK, DueImpliesWork, Due, LabFree, Past, InFlight, Snapshot,
                Informed, Deciding
  <2>3. EnginesOwned'
    <3> PICK e \in Engine \ {serving} :
              /\ compiled[e] = None
              /\ staged' = [staged EXCEPT ![w] = e]
              /\ compiled' = [compiled EXCEPT ![e] = [events |-> snapshot[w].events,
                                                     config |-> snapshot[w].config]]
      OBVIOUS
    <3>1. staged'[w] = e /\ pc'[w] # "idle"
      BY <1>0 DEF LabTypeOK, TypeOK
    <3>2. \A f \in Engine : f # e => compiled'[f] = compiled[f]
      BY <1>0 DEF LabTypeOK
    <3>3. \A v \in Worker : v # w => pc[v] = "idle"
      BY <1>0
    <3>4. staged[w] = None /\ retiring[w] = None
      BY <1>0 DEF Staging, Holding
    <3> QED
      BY <1>0, <3>1, <3>2, <3>3, <3>4, EngineAssumption DEF EnginesOwned
  <2>4. \A v \in Worker : Staging(v)'
    <3> PICK e \in Engine \ {serving} :
              /\ compiled[e] = None
              /\ staged' = [staged EXCEPT ![w] = e]
              /\ compiled' = [compiled EXCEPT ![e] = [events |-> snapshot[w].events,
                                                     config |-> snapshot[w].config]]
      OBVIOUS
    <3> SUFFICES ASSUME NEW v \in Worker PROVE Staging(v)'
      OBVIOUS
    <3>1. CASE v = w
      <4>1. /\ retiring'[v] = None /\ staged'[v] = e /\ pc'[v] = "check" /\ e # None
            /\ compiled'[e] = [events |-> snapshot[w].events, config |-> snapshot[w].config]
        <5>1. retiring[w] = None
          BY <1>0 DEF Staging
        <5>2. e # None /\ pc'[w] = "check"
          BY <1>0, EngineAssumption DEF TypeOK
        <5> QED
          BY <1>0, <3>1, <5>1, <5>2 DEF LabTypeOK
      <4> QED
        BY <3>1, <4>1 DEF Staging, Holding
    <3>2. CASE v # w
      <4>1. pc'[v] = "idle" /\ staged'[v] = None /\ retiring'[v] = None
        <5>1. pc[v] = "idle"
          BY <1>0, <3>2
        <5>2. staged[v] = None /\ retiring[v] = None
          BY <1>0, <5>1 DEF Staging, Holding
        <5> QED
          BY <1>0, <3>2, <5>1, <5>2 DEF LabTypeOK, TypeOK
      <4> QED
        BY <4>1 DEF Staging, Holding
    <3> QED
      BY <3>1, <3>2
  <2> QED
    BY <2>1, <2>2, <2>3, <2>4 DEF LabInv
<1>3. CASE BuildFails(w)
  <2> USE <1>3 DEF BuildFails, BuildRaises, RaisesUnbuilt, threadVars, Goto
  <2>1. /\ LabTypeOK' /\ PendingExact' /\ ModelMatchesState' /\ ModelCoherent'
       /\ EnginesOwned' /\ Closing'
    BY <1>0 DEF LabTypeOK, TypeOK, Model, Snapshot, PendingExact, ModelMatchesState, Past,
                ModelCoherent, Closing, Staging, EnginesOwned, LabFree
  <2>2. /\ DueImpliesWork' /\ \A v \in Worker : Past(v)' /\ Staging(v)' /\ Informed(v)'
    BY <1>0 DEF LabTypeOK, TypeOK, DueImpliesWork, Due, LabFree, Past, InFlight, Snapshot,
                Staging, Holding, Informed, Deciding
  <2> QED
    BY <2>1, <2>2 DEF LabInv
<1>4. CASE PromoteRetires(w)
  <2> USE <1>4 DEF PromoteRetires, PromoteAccepts, threadVars, Goto
  <2>1. /\ EnginesOwned' /\ Closing'
    BY <1>0 DEF LabTypeOK, EnginesOwned, Staging, TypeOK, Closing, LabFree
  <2>2. /\ DueImpliesWork' /\ \A v \in Worker : Past(v)' /\ Informed(v)'
    BY <1>0 DEF LabTypeOK, TypeOK, DueImpliesWork, Due, LabFree, Past, InFlight, Snapshot,
                Informed, Deciding
  <2>3. LabTypeOK'
    BY <1>0 DEF LabTypeOK, TypeOK, Model, Snapshot
  <2>4. PendingExact' /\ ModelMatchesState'
    BY <1>0 DEF LabTypeOK, PendingExact, ModelMatchesState, Past
  <2>5. ModelCoherent'
    BY <1>0 DEF LabTypeOK, ModelCoherent, Closing, Staging
  <2>6. \A v \in Worker : Staging(v)'
    <3> SUFFICES ASSUME NEW v \in Worker PROVE Staging(v)'
      OBVIOUS
    <3>1. staged'[v] = None /\ retiring'[v] = None
      BY <1>0 DEF LabTypeOK, Staging, Holding
    <3>2. pc'[v] \in {"idle", "publish"}
      BY <1>0 DEF TypeOK
    <3> QED
      BY <3>1, <3>2 DEF Staging, Holding
  <2> QED
    BY <2>1, <2>2, <2>3, <2>4, <2>5, <2>6 DEF LabInv
<1>5. CASE Dispose(w)
  <2> USE <1>5 DEF Dispose, DisposeReturns, DisposeAfterError, DisposeFrom, threadVars, Goto
  <2>1. /\ LabTypeOK' /\ PendingExact' /\ ModelMatchesState' /\ Closing'
    BY <1>0 DEF LabTypeOK, TypeOK, Model, Snapshot, PendingExact, ModelMatchesState, Past,
                Closing, LabFree
  <2>2. /\ DueImpliesWork' /\ \A v \in Worker : Past(v)' /\ Informed(v)'
    BY <1>0 DEF LabTypeOK, TypeOK, DueImpliesWork, Due, LabFree, Past, InFlight, Snapshot,
                Informed, Deciding
  <2>3. ModelCoherent'
    <3>1. /\ pc[w] \in {"dispose", "dispose_failed"}
          /\ retiring[w] = None /\ staged[w] \in Engine /\ staged[w] # serving
      BY <1>0 DEF LabTypeOK, Staging, Holding
    <3>2. compiled'[serving] = compiled[serving]
      BY <1>0, <3>1 DEF LabTypeOK
    <3> QED
      BY <1>0, <3>2 DEF ModelCoherent
  <2>4. EnginesOwned'
    <3>1. /\ pc[w] \in {"dispose", "dispose_failed"}
          /\ retiring[w] = None /\ staged[w] \in Engine /\ staged[w] # serving
      BY <1>0 DEF LabTypeOK, Staging, Holding
    <3>2. \A e \in Engine : compiled'[e] # None => compiled[e] # None /\ e # staged[w]
      BY <1>0 DEF LabTypeOK
    <3>3. \A v \in Worker : v # w => pc[v] = "idle"
      BY <1>0, <3>1
    <3>4. \A e \in Engine : compiled'[e] # None => e = serving
      BY <1>0, <3>1, <3>2, <3>3, EngineAssumption DEF EnginesOwned
    <3> QED
      BY <3>4 DEF EnginesOwned
  <2>5. \A v \in Worker : Staging(v)'
    <3> SUFFICES ASSUME NEW v \in Worker PROVE Staging(v)'
      OBVIOUS
    <3>1. staged'[v] = None /\ retiring'[v] = None
      BY <1>0 DEF LabTypeOK, Staging, Holding
    <3>2. pc'[v] \in {"idle", "publish"}
      BY <1>0 DEF TypeOK
    <3> QED
      BY <3>1, <3>2 DEF Staging, Holding
  <2> QED
    BY <2>1, <2>2, <2>3, <2>4, <2>5 DEF LabInv
<1> QED
  BY <1>1, <1>2, <1>3, <1>4, <1>5

-----------------------------------------------------------------------------
LEMMA StepLabInv ==
    ASSUME "prewarm" \notin LabFault
    PROVE  IndInv /\ IndInv' /\ LabInv /\ [Next]_vars => LabInv'
<1> SUFFICES ASSUME IndInv, IndInv', LabInv, [Next]_vars PROVE LabInv'
  OBVIOUS
<1>1. CASE UNCHANGED vars
  <2> USE <1>1 DEF vars, labVars, modelVars, countVars, buildVars, auxVars, coordVars, threadVars
  <2>1. /\ LabTypeOK /\ PendingExact /\ ModelCoherent /\ ModelMatchesState /\ EnginesOwned
        /\ DueImpliesWork /\ Closing
    BY DEF LabInv
  <2>2. LabTypeOK' /\ PendingExact' /\ ModelCoherent' /\ ModelMatchesState' /\ EnginesOwned'
    BY <2>1 DEF LabTypeOK, TypeOK, PendingExact, ModelCoherent, ModelMatchesState, EnginesOwned
  <2>3. DueImpliesWork' /\ Closing'
    BY <2>1 DEF DueImpliesWork, Due, LabFree, Closing
  <2>4. \A w \in Worker : Past(w)' /\ Staging(w)' /\ Informed(w)'
    BY DEF LabInv, Past, Staging, Informed, Due, LabFree
  <2> QED
    BY <2>2, <2>3, <2>4 DEF LabInv
<1>2. CASE RecordEvent \/ RecordUncounted \/ FinishEvent
  <2>1. config \in Config
    BY DEF LabInv, LabTypeOK
  <2> QED
    BY <1>2, <2>1, RequestKeeps
<1>3. ASSUME NEW c \in Config, Configure(c) \/ MineSucceeds(c) \/ MinePrewarmRaises(c)
      PROVE  LabInv'
  BY <1>3, RequestKeeps DEF MinePrewarmRaises
<1>4. ASSUME NEW w \in Worker, BuilderStep(w) PROVE LabInv'
  BY <1>4, LabKeeps, CoordinatorKeeps, BuilderKeeps DEF BuilderStep
<1>5. ASSUME CloseLab \/ CloseStep PROVE LabInv'
  <2>1. CASE \E w \in Worker : TRUE
    BY <1>5, <2>1, LabKeeps, CoordinatorKeeps DEF CloseStep
  <2> QED
    BY <2>1, WorkerAssumption
<1> QED
  BY <1>1, <1>2, <1>3, <1>4, <1>5 DEF Next

(* A prewarm that fails after the engine was replaced breaks coherence (the *)
(* run BackgroundMining_prewarm): the theorems exclude it.                  *)
THEOREM LabInvariance == ASSUME "prewarm" \notin LabFault PROVE Spec => [](IndInv /\ LabInv)
<1>1. Init => IndInv /\ LabInv
  BY InitIndInv, InitLabInv DEF Init
<1>2. IndInv /\ LabInv /\ [Next]_vars => IndInv' /\ LabInv'
  BY StepIndInv, Composes, StepLabInv
<1> QED
  BY <1>1, <1>2, PTL DEF Spec

(* The variables of the Lab and its coordinator hold values of their types. *)
THEOREM LabTypeCorrect == ASSUME "prewarm" \notin LabFault PROVE Spec => []LabTypeOK
<1>1. IndInv /\ LabInv => LabTypeOK
  BY DEF LabInv
<1> QED
  BY <1>1, LabInvariance, PTL

(* pending_events is how many counted events the served rules have not     *)
(* seen, whatever promotions, explicit mines, counted and uncounted events *)
(* interleave.                                                             *)
THEOREM PendingIsExact == ASSUME "prewarm" \notin LabFault PROVE Spec => []PendingExact
<1>1. IndInv /\ LabInv => PendingExact
  BY DEF LabInv
<1> QED
  BY <1>1, LabInvariance, PTL

(* Engine and metadata are one version.                                    *)
THEOREM ModelIsCoherent == ASSUME "prewarm" \notin LabFault PROVE Spec => []ModelCoherent
<1>1. IndInv /\ LabInv => ModelCoherent
  BY DEF LabInv
<1> QED
  BY <1>1, LabInvariance, PTL

(* The served rules match the mining configuration, and the counters hold  *)
(* of what they have seen exactly the counted events.                      *)
THEOREM ModelFollowsState == ASSUME "prewarm" \notin LabFault PROVE Spec => []ModelMatchesState
<1>1. IndInv /\ LabInv => ModelMatchesState
  BY DEF LabInv
<1> QED
  BY <1>1, LabInvariance, PTL

(* Due events always have a build or a failure to wait for.                *)
THEOREM DueIsNeverForgotten == ASSUME "prewarm" \notin LabFault PROVE Spec => []DueImpliesWork
<1>1. IndInv /\ LabInv => DueImpliesWork
  BY DEF LabInv
<1> QED
  BY <1>1, LabInvariance, PTL

(* No engine process is orphaned.                                          *)
THEOREM NoOrphanEngine == ASSUME "prewarm" \notin LabFault PROVE Spec => []EnginesOwned
<1>1. IndInv /\ LabInv => EnginesOwned
  BY DEF LabInv
<1> QED
  BY <1>1, LabInvariance, PTL

(* close() never prunes the workspaces under a build.                      *)
THEOREM ReleaseIsSafe == ASSUME "prewarm" \notin LabFault PROVE Spec => []NoBuildAfterRelease
<1>1. IndInv /\ LabInv => NoBuildAfterRelease
  BY DEF LabInv, IndInv, Closing, NoBuildAfterRelease, SingleFlight, Active
<1> QED
  BY <1>1, LabInvariance, PTL

-----------------------------------------------------------------------------
(* The Lab implements the abstract served model, and never goes backwards. *)

LEMMA ServedStep ==
    ASSUME "prewarm" \notin LabFault, IndInv, LabInv, [Next]_vars
    PROVE  /\ [Served!Next]_(Served!vars)
           /\ rules'.events >= rules.events /\ lastMined' >= lastMined
<1> USE DEF vars, labVars, modelVars, countVars, buildVars, auxVars, Served!vars
<1> DEFINE Forward == rules'.events >= rules.events /\ lastMined' >= lastMined
<1>0. /\ LabTypeOK /\ PendingExact /\ ModelMatchesState
      /\ \A w \in Worker : Past(w) /\ Staging(w)
  BY DEF LabInv
<1>1. /\ recorded \in Nat /\ counted \in SUBSET (1..recorded) /\ rules.events \in 0..recorded
      /\ lastMined \in Nat /\ pending \in Nat /\ eventSeq = lastMined + pending
      /\ lastMined = Cardinality(UpTo(counted, rules.events))
  BY <1>0, SequenceCounts DEF LabTypeOK, PendingExact, ModelMatchesState
<1>2. CASE UNCHANGED <<version, rules, recorded, config, labClosed, lastMined>>
  BY <1>1, <1>2
<1>3. CASE RecordEvent \/ RecordUncounted
  <2>1. /\ ~labClosed /\ recorded' = recorded + 1
        /\ UNCHANGED <<version, rules, config, labClosed, lastMined>>
    BY <1>3 DEF RecordEvent, RecordUncounted, AppendEvent
  <2> QED
    BY <1>1, <2>1 DEF Served!Next, Served!Record
<1>4. ASSUME NEW c \in Config, Configure(c) PROVE Served!Next /\ Forward
  BY <1>1, <1>4 DEF Configure, Served!Next, Served!Reconfigure
<1>5. ASSUME NEW c \in Config, MineSucceeds(c) PROVE Served!Next /\ Forward
  <2>1. rules' = [events |-> recorded, config |-> config'] /\ recorded \in rules.events..recorded
    BY <1>1, <1>5 DEF MineSucceeds
  <2>2. lastMined' = eventSeq
    BY <1>5 DEF MineSucceeds, MineNow
  <2> QED
    BY <1>1, <1>5, <2>1, <2>2 DEF MineSucceeds, MineNow, Served!Next, Served!Publish
<1>6. ASSUME NEW w \in Worker, Promote(w) PROVE Served!Next /\ Forward
  <2> USE <1>6 DEF Promote, PromoteWith, Stale
  <2>1. staged[w] # None
    BY <1>0 DEF Staging, Holding
  <2>2. rules' = [events |-> snapshot[w].events, config |-> config']
    BY <1>0, <2>1 DEF Staging
  <2>3. /\ snapshot[w].events \in rules.events..recorded
        /\ snapshot[w].seq = Cardinality(UpTo(counted, snapshot[w].events))
    BY <1>0, <1>1 DEF Past, InFlight, LabTypeOK, Snapshot
  <2>4. config' \in Config /\ version' = version + 1 /\ lastMined' = snapshot[w].seq
    BY <1>0 DEF LabTypeOK
  <2>5. ~labClosed /\ UNCHANGED <<recorded, labClosed>>
    OBVIOUS
  <2>6. lastMined' >= lastMined
    <3>1. Cardinality(UpTo(counted, rules.events)) <= Cardinality(UpTo(counted, snapshot[w].events))
      <4>1. rules.events \in Nat /\ snapshot[w].events \in Nat /\ rules.events <= snapshot[w].events
        BY <1>1, <2>3
      <4> QED
        BY <1>1, <4>1, CountsGrow
    <3> QED
      BY <1>0, <1>1, <2>3, <2>4, <3>1 DEF LabTypeOK, Snapshot
  <2> QED
    BY <1>1, <2>2, <2>3, <2>4, <2>5, <2>6 DEF Served!Next, Served!Publish
<1>7. CASE CloseLab
  BY <1>1, <1>7 DEF CloseLab, Served!Next, Served!Shut
<1>8. ASSUME NEW w \in Worker, BuilderStep(w), ~Promote(w)
      PROVE  UNCHANGED <<version, rules, recorded, config, labClosed, lastMined>>
  BY <1>8 DEF BuilderStep, Capture, CaptureFails, BuildLocks, Build, BuildFails, PromoteRetires,
              PromoteIsStale, PromoteFails, Dispose, RemineDue, CoordinatorStep
<1>9. CASE FinishEvent \/ CloseStep \/ UNCHANGED vars
  BY <1>2, <1>9 DEF FinishEvent, CloseStep, CancelMining, AwaitMining, ReleaseWorkspaces,
                    CloseEngine
<1> QED
  BY <1>2, <1>3, <1>4, <1>5, <1>6, <1>7, <1>8, <1>9 DEF Next, MinePrewarmRaises

(* Background promotions, explicit mines, configuration and close appear   *)
(* to a client as single steps of ServedModel.                             *)
THEOREM Refinement == ASSUME "prewarm" \notin LabFault PROVE Spec => ImplementsServedModel
<1>1. Init => Served!Init
  BY DEF Init, Served!Init
<1>2. IndInv /\ LabInv /\ [Next]_vars => [Served!Next]_(Served!vars)
  BY ServedStep
<1> QED
  BY <1>1, <1>2, LabInvariance, PTL DEF Spec, ImplementsServedModel, Served!Spec

(* No promotion or mine replaces a model by one that has seen less.        *)
THEOREM NeverBackwards == ASSUME "prewarm" \notin LabFault PROVE Spec => MinedOnlyForward
<1>1. IndInv /\ LabInv /\ [Next]_vars =>
        [rules'.events >= rules.events /\ lastMined' >= lastMined]_vars
  BY ServedStep
<1> QED
  BY <1>1, LabInvariance, PTL DEF Spec, MinedOnlyForward

-----------------------------------------------------------------------------
(* The frozen serving model                                                *)

ServedRules == [rules : Nat, setting : Setup]
FileState == [digest : ServedRules, model : ServedRules]
SightingState == [path : Path, life : Nat, model : ServedRules]
ProcessState ==
    [at : {"free", "started", "read", "built", "serves"}, line : CommandLine, file : FileState,
     life : Nat, serves : ServedRules, reports : ServedRules]

FrozenTypeOK ==
    /\ files \in [Path -> FileState]
    /\ synced \subseteq Path
    /\ processes \in [Process -> ProcessState]
    /\ rulesMined \in Nat
    /\ lives \in [Path -> Nat]
    /\ sightings \subseteq SightingState

\* A sighting tells what the file says of itself as long as its path is not emptied.
SightingsHold ==
    \A s \in sightings :
      /\ s.life <= lives[s.path] /\ s.model # NoModel
      /\ s.life = lives[s.path] => files[s.path] # NoFile /\ files[s.path].digest = s.model

FilesSighted ==
    \A f \in Path : files[f] # NoFile =>
      files[f].digest # NoModel /\ Sighting(f, lives[f], files[f].digest) \in sightings

\* What a process has read or installed was sighted in the life of the path in
\* which it read.
Backed(process) ==
    /\ process.at # "free" =>
         /\ process.line.pool \/ process.line.frozen => process.line.load # NoPath
    /\ process.at = "read" =>
         /\ process.line.load # NoPath /\ process.file.digest # NoModel
         /\ Sighting(process.line.load, process.life, process.file.digest) \in sightings
    /\ process.at \in {"built", "serves"} => process.serves # NoModel
    /\ \/ process.at = "built" /\ process.line.load # NoPath
       \/ process.at = "serves" /\ process.line.frozen
       => /\ process.serves = process.reports
          /\ Sighting(process.line.load, process.life, process.serves) \in sightings

AllBacked == \A p \in Process : Backed(processes[p])

FInv == FrozenTypeOK /\ SightingsHold /\ FilesSighted /\ AllBacked /\ OneModelPerLife

-----------------------------------------------------------------------------
\* What the process and its line start from.
LEMMA Beginnings ==
    /\ NoModel \in ServedRules /\ NoFile \in FileState /\ NoFile.digest = NoModel
    /\ AnyLine \in CommandLine
    /\ Free \in ProcessState /\ Free.at = "free"
    /\ \A line \in CommandLine : /\ Started(line) \in ProcessState /\ Started(line).at = "started"
                                 /\ Started(line).line = line
<1> USE FrozenAssumption
<1>1. NoModel \in ServedRules /\ NoFile \in FileState /\ NoFile.digest = NoModel
  BY DEF NoModel, ServedRules, NoFile, File, FileState
<1>2. AnyLine \in CommandLine
  <2> DEFINE line == [pool |-> FALSE, frozen |-> FALSE, load |-> NoPath, export |-> NoPath,
                      exportOnly |-> FALSE, setting |-> NoSetup]
  <2>1. line \in CommandLine /\ ~line.pool /\ line.load = NoPath /\ line.export = NoPath
    BY DEF CommandLine
  <2> HIDE DEF line
  <2> QED
    BY <2>1 DEF AnyLine
<1>3. Free \in ProcessState /\ Free.at = "free"
  BY <1>1, <1>2 DEF Free, ProcessState
<1>4. ASSUME NEW line \in CommandLine
      PROVE  /\ Started(line) \in ProcessState /\ Started(line).at = "started"
             /\ Started(line).line = line
  BY <1>3 DEF Started, ProcessState
<1> QED
  BY <1>1, <1>2, <1>3, <1>4

LEMMA FrozenInitInv == FrozenInit => FInv
<1> SUFFICES ASSUME FrozenInit PROVE FInv
  OBVIOUS
<1> USE Beginnings DEF FrozenInit
<1>1. FrozenTypeOK
  BY DEF FrozenTypeOK
<1>2. SightingsHold /\ FilesSighted /\ OneModelPerLife
  BY DEF SightingsHold, FilesSighted, OneModelPerLife
<1>3. AllBacked
  BY DEF AllBacked, Backed
<1> QED
  BY <1>1, <1>2, <1>3 DEF FInv

-----------------------------------------------------------------------------
\* A step of one process that writes no file.
LEMMA ProcessSteps ==
    ASSUME FInv, NEW p \in Process, NEW process \in ProcessState, Backed(process),
           processes' = [processes EXCEPT ![p] = process],
           rulesMined' \in Nat,
           UNCHANGED <<files, synced, lives, sightings>>
    PROVE  FInv'
<1>1. FrozenTypeOK'
  BY DEF FInv, FrozenTypeOK
<1>2. SightingsHold' /\ FilesSighted' /\ OneModelPerLife'
  BY DEF FInv, SightingsHold, FilesSighted, OneModelPerLife
<1>3. AllBacked'
  <2> SUFFICES ASSUME NEW q \in Process PROVE Backed(processes[q])'
    BY DEF AllBacked
  <2>1. processes'[q] = IF q = p THEN process ELSE processes[q]
    BY DEF FInv, FrozenTypeOK
  <2>2. Backed(processes[q])
    BY DEF FInv, AllBacked
  <2> QED
    BY <2>1, <2>2 DEF Backed
<1> QED
  BY <1>1, <1>2, <1>3 DEF FInv

\* A step that empties paths, and may end processes.
LEMMA Empties ==
    ASSUME FInv, NEW gone \in SUBSET Path, synced' \subseteq Path,
           files' = [f \in Path |-> IF f \in gone THEN NoFile ELSE files[f]],
           lives' = Emptied(gone),
           processes' = processes \/ processes' = [p \in Process |-> Free],
           UNCHANGED <<rulesMined, sightings>>
    PROVE  FInv'
<1> USE Beginnings
<1>0. FrozenTypeOK /\ SightingsHold /\ FilesSighted /\ AllBacked /\ OneModelPerLife
  BY DEF FInv
<1>1. \A f \in Path : /\ files'[f] = IF f \in gone THEN NoFile ELSE files[f]
                      /\ lives'[f] = IF f \in gone THEN lives[f] + 1 ELSE lives[f]
                      /\ lives[f] \in Nat
  BY <1>0 DEF Emptied, FrozenTypeOK
<1>2. FrozenTypeOK'
  BY <1>0, <1>1 DEF FrozenTypeOK, Emptied
<1>3. SightingsHold'
  BY <1>0, <1>1 DEF SightingsHold, FrozenTypeOK, SightingState
<1>4. FilesSighted'
  BY <1>0, <1>1 DEF FilesSighted
<1>5. AllBacked'
  BY <1>0 DEF AllBacked, Backed
<1> QED
  BY <1>0, <1>2, <1>3, <1>4, <1>5 DEF FInv, OneModelPerLife

-----------------------------------------------------------------------------
LEMMA StartInv ==
    ASSUME FInv, NEW p \in Process, StartProcess(p)
    PROVE  FInv'
<1>1. PICK line \in CommandLine : Admitted(line) /\ processes' = [processes EXCEPT ![p] = Started(line)]
  BY DEF StartProcess
<1>2. Started(line) \in ProcessState /\ Backed(Started(line))
  BY <1>1, Beginnings DEF Backed, Admitted
<1>3. rulesMined' \in Nat /\ UNCHANGED <<files, synced, lives, sightings>>
  BY DEF StartProcess, FInv, FrozenTypeOK
<1> QED
  BY <1>1, <1>2, <1>3, ProcessSteps

LEMMA SpawnInv ==
    ASSUME FInv, NEW p \in Process, NEW pool \in Process, SpawnScorer(pool, p)
    PROVE  FInv'
<1> DEFINE line == ScorerLine(processes[pool].line)
<1>1. line \in CommandLine /\ line.load = processes[pool].line.load
  BY DEF ScorerLine, CommandLine, FInv, FrozenTypeOK, ProcessState
<1>2. line.load # NoPath
  BY <1>1 DEF SpawnScorer, FInv, AllBacked, Backed
<1> HIDE DEF line
<1>3. Started(line) \in ProcessState /\ Backed(Started(line))
  BY <1>1, <1>2, Beginnings DEF Backed
<1>4. /\ processes' = [processes EXCEPT ![p] = Started(line)]
      /\ rulesMined' \in Nat /\ UNCHANGED <<files, synced, lives, sightings>>
  BY DEF SpawnScorer, FInv, FrozenTypeOK, line
<1> QED
  BY <1>3, <1>4, ProcessSteps

LEMMA ReadInv ==
    ASSUME FInv, NEW p \in Process, ReadModel(p)
    PROVE  FInv'
<1> DEFINE f == processes[p].line.load
           process == IF files[f] = NoFile THEN Free
                      ELSE [processes[p] EXCEPT !.at = "read", !.file = files[f], !.life = lives[f]]
<1>1. /\ processes' = [processes EXCEPT ![p] = process]
      /\ rulesMined' \in Nat /\ UNCHANGED <<files, synced, lives, sightings>>
  BY DEF ReadModel, FInv, FrozenTypeOK
<1>2. /\ processes[p] \in ProcessState /\ f \in Path /\ files[f] \in FileState /\ lives[f] \in Nat
      /\ f # NoPath
  BY DEF ReadModel, FInv, FrozenTypeOK, ProcessState, CommandLine
<1>3. process \in ProcessState
  BY <1>2, Beginnings DEF ProcessState
<1>4. Backed(process)
  <2>1. CASE files[f] = NoFile
    BY <2>1, Beginnings DEF Backed
  <2>2. CASE files[f] # NoFile
    <3>1. /\ process.at = "read" /\ process.line.load = f /\ process.file = files[f]
          /\ process.life = lives[f]
      BY <1>2, <2>2 DEF ProcessState
    <3>2. files[f].digest # NoModel /\ Sighting(f, lives[f], files[f].digest) \in sightings
      BY <1>2, <2>2 DEF FInv, FilesSighted
    <3> HIDE DEF process, f
    <3> QED
      BY <1>2, <3>1, <3>2 DEF Backed
  <2> QED
    BY <2>1, <2>2
<1> HIDE DEF process
<1> QED
  BY <1>1, <1>3, <1>4, ProcessSteps

\* The sighting that an installation adds was made when the file was read.
LEMMA InstallInv ==
    ASSUME FInv, NEW p \in Process, InstallModel(p)
    PROVE  FInv'
<1> DEFINE old == processes[p]
           file == old.file
           fits == file.digest = file.model
           process == IF fits THEN [old EXCEPT !.at = "built", !.serves = file.model,
                                               !.reports = file.digest]
                      ELSE Free
<1>1. /\ processes' = [processes EXCEPT ![p] = process]
      /\ rulesMined' \in Nat /\ UNCHANGED <<files, synced, lives>>
  BY DEF InstallModel, FInv, FrozenTypeOK
<1>2. /\ old \in ProcessState /\ file \in FileState /\ file.model \in ServedRules /\ file.digest \in ServedRules
      /\ old.at = "read" /\ old.line.load # NoPath /\ file.digest # NoModel
      /\ Sighting(old.line.load, old.life, file.digest) \in sightings
  BY DEF InstallModel, FInv, FrozenTypeOK, AllBacked, Backed, ProcessState, FileState
<1>3. sightings' = sightings
  BY <1>2 DEF InstallModel
<1>4. process \in ProcessState
  BY <1>2, Beginnings DEF ProcessState
<1>5. Backed(process)
  <2>1. CASE ~fits
    BY <2>1, Beginnings DEF Backed
  <2>2. CASE fits
    <3>1. /\ process.at = "built" /\ process.line = old.line /\ process.serves = file.digest
          /\ process.reports = file.digest /\ process.life = old.life
      BY <1>2, <2>2 DEF ProcessState
    <3> HIDE DEF process, fits, file, old
    <3> QED
      BY <1>2, <3>1 DEF Backed
  <2> QED
    BY <2>1, <2>2
<1> HIDE DEF process
<1> QED
  BY <1>1, <1>3, <1>4, <1>5, ProcessSteps

\* MineModel, ServeModel, MineOn and ProcessEnds.
LEMMA MinedIsNew ==
    ASSUME FInv, NEW s \in Setup
    PROVE  MinedModel(s) \in ServedRules /\ MinedModel(s) # NoModel
BY DEF MinedModel, ServedRules, NoModel, FInv, FrozenTypeOK

LEMMA LivesInv ==
    ASSUME FInv, NEW p \in Process,
           MineModel(p) \/ ServeModel(p) \/ MineOn(p) \/ ProcessEnds(p)
    PROVE  FInv'
<1> DEFINE old == processes[p]
<1>0. /\ old \in ProcessState /\ Backed(old) /\ rulesMined \in Nat /\ rulesMined' \in Nat
      /\ UNCHANGED <<files, synced, lives, sightings>>
  BY DEF FInv, FrozenTypeOK, AllBacked, MineModel, ServeModel, MineOn, ProcessEnds
\* Whatever the step makes of the process.
<1>1. ASSUME NEW process \in ProcessState, Backed(process),
             processes' = [processes EXCEPT ![p] = process]
      PROVE  FInv'
  BY <1>0, <1>1, ProcessSteps
<1> HIDE DEF old
<1>2. CASE MineModel(p)
  <2> DEFINE setting == IF old.line.setting = NoSetup THEN DefaultSetup ELSE old.line.setting
             process == [old EXCEPT !.at = "built", !.serves = MinedModel(setting)]
  <2>1. setting \in Setup /\ old.line.load = NoPath /\ ~old.line.pool /\ ~old.line.frozen
    BY <1>0, <1>2, FrozenAssumption DEF MineModel, ProcessState, CommandLine, Backed, old
  <2>2. processes' = [processes EXCEPT ![p] = process]
    BY <1>2 DEF MineModel, old
  <2> HIDE DEF setting
  <2>3. MinedModel(setting) \in ServedRules /\ MinedModel(setting) # NoModel
    BY <2>1, MinedIsNew
  <2>4. /\ process \in ProcessState /\ process.at = "built" /\ process.line = old.line
        /\ process.serves = MinedModel(setting)
    BY <1>0, <2>3 DEF ProcessState
  <2> HIDE DEF process
  <2>5. Backed(process)
    BY <2>1, <2>3, <2>4 DEF Backed
  <2> QED
    BY <1>1, <2>2, <2>4, <2>5
<1>3. CASE ServeModel(p)
  <2> DEFINE process == [old EXCEPT !.at = "serves"]
  <2>1. processes' = [processes EXCEPT ![p] = process] /\ old.at = "built"
    BY <1>3 DEF ServeModel, old
  <2>2. /\ process \in ProcessState /\ process.at = "serves" /\ process.line = old.line
        /\ process.life = old.life /\ process.serves = old.serves /\ process.reports = old.reports
    BY <1>0 DEF ProcessState
  <2> HIDE DEF process
  <2>3. Backed(process)
    BY <1>0, <2>1, <2>2 DEF Backed
  <2> QED
    BY <1>1, <2>1, <2>2, <2>3
<1>4. CASE MineOn(p)
  <2>1. PICK s \in Setup : processes' = [processes EXCEPT ![p].serves = MinedModel(s)]
    BY <1>4 DEF MineOn
  <2> DEFINE process == [old EXCEPT !.serves = MinedModel(s)]
  <2>2. processes' = [processes EXCEPT ![p] = process] /\ old.at = "serves" /\ ~old.line.frozen
    BY <1>4, <2>1 DEF MineOn, old
  <2>3. MinedModel(s) \in ServedRules /\ MinedModel(s) # NoModel
    BY MinedIsNew
  <2>4. /\ process \in ProcessState /\ process.at = "serves" /\ process.line = old.line
        /\ process.serves = MinedModel(s)
    BY <1>0, <2>2, <2>3 DEF ProcessState
  <2> HIDE DEF process
  <2>5. Backed(process)
    BY <1>0, <2>2, <2>3, <2>4 DEF Backed
  <2> QED
    BY <1>1, <2>2, <2>4, <2>5
<1>5. CASE ProcessEnds(p)
  <2>1. Free \in ProcessState /\ Backed(Free)
    BY Beginnings DEF Backed
  <2> QED
    BY <1>1, <1>5, <2>1 DEF ProcessEnds
<1> QED
  BY <1>2, <1>3, <1>4, <1>5

\* The file that is linked is the first of the life of its path.
LEMMA ExportInv ==
    ASSUME FInv, NEW p \in Process, ExportModel(p)
    PROVE  FInv'
<1> DEFINE old == processes[p]
           f == old.line.export
           m == old.serves
<1>0. /\ FrozenTypeOK /\ SightingsHold /\ FilesSighted /\ AllBacked /\ OneModelPerLife
      /\ old \in ProcessState /\ Backed(old) /\ old.at = "built" /\ f \in Path /\ lives[f] \in Nat
      /\ m \in ServedRules /\ m # NoModel
      /\ UNCHANGED <<synced, rulesMined, lives>> /\ rulesMined' \in Nat
  BY DEF FInv, FrozenTypeOK, AllBacked, Backed, ExportModel, ProcessState, CommandLine
<1>1. CASE files[f] # NoFile
  <2>1. Free \in ProcessState /\ Backed(Free)
    BY Beginnings DEF Backed
  <2>2. processes' = [processes EXCEPT ![p] = Free] /\ UNCHANGED <<files, sightings>>
    BY <1>1 DEF ExportModel
  <2> QED
    BY <1>0, <2>1, <2>2, ProcessSteps
<1>2. CASE files[f] = NoFile
  <2> DEFINE process == IF old.line.exportOnly THEN Free ELSE [old EXCEPT !.at = "serves"]
             seen == Sighting(f, lives[f], m)
  <2>1. /\ files' = [files EXCEPT ![f] = File(m, m)]
        /\ sightings' = sightings \cup {seen}
        /\ processes' = [processes EXCEPT ![p] = process]
    BY <1>2 DEF ExportModel
  <2>2. File(m, m) \in FileState /\ File(m, m) # NoFile /\ File(m, m).digest = m
    BY <1>0, Beginnings DEF File, FileState, NoFile
  <2>3. seen \in SightingState /\ seen.path = f /\ seen.life = lives[f] /\ seen.model = m
    BY <1>0 DEF Sighting, SightingState
  <2>4. process \in ProcessState
    BY <1>0, Beginnings DEF ProcessState
  <2>5. Backed(process)
    <3>1. CASE old.line.exportOnly
      BY <3>1, Beginnings DEF Backed
    <3>2. CASE ~old.line.exportOnly
      <4>1. /\ process.at = "serves" /\ process.line = old.line /\ process.life = old.life
            /\ process.serves = old.serves /\ process.reports = old.reports
        BY <1>0, <3>2 DEF ProcessState
      <4> HIDE DEF process, old
      <4> QED
        BY <1>0, <4>1 DEF Backed
    <3> QED
      BY <3>1, <3>2
  <2> HIDE DEF process, seen, old, f, m
  <2>6. \A s \in sightings : s \in SightingState /\ (s.path = f => s.life # lives[f])
    BY <1>0, <1>2 DEF SightingsHold, FrozenTypeOK
  <2>7. /\ files'[f] = File(m, m)
        /\ \A g \in Path : g # f => files'[g] = files[g]
    BY <1>0, <2>1 DEF FrozenTypeOK
  <2>8. FrozenTypeOK'
    BY <1>0, <2>1, <2>2, <2>3, <2>4 DEF FrozenTypeOK
  <2>9. SightingsHold'
    <3> SUFFICES ASSUME NEW s \in sightings'
                 PROVE  /\ s.life <= lives[s.path] /\ s.model # NoModel
                        /\ s.life = lives[s.path] => files'[s.path] # NoFile /\ files'[s.path].digest = s.model
      BY <1>0 DEF SightingsHold
    <3>1. CASE s = seen
      BY <1>0, <2>2, <2>3, <2>7, <3>1
    <3>2. CASE s # seen
      <4>1. s \in sightings /\ s.path \in Path
        BY <2>1, <2>6, <3>2 DEF SightingState
      <4>2. /\ s.life <= lives[s.path] /\ s.model # NoModel
            /\ s.life = lives[s.path] => files[s.path] # NoFile /\ files[s.path].digest = s.model
        BY <1>0, <4>1 DEF SightingsHold
      <4> QED
        BY <2>6, <2>7, <4>1, <4>2
    <3> QED
      BY <3>1, <3>2
  <2>10. FilesSighted'
    BY <1>0, <2>1, <2>2, <2>7 DEF FilesSighted, seen
  <2>11. AllBacked'
    <3> SUFFICES ASSUME NEW q \in Process PROVE Backed(processes[q])'
      BY DEF AllBacked
    <3>1. processes'[q] = IF q = p THEN process ELSE processes[q]
      BY <1>0, <2>1 DEF FrozenTypeOK
    <3>2. Backed(processes[q])
      BY <1>0 DEF AllBacked
    <3> QED
      BY <2>1, <2>5, <3>1, <3>2 DEF Backed
  <2>12. OneModelPerLife'
    BY <1>0, <2>1, <2>3, <2>6 DEF OneModelPerLife
  <2> QED
    BY <2>8, <2>9, <2>10, <2>11, <2>12 DEF FInv
<1> QED
  BY <1>1, <1>2

-----------------------------------------------------------------------------
\* What befalls the files.
LEMMA FilesInv ==
    ASSUME FInv,
           PowerLoss \/ \E f \in Path : RemoveFile(f) \/ DamageFile(f) \/ DirectorySynced(f)
    PROVE  FInv'
<1>0. FrozenTypeOK /\ SightingsHold /\ FilesSighted /\ AllBacked /\ OneModelPerLife
  BY DEF FInv
<1>1. CASE PowerLoss
  <2>1. PICK gone \in SUBSET {f \in Path \ synced : files[f] # NoFile} :
          /\ files' = [f \in Path |-> IF f \in gone THEN NoFile ELSE files[f]]
          /\ lives' = Emptied(gone)
    BY <1>1 DEF PowerLoss
  <2>2. gone \in SUBSET Path /\ synced' \subseteq Path
    BY <1>0, <1>1 DEF FrozenTypeOK, PowerLoss
  <2> QED
    BY <1>1, <2>1, <2>2, Empties DEF PowerLoss
<1>2. ASSUME NEW f \in Path, RemoveFile(f) PROVE FInv'
  <2>1. /\ files' = [g \in Path |-> IF g \in {f} THEN NoFile ELSE files[g]]
        /\ {f} \in SUBSET Path /\ synced' \subseteq Path
    BY <1>0, <1>2 DEF FrozenTypeOK, RemoveFile
  <2> QED
    BY <1>2, <2>1, Empties DEF RemoveFile
<1>3. ASSUME NEW f \in Path, DamageFile(f) PROVE FInv'
  <2> DEFINE damaged == [files[f] EXCEPT !.model = NoModel]
  <2>1. /\ damaged \in FileState /\ damaged.digest = files[f].digest /\ damaged # NoFile
        /\ files' = [files EXCEPT ![f] = damaged]
        /\ UNCHANGED <<synced, processes, rulesMined, lives, sightings>>
    <3>1. files[f] \in FileState /\ files[f].digest # NoModel
      BY <1>0, <1>3 DEF FrozenTypeOK, DamageFile, FilesSighted
    <3> QED
      BY <1>3, <3>1, Beginnings DEF DamageFile, FileState
  <2> HIDE DEF damaged
  <2>2. \A g \in Path : files'[g].digest = files[g].digest /\ (files'[g] = NoFile => files[g] = NoFile)
    BY <1>0, <2>1 DEF FrozenTypeOK
  <2>3. FrozenTypeOK'
    BY <1>0, <2>1 DEF FrozenTypeOK
  <2>4. SightingsHold'
    BY <1>0, <2>1, <2>2 DEF SightingsHold, FrozenTypeOK, SightingState
  <2>5. FilesSighted'
    BY <1>0, <1>3, <2>1 DEF FilesSighted, FrozenTypeOK, DamageFile
  <2>6. AllBacked' /\ OneModelPerLife'
    BY <1>0, <2>1 DEF AllBacked, Backed, OneModelPerLife
  <2> QED
    BY <2>3, <2>4, <2>5, <2>6 DEF FInv
<1>4. ASSUME NEW f \in Path, DirectorySynced(f) PROVE FInv'
  <2>1. FrozenTypeOK'
    BY <1>0, <1>4 DEF DirectorySynced, FrozenTypeOK
  <2>2. SightingsHold' /\ FilesSighted' /\ OneModelPerLife' /\ AllBacked'
    BY <1>0, <1>4
    DEF DirectorySynced, SightingsHold, FilesSighted, OneModelPerLife, AllBacked, Backed
  <2> QED
    BY <2>1, <2>2 DEF FInv
<1> QED
  BY <1>1, <1>2, <1>3, <1>4

-----------------------------------------------------------------------------
LEMMA FrozenNextInv == FInv /\ [FrozenNext]_frozenVars => FInv'
<1> SUFFICES ASSUME FInv, [FrozenNext]_frozenVars PROVE FInv'
  OBVIOUS
<1>1. CASE PowerLoss \/ \E f \in Path : RemoveFile(f) \/ DamageFile(f) \/ DirectorySynced(f)
  BY <1>1, FilesInv
<1>2. ASSUME NEW p \in Process,
             \/ StartProcess(p) \/ ReadModel(p) \/ InstallModel(p) \/ MineModel(p)
             \/ ExportModel(p) \/ ServeModel(p) \/ MineOn(p) \/ ProcessEnds(p)
             \/ \E pool \in Process : SpawnScorer(pool, p)
      PROVE  FInv'
  BY <1>2, StartInv, SpawnInv, ReadInv, InstallInv, LivesInv, ExportInv
<1>3. CASE UNCHANGED frozenVars
  BY <1>3 DEF frozenVars, FInv, FrozenTypeOK, SightingsHold, FilesSighted, AllBacked, Backed,
              OneModelPerLife
<1> QED
  BY <1>1, <1>2, <1>3 DEF FrozenNext

\* The invariant of a run: while a path is not emptied every sighting of it has
\* the digest of its file, and what a process read or loaded is such a sighting.
THEOREM FrozenInvHolds == FrozenSpec => []FInv
<1> QED
  BY FrozenInitInv, FrozenNextInv, PTL DEF FrozenSpec

\* app/server.py, lab_lifecycle.py: the files, the processes and the models keep
\* their types whatever mishap befalls them.
THEOREM FrozenTypeCorrect == FrozenSpec => []FrozenTypeOK
<1>1. FInv => FrozenTypeOK
  BY DEF FInv
<1> QED
  BY <1>1, FrozenInvHolds, PTL

\* app/server.py:1678-1838: for any number of scorers, replacements and mishaps,
\* the scorers of a pool serve a model as it was written, and all the same one.
THEOREM FrozenIsSound == FrozenSpec => []FrozenSound
<1>1. FInv => FrozenSound
  BY DEF FInv, FrozenSound, AllBacked, Backed, FrozenServesWhatWasWritten
<1> QED
  BY <1>1, FrozenInvHolds, PTL

-----------------------------------------------------------------------------
(* The semantic previews                                                   *)

PreviewEntry == [text : Content \ {NoText}, bytes : Nat, parsedAt : Nat, expires : Nat]
Bytes(entries) == [i \in DOMAIN entries |-> entries[i].bytes]
Distinct(entries) ==
    \A i, j \in DOMAIN entries : entries[i].text = entries[j].text => i = j

\* t is made of entries of s, each taken once.
TakenFrom(t, s) ==
    \E p \in [DOMAIN t -> DOMAIN s] :
      /\ \A i, j \in DOMAIN t : p[i] = p[j] => i = j
      /\ \A i \in DOMAIN t : t[i] = s[p[i]]

\* The bytes of a cache are a sum over its places.
LEMMA BytesSum ==
    ASSUME NEW s \in Seq(PreviewEntry)
    PROVE  /\ IsFiniteSet(DOMAIN s) /\ Nats(Bytes(s), DOMAIN s)
           /\ Sum(s) = SumFunctionOnSet(Bytes(s), DOMAIN s)
           /\ Sum(s) \in Nat
<1>1. IsFiniteSet(DOMAIN s)
  <2>1. DOMAIN s = 1..Len(s) /\ Len(s) \in Nat
    BY LenProperties
  <2> QED
    BY <2>1, FS_Interval
<1>2. Nats(Bytes(s), DOMAIN s)
  <2>1. ASSUME NEW i \in DOMAIN s PROVE s[i].bytes \in Nat
    <3>1. s[i] \in PreviewEntry
      BY ElementOfSeq, LenProperties
    <3> QED
      BY <3>1 DEF PreviewEntry
  <2> QED
    BY <2>1 DEF Nats, Bytes
<1>3. Sum(s) = SumFunctionOnSet(Bytes(s), DOMAIN s)
  <2>1. DOMAIN Bytes(s) = DOMAIN s
    BY DEF Bytes
  <2> QED
    BY <2>1 DEF Sum, SumFunction, Bytes
<1> QED
  BY <1>1, <1>2, <1>3, SumNat

\* An empty cache has none.
LEMMA NoBytes == Sum(<<>>) = 0
<1>1. DOMAIN <<>> = {} /\ Sum(<<>>) = SumFunctionOnSet(Bytes(<<>>), {})
  BY DEF Sum, SumFunction, Bytes
<1> QED
  BY <1>1, SumEmpty

\* What is made of some of the entries is no longer and no heavier, and has
\* no text twice.
LEMMA TakenSmaller ==
    ASSUME NEW s \in Seq(PreviewEntry), NEW t \in Seq(PreviewEntry), TakenFrom(t, s)
    PROVE  /\ Sum(t) <= Sum(s) /\ Len(t) <= Len(s)
           /\ Distinct(s) => Distinct(t)
           /\ \A i \in DOMAIN t : \E j \in DOMAIN s : t[i] = s[j]
<1>1. PICK p \in [DOMAIN t -> DOMAIN s] :
         /\ \A i, j \in DOMAIN t : p[i] = p[j] => i = j
         /\ \A i \in DOMAIN t : t[i] = s[p[i]]
  BY DEF TakenFrom
<1>2. Sum(t) <= Sum(s)
  <2>1. \A i \in DOMAIN t : p[i] \in DOMAIN s /\ Bytes(t)[i] <= Bytes(s)[p[i]]
    <3> TAKE i \in DOMAIN t
    <3>1. p[i] \in DOMAIN s /\ Bytes(t)[i] = Bytes(s)[p[i]]
      BY <1>1 DEF Bytes
    <3>2. Bytes(t)[i] \in Nat
      BY BytesSum DEF Nats
    <3> QED
      BY <3>1, <3>2
  <2> QED
    BY <1>1, <2>1, BytesSum, SumInject
<1>3. Len(t) <= Len(s)
  <2>1. /\ DOMAIN s = 1..Len(s) /\ Len(s) \in Nat
        /\ DOMAIN t = 1..Len(t) /\ Len(t) \in Nat
    BY LenProperties
  <2>2. p \in Injection(DOMAIN t, DOMAIN s)
    BY <1>1 DEF Injection, IsInjective
  <2>3. Cardinality(DOMAIN t) <= Cardinality(DOMAIN s)
    BY <2>2, BytesSum, FS_Injection
  <2>4. \A n \in Nat : Cardinality(1..n) = n
    BY FS_Interval
  <2> QED
    BY <2>1, <2>3, <2>4
<1>4. ASSUME Distinct(s) PROVE Distinct(t)
  BY <1>1, <1>4 DEF Distinct
<1> QED
  BY <1>1, <1>2, <1>3, <1>4

\* The first entry is dropped.
LEMMA TailTaken ==
    ASSUME NEW s \in Seq(PreviewEntry), NEW m \in 1..Len(s) + 1
    PROVE  /\ SubSeq(s, m, Len(s)) \in Seq(PreviewEntry)
           /\ TakenFrom(SubSeq(s, m, Len(s)), s)
<1> DEFINE t == SubSeq(s, m, Len(s))
           p == [i \in DOMAIN t |-> i + m - 1]
<1>1. /\ Len(t) = Len(s) - m + 1 /\ t \in Seq(PreviewEntry) /\ DOMAIN t = 1..Len(t)
      /\ \A i \in 1..Len(t) : t[i] = s[i + m - 1]
  OBVIOUS
<1>2. Len(s) \in Nat /\ DOMAIN s = 1..Len(s)
  BY LenProperties
<1> HIDE DEF t
<1>3. p \in [DOMAIN t -> DOMAIN s] /\ \A i, j \in DOMAIN t : p[i] = p[j] => i = j
  BY <1>1, <1>2
<1>4. \A i \in DOMAIN t : t[i] = s[p[i]]
  BY <1>1
<1> HIDE DEF p
<1>5. TakenFrom(t, s)
  BY <1>3, <1>4 DEF TakenFrom
<1> QED
  BY <1>1, <1>5 DEF t

\* The entries that have not expired are kept.
LEMMA FreshTaken ==
    ASSUME NEW s \in Seq(PreviewEntry)
    PROVE  /\ WithoutExpired(s) \in Seq(PreviewEntry)
           /\ TakenFrom(WithoutExpired(s), s)
<1> DEFINE fresh == {i \in DOMAIN s : s[i].expires > clock}
<1>1. Len(s) \in Nat /\ DOMAIN s = 1..Len(s)
  BY LenProperties
<1>2. CASE fresh = {}
  <2>1. WithoutExpired(s) = SubSeq(s, Len(s) + 1, Len(s))
    BY <1>1, <1>2, SubSeqEmpty DEF WithoutExpired
  <2> QED
    BY <1>1, <2>1, TailTaken
<1>3. CASE fresh # {}
  <2>1. fresh \in SUBSET Nat
    BY <1>1
  <2>2. Min(fresh) \in fresh
    <3> HIDE DEF fresh
    <3> QED
      BY <1>3, <2>1, MinIs
  <2>3. WithoutExpired(s) = SubSeq(s, Min(fresh), Len(s))
    BY <1>3 DEF WithoutExpired
  <2>4. Min(fresh) \in 1..Len(s) + 1
    <3>1. Min(fresh) \in 1..Len(s)
      BY <1>1, <2>2
    <3> QED
      BY <1>1, <3>1
  <2> QED
    BY <2>3, <2>4, TailTaken
<1> QED
  BY <1>2, <1>3

\* Removing one entry takes its bytes off.
LEMMA Removed ==
    ASSUME NEW s \in Seq(PreviewEntry), NEW i \in 1..Len(s)
    PROVE  /\ RemoveAt(s, i) \in Seq(PreviewEntry) /\ Len(RemoveAt(s, i)) = Len(s) - 1
           /\ \A j \in 1..Len(s) - 1 : RemoveAt(s, i)[j] = s[IF j < i THEN j ELSE j + 1]
<1> DEFINE front == SubSeq(s, 1, i - 1)
           back == SubSeq(s, i + 1, Len(s))
<1>1. /\ Len(front) = i - 1 /\ front \in Seq(PreviewEntry)
      /\ \A j \in 1..i - 1 : front[j] = s[j]
  OBVIOUS
<1>2. /\ Len(back) = Len(s) - i /\ back \in Seq(PreviewEntry)
      /\ \A j \in 1..Len(s) - i : back[j] = s[j + i]
  OBVIOUS
<1>3. Len(s) \in Nat
  BY LenProperties
<1>4. RemoveAt(s, i) = front \o back
  BY DEF RemoveAt
<1> HIDE DEF front, back
<1>5. /\ front \o back \in Seq(PreviewEntry) /\ Len(front \o back) = Len(front) + Len(back)
      /\ \A j \in 1..Len(front) + Len(back) :
           (front \o back)[j] = IF j <= Len(front) THEN front[j] ELSE back[j - Len(front)]
  BY <1>1, <1>2, ConcatProperties
<1>7. /\ RemoveAt(s, i) \in Seq(PreviewEntry) /\ Len(RemoveAt(s, i)) = Len(front) + Len(back)
      /\ \A j \in 1..Len(front) + Len(back) :
           RemoveAt(s, i)[j] = IF j <= Len(front) THEN front[j] ELSE back[j - Len(front)]
  BY <1>4, <1>5
<1>6. ASSUME NEW j \in 1..Len(s) - 1
      PROVE  RemoveAt(s, i)[j] = s[IF j < i THEN j ELSE j + 1]
  <2>1. RemoveAt(s, i)[j] = IF j <= i - 1 THEN front[j] ELSE back[j - (i - 1)]
    BY <1>1, <1>2, <1>3, <1>7
  <2>2. CASE j < i
    BY <1>1, <1>3, <2>1, <2>2
  <2>3. CASE ~(j < i)
    <3>1. j - (i - 1) \in 1..Len(s) - i /\ (j - (i - 1)) + i = j + 1
      BY <1>3, <2>3
    <3> QED
      BY <1>2, <2>1, <2>3, <3>1
  <2> QED
    BY <2>2, <2>3
<1> QED
  BY <1>1, <1>2, <1>3, <1>6, <1>7

\* The other entries are kept.
LEMMA OthersTaken ==
    ASSUME NEW s \in Seq(PreviewEntry), Distinct(s), NEW x
    PROVE  /\ OtherTexts(s, x) \in Seq(PreviewEntry)
           /\ TakenFrom(OtherTexts(s, x), s)
           /\ \A i \in DOMAIN OtherTexts(s, x) : OtherTexts(s, x)[i].text # x
<1> DEFINE places == {i \in DOMAIN s : s[i].text = x}
           t == OtherTexts(s, x)
<1>1. Len(s) \in Nat /\ DOMAIN s = 1..Len(s)
  BY LenProperties
<1>2. CASE places = {}
  <2>1. t = s
    BY <1>2 DEF OtherTexts
  <2> DEFINE p == [i \in DOMAIN s |-> i]
  <2>2. p \in [DOMAIN s -> DOMAIN s] /\ \A i, j \in DOMAIN s : p[i] = p[j] => i = j
    OBVIOUS
  <2>3. \A i \in DOMAIN s : s[i] = s[p[i]]
    OBVIOUS
  <2> HIDE DEF p
  <2>4. TakenFrom(s, s)
    BY <2>2, <2>3 DEF TakenFrom
  <2> QED
    BY <1>2, <2>1, <2>4
<1>3. CASE places # {}
  <2> DEFINE m == Min(places)
             p == [i \in DOMAIN t |-> IF i < m THEN i ELSE i + 1]
  <2>1. places \in SUBSET Nat
    BY <1>1
  <2>2. m \in places
    <3> HIDE DEF places
    <3> QED
      BY <1>3, <2>1, MinIs
  <2>3. m \in 1..Len(s) /\ s[m].text = x /\ t = RemoveAt(s, m)
    BY <1>1, <1>3, <2>2 DEF OtherTexts
  <2> HIDE DEF m, t
  <2>4. /\ t \in Seq(PreviewEntry) /\ Len(t) = Len(s) - 1
        /\ \A j \in 1..Len(s) - 1 : t[j] = s[IF j < m THEN j ELSE j + 1]
    BY <2>3, Removed
  <2>5. DOMAIN t = 1..Len(s) - 1
    BY <2>4, LenProperties
  <2>6. p \in [DOMAIN t -> DOMAIN s] /\ \A i, j \in DOMAIN t : p[i] = p[j] => i = j
    BY <1>1, <2>3, <2>5
  <2>7. \A i \in DOMAIN t : t[i] = s[p[i]]
    BY <2>4, <2>5
  <2>8. ASSUME NEW i \in DOMAIN t PROVE t[i].text # x
    <3>1. p[i] \in DOMAIN s /\ p[i] # m /\ m \in DOMAIN s
      BY <1>1, <2>3, <2>5, <2>6
    <3> HIDE DEF p
    <3> QED
      BY <2>3, <2>7, <3>1 DEF Distinct
  <2> HIDE DEF p
  <2>9. TakenFrom(t, s)
    BY <2>6, <2>7 DEF TakenFrom
  <2> QED
    BY <2>4, <2>8, <2>9 DEF t
<1> QED
  BY <1>2, <1>3

\* The move of an entry to the end keeps all the entries.
LEMMA MovedTaken ==
    ASSUME NEW s \in Seq(PreviewEntry), Distinct(s), NEW k \in DOMAIN s
    PROVE  LET t == Append(OtherTexts(s, s[k].text), s[k]) IN
           /\ t \in Seq(PreviewEntry) /\ TakenFrom(t, s) /\ TakenFrom(s, t)
<1> DEFINE places == {i \in DOMAIN s : s[i].text = s[k].text}
           u == RemoveAt(s, k)
           t == Append(u, s[k])
           n == Len(s)
           p == [i \in DOMAIN t |-> IF i = n THEN k ELSE IF i < k THEN i ELSE i + 1]
           q == [i \in DOMAIN s |-> IF i = k THEN n ELSE IF i < k THEN i ELSE i - 1]
<1>1. n \in Nat /\ DOMAIN s = 1..n /\ k \in 1..n
  BY LenProperties
<1>2. places = {k}
  BY DEF Distinct
<1>3. Min(places) = k
  <2>1. {k} \in SUBSET Nat /\ {k} # {}
    BY <1>1
  <2>2. Min({k}) \in {k}
    BY <2>1, MinIs
  <2> QED
    BY <1>2, <2>2
<1>4. OtherTexts(s, s[k].text) = u
  BY <1>2, <1>3 DEF OtherTexts
<1>5. s[k] \in PreviewEntry
  BY ElementOfSeq, LenProperties
<1>6. /\ u \in Seq(PreviewEntry) /\ Len(u) = n - 1
      /\ \A j \in 1..n - 1 : u[j] = s[IF j < k THEN j ELSE j + 1]
  BY <1>1, Removed
<1> HIDE DEF u, n
<1>7. /\ t \in Seq(PreviewEntry) /\ Len(t) = n
      /\ \A j \in 1..n - 1 : t[j] = u[j]
      /\ t[n] = s[k]
  BY <1>1, <1>5, <1>6, AppendProperties
<1> HIDE DEF t
<1>8. DOMAIN t = 1..n
  BY <1>7, LenProperties
<1>9. TakenFrom(t, s)
  <2>1. p \in [DOMAIN t -> DOMAIN s] /\ \A i, j \in DOMAIN t : p[i] = p[j] => i = j
    BY <1>1, <1>8
  <2>2. ASSUME NEW i \in DOMAIN t PROVE t[i] = s[p[i]]
    <3>1. CASE i = n
      BY <1>7, <3>1
    <3>2. CASE i # n
      <4>1. i \in 1..n - 1
        BY <1>1, <1>8, <3>2
      <4> QED
        BY <1>6, <1>7, <3>2, <4>1
    <3> QED
      BY <3>1, <3>2
  <2> HIDE DEF p
  <2> QED
    BY <2>1, <2>2 DEF TakenFrom
<1>10. TakenFrom(s, t)
  <2>1. q \in [DOMAIN s -> DOMAIN t] /\ \A i, j \in DOMAIN s : q[i] = q[j] => i = j
    BY <1>1, <1>8
  <2>2. ASSUME NEW i \in DOMAIN s PROVE s[i] = t[q[i]]
    <3>1. CASE i = k
      BY <1>7, <3>1
    <3>2. CASE i # k
      <4>1. q[i] \in 1..n - 1 /\ i = IF q[i] < k THEN q[i] ELSE q[i] + 1
        BY <1>1, <3>2
      <4> HIDE DEF q
      <4> QED
        BY <1>6, <1>7, <4>1
    <3> QED
      BY <3>1, <3>2
  <2> HIDE DEF q
  <2> QED
    BY <2>1, <2>2 DEF TakenFrom
<1> QED
  BY <1>4, <1>7, <1>9, <1>10 DEF t

\* Eviction, from the front, ends within both limits.
LEMMA EvictedFits ==
    ASSUME NEW s \in Seq(PreviewEntry), MaxEntries \in Nat, MaxBytes \in Nat
    PROVE  /\ Evicted(s) \in Seq(PreviewEntry) /\ TakenFrom(Evicted(s), s)
           /\ Len(Evicted(s)) <= MaxEntries /\ Sum(Evicted(s)) <= MaxBytes
<1> DEFINE Rest(n) == SubSeq(s, n + 1, Len(s))
           fits == {n \in 0..Len(s) : Len(Rest(n)) <= MaxEntries /\ Sum(Rest(n)) <= MaxBytes}
<1>1. Len(s) \in Nat
  BY LenProperties
<1>2. Rest(Len(s)) = <<>>
  BY <1>1, SubSeqEmpty
<1>3. Len(s) \in fits
  <2>1. Len(<<>>) = 0
    BY EmptySeq
  <2> HIDE DEF Rest
  <2> QED
    BY <1>1, <1>2, <2>1, NoBytes
<1>4. fits \in SUBSET Nat
  BY <1>1
<1>5. Min(fits) \in fits
  <2> HIDE DEF fits
  <2> QED
    BY <1>3, <1>4, MinIs
<1>6. Evicted(s) = Rest(Min(fits))
  BY DEF Evicted
<1> DEFINE m == Min(fits)
<1>7. m \in 0..Len(s) /\ Len(Rest(m)) <= MaxEntries /\ Sum(Rest(m)) <= MaxBytes
  BY <1>5
<1> HIDE DEF m
<1>8. Evicted(s) = SubSeq(s, m + 1, Len(s)) /\ m + 1 \in 1..Len(s) + 1
  BY <1>1, <1>6, <1>7 DEF m
<1> QED
  BY <1>7, <1>8, TailTaken

\* A part of a part is a part.
LEMMA TakenAgain ==
    ASSUME NEW s \in Seq(PreviewEntry), NEW t \in Seq(PreviewEntry), NEW u \in Seq(PreviewEntry),
           TakenFrom(u, t), TakenFrom(t, s)
    PROVE  TakenFrom(u, s)
<1>1. PICK p \in [DOMAIN t -> DOMAIN s] :
         /\ \A i, j \in DOMAIN t : p[i] = p[j] => i = j
         /\ \A i \in DOMAIN t : t[i] = s[p[i]]
  BY DEF TakenFrom
<1>2. PICK q \in [DOMAIN u -> DOMAIN t] :
         /\ \A i, j \in DOMAIN u : q[i] = q[j] => i = j
         /\ \A i \in DOMAIN u : u[i] = t[q[i]]
  BY DEF TakenFrom
<1> DEFINE o == [i \in DOMAIN u |-> p[q[i]]]
<1>3. /\ o \in [DOMAIN u -> DOMAIN s] /\ \A i, j \in DOMAIN u : o[i] = o[j] => i = j
      /\ \A i \in DOMAIN u : u[i] = s[o[i]]
  BY <1>1, <1>2
<1> HIDE DEF o
<1> QED
  BY <1>3 DEF TakenFrom

-----------------------------------------------------------------------------
PreviewAt == {"idle", "copied", "parse", "answered"}
ReaderState ==
    [at : PreviewAt, ok : BOOLEAN, lab : Labs, article : Content, since : Nat,
     answer : [text : Content, age : Nat], during : Labs]

PreviewTypes ==
    /\ activeLab \in Labs /\ clock \in Nat /\ asks \in Nat
    /\ previews \in [Labs -> Seq(PreviewEntry)]
    /\ bytesKept \in [Labs -> Nat]
    /\ readers \in [Reader -> ReaderState]

CacheHolds(l) ==
    /\ bytesKept[l] = Sum(previews[l])
    /\ Sum(previews[l]) <= MaxBytes /\ Len(previews[l]) <= MaxEntries
    /\ Distinct(previews[l])

\* An entry lives for TTL from the time its parse began.
Dated(entries) ==
    \A i \in DOMAIN entries :
      entries[i].expires = entries[i].parsedAt + TTL /\ entries[i].parsedAt <= clock

OneParser ==
    \A r, q \in Reader :
      readers[r].at = "parse" /\ readers[q].at = "parse" /\ readers[r].lab = readers[q].lab => r = q

\* What is being parsed is not in the cache, and stays out of it meanwhile.
ReaderHolds(r) ==
    /\ readers[r].at = "parse" =>
         /\ readers[r].since <= clock
         /\ \A i \in DOMAIN previews[readers[r].lab] :
              previews[readers[r].lab][i].text # readers[r].article
    /\ readers[r].at = "answered" =>
         /\ readers[r].answer.text = readers[r].article /\ readers[r].article # NoText
         /\ readers[r].answer.age < TTL
    /\ readers[r].ok => readers[r].lab = readers[r].during

PreviewIndInv ==
    /\ PreviewTypes /\ OneParser
    /\ \A l \in Labs : CacheHolds(l) /\ Dated(previews[l])
    /\ \A r \in Reader : ReaderHolds(r)

\* The constants, as their assumption has them.
LEMMA PreviewFacts ==
    /\ NoText \in Content
    /\ MaxEntries \in Nat \ {0} /\ MaxBytes \in Nat \ {0} /\ TTL \in Nat \ {0}
    /\ MaxLabs \in Nat \ {0} /\ 1 \in Labs /\ Sizes \subseteq Nat \ {0}
BY PreviewAssumption DEF Labs

\* A thread that has nothing to do.
LEMMA RestingReader == Resting \in ReaderState
BY PreviewFacts DEF Resting, NoAnswer, ReaderState, PreviewAt

\* The invariant holds of the empty caches.
THEOREM PreviewStarts == PreviewInit => PreviewIndInv
<1> SUFFICES ASSUME PreviewInit PROVE PreviewIndInv
  OBVIOUS
<1>1. PreviewTypes
  BY PreviewFacts, RestingReader, EmptySeq DEF PreviewInit, PreviewTypes
<1>2. \A r \in Reader : readers[r].at = "idle" /\ readers[r].ok = FALSE
  BY DEF PreviewInit, Resting
<1>3. \A l \in Labs : CacheHolds(l) /\ Dated(previews[l])
  <2> TAKE l \in Labs
  <2>1. previews[l] = <<>> /\ bytesKept[l] = 0 /\ Len(<<>>) = 0 /\ DOMAIN <<>> = {}
    BY DEF PreviewInit
  <2> QED
    BY <2>1, NoBytes, PreviewFacts DEF CacheHolds, Distinct, Dated
<1> QED
  BY <1>1, <1>2, <1>3 DEF PreviewIndInv, OneParser, ReaderHolds

\* What a step that takes entries out of the cache of one Lab leaves behind.
LEMMA ShrunkCache ==
    ASSUME PreviewIndInv, NEW l \in Labs, NEW kept \in Seq(PreviewEntry), TakenFrom(kept, previews[l]),
           NEW total, total = Sum(kept), 
           previews' = [previews EXCEPT ![l] = kept],
           bytesKept' = [bytesKept EXCEPT ![l] = @ - Sum(previews[l]) + total],
           UNCHANGED clock
    PROVE  /\ previews' \in [Labs -> Seq(PreviewEntry)] /\ bytesKept' \in [Labs -> Nat]
           /\ \A m \in Labs : CacheHolds(m)' /\ Dated(previews[m])'
           /\ \A m \in Labs : \A i \in DOMAIN previews'[m] :
                \E j \in DOMAIN previews[m] : previews'[m][i] = previews[m][j]
<1>1. previews[l] \in Seq(PreviewEntry) /\ bytesKept[l] \in Nat /\ CacheHolds(l) /\ Dated(previews[l])
  BY DEF PreviewIndInv, PreviewTypes
<1>2. /\ Sum(kept) <= Sum(previews[l]) /\ Len(kept) <= Len(previews[l]) /\ Distinct(kept)
      /\ \A i \in DOMAIN kept : \E j \in DOMAIN previews[l] : kept[i] = previews[l][j]
  BY <1>1, TakenSmaller DEF CacheHolds
<1>3. Sum(kept) \in Nat /\ Sum(previews[l]) \in Nat /\ Len(kept) \in Nat /\ Len(previews[l]) \in Nat
  BY <1>1, BytesSum, LenProperties
<1>4. bytesKept[l] - Sum(previews[l]) + total = Sum(kept)
  BY <1>1, <1>3 DEF CacheHolds
<1>5. previews'[l] = kept /\ bytesKept'[l] = Sum(kept)
  BY <1>4 DEF PreviewIndInv, PreviewTypes
<1>6. \A m \in Labs \ {l} : previews'[m] = previews[m] /\ bytesKept'[m] = bytesKept[m]
  BY DEF PreviewIndInv, PreviewTypes
<1>7. previews' \in [Labs -> Seq(PreviewEntry)] /\ bytesKept' \in [Labs -> Nat]
  BY <1>3, <1>4 DEF PreviewIndInv, PreviewTypes
<1>8. CacheHolds(l)' /\ Dated(previews[l])'
  <2>1. CacheHolds(l)'
    BY <1>1, <1>2, <1>3, <1>5, PreviewFacts DEF CacheHolds, Distinct
  <2>2. Dated(previews[l])'
    BY <1>1, <1>2, <1>5 DEF Dated
  <2> QED
    BY <2>1, <2>2
<1>9. ASSUME NEW m \in Labs \ {l} PROVE CacheHolds(m)' /\ Dated(previews[m])'
  BY <1>6, <1>9 DEF PreviewIndInv, CacheHolds, Distinct, Dated
<1> QED
  BY <1>2, <1>5, <1>6, <1>7, <1>8, <1>9

\* A reader whose Lab's cache only lost entries keeps what it has.
LEMMA ReaderKeeps ==
    ASSUME PreviewIndInv, NEW r \in Reader, readers'[r] = readers[r], clock <= clock', clock' \in Nat,
           \/ readers[r].at # "parse"
           \/ \A i \in DOMAIN previews'[readers[r].lab] :
                \E j \in DOMAIN previews[readers[r].lab] :
                  previews'[readers[r].lab][i] = previews[readers[r].lab][j]
    PROVE  ReaderHolds(r)'
<1>1. readers[r] \in ReaderState /\ ReaderHolds(r) /\ clock \in Nat
  BY DEF PreviewIndInv, PreviewTypes
<1>2. readers[r].since \in Nat
  BY <1>1 DEF ReaderState
<1> QED
  BY <1>1, <1>2 DEF ReaderHolds

\* A thread at rest has nothing to keep.
LEMMA RestingHolds == ASSUME NEW r \in Reader, readers'[r] = Resting PROVE ReaderHolds(r)'
BY DEF ReaderHolds, Resting

\* A thread that changes its state alone, without beginning a parse.
LEMMA ReaderMoves ==
    ASSUME PreviewIndInv, NEW r \in Reader, NEW state \in ReaderState,
           readers' = [readers EXCEPT ![r] = state], state.at # "parse",
           UNCHANGED <<activeLab, clock, previews, bytesKept>>, asks' \in Nat,
           state.at = "answered" => 
             state.answer.text = state.article /\ state.article # NoText /\ state.answer.age < TTL,
           state.ok => state.lab = state.during
    PROVE  PreviewIndInv'
<1>1. readers'[r] = state /\ \A q \in Reader \ {r} : readers'[q] = readers[q]
  BY DEF PreviewIndInv, PreviewTypes
<1>2. PreviewTypes'
  BY DEF PreviewIndInv, PreviewTypes
<1>3. OneParser'
  BY <1>1 DEF PreviewIndInv, OneParser
<1>4. \A l \in Labs : CacheHolds(l)' /\ Dated(previews[l])'
  BY DEF PreviewIndInv, CacheHolds, Distinct, Dated
<1>5. ASSUME NEW q \in Reader PROVE ReaderHolds(q)'
  <2>1. CASE q = r
    BY <1>1, <2>1 DEF ReaderHolds
  <2>2. CASE q # r
    <3>1. /\ clock \in Nat /\ clock' = clock /\ previews' = previews
          /\ readers'[q] = readers[q]
      BY <1>1, <2>2 DEF PreviewIndInv, PreviewTypes
    <3>2. clock <= clock' /\ clock' \in Nat
      BY <3>1
    <3>3. \A i \in DOMAIN previews'[readers[q].lab] :
            \E j \in DOMAIN previews[readers[q].lab] :
              previews'[readers[q].lab][i] = previews[readers[q].lab][j]
      BY <3>1
    <3> QED
      BY <3>1, <3>2, <3>3, ReaderKeeps
  <2> QED
    BY <2>1, <2>2
<1> QED
  BY <1>2, <1>3, <1>4, <1>5 DEF PreviewIndInv

\* A thread that parses a Lab holds that Lab's parser.
LEMMA AtParse ==
    ASSUME NEW r \in Reader, NEW q \in Reader, readers[r].at = "parse", Parsing(readers[q].lab) = {}
    PROVE  readers[r].lab # readers[q].lab
BY DEF Parsing

\* Every step of a client thread, of another Lab being opened and of the
\* clock keeps the invariant.
THEOREM PreviewStep == PreviewIndInv /\ [PreviewNext]_previewVars => PreviewIndInv'
<1> SUFFICES ASSUME PreviewIndInv, [PreviewNext]_previewVars PROVE PreviewIndInv'
  OBVIOUS
<1>0. /\ PreviewTypes /\ OneParser /\ activeLab \in Labs /\ clock \in Nat /\ asks \in Nat
      /\ \A r \in Reader : readers[r] \in ReaderState /\ ReaderHolds(r)
      /\ \A l \in Labs : previews[l] \in Seq(PreviewEntry) /\ CacheHolds(l) /\ Dated(previews[l])
  BY DEF PreviewIndInv, PreviewTypes
<1>1. CASE UNCHANGED previewVars
  BY <1>1 DEF PreviewIndInv, previewVars, PreviewTypes, OneParser, CacheHolds, Distinct, Dated, ReaderHolds
<1>2. CASE SwapLab
  <2>1. activeLab' \in Labs /\ UNCHANGED <<clock, previews, bytesKept, readers, asks>>
    BY <1>0, <1>2, PreviewFacts DEF SwapLab, Labs
  <2> QED
    BY <2>1 DEF PreviewIndInv, PreviewTypes, OneParser, CacheHolds, Distinct, Dated, ReaderHolds
<1>3. CASE ClockTicks
  <2>1. clock' \in Nat /\ clock <= clock' /\ UNCHANGED <<activeLab, previews, bytesKept, readers, asks>>
    BY <1>0, <1>3 DEF ClockTicks
  <2>2. PreviewTypes' /\ OneParser'
    BY <2>1 DEF PreviewIndInv, PreviewTypes, OneParser
  <2>3. ASSUME NEW l \in Labs PROVE CacheHolds(l)' /\ Dated(previews[l])'
    <3>1. \A i \in DOMAIN previews[l] : previews[l][i].parsedAt \in Nat
      <4> TAKE i \in DOMAIN previews[l]
      <4>1. previews[l][i] \in PreviewEntry
        BY <1>0, ElementOfSeq, LenProperties
      <4> QED
        BY <4>1 DEF PreviewEntry
    <3> QED
      BY <1>0, <2>1, <3>1 DEF CacheHolds, Distinct, Dated
  <2>4. \A r \in Reader : ReaderHolds(r)'
    BY <2>1, ReaderKeeps
  <2> QED
    BY <2>2, <2>3, <2>4 DEF PreviewIndInv
<1>4. ASSUME NEW r \in Reader, NEW a \in Content, AskPreview(r, a) PROVE PreviewIndInv'
  <2> DEFINE state == [Resting EXCEPT !.at = "copied", !.lab = activeLab, !.article = a]
  <2>1. state \in ReaderState /\ state.at = "copied" /\ state.ok = FALSE
    BY <1>0, RestingReader DEF ReaderState, PreviewAt, Resting
  <2>2. readers' = [readers EXCEPT ![r] = state] /\ asks' \in Nat
    BY <1>0, <1>4 DEF AskPreview
  <2> HIDE DEF state
  <2> QED
    BY <1>4, <2>1, <2>2, ReaderMoves DEF AskPreview
<1>5. ASSUME NEW r \in Reader, TooBusy(r) \/ ParserFails(r) PROVE PreviewIndInv'
  <2>1. readers' = [readers EXCEPT ![r] = Resting] /\ UNCHANGED <<activeLab, clock, previews, bytesKept, asks>>
    BY <1>5 DEF TooBusy, ParserFails, Refused
  <2>2. Resting.at = "idle" /\ Resting.ok = FALSE
    BY DEF Resting
  <2> QED
    BY <1>0, <2>1, <2>2, RestingReader, ReaderMoves
<1>6. ASSUME NEW r \in Reader, Respond(r) PROVE PreviewIndInv'
  <2>1. CASE readers[r].lab = activeLab
    <3>1. /\ Given(r) \in ReaderState /\ Given(r).at = "idle" /\ Given(r).lab = Given(r).during
          /\ readers' = [readers EXCEPT ![r] = Given(r)]
      BY <1>0, <1>6, <2>1, RestingReader DEF Respond, Given, ReaderState, Resting
    <3> QED
      BY <1>0, <1>6, <3>1, ReaderMoves DEF Respond
  <2>2. CASE readers[r].lab # activeLab
    <3>1. readers' = [readers EXCEPT ![r] = Resting] /\ Resting.at = "idle" /\ Resting.ok = FALSE
      BY <1>6, <2>2 DEF Respond, Refused, Resting
    <3> QED
      BY <1>0, <1>6, <3>1, RestingReader, ReaderMoves DEF Respond
  <2> QED
    BY <2>1, <2>2
<1>7. ASSUME NEW r \in Reader, ServeCached(r) PROVE PreviewIndInv'
  <2> DEFINE l == readers[r].lab
             left == WithoutExpired(previews[l])
  <2>1. l \in Labs /\ previews[l] \in Seq(PreviewEntry) /\ Distinct(previews[l])
    BY <1>0 DEF ReaderState, CacheHolds
  <2>2. left \in Seq(PreviewEntry) /\ TakenFrom(left, previews[l])
    BY <2>1, FreshTaken
  <2>3. Distinct(left) /\ \A i \in DOMAIN left : \E j \in DOMAIN previews[l] : left[i] = previews[l][j]
    BY <2>1, <2>2, TakenSmaller
  <2>4. PICK i \in FreshAt(left, readers[r].article) :
          /\ previews' = [previews EXCEPT ![l] = Append(OtherTexts(left, readers[r].article), left[i])]
          /\ readers' = [readers EXCEPT ![r].at = "answered",
                           ![r].answer = [text |-> left[i].text, age |-> clock - left[i].parsedAt]]
    BY <1>7 DEF ServeCached
  <2>5. i \in DOMAIN left /\ left[i].text = readers[r].article /\ left[i].expires > clock
    BY <2>4 DEF FreshAt
  <2> DEFINE moved == Append(OtherTexts(left, readers[r].article), left[i])
             state == [readers[r] EXCEPT !.at = "answered",
                         !.answer = [text |-> left[i].text, age |-> clock - left[i].parsedAt]]
  <2>6. moved \in Seq(PreviewEntry) /\ TakenFrom(moved, left) /\ TakenFrom(left, moved)
    BY <2>2, <2>3, <2>5, MovedTaken
  <2>7. left[i] \in PreviewEntry
    <3> HIDE DEF left
    <3> QED
      BY <2>2, <2>5, ElementOfSeq, LenProperties
  <2>8. left[i].expires = left[i].parsedAt + TTL /\ left[i].parsedAt <= clock
    <3> HIDE DEF left
    <3> QED
      BY <1>0, <2>1, <2>3, <2>5 DEF Dated
  <2>9. readers[r].at = "copied" /\ Parsing(l) = {} /\ UNCHANGED <<activeLab, clock, asks>>
    BY <1>7 DEF ServeCached
  <2>10. bytesKept' = [bytesKept EXCEPT ![l] = @ - Sum(previews[l]) + Sum(left)]
    BY <1>7 DEF ServeCached
  <2> HIDE DEF left
  <2>11. Sum(moved) = Sum(left)
    <3>1. Sum(moved) <= Sum(left) /\ Sum(left) <= Sum(moved)
      BY <2>2, <2>6, TakenSmaller
    <3>2. Sum(moved) \in Nat /\ Sum(left) \in Nat
      BY <2>2, <2>6, BytesSum
    <3> QED
      BY <3>1, <3>2
  <2> HIDE DEF moved
  <2>12. TakenFrom(moved, previews[l])
    BY <2>1, <2>2, <2>6, TakenAgain
  <2>13. /\ previews' = [previews EXCEPT ![l] = moved]
         /\ readers' = [readers EXCEPT ![r] = state]
    BY <2>4 DEF moved, ReaderState
  <2>14. /\ state \in ReaderState /\ state.at = "answered" /\ state.ok = readers[r].ok
         /\ state.lab = readers[r].lab /\ state.during = readers[r].during
         /\ state.article = readers[r].article /\ state.answer.text = left[i].text
         /\ state.answer.age = clock - left[i].parsedAt /\ state.article # NoText
         /\ state.answer.age < TTL
    <3>1. left[i].parsedAt \in Nat /\ left[i].text \in Content /\ left[i].text # NoText
      BY <2>7 DEF PreviewEntry
    <3>2. clock - left[i].parsedAt \in Nat /\ clock - left[i].parsedAt < TTL
      BY <1>0, <2>5, <2>8, <3>1, PreviewFacts
    <3>3. readers[r] \in ReaderState
      BY <1>0
    <3> QED
      BY <2>5, <3>1, <3>2, <3>3 DEF ReaderState, PreviewAt
  <2> HIDE DEF state
  <2>15. /\ previews' \in [Labs -> Seq(PreviewEntry)] /\ bytesKept' \in [Labs -> Nat]
         /\ \A m \in Labs : CacheHolds(m)' /\ Dated(previews[m])'
         /\ \A m \in Labs : \A k \in DOMAIN previews'[m] :
              \E j \in DOMAIN previews[m] : previews'[m][k] = previews[m][j]
    BY <2>1, <2>6, <2>9, <2>10, <2>11, <2>12, <2>13, ShrunkCache
  <2> DEFINE m == readers[r].lab
  <2>16. readers'[r] = state /\ \A q \in Reader \ {r} : readers'[q] = readers[q]
    BY <1>0, <2>13 DEF PreviewTypes
  <2>17. PreviewTypes'
    BY <1>0, <2>9, <2>13, <2>14, <2>15 DEF PreviewTypes
  <2>18. OneParser'
    BY <1>0, <2>14, <2>16 DEF OneParser
  <2>19. ASSUME NEW q \in Reader PROVE ReaderHolds(q)'
    <3>1. CASE q = r
      BY <1>0, <2>5, <2>14, <2>16, <3>1 DEF ReaderHolds
    <3>2. CASE q # r
      <4>1. readers[q].lab \in Labs
        BY <1>0 DEF ReaderState
      <4> QED
        <5>1. clock' \in Nat /\ clock <= clock' /\ readers'[q] = readers[q]
          BY <1>0, <2>9, <2>16, <3>2
        <5>2. \A k \in DOMAIN previews'[readers[q].lab] :
                \E j \in DOMAIN previews[readers[q].lab] :
                  previews'[readers[q].lab][k] = previews[readers[q].lab][j]
          BY <2>15, <4>1
        <5> QED
          BY <5>1, <5>2, ReaderKeeps
    <3> QED
      BY <3>1, <3>2
  <2> QED
    BY <2>15, <2>17, <2>18, <2>19 DEF PreviewIndInv
<1>8. ASSUME NEW r \in Reader, CallParser(r) PROVE PreviewIndInv'
  <2> DEFINE l == readers[r].lab
             x == readers[r].article
             left == WithoutExpired(previews[l])
             kept == OtherTexts(left, x)
             state == [readers[r] EXCEPT !.at = "parse", !.since = clock]
  <2>1. l \in Labs /\ previews[l] \in Seq(PreviewEntry) /\ Distinct(previews[l])
    BY <1>0 DEF ReaderState, CacheHolds
  <2>2. left \in Seq(PreviewEntry) /\ TakenFrom(left, previews[l])
    BY <2>1, FreshTaken
  <2>3. Distinct(left)
    BY <2>1, <2>2, TakenSmaller
  <2>4. /\ previews' = [previews EXCEPT ![l] = kept]
        /\ bytesKept' = [bytesKept EXCEPT ![l] = @ - Sum(previews[l]) + Sum(kept)]
        /\ readers' = [readers EXCEPT ![r].at = "parse", ![r].since = clock]
        /\ readers[r].at = "copied" /\ Parsing(l) = {} /\ UNCHANGED <<activeLab, clock, asks>>
    BY <1>8 DEF CallParser
  <2>20. activeLab' = activeLab /\ clock' = clock /\ asks' = asks
    BY <2>4
  <2> HIDE DEF left
  <2>5. /\ kept \in Seq(PreviewEntry) /\ TakenFrom(kept, left)
        /\ \A i \in DOMAIN kept : kept[i].text # x
    BY <2>2, <2>3, OthersTaken
  <2> HIDE DEF kept
  <2>6. TakenFrom(kept, previews[l])
    BY <2>1, <2>2, <2>5, TakenAgain
  <2>7. readers' = [readers EXCEPT ![r] = state]
    BY <2>4 DEF ReaderState
  <2>8. /\ state \in ReaderState /\ state.at = "parse" /\ state.ok = readers[r].ok
        /\ state.lab = l /\ state.during = readers[r].during
        /\ state.article = x /\ state.since = clock
    BY <1>0 DEF ReaderState, PreviewAt
  <2> HIDE DEF state
  <2>9. /\ previews' \in [Labs -> Seq(PreviewEntry)] /\ bytesKept' \in [Labs -> Nat]
        /\ \A m \in Labs : CacheHolds(m)' /\ Dated(previews[m])'
        /\ \A m \in Labs : \A k \in DOMAIN previews'[m] :
              \E j \in DOMAIN previews[m] : previews'[m][k] = previews[m][j]
    BY <2>1, <2>4, <2>5, <2>6, ShrunkCache
  <2>10. /\ readers'[r] = state /\ \A q \in Reader \ {r} : readers'[q] = readers[q]
         /\ previews'[l] = kept
    BY <1>0, <2>1, <2>4, <2>7 DEF PreviewTypes
  <2>11. PreviewTypes'
    BY <1>0, <2>20, <2>7, <2>8, <2>9 DEF PreviewTypes
  <2>12. OneParser'
    <3>1. ASSUME NEW q \in Reader, q # r, readers'[q].at = "parse" PROVE readers'[q].lab # l
      BY <2>4, <2>10, <3>1, AtParse
    <3> HIDE DEF l
    <3> QED
      BY <1>0, <2>8, <2>10, <3>1 DEF OneParser
  <2>13. ASSUME NEW q \in Reader PROVE ReaderHolds(q)'
    <3>1. CASE q = r
      <4>1. /\ readers'[r].at = "parse" /\ readers'[r].since = clock' /\ readers'[r].lab = l
            /\ readers'[r].article = x /\ previews'[l] = kept /\ clock' \in Nat
            /\ readers'[r].ok = readers[r].ok /\ readers'[r].during = readers[r].during
        BY <1>0, <2>20, <2>8, <2>10
      <4>2. ReaderHolds(r) /\ \A i \in DOMAIN kept : kept[i].text # x
        BY <1>0, <2>5
      <4> HIDE DEF l, x
      <4>3. clock' <= clock' /\ (readers'[r].ok => readers'[r].lab = readers'[r].during)
        BY <4>1, <4>2 DEF ReaderHolds, l
      <4> QED
        BY <3>1, <4>1, <4>2, <4>3 DEF ReaderHolds
    <3>2. CASE q # r
      <4>1. readers[q].lab \in Labs
        BY <1>0 DEF ReaderState
      <4>2. clock' \in Nat /\ clock <= clock' /\ readers'[q] = readers[q]
        BY <1>0, <2>20, <2>10, <3>2
      <4>3. \A i \in DOMAIN previews'[readers[q].lab] :
              \E j \in DOMAIN previews[readers[q].lab] :
                previews'[readers[q].lab][i] = previews[readers[q].lab][j]
        BY <2>9, <4>1
      <4> QED
        BY <4>2, <4>3, ReaderKeeps
    <3> QED
      BY <3>1, <3>2
  <2> QED
    BY <2>9, <2>11, <2>12, <2>13 DEF PreviewIndInv
<1>9. ASSUME NEW r \in Reader, ParserAnswers(r) PROVE PreviewIndInv'
  <2> DEFINE l == readers[r].lab
             x == readers[r].article
             before == previews[l]
             state == [readers[r] EXCEPT !.at = "answered", !.answer = [text |-> x, age |-> 0]]
  <2>1. l \in Labs /\ before \in Seq(PreviewEntry) /\ Distinct(before)
    BY <1>0 DEF ReaderState, CacheHolds
  <2>2. /\ readers[r].at = "parse" /\ x # NoText
        /\ readers' = [readers EXCEPT ![r].at = "answered", ![r].answer = [text |-> x, age |-> 0]]
        /\ UNCHANGED <<activeLab, clock, asks>>
    BY <1>9 DEF ParserAnswers
  <2>30. activeLab' = activeLab /\ clock' = clock /\ asks' = asks
    BY <2>2
  <2>3. readers[r].since \in Nat /\ readers[r].since <= clock /\ x \in Content
        /\ \A i \in DOMAIN before : before[i].text # x
    BY <1>0, <2>2 DEF ReaderState, ReaderHolds
  <2>4. PICK size \in Sizes :
          LET kept == IF size <= MaxBytes THEN Evicted(Append(before, Cached(r, size))) ELSE before IN
          /\ previews' = [previews EXCEPT ![l] = kept]
          /\ bytesKept' = [bytesKept EXCEPT ![l] = @ - Sum(before) + Sum(kept)]
    BY <1>9 DEF ParserAnswers
  <2> DEFINE entry == Cached(r, size)
             all == Append(before, entry)
             kept == IF size <= MaxBytes THEN Evicted(all) ELSE before
  <2>5. /\ entry \in PreviewEntry /\ entry.text = x
        /\ entry.expires = entry.parsedAt + TTL /\ entry.parsedAt <= clock
    BY <2>2, <2>3, PreviewFacts DEF Cached, PreviewEntry
  <2> HIDE DEF entry, before
  <2>6. /\ all \in Seq(PreviewEntry) /\ Len(all) = Len(before) + 1
        /\ \A i \in 1..Len(before) : all[i] = before[i]
        /\ all[Len(before) + 1] = entry
    BY <2>1, <2>5, AppendProperties
  <2> HIDE DEF all
  <2>7. /\ Len(before) \in Nat /\ DOMAIN before = 1..Len(before)
        /\ DOMAIN all = 1..Len(before) + 1
    BY <2>1, <2>6, LenProperties
  <2>8. Distinct(all)
    <3> SUFFICES ASSUME NEW i \in DOMAIN all, NEW j \in DOMAIN all, all[i].text = all[j].text
                 PROVE  i = j
      BY DEF Distinct
    <3>1. \A k \in DOMAIN all : k \in DOMAIN before \/ k = Len(before) + 1
      BY <2>7
    <3>2. \A k \in DOMAIN before : all[k] = before[k] /\ before[k].text # x
      BY <2>3, <2>6, <2>7 DEF before
    <3> QED
      BY <2>1, <2>5, <2>6, <3>1, <3>2 DEF Distinct
  <2>9. Dated(before)
    BY <1>0, <2>1 DEF before
  <2>10. ASSUME NEW i \in DOMAIN all
         PROVE  all[i].expires = all[i].parsedAt + TTL /\ all[i].parsedAt <= clock
    <3>1. CASE i \in DOMAIN before
      BY <2>6, <2>7, <2>9, <3>1 DEF Dated
    <3>2. CASE i = Len(before) + 1
      BY <2>5, <2>6, <3>2
    <3> QED
      BY <2>7, <3>1, <3>2
  <2>11. Sum(before) <= MaxBytes /\ Len(before) <= MaxEntries /\ bytesKept[l] = Sum(before)
    BY <1>0, <2>1 DEF CacheHolds, before
  <2>12. /\ kept \in Seq(PreviewEntry) /\ Sum(kept) <= MaxBytes /\ Len(kept) <= MaxEntries
         /\ Distinct(kept) /\ Dated(kept)
    <3>1. CASE size <= MaxBytes
      <4>1. kept = Evicted(all)
        BY <3>1
      <4>2. /\ Evicted(all) \in Seq(PreviewEntry) /\ TakenFrom(Evicted(all), all)
            /\ Len(Evicted(all)) <= MaxEntries /\ Sum(Evicted(all)) <= MaxBytes
        BY <2>6, EvictedFits, PreviewFacts
      <4>3. /\ Distinct(Evicted(all))
            /\ \A i \in DOMAIN Evicted(all) : \E j \in DOMAIN all : Evicted(all)[i] = all[j]
        BY <2>6, <2>8, <4>2, TakenSmaller
      <4>4. Dated(Evicted(all))
        BY <2>10, <4>3 DEF Dated
      <4> QED
        BY <4>1, <4>2, <4>3, <4>4
    <3>2. CASE ~(size <= MaxBytes)
      BY <2>1, <2>9, <2>11, <3>2
    <3> QED
      BY <3>1, <3>2
  <2>13. /\ previews' = [previews EXCEPT ![l] = kept]
         /\ bytesKept' = [bytesKept EXCEPT ![l] = @ - Sum(before) + Sum(kept)]
    BY <2>4 DEF all, entry
  <2> HIDE DEF kept
  <2>14. readers' = [readers EXCEPT ![r] = state]
    BY <2>2 DEF ReaderState
  <2>15. /\ state \in ReaderState /\ state.at = "answered" /\ state.ok = readers[r].ok
         /\ state.lab = l /\ state.during = readers[r].during
         /\ state.article = x /\ state.answer.text = x /\ state.answer.age = 0
    BY <1>0, <2>3 DEF ReaderState, PreviewAt
  <2> HIDE DEF state
  <2>16. Sum(before) \in Nat /\ Sum(kept) \in Nat
    BY <2>1, <2>12, BytesSum
  <2>17. bytesKept'[l] = Sum(kept) /\ previews'[l] = kept
    BY <1>0, <2>1, <2>11, <2>13, <2>16 DEF PreviewTypes
  <2>18. \A m \in Labs \ {l} : previews'[m] = previews[m] /\ bytesKept'[m] = bytesKept[m]
    BY <1>0, <2>13 DEF PreviewTypes
  <2>19. previews' \in [Labs -> Seq(PreviewEntry)] /\ bytesKept' \in [Labs -> Nat]
    <3>1. bytesKept[l] - Sum(before) + Sum(kept) \in Nat
      BY <2>11, <2>16
    <3> QED
      BY <1>0, <2>12, <2>13, <3>1 DEF PreviewTypes
  <2>20. ASSUME NEW m \in Labs PROVE CacheHolds(m)' /\ Dated(previews[m])'
    <3>1. CASE m = l
      BY <2>2, <2>12, <2>17, <3>1 DEF CacheHolds, Dated, Distinct
    <3>2. CASE m # l
      BY <1>0, <2>2, <2>18, <3>2 DEF CacheHolds, Dated, Distinct
    <3> QED
      BY <3>1, <3>2
  <2>21. readers'[r] = state /\ \A q \in Reader \ {r} : readers'[q] = readers[q]
    BY <1>0, <2>14 DEF PreviewTypes
  <2>22. PreviewTypes'
    BY <1>0, <2>2, <2>14, <2>15, <2>19 DEF PreviewTypes
  <2>23. OneParser'
    BY <1>0, <2>15, <2>21 DEF OneParser
  <2>24. ASSUME NEW q \in Reader PROVE ReaderHolds(q)'
    <3>1. CASE q = r
      BY <1>0, <2>2, <2>15, <2>21, <3>1, PreviewFacts DEF ReaderHolds
    <3>2. CASE q # r
      <4>1. readers[q].lab \in Labs
        BY <1>0 DEF ReaderState
      <4>2. clock' \in Nat /\ clock <= clock' /\ readers'[q] = readers[q]
        BY <1>0, <2>30, <2>21, <3>2
      <4>3. readers[q].at = "parse" => readers[q].lab # l
        BY <1>0, <2>2, <3>2 DEF OneParser
      <4>4. readers[q].at = "parse" => previews'[readers[q].lab] = previews[readers[q].lab]
        <5> HIDE DEF l
        <5> QED
          BY <2>18, <4>1, <4>3
      <4> QED
        BY <4>2, <4>4, ReaderKeeps
    <3> QED
      BY <3>1, <3>2
  <2> QED
    BY <2>20, <2>22, <2>23, <2>24 DEF PreviewIndInv
<1> QED
  BY <1>1, <1>2, <1>3, <1>4, <1>5, <1>6, <1>7, <1>8, <1>9 DEF PreviewNext

\* The invariant implies what the run checks.
LEMMA PreviewConsequence == PreviewIndInv => PreviewsSound
<1> SUFFICES ASSUME PreviewIndInv PROVE PreviewsSound
  OBVIOUS
<1>1. PreviewsBounded
  BY DEF PreviewIndInv, CacheHolds, Distinct, PreviewsBounded
<1>2. SingleFlightPerLab
  <2> SUFFICES ASSUME NEW l \in Labs PROVE Cardinality(Parsing(l)) <= 1
    BY DEF SingleFlightPerLab
  <2>1. \A r, q \in Parsing(l) : r = q
    BY DEF PreviewIndInv, OneParser, Parsing
  <2>2. CASE Parsing(l) = {}
    BY <2>2, FS_EmptySet
  <2>3. CASE Parsing(l) # {}
    <3>1. PICK r \in Parsing(l) : Parsing(l) = {r}
      BY <2>1, <2>3
    <3>2. Cardinality({r}) = 1
      BY FS_Singleton
    <3> QED
      BY <3>1, <3>2
  <2> QED
    BY <2>2, <2>3
<1>3. PreviewsCurrent
  BY DEF PreviewIndInv, ReaderHolds, PreviewsCurrent
<1> QED
  BY <1>1, <1>2, <1>3 DEF PreviewsSound

\* The inductive invariant: what is cached was parsed once and dated, its
\* bytes are counted, and a Lab has one parser.
THEOREM PreviewInvHolds == PreviewSpec => []PreviewIndInv
<1> QED
  BY PreviewStarts, PreviewStep, PTL DEF PreviewSpec

\* The caches of the preview client keep to their limits in entries and in
\* bytes, their counters are exact, and no answer is of another Lab, of
\* another text or older than its time to live, for any number of Labs,
\* threads and texts (semantic_preview_client.py).
THEOREM PreviewsSafe == PreviewSpec => []PreviewsSound
<1> QED
  BY PreviewInvHolds, PreviewConsequence, PTL

-----------------------------------------------------------------------------
(* The relational evidence                                                 *)

ClicksShared(plan) == {p \in Positions(plan) : MatchedValues(plan, p) # {}}

ScopeDue(plan) ==
    IF ClicksShared(plan) \cap Recents(plan) # {} THEN "recent"
    ELSE IF ClicksShared(plan) # {}
    THEN IF CompleteAt(plan, Recents(plan)) THEN "older" ELSE "unknown"
    ELSE IF CompleteAt(plan, Positions(plan)) THEN "none" ELSE "unknown"

RecordDue(plan, p) ==
    [plan |-> plan, position |-> p, recent |-> IsRecent(plan, p),
     dependency |-> <<plan[2].user, plan[2].history, p>>, values |-> MatchedValues(plan, p)]

RecordsDue(plan) ==
    IF ScopeDue(plan) \in {"recent", "older"}
    THEN {RecordDue(plan, p) : p \in ClicksShared(plan)} ELSE {}

\* What the evidence says the projection should be.
ProjectionDue ==
    [scope |-> [plan \in Plans |-> ScopeDue(plan)],
     ledger |-> UNION {RecordsDue(plan) : plan \in Plans},
     roots |-> Len(queries)]

AllRoots == UNION {ProofRoots(plan) : plan \in Plans}

DataGiven == evidence \in EvidenceOf /\ contexts \in DataSet /\ queries = QueryRoots

\* The plans of a split, and the places of their clicks.
LEMMA PlanFacts ==
    ASSUME DataGiven, NEW plan \in Plans
    PROVE  /\ plan[1] \in Relation /\ plan[2] \in contexts /\ plan = <<plan[1], plan[2]>>
           /\ Len(plan[2].history) \in Nat /\ Positions(plan) = 1..Len(plan[2].history)
           /\ IsFiniteSet(Positions(plan))
           /\ \A p \in Positions(plan) : IsFiniteSet(MatchedValues(plan, p))
<1>1. plan[1] \in Relation /\ plan[2] \in contexts /\ plan = <<plan[1], plan[2]>>
  BY DEF Plans
<1>2. Len(plan[2].history) \in Nat /\ Positions(plan) = 1..Len(plan[2].history)
  BY <1>1, DataAssumption DEF DataGiven, Positions
<1>3. ASSUME NEW p \in Positions(plan) PROVE IsFiniteSet(MatchedValues(plan, p))
  <2>1. CASE Seen(plan, plan[2].candidate)
    <3>1. IsFiniteSet(evidence[plan[1]][plan[2].candidate])
      BY <1>1, <2>1, DataAssumption DEF DataGiven, Seen
    <3>2. MatchedValues(plan, p) \in SUBSET evidence[plan[1]][plan[2].candidate]
      BY DEF MatchedValues
    <3> QED
      BY <3>1, <3>2, FS_Subset
  <2>2. CASE ~Seen(plan, plan[2].candidate)
    BY <2>2, FS_EmptySet DEF MatchedValues
  <2> QED
    BY <2>1, <2>2
<1>4. IsFiniteSet(Positions(plan))
  <2>1. \A n \in Nat : IsFiniteSet(1..n)
    BY FS_Interval
  <2> QED
    BY <1>2, <2>1
<1> QED
  BY <1>1, <1>2, <1>3, <1>4

\* A split has finitely many proof roots.
LEMMA RootsFinite == ASSUME DataGiven PROVE IsFiniteSet(AllRoots)
<1>1. IsFiniteSet(Plans)
  <2>1. Relation = {"entity"} \cup {"concept"}
    BY DEF Relation
  <2>2. IsFiniteSet(Relation)
    BY <2>1, FS_Singleton, FS_AddElement
  <2>3. IsFiniteSet(contexts)
    BY DataAssumption DEF DataGiven
  <2> QED
    BY <2>2, <2>3, FS_Product DEF Plans
<1>2. ASSUME NEW plan \in Plans PROVE IsFiniteSet(ProofRoots(plan))
  <2> DEFINE At(p) == {Root(plan, p, v) : v \in MatchedValues(plan, p)}
             Ats == {At(p) : p \in Positions(plan)}
  <2>1. ASSUME NEW p \in Positions(plan) PROVE IsFiniteSet(At(p))
    <3> DEFINE f == [v \in MatchedValues(plan, p) |-> Root(plan, p, v)]
    <3>1. IsFiniteSet(MatchedValues(plan, p))
      BY PlanFacts
    <3>2. f \in Surjection(MatchedValues(plan, p), At(p))
      BY DEF Surjection
    <3> HIDE DEF f, At
    <3> QED
      BY <3>1, <3>2, FS_Surjection
  <2>2. IsFiniteSet(Ats)
    <3> DEFINE g == [p \in Positions(plan) |-> At(p)]
    <3>1. g \in Surjection(Positions(plan), Ats)
      BY DEF Surjection
    <3>2. IsFiniteSet(Positions(plan))
      BY PlanFacts
    <3> HIDE DEF g, Ats
    <3> QED
      BY <3>1, <3>2, FS_Surjection
  <2>3. \A s \in Ats : IsFiniteSet(s)
    BY <2>1
  <2>4. ProofRoots(plan) = UNION Ats
    BY DEF ProofRoots
  <2> HIDE DEF Ats
  <2> QED
    BY <2>2, <2>3, <2>4, FS_UNION
<1>3. IsFiniteSet({ProofRoots(plan) : plan \in Plans})
  <2> DEFINE h == [plan \in Plans |-> ProofRoots(plan)]
             sets == {ProofRoots(plan) : plan \in Plans}
  <2>1. h \in Surjection(Plans, sets)
    BY DEF Surjection
  <2> HIDE DEF h, sets
  <2>2. IsFiniteSet(sets)
    BY <1>1, <2>1, FS_Surjection
  <2> QED
    BY <2>2 DEF sets
<1> QED
  BY <1>2, <1>3, FS_UNION DEF AllRoots

\* Every root is asked for once.
LEMMA QueriesExact == ASSUME DataGiven PROVE Len(queries) = Cardinality(AllRoots) /\ Len(queries) \in Nat
<1>1. queries = ListOf(AllRoots)
  BY DEF DataGiven, QueryRoots, ListOf, AllRoots
<1> QED
  BY <1>1, RootsFinite, ListExact, FS_CardinalityType

\* The roots of a plan are at its shared clicks, with the values they share.
LEMMA RootsAt ==
    ASSUME NEW plan
    PROVE  /\ {r.position : r \in ProofRoots(plan)} = ClicksShared(plan)
           /\ \A p \in ClicksShared(plan) :
                {r.value : r \in {x \in ProofRoots(plan) : x.position = p}} = MatchedValues(plan, p)
<1>1. \A r : r \in ProofRoots(plan) <=>
                \E p \in Positions(plan) : \E v \in MatchedValues(plan, p) : r = Root(plan, p, v)
  BY DEF ProofRoots
<1>2. \A p, v : Root(plan, p, v).position = p /\ Root(plan, p, v).value = v
  BY DEF Root
<1>3. ASSUME NEW p \in ClicksShared(plan)
      PROVE  {r.value : r \in {x \in ProofRoots(plan) : x.position = p}} = MatchedValues(plan, p)
  <2>1. p \in Positions(plan)
    BY DEF ClicksShared
  <2> QED
    BY <1>1, <1>2, <2>1
<1>4. {r.position : r \in ProofRoots(plan)} = ClicksShared(plan)
  BY <1>1, <1>2 DEF ClicksShared
<1> QED
  BY <1>3, <1>4

\* Reducing true answers gives the scope that the evidence calls for.
LEMMA ReducedIsDue ==
    ASSUME DataGiven, \A plan \in Plans : Covered(plan)
    PROVE  [scope |-> [plan \in Plans |-> Scope(plan)],
            ledger |-> UNION {RetainedScopes(plan) : plan \in Plans},
            roots |-> Len(queries)] = ProjectionDue
<1>1. ASSUME NEW plan \in Plans
      PROVE  Scope(plan) = ScopeDue(plan) /\ RetainedScopes(plan) = RecordsDue(plan)
  <2>1. Reported(plan) = ProofRoots(plan)
    BY DEF Covered
  <2>2. Proven(plan) = ClicksShared(plan)
    BY <2>1, RootsAt DEF Proven
  <2>3. Scope(plan) = ScopeDue(plan)
    BY <2>2 DEF Scope, ScopeDue
  <2>4. \A p \in ClicksShared(plan) : Record(plan, p) = RecordDue(plan, p)
    BY <2>1, RootsAt DEF Record, RecordDue
  <2> QED
    BY <2>2, <2>3, <2>4 DEF RetainedScopes, RecordsDue
<1> QED
  BY <1>1 DEF ProjectionDue

\* The records that are written are those the evidence calls for.
LEMMA ReferencesDue ==
    ASSUME projection = ProjectionDue, NEW plan \in Plans
    PROVE  References(plan) = RecordsDue(plan) /\ projection.scope[plan] = ScopeDue(plan)
<1>1. \A q \in Plans : \A r \in RecordsDue(q) : r.plan = q
  BY DEF RecordsDue, RecordDue
<1>2. projection.ledger = UNION {RecordsDue(q) : q \in Plans} /\ projection.scope[plan] = ScopeDue(plan)
  BY DEF ProjectionDue
<1> QED
  BY <1>1, <1>2 DEF References

\* What the evidence calls for passes the validation of the projection.
LEMMA DueIsValid == ASSUME DataGiven, projection = ProjectionDue PROVE ValidProjection
<1>1. projection.roots = Cardinality(AllRoots)
  BY QueriesExact DEF ProjectionDue
<1>2. ASSUME NEW plan \in Plans PROVE ScopeAgrees(plan)
  <2>1. /\ \A r \in References(plan) : \E p \in ClicksShared(plan) : r = RecordDue(plan, p)
        /\ \A p \in ClicksShared(plan) : RecordDue(plan, p).recent = IsRecent(plan, p)
        /\ ScopeDue(plan) \in {"recent", "older"} =>
             \A p \in ClicksShared(plan) : RecordDue(plan, p) \in References(plan)
        /\ References(plan) # {} => ScopeDue(plan) \in {"recent", "older"}
    BY ReferencesDue DEF RecordsDue, RecordDue
  <2>2. projection.scope[plan] = ScopeDue(plan)
    BY ReferencesDue
  <2>3. \A p : p \in Recents(plan) <=> p \in Positions(plan) /\ IsRecent(plan, p)
    BY DEF Recents
  <2>4. \A p \in ClicksShared(plan) : p \in Positions(plan)
    BY DEF ClicksShared
  <2>5. CASE ScopeDue(plan) = "recent"
    <3>1. PICK p \in ClicksShared(plan) : p \in Recents(plan)
      BY <2>5 DEF ScopeDue
    <3>2. \E r \in References(plan) : r.recent
      BY <2>1, <2>3, <2>5, <3>1
    <3> QED
      BY <2>2, <2>5, <3>2 DEF ScopeAgrees
  <2>6. CASE ScopeDue(plan) = "older"
    <3>1. ClicksShared(plan) # {} /\ ClicksShared(plan) \cap Recents(plan) = {}
      BY <2>6 DEF ScopeDue
    <3>2. \A r \in References(plan) : ~r.recent
      BY <2>1, <2>3, <2>4, <3>1
    <3>3. References(plan) # {}
      BY <2>1, <2>6, <3>1
    <3> QED
      BY <2>2, <2>6, <3>2, <3>3 DEF ScopeAgrees
  <2>7. CASE ScopeDue(plan) \notin {"recent", "older"}
    <3>1. References(plan) = {} /\ ScopeDue(plan) \in {"none", "unknown"}
      BY <2>1, <2>7 DEF ScopeDue
    <3>2. ~(\E r \in References(plan) : r.recent)
      BY <3>1
    <3> QED
      BY <2>2, <3>1, <3>2 DEF ScopeAgrees
  <2> QED
    BY <2>5, <2>6, <2>7
<1>3. ASSUME NEW plan \in Plans, NEW r \in References(plan) PROVE MatchesContext(r, plan) /\ r.values # {}
  <2>1. PICK p \in ClicksShared(plan) : r = RecordDue(plan, p)
    BY ReferencesDue DEF RecordsDue
  <2> QED
    BY <2>1 DEF RecordDue, MatchesContext, ClicksShared
<1>4. ASSUME NEW plan \in Plans
      PROVE  Cardinality({r.dependency : r \in References(plan)}) = Cardinality(References(plan))
  <2> DEFINE R == References(plan)
             D == {r.dependency : r \in R}
             f == [r \in R |-> r.dependency]
             g == [p \in ClicksShared(plan) |-> RecordDue(plan, p)]
  <2>1. \A r \in R : \E p \in ClicksShared(plan) : r = RecordDue(plan, p)
    BY ReferencesDue DEF RecordsDue
  <2>2. IsFiniteSet(ClicksShared(plan))
    <3>1. ClicksShared(plan) \in SUBSET Positions(plan) /\ IsFiniteSet(Positions(plan))
      BY PlanFacts DEF ClicksShared
    <3> QED
      BY <3>1, FS_Subset
  <2>3. IsFiniteSet(R)
    <3> DEFINE all == {RecordDue(plan, p) : p \in ClicksShared(plan)}
    <3>1. g \in Surjection(ClicksShared(plan), all)
      BY DEF Surjection
    <3>2. R \in SUBSET all
      BY <2>1
    <3> HIDE DEF g, all, R
    <3>3. IsFiniteSet(all)
      BY <2>2, <3>1, FS_Surjection
    <3> QED
      BY <3>2, <3>3, FS_Subset
  <2>4. \A r, s \in R : r.dependency = s.dependency => r = s
    <3> TAKE r \in R, s \in R
    <3>1. PICK p \in ClicksShared(plan) : r = RecordDue(plan, p)
      BY <2>1
    <3>2. PICK q \in ClicksShared(plan) : s = RecordDue(plan, q)
      BY <2>1
    <3>3. r.dependency = <<plan[2].user, plan[2].history, p>> /\ s.dependency = <<plan[2].user, plan[2].history, q>>
      BY <3>1, <3>2 DEF RecordDue
    <3>4. r.dependency = s.dependency => p = q
      BY <3>3
    <3> QED
      BY <3>1, <3>2, <3>4
  <2>5. f \in Bijection(R, D)
    <3> HIDE DEF R
    <3>1. f \in Surjection(R, D)
      BY DEF Surjection
    <3>2. f \in Injection(R, D)
      BY <2>4 DEF Injection, IsInjective
    <3> QED
      BY <3>1, <3>2 DEF Bijection
  <2> HIDE DEF R, D, f
  <2>6. Cardinality(D) = Cardinality(R)
    BY <2>3, <2>5, FS_Bijection DEF ExistsBijection
  <2> QED
    BY <2>6 DEF R, D
<1>5. \A r \in projection.ledger : r.plan \in Plans
  <2>1. \A q \in Plans : \A r \in RecordsDue(q) : r.plan = q
    BY DEF RecordsDue, RecordDue
  <2>2. projection.ledger = UNION {RecordsDue(q) : q \in Plans}
    BY DEF ProjectionDue
  <2> QED
    BY <2>1, <2>2
<1> QED
  BY <1>1, <1>2, <1>3, <1>4, <1>5 DEF ValidProjection, AllRoots

\* What the evidence calls for says of every impression what is true of it.
LEMMA DueIsTrue ==
    ASSUME DataGiven, projection = ProjectionDue
    PROVE  ScopesTrue /\ LedgerExact
<1>1. ASSUME NEW f \in Relation, NEW c \in contexts
      PROVE  /\ <<f, c>> \in Plans /\ Positions(<<f, c>>) = DOMAIN c.history
             /\ ClicksShared(<<f, c>>) = {p \in DOMAIN c.history : Shares(f, c, p)}
             /\ Recents(<<f, c>>) = {p \in DOMAIN c.history : p + RecentHistory > Len(c.history)}
             /\ projection.scope[<<f, c>>] = ScopeDue(<<f, c>>)
             /\ \A p \in DOMAIN c.history : Shares(f, c, p) =>
                  MatchedValues(<<f, c>>, p) = evidence[f][c.candidate] \cap evidence[f][c.history[p]]
  <2>1. <<f, c>> \in Plans /\ <<f, c>>[1] = f /\ <<f, c>>[2] = c
    BY DEF Plans
  <2>2. Positions(<<f, c>>) = DOMAIN c.history
    BY DEF Positions
  <2>3. \A p \in DOMAIN c.history :
          /\ MatchedValues(<<f, c>>, p) # {} <=> Shares(f, c, p)
          /\ Shares(f, c, p) =>
               MatchedValues(<<f, c>>, p) = evidence[f][c.candidate] \cap evidence[f][c.history[p]]
    BY <2>1 DEF MatchedValues, Shares, Seen
  <2>4. \A p \in DOMAIN c.history : IsRecent(<<f, c>>, p) <=> p + RecentHistory > Len(c.history)
    <3>1. Len(c.history) \in Nat /\ DOMAIN c.history = 1..Len(c.history) /\ RecentHistory \in Nat
      BY DataAssumption, ProjectionAssumption DEF DataGiven
    <3> QED
      BY <2>1, <3>1 DEF IsRecent
  <2>5. projection.scope[<<f, c>>] = ScopeDue(<<f, c>>)
    BY <2>1, ReferencesDue
  <2>6. ClicksShared(<<f, c>>) = {p \in DOMAIN c.history : Shares(f, c, p)}
    BY <2>2, <2>3 DEF ClicksShared
  <2>7. Recents(<<f, c>>) = {p \in DOMAIN c.history : p + RecentHistory > Len(c.history)}
    BY <2>2, <2>4 DEF Recents
  <2> QED
    BY <2>1, <2>2, <2>3, <2>5, <2>6, <2>7
<1>2. ScopesTrue
  <2> SUFFICES ASSUME NEW f \in Relation, NEW c \in contexts
               PROVE  LET scope   == projection.scope[<<f, c>>]
                          clicks  == DOMAIN c.history
                          last    == {p \in clicks : p + RecentHistory > Len(c.history)}
                          sharing == {p \in clicks : Shares(f, c, p)}
                          seen(P) == /\ evidence[f][c.candidate] # Unobserved
                                     /\ \A p \in P : evidence[f][c.history[p]] # Unobserved
                      IN  /\ scope = "recent" <=> sharing \cap last # {}
                          /\ scope = "older" <=> /\ sharing # {}
                                                 /\ sharing \cap last = {}
                                                 /\ seen(last)
                          /\ scope = "none" <=> seen(clicks) /\ sharing = {}
    BY DEF ScopesTrue
  <2> DEFINE last    == {p \in DOMAIN c.history : p + RecentHistory > Len(c.history)}
             sharing == {p \in DOMAIN c.history : Shares(f, c, p)}
             seen(P) == /\ evidence[f][c.candidate] # Unobserved
                        /\ \A p \in P : evidence[f][c.history[p]] # Unobserved
  <2>1. \A P : CompleteAt(<<f, c>>, P) <=> seen(P)
    BY DEF CompleteAt, Seen
  <2>2. projection.scope[<<f, c>>] =
          IF sharing \cap last # {} THEN "recent"
          ELSE IF sharing # {} THEN IF seen(last) THEN "older" ELSE "unknown"
          ELSE IF seen(DOMAIN c.history) THEN "none" ELSE "unknown"
    <3>1. /\ ClicksShared(<<f, c>>) = sharing /\ Recents(<<f, c>>) = last
          /\ Positions(<<f, c>>) = DOMAIN c.history
          /\ projection.scope[<<f, c>>] = ScopeDue(<<f, c>>)
      BY <1>1
    <3> HIDE DEF seen, sharing, last
    <3> QED
      BY <2>1, <3>1 DEF ScopeDue
  <2>3. sharing \subseteq DOMAIN c.history
    OBVIOUS
  <2> HIDE DEF seen, sharing, last
  <2>4. /\ projection.scope[<<f, c>>] = "recent" <=> sharing \cap last # {}
        /\ projection.scope[<<f, c>>] = "older" <=>
             sharing # {} /\ sharing \cap last = {} /\ seen(last)
        /\ projection.scope[<<f, c>>] = "none" <=> seen(DOMAIN c.history) /\ sharing = {}
    BY <2>2
  <2> QED
    BY <2>4 DEF seen, sharing, last
<1>3. LedgerExact
  <2> SUFFICES ASSUME NEW f \in Relation, NEW c \in contexts
               PROVE  {<<r.position, r.values>> :
                         r \in {x \in projection.ledger : x.plan = <<f, c>>}} =
                      IF projection.scope[<<f, c>>] \in {"recent", "older"}
                      THEN {<<p, evidence[f][c.candidate] \cap evidence[f][c.history[p]]>> :
                              p \in {q \in DOMAIN c.history : Shares(f, c, q)}}
                      ELSE {}
    BY DEF LedgerExact
  <2> DEFINE plan == <<f, c>>
  <2>1. plan \in Plans /\ {x \in projection.ledger : x.plan = plan} = RecordsDue(plan)
    BY <1>1, ReferencesDue DEF References
  <2>2. \A p : RecordDue(plan, p).position = p /\ RecordDue(plan, p).values = MatchedValues(plan, p)
    BY DEF RecordDue
  <2>3. {<<r.position, r.values>> : r \in RecordsDue(plan)} =
          IF ScopeDue(plan) \in {"recent", "older"}
          THEN {<<p, MatchedValues(plan, p)>> : p \in ClicksShared(plan)} ELSE {}
    <3> HIDE DEF plan
    <3>1. CASE ScopeDue(plan) \in {"recent", "older"}
      <4>1. RecordsDue(plan) = {RecordDue(plan, p) : p \in ClicksShared(plan)}
        BY <3>1 DEF RecordsDue
      <4>2. {<<r.position, r.values>> : r \in {RecordDue(plan, p) : p \in ClicksShared(plan)}} =
              {<<p, MatchedValues(plan, p)>> : p \in ClicksShared(plan)}
        BY <2>2
      <4> QED
        BY <3>1, <4>1, <4>2
    <3>2. CASE ~(ScopeDue(plan) \in {"recent", "older"})
      BY <3>2 DEF RecordsDue
    <3> QED
      BY <3>1, <3>2
  <2>4. {<<p, MatchedValues(plan, p)>> : p \in ClicksShared(plan)} =
          {<<p, evidence[f][c.candidate] \cap evidence[f][c.history[p]]>> :
             p \in {q \in DOMAIN c.history : Shares(f, c, q)}}
    BY <1>1
  <2>5. projection.scope[<<f, c>>] = ScopeDue(plan)
    BY <1>1
  <2> QED
    BY <2>1, <2>3, <2>4, <2>5
<1> QED
  BY <1>2, <1>3

-----------------------------------------------------------------------------
ShardState == {"waiting", "running", "answered", "error", "dead", "joined"}
Gone == {"waiting", "joined"}

ShardsTyped ==
    /\ DOMAIN shard = 1..ShardCount
    /\ \A i \in 1..ShardCount : DOMAIN shard[i] = {"at", "answers"}

\* Before the wave everything is joined, behind it nothing has begun.
Waves ==
    /\ collected \in Nat /\ collected <= ShardCount
    /\ \A i \in 1..ShardCount :
         /\ i <= collected => shard[i].at = "joined"
         /\ i > WaveStart + ShardWorkers => shard[i].at = "waiting"

BuildHolds ==
    /\ build \in {"proving", "reduced", "published", "raised"}
    /\ build # "proving" => \A i \in 1..ShardCount : shard[i].at \in Gone
    /\ build \in {"reduced", "published"} => projection = ProjectionDue

ProjectionIndInv == DataGiven /\ ShardsTyped /\ Waves /\ BuildHolds

\* Division of a count by a width, and of the next count.
LEMMA Division ==
    ASSUME NEW c \in Nat, NEW w \in Nat \ {0}
    PROVE  /\ c \div w \in Nat /\ w * (c \div w) \in Nat
           /\ w * (c \div w) <= c /\ c < w * (c \div w) + w
           /\ w * (c \div w) <= w * ((c + 1) \div w)
<1>1. c \div w \in Nat /\ (c + 1) \div w \in Nat
  BY Z3
<1>2. c = w * (c \div w) + (c % w) /\ c % w \in 0..w - 1
  OBVIOUS
<1>3. c + 1 = w * ((c + 1) \div w) + ((c + 1) % w) /\ (c + 1) % w \in 0..w - 1
  OBVIOUS
<1>4. c \div w <= (c + 1) \div w
  BY <1>1, <1>2, <1>3
<1>5. w * (c \div w) \in Nat
  BY <1>1
<1> QED
  BY <1>1, <1>2, <1>3, <1>4, <1>5

\* The roots fill a number of shards.
LEMMA ShardCountNat == ASSUME DataGiven PROVE ShardCount \in Nat
<1>1. QueryBatch \in Nat \ {0} /\ ShardSize \in Nat \ {0}
  BY ProjectionAssumption
<1>2. ShardSize \div QueryBatch \in Nat
  BY <1>1, Division
<1> DEFINE batches == ShardSize \div QueryBatch
           b == IF batches = 0 THEN 1 ELSE batches
<1>3. b \in Nat \ {0}
  BY <1>2
<1>4. RootsPerShard = QueryBatch * b
  BY DEF RootsPerShard
<1> HIDE DEF b
<1>5. RootsPerShard \in Nat \ {0}
  BY <1>1, <1>3, <1>4
<1>6. Len(queries) \in Nat
  BY QueriesExact
<1>7. Len(queries) + RootsPerShard - 1 \in Nat
  BY <1>5, <1>6
<1> QED
  BY <1>5, <1>7, Division DEF ShardCount

\* The wave of the next shard to collect.
LEMMA WaveFacts ==
    ASSUME DataGiven, Waves
    PROVE  /\ WaveStart \in Nat /\ WaveStart <= collected /\ collected < WaveStart + ShardWorkers
           /\ ShardWorkers \in Nat \ {0}
           /\ WaveStart <= ShardWorkers * ((collected + 1) \div ShardWorkers)
<1>1. ShardWorkers \in Nat \ {0}
  BY ProjectionAssumption
<1> QED
  BY <1>1, Division DEF Waves, WaveStart

\* The invariant holds before the first process is spawned.
THEOREM ProjectionStarts == ProjectionInit => ProjectionIndInv
<1> SUFFICES ASSUME ProjectionInit PROVE ProjectionIndInv
  OBVIOUS
<1>1. DataGiven
  BY DEF ProjectionInit, DataGiven
<1>2. /\ shard = [i \in 1..ShardCount |-> [at |-> "waiting", answers |-> NoAnswers]]
      /\ collected = 0 /\ build = "proving"
  BY DEF ProjectionInit
<1>3. ShardCount \in Nat
  BY <1>1, ShardCountNat
<1>4. ShardsTyped /\ Waves /\ BuildHolds
  BY <1>2, <1>3 DEF ShardsTyped, Waves, BuildHolds
<1> QED
  BY <1>1, <1>4 DEF ProjectionIndInv

\* The roots are listed by a fold over their set.
LEMMA QueryRootsIs == QueryRoots = ListOf(AllRoots)
BY DEF QueryRoots, ListOf, AllRoots

\* The plans and their roots depend on the evidence and the contexts only.
LEMMA SamePlans ==
    ASSUME UNCHANGED <<evidence, contexts, queries>>
    PROVE  /\ DataGiven => DataGiven' 
           /\ ShardCount' = ShardCount /\ ProjectionDue' = ProjectionDue
<1>1. Plans' = Plans /\ \A plan : Positions(plan)' = Positions(plan) /\ Recents(plan)' = Recents(plan)
  BY DEF Plans, Positions, Recents, IsRecent
<1>2. ASSUME NEW plan, NEW p PROVE MatchedValues(plan, p)' = MatchedValues(plan, p)
  BY DEF MatchedValues, Seen
<1>3. ASSUME NEW plan PROVE ProofRoots(plan)' = ProofRoots(plan) /\ ClicksShared(plan)' = ClicksShared(plan)
  BY <1>1, <1>2 DEF ProofRoots, ClicksShared
<1>4. QueryRoots' = QueryRoots
  <2>1. AllRoots' = AllRoots
    BY <1>1, <1>3 DEF AllRoots
  <2>2. QueryRoots = ListOf(AllRoots)
    BY QueryRootsIs
  <2>3. (QueryRoots = ListOf(AllRoots))'
    BY QueryRootsIs, PTL
  <2> QED
    BY <2>1, <2>2, <2>3
<1>5. ASSUME NEW plan PROVE ScopeDue(plan)' = ScopeDue(plan)
  BY <1>1, <1>3 DEF ScopeDue, CompleteAt, Seen
<1>6. ASSUME NEW plan PROVE RecordsDue(plan)' = RecordsDue(plan)
  <2>1. \A p : RecordDue(plan, p)' = RecordDue(plan, p)
    BY <1>2 DEF RecordDue, IsRecent
  <2> QED
    BY <1>3, <1>5, <2>1 DEF RecordsDue
<1>7. ProjectionDue' = ProjectionDue
  BY <1>1, <1>5, <1>6 DEF ProjectionDue
<1>8. ShardCount' = ShardCount
  BY DEF ShardCount, RootsPerShard
<1> QED
  BY <1>4, <1>7, <1>8 DEF DataGiven

\* The same, where the invariant holds.
LEMMA WaveHolds ==
    ASSUME ProjectionIndInv
    PROVE  /\ DOMAIN shard = 1..ShardCount /\ ShardCount \in Nat
           /\ \A i \in 1..ShardCount : DOMAIN shard[i] = {"at", "answers"} /\ i \in Nat
           /\ collected \in Nat /\ collected <= ShardCount
           /\ WaveStart \in Nat /\ ShardWorkers \in Nat /\ ShardWorkers # 0
           /\ WaveStart <= collected /\ collected < WaveStart + ShardWorkers
<1>1. DataGiven /\ Waves /\ ShardsTyped
  BY DEF ProjectionIndInv
<1>2. ShardCount \in Nat
  BY <1>1, ShardCountNat
<1> QED
  BY <1>1, <1>2, WaveFacts DEF ShardsTyped, Waves

\* A step of the process of one shard of the wave.
LEMMA ShardMoves ==
    ASSUME ProjectionIndInv, UNCHANGED <<evidence, contexts, queries, collected, build, projection>>,
           build = "proving",
           NEW i \in 1..ShardCount, i > collected, i <= WaveStart + ShardWorkers,
           NEW state, DOMAIN state = {"at", "answers"}, shard' = [shard EXCEPT ![i] = state]
    PROVE  ProjectionIndInv'
<1>1. DataGiven' /\ ShardCount' = ShardCount /\ WaveStart' = WaveStart
  BY SamePlans DEF ProjectionIndInv, WaveStart
<1>2. DOMAIN shard' = 1..ShardCount /\ shard'[i] = state
      /\ \A j \in 1..ShardCount : j # i => shard'[j] = shard[j]
  BY DEF ProjectionIndInv, ShardsTyped
<1>3. ShardsTyped'
  BY <1>1, <1>2 DEF ProjectionIndInv, ShardsTyped
<1>4. Waves'
  <2>1. collected \in Nat /\ WaveStart \in Nat /\ ShardWorkers \in Nat /\ i \in Nat
    BY WaveHolds
  <2>2. ~(i <= collected) /\ ~(i > WaveStart + ShardWorkers)
    BY <2>1
  <2> QED
    BY <1>1, <1>2, <2>2 DEF ProjectionIndInv, Waves
<1>5. BuildHolds'
  BY DEF ProjectionIndInv, BuildHolds
<1> QED
  BY <1>1, <1>3, <1>4, <1>5 DEF ProjectionIndInv

\* A process that runs is one of the wave, and not collected.
LEMMA RunningFacts ==
    ASSUME ProjectionIndInv, NEW i \in DOMAIN shard, shard[i].at = "running"
    PROVE  build = "proving" /\ i \in 1..ShardCount /\ i > collected /\ i <= WaveStart + ShardWorkers
<1>1. i \in 1..ShardCount /\ ShardCount \in Nat
  BY ShardCountNat DEF ProjectionIndInv, ShardsTyped
<1>2. build = "proving"
  BY <1>1 DEF ProjectionIndInv, BuildHolds, Gone
<1>3. ~(i <= collected) /\ ~(i > WaveStart + ShardWorkers)
  BY <1>1 DEF ProjectionIndInv, Waves
<1>4. collected \in Nat /\ WaveStart \in Nat /\ ShardWorkers \in Nat
  BY WaveHolds
<1> QED
  BY <1>1, <1>2, <1>3, <1>4

\* The handler leaves no process of a wave behind.
LEMMA RetiredHolds ==
    ASSUME ProjectionIndInv, build = "proving",
           UNCHANGED <<evidence, contexts, queries, collected, projection>>,
           shard' = Retired, build' = "raised"
    PROVE  ProjectionIndInv'
<1>1. DataGiven' /\ ShardCount' = ShardCount /\ WaveStart' = WaveStart
  BY SamePlans DEF ProjectionIndInv, WaveStart
<1>2. collected \in Nat /\ WaveStart \in Nat /\ ShardWorkers \in Nat /\ WaveStart <= collected /\ ShardCount \in Nat
  BY WaveHolds
<1>3. DOMAIN shard = 1..ShardCount
  BY DEF ProjectionIndInv, ShardsTyped
<1>4. DOMAIN shard' = 1..ShardCount
      /\ \A i \in 1..ShardCount :
           shard'[i] = IF i \in Wave /\ shard[i].at # "waiting"
                       THEN [at |-> "joined", answers |-> NoAnswers] ELSE shard[i]
  BY <1>3 DEF Retired
<1>5. ShardsTyped'
  BY <1>1, <1>4 DEF ProjectionIndInv, ShardsTyped
<1>6. ASSUME NEW i \in 1..ShardCount
      PROVE  /\ i <= collected => shard'[i].at = "joined"
             /\ i > WaveStart + ShardWorkers => shard'[i].at = "waiting"
             /\ shard'[i].at \in Gone
  <2>1. i <= collected => shard[i].at = "joined"
    BY DEF ProjectionIndInv, Waves
  <2>2. i > WaveStart + ShardWorkers => shard[i].at = "waiting"
    BY DEF ProjectionIndInv, Waves
  <2>3. i \in Wave \/ i <= collected \/ i > WaveStart + ShardWorkers
    BY <1>2 DEF Wave
  <2>4. i \in Wave => ~(i > WaveStart + ShardWorkers)
    BY <1>2 DEF Wave
  <2> QED
    BY <1>4, <2>1, <2>2, <2>3, <2>4 DEF Gone
<1>7. Waves' /\ BuildHolds'
  BY <1>1, <1>6 DEF ProjectionIndInv, Waves, BuildHolds
<1> QED
  BY <1>1, <1>5, <1>7 DEF ProjectionIndInv

\* The parent is past the shards: every process is gone.
LEMMA AllCollected ==
    ASSUME ProjectionIndInv, collected = ShardCount
    PROVE  \A i \in 1..ShardCount : shard[i].at \in Gone
<1>1. ShardCount \in Nat
  BY ShardCountNat DEF ProjectionIndInv
<1> QED
  BY <1>1 DEF ProjectionIndInv, Waves, Gone

\* Every step of the parent and of a child process, the deaths of children
\* included, keeps the invariant.
THEOREM ProjectionStep == ProjectionIndInv /\ [ProjectionNext]_projectionVars => ProjectionIndInv'
<1> SUFFICES ASSUME ProjectionIndInv, [ProjectionNext]_projectionVars PROVE ProjectionIndInv'
  OBVIOUS
<1>0. /\ DOMAIN shard = 1..ShardCount /\ ShardCount \in Nat
      /\ \A i \in 1..ShardCount : DOMAIN shard[i] = {"at", "answers"}
      /\ collected \in Nat /\ collected <= ShardCount
      /\ WaveStart \in Nat /\ ShardWorkers \in Nat \ {0}
      /\ WaveStart <= collected /\ collected < WaveStart + ShardWorkers
  BY WaveHolds
<1>1. CASE UNCHANGED projectionVars
  <2>1. UNCHANGED <<evidence, contexts, queries, shard, collected, build, projection>>
    BY <1>1 DEF projectionVars
  <2>2. DataGiven' /\ ShardCount' = ShardCount /\ ProjectionDue' = ProjectionDue /\ WaveStart' = WaveStart
    BY <2>1, SamePlans DEF ProjectionIndInv, WaveStart
  <2> QED
    BY <2>1, <2>2 DEF ProjectionIndInv, ShardsTyped, Waves, BuildHolds
<1>2. CASE StartShard
  <2>1. PICK i \in Wave : shard[i].at = "waiting" /\ shard' = [shard EXCEPT ![i].at = "running"]
    BY <1>2 DEF StartShard
  <2>2. build = "proving" /\ UNCHANGED <<evidence, contexts, queries, collected, build, projection>>
    BY <1>2 DEF StartShard
  <2> DEFINE state == [shard[i] EXCEPT !.at = "running"]
  <2>3. i \in 1..ShardCount /\ i <= WaveStart + ShardWorkers
    BY DEF Wave
  <2>4. i > collected
    <3>1. ~(i <= collected)
      BY <2>1, <2>3 DEF ProjectionIndInv, Waves
    <3> QED
      BY <1>0, <2>3, <3>1
  <2>5. DOMAIN state = {"at", "answers"} /\ shard' = [shard EXCEPT ![i] = state]
    BY <1>0, <2>1, <2>3
  <2> HIDE DEF state
  <2> QED
    BY <2>2, <2>3, <2>4, <2>5, ShardMoves
<1>3. CASE StartShardRaises
  BY <1>3, RetiredHolds DEF StartShardRaises
<1>4. ASSUME NEW i \in DOMAIN shard, ShardAnswers(i) PROVE ProjectionIndInv'
  <2>1. /\ shard[i].at = "running"
        /\ UNCHANGED <<evidence, contexts, queries, collected, build, projection>>
    BY <1>4 DEF ShardAnswers
  <2>2. build = "proving" /\ i \in 1..ShardCount /\ i > collected /\ i <= WaveStart + ShardWorkers
    BY <2>1, RunningFacts
  <2>3. PICK state : DOMAIN state = {"at", "answers"} /\ shard' = [shard EXCEPT ![i] = state]
    <3>1. CASE \E paths \in {1, 2} :
                 shard' = [shard EXCEPT ![i] = [at |-> "answered", answers |->
                    [r \in RootsOfShard(i) |-> {Proof(r, path) : path \in 1..paths}]]]
      <4>1. PICK paths \in {1, 2} :
                 shard' = [shard EXCEPT ![i] = [at |-> "answered", answers |->
                    [r \in RootsOfShard(i) |-> {Proof(r, path) : path \in 1..paths}]]]
        BY <3>1
      <4> DEFINE a == [r \in RootsOfShard(i) |-> {Proof(r, path) : path \in 1..paths}]
      <4>2. shard' = [shard EXCEPT ![i] = [at |-> "answered", answers |-> a]]
        BY <4>1
      <4> HIDE DEF a
      <4>3. DOMAIN [at |-> "answered", answers |-> a] = {"at", "answers"}
        OBVIOUS
      <4> QED
        BY <4>2, <4>3
    <3>2. CASE \E r \in RootsOfShard(i) : \E answer \in WrongAnswers(r) :
                shard' = [shard EXCEPT ![i] =
                    IF answer = {} THEN [at |-> "error", answers |-> NoAnswers]
                    ELSE [at |-> "answered", answers |->
                        [x \in RootsOfShard(i) |-> IF x = r THEN answer ELSE {Proof(x, 1)}]]]
      <4>0. PICK r \in RootsOfShard(i) : \E answer \in WrongAnswers(r) :
                shard' = [shard EXCEPT ![i] =
                    IF answer = {} THEN [at |-> "error", answers |-> NoAnswers]
                    ELSE [at |-> "answered", answers |->
                        [x \in RootsOfShard(i) |-> IF x = r THEN answer ELSE {Proof(x, 1)}]]]
        BY <3>2
      <4>1. PICK answer \in WrongAnswers(r) :
                shard' = [shard EXCEPT ![i] =
                    IF answer = {} THEN [at |-> "error", answers |-> NoAnswers]
                    ELSE [at |-> "answered", answers |->
                        [x \in RootsOfShard(i) |-> IF x = r THEN answer ELSE {Proof(x, 1)}]]]
        BY <4>0
      <4> DEFINE a == [x \in RootsOfShard(i) |-> IF x = r THEN answer ELSE {Proof(x, 1)}]
                 state == IF answer = {} THEN [at |-> "error", answers |-> NoAnswers]
                          ELSE [at |-> "answered", answers |-> a]
      <4>2. shard' = [shard EXCEPT ![i] = state]
        BY <4>1
      <4> HIDE DEF a
      <4>3. DOMAIN state = {"at", "answers"}
        OBVIOUS
      <4> HIDE DEF state
      <4> QED
        BY <4>2, <4>3
    <3> QED
      BY <1>4, <3>1, <3>2 DEF ShardAnswers
  <2> QED
    BY <2>1, <2>2, <2>3, ShardMoves
<1>5. ASSUME NEW i \in DOMAIN shard, ShardDies(i) PROVE ProjectionIndInv'
  <2>1. /\ shard[i].at = "running" /\ shard' = [shard EXCEPT ![i].at = "dead"]
        /\ UNCHANGED <<evidence, contexts, queries, collected, build, projection>>
    BY <1>5 DEF ShardDies
  <2>2. build = "proving" /\ i \in 1..ShardCount /\ i > collected /\ i <= WaveStart + ShardWorkers
    BY <2>1, RunningFacts
  <2> DEFINE state == [shard[i] EXCEPT !.at = "dead"]
  <2>3. DOMAIN state = {"at", "answers"} /\ shard' = [shard EXCEPT ![i] = state]
    BY <1>0, <2>1, <2>2
  <2> HIDE DEF state
  <2> QED
    BY <2>1, <2>2, <2>3, ShardMoves
<1>6. CASE CollectShard
  <2>1. /\ build = "proving" /\ collected < ShardCount /\ collected' = collected + 1
        /\ shard' = [shard EXCEPT ![collected + 1].at = "joined"]
        /\ UNCHANGED <<evidence, contexts, queries, build, projection>>
    BY <1>6 DEF CollectShard, NextCollected
  <2>2. DataGiven' /\ ShardCount' = ShardCount
    BY <2>1, SamePlans DEF ProjectionIndInv
  <2>3. WaveStart' \in Nat /\ WaveStart <= WaveStart'
    <3>1. WaveStart' = ShardWorkers * ((collected + 1) \div ShardWorkers)
      BY <2>1 DEF WaveStart
    <3>2. WaveStart <= ShardWorkers * ((collected + 1) \div ShardWorkers)
      BY WaveFacts DEF ProjectionIndInv
    <3>3. collected + 1 \in Nat
      BY <1>0
    <3>4. ShardWorkers * ((collected + 1) \div ShardWorkers) \in Nat
      BY <1>0, <3>3, Division
    <3> QED
      BY <3>1, <3>2, <3>4
  <2>4. collected + 1 \in 1..ShardCount
    BY <1>0, <2>1
  <2>5. /\ DOMAIN shard' = 1..ShardCount /\ DOMAIN shard'[collected + 1] = {"at", "answers"}
        /\ shard'[collected + 1].at = "joined"
        /\ \A i \in 1..ShardCount : i # collected + 1 => shard'[i] = shard[i]
    BY <1>0, <2>1, <2>4
  <2>6. ShardsTyped'
    BY <1>0, <2>2, <2>5 DEF ShardsTyped
  <2>7. ASSUME NEW i \in 1..ShardCount
        PROVE  /\ i <= collected' => shard'[i].at = "joined"
               /\ i > WaveStart' + ShardWorkers => shard'[i].at = "waiting"
    <3>1. i <= collected' => i <= collected \/ i = collected + 1
      BY <1>0, <2>1
    <3>2. \A a, b, c, d, e \in Nat : a <= b /\ c < a + d /\ e > b + d => e > a + d /\ e # c + 1
      OBVIOUS
    <3>3. i > WaveStart' + ShardWorkers => i > WaveStart + ShardWorkers /\ i # collected + 1
      <4>1. i \in Nat /\ ShardWorkers \in Nat /\ WaveStart \in Nat /\ collected \in Nat
        BY <1>0
      <4> QED
        BY <1>0, <2>3, <3>2, <4>1
    <3> QED
      BY <2>5, <3>1, <3>3 DEF ProjectionIndInv, Waves
  <2>8. Waves'
    BY <1>0, <2>1, <2>2, <2>7 DEF Waves
  <2>9. BuildHolds'
    BY <2>1 DEF ProjectionIndInv, BuildHolds
  <2> QED
    BY <2>2, <2>6, <2>8, <2>9 DEF ProjectionIndInv
<1>7. CASE CollectRaises
  BY <1>7, RetiredHolds DEF CollectRaises, NextCollected
<1>8. CASE Reduce \/ ReduceRaises \/ Validate
  <2>1. UNCHANGED <<evidence, contexts, queries, shard, collected>>
    BY <1>8 DEF Reduce, ReduceRaises, Validate
  <2>2. DataGiven' /\ ShardCount' = ShardCount /\ ProjectionDue' = ProjectionDue /\ WaveStart' = WaveStart
    BY <2>1, SamePlans DEF ProjectionIndInv, WaveStart
  <2>3. ShardsTyped' /\ Waves'
    BY <2>1, <2>2 DEF ProjectionIndInv, ShardsTyped, Waves
  <2>4. \A i \in 1..ShardCount : shard[i].at \in Gone
    BY <1>8, AllCollected DEF Reduce, ReduceRaises, Validate, ProjectionIndInv, BuildHolds
  <2>5. CASE Reduce
    <3>1. projection' = ProjectionDue
      <4>1. \A plan \in Plans : Covered(plan)
        BY <2>5 DEF Reduce
      <4> QED
        BY <2>5, <4>1, ReducedIsDue DEF Reduce, ProjectionIndInv
    <3>2. BuildHolds'
      BY <2>1, <2>2, <2>4, <2>5, <3>1 DEF Reduce, BuildHolds
    <3> QED
      BY <2>2, <2>3, <3>2 DEF ProjectionIndInv
  <2>6. CASE ReduceRaises
    <3>1. BuildHolds'
      BY <2>1, <2>2, <2>4, <2>6 DEF ReduceRaises, BuildHolds
    <3> QED
      BY <2>2, <2>3, <3>1 DEF ProjectionIndInv
  <2>7. CASE Validate
    <3>1. projection = ProjectionDue /\ build = "reduced"
      BY <2>7 DEF Validate, ProjectionIndInv, BuildHolds
    <3>2. ValidProjection
      BY <3>1, DueIsValid DEF ProjectionIndInv
    <3>3. BuildHolds'
      BY <2>1, <2>2, <2>4, <2>7, <3>1, <3>2 DEF Validate, BuildHolds
    <3> QED
      BY <2>2, <2>3, <3>3 DEF ProjectionIndInv
  <2> QED
    BY <1>8, <2>5, <2>6, <2>7
<1> QED
  BY <1>1, <1>2, <1>3, <1>4, <1>5, <1>6, <1>7, <1>8 DEF ProjectionNext

\* The invariant implies what the run checks.
LEMMA ProjectionConsequence == ProjectionIndInv => ProjectionSound
<1> SUFFICES ASSUME ProjectionIndInv PROVE ProjectionSound
  OBVIOUS
<1>1. build = "published" => ScopesTrue /\ LedgerExact
  BY DueIsTrue DEF ProjectionIndInv, BuildHolds
<1>2. ScopesTrue /\ LedgerExact
  <2>1. build # "published" => ScopesTrue /\ LedgerExact
    BY DEF ScopesTrue, LedgerExact
  <2> QED
    BY <1>1, <2>1
<1>3. /\ build # "refused"
      /\ build # "proving" => \A i \in DOMAIN shard : shard[i].at \in {"waiting", "joined"}
  BY DEF ProjectionIndInv, BuildHolds, ShardsTyped, Gone
<1> QED
  BY <1>2, <1>3 DEF ProjectionSound

\* The inductive invariant: the waves leave no process behind, and what was
\* reduced is what the evidence calls for.
THEOREM ProjectionInvHolds == ProjectionSpec => []ProjectionIndInv
<1> QED
  BY ProjectionStarts, ProjectionStep, PTL DEF ProjectionSpec

\* The relational projection is published only if every shard has answered,
\* is then what the evidence calls for whatever the shards and the waves, and
\* leaves no process behind (petta_relational_evidence.py).
THEOREM ProjectionSafe == ProjectionSpec => []ProjectionSound
<1> QED
  BY ProjectionInvHolds, ProjectionConsequence, PTL
=============================================================================
