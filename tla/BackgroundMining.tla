-------------------------- MODULE BackgroundMining --------------------------
(***************************************************************************)
(* Live mining of one Lab: the coordinator of AsyncMining with the four    *)
(* callbacks that mining/lab_lifecycle.py gives it, the requests that      *)
(* record events, configure and mine (app/server.py), and the Lab's close. *)
(*                                                                         *)
(* A section under lab.lock is one action.  An event is two (it counts,    *)
(* then schedules, and the coordinator may step in between), inEvent being *)
(* the lock it holds meanwhile.  MINER_LOCK is minerLock.  A rule model is *)
(* abstracted to what it was mined from: how many events and under which   *)
(* configuration.  An event is recorded before it is counted, and one whose *)
(* rerank raises in between is never counted.                              *)
(***************************************************************************)
EXTENDS AsyncMining, FiniteSets

CONSTANTS
    Config,          \* configurations
    Interval,        \* mine_interval of each
    MiningKey,       \* the values of its MINING_CONFIG_KEYS
    Engine,          \* IsolatedPeTTaChainer objects; a closed one may be reused
    None,            \* no engine, no thread, no model
    MaxEvents,       \* bound on the events recorded
    MaxVersion,      \* bound on the version an explicit mine may start from
    MaxReconfig,     \* bound on the configuration changes that do not mine
    LabFault         \* what may raise: build, capture, promote, prewarm, rerank

ASSUME IntervalAssumption == Interval \in [Config -> Nat \ {0}]
ASSUME EngineAssumption == None \notin Engine /\ Engine # {}
ASSUME NoneAssumption == None \notin Worker
ASSUME BoundAssumption == MaxEvents \in Nat /\ MaxVersion \in Nat /\ MaxReconfig \in Nat

VARIABLES
    labClosed,       \* Lab._closed
    inEvent,         \* an event() holds lab.lock, between counting and scheduling
    recorded,        \* the events recorded in data["events"]
    counted,         \* history: those of them (by position) that the counters saw
    eventSeq,        \* _event_sequence
    lastMined,       \* _last_mined_event_sequence
    pending,         \* pending_events
    config,          \* config
    version,         \* version
    rules,           \* mined_rules and the rest of the model metadata
    serving,         \* self.engine
    compiled,        \* the rules each engine's process has compiled, or None
    snapshot,        \* the MiningSnapshot of each thread
    staged,          \* staged.engine of each thread
    retiring,        \* old_engine of a promotion that has released lab.lock
    minerLock,       \* the thread that holds MINER_LOCK
    released,        \* the mining workspaces were pruned by close()
    reconfigs,       \* configuration changes so far (for the bound)
    lowered          \* history: mine_interval was lowered since the last event

modelVars == <<config, version, rules, serving, compiled>>
countVars == <<recorded, counted, eventSeq, lastMined, pending>>
buildVars == <<snapshot, staged, retiring, minerLock>>
auxVars   == <<reconfigs, lowered>>
labVars   == <<labClosed, inEvent, countVars, modelVars, buildVars, released, auxVars>>
vars      == <<coordVars, labVars>>

Model == [events : Nat, config : Config]
Snapshot == [seq : Nat, events : Nat, base : Nat, config : Config]

LabTypeOK ==
    /\ TypeOK
    /\ labClosed \in BOOLEAN /\ inEvent \in BOOLEAN /\ released \in BOOLEAN
    /\ lowered \in BOOLEAN
    /\ recorded \in Nat /\ counted \subseteq 1..recorded
    /\ eventSeq \in Nat /\ lastMined \in Nat /\ pending \in Nat
    /\ version \in Nat /\ reconfigs \in Nat
    /\ config \in Config
    /\ rules \in Model
    /\ serving \in Engine
    /\ compiled \in [Engine -> Model \cup {None}]
    /\ snapshot \in [Worker -> Snapshot]
    /\ staged \in [Worker -> Engine \cup {None}]
    /\ retiring \in [Worker -> Engine \cup {None}]
    /\ minerLock \in Worker \cup {None}

(* The Lab's constructor mines before the coordinator exists.              *)
Init ==
    /\ CoordInit
    /\ labClosed = FALSE /\ inEvent = FALSE /\ released = FALSE /\ lowered = FALSE
    /\ recorded = 0 /\ counted = {}
    /\ eventSeq = 0 /\ lastMined = 0 /\ pending = 0 /\ reconfigs = 0
    /\ version = 1
    /\ config \in Config
    /\ rules = [events |-> 0, config |-> config]
    /\ serving \in Engine
    /\ compiled = [e \in Engine |-> IF e = serving THEN rules ELSE None]
    /\ snapshot = [w \in Worker |-> [seq |-> 0, events |-> 0, base |-> 0, config |-> config]]
    /\ staged = [w \in Worker |-> None]
    /\ retiring = [w \in Worker |-> None]
    /\ minerLock = None

LabFree == ~inEvent
Due == pending >= Interval[config]

-----------------------------------------------------------------------------
(* Requests                                                                *)

(* event() up to the append: the profile and the feed are elsewhere.       *)
AppendEvent ==
    /\ LabFree /\ ~labClosed
    /\ recorded < MaxEvents
    /\ recorded' = recorded + 1
    /\ UNCHANGED <<coordVars, labClosed, lastMined, modelVars, buildVars, released, auxVars>>

(* _rerank_unserved_queue returns, or there is no live session: the event  *)
(* reaches the counters.                                                   *)
RecordEvent ==
    /\ AppendEvent
    /\ counted' = counted \cup {recorded'}
    /\ eventSeq' = eventSeq + 1
    /\ pending' = pending + 1
    /\ inEvent' = TRUE

(* The rerank raises: the event stays recorded, and neither counts nor     *)
(* schedules.                                                              *)
RecordUncounted ==
    /\ "rerank" \in LabFault
    /\ AppendEvent
    /\ UNCHANGED <<counted, eventSeq, pending, inEvent>>

(* Mutant: schedules above the threshold, not at it.                       *)
FinishEventAbove ==
    /\ inEvent
    /\ inEvent' = FALSE
    /\ lowered' = FALSE
    /\ IF pending > Interval[config] THEN Schedule ELSE UNCHANGED coordVars
    /\ UNCHANGED <<labClosed, countVars, modelVars, buildVars, released, reconfigs>>

(* The end of event(): a schedule() when the threshold is reached.         *)
FinishEvent ==
    /\ inEvent
    /\ inEvent' = FALSE
    /\ lowered' = FALSE
    /\ IF Due THEN Schedule ELSE UNCHANGED coordVars
    /\ UNCHANGED <<labClosed, countVars, modelVars, buildVars, released, reconfigs>>

(* Mutant: a mining key is missing from MINING_CONFIG_KEYS.                *)
ConfigureAnyKey(c) ==
    /\ LabFree /\ ~labClosed
    /\ c # config
    /\ reconfigs < MaxReconfig
    /\ config' = c
    /\ reconfigs' = reconfigs + 1
    /\ lowered' = (lowered \/ Interval[c] < Interval[config])
    /\ UNCHANGED <<coordVars, labClosed, inEvent, countVars, version, rules, serving, compiled,
                   buildVars, released>>

(* /api/config with no change of a mining key.                             *)
Configure(c) ==
    /\ LabFree /\ ~labClosed
    /\ c # config /\ MiningKey[c] = MiningKey[config]
    /\ reconfigs < MaxReconfig
    /\ config' = c
    /\ reconfigs' = reconfigs + 1
    /\ lowered' = (lowered \/ Interval[c] < Interval[config])
    /\ UNCHANGED <<coordVars, labClosed, inEvent, countVars, version, rules, serving, compiled,
                   buildVars, released>>

(* mine() under lab.lock and MINER_LOCK, for /api/mine (c = config) and    *)
(* for /api/config when a mining key changes.  A failure before the engine *)
(* is replaced restores everything.                                        *)
MineNow(c) ==
    /\ LabFree /\ ~labClosed /\ minerLock = None
    /\ c = config \/ MiningKey[c] # MiningKey[config]
    /\ version < MaxVersion
    /\ version' = version + 1
    /\ lastMined' = eventSeq
    /\ pending' = 0
    /\ compiled' = [compiled EXCEPT ![serving] = [events |-> recorded, config |-> c]]
    /\ UNCHANGED <<coordVars, labClosed, inEvent, recorded, counted, eventSeq, serving, buildVars,
                   released, reconfigs>>

MineSucceeds(c) ==
    /\ MineNow(c)
    /\ config' = c
    /\ rules' = [events |-> recorded, config |-> c]
    /\ lowered' = FALSE

(* _prewarm_serving_channels raises after the engine was replaced: mine()  *)
(* restores the old metadata and /api/config the old configuration.        *)
MinePrewarmRaises(c) ==
    /\ "prewarm" \in LabFault
    /\ MineNow(c)
    /\ UNCHANGED <<config, rules, lowered>>

-----------------------------------------------------------------------------
(* The coordinator's callbacks                                             *)

(* _capture_background_mining                                              *)
Capture(w) ==
    /\ LabFree /\ ~labClosed
    /\ CaptureReturns(w)
    /\ snapshot' = [snapshot EXCEPT ![w] =
         [seq |-> eventSeq, events |-> recorded, base |-> version, config |-> config]]
    /\ UNCHANGED <<labClosed, inEvent, countVars, modelVars, staged, retiring, minerLock, released,
                   auxVars>>

CaptureFails(w) ==
    /\ LabFree
    /\ labClosed \/ "capture" \in LabFault
    /\ CaptureRaises(w)
    /\ UNCHANGED labVars

(* _build_background_mining: the staged Lab's mine() under MINER_LOCK, in  *)
(* a fresh engine that the error path closes.                              *)
BuildLocks(w) ==
    /\ pc[w] = "build"
    /\ minerLock = None
    /\ minerLock' = w
    /\ UNCHANGED <<coordVars, labClosed, inEvent, countVars, modelVars, snapshot, staged, retiring,
                   released, auxVars>>

Build(w) ==
    /\ minerLock = w /\ minerLock' = None
    /\ BuildReturns(w)
    /\ \E e \in Engine \ {serving} :
        /\ compiled[e] = None
        /\ staged' = [staged EXCEPT ![w] = e]
        /\ compiled' = [compiled EXCEPT ![e] = [events |-> snapshot[w].events,
                                               config |-> snapshot[w].config]]
    /\ UNCHANGED <<labClosed, inEvent, countVars, config, version, rules, serving, snapshot,
                   retiring, released, auxVars>>

BuildFails(w) ==
    /\ "build" \in LabFault
    /\ minerLock = w /\ minerLock' = None
    /\ BuildRaises(w)
    /\ UNCHANGED <<labClosed, inEvent, countVars, modelVars, snapshot, staged, retiring, released,
                   auxVars>>

(* _promote_background_mining: the section under lab.lock, then the close  *)
(* of the old engine and the return.                                       *)
(* Mutant: a promotion that does not look at _closed.                      *)
StaleWhileOpen(w) == version # snapshot[w].base \/ config # snapshot[w].config

Stale(w) == labClosed \/ version # snapshot[w].base \/ config # snapshot[w].config

PromoteWith(w, newRules, newPending) ==
    /\ LabFree /\ pc[w] = "promote" /\ retiring[w] = None
    /\ ~Stale(w)
    /\ retiring' = [retiring EXCEPT ![w] = serving]
    /\ serving' = staged[w]
    /\ staged' = [staged EXCEPT ![w] = None]
    /\ rules' = newRules
    /\ version' = snapshot[w].base + 1
    /\ lastMined' = snapshot[w].seq
    /\ pending' = newPending
    /\ UNCHANGED <<coordVars, labClosed, inEvent, recorded, counted, eventSeq, config, compiled,
                   snapshot, minerLock, released, auxVars>>

(* Mutants: the counter is reset, and the metadata of the old model stays. *)
PromoteResets(w) == PromoteWith(w, compiled[staged[w]], 0)
PromoteEngineOnly(w) ==
    PromoteWith(w, rules, IF eventSeq > snapshot[w].seq THEN eventSeq - snapshot[w].seq ELSE 0)

Promote(w) ==
    PromoteWith(w, compiled[staged[w]],
                IF eventSeq > snapshot[w].seq THEN eventSeq - snapshot[w].seq ELSE 0)

(* Mutant: the old engine is not closed.                                   *)
PromoteAbandons(w) ==
    /\ retiring[w] # None
    /\ PromoteAccepts(w)
    /\ retiring' = [retiring EXCEPT ![w] = None]
    /\ UNCHANGED <<labClosed, inEvent, countVars, modelVars, snapshot, staged, minerLock, released,
                   auxVars>>

PromoteRetires(w) ==
    /\ retiring[w] # None
    /\ PromoteAccepts(w)
    /\ compiled' = [compiled EXCEPT ![retiring[w]] = None]
    /\ retiring' = [retiring EXCEPT ![w] = None]
    /\ UNCHANGED <<labClosed, inEvent, countVars, config, version, rules, serving, snapshot, staged,
                   minerLock, released, auxVars>>

PromoteIsStale(w) ==
    /\ LabFree /\ retiring[w] = None
    /\ Stale(w)
    /\ PromoteRejects(w)
    /\ UNCHANGED labVars

PromoteFails(w) ==
    /\ LabFree /\ retiring[w] = None
    /\ ~Stale(w) /\ "promote" \in LabFault
    /\ PromoteRaises(w)
    /\ UNCHANGED labVars

(* _dispose_background_mining, after a rejection or in the error handler.  *)
Dispose(w) ==
    /\ DisposeReturns(w) \/ DisposeAfterError(w)
    /\ staged' = [staged EXCEPT ![w] = None]
    /\ compiled' = [e \in Engine |-> IF e = staged[w] THEN None ELSE compiled[e]]
    /\ UNCHANGED <<labClosed, inEvent, countVars, config, version, rules, serving, snapshot,
                   retiring, minerLock, released, auxVars>>

(* Mutant: due only above the threshold.                                   *)
RemineDueAbove(w) ==
    /\ LabFree
    /\ RetriggerAnswers(w, ~labClosed /\ pending > Interval[config])
    /\ UNCHANGED labVars

(* _background_remine_due                                                  *)
RemineDue(w) ==
    /\ LabFree
    /\ RetriggerAnswers(w, ~labClosed /\ Due)
    /\ UNCHANGED labVars

CoordinatorStep(w) == InternalStep(w) /\ UNCHANGED labVars

-----------------------------------------------------------------------------
(* close(): mark the Lab, close the coordinator, then (inline, or in a     *)
(* thread when a build is running) wait for it and prune the workspaces,   *)
(* and close the engine.  Nothing orders the pruning and the engine's      *)
(* close here, for either may come first.  The guards ~labClosed of the    *)
(* requests stand for pinned_lab, which never hands out a Lab that was     *)
(* replaced.                                                               *)

CloseLab ==
    /\ LabFree /\ ~labClosed
    /\ labClosed' = TRUE
    /\ UNCHANGED <<coordVars, inEvent, countVars, modelVars, buildVars, released, auxVars>>

CancelMining ==
    /\ labClosed
    /\ CloseCoordinator
    /\ UNCHANGED labVars

AwaitMining(c) ==
    /\ closed
    /\ WaitTests(c)
    /\ UNCHANGED labVars

(* Mutant: prunes without waiting for the coordinator.                     *)
ReleaseWorkspacesEarly ==
    /\ closed
    /\ minerLock = None
    /\ ~released /\ released' = TRUE
    /\ UNCHANGED <<coordVars, labClosed, inEvent, countVars, modelVars, buildVars, auxVars>>

ReleaseWorkspaces ==
    /\ \E c \in Waiter : waiter[c] = "returned"
    /\ minerLock = None
    /\ ~released /\ released' = TRUE
    /\ UNCHANGED <<coordVars, labClosed, inEvent, countVars, modelVars, buildVars, auxVars>>

CloseEngine ==
    /\ closed
    /\ compiled[serving] # None
    /\ compiled' = [compiled EXCEPT ![serving] = None]
    /\ UNCHANGED <<coordVars, labClosed, inEvent, countVars, config, version, rules, serving,
                   buildVars, released, auxVars>>

-----------------------------------------------------------------------------
BuilderStep(w) ==
    \/ Capture(w) \/ CaptureFails(w)
    \/ BuildLocks(w) \/ Build(w) \/ BuildFails(w)
    \/ Promote(w) \/ PromoteRetires(w) \/ PromoteIsStale(w) \/ PromoteFails(w)
    \/ Dispose(w) \/ RemineDue(w) \/ CoordinatorStep(w)

CloseStep ==
    CancelMining \/ (\E c \in Waiter : AwaitMining(c)) \/ ReleaseWorkspaces \/ CloseEngine

Next ==
    \/ RecordEvent \/ RecordUncounted \/ FinishEvent
    \/ \E c \in Config : Configure(c) \/ MineSucceeds(c) \/ MinePrewarmRaises(c)
    \/ \E w \in Worker : BuilderStep(w)
    \/ CloseLab \/ CloseStep

Spec == Init /\ [][Next]_vars

(* The builder thread runs and its calls return (reasoner calls have a     *)
(* deadline), a request that holds lab.lock goes on, and so does a close   *)
(* once begun.  Nothing obliges anyone to send a request or to close.      *)
FairSpec ==
    /\ Spec
    /\ \A w \in Worker : WF_vars(BuilderStep(w))
    /\ WF_vars(FinishEvent)
    /\ WF_vars(CancelMining)
    /\ \A c \in Waiter : WF_vars(AwaitMining(c))
    /\ WF_vars(ReleaseWorkspaces)
    /\ WF_vars(CloseEngine)

-----------------------------------------------------------------------------
(* Safety                                                                  *)

\* Those of the events that are among the first n recorded.
UpTo(events, n) == {i \in events : i <= n}

(* pending_events is the number of counted events that the served rules    *)
(* have not seen, across promotions that overlap events, explicit mines    *)
(* and events that are mined though they were never counted; and the three *)
(* counters add up.                                                        *)
PendingExact ==
    /\ pending = Cardinality(counted \ UpTo(counted, rules.events))
    /\ eventSeq = lastMined + pending

(* The live scorer and the model metadata are one version ("the still-live *)
(* old scorer and its model metadata must remain one coherent version").   *)
ModelCoherent == compiled[serving] \in {rules, None} /\ (~closed => compiled[serving] = rules)

(* The served rules were mined under the mining parameters in force, from  *)
(* events that are all recorded, and the counted ones among them are as    *)
(* many as the counters say; an event whose rerank raised is one the rules *)
(* may have seen beyond the counters.                                      *)
ModelMatchesState ==
    /\ MiningKey[rules.config] = MiningKey[config]
    /\ rules.events <= recorded
    /\ lastMined = Cardinality(UpTo(counted, rules.events))

(* When the threshold is reached and no request is in progress, a build is *)
(* running, or the last one failed and waits for a newer event: an event   *)
(* is never forgotten between the Lab's count and the coordinator's epoch. *)
(* Lowering mine_interval schedules nothing until the next event.          *)
DueImpliesWork == LabFree /\ ~labClosed /\ Due => running \/ lastError \/ lowered

(* Every engine process belongs to someone who will close it.              *)
EnginesOwned ==
    \A e \in Engine : compiled[e] # None =>
        e = serving \/ \E w \in Worker : pc[w] # "idle" /\ e \in {staged[w], retiring[w]}

(* close() prunes the shared mining workspaces only when no build can      *)
(* write to them any more.                                                 *)
NoBuildAfterRelease == released => \A w \in Worker : pc[w] = "idle"

(* No step takes the Lab back to a model that has seen fewer events.       *)
MinedOnlyForward == [][rules'.events >= rules.events /\ lastMined' >= lastMined]_vars

(* The Lab implements the abstract served model.                           *)
Served == INSTANCE ServedModel WITH model <- rules, open <- ~labClosed
ImplementsServedModel == Served!Spec

(* Liveness: events that reached the threshold are mined, unless a build   *)
(* fails (it waits for a newer event), the Lab is closed or the threshold  *)
(* was moved.                                                              *)
DueIsMined ==
    \A n \in 1..MaxEvents :
        (eventSeq >= n /\ Due) ~> \/ lastMined >= n \/ ~Due
                                  \/ lastError \/ lowered \/ labClosed

(* Liveness: closing the Lab ends in no engine process and no workspace.   *)
CloseReleases == labClosed ~> (released /\ \A e \in Engine : compiled[e] = None)
=============================================================================
