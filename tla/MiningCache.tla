----------------------------- MODULE MiningCache -----------------------------
(***************************************************************************)
(* The mining of a Lab as its caches see it (mining/petta_workspace.py,    *)
(* mining/incremental_fpminer.py, mining/retention.py and their callers in *)
(* mining/lab_lifecycle.py).  A mine freezes the newest complete units of  *)
(* the event history, projects them into cases, and for a point plan and     *)
(* maybe a pair plan brings the plan's AtomSpace up to date and asks the miner *)
(* for the supports: of the whole space, or of the new cases alone, added  *)
(* to those it remembers.  A staged build mines with the same caches and   *)
(* is promoted or thrown away later.                                       *)
(*                                                                         *)
(* A case is the index of its event together with a version: its facts     *)
(* follow the mined vocabularies.  Supports are sums over cases, so the    *)
(* model keeps the bag of the cases that were counted.  Every operation    *)
(* runs under MINER_LOCK and is one step; it may raise at each command it  *)
(* gives PeTTa, with that command done in part.                            *)
(***************************************************************************)
EXTENDS Integers, Sequences, FiniteSetsExt

CONSTANTS
    Unit,                  \* impressions, and events without one
    PointPlan, PairPlan,   \* _mining_workspace_plan of the features in use
    FactVersion,           \* what the vocabularies make of a case
    MaxUnits, MaxCases,    \* mining_retention_max_units, ..._max_cases
    MaxPlans,              \* max_cached_plans, of both caches
    NoEntry,               \* an absent cache entry
    MaxEvents,             \* bound on the events
    MaxMines,              \* bound on the mines begun
    MaxErrors              \* bound on the operations that raise

Plan == PointPlan \cup PairPlan
Event == 1..MaxEvents
Case == Event \X FactVersion

ASSUME PlanAssumption == PointPlan \cap PairPlan = {}
\* NoEntry is no entry of any of the caches.
ASSUME EntryAssumption ==
    /\ NoEntry \notin [content : [Case -> Nat], cases : SUBSET Case, dirty : BOOLEAN]
    /\ NoEntry \notin [cases : SUBSET Case, counted : [Case -> Nat]]
    /\ NoEntry \notin [content : [Case -> Nat], populated : BOOLEAN, dirty : BOOLEAN]
ASSUME RetentionAssumption ==
    /\ MaxUnits \in Nat \ {0} /\ MaxCases \in Nat \ {0} /\ MaxPlans \in Nat \ {0}
    /\ MaxEvents \in Nat /\ MaxMines \in Nat /\ MaxErrors \in Nat

VARIABLES
    events,      \* the units of the Lab's events, oldest first
    workspaces,  \* PeTTaWorkspaceCache._workspaces, each with its AtomSpace
    supports,    \* IncrementalFpMinerCache._states
    deltas,      \* IncrementalFpMinerCache._delta_spaces, each with its AtomSpace
    activePlans, \* _active_mining_workspace_plans of the Lab
    stage,       \* the staged build: what it captured, and what it used
    mine,        \* the mine that holds MINER_LOCK
    mines, errors

cacheState == <<workspaces, supports, deltas>>
bounds == <<mines, errors>>
miningVars == <<events, cacheState, activePlans, stage, mine, bounds>>

Nothing == [c \in Case |-> 0]
Once(cases) == [c \in Case |-> IF c \in cases THEN 1 ELSE 0]
Plus(a, b) == [c \in Case |-> a[c] + b[c]]

-----------------------------------------------------------------------------
(* Retention                                                               *)

UnitsOf(h) == {h[i] : i \in DOMAIN h}
Records(h, U) == {i \in DOMAIN h : h[i] \in U}

\* Units by their last record, newest first.
NewestFirst(h) ==
    LET last == {i \in DOMAIN h : \A j \in DOMAIN h : j > i => h[j] # h[i]} IN
    [k \in 1..Cardinality(last) |->
       h[CHOOSE i \in last : Cardinality({j \in last : j >= i}) = k]]

\* Mutant of Kept: only the unit at hand is held against the case limit.
KeptUnitAlone(h) ==
    LET order == NewestFirst(h)
        n == Len(order)
        stops == {k \in 0..n : k = n \/ k >= MaxUnits
                                \/ Cardinality(Records(h, {order[k + 1]})) > MaxCases} IN
    {order[i] : i \in 1..Min(stops)}

\* retain_complete_units: the loop stops at the first unit that does not fit.
Kept(h) ==
    LET order == NewestFirst(h)
        n == Len(order)
        newest(k) == {order[i] : i \in 1..k}
        stops == {k \in 0..n : k = n \/ k >= MaxUnits
                                \/ Cardinality(Records(h, newest(k + 1))) > MaxCases} IN
    newest(Min(stops))

\* The newest unit is never split.
Refused(h) == h # <<>> /\ Cardinality(Records(h, {h[Len(h)]})) > MaxCases

-----------------------------------------------------------------------------
(* The caches                                                              *)

NoMine == [by |-> "nobody", kept |-> {}, plans |-> <<>>, used |-> {}, pop |-> {}, at |-> "sync"]
NoStage == [at |-> "none", active |-> {}, kept |-> {}, used |-> {}, stale |-> FALSE]

MiningInit ==
    /\ events = <<>>
    /\ workspaces = [p \in Plan |-> NoEntry]
    /\ supports = [p \in Plan |-> NoEntry]
    /\ deltas = [p \in Plan |-> NoEntry]
    /\ activePlans = {} /\ stage = NoStage /\ mine = NoMine
    /\ mines = 0 /\ errors = 0

\* Pairs need a closed impression with a click and a skip.
PlanLists == {<<p>> : p \in PointPlan} \cup (PointPlan \X PairPlan)

Cached(f) == {p \in Plan : f[p] # NoEntry}

\* What is left of a space after an interrupted command.
PartAdded(content, cases) == {Plus(content, Once(some)) : some \in SUBSET cases}
PartCleared(content) ==
    {[c \in Case |-> IF c \in some THEN content[c] ELSE 0] : some \in SUBSET Case}

Workspace(content, cases, dirty) == [content |-> content, cases |-> cases, dirty |-> dirty]

Rebuilds(w, cases) == w.dirty \/ ~(w.cases \subseteq cases)

\* sync: the space is created, rebuilt or extended.
Synced(p, cases) ==
    LET w == workspaces[p] IN
    IF w = NoEntry \/ Rebuilds(w, cases) THEN Workspace(Once(cases), cases, FALSE)
    ELSE Workspace(Plus(w.content, Once(cases \ w.cases)), cases, FALSE)

\* Mutant of SyncRaises: the old hashes are trusted after a failed append.
SyncRaisesTrusting(p, cases) ==
    LET w == workspaces[p] IN
    IF w = NoEntry THEN {NoEntry}
    ELSE IF Rebuilds(w, cases)
    THEN {Workspace(content, w.cases, TRUE) :
            content \in PartCleared(w.content) \cup PartAdded(Nothing, cases)}
    ELSE {Workspace(content, w.cases, w.dirty) :
            content \in PartAdded(w.content, cases \ w.cases)}

\* A batched mutation can fail after partial application: the hashes are not
\* trusted any more.  A first stage that fails is forgotten with its space, and
\* names are never used again.
SyncRaises(p, cases) ==
    LET w == workspaces[p] IN
    IF w = NoEntry THEN {NoEntry}
    ELSE IF Rebuilds(w, cases)
    THEN {Workspace(content, w.cases, TRUE) :
            content \in PartCleared(w.content) \cup PartAdded(Nothing, cases)}
    ELSE {Workspace(content, w.cases, TRUE) :
            content \in PartAdded(w.content, cases \ w.cases)}

-----------------------------------------------------------------------------
(* A mine                                                                  *)

RecordEvent(u) ==
    /\ Len(events) < MaxEvents
    /\ mine.by # "lab"
    /\ events' = Append(events, u)
    /\ UNCHANGED <<cacheState, activePlans, stage, mine, bounds>>

\* mine() of the serving Lab, which holds its lock; a retention that refuses
\* to split a unit raises before anything is done.
MineLab(plans) ==
    /\ mine = NoMine /\ mines < MaxMines
    /\ events # <<>> /\ ~Refused(events)
    /\ mine' = [NoMine EXCEPT !.by = "lab", !.plans = plans,
                              !.kept = Records(events, Kept(events))]
    /\ mines' = mines + 1
    /\ UNCHANGED <<events, cacheState, activePlans, stage, errors>>

\* _capture_background_mining: a snapshot of the events, and a copy of the
\* Lab with its active plans.
CaptureStage ==
    /\ mine.by # "lab" /\ stage = NoStage /\ mines < MaxMines
    /\ events # <<>> /\ ~Refused(events)
    /\ stage' = [NoStage EXCEPT !.at = "captured", !.active = activePlans,
                                !.kept = Records(events, Kept(events))]
    /\ mines' = mines + 1
    /\ UNCHANGED <<events, cacheState, activePlans, mine, errors>>

\* _build_background_mining: the staged Lab mines.
MineStaged(plans) ==
    /\ mine = NoMine
    /\ stage.at = "captured"
    /\ mine' = [NoMine EXCEPT !.by = "stage", !.plans = plans, !.kept = stage.kept]
    /\ stage' = [stage EXCEPT !.at = "mining"]
    /\ UNCHANGED <<events, cacheState, activePlans, bounds>>

\* A failed mine restores the model fields; a failed build is disposed of.
Fail ==
    /\ errors < MaxErrors
    /\ errors' = errors + 1
    /\ mine' = NoMine
    /\ stage' = IF mine.by = "stage" THEN NoStage ELSE stage
    /\ UNCHANGED <<events, activePlans, mines>>

\* Some of the retained events become cases: negatives are sampled, pairs need
\* a click and a skip.
Populations ==
    {{<<e, v[e]>> : e \in sample} : sample \in SUBSET mine.kept \ {{}},
                                    v \in [mine.kept -> FactVersion]}

SyncPlan ==
    /\ mine.plans # <<>> /\ mine.at = "sync"
    /\ \E cases \in Populations :
         LET p == Head(mine.plans) IN
         /\ Cardinality(Cached(workspaces) \cup {p}) <= MaxPlans
         /\ workspaces' = [workspaces EXCEPT ![p] = Synced(p, cases)]
         /\ mine' = [mine EXCEPT !.at = "count", !.pop = cases]
    /\ UNCHANGED <<events, supports, deltas, activePlans, stage, bounds>>

\* A command raises, or the cache has no room for another plan.
SyncPlanRaises ==
    /\ mine.plans # <<>> /\ mine.at = "sync"
    /\ \E cases \in Populations :
         LET p == Head(mine.plans) IN
         \E w \in SyncRaises(p, cases) : workspaces' = [workspaces EXCEPT ![p] = w]
    /\ Fail
    /\ UNCHANGED <<supports, deltas>>

\* Neither a fresh state nor one whose cases changed, or left, takes a delta.
CountsAll(p, cases) == p \in Cached(supports) => ~(supports[p].cases \subseteq cases)
NewCases(p, cases) == cases \ supports[p].cases

\* Mutant of DeltaStart: a space that was filled in part is not cleared.
DeltaStartDirty(d) == IF d.populated THEN Nothing ELSE d.content

\* _prepare_delta_space empties what an earlier delta left.
DeltaStart(d) == IF d.populated \/ d.dirty THEN Nothing ELSE d.content

DeltaSpace(content, populated, dirty) ==
    [content |-> content, populated |-> populated, dirty |-> dirty]
OldDelta(p) == IF deltas[p] = NoEntry THEN DeltaSpace(Nothing, FALSE, FALSE) ELSE deltas[p]
Delta(p) == Plus(DeltaStart(OldDelta(p)), Once(NewCases(p, mine.pop)))

\* The two passes over the full space, or over the delta space, then the
\* assignment that commits.
CountPlan ==
    LET p == Head(mine.plans) IN
    /\ mine.plans # <<>> /\ mine.at = "count"
    /\ Cardinality(Cached(supports) \cup {p}) <= MaxPlans
    /\ \/ /\ CountsAll(p, mine.pop)
          /\ supports' = [supports EXCEPT ![p] =
               [cases |-> mine.pop, counted |-> workspaces[p].content]]
          /\ UNCHANGED deltas
       \/ /\ ~CountsAll(p, mine.pop) /\ NewCases(p, mine.pop) = {}
          /\ UNCHANGED <<supports, deltas>>
       \/ /\ ~CountsAll(p, mine.pop) /\ NewCases(p, mine.pop) # {}
          /\ deltas' = [deltas EXCEPT ![p] = DeltaSpace(Delta(p), TRUE, FALSE)]
          /\ supports' = [supports EXCEPT ![p] =
               [cases |-> mine.pop, counted |-> Plus(@.counted, Delta(p))]]
    /\ mine' = [mine EXCEPT !.at = "sync", !.plans = Tail(@), !.used = @ \cup {p}]
    /\ UNCHANGED <<events, workspaces, activePlans, stage, bounds>>

\* A limit or a query of a full pass raises; or a command on the delta space,
\* or a query after them.
DeltaRaises(p) ==
    LET d == OldDelta(p)
        more == NewCases(p, mine.pop)
        partly == PartAdded(DeltaStart(d), more)
                    \cup (IF d.populated \/ d.dirty THEN PartCleared(d.content) ELSE {}) IN
    {deltas[p]} \cup
    IF CountsAll(p, mine.pop) \/ NewCases(p, mine.pop) = {} THEN {}
    ELSE {DeltaSpace(Delta(p), TRUE, FALSE)}
           \cup {DeltaSpace(content, d.populated, TRUE) : content \in partly}

\* _mine_incremental_workspace: a plan that is not active loses its space, if
\* that can be cleared; a Lab knows the active plans it was copied with.
Rollback(p) ==
    LET w == workspaces[p]
        active == IF mine.by = "lab" THEN activePlans ELSE stage.active IN
    IF p \in active THEN {w}
    ELSE {NoEntry} \cup {Workspace(content, w.cases, TRUE) : content \in PartCleared(w.content)}

CountPlanRaises ==
    LET p == Head(mine.plans) IN
    /\ mine.plans # <<>> /\ mine.at = "count"
    /\ \E d \in DeltaRaises(p) : deltas' = [deltas EXCEPT ![p] = d]
    /\ \E w \in Rollback(p) : workspaces' = [workspaces EXCEPT ![p] = w]
    /\ Fail
    /\ UNCHANGED supports

-----------------------------------------------------------------------------
(* The end of a mine                                                       *)

Drop(f, gone) == [p \in Plan |-> IF p \in gone THEN NoEntry ELSE f[p]]

Others(keep) == Cached(workspaces) \ keep
OtherSupports(keep) == (Cached(supports) \cup Cached(deltas)) \ keep

\* PeTTaWorkspaceCache.prune, then IncrementalFpMinerCache.prune, of what is not
\* kept.  A delta space that is not populated is forgotten as it is.
PruneAll(keep) ==
    /\ workspaces' = Drop(workspaces, Others(keep))
    /\ supports' = Drop(supports, OtherSupports(keep))
    /\ deltas' = Drop(deltas, OtherSupports(keep))
    /\ UNCHANGED errors

\* A space that cannot be cleared ends both; the error is reported, not raised.
PruneStops(keep) ==
    /\ errors < MaxErrors /\ errors' = errors + 1
    /\ \/ \E gone \in SUBSET Others(keep) : \E p \in Others(keep) \ gone :
            /\ \E content \in PartCleared(workspaces[p].content) :
                 workspaces' = [Drop(workspaces, gone) EXCEPT
                                  ![p] = Workspace(content, @.cases, TRUE)]
            /\ UNCHANGED <<supports, deltas>>
       \/ \E gone \in SUBSET OtherSupports(keep) :
          \E p \in (OtherSupports(keep) \ gone) \cap Cached(deltas) :
            /\ deltas[p].populated
            /\ workspaces' = Drop(workspaces, Others(keep))
            /\ supports' = Drop(supports, gone)
            /\ \E content \in PartCleared(deltas[p].content) :
                 deltas' = [Drop(deltas, gone) EXCEPT ![p] = DeltaSpace(content, TRUE, TRUE)]

Prune(keep) == PruneAll(keep) \/ PruneStops(keep)

\* _mine_once of the serving Lab installs its rules, which makes a build that
\* was captured before stale.
Install ==
    /\ mine.by = "lab" /\ mine.plans = <<>>
    /\ activePlans' = mine.used
    /\ Prune(mine.used)
    /\ stage' = IF stage = NoStage THEN stage ELSE [stage EXCEPT !.stale = TRUE]
    /\ mine' = NoMine
    /\ UNCHANGED <<events, mines>>

\* The staged Lab's pruning is deferred to its promotion.
Build ==
    /\ mine.by = "stage" /\ mine.plans = <<>>
    /\ stage' = [stage EXCEPT !.at = "built", !.used = mine.used]
    /\ mine' = NoMine
    /\ UNCHANGED <<events, cacheState, activePlans, bounds>>

\* engine.replace or the calibration raises: the caches keep what they have.
InstallRaises ==
    /\ mine # NoMine /\ mine.plans = <<>>
    /\ Fail
    /\ UNCHANGED cacheState

\* Mutant of Promote: the version is not compared.
PromoteAny ==
    /\ mine = NoMine
    /\ stage.at = "built"
    /\ activePlans' = stage.used
    /\ Prune(stage.used)
    /\ stage' = NoStage
    /\ UNCHANGED <<events, mine, mines>>

Promote ==
    /\ mine = NoMine
    /\ stage.at = "built" /\ ~stage.stale
    /\ activePlans' = stage.used
    /\ Prune(stage.used)
    /\ stage' = NoStage
    /\ UNCHANGED <<events, mine, mines>>

\* The version or the configuration changed meanwhile, or the Lab is closed.
Reject ==
    /\ stage.at = "built"
    /\ stage' = NoStage
    /\ UNCHANGED <<events, cacheState, activePlans, mine, bounds>>

MiningNext ==
    \/ \E u \in Unit : RecordEvent(u)
    \/ \E plans \in PlanLists : MineLab(plans) \/ MineStaged(plans)
    \/ CaptureStage \/ SyncPlan \/ SyncPlanRaises \/ CountPlan \/ CountPlanRaises
    \/ Install \/ Build \/ InstallRaises \/ Promote \/ Reject

MiningSpec == MiningInit /\ [][MiningNext]_miningVars

-----------------------------------------------------------------------------
(* petta_workspace.py:139-146: a space that is not marked dirty holds the  *)
(* facts of the cases it was last synchronised with, each of them once.    *)
WorkspacesExact ==
    \A p \in Cached(workspaces) :
      ~workspaces[p].dirty => workspaces[p].content = Once(workspaces[p].cases)

(* incremental_fpminer.py:16-21: the remembered supports are those of a    *)
(* full mine of the plan's cases, whatever was appended, failed, expired   *)
(* or was thrown away before.                                              *)
SupportsExact ==
    \A p \in Cached(supports) : supports[p].counted = Once(supports[p].cases)

(* retention.py:109-116: the window is a suffix of whole units, newest     *)
(* first, within both limits, and no longer suffix is.                     *)
PlanSuffixes == {{events[i] : i \in first..Len(events)} : first \in 1..Len(events) + 1}
Fits(U) == Cardinality(U) <= MaxUnits /\ Cardinality(Records(events, U)) <= MaxCases

WindowExact ==
    ~Refused(events) =>
      LET kept == Kept(events) IN
      /\ kept \in PlanSuffixes /\ Fits(kept)
      /\ \A U \in PlanSuffixes : Fits(U) => U \subseteq kept

MiningExact == WorkspacesExact /\ SupportsExact /\ WindowExact

(* lab_lifecycle.py:126-129: the active plans stay aligned with the rules  *)
(* in use: their supports are remembered, and both caches keep to their    *)
(* limit of plans.                                                         *)
ActivePlansSupported ==
    /\ activePlans \subseteq Cached(supports)
    /\ Cardinality(Cached(supports)) <= MaxPlans
    /\ Cardinality(Cached(workspaces)) <= MaxPlans

(* What an incremental mine may rely on, and what it leaves to the rules in *)
(* use, whichever mines were interrupted before it.                        *)
MiningSound == MiningExact /\ ActivePlansSupported
=============================================================================
