# Verification of the symbolic recommendation service

TLA+ modules, TLC runs and TLAPS proofs about the program in `src/`: a news
recommender that mines symbolic rules from reader events, ranks articles by
proofs from an external reasoner (PeTTaChainer), and serves a live feed that
reacts to feedback while a background thread mines a replacement for the rule
set in force.

Everything below is about the code at one commit. Paths are relative to `src/`.

## 1. The system and its parts

A process holds one `Lab` (`app/server.py`) behind a threading HTTP server.
`Lab` is put together from mixins; its requests run under one re-entrant lock,
`lab.lock`. Its rules are compiled into a reasoner that runs in a process of its
own, and are replaced either by an explicit mine or by the background
coordinator. In production several such processes, each started from one frozen
model, are pooled behind a gateway.

| Part | State | Operations | What is hard | What makes it correct |
|---|---|---|---|---|
| `AsyncMiningCoordinator` (`app/async_mining.py`) | `_closed`, `_running`, epochs, `_failures`, `_last_error`; one thread's locals | `schedule`, `wait`, `close`, `_run` | callbacks run outside the lock, each may raise; requests arrive at any point | one thread at a time, no lost request, no hot loop, no leaked build, no stranded waiter |
| Live mining (`mining/lab_lifecycle.py`) | engine, rule metadata, `version`, `pending_events`, event sequences, snapshots | capture, build, promote, dispose, re-mine test, `mine`, `close` | a build of minutes is promoted over a Lab that moved on; failures half way | engine, metadata, counters and configuration belong together; every engine is closed |
| Lab and handlers (`app/server.py`) | configuration, events, profiles, caches, the global `LAB` | event, config, mine, feed, preview, dataset swap, benchmark, tune | an error in the middle of a handler leaves what was done so far | counters exact, caches follow the rules, no Lab lost, no trial left in force |
| `IsolatedPeTTaChainer` (`app/reasoner.py`) | pipe, process, bootstrap statements, mutation journal | add, remove, query_many, `replace`, `close`, recovery | late answers, deaths and hangs at any point; recovery by replay | at-most-once calls; the worker holds exactly what was acknowledged |
| Feed sessions (`app/lab_serving.py`) | per session: items, queue, position, deliveries, revision, feedback contexts | `feed_page`, recovery, rerank, pruning | a response may be lost after its rows left the queue; rules change between pages | no article lost or doubled; only rows ranked by the rules in force are served |
| Web client (`web/templates/index.html`) | cursor, session, accepted position and revision, cards | scroll, feedback, refresh, poll | requests are aborted but may still run; answers of an old generation | what it reports as accepted is what it showed |
| Pool, gateway, bounded server (`app/production_pool.py`) | scorers with generation and health, session routes, admission count | spawn, monitor, restart, proxy, aggregate, close | monitor and close race; routes outlive their scorer | a session is served by the scorer that holds it; nothing outlives a close but one spawn |
| Proof caches (`app/server.py`, `ranking/lab_pairwise.py`) | loaded cases, proofs, rankings | ensure, query, publish, evict | a call raises between two commands to the store | cached implies present; no ranking of an old profile |
| Pair tournament (`ranking/lab_pairwise.py`) | compared pairs of a session | rank, replay | the replay skips what it takes for unchanged | replay equals a fresh tournament |
| Mining caches (`mining/petta_workspace.py`, `incremental_fpminer.py`, `retention.py`) | a space per plan with dirty marks, remembered supports | freeze, sync, count, prune | a mine is interrupted between commands; units expire | incremental counts are those of a full mine |
| Rule selection (`lab_lifecycle.py`, `conditional_llm_mining.py`, `core/ctv_calibration.py`) | none | context search, calibration, quotas, dependencies | two families share a cap; one evidence under two names | no starved family, no double vote |
| Training gate (`evaluation/training_gate*.py`) | spent cohorts in memory and on disk, artifacts | split, claim, build, compare, adopt, publish, finalise | raising, kills and power losses between any two steps | a cohort decides once; what is reported is durable |
| Extraction batch (`cli/llm_extract_batch.py`, `integrations/llm_article_facts.py`) | budgets, shard caches, merged export | deal, extract, save, retry, merge | workers outlive a killed driver | budgets are totals; nothing is paid twice; exports are whole |
| Relational projection (`pipelines/relational_data.py`, `features/relational_workspace.py`) | proof roots, shards, projection | plan, prove, collect, reduce, validate | partial, wrong or missing answers of shards | absence is claimed only where everything was seen |
| Semantic previews (`lab_serving.py`, `integrations/engine.py`) | a bounded cache per Lab | ask, parse, cache, respond | the dataset is swapped during a slow call | bounded, single-flight, current |
| Frozen model (`server.py`, `lab_lifecycle.py`) | model files | mine, export, load, spawn | processes end between any two steps; a replaced scorer reads the file again | a scorer serves exactly what was written |
| MIND replay (`adapters/mind.py`) | running counts, sampled impressions, profiles | load of the archive | every outcome counts for later rows only, while most rows are thrown away | no case sees its own or a later outcome; impressions whole; what is named is loaded |

The remaining parts (other data adapters, offline comparisons, text features,
command-line probes) are listed in `PROJECT.json` with the reason they are not
modelled; section 6 says more.

How the parts interact:

    browser --HTTP--> gateway --HTTP--> scorer process (started from a frozen model)
                         |                 handlers --lab.lock--> Lab --pipe--> reasoner worker
                      monitor                           |  ^
                                            schedule()  |  |  capture / build / promote / dispose
                                                        v  |
                                               AsyncMiningCoordinator thread
                                                        |
                                          mining caches, rule selection

    extraction batch, relational projection: offline, make the facts that Labs load
    training gate: compares two configurations in Labs of its own, adopts one

## 2. Modules

| Module | Models | Run |
|---|---|---|
| `AsyncMining` | the coordinator, callbacks being the environment's choice | `async` |
| `BackgroundMining` | the Lab's mining with the coordinator inside (EXTENDS `AsyncMining`) | `lab`, `bg_liveness`, `bg_prewarm` |
| `ServedModel` | abstract: what the Lab promises of the model it serves | property of `lab` |
| `Reasoner` | the isolated reasoner, its callers and its worker | `reasoner` |
| `AtomStore` | abstract: one atomic store of mutations | property of `reasoner` |
| `FeedSession` | the server side of the live feed | `serving` |
| `FeedBrowser` | one tab over an unreliable connection (EXTENDS `FeedSession`) | `feed_browser`, `feed_lost_rows` |
| `ScorerPool` | scorer processes, monitor thread, start and close | in `Gateway` |
| `Gateway` | admission, routing, proxying, clients and scorers at its ends (EXTENDS `ScorerPool`) | `pool`, `pool_state`, `pool_reset` |
| `ProofCache` | scoring: what the Lab remembers of its proofs | `serving` |
| `ControlPlane` | pinned requests, dataset swap, trials | `serving` |
| `PairTournament` | ranking of a queue and its replay | `lab` |
| `SemanticPreview` | previews of articles | `lab` |
| `FrozenModel` | model files, the processes that write and load them | `lab` |
| `RelationalProjection` | relational evidence, its shards and their reduction | `lab` |
| `MiningCache` | retention, workspaces, incremental supports | `learning` |
| `RuleSelection` | selection of pair rules | `learning` |
| `TrainingAttempt`, `TrainingGate`, `ConfirmationSplit` | the durable registry, the gate in a process, the split of the log | `learning` |
| `ExtractionBatch` | the batch extraction of facts | `learning` |
| `MindReplay` | the load of the MIND archive | `learning` |
| `*Proofs` | theorems about the module they are named after, or those of a run: `LabProofs` about `AsyncMining`, `BackgroundMining`, `SemanticPreview`, `FrozenModel`, `RelationalProjection`; `LearningProofs` about `TrainingAttempt`, `TrainingGate`, `MiningCache`, `RuleSelection`, `ConfirmationSplit`, `ExtractionBatch`; `ServingProofs` about `ControlPlane`, `ProofCache` | TLAPS |
| `FoldFacts` | lemmas about folds, sums, lists of sets, ranks, recursive functions, for `LabProofs` and `LearningProofs` | TLAPS |
| `MC*` | constants for TLC; `MCLab`, `MCServing`, `MCLearning` also the union of several components, see 3 | |

### AsyncMining

One action per critical section of the coordinator's lock; a thread's position
`pc[w]` is the place in `_run` where it stands between two sections. `capture`,
`build`, `promote`, `dispose` and `should_retrigger` run outside the lock, so
each is an action of its own that returns or (for those in `Fault`) raises.
`epoch`, `attemptEpoch`, `observed` are the request epoch, the attempt's epoch
and the decision epoch. `replacement[w]` follows the object that `build`
returned. Thread identities are reusable; two of them exist so that
`SingleFlight` can fail.

### BackgroundMining and ServedModel

A section under `lab.lock` is one action. `event()` is two (`RecordEvent`,
`FinishEvent`): between counting and `schedule()` the coordinator's own lock lets
its thread step in, while everything that needs `lab.lock` waits (`inEvent`). An
event is appended to `data["events"]` before its rerank and counted after it
(`app/server.py:1290`, `:1335`, `:1340`), so a rerank that raises leaves an event
that is recorded, will be mined, and is never counted (`RecordUncounted`).
`recorded` is the length of the list, `counted` the set of the positions that
reached the counters, kept only for the properties to compare with.
A promotion is two: the swap under the lock, and the close of the replaced
engine after it (`PromoteRetires`). A rule model is abstracted to what it was
mined from: how many of the recorded events, and a configuration. `PendingExact`
and `ModelMatchesState` compare the code's counters with a count of `counted`
up to and behind that point. `compiled[e]` is what the
process of engine `e` has compiled, `None` when it is closed or free.
`close()` is split where it may be overtaken: the mark, the coordinator's close,
the wait, the pruning and the engine's close.

`ServedModel` says it without threads: the model changes in one step, to the
next version, mined from a prefix of the events that is never shorter than
before, under the configuration in force, and never after the close.

### Reasoner and AtomStore

A call is `Call`, `Send`, then one of `Receive`, `ReceiveError`, `SeeExit`,
`Deadline`; after a deadline `Recover` or `RecoverFails`; `StartReplace` and
`Replace` install a snapshot. The worker executes, fails or crashes at any
moment beside them; a worker that hangs is one that takes no step. `executed`
is the snapshot and the mutations the process really has, `bootstrap` and
`journal` what the caller's side believes. `AtomStore` maps `base`, `log`, `up`
and `seen` to the snapshot, the journal, whether a worker is attached, and what
each caller's last answer was computed from.

### FeedSession and FeedBrowser

Every handler is one action. A row is an article with the rule version that
ranked it; a ranking is any order of its rows. `PageOutcomes` and
`FeedbackOutcomes` are the sessions a request may leave behind; `PageFails`,
`RerankFails` and `ProvenanceFails` are the places where the handler raises
after it changed the session already. The requests of `FeedSession` are
arbitrary (any cursor, any accepted position), so its invariants do not rely on
a well-behaved client.

`FeedBrowser` adds one tab. A request has its answer in the same record: none
yet, an error, or the page. A request that the tab aborts or gives up is lost or
stays in `dropped`, from where it may reach the server at any later time.
`shown` (what the tab was ever given) and `failures` are history variables.

### ScorerPool and Gateway

`main` and `monitor` are the places where the main thread and the monitor stand,
each with the worker it is busy with; `close` signals the workers in turn and
then waits for them in turn, without the monitor's lock. `inc` counts the
processes spawned for a worker, `life` says what the last one does, `attached`
whether the supervisor knows it, `restarts` is its generation. In `Gateway` a
request is `queued` until a thread of the executor takes it, then waits to
`connect` to the scorer that was chosen, then for the `reply`; the route of a
session is stored when the reply is passed on. `holder` is the scorer process
that really has a session. A client uses the cookie and the sessions it was
given and nothing else. The state of the scorers is gathered one scorer after
the other. A connection that is kept alive is modelled as one that finishes
late: it keeps its thread (`finishing`).

### ProofCache and ControlPlane

A call to the scorer holds `lab.lock` but is made of several commands to the
proof worker and may raise at each, so each is an action of `ProofCache`:
`Ground`, `ProveFeedback`, `IndexPairs`, and for points and pairs
`PlanChannels`, `Insert`, `PublishProofs`, then `Finish`. `CallRaises` leaves
everything as it is at that place. The store is a sequence of commands of which
`Inserted(c)` looks up those that inserted `c`.

`ControlPlane` has the two locks of a request, `LAB_SWAP_LOCK` and the Lab's,
in the order of the code. A load builds, swaps and retires a Lab (`Construct`,
`Swap`, `Retire`); a comparison or a tuning puts settings in force, mines and
restores (`BeginTrials`, `Try`, `Adopt`, `Restore`). Every build and mine may
raise.

### PairTournament, SemanticPreview, FrozenModel

`PairTournament` computes a ranking as the code does: features of a pair, rules
activated by both of its sides, channels per dependency, midranks per family,
families with equal weight. Margins are integers in place of log odds and
scores are compared over a common denominator, which keeps order and ties.
`Tournament` from nothing is the reference for `GiveFeedback`'s replay.

`SemanticPreview` has a reader per handler thread: the copy of the article under
the Lab's lock, the slow call outside of it under the Lab's preview lock, the
answer after another look at the active Lab. Time passes by `ClockTicks`.

`FrozenModel` follows the command line of a process: load, mine, export, serve,
spawn scorers. A file exists from its link on and survives a loss of power once
its directory was synced, which the program leaves to the system. `lives[f]`
counts how often path `f` was emptied, `sightings` remembers who meant which
model by a path.

### MiningCache and RuleSelection

Supports are sums over cases, so a set of patterns with its counts is modelled by
the bag of the cases that were counted. Every operation runs under `MINER_LOCK`
and is one action, which may stop between two commands (`SyncPlanRaises`,
`CountPlanRaises`). `SyncPlan` inserts and removes by difference and marks the space
dirty before its first command; `CountPlan` chooses between reuse, delta and reset.

`RuleSelection` applies the search for contexts, the calibration in folds, the
quotas and the union-find over dependencies to any sequence of short intervals
of impressions. Its orders of quality are every order that the sort keys leave
open.

### TrainingAttempt, TrainingGate, ConfirmationSplit

`TrainingAttempt` is the command-line experiment: `record` and `artifact` are
what the files hold, `recordLeft` and `artifactLeft` everything they may hold
after a loss of power, which the syncs of the code reduce. `TrainingGate` is the
request in a server: hosts in one process share `spent`. `ConfirmationSplit` is
a pure algorithm: the log is its only variable, and `Split(log)` the translation
of `prepare_training_confirmation`.

### ExtractionBatch, RelationalProjection

Drivers of `ExtractionBatch` follow each other; a killed one leaves its workers,
and `shared` remembers the shards that an old and a new worker had at one time.
In `RelationalProjection` a plan is a context and a relation, its roots are one
per earlier click and shared value; shards of roots are proved by processes, a
bounded number at a time, which may die or answer a root with anything.
`ScopesTrue` and `LedgerExact` compare the published projection with the
evidence itself. The live relational ledger of the server is not in the model:
the served program never fills it (`app/server.py:201`, `:340`, `:1366`).

### MindReplay

`_load_reczoo_archive` row by row. `trainFile` and `validFile` are what was read
so far, for the properties to compare with; `tally` are the counters, `group`
the impression that is being read with what its rows captured, `sample` the
heap. The pops of the heap are given in closed form: an impression stays while
it and the better ones fit (`KeptCases`). A score is abstracted to the counts it
is computed from, so that `Prequential` compares them with a recount of exactly
the rows before the impression.

## 3. Runs and bounds

Three runs check several components each (`MCLab`, `MCServing`, `MCLearning`):
the initial state picks one component and only that one takes steps. The
components of one run share no state that these modules model, so their product
would show nothing more; where components do interact (coordinator and Lab,
session and tab, pool and gateway) they are composed for real. The idle
components rest in an initial state.

| Run | Question | Bounds | Why they are enough |
|---|---|---|---|
| `async` | is the coordinator sound and live under any callbacks? | 2 threads, a plain and a timed waiter, 3 requests, all callbacks may raise | a lost request needs one running attempt, one request during it and one at its end; a third lets a retry fail as well |
| `lab`: `BackgroundMining` | do counters, model, configuration and engines stay together? | 1 thread, 2 engines, 3 events of which any may raise in the rerank, 3 configurations (other mining key; other interval only), version 2 for explicit mines, 2 reconfigurations | a stale promotion needs one build and one change; both kinds of change are there, and an engine is reused after its retirement; uncounted events fall before, into and after a build |
| `lab`: `PairTournament` | is a replay a fresh tournament? | 5 articles, 2 rule versions, a window of 4, 3 events | a page, a skip and a like in every order, with a queue that spans two windows |
| `lab`: `SemanticPreview` | are previews bounded and current? | 2 readers, 3 texts and an empty article, sizes 1 and 3, 2 entries, 3 units of bytes, lifetime 2, 2 Labs, 4 requests | both limits evict; an answer expires; a swap falls into a call |
| `lab`: `FrozenModel` | does a scorer serve what was written? | 2 processes, 1 path, 2 configurations, 2 mines, 2 mishaps | a writer and a reader, a replacement, and a file removed and written again |
| `lab`: `RelationalProjection` | does the projection say what the evidence says? | 5 data sets, histories up to 3 clicks, 192 pieces of evidence, shards of 2 roots, 2 at a time, 1 wrong answer | recent and older clicks, a repeated click, unobserved articles, roots of one plan in two shards |
| `bg_liveness` | is what is due mined, does a close release everything? | 2 events, 2 requests, 1 reconfiguration, everything may raise | a failed build sets `lastError`, which `DueIsMined` exempts and `CloseReleases` does not; a close falls into every stage of a build |
| `bg_prewarm` | *violation*, see 5 | as above, no reconfiguration | |
| `reasoner` | is the worker an atomic store whatever it does? | 2 callers, an add of 2 statements and a removal, 2 snapshots, limits 2 mutations and 3 statements | either limit is reached first by some sequence; each call may be cut at each point |
| `feed_browser` | does the tab's view fit the server's? | 3 articles, pages of 1, 2 sessions, 1 event, 2 rule versions, 1 request given up at a time | one aborted page before, one late request after the feedback; a refresh during the feedback |
| `feed_lost_rows` | *violation*, see 5 | 1 session, 1 event, 1 rule version | |
| `pool` | are sessions served by their scorer, is a dead one replaced, what is left of a closed pool? | 2 scorers, 1 client, 2 faults, 2 sessions, 1 route kept, 1 thread, no queue | the second session evicts the route of the first; a scorer dies during a request and during the close |
| `pool_state`, `pool_reset` | *violations*, see 5 | 2 clients, 2 threads | |
| `serving`: `FeedSession` | is a session sound under arbitrary requests? | 3 articles, pages of 1 and 2, window 2, history 2 pages or 2 rows, 2 sessions, 2 events, 2 rule versions | pages within and across windows, trimming of the delivery tail, recovery of 1 and 2 pages, a reset, a second event after a recovery |
| `serving`: `ProofCache` | are caches true of the store? | 2 articles, 1 pair, 3 channels (one shared), 2 slates, limit 2, 2 rule versions, 1 call that raises | the limit is reached with and without an eviction, with cases that share a proof |
| `serving`: `ControlPlane` | is no Lab lost, no trial left? | 2 clients, 3 Labs, 2 settings, 4 requests | two loads at once, a trial during a load |
| `learning`: `MiningCache` | does an incremental mine count as a full one? | 2 units, at most 2 cases, 3 events, 3 plans of which 2 are cached, 3 mines, 1 that raises | units expire; a plan is evicted and comes back; the mine after the interrupted one |
| `learning`: `RuleSelection` | are rules selected as promised? | 9 impressions in 10 kinds of intervals, caps 1 to 4 | three folds, more rules than the cap, both families |
| `learning`: `TrainingAttempt`, `TrainingGate` | does a cohort decide once? | 2 runs on 2 cohorts and outputs, 2 faults; 2 hosts, 2 cohorts, 3 designs, 3 requests | two runs on one cohort, a power loss after a crash; an adoption after a failure |
| `learning`: `ConfirmationSplit` | is the split without leaks? | all logs of up to 4 events of 3 impressions at 3 times | ties, overlapping impressions, a tail without an outcome |
| `learning`: `ExtractionBatch` | are budgets kept, is nothing paid twice (a shard that an old and a new worker had at once excepted, see 6)? | 5 texts in 2 shards, one empty, 2 drivers, 3 calls, 4 articles, 1 death | a retry, a restart, and an orphaned worker beside a new one |
| `learning`: `MindReplay` | does evidence come from earlier impressions alone, and is what is loaded closed? | 3 articles, 3 and 2 impressions of 2 readers, 5 rows, no limit or 2 or 3 cases and 1 test | an impression larger than the limit, one dropped after it was kept, an unknown article, two readers in one impression, a candidate with two labels |

Deadlock is not checked (`CHECK_DEADLOCK FALSE`) where the bounds stop the
environment (no request left to make), or where the system really rests: a
closed Lab, a reader at the end of the feed, a pool that exited. `Reasoner`
checks it.

The symmetry of the merged runs swaps model values that a module only compares:
engines, readers, processes; clients, slates; mining units, plans. The
components of a run take their values from one set, so one permutation serves
all of them. The runs with liveness use no symmetry.

Each property has mutants in `PROJECT.json`: plausible bugs in mapped
definitions (a missing notify, a test of `>` for `>=`, a close without a wait,
a recovery that leaves the cards open) under which TLC finds that property
violated. A property that is a conjunction has a mutant for its parts.

### Fairness

* `CoordFairSpec`, `FairSpec` of `BackgroundMining`: the mining thread is
  scheduled and its callbacks return (reasoner calls have a deadline and a build
  is finite); a woken waiter runs; `event()` once in its locked section goes on;
  a close once begun goes on. Nobody is obliged to send a request or to close.
* `FairSpec` of `Reasoner`: a caller inside a call runs, and its deadline passes
  (`Deadline` is one of its steps). The worker gets no fairness: it may hang.
* `FairSpec` of `FeedBrowser`: the reader scrolls, the tab handles an answer it
  has, and each request is answered or lost (a connection that hangs is cut by
  the gateway's or the browser's timeout). No fairness for what was given up.
* `FairSpec` of `Gateway`: the monitor thread runs, and a scorer that loads is
  ready or gone some time. Both are demanded only while the gateway rests
  (`GatewayRests`), a weaker demand. Faults, requests and the threads of the
  executor get no fairness.

## 4. Proofs

All for arbitrary constants, from the named `ASSUME`s of the modules. Besides
the ranges of numbers these say that a value for nothing is none of the values
(`NoneAssumption`, `EntryAssumption`), and that data which the code iterates over is
finite (`DataAssumption`, the texts in `ExtractionAssumption`, the features of an
impression in `SelectionAssumption`, which also says that a cap is at least one and
that a predicate is semantic or a context, not both).

`FoldFacts`: a sum over a set, or the list of a set, is defined by the community
modules through a recursive function that `CHOOSE` picks, and the provers know
neither that there is one nor what it computes. The usual induction theorems are
out of reach (their parameter is an operator), so the induction is done on the
data itself: the sets of which a claim is false are collected, `SmallestSet` takes
one of least cardinality, and removing an element of it gives a smaller one.
`SummingExists`, `SummingUnique` and `SumUnfold` give the equation of a sum, and
from it `SumRemove`, `SumMonotone`, `SumInject`, `SumCounts` and the others that the
proofs below cite. `ListExact` says that a set's list has each member once, `Ranks`
that the ranks of n numbers are 1..n. `Recursion` does the same for a function
on 0..n that is defined by its value at the number before, and `Climb` is the
induction over such numbers, as a fact about the set of those that are right.

`LabProofs`, for the coordinator: the invariant is `IndInv`: types, `SingleFlight`,
`NoStrandedWaiter`, `FailuresBounded`, `IdleIsJustified`, and for each thread
`Owned` (a replacement is live exactly where `_run` still has to settle it) and
`Budget` (a thread about to attempt has one request more than there were
failures, and spends it when it fails). `Budget` is what makes `FailuresBounded`
inductive, which bounds two counters that no single step compares.
`NoLeakedBuild` follows from `Owned`; `FateIsFinal` is an action property proved
from the same invariant.

For the Lab: lemma `Composes` shows that every step of the Lab is a
step of the coordinator or leaves it alone, so every theorem above carries over.
`LabInv` adds `Past` (a snapshot is a past state: its sequence is how many of its
events were counted; and if the version did not move then no mine happened),
`Staging` (where the built and the replaced engine are), `Informed` (a decision at the newest epoch knows the threshold) and
`Closing`. `StepLabInv` has one case per action. The refinement `Refinement`
maps a promotion and an explicit mine to `Publish` and everything internal to a
stutter. Uncounted events are recorded there like any other. `CountsSplit`, `CountsGrow`
and `CountsOneMore` are the arithmetic of the counters: a promotion splits the
counted events at its snapshot, a later one splits them no earlier, and an event
that is recorded behind a snapshot does not change what the snapshot counts. These theorems assume `"prewarm" \notin LabFault`: with a prewarm that
raises, coherence is false (section 5).

For the previews: `PreviewIndInv` says what `PreviewsSound` leaves open. `CacheHolds`:
the counter of bytes is the sum over the entries, whichever of them a lookup
expires or an insertion evicts. `Dated`: an entry expires `TTL` after its parse
began. `ReaderHolds`: the article that is being parsed is not in the cache, which
keeps the entries distinct when it is inserted, and only the one lock of the
Lab keeps it true (`OneParser`). `TakenFrom` is the lemma behind all of it: what is
left of a cache is taken from it by position, so no sum grows.

For the projection: `ProjectionIndInv` says where the shards stand (`Waves`: before
the current wave all joined, behind it none begun, whatever the widths) and that a
projection once reduced is `ProjectionDue`, which is computed from the evidence and
not from what the shards answered. `ReducedIsDue` bridges the two: a reducer that
found the roots of every plan covered has read exactly the roots the evidence
gives (`RootsAt`), and one that did not has raised. `DueIsTrue` and `DueIsValid` then
need no trace of the build. That no process outlives it is `AllCollected` and, for
a build that raises, `RetiredHolds`.

For the frozen model: `SightingsHold` says that a file that was sighted says the
same of itself until its path is emptied, `FilesSighted` that every file was
sighted, and `AllBacked` that what a process has read or serves was sighted in the
life of the path in which it read. This history is what relates a process to a
file that has been replaced since.

`ReasonerProofs`: `RInv` says what the caller that holds the lock may rely on at
each point of its call (`Sending`, `Awaiting`, `Replacing`); in `Awaiting` the
worker has executed either exactly the committed state, or that and the command
once, in which case the answer is already in the pipe. From it follow
`WorkerHoldsJournal`, `JournalWithinLimits` and the refinement of `AtomStore`.

`GatewayProofs`: `PoolInv` generalises `CloseLeavesAtMostOne` to every point of
the close: of the workers that the close has waited for already at most one is
alive, and none while the monitor still has a spawn ahead. Its step lemma also
gives `Generations`: a worker gets a running process only with a new
incarnation, and its generation counts up only then. `GInv` adds `RouteInv` (a
route leads to the worker that holds the session, and carries the current
generation while that process runs), `CookieInv` (the cookie of a browser names
the worker of all its sessions) and `RequestInv`. `AffinityKept` then follows
although a route may be forgotten at the limit: the cookie leads to the same
worker. `PutRoutes` and `PopRoutes` are the lemmas about the ordered dictionary
of routes.

`LearningProofs`, for the durable registry: `AInv` describes, next
to the files, the contents that a loss of power may leave of each (`recordLeft`,
`artifactLeft`). `Claimed`: an active run is the only one of its cohort, and its
claim survives a loss of power before the run looks at the cohort. `Reached`: how
far each place in the run has come, up to the report. `Decided`: every decision
that a record holds or may come to hold is that of a run whose artifact is
durable (`Bound`). `AttemptsDurable` needs the last two together: the record on
disk is only one of those that may be left. For the gate of a process, `GateInv`
adds to `CohortSpentOnce` that a cohort is with one request at a time and was
not compared before (`CohortsApart`), and what a request has opened and decided
at each of its places (`Answers`); lemma `GateStep` reduces every action to what
it may touch, one request, its Lab and its cohort.

For the mining caches: `CacheIndInv` adds to `WorkspacesExact` and `SupportsExact`
what a mine that was cut between two commands leaves (`MineHolds`: between the
passes of a plan its space is that of its cases; `DeltasClean`: a delta space neither
populated nor dirty is empty), and which plans are kept for the active model and
for a staged one (`PlansSupported`). That an incremental count equals a full one is
an identity of bags, `counted = Once(cases)`, which holds case by case after every
cut insertion and removal, since the space was marked dirty before its first command. `WindowFacts` proves the retention, which walks from the
newest event backwards, to be the longest suffix of units within both limits.

For the batch extraction: `QuotasHeld` is about the sums of the quotas of a run; each worker
keeps to its own (`JobsKeep`), and the sum over the shards is what `MaxNew` and
`MaxCalls` bound. `DealFits` is the loop that deals articles to shards: in each
turn what is dealt and what is left sum to the budget (`DealHolds`), and the calls
that are left are shared evenly by rank. `OneWorker` says that in a shard never
worked on by two its worker remembers exactly what the file holds, from which
`PaidOnce` follows; `ExportIs` that an export is the union of what finished workers
remember.

For the selection of pair rules: the invariant says only that the log consists of
impressions (`Logged`); what a mine keeps is decided in one step, so the work is in
lemmas about the operators. `RetainFacts` is the loop of `retain_candidates`: its
list grows from the given one within cap and limit, by rules of the family that
repeat nothing before them (`Grown`), and where both leave room each rule of the
family is in it or repeats one that is (`Settled`). `ReservedPass` gives a family
its share, `LastPass` fills up, `SelectFacts` puts the passes together.
`RootingExists` and `RootsShared` are the union-find: a merge of two roots keeps
equal roots equal, so after all pairs those of one dependency are. The order of
quality is any that the model allows; `QualityOrderFacts` says that it lists every
calibrated rule, which needs that a log gives finitely many (`RulesFinite`).

For the cut of the log: `ChronologyFacts` says that the chronology lists the
impressions by rank, each once. `OrderedIsApart` turns the code's comparison of
neighbours into one of all pairs, for which the order of the list does not matter;
`NoLeakage` follows, and `SameChronology`, that logs of the same impressions with the
same times have one chronology. With it a spoiled impression of the tail leaves the build
prefix as it is, and a swap of neighbouring events leaves rows (`AmongSwap`), times and
cohort. The log is any sequence of events, of any length.

`ServingProofs`, for the control plane: `CInv` follows the two ways a request can have a Lab.
`PinsAgree`: a pinned Lab is open, knows its request, and can be brought back
(`Restorable`) to settings its rules fit. `HandsDiffer`: a Lab that is open and
not the active one is in the hands of exactly one load, which will swap or retire
it. `IdleFits`: a Lab nobody has pinned has the rules of its settings, as far as
its last mine let it. `ControlSound` follows. For the proof caches, `PInv` is
`ProofCachesSound` with `CallFits`, what the call that holds the lock has made sure
of: it will skip only cases that are grounded, and at its insertion the templates
and proofs it has planned still fit the limits and every unproved channel is either
pending or has its proof among the facts about to be published. Without it a
publication could overrun a cache or hold a proof nothing was inserted for; no
other call can come between, since every step that clears a cache needs the lock.

`FeedSessionProofs`: `FeedInv` is said of each session by itself, since a request
touches one. `Conserved` says where each article is and that a reader has one card
of it; distinctness of the rows gives the cardinality in `RowsConserved`.
`PagesFit` says of the deliveries that they are contiguous, end at the position of
the session, and have their rows and their cards. That every position of an
unbroken chain lies in one of its pages would be an induction over the chain; the
invariant carries that fact instead, each step re-establishing it for the chain
with a page appended or a prefix dropped. `RowInForce` bounds the version that
ranked a row: exactly that of the session when the session is at the version in
force, and never older than the proofs the article was replayed from. The
sequence lemmas (`Joined`, `Cut`, `SuffixesFit`, `AppendFits`, `RowsBetweenFits`)
are about the operators of the model; `Least` gives the first page behind a
position, since `Min` is a `CHOOSE` whose witness must exist.

`FeedBrowserProofs`: `TabDrivesSessions` shows that every step of the tab and its
network is a request to the sessions or leaves them alone, so the theorems above
hold under the tab. Neither `AcceptedRowsShownUnlessFailed` nor `FeedbackFits` is
inductive, since both speak of a session that page requests change while their
answers, or requests given up long ago, are still on their way. `TabInv` says,
while no event has failed, what relates the two sides. `Lead`: of the pages that
the session handed out at most the last is not accepted by its reader, and all
cards behind the accepted position are of that page. `Behind`: a request that is
still on its way, aborted ones included, names a position that the tab has
accepted already, so it can only ask again for that last page. `Stands`: the cards
up to the accepted position were given to the tab. An answer in flight promises
the same of its session (`PageStands`, `EventStands`), and a tab without a cursor
has one reason only: the session has nothing left (`Rest`). The lemmas carry this
through what the server does for a request whose answer may never arrive
(`Carries`, `Rests`): a page, a recovery, a rerank, a pruning, a raise half way.
`failures = 0` is not an assumption of the proof but of the properties: with a
failed event `feed_lost_rows` refutes the first (section 5). The proof needs
`NoneAssumption`, that the value for nothing is no number, cursor or request.

The type invariants (`TypeOK`, `LabTypeOK`, `GatewayTypeOK`, `AttemptTypeOK`,
`GateTypeOK`, `ControlTypeOK`, `ProofTypeOK`, `FrozenTypeOK`, `FeedTypeOK`, `TabTypeOK`,
and those inside the invariants of the other components),
`FateIsFinal`,
`IdleIsJustified`, `MinedOnlyForward` and `JournalWithinLimits` are proved and not
run again.

Model-checked only:

- every liveness property and everything with ENABLED, outside the prover's reach;
- `ReplayIsTournament` and `ReplaySound`: they relate a result of many nested folds
  (midranks over channels and families; a heap over rows with counters) to a
  recount. `FoldFacts` shows how such an induction is done without an operator
  parameter; what is left is their size.

## 5. Where the code and its documentation disagree

* `bg_prewarm`: `mine()` prewarms the serving channels after the engine was
  replaced and the version bumped. If that raises, the handler restores the old
  metadata, and `/api/config` the old configuration, over the new engine; the
  comment in `mine` (`mining/lab_lifecycle.py:2007-2010`) promises one coherent
  version. `ModelCoherent` is violated.
* `feed_lost_rows`: feedback aborts a running page request and forgets the
  cursor. If the event then fails before the server recovered the aborted page,
  the tab goes on with `?session=` alone, is given the page after it, and counts
  the aborted rows as accepted although they were never shown; no later feedback
  recovers them. `app/lab_serving.py:548-550` says such rows are recoverable.
  While no event fails the property holds (`AcceptedRowsShownUnlessFailed`).
* `pool_state`: the aggregated state compares the whole `dataset` of the
  scorers, of which `train_cases` counts the events each has recorded; after the
  first event they differ and `/api/state` answers 503. `README.md:147-148` says
  it verifies that model, configuration and dataset agree.
* `pool_reset`: feedback for a session of a replaced scorer is refused and its
  route dropped, and a late answer stores a route under the new generation; the
  next page request is then answered "unknown or expired feed session" in place
  of a new stream with `reset=true`, which `README.md:139-140` promises.

Met while modelling, without a run of its own:

* An event whose rerank raises is in `data["events"]` but in no counter
  (`RecordUncounted`). While a build runs the page shows `pending_events` as the
  "event(s) newer than served model" (`web/templates/index.html:309`); it is the
  number of the counted ones among them, which is what `PendingExact` says.
* After a promotion the facts of prewarmed templates are inserted a second time
  (`mining/lab_lifecycle.py:1920`, `app/lab_serving.py:1182-1184`): the caches
  start empty over a store that has them. `CachesCoherent` therefore demands
  single insertion of a candidate's own facts only.
* A like leaves `pair_replay` of the session as it was, and so does a like in
  another session of the reader. The comparisons that a later skip replays were
  then proved for other interests; `ReplayIsTournament` is about the likes they
  were judged under.
* The audit text of the projection (`pipelines/relational_data.py:551`) does not
  name the case in which recent clicks were not observed; the reducer
  (`features/relational_workspace.py:900-915`) answers "unknown" there, which is
  what `ScopesTrue` says.
* A validation impression whose only clicked candidate was first shown without a
  click is left out of the tests, but its history stays the stored one of its
  reader (`adapters/mind.py:1684`, `:1710`); `Closed` allows for that.
* The cache of a replay is written through one fixed `.tmp` name
  (`adapters/mind.py:1965`): of two processes that load on a cold cache together,
  the second `replace` raises and its process ends.
* `CHALLENGER_CONFIG_KEYS` is empty in `app/server.py:314`, so the gate refuses
  every challenger of the served program; the model of the gate has challengers.

## 6. What the models leave out

Which rules are mined, proofs, scores and their order in `FeedSession` (any order
is allowed); audit fields, traces and formatting of states; OS failures to start
a thread; the size of a pipe; time other than as the choice "the deadline
passed" or a tick. `FeedSession` has one user (sessions of two users share nothing
but the rules) and does not join the event to the coordinator. The legacy caller
without an accepted position is in `FeedSession` and not in `FeedBrowser`. In
`SemanticPreview` the last look at the active Lab and the sending of the answer
are one step although the sending is outside `LAB_SWAP_LOCK`. In `FrozenModel` an
operator's removal of a file is durable at once. In `TrainingAttempt` the
registry's directory exists and is durable from the start: the code creates it and
never syncs its parent.

Hazards that no property is about, because no text of the repository says what
should happen or because the model has no such step:

* A shard of the extraction that a worker of a killed driver and a new worker have
  at the same time: each saves the cache that it has read, so records can be lost
  and paid for again. The model has the step, `PaidOnce` exempts such shards
  (`shared`), and so does the theorem `ExtractionSafe`.
* A spawn that raises ends the monitor thread (`app/production_pool.py:157`); the
  model has it, and `ScorerReplaced` exempts a broken monitor.
* `Thread.start()` that raises in `schedule` (`app/async_mining.py:80`) and a
  `should_retrigger` that raises outside of the `try` (`:161`) leave `_running`
  true for ever. In the Lab `should_retrigger` only compares fields.
* `send` to a worker that does not read blocks before the deadline starts
  (`app/reasoner.py:283`); a worker that answered an error is retired without
  recovery (`:315`), and its scorer is never replaced because it still runs.
* A reset that answers a request without a cursor leaves the old cards on the page
  (`web/templates/index.html:503`).
* A gateway that cannot bind its port ends with its scorers running
  (`app/production_pool.py:546-552`); an idle connection that is kept alive holds
  a thread of the executor.
* `serving_model_sha256` of a state stays that of the model the process was
  started from, also after an explicit mine; the preview lock is per Lab, so
  that two parser calls may run after a swap.
* Ephemeral Labs of a gate leave their mining workspaces
  (`evaluation/training_gate.py:1084-1101`); a batch of the extraction that always
  fails is asked for again by each run, and a KeyboardInterrupt leaves its workers.

### Not modelled

* Offline comparisons and ablations (`evaluation/relational_ablation.py`,
  `reasoner_parity.py`, `lab_benchmark.py`'s metrics, and others): single-threaded
  sums of floating-point values, run by hand on files. Their one shared effect, the
  trials on a live Lab, is in `ControlPlane`.
* The raw MIND files (`behaviors.tsv`) and the cache of a loaded replay; the other
  adapters and pipelines: parsing and generation of files, without state that lives
  between calls.
* Text and vector features, prompts, schemas of answers, file formats, hashing:
  data that no property here tells apart.
* Floating-point evidence arithmetic in `core/`: what `RuleSelection` and
  `PairTournament` need of it is done in integers and fractions.
* Command-line probes: drivers and measurements from outside.

## 7. Plan

1. An abstract session router that `Gateway` implements while no scorer dies: a
   session is a stream, and a reset is the only way to another.
2. `ConceptCanonicalization`: the canonical concepts of the extracted facts, as
   operators against a reference definition.

A proof joins the module of a component that a run composes with its own.
