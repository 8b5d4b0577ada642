---------------------------- MODULE ExtractionBatch ----------------------------
(***************************************************************************)
(* The parallel extraction of article facts (cli/llm_extract_batch.py over  *)
(* integrations/llm_article_facts.py): a driver deals its budget out to     *)
(* shards, worker processes pay a provider for batches of articles and save *)
(* every batch in the cache of their shard, and the driver publishes one    *)
(* merged export when every shard has answered.  An article stands for its  *)
(* content: articles with one text have one key.  Drivers follow each       *)
(* other; the workers of a driver that is killed live on.                   *)
(***************************************************************************)
EXTENDS Integers, FiniteSets, SequencesExt

CONSTANTS
    Text,       \* cache keys, in the order of their hashes
    EmptyText,  \* those without any text
    ShardOf,    \* _shard_index, a function of the content
    ExtractRuns,   \* bound on drivers, one after the other
    Workers, BatchSize, MaxNew, MaxCalls,
    MaxDeaths   \* bound on killed drivers and dead workers

Shard == {ShardOf[k] : k \in Text}
ExtractRun == 1..ExtractRuns

ASSUME ExtractionAssumption ==
    /\ Text \subseteq Nat /\ IsFiniteSet(Text) /\ EmptyText \subseteq Text /\ Shard \subseteq Nat
    /\ {Workers, BatchSize} \subseteq Nat \ {0}
    /\ {MaxNew, MaxCalls, ExtractRuns, MaxDeaths} \subseteq Nat

VARIABLES
    shardKeys,  \* the keys in each shard's file
    driver,     \* the current run, what it does, and the shards it has collected
    stop,       \* the stop event of each run
    jobs,       \* the job of each run and shard
    exported,   \* the merged output of each run, or NoExport
    savedBy,    \* the runs that saved a key (history)
    shared,     \* the shards two workers ever had at once (history)
    deaths

extractVars == <<shardKeys, driver, stop, jobs, exported, savedBy, shared, deaths>>

\* The numbers of a set in their order.
Ascending(S) == CHOOSE q \in SetToSeqs(S) : \A i, j \in DOMAIN q : i < j => q[i] < q[j]

NoExport == {-1}
Group(s) == {k \in Text : ShardOf[k] = s}
NoJob == [at |-> "none", new |-> 0, calls |-> 0, memory |-> {}, pending |-> <<>>,
          used |-> 0, batches |-> 0, retried |-> FALSE, done |-> 0]

ExtractInit ==
    /\ shardKeys = [s \in Shard |-> {}]
    /\ driver = [run |-> 0, at |-> "idle", collected |-> {}]
    /\ stop = [r \in ExtractRun |-> FALSE]
    /\ jobs = [r \in ExtractRun |-> [s \in Shard |-> NoJob]]
    /\ exported = [r \in ExtractRun |-> NoExport]
    /\ savedBy = [k \in Text |-> {}]
    /\ shared = {} /\ deaths = 0

-----------------------------------------------------------------------------
(* The plan: whole batches are dealt out round by round, then the calls     *)
(* that are left, for retries, to the shards that got a batch.              *)

Dealt(s, deal) ==
    LET count == Min({BatchSize, Cardinality(Group(s) \ shardKeys[s]) - deal.new[s], deal.articles}) IN
    IF count > 0 /\ deal.calls > 0
    THEN [new |-> [deal.new EXCEPT ![s] = @ + count], paid |-> [deal.paid EXCEPT ![s] = @ + 1],
          articles |-> deal.articles - count, calls |-> deal.calls - 1]
    ELSE deal

Turns == MaxNew * Cardinality(Shard)
Turn(i) == Ascending(Shard)[1 + ((i - 1) % Cardinality(Shard))]

Dealing[i \in 0..Turns] ==
    IF i = 0 THEN [new |-> [s \in Shard |-> 0], paid |-> [s \in Shard |-> 0],
                   articles |-> MaxNew, calls |-> MaxCalls]
    ELSE Dealt(Turn(i), Dealing[i - 1])

Deal == Dealing[Turns]

\* Mutant of Quotas: every active shard may use all the calls that are left.
QuotasShared ==
    [s \in Shard |-> [new |-> Deal.new[s],
                      calls |-> Deal.paid[s] + IF Deal.new[s] > 0 THEN Deal.calls ELSE 0]]

Quotas ==
    LET deal == Deal
        busy == {s \in Shard : deal.new[s] > 0}
        extra(s) == deal.calls \div Cardinality(busy)
                    + IF Cardinality({t \in busy : t < s}) < (deal.calls % Cardinality(busy)) THEN 1 ELSE 0
    IN [s \in Shard |-> [new |-> deal.new[s],
                         calls |-> deal.paid[s] + IF s \in busy THEN extra(s) ELSE 0]]

StartExtraction ==
    /\ driver.at = "idle" /\ driver.run < ExtractRuns
    /\ driver' = [run |-> driver.run + 1, at |-> "collect", collected |-> {}]
    /\ LET quotas == Quotas IN
       jobs' = [jobs EXCEPT ![driver.run + 1] =
                  [s \in Shard |-> [NoJob EXCEPT !.at = "queued", !.new = quotas[s].new, !.calls = quotas[s].calls]]]
    /\ UNCHANGED <<shardKeys, stop, exported, savedBy, shared, deaths>>

-----------------------------------------------------------------------------
(* A worker: _guarded_worker and extract_article_records                    *)

Busy == {"save empty", "next", "call", "save"}
Ended == {"done", "error", "cancelled"}
SetJob(r, s, job) == jobs' = [jobs EXCEPT ![r][s] = job]
JobAt(r, s, at) == SetJob(r, s, [jobs[r][s] EXCEPT !.at = at])

BeginJob(r, s) ==
    /\ jobs[r][s].at = "queued"
    /\ Cardinality({t \in Shard : jobs[r][t].at \in Busy}) < Workers
    /\ IF stop[r]
       THEN JobAt(r, s, "cancelled") /\ UNCHANGED shared
       ELSE LET missing == Ascending(Group(s) \ shardKeys[s]) IN
            /\ SetJob(r, s, [jobs[r][s] EXCEPT !.at = "save empty", !.memory = shardKeys[s],
                               !.pending = SubSeq(missing, 1, Min({jobs[r][s].new, Len(missing)}))])
            /\ shared' = IF \E q \in ExtractRun \ {r} : jobs[q][s].at \in Busy
                         THEN shared \cup {s} ELSE shared
    /\ UNCHANGED <<shardKeys, driver, stop, exported, savedBy, deaths>>

\* The whole file is written from memory, aside, and put in place.
Saves(r, s, keys) ==
    /\ shardKeys' = [shardKeys EXCEPT ![s] = jobs[r][s].memory \cup keys]
    /\ savedBy' = [k \in Text |-> IF k \in keys THEN savedBy[k] \cup {r} ELSE savedBy[k]]

\* Articles without text need no provider.
SaveEmpty(r, s) ==
    LET job == jobs[r][s]
        empty == ToSet(job.pending) \cap EmptyText
    IN
    /\ job.at = "save empty"
    /\ IF empty = {} THEN UNCHANGED <<shardKeys, savedBy>> ELSE Saves(r, s, empty)
    /\ SetJob(r, s, [job EXCEPT !.at = "next", !.memory = @ \cup empty, !.done = Cardinality(empty),
                       !.pending = Ascending(ToSet(@) \ EmptyText)])
    /\ UNCHANGED <<driver, stop, exported, shared, deaths>>

Batch(job) == SubSeq(job.pending, 1, Min({BatchSize, Len(job.pending)}))

NextBatch(r, s) ==
    LET job == jobs[r][s] IN
    /\ job.at = "next"
    /\ SetJob(r, s,
         IF job.pending = <<>> \/ job.used >= job.calls \/ job.batches >= job.calls
         THEN [job EXCEPT !.at = "done"]
         ELSE IF stop[r] THEN [job EXCEPT !.at = "error"]
         ELSE [job EXCEPT !.at = "call", !.batches = @ + 1, !.retried = FALSE])
    /\ UNCHANGED <<shardKeys, driver, stop, exported, savedBy, shared, deaths>>

\* Mutant of Translate: the retry is not charged to the budget.
TranslateFreely(r, s) ==
    LET job == jobs[r][s] IN
    /\ job.at = "call"
    /\ \E reply \in {"parsed", "malformed", "failed"} :
         SetJob(r, s, [job EXCEPT !.used = @ + 1,
                         !.retried = TRUE,
                         !.at = IF reply = "parsed" THEN "save"
                                ELSE IF reply = "malformed" /\ ~job.retried THEN "call"
                                ELSE "error"])
    /\ UNCHANGED <<shardKeys, driver, stop, exported, savedBy, shared, deaths>>

\* One provider call.  A malformed answer is asked for again once, within the
\* budget; anything else that goes wrong ends the shard.
Translate(r, s) ==
    LET job == jobs[r][s] IN
    /\ job.at = "call"
    /\ \E reply \in {"parsed", "malformed", "failed"} :
         SetJob(r, s, [job EXCEPT !.used = @ + 1,
                         !.retried = TRUE,
                         !.at = IF reply = "parsed" THEN "save"
                                ELSE IF reply = "malformed" /\ ~job.retried /\ job.used + 1 < job.calls THEN "call"
                                ELSE "error"])
    /\ UNCHANGED <<shardKeys, driver, stop, exported, savedBy, shared, deaths>>

\* The batch is saved before the progress callback may see the stop event.
SaveBatch(r, s) ==
    LET job == jobs[r][s]
        keys == ToSet(Batch(job))
    IN
    /\ job.at = "save"
    /\ Saves(r, s, keys)
    /\ SetJob(r, s, [job EXCEPT !.at = IF stop[r] THEN "error" ELSE "next",
                       !.memory = @ \cup keys, !.done = @ + Cardinality(keys),
                       !.pending = SubSeq(@, Cardinality(keys) + 1, Len(@))])
    /\ UNCHANGED <<driver, stop, exported, shared, deaths>>

-----------------------------------------------------------------------------
(* The driver                                                              *)

BudgetKept(job) == job.done <= job.new /\ job.used <= job.calls

\* The first failure stops the others and cancels what has not begun, but for
\* the jobs already handed to the workers: those see the stop when they begin.
StopAll(r) ==
    /\ stop' = [stop EXCEPT ![r] = TRUE]
    /\ \E handed \in SUBSET {s \in Shard : jobs[r][s].at = "queued"} :
         jobs' = [jobs EXCEPT ![r] = [s \in Shard |->
                    IF jobs[r][s].at = "queued" /\ s \notin handed
                    THEN [jobs[r][s] EXCEPT !.at = "cancelled"] ELSE jobs[r][s]]]
    /\ driver' = [driver EXCEPT !.at = "drain"]

\* Mutant of Collect: a cancelled or failed shard counts as one without records.
CollectAny(s) ==
    /\ driver.at = "collect" /\ s \notin driver.collected
    /\ jobs[driver.run][s].at \in Ended
    /\ driver' = [driver EXCEPT !.collected = @ \cup {s}]
    /\ UNCHANGED <<shardKeys, stop, jobs, exported, savedBy, shared, deaths>>

Collect(s) ==
    /\ driver.at = "collect" /\ s \notin driver.collected
    /\ jobs[driver.run][s].at \in Ended
    /\ IF jobs[driver.run][s].at = "done" /\ BudgetKept(jobs[driver.run][s])
       THEN driver' = [driver EXCEPT !.collected = @ \cup {s}] /\ UNCHANGED <<stop, jobs>>
       ELSE StopAll(driver.run)
    /\ UNCHANGED <<shardKeys, exported, savedBy, shared, deaths>>

\* Every shard has succeeded: the export is published, and never replaced.
Export ==
    /\ driver.at = "collect" /\ driver.collected = Shard
    /\ exported' = [exported EXCEPT ![driver.run] = UNION {jobs[driver.run][s].memory : s \in Shard}]
    /\ driver' = [driver EXCEPT !.at = "idle"]
    /\ UNCHANGED <<shardKeys, stop, jobs, savedBy, shared, deaths>>

\* What was in flight finishes before the failure is reported.
Drain ==
    /\ driver.at = "drain"
    /\ \A s \in Shard : jobs[driver.run][s].at \in Ended
    /\ driver' = [driver EXCEPT !.at = "idle"]
    /\ UNCHANGED <<shardKeys, stop, jobs, exported, savedBy, shared, deaths>>

-----------------------------------------------------------------------------
(* Deaths                                                                  *)

\* The workers of a killed driver go on, with what was queued for them too.
DriverDies ==
    /\ driver.at # "idle"
    /\ deaths < MaxDeaths /\ deaths' = deaths + 1
    /\ driver' = [driver EXCEPT !.at = "idle"]
    /\ UNCHANGED <<shardKeys, stop, jobs, exported, savedBy, shared>>

\* A process pool that lost a worker ends the others; without a driver the
\* others do not notice.
WorkerDies(r, s) ==
    /\ jobs[r][s].at \in Busy
    /\ deaths < MaxDeaths /\ deaths' = deaths + 1
    /\ IF driver.run = r /\ driver.at # "idle"
       THEN jobs' = [jobs EXCEPT ![r] = [t \in Shard |-> IF jobs[r][t].at \in Ended THEN jobs[r][t]
                                                         ELSE [jobs[r][t] EXCEPT !.at = "error"]]]
       ELSE JobAt(r, s, "error")
    /\ UNCHANGED <<shardKeys, driver, stop, exported, savedBy, shared>>

ExtractNext ==
    \/ StartExtraction \/ Export \/ Drain \/ DriverDies
    \/ \E s \in Shard : Collect(s)
    \/ \E r \in ExtractRun, s \in Shard :
         \/ BeginJob(r, s) \/ SaveEmpty(r, s) \/ NextBatch(r, s) \/ Translate(r, s)
         \/ SaveBatch(r, s) \/ WorkerDies(r, s)

ExtractSpec == ExtractInit /\ [][ExtractNext]_extractVars

-----------------------------------------------------------------------------
(* cli/llm_extract_batch.py:5: "All article and provider-call limits are    *)
(* totals across workers", with retries, a stop and dead workers included.  *)
BudgetHeld ==
    \A r \in ExtractRun :
      /\ SumFunction([s \in Shard |-> jobs[r][s].used]) <= MaxCalls
      /\ SumFunction([s \in Shard |-> jobs[r][s].done]) <= MaxNew

(* A record that reached the cache of its shard stays there and is not paid *)
(* for again, across failures, restarts and the workers of a killed driver, *)
(* unless such a worker and a new one had the shard at the same time.       *)
PaidOnce ==
    \A k \in Text : ShardOf[k] \notin shared =>
      /\ Cardinality(savedBy[k]) <= 1
      /\ savedBy[k] # {} <=> k \in shardKeys[ShardOf[k]]

(* An export holds what every one of its shards had: it is published only   *)
(* after all of them succeeded, with all that its run has paid for, and its *)
(* records are in the caches it was merged from.                            *)
ExportWhole ==
    \A r \in ExtractRun : exported[r] # NoExport =>
      /\ \A s \in Shard : jobs[r][s].at = "done"
      /\ \A k \in Text :
           /\ r \in savedBy[k] => k \in exported[r]
           /\ k \in exported[r] /\ ShardOf[k] \notin shared => k \in shardKeys[ShardOf[k]]

(* cli/llm_extract_batch.py: budgets, caches and exports of a batch, over   *)
(* its retries, its restarts and its dead workers.                          *)
ExtractionSound == BudgetHeld /\ PaidOnce /\ ExportWhole
=============================================================================
