------------------------- MODULE RelationalProjection -------------------------
(***************************************************************************)
(* The offline projection of relational evidence, build_relational_projec- *)
(* tion of pipelines/relational_data.py with the plans, the reducers and   *)
(* the validator of features/relational_workspace.py.  For each recorded   *)
(* context (a user, a candidate, the user's clicks before it, oldest       *)
(* first) and each family of evidence, it asks the prover for one proof    *)
(* root per click and value that the click shares with the candidate, in   *)
(* shards that processes of their own prove, several at a time, and        *)
(* reduces the proofs to a scope and to one ledger record per click.       *)
(*                                                                         *)
(* Hashes of identifiers are the tuples they are computed from.  A proof   *)
(* is the roots it mentions and the facts and rules it cites; its path     *)
(* tells alternative proofs of a root apart.  The prover may answer a root *)
(* with anything, a bounded number of times.                               *)
(***************************************************************************)
EXTENDS Naturals, FiniteSets, SequencesExt

CONSTANTS
    EvidenceOf,     \* evidence a data set may hold about its articles
    Unobserved,     \* an article without annotations or entities
    DataSet,        \* sets of contexts a data set may hold
    RecentHistory,  \* RECENT_HISTORY_POSITIONS
    QueryBatch,     \* query_batch_size
    ShardSize,      \* shard_root_size
    ShardWorkers,   \* shard_workers
    MaxWrong        \* bound: roots the prover answers wrongly

ASSUME ProjectionAssumption ==
    {RecentHistory, QueryBatch, ShardSize, ShardWorkers} \subseteq Nat \ {0}

VARIABLES
    evidence,   \* per family and article: its values, or Unobserved
    contexts,   \* the contexts of the data set
    queries,    \* query_roots: the proof roots, in the order they are asked
    wrong,      \* wrong answers so far
    shard,      \* the process of each shard: its state and its answers
    collected,  \* shards the parent has collected
    build,      \* "proving", "reduced", "published", "raised", "refused"
    projection  \* scopes, references and ledger

projectionVars ==
    <<evidence, contexts, queries, wrong, shard, collected, build, projection>>

Relation == {"entity", "concept"}

\* An article has finitely many values, and a data set finitely many contexts.
ASSUME DataAssumption ==
    \A data \in DataSet :
      /\ IsFiniteSet(data)
      /\ \A c \in data :
           /\ Len(c.history) \in Nat /\ DOMAIN c.history = 1..Len(c.history)
           /\ \A found \in EvidenceOf, f \in Relation :
                found[f][c.candidate] # Unobserved => IsFiniteSet(found[f][c.candidate])

-----------------------------------------------------------------------------
(* Plans: build_relational_proof_plan, build_concept_relational_proof_plan *)

Plans == Relation \X contexts

Seen(plan, article) == evidence[plan[1]][article] # Unobserved

Positions(plan) == DOMAIN plan[2].history

IsRecent(plan, p) == p > Len(plan[2].history) - RecentHistory

MatchedValues(plan, p) ==
    IF Seen(plan, plan[2].candidate) /\ Seen(plan, plan[2].history[p])
    THEN evidence[plan[1]][plan[2].candidate] \cap
         evidence[plan[1]][plan[2].history[p]]
    ELSE {}

CompleteAt(plan, positions) ==
    /\ Seen(plan, plan[2].candidate)
    /\ \A p \in positions : Seen(plan, plan[2].history[p])

Root(plan, p, value) == [plan |-> plan, position |-> p, value |-> value]

ProofRoots(plan) ==
    UNION {{Root(plan, p, v) : v \in MatchedValues(plan, p)} : p \in Positions(plan)}

QueryRoots ==
    FoldSet(LAMBDA r, s : Append(s, r), <<>>,
            UNION {ProofRoots(plan) : plan \in Plans})

\* _root_batch_shards: whole query batches, as many as the budget holds
RootsPerShard ==
    LET batches == ShardSize \div QueryBatch
    IN  QueryBatch * (IF batches = 0 THEN 1 ELSE batches)

ShardCount == (Len(queries) + RootsPerShard - 1) \div RootsPerShard

RootsOfShard(i) ==
    {queries[k] : k \in {j \in DOMAIN queries :
        (j - 1) \div RootsPerShard = i - 1}}

-----------------------------------------------------------------------------
(* What a proof must cite: both rules (three for a concept), the fact of   *)
(* the case, the fact of the click and the facts (anchored mappings for a  *)
(* concept) that give the value to the candidate and to the clicked        *)
(* article.                                                                *)

Needed(root) ==
    {<<"rules", root.plan[1]>>, <<"case", root.plan>>,
     <<"click", root.plan, root.position>>,
     <<"fact", root.plan[1], root.plan[2].candidate, root.value>>,
     <<"fact", root.plan[1], root.plan[2].history[root.position], root.value>>}

\* one of the alternative proofs of a root
Proof(root, path) == [roots |-> {root}, facts |-> Needed(root), path |-> path]

\* nothing; an asserted conclusion; a proof without the click; a proof of
\* another root; a proof that names two roots; a right one and a foreign one
WrongAnswers(root) ==
    {{}, {[Proof(root, 1) EXCEPT !.facts = {}]},
     {[Proof(root, 1) EXCEPT !.facts = @ \ {<<"click", root.plan, root.position>>}]}}
    \cup UNION {{{Proof(other, 1)}, {Proof(root, 1), Proof(other, 1)},
                 {[Proof(root, 1) EXCEPT !.roots = {root, other}]}} :
                other \in Range(queries) \ {root}}

-----------------------------------------------------------------------------
(* The shards, each in a spawned process, in waves of ShardWorkers         *)

NoAnswers == <<>>

ProjectionInit ==
    /\ evidence \in EvidenceOf
    /\ contexts \in DataSet
    /\ queries = QueryRoots
    /\ wrong = 0
    /\ shard = [i \in 1..ShardCount |-> [at |-> "waiting", answers |-> NoAnswers]]
    /\ collected = 0
    /\ build = "proving"
    /\ projection = NoAnswers

WaveStart == ShardWorkers * (collected \div ShardWorkers)

Wave == {i \in 1..ShardCount : WaveStart < i /\ i <= WaveStart + ShardWorkers}

\* Process.start, for each shard of the wave before any is collected
StartShard ==
    /\ build = "proving"
    /\ \E i \in Wave :
        /\ shard[i].at = "waiting"
        /\ \A j \in Wave : j < i => shard[j].at # "waiting"
        /\ shard' = [shard EXCEPT ![i].at = "running"]
    /\ UNCHANGED <<evidence, contexts, queries, wrong, collected, build, projection>>

\* the handler of BaseException: every active process is terminated, joined
Retired == [i \in DOMAIN shard |->
    IF i \in Wave /\ shard[i].at # "waiting"
    THEN [at |-> "joined", answers |-> NoAnswers] ELSE shard[i]]

StartShardRaises ==
    /\ build = "proving"
    /\ \E i \in Wave : shard[i].at = "waiting"
    /\ wrong < MaxWrong
    /\ wrong' = wrong + 1
    /\ build' = "raised"
    /\ shard' = Retired
    /\ UNCHANGED <<evidence, contexts, queries, collected, projection>>

\* _run_reasoner_shard answers each of its roots; it raises when a root has
\* no proof
ShardAnswers(i) ==
    /\ shard[i].at = "running"
    /\ \/ /\ \E paths \in {1, 2} :
                shard' = [shard EXCEPT ![i] = [at |-> "answered", answers |->
                    [r \in RootsOfShard(i) |->
                        {Proof(r, path) : path \in 1..paths}]]]
          /\ UNCHANGED wrong
       \/ /\ wrong < MaxWrong
          /\ wrong' = wrong + 1
          /\ \E r \in RootsOfShard(i) : \E answer \in WrongAnswers(r) :
                shard' = [shard EXCEPT ![i] =
                    IF answer = {} THEN [at |-> "error", answers |-> NoAnswers]
                    ELSE [at |-> "answered", answers |->
                        [x \in RootsOfShard(i) |->
                            IF x = r THEN answer ELSE {Proof(x, 1)}]]]
    /\ UNCHANGED <<evidence, contexts, queries, collected, build, projection>>

\* the process of a shard ends before it has sent anything
ShardDies(i) ==
    /\ shard[i].at = "running"
    /\ wrong < MaxWrong
    /\ wrong' = wrong + 1
    /\ shard' = [shard EXCEPT ![i].at = "dead"]
    /\ UNCHANGED <<evidence, contexts, queries, collected, build, projection>>

NextCollected ==
    /\ build = "proving"
    /\ collected < ShardCount
    /\ \A i \in Wave : shard[i].at # "waiting"

CollectShard ==
    /\ NextCollected
    /\ shard[collected + 1].at = "answered"
    /\ shard' = [shard EXCEPT ![collected + 1].at = "joined"]
    /\ collected' = collected + 1
    /\ UNCHANGED <<evidence, contexts, queries, wrong, build, projection>>

CollectRaises ==
    /\ NextCollected
    /\ shard[collected + 1].at \in {"error", "dead"}
    /\ build' = "raised"
    /\ shard' = Retired
    /\ UNCHANGED <<evidence, contexts, queries, wrong, collected, projection>>

-----------------------------------------------------------------------------
(* Reduction: reduce_relational_proofs, reduce_concept_relational_proofs   *)

ProofsOf(plan) == UNION {UNION {shard[i].answers[r] :
    r \in {x \in DOMAIN shard[i].answers : x.plan = plan}} : i \in DOMAIN shard}

\* the roots of the plan's case that a proof mentions
Mentioned(plan, proof) == {r \in proof.roots : r.plan = plan}

Reported(plan) == UNION {Mentioned(plan, proof) : proof \in ProofsOf(plan)}

\* A bug: whatever is reported is taken, as long as it was asked for.
CoveredInPart(plan) == Reported(plan) \subseteq ProofRoots(plan)

\* _require_reported_root_coverage, _require_complete_proof_roots
Covered(plan) == Reported(plan) = ProofRoots(plan)

\* _proof_origins, _concept_proof_origins
ProofsHold(plan) ==
    \A proof \in ProofsOf(plan) :
        \E r \in ProofRoots(plan) :
            /\ Mentioned(plan, proof) = {r}
            /\ Needed(r) \subseteq proof.facts

Proven(plan) == {r.position : r \in Reported(plan)}

Recents(plan) == {p \in Positions(plan) : IsRecent(plan, p)}

\* A bug: an older proof is enough for "older".
ScopeOfProofs(plan) ==
    IF Proven(plan) \cap Recents(plan) # {} THEN "recent"
    ELSE IF Proven(plan) # {} THEN "older"
    ELSE IF CompleteAt(plan, Positions(plan)) THEN "none" ELSE "unknown"

Scope(plan) ==
    IF Proven(plan) \cap Recents(plan) # {} THEN "recent"
    ELSE IF Proven(plan) # {}
    THEN IF CompleteAt(plan, Recents(plan)) THEN "older" ELSE "unknown"
    ELSE IF CompleteAt(plan, Positions(plan)) THEN "none" ELSE "unknown"

\* one record per click, whatever the number of its alternative proofs; the
\* key of the click is that of the context, the same in both families
Record(plan, p) ==
    [plan |-> plan, position |-> p, recent |-> IsRecent(plan, p),
     dependency |-> <<plan[2].user, plan[2].history, p>>,
     values |-> {r.value : r \in {x \in Reported(plan) : x.position = p}}]

RetainedScopes(plan) ==
    IF Scope(plan) \in {"recent", "older"}
    THEN {Record(plan, p) : p \in Proven(plan)} ELSE {}

Reduce ==
    /\ build = "proving"
    /\ collected = ShardCount
    /\ \A plan \in Plans : Covered(plan) /\ ProofsHold(plan)
    /\ projection' = [scope |-> [plan \in Plans |-> Scope(plan)],
                      ledger |-> UNION {RetainedScopes(plan) : plan \in Plans},
                      roots |-> Len(queries)]
    /\ build' = "reduced"
    /\ UNCHANGED <<evidence, contexts, queries, wrong, shard, collected>>

ReduceRaises ==
    /\ build = "proving"
    /\ collected = ShardCount
    /\ \E plan \in Plans : ~(Covered(plan) /\ ProofsHold(plan))
    /\ build' = "raised"
    /\ UNCHANGED <<evidence, contexts, queries, wrong, shard, collected, projection>>

-----------------------------------------------------------------------------
(* validate_relational_projection, which plans the data anew and audits it *)

References(plan) == {r \in projection.ledger : r.plan = plan}

\* _record_matches_context
MatchesContext(record, plan) ==
    /\ record.position \in Positions(plan)
    /\ record.recent = IsRecent(plan, record.position)
    /\ record.dependency = <<plan[2].user, plan[2].history, record.position>>

ScopeAgrees(plan) ==
    CASE \E r \in References(plan) : r.recent -> projection.scope[plan] = "recent"
      [] /\ References(plan) # {}
         /\ \A r \in References(plan) : ~r.recent -> projection.scope[plan] = "older"
      [] OTHER -> projection.scope[plan] \in {"none", "unknown"}

ValidProjection ==
    /\ projection.roots = Cardinality(UNION {ProofRoots(plan) : plan \in Plans})
    /\ \A plan \in Plans :
        /\ ScopeAgrees(plan)
        /\ \A r \in References(plan) : MatchesContext(r, plan) /\ r.values # {}
        \* relational_safety_audit: no click counts twice
        /\ Cardinality({r.dependency : r \in References(plan)}) =
               Cardinality(References(plan))
    /\ \A r \in projection.ledger : r.plan \in Plans

Validate ==
    /\ build = "reduced"
    /\ build' = IF ValidProjection THEN "published" ELSE "refused"
    /\ UNCHANGED <<evidence, contexts, queries, wrong, shard, collected, projection>>

ProjectionNext ==
    \/ StartShard \/ StartShardRaises
    \/ \E i \in DOMAIN shard : ShardAnswers(i) \/ ShardDies(i)
    \/ CollectShard \/ CollectRaises
    \/ Reduce \/ ReduceRaises \/ Validate

ProjectionSpec == ProjectionInit /\ [][ProjectionNext]_projectionVars

-----------------------------------------------------------------------------
(* A click shares a value with the candidate. *)
Shares(relation, context, p) ==
    LET a == evidence[relation][context.candidate]
        b == evidence[relation][context.history[p]]
    IN  a # Unobserved /\ b # Unobserved /\ a \cap b # {}

\* A published scope says what the evidence of the context says: "recent" and
\* "older" where a click shares a value, "older" only when each recent click
\* was observed and "none" only when everything was, whatever the prover
\* answered and whichever shard failed (the "recency" policy of
\* pipelines/relational_data.py:551).
ScopesTrue ==
    build = "published" =>
        \A f \in Relation, c \in contexts :
            LET scope   == projection.scope[<<f, c>>]
                clicks  == DOMAIN c.history
                last    == {p \in clicks : p + RecentHistory > Len(c.history)}
                sharing == {p \in clicks : Shares(f, c, p)}
                seen(P) == /\ evidence[f][c.candidate] # Unobserved
                           /\ \A p \in P : evidence[f][c.history[p]] # Unobserved
            IN  /\ scope = "recent" <=> sharing \cap last # {}
                /\ scope = "older" <=> /\ sharing # {}
                                       /\ sharing \cap last = {}
                                       /\ seen(last)
                /\ scope = "none" <=> seen(clicks) /\ sharing = {}

\* The ledger keeps one record for each click that a positive scope rests on,
\* with every value it shares, and none for another click ("one evidence
\* record per history position and relation", pipelines/relational_data.py:552).
LedgerExact ==
    build = "published" =>
        \A f \in Relation, c \in contexts :
            {<<r.position, r.values>> :
                r \in {x \in projection.ledger : x.plan = <<f, c>>}} =
            IF projection.scope[<<f, c>>] \in {"recent", "older"}
            THEN {<<p, evidence[f][c.candidate] \cap evidence[f][c.history[p]]>> :
                    p \in {q \in DOMAIN c.history : Shares(f, c, q)}}
            ELSE {}

\* The validator accepts what the projection builds, and no process of a
\* shard outlives the build, even one that raises.
ProjectionSound ==
    /\ ScopesTrue
    /\ LedgerExact
    /\ build # "refused"
    /\ build # "proving" => \A i \in DOMAIN shard : shard[i].at \in {"waiting", "joined"}
=============================================================================
