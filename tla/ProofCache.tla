------------------------------ MODULE ProofCache ------------------------------
(***************************************************************************)
(* Scoring in the Lab (app/server.py, ranking/lab_pairwise.py,             *)
(* app/lab_serving.py): what it remembers of the proofs it asked for, over *)
(* the atom store of its proof worker.  A candidate, or a pair of them, is *)
(* a case; its attributes activate some of the mined channels.  A channel  *)
(* is proved once, on a template whose facts are inserted into the store,  *)
(* and the proofs of a case are those of its channels.  A candidate that   *)
(* matches a recent skip has facts and a proof of its own.                 *)
(*                                                                         *)
(* A call holds lab.lock from beginning to end, but it is made of many     *)
(* commands to the worker and may raise at each of them, so each is a step *)
(* here.  Proofs, scores and the profiling records are left out.           *)
(***************************************************************************)
EXTENDS Integers, FiniteSets, SequencesExt

CONSTANTS
    PointCase, PairCase,        \* candidate_case and pair_candidate_case
    PointChannel, PairChannel,  \* mined rules, each with one proof channel
    Active,                     \* Active[case]: the channels it activates
    WarmPoint, WarmPair,        \* the cases of _prewarm_serving_channels
    Slate,                      \* candidate lists that are asked for
    CacheLimit,                 \* max_proof_cache_entries
    RankLimit,                  \* entries of feed_cache
    NoSlate,                    \* the prewarming calls rank no candidates
    NoRules,                    \* nothing mined yet
    MaxRules,                   \* bound on the rule versions
    MaxProfile,                 \* bound on events and settings changed
    MaxFailures                 \* bound on the calls that raise

Channel == PointChannel \cup PairChannel
Cases(f) == IF f = "point" THEN PointCase ELSE PairCase
Family == {"point", "pair"}

ASSUME CaseAssumption ==
    /\ Active \in [PointCase \cup PairCase -> SUBSET Channel]
    /\ \A c \in PointCase : Active[c] \subseteq PointChannel
    /\ \A c \in PairCase : Active[c] \subseteq PairChannel
    /\ WarmPoint \subseteq PointCase /\ WarmPair \subseteq PairCase
    /\ IsFiniteSet(PointCase \cup PairCase \cup Channel)
ASSUME CacheAssumption ==
    /\ PointCase \cap PairCase = {} /\ Channel \cap (PointCase \cup PairCase) = {}
    /\ CacheLimit \in Nat \ {0} /\ RankLimit \in Nat \ {0}
    /\ MaxRules \in Nat /\ MaxProfile \in Nat /\ MaxFailures \in Nat
    /\ NoRules \notin Nat

VARIABLES
    rules,      \* the rule snapshot of the store, self.version
    atoms,      \* batches of facts in the store, beyond the rules
    storeUp,    \* the proof worker accepts commands
    loaded,     \* _loaded_point_channels, _loaded_pair_channels
    proved,     \* _point_channel_proof_cache, _pair_channel_proof_cache
    cached,     \* _proof_cache and _pair_proof_cache, by case
    grounded,   \* _loaded_candidates
    skipProofs, \* the live-feedback entries of _proof_cache
    indexed,    \* _pair_case_attrs
    margins,    \* _pair_margin_cache
    ranked,     \* feed_cache, oldest first
    profile,    \* events and setting changes so far
    failures,   \* calls that raised so far
    call        \* the call that holds the lock

atomVars  == <<rules, atoms, storeUp>>
cacheVars == <<loaded, proved, cached, grounded, skipProofs, indexed, margins>>
proofVars == <<atomVars, cacheVars, ranked, profile, failures, call>>

Worker == INSTANCE AtomStore WITH
    Caller <- {}, seen <- <<>>, Mutation <- SUBSET (Channel \cup PointCase), Snapshot <- 1..MaxRules,
    None <- NoRules, base <- rules, log <- atoms, up <- storeUp

Inserted(x) == {i \in DOMAIN atoms : x \in atoms[i]}

NoCall == [at |-> "idle", slate |-> NoSlate, point |-> {}, pair |-> {}, skips |-> {}, pending |-> {}]
NoProofs == [f \in Family |-> {}]

ProofInit ==
    /\ Worker!Init
    /\ loaded = NoProofs /\ proved = NoProofs /\ cached = NoProofs
    /\ grounded = {} /\ skipProofs = {} /\ indexed = {} /\ margins = {}
    /\ ranked = <<>> /\ profile = 0 /\ failures = 0
    /\ call = NoCall

-----------------------------------------------------------------------------
(* New rules                                                               *)

\* Mutant of ForgetProofs: what was loaded into the store before is believed still.
ForgetKeepsLoaded ==
    /\ proved' = NoProofs /\ cached' = NoProofs
    /\ grounded' = {} /\ skipProofs' = {} /\ indexed' = {} /\ margins' = {}
    /\ ranked' = <<>>
    /\ UNCHANGED loaded

ForgetProofs ==
    /\ loaded' = NoProofs /\ proved' = NoProofs /\ cached' = NoProofs
    /\ grounded' = {} /\ skipProofs' = {} /\ indexed' = {} /\ margins' = {}
    /\ ranked' = <<>>

NextRules == IF rules = NoRules THEN 1 ELSE rules + 1

\* An explicit mine or a loaded model: a fresh store, then the prewarming.
MineAndWarm ==
    /\ call = NoCall
    /\ NextRules \in 1..MaxRules
    /\ Worker!Install(NextRules)
    /\ ForgetProofs
    /\ call' = [NoCall EXCEPT !.at = "point", !.point = WarmPoint, !.pair = WarmPair]
    /\ UNCHANGED <<profile, failures>>

\* A background build is adopted with its store, in which it prewarmed its own
\* channels; what it remembered of them is not.
AdoptEngine ==
    /\ call = NoCall
    /\ rules # NoRules /\ NextRules \in 1..MaxRules
    /\ rules' = NextRules
    /\ atoms' = <<UNION {Active[c] : c \in WarmPoint}, UNION {Active[c] : c \in WarmPair}>>
    /\ storeUp' = TRUE
    /\ ForgetProofs
    /\ UNCHANGED <<profile, failures, call>>

-----------------------------------------------------------------------------
(* A call                                                                  *)

\* The worker's answer is late, an error, or not a proof; or a cache is full.
\* Late answers are recovered from, errors retire the worker.
CallRaises ==
    /\ call # NoCall
    /\ failures < MaxFailures
    /\ failures' = failures + 1
    /\ call' = NoCall
    /\ storeUp' \in {storeUp, FALSE}
    /\ UNCHANGED <<rules, atoms, cacheVars, ranked, profile>>

Overflows(size, more) == size + Cardinality(more) > CacheLimit

Hit(slate) == {i \in DOMAIN ranked : ranked[i].slate = slate}

\* score(): the ranking is served from feed_cache and becomes its newest entry.
ScoreHit(slate) ==
    /\ call = NoCall
    /\ \E i \in Hit(slate) :
         ranked' = Append(RemoveAt(ranked, i), ranked[i])
    /\ UNCHANGED <<atomVars, cacheVars, profile, failures, call>>

\* Or it is computed; what the candidates' cases are depends on the profile.
ScoreMiss(slate, point, pair, skips) ==
    /\ call = NoCall
    /\ rules # NoRules
    /\ Hit(slate) = {}
    /\ skips \subseteq point
    /\ call' = [NoCall EXCEPT !.at = "ground", !.slate = slate, !.point = point,
                            !.pair = pair, !.skips = skips]
    /\ UNCHANGED <<atomVars, cacheVars, ranked, profile, failures>>

\* _ensure_candidate_specs: all new facts in one command.
Ground ==
    LET missing == call.skips \ grounded IN
    /\ call.at = "ground"
    /\ ~Overflows(Cardinality(grounded), missing)
    /\ IF missing = {} THEN UNCHANGED atomVars ELSE Worker!Accept(missing)
    /\ grounded' = grounded \cup missing
    /\ call' = [call EXCEPT !.at = "point"]
    /\ UNCHANGED <<loaded, proved, cached, skipProofs, indexed, margins, ranked, profile,
                   failures>>

\* The cases without proofs, their channels, and those never proved.
Missing(f) == call[f] \ cached[f]
Templates(f) == UNION {Active[c] : c \in Missing(f)}
Unproved(f) == Templates(f) \ proved[f]

\* The point cache also holds the entries of live feedback.
Size(f) == Cardinality(cached[f]) + IF f = "point" THEN Cardinality(skipProofs) ELSE 0

\* The templates of a family are being inserted and proved.
Inserting(f) == IF f = "point" THEN "insert point" ELSE "insert pair"

\* Both limits are tested before anything is inserted.
PlanChannels(f) ==
    /\ call.at = f
    /\ ~Overflows(Size(f), Missing(f))
    /\ ~Overflows(Cardinality(proved[f]), Unproved(f))
    /\ call' = [call EXCEPT !.at = Inserting(f), !.pending = Unproved(f) \ loaded[f]]
    /\ UNCHANGED <<atomVars, cacheVars, ranked, profile, failures>>

\* A batch of template facts; nothing remembers it until all is proved.
Insert(f) ==
    /\ call.at = Inserting(f)
    /\ \E batch \in SUBSET call.pending \ {{}} :
         /\ Worker!Accept(batch)
         /\ call' = [call EXCEPT !.pending = @ \ batch]
    /\ UNCHANGED <<cacheVars, ranked, profile, failures>>

After(f) == IF f = "point" THEN "feedback" ELSE "margins"

\* All queries are answered: channels, templates and cases are published.
PublishProofs(f) ==
    /\ call.at = Inserting(f) /\ call.pending = {}
    /\ Unproved(f) = {} \/ storeUp
    /\ loaded' = [loaded EXCEPT ![f] = @ \cup Unproved(f)]
    /\ proved' = [proved EXCEPT ![f] = @ \cup Unproved(f)]
    /\ cached' = [cached EXCEPT ![f] = @ \cup call[f]]
    /\ call' = [call EXCEPT !.at = After(f)]
    /\ UNCHANGED <<atomVars, grounded, skipProofs, indexed, margins, ranked, profile, failures>>

\* The limit counts the point cases that were just published.  Each batch of
\* answers is published at once.
ProveFeedback ==
    LET missing == call.skips \ skipProofs IN
    /\ call.at = "feedback"
    /\ ~Overflows(Size("point"), missing)
    /\ IF missing = {}
       THEN /\ call' = [call EXCEPT !.at = "index"]
            /\ UNCHANGED skipProofs
       ELSE /\ storeUp
            /\ \E batch \in SUBSET missing \ {{}} : skipProofs' = skipProofs \cup batch
            /\ UNCHANGED call
    /\ UNCHANGED <<atomVars, loaded, proved, cached, grounded, indexed, margins, ranked,
                   profile, failures>>

\* _ensure_pair_specs
IndexPairs ==
    LET new == call.pair \ indexed IN
    /\ call.at = "index"
    /\ ~Overflows(Cardinality(indexed), new)
    /\ indexed' = indexed \cup new
    /\ call' = [call EXCEPT !.at = "pair"]
    /\ UNCHANGED <<atomVars, loaded, proved, cached, grounded, skipProofs, margins, ranked,
                   profile, failures>>

\* Mutant of Remember: the oldest ranking is not dropped.
RememberAll(ranking) == Append(ranked, ranking)

\* A ranking becomes the newest entry of feed_cache.
Remember(ranking) ==
    LET longer == Append(ranked, ranking) IN
    IF Len(longer) > RankLimit THEN Tail(longer) ELSE longer

\* The margins of the pairs with proofs, then the ranking.  A prewarming call
\* ends by dropping every case, which it made up.
Finish ==
    LET new == {c \in call.pair : Active[c] # {}} \ margins
        warming == call.slate = NoSlate IN
    /\ call.at = "margins"
    /\ warming \/ ~Overflows(Cardinality(margins), new)
    /\ margins' = IF warming THEN {} ELSE margins \cup new
    /\ cached' = IF warming THEN NoProofs ELSE cached
    /\ skipProofs' = IF warming THEN {} ELSE skipProofs
    /\ indexed' = IF warming THEN {} ELSE indexed
    /\ ranked' = IF warming THEN ranked
                 ELSE Remember([slate |-> call.slate, profile |-> profile, rules |-> rules])
    /\ call' = NoCall
    /\ UNCHANGED <<atomVars, loaded, proved, grounded, profile, failures>>

-----------------------------------------------------------------------------
(* What makes rankings old                                                 *)

\* Mutant of RecordAction: only the feed sessions see the event.
RecordActionOnly ==
    /\ call = NoCall
    /\ profile < MaxProfile
    /\ profile' = profile + 1
    /\ UNCHANGED <<atomVars, cacheVars, ranked, failures, call>>

\* event(): the reader's profile changes.
RecordAction ==
    /\ call = NoCall
    /\ profile < MaxProfile
    /\ profile' = profile + 1
    /\ ranked' = <<>>
    /\ UNCHANGED <<atomVars, cacheVars, failures, call>>

\* configure() with another chain depth or batch size: every proof is dropped,
\* the facts in the store and the memory of them stay.
ChangeInference ==
    /\ call = NoCall
    /\ profile < MaxProfile
    /\ profile' = profile + 1
    /\ ranked' = <<>>
    /\ proved' = NoProofs /\ cached' = NoProofs /\ skipProofs' = {} /\ margins' = {}
    /\ UNCHANGED <<atomVars, loaded, grounded, indexed, failures, call>>

ProofNext ==
    \/ MineAndWarm \/ AdoptEngine \/ CallRaises
    \/ \E slate \in Slate : ScoreHit(slate)
    \/ \E slate \in Slate, point \in SUBSET PointCase \ {{}}, pair \in SUBSET PairCase,
          skips \in SUBSET PointCase : ScoreMiss(slate, point, pair, skips)
    \/ Ground \/ ProveFeedback \/ IndexPairs \/ Finish
    \/ \E f \in Family : PlanChannels(f) \/ Insert(f) \/ PublishProofs(f)
    \/ RecordAction \/ ChangeInference

ProofSpec == ProofInit /\ [][ProofNext]_proofVars

-----------------------------------------------------------------------------
(* Every cache holds what its name says and keeps its limit: "the          *)
(* configured bound" of _proofs_for_specs counts cases and feedback roots  *)
(* together, and feed_cache drops its oldest entry.                        *)
CachesBounded ==
    /\ \A f \in Family :
         /\ cached[f] \subseteq Cases(f) /\ proved[f] \subseteq loaded[f]
         /\ Size(f) <= CacheLimit
         /\ Cardinality(proved[f]) <= CacheLimit
    /\ Cardinality(grounded) <= CacheLimit /\ Cardinality(indexed) <= CacheLimit
    /\ Cardinality(margins) <= CacheLimit
    /\ Len(ranked) <= RankLimit

(* lab_pairwise.py:439-441: a failed or retired worker never leaves a      *)
(* false empty proof or a falsely loaded template behind.  What the Lab    *)
(* believes to be in the store is there, a candidate's facts once; and a   *)
(* case with cached proofs has those of all its channels.                  *)
CachesCoherent ==
    /\ \A f \in Family : \A x \in loaded[f] : Inserted(x) # {}
    /\ \A c \in PointCase :
         Inserted(c) # {} => c \in grounded /\ \A i, j \in Inserted(c) : i = j
    /\ \A c \in grounded : Inserted(c) # {}
    /\ skipProofs \subseteq grounded
    /\ \A f \in Family : \A c \in cached[f] : Active[c] \subseteq proved[f]

(* A ranking that score() would serve again was made by the rules, the     *)
(* settings and the profile in force.                                      *)
RankingsCurrent ==
    \A i \in DOMAIN ranked : ranked[i].profile = profile /\ ranked[i].rules = rules

(* lab_serving.py and lab_pairwise.py: the caches of scoring keep their    *)
(* limits, are true of the store, and never serve an old ranking.          *)
ProofCachesSound == CachesBounded /\ CachesCoherent /\ RankingsCurrent
=============================================================================
