---------------------------- MODULE RuleSelection ----------------------------
(***************************************************************************)
(* Mining of the pair rules of a model: _mine_pairwise of                  *)
(* mining/lab_lifecycle.py, the conditional search of                      *)
(* mining/conditional_llm_mining.py and the calibration of                 *)
(* core/ctv_calibration.py.                                                *)
(*                                                                         *)
(* Impressions arrive in intervals.  A mining run turns each of them into    *)
(* two opposite cases, takes the unary rules of the real miner, extends    *)
(* the semantic ones by a context, calibrates every rule on all cases and  *)
(* in three folds of time, and keeps at most pair_max_rules of them: some  *)
(* unary, some deeper, none redundant.  Rules whose evidence is one and    *)
(* the same get one dependency, so that it votes once.                     *)
(*                                                                         *)
(* An impression has one click and one skip; its features say how the      *)
(* clicked article compares with the skipped one.  A case counts for one   *)
(* half of its impression, and supports are counted in cases here.  The    *)
(* families of categorical sides are empty in this program (server.py:197) *)
(* and left out, as are the two residual modes it does not configure.      *)
(***************************************************************************)
EXTENDS Integers, FiniteSetsExt, SequencesExt

CONSTANTS
    Intervals,       \* impressions between two mining runs: sequences of features
    OpenImpression,  \* an impression without a click, or without a skip
    SemanticPredicates, ContextPredicates,
    EvidenceOwner,   \* evidence that a predicate measures: PAIR_EVIDENCE_ALIASES
    MinerSupport,    \* clicked cases that the real miner asks for
    TargetSupport,   \* impressions that a rule has to cover
    MinEffect,       \* pair_min_effect, in per cent
    RuleCaps,        \* values of pair_max_rules
    MaxImpressions,  \* bound on the impressions
    NotMined

(* A cap is at least one (server.py:1391), a predicate has one role        *)
(* (conditional_llm_mining.py:496), and an impression has finitely many    *)
(* features.                                                               *)
ASSUME SelectionAssumption ==
    /\ RuleCaps \subseteq Nat \ {0}
    /\ SemanticPredicates \cap ContextPredicates = {}
    /\ \A interval \in Intervals :
         /\ interval \in Seq(ToSet(interval))
         /\ \A features \in ToSet(interval) \ {OpenImpression} : IsFiniteSet(features)

VARIABLES
    impressions,     \* closed and open impressions, in the order of the log
    mined            \* the last mining run: its cap and its rules, best first

selectionVars == <<impressions, mined>>

-----------------------------------------------------------------------------
(* Cases: _pair_training_cases                                             *)

Opposite(features) ==
    {<<f[1], IF f[2] = "left" THEN "right" ELSE IF f[2] = "right" THEN "left" ELSE f[2]>> :
        f \in features}

(* Thirds of the log, the open impressions included.                       *)
TemporalFold(log, k) == Min({2, (3 * (k - 1)) \div Len(log)})

CasesOf(log) ==
    UNION {{[impression |-> k, click |-> TRUE, facts |-> log[k], fold |-> TemporalFold(log, k)],
            [impression |-> k, click |-> FALSE, facts |-> Opposite(log[k]),
             fold |-> TemporalFold(log, k)]} :
           k \in {k \in DOMAIN log : log[k] # OpenImpression}}

(* The cases that a conjunction matches, and the clicks among them.        *)
CasesWith(premises, cases) == {c \in cases : premises \subseteq c.facts}
Clicks(cases) == Cardinality({c \in cases : c.click})

(* The precision of one set of cases is higher than that of another by at  *)
(* least, or by more than, so many per cent; every set has cases in it.    *)
GainsAtLeast(cases, base, percent) ==
    100 * (Clicks(cases) * Cardinality(base) - Clicks(base) * Cardinality(cases))
        >= percent * Cardinality(cases) * Cardinality(base)
GainsMoreThan(cases, base, percent) ==
    100 * (Clicks(cases) * Cardinality(base) - Clicks(base) * Cardinality(cases))
        > percent * Cardinality(cases) * Cardinality(base)

InFold(cases, fold) == {c \in cases : c.fold = fold}

(* Folds in which a set of cases is large enough to be judged.             *)
FoldSupport == Max({2, (2 * TargetSupport + 2) \div 3})
UsableFolds(cases) == {f \in 0..2 : Cardinality(InFold(cases, f)) >= FoldSupport}

-----------------------------------------------------------------------------
(* Discovery                                                               *)

Directed(atom) == atom[2] \notin {"incomparable", "unknown"}

(* The unary rules of the real miner for a click.  Missing annotations are *)
(* not facts.                                                              *)
EmittedUnaries(cases) ==
    {a \in UNION {c.facts : c \in cases} :
        /\ a[1] \in SemanticPredicates => Directed(a)
        /\ Clicks(CasesWith({a}, cases)) >= MinerSupport}

SemanticSeeds(cases) == {a \in EmittedUnaries(cases) : a[1] \in SemanticPredicates}

FrequentAtoms(cases) ==
    {a \in UNION {c.facts : c \in cases} :
        /\ a[1] \in SemanticPredicates \cup ContextPredicates
        /\ Directed(a)
        /\ Cardinality(CasesWith({a}, cases)) >= 2 * TargetSupport}

(* A pattern and what it has to improve on: all cases, and each of its     *)
(* parents where the parent has cases.                                     *)
Parents(premises, cases) == {cases} \cup {CasesWith(premises \ {a}, cases) : a \in premises}

(* mine_conditional_llm_patterns at depth 2: a semantic atom and a context *)
(* atom, one of them a seed, better than all cases and than both parents,  *)
(* on the whole and in every usable fold.                                  *)
ConditionalPatterns(cases) ==
    {premises \in {{a, b} : a \in SemanticSeeds(cases) \cap FrequentAtoms(cases),
                            b \in {b \in FrequentAtoms(cases) : b[1] \in ContextPredicates}} :
        LET covered == CasesWith(premises, cases)
        IN  /\ Cardinality(covered) >= 2 * TargetSupport
            /\ Cardinality(UsableFolds(covered)) >= 2
            /\ GainsMoreThan(covered, cases, MinEffect)
            /\ \A parent \in Parents(premises, cases) : GainsMoreThan(covered, parent, 0)
            /\ \A f \in UsableFolds(covered) :
                 /\ GainsMoreThan(InFold(covered, f), InFold(cases, f), MinEffect)
                 /\ \A parent \in Parents(premises, cases) :
                      GainsMoreThan(InFold(covered, f), InFold(parent, f), 0)}

(* Seeds are for discovery only: correlated evidence must not vote twice.  *)
CandidateRules(cases) ==
    {{a} : a \in EmittedUnaries(cases) \ SemanticSeeds(cases)} \cup ConditionalPatterns(cases)

-----------------------------------------------------------------------------
(* Calibration: calibrate_ctv                                              *)

Applicable(premises, cases) ==
    {c \in cases : \A a \in premises : \E b \in c.facts : b[1] = a[1] /\ Directed(b)}

(* The gate of a calibrated rule.                                          *)
PassesGate(premises, cases) ==
    LET applicable == Applicable(premises, cases)
        matched == CasesWith(premises, applicable)
        usable == UsableFolds(matched)
    IN  /\ Cardinality(matched) >= 2 * TargetSupport
        /\ GainsMoreThan(matched, applicable, 0)
        /\ Cardinality(usable) >= 2
        /\ \A f \in usable : GainsAtLeast(InFold(matched, f), InFold(applicable, f), MinEffect)

CalibratedRules(log) ==
    LET cases == CasesOf(log) IN {p \in CandidateRules(cases) : PassesGate(p, cases)}

(* Quality grows with the least effect in a fold, the support and the      *)
(* number of premises; how it weighs them is left open.                    *)
BetterRule(p, q, cases) ==
    LET ps == CasesWith(p, cases)
        qs == CasesWith(q, cases)
    IN  /\ Cardinality(p) >= Cardinality(q) /\ Cardinality(ps) >= Cardinality(qs)
        /\ \E g \in UsableFolds(qs) : \A f \in UsableFolds(ps) :
              GainsAtLeast(InFold(ps, f), InFold(qs, g), 0)
        /\ <<Cardinality(p), Cardinality(ps)>> # <<Cardinality(q), Cardinality(qs)>>

QualityOrders(log) ==
    {s \in SetToSeqs(CalibratedRules(log)) :
        \A i, j \in DOMAIN s : i < j => ~BetterRule(s[j], s[i], CasesOf(log))}

-----------------------------------------------------------------------------
(* Selection                                                               *)

(* Nearly the same cases and nearly the same strength.                     *)
RedundantRules(p, q, cases) ==
    LET ps == CasesWith(p, cases)
        qs == CasesWith(q, cases)
        gap == Clicks(ps) * Cardinality(qs) - Clicks(qs) * Cardinality(ps)
    IN  /\ 100 * Cardinality(ps \cap qs) >= 98 * Cardinality(ps \cup qs)
        /\ 50 * Max({gap, -gap}) < Cardinality(ps) * Cardinality(qs)

IsUnary(p) == Cardinality(p) = 1

Repeats(p, chosen, withinFamily, cases) ==
    \E q \in ToSet(chosen) : /\ withinFamily => IsUnary(q) = IsUnary(p)
                            /\ RedundantRules(p, q, cases)

(* retain_candidates: the candidates of a family in the order of quality,  *)
(* without the redundant ones, until the cap or the limit is reached.      *)
Retain(chosen, order, family, limit, cap, withinFamily, cases) ==
    LET Full(s) == Len(s) >= cap \/ Len(s) >= Len(chosen) + limit
        kept[n \in 0..Len(order)] ==
            IF n = 0 THEN chosen
            ELSE IF \/ Full(kept[n - 1]) \/ order[n] \notin family
                    \/ Repeats(order[n], kept[n - 1], withinFamily, cases)
                 THEN kept[n - 1]
                 ELSE Append(kept[n - 1], order[n])
    IN  kept[Len(order)]

UnaryQuotaAll(cap) == cap

UnaryQuota(cap) == (cap + 1) \div 2

(* Both families get their share, and the rest goes by quality.            *)
SelectRules(order, cap, cases) ==
    LET all == ToSet(order)
        unary == {p \in all : IsUnary(p)}
        deeper == all \ unary
        reserved == Retain(Retain(<<>>, order, unary, UnaryQuota(cap), cap, TRUE, cases),
                           order, deeper, cap - UnaryQuota(cap), cap, TRUE, cases)
    IN  IF unary = {} \/ deeper = {} THEN Retain(<<>>, order, all, cap, cap, FALSE, cases)
        ELSE IF cap = 1 THEN Retain(<<>>, order, unary, cap, cap, FALSE, cases)
        ELSE Retain(reserved, order, all, cap, cap, FALSE, cases)

(* _pair_dependency_lineage: contexts say nothing about who wins.          *)
Lineage(p) == {EvidenceOwner[a[1]] : a \in {a \in p : a[1] \notin ContextPredicates}}

(* _pair_rules_share_dependency; an owner is declared for the patterns of  *)
(* the conditional search, and it is their semantic evidence.              *)
SharesDependency(p, q, cases) ==
    LET ps == CasesWith(p, cases)
        qs == CasesWith(q, cases)
        common == Lineage(p) \cap Lineage(q)
    IN  /\ common # {}
        /\ \/ Lineage(p) = Lineage(q)
           \/ \E r \in {p, q} : \E a \in r :
                 ~IsUnary(r) /\ a[1] \in SemanticPredicates /\ EvidenceOwner[a[1]] \in common
           \/ 10 * Cardinality(ps \cap qs) >= 9 * Min({Cardinality(ps), Cardinality(qs)})

RootsOfNeighbours(rules, cases) ==
    [k \in DOMAIN rules |->
        IF k > 1 /\ SharesDependency(rules[k - 1], rules[k], cases) THEN k - 1 ELSE k]

(* The union-find over all pairs: every rule gets a root.                  *)
RootsOf(rules, cases) ==
    LET pairs == {p \in (DOMAIN rules) \X (DOMAIN rules) : p[1] < p[2]}
        Merge(roots, i, j) ==
            IF SharesDependency(rules[i], rules[j], cases)
            THEN [k \in DOMAIN roots |-> IF roots[k] = roots[j] THEN roots[i] ELSE roots[k]]
            ELSE roots
    IN  FoldSet(LAMBDA p, roots : Merge(roots, p[1], p[2]), [k \in DOMAIN rules |-> k], pairs)

-----------------------------------------------------------------------------
SelectionInit ==
    /\ impressions = <<>>
    /\ mined = NotMined

(* The events of some impressions: Lab.event.                              *)
RecordImpressions(interval) ==
    /\ Len(impressions) + Len(interval) <= MaxImpressions
    /\ impressions' = impressions \o interval
    /\ mined' = NotMined

(* _mine_pairwise.                                                         *)
MinePairs(cap, order) ==
    LET cases == CasesOf(impressions)
        rules == SelectRules(order, cap, cases)
        roots == RootsOf(rules, cases)
    IN  /\ mined = NotMined
        /\ mined' = [cap |-> cap,
                     rules |-> [k \in DOMAIN rules |-> [premises |-> rules[k], root |-> roots[k]]]]
        /\ UNCHANGED impressions

SelectionNext ==
    \/ \E interval \in Intervals : RecordImpressions(interval)
    \/ \E cap \in RuleCaps, order \in QualityOrders(impressions) : MinePairs(cap, order)

SelectionSpec == SelectionInit /\ [][SelectionNext]_selectionVars

-----------------------------------------------------------------------------
(* What a model of pair rules may contain, whatever log it was mined from. *)
(* The cap is kept; neither family is starved by the other when there is   *)
(* room for two ("A shared cap must not let either half of the hybrid      *)
(* starve the other", lab_lifecycle.py:1156-1160), and no room is left     *)
(* while a calibrated rule is missing that repeats none of the others.  No *)
(* rule is there twice, nor two redundant ones of a family.  A semantic    *)
(* seed never votes beside its patterns, and two patterns of one evidence  *)
(* are one dependency.                                                     *)
SoundFor(model, log) ==
    LET cases == CasesOf(log)
        calibrated == CalibratedRules(log)
        rules == model.rules
        kept == {r.premises : r \in ToSet(rules)}
    IN  /\ Len(rules) <= model.cap
        /\ kept \subseteq calibrated
        /\ model.cap >= 2 =>
             \A unary \in BOOLEAN :
                (\E p \in calibrated : IsUnary(p) = unary) => \E p \in kept : IsUnary(p) = unary
        /\ Len(rules) < model.cap =>
             \A p \in calibrated \ kept : \E q \in kept : RedundantRules(p, q, cases)
        /\ \A i, j \in DOMAIN rules :
             i < j => \/ ~RedundantRules(rules[i].premises, rules[j].premises, cases)
                      \/ IsUnary(rules[i].premises) # IsUnary(rules[j].premises)
        /\ \A p \in kept : \A a \in p : a[1] \in SemanticPredicates => ~IsUnary(p)
        /\ \A r, s \in ToSet(rules) :
             SharesDependency(r.premises, s.premises, cases) => r.root = s.root

(* The rules that serve have been mined from the log as it is.              *)
SelectionSound == mined # NotMined => SoundFor(mined, impressions)

=============================================================================
