--------------------------- MODULE PairTournament ---------------------------
(***************************************************************************)
(* The pair tournament that ranks a slate, and its replay after a skip     *)
(* (ranking/lab_pairwise.py, _rerank_unserved_queue in app/lab_serving.py, *)
(* the profile of Lab.event in app/server.py).                             *)
(*                                                                         *)
(* A window of articles is ranked when it arrives: each pair of articles   *)
(* is compared by the pair rules whose premises its features match, each   *)
(* evidence family gives midranks, and the families count the same.  The   *)
(* proved comparisons are kept with the session.  A skip only changes      *)
(* which articles resemble a recent skip, so it recomputes the point       *)
(* scores of those and replays the comparisons over what is left of the    *)
(* window; a like changes the profile and ranks everything again.          *)
(*                                                                         *)
(* A rule's margin is the log odds of its proof, as an integer.  Scores    *)
(* keep their order and their ties: they are compared over a common        *)
(* denominator.                                                            *)
(***************************************************************************)
EXTENDS Integers, FiniteSetsExt, SequencesExt

CONSTANTS
    Pool,            \* the articles of the session, in the order they arrive
    TopicOf,         \* the topic of an article
    SubcategoryOf,   \* its subcategory
    TextGrade,       \* its LLM text annotation; 0: it has none
    RulesOf,         \* the pair rules of each rule version, in their order
    PointScore,      \* point score of an article by the interest in its topic
    SkipScore,       \* and by its resemblance to a recent skip
    PageSize,
    ArrivalWindow,   \* feed_window
    NegativeLimit,   \* LIVE_NEGATIVE_HISTORY_LIMIT
    NegativeWindow,  \* LIVE_NEGATIVE_GENERALIZATION_WINDOW
    NoReplay,
    MaxActions       \* bound on the events

VARIABLES
    interests,       \* topics of the user's profile
    skipped,         \* negative_history
    ruleVersion,     \* version of the Lab
    slate,           \* queue of the session
    arrived,         \* source_position
    served,          \* feedback_contexts: articles that may get feedback
    replayed,        \* pair_replay of the session
    rankedUnder,     \* version of the session
    taken,           \* events recorded
    judged           \* history variable: what the last rerank was computed from

pairVars == <<interests, skipped, ruleVersion, slate, arrived, served, replayed, rankedUnder, taken,
              judged>>

-----------------------------------------------------------------------------
(* Points                                                                  *)

(* The facts that the rules read: features.                                *)
Facts(likes, a) == [affinity |-> IF TopicOf[a] \in likes THEN 2 ELSE 1, text |-> TextGrade[a]]

(* _negative_feedback_features: the closest resemblance only.              *)
Resembles(skips, a) ==
    LET recent == ToSet(SubSeq(skips, Max({1, Len(skips) - NegativeWindow + 1}), Len(skips)))
    IN  IF a \in ToSet(skips) THEN "exact"
        ELSE IF \E b \in recent : SubcategoryOf[b] = SubcategoryOf[a] THEN "subcategory"
        ELSE IF \E b \in recent : TopicOf[b] = TopicOf[a] THEN "topic"
        ELSE "none"

(* A row of _rank: a proof of resemblance replaces the mined evidence.     *)
Scored(a, facts, match) ==
    [article |-> a, facts |-> facts, match |-> match, paired |-> FALSE,
     score |-> IF match = "none" THEN PointScore[facts.affinity] ELSE SkipScore[match]]

FreshRows(likes, skips, articles) ==
    {Scored(a, Facts(likes, a), Resembles(skips, a)) : a \in articles}

ArticlesOf(rows) == {r.article : r \in rows}

ByPoints(r, s) == r.score > s.score \/ (r.score = s.score /\ r.article < s.article)

-----------------------------------------------------------------------------
(* Pairs                                                                   *)

Direction(l, r) ==
    IF l = 0 \/ r = 0 THEN "incomparable"
    ELSE IF l > r THEN "left" ELSE IF l < r THEN "right" ELSE "equal"

PairFeatures(r, s) ==
    {<<"affinity", Direction(r.facts.affinity, s.facts.affinity)>>,
     <<"text", Direction(r.facts.text, s.facts.text)>>,
     <<"topic", IF TopicOf[r.article] = TopicOf[s.article] THEN "same" ELSE "different">>}

(* _reverse_pair_features: the features of the opposite orientation.       *)
Reversed(features) ==
    {<<f[1], IF f[2] = "left" THEN "right" ELSE IF f[2] = "right" THEN "left" ELSE f[2]>> :
        f \in features}

(* A case is the rules whose premises all match.                           *)
Activation(features, v) == {k \in DOMAIN RulesOf[v] : RulesOf[v][k].premises \subseteq features}

Magnitude(n) == IF n < 0 THEN -n ELSE n

Dependencies(v) == {RulesOf[v][k].dependency : k \in DOMAIN RulesOf[v]}

(* _proof_dependency_margins: variants of one dependency are one piece of  *)
(* evidence, and the strongest of them speaks for it.                      *)
Margin(case, dependency, v) ==
    LET own == {k \in case : RulesOf[v][k].dependency = dependency}
        Strength(k) == Magnitude(RulesOf[v][k].margin)
        Dominant(k) ==
            \A j \in own \ {k} : \/ Strength(j) < Strength(k)
                                 \/ Strength(j) = Strength(k) /\ k < j
    IN  IF own = {} THEN 0 ELSE RulesOf[v][CHOOSE k \in own : Dominant(k)].margin

FamilyOf(dependency, v) ==
    IF \E k \in DOMAIN RulesOf[v] :
          RulesOf[v][k].dependency = dependency /\ RulesOf[v][k].family = "text"
    THEN "text" ELSE "structured"

Families == [v \in DOMAIN RulesOf |-> {FamilyOf(d, v) : d \in Dependencies(v)}]

Belonging ==
    [v \in DOMAIN RulesOf |->
        [family \in {"text", "structured"} |-> {d \in Dependencies(v) : FamilyOf(d, v) = family}]]

(* What a family says for the left article of a comparison.                *)
Votes(forward, reverse, family, v) ==
    MapThenSumSet(LAMBDA d : Margin(forward, d, v) - Margin(reverse, d, v), Belonging[v][family])

Comparison(r, s, v) ==
    LET features == PairFeatures(r, s)
        forward == Activation(features, v)
        reverse == Activation(Reversed(features), v)
    IN  [left |-> r.article, right |-> s.article,
         text |-> Votes(forward, reverse, "text", v),
         structured |-> Votes(forward, reverse, "structured", v)]

(* _pairwise_plan: each pair once, its better point row on the left.       *)
Compared(rows, v) ==
    {Comparison(p[1], p[2], v) : p \in {p \in rows \X rows : ByPoints(p[1], p[2])}}

(* What the comparisons of an article come to in one family.               *)
FamilyTotal(edges, family, a) ==
      MapThenSumSet(LAMBDA e : e[family], {e \in edges : e.left = a})
    - MapThenSumSet(LAMBDA e : e[family], {e \in edges : e.right = a})

(* Most that a family's evidence can say in one comparison.                *)
FamilyWeight ==
    LET Variants(d, v) == {k \in DOMAIN RulesOf[v] : RulesOf[v][k].dependency = d}
        Strongest(d, v) == Max({Magnitude(RulesOf[v][k].margin) : k \in Variants(d, v)})
    IN  [v \in DOMAIN RulesOf |->
            [family \in {"text", "structured"} |->
                MapThenSumSet(LAMBDA d : Strongest(d, v), Belonging[v][family])]]

(* _midrank_scores, times 2(n - 1): equal values share the mean of their   *)
(* places.                                                                 *)
Midrank(e, field, entrants) ==
      2 * (Cardinality(entrants) - 1)
    - (2 * Cardinality({d \in entrants : d[field] > e[field]})
       + Cardinality({d \in entrants : d[field] = e[field]}) - 1)

(* _pairwise_rank: families count the same; a quarter of the rank is left  *)
(* to the points while some row has proved feedback evidence.              *)
Tournament(rows, edges, v) ==
    LET entrants ==
            {[row |-> r, points |-> r.score, text |-> FamilyTotal(edges, "text", r.article),
              structured |-> FamilyTotal(edges, "structured", r.article)] : r \in rows}
        fused == \E r \in rows : r.match # "none"
        PairRank(e) == MapThenSumSet(LAMBDA f : Midrank(e, f, entrants), Families[v])
        PairScore(e) ==
            MapThenSumSet(LAMBDA f : e[f] * FoldSet(LAMBDA g, n : n * FamilyWeight[v][g], 1,
                                                    Families[v] \ {f}),
                          Families[v])
        placed ==
            {[article |-> e.row.article, row |-> [e.row EXCEPT !.paired = TRUE], score |-> e.points,
              rank |-> IF fused THEN 3 * PairRank(e)
                                     + Cardinality(Families[v]) * Midrank(e, "points", entrants)
                       ELSE 4 * PairRank(e),
              pairs |-> PairScore(e)] : e \in entrants}
        Ahead(x, y) ==
            \/ x.rank > y.rank
            \/ x.rank = y.rank /\ x.pairs > y.pairs
            \/ x.rank = y.rank /\ x.pairs = y.pairs /\ ByPoints(x, y)
        order == SetToSortSeq(placed, Ahead)
    IN  IF Cardinality(rows) < 2 \/ RulesOf[v] = <<>> THEN SetToSortSeq(rows, ByPoints)
        ELSE [k \in DOMAIN order |-> order[k].row]

(* What the tournament keeps for a replay: _last_pair_replay.              *)
Proved(rows, v, likes) ==
    IF Cardinality(rows) < 2 \/ RulesOf[v] = <<>> THEN NoReplay
    ELSE [version |-> v, edges |-> Compared(rows, v), likes |-> likes]

-----------------------------------------------------------------------------
(* The session                                                             *)

TournamentInit ==
    /\ interests = {} /\ skipped = <<>> /\ ruleVersion = 1
    /\ slate = <<>> /\ arrived = 0 /\ served = {} /\ replayed = NoReplay /\ rankedUnder = 1
    /\ taken = 0
    /\ judged = NoReplay

(* feed_page: a session of an old rule version starts again.               *)
ServePage ==
    LET stale == rankedUnder # ruleVersion
        queued == IF stale THEN <<>> ELSE slate
        source == IF stale THEN 0 ELSE arrived
        until == Min({Len(Pool), source + Max({PageSize, ArrivalWindow})})
        arrives == Len(queued) < PageSize /\ source < Len(Pool)
        rows == FreshRows(interests, skipped, {Pool[k] : k \in source + 1..until})
        ready == IF ~arrives THEN queued
                 ELSE queued \o Tournament(rows, Compared(rows, ruleVersion), ruleVersion)
        count == Min({PageSize, Len(ready)})
    IN  /\ ready # <<>>
        /\ slate' = SubSeq(ready, count + 1, Len(ready))
        /\ arrived' = IF arrives THEN until ELSE source
        /\ served' = (IF stale THEN {} ELSE served) \cup {ready[k].article : k \in 1..count}
        /\ replayed' = IF arrives THEN Proved(rows, ruleVersion, interests)
                       ELSE IF stale THEN NoReplay ELSE replayed
        /\ rankedUnder' = ruleVersion
        /\ judged' = NoReplay
        /\ UNCHANGED <<interests, skipped, ruleVersion, taken>>

(* The profile after an event.                                             *)
Remembers(a, action) ==
    LET others == SelectSeq(skipped, LAMBDA b : b # a)
        longer == Append(others, a)
    IN  IF action = "like"
        THEN interests' = interests \cup {TopicOf[a]} /\ skipped' = others
        ELSE /\ skipped' = SubSeq(longer, Max({1, Len(longer) - NegativeLimit + 1}), Len(longer))
             /\ UNCHANGED interests

(* _pairwise_replay_plan: the comparisons among the rows, if all of them   *)
(* were proved under this rule version.                                    *)
Replayable(articles, replay) == {e \in replay.edges : e.left \in articles /\ e.right \in articles}

CoversSlateUnversioned(articles, replay) ==
    LET n == Cardinality(articles)
    IN  /\ replay # NoReplay
        /\ Cardinality(Replayable(articles, replay)) = (n * (n - 1)) \div 2

CoversSlate(articles, replay) ==
    LET n == Cardinality(articles)
    IN  /\ replay # NoReplay
        /\ replay.version = ruleVersion
        /\ Cardinality(Replayable(articles, replay)) = (n * (n - 1)) \div 2

CanReuse(action) ==
    /\ action = "skip"
    /\ \A r \in ToSet(slate) : r.paired
    /\ CoversSlate(ArticlesOf(ToSet(slate)), replayed)

RevisedSkipped(r, skips) ==
    IF r.article \in ToSet(skips) THEN Scored(r.article, r.facts, "exact")
    ELSE [r EXCEPT !.paired = FALSE]

(* Rows whose resemblance to the skips changed are scored again, from the  *)
(* facts they were served with; the others stay as they are.               *)
Revised(r, skips) ==
    IF r.match = Resembles(skips, r.article) THEN [r EXCEPT !.paired = FALSE]
    ELSE Scored(r.article, r.facts, Resembles(skips, r.article))

(* Lab.event of an article that this session served: _rerank_unserved_queue*)
(* in the same critical section.                                           *)
GiveFeedback(a, action) ==
    LET queued == ToSet(slate)
        articles == ArticlesOf(queued)
        revised == {Revised(r, skipped') : r \in queued}
        fresh == FreshRows(interests', skipped', articles)
    IN  /\ taken < MaxActions
        /\ a \in served
        /\ Remembers(a, action)
        /\ slate' = IF CanReuse(action)
                    THEN Tournament(revised, Replayable(articles, replayed), ruleVersion)
                    ELSE Tournament(fresh, Compared(fresh, ruleVersion), ruleVersion)
        /\ judged' = [likes |-> IF CanReuse(action) THEN replayed.likes ELSE interests']
        /\ rankedUnder' = ruleVersion
        /\ served' = served \ {a}
        /\ taken' = taken + 1
        /\ UNCHANGED <<ruleVersion, arrived, replayed>>

(* The same user in another session or by a direct call: this queue is not *)
(* touched.                                                                *)
FeedbackElsewhere(a, action) ==
    /\ taken < MaxActions
    /\ Remembers(a, action)
    /\ judged' = NoReplay
    /\ taken' = taken + 1
    /\ UNCHANGED <<ruleVersion, slate, arrived, served, replayed, rankedUnder>>

(* A mined model is promoted.                                              *)
RulesReplaced ==
    /\ ruleVersion < Len(RulesOf)
    /\ ruleVersion' = ruleVersion + 1
    /\ judged' = NoReplay
    /\ UNCHANGED <<interests, skipped, slate, arrived, served, replayed, rankedUnder, taken>>

TournamentNext ==
    \/ ServePage \/ RulesReplaced
    \/ \E a \in ToSet(Pool), action \in {"like", "skip"} :
          GiveFeedback(a, action) \/ FeedbackElsewhere(a, action)

TournamentSpec == TournamentInit /\ [][TournamentNext]_pairVars

-----------------------------------------------------------------------------
(* Replaying the proved comparisons is exact.  Right after any feedback    *)
(* the queue is, row by row, what ranking its articles from nothing gives  *)
(* under the profile and the rules of that moment, as long as the topics   *)
(* of interest are those that the replayed comparisons were proved for.    *)
(* And whatever was replayed, every row tells its true resemblance to the  *)
(* recent skips.  The two computations differ in the rows they score, in   *)
(* the side of a pair an article is on, and in the window that the         *)
(* comparisons come from: _pairwise_replay_plan, lab_pairwise.py:1001-1021.*)
ReplayIsTournament ==
    LET queued == ToSet(slate)
        fresh == FreshRows(interests, skipped, ArticlesOf(queued))
    IN  judged # NoReplay =>
          /\ \A r \in queued : r.match = Resembles(skipped, r.article)
          /\ judged.likes = interests =>
                slate = Tournament(fresh, Compared(fresh, ruleVersion), ruleVersion)

=============================================================================
