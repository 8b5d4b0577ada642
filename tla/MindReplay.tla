----------------------------- MODULE MindReplay -----------------------------
(***************************************************************************)
(* _load_reczoo_archive (adapters/mind.py): the rows of train.csv are read  *)
(* once, impression by impression; every kept case carries the evidence     *)
(* that preceded its impression, whole impressions are sampled by the hash  *)
(* of their name, and the impressions of valid.csv are judged with the      *)
(* evidence of all of train.csv.                                           *)
(*                                                                         *)
(* The rows of an impression follow each other and repeat one history.      *)
(* Scores are abstracted to the counts they are computed from, and an      *)
(* invalid row of any kind to one that names an unknown article.           *)
(***************************************************************************)
EXTENDS Integers, FiniteSets, SequencesExt

CONSTANTS
    News,           \* the articles of news_corpus.tsv
    Subcategory,    \* of each of them
    TrainRow,       \* the rows that train.csv may have, and those of valid.csv
    ValidRow,
    NewsHis,        \* of an impression: the sequence of articles clicked before it
    SamplePriority, \* of an impression, no two alike: sample_priority
    ReplayLimits,   \* the limits [train, eval] a load may be given
    NoLimit,
    Recent,         \* the recent part of a history: 5 articles
    MaxRows,        \* bound on the rows of both files
    NoImpression

ASSUME ReplayAssumption ==
    /\ Subcategory \in [News -> {Subcategory[a] : a \in News}]
    /\ {Recent, MaxRows} \subseteq Nat
    /\ \A i, j \in DOMAIN SamplePriority : i # j => SamplePriority[i] # SamplePriority[j]

VARIABLES
    phase,      \* "train", "valid", "loaded" or "failed"
    limits,
    trainFile,  \* the rows read of train.csv; what the properties compare with
    validFile,
    group,      \* the rows of the impression that is being read, with what they captured
    tally,      \* exposures and clicks per article, subcategory and transition
    firstSeen,  \* per article the sequence number of its first exposure
    sample,     \* the impressions in the heap
    selected,     \* selected_events
    tests,      \* selected_tests
    profileTopics,      \* per user the impression with the longest known history
    profileHistories,   \* per user the impression whose history was stored last
    referenced          \* referenced_articles

replayVars == <<phase, limits, trainFile, validFile, group, tally, firstSeen, sample, selected, tests,
                profileTopics, profileHistories, referenced>>

Reader == {r.user : r \in TrainRow \cup ValidRow}
Subcategories == {Subcategory[a] : a \in News}
Malformed(row) == row.article \notin News

-----------------------------------------------------------------------------
(* Evidence                                                                *)

Known(imp) == SelectSeq(NewsHis[imp], LAMBDA a : a \in News)

\* The subcategories of the last few clicks, of those that are known.
RecentSubcategories(imp) ==
    LET his == NewsHis[imp]
    IN  {Subcategory[his[i]] : i \in {j \in DOMAIN his : j > Len(his) - Recent /\ his[j] \in News}}

\* What a row's outcome counts for.
TransitionKeys(row) ==
    {<<"all">>, <<"candidate", Subcategory[row.article]>>}
        \cup {<<"move", h, Subcategory[row.article]>> : h \in RecentSubcategories(row.imp)}
KeysOf(row) == {<<"article", row.article>>} \cup TransitionKeys(row)

AllKeys ==
    {<<"all">>} \cup {<<"article", a>> : a \in News} \cup {<<"candidate", s>> : s \in Subcategories}
        \cup {<<"move", h, s>> : h \in Subcategories, s \in Subcategories}

Never == -1
ExposureSequence == tally[<<"all">>].exposures

Counted(rows, keys) ==
    [k \in keys |->
        [exposures |-> Cardinality({i \in DOMAIN rows : k \in KeysOf(rows[i])}),
         clicks |-> Cardinality({i \in DOMAIN rows : k \in KeysOf(rows[i]) /\ rows[i].click})]]

FirstIn(rows, a) ==
    LET at == {i \in DOMAIN rows : rows[i].article = a}
    IN  IF at = {} THEN Never ELSE (CHOOSE i \in at : \A j \in at : i <= j) - 1

ItemRows(items) == [i \in DOMAIN items |-> items[i].row]

\* The outcomes of an impression become evidence together.
TallyWith(items) ==
    LET more == Counted(ItemRows(items), AllKeys)
    IN  [k \in AllKeys |-> [exposures |-> tally[k].exposures + more[k].exposures,
                            clicks |-> tally[k].clicks + more[k].clicks]]
FirstSeenWith(items) ==
    [a \in News |->
        IF firstSeen[a] # Never \/ FirstIn(ItemRows(items), a) = Never THEN firstSeen[a]
        ELSE ExposureSequence + FirstIn(ItemRows(items), a)]

\* What a row captures when it is read: the counters of its article.
Captured(counts, first, row, position) ==
    [row |-> row, position |-> position, article |-> counts[<<"article", row.article>>],
     first |-> first[row.article], sequence |-> counts[<<"all">>].exposures]

\* A captured row with what its transition score is computed from.
Scored(item, counts, titles) ==
    [case |-> item, transition |-> [k \in TransitionKeys(item.row) |-> counts[k]], titles |-> titles]

-----------------------------------------------------------------------------
(* Samples of whole impressions                                            *)

ImpressionOf(g) == g.items[1].row.imp
UserOf(g) == g.items[1].row.user
Priority(g) == SamplePriority[ImpressionOf(g)]
Groups(items, start) == IF items = <<>> THEN {} ELSE {[start |-> start, items |-> items]}
InFileOrder(groups) == SetToSortSeq(groups, LAMBDA g, h : g.start < h.start)

Cases(groups) == MapThenSumSet(LAMBDA g : Len(g.items), groups)
UpTo(g, groups) == {h \in groups : Priority(h) <= Priority(g)}

\* Mutant of KeptCases: the newest impression goes first, whatever its priority.
KeptCasesOldest(groups) ==
    {g \in groups : Cases({h \in groups : h.start <= g.start}) <= limits.train}

\* The heap drops the worst impression until the cases are within the limit; an impression
\* that is larger than the limit never entered it.
KeptCases(groups) == {g \in groups : Cases(UpTo(g, groups)) <= limits.train}

KeptTests(groups) == {g \in groups : Cardinality(UpTo(g, groups)) <= limits.eval}

\* Per user the first of the longest known histories (flush_training_group,
\* append_validation_group).
KnownLength(imp) == IF imp = NoImpression THEN 0 ELSE Len(Known(imp))
TopicsWith(groups) ==
    [u \in Reader |->
        LET own == SelectSeq(groups, LAMBDA g : UserOf(g) = u /\
                        KnownLength(ImpressionOf(g)) > KnownLength(profileTopics[u]))
            longest == SelectSeq(own, LAMBDA g : \A i \in DOMAIN own :
                           KnownLength(ImpressionOf(own[i])) <= KnownLength(ImpressionOf(g)))
        IN  IF own = <<>> THEN profileTopics[u] ELSE ImpressionOf(longest[1])]

HistoriesWith(groups) ==
    [u \in Reader |->
        LET own == SelectSeq(groups, LAMBDA g : UserOf(g) = u)
        IN  IF own = <<>> THEN profileHistories[u] ELSE ImpressionOf(Last(own))]

NamedBy(groups) ==
    UNION {{item.row.article : item \in ToSet(groups[i].items)}
               \cup ToSet(NewsHis[ImpressionOf(groups[i])]) : i \in DOMAIN groups}

-----------------------------------------------------------------------------
(* train.csv                                                               *)

ReplayInit ==
    /\ phase = "train" /\ limits \in ReplayLimits
    /\ trainFile = <<>> /\ validFile = <<>> /\ group = <<>>
    /\ tally = [k \in AllKeys |-> [exposures |-> 0, clicks |-> 0]]
    /\ firstSeen = [a \in News |-> Never]
    /\ sample = {} /\ selected = <<>> /\ tests = <<>>
    /\ profileTopics = [u \in Reader |-> NoImpression]
    /\ profileHistories = [u \in Reader |-> NoImpression]
    /\ referenced = {}

Opens(row) == \A i \in DOMAIN group : group[i].row.imp # row.imp
\* The rows of an impression are together, and its first row names its reader.
Grouped(file, row) == Opens(row) => \A i \in DOMAIN file : file[i].imp # row.imp
MixedUsers == \E i, j \in DOMAIN group : group[i].row.user # group[j].row.user

LoadFails ==
    /\ phase' = "failed"
    /\ UNCHANGED <<limits, trainFile, validFile, group, tally, firstSeen, sample, selected, tests,
                   profileTopics, profileHistories, referenced>>

\* append_training_group of each.
AppendTraining(groups, titles) ==
    /\ selected' = selected \o FlattenSeq([i \in DOMAIN groups |->
           [n \in DOMAIN groups[i].items |-> Scored(groups[i].items[n], groups[i].counts, titles)]])
    /\ profileHistories' = HistoriesWith(groups)
    /\ referenced' = referenced \cup NamedBy(groups)

\* Mutant of FlushedGroup: the score of a transition is read after the outcomes were counted.
FlushedGroupLate ==
    {[start |-> g.start, items |-> g.items, counts |-> TallyWith(g.items)] :
        g \in Groups(group, Len(trainFile) - Len(group) + 1)}

\* The impression that was read, with the counts before it.
FlushedGroup ==
    {[start |-> g.start, items |-> g.items, counts |-> tally] :
        g \in Groups(group, Len(trainFile) - Len(group) + 1)}

SampleWithGroup ==
    IF limits.train = NoLimit THEN {}
    ELSE KeptCases(sample \cup {g \in FlushedGroup : Len(g.items) <= limits.train})

\* flush_training_group: every impression counts, also one that is not kept.
CountGroup ==
    /\ tally' = TallyWith(group) /\ firstSeen' = FirstSeenWith(group)
    /\ profileTopics' = TopicsWith(InFileOrder(FlushedGroup))

ReadTrainRow(row) ==
    /\ phase = "train" /\ Len(trainFile) < MaxRows /\ Grouped(trainFile, row)
    /\ ~Malformed(row) /\ ~(Opens(row) /\ MixedUsers)
    /\ trainFile' = Append(trainFile, row)
    /\ IF Opens(row)
       THEN /\ CountGroup
            /\ sample' = SampleWithGroup
            /\ AppendTraining(IF limits.train = NoLimit THEN InFileOrder(FlushedGroup) ELSE <<>>, {})
            /\ group' = <<Captured(tally', firstSeen', row, 0)>>
       ELSE /\ group' = Append(group, Captured(tally, firstSeen, row, Len(group)))
            /\ UNCHANGED <<tally, firstSeen, sample, selected, profileTopics, profileHistories,
                           referenced>>
    /\ UNCHANGED <<phase, limits, validFile, tests>>

TrainRowRaises(row) ==
    /\ phase = "train" /\ Len(trainFile) < MaxRows
    /\ Malformed(row) \/ (Opens(row) /\ MixedUsers)
    /\ LoadFails

\* The articles that were exposed in training; fit_title_idf_model takes these alone.
Exposed(counts) == {a \in News : counts[<<"article", a>>].exposures > 0}

\* The end of the file: the last impression, the title model, and what the heap has kept.
EndOfTrain ==
    /\ phase = "train"
    /\ IF MixedUsers THEN LoadFails
       ELSE LET new == IF limits.train = NoLimit THEN FlushedGroup ELSE SampleWithGroup
                titles == Exposed(TallyWith(group))
                appended == FlattenSeq([i \in DOMAIN InFileOrder(new) |->
                    LET g == InFileOrder(new)[i]
                    IN  [n \in DOMAIN g.items |-> Scored(g.items[n], g.counts, titles)]])
            IN  /\ CountGroup
                /\ selected' = [i \in DOMAIN selected |-> [selected[i] EXCEPT !.titles = titles]]
                                 \o appended
                /\ profileHistories' = HistoriesWith(InFileOrder(new))
                /\ referenced' = referenced \cup NamedBy(InFileOrder(new))
                /\ phase' = "valid" /\ group' = <<>> /\ sample' = {}
                /\ UNCHANGED <<limits, trainFile, validFile, tests>>

-----------------------------------------------------------------------------
(* valid.csv                                                               *)

\* A candidate that is shown twice counts once, with its first label.
FirstShown(items) ==
    {i \in DOMAIN items : \A j \in 1..(i - 1) : items[j].row.article # items[i].row.article}
Relevant(items) == {items[i].row.article : i \in {j \in FirstShown(items) : items[j].row.click}}

\* Mutant of TestOf: the candidates are judged by the evidence of the sampled cases alone.
TestOfSample(g) ==
    LET counts == Counted([i \in DOMAIN selected |-> selected[i].case.row], AllKeys)
    IN  [impression |-> ImpressionOf(g), user |-> UserOf(g),
         candidates |-> {Scored(Captured(counts, firstSeen, g.items[i].row,
                                         Cardinality({j \in FirstShown(g.items) : j < i})),
                                counts, Exposed(counts)) : i \in FirstShown(g.items)},
         relevant |-> Relevant(g.items)]

TestOf(g) ==
    [impression |-> ImpressionOf(g), user |-> UserOf(g),
     candidates |-> {Scored(Captured(tally, firstSeen, g.items[i].row,
                                     Cardinality({j \in FirstShown(g.items) : j < i})),
                            tally, Exposed(tally)) : i \in FirstShown(g.items)},
     relevant |-> Relevant(g.items)]

\* append_validation_group of each: without a relevant candidate only the history stays.
Judge(groups) ==
    LET usable == SelectSeq(groups, LAMBDA g : Relevant(g.items) # {})
    IN  /\ tests' = tests \o [i \in DOMAIN usable |-> TestOf(usable[i])]
        /\ profileTopics' = TopicsWith(usable)
        /\ profileHistories' = HistoriesWith(groups)
        /\ referenced' = referenced \cup NamedBy(groups)

\* flush_validation_group: an impression without a click is left out.
ClickedGroup ==
    {g \in Groups(group, Len(validFile) - Len(group) + 1) :
        \E i \in DOMAIN g.items : g.items[i].row.click}
TestSampleWithGroup == IF limits.eval = NoLimit THEN {} ELSE KeptTests(sample \cup ClickedGroup)

\* Rows are looked at when their impression is complete.
GroupRaises == MixedUsers \/ \E i \in DOMAIN group : Malformed(group[i].row)

ReadValidRow(row) ==
    /\ phase = "valid" /\ Len(trainFile) + Len(validFile) < MaxRows /\ Grouped(validFile, row)
    /\ ~(Opens(row) /\ GroupRaises)
    /\ validFile' = Append(validFile, row)
    /\ IF Opens(row)
       THEN /\ sample' = TestSampleWithGroup
            /\ Judge(IF limits.eval = NoLimit THEN InFileOrder(ClickedGroup) ELSE <<>>)
            /\ group' = <<[row |-> row]>>
       ELSE /\ group' = Append(group, [row |-> row])
            /\ UNCHANGED <<sample, tests, profileTopics, profileHistories, referenced>>
    /\ UNCHANGED <<phase, limits, trainFile, tally, firstSeen, selected>>

ValidRowRaises(row) == phase = "valid" /\ Opens(row) /\ GroupRaises /\ LoadFails

EndOfValid ==
    /\ phase = "valid"
    /\ IF GroupRaises THEN LoadFails
       ELSE /\ Judge(InFileOrder(IF limits.eval = NoLimit THEN ClickedGroup ELSE TestSampleWithGroup))
            /\ phase' = IF selected = <<>> \/ tests' = <<>> THEN "failed" ELSE "loaded"
            /\ group' = <<>> /\ sample' = {}
            /\ UNCHANGED <<limits, trainFile, validFile, tally, firstSeen, selected>>

ReplayNext ==
    \/ \E row \in TrainRow : ReadTrainRow(row) \/ TrainRowRaises(row)
    \/ EndOfTrain
    \/ \E row \in ValidRow : ReadValidRow(row) \/ ValidRowRaises(row)
    \/ EndOfValid

ReplaySpec == ReplayInit /\ [][ReplayNext]_replayVars

-----------------------------------------------------------------------------
(* What is loaded                                                          *)

SelectedUsers ==
    {selected[i].case.row.user : i \in DOMAIN selected} \cup {tests[i].user : i \in DOMAIN tests}

\* recent_by_user: the last test of a user, else the last training event.
RecentOf(u) ==
    LET judged == SelectSeq(tests, LAMBDA t : t.user = u)
        trained == SelectSeq(selected, LAMBDA e : e.case.row.user = u)
    IN  IF judged # <<>> THEN Last(judged).impression ELSE Last(trained).case.row.imp

LoadedArticles == referenced \cap News

-----------------------------------------------------------------------------
(* Properties                                                              *)

RowsShown(file, imp) == SelectSeq(file, LAMBDA row : row.imp = imp)
Before(imp) ==
    SubSeq(trainFile, 1, SelectInSeq(trainFile, LAMBDA row : row.imp = imp) - 1)

\* Evidence e of a row is what the rows of file say.
SaidBy(e, file) ==
    LET counts == Counted(file, KeysOf(e.case.row))
    IN  /\ e.case.article = counts[<<"article", e.case.row.article>>]
        /\ e.case.first = FirstIn(file, e.case.row.article)
        /\ e.case.sequence = Len(file)
        /\ \A k \in TransitionKeys(e.case.row) : e.transition[k] = counts[k]

\* A training case carries what all rows before its impression say, whether their impressions
\* were kept or not, and nothing of its own impression or of a later one.
Prequential == \A i \in DOMAIN selected : SaidBy(selected[i], Before(selected[i].case.row.imp))

\* A candidate of a test is judged by all of train.csv and by no other validation row; lexical
\* rarity of cases and candidates alike comes from the articles that training exposed.
JudgedByTraining ==
    LET titles == {trainFile[i].article : i \in DOMAIN trainFile}
    IN  /\ \A i \in DOMAIN tests : \A e \in tests[i].candidates :
               SaidBy(e, trainFile) /\ e.titles = titles
        /\ phase \in {"valid", "loaded"} => \A i \in DOMAIN selected : selected[i].titles = titles

\* Impressions are kept whole and in the order of the file, within the limit; and those of the
\* best priorities that fit together are among the kept.
BestOf(imps, size(_), limit) ==
    {i \in imps : MapThenSumSet(size, {j \in imps : SamplePriority[j] <= SamplePriority[i]}) <= limit}
SampledWhole ==
    LET shown == {trainFile[i].imp : i \in DOMAIN trainFile}
        kept == {selected[i].case.row.imp : i \in DOMAIN selected}
        size(imp) == Len(RowsShown(trainFile, imp))
        fitting == {imp \in shown : size(imp) <= limits.train}
    IN  phase \in {"valid", "loaded"} =>
            /\ [i \in DOMAIN selected |-> selected[i].case.row]
                   = SelectSeq(trainFile, LAMBDA row : row.imp \in kept)
            /\ IF limits.train = NoLimit THEN kept = shown
               ELSE Len(selected) <= limits.train /\ BestOf(fitting, size, limits.train) \subseteq kept

Clicked == {validFile[i].imp : i \in {j \in DOMAIN validFile : validFile[j].click}}
TestsAreBest ==
    LET one(imp) == 1
        best == IF limits.eval = NoLimit THEN Clicked ELSE BestOf(Clicked, one, limits.eval)
        judged == {tests[i].impression : i \in DOMAIN tests}
    IN  phase = "loaded" =>
            \* a clicked impression is left out only for a candidate with two labels
            /\ judged \subseteq best
            /\ \A imp \in best \ judged : \E i, j \in DOMAIN validFile :
                   /\ validFile[i].imp = imp /\ validFile[j].imp = imp
                   /\ validFile[i].article = validFile[j].article
                   /\ validFile[i].click # validFile[j].click

\* Every article that a case, a test or a profile of a loaded user names is loaded when the corpus
\* has it, and a user's stored history and recent subcategories are of one impression, unless an
\* impression of that user was left out for its labels.
Closed ==
    phase = "loaded" =>
        /\ \A i \in DOMAIN selected : selected[i].case.row.article \in LoadedArticles
        /\ \A i \in DOMAIN tests : \A e \in tests[i].candidates :
               e.case.row.article \in LoadedArticles
        /\ \A u \in SelectedUsers :
               /\ ToSet(Known(profileHistories[u])) \subseteq LoadedArticles
               /\ \/ profileHistories[u] = RecentOf(u)
                  \/ /\ profileHistories[u] \in Clicked
                     /\ \A i \in DOMAIN tests : tests[i].impression # profileHistories[u]

\* The topics of a user are of one impression of that user, and of all that train.csv shows, kept
\* or not, and of all tests none has a longer known history.
TopicsLongest ==
    phase = "loaded" =>
        \A u \in SelectedUsers :
            LET own == {trainFile[i].imp : i \in {j \in DOMAIN trainFile : trainFile[j].user = u}}
                           \cup {tests[i].impression : i \in {j \in DOMAIN tests : tests[j].user = u}}
            IN  /\ profileTopics[u] \in own \cup {NoImpression}
                /\ \A imp \in own : KnownLength(imp) <= KnownLength(profileTopics[u])

(* _load_reczoo_archive: no case and no test sees its own or a later outcome, samples are of whole *)
(* impressions by priority alone, profiles are of the impressions they should be of, and what is   *)
(* loaded names only what is loaded.                                                              *)
ReplaySound ==
    Prequential /\ JudgedByTraining /\ SampledWhole /\ TestsAreBest /\ Closed /\ TopicsLongest
=============================================================================
