----------------------------- MODULE MCLearning -----------------------------
(***************************************************************************)
(* What learns and judges rules, one component at a time: the initial      *)
(* state picks a component, and only that one takes steps. They share no   *)
(* state that these modules model, so their product would show nothing     *)
(* more. An idle component starts in one of its initial states.            *)
(***************************************************************************)
EXTENDS MiningCache, RuleSelection, TrainingAttempt, TrainingGate,
        ConfirmationSplit, ExtractionBatch, MindReplay

VARIABLE part

LearningInit ==
    /\ part \in {"mining", "selection", "attempt", "gate", "split", "extract", "replay"}
    /\ IF part = "attempt" THEN TRUE
       ELSE \E cohort \in Cohort, output \in Output :
                /\ cohort = CHOOSE c \in Cohort : TRUE
                /\ output = CHOOSE o \in Output : TRUE
                /\ runs = [r \in Run |-> [at |-> "start", cohort |-> cohort, output |-> output,
                                        key |-> CHOOSE k \in Key : TRUE, status |-> "none",
                                        reported |-> FALSE]]
    /\ IF part = "gate" THEN TRUE
       ELSE hosts = [h \in Host |-> [data |-> "given", design |-> FirstDesign,
                                    model |-> MinedModel("given", "all", FirstDesign),
                                    online |-> FALSE]]
    /\ MiningInit /\ SelectionInit /\ AttemptInit /\ GateInit /\ SplitInit
    /\ ExtractInit /\ ReplayInit
    /\ part # "replay" => limits = [train |-> NoLimit, eval |-> NoLimit]

LearningNext ==
    \/ /\ part = "mining" /\ MiningNext
       /\ UNCHANGED <<selectionVars, attemptVars, gateVars, log, extractVars, replayVars, part>>
    \/ /\ part = "selection" /\ SelectionNext
       /\ UNCHANGED <<miningVars, attemptVars, gateVars, log, extractVars, replayVars, part>>
    \/ /\ part = "attempt" /\ AttemptNext
       /\ UNCHANGED <<miningVars, selectionVars, gateVars, log, extractVars, replayVars, part>>
    \/ /\ part = "gate" /\ GateNext
       /\ UNCHANGED <<miningVars, selectionVars, attemptVars, log, extractVars, replayVars, part>>
    \/ /\ part = "split" /\ SplitNext
       /\ UNCHANGED <<miningVars, selectionVars, attemptVars, gateVars, extractVars, replayVars, part>>
    \/ /\ part = "extract" /\ ExtractNext
       /\ UNCHANGED <<miningVars, selectionVars, attemptVars, gateVars, log, replayVars, part>>
    \/ /\ part = "replay" /\ ReplayNext
       /\ UNCHANGED <<miningVars, selectionVars, attemptVars, gateVars, log, extractVars, part>>

LearningSpec ==
    LearningInit /\ [][LearningNext]_<<miningVars, selectionVars, attemptVars, gateVars,
        log, extractVars, replayVars, part>>

-----------------------------------------------------------------------------
(* RuleSelection *)
MCFeatures(llm, quantile, affinity, attention, scope) ==
    {<<"llm", llm>>, <<"quantile", quantile>>, <<"affinity", affinity>>, <<"attention", attention>>,
     <<"scope", scope>>}
MCIntervals ==
    LET a == MCFeatures("left", "left", "left", "left", "cold")
        b == MCFeatures("left", "left", "left", "right", "cold")
        c == MCFeatures("right", "equal", "left", "left", "warm")
        d == MCFeatures("left", "right", "right", "left", "cold")
    IN  {<<a, b, c>>, <<a, a, c>>, <<c, d, a>>, <<a, c, d, a>>, <<a, a>>, <<b, d, c>>, <<a, c, a, d>>,
         <<OpenImpression>>, <<d, d, c>>, <<c, b, b, a>>}
MCEvidenceOwner ==
    [p \in {"llm", "quantile", "affinity", "attention", "scope"} |->
        IF p \in {"llm", "quantile", "attention"} THEN "text" ELSE p]

(* TrainingGate *)
MCCohortOf == [d \in Dataset |-> IF d = "grown" THEN "second" ELSE "first"]

(* ExtractionBatch *)
MCShardOf == [k \in Text |-> 1 + (k % 2)]

(* MindReplay: impressions of one and of two rows, one with two readers, a candidate shown
   twice with two labels, articles that the corpus does not have, and in both files one
   impression more than the limits of 2 and 3 cases and of 1 test can keep *)
ReplayRow(imp, user, article, click) ==
    [imp |-> imp, user |-> user, article |-> article, click |-> click]
MCSubcategory == [a \in {"n1", "n2", "n3"} |-> IF a = "n3" THEN "sports" ELSE "finance"]
MCTrainRow ==
    {ReplayRow("a", "u", "n1", TRUE), ReplayRow("a", "u", "n3", FALSE),
     ReplayRow("b", "v", "n1", FALSE), ReplayRow("b", "v", "n3", TRUE),
     ReplayRow("c", "u", "n1", TRUE), ReplayRow("c", "v", "n1", FALSE),
     ReplayRow("c", "u", "gone", FALSE)}
MCValidRow ==
    {ReplayRow("d", "u", "n1", TRUE), ReplayRow("d", "u", "n1", FALSE),
     ReplayRow("d", "u", "gone", TRUE),
     ReplayRow("e", "v", "n2", TRUE), ReplayRow("e", "u", "n3", FALSE)}
MCNewsHis ==
    [imp \in {"a", "b", "c", "d", "e"} |->
        CASE imp = "a" -> <<>> [] imp = "b" -> <<"n2">> [] imp = "c" -> <<"n1", "n3", "gone">>
          [] imp = "d" -> <<"n1", "n3", "n2">> [] imp = "e" -> <<"n3">>]
MCSamplePriority ==
    [imp \in {"a", "b", "c", "d", "e"} |->
        CASE imp = "a" -> 3 [] imp = "b" -> 1 [] imp = "c" -> 2 [] imp = "d" -> 5 [] imp = "e" -> 4]
MCReplayLimits ==
    {[train |-> NoLimit, eval |-> NoLimit], [train |-> 2, eval |-> 1], [train |-> 3, eval |-> 1]}

ModelSymmetry == Permutations(Unit) \cup Permutations(PointPlan)
=============================================================================
