-------------------------------- MODULE MCLab --------------------------------
(***************************************************************************)
(* The Lab's background mining, and beside it the frozen model it may be   *)
(* started from, its semantic previews, its tournament and the relational  *)
(* evidence.  One component at a time: the initial state picks one, and    *)
(* only that one takes steps. They share no state that these modules       *)
(* model, so their product would show nothing more. An idle component      *)
(* starts in one of its initial states.                                    *)
(***************************************************************************)
EXTENDS MCBackgroundMining, FrozenModel, SemanticPreview, PairTournament, RelationalProjection

VARIABLE part

LabInit ==
    /\ part \in {"mining", "frozen", "preview", "tournament", "projection"}
    /\ IF part = "mining" THEN TRUE ELSE config = "base"
    /\ IF part = "projection" THEN TRUE
       ELSE /\ evidence = CHOOSE e \in EvidenceOf : TRUE
            /\ contexts = CHOOSE c \in DataSet : TRUE
    /\ Init /\ FrozenInit /\ PreviewInit /\ TournamentInit /\ ProjectionInit

LabNext ==
    \/ /\ part = "mining" /\ Next
       /\ UNCHANGED <<frozenVars, previewVars, pairVars, projectionVars, part>>
    \/ /\ part = "frozen" /\ FrozenNext
       /\ UNCHANGED <<vars, previewVars, pairVars, projectionVars, part>>
    \/ /\ part = "preview" /\ PreviewNext
       /\ UNCHANGED <<vars, frozenVars, pairVars, projectionVars, part>>
    \/ /\ part = "tournament" /\ TournamentNext
       /\ UNCHANGED <<vars, frozenVars, previewVars, projectionVars, part>>
    \/ /\ part = "projection" /\ ProjectionNext
       /\ UNCHANGED <<vars, frozenVars, previewVars, pairVars, part>>

LabSpec ==
    LabInit /\ [][LabNext]_<<vars, frozenVars, previewVars, pairVars, projectionVars, part>>

-----------------------------------------------------------------------------
(* PairTournament *)
MCPool == <<3, 1, 4, 2, 5>>
MCTopicOf == [a \in 1..5 |-> IF a \in {1, 2, 3} THEN "news" ELSE "sport"]
MCSubcategoryOf == [a \in 1..5 |-> IF a \in {1, 2} THEN "world" ELSE IF a = 3 THEN "local" ELSE "ball"]
MCTextGrade == [a \in 1..5 |-> CASE a = 1 -> 2 [] a = 2 -> 1 [] a = 3 -> 0 [] a = 4 -> 3 [] a = 5 -> 2]
MCRule(d, f, p, m) == [dependency |-> d, family |-> f, premises |-> p, margin |-> m]
MCRulesOf ==
    <<<<MCRule("d1", "structured", {<<"affinity", "left">>}, 3),
        MCRule("d1", "structured", {<<"affinity", "left">>, <<"topic", "different">>}, -4),
        MCRule("d2", "text", {<<"text", "right">>}, -2),
        MCRule("d3", "text", {<<"text", "left">>, <<"topic", "same">>}, 1)>>,
      <<MCRule("d1", "structured", {<<"topic", "same">>, <<"affinity", "right">>}, 2),
        MCRule("d2", "text", {<<"text", "left">>}, 3)>>>>
MCPointScore == <<6, 8>>
MCSkipScore == [exact |-> 1, subcategory |-> 2, topic |-> 3]

(* RelationalProjection *)
MCCtx(user, candidate, clicked) ==
    [user |-> user, candidate |-> candidate, history |-> clicked]
MCDataSet ==
    {{MCCtx(1, "c", <<"g", "h">>)}, {MCCtx(1, "c", <<"h", "g", "h">>)}, {MCCtx(1, "c", <<>>)},
     {MCCtx(1, "c", <<"g">>), MCCtx(1, "h", <<"g", "g">>)},
     {MCCtx(1, "c", <<"h">>), MCCtx(2, "c", <<"h">>)}}
MCEvidenceOf ==
    {[entity |-> e, concept |-> k] :
        e \in [{"c", "g", "h"} -> {{}, {"v"}, {"v", "w"}, Unobserved}],
        k \in {[a \in {"c", "g", "h"} |-> {}], [a \in {"c", "g", "h"} |-> {"v"}],
               [a \in {"c", "g", "h"} |-> IF a = "g" THEN Unobserved ELSE {"v"}]}}

\* The engines, readers, processes and two articles are the same values.
ModelSymmetry == Permutations(MCEngine)
=============================================================================
