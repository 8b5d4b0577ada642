--------------------------- MODULE ConfirmationSplit ---------------------------
(***************************************************************************)
(* prepare_training_confirmation (evaluation/training_gate.py): the training *)
(* log is cut at whole impressions into an earlier build prefix and a later *)
(* confirmation tail.  The log is any sequence of events; an event has an   *)
(* impression, a time and an outcome, and its position stands for its       *)
(* article and its causal context.  Fields that make one event or one       *)
(* impression invalid (two users, a repeated candidate, a missing action,   *)
(* timestamps of two kinds) are not among the logs.                         *)
(***************************************************************************)
EXTENDS Naturals, FiniteSets, SequencesExt

CONSTANTS
    Impression,
    LastTime,    \* times are 1..LastTime
    MaxLog       \* bound on the events of a log

ASSUME SplitAssumption == {LastTime, MaxLog} \subseteq Nat

VARIABLE log

LogEvent == [impression : Impression, at : 1..LastTime, positive : BOOLEAN]

SplitInit == log = <<>>
\* The log of the dataset, in any order the dataset has it.
LogEntry ==
    /\ Len(log) < MaxLog
    /\ \E event \in LogEvent : log' = Append(log, event)
SplitNext == LogEntry
SplitSpec == SplitInit /\ [][SplitNext]_log

-----------------------------------------------------------------------------
(* Grouping                                                                *)

Shown(events) == {events[i].impression : i \in DOMAIN events}

\* What a sequence has of a set, in its order.
Among(s, S) ==
    LET upto[n \in 0..Len(s)] ==
            IF n = 0 THEN <<>>
            ELSE IF s[n] \in S THEN Append(upto[n - 1], s[n]) ELSE upto[n - 1]
    IN  upto[Len(s)]

Rows(events, imp) == Among(events, [impression : {imp}, at : 1..LastTime, positive : BOOLEAN])
Times(events, imp) == {events[i].at : i \in {j \in DOMAIN events : events[j].impression = imp}}
Earliest(events, imp) == Min(Times(events, imp))
Latest(events, imp) == Max(Times(events, imp))
FirstRow(events, imp) == Min({i \in DOMAIN events : events[i].impression = imp})

\* An impression counts for AUC when it has both outcomes.
Complete(events, imp) ==
    {row.positive : row \in ToSet(Rows(events, imp))} = {TRUE, FALSE}

\* Impressions by their earliest time, then by their place in the log.
IsEarlier(events, i, j) ==
    \/ Earliest(events, i) < Earliest(events, j)
    \/ Earliest(events, i) = Earliest(events, j) /\ FirstRow(events, i) < FirstRow(events, j)
Position(events, imp) == 1 + Cardinality({i \in Shown(events) : IsEarlier(events, i, imp)})
Chronology(events) ==
    [k \in 1..Cardinality(Shown(events)) |->
        CHOOSE imp \in Shown(events) : Position(events, imp) = k]

\* Mutant of Ordered: impressions may end and begin at the same time.
OrderedOrTied(events) ==
    LET order == Chronology(events) IN
    \A k \in 1..Len(order) - 1 : Latest(events, order[k]) <= Earliest(events, order[k + 1])

\* Neighbours neither overlap nor tie.
Ordered(events) ==
    LET order == Chronology(events) IN
    \A k \in 1..Len(order) - 1 : Latest(events, order[k]) < Earliest(events, order[k + 1])

-----------------------------------------------------------------------------
(* The cut                                                                 *)

\* Mutant of Cutoff: only the complete impressions take part.
CutoffComplete(events) ==
    (2 * Cardinality({imp \in Shown(events) : Complete(events, imp)})) \div 3

\* PUBLIC_BUILD_FRACTION is two thirds of all impressions.
Cutoff(events) == (2 * Cardinality(Shown(events))) \div 3

BuildGroups(events) == SubSeq(Chronology(events), 1, Cutoff(events))
TailGroups(events) == SubSeq(Chronology(events), Cutoff(events) + 1, Len(Chronology(events)))
CompleteOf(groups, events) == Among(groups, {imp \in Impression : Complete(events, imp)})

\* What the function refuses, in its order; "" is a split.
Refusal(events) ==
    IF Cardinality(Shown(events)) < 2 THEN "at least two impressions"
    ELSE IF ~Ordered(events) THEN "chronology overlaps or ties"
    ELSE IF Cutoff(events) \notin 1..Cardinality(Shown(events)) - 1 THEN "empty partition"
    ELSE IF CompleteOf(BuildGroups(events), events) = <<>> THEN "no complete build impression"
    ELSE IF CompleteOf(TailGroups(events), events) = <<>> THEN "no complete tail impression"
    ELSE ""

RowsOf(groups, events) == FlattenSeq([k \in DOMAIN groups |-> Rows(events, groups[k])])

\* The derived dataset, and the payload whose digest names the cohort.
Split(events) ==
    LET build == BuildGroups(events)
        tail == TailGroups(events)
    IN  [build |-> RowsOf(build, events),
         cases |-> CompleteOf(tail, events),
         cohort |-> <<[k \in DOMAIN build |-> Rows(events, build[k])],
                      [k \in DOMAIN tail |-> Rows(events, tail[k])]>>]

-----------------------------------------------------------------------------
(* An event that trains a compared model is earlier than every event of the *)
(* slates that judge it, and of another impression; a slate is judged whole *)
(* (training_gate.py:1-7, :332-337).                                        *)
NoLeakage ==
    Refusal(log) = "" =>
      LET split == Split(log)
          judged == {i \in DOMAIN log : log[i].impression \in ToSet(split.cases)}
      IN \A event \in ToSet(split.build), i \in judged : event.at < log[i].at

(* "an unusable tail impression can never move a later impression into      *)
(* train": with the slates left out afterwards put back, what trains is two *)
(* thirds of all impressions, and making a slate of the tail unusable       *)
(* changes nothing of what trains.                                          *)
UnusableTailMovesNothing ==
    Refusal(log) = "" =>
      \A imp \in ToSet(TailGroups(log)) :
        LET spoiled == [i \in DOMAIN log |-> IF log[i].impression = imp
                                             THEN [log[i] EXCEPT !.positive = FALSE] ELSE log[i]]
        IN /\ Split(spoiled).build = Split(log).build
           /\ ToSet(Split(log).cases) \subseteq ToSet(Split(spoiled).cases) \cup {imp}

(* The cohort that is consumed by one decision does not depend on how the   *)
(* log interleaves its impressions: swapping two neighbours of different    *)
(* impressions gives the same split and the same fingerprint.               *)
CohortOfChronology ==
    \A i \in 1..Len(log) - 1 :
      log[i].impression # log[i + 1].impression =>
        LET swapped == [log EXCEPT ![i] = log[i + 1], ![i + 1] = log[i]] IN
        /\ Refusal(swapped) = Refusal(log)
        /\ Refusal(log) = "" => Split(swapped) = Split(log)

(* training_gate.py: what trains the compared models and what judges them   *)
(* are apart, whatever log they are cut from.                               *)
SplitSound == NoLeakage /\ UnusableTailMovesNothing /\ CohortOfChronology
=============================================================================
