--------------------------- MODULE LearningProofs ----------------------------
(*****************************************************************************)
(* Theorems about what learns and judges rules: the durable registry of     *)
(* confirmations, for any number of runs, cohorts, outputs and faults; the  *)
(* gate of the Labs of one process, for any Labs, datasets and designs; the *)
(* caches of the miner, wherever an operation raises; the batch extraction  *)
(* of article facts, over its retries, restarts and deaths; the selection   *)
(* of pair rules, from any log; and the cut of the training log.            *)
(*****************************************************************************)
EXTENDS TrainingAttempt, TrainingGate, MiningCache, RuleSelection, ConfirmationSplit,
        ExtractionBatch, FoldFacts

(***************************************************************************)
(* The durable registry                                                    *)
(***************************************************************************)

Place == {"start", "claim", "claim_write", "claim_sync", "confirm", "publish", "publish_sync",
          "finalize", "replace", "final_sync", "error", "replace_error", "error_sync", "dead"}
Status == {"none", "pass", "hold"}
RunState == [at : Place, cohort : Cohort, output : Output, key : Key, status : Status,
             reported : BOOLEAN]
Record == [status : {"absent", "corrupt", "running", "error"} \cup Status, by : Run \cup {NoRun}]

AttemptTypeOK ==
    /\ record \in [Cohort -> Record] /\ recordLeft \in [Cohort -> SUBSET Record]
    /\ artifact \in [Output -> Run \cup {NoRun}]
    /\ artifactLeft \in [Output -> SUBSET (Run \cup {NoRun})]
    /\ runs \in [Run -> RunState]
    /\ looked \in [Cohort -> SUBSET Run]

-----------------------------------------------------------------------------
\* A run that has its claim and has not ended.
Active(r) == runs[r].at \notin {"start", "claim", "dead"}

\* The record on disk is one that a loss of power may leave, and an output
\* holds what it may hold then, unless it is being published.
Durable ==
    /\ \A c \in Cohort : record[c] \in recordLeft[c]
    /\ \A c \in Cohort : looked[c] # {} => Absent \notin recordLeft[c]
    /\ \A c \in Cohort : \A r \in looked[c] : looked[c] = {r} /\ Mine(r) = c

\* An active run is the only one of its cohort, and its record is there: for
\* good, when it is about to look.
Claimed ==
    /\ \A r \in Run : Active(r) => record[Mine(r)] # Absent
    /\ \A r, s \in Run : Active(r) /\ Active(s) /\ Mine(r) = Mine(s) => r = s
    /\ \A r \in Run : AtStep(r, "confirm") => Absent \notin recordLeft[Mine(r)]
    /\ \A r \in Run :
         runs[r].at \in {"start", "claim", "claim_write", "claim_sync", "confirm"} =>
             r \notin looked[Mine(r)]
    /\ \A r \in Run :
         runs[r].at \in {"claim_write", "claim_sync", "confirm"} => looked[Mine(r)] = {}
    /\ \A r \in Run : runs[r].at \in {"replace", "replace_error"} => record[Mine(r)] = Running

\* r looked at its cohort, decided, and its artifact is there for good.
Bound(r) ==
    /\ looked[Mine(r)] = {r} /\ runs[r].status \in {"pass", "hold"}
    /\ artifact[runs[r].output] = r /\ artifactLeft[runs[r].output] = {r}

\* What a run has reached on its way to the report.
Reached(r) ==
    /\ runs[r].at \in {"publish", "publish_sync"} =>
         looked[Mine(r)] = {r} /\ runs[r].status \in {"pass", "hold"}
    /\ AtStep(r, "publish_sync") => artifact[runs[r].output] = r
    /\ runs[r].at \in {"finalize", "replace", "final_sync"} => Bound(r)
    /\ AtStep(r, "final_sync") => record[Mine(r)] = Final(runs[r].status, r)
    /\ runs[r].reported =>
         /\ AtStep(r, "dead") /\ Bound(r)
         /\ recordLeft[Mine(r)] = {Final(runs[r].status, r)}
Progress == \A r \in Run : Reached(r)

\* A decision in the registry is that of a run whose artifact is there.
Backed(c, final) ==
    final.status \in {"pass", "hold"} =>
        /\ final.by \in Run /\ Mine(final.by) = c
        /\ final.status = runs[final.by].status /\ Bound(final.by)
Decided == \A c \in Cohort : \A final \in recordLeft[c] : Backed(c, final)

AInv == AttemptTypeOK /\ Durable /\ Claimed /\ Progress /\ Decided

-----------------------------------------------------------------------------
LEMMA Places ==
    /\ {"start", "claim", "claim_write", "claim_sync", "confirm"} \subseteq Place
    /\ {"publish", "publish_sync", "finalize", "replace", "final_sync"} \subseteq Place
    /\ {"error", "replace_error", "error_sync", "dead"} \subseteq Place
BY DEF Place

\* What a step of one run leaves of the others.
LEMMA StepsFacts ==
    ASSUME AttemptTypeOK, NEW r \in Run, NEW place \in Place, Steps(r, place)
    PROVE  /\ runs' \in [Run -> RunState]
           /\ runs'[r].at = place
           /\ runs'[r].cohort = runs[r].cohort /\ runs'[r].output = runs[r].output
           /\ runs'[r].status = runs[r].status /\ runs'[r].reported = runs[r].reported
           /\ \A s \in Run : s # r => runs'[s] = runs[s]
BY DEF AttemptTypeOK, RunState, Steps

LEMMA WritesFacts ==
    ASSUME AttemptTypeOK, NEW c \in Cohort, NEW value \in Record, NEW left \in SUBSET Record,
           Writes(c, value, left)
    PROVE  /\ record' \in [Cohort -> Record] /\ recordLeft' \in [Cohort -> SUBSET Record]
           /\ record'[c] = value /\ recordLeft'[c] = left
           /\ \A d \in Cohort : d # c => record'[d] = record[d] /\ recordLeft'[d] = recordLeft[d]
BY DEF AttemptTypeOK, Writes

LEMMA Fields ==
    ASSUME AttemptTypeOK, NEW r \in Run
    PROVE  /\ runs[r].at \in Place /\ Mine(r) \in Cohort /\ runs[r].output \in Output
           /\ runs[r].status \in Status /\ runs[r].reported \in BOOLEAN
BY DEF AttemptTypeOK, RunState, Mine

LEMMA AttemptInitInv == AttemptInit => AInv
<1> SUFFICES ASSUME AttemptInit PROVE AInv
  OBVIOUS
<1> USE DEF AttemptInit
<1>1. AttemptTypeOK
  <2>1. runs \in [Run -> RunState]
    <3>1. PICK cohort \in [Run -> Cohort], output \in [Run -> Output], key \in [Run -> Key] :
            runs = [r \in Run |-> [at |-> "start", cohort |-> cohort[r], output |-> output[r],
                                  key |-> key[r], status |-> "none", reported |-> FALSE]]
      OBVIOUS
    <3> QED
      BY ONLY <3>1, Places DEF RunState, Status
  <2>2. Absent \in Record
    BY DEF Absent, Record
  <2>3. /\ record = [c \in Cohort |-> Absent] /\ recordLeft = [c \in Cohort |-> {Absent}]
        /\ artifact = [o \in Output |-> NoRun] /\ artifactLeft = [o \in Output |-> {NoRun}]
        /\ looked = [c \in Cohort |-> {}]
    OBVIOUS
  <2> HIDE DEF AttemptInit
  <2> QED
    BY <2>1, <2>2, <2>3 DEF AttemptTypeOK
<1>2. \A r \in Run : runs[r].at = "start" /\ ~runs[r].reported /\ Mine(r) \in Cohort
  BY DEF Mine
<1>3. Durable /\ Claimed
  BY <1>2 DEF Durable, Claimed, Active, AtStep
<1>4. Progress
  BY <1>2 DEF Progress, Reached, AtStep
<1>5. Decided
  <2>1. Absent.status = "absent"
    BY DEF Absent
  <2>2. \A c \in Cohort : recordLeft[c] = {Absent}
    OBVIOUS
  <2> QED
    BY ONLY <2>1, <2>2 DEF Decided, Backed
<1> QED
  BY <1>1, <1>3, <1>4, <1>5 DEF AInv

-----------------------------------------------------------------------------
\* A run that changes nothing but its place: it is refused, ends, or takes or
\* releases the lock.
LEMMA Moves ==
    ASSUME AInv, NEW r \in Run, NEW place \in Place, Steps(r, place),
           UNCHANGED <<record, recordLeft, artifact, artifactLeft, looked>>,
           runs[r].at # "dead",
           \/ place = "dead"
           \/ runs[r].at = "start" /\ place = "claim"
           \/ Active(r) /\ place \in {"error", "replace_error"}
           \/ runs[r].at = "finalize" /\ place = "replace",
           place \in {"replace", "replace_error"} => record[Mine(r)] = Running
    PROVE  AInv'
<1>0. /\ AttemptTypeOK /\ Durable /\ Claimed /\ Progress /\ Decided
      /\ runs' \in [Run -> RunState] /\ looked \in [Cohort -> SUBSET Run]
      /\ \A s \in Run : /\ runs'[s].cohort = runs[s].cohort /\ runs[s].cohort \in Cohort
                        /\ runs'[s].output = runs[s].output /\ runs'[s].status = runs[s].status
                        /\ runs'[s].reported = runs[s].reported
      /\ \A s \in Run : s # r => runs'[s].at = runs[s].at
      /\ runs'[r].at = place
  BY StepsFacts, Fields DEF AInv, AttemptTypeOK, Mine
<1> USE <1>0 DEF AtStep, Active, Mine
<1>1. AttemptTypeOK'
  BY DEF AttemptTypeOK
<1>2. Durable'
  BY DEF Durable
<1>3. Claimed'
  BY DEF Claimed
<1>a. \A s \in Run : Bound(s)' <=> Bound(s)
  BY DEF Bound
<1>4. Progress'
  <2> SUFFICES ASSUME NEW s \in Run PROVE Reached(s)'
    BY DEF Progress
  <2>1. Reached(s) /\ Reached(r) /\ (Bound(s)' <=> Bound(s))
    BY <1>a DEF Progress
  <2>2. CASE s = r
    BY <2>1, <2>2 DEF Reached, Final
  <2>3. CASE s # r
    BY <2>1, <2>3 DEF Reached, Final
  <2> QED
    BY <2>2, <2>3
<1>5. Decided'
  <2> SUFFICES ASSUME NEW c \in Cohort, NEW final \in recordLeft[c] PROVE Backed(c, final)'
    BY DEF Decided
  <2>1. Backed(c, final)
    BY DEF Decided
  <2> QED
    BY <2>1, <1>a DEF Backed
<1> QED
  BY <1>1, <1>2, <1>3, <1>4, <1>5 DEF AInv

-----------------------------------------------------------------------------
\* What a step that writes the record of r's cohort leaves alone.
LEMMA WriteFrame ==
    ASSUME AInv, NEW r \in Run, NEW place \in Place, Steps(r, place),
           NEW value \in Record, NEW left \in SUBSET Record, Writes(Mine(r), value, left),
           UNCHANGED <<artifact, artifactLeft, looked>>
    PROVE  /\ AttemptTypeOK' /\ runs'[r].at = place
           /\ \A s \in Run : /\ Mine(s) \in Cohort /\ Mine(s)' = Mine(s)
                             /\ runs'[s].status = runs[s].status
                             /\ runs'[s].reported = runs[s].reported
                             /\ runs'[s].output = runs[s].output
                             /\ (Bound(s)' <=> Bound(s))
           /\ \A s \in Run : s # r => runs'[s].at = runs[s].at
           /\ record'[Mine(r)] = value /\ recordLeft'[Mine(r)] = left
           /\ \A c \in Cohort : c # Mine(r) => record'[c] = record[c] /\ recordLeft'[c] = recordLeft[c]
<1>0. AttemptTypeOK /\ Mine(r) \in Cohort
  BY Fields DEF AInv
<1>1. /\ record' \in [Cohort -> Record] /\ recordLeft' \in [Cohort -> SUBSET Record]
      /\ record'[Mine(r)] = value /\ recordLeft'[Mine(r)] = left
      /\ \A c \in Cohort : c # Mine(r) => record'[c] = record[c] /\ recordLeft'[c] = recordLeft[c]
  BY <1>0, WritesFacts
<1>2. /\ runs' \in [Run -> RunState] /\ runs'[r].at = place
      /\ \A s \in Run : s # r => runs'[s] = runs[s]
      /\ \A s \in Run : /\ runs'[s].cohort = runs[s].cohort /\ runs'[s].output = runs[s].output
                        /\ runs'[s].status = runs[s].status
                        /\ runs'[s].reported = runs[s].reported
  BY <1>0, StepsFacts
<1>3. AttemptTypeOK'
  BY <1>0, <1>1, <1>2 DEF AttemptTypeOK
<1>4. \A s \in Run : Mine(s) \in Cohort /\ Mine(s)' = Mine(s) /\ (Bound(s)' <=> Bound(s))
  BY <1>0, <1>2, Fields DEF Mine, Bound
<1> QED
  BY <1>1, <1>2, <1>3, <1>4

\* The claim: r creates the record of its cohort, writes it, and synchronises it.
LEMMA Claims ==
    ASSUME AInv, NEW r \in Run, NEW place \in Place, Steps(r, place),
           runs[r].at \in {"claim", "claim_write", "claim_sync"},
           runs[r].at = "claim" => record[Mine(r)] = Absent,
           place \in {"claim_write", "claim_sync", "confirm"},
           NEW value \in Record, NEW left \in SUBSET Record, Writes(Mine(r), value, left),
           UNCHANGED <<artifact, artifactLeft, looked>>,
           value \in left, value # Absent, place = "confirm" => Absent \notin left,
           \A final \in left : final.status \notin {"pass", "hold"}
    PROVE  AInv'
<1>0. /\ AttemptTypeOK /\ Durable /\ Claimed /\ Progress /\ Decided
      /\ Mine(r) \in Cohort /\ looked \in [Cohort -> SUBSET Run]
  BY Fields DEF AInv, AttemptTypeOK
<1> USE DEF Mine
<1>1. looked[Mine(r)] = {}
  <2>1. CASE runs[r].at = "claim"
    BY <1>0, <2>1 DEF Durable
  <2>2. CASE runs[r].at \in {"claim_write", "claim_sync"}
    BY <1>0, <2>2 DEF Claimed
  <2> QED
    BY <2>1, <2>2
<1>2. \A s \in Run : s # r /\ Active(s) => Mine(s) # Mine(r)
  <2>1. CASE runs[r].at = "claim"
    BY <1>0, <2>1 DEF Claimed
  <2>2. CASE runs[r].at \in {"claim_write", "claim_sync"}
    BY <1>0, <2>2 DEF Claimed, Active
  <2> QED
    BY <2>1, <2>2
<1>3. /\ AttemptTypeOK' /\ runs'[r].at = place
      /\ \A s \in Run : /\ Mine(s) \in Cohort /\ Mine(s)' = Mine(s)
                        /\ runs'[s].status = runs[s].status
                        /\ runs'[s].reported = runs[s].reported
                        /\ runs'[s].output = runs[s].output
                        /\ (Bound(s)' <=> Bound(s))
      /\ \A s \in Run : s # r => runs'[s].at = runs[s].at
      /\ record'[Mine(r)] = value /\ recordLeft'[Mine(r)] = left
      /\ \A c \in Cohort : c # Mine(r) => record'[c] = record[c] /\ recordLeft'[c] = recordLeft[c]
  BY WriteFrame
<1>4. \A s \in Run : Bound(s) => Mine(s) # Mine(r)
  BY <1>1 DEF Bound
<1>5. Durable'
  <2> SUFFICES ASSUME NEW c \in Cohort
               PROVE  /\ record'[c] \in recordLeft'[c]
                      /\ looked'[c] # {} => Absent \notin recordLeft'[c]
                      /\ \A s \in looked'[c] : looked'[c] = {s} /\ Mine(s)' = c
    BY DEF Durable
  <2>1. \A s \in looked[c] : looked[c] = {s} /\ Mine(s) = c /\ s \in Run
    BY <1>0 DEF Durable
  <2>2. CASE c = Mine(r)
    BY <1>1, <1>3, <2>2
  <2>3. CASE c # Mine(r)
    <3>1. record[c] \in recordLeft[c] /\ (looked[c] # {} => Absent \notin recordLeft[c])
      BY <1>0 DEF Durable
    <3> QED
      BY <1>3, <2>1, <2>3, <3>1
  <2> QED
    BY <2>2, <2>3
<1>6. Claimed'
  <2>1. \A s \in Run : Active(s)' => Active(s) \/ s = r
    BY <1>3 DEF Active
  <2>2. ASSUME NEW s \in Run, NEW t \in Run, Active(s)', Active(t)', Mine(s)' = Mine(t)'
        PROVE  s = t
    BY <1>0, <1>2, <1>3, <2>1, <2>2 DEF Claimed
  <2>3. ASSUME NEW s \in Run
        PROVE  /\ Active(s)' => record'[Mine(s)'] # Absent
               /\ AtStep(s, "confirm")' => Absent \notin recordLeft'[Mine(s)']
               /\ runs'[s].at \in {"start", "claim", "claim_write", "claim_sync", "confirm"} =>
                    s \notin looked'[Mine(s)']
               /\ runs'[s].at \in {"claim_write", "claim_sync", "confirm"} => looked'[Mine(s)'] = {}
               /\ runs'[s].at \in {"replace", "replace_error"} => record'[Mine(s)'] = Running
    <3>1. CASE s = r
      BY <1>1, <1>3, <3>1 DEF AtStep
    <3>2. CASE s # r
      <4>1. Active(s)' => record'[Mine(s)'] = record[Mine(s)] /\ recordLeft'[Mine(s)'] = recordLeft[Mine(s)]
        BY <1>2, <1>3, <2>1, <3>2
      <4>2. runs'[s].at = runs[s].at /\ Mine(s)' = Mine(s)
        BY <1>3, <3>2
      <4> QED
        BY <1>0, <4>1, <4>2 DEF Claimed, Active, AtStep
    <3> QED
      BY <3>1, <3>2
  <2> QED
    BY <2>2, <2>3 DEF Claimed
<1>7. Progress'
  <2> SUFFICES ASSUME NEW s \in Run PROVE Reached(s)'
    BY DEF Progress
  <2>1. Reached(s)
    BY <1>0 DEF Progress
  <2>2. CASE s = r
    BY <1>3, <2>1, <2>2 DEF Reached, AtStep
  <2>3. CASE s # r
    <3>1. AtStep(s, "final_sync") => Mine(s) # Mine(r)
      BY <1>2, <2>3 DEF AtStep, Active
    <3>2. Mine(s) # Mine(r) =>
             record'[Mine(s)'] = record[Mine(s)] /\ recordLeft'[Mine(s)'] = recordLeft[Mine(s)]
      BY <1>3
    <3>3. /\ runs'[s].at = runs[s].at /\ Mine(s)' = Mine(s) /\ runs'[s].output = runs[s].output
          /\ runs'[s].status = runs[s].status /\ runs'[s].reported = runs[s].reported
          /\ (Bound(s)' <=> Bound(s)) /\ (Bound(s) => Mine(s) # Mine(r))
      BY <1>3, <1>4, <2>3
    <3> QED
      BY <2>1, <3>1, <3>2, <3>3 DEF Reached, AtStep, Final
  <2> QED
    BY <2>2, <2>3
<1>8. Decided'
  <2> SUFFICES ASSUME NEW c \in Cohort, NEW final \in recordLeft'[c] PROVE Backed(c, final)'
    BY DEF Decided
  <2>1. CASE c = Mine(r)
    BY <1>3, <2>1 DEF Backed
  <2>2. CASE c # Mine(r)
    <3>1. Backed(c, final)
      BY <1>0, <1>3, <2>2 DEF Decided
    <3> QED
      BY <1>3, <3>1 DEF Backed
  <2> QED
    BY <2>1, <2>2
<1> QED
  BY <1>3, <1>5, <1>6, <1>7, <1>8 DEF AInv

LEMMA RecordMoves ==
    /\ {Absent, Corrupt, Running, Final("error", NoRun)} \subseteq Record
    /\ \A status \in Status, r \in Run : Final(status, r) \in Record
    /\ Running # Absent /\ Corrupt # Absent /\ Running # Corrupt
    /\ \A final \in {Absent, Corrupt, Running, Final("error", NoRun)} :
         final.status \notin {"pass", "hold"}
BY DEF Absent, Corrupt, Running, Final, Record, Status

LEMMA ClaimInv ==
    ASSUME AInv, NEW r \in Run, ClaimCreates(r) \/ ClaimWrites(r) \/ ClaimSyncs(r)
    PROVE  AInv'
<1>0. AttemptTypeOK /\ Mine(r) \in Cohort
  BY Fields DEF AInv
<1>1. CASE ClaimCreates(r)
  <2>1. CASE record[Mine(r)] # Absent
    BY <1>1, <2>1, Moves, Places DEF ClaimCreates, AtStep, recordVars, artifactVars
  <2>2. CASE record[Mine(r)] = Absent
    BY <1>1, <2>2, Claims, Places, RecordMoves DEF ClaimCreates, AtStep, artifactVars
  <2> QED
    BY <2>1, <2>2
<1>2. CASE ClaimWrites(r)
  BY <1>2, Claims, Places, RecordMoves DEF ClaimWrites, AtStep, artifactVars
<1>3. CASE ClaimSyncs(r)
  <2>1. CASE Corrupt \in recordLeft[Mine(r)]
    <3>1. Steps(r, "claim_sync")
      BY <1>0, <1>3, <2>1 DEF ClaimSyncs, Steps, AtStep, AttemptTypeOK, RunState
    <3> QED
      BY <1>3, <2>1, <3>1, Claims, Places, RecordMoves DEF ClaimSyncs, AtStep, artifactVars
  <2>2. CASE Corrupt \notin recordLeft[Mine(r)]
    BY <1>3, <2>2, Claims, Places, RecordMoves DEF ClaimSyncs, AtStep, artifactVars
  <2> QED
    BY <2>1, <2>2
<1> QED
  BY <1>1, <1>2, <1>3

-----------------------------------------------------------------------------
\* r looks at the cases of its cohort, whatever becomes of it then.
LEMMA Looks ==
    ASSUME AInv, NEW r \in Run, AtStep(r, "confirm"),
           NEW place \in {"publish", "error", "dead"}, NEW status \in Status,
           place = "publish" => status \in {"pass", "hold"},
           runs' = [runs EXCEPT ![r].at = place, ![r].status = status],
           looked' = [looked EXCEPT ![Mine(r)] = @ \cup {r}],
           UNCHANGED <<record, recordLeft, artifact, artifactLeft>>
    PROVE  AInv'
<1>0. /\ AttemptTypeOK /\ Durable /\ Claimed /\ Progress /\ Decided /\ place \in Place
  BY Places DEF AInv
<1>1. /\ runs' \in [Run -> RunState] /\ Mine(r) \in Cohort
      /\ runs'[r].at = place /\ runs'[r].status = status
      /\ \A s \in Run : /\ Mine(s) \in Cohort /\ Mine(s)' = Mine(s)
                        /\ runs[s].output \in Output /\ runs'[s].output = runs[s].output
                        /\ runs'[s].reported = runs[s].reported
      /\ \A s \in Run : s # r => runs'[s].at = runs[s].at /\ runs'[s].status = runs[s].status
  BY <1>0 DEF AttemptTypeOK, RunState, Mine
<1>2. /\ looked[Mine(r)] = {} /\ looked'[Mine(r)] = {r}
      /\ looked' \in [Cohort -> SUBSET Run]
      /\ \A c \in Cohort : c # Mine(r) => looked'[c] = looked[c]
  BY <1>0, <1>1 DEF AttemptTypeOK, Claimed, AtStep
<1>3. \A s \in Run : s # r /\ Active(s) => Mine(s) # Mine(r)
  BY <1>0 DEF Claimed, Active, AtStep
<1>4. \A s \in Run : Bound(s) => s # r /\ Mine(s) # Mine(r) /\ Bound(s)'
  <2> SUFFICES ASSUME NEW s \in Run, Bound(s) PROVE s # r /\ Mine(s) # Mine(r) /\ Bound(s)'
    OBVIOUS
  <2>1. s # r /\ Mine(s) # Mine(r)
    BY <1>2 DEF Bound
  <2> QED
    BY <1>1, <1>2, <2>1 DEF Bound
<1>5. AttemptTypeOK'
  BY <1>0, <1>1, <1>2 DEF AttemptTypeOK
<1>6. Durable'
  <2> SUFFICES ASSUME NEW c \in Cohort
               PROVE  /\ looked'[c] # {} => Absent \notin recordLeft[c]
                      /\ \A s \in looked'[c] : looked'[c] = {s} /\ Mine(s)' = c
    BY <1>0 DEF Durable
  <2>1. /\ Absent \notin recordLeft[Mine(r)]
        /\ looked[c] # {} => Absent \notin recordLeft[c]
        /\ \A s \in looked[c] : looked[c] = {s} /\ Mine(s) = c /\ s \in Run
    BY <1>0 DEF Durable, Claimed, AttemptTypeOK
  <2>2. CASE c = Mine(r)
    BY <1>1, <1>2, <2>1, <2>2
  <2>3. CASE c # Mine(r)
    BY <1>1, <1>2, <2>1, <2>3
  <2> QED
    BY <2>2, <2>3
<1>7. Claimed'
  <2>1. \A s \in Run : Active(s)' => Active(s)
    BY <1>1 DEF Active, AtStep
  <2>2. ASSUME NEW s \in Run
        PROVE  /\ Active(s)' => record'[Mine(s)'] # Absent
               /\ AtStep(s, "confirm")' => Absent \notin recordLeft'[Mine(s)']
               /\ runs'[s].at \in {"start", "claim", "claim_write", "claim_sync", "confirm"} =>
                    s \notin looked'[Mine(s)']
               /\ runs'[s].at \in {"claim_write", "claim_sync", "confirm"} => looked'[Mine(s)'] = {}
               /\ runs'[s].at \in {"replace", "replace_error"} => record'[Mine(s)'] = Running
    <3>1. CASE s = r
      BY <1>0, <1>1, <1>2, <2>1, <3>1 DEF AtStep, Claimed
    <3>2. CASE s # r
      <4>1. runs'[s].at \in {"claim_write", "claim_sync", "confirm"} => Mine(s) # Mine(r)
        BY <1>1, <1>3, <3>2 DEF Active
      <4>2. runs'[s].at = runs[s].at /\ Mine(s)' = Mine(s) /\ s \notin looked[Mine(s)] => s \notin looked'[Mine(s)]
        BY <1>1, <1>2, <3>2
      <4> QED
        BY <1>0, <1>1, <1>2, <2>1, <3>2, <4>1, <4>2 DEF Claimed, AtStep
    <3> QED
      BY <3>1, <3>2
  <2>3. ASSUME NEW s \in Run, NEW u \in Run, Active(s)', Active(u)', Mine(s)' = Mine(u)'
        PROVE  s = u
    BY <1>0, <1>1, <2>1, <2>3 DEF Claimed
  <2> QED
    BY <2>2, <2>3 DEF Claimed
<1>8. Progress'
  <2> SUFFICES ASSUME NEW s \in Run PROVE Reached(s)'
    BY DEF Progress
  <2>1. Reached(s)
    BY <1>0 DEF Progress
  <2>2. CASE s = r
    BY <1>1, <1>2, <2>1, <2>2 DEF Reached, AtStep
  <2>3. CASE s # r
    <3>1. runs'[s].at = runs[s].at /\ runs'[s].status = runs[s].status
          /\ runs'[s].reported = runs[s].reported /\ Mine(s)' = Mine(s)
          /\ runs'[s].output = runs[s].output
      BY <1>1, <2>3
    <3>2. runs[s].at \in {"publish", "publish_sync"} => looked'[Mine(s)] = looked[Mine(s)]
      BY <1>1, <1>2, <1>3, <2>3 DEF Active
    <3> QED
      BY <1>4, <2>1, <3>1, <3>2 DEF Reached, AtStep, Final
  <2> QED
    BY <2>2, <2>3
<1>9. Decided'
  <2> SUFFICES ASSUME NEW c \in Cohort, NEW final \in recordLeft[c] PROVE Backed(c, final)'
    BY DEF Decided
  <2>1. Backed(c, final)
    BY <1>0 DEF Decided
  <2> QED
    BY <1>1, <1>4, <2>1 DEF Backed
<1> QED
  BY <1>5, <1>6, <1>7, <1>8, <1>9 DEF AInv

LEMMA ConfirmInv ==
    ASSUME AInv, NEW r \in Run, Confirm(r) \/ Raises(r) \/ Killed(r)
    PROVE  AInv'
<1>0. AttemptTypeOK /\ runs[r].status \in Status /\ runs \in [Run -> RunState]
  BY Fields DEF AInv, AttemptTypeOK
<1>1. PICK place \in {"publish", "error", "dead"}, status \in Status :
        /\ place = "publish" => AtStep(r, "confirm") /\ runs[r].key \in DeclaredKey /\ status \in {"pass", "hold"}
        /\ runs' = [runs EXCEPT ![r].at = place, ![r].status = status]
        /\ place # "publish" => Steps(r, place)
        /\ place = "error" => Active(r)
        /\ looked' = IF AtStep(r, "confirm") /\ runs[r].key \in DeclaredKey
                     THEN [looked EXCEPT ![Mine(r)] = @ \cup {r}] ELSE looked
  <2>1. CASE Confirm(r)
    <3>1. CASE runs[r].key \in DeclaredKey
      <4>1. PICK status \in {"pass", "hold"} :
              runs' = [runs EXCEPT ![r].at = "publish", ![r].status = status]
        BY <2>1, <3>1 DEF Confirm
      <4> QED
        BY <2>1, <3>1, <4>1 DEF Confirm, Status
    <3>2. CASE runs[r].key \notin DeclaredKey
      <4>1. Steps(r, "error") /\ runs' = [runs EXCEPT ![r].at = "error", ![r].status = runs[r].status]
        BY <1>0, <2>1, <3>2 DEF Confirm, Steps, RunState
      <4> QED
        BY <1>0, <2>1, <3>2, <4>1 DEF Confirm, Active, AtStep
    <3> QED
      BY <3>1, <3>2
  <2>2. CASE Raises(r)
    <3>1. PICK place \in {"error", "dead"} : Steps(r, place) /\ (place = "error" => Active(r))
      BY <2>2 DEF Raises, Guarded, Active
    <3>2. runs' = [runs EXCEPT ![r].at = place, ![r].status = runs[r].status]
      BY <1>0, <3>1 DEF Steps, RunState
    <3> QED
      BY <1>0, <2>2, <3>1, <3>2 DEF Raises
  <2>3. CASE Killed(r)
    <3>1. runs' = [runs EXCEPT ![r].at = "dead", ![r].status = runs[r].status]
      BY <1>0, <2>3 DEF Killed, Steps, RunState
    <3> QED
      BY <1>0, <2>3, <3>1 DEF Killed
  <2> QED
    BY <2>1, <2>2, <2>3
<1>2. UNCHANGED <<record, recordLeft, artifact, artifactLeft>> /\ runs[r].at # "dead"
  BY DEF Confirm, Raises, Killed, recordVars, artifactVars, AtStep
<1>3. CASE AtStep(r, "confirm") /\ runs[r].key \in DeclaredKey
  BY <1>1, <1>2, <1>3, Looks
<1>4. CASE ~(AtStep(r, "confirm") /\ runs[r].key \in DeclaredKey)
  BY <1>1, <1>2, <1>4, Moves, Places
<1> QED
  BY <1>3, <1>4

-----------------------------------------------------------------------------
\* r links its artifact, then synchronises the directory: every output keeps
\* what another run published.
LEMMA Publishes ==
    ASSUME AInv, NEW r \in Run, NEW place \in Place, Steps(r, place), NEW left \in SUBSET (Run \cup {NoRun}),
           \/ /\ AtStep(r, "publish") /\ place = "publish_sync"
              /\ artifact[runs[r].output] = NoRun
           \/ /\ AtStep(r, "publish_sync") /\ place = "finalize"
              /\ left = {r},
           artifact' = [artifact EXCEPT ![runs[r].output] = r],
           artifactLeft' = [artifactLeft EXCEPT ![runs[r].output] = left],
           UNCHANGED <<record, recordLeft, looked>>
    PROVE  AInv'
<1>0. /\ AttemptTypeOK /\ Durable /\ Claimed /\ Progress /\ Decided /\ Reached(r)
      /\ runs[r].output \in Output
  BY Fields DEF AInv, Progress
<1>1. /\ runs' \in [Run -> RunState] /\ runs'[r].at = place
      /\ \A s \in Run : /\ Mine(s) \in Cohort /\ Mine(s)' = Mine(s)
                        /\ runs[s].output \in Output /\ runs'[s].output = runs[s].output
                        /\ runs'[s].reported = runs[s].reported
                        /\ runs'[s].status = runs[s].status
      /\ \A s \in Run : s # r => runs'[s].at = runs[s].at
  BY <1>0, StepsFacts, Fields DEF Mine
<1>2. /\ artifact' \in [Output -> Run \cup {NoRun}]
      /\ artifactLeft' \in [Output -> SUBSET (Run \cup {NoRun})]
      /\ artifact'[runs[r].output] = r /\ artifactLeft'[runs[r].output] = left
      /\ \A o \in Output : o # runs[r].output =>
           artifact'[o] = artifact[o] /\ artifactLeft'[o] = artifactLeft[o]
      /\ artifact[runs[r].output] \in {NoRun, r}
  BY <1>0 DEF AttemptTypeOK, Reached, AtStep
<1>3. \A s \in Run : s # r /\ artifact[runs[s].output] = s => runs[s].output # runs[r].output
  BY <1>2, AttemptAssumption
<1>4. \A s \in Run : s # r /\ Bound(s) => Bound(s)'
  BY <1>1, <1>2, <1>3 DEF Bound
<1>5. Bound(r) => left = {r} /\ Bound(r)'
  <2>1. CASE AtStep(r, "publish")
    BY <2>1, AttemptAssumption DEF Bound, AtStep
  <2>2. CASE AtStep(r, "publish_sync")
    BY <1>1, <1>2, <2>2 DEF Bound, AtStep
  <2> QED
    BY <2>1, <2>2
<1>6. AttemptTypeOK'
  BY <1>0, <1>1, <1>2 DEF AttemptTypeOK
<1>7. Durable'
  BY <1>0, <1>1 DEF Durable, AttemptTypeOK
<1>8. Claimed'
  BY <1>0, <1>1 DEF Claimed, Active, AtStep
<1>9. Progress'
  <2> SUFFICES ASSUME NEW s \in Run PROVE Reached(s)'
    BY DEF Progress
  <2>1. Reached(s)
    BY <1>0 DEF Progress
  <2>2. CASE s = r
    BY <1>1, <1>2, <2>1, <2>2 DEF Reached, AtStep, Bound
  <2>3. CASE s # r
    BY <1>1, <1>2, <1>3, <1>4, <2>1, <2>3 DEF Reached, AtStep, Final
  <2> QED
    BY <2>2, <2>3
<1>10. Decided'
  <2> SUFFICES ASSUME NEW c \in Cohort, NEW final \in recordLeft[c] PROVE Backed(c, final)'
    BY DEF Decided
  <2>1. Backed(c, final)
    BY <1>0 DEF Decided
  <2> QED
    BY <1>1, <1>4, <1>5, <2>1 DEF Backed
<1> QED
  BY <1>6, <1>7, <1>8, <1>9, <1>10 DEF AInv

LEMMA PublishInv ==
    ASSUME AInv, NEW r \in Run, Publish(r) \/ PublishSyncs(r)
    PROVE  AInv'
<1>0. AttemptTypeOK /\ Reached(r) /\ runs[r].output \in Output
  BY Fields DEF AInv, Progress
<1>1. CASE Publish(r)
  <2>1. CASE artifact[runs[r].output] # NoRun
    BY <1>1, <2>1, Moves, Places DEF Publish, AtStep, Active, recordVars, artifactVars
  <2>2. CASE artifact[runs[r].output] = NoRun
    BY <1>1, <2>2, Publishes, Places DEF Publish, recordVars
  <2> QED
    BY <2>1, <2>2
<1>2. CASE PublishSyncs(r)
  <2>1. artifact' = [artifact EXCEPT ![runs[r].output] = r]
    BY <1>0, <1>2 DEF PublishSyncs, Reached, AttemptTypeOK, AtStep, artifactVars
  <2> QED
    <3>1. /\ AtStep(r, "publish_sync") /\ Steps(r, "finalize")
          /\ artifactLeft' = [artifactLeft EXCEPT ![runs[r].output] = {r}]
          /\ UNCHANGED <<record, recordLeft, looked>>
      BY <1>2 DEF PublishSyncs, recordVars
    <3>2. {r} \in SUBSET (Run \cup {NoRun}) /\ "finalize" \in Place
      BY Places
    <3> QED
      BY <2>1, <3>1, <3>2, Publishes
<1> QED
  BY <1>1, <1>2

-----------------------------------------------------------------------------
\* r replaces the record of its cohort by the end of its attempt, and
\* synchronises it.
LEMMA Finalizes ==
    ASSUME AInv, NEW r \in Run, Active(r), NEW place \in Place,
           NEW reported \in BOOLEAN,
           runs' = [runs EXCEPT ![r].at = place, ![r].reported = reported],
           NEW value \in Record, NEW left \in SUBSET Record, Writes(Mine(r), value, left),
           UNCHANGED <<artifact, artifactLeft, looked>>,
           place \in {"final_sync", "error_sync", "dead"},
           place = "final_sync" => Bound(r) /\ value = Final(runs[r].status, r),
           reported => /\ place = "dead" /\ Bound(r) /\ left = {Final(runs[r].status, r)},
           value \in left, value # Absent, looked[Mine(r)] # {} => Absent \notin left,
           \A final \in left : Backed(Mine(r), final),
           \A s \in Run : Bound(s) /\ runs[s].reported /\ Mine(s) = Mine(r) => left = recordLeft[Mine(r)]
    PROVE  AInv'
<1>0. /\ AttemptTypeOK /\ Durable /\ Claimed /\ Progress /\ Decided
      /\ Mine(r) \in Cohort
  BY Fields DEF AInv
<1>1. /\ runs' \in [Run -> RunState] /\ runs'[r].at = place /\ runs'[r].reported = reported
      /\ \A s \in Run : /\ Mine(s) \in Cohort /\ Mine(s)' = Mine(s)
                        /\ runs'[s].output = runs[s].output
                        /\ runs'[s].status = runs[s].status
                        /\ (Bound(s)' <=> Bound(s))
      /\ \A s \in Run : s # r => runs'[s].at = runs[s].at /\ runs'[s].reported = runs[s].reported
  <2>1. /\ runs' \in [Run -> RunState] /\ runs'[r].at = place /\ runs'[r].reported = reported
        /\ \A s \in Run : /\ Mine(s) \in Cohort /\ Mine(s)' = Mine(s)
                          /\ runs'[s].output = runs[s].output
                          /\ runs'[s].status = runs[s].status
        /\ \A s \in Run : s # r => runs'[s].at = runs[s].at /\ runs'[s].reported = runs[s].reported
    BY <1>0 DEF AttemptTypeOK, RunState, Mine
  <2>2. \A s \in Run : Bound(s)' <=> Bound(s)
    BY <2>1 DEF Bound
  <2> QED
    BY <2>1, <2>2
<1>2. /\ record' \in [Cohort -> Record] /\ recordLeft' \in [Cohort -> SUBSET Record]
      /\ record'[Mine(r)] = value /\ recordLeft'[Mine(r)] = left
      /\ \A c \in Cohort : c # Mine(r) => record'[c] = record[c] /\ recordLeft'[c] = recordLeft[c]
  BY <1>0, WritesFacts
<1>3. \A s \in Run : s # r /\ Active(s) => Mine(s) # Mine(r)
  BY <1>0 DEF Claimed
<1>4. AttemptTypeOK'
  BY <1>0, <1>1, <1>2 DEF AttemptTypeOK
<1>5. Durable'
  <2> SUFFICES ASSUME NEW c \in Cohort
               PROVE  /\ record'[c] \in recordLeft'[c]
                      /\ looked[c] # {} => Absent \notin recordLeft'[c]
                      /\ \A s \in looked[c] : looked[c] = {s} /\ Mine(s)' = c
    BY DEF Durable
  <2>1. /\ record[c] \in recordLeft[c] /\ (looked[c] # {} => Absent \notin recordLeft[c])
        /\ \A s \in looked[c] : looked[c] = {s} /\ Mine(s) = c /\ s \in Run
    BY <1>0 DEF Durable, AttemptTypeOK
  <2>2. CASE c = Mine(r)
    BY <1>1, <1>2, <2>1, <2>2
  <2>3. CASE c # Mine(r)
    BY <1>1, <1>2, <2>1, <2>3
  <2> QED
    BY <2>2, <2>3
<1>6. Claimed'
  <2>1. \A s \in Run : Active(s)' => Active(s)
    BY <1>1 DEF Active
  <2>2. ASSUME NEW s \in Run
        PROVE  /\ Active(s)' => record'[Mine(s)'] # Absent
               /\ AtStep(s, "confirm")' => Absent \notin recordLeft'[Mine(s)']
               /\ runs'[s].at \in {"start", "claim", "claim_write", "claim_sync", "confirm"} =>
                    s \notin looked[Mine(s)']
               /\ runs'[s].at \in {"claim_write", "claim_sync", "confirm"} => looked[Mine(s)'] = {}
               /\ runs'[s].at \in {"replace", "replace_error"} => record'[Mine(s)'] = Running
    <3>1. CASE s = r
      BY <1>1, <1>2, <3>1 DEF AtStep
    <3>2. CASE s # r
      <4>1. runs'[s].at = runs[s].at /\ Mine(s)' = Mine(s)
        BY <1>1, <3>2
      <4>2. Active(s) => record'[Mine(s)] = record[Mine(s)] /\ recordLeft'[Mine(s)] = recordLeft[Mine(s)]
        BY <1>1, <1>2, <1>3, <3>2
      <4> QED
        BY <1>0, <4>1, <4>2 DEF Claimed, Active, AtStep
    <3> QED
      BY <3>1, <3>2
  <2>3. ASSUME NEW s \in Run, NEW u \in Run, Active(s)', Active(u)', Mine(s)' = Mine(u)'
        PROVE  s = u
    BY <1>0, <1>1, <2>1, <2>3 DEF Claimed
  <2> QED
    BY <2>2, <2>3 DEF Claimed
<1>7. Progress'
  <2> SUFFICES ASSUME NEW s \in Run PROVE Reached(s)'
    BY DEF Progress
  <2>1. Reached(s)
    BY <1>0 DEF Progress
  <2>2. CASE s = r
    BY <1>1, <1>2, <2>2 DEF Reached, AtStep, Final
  <2>3. CASE s # r
    <3>1. /\ runs'[s].at = runs[s].at /\ Mine(s)' = Mine(s) /\ runs'[s].output = runs[s].output
          /\ runs'[s].status = runs[s].status /\ runs'[s].reported = runs[s].reported
          /\ (Bound(s)' <=> Bound(s)) /\ Mine(s) \in Cohort
      BY <1>1, <2>3
    <3>2. Active(s) => record'[Mine(s)] = record[Mine(s)]
      BY <1>2, <1>3, <2>3, <3>1
    <3>3. runs[s].reported => recordLeft'[Mine(s)] = recordLeft[Mine(s)]
      BY <1>2, <2>1, <3>1 DEF Reached
    <3> QED
      BY <2>1, <3>1, <3>2, <3>3 DEF Reached, AtStep, Final, Active
  <2> QED
    BY <2>2, <2>3
<1>8. Decided'
  <2> SUFFICES ASSUME NEW c \in Cohort, NEW final \in recordLeft'[c] PROVE Backed(c, final)'
    BY DEF Decided
  <2>1. Backed(c, final)
    BY <1>0, <1>2 DEF Decided
  <2> QED
    BY <1>1, <2>1 DEF Backed
<1> QED
  BY <1>4, <1>5, <1>6, <1>7, <1>8 DEF AInv

LEMMA FinalizeInv ==
    ASSUME AInv, NEW r \in Run, FinalizeLocks(r) \/ FinalizeReplaces(r) \/ FinalizeSyncs(r)
    PROVE  AInv'
<1>0. /\ AttemptTypeOK /\ Durable /\ Claimed /\ Progress /\ Decided
      /\ Mine(r) \in Cohort /\ Reached(r) /\ runs[r].reported \in BOOLEAN /\ runs[r].status \in Status
      /\ record[Mine(r)] \in recordLeft[Mine(r)] /\ recordLeft[Mine(r)] \in SUBSET Record
      /\ \A final \in recordLeft[Mine(r)] : Backed(Mine(r), final)
      /\ runs \in [Run -> RunState]
  BY Fields DEF AInv, Progress, Durable, Decided, AttemptTypeOK
<1>1. ASSUME NEW s \in Run, runs[s].reported, Mine(s) = Mine(r)
      PROVE  /\ record[Mine(r)].status \in {"pass", "hold"} /\ AtStep(s, "dead")
             /\ looked[Mine(r)] = {s} /\ recordLeft[Mine(r)] = {record[Mine(r)]}
  <2>1. Reached(s)
    BY <1>0 DEF Progress
  <2>2. /\ AtStep(s, "dead") /\ looked[Mine(r)] = {s} /\ runs[s].status \in {"pass", "hold"}
        /\ recordLeft[Mine(r)] = {Final(runs[s].status, s)}
    BY <1>1, <2>1 DEF Reached, Bound
  <2>3. record[Mine(r)] = Final(runs[s].status, s)
    BY <1>0, <2>2
  <2> QED
    BY <2>2, <2>3 DEF Final
<1>2. CASE FinalizeLocks(r)
  BY <1>2, Moves, Places DEF FinalizeLocks, AtStep, Active, recordVars, artifactVars
<1>3. CASE FinalizeReplaces(r) /\ AtStep(r, "replace")
  <2> DEFINE final == Final(runs[r].status, r)
             left == recordLeft[Mine(r)] \cup {final}
             reported == FALSE
             place == "final_sync"
  <2>1. /\ Active(r) /\ Bound(r) /\ runs[r].status \in {"pass", "hold"}
        /\ looked[Mine(r)] = {r} /\ ~runs[r].reported
    BY <1>0, <1>3 DEF Reached, Bound, Active, AtStep
  <2>2. runs' = [runs EXCEPT ![r].at = place, ![r].reported = reported]
    BY <1>0, <1>3, <2>1 DEF FinalizeReplaces, Steps, AtStep, RunState
  <2>3. Writes(Mine(r), final, left) /\ UNCHANGED <<artifact, artifactLeft, looked>>
    BY <1>3 DEF FinalizeReplaces, AtStep, artifactVars
  <2>4. final \in Record /\ final # Absent /\ Backed(Mine(r), final)
    BY <2>1, RecordMoves DEF Final, Absent, Backed, Status
  <2>5. Absent \notin left
    BY <1>0, <2>1, <2>4 DEF Durable
  <2>6. \A s \in Run : ~(runs[s].reported /\ Mine(s) = Mine(r))
    BY <1>1, <1>3, <2>1 DEF AtStep
  <2>7. /\ left \in SUBSET Record /\ final \in left /\ place \in Place
        /\ \A f \in left : Backed(Mine(r), f)
    BY <1>0, <2>4, Places
  <2>8. /\ reported \in BOOLEAN /\ ~reported /\ final = Final(runs[r].status, r)
        /\ place \in {"final_sync", "error_sync", "dead"}
    OBVIOUS
  <2> HIDE DEF left, final, reported, place
  <2>9. /\ Active(r) /\ ~reported /\ reported \in BOOLEAN /\ Bound(r) /\ final = Final(runs[r].status, r)
        /\ runs' = [runs EXCEPT ![r].at = place, ![r].reported = reported]
    BY <2>1, <2>2, <2>8
  <2>10. /\ final \in Record /\ final \in left /\ final # Absent
         /\ Writes(Mine(r), final, left) /\ UNCHANGED <<artifact, artifactLeft, looked>>
         /\ looked[Mine(r)] # {} => Absent \notin left
    BY <2>3, <2>4, <2>5, <2>7
  <2>11. \A s \in Run : Bound(s) /\ runs[s].reported /\ Mine(s) = Mine(r) => left = recordLeft[Mine(r)]
    BY <2>6
  <2> QED
    BY <2>7, <2>8, <2>9, <2>10, <2>11, Finalizes
<1>4. CASE FinalizeReplaces(r) /\ ~AtStep(r, "replace")
  <2> DEFINE final == Final("error", NoRun)
             left == recordLeft[Mine(r)] \cup {final}
             reported == FALSE
  <2>1. AtStep(r, "replace_error") /\ Active(r) /\ ~runs[r].reported /\ record[Mine(r)] = Running
    BY <1>0, <1>4 DEF FinalizeReplaces, Reached, Active, AtStep, Claimed
  <2>2. runs' = [runs EXCEPT ![r].at = "error_sync", ![r].reported = reported]
    BY <1>0, <1>4, <2>1 DEF FinalizeReplaces, Steps, AtStep, RunState
  <2>3. Writes(Mine(r), final, left) /\ UNCHANGED <<artifact, artifactLeft, looked>>
    BY <1>4 DEF FinalizeReplaces, artifactVars
  <2>4. final \in Record /\ final # Absent /\ Backed(Mine(r), final)
    BY RecordMoves DEF Final, Absent, Backed
  <2>5. looked[Mine(r)] # {} => Absent \notin left
    BY <1>0, <2>4 DEF Durable
  <2>6. \A s \in Run : ~(runs[s].reported /\ Mine(s) = Mine(r))
    BY <1>1, <2>1, RecordMoves
  <2>7. /\ left \in SUBSET Record /\ final \in left /\ "error_sync" \in Place
        /\ \A f \in left : Backed(Mine(r), f)
    BY <1>0, <2>4, Places
  <2>8. reported \in BOOLEAN /\ ~reported
    OBVIOUS
  <2> HIDE DEF left, final, reported
  <2>9. /\ Active(r) /\ ~reported /\ reported \in BOOLEAN
        /\ runs' = [runs EXCEPT ![r].at = "error_sync", ![r].reported = reported]
    BY <2>1, <2>2, <2>8
  <2>10. /\ final \in Record /\ final \in left /\ final # Absent
         /\ Writes(Mine(r), final, left) /\ UNCHANGED <<artifact, artifactLeft, looked>>
         /\ looked[Mine(r)] # {} => Absent \notin left
    BY <2>3, <2>4, <2>5, <2>7
  <2>11. \A s \in Run : Bound(s) /\ runs[s].reported /\ Mine(s) = Mine(r) => left = recordLeft[Mine(r)]
    BY <2>6
  <2> QED
    BY <2>7, <2>9, <2>10, <2>11, Finalizes
<1>5. CASE FinalizeSyncs(r)
  <2> DEFINE final == record[Mine(r)]
             left == {final}
             reported == AtStep(r, "final_sync")
  <2>1. Active(r) /\ (reported => Bound(r) /\ final = Final(runs[r].status, r)) /\ reported \in BOOLEAN
    BY <1>0, <1>5 DEF FinalizeSyncs, Reached, Active, AtStep
  <2>2. runs' = [runs EXCEPT ![r].at = "dead", ![r].reported = reported]
    BY <1>5 DEF FinalizeSyncs
  <2>3. Writes(Mine(r), final, left) /\ UNCHANGED <<artifact, artifactLeft, looked>>
    BY <1>5 DEF FinalizeSyncs, artifactVars
  <2>4. final \in Record /\ final # Absent /\ Backed(Mine(r), final)
    BY <1>0, <2>1 DEF Claimed
  <2>5. Absent \notin left
    BY <2>4
  <2>6. \A s \in Run : Bound(s) /\ runs[s].reported /\ Mine(s) = Mine(r) => left = recordLeft[Mine(r)]
    BY <1>1
  <2>7. /\ left \in SUBSET Record /\ final \in left /\ "dead" \in Place
        /\ \A f \in left : Backed(Mine(r), f)
    BY <1>0, <2>4, Places
  <2>8. reported => Bound(r) /\ left = {Final(runs[r].status, r)}
    BY <2>1
  <2> HIDE DEF left, final, reported
  <2> QED
    BY <2>1, <2>2, <2>3, <2>4, <2>5, <2>6, <2>7, <2>8, Finalizes
<1> QED
  BY <1>2, <1>3, <1>4, <1>5

LEMMA PowerLossInv ==
    ASSUME AInv, PowerLoss
    PROVE  AInv'
<1>0. AttemptTypeOK /\ Durable /\ Claimed /\ Progress /\ Decided
  BY DEF AInv
<1>1. /\ runs' \in [Run -> RunState]
      /\ \A s \in Run : /\ Mine(s) \in Cohort /\ Mine(s)' = Mine(s)
                        /\ runs[s].output \in Output /\ runs'[s].output = runs[s].output
                        /\ runs'[s].status = runs[s].status /\ runs'[s].reported = runs[s].reported
                        /\ runs'[s].at = (IF runs[s].at = "start" THEN "start" ELSE "dead")
  BY <1>0, Places DEF PowerLoss, AttemptTypeOK, RunState, AtStep, Mine
<1>2. /\ \A c \in Cohort : record'[c] \in recordLeft[c] /\ recordLeft'[c] = {record'[c]}
      /\ \A o \in Output : artifact'[o] \in artifactLeft[o] /\ artifactLeft'[o] = {artifact'[o]}
      /\ looked' = looked
  BY DEF PowerLoss
<1>3. AttemptTypeOK'
  <2>1. record' \in [Cohort -> Record] /\ recordLeft' \in [Cohort -> SUBSET Record]
    BY <1>0, <1>2 DEF PowerLoss, AttemptTypeOK
  <2>2. artifact' \in [Output -> Run \cup {NoRun}] /\ artifactLeft' \in [Output -> SUBSET (Run \cup {NoRun})]
    BY <1>0, <1>2 DEF PowerLoss, AttemptTypeOK
  <2> QED
    BY <1>0, <1>1, <1>2, <2>1, <2>2 DEF AttemptTypeOK
<1>4. \A s \in Run : Bound(s) => Bound(s)'
  BY <1>1, <1>2 DEF Bound
<1>5. Durable'
  <2> SUFFICES ASSUME NEW c \in Cohort
               PROVE  /\ record'[c] \in recordLeft'[c]
                      /\ looked[c] # {} => Absent \notin recordLeft'[c]
                      /\ \A s \in looked[c] : looked[c] = {s} /\ Mine(s)' = c
    BY <1>2 DEF Durable
  <2>1. /\ looked[c] # {} => Absent \notin recordLeft[c]
        /\ \A s \in looked[c] : looked[c] = {s} /\ Mine(s) = c /\ s \in Run
    BY <1>0 DEF Durable, AttemptTypeOK
  <2> QED
    BY <1>1, <1>2, <2>1
<1>6. Claimed'
  BY <1>0, <1>1, <1>2 DEF Claimed, Active, AtStep
<1>7. Progress'
  <2> SUFFICES ASSUME NEW s \in Run PROVE Reached(s)'
    BY DEF Progress
  <2>1. Reached(s)
    BY <1>0 DEF Progress
  <2> QED
    BY <1>1, <1>2, <1>4, <2>1 DEF Reached, AtStep, Final
<1>8. Decided'
  <2> SUFFICES ASSUME NEW c \in Cohort, NEW final \in recordLeft'[c] PROVE Backed(c, final)'
    BY DEF Decided
  <2>1. Backed(c, final)
    BY <1>0, <1>2 DEF Decided
  <2> QED
    BY <1>1, <1>4, <2>1 DEF Backed
<1> QED
  BY <1>3, <1>5, <1>6, <1>7, <1>8 DEF AInv

LEMMA AttemptNextInv == AInv /\ [AttemptNext]_attemptVars => AInv'
<1> SUFFICES ASSUME AInv, [AttemptNext]_attemptVars PROVE AInv'
  OBVIOUS
<1>1. ASSUME NEW r \in Run, Preflight(r) PROVE AInv'
  BY <1>1, Moves, Places DEF Preflight, AtStep, recordVars, artifactVars
<1>2. ASSUME NEW r \in Run, ClaimCreates(r) \/ ClaimWrites(r) \/ ClaimSyncs(r) PROVE AInv'
  BY <1>2, ClaimInv
<1>3. ASSUME NEW r \in Run, Confirm(r) \/ Raises(r) \/ Killed(r) PROVE AInv'
  BY <1>3, ConfirmInv
<1>4. ASSUME NEW r \in Run, Publish(r) \/ PublishSyncs(r) PROVE AInv'
  BY <1>4, PublishInv
<1>5. ASSUME NEW r \in Run, FinalizeLocks(r) \/ FinalizeReplaces(r) \/ FinalizeSyncs(r) PROVE AInv'
  BY <1>5, FinalizeInv
<1>6. CASE UNCHANGED attemptVars
  <2> USE <1>6 DEF attemptVars, Bound, Active, AtStep, Mine
  <2>1. AttemptTypeOK'
    BY DEF AInv, AttemptTypeOK
  <2>2. Durable' /\ Claimed'
    BY DEF AInv, Durable, Claimed
  <2>3. Progress'
    BY DEF AInv, Progress, Reached
  <2>4. Decided'
    BY DEF AInv, Decided, Backed
  <2> QED
    BY <2>1, <2>2, <2>3, <2>4 DEF AInv
<1> QED
  BY <1>1, <1>2, <1>3, <1>4, <1>5, <1>6, PowerLossInv DEF AttemptNext

-----------------------------------------------------------------------------
\* The files, the runs and what they looked at keep their types.
THEOREM AttemptTypeCorrect == AttemptSpec => []AttemptTypeOK
<1>1. AInv => AttemptTypeOK
  BY DEF AInv
<1> QED
  BY <1>1, AttemptInitInv, AttemptNextInv, PTL DEF AttemptSpec

\* The inductive invariant: an active run is alone with its cohort, and knows
\* what is on disk for good (training_gate_experiment.py:199-330).
THEOREM AInvHolds == AttemptSpec => []AInv
BY AttemptInitInv, AttemptNextInv, PTL DEF AttemptSpec

\* A cohort is consumed before its cases are looked at, is decided by one run,
\* and a pass or a hold on record has its artifact, whichever runs raise, are
\* killed or lose their machine at any step.
THEOREM AttemptsAreDurable == AttemptSpec => []AttemptsDurable
<1>1. ASSUME AInv PROVE ConsumedOnce
  <2>0. Durable /\ looked \in [Cohort -> SUBSET Run]
    BY <1>1 DEF AInv, AttemptTypeOK
  <2> SUFFICES ASSUME NEW c \in Cohort
               PROVE  Cardinality(looked[c]) <= 1 /\ (looked[c] # {} => Absent \notin recordLeft[c])
    BY DEF ConsumedOnce
  <2>1. CASE looked[c] = {}
    BY <2>1, FS_EmptySet
  <2>2. CASE looked[c] # {}
    <3>1. PICK r \in looked[c] : looked[c] = {r}
      BY <2>0, <2>2 DEF Durable
    <3>2. Cardinality({r}) = 1
      BY FS_Singleton
    <3> QED
      BY <2>0, <3>1, <3>2 DEF Durable
  <2> QED
    BY <2>1, <2>2
<1>2. ASSUME AInv PROVE DecisionsBound
  BY <1>2 DEF AInv, Durable, Decided, Backed, Progress, Reached, Bound, DecisionsBound
<1>3. AInv => AttemptsDurable
  BY <1>1, <1>2 DEF AttemptsDurable
<1> QED
  BY <1>3, AttemptInitInv, AttemptNextInv, PTL DEF AttemptSpec

(***************************************************************************)
(* The gate                                                                *)
(***************************************************************************)
\* The places of a request, and what the Labs and the requests are made of.
GatePlace == {"idle", "claim", "champion", "challenger", "compare", "stage", "adopt", "finish"}
GateModel == [data : Dataset \cup {"none"}, part : {"all"}, design : Design]
HostState == [data : Dataset, design : Design, model : GateModel, online : BOOLEAN]
GateState == [at : GatePlace, challenger : Design, promote : BOOLEAN, before : GateModel,
              status : {"none", "pass", "hold"}, failed : BOOLEAN]

GateTypeOK ==
    /\ hosts \in [Host -> HostState] /\ gates \in [Host -> GateState]
    /\ engines \in [Host -> SUBSET {"host", "champion", "challenger", "staged"}]
    /\ spent \in [GateCohort -> {"new", "running", "pass", "hold", "error"}]
    /\ compared \in [GateCohort -> Nat]
    /\ gateRequests \in Nat

\* The request has the cohort of its Lab, until it ends.
HostBusy(h) == gates[h].at \notin {"idle", "claim"}

\* What a request has opened, found and decided, at each of its places.
Answers(h) ==
    /\ gates[h].at \in {"idle", "claim", "compare", "stage", "finish"} => engines[h] = {"host"}
    /\ gates[h].at \in {"champion", "challenger"} => engines[h] \in {{"host"}, {"host", gates[h].at}}
    /\ gates[h].at = "adopt" => engines[h] = {"host", "staged"}
    /\ ~GateAt(h, "idle") => ~gates[h].failed
    /\ gates[h].at \notin {"idle", "finish"} \/ gates[h].failed => hosts[h].model = gates[h].before
    /\ gates[h].at \in {"stage", "adopt", "finish"} => gates[h].status \in {"pass", "hold"}
    /\ hosts[h].model = MinedModel(hosts[h].data, "all", hosts[h].design)

\* A cohort is with one request at a time, and was never compared before.
CohortsApart ==
    /\ \A h, i \in Host : HostBusy(h) /\ HostBusy(i) /\ CohortAt(h) = CohortAt(i) => h = i
    /\ \A h \in Host : gates[h].at \in {"champion", "challenger", "compare"} =>
         compared[CohortAt(h)] = 0

GateInv == GateTypeOK /\ CohortSpentOnce /\ CohortsApart /\ \A h \in Host : Answers(h)

LEMMA GateFields ==
    ASSUME GateTypeOK, NEW h \in Host
    PROVE  /\ hosts[h] \in HostState /\ gates[h] \in GateState
           /\ hosts[h].data \in Dataset /\ hosts[h].design \in Design
           /\ hosts[h].model \in GateModel /\ CohortAt(h) \in GateCohort
           /\ gates[h].at \in GatePlace /\ gates[h].challenger \in Design
           /\ gates[h].promote \in BOOLEAN /\ gates[h].before \in GateModel
           /\ gates[h].status \in {"none", "pass", "hold"} /\ gates[h].failed \in BOOLEAN
           /\ spent[CohortAt(h)] \in {"new", "running", "pass", "hold", "error"}
           /\ compared[CohortAt(h)] \in Nat
BY DEF GateTypeOK, HostState, GateState, GateCohort, CohortAt

\* A step of one Lab: it may touch its own request and its own cohort, which it
\* enters when it is new and leaves decided.
LEMMA GateStep ==
    ASSUME GateInv, GateTypeOK', NEW h \in Host,
           \A i \in Host : i # h => /\ hosts'[i] = hosts[i] /\ gates'[i] = gates[i]
                                    /\ engines'[i] = engines[i],
           \A c \in GateCohort : c # CohortAt(h) => /\ spent'[c] = spent[c]
                                                    /\ compared'[c] = compared[c],
           Answers(h)',
           HostBusy(h) \/ HostBusy(h)' => CohortAt(h)' = CohortAt(h),
           HostBusy(h)' => spent'[CohortAt(h)] = "running",
           HostBusy(h) /\ ~HostBusy(h)' => spent'[CohortAt(h)] # "running",
           ~HostBusy(h) /\ ~HostBusy(h)' => /\ spent'[CohortAt(h)] = spent[CohortAt(h)]
                                    /\ compared'[CohortAt(h)] = compared[CohortAt(h)],
           ~HostBusy(h) /\ HostBusy(h)' => spent[CohortAt(h)] = "new",
           compared'[CohortAt(h)] <= 1,
           compared'[CohortAt(h)] > 0 => spent'[CohortAt(h)] # "new",
           gates'[h].at \in {"champion", "challenger", "compare"} => compared'[CohortAt(h)] = 0
    PROVE  GateInv'
<1> DEFINE own == CohortAt(h)
<1>0. GateTypeOK /\ CohortSpentOnce /\ CohortsApart /\ (\A i \in Host : Answers(i)) /\ own \in GateCohort
  BY GateFields DEF GateInv
<1>1. \A i \in Host : i # h => /\ CohortAt(i)' = CohortAt(i) /\ HostBusy(i)' = HostBusy(i)
                               /\ Answers(i)' = Answers(i) /\ CohortAt(i) \in GateCohort
  BY <1>0, GateFields DEF CohortAt, HostBusy, Answers, GateAt
<1>2. \A i \in Host : Answers(i)'
  BY <1>0, <1>1
<1>3. \A i \in Host : i # h /\ HostBusy(i) /\ (HostBusy(h) \/ HostBusy(h)') => CohortAt(i) # own
  <2> SUFFICES ASSUME NEW i \in Host, i # h, HostBusy(i), HostBusy(h) \/ HostBusy(h)', CohortAt(i) = own
               PROVE  FALSE
    OBVIOUS
  <2>1. spent[own] = "running"
    BY <1>0 DEF CohortSpentOnce, HostBusy
  <2>2. CASE HostBusy(h)
    BY <1>0, <2>2 DEF CohortsApart
  <2>3. CASE ~HostBusy(h)
    BY <2>1, <2>3
  <2> QED
    BY <2>2, <2>3
<1>4. CohortSpentOnce'
  <2> SUFFICES ASSUME NEW c \in GateCohort
               PROVE  /\ compared'[c] <= 1
                      /\ compared'[c] > 0 => spent'[c] # "new"
                      /\ spent'[c] = "running" <=> \E i \in Host : CohortAt(i)' = c /\ HostBusy(i)'
    BY DEF CohortSpentOnce, HostBusy
  <2>0. /\ compared[c] <= 1
        /\ compared[c] > 0 => spent[c] # "new"
        /\ spent[c] = "running" <=> \E i \in Host : CohortAt(i) = c /\ HostBusy(i)
    BY <1>0 DEF CohortSpentOnce, HostBusy
  <2>1. CASE c = own
    <3>1. CASE HostBusy(h) \/ HostBusy(h)'
      <4>1. \A i \in Host : i # h => ~(CohortAt(i)' = c /\ HostBusy(i)')
        BY <1>1, <1>3, <2>1, <3>1
      <4>2. CohortAt(h)' = c
        BY <2>1, <3>1
      <4> QED
        BY <2>1, <3>1, <4>1, <4>2
    <3>2. CASE ~HostBusy(h) /\ ~HostBusy(h)'
      <4>1. \A i \in Host : CohortAt(i)' = c /\ HostBusy(i)' <=> CohortAt(i) = c /\ HostBusy(i)
        BY <1>1, <3>2
      <4> QED
        BY <2>0, <2>1, <3>2, <4>1
    <3> QED
      BY <3>1, <3>2
  <2>2. CASE c # own
    <3>1. \A i \in Host : CohortAt(i)' = c /\ HostBusy(i)' <=> CohortAt(i) = c /\ HostBusy(i)
      BY <1>1, <2>2
    <3> QED
      BY <2>0, <2>2, <3>1
  <2> QED
    BY <2>1, <2>2
<1>5. CohortsApart'
  <2>1. ASSUME NEW i \in Host, NEW j \in Host, HostBusy(i)', HostBusy(j)', CohortAt(i)' = CohortAt(j)'
        PROVE  i = j
    <3>1. CASE i # h /\ j # h
      BY <1>0, <1>1, <2>1, <3>1 DEF CohortsApart
    <3>2. CASE i = h /\ j # h
      BY <1>1, <1>3, <2>1, <3>2
    <3>3. CASE i # h /\ j = h
      BY <1>1, <1>3, <2>1, <3>3
    <3> QED
      BY <3>1, <3>2, <3>3
  <2>2. ASSUME NEW i \in Host, gates'[i].at \in {"champion", "challenger", "compare"}
        PROVE  compared'[CohortAt(i)'] = 0
    <3>1. CASE i = h
      <4>1. CohortAt(h)' = own
        BY <2>2, <3>1 DEF HostBusy
      <4> QED
        BY <2>2, <3>1, <4>1
    <3>2. CASE i # h
      <4>1. gates[i].at \in {"champion", "challenger", "compare"} /\ HostBusy(i) /\ compared[CohortAt(i)] = 0
        BY <1>0, <2>2, <3>2 DEF CohortsApart, HostBusy
      <4>2. CASE CohortAt(i) # own
        BY <1>1, <3>2, <4>1, <4>2
      <4>3. CASE CohortAt(i) = own
        <5>1. ~HostBusy(h) /\ ~HostBusy(h)'
          BY <1>3, <3>2, <4>1, <4>3
        <5> QED
          BY <1>1, <3>2, <4>1, <4>3, <5>1
      <4> QED
        BY <4>2, <4>3
    <3> QED
      BY <3>1, <3>2
  <2> QED
    BY <2>1, <2>2 DEF CohortsApart
<1> QED
  BY <1>2, <1>4, <1>5 DEF GateInv

LEMMA GateInitInv == GateInit => GateInv
<1> SUFFICES ASSUME GateInit PROVE GateInv
  OBVIOUS
<1>1. PICK data \in [Host -> Dataset] :
        hosts = [h \in Host |-> [data |-> data[h], design |-> FirstDesign,
                                 model |-> MinedModel(data[h], "all", FirstDesign), online |-> FALSE]]
  BY DEF GateInit
<1>2. /\ gates = [h \in Host |-> NoGate] /\ engines = [h \in Host |-> {"host"}]
      /\ spent = [c \in GateCohort |-> "new"] /\ compared = [c \in GateCohort |-> 0]
      /\ gateRequests = 0
  BY DEF GateInit
<1>3. FirstDesign \in Design
  BY GateAssumption
<1>4. GateTypeOK
  <2>1. \A h \in Host : hosts[h] \in HostState
    BY <1>1, <1>3 DEF HostState, GateModel, MinedModel
  <2>2. NoGate \in GateState
    BY <1>3 DEF NoGate, GateState, GatePlace, GateModel, MinedModel
  <2> QED
    BY <1>1, <1>2, <2>1, <2>2 DEF GateTypeOK
<1>5. \A h \in Host : gates[h].at = "idle" /\ ~gates[h].failed
  BY <1>2 DEF NoGate
<1>6. \A h \in Host : Answers(h)
  BY <1>1, <1>2, <1>5 DEF Answers, GateAt
<1>7. CohortsApart
  BY <1>5 DEF CohortsApart, HostBusy
<1>8. CohortSpentOnce
  BY <1>2, <1>5 DEF CohortSpentOnce
<1> QED
  BY <1>4, <1>6, <1>7, <1>8 DEF GateInv

\* A request that is not with its cohort leaves it alone.
LEMMA GateApart ==
    ASSUME GateInv, GateTypeOK', NEW h \in Host,
           \A i \in Host : i # h => /\ hosts'[i] = hosts[i] /\ gates'[i] = gates[i]
                                    /\ engines'[i] = engines[i],
           UNCHANGED <<spent, compared>>, ~HostBusy(h), ~HostBusy(h)', Answers(h)'
    PROVE  GateInv'
<1>1. /\ CohortAt(h) \in GateCohort
      /\ compared[CohortAt(h)] <= 1 /\ (compared[CohortAt(h)] > 0 => spent[CohortAt(h)] # "new")
  BY GateFields DEF GateInv, CohortSpentOnce
<1>2. ~(gates'[h].at \in {"champion", "challenger", "compare"})
  BY DEF HostBusy
<1> QED
  BY <1>1, <1>2, GateStep

\* A request that keeps its cohort, and has it compared at most as it goes on.
LEMMA GateInside ==
    ASSUME GateInv, GateTypeOK', NEW h \in Host,
           \A i \in Host : i # h => /\ hosts'[i] = hosts[i] /\ gates'[i] = gates[i]
                                    /\ engines'[i] = engines[i],
           UNCHANGED spent, HostBusy(h), HostBusy(h)', CohortAt(h)' = CohortAt(h), Answers(h)',
           \/ UNCHANGED compared /\ (gates'[h].at \in {"champion", "challenger", "compare"} =>
                                       gates[h].at \in {"champion", "challenger", "compare"})
           \/ /\ GateAt(h, "compare") /\ compared' = [compared EXCEPT ![CohortAt(h)] = @ + 1]
              /\ gates'[h].at \notin {"champion", "challenger", "compare"}
    PROVE  GateInv'
<1> DEFINE own == CohortAt(h)
<1>1. /\ own \in GateCohort /\ compared[own] \in Nat /\ compared \in [GateCohort -> Nat]
      /\ compared[own] <= 1 /\ (compared[own] > 0 => spent[own] # "new")
      /\ spent[own] = "running"
      /\ gates[h].at \in {"champion", "challenger", "compare"} => compared[own] = 0
  BY GateFields DEF GateInv, GateTypeOK, CohortSpentOnce, CohortsApart, HostBusy
<1>2. /\ \A c \in GateCohort : c # own => spent'[c] = spent[c] /\ compared'[c] = compared[c]
      /\ compared'[own] <= 1
      /\ gates'[h].at \in {"champion", "challenger", "compare"} => compared'[own] = 0
  <2>1. CASE UNCHANGED compared
    BY <1>1, <2>1
  <2>2. CASE GateAt(h, "compare") /\ compared' = [compared EXCEPT ![own] = @ + 1]
    BY <1>1, <2>2 DEF GateAt
  <2> QED
    BY <2>1, <2>2
<1> HIDE DEF own
<1>3. spent'[own] = "running"
  BY <1>1
<1>4. /\ \A c \in GateCohort : c # CohortAt(h) => /\ spent'[c] = spent[c]
                                                  /\ compared'[c] = compared[c]
      /\ spent'[CohortAt(h)] = "running" /\ compared'[CohortAt(h)] <= 1
      /\ gates'[h].at \in {"champion", "challenger", "compare"} => compared'[CohortAt(h)] = 0
  BY <1>2, <1>3 DEF own
<1>5. HostBusy(h) \/ HostBusy(h)' => CohortAt(h)' = CohortAt(h)
  OBVIOUS
<1>6. HostBusy(h) /\ ~HostBusy(h)' => spent'[CohortAt(h)] # "running"
  OBVIOUS
<1>7. ~HostBusy(h) /\ ~HostBusy(h)' => /\ spent'[CohortAt(h)] = spent[CohortAt(h)]
                               /\ compared'[CohortAt(h)] = compared[CohortAt(h)]
  OBVIOUS
<1>8. ~HostBusy(h) /\ HostBusy(h)' => spent[CohortAt(h)] = "new"
  OBVIOUS
<1>9. compared'[CohortAt(h)] > 0 => spent'[CohortAt(h)] # "new"
  BY <1>4
<1> QED
  BY <1>4, <1>5, <1>6, <1>7, <1>8, <1>9, GateStep

LEMMA GateIdleInv ==
    ASSUME GateInv, NEW h \in Host, GateFeedback(h) \/ GateReload(h) \/ Ask(h)
    PROVE  GateInv'
<1>0. GateTypeOK /\ Answers(h) /\ GateAt(h, "idle")
  BY DEF GateInv, GateFeedback, GateReload, Ask
<1>1. CASE GateFeedback(h)
  <2>1. /\ hosts' = [hosts EXCEPT ![h].online = TRUE]
        /\ UNCHANGED <<gates, engines, spent, compared, gateRequests>>
    BY <1>1 DEF GateFeedback
  <2>2. [hosts[h] EXCEPT !.online = TRUE] \in HostState
    BY <1>0, GateFields DEF HostState
  <2>3. GateTypeOK'
    BY <1>0, <2>1, <2>2 DEF GateTypeOK
  <2>4. /\ hosts'[h].model = hosts[h].model /\ hosts'[h].data = hosts[h].data
        /\ hosts'[h].design = hosts[h].design
    BY <1>0, <2>1, GateFields DEF GateTypeOK, HostState
  <2>5. Answers(h)'
    BY <1>0, <2>1, <2>4 DEF Answers, GateAt
  <2>6. ~HostBusy(h) /\ ~HostBusy(h)'
    BY <1>0, <2>1 DEF HostBusy, GateAt
  <2>7. \A i \in Host : i # h => /\ hosts'[i] = hosts[i] /\ gates'[i] = gates[i]
                                 /\ engines'[i] = engines[i]
    BY <1>0, <2>1 DEF GateTypeOK
  <2> QED
    BY <2>1, <2>3, <2>5, <2>6, <2>7, GateApart
<1>2. CASE GateReload(h)
  <2>1. PICK d \in Dataset :
          hosts' = [hosts EXCEPT ![h] = [data |-> d, design |-> FirstDesign,
                                         model |-> MinedModel(d, "all", FirstDesign), online |-> FALSE]]
    BY <1>2 DEF GateReload
  <2>2. /\ gates' = [gates EXCEPT ![h] = NoGate]
        /\ UNCHANGED <<engines, spent, compared, gateRequests>>
    BY <1>2 DEF GateReload
  <2>3. NoGate \in GateState /\ NoGate.at = "idle" /\ ~NoGate.failed
    BY GateAssumption DEF NoGate, GateState, GatePlace, GateModel, MinedModel
  <2>4. [data |-> d, design |-> FirstDesign, model |-> MinedModel(d, "all", FirstDesign),
         online |-> FALSE] \in HostState
    BY GateAssumption DEF HostState, GateModel, MinedModel
  <2>5. GateTypeOK'
    BY <1>0, <2>1, <2>2, <2>3, <2>4 DEF GateTypeOK
  <2>6. /\ gates'[h] = NoGate /\ engines'[h] = {"host"}
        /\ hosts'[h].model = MinedModel(hosts'[h].data, "all", hosts'[h].design)
    BY <1>0, <2>1, <2>2 DEF GateTypeOK, Answers, GateAt
  <2>7. Answers(h)'
    BY <2>3, <2>6 DEF Answers, GateAt
  <2>8. ~HostBusy(h) /\ ~HostBusy(h)'
    BY <1>0, <2>3, <2>6 DEF HostBusy, GateAt
  <2>9. \A i \in Host : i # h => /\ hosts'[i] = hosts[i] /\ gates'[i] = gates[i]
                                 /\ engines'[i] = engines[i]
    BY <1>0, <2>1, <2>2 DEF GateTypeOK
  <2> QED
    BY <2>2, <2>5, <2>7, <2>8, <2>9, GateApart
<1>3. CASE Ask(h)
  <2>1. PICK challenger \in Design \ {hosts[h].design}, promote \in BOOLEAN :
          gates' = [gates EXCEPT ![h] = [NoGate EXCEPT !.at = "claim", !.challenger = challenger,
                                           !.promote = promote, !.before = hosts[h].model]]
    BY <1>3 DEF Ask
  <2>2. gateRequests' = gateRequests + 1 /\ UNCHANGED <<hosts, engines, spent, compared>>
    BY <1>3 DEF Ask
  <2> DEFINE gate == [NoGate EXCEPT !.at = "claim", !.challenger = challenger,
                                    !.promote = promote, !.before = hosts[h].model]
  <2>3. /\ gate \in GateState /\ gate.at = "claim" /\ ~gate.failed /\ gate.before = hosts[h].model
    BY <1>0, GateFields DEF NoGate, GateState, GatePlace
  <2> HIDE DEF gate
  <2>4. gates' = [gates EXCEPT ![h] = gate]
    BY <2>1 DEF gate
  <2>5. GateTypeOK'
    BY <1>0, <2>2, <2>3, <2>4 DEF GateTypeOK
  <2>6. gates'[h] = gate /\ gates[h].at = "idle"
    BY <1>0, <2>4 DEF GateTypeOK, GateAt
  <2>7. Answers(h)'
    BY <1>0, <2>2, <2>3, <2>6 DEF Answers, GateAt
  <2>8. ~HostBusy(h) /\ ~HostBusy(h)'
    BY <2>3, <2>6 DEF HostBusy
  <2>9. \A i \in Host : i # h => /\ hosts'[i] = hosts[i] /\ gates'[i] = gates[i]
                                 /\ engines'[i] = engines[i]
    BY <1>0, <2>2, <2>4 DEF GateTypeOK
  <2> QED
    BY <2>2, <2>5, <2>7, <2>8, <2>9, GateApart
<1> QED
  BY <1>1, <1>2, <1>3

\* The cohort is entered under the registry's lock, once.
LEMMA ClaimCohortInv ==
    ASSUME GateInv, NEW h \in Host, ClaimCohort(h)
    PROVE  GateInv'
<1> DEFINE own == CohortAt(h)
<1>0. GateTypeOK /\ Answers(h) /\ gates[h].at = "claim" /\ own \in GateCohort
  BY GateFields DEF GateInv, ClaimCohort, GateAt
<1>1. UNCHANGED <<hosts, engines, compared, gateRequests>>
  BY DEF ClaimCohort
<1>2. CASE spent[own] # "new"
  <2>1. gates' = [gates EXCEPT ![h].at = "idle", ![h].failed = TRUE] /\ UNCHANGED spent
    BY <1>2 DEF ClaimCohort
  <2> DEFINE gate == [gates[h] EXCEPT !.at = "idle", !.failed = TRUE]
  <2>2. gate \in GateState /\ gate.at = "idle" /\ gate.before = gates[h].before
    BY <1>0, GateFields DEF GateState, GatePlace
  <2>3. gates' = [gates EXCEPT ![h] = gate]
    BY <1>0, <2>1, GateFields DEF GateTypeOK, GateState
  <2> HIDE DEF gate
  <2>4. gates'[h] = gate /\ GateTypeOK'
    BY <1>0, <1>1, <2>1, <2>2, <2>3 DEF GateTypeOK
  <2>5. Answers(h)'
    BY <1>0, <1>1, <2>2, <2>4 DEF Answers, GateAt
  <2>6. ~HostBusy(h) /\ ~HostBusy(h)'
    BY <1>0, <2>2, <2>4 DEF HostBusy
  <2>7. \A i \in Host : i # h => /\ hosts'[i] = hosts[i] /\ gates'[i] = gates[i]
                                 /\ engines'[i] = engines[i]
    BY <1>0, <1>1, <2>3 DEF GateTypeOK
  <2> QED
    BY <1>1, <2>1, <2>4, <2>5, <2>6, <2>7, GateApart
<1>3. CASE spent[own] = "new"
  <2>1. gates' = [gates EXCEPT ![h].at = "champion"] /\ spent' = [spent EXCEPT ![own] = "running"]
    BY <1>3 DEF ClaimCohort
  <2> DEFINE gate == [gates[h] EXCEPT !.at = "champion"]
  <2>2. gate \in GateState /\ gate.at = "champion" /\ gate.before = gates[h].before
        /\ gate.failed = gates[h].failed
    BY <1>0, GateFields DEF GateState, GatePlace
  <2>3. gates' = [gates EXCEPT ![h] = gate]
    BY <1>0, <2>1, GateFields DEF GateTypeOK, GateState
  <2> HIDE DEF gate
  <2>4. gates'[h] = gate /\ GateTypeOK'
    BY <1>0, <1>1, <2>1, <2>2, <2>3 DEF GateTypeOK
  <2>5. Answers(h)'
    BY <1>0, <1>1, <2>2, <2>4 DEF Answers, GateAt
  <2>6. ~HostBusy(h) /\ HostBusy(h)'
    BY <1>0, <2>2, <2>4 DEF HostBusy
  <2>7. \A i \in Host : i # h => /\ hosts'[i] = hosts[i] /\ gates'[i] = gates[i]
                                 /\ engines'[i] = engines[i]
    BY <1>0, <1>1, <2>3 DEF GateTypeOK
  <2>8. /\ spent'[own] = "running" /\ CohortAt(h)' = own
        /\ \A c \in GateCohort : c # own => spent'[c] = spent[c] /\ compared'[c] = compared[c]
    BY <1>0, <1>1, <2>1 DEF GateTypeOK, CohortAt
  <2>9. compared'[own] = 0
    BY <1>0, <1>1, <1>3, GateFields DEF GateInv, CohortSpentOnce
  <2>10. /\ compared'[own] <= 1 /\ (compared'[own] > 0 => spent'[own] # "new")
         /\ (gates'[h].at \in {"champion", "challenger", "compare"} => compared'[own] = 0)
         /\ (~HostBusy(h) /\ HostBusy(h)' => spent[own] = "new")
    BY <1>3, <2>8, <2>9
  <2>11. /\ HostBusy(h) \/ HostBusy(h)' => CohortAt(h)' = CohortAt(h)
         /\ HostBusy(h)' => spent'[CohortAt(h)] = "running"
         /\ HostBusy(h) /\ ~HostBusy(h)' => spent'[CohortAt(h)] # "running"
         /\ ~HostBusy(h) /\ ~HostBusy(h)' => /\ spent'[CohortAt(h)] = spent[CohortAt(h)]
                                     /\ compared'[CohortAt(h)] = compared[CohortAt(h)]
         /\ ~HostBusy(h) /\ HostBusy(h)' => spent[CohortAt(h)] = "new"
    BY <2>6, <2>8, <2>10
  <2> QED
    BY <2>4, <2>5, <2>7, <2>8, <2>10, <2>11, GateStep
<1> QED
  BY <1>2, <1>3

\* A request that ends and leaves its cohort decided.
LEMMA GateLeaves ==
    ASSUME GateInv, GateTypeOK', NEW h \in Host,
           \A i \in Host : i # h => /\ hosts'[i] = hosts[i] /\ gates'[i] = gates[i]
                                    /\ engines'[i] = engines[i],
           NEW s, s # "running", s # "new", spent' = [spent EXCEPT ![CohortAt(h)] = s],
           UNCHANGED compared, HostBusy(h), ~HostBusy(h)', CohortAt(h)' = CohortAt(h), Answers(h)'
    PROVE  GateInv'
<1> DEFINE own == CohortAt(h)
<1>1. /\ own \in GateCohort /\ compared[own] \in Nat /\ compared[own] <= 1
      /\ spent \in [GateCohort -> {"new", "running", "pass", "hold", "error"}]
  BY GateFields DEF GateInv, GateTypeOK, CohortSpentOnce
<1>2. /\ \A c \in GateCohort : c # own => spent'[c] = spent[c] /\ compared'[c] = compared[c]
      /\ spent'[own] = s
  BY <1>1
<1>3. ~(gates'[h].at \in {"champion", "challenger", "compare"})
  BY DEF HostBusy
<1> QED
  BY <1>1, <1>2, <1>3, GateStep

LEMMA EphemeralInv ==
    ASSUME GateInv, NEW h \in Host, NEW role \in {"champion", "challenger"}, NEW next,
           next = IF role = "champion" THEN "challenger" ELSE "compare",
           OpenEphemeral(h, role) \/ RunEphemeral(h, role, next)
    PROVE  GateInv'
<1>0. GateTypeOK /\ Answers(h) /\ gates[h].at = role
  BY DEF GateInv, OpenEphemeral, RunEphemeral, GateAt
<1>1. CASE OpenEphemeral(h, role)
  <2>1. /\ engines' = [engines EXCEPT ![h] = @ \cup {role}] /\ role \notin engines[h]
        /\ UNCHANGED <<hosts, gates, spent, compared, gateRequests>>
    BY <1>1 DEF OpenEphemeral
  <2>2. engines[h] = {"host"}
    BY <1>0, <2>1 DEF Answers
  <2>3. engines'[h] = {"host", role} /\ GateTypeOK'
    BY <1>0, <2>1, <2>2 DEF GateTypeOK
  <2>4. Answers(h)'
    BY <1>0, <2>1, <2>3 DEF Answers, GateAt
  <2>5. HostBusy(h) /\ HostBusy(h)' /\ CohortAt(h)' = CohortAt(h)
    BY <1>0, <2>1 DEF HostBusy, CohortAt
  <2>6. \A i \in Host : i # h => /\ hosts'[i] = hosts[i] /\ gates'[i] = gates[i]
                                 /\ engines'[i] = engines[i]
    BY <1>0, <2>1 DEF GateTypeOK
  <2> QED
    BY <2>1, <2>3, <2>4, <2>5, <2>6, GateInside
<1>2. CASE RunEphemeral(h, role, next)
  <2>1. /\ engines' = [engines EXCEPT ![h] = @ \ {role}] /\ role \in engines[h]
        /\ gates' = [gates EXCEPT ![h].at = next]
        /\ UNCHANGED <<hosts, spent, compared, gateRequests>>
    BY <1>2 DEF RunEphemeral
  <2> DEFINE gate == [gates[h] EXCEPT !.at = next]
  <2>2. /\ gate \in GateState /\ gate.at = next /\ gate.before = gates[h].before
        /\ gate.failed = gates[h].failed
    BY <1>0, GateFields DEF GateState, GatePlace
  <2>3. gates' = [gates EXCEPT ![h] = gate]
    BY <1>0, <2>1, GateFields DEF GateTypeOK, GateState
  <2> HIDE DEF gate
  <2>4. engines[h] = {"host", role}
    BY <1>0, <2>1 DEF Answers
  <2>5. engines'[h] = {"host"} /\ gates'[h] = gate /\ GateTypeOK'
    BY <1>0, <2>1, <2>2, <2>3, <2>4 DEF GateTypeOK
  <2>6. Answers(h)'
    BY <1>0, <2>1, <2>2, <2>5 DEF Answers, GateAt
  <2>7. HostBusy(h) /\ HostBusy(h)' /\ CohortAt(h)' = CohortAt(h)
    BY <1>0, <2>1, <2>2, <2>5 DEF HostBusy, CohortAt
  <2>8. \A i \in Host : i # h => /\ hosts'[i] = hosts[i] /\ gates'[i] = gates[i]
                                 /\ engines'[i] = engines[i]
    BY <1>0, <2>1, <2>3 DEF GateTypeOK
  <2> QED
    BY <1>0, <2>1, <2>5, <2>6, <2>7, <2>8, GateInside
<1> QED
  BY <1>1, <1>2

LEMMA CompareRunsInv ==
    ASSUME GateInv, NEW h \in Host, CompareRuns(h)
    PROVE  GateInv'
<1>0. GateTypeOK /\ Answers(h) /\ gates[h].at = "compare"
  BY DEF GateInv, CompareRuns, GateAt
<1>1. PICK status \in {"pass", "hold"}, next \in {"stage", "finish"} :
        gates' = [gates EXCEPT ![h].status = status, ![h].at = next]
  BY DEF CompareRuns
<1>2. /\ compared' = [compared EXCEPT ![CohortAt(h)] = @ + 1]
      /\ UNCHANGED <<hosts, engines, spent, gateRequests>>
  BY DEF CompareRuns
<1> DEFINE gate == [gates[h] EXCEPT !.status = status, !.at = next]
<1>3. /\ gate \in GateState /\ gate.at = next /\ gate.before = gates[h].before
      /\ gate.failed = gates[h].failed /\ gate.status = status
  BY <1>0, GateFields DEF GateState, GatePlace
<1>4. gates' = [gates EXCEPT ![h] = gate]
  BY <1>0, <1>1, GateFields DEF GateTypeOK, GateState
<1> HIDE DEF gate
<1>5. gates'[h] = gate
  BY <1>0, <1>4 DEF GateTypeOK
<1>6. GateTypeOK'
  <2>1. compared' \in [GateCohort -> Nat]
    <3>1. CohortAt(h) \in GateCohort /\ compared[CohortAt(h)] + 1 \in Nat
      BY <1>0, GateFields
    <3> QED
      BY <1>0, <1>2, <3>1 DEF GateTypeOK
  <2> QED
    BY <1>0, <1>2, <1>3, <1>4, <2>1 DEF GateTypeOK
<1>7. Answers(h)'
  BY <1>0, <1>2, <1>3, <1>5 DEF Answers, GateAt
<1>8. HostBusy(h) /\ HostBusy(h)' /\ CohortAt(h)' = CohortAt(h)
  BY <1>0, <1>2, <1>3, <1>5 DEF HostBusy, CohortAt
<1>9. \A i \in Host : i # h => /\ hosts'[i] = hosts[i] /\ gates'[i] = gates[i]
                               /\ engines'[i] = engines[i]
  BY <1>0, <1>2, <1>4 DEF GateTypeOK
<1>10. GateAt(h, "compare") /\ gates'[h].at \notin {"champion", "challenger", "compare"}
  BY <1>0, <1>3, <1>5 DEF GateAt
<1> QED
  BY <1>2, <1>6, <1>7, <1>8, <1>9, <1>10, GateInside

LEMMA StagedInv ==
    ASSUME GateInv, NEW h \in Host, StageChallenger(h) \/ AdoptStaged(h)
    PROVE  GateInv'
<1>0. GateTypeOK /\ Answers(h)
  BY DEF GateInv
<1>1. CASE StageChallenger(h)
  <2>0. gates[h].at = "stage"
    BY <1>1 DEF StageChallenger, GateAt
  <2>1. /\ engines' = [engines EXCEPT ![h] = @ \cup {"staged"}]
        /\ gates' = [gates EXCEPT ![h].at = "adopt"]
        /\ UNCHANGED <<hosts, spent, compared, gateRequests>>
    BY <1>1 DEF StageChallenger
  <2> DEFINE gate == [gates[h] EXCEPT !.at = "adopt"]
  <2>2. /\ gate \in GateState /\ gate.at = "adopt" /\ gate.before = gates[h].before
        /\ gate.failed = gates[h].failed /\ gate.status = gates[h].status
    BY <1>0, GateFields DEF GateState, GatePlace
  <2>3. gates' = [gates EXCEPT ![h] = gate]
    BY <1>0, <2>1, GateFields DEF GateTypeOK, GateState
  <2> HIDE DEF gate
  <2>4. engines[h] = {"host"}
    BY <1>0, <2>0 DEF Answers
  <2>5. engines'[h] = {"host", "staged"} /\ gates'[h] = gate /\ GateTypeOK'
    BY <1>0, <2>1, <2>2, <2>3, <2>4 DEF GateTypeOK
  <2>6. Answers(h)'
    BY <1>0, <2>0, <2>1, <2>2, <2>5 DEF Answers, GateAt
  <2>7. HostBusy(h) /\ HostBusy(h)' /\ CohortAt(h)' = CohortAt(h)
    BY <2>0, <2>1, <2>2, <2>5 DEF HostBusy, CohortAt
  <2>8. \A i \in Host : i # h => /\ hosts'[i] = hosts[i] /\ gates'[i] = gates[i]
                                 /\ engines'[i] = engines[i]
    BY <1>0, <2>1, <2>3 DEF GateTypeOK
  <2>9. ~(gates'[h].at \in {"champion", "challenger", "compare"})
    BY <2>2, <2>5
  <2> QED
    BY <2>1, <2>5, <2>6, <2>7, <2>8, <2>9, GateInside
<1>2. CASE AdoptStaged(h)
  <2>0. gates[h].at = "adopt"
    BY <1>2 DEF AdoptStaged, GateAt
  <2>1. /\ hosts' = [hosts EXCEPT ![h].design = gates[h].challenger,
                                  ![h].model = MinedModel(hosts[h].data, "all", gates[h].challenger)]
        /\ engines' = [engines EXCEPT ![h] = {"host"}]
        /\ gates' = [gates EXCEPT ![h].at = "finish"]
        /\ UNCHANGED <<spent, compared, gateRequests>>
    BY <1>2 DEF AdoptStaged
  <2> DEFINE gate == [gates[h] EXCEPT !.at = "finish"]
             model == MinedModel(hosts[h].data, "all", gates[h].challenger)
             host == [hosts[h] EXCEPT !.design = gates[h].challenger, !.model = model]
  <2>2. /\ gate \in GateState /\ gate.at = "finish" /\ gate.failed = gates[h].failed
        /\ gate.status = gates[h].status
    BY <1>0, GateFields DEF GateState, GatePlace
  <2>3. gates' = [gates EXCEPT ![h] = gate]
    BY <1>0, <2>1, GateFields DEF GateTypeOK, GateState
  <2>4. model \in GateModel
    BY <1>0, GateFields DEF GateModel, MinedModel
  <2>5. hosts' = [hosts EXCEPT ![h] = host]
    <3> HIDE DEF model
    <3>1. hosts' = [hosts EXCEPT ![h].design = gates[h].challenger, ![h].model = model]
      BY <2>1 DEF model
    <3> QED
      BY <1>0, <3>1, GateFields DEF GateTypeOK, HostState
  <2>6. /\ host \in HostState /\ host.data = hosts[h].data /\ host.design = gates[h].challenger
        /\ host.model = model
    <3> HIDE DEF model
    <3> QED
      BY <1>0, <2>4, GateFields DEF HostState
  <2>7. host.model = MinedModel(host.data, "all", host.design)
    BY <2>6
  <2> HIDE DEF gate, host
  <2>8. /\ engines'[h] = {"host"} /\ gates'[h] = gate /\ hosts'[h] = host
        /\ \A i \in Host : i # h => /\ hosts'[i] = hosts[i] /\ gates'[i] = gates[i]
                                    /\ engines'[i] = engines[i]
    BY <1>0, <2>1, <2>3, <2>5 DEF GateTypeOK
  <2>9. GateTypeOK'
    <3>1. hosts' \in [Host -> HostState]
      BY <1>0, <2>5, <2>6 DEF GateTypeOK
    <3>2. gates' \in [Host -> GateState]
      BY <1>0, <2>2, <2>3 DEF GateTypeOK
    <3> QED
      BY <1>0, <2>1, <3>1, <3>2 DEF GateTypeOK
  <2>10. Answers(h)'
    BY <1>0, <2>0, <2>2, <2>7, <2>8 DEF Answers, GateAt
  <2>11. HostBusy(h) /\ HostBusy(h)' /\ CohortAt(h)' = CohortAt(h)
    BY <2>0, <2>2, <2>6, <2>8 DEF HostBusy, CohortAt
  <2>12. ~(gates'[h].at \in {"champion", "challenger", "compare"})
    BY <2>2, <2>8
  <2> QED
    BY <2>1, <2>8, <2>9, <2>10, <2>11, <2>12, GateInside
<1> QED
  BY <1>1, <1>2

LEMMA GateEndsInv ==
    ASSUME GateInv, NEW h \in Host, FinishAttempt(h) \/ GateRaises(h)
    PROVE  GateInv'
<1>0. GateTypeOK /\ Answers(h) /\ CohortAt(h) \in GateCohort
  BY GateFields DEF GateInv
<1>1. CASE FinishAttempt(h)
  <2>0. gates[h].at = "finish" /\ gates[h].status \in {"pass", "hold"}
    BY <1>0, <1>1 DEF FinishAttempt, GateAt, Answers
  <2>1. /\ spent' = [spent EXCEPT ![CohortAt(h)] = gates[h].status]
        /\ gates' = [gates EXCEPT ![h].at = "idle"]
        /\ UNCHANGED <<hosts, engines, compared, gateRequests>>
    BY <1>1 DEF FinishAttempt
  <2> DEFINE gate == [gates[h] EXCEPT !.at = "idle"]
             s == gates[h].status
  <2>2. gate \in GateState /\ gate.at = "idle" /\ gate.failed = gates[h].failed
    BY <1>0, GateFields DEF GateState, GatePlace
  <2>3. gates' = [gates EXCEPT ![h] = gate]
    BY <1>0, <2>1, GateFields DEF GateTypeOK, GateState
  <2> HIDE DEF gate
  <2>4. gates'[h] = gate
    BY <1>0, <2>3 DEF GateTypeOK
  <2>5. GateTypeOK'
    BY <1>0, <2>0, <2>1, <2>2, <2>3 DEF GateTypeOK
  <2>6. Answers(h)'
    BY <1>0, <2>0, <2>1, <2>2, <2>4 DEF Answers, GateAt
  <2>7. HostBusy(h) /\ ~HostBusy(h)' /\ CohortAt(h)' = CohortAt(h)
    BY <2>0, <2>1, <2>2, <2>4 DEF HostBusy, CohortAt
  <2>8. \A i \in Host : i # h => /\ hosts'[i] = hosts[i] /\ gates'[i] = gates[i]
                                 /\ engines'[i] = engines[i]
    BY <1>0, <2>1, <2>3 DEF GateTypeOK
  <2>9. s # "running" /\ s # "new" /\ spent' = [spent EXCEPT ![CohortAt(h)] = s]
    BY <2>0, <2>1
  <2> HIDE DEF s
  <2> QED
    BY <2>1, <2>5, <2>6, <2>7, <2>8, <2>9, GateLeaves
<1>2. CASE GateRaises(h)
  <2>0. gates[h].at \in {"champion", "challenger", "compare", "stage", "adopt"}
    BY <1>2 DEF GateRaises
  <2>1. /\ engines' = [engines EXCEPT ![h] = {"host"}]
        /\ spent' = [spent EXCEPT ![CohortAt(h)] = "error"]
        /\ gates' = [gates EXCEPT ![h].at = "idle", ![h].failed = TRUE]
        /\ UNCHANGED <<hosts, compared, gateRequests>>
    BY <1>2 DEF GateRaises
  <2> DEFINE gate == [gates[h] EXCEPT !.at = "idle", !.failed = TRUE]
  <2>2. gate \in GateState /\ gate.at = "idle" /\ gate.before = gates[h].before
    BY <1>0, GateFields DEF GateState, GatePlace
  <2>3. gates' = [gates EXCEPT ![h] = gate]
    BY <1>0, <2>1, GateFields DEF GateTypeOK, GateState
  <2> HIDE DEF gate
  <2>4. gates'[h] = gate /\ engines'[h] = {"host"}
    BY <1>0, <2>1, <2>3 DEF GateTypeOK
  <2>5. GateTypeOK'
    BY <1>0, <2>1, <2>2, <2>3 DEF GateTypeOK
  <2>6. Answers(h)'
    BY <1>0, <2>0, <2>1, <2>2, <2>4 DEF Answers, GateAt
  <2>7. HostBusy(h) /\ ~HostBusy(h)' /\ CohortAt(h)' = CohortAt(h)
    BY <2>0, <2>1, <2>2, <2>4 DEF HostBusy, CohortAt
  <2>8. \A i \in Host : i # h => /\ hosts'[i] = hosts[i] /\ gates'[i] = gates[i]
                                 /\ engines'[i] = engines[i]
    BY <1>0, <2>1, <2>3 DEF GateTypeOK
  <2> QED
    BY <2>1, <2>5, <2>6, <2>7, <2>8, GateLeaves
<1> QED
  BY <1>1, <1>2

LEMMA GateNextInv == GateInv /\ [GateNext]_gateVars => GateInv'
<1> SUFFICES ASSUME GateInv, [GateNext]_gateVars PROVE GateInv'
  OBVIOUS
<1>1. CASE UNCHANGED gateVars
  BY <1>1 DEF gateVars, GateInv, GateTypeOK, CohortSpentOnce, CohortsApart, Answers, HostBusy,
              CohortAt, GateAt
<1>2. CASE GateNext
  <2>0. PICK h \in Host :
      \/ GateFeedback(h) \/ GateReload(h) \/ Ask(h) \/ ClaimCohort(h)
      \/ OpenEphemeral(h, "champion") \/ RunEphemeral(h, "champion", "challenger")
      \/ OpenEphemeral(h, "challenger") \/ RunEphemeral(h, "challenger", "compare")
      \/ CompareRuns(h) \/ StageChallenger(h) \/ AdoptStaged(h)
      \/ FinishAttempt(h) \/ GateRaises(h)
    BY <1>2 DEF GateNext
  <2>1. CASE GateFeedback(h) \/ GateReload(h) \/ Ask(h)
    BY <2>1, GateIdleInv
  <2>2. CASE ClaimCohort(h)
    BY <2>2, ClaimCohortInv
  <2>3. CASE OpenEphemeral(h, "champion") \/ RunEphemeral(h, "champion", "challenger")
    BY <2>3, EphemeralInv
  <2>4. CASE OpenEphemeral(h, "challenger") \/ RunEphemeral(h, "challenger", "compare")
    BY <2>4, EphemeralInv
  <2>5. CASE CompareRuns(h)
    BY <2>5, CompareRunsInv
  <2>6. CASE StageChallenger(h) \/ AdoptStaged(h)
    BY <2>6, StagedInv
  <2>7. CASE FinishAttempt(h) \/ GateRaises(h)
    BY <2>7, GateEndsInv
  <2> QED
    BY <2>0, <2>1, <2>2, <2>3, <2>4, <2>5, <2>6, <2>7
<1> QED
  BY <1>1, <1>2

\* The invariant of the gate and its process-wide registry.
THEOREM GateInvHolds == GateSpec => []GateInv
<1>1. GateInit => GateInv
  BY GateInitInv
<1>2. GateInv /\ [GateNext]_gateVars => GateInv'
  BY GateNextInv
<1> QED
  BY <1>1, <1>2, PTL DEF GateSpec

\* run_training_confirmation: a cohort decides once, and a gate that failed leaves
\* the model it found and no engine.
THEOREM GateIsSound == GateSpec => []GateSound
<1>1. GateInv => GateSound
  BY DEF GateInv, GateSound, GateLeavesNoTrace, Answers, GateAt
<1> QED
  BY <1>1, GateInvHolds, PTL

-----------------------------------------------------------------------------
(* The caches of the miner                                                 *)

(* Retention *)

Lasts(h) == {i \in DOMAIN h : \A j \in DOMAIN h : j > i => h[j] # h[i]}
RankOf(h, i) == Cardinality({j \in Lasts(h) : j >= i})
NewestUnits(h, k) == {NewestFirst(h)[i] : i \in 1..k}
SuffixUnits(h, first) == {h[i] : i \in first..Len(h)}

\* The last places of the elements of a history.
LEMMA LastFacts ==
    ASSUME NEW S, NEW h \in Seq(S)
    PROVE  /\ Len(h) \in Nat /\ DOMAIN h = 1..Len(h)
           /\ Lasts(h) \in SUBSET (1..Len(h)) /\ IsFiniteSet(Lasts(h))
           /\ Cardinality(Lasts(h)) \in Nat
           /\ \A i, j \in Lasts(h) : h[i] = h[j] => i = j
<1>1. Len(h) \in Nat /\ DOMAIN h = 1..Len(h)
  BY LenProperties
<1>2. Lasts(h) \in SUBSET (1..Len(h))
  BY <1>1 DEF Lasts
<1>3. IsFiniteSet(1..Len(h))
  BY <1>1, FS_Interval
<1>4. IsFiniteSet(Lasts(h)) /\ Cardinality(Lasts(h)) \in Nat
  BY <1>2, <1>3, FS_Subset, FS_CardinalityType
<1>5. ASSUME NEW i \in Lasts(h), NEW j \in Lasts(h), h[i] = h[j] PROVE i = j
  <2>1. i \in Nat /\ j \in Nat /\ i \in DOMAIN h /\ j \in DOMAIN h
    BY <1>1, <1>2
  <2>2. ~(j > i) /\ ~(i > j)
    BY <1>5, <2>1 DEF Lasts
  <2> QED
    BY <2>1, <2>2
<1> QED
  BY <1>1, <1>2, <1>4, <1>5

\* Every element has its last place.
LEMMA HasLast ==
    ASSUME NEW S, NEW h \in Seq(S), NEW i \in DOMAIN h
    PROVE  \E j \in Lasts(h) : j >= i /\ h[j] = h[i]
<1> DEFINE n == Len(h)
           T == {n - j : j \in {m \in DOMAIN h : h[m] = h[i]}}
<1>1. n \in Nat /\ DOMAIN h = 1..n
  BY LenProperties
<1>2. T \in SUBSET Nat /\ n - i \in T
  BY <1>1
<1>3. PICK d \in T : \A e \in T : d <= e
  <2> HIDE DEF T
  <2> QED
    BY <1>2, Least
<1>4. PICK j \in DOMAIN h : h[j] = h[i] /\ d = n - j
  BY <1>3
<1>5. ASSUME NEW m \in DOMAIN h, h[m] = h[i] PROVE m <= j
  <2>1. n - m \in T
    BY <1>5
  <2>2. n - j <= n - m
    BY <1>3, <1>4, <2>1
  <2>3. m \in Nat /\ j \in Nat /\ n \in Nat
    BY <1>1
  <2> HIDE DEF n
  <2> QED
    BY <2>2, <2>3
<1>6. j >= i
  BY <1>1, <1>5
<1>7. j \in Lasts(h)
  <2> SUFFICES ASSUME NEW m \in DOMAIN h, m > j PROVE h[m] # h[j]
    BY DEF Lasts
  <2> QED
    BY <1>1, <1>4, <1>5
<1> QED
  BY <1>4, <1>6, <1>7

\* The ranks of the last places run from 1 to their number.
LEMMA RankFacts ==
    ASSUME NEW S, NEW h \in Seq(S)
    PROVE  /\ \A i \in Lasts(h) : RankOf(h, i) \in 1..Cardinality(Lasts(h))
           /\ \A i, j \in Lasts(h) : i < j => RankOf(h, j) < RankOf(h, i)
           /\ \A k \in 1..Cardinality(Lasts(h)) : \E i \in Lasts(h) : RankOf(h, i) = k
<1> DEFINE L == Lasts(h)
           n == Cardinality(L)
           From(i) == {j \in L : j >= i}
           f == [i \in L |-> RankOf(h, i)]
<1>1. L \in SUBSET Nat /\ IsFiniteSet(L) /\ n \in Nat
  BY LastFacts
<1>2. \A i \in L : From(i) \in SUBSET L /\ IsFiniteSet(From(i)) /\ RankOf(h, i) = Cardinality(From(i))
                   /\ Cardinality(From(i)) <= n /\ Cardinality(From(i)) \in Nat
  BY <1>1, FS_Subset, FS_CardinalityType DEF RankOf
<1>3. ASSUME NEW i \in L PROVE RankOf(h, i) \in 1..n
  <2>1. i \in From(i)
    BY <1>1
  <2>2. Cardinality(From(i)) # 0
    BY <1>2, <2>1, FS_EmptySet
  <2> QED
    BY <1>1, <1>2, <2>2
<1>4. ASSUME NEW i \in L, NEW j \in L, i < j PROVE RankOf(h, j) < RankOf(h, i)
  <2>1. From(j) \in SUBSET From(i) /\ i \in From(i) /\ i \notin From(j)
    BY <1>1, <1>4
  <2> HIDE DEF From
  <2>2. Cardinality(From(j)) <= Cardinality(From(i)) /\ Cardinality(From(j)) # Cardinality(From(i))
    BY <1>2, <2>1, FS_Subset
  <2> QED
    BY <1>2, <2>2
<1>5. f \in Injection(L, 1..n)
  <2>1. f \in [L -> 1..n]
    BY <1>3
  <2>2. \A i, j \in L : f[i] = f[j] => i = j
    <3> TAKE i \in L, j \in L
    <3>1. i < j \/ j < i \/ i = j
      BY <1>1
    <3>2. RankOf(h, i) \in Nat /\ RankOf(h, j) \in Nat
      BY <1>3
    <3> QED
      BY <1>4, <3>1, <3>2
  <2> HIDE DEF f
  <2> QED
    BY <2>1, <2>2 DEF Injection, IsInjective
<1>6. Cardinality(1..n) = n /\ IsFiniteSet(1..n)
  <2>1. \A m \in Nat : Cardinality(1..m) = m /\ IsFiniteSet(1..m)
    BY FS_Interval
  <2> QED
    BY <1>1, <2>1
<1>7. f \in Surjection(L, 1..n)
  <2> HIDE DEF f
  <2>1. Cardinality(L) = Cardinality(1..n)
    BY <1>6
  <2> QED
    BY <1>5, <1>6, <2>1, FS_Injection
<1>8. \A k \in 1..n : \E i \in L : RankOf(h, i) = k
  <2>1. \A k \in 1..n : \E i \in L : f[i] = k
    <3> HIDE DEF f
    <3> QED
      BY <1>7 DEF Surjection
  <2> QED
    BY <2>1
<1> QED
  BY <1>3, <1>4, <1>8

\* The order lists the elements by their last places, the latest first.
LEMMA OrderFacts ==
    ASSUME NEW S, NEW h \in Seq(S)
    PROVE  /\ NewestFirst(h) \in Seq(S) /\ Len(NewestFirst(h)) = Cardinality(Lasts(h))
           /\ \A i \in Lasts(h) : NewestFirst(h)[RankOf(h, i)] = h[i]
<1> DEFINE n == Cardinality(Lasts(h))
           Pick(k) == CHOOSE i \in Lasts(h) : Cardinality({j \in Lasts(h) : j >= i}) = k
<1>1. NewestFirst(h) = [k \in 1..n |-> h[Pick(k)]]
  BY DEF NewestFirst, Lasts
<1>2. ASSUME NEW i \in Lasts(h) PROVE Pick(RankOf(h, i)) = i
  <2>1. \A j \in Lasts(h) : RankOf(h, j) = RankOf(h, i) => j = i
    <3> TAKE j \in Lasts(h)
    <3>1. i \in Nat /\ j \in Nat
      BY LastFacts
    <3>2. RankOf(h, i) \in Nat /\ RankOf(h, j) \in Nat
      BY RankFacts
    <3> QED
      BY <3>1, <3>2, RankFacts
  <2> QED
    BY <2>1 DEF RankOf
<1>3. \A k \in 1..n : Pick(k) \in Lasts(h)
  <2> TAKE k \in 1..n
  <2>1. \E i \in Lasts(h) : Cardinality({j \in Lasts(h) : j >= i}) = k
    BY RankFacts DEF RankOf
  <2> QED
    BY <2>1
<1>4. \A i \in Lasts(h) : h[i] \in S
  BY LastFacts, ElementOfSeq
<1> HIDE DEF Pick
<1>5. n \in Nat /\ \A k \in 1..n : h[Pick(k)] \in S
  BY <1>3, <1>4, LastFacts
<1>6. NewestFirst(h) \in Seq(S) /\ Len(NewestFirst(h)) = n
  BY <1>1, <1>5
<1>7. \A i \in Lasts(h) : NewestFirst(h)[RankOf(h, i)] = h[i]
  BY <1>1, <1>2, RankFacts
<1> QED
  BY <1>6, <1>7

\* The newest k units are those of the k last places.
LEMMA NewestIs ==
    ASSUME NEW S, NEW h \in Seq(S), NEW k \in 0..Cardinality(Lasts(h)), NEW x
    PROVE  x \in NewestUnits(h, k) <=> \E i \in Lasts(h) : RankOf(h, i) <= k /\ h[i] = x
<1> DEFINE n == Cardinality(Lasts(h))
<1>1. n \in Nat
  BY LastFacts
<1> HIDE DEF n
<1>2. ASSUME x \in NewestUnits(h, k)
      PROVE  \E i \in Lasts(h) : RankOf(h, i) <= k /\ h[i] = x
  <2>1. PICK m \in 1..k : x = NewestFirst(h)[m]
    BY <1>2 DEF NewestUnits
  <2>2. m \in 1..n /\ k \in Nat
    BY <1>1 DEF n
  <2>3. PICK i \in Lasts(h) : RankOf(h, i) = m
    BY <2>2, RankFacts DEF n
  <2> QED
    BY <2>1, <2>3, OrderFacts
<1>3. ASSUME NEW i \in Lasts(h), RankOf(h, i) <= k, h[i] = x
      PROVE  x \in NewestUnits(h, k)
  <2>1. RankOf(h, i) \in 1..n
    BY RankFacts DEF n
  <2>2. RankOf(h, i) \in 1..k
    BY <1>1, <1>3, <2>1 DEF n
  <2>3. NewestFirst(h)[RankOf(h, i)] = x
    BY <1>3, OrderFacts
  <2> QED
    BY <2>2, <2>3 DEF NewestUnits
<1> QED
  BY <1>2, <1>3

\* The units of a suffix are the newest ones.
LEMMA SuffixIsNewest ==
    ASSUME NEW S, NEW h \in Seq(S), NEW first \in 1..Len(h) + 1
    PROVE  /\ Cardinality({j \in Lasts(h) : j >= first}) \in 0..Cardinality(Lasts(h))
           /\ SuffixUnits(h, first) = NewestUnits(h, Cardinality({j \in Lasts(h) : j >= first}))
<1> DEFINE L == Lasts(h)
           n == Cardinality(L)
           From(m) == {j \in L : j >= m}
           k == Cardinality(From(first))
<1>0. Len(h) \in Nat /\ DOMAIN h = 1..Len(h)
  BY LastFacts
<1>1. L \in SUBSET Nat /\ IsFiniteSet(L) /\ n \in Nat /\ first \in Nat
  BY LastFacts
<1>2. \A m \in Nat : From(m) \in SUBSET L /\ IsFiniteSet(From(m)) /\ Cardinality(From(m)) <= n
                     /\ Cardinality(From(m)) \in Nat
  BY <1>1, FS_Subset, FS_CardinalityType
<1>3. k \in 0..n
  <2>1. k <= n /\ k \in Nat
    BY <1>1, <1>2
  <2> HIDE DEF k, n
  <2> QED
    BY <1>1, <2>1
<1>4. ASSUME NEW x \in SuffixUnits(h, first) PROVE \E i \in L : RankOf(h, i) <= k /\ h[i] = x
  <2>1. PICK i \in first..Len(h) : h[i] = x
    BY DEF SuffixUnits
  <2>2. i \in DOMAIN h /\ i \in Nat /\ i >= first
    BY <1>0, <1>1, <2>1
  <2>3. PICK j \in L : j >= i /\ h[j] = h[i]
    BY <2>2, HasLast
  <2>4. j \in Nat /\ From(j) \in SUBSET From(first)
    BY <1>1, <2>2, <2>3
  <2>5. Cardinality(From(j)) <= k
    <3> HIDE DEF From
    <3> QED
      BY <1>1, <1>2, <2>4, FS_Subset
  <2>6. RankOf(h, j) = Cardinality(From(j))
    BY DEF RankOf
  <2> QED
    BY <2>1, <2>3, <2>5, <2>6
<1>5. ASSUME NEW i \in L, RankOf(h, i) <= k PROVE h[i] \in SuffixUnits(h, first)
  <2>1. i \in Nat /\ i \in DOMAIN h
    BY <1>1 DEF Lasts
  <2>2. RankOf(h, i) = Cardinality(From(i))
    BY DEF RankOf
  <2>3. ~(i < first)
    <3> SUFFICES ASSUME i < first PROVE FALSE
      OBVIOUS
    <3>1. From(first) \in SUBSET From(i) /\ i \in From(i) /\ i \notin From(first)
      BY <1>1, <2>1
    <3> HIDE DEF From
    <3>2. Cardinality(From(first)) <= Cardinality(From(i)) /\ Cardinality(From(first)) # Cardinality(From(i))
      BY <1>1, <1>2, <2>1, <3>1, FS_Subset
    <3>3. Cardinality(From(first)) \in Nat /\ Cardinality(From(i)) \in Nat
      BY <1>1, <1>2, <2>1
    <3> QED
      BY <1>5, <2>2, <3>2, <3>3
  <2>4. i \in first..Len(h)
    BY <1>0, <1>1, <2>1, <2>3
  <2> QED
    BY <2>4 DEF SuffixUnits
<1>6. \A x : x \in SuffixUnits(h, first) <=> x \in NewestUnits(h, k)
  <2> HIDE DEF k, n
  <2> TAKE x
  <2>1. x \in NewestUnits(h, k) <=> \E i \in L : RankOf(h, i) <= k /\ h[i] = x
    BY <1>3, NewestIs DEF n
  <2> QED
    BY <1>4, <1>5, <2>1
<1> QED
  BY <1>3, <1>6

\* The newest units are those of a suffix.
LEMMA NewestIsSuffix ==
    ASSUME NEW S, NEW h \in Seq(S), NEW k \in 0..Cardinality(Lasts(h))
    PROVE  \E first \in 1..Len(h) + 1 : NewestUnits(h, k) = SuffixUnits(h, first)
<1> DEFINE n == Cardinality(Lasts(h))
<1>0. Len(h) \in Nat /\ n \in Nat /\ Lasts(h) \in SUBSET (1..Len(h))
  BY LastFacts
<1>1. CASE k = 0
  <2>1. NewestUnits(h, k) = {} /\ SuffixUnits(h, Len(h) + 1) = {} /\ Len(h) + 1 \in 1..Len(h) + 1
    BY <1>0, <1>1 DEF NewestUnits, SuffixUnits
  <2> QED
    BY <2>1
<1>2. CASE k # 0
  <2>1. k \in 1..n
    BY <1>0, <1>2
  <2>2. PICK i \in Lasts(h) : RankOf(h, i) = k
    BY <2>1, RankFacts
  <2>3. i \in 1..Len(h) + 1
    <3>1. i \in 1..Len(h)
      BY <1>0
    <3> QED
      BY <1>0, <3>1
  <2>4. SuffixUnits(h, i) = NewestUnits(h, k)
    BY <2>2, <2>3, SuffixIsNewest DEF RankOf
  <2> QED
    BY <2>3, <2>4
<1> QED
  BY <1>1, <1>2

\* There are as many of the newest units as are asked for.
LEMMA NewestCount ==
    ASSUME NEW S, NEW h \in Seq(S), NEW k \in 0..Cardinality(Lasts(h))
    PROVE  IsFiniteSet(NewestUnits(h, k)) /\ Cardinality(NewestUnits(h, k)) = k
<1> DEFINE n == Cardinality(Lasts(h))
           f == [m \in 1..k |-> NewestFirst(h)[m]]
<1>0. n \in Nat /\ k \in Nat
  BY LastFacts
<1>1. ASSUME NEW a \in 1..k, NEW b \in 1..k, NewestFirst(h)[a] = NewestFirst(h)[b] PROVE a = b
  <2>1. a \in 1..n /\ b \in 1..n
    BY <1>0
  <2>2. PICK i \in Lasts(h) : RankOf(h, i) = a
    BY <2>1, RankFacts
  <2>3. PICK j \in Lasts(h) : RankOf(h, j) = b
    BY <2>1, RankFacts
  <2>4. h[i] = h[j]
    BY <1>1, <2>2, <2>3, OrderFacts
  <2> QED
    BY <2>2, <2>3, <2>4, LastFacts
<1>2. f \in Surjection(1..k, NewestUnits(h, k))
  BY DEF Surjection, NewestUnits
<1>3. f \in Injection(1..k, NewestUnits(h, k))
  <2>1. f \in [1..k -> NewestUnits(h, k)] /\ \A a, b \in 1..k : f[a] = f[b] => a = b
    BY <1>1 DEF NewestUnits
  <2> HIDE DEF f
  <2> QED
    BY <2>1 DEF Injection, IsInjective
<1>4. IsFiniteSet(1..k) /\ Cardinality(1..k) = k
  <2>1. \A m \in Nat : Cardinality(1..m) = m /\ IsFiniteSet(1..m)
    BY FS_Interval
  <2> QED
    BY <1>0, <2>1
<1> HIDE DEF f
<1> QED
  BY <1>2, <1>3, <1>4, FS_Bijection DEF Bijection, ExistsBijection

\* More units, more events.
LEMMA RecordsGrow ==
    ASSUME NEW S, NEW h \in Seq(S), NEW U, NEW V, U \subseteq V
    PROVE  /\ IsFiniteSet(Records(h, V)) /\ Cardinality(Records(h, V)) \in Nat
           /\ Cardinality(Records(h, U)) <= Cardinality(Records(h, V))
           /\ Cardinality(Records(h, U)) \in Nat
<1>1. IsFiniteSet(DOMAIN h)
  <2>1. \A m \in Nat : IsFiniteSet(1..m)
    BY FS_Interval
  <2> QED
    BY <2>1, LastFacts
<1>2. Records(h, U) \in SUBSET Records(h, V) /\ Records(h, V) \in SUBSET DOMAIN h
  BY DEF Records
<1>3. IsFiniteSet(Records(h, V))
  BY <1>1, <1>2, FS_Subset
<1> QED
  BY <1>2, <1>3, FS_Subset, FS_CardinalityType

\* The units that are kept are a suffix within both limits, and the longest.
LEMMA WindowFacts ==
    ASSUME NEW S, NEW h \in Seq(S)
    PROVE  /\ \E first \in 1..Len(h) + 1 : Kept(h) = SuffixUnits(h, first)
           /\ Cardinality(Kept(h)) <= MaxUnits /\ Cardinality(Records(h, Kept(h))) <= MaxCases
           /\ \A first \in 1..Len(h) + 1 :
                /\ Cardinality(SuffixUnits(h, first)) <= MaxUnits
                /\ Cardinality(Records(h, SuffixUnits(h, first))) <= MaxCases
                => SuffixUnits(h, first) \subseteq Kept(h)
<1> DEFINE n == Cardinality(Lasts(h))
           stops == {k \in 0..n : k = n \/ k >= MaxUnits
                                   \/ Cardinality(Records(h, NewestUnits(h, k + 1))) > MaxCases}
           m == Min(stops)
<1>0. n \in Nat /\ Len(NewestFirst(h)) = n /\ MaxUnits \in Nat \ {0} /\ MaxCases \in Nat \ {0}
  BY LastFacts, OrderFacts, RetentionAssumption
<1>1. Kept(h) = NewestUnits(h, m)
  BY <1>0 DEF Kept, NewestUnits
<1>2. m \in stops /\ \A k \in stops : m <= k
  <2>1. n \in stops /\ stops \in SUBSET Nat
    BY <1>0
  <2> HIDE DEF stops
  <2> QED
    BY <2>1, MinIs
<1>3. m \in 0..n /\ m \in Nat
  BY <1>0, <1>2
<1>4. \A k \in 0..n : Cardinality(NewestUnits(h, k)) = k
  BY NewestCount
<1>5. ASSUME m # 0
      PROVE  m - 1 < MaxUnits /\ Cardinality(Records(h, NewestUnits(h, m))) <= MaxCases
  <2>1. m - 1 \in 0..n /\ m - 1 \notin stops /\ m - 1 # n /\ (m - 1) + 1 = m
    BY <1>0, <1>2, <1>3, <1>5
  <2>2. Cardinality(Records(h, NewestUnits(h, m))) \in Nat
    BY RecordsGrow
  <2> HIDE DEF m
  <2>3. ~(m - 1 >= MaxUnits) /\ ~(Cardinality(Records(h, NewestUnits(h, m))) > MaxCases)
    BY <2>1
  <2> QED
    BY <1>0, <1>3, <2>2, <2>3
<1>6. m <= MaxUnits /\ Cardinality(Records(h, NewestUnits(h, m))) <= MaxCases
  <2>1. CASE m = 0
    <3> HIDE DEF m
    <3>1. NewestUnits(h, m) = {}
      BY <2>1 DEF NewestUnits
    <3>2. Records(h, {}) = {}
      BY DEF Records
    <3>3. Cardinality(Records(h, NewestUnits(h, m))) = 0
      BY <3>1, <3>2, FS_EmptySet
    <3> QED
      BY <1>0, <2>1, <3>3
  <2>2. CASE m # 0
    <3> HIDE DEF m
    <3> QED
      BY <1>0, <1>3, <1>5, <2>2
  <2> QED
    BY <2>1, <2>2
<1>7. ASSUME NEW first \in 1..Len(h) + 1,
             Cardinality(SuffixUnits(h, first)) <= MaxUnits,
             Cardinality(Records(h, SuffixUnits(h, first))) <= MaxCases
      PROVE  SuffixUnits(h, first) \subseteq Kept(h)
  <2>1. PICK k \in 0..n : SuffixUnits(h, first) = NewestUnits(h, k)
    BY SuffixIsNewest
  <2>2. k <= MaxUnits
    BY <1>4, <1>7, <2>1
  <2>3. CASE k <= m
    <3>1. NewestUnits(h, k) \subseteq NewestUnits(h, m)
      <4> HIDE DEF m
      <4> QED
        BY <1>0, <1>3, <2>3 DEF NewestUnits
    <3> QED
      BY <1>1, <2>1, <3>1
  <2>4. CASE ~(k <= m)
    <3>1. m + 1 <= k /\ m # n /\ k \in Nat
      BY <1>0, <1>3, <2>4
    <3>2. ~(m >= MaxUnits)
      BY <1>0, <1>3, <2>2, <3>1
    <3>3. Cardinality(Records(h, NewestUnits(h, m + 1))) > MaxCases
      BY <1>2, <3>1, <3>2
    <3> HIDE DEF m
    <3>4. NewestUnits(h, m + 1) \subseteq NewestUnits(h, k)
      BY <1>3, <3>1 DEF NewestUnits
    <3>5. /\ Cardinality(Records(h, NewestUnits(h, m + 1))) <= Cardinality(Records(h, NewestUnits(h, k)))
          /\ Cardinality(Records(h, NewestUnits(h, m + 1))) \in Nat
          /\ Cardinality(Records(h, NewestUnits(h, k))) \in Nat
      BY <3>4, RecordsGrow
    <3> QED
      BY <1>0, <1>7, <2>1, <3>3, <3>5
  <2> QED
    BY <2>3, <2>4
<1> HIDE DEF m
<1>8. \E first \in 1..Len(h) + 1 : NewestUnits(h, m) = SuffixUnits(h, first)
  BY <1>3, NewestIsSuffix
<1> QED
  BY <1>1, <1>3, <1>4, <1>6, <1>7, <1>8

\* The window is exact in every state.
LEMMA WindowHolds == ASSUME NEW S, events \in Seq(S) PROVE WindowExact
<1>1. PlanSuffixes = {SuffixUnits(events, first) : first \in 1..Len(events) + 1}
  BY DEF PlanSuffixes, SuffixUnits
<1> QED
  BY <1>1, WindowFacts DEF WindowExact, Fits

-----------------------------------------------------------------------------
(* The caches *)

Bag == [Case -> Nat]
Space == [content : Bag, cases : SUBSET Case, dirty : BOOLEAN]
Support == [cases : SUBSET Case, counted : Bag]
DeltaEntry == [content : Bag, populated : BOOLEAN, dirty : BOOLEAN]
MineState ==
    [by : {"nobody", "lab", "stage"}, kept : SUBSET Event, plans : Seq(Plan), used : SUBSET Plan,
     pop : SUBSET Case, at : {"sync", "count"}]
StageState ==
    [at : {"none", "captured", "mining", "built"}, active : SUBSET Plan, kept : SUBSET Event,
     used : SUBSET Plan, stale : BOOLEAN]

CacheTypes ==
    /\ events \in Seq(Unit) /\ Len(events) <= MaxEvents
    /\ workspaces \in [Plan -> Space \cup {NoEntry}]
    /\ supports \in [Plan -> Support \cup {NoEntry}]
    /\ deltas \in [Plan -> DeltaEntry \cup {NoEntry}]
    /\ activePlans \in SUBSET Plan /\ stage \in StageState /\ mine \in MineState

\* A delta space that is neither populated nor dirty is empty.
DeltasClean ==
    \A p \in Cached(deltas) : ~deltas[p].populated /\ ~deltas[p].dirty => deltas[p].content = Nothing

CachesBounded ==
    /\ IsFiniteSet(Cached(supports)) /\ Cardinality(Cached(supports)) <= MaxPlans
    /\ IsFiniteSet(Cached(workspaces)) /\ Cardinality(Cached(workspaces)) <= MaxPlans

\* Between the two passes of a plan its space is that of its cases.
MineHolds ==
    /\ mine.at = "count" =>
         /\ mine.plans # <<>>
         /\ Head(mine.plans) \in Cached(workspaces)
         /\ ~workspaces[Head(mine.plans)].dirty
         /\ workspaces[Head(mine.plans)].cases = mine.pop
    /\ mine.used \subseteq Cached(supports)
    /\ mine.by = "stage" => stage.at = "mining"

PlansSupported ==
    /\ activePlans \subseteq Cached(supports)
    /\ stage.at = "built" /\ ~stage.stale => stage.used \subseteq Cached(supports)

CacheIndInv ==
    /\ CacheTypes /\ WorkspacesExact /\ SupportsExact /\ DeltasClean /\ CachesBounded
    /\ MineHolds /\ PlansSupported

\* No entry is not an entry.
LEMMA Entries ==
    /\ NoEntry \notin Space /\ NoEntry \notin Support /\ NoEntry \notin DeltaEntry
BY EntryAssumption DEF Space, Support, DeltaEntry, Bag

\* The operations on the counted cases stay within them.
LEMMA Bags ==
    /\ Nothing \in Bag
    /\ \A cases \in SUBSET Case : Once(cases) \in Bag
    /\ \A a, b \in Bag : Plus(a, b) \in Bag
    /\ \A a \in Bag : \A cases \in SUBSET Case : PartAdded(a, cases) \subseteq Bag
    /\ \A a \in Bag : PartCleared(a) \subseteq Bag
<1>1. Nothing \in Bag
  BY DEF Nothing, Bag
<1>2. \A cases \in SUBSET Case : Once(cases) \in Bag
  BY DEF Once, Bag
<1>3. \A a, b \in Bag : Plus(a, b) \in Bag
  BY DEF Plus, Bag
<1>4. ASSUME NEW a \in Bag, NEW cases \in SUBSET Case PROVE PartAdded(a, cases) \subseteq Bag
  <2>1. \A some \in SUBSET cases : Plus(a, Once(some)) \in Bag
    BY <1>2, <1>3
  <2> QED
    BY <2>1 DEF PartAdded
<1>5. ASSUME NEW a \in Bag PROVE PartCleared(a) \subseteq Bag
  <2>1. \A some \in SUBSET Case : [c \in Case |-> IF c \in some THEN a[c] ELSE 0] \in Bag
    BY DEF Bag
  <2> QED
    BY <2>1 DEF PartCleared
<1> QED
  BY <1>1, <1>2, <1>3, <1>4, <1>5

\* What is added to what was counted once is counted once.
LEMMA OnceMore ==
    ASSUME NEW old \in SUBSET Case, NEW all \in SUBSET Case, old \subseteq all
    PROVE  /\ Plus(Once(old), Once(all \ old)) = Once(all)
           /\ Plus(Nothing, Once(all)) = Once(all)
<1>1. \A c \in Case : Plus(Once(old), Once(all \ old))[c] = Once(all)[c]
  BY DEF Plus, Once
<1>2. \A c \in Case : Plus(Nothing, Once(all))[c] = Once(all)[c]
  BY DEF Plus, Once, Nothing
<1> QED
  BY <1>1, <1>2 DEF Plus, Once

\* The fields of a space.
LEMMA SpaceIs ==
    ASSUME NEW content \in Bag, NEW cases \in SUBSET Case, NEW dirty \in BOOLEAN
    PROVE  /\ Workspace(content, cases, dirty) \in Space
           /\ Workspace(content, cases, dirty).content = content
           /\ Workspace(content, cases, dirty).cases = cases
           /\ Workspace(content, cases, dirty).dirty = dirty
BY DEF Workspace, Space

\* The fields of a delta space.
LEMMA DeltaIs ==
    ASSUME NEW content \in Bag, NEW populated \in BOOLEAN, NEW dirty \in BOOLEAN
    PROVE  /\ DeltaSpace(content, populated, dirty) \in DeltaEntry
           /\ DeltaSpace(content, populated, dirty).content = content
           /\ DeltaSpace(content, populated, dirty).populated = populated
           /\ DeltaSpace(content, populated, dirty).dirty = dirty
BY DEF DeltaSpace, DeltaEntry

\* The constants, as their assumptions have them.
LEMMA CacheFacts ==
    ASSUME CacheIndInv, NEW p \in Plan
    PROVE  /\ p \in Cached(workspaces) =>
                workspaces[p] \in Space /\ workspaces[p].content \in Bag
                /\ workspaces[p].cases \in SUBSET Case /\ workspaces[p].dirty \in BOOLEAN
           /\ p \in Cached(supports) =>
                supports[p] \in Support /\ supports[p].counted \in Bag /\ supports[p].cases \in SUBSET Case
                /\ supports[p].counted = Once(supports[p].cases)
           /\ p \in Cached(deltas) =>
                deltas[p] \in DeltaEntry /\ deltas[p].content \in Bag
                /\ deltas[p].populated \in BOOLEAN /\ deltas[p].dirty \in BOOLEAN
<1>1. p \in Cached(workspaces) => workspaces[p] \in Space
  BY DEF CacheIndInv, CacheTypes, Cached
<1>2. p \in Cached(supports) => supports[p] \in Support /\ supports[p].counted = Once(supports[p].cases)
  BY DEF CacheIndInv, CacheTypes, Cached, SupportsExact
<1>3. p \in Cached(deltas) => deltas[p] \in DeltaEntry
  BY DEF CacheIndInv, CacheTypes, Cached
<1> QED
  BY <1>1, <1>2, <1>3 DEF Space, Support, DeltaEntry

\* Nothing mines, and nothing is staged.
LEMMA NoMineNoStage ==
    /\ NoMine \in MineState /\ NoMine.at = "sync" /\ NoMine.used = {} /\ NoMine.by = "nobody"
    /\ NoMine.plans = <<>>
    /\ NoStage \in StageState /\ NoStage.at = "none"
<1>1. <<>> \in Seq(Plan)
  OBVIOUS
<1> QED
  BY <1>1 DEF NoMine, NoStage, MineState, StageState

\* The invariant holds of the empty caches.
THEOREM CacheStarts == MiningInit => CacheIndInv
<1> SUFFICES ASSUME MiningInit PROVE CacheIndInv
  OBVIOUS
<1>1. /\ events = <<>> /\ activePlans = {} /\ stage = NoStage /\ mine = NoMine
      /\ workspaces = [p \in Plan |-> NoEntry] /\ supports = [p \in Plan |-> NoEntry]
      /\ deltas = [p \in Plan |-> NoEntry]
  BY DEF MiningInit
<1>2. Cached(workspaces) = {} /\ Cached(supports) = {} /\ Cached(deltas) = {}
  BY <1>1 DEF Cached
<1>3. events \in Seq(Unit) /\ Len(events) = 0
  BY <1>1
<1>4. CacheTypes
  BY <1>1, <1>3, NoMineNoStage, RetentionAssumption DEF CacheTypes
<1>5. CachesBounded
  BY <1>2, FS_EmptySet, RetentionAssumption DEF CachesBounded
<1>6. MineHolds /\ PlansSupported
  BY <1>1, <1>2, NoMineNoStage DEF MineHolds, PlansSupported
<1> QED
  BY <1>2, <1>4, <1>5, <1>6 DEF CacheIndInv, WorkspacesExact, SupportsExact, DeltasClean

\* The populations of a mine are cases.
LEMMA PopulationFacts ==
    ASSUME CacheTypes, NEW cases \in Populations
    PROVE  cases \in SUBSET Case
<1>1. mine.kept \in SUBSET Event
  BY DEF CacheTypes, MineState
<1>2. PICK sample \in SUBSET mine.kept \ {{}}, v \in [mine.kept -> FactVersion] : cases = {<<e, v[e]>> : e \in sample}
  BY DEF Populations
<1> QED
  BY <1>1, <1>2 DEF Case

\* A retained window is of recorded events.
LEMMA KeptEvents == ASSUME CacheTypes, NEW U PROVE Records(events, U) \in SUBSET Event
<1>1. DOMAIN events = 1..Len(events) /\ Len(events) \in Nat /\ Len(events) <= MaxEvents /\ MaxEvents \in Nat
  BY LenProperties, RetentionAssumption DEF CacheTypes
<1>2. DOMAIN events \in SUBSET Event
  BY <1>1 DEF Event
<1> QED
  BY <1>2 DEF Records

\* Caches that hold no more than they held, or one allowed plan more, keep to
\* their limit.
LEMMA FewerCached ==
    ASSUME CacheIndInv, NEW T, T \subseteq Cached(workspaces) \/ T \subseteq Cached(supports)
    PROVE  IsFiniteSet(T) /\ Cardinality(T) <= MaxPlans
<1>1. MaxPlans \in Nat
  BY RetentionAssumption
<1>2. ASSUME NEW C, IsFiniteSet(C), Cardinality(C) <= MaxPlans, T \subseteq C
      PROVE  IsFiniteSet(T) /\ Cardinality(T) <= MaxPlans
  <2>1. IsFiniteSet(T) /\ Cardinality(T) <= Cardinality(C)
    BY <1>2, FS_Subset
  <2>2. Cardinality(T) \in Nat /\ Cardinality(C) \in Nat
    BY <1>2, <2>1, FS_CardinalityType
  <2> QED
    BY <1>1, <1>2, <2>1, <2>2
<1> QED
  BY <1>2 DEF CacheIndInv, CachesBounded

\* One allowed plan more is within the limit.
LEMMA OneMoreCached ==
    ASSUME CacheIndInv, NEW p \in Plan, NEW C, C = Cached(workspaces) \/ C = Cached(supports),
           Cardinality(C \cup {p}) <= MaxPlans, NEW T, T \subseteq C \cup {p}
    PROVE  IsFiniteSet(T) /\ Cardinality(T) <= MaxPlans
<1>1. IsFiniteSet(C \cup {p})
  BY FS_AddElement DEF CacheIndInv, CachesBounded
<1>2. IsFiniteSet(T) /\ Cardinality(T) <= Cardinality(C \cup {p})
  BY <1>1, FS_Subset
<1>3. Cardinality(T) \in Nat /\ Cardinality(C \cup {p}) \in Nat /\ MaxPlans \in Nat
  BY <1>1, <1>2, FS_CardinalityType, RetentionAssumption
<1> QED
  BY <1>2, <1>3

\* What a step that leaves the caches alone keeps.
LEMMA CachesSame ==
    ASSUME CacheIndInv, workspaces' = workspaces, supports' = supports, deltas' = deltas
    PROVE  /\ workspaces' \in [Plan -> Space \cup {NoEntry}]
           /\ supports' \in [Plan -> Support \cup {NoEntry}]
           /\ deltas' \in [Plan -> DeltaEntry \cup {NoEntry}]
           /\ WorkspacesExact' /\ SupportsExact' /\ DeltasClean' /\ CachesBounded'
           /\ Cached(workspaces)' = Cached(workspaces) /\ Cached(supports)' = Cached(supports)
<1>1. /\ Cached(workspaces)' = Cached(workspaces) /\ Cached(supports)' = Cached(supports)
      /\ Cached(deltas)' = Cached(deltas)
  BY DEF Cached
<1> QED
  BY <1>1 DEF CacheIndInv, CacheTypes, WorkspacesExact, SupportsExact, DeltasClean, CachesBounded

\* An event is recorded.
LEMMA RecordKeeps == ASSUME CacheIndInv, NEW u \in Unit, RecordEvent(u) PROVE CacheIndInv'
<1>1. /\ Len(events) < MaxEvents /\ events' = Append(events, u) /\ events \in Seq(Unit)
      /\ workspaces' = workspaces /\ supports' = supports /\ deltas' = deltas
      /\ activePlans' = activePlans /\ stage' = stage /\ mine' = mine
  BY DEF RecordEvent, cacheState, CacheIndInv, CacheTypes
<1>2. events' \in Seq(Unit) /\ Len(events') <= MaxEvents
  <2>1. Len(events) \in Nat /\ MaxEvents \in Nat /\ Len(events') = Len(events) + 1
    BY <1>1, RetentionAssumption
  <2> QED
    BY <1>1, <2>1
<1>3. CacheTypes'
  BY <1>1, <1>2, CachesSame DEF CacheIndInv, CacheTypes
<1>4. MineHolds' /\ PlansSupported'
  BY <1>1, CachesSame DEF CacheIndInv, MineHolds, PlansSupported
<1> QED
  BY <1>1, <1>3, <1>4, CachesSame DEF CacheIndInv

\* The plans of a mine are a sequence of plans.
LEMMA PlanListFacts == ASSUME NEW plans \in PlanLists PROVE plans \in Seq(Plan)
<1>1. CASE \E p \in PointPlan : plans = <<p>>
  BY <1>1 DEF Plan
<1>2. CASE plans \in PointPlan \X PairPlan
  <2>1. PICK p \in PointPlan, q \in PairPlan : plans = <<p, q>>
    BY <1>2
  <2>2. p \in Plan /\ q \in Plan
    BY DEF Plan
  <2> QED
    BY <2>1, <2>2
<1> QED
  BY <1>1, <1>2 DEF PlanLists

\* The Lab begins to mine.
LEMMA MineLabKeeps == ASSUME CacheIndInv, NEW plans \in PlanLists, MineLab(plans) PROVE CacheIndInv'
<1>1. /\ mine = NoMine /\ events' = events
      /\ mine' = [NoMine EXCEPT !.by = "lab", !.plans = plans, !.kept = Records(events, Kept(events))]
      /\ workspaces' = workspaces /\ supports' = supports /\ deltas' = deltas
      /\ activePlans' = activePlans /\ stage' = stage
  BY DEF MineLab, cacheState
<1>2. Records(events, Kept(events)) \in SUBSET Event
  BY KeptEvents DEF CacheIndInv
<1>3. mine' \in MineState /\ mine'.at = "sync" /\ mine'.used = {} /\ mine'.by = "lab"
  BY <1>1, <1>2, PlanListFacts DEF NoMine, MineState
<1>4. CacheTypes'
  BY <1>1, <1>3, CachesSame DEF CacheIndInv, CacheTypes
<1>5. MineHolds' /\ PlansSupported'
  BY <1>1, <1>3, CachesSame DEF CacheIndInv, MineHolds, PlansSupported
<1> QED
  BY <1>1, <1>4, <1>5, CachesSame DEF CacheIndInv

\* A staged mine is captured.
LEMMA CaptureKeeps == ASSUME CacheIndInv, CaptureStage PROVE CacheIndInv'
<1>1. /\ mine.by # "lab" /\ stage = NoStage /\ mine' = mine /\ events' = events
      /\ stage' = [NoStage EXCEPT !.at = "captured", !.active = activePlans,
                                  !.kept = Records(events, Kept(events))]
      /\ workspaces' = workspaces /\ supports' = supports /\ deltas' = deltas
      /\ activePlans' = activePlans
  BY DEF CaptureStage, cacheState
<1>2. Records(events, Kept(events)) \in SUBSET Event /\ activePlans \in SUBSET Plan
  BY KeptEvents DEF CacheIndInv, CacheTypes
<1>3. stage' \in StageState /\ stage'.at = "captured"
  BY <1>1, <1>2 DEF NoStage, StageState
<1>4. CacheTypes'
  BY <1>1, <1>3, CachesSame DEF CacheIndInv, CacheTypes
<1>5. mine.by # "stage"
  BY <1>1, NoMineNoStage DEF CacheIndInv, MineHolds
<1>6. MineHolds' /\ PlansSupported'
  BY <1>1, <1>3, <1>5, CachesSame DEF CacheIndInv, MineHolds, PlansSupported
<1> QED
  BY <1>1, <1>4, <1>6, CachesSame DEF CacheIndInv

\* The staged mine begins.
LEMMA MineStagedKeeps == ASSUME CacheIndInv, NEW plans \in PlanLists, MineStaged(plans) PROVE CacheIndInv'
<1>1. /\ mine = NoMine /\ events' = events /\ stage.at = "captured"
      /\ mine' = [NoMine EXCEPT !.by = "stage", !.plans = plans, !.kept = stage.kept]
      /\ stage' = [stage EXCEPT !.at = "mining"]
      /\ workspaces' = workspaces /\ supports' = supports /\ deltas' = deltas
      /\ activePlans' = activePlans
  BY DEF MineStaged, cacheState
<1>2. stage \in StageState
  BY DEF CacheIndInv, CacheTypes
<1>3. stage' \in StageState /\ stage'.at = "mining" /\ stage.kept \in SUBSET Event
  BY <1>1, <1>2 DEF StageState
<1>4. mine' \in MineState /\ mine'.at = "sync" /\ mine'.used = {} /\ mine'.by = "stage"
  BY <1>1, <1>3, PlanListFacts DEF NoMine, MineState
<1>5. CacheTypes'
  BY <1>1, <1>3, <1>4, CachesSame DEF CacheIndInv, CacheTypes
<1>6. MineHolds' /\ PlansSupported'
  BY <1>1, <1>3, <1>4, CachesSame DEF CacheIndInv, MineHolds, PlansSupported
<1> QED
  BY <1>1, <1>5, <1>6, CachesSame DEF CacheIndInv

\* A space that is not dirty holds its cases, each once.
LEMMA CleanSpaceIs ==
    ASSUME NEW content \in Bag, NEW cases \in SUBSET Case
    PROVE  /\ Workspace(content, cases, FALSE) \in Space
           /\ Workspace(content, cases, FALSE).content = content
           /\ Workspace(content, cases, FALSE).cases = cases
           /\ ~Workspace(content, cases, FALSE).dirty
BY DEF Workspace, Space

\* A space that was brought up to date holds its cases, each once.
LEMMA SyncedIs ==
    ASSUME CacheIndInv, NEW p \in Plan, NEW cases \in SUBSET Case
    PROVE  /\ Synced(p, cases) \in Space /\ ~Synced(p, cases).dirty
           /\ Synced(p, cases).cases = cases /\ Synced(p, cases).content = Once(cases)
<1> DEFINE w == Workspace(Once(cases), cases, FALSE)
<1>1. w \in Space /\ ~w.dirty /\ w.cases = cases /\ w.content = Once(cases)
  <2>1. Once(cases) \in Bag
    BY Bags
  <2> QED
    BY <2>1, CleanSpaceIs
<1>2. CASE workspaces[p] = NoEntry \/ Rebuilds(workspaces[p], cases)
  <2>1. Synced(p, cases) = w
    BY <1>2 DEF Synced
  <2> HIDE DEF w
  <2> QED
    BY <1>1, <2>1
<1>3. CASE ~(workspaces[p] = NoEntry \/ Rebuilds(workspaces[p], cases))
  <2>1. p \in Cached(workspaces) /\ ~workspaces[p].dirty /\ workspaces[p].cases \subseteq cases
    BY <1>3 DEF Cached, Rebuilds
  <2>2. workspaces[p].cases \in SUBSET Case /\ workspaces[p].content = Once(workspaces[p].cases)
    BY <2>1, CacheFacts DEF CacheIndInv, WorkspacesExact
  <2>3. Plus(workspaces[p].content, Once(cases \ workspaces[p].cases)) = Once(cases)
    BY <2>1, <2>2, OnceMore
  <2>4. Synced(p, cases) = Workspace(Plus(workspaces[p].content, Once(cases \ workspaces[p].cases)), cases, FALSE)
    BY <1>3 DEF Synced
  <2>5. Synced(p, cases) = w
    BY <2>3, <2>4
  <2> HIDE DEF w
  <2> QED
    BY <1>1, <2>5
<1> QED
  BY <1>2, <1>3

\* A plan's space is brought up to date.
LEMMA SyncKeeps == ASSUME CacheIndInv, SyncPlan PROVE CacheIndInv'
<1> DEFINE p == Head(mine.plans)
<1>1. PICK cases \in Populations :
        /\ Cardinality(Cached(workspaces) \cup {p}) <= MaxPlans
        /\ workspaces' = [workspaces EXCEPT ![p] = Synced(p, cases)]
        /\ mine' = [mine EXCEPT !.at = "count", !.pop = cases]
  BY DEF SyncPlan
<1>2. /\ mine.plans # <<>> /\ mine.at = "sync" /\ events' = events /\ supports' = supports
      /\ deltas' = deltas /\ activePlans' = activePlans /\ stage' = stage
  BY DEF SyncPlan
<1>3. /\ mine \in MineState /\ workspaces \in [Plan -> Space \cup {NoEntry}]
  BY DEF CacheIndInv, CacheTypes
<1>4. mine.plans \in Seq(Plan) /\ p \in Plan
  BY <1>2, <1>3 DEF MineState
<1>5. cases \in SUBSET Case
  BY PopulationFacts DEF CacheIndInv
<1> HIDE DEF p
<1>6. /\ Synced(p, cases) \in Space /\ ~Synced(p, cases).dirty
      /\ Synced(p, cases).cases = cases /\ Synced(p, cases).content = Once(cases)
  BY <1>4, <1>5, SyncedIs
<1>7. /\ mine' \in MineState /\ mine'.plans = mine.plans /\ mine'.used = mine.used /\ mine'.by = mine.by
      /\ mine'.pop = cases
  BY <1>1, <1>3, <1>5 DEF MineState
<1>8. /\ workspaces' \in [Plan -> Space \cup {NoEntry}] /\ workspaces'[p] = Synced(p, cases)
      /\ \A q \in Plan : q # p => workspaces'[q] = workspaces[q]
  BY <1>1, <1>3, <1>4, <1>6
<1>9. /\ Cached(workspaces)' \subseteq Cached(workspaces) \cup {p} /\ p \in Cached(workspaces)'
      /\ Cached(supports)' = Cached(supports) /\ Cached(deltas)' = Cached(deltas)
  BY <1>2, <1>4, <1>6, <1>8, Entries DEF Cached
<1>10. CacheTypes'
  BY <1>2, <1>7, <1>8 DEF CacheIndInv, CacheTypes
<1>11. WorkspacesExact'
  <2> SUFFICES ASSUME NEW q \in Cached(workspaces)', ~workspaces'[q].dirty
               PROVE  workspaces'[q].content = Once(workspaces'[q].cases)
    BY DEF WorkspacesExact
  <2>1. CASE q = p
    BY <1>6, <1>8, <2>1
  <2>2. CASE q # p
    BY <1>8, <1>9, <2>2 DEF CacheIndInv, WorkspacesExact, Cached
  <2> QED
    BY <2>1, <2>2
<1>12. SupportsExact' /\ DeltasClean'
  BY <1>2, <1>9 DEF CacheIndInv, SupportsExact, DeltasClean
<1>13. CachesBounded'
  <2>1. IsFiniteSet(Cached(workspaces)') /\ Cardinality(Cached(workspaces)') <= MaxPlans
    BY <1>1, <1>4, <1>9, OneMoreCached
  <2> QED
    BY <1>9, <2>1 DEF CacheIndInv, CachesBounded
<1>14. MineHolds'
  <2>1. p = Head(mine'.plans)
    BY <1>7 DEF p
  <2> QED
    BY <1>2, <1>6, <1>7, <1>8, <1>9, <2>1 DEF CacheIndInv, MineHolds
<1>15. PlansSupported'
  BY <1>2, <1>9 DEF CacheIndInv, PlansSupported
<1> QED
  BY <1>10, <1>11, <1>12, <1>13, <1>14, <1>15 DEF CacheIndInv

\* An operation that raises leaves no mine behind, and no staged one.
LEMMA FailKeeps ==
    ASSUME CacheIndInv, Fail, supports' = supports
    PROVE  /\ events' = events /\ activePlans' = activePlans
           /\ mine' \in MineState /\ stage' \in StageState
           /\ MineHolds' /\ PlansSupported'
<1>1. /\ mine' = NoMine /\ (stage' = NoStage \/ stage' = stage) /\ (mine.by = "stage" => stage' = NoStage)
      /\ events' = events /\ activePlans' = activePlans
  BY DEF Fail
<1>2. stage \in StageState
  BY DEF CacheIndInv, CacheTypes
<1>3. Cached(supports)' = Cached(supports)
  BY DEF Cached
<1>4. MineHolds'
  BY <1>1, NoMineNoStage DEF MineHolds
<1>5. PlansSupported'
  BY <1>1, <1>3, NoMineNoStage DEF CacheIndInv, PlansSupported
<1> QED
  BY <1>1, <1>2, <1>4, <1>5, NoMineNoStage

\* What an interrupted update leaves is a dirty space, or what was there.
LEMMA SyncRaisesAre ==
    ASSUME CacheIndInv, NEW p \in Plan, NEW cases \in SUBSET Case, NEW w \in SyncRaises(p, cases)
    PROVE  /\ w \in Space \cup {NoEntry}
           /\ workspaces[p] = NoEntry => w = NoEntry
           /\ w # NoEntry => w.dirty
<1>1. CASE workspaces[p] = NoEntry
  <2>1. w = NoEntry
    BY <1>1 DEF SyncRaises
  <2> QED
    BY <2>1
<1>2. CASE workspaces[p] # NoEntry
  <2>1. p \in Cached(workspaces)
    BY <1>2 DEF Cached
  <2>2. workspaces[p].content \in Bag /\ workspaces[p].cases \in SUBSET Case
    BY <2>1, CacheFacts
  <2>3. PICK content \in PartCleared(workspaces[p].content) \cup PartAdded(Nothing, cases)
                           \cup PartAdded(workspaces[p].content, cases \ workspaces[p].cases) :
          w = Workspace(content, workspaces[p].cases, TRUE)
    BY <1>2 DEF SyncRaises
  <2>4. content \in Bag
    BY <2>2, <2>3, Bags
  <2> QED
    BY <1>2, <2>2, <2>3, <2>4, SpaceIs
<1> QED
  BY <1>1, <1>2

\* Replacing one space by a dirty one, or by none, keeps the rest.
LEMMA DirtyKeeps ==
    ASSUME CacheIndInv, NEW p \in Plan, NEW w \in Space \cup {NoEntry},
           workspaces[p] = NoEntry => w = NoEntry,
           w = workspaces[p] \/ (w # NoEntry => w.dirty),
           workspaces' = [workspaces EXCEPT ![p] = w]
    PROVE  /\ workspaces' \in [Plan -> Space \cup {NoEntry}]
           /\ WorkspacesExact'
           /\ IsFiniteSet(Cached(workspaces)') /\ Cardinality(Cached(workspaces)') <= MaxPlans
<1>1. workspaces \in [Plan -> Space \cup {NoEntry}]
  BY DEF CacheIndInv, CacheTypes
<1>2. /\ workspaces' \in [Plan -> Space \cup {NoEntry}] /\ workspaces'[p] = w
      /\ \A q \in Plan : q # p => workspaces'[q] = workspaces[q]
  BY <1>1
<1>3. Cached(workspaces)' \subseteq Cached(workspaces)
  BY <1>2 DEF Cached
<1>4. WorkspacesExact'
  <2> SUFFICES ASSUME NEW q \in Cached(workspaces)', ~workspaces'[q].dirty
               PROVE  workspaces'[q].content = Once(workspaces'[q].cases)
    BY DEF WorkspacesExact
  <2>1. q \in Plan /\ workspaces'[q] # NoEntry /\ q \in Cached(workspaces)
    BY <1>3 DEF Cached
  <2>2. workspaces'[q] = workspaces[q]
    BY <1>2, <2>1
  <2> QED
    BY <2>1, <2>2 DEF CacheIndInv, WorkspacesExact
<1> QED
  BY <1>2, <1>3, <1>4, FewerCached

\* Bringing a space up to date raises.
LEMMA SyncRaisesKeeps == ASSUME CacheIndInv, SyncPlanRaises PROVE CacheIndInv'
<1> DEFINE p == Head(mine.plans)
<1>1. PICK cases \in Populations : \E w \in SyncRaises(p, cases) : workspaces' = [workspaces EXCEPT ![p] = w]
  BY DEF SyncPlanRaises
<1>2. PICK w \in SyncRaises(p, cases) : workspaces' = [workspaces EXCEPT ![p] = w]
  BY <1>1
<1>3. mine.plans # <<>> /\ Fail /\ supports' = supports /\ deltas' = deltas
  BY DEF SyncPlanRaises
<1>4. p \in Plan
  BY <1>3 DEF CacheIndInv, CacheTypes, MineState
<1>5. cases \in SUBSET Case
  BY PopulationFacts DEF CacheIndInv
<1> HIDE DEF p
<1>6. /\ w \in Space \cup {NoEntry} /\ (workspaces[p] = NoEntry => w = NoEntry)
      /\ (w # NoEntry => w.dirty)
  BY <1>2, <1>4, <1>5, SyncRaisesAre
<1>7. /\ workspaces' \in [Plan -> Space \cup {NoEntry}] /\ WorkspacesExact'
      /\ IsFiniteSet(Cached(workspaces)') /\ Cardinality(Cached(workspaces)') <= MaxPlans
  BY <1>2, <1>4, <1>6, DirtyKeeps
<1>8. Cached(supports)' = Cached(supports) /\ Cached(deltas)' = Cached(deltas)
  BY <1>3 DEF Cached
<1>9. CacheTypes'
  BY <1>3, <1>7, FailKeeps DEF CacheIndInv, CacheTypes
<1>10. SupportsExact' /\ DeltasClean' /\ CachesBounded'
  BY <1>3, <1>7, <1>8 DEF CacheIndInv, SupportsExact, DeltasClean, CachesBounded
<1> QED
  BY <1>3, <1>7, <1>9, <1>10, FailKeeps DEF CacheIndInv


\* An old delta space is emptied where anything may be left in it.
LEMMA DeltaStarts ==
    ASSUME CacheIndInv, NEW p \in Plan
    PROVE  /\ OldDelta(p) \in DeltaEntry /\ OldDelta(p).content \in Bag
           /\ DeltaStart(OldDelta(p)) = Nothing
<1>1. CASE deltas[p] = NoEntry
  <2> DEFINE d == DeltaSpace(Nothing, FALSE, FALSE)
  <2>1. d \in DeltaEntry /\ d.content = Nothing /\ ~d.populated /\ ~d.dirty
    BY Bags DEF DeltaSpace, DeltaEntry
  <2>2. OldDelta(p) = d
    BY <1>1 DEF OldDelta
  <2> HIDE DEF d
  <2> QED
    BY <2>1, <2>2, Bags DEF DeltaStart
<1>2. CASE deltas[p] # NoEntry
  <2>1. p \in Cached(deltas) /\ OldDelta(p) = deltas[p]
    BY <1>2 DEF Cached, OldDelta
  <2>2. deltas[p] \in DeltaEntry /\ deltas[p].content \in Bag
    BY <2>1, CacheFacts
  <2>3. DeltaStart(deltas[p]) = Nothing
    BY <2>1 DEF CacheIndInv, DeltasClean, DeltaStart
  <2> QED
    BY <2>1, <2>2, <2>3
<1> QED
  BY <1>1, <1>2

\* The delta space is filled with the new cases, each once.
LEMMA DeltaOf ==
    ASSUME CacheIndInv, NEW p \in Plan
    PROVE  Delta(p) = Once(NewCases(p, mine.pop))
<1>1. mine.pop \in SUBSET Case
  BY DEF CacheIndInv, CacheTypes, MineState
<1>2. NewCases(p, mine.pop) \in SUBSET Case
  BY <1>1 DEF NewCases
<1>3. Delta(p) = Plus(Nothing, Once(NewCases(p, mine.pop)))
  BY DeltaStarts DEF Delta
<1> QED
  BY <1>2, <1>3, OnceMore

\* The fields of a support.
LEMMA SupportIs ==
    ASSUME NEW cases \in SUBSET Case
    PROVE  [cases |-> cases, counted |-> Once(cases)] \in Support
BY Bags DEF Support

\* What a count leaves: the supports of its plan are those of its cases.
LEMMA CountIs ==
    ASSUME CacheIndInv, CountPlan
    PROVE  LET p == Head(mine.plans) IN
           /\ p \in Plan
           /\ \/ supports' = supports /\ p \in Cached(supports)
              \/ supports' = [supports EXCEPT ![p] = [cases |-> mine.pop, counted |-> Once(mine.pop)]]
           /\ \/ deltas' = deltas
              \/ deltas' = [deltas EXCEPT ![p] = DeltaSpace(Delta(p), TRUE, FALSE)]
<1> DEFINE p == Head(mine.plans)
<1>1. mine.plans # <<>> /\ mine.at = "count"
  BY DEF CountPlan
<1>2. p \in Plan /\ mine.pop \in SUBSET Case
  BY <1>1 DEF CacheIndInv, CacheTypes, MineState
<1>3. p \in Cached(workspaces) /\ ~workspaces[p].dirty /\ workspaces[p].cases = mine.pop
  BY <1>1 DEF CacheIndInv, MineHolds
<1>4. workspaces[p].content = Once(mine.pop)
  BY <1>3 DEF CacheIndInv, WorkspacesExact
<1> HIDE DEF p
<1>5. CASE /\ supports' = [supports EXCEPT ![p] = [cases |-> mine.pop, counted |-> workspaces[p].content]]
           /\ deltas' = deltas
  BY <1>2, <1>4, <1>5 DEF p
<1>6. CASE /\ ~CountsAll(p, mine.pop) /\ supports' = supports /\ deltas' = deltas
  BY <1>2, <1>6 DEF CountsAll, p
<1>7. CASE /\ ~CountsAll(p, mine.pop)
           /\ deltas' = [deltas EXCEPT ![p] = DeltaSpace(Delta(p), TRUE, FALSE)]
           /\ supports' = [supports EXCEPT ![p] =
                [cases |-> mine.pop, counted |-> Plus(@.counted, Delta(p))]]
  <2>1. p \in Cached(supports) /\ supports[p].cases \subseteq mine.pop
    BY <1>7 DEF CountsAll
  <2>2. supports[p].counted = Once(supports[p].cases) /\ supports[p].cases \in SUBSET Case
    BY <1>2, <2>1, CacheFacts
  <2>3. Delta(p) = Once(mine.pop \ supports[p].cases)
    BY <1>2, DeltaOf DEF NewCases
  <2>4. Plus(supports[p].counted, Delta(p)) = Once(mine.pop)
    BY <1>2, <2>1, <2>2, <2>3, OnceMore
  <2>5. supports \in [Plan -> Support \cup {NoEntry}]
    BY DEF CacheIndInv, CacheTypes
  <2>6. supports' = [supports EXCEPT ![p] = [cases |-> mine.pop, counted |-> Plus(supports[p].counted, Delta(p))]]
    BY <1>7
  <2> QED
    BY <1>2, <1>7, <2>4, <2>6 DEF p
<1> QED
  BY <1>5, <1>6, <1>7 DEF CountPlan, p

\* A plan is counted.
LEMMA CountKeeps == ASSUME CacheIndInv, CountPlan PROVE CacheIndInv'
<1> DEFINE p == Head(mine.plans)
           r == [cases |-> mine.pop, counted |-> Once(mine.pop)]
           d == DeltaSpace(Delta(p), TRUE, FALSE)
<1>1. /\ mine.plans # <<>> /\ mine.at = "count" /\ Cardinality(Cached(supports) \cup {p}) <= MaxPlans
      /\ mine' = [mine EXCEPT !.at = "sync", !.plans = Tail(@), !.used = @ \cup {p}]
      /\ events' = events /\ workspaces' = workspaces /\ activePlans' = activePlans /\ stage' = stage
  BY DEF CountPlan
<1>2. /\ p \in Plan
      /\ (supports' = supports /\ p \in Cached(supports)) \/ supports' = [supports EXCEPT ![p] = r]
      /\ deltas' = deltas \/ deltas' = [deltas EXCEPT ![p] = d]
  BY CountIs
<1>3. /\ mine \in MineState /\ supports \in [Plan -> Support \cup {NoEntry}]
      /\ deltas \in [Plan -> DeltaEntry \cup {NoEntry}]
  BY DEF CacheIndInv, CacheTypes
<1>4. mine.pop \in SUBSET Case /\ mine.plans \in Seq(Plan) /\ mine.used \in SUBSET Plan
  BY <1>3 DEF MineState
<1>5. r \in Support /\ r.cases = mine.pop /\ r.counted = Once(mine.pop)
  BY <1>4, SupportIs
<1>6. d \in DeltaEntry /\ d.populated
  <2>1. Delta(p) \in Bag
    <3>1. NewCases(p, mine.pop) \in SUBSET Case
      BY <1>4 DEF NewCases
    <3> QED
      BY <1>2, <3>1, DeltaOf, Bags
  <2> QED
    BY <2>1 DEF DeltaSpace, DeltaEntry
<1>7. /\ mine' \in MineState /\ mine'.at = "sync" /\ mine'.used = mine.used \cup {p} /\ mine'.by = mine.by
  <2>1. Tail(mine.plans) \in Seq(Plan)
    BY <1>1, <1>4
  <2> HIDE DEF p
  <2> QED
    BY <1>1, <1>2, <1>3, <1>4, <2>1 DEF MineState
<1> HIDE DEF p, r, d
<1>8. /\ supports' \in [Plan -> Support \cup {NoEntry}]
      /\ \A q \in Plan : supports'[q] = supports[q] \/ (q = p /\ supports'[q] = r)
      /\ p \in Cached(supports)' /\ Cached(supports) \subseteq Cached(supports)'
      /\ Cached(supports)' \subseteq Cached(supports) \cup {p}
  <2>1. CASE supports' = supports /\ p \in Cached(supports)
    BY <1>3, <2>1 DEF Cached
  <2>2. CASE supports' = [supports EXCEPT ![p] = r]
    <3>1. supports'[p] = r /\ \A q \in Plan : q # p => supports'[q] = supports[q]
      BY <1>2, <1>3, <2>2
    <3>2. r # NoEntry
      BY <1>5, Entries
    <3>3. supports' \in [Plan -> Support \cup {NoEntry}]
      BY <1>2, <1>3, <1>5, <2>2
    <3> QED
      BY <1>2, <3>1, <3>2, <3>3 DEF Cached
  <2> QED
    BY <1>2, <2>1, <2>2
<1>9. /\ deltas' \in [Plan -> DeltaEntry \cup {NoEntry}]
      /\ \A q \in Plan : deltas'[q] = deltas[q] \/ deltas'[q] = d
  BY <1>2, <1>3, <1>6
<1>10. CacheTypes'
  BY <1>1, <1>7, <1>8, <1>9 DEF CacheIndInv, CacheTypes
<1>11. SupportsExact'
  <2> SUFFICES ASSUME NEW q \in Cached(supports)' PROVE supports'[q].counted = Once(supports'[q].cases)
    BY DEF SupportsExact
  <2>1. q \in Plan /\ supports'[q] # NoEntry
    BY DEF Cached
  <2>2. CASE supports'[q] = r
    BY <1>5, <2>2
  <2>3. CASE supports'[q] = supports[q]
    <3>1. q \in Cached(supports)
      BY <2>1, <2>3 DEF Cached
    <3> QED
      BY <2>3, <3>1 DEF CacheIndInv, SupportsExact
  <2> QED
    BY <1>8, <2>1, <2>2, <2>3
<1>12. DeltasClean'
  <2> SUFFICES ASSUME NEW q \in Cached(deltas)', ~deltas'[q].populated, ~deltas'[q].dirty
               PROVE  deltas'[q].content = Nothing
    BY DEF DeltasClean
  <2>1. q \in Plan /\ deltas'[q] # NoEntry
    BY DEF Cached
  <2>2. deltas'[q] = deltas[q]
    BY <1>6, <1>9, <2>1
  <2>3. q \in Cached(deltas)
    BY <2>1, <2>2 DEF Cached
  <2> QED
    BY <2>2, <2>3 DEF CacheIndInv, DeltasClean
<1>13. WorkspacesExact' /\ Cached(workspaces)' = Cached(workspaces)
  BY <1>1 DEF CacheIndInv, WorkspacesExact, Cached
<1>14. CachesBounded'
  <2>1. IsFiniteSet(Cached(supports)') /\ Cardinality(Cached(supports)') <= MaxPlans
    BY <1>1, <1>2, <1>8, OneMoreCached
  <2> QED
    BY <1>13, <2>1 DEF CacheIndInv, CachesBounded
<1>15. MineHolds' /\ PlansSupported'
  BY <1>1, <1>7, <1>8 DEF CacheIndInv, MineHolds, PlansSupported
<1> QED
  BY <1>10, <1>11, <1>12, <1>13, <1>14, <1>15 DEF CacheIndInv


\* What a failed delta leaves: what was there, or a space that will be emptied.
LEMMA DeltaRaisesAre ==
    ASSUME CacheIndInv, NEW p \in Plan, NEW d \in DeltaRaises(p)
    PROVE  d = deltas[p] \/ (d \in DeltaEntry /\ (d.populated \/ d.dirty))
<1>1. OldDelta(p) \in DeltaEntry /\ OldDelta(p).content \in Bag /\ DeltaStart(OldDelta(p)) = Nothing
  BY DeltaStarts
<1>2. OldDelta(p).populated \in BOOLEAN
  BY <1>1 DEF DeltaEntry
<1>3. NewCases(p, mine.pop) \in SUBSET Case
  BY DEF CacheIndInv, CacheTypes, MineState, NewCases
<1>4. Delta(p) \in Bag
  BY <1>3, DeltaOf, Bags
<1>5. CASE d = deltas[p]
  BY <1>5
<1>6. CASE d = DeltaSpace(Delta(p), TRUE, FALSE)
  <2>1. d \in DeltaEntry /\ d.populated
    BY <1>4, <1>6 DEF DeltaSpace, DeltaEntry
  <2> QED
    BY <2>1
<1>7. CASE \E content \in PartAdded(Nothing, NewCases(p, mine.pop)) \cup PartCleared(OldDelta(p).content) :
             d = DeltaSpace(content, OldDelta(p).populated, TRUE)
  <2>1. PICK content \in PartAdded(Nothing, NewCases(p, mine.pop)) \cup PartCleared(OldDelta(p).content) :
          d = DeltaSpace(content, OldDelta(p).populated, TRUE)
    BY <1>7
  <2>2. content \in Bag
    BY <1>1, <1>3, <2>1, Bags
  <2>3. d \in DeltaEntry /\ d.dirty
    BY <1>2, <2>1, <2>2 DEF DeltaSpace, DeltaEntry
  <2> QED
    BY <2>3
<1> QED
  BY <1>1, <1>5, <1>6, <1>7 DEF DeltaRaises

\* A rollback leaves a space that is marked dirty, or exact.
LEMMA RollbackIs ==
    ASSUME CacheIndInv, NEW p \in Cached(workspaces), NEW w \in Rollback(p)
    PROVE  /\ w \in Space \cup {NoEntry}
           /\ w = workspaces[p] \/ (w # NoEntry => w.dirty)
<1>1. /\ p \in Plan /\ workspaces[p] \in Space /\ workspaces[p].content \in Bag
      /\ workspaces[p].cases \in SUBSET Case
  BY CacheFacts DEF Cached
<1>2. CASE w = workspaces[p] \/ w = NoEntry
  BY <1>1, <1>2
<1>3. CASE \E content \in PartCleared(workspaces[p].content) : w = Workspace(content, workspaces[p].cases, TRUE)
  <2>1. PICK content \in PartCleared(workspaces[p].content) : w = Workspace(content, workspaces[p].cases, TRUE)
    BY <1>3
  <2>2. content \in Bag
    BY <1>1, <2>1, Bags
  <2>3. w \in Space /\ w.dirty
    BY <1>1, <2>1, <2>2 DEF Workspace, Space
  <2> QED
    BY <2>3
<1> QED
  BY <1>2, <1>3 DEF Rollback

\* Counting a plan raises.
LEMMA CountRaisesKeeps == ASSUME CacheIndInv, CountPlanRaises PROVE CacheIndInv'
<1> DEFINE p == Head(mine.plans)
<1>1. PICK d \in DeltaRaises(p) : deltas' = [deltas EXCEPT ![p] = d]
  BY DEF CountPlanRaises
<1>2. PICK w \in Rollback(p) : workspaces' = [workspaces EXCEPT ![p] = w]
  BY DEF CountPlanRaises
<1>3. mine.plans # <<>> /\ mine.at = "count" /\ Fail /\ supports' = supports
  BY DEF CountPlanRaises
<1>4. p \in Cached(workspaces) /\ p \in Plan
  BY <1>3 DEF CacheIndInv, MineHolds, Cached
<1> HIDE DEF p
<1>5. /\ w \in Space \cup {NoEntry} /\ (w = workspaces[p] \/ (w # NoEntry => w.dirty))
      /\ workspaces[p] # NoEntry
  BY <1>2, <1>4, RollbackIs DEF Cached
<1>6. /\ workspaces' \in [Plan -> Space \cup {NoEntry}] /\ WorkspacesExact'
      /\ IsFiniteSet(Cached(workspaces)') /\ Cardinality(Cached(workspaces)') <= MaxPlans
  BY <1>2, <1>4, <1>5, DirtyKeeps
<1>7. d = deltas[p] \/ (d \in DeltaEntry /\ (d.populated \/ d.dirty))
  BY <1>1, <1>4, DeltaRaisesAre
<1>8. deltas \in [Plan -> DeltaEntry \cup {NoEntry}]
  BY DEF CacheIndInv, CacheTypes
<1>9. deltas' \in [Plan -> DeltaEntry \cup {NoEntry}]
  BY <1>1, <1>4, <1>7, <1>8
<1>10. DeltasClean'
  <2> SUFFICES ASSUME NEW q \in Cached(deltas)', ~deltas'[q].populated, ~deltas'[q].dirty
               PROVE  deltas'[q].content = Nothing
    BY DEF DeltasClean
  <2>1. q \in Plan /\ deltas'[q] # NoEntry
    BY DEF Cached
  <2>2. deltas'[q] = deltas[q]
    BY <1>1, <1>4, <1>7, <1>8, <2>1
  <2>3. q \in Cached(deltas)
    BY <2>1, <2>2 DEF Cached
  <2> QED
    BY <2>2, <2>3 DEF CacheIndInv, DeltasClean
<1>11. Cached(supports)' = Cached(supports)
  BY <1>3 DEF Cached
<1>12. CacheTypes'
  BY <1>3, <1>6, <1>9, FailKeeps DEF CacheIndInv, CacheTypes
<1>13. SupportsExact' /\ CachesBounded'
  BY <1>3, <1>6, <1>11 DEF CacheIndInv, SupportsExact, CachesBounded
<1> QED
  BY <1>3, <1>6, <1>10, <1>12, <1>13, FailKeeps DEF CacheIndInv

\* Dropping entries keeps what is left of them.
LEMMA DropFacts ==
    ASSUME NEW f, NEW gone
    PROVE  /\ DOMAIN Drop(f, gone) = Plan
           /\ \A p \in Plan : Drop(f, gone)[p] = IF p \in gone THEN NoEntry ELSE f[p]
           /\ \A p \in Plan : Drop(f, gone)[p] # NoEntry => p \notin gone /\ Drop(f, gone)[p] = f[p]
           /\ \A S : f \in [Plan -> S \cup {NoEntry}] => Drop(f, gone) \in [Plan -> S \cup {NoEntry}]
BY DEF Drop

\* What pruning leaves of each cache: what it held, marked where it was cut
\* short, with the supports that are kept.
LEMMA PruneLeaves ==
    ASSUME CacheIndInv, NEW keep, keep \subseteq Cached(supports), Prune(keep)
    PROVE  /\ workspaces' \in [Plan -> Space \cup {NoEntry}]
           /\ supports' \in [Plan -> Support \cup {NoEntry}]
           /\ deltas' \in [Plan -> DeltaEntry \cup {NoEntry}]
           /\ \A p \in Plan : workspaces'[p] # NoEntry =>
                workspaces[p] # NoEntry /\ (workspaces'[p] = workspaces[p] \/ workspaces'[p].dirty)
           /\ \A p \in Plan : supports'[p] # NoEntry => supports'[p] = supports[p]
           /\ \A p \in Plan : deltas'[p] # NoEntry =>
                deltas[p] # NoEntry /\ (deltas'[p] = deltas[p] \/ deltas'[p].populated)
           /\ \A p \in keep : supports'[p] = supports[p]
<1>0. /\ workspaces \in [Plan -> Space \cup {NoEntry}] /\ supports \in [Plan -> Support \cup {NoEntry}]
      /\ deltas \in [Plan -> DeltaEntry \cup {NoEntry}] /\ keep \subseteq Plan
  BY DEF CacheIndInv, CacheTypes, Cached
<1>1. ASSUME NEW gone, NEW f, NEW S, f \in [Plan -> S \cup {NoEntry}]
      PROVE  /\ Drop(f, gone) \in [Plan -> S \cup {NoEntry}]
             /\ \A p \in Plan : Drop(f, gone)[p] # NoEntry => f[p] # NoEntry /\ Drop(f, gone)[p] = f[p]
             /\ \A p \in Plan \ gone : Drop(f, gone)[p] = f[p]
  BY <1>1, DropFacts
<1>2. ASSUME NEW gone, gone \subseteq OtherSupports(keep)
      PROVE  \A p \in keep : Drop(supports, gone)[p] = supports[p]
  <2>1. \A p \in keep : p \in Plan \ gone
    BY <1>0, <1>2 DEF OtherSupports
  <2> QED
    BY <2>1, DropFacts
<1>8. \A gone :
        /\ Drop(workspaces, gone) \in [Plan -> Space \cup {NoEntry}]
        /\ \A p \in Plan : Drop(workspaces, gone)[p] # NoEntry =>
             workspaces[p] # NoEntry /\ Drop(workspaces, gone)[p] = workspaces[p]
  BY <1>0, <1>1
<1>9. \A gone :
        /\ Drop(supports, gone) \in [Plan -> Support \cup {NoEntry}]
        /\ \A p \in Plan : Drop(supports, gone)[p] # NoEntry => Drop(supports, gone)[p] = supports[p]
  <2> TAKE gone
  <2>1. Drop(supports, gone) \in [Plan -> Support \cup {NoEntry}]
    BY <1>0, <1>1
  <2> QED
    BY <2>1, DropFacts
<1>10. \A gone :
        /\ Drop(deltas, gone) \in [Plan -> DeltaEntry \cup {NoEntry}]
        /\ \A p \in Plan : Drop(deltas, gone)[p] # NoEntry =>
             deltas[p] # NoEntry /\ Drop(deltas, gone)[p] = deltas[p]
  BY <1>0, <1>1
<1>3. CASE PruneAll(keep)
  <2>1. /\ workspaces' = Drop(workspaces, Others(keep)) /\ supports' = Drop(supports, OtherSupports(keep))
        /\ deltas' = Drop(deltas, OtherSupports(keep))
    BY <1>3 DEF PruneAll
  <2>2. \A p \in keep : supports'[p] = supports[p]
    BY <1>2, <2>1
  <2> QED
    BY <1>8, <1>9, <1>10, <2>1, <2>2
<1>4. ASSUME NEW gone \in SUBSET Others(keep), NEW p \in Others(keep) \ gone,
             NEW content \in PartCleared(workspaces[p].content),
             workspaces' = [Drop(workspaces, gone) EXCEPT ![p] = Workspace(content, @.cases, TRUE)]
      PROVE  /\ workspaces' \in [Plan -> Space \cup {NoEntry}]
             /\ \A q \in Plan : workspaces'[q] # NoEntry =>
                  workspaces[q] # NoEntry /\ (workspaces'[q] = workspaces[q] \/ workspaces'[q].dirty)
  <2>1. p \in Plan /\ p \in Cached(workspaces) /\ workspaces[p] # NoEntry
    BY DEF Others, Cached
  <2>2. workspaces[p].content \in Bag /\ workspaces[p].cases \in SUBSET Case
    BY <2>1, CacheFacts
  <2> DEFINE w == Workspace(content, workspaces[p].cases, TRUE)
  <2>3. w \in Space /\ w.dirty
    <3>1. content \in Bag
      BY <2>2, Bags
    <3> QED
      BY <2>2, <3>1 DEF Workspace, Space
  <2>4. Drop(workspaces, gone)[p] = workspaces[p]
    <3>1. p \in Plan /\ p \notin gone
      BY <2>1
    <3> QED
      BY <3>1, DropFacts
  <2>5. workspaces' = [Drop(workspaces, gone) EXCEPT ![p] = w]
    BY <1>4, <2>4
  <2> HIDE DEF w
  <2>6. Drop(workspaces, gone) \in [Plan -> Space \cup {NoEntry}]
    BY <1>0, <1>1
  <2>7. workspaces'[p] = w /\ \A q \in Plan : q # p => workspaces'[q] = Drop(workspaces, gone)[q]
    BY <2>1, <2>5, <2>6
  <2>8. workspaces' \in [Plan -> Space \cup {NoEntry}]
    BY <2>1, <2>3, <2>5, <2>6
  <2> QED
    BY <1>0, <1>1, <2>1, <2>3, <2>7, <2>8
<1>5. ASSUME NEW gone \in SUBSET OtherSupports(keep), NEW p \in (OtherSupports(keep) \ gone) \cap Cached(deltas),
             NEW content \in PartCleared(deltas[p].content),
             deltas' = [Drop(deltas, gone) EXCEPT ![p] = DeltaSpace(content, TRUE, TRUE)]
      PROVE  /\ deltas' \in [Plan -> DeltaEntry \cup {NoEntry}]
             /\ \A q \in Plan : deltas'[q] # NoEntry =>
                  deltas[q] # NoEntry /\ (deltas'[q] = deltas[q] \/ deltas'[q].populated)
  <2>1. p \in Plan /\ deltas[p] # NoEntry
    BY DEF Cached
  <2>2. deltas[p].content \in Bag
    BY <2>1, CacheFacts
  <2> DEFINE d == DeltaSpace(content, TRUE, TRUE)
  <2>3. d \in DeltaEntry /\ d.populated
    <3>1. content \in Bag
      BY <2>2, Bags
    <3> QED
      BY <3>1 DEF DeltaSpace, DeltaEntry
  <2>4. deltas' = [Drop(deltas, gone) EXCEPT ![p] = d]
    BY <1>5
  <2> HIDE DEF d
  <2>5. Drop(deltas, gone) \in [Plan -> DeltaEntry \cup {NoEntry}]
    BY <1>0, <1>1
  <2>6. deltas'[p] = d /\ \A q \in Plan : q # p => deltas'[q] = Drop(deltas, gone)[q]
    BY <2>1, <2>4, <2>5
  <2>7. deltas' \in [Plan -> DeltaEntry \cup {NoEntry}]
    BY <2>1, <2>3, <2>4, <2>5
  <2> QED
    BY <1>0, <1>1, <2>1, <2>3, <2>6, <2>7
<1>6. CASE /\ \E gone \in SUBSET Others(keep) : \E p \in Others(keep) \ gone :
                \E content \in PartCleared(workspaces[p].content) :
                  workspaces' = [Drop(workspaces, gone) EXCEPT ![p] = Workspace(content, @.cases, TRUE)]
           /\ supports' = supports /\ deltas' = deltas
  BY <1>0, <1>4, <1>6
<1>7. CASE \E gone \in SUBSET OtherSupports(keep) :
           \E p \in (OtherSupports(keep) \ gone) \cap Cached(deltas) :
             /\ workspaces' = Drop(workspaces, Others(keep))
             /\ supports' = Drop(supports, gone)
             /\ \E content \in PartCleared(deltas[p].content) :
                  deltas' = [Drop(deltas, gone) EXCEPT ![p] = DeltaSpace(content, TRUE, TRUE)]
  <2>1. PICK gone \in SUBSET OtherSupports(keep) :
           \E p \in (OtherSupports(keep) \ gone) \cap Cached(deltas) :
             /\ workspaces' = Drop(workspaces, Others(keep))
             /\ supports' = Drop(supports, gone)
             /\ \E content \in PartCleared(deltas[p].content) :
                  deltas' = [Drop(deltas, gone) EXCEPT ![p] = DeltaSpace(content, TRUE, TRUE)]
    BY <1>7
  <2>2. /\ workspaces' = Drop(workspaces, Others(keep)) /\ supports' = Drop(supports, gone)
    BY <2>1
  <2>3. \A p \in keep : supports'[p] = supports[p]
    BY <1>2, <2>2
  <2>4. /\ deltas' \in [Plan -> DeltaEntry \cup {NoEntry}]
        /\ \A q \in Plan : deltas'[q] # NoEntry =>
             deltas[q] # NoEntry /\ (deltas'[q] = deltas[q] \/ deltas'[q].populated)
    BY <1>5, <2>1
  <2>5. /\ workspaces' \in [Plan -> Space \cup {NoEntry}]
        /\ \A p \in Plan : workspaces'[p] # NoEntry =>
             workspaces[p] # NoEntry /\ workspaces'[p] = workspaces[p]
    BY <1>8, <2>2
  <2>6. /\ supports' \in [Plan -> Support \cup {NoEntry}]
        /\ \A p \in Plan : supports'[p] # NoEntry => supports'[p] = supports[p]
    BY <1>9, <2>2
  <2> QED
    BY <2>3, <2>4, <2>5, <2>6
<1> QED
  BY <1>3, <1>6, <1>7 DEF Prune, PruneStops

\* Pruning keeps the invariant, whole or cut short.
LEMMA PruneKeeps ==
    ASSUME CacheIndInv, NEW keep, keep \subseteq Cached(supports), Prune(keep)
    PROVE  /\ workspaces' \in [Plan -> Space \cup {NoEntry}]
           /\ supports' \in [Plan -> Support \cup {NoEntry}]
           /\ deltas' \in [Plan -> DeltaEntry \cup {NoEntry}]
           /\ WorkspacesExact' /\ SupportsExact' /\ DeltasClean' /\ CachesBounded'
           /\ keep \subseteq Cached(supports)'
<1>1. /\ \A p \in Plan : workspaces'[p] # NoEntry =>
           workspaces[p] # NoEntry /\ (workspaces'[p] = workspaces[p] \/ workspaces'[p].dirty)
      /\ \A p \in Plan : supports'[p] # NoEntry => supports'[p] = supports[p]
      /\ \A p \in Plan : deltas'[p] # NoEntry =>
           deltas[p] # NoEntry /\ (deltas'[p] = deltas[p] \/ deltas'[p].populated)
      /\ \A p \in keep : supports'[p] = supports[p]
  BY PruneLeaves
<1>2. Cached(workspaces)' \subseteq Cached(workspaces) /\ Cached(supports)' \subseteq Cached(supports)
  BY <1>1 DEF Cached
<1>3. WorkspacesExact'
  <2> SUFFICES ASSUME NEW q \in Cached(workspaces)', ~workspaces'[q].dirty
               PROVE  workspaces'[q].content = Once(workspaces'[q].cases)
    BY DEF WorkspacesExact
  <2>1. q \in Plan /\ q \in Cached(workspaces) /\ workspaces'[q] = workspaces[q]
    BY <1>1, <1>2 DEF Cached
  <2> QED
    BY <2>1 DEF CacheIndInv, WorkspacesExact
<1>4. SupportsExact'
  BY <1>1, <1>2 DEF CacheIndInv, SupportsExact, Cached
<1>5. DeltasClean'
  <2> SUFFICES ASSUME NEW q \in Cached(deltas)', ~deltas'[q].populated, ~deltas'[q].dirty
               PROVE  deltas'[q].content = Nothing
    BY DEF DeltasClean
  <2>1. q \in Plan /\ q \in Cached(deltas) /\ deltas'[q] = deltas[q]
    BY <1>1 DEF Cached
  <2> QED
    BY <2>1 DEF CacheIndInv, DeltasClean
<1>6. CachesBounded'
  <2>1. IsFiniteSet(Cached(workspaces)') /\ Cardinality(Cached(workspaces)') <= MaxPlans
    BY <1>2, FewerCached
  <2>2. IsFiniteSet(Cached(supports)') /\ Cardinality(Cached(supports)') <= MaxPlans
    BY <1>2, FewerCached
  <2> QED
    BY <2>1, <2>2 DEF CachesBounded
<1>7. keep \subseteq Cached(supports)'
  BY <1>1 DEF Cached
<1> QED
  BY <1>3, <1>4, <1>5, <1>6, <1>7, PruneLeaves

\* A mine of the Lab is installed.
LEMMA InstallKeeps == ASSUME CacheIndInv, Install PROVE CacheIndInv'
<1>1. /\ mine.by = "lab" /\ activePlans' = mine.used /\ Prune(mine.used) /\ mine' = NoMine
      /\ events' = events
      /\ stage' = IF stage = NoStage THEN stage ELSE [stage EXCEPT !.stale = TRUE]
  BY DEF Install
<1>2. mine.used \subseteq Cached(supports) /\ mine.used \in SUBSET Plan /\ stage \in StageState
  BY DEF CacheIndInv, CacheTypes, MineHolds, MineState
<1>3. stage' \in StageState /\ (stage' = NoStage \/ stage'.stale)
  BY <1>1, <1>2 DEF StageState
<1>4. mine.used \subseteq Cached(supports)'
  BY <1>1, <1>2, PruneKeeps
<1>5. CacheTypes'
  <2>1. /\ workspaces' \in [Plan -> Space \cup {NoEntry}] /\ supports' \in [Plan -> Support \cup {NoEntry}]
        /\ deltas' \in [Plan -> DeltaEntry \cup {NoEntry}]
    BY <1>1, <1>2, PruneKeeps
  <2> QED
    BY <1>1, <1>2, <1>3, <2>1, NoMineNoStage DEF CacheIndInv, CacheTypes
<1>6. MineHolds' /\ PlansSupported'
  BY <1>1, <1>3, <1>4, NoMineNoStage DEF MineHolds, PlansSupported
<1>7. WorkspacesExact' /\ SupportsExact' /\ DeltasClean' /\ CachesBounded'
  BY <1>1, <1>2, PruneKeeps
<1> QED
  BY <1>5, <1>6, <1>7 DEF CacheIndInv

\* A staged mine is built.
LEMMA BuildKeeps == ASSUME CacheIndInv, Build PROVE CacheIndInv'
<1>1. /\ mine.by = "stage" /\ stage' = [stage EXCEPT !.at = "built", !.used = mine.used] /\ mine' = NoMine
      /\ events' = events /\ workspaces' = workspaces /\ supports' = supports /\ deltas' = deltas
      /\ activePlans' = activePlans
  BY DEF Build, cacheState
<1>2. mine.used \subseteq Cached(supports) /\ mine.used \in SUBSET Plan /\ stage \in StageState
  BY DEF CacheIndInv, CacheTypes, MineHolds, MineState
<1>3. stage' \in StageState /\ stage'.used = mine.used
  BY <1>1, <1>2 DEF StageState
<1>4. CacheTypes'
  BY <1>1, <1>3, CachesSame, NoMineNoStage DEF CacheIndInv, CacheTypes
<1>5. MineHolds' /\ PlansSupported'
  BY <1>1, <1>2, <1>3, CachesSame, NoMineNoStage DEF CacheIndInv, MineHolds, PlansSupported
<1> QED
  BY <1>1, <1>4, <1>5, CachesSame DEF CacheIndInv

\* Installing raises.
LEMMA InstallRaisesKeeps == ASSUME CacheIndInv, InstallRaises PROVE CacheIndInv'
<1>1. Fail /\ workspaces' = workspaces /\ supports' = supports /\ deltas' = deltas
  BY DEF InstallRaises, cacheState
<1>2. CacheTypes'
  BY <1>1, FailKeeps, CachesSame DEF CacheIndInv, CacheTypes
<1> QED
  BY <1>1, <1>2, FailKeeps, CachesSame DEF CacheIndInv

\* A staged mine is promoted.
LEMMA PromoteKeeps == ASSUME CacheIndInv, Promote PROVE CacheIndInv'
<1>1. /\ mine = NoMine /\ stage.at = "built" /\ ~stage.stale /\ activePlans' = stage.used
      /\ Prune(stage.used) /\ stage' = NoStage /\ events' = events /\ mine' = mine
  BY DEF Promote
<1>2. stage.used \subseteq Cached(supports) /\ stage.used \in SUBSET Plan
  BY <1>1 DEF CacheIndInv, CacheTypes, PlansSupported, StageState
<1>3. /\ workspaces' \in [Plan -> Space \cup {NoEntry}] /\ supports' \in [Plan -> Support \cup {NoEntry}]
      /\ deltas' \in [Plan -> DeltaEntry \cup {NoEntry}]
      /\ WorkspacesExact' /\ SupportsExact' /\ DeltasClean' /\ CachesBounded'
      /\ stage.used \subseteq Cached(supports)'
  BY <1>1, <1>2, PruneKeeps
<1>4. CacheTypes'
  BY <1>1, <1>2, <1>3, NoMineNoStage DEF CacheIndInv, CacheTypes
<1>5. MineHolds' /\ PlansSupported'
  BY <1>1, <1>3, NoMineNoStage DEF MineHolds, PlansSupported
<1> QED
  BY <1>3, <1>4, <1>5 DEF CacheIndInv

\* A staged mine is rejected.
LEMMA RejectKeeps == ASSUME CacheIndInv, Reject PROVE CacheIndInv'
<1>1. /\ stage.at = "built" /\ stage' = NoStage /\ events' = events /\ activePlans' = activePlans
      /\ workspaces' = workspaces /\ supports' = supports /\ deltas' = deltas /\ mine' = mine
  BY DEF Reject, cacheState
<1>2. mine.by # "stage"
  BY <1>1 DEF CacheIndInv, MineHolds
<1>3. CacheTypes'
  BY <1>1, CachesSame, NoMineNoStage DEF CacheIndInv, CacheTypes
<1>4. MineHolds' /\ PlansSupported'
  BY <1>1, <1>2, CachesSame, NoMineNoStage DEF CacheIndInv, MineHolds, PlansSupported
<1> QED
  BY <1>1, <1>3, <1>4, CachesSame DEF CacheIndInv

\* Nothing happens to the caches.
LEMMA CacheIdles == ASSUME CacheIndInv, UNCHANGED miningVars PROVE CacheIndInv'
<1>1. /\ events' = events /\ workspaces' = workspaces /\ supports' = supports /\ deltas' = deltas
      /\ activePlans' = activePlans /\ stage' = stage /\ mine' = mine
  BY DEF miningVars, cacheState
<1>2. CacheTypes'
  BY <1>1, CachesSame DEF CacheIndInv, CacheTypes
<1>3. MineHolds' /\ PlansSupported'
  BY <1>1, CachesSame DEF CacheIndInv, MineHolds, PlansSupported
<1> QED
  BY <1>1, <1>2, <1>3, CachesSame DEF CacheIndInv

\* Every operation on the caches, whole or interrupted, keeps the invariant.
THEOREM CacheStep == CacheIndInv /\ [MiningNext]_miningVars => CacheIndInv'
<1> SUFFICES ASSUME CacheIndInv, [MiningNext]_miningVars PROVE CacheIndInv'
  OBVIOUS
<1>1. CASE \E u \in Unit : RecordEvent(u)
  BY <1>1, RecordKeeps
<1>2. CASE \E plans \in PlanLists : MineLab(plans) \/ MineStaged(plans)
  BY <1>2, MineLabKeeps, MineStagedKeeps
<1>3. CASE CaptureStage
  BY <1>3, CaptureKeeps
<1>4. CASE SyncPlan \/ SyncPlanRaises
  BY <1>4, SyncKeeps, SyncRaisesKeeps
<1>5. CASE CountPlan \/ CountPlanRaises
  BY <1>5, CountKeeps, CountRaisesKeeps
<1>6. CASE Install \/ InstallRaises
  BY <1>6, InstallKeeps, InstallRaisesKeeps
<1>7. CASE Build \/ Promote \/ Reject
  BY <1>7, BuildKeeps, PromoteKeeps, RejectKeeps
<1>8. CASE UNCHANGED miningVars
  BY <1>8, CacheIdles
<1> QED
  BY <1>1, <1>2, <1>3, <1>4, <1>5, <1>6, <1>7, <1>8 DEF MiningNext

\* The inductive invariant: the spaces and supports are exact unless marked,
\* and between the two passes of a plan its space is that of its cases.
THEOREM CacheInvHolds == MiningSpec => []CacheIndInv
<1> QED
  BY CacheStarts, CacheStep, PTL DEF MiningSpec

\* The retained window is exact and within its limits, the cached spaces and
\* supports are those of their cases unless they are marked dirty, and an
\* active plan keeps its support, for any plans, cases and limits and wherever
\* an operation raises (temporal_miner.py).
THEOREM MiningSafe == MiningSpec => []MiningSound
<1>1. CacheIndInv => MiningSound
  <2> SUFFICES ASSUME CacheIndInv PROVE MiningSound
    OBVIOUS
  <2>1. WindowExact
    BY WindowHolds DEF CacheIndInv, CacheTypes
  <2> QED
    BY <2>1 DEF CacheIndInv, CachesBounded, PlansSupported, MiningSound, MiningExact, ActivePlansSupported
<1> QED
  BY <1>1, CacheInvHolds, PTL

-----------------------------------------------------------------------------
(* The batch extraction                                                    *)

(* The plan *)

Distinct(q) == \A i, j \in DOMAIN q : q[i] = q[j] => i = j

\* A sequence without repetitions has as many members as places.
LEMMA DistinctCount ==
    ASSUME NEW S, NEW q \in Seq(S), Distinct(q)
    PROVE  IsFiniteSet(ToSet(q)) /\ Cardinality(ToSet(q)) = Len(q) /\ ToSet(q) \subseteq S
<1> DEFINE n == Len(q)
<1>1. n \in Nat /\ DOMAIN q = 1..n /\ q \in [1..n -> S]
  BY LenProperties
<1>2. IsFiniteSet(1..n) /\ Cardinality(1..n) = n
  <2>1. \A m \in Nat : Cardinality(1..m) = m /\ IsFiniteSet(1..m)
    BY FS_Interval
  <2> QED
    BY <1>1, <2>1
<1>3. q \in Surjection(1..n, ToSet(q))
  BY <1>1 DEF Surjection, ToSet
<1>4. q \in Injection(1..n, ToSet(q))
  BY <1>1 DEF Injection, IsInjective, ToSet, Distinct
<1>5. ToSet(q) \subseteq S
  BY <1>1 DEF ToSet
<1> HIDE DEF n
<1>6. IsFiniteSet(ToSet(q)) /\ Cardinality(ToSet(q)) = Cardinality(1..n)
  BY <1>2, <1>3, <1>4, FS_Surjection
<1> QED
  BY <1>2, <1>5, <1>6 DEF n

\* Numbers can be put in order.
LEMMA AscendingIs ==
    ASSUME NEW S \in SUBSET Int, IsFiniteSet(S)
    PROVE  /\ Ascending(S) \in Seq(S) /\ Len(Ascending(S)) = Cardinality(S)
           /\ Distinct(Ascending(S))
<1> DEFINE n == Cardinality(S)
           at(i) == CHOOSE x \in S : Cardinality(Below(S, x)) = i - 1
           q == [i \in 1..n |-> at(i)]
<1>1. n \in Nat
  BY Ranks
<1>2. ASSUME NEW i \in 1..n PROVE at(i) \in S /\ Cardinality(Below(S, at(i))) = i - 1
  <2>1. i - 1 \in 0..n - 1
    BY <1>1
  <2>2. \E x \in S : Cardinality(Below(S, x)) = i - 1
    BY <2>1, Ranks
  <2> QED
    BY <2>2
<1>3. ASSUME NEW i \in 1..n, NEW j \in 1..n, i < j PROVE at(i) < at(j)
  <2>1. at(i) \in Int /\ at(j) \in Int
    BY <1>2
  <2>2. Cardinality(Below(S, at(i))) < Cardinality(Below(S, at(j)))
    BY <1>1, <1>2, <1>3
  <2>3. ~(Cardinality(Below(S, at(j))) < Cardinality(Below(S, at(i))))
    BY <1>1, <1>2, <1>3
  <2>4. at(i) # at(j)
    BY <1>1, <1>2, <1>3
  <2>5. at(j) < at(i) => Cardinality(Below(S, at(j))) < Cardinality(Below(S, at(i)))
    BY <1>2, Ranks
  <2> HIDE DEF at
  <2> QED
    BY <2>1, <2>3, <2>4, <2>5
<1> HIDE DEF at
<1>4. q \in SetToSeqs(S)
  <2>1. q \in [1..n -> S]
    BY <1>2
  <2>2. ASSUME NEW i \in 1..n, NEW j \in 1..n, i # j PROVE q[i] # q[j]
    <3>1. at(i) \in Int /\ at(j) \in Int
      BY <1>2
    <3>2. i < j \/ j < i
      BY <1>1, <2>2
    <3> QED
      BY <1>3, <3>1, <3>2
  <2> HIDE DEF q
  <2> QED
    BY <2>1, <2>2 DEF SetToSeqs
<1>5. DOMAIN q = 1..n /\ \A i, j \in DOMAIN q : i < j => q[i] < q[j]
  BY <1>3
<1> HIDE DEF q
<1>6. Ascending(S) \in SetToSeqs(S)
  BY <1>4, <1>5 DEF Ascending
<1>7. Ascending(S) \in [1..n -> S] /\ \A i, j \in 1..n : i # j => Ascending(S)[i] # Ascending(S)[j]
  BY <1>6 DEF SetToSeqs
<1> HIDE DEF n
<1>8. Ascending(S) \in Seq(S) /\ Len(Ascending(S)) = n /\ DOMAIN Ascending(S) = 1..n
  BY <1>1, <1>7
<1> QED
  BY <1>7, <1>8 DEF Distinct, n

\* The shards, and the keys of each.
LEMMA ShardFacts ==
    /\ Shard \in SUBSET Nat /\ IsFiniteSet(Shard) /\ Cardinality(Shard) \in Nat
    /\ \A k \in Text : ShardOf[k] \in Shard
    /\ \A s : Group(s) \in SUBSET Text /\ Group(s) \in SUBSET Int
    /\ \A s : \A T \in SUBSET Group(s) : IsFiniteSet(T)
<1>1. IsFiniteSet(Text) /\ Text \in SUBSET Nat /\ Shard \in SUBSET Nat
  BY ExtractionAssumption
<1>2. [k \in Text |-> ShardOf[k]] \in Surjection(Text, Shard)
  BY DEF Surjection, Shard
<1>3. IsFiniteSet(Shard)
  BY <1>1, <1>2, FS_Surjection
<1>4. \A s : Group(s) \in SUBSET Text
  BY DEF Group
<1>5. \A s : \A T \in SUBSET Group(s) : IsFiniteSet(T)
  <2>1. \A s : \A T \in SUBSET Group(s) : T \in SUBSET Text
    BY <1>4
  <2> QED
    BY <1>1, <2>1, FS_Subset
<1>6. \A s : Group(s) \in SUBSET Int
  <2>1. Text \in SUBSET Int
    BY <1>1
  <2> QED
    BY <1>4, <2>1
<1>7. \A k \in Text : ShardOf[k] \in Shard
  BY DEF Shard
<1> QED
  BY <1>1, <1>3, <1>4, <1>5, <1>6, <1>7, FS_CardinalityType

\* The constants, as their assumption has them.
LEMMA Bounds ==
    /\ Workers \in Nat \ {0} /\ BatchSize \in Nat \ {0}
    /\ MaxNew \in Nat /\ MaxCalls \in Nat /\ ExtractRuns \in Nat
BY ExtractionAssumption

\* A deal: what each shard has got, and what is left.
DealType == [new : [Shard -> Nat], paid : [Shard -> Nat], articles : Nat, calls : Nat]
DealHolds(deal) ==
    /\ deal \in DealType
    /\ SumFunctionOnSet(deal.new, Shard) + deal.articles = MaxNew
    /\ SumFunctionOnSet(deal.paid, Shard) + deal.calls = MaxCalls

\* The least of three numbers.
LEMMA Smallest3 ==
    ASSUME NEW a \in Int, NEW b \in Int, NEW c \in Int
    PROVE  /\ Min({a, b, c}) \in {a, b, c}
           /\ Min({a, b, c}) <= a /\ Min({a, b, c}) <= b /\ Min({a, b, c}) <= c
<1>1. \E x \in {a, b, c} : \A y \in {a, b, c} : x <= y
  <2>1. \/ a <= b /\ a <= c
        \/ b <= a /\ b <= c
        \/ c <= a /\ c <= b
    OBVIOUS
  <2>2. a <= a /\ b <= b /\ c <= c
    OBVIOUS
  <2> QED
    BY <2>1, <2>2
<1>2. Min({a, b, c}) \in {a, b, c} /\ \A y \in {a, b, c} : Min({a, b, c}) <= y
  BY <1>1 DEF Min
<1> QED
  BY <1>2

\* The least of two numbers.
LEMMA Smallest2 ==
    ASSUME NEW a \in Nat, NEW b \in Nat
    PROVE  Min({a, b}) \in Nat /\ Min({a, b}) <= a /\ Min({a, b}) <= b
<1>1. Min({a, b}) \in {a, b} /\ \A y \in {a, b} : Min({a, b}) <= y
  <2>1. {a, b} \in SUBSET Nat /\ {a, b} # {}
    OBVIOUS
  <2> QED
    BY <2>1, MinIs
<1> QED
  BY <1>1

\* A batch moves articles and one call from what is left to a shard.
LEMMA DealtHolds ==
    ASSUME shardKeys \in [Shard -> SUBSET Text], NEW s \in Shard, NEW deal, DealHolds(deal)
    PROVE  DealHolds(Dealt(s, deal))
<1> DEFINE left == Cardinality(Group(s) \ shardKeys[s]) - deal.new[s]
           count == Min({BatchSize, left, deal.articles})
<1>1. /\ deal.new \in [Shard -> Nat] /\ deal.paid \in [Shard -> Nat] /\ deal.articles \in Nat
      /\ deal.calls \in Nat
  BY DEF DealHolds, DealType
<1>2. left \in Int
  <2>1. IsFiniteSet(Group(s) \ shardKeys[s])
    BY ShardFacts
  <2>2. Cardinality(Group(s) \ shardKeys[s]) \in Nat
    BY <2>1, FS_CardinalityType
  <2> QED
    BY <1>1, <2>2
<1> HIDE DEF left
<1>3. count \in Int /\ count <= deal.articles
  <2>1. BatchSize \in Int /\ deal.articles \in Int
    BY <1>1, Bounds
  <2> HIDE DEF DealHolds
  <2> QED
    BY <1>2, <2>1, Smallest3
<1>4. Dealt(s, deal) = IF count > 0 /\ deal.calls > 0
                       THEN [new |-> [deal.new EXCEPT ![s] = @ + count],
                             paid |-> [deal.paid EXCEPT ![s] = @ + 1],
                             articles |-> deal.articles - count, calls |-> deal.calls - 1]
                       ELSE deal
  BY DEF Dealt, left
<1> HIDE DEF count
<1>5. CASE count > 0 /\ deal.calls > 0
  <2> DEFINE new == [deal.new EXCEPT ![s] = @ + count]
             paid == [deal.paid EXCEPT ![s] = @ + 1]
             next == [new |-> new, paid |-> paid, articles |-> deal.articles - count, calls |-> deal.calls - 1]
  <2>1. /\ new \in [Shard -> Nat] /\ new[s] = deal.new[s] + count
        /\ \A t \in Shard \ {s} : new[t] = deal.new[t]
    BY <1>1, <1>3, <1>5
  <2>2. /\ paid \in [Shard -> Nat] /\ paid[s] = deal.paid[s] + 1
        /\ \A t \in Shard \ {s} : paid[t] = deal.paid[t]
    BY <1>1
  <2>3. Ints(deal.new, Shard) /\ Ints(deal.paid, Shard) /\ deal.new[s] \in Nat /\ deal.paid[s] \in Nat
    BY <1>1 DEF Ints
  <2>4. /\ SumFunctionOnSet(deal.new, Shard) \in Int /\ SumFunctionOnSet(deal.paid, Shard) \in Int
    BY <2>3, ShardFacts, SumInt
  <2> HIDE DEF new, paid
  <2>5. SumFunctionOnSet(new, Shard) = SumFunctionOnSet(deal.new, Shard) - deal.new[s] + new[s]
    <3>1. new[s] \in Int
      BY <1>3, <2>1, <2>3
    <3>2. \A t \in Shard \ {s} : new[t] = deal.new[t]
      BY <2>1
    <3>3. IsFiniteSet(Shard) /\ Ints(deal.new, Shard)
      BY <2>3, ShardFacts
    <3> QED
      BY <3>1, <3>2, <3>3, SumExcept
  <2>6. SumFunctionOnSet(paid, Shard) = SumFunctionOnSet(deal.paid, Shard) - deal.paid[s] + paid[s]
    <3>1. paid[s] \in Int
      BY <2>2, <2>3
    <3>2. \A t \in Shard \ {s} : paid[t] = deal.paid[t]
      BY <2>2
    <3>3. IsFiniteSet(Shard) /\ Ints(deal.paid, Shard)
      BY <2>3, ShardFacts
    <3> QED
      BY <3>1, <3>2, <3>3, SumExcept
  <2>7. /\ next \in DealType /\ next.new = new /\ next.paid = paid
        /\ next.articles = deal.articles - count /\ next.calls = deal.calls - 1
    BY <1>1, <1>3, <1>5, <2>1, <2>2 DEF DealType
  <2>8. Dealt(s, deal) = next
    BY <1>4, <1>5 DEF new, paid
  <2> HIDE DEF next
  <2>9. SumFunctionOnSet(next.new, Shard) + next.articles = MaxNew
    BY <1>1, <1>3, <2>1, <2>3, <2>4, <2>5, <2>7 DEF DealHolds
  <2>10. SumFunctionOnSet(next.paid, Shard) + next.calls = MaxCalls
    BY <1>1, <2>2, <2>3, <2>4, <2>6, <2>7 DEF DealHolds
  <2> QED
    BY <2>7, <2>8, <2>9, <2>10 DEF DealHolds
<1>6. CASE ~(count > 0 /\ deal.calls > 0)
  BY <1>4, <1>6
<1> QED
  BY <1>5, <1>6

\* Every turn is that of a shard.
LEMMA TurnFacts ==
    /\ Turns \in Nat
    /\ \A i \in 1..Turns : Turn(i) \in Shard
<1> DEFINE n == Cardinality(Shard)
<1>1. n \in Nat /\ MaxNew \in Nat
  BY ShardFacts, Bounds
<1>2. Turns = MaxNew * n
  BY DEF Turns
<1>3. Ascending(Shard) \in Seq(Shard) /\ Len(Ascending(Shard)) = n
  <2>1. Shard \in SUBSET Int /\ IsFiniteSet(Shard)
    BY ShardFacts
  <2> QED
    BY <2>1, AscendingIs
<1> HIDE DEF n
<1>4. \A a, b \in Nat : a * b \in Nat /\ (a * b > 0 => b > 0)
  OBVIOUS
<1>5. Turns \in Nat
  BY <1>1, <1>2, <1>4
<1>6. ASSUME NEW i \in 1..Turns PROVE Turn(i) \in Shard
  <2>1. n \in Nat \ {0} /\ i - 1 \in Nat
    BY <1>1, <1>2, <1>4, <1>5
  <2>2. (i - 1) % n \in Nat /\ (i - 1) % n < n
    BY <2>1, DivMod
  <2>3. 1 + ((i - 1) % n) \in 1..n
    BY <1>1, <2>2
  <2>4. Ascending(Shard)[1 + ((i - 1) % n)] \in Shard
    BY <1>3, <2>3, ElementOfSeq
  <2> QED
    BY <2>4 DEF Turn, n
<1> QED
  BY <1>5, <1>6

FirstDeal == [new |-> [s \in Shard |-> 0], paid |-> [s \in Shard |-> 0],
              articles |-> MaxNew, calls |-> MaxCalls]
DealAt(f, i) == IF i = 0 THEN FirstDeal ELSE Dealt(Turn(i), f[i - 1])

\* The deals of the rounds exist, one after the other.
LEMMA DealingIs == \A i \in 0..Turns : Dealing[i] = DealAt(Dealing, i)
<1> DEFINE Good(n) == \E f : f = [i \in 0..n |-> DealAt(f, i)]
           Bad == {n \in Nat : ~Good(n)}
<1>1. Good(0)
  <2> DEFINE f == [i \in 0..0 |-> FirstDeal]
  <2>1. f = [i \in 0..0 |-> DealAt(f, i)]
    BY DEF DealAt
  <2> QED
    BY <2>1
<1>2. ASSUME NEW n \in Nat, Good(n) PROVE Good(n + 1)
  <2>1. PICK f : f = [i \in 0..n |-> DealAt(f, i)]
    BY <1>2
  <2> DEFINE h == [i \in 0..n + 1 |-> DealAt(f, i)]
  <2>2. ASSUME NEW i \in 0..n + 1, i # 0 PROVE h[i - 1] = f[i - 1]
    <3>1. i - 1 \in 0..n /\ i - 1 \in 0..n + 1
      BY <2>2
    <3> QED
      BY <2>1, <3>1
  <2> HIDE DEF h
  <2>3. \A i \in 0..n + 1 : DealAt(h, i) = DealAt(f, i)
    BY <2>2 DEF DealAt
  <2>4. h = [i \in 0..n + 1 |-> DealAt(h, i)]
    BY <2>3 DEF h
  <2> QED
    BY <2>4
<1> HIDE DEF Good
<1>3. Bad = {}
  <2> SUFFICES ASSUME Bad # {} PROVE FALSE
    OBVIOUS
  <2>1. PICK m \in Bad : \A k \in Bad : m <= k
    BY Least
  <2>2. m # 0
    BY <1>1, <2>1
  <2>3. m - 1 \in Nat /\ m - 1 \notin Bad
    BY <2>1, <2>2
  <2> QED
    BY <1>2, <2>1, <2>3
<1>4. Good(Turns)
  BY <1>3, TurnFacts
<1>5. Dealing = CHOOSE f : f = [i \in 0..Turns |-> DealAt(f, i)]
  BY DEF Dealing, DealAt, FirstDeal
<1>6. Dealing = [i \in 0..Turns |-> DealAt(Dealing, i)]
  BY <1>4, <1>5 DEF Good
<1> QED
  BY <1>6

\* Nothing is dealt that is not left.
LEMMA DealFits == ASSUME shardKeys \in [Shard -> SUBSET Text] PROVE DealHolds(Deal)
<1> DEFINE Bad == {i \in 0..Turns : ~DealHolds(Dealing[i])}
<1>1. DealHolds(FirstDeal)
  <2> DEFINE none == [s \in Shard |-> 0]
  <2>1. SumFunctionOnSet(none, Shard) = Cardinality({}) * 0
    <3>1. \A s \in Shard : none[s] = IF s \in {} THEN 0 ELSE 0
      OBVIOUS
    <3>2. {} \in SUBSET Shard /\ IsFiniteSet(Shard) /\ 0 \in Nat
      BY ShardFacts
    <3> HIDE DEF none
    <3> QED
      BY <3>1, <3>2, SumCounts
  <2>2. SumFunctionOnSet(none, Shard) = 0
    BY <2>1, FS_EmptySet
  <2>3. none \in [Shard -> Nat]
    OBVIOUS
  <2>4. /\ FirstDeal.new = none /\ FirstDeal.paid = none /\ FirstDeal.articles = MaxNew
        /\ FirstDeal.calls = MaxCalls /\ FirstDeal \in DealType
    BY <2>3, Bounds DEF FirstDeal, DealType
  <2> QED
    BY <2>2, <2>4, Bounds DEF DealHolds
<1>2. SUFFICES Bad = {}
  <2>1. Turns \in 0..Turns
    BY TurnFacts
  <2> QED
    BY <2>1 DEF Deal
<1>3. SUFFICES ASSUME Bad # {} PROVE FALSE
  OBVIOUS
<1>4. PICK m \in Bad : \A k \in Bad : m <= k
  <2>1. Bad \in SUBSET Nat
    BY TurnFacts
  <2> HIDE DEF Bad
  <2> QED
    BY <1>3, <2>1, Least
<1>5. m \in 0..Turns /\ Turns \in Nat
  BY <1>4, TurnFacts
<1>6. m # 0
  BY <1>1, <1>4, DealingIs DEF DealAt
<1>7. DealHolds(Dealing[m - 1])
  <2>1. m - 1 \in 0..Turns /\ ~(m <= m - 1)
    BY <1>5, <1>6
  <2> QED
    BY <1>4, <2>1
<1>8. Turn(m) \in Shard
  <2>1. m \in 1..Turns
    BY <1>5, <1>6
  <2> QED
    BY <2>1, TurnFacts
<1>9. Dealing[m] = Dealt(Turn(m), Dealing[m - 1])
  BY <1>5, <1>6, DealingIs DEF DealAt
<1> QED
  BY <1>4, <1>7, <1>8, <1>9, DealtHolds

NewOf == [s \in Shard |-> Quotas[s].new]
CallsOf == [s \in Shard |-> Quotas[s].calls]

\* What is dealt out, with the calls that are left, is within both totals.
LEMMA QuotasFit ==
    ASSUME shardKeys \in [Shard -> SUBSET Text]
    PROVE  /\ \A s \in Shard : Quotas[s].new \in Nat /\ Quotas[s].calls \in Nat
           /\ SumFunctionOnSet(NewOf, Shard) <= MaxNew
           /\ SumFunctionOnSet(CallsOf, Shard) <= MaxCalls
<1> DEFINE deal == Deal
           busy == {s \in Shard : deal.new[s] > 0}
           n == Cardinality(busy)
           each == deal.calls \div n
           rest == deal.calls % n
           low == {s \in busy : Cardinality(Below(busy, s)) < rest}
           extra(s) == each + IF Cardinality(Below(busy, s)) < rest THEN 1 ELSE 0
           a == [s \in Shard |-> IF s \in busy THEN each ELSE 0]
           b == [s \in Shard |-> IF s \in low THEN 1 ELSE 0]
           more == [s \in Shard |-> IF s \in busy THEN extra(s) ELSE 0]
<1>1. DealHolds(deal)
  BY DealFits
<1>2. /\ deal.new \in [Shard -> Nat] /\ deal.paid \in [Shard -> Nat] /\ deal.articles \in Nat
      /\ deal.calls \in Nat
  BY <1>1 DEF DealHolds, DealType
<1>3. /\ SumFunctionOnSet(deal.new, Shard) + deal.articles = MaxNew
      /\ SumFunctionOnSet(deal.paid, Shard) + deal.calls = MaxCalls
  BY <1>1 DEF DealHolds
<1>4. \A s \in Shard : Quotas[s].new = deal.new[s] /\ Quotas[s].calls = deal.paid[s] + more[s]
  BY DEF Quotas, Below
<1>5. IsFiniteSet(Shard) /\ Shard \in SUBSET Int
  BY ShardFacts
<1>6. IsFiniteSet(busy) /\ busy \in SUBSET Int /\ n \in Nat /\ busy \in SUBSET Shard
  <2>1. busy \in SUBSET Shard
    OBVIOUS
  <2> HIDE DEF busy
  <2> QED
    BY <1>5, <2>1, FS_Subset, FS_CardinalityType
<1> HIDE DEF deal, busy
<1>7. CASE busy = {}
  <2>1. \A s \in Shard : more[s] = 0
    BY <1>7
  <2>2. \A s \in Shard : Quotas[s].calls = deal.paid[s]
    BY <1>2, <1>4, <2>1
  <2>3. \A s \in Shard : Quotas[s].new \in Nat /\ Quotas[s].calls \in Nat
    BY <1>2, <1>4, <2>2
  <2>4. Ints(deal.paid, Shard) /\ Ints(deal.new, Shard)
    BY <1>2 DEF Ints
  <2>5. SumFunctionOnSet(deal.paid, Shard) = SumFunctionOnSet(CallsOf, Shard)
    <3>1. \A s \in Shard : deal.paid[s] = CallsOf[s]
      BY <2>2 DEF CallsOf
    <3> QED
      BY <1>5, <2>4, <3>1, SumSame
  <2>6. SumFunctionOnSet(deal.new, Shard) = SumFunctionOnSet(NewOf, Shard)
    <3>1. \A s \in Shard : deal.new[s] = NewOf[s]
      BY <1>4 DEF NewOf
    <3> QED
      BY <1>5, <2>4, <3>1, SumSame
  <2>7. SumFunctionOnSet(deal.paid, Shard) \in Int /\ SumFunctionOnSet(deal.new, Shard) \in Int
    BY <1>5, <2>4, SumInt
  <2> QED
    BY <1>2, <1>3, <2>3, <2>5, <2>6, <2>7, Bounds
<1>8. CASE busy # {}
  <2>1. n \in Nat \ {0}
    BY <1>6, <1>8, FS_EmptySet
  <2> HIDE DEF n
  <2>2. each \in Nat /\ rest \in Nat /\ n * each + rest = deal.calls
    BY <1>2, <2>1, DivMod
  <2>3. Cardinality(low) <= rest
    BY <1>6, <2>2, FewLow
  <2>4. low \in SUBSET busy /\ IsFiniteSet(low) /\ Cardinality(low) \in Nat
    <3>1. low \in SUBSET busy
      OBVIOUS
    <3> HIDE DEF low
    <3> QED
      BY <1>6, <3>1, FS_Subset, FS_CardinalityType
  <2>5. \A s \in Shard : more[s] = a[s] + b[s]
    BY <2>2
  <2> HIDE DEF each, rest, low
  <2>6. /\ \A s \in Shard : a[s] = IF s \in busy THEN each ELSE 0
        /\ \A s \in Shard : b[s] = IF s \in low THEN 1 ELSE 0
    OBVIOUS
  <2>7. \A s \in Shard : a[s] \in Nat /\ b[s] \in Nat
    BY <2>2, <2>6
  <2> HIDE DEF a, b, more
  <2>8. Ints(a, Shard) /\ Ints(b, Shard) /\ Ints(deal.paid, Shard) /\ Ints(more, Shard) /\ Ints(deal.new, Shard)
    BY <1>2, <2>5, <2>7 DEF Ints
  <2>9. SumFunctionOnSet(a, Shard) = Cardinality(busy) * each
    <3>1. IsFiniteSet(Shard) /\ busy \in SUBSET Shard /\ each \in Nat
      BY <1>5, <1>6, <2>2
    <3>2. \A s \in Shard : a[s] = IF s \in busy THEN each ELSE 0
      BY <2>6
    <3> QED
      BY <3>1, <3>2, SumCounts
  <2>10. SumFunctionOnSet(b, Shard) = Cardinality(low) * 1
    <3>1. IsFiniteSet(Shard) /\ low \in SUBSET Shard /\ 1 \in Nat
      BY <1>5, <1>6, <2>4
    <3>2. \A s \in Shard : b[s] = IF s \in low THEN 1 ELSE 0
      BY <2>6
    <3> QED
      BY <3>1, <3>2, SumCounts
  <2>11. SumFunctionOnSet(more, Shard) = SumFunctionOnSet(a, Shard) + SumFunctionOnSet(b, Shard)
    <3>1. IsFiniteSet(Shard) /\ Ints(a, Shard) /\ Ints(b, Shard)
      BY <1>5, <2>8
    <3> QED
      BY <2>5, <3>1, SumPlus
  <2>12. SumFunctionOnSet(more, Shard) <= deal.calls
    <3>1. \A x, y \in Nat : x * y \in Nat
      OBVIOUS
    <3>2. n * each \in Nat
      BY <2>1, <2>2, <3>1
    <3>3. SumFunctionOnSet(a, Shard) = n * each
      BY <2>9 DEF n
    <3>4. SumFunctionOnSet(b, Shard) <= rest /\ SumFunctionOnSet(b, Shard) \in Nat
      BY <2>2, <2>3, <2>4, <2>10
    <3> QED
      BY <1>2, <2>2, <2>11, <3>2, <3>3, <3>4
  <2>13. SumFunctionOnSet(CallsOf, Shard) = SumFunctionOnSet(deal.paid, Shard) + SumFunctionOnSet(more, Shard)
    <3>1. \A s \in Shard : CallsOf[s] = deal.paid[s] + more[s]
      BY <1>4 DEF CallsOf, more
    <3>2. IsFiniteSet(Shard) /\ Ints(deal.paid, Shard) /\ Ints(more, Shard)
      BY <1>5, <2>8
    <3> QED
      BY <3>1, <3>2, SumPlus
  <2>14. SumFunctionOnSet(deal.new, Shard) = SumFunctionOnSet(NewOf, Shard)
    <3>1. \A s \in Shard : deal.new[s] = NewOf[s]
      BY <1>4 DEF NewOf
    <3> QED
      BY <1>5, <2>8, <3>1, SumSame
  <2>15. /\ SumFunctionOnSet(deal.paid, Shard) \in Int /\ SumFunctionOnSet(deal.new, Shard) \in Int
         /\ SumFunctionOnSet(more, Shard) \in Int
    BY <1>5, <2>8, SumInt
  <2>16. \A s \in Shard : Quotas[s].new \in Nat /\ Quotas[s].calls \in Nat
    <3>1. \A s \in Shard : Quotas[s].calls = deal.paid[s] + more[s] /\ Quotas[s].new = deal.new[s]
      BY <1>4 DEF more
    <3>2. \A s \in Shard : more[s] \in Nat
      BY <2>5, <2>7
    <3> QED
      BY <1>2, <3>1, <3>2
  <2> QED
    BY <1>2, <1>3, <2>12, <2>13, <2>14, <2>15, <2>16, Bounds
<1> QED
  BY <1>7, <1>8

-----------------------------------------------------------------------------
(* The invariant *)

JobType ==
    [at : {"none", "queued"} \cup Busy \cup Ended, new : Nat, calls : Nat, memory : SUBSET Text,
     pending : Seq(Text), used : Nat, batches : Nat, retried : BOOLEAN, done : Nat]

ExtractTypes ==
    /\ shardKeys \in [Shard -> SUBSET Text]
    /\ driver \in [run : 0..ExtractRuns, at : {"idle", "collect", "drain"}, collected : SUBSET Shard]
    /\ driver.at # "idle" => driver.run \in ExtractRun
    /\ stop \in [ExtractRun -> BOOLEAN]
    /\ jobs \in [ExtractRun -> [Shard -> JobType]]
    /\ exported \in [ExtractRun -> SUBSET (Text \cup NoExport)]
    /\ savedBy \in [Text -> SUBSET ExtractRun]
    /\ shared \in SUBSET Shard

\* A worker keeps to its quotas, and to the articles of its shard.
JobKeeps(job, s) ==
    /\ job.memory \subseteq Group(s) /\ ToSet(job.pending) \subseteq Group(s) /\ Distinct(job.pending)
    /\ job.used <= job.calls /\ (job.at = "call" => job.used < job.calls)
    /\ job.done + Len(job.pending) <= job.new
    /\ job.at \in {"queued", "save empty"} => job.done = 0
    /\ job.at = "queued" => job.memory = {}

JobsKeep == \A r \in ExtractRun, s \in Shard : JobKeeps(jobs[r][s], s)

NewIn(r) == [s \in Shard |-> jobs[r][s].new]
CallsIn(r) == [s \in Shard |-> jobs[r][s].calls]

QuotasHeld ==
    \A r \in ExtractRun : /\ SumFunctionOnSet(NewIn(r), Shard) <= MaxNew
                          /\ SumFunctionOnSet(CallsIn(r), Shard) <= MaxCalls

\* A run that has not begun has done nothing.
NotBegun ==
    \A r \in ExtractRun : r > driver.run =>
      exported[r] = NoExport /\ \A s \in Shard : jobs[r][s] = NoJob

CollectedDone ==
    driver.at = "collect" => \A s \in driver.collected : jobs[driver.run][s].at = "done"

ExportIs ==
    \A r \in ExtractRun : exported[r] # NoExport =>
      /\ \A s \in Shard : jobs[r][s].at = "done"
      /\ exported[r] = UNION {jobs[r][s].memory : s \in Shard}

\* What a run has saved, its worker remembers.
SaverRemembers == \A r \in ExtractRun, k \in Text : r \in savedBy[k] => k \in jobs[r][ShardOf[k]].memory

\* A shard without two workers has one, who knows the cache.
OneWorker ==
    \A s \in Shard \ shared :
      /\ \A q, r \in ExtractRun : jobs[q][s].at \in Busy /\ jobs[r][s].at \in Busy => q = r
      /\ \A r \in ExtractRun :
           /\ jobs[r][s].memory \subseteq shardKeys[s]
           /\ jobs[r][s].at \in Busy =>
                jobs[r][s].memory = shardKeys[s] /\ ToSet(jobs[r][s].pending) \cap shardKeys[s] = {}

InShards == \A s \in Shard : shardKeys[s] \subseteq Group(s)

ExtractIndInv ==
    /\ ExtractTypes /\ JobsKeep /\ QuotasHeld /\ NotBegun /\ CollectedDone /\ ExportIs
    /\ SaverRemembers /\ OneWorker /\ PaidOnce /\ InShards

\* A job that was not started.
LEMMA NoJobFacts ==
    /\ NoJob \in JobType /\ NoJob.at = "none" /\ NoJob.memory = {} /\ NoJob.pending = <<>>
    /\ NoJob.new = 0 /\ NoJob.calls = 0 /\ NoJob.used = 0 /\ NoJob.done = 0
<1>1. <<>> \in Seq(Text)
  OBVIOUS
<1> QED
  BY <1>1 DEF NoJob, JobType

\* It keeps to anything.
LEMMA NoJobKeeps == ASSUME NEW s PROVE JobKeeps(NoJob, s)
<1>1. ToSet(<<>>) = {} /\ Distinct(<<>>) /\ Len(<<>>) = 0
  BY DEF ToSet, Distinct
<1> QED
  BY <1>1, NoJobFacts DEF JobKeeps

\* The fields of a job.
LEMMA JobFields ==
    ASSUME NEW job \in JobType
    PROVE  /\ job.at \in {"none", "queued"} \cup Busy \cup Ended /\ job.new \in Nat /\ job.calls \in Nat
           /\ job.memory \in SUBSET Text /\ job.pending \in Seq(Text) /\ job.used \in Nat
           /\ job.batches \in Nat /\ job.retried \in BOOLEAN /\ job.done \in Nat
BY DEF JobType

\* How a worker, a stop or a death changes a job: what ended stays as it is.
Moved(a, b, s) ==
    \/ b = a
    \/ /\ a.at \notin Ended
       /\ b \in JobType /\ JobKeeps(b, s) /\ b.new = a.new /\ b.calls = a.calls /\ a.memory \subseteq b.memory

\* What every such change keeps.
LEMMA MovedKeeps ==
    ASSUME ExtractIndInv, jobs' \in [ExtractRun -> [Shard -> JobType]],
           \A r \in ExtractRun, s \in Shard : Moved(jobs[r][s], jobs'[r][s], s),
           \A r \in ExtractRun, s \in Shard : r > driver.run => jobs'[r][s] = jobs[r][s],
           exported' = exported, driver'.run = driver.run,
           driver'.at = "collect" => driver.at = "collect" /\ \A s \in driver'.collected :
                                        s \in driver.collected \/ jobs[driver.run][s].at = "done",
           driver \in [run : 0..ExtractRuns, at : {"idle", "collect", "drain"}, collected : SUBSET Shard],
           driver' \in [run : 0..ExtractRuns, at : {"idle", "collect", "drain"}, collected : SUBSET Shard]
    PROVE  /\ JobsKeep' /\ QuotasHeld' /\ NotBegun' /\ CollectedDone' /\ ExportIs'
<1>1. JobsKeep'
  <2> SUFFICES ASSUME NEW r \in ExtractRun, NEW s \in Shard PROVE JobKeeps(jobs'[r][s], s)
    BY DEF JobsKeep
  <2> QED
    BY DEF Moved, ExtractIndInv, JobsKeep
<1>2. QuotasHeld'
  <2>1. \A r \in ExtractRun : NewIn(r)' = NewIn(r) /\ CallsIn(r)' = CallsIn(r)
    <3> TAKE r \in ExtractRun
    <3>1. \A s \in Shard : jobs'[r][s].new = jobs[r][s].new /\ jobs'[r][s].calls = jobs[r][s].calls
      BY DEF Moved
    <3>2. NewIn(r)' = [s \in Shard |-> jobs'[r][s].new] /\ CallsIn(r)' = [s \in Shard |-> jobs'[r][s].calls]
      BY DEF NewIn, CallsIn
    <3> QED
      BY <3>1, <3>2 DEF NewIn, CallsIn
  <2> QED
    BY <2>1 DEF ExtractIndInv, QuotasHeld
<1>3. NotBegun'
  <2> SUFFICES ASSUME NEW r \in ExtractRun, r > driver'.run
               PROVE  exported'[r] = NoExport /\ \A s \in Shard : jobs'[r][s] = NoJob
    BY DEF NotBegun
  <2>1. exported[r] = NoExport /\ \A s \in Shard : jobs[r][s] = NoJob
    BY DEF ExtractIndInv, NotBegun
  <2>2. \A s \in Shard : jobs'[r][s] = jobs[r][s]
    OBVIOUS
  <2> QED
    BY <2>1, <2>2
<1>4. ASSUME NEW r \in ExtractRun, NEW s \in Shard, jobs[r][s].at = "done" PROVE jobs'[r][s] = jobs[r][s]
  BY <1>4 DEF Moved, Ended
<1>5. CollectedDone'
  <2> SUFFICES ASSUME driver'.at = "collect", NEW s \in driver'.collected
               PROVE  jobs'[driver'.run][s].at = "done"
    BY DEF CollectedDone
  <2>1. jobs[driver.run][s].at = "done"
    BY DEF ExtractIndInv, CollectedDone
  <2>2. driver.run \in ExtractRun /\ s \in Shard
    BY DEF ExtractIndInv, ExtractTypes
  <2> QED
    BY <1>4, <2>1, <2>2
<1>6. ExportIs'
  <2> SUFFICES ASSUME NEW r \in ExtractRun, exported'[r] # NoExport
               PROVE  /\ \A s \in Shard : jobs'[r][s].at = "done"
                      /\ exported'[r] = UNION {jobs'[r][s].memory : s \in Shard}
    BY DEF ExportIs
  <2>1. /\ \A s \in Shard : jobs[r][s].at = "done"
        /\ exported[r] = UNION {jobs[r][s].memory : s \in Shard}
    BY DEF ExtractIndInv, ExportIs
  <2>2. \A s \in Shard : jobs'[r][s] = jobs[r][s]
    BY <1>4, <2>1
  <2> QED
    BY <2>1, <2>2
<1> QED
  BY <1>1, <1>2, <1>3, <1>5, <1>6

\* A change of jobs that saves nothing, and starts nothing.
Quiet(a, b) ==
    \/ b = a
    \/ b.memory = a.memory /\ (b.at \in Busy => a.at \in Busy /\ ToSet(b.pending) \subseteq ToSet(a.pending))

\* The caches, and who saved what, are as they were.
LEMMA QuietKeeps ==
    ASSUME ExtractIndInv,
           \A r \in ExtractRun, s \in Shard : Quiet(jobs[r][s], jobs'[r][s]),
           shardKeys' = shardKeys, savedBy' = savedBy, shared' = shared
    PROVE  SaverRemembers' /\ OneWorker' /\ PaidOnce' /\ InShards'
<1>1. \A r \in ExtractRun, s \in Shard :
        /\ jobs'[r][s].memory = jobs[r][s].memory
        /\ jobs'[r][s].at \in Busy => jobs[r][s].at \in Busy /\ ToSet(jobs'[r][s].pending) \subseteq ToSet(jobs[r][s].pending)
  BY DEF Quiet
<1>2. SaverRemembers'
  <2> SUFFICES ASSUME NEW r \in ExtractRun, NEW k \in Text, r \in savedBy'[k]
               PROVE  k \in jobs'[r][ShardOf[k]].memory
    BY DEF SaverRemembers
  <2>1. ShardOf[k] \in Shard
    BY ShardFacts
  <2>2. k \in jobs[r][ShardOf[k]].memory
    BY DEF ExtractIndInv, SaverRemembers
  <2> QED
    BY <1>1, <2>1, <2>2
<1>3. OneWorker'
  <2> SUFFICES ASSUME NEW s \in Shard \ shared'
               PROVE  /\ \A q, r \in ExtractRun : jobs'[q][s].at \in Busy /\ jobs'[r][s].at \in Busy => q = r
                      /\ \A r \in ExtractRun :
                           /\ jobs'[r][s].memory \subseteq shardKeys'[s]
                           /\ jobs'[r][s].at \in Busy =>
                                /\ jobs'[r][s].memory = shardKeys'[s]
                                /\ ToSet(jobs'[r][s].pending) \cap shardKeys'[s] = {}
    BY DEF OneWorker
  <2>1. /\ \A q, r \in ExtractRun : jobs[q][s].at \in Busy /\ jobs[r][s].at \in Busy => q = r
        /\ \A r \in ExtractRun :
             /\ jobs[r][s].memory \subseteq shardKeys[s]
             /\ jobs[r][s].at \in Busy =>
                  jobs[r][s].memory = shardKeys[s] /\ ToSet(jobs[r][s].pending) \cap shardKeys[s] = {}
    BY DEF ExtractIndInv, OneWorker
  <2> QED
    BY <1>1, <2>1
<1>4. PaidOnce' /\ InShards'
  BY DEF ExtractIndInv, PaidOnce, InShards
<1> QED
  BY <1>2, <1>3, <1>4

\* One job is replaced.
LEMMA OneJob ==
    ASSUME ExtractTypes, NEW r \in ExtractRun, NEW s \in Shard, NEW b, SetJob(r, s, b), b \in JobType
    PROVE  /\ jobs' \in [ExtractRun -> [Shard -> JobType]] /\ jobs'[r][s] = b
           /\ \A q \in ExtractRun, t \in Shard : q # r \/ t # s => jobs'[q][t] = jobs[q][t]
<1>1. jobs \in [ExtractRun -> [Shard -> JobType]] /\ jobs' = [jobs EXCEPT ![r][s] = b]
  BY DEF ExtractTypes, SetJob
<1>2. jobs' \in [ExtractRun -> [Shard -> JobType]]
  BY <1>1
<1> QED
  BY <1>1, <1>2

\* The invariant holds before the first driver.
THEOREM ExtractStarts == ExtractInit => ExtractIndInv
<1> SUFFICES ASSUME ExtractInit PROVE ExtractIndInv
  OBVIOUS
<1>1. /\ shardKeys = [s \in Shard |-> {}] /\ driver = [run |-> 0, at |-> "idle", collected |-> {}]
      /\ stop = [r \in ExtractRun |-> FALSE] /\ jobs = [r \in ExtractRun |-> [s \in Shard |-> NoJob]]
      /\ exported = [r \in ExtractRun |-> NoExport] /\ savedBy = [k \in Text |-> {}] /\ shared = {}
  BY DEF ExtractInit
<1>2. \A r \in ExtractRun, s \in Shard : jobs[r][s] = NoJob
  BY <1>1
<1>3. ExtractTypes
  <2>1. jobs \in [ExtractRun -> [Shard -> JobType]]
    BY <1>1, NoJobFacts
  <2>2. 0 \in 0..ExtractRuns
    BY Bounds
  <2> QED
    BY <1>1, <2>1, <2>2 DEF ExtractTypes
<1>4. JobsKeep
  BY <1>2, NoJobKeeps DEF JobsKeep
<1>5. QuotasHeld
  <2> SUFFICES ASSUME NEW r \in ExtractRun
               PROVE  /\ SumFunctionOnSet(NewIn(r), Shard) <= MaxNew
                      /\ SumFunctionOnSet(CallsIn(r), Shard) <= MaxCalls
    BY DEF QuotasHeld
  <2>1. ASSUME NEW f, \A s \in Shard : f[s] = 0 PROVE SumFunctionOnSet(f, Shard) = 0
    <3>1. IsFiniteSet(Shard) /\ {} \in SUBSET Shard /\ 0 \in Nat
      BY ShardFacts
    <3>2. \A s \in Shard : f[s] = IF s \in {} THEN 0 ELSE 0
      BY <2>1
    <3>3. SumFunctionOnSet(f, Shard) = Cardinality({}) * 0
      BY <3>1, <3>2, SumCounts
    <3> QED
      BY <3>3, FS_EmptySet
  <2>2. \A s \in Shard : NewIn(r)[s] = 0 /\ CallsIn(r)[s] = 0
    BY <1>2, NoJobFacts DEF NewIn, CallsIn
  <2>3. SumFunctionOnSet(NewIn(r), Shard) = 0 /\ SumFunctionOnSet(CallsIn(r), Shard) = 0
    BY <2>1, <2>2
  <2> QED
    BY <2>3, Bounds
<1>6. NotBegun /\ CollectedDone /\ ExportIs
  BY <1>1, <1>2 DEF NotBegun, CollectedDone, ExportIs
<1>7. SaverRemembers
  BY <1>1 DEF SaverRemembers
<1>8. OneWorker
  BY <1>1, <1>2, NoJobFacts DEF OneWorker, Busy
<1>9. PaidOnce
  <2>1. \A k \in Text : savedBy[k] = {} /\ shardKeys[ShardOf[k]] = {}
    BY <1>1, ShardFacts
  <2> QED
    BY <2>1, FS_EmptySet DEF PaidOnce
<1> QED
  BY <1>1, <1>3, <1>4, <1>5, <1>6, <1>7, <1>8, <1>9 DEF ExtractIndInv, InShards

\* A sequence without repetitions, cut in two.
LEMMA SubSeqFacts ==
    ASSUME NEW S, NEW q \in Seq(S), Distinct(q), NEW m \in 0..Len(q)
    PROVE  /\ SubSeq(q, 1, m) \in Seq(S) /\ Len(SubSeq(q, 1, m)) = m /\ Distinct(SubSeq(q, 1, m))
           /\ ToSet(SubSeq(q, 1, m)) \subseteq ToSet(q)
           /\ SubSeq(q, m + 1, Len(q)) \in Seq(S) /\ Len(SubSeq(q, m + 1, Len(q))) = Len(q) - m
           /\ Distinct(SubSeq(q, m + 1, Len(q)))
           /\ ToSet(SubSeq(q, m + 1, Len(q))) \subseteq ToSet(q) \ ToSet(SubSeq(q, 1, m))
<1> DEFINE n == Len(q)
           a == SubSeq(q, 1, m)
           b == SubSeq(q, m + 1, n)
<1>1. n \in Nat /\ DOMAIN q = 1..n /\ m \in Nat /\ m <= n /\ \A i \in 1..n : q[i] \in S
  BY LenProperties, ElementOfSeq
<1>2. /\ a \in Seq(S) /\ Len(a) = m /\ DOMAIN a = 1..m /\ \A i \in 1..m : a[i] = q[i]
  BY <1>1
<1>3. /\ b \in Seq(S) /\ Len(b) = n - m /\ DOMAIN b = 1..n - m /\ \A i \in 1..n - m : b[i] = q[m + i]
  <2>1. b = [i \in 1..n - m |-> q[m + i]]
    BY <1>1
  <2>2. \A i \in 1..n - m : q[m + i] \in S
    <3> TAKE i \in 1..n - m
    <3>1. m + i \in 1..n
      BY <1>1
    <3> QED
      BY <1>1, <3>1
  <2>3. n - m \in Nat
    BY <1>1
  <2> HIDE DEF b, n
  <2> QED
    BY <2>1, <2>2, <2>3
<1> HIDE DEF a, b, n
<1>4. Distinct(a) /\ ToSet(a) \subseteq ToSet(q)
  <2>1. \A i \in 1..m : i \in 1..n
    BY <1>1
  <2> QED
    BY <1>1, <1>2, <2>1 DEF Distinct, ToSet
<1>5. \A i \in 1..n - m : m + i \in 1..n
  BY <1>1
<1>6. Distinct(b)
  <2> SUFFICES ASSUME NEW i \in 1..n - m, NEW j \in 1..n - m, b[i] = b[j] PROVE i = j
    BY <1>3 DEF Distinct
  <2>1. q[m + i] = q[m + j] /\ m + i \in DOMAIN q /\ m + j \in DOMAIN q
    BY <1>1, <1>3, <1>5
  <2>2. m + i = m + j
    BY <2>1 DEF Distinct
  <2> QED
    BY <1>1, <2>2
<1>7. ToSet(b) \subseteq ToSet(q) \ ToSet(a)
  <2> SUFFICES ASSUME NEW i \in 1..n - m PROVE b[i] \in ToSet(q) /\ b[i] \notin ToSet(a)
    BY <1>3 DEF ToSet
  <2>1. b[i] = q[m + i] /\ m + i \in 1..n
    BY <1>3, <1>5
  <2>2. ASSUME NEW j \in 1..m, a[j] = b[i] PROVE FALSE
    <3>1. j \in DOMAIN q /\ m + i \in DOMAIN q /\ q[j] = q[m + i]
      BY <1>1, <1>2, <2>1, <2>2
    <3>2. j = m + i
      BY <3>1 DEF Distinct
    <3> QED
      BY <1>1, <3>2
  <2> QED
    BY <1>1, <1>2, <2>1, <2>2 DEF ToSet
<1> QED
  BY <1>2, <1>3, <1>4, <1>6, <1>7 DEF a, b, n

\* A worker's step that saves nothing and starts nothing.
LEMMA QuietWorker ==
    ASSUME ExtractIndInv, NEW r \in ExtractRun, NEW s \in Shard, NEW b, SetJob(r, s, b),
           b \in JobType, jobs[r][s].at \in {"queued"} \cup Busy,
           Moved(jobs[r][s], b, s), Quiet(jobs[r][s], b),
           shardKeys' = shardKeys, driver' = driver, stop' = stop, exported' = exported,
           savedBy' = savedBy, shared' = shared
    PROVE  ExtractIndInv'
<1>0. ExtractTypes /\ NotBegun
  BY DEF ExtractIndInv
<1>1. /\ jobs' \in [ExtractRun -> [Shard -> JobType]] /\ jobs'[r][s] = b
      /\ \A q \in ExtractRun, t \in Shard : q # r \/ t # s => jobs'[q][t] = jobs[q][t]
  BY <1>0, OneJob
<1>2. ~(r > driver.run)
  BY <1>0, NoJobFacts DEF NotBegun, Busy
<1>3. /\ \A q \in ExtractRun, t \in Shard : Moved(jobs[q][t], jobs'[q][t], t)
      /\ \A q \in ExtractRun, t \in Shard : Quiet(jobs[q][t], jobs'[q][t])
      /\ \A q \in ExtractRun, t \in Shard : q > driver.run => jobs'[q][t] = jobs[q][t]
  BY <1>1, <1>2 DEF Moved, Quiet
<1>4. driver \in [run : 0..ExtractRuns, at : {"idle", "collect", "drain"}, collected : SUBSET Shard]
  BY <1>0 DEF ExtractTypes
<1>5. JobsKeep' /\ QuotasHeld' /\ NotBegun' /\ CollectedDone' /\ ExportIs'
  BY <1>1, <1>3, <1>4, MovedKeeps
<1>6. SaverRemembers' /\ OneWorker' /\ PaidOnce' /\ InShards'
  BY <1>3, QuietKeeps
<1>7. ExtractTypes'
  BY <1>0, <1>1 DEF ExtractTypes
<1> QED
  BY <1>5, <1>6, <1>7 DEF ExtractIndInv

\* Changing only where a job is.
LEMMA AtOnly ==
    ASSUME NEW job \in JobType, NEW s, JobKeeps(job, s), NEW at \in Ended \cup {"next"}
    PROVE  /\ [job EXCEPT !.at = at] \in JobType /\ [job EXCEPT !.at = at].at = at
           /\ JobKeeps([job EXCEPT !.at = at], s)
           /\ job.at \notin Ended => Moved(job, [job EXCEPT !.at = at], s)
           /\ at \in Ended => Quiet(job, [job EXCEPT !.at = at])
<1> DEFINE b == [job EXCEPT !.at = at]
<1>1. /\ b \in JobType /\ b.at = at /\ b.new = job.new /\ b.calls = job.calls /\ b.memory = job.memory
      /\ b.pending = job.pending /\ b.used = job.used /\ b.done = job.done
  <2>1. at \in {"none", "queued"} \cup Busy \cup Ended
    BY DEF Busy
  <2> QED
    BY <2>1 DEF JobType
<1> HIDE DEF b
<1>2. JobKeeps(b, s)
  BY <1>1 DEF JobKeeps, Ended
<1>3. at \in Ended => b.at \notin Busy
  BY <1>1 DEF Ended, Busy
<1>4. (job.at \notin Ended => Moved(job, b, s)) /\ (at \in Ended => Quiet(job, b))
  BY <1>1, <1>2, <1>3 DEF Moved, Quiet
<1> QED
  BY <1>1, <1>2, <1>4 DEF b

\* The job of a run and a shard.
LEMMA JobOf ==
    ASSUME ExtractIndInv, NEW r \in ExtractRun, NEW s \in Shard
    PROVE  jobs[r][s] \in JobType /\ JobKeeps(jobs[r][s], s)
BY DEF ExtractIndInv, ExtractTypes, JobsKeep

\* A worker takes its next batch, or ends.
LEMMA NextKeeps ==
    ASSUME ExtractIndInv, NEW r \in ExtractRun, NEW s \in Shard, NextBatch(r, s)
    PROVE  ExtractIndInv'
<1> DEFINE job == jobs[r][s]
<1>1. /\ job.at = "next"
      /\ shardKeys' = shardKeys /\ driver' = driver /\ stop' = stop /\ exported' = exported
      /\ savedBy' = savedBy /\ shared' = shared
  BY DEF NextBatch
<1>2. job \in JobType /\ JobKeeps(job, s)
  BY JobOf
<1>3. job.at \notin Ended /\ job.at \in {"queued"} \cup Busy
  BY <1>1 DEF Ended, Busy
<1>4. ASSUME NEW at \in Ended, SetJob(r, s, [job EXCEPT !.at = at]) PROVE ExtractIndInv'
  <2>1. /\ [job EXCEPT !.at = at] \in JobType /\ Moved(job, [job EXCEPT !.at = at], s)
        /\ Quiet(job, [job EXCEPT !.at = at])
    BY <1>2, <1>3, AtOnly
  <2> QED
    BY <1>1, <1>3, <1>4, <2>1, QuietWorker
<1>5. CASE /\ ~(job.used >= job.calls)
           /\ SetJob(r, s, [job EXCEPT !.at = "call", !.batches = @ + 1, !.retried = FALSE])
  <2> DEFINE b == [job EXCEPT !.at = "call", !.batches = @ + 1, !.retried = FALSE]
  <2>0. job.batches + 1 \in Nat /\ "call" \in Busy /\ job.used < job.calls
    <3>1. job.batches \in Nat /\ job.used \in Nat /\ job.calls \in Nat
      BY <1>2, JobFields
    <3> QED
      BY <1>5, <3>1 DEF Busy
  <2>1. /\ b \in JobType /\ b.at = "call" /\ b.new = job.new /\ b.calls = job.calls
        /\ b.memory = job.memory /\ b.pending = job.pending /\ b.used = job.used /\ b.done = job.done
    BY <1>2, <2>0 DEF JobType
  <2>2. SetJob(r, s, b)
    BY <1>5
  <2> HIDE DEF b
  <2>3. JobKeeps(b, s)
    BY <1>2, <2>0, <2>1 DEF JobKeeps
  <2>4. Moved(job, b, s) /\ Quiet(job, b)
    BY <1>1, <1>3, <2>1, <2>3 DEF Moved, Quiet, Busy
  <2> QED
    BY <1>1, <1>3, <2>1, <2>2, <2>4, QuietWorker
<1>6. \/ SetJob(r, s, [job EXCEPT !.at = "done"]) \/ SetJob(r, s, [job EXCEPT !.at = "error"])
      \/ /\ ~(job.used >= job.calls)
         /\ SetJob(r, s, [job EXCEPT !.at = "call", !.batches = @ + 1, !.retried = FALSE])
  BY DEF NextBatch
<1>7. "done" \in Ended /\ "error" \in Ended
  BY DEF Ended
<1> QED
  BY <1>4, <1>5, <1>6, <1>7

\* A provider call, and its retry.
LEMMA TranslateKeeps ==
    ASSUME ExtractIndInv, NEW r \in ExtractRun, NEW s \in Shard, Translate(r, s)
    PROVE  ExtractIndInv'
<1> DEFINE job == jobs[r][s]
<1>1. /\ job.at = "call"
      /\ shardKeys' = shardKeys /\ driver' = driver /\ stop' = stop /\ exported' = exported
      /\ savedBy' = savedBy /\ shared' = shared
  BY DEF Translate
<1>2. job \in JobType /\ JobKeeps(job, s)
  BY JobOf
<1>3. job.used < job.calls /\ job.used \in Nat /\ job.calls \in Nat
  BY <1>1, <1>2, JobFields DEF JobKeeps
<1>4. PICK at \in {"save", "call", "error"} :
        SetJob(r, s, [job EXCEPT !.used = @ + 1, !.retried = TRUE, !.at = at])
        /\ (at = "call" => job.used + 1 < job.calls)
  BY DEF Translate
<1> DEFINE b == [job EXCEPT !.used = @ + 1, !.retried = TRUE, !.at = at]
<1>5. /\ b \in JobType /\ b.at = at /\ b.new = job.new /\ b.calls = job.calls
      /\ b.memory = job.memory /\ b.pending = job.pending /\ b.used = job.used + 1 /\ b.done = job.done
  <2>1. at \in {"none", "queued"} \cup Busy \cup Ended
    BY DEF Busy, Ended
  <2>2. job.used + 1 \in Nat
    BY <1>3
  <2> QED
    BY <1>2, <2>1, <2>2 DEF JobType
<1>6. SetJob(r, s, b)
  BY <1>4
<1> HIDE DEF b
<1>7. JobKeeps(b, s)
  <2>1. b.used <= b.calls /\ (b.at = "call" => b.used < b.calls)
    BY <1>3, <1>4, <1>5
  <2>2. b.at \notin {"queued", "save empty"}
    BY <1>5
  <2> QED
    BY <1>2, <1>5, <2>1, <2>2 DEF JobKeeps
<1>8. Moved(job, b, s) /\ Quiet(job, b) /\ job.at \in {"queued"} \cup Busy
  BY <1>1, <1>5, <1>7 DEF Moved, Quiet, Busy, Ended
<1> QED
  BY <1>1, <1>5, <1>6, <1>8, QuietWorker

\* A worker begins, with the cache of its shard as it finds it.
LEMMA BeginKeeps ==
    ASSUME ExtractIndInv, NEW r \in ExtractRun, NEW s \in Shard, BeginJob(r, s)
    PROVE  ExtractIndInv'
<1> DEFINE job == jobs[r][s]
<1>1. /\ job.at = "queued"
      /\ shardKeys' = shardKeys /\ driver' = driver /\ stop' = stop /\ exported' = exported
      /\ savedBy' = savedBy
  BY DEF BeginJob
<1>2. job \in JobType /\ JobKeeps(job, s)
  BY JobOf
<1>3. job.at \notin Ended /\ job.at \in {"queued"} \cup Busy /\ job.at \notin Busy
  BY <1>1 DEF Ended, Busy
<1>4. CASE stop[r]
  <2>1. SetJob(r, s, [job EXCEPT !.at = "cancelled"]) /\ shared' = shared
    BY <1>4 DEF BeginJob, JobAt
  <2>2. "cancelled" \in Ended
    BY DEF Ended
  <2>3. /\ [job EXCEPT !.at = "cancelled"] \in JobType /\ Moved(job, [job EXCEPT !.at = "cancelled"], s)
        /\ Quiet(job, [job EXCEPT !.at = "cancelled"])
    BY <1>2, <1>3, <2>2, AtOnly
  <2> QED
    BY <1>1, <1>3, <2>1, <2>3, QuietWorker
<1>5. CASE ~stop[r]
  <2> DEFINE missing == Ascending(Group(s) \ shardKeys[s])
             m == Min({job.new, Len(missing)})
             front == SubSeq(missing, 1, m)
             b == [job EXCEPT !.at = "save empty", !.memory = shardKeys[s], !.pending = front]
             others == \E q \in ExtractRun \ {r} : jobs[q][s].at \in Busy
  <2>1. /\ SetJob(r, s, b) /\ shared' = IF others THEN shared \cup {s} ELSE shared
    BY <1>5 DEF BeginJob
  <2>2. /\ missing \in Seq(Group(s) \ shardKeys[s]) /\ Distinct(missing) /\ Len(missing) \in Nat
    <3>1. IsFiniteSet(Group(s) \ shardKeys[s]) /\ Group(s) \ shardKeys[s] \in SUBSET Int
      BY ShardFacts
    <3> QED
      BY <3>1, AscendingIs, LenProperties
  <2>3. m \in Nat /\ m <= job.new /\ m <= Len(missing)
    <3>1. job.new \in Nat
      BY <1>2, JobFields
    <3> HIDE DEF missing
    <3> QED
      BY <2>2, <3>1, Smallest2
  <2> HIDE DEF missing, m
  <2>4. front \in Seq(Group(s) \ shardKeys[s]) /\ Len(front) = m /\ Distinct(front)
    <3>1. m \in 0..Len(missing)
      BY <2>2, <2>3
    <3> HIDE DEF front
    <3>2. front = SubSeq(missing, 1, m)
      BY DEF front
    <3> QED
      BY <2>2, <3>1, <3>2, SubSeqFacts
  <2>5. ToSet(front) \subseteq Group(s) \ shardKeys[s]
    BY <2>4, DistinctCount
  <2> HIDE DEF front
  <2>6. shardKeys[s] \in SUBSET Text /\ shardKeys[s] \subseteq Group(s)
    BY DEF ExtractIndInv, ExtractTypes, InShards
  <2>7. front \in Seq(Text)
    <3>1. Group(s) \ shardKeys[s] \subseteq Text
      BY ShardFacts
    <3> QED
      BY <2>4, <3>1
  <2>8. /\ b \in JobType /\ b.at = "save empty" /\ b.new = job.new /\ b.calls = job.calls
        /\ b.memory = shardKeys[s] /\ b.pending = front /\ b.used = job.used /\ b.done = job.done
    <3>1. "save empty" \in {"none", "queued"} \cup Busy \cup Ended
      BY DEF Busy
    <3> QED
      BY <1>2, <2>6, <2>7, <3>1 DEF JobType
  <2> HIDE DEF b
  <2>9. job.memory = {} /\ job.done = 0
    BY <1>1, <1>2 DEF JobKeeps
  <2>10. JobKeeps(b, s)
    <3>1. 0 + m <= job.new
      BY <2>3
    <3> QED
      BY <1>2, <2>4, <2>5, <2>6, <2>8, <2>9, <3>1 DEF JobKeeps
  <2>11. Moved(job, b, s)
    BY <1>3, <2>8, <2>9, <2>10 DEF Moved
  <2>12. ExtractTypes /\ NotBegun
    BY DEF ExtractIndInv
  <2>13. /\ jobs' \in [ExtractRun -> [Shard -> JobType]] /\ jobs'[r][s] = b
         /\ \A q \in ExtractRun, t \in Shard : q # r \/ t # s => jobs'[q][t] = jobs[q][t]
    BY <2>1, <2>8, <2>12, OneJob
  <2>14. ~(r > driver.run)
    BY <1>1, <2>12, NoJobFacts DEF NotBegun
  <2>15. /\ \A q \in ExtractRun, t \in Shard : Moved(jobs[q][t], jobs'[q][t], t)
         /\ \A q \in ExtractRun, t \in Shard : q > driver.run => jobs'[q][t] = jobs[q][t]
    BY <2>11, <2>13, <2>14 DEF Moved
  <2>16. driver \in [run : 0..ExtractRuns, at : {"idle", "collect", "drain"}, collected : SUBSET Shard]
    BY <2>12 DEF ExtractTypes
  <2>17. JobsKeep' /\ QuotasHeld' /\ NotBegun' /\ CollectedDone' /\ ExportIs'
    BY <1>1, <2>13, <2>15, <2>16, MovedKeeps
  <2>18. ExtractTypes'
    <3>1. shared' \in SUBSET Shard
      BY <2>1, <2>12 DEF ExtractTypes
    <3> QED
      BY <1>1, <2>12, <2>13, <3>1 DEF ExtractTypes
  <2>19. SaverRemembers'
    <3> SUFFICES ASSUME NEW q \in ExtractRun, NEW k \in Text, q \in savedBy'[k]
                 PROVE  k \in jobs'[q][ShardOf[k]].memory
      BY DEF SaverRemembers
    <3>1. k \in jobs[q][ShardOf[k]].memory /\ ShardOf[k] \in Shard
      BY <1>1, ShardFacts DEF ExtractIndInv, SaverRemembers
    <3>2. ~(q = r /\ ShardOf[k] = s)
      BY <2>9, <3>1
    <3> QED
      BY <2>13, <3>1, <3>2
  <2>20. OneWorker'
    <3> SUFFICES ASSUME NEW t \in Shard \ shared'
                 PROVE  /\ \A q, p \in ExtractRun : jobs'[q][t].at \in Busy /\ jobs'[p][t].at \in Busy => q = p
                        /\ \A q \in ExtractRun :
                             /\ jobs'[q][t].memory \subseteq shardKeys'[t]
                             /\ jobs'[q][t].at \in Busy =>
                                  /\ jobs'[q][t].memory = shardKeys'[t]
                                  /\ ToSet(jobs'[q][t].pending) \cap shardKeys'[t] = {}
      BY DEF OneWorker
    <3>1. t \notin shared
      BY <2>1
    <3>2. /\ \A q, p \in ExtractRun : jobs[q][t].at \in Busy /\ jobs[p][t].at \in Busy => q = p
          /\ \A q \in ExtractRun :
               /\ jobs[q][t].memory \subseteq shardKeys[t]
               /\ jobs[q][t].at \in Busy =>
                    jobs[q][t].memory = shardKeys[t] /\ ToSet(jobs[q][t].pending) \cap shardKeys[t] = {}
      BY <3>1 DEF ExtractIndInv, OneWorker
    <3>3. CASE t # s
      BY <1>1, <2>13, <3>2, <3>3
    <3>4. CASE t = s
      <4>1. \A q \in ExtractRun \ {r} : jobs[q][s].at \notin Busy
        BY <2>1, <3>4
      <4>2. \A q \in ExtractRun \ {r} : jobs'[q][s] = jobs[q][s]
        BY <2>13
      <4>3. /\ jobs'[r][s].memory = shardKeys[s] /\ ToSet(jobs'[r][s].pending) \cap shardKeys[s] = {}
        BY <2>5, <2>8, <2>13
      <4> QED
        BY <1>1, <3>2, <3>4, <4>1, <4>2, <4>3
    <3> QED
      BY <3>3, <3>4
  <2>21. PaidOnce' /\ InShards'
    <3>1. shared \subseteq shared'
      BY <2>1
    <3> QED
      BY <1>1, <3>1 DEF ExtractIndInv, PaidOnce, InShards
  <2> QED
    BY <2>17, <2>18, <2>19, <2>20, <2>21 DEF ExtractIndInv
<1> QED
  BY <1>4, <1>5

\* What a save keeps: the keys are the worker's, and new to the cache unless
\* two workers have the shard.
LEMMA SavesKeep ==
    ASSUME ExtractIndInv, NEW r \in ExtractRun, NEW s \in Shard, NEW b, SetJob(r, s, b),
           b \in JobType, jobs[r][s].at \in Busy,
           NEW keys, keys \subseteq ToSet(jobs[r][s].pending), Saves(r, s, keys),
           JobKeeps(b, s), b.new = jobs[r][s].new, b.calls = jobs[r][s].calls,
           b.memory = jobs[r][s].memory \cup keys,
           ToSet(b.pending) \subseteq ToSet(jobs[r][s].pending) \ keys,
           driver' = driver, stop' = stop, exported' = exported, shared' = shared
    PROVE  ExtractIndInv'
<1> DEFINE job == jobs[r][s]
<1>0. ExtractTypes /\ NotBegun
  BY DEF ExtractIndInv
<1>1. /\ jobs' \in [ExtractRun -> [Shard -> JobType]] /\ jobs'[r][s] = b
      /\ \A q \in ExtractRun, t \in Shard : q # r \/ t # s => jobs'[q][t] = jobs[q][t]
  BY <1>0, OneJob
<1>2. /\ shardKeys' = [shardKeys EXCEPT ![s] = job.memory \cup keys]
      /\ savedBy' = [k \in Text |-> IF k \in keys THEN savedBy[k] \cup {r} ELSE savedBy[k]]
  BY DEF Saves
<1>3. job \in JobType /\ JobKeeps(job, s) /\ job.memory \in SUBSET Text
  BY JobOf, JobFields
<1>4. /\ ToSet(job.pending) \subseteq Group(s) /\ job.memory \subseteq Group(s)
      /\ keys \subseteq Group(s) /\ keys \subseteq Text
  <2>1. Group(s) \subseteq Text
    BY ShardFacts
  <2> QED
    BY <1>3, <2>1 DEF JobKeeps
<1>5. \A k \in keys : k \in Text /\ ShardOf[k] = s
  BY <1>4 DEF Group
<1>6. Moved(job, b, s)
  BY DEF Moved, Busy, Ended
<1>7. ~(r > driver.run)
  BY <1>0, NoJobFacts DEF NotBegun, Busy
<1>8. /\ \A q \in ExtractRun, t \in Shard : Moved(jobs[q][t], jobs'[q][t], t)
      /\ \A q \in ExtractRun, t \in Shard : q > driver.run => jobs'[q][t] = jobs[q][t]
  BY <1>1, <1>6, <1>7 DEF Moved
<1>9. driver \in [run : 0..ExtractRuns, at : {"idle", "collect", "drain"}, collected : SUBSET Shard]
  BY <1>0 DEF ExtractTypes
<1>10. JobsKeep' /\ QuotasHeld' /\ NotBegun' /\ CollectedDone' /\ ExportIs'
  BY <1>1, <1>8, <1>9, MovedKeeps
<1>11. /\ shardKeys \in [Shard -> SUBSET Text] /\ savedBy \in [Text -> SUBSET ExtractRun]
  BY <1>0 DEF ExtractTypes
<1>12. /\ shardKeys' \in [Shard -> SUBSET Text] /\ shardKeys'[s] = job.memory \cup keys
       /\ \A t \in Shard \ {s} : shardKeys'[t] = shardKeys[t]
       /\ savedBy' \in [Text -> SUBSET ExtractRun]
  BY <1>2, <1>3, <1>4, <1>11
<1>13. ExtractTypes'
  BY <1>0, <1>1, <1>12 DEF ExtractTypes
<1> HIDE DEF job
<1>14. SaverRemembers'
  <2> SUFFICES ASSUME NEW q \in ExtractRun, NEW k \in Text, q \in savedBy'[k]
               PROVE  k \in jobs'[q][ShardOf[k]].memory
    BY DEF SaverRemembers
  <2>0. ShardOf[k] \in Shard
    BY ShardFacts
  <2>1. CASE q \in savedBy[k]
    <3>1. k \in jobs[q][ShardOf[k]].memory
      BY <2>1 DEF ExtractIndInv, SaverRemembers
    <3> QED
      BY <1>1, <2>0, <3>1 DEF job
  <2>2. CASE q \notin savedBy[k]
    <3>1. k \in keys /\ q = r
      BY <1>2, <2>2
    <3> QED
      BY <1>1, <1>5, <3>1
  <2> QED
    BY <2>1, <2>2
<1>15. s \notin shared => /\ \A q \in ExtractRun \ {r} : jobs[q][s].at \notin Busy
                          /\ job.memory = shardKeys[s] /\ ToSet(job.pending) \cap shardKeys[s] = {}
                          /\ \A q \in ExtractRun : jobs[q][s].memory \subseteq shardKeys[s]
  BY DEF ExtractIndInv, OneWorker, job
<1>16. OneWorker'
  <2> SUFFICES ASSUME NEW t \in Shard \ shared'
               PROVE  /\ \A q, p \in ExtractRun : jobs'[q][t].at \in Busy /\ jobs'[p][t].at \in Busy => q = p
                      /\ \A q \in ExtractRun :
                           /\ jobs'[q][t].memory \subseteq shardKeys'[t]
                           /\ jobs'[q][t].at \in Busy =>
                                /\ jobs'[q][t].memory = shardKeys'[t]
                                /\ ToSet(jobs'[q][t].pending) \cap shardKeys'[t] = {}
    BY DEF OneWorker
  <2>1. /\ \A q, p \in ExtractRun : jobs[q][t].at \in Busy /\ jobs[p][t].at \in Busy => q = p
        /\ \A q \in ExtractRun :
             /\ jobs[q][t].memory \subseteq shardKeys[t]
             /\ jobs[q][t].at \in Busy =>
                  jobs[q][t].memory = shardKeys[t] /\ ToSet(jobs[q][t].pending) \cap shardKeys[t] = {}
    BY DEF ExtractIndInv, OneWorker
  <2>2. CASE t # s
    BY <1>1, <1>12, <2>1, <2>2
  <2>3. CASE t = s
    <3>1. \A q \in ExtractRun \ {r} : jobs'[q][s] = jobs[q][s] /\ jobs[q][s].at \notin Busy
      BY <1>1, <1>15, <2>3
    <3>2. shardKeys'[s] = shardKeys[s] \cup keys
      BY <1>12, <1>15, <2>3
    <3>3. jobs'[r][s].memory = shardKeys'[s] /\ ToSet(jobs'[r][s].pending) \cap shardKeys'[s] = {}
      BY <1>1, <1>12, <1>15, <2>3, <3>2 DEF job
    <3>4. \A q \in ExtractRun \ {r} : jobs'[q][s].memory \subseteq shardKeys'[s]
      BY <1>15, <2>3, <3>1, <3>2
    <3> QED
      BY <2>3, <3>1, <3>3, <3>4
  <2> QED
    BY <2>2, <2>3
<1>17. PaidOnce'
  <2> SUFFICES ASSUME NEW k \in Text, ShardOf[k] \notin shared'
               PROVE  /\ Cardinality(savedBy'[k]) <= 1
                      /\ savedBy'[k] # {} <=> k \in shardKeys'[ShardOf[k]]
    BY DEF PaidOnce
  <2>0. ShardOf[k] \in Shard
    BY ShardFacts
  <2>1. /\ Cardinality(savedBy[k]) <= 1
        /\ savedBy[k] # {} <=> k \in shardKeys[ShardOf[k]]
    BY DEF ExtractIndInv, PaidOnce
  <2>2. CASE k \in keys
    <3>1. ShardOf[k] = s /\ s \notin shared
      BY <1>5, <2>2
    <3>2. k \notin shardKeys[s] /\ k \in shardKeys'[s]
      BY <1>12, <1>15, <2>2, <3>1 DEF job
    <3>3. savedBy'[k] = {r}
      BY <1>2, <2>1, <2>2, <3>1, <3>2
    <3>4. Cardinality({r}) = 1
      BY FS_Singleton
    <3> QED
      BY <3>1, <3>2, <3>3, <3>4
  <2>3. CASE k \notin keys
    <3>1. savedBy'[k] = savedBy[k]
      BY <1>2, <2>3
    <3>2. k \in shardKeys'[ShardOf[k]] <=> k \in shardKeys[ShardOf[k]]
      BY <1>12, <1>15, <2>0, <2>3
    <3> QED
      BY <2>1, <3>1, <3>2
  <2> QED
    BY <2>2, <2>3
<1>18. InShards'
  BY <1>4, <1>12 DEF ExtractIndInv, InShards, job
<1> QED
  BY <1>10, <1>13, <1>14, <1>16, <1>17, <1>18 DEF ExtractIndInv

\* What a worker leaves out is not counted twice.
LEMMA Parts ==
    ASSUME NEW q \in Seq(Text), Distinct(q), NEW T
    PROVE  /\ ToSet(q) \subseteq Text
           /\ Cardinality(ToSet(q) \cap T) \in Nat
           /\ Ascending(ToSet(q) \ T) \in Seq(Text) /\ Distinct(Ascending(ToSet(q) \ T))
           /\ ToSet(Ascending(ToSet(q) \ T)) \subseteq ToSet(q) \ T
           /\ Cardinality(ToSet(q) \cap T) + Len(Ascending(ToSet(q) \ T)) = Len(q)
<1> DEFINE S == ToSet(q)
<1>1. IsFiniteSet(S) /\ Cardinality(S) = Len(q) /\ S \subseteq Text
  BY DistinctCount
<1> HIDE DEF S
<1>2. IsFiniteSet(S \ T) /\ IsFiniteSet(S \cap T)
  BY <1>1, FS_Subset
<1>3. S \ T \in SUBSET Int
  <2>1. Text \in SUBSET Int
    BY ShardFacts, ExtractionAssumption
  <2> QED
    BY <1>1, <2>1
<1>4. /\ Ascending(S \ T) \in Seq(S \ T) /\ Len(Ascending(S \ T)) = Cardinality(S \ T)
      /\ Distinct(Ascending(S \ T))
  BY <1>2, <1>3, AscendingIs
<1>5. ToSet(Ascending(S \ T)) \subseteq S \ T
  BY <1>4, DistinctCount
<1>6. Ascending(S \ T) \in Seq(Text)
  <2>1. S \ T \subseteq Text
    BY <1>1
  <2> QED
    BY <1>4, <2>1
<1>7. Cardinality(S \cap T) + Cardinality(S \ T) = Cardinality(S)
  <2> DEFINE A == S \cap T
             B == S \ T
  <2>1. S = A \cup B /\ A \cap B = {}
    OBVIOUS
  <2>2. IsFiniteSet(A) /\ IsFiniteSet(B)
    BY <1>2
  <2> HIDE DEF A, B
  <2>3. Cardinality(A \cup B) = Cardinality(A) + Cardinality(B) - Cardinality(A \cap B)
    BY <2>2, FS_Union
  <2>4. Cardinality(A) \in Nat /\ Cardinality(B) \in Nat
    BY <2>2, FS_CardinalityType
  <2>5. Cardinality(A \cap B) = 0
    BY <2>1, FS_EmptySet
  <2>6. Cardinality(S) = Cardinality(A \cup B)
    BY <2>1
  <2>7. Cardinality(A) + Cardinality(B) = Cardinality(S)
    BY <2>3, <2>4, <2>5, <2>6
  <2> QED
    BY <2>7 DEF A, B
<1>8. Cardinality(S \cap T) \in Nat
  BY <1>2, FS_CardinalityType
<1> QED
  BY <1>1, <1>4, <1>5, <1>6, <1>7, <1>8 DEF S

\* Articles without text are saved.
LEMMA SaveEmptyKeeps ==
    ASSUME ExtractIndInv, NEW r \in ExtractRun, NEW s \in Shard, SaveEmpty(r, s)
    PROVE  ExtractIndInv'
<1> DEFINE job == jobs[r][s]
           empty == ToSet(job.pending) \cap EmptyText
           rest == Ascending(ToSet(job.pending) \ EmptyText)
           b == [job EXCEPT !.at = "next", !.memory = @ \cup empty, !.done = Cardinality(empty),
                            !.pending = rest]
<1>1. /\ job.at = "save empty" /\ SetJob(r, s, b)
      /\ driver' = driver /\ stop' = stop /\ exported' = exported /\ shared' = shared
      /\ IF empty = {} THEN shardKeys' = shardKeys /\ savedBy' = savedBy ELSE Saves(r, s, empty)
  BY DEF SaveEmpty
<1>2. job \in JobType /\ JobKeeps(job, s)
  BY JobOf
<1>3. job.pending \in Seq(Text) /\ Distinct(job.pending) /\ job.memory \in SUBSET Text
  BY <1>2, JobFields DEF JobKeeps
<1>4. /\ Cardinality(empty) \in Nat /\ rest \in Seq(Text) /\ Distinct(rest)
      /\ ToSet(rest) \subseteq ToSet(job.pending) \ EmptyText
      /\ Cardinality(empty) + Len(rest) = Len(job.pending) /\ empty \subseteq Text
      /\ empty \subseteq ToSet(job.pending) /\ ToSet(rest) \subseteq ToSet(job.pending) \ empty
  BY <1>3, Parts
<1> HIDE DEF empty, rest
<1>5. /\ b \in JobType /\ b.at = "next" /\ b.new = job.new /\ b.calls = job.calls
      /\ b.memory = job.memory \cup empty /\ b.pending = rest /\ b.used = job.used
      /\ b.done = Cardinality(empty)
  <2>1. "next" \in {"none", "queued"} \cup Busy \cup Ended
    BY DEF Busy
  <2> QED
    BY <1>2, <1>3, <1>4, <2>1 DEF JobType
<1> HIDE DEF b
<1>6. JobKeeps(b, s)
  <2>1. b.done + Len(b.pending) <= b.new
    <3>1. job.done = 0 /\ job.done + Len(job.pending) <= job.new
      BY <1>1, <1>2 DEF JobKeeps
    <3>2. Len(job.pending) \in Nat /\ job.new \in Nat
      BY <1>2, JobFields, LenProperties
    <3> QED
      BY <1>4, <1>5, <3>1, <3>2
  <2>2. b.memory \subseteq Group(s) /\ ToSet(b.pending) \subseteq Group(s)
    BY <1>2, <1>4, <1>5 DEF JobKeeps
  <2> QED
    BY <1>2, <1>4, <1>5, <2>1, <2>2 DEF JobKeeps
<1>7. job.at \in Busy /\ job.at \in {"queued"} \cup Busy
  BY <1>1 DEF Busy
<1>8. CASE empty = {}
  <2>1. Moved(job, b, s) /\ Quiet(job, b)
    BY <1>1, <1>4, <1>5, <1>6, <1>7, <1>8 DEF Moved, Quiet, Ended
  <2> QED
    BY <1>1, <1>5, <1>7, <1>8, <2>1, QuietWorker
<1>9. CASE empty # {}
  BY <1>1, <1>4, <1>5, <1>6, <1>7, <1>9, SavesKeep
<1> QED
  BY <1>8, <1>9

\* A batch is saved.
LEMMA SaveBatchKeeps ==
    ASSUME ExtractIndInv, NEW r \in ExtractRun, NEW s \in Shard, SaveBatch(r, s)
    PROVE  ExtractIndInv'
<1> DEFINE job == jobs[r][s]
           m == Min({BatchSize, Len(job.pending)})
           keys == ToSet(Batch(job))
           rest == SubSeq(job.pending, m + 1, Len(job.pending))
           at == IF stop[r] THEN "error" ELSE "next"
           b == [job EXCEPT !.at = at, !.memory = @ \cup keys, !.done = @ + Cardinality(keys),
                            !.pending = rest]
<1>1. job \in JobType /\ JobKeeps(job, s)
  BY JobOf
<1>2. /\ job.pending \in Seq(Text) /\ Distinct(job.pending) /\ job.memory \in SUBSET Text
      /\ Len(job.pending) \in Nat /\ job.done \in Nat /\ job.new \in Nat
  BY <1>1, JobFields, LenProperties DEF JobKeeps
<1>3. m \in 0..Len(job.pending)
  BY <1>2, Bounds, Smallest2
<1>4. Batch(job) = SubSeq(job.pending, 1, m)
  BY DEF Batch
<1> HIDE DEF m
<1>5. /\ Batch(job) \in Seq(Text) /\ Len(Batch(job)) = m /\ Distinct(Batch(job))
      /\ keys \subseteq ToSet(job.pending)
      /\ rest \in Seq(Text) /\ Len(rest) = Len(job.pending) - m /\ Distinct(rest)
      /\ ToSet(rest) \subseteq ToSet(job.pending) \ keys
  BY <1>2, <1>3, <1>4, SubSeqFacts
<1>6. Cardinality(keys) = m /\ keys \subseteq Text
  BY <1>5, DistinctCount
<1> HIDE DEF keys
<1>7. /\ job.at = "save" /\ Saves(r, s, keys) /\ SetJob(r, s, b)
      /\ driver' = driver /\ stop' = stop /\ exported' = exported /\ shared' = shared
  BY <1>6 DEF SaveBatch, keys
<1> HIDE DEF rest
<1>8. /\ b \in JobType /\ b.at = at /\ b.new = job.new /\ b.calls = job.calls
      /\ b.memory = job.memory \cup keys /\ b.pending = rest /\ b.used = job.used
      /\ b.done = job.done + m
  <2>1. at \in {"none", "queued"} \cup Busy \cup Ended
    BY DEF Busy, Ended
  <2>2. job.done + Cardinality(keys) \in Nat
    BY <1>2, <1>3, <1>6
  <2> HIDE DEF at
  <2> QED
    BY <1>1, <1>2, <1>5, <1>6, <2>1, <2>2 DEF JobType
<1>9. b.at \notin {"queued", "save empty", "call"}
  BY <1>8
<1> HIDE DEF b, at
<1>10. JobKeeps(b, s)
  <2>1. b.done + Len(b.pending) <= b.new
    <3>1. job.done + Len(job.pending) <= job.new
      BY <1>1 DEF JobKeeps
    <3>2. (job.done + m) + (Len(job.pending) - m) = job.done + Len(job.pending)
      BY <1>2, <1>3
    <3> QED
      BY <1>5, <1>8, <3>1, <3>2
  <2>2. b.memory \subseteq Group(s) /\ ToSet(b.pending) \subseteq Group(s)
    BY <1>1, <1>5, <1>8 DEF JobKeeps
  <2> QED
    BY <1>1, <1>5, <1>8, <1>9, <2>1, <2>2 DEF JobKeeps
<1>11. job.at \in Busy
  BY <1>7 DEF Busy
<1> QED
  BY <1>5, <1>7, <1>8, <1>10, <1>11, SavesKeep

\* Everything but where each job is stays as it is.
LEMMA WorldKeeps ==
    ASSUME ExtractIndInv, jobs' \in [ExtractRun -> [Shard -> JobType]],
           \A r \in ExtractRun, s \in Shard :
             \/ jobs'[r][s] = jobs[r][s]
             \/ /\ r = driver.run
                /\ Moved(jobs[r][s], jobs'[r][s], s) /\ Quiet(jobs[r][s], jobs'[r][s]),
           driver' \in [run : 0..ExtractRuns, at : {"idle", "collect", "drain"}, collected : SUBSET Shard],
           driver'.run = driver.run, driver'.at # "idle" => driver.at # "idle",
           driver'.at = "collect" => driver.at = "collect" /\ \A s \in driver'.collected :
                                        s \in driver.collected \/ jobs[driver.run][s].at = "done",
           stop' \in [ExtractRun -> BOOLEAN],
           shardKeys' = shardKeys, exported' = exported, savedBy' = savedBy, shared' = shared
    PROVE  ExtractIndInv'
<1>0. ExtractTypes /\ NotBegun
  BY DEF ExtractIndInv
<1>1. driver \in [run : 0..ExtractRuns, at : {"idle", "collect", "drain"}, collected : SUBSET Shard]
  BY <1>0 DEF ExtractTypes
<1>2. \A r \in ExtractRun, s \in Shard : r > driver.run => jobs'[r][s] = jobs[r][s]
  <2> SUFFICES ASSUME NEW r \in ExtractRun, NEW s \in Shard, r > driver.run PROVE jobs'[r][s] = jobs[r][s]
    OBVIOUS
  <2>1. r # driver.run
    BY <1>1 DEF ExtractRun
  <2> QED
    BY <2>1
<1>3. /\ \A r \in ExtractRun, s \in Shard : Moved(jobs[r][s], jobs'[r][s], s)
      /\ \A r \in ExtractRun, s \in Shard : Quiet(jobs[r][s], jobs'[r][s])
  BY DEF Moved, Quiet
<1>4. JobsKeep' /\ QuotasHeld' /\ NotBegun' /\ CollectedDone' /\ ExportIs'
  BY <1>1, <1>2, <1>3, MovedKeeps
<1>5. SaverRemembers' /\ OneWorker' /\ PaidOnce' /\ InShards'
  BY <1>3, QuietKeeps
<1>6. ExtractTypes'
  BY <1>0 DEF ExtractTypes
<1> QED
  BY <1>4, <1>5, <1>6 DEF ExtractIndInv

\* The fields of the driver.
LEMMA DriverFields ==
    ASSUME ExtractIndInv
    PROVE  /\ driver \in [run : 0..ExtractRuns, at : {"idle", "collect", "drain"}, collected : SUBSET Shard]
           /\ driver.run \in 0..ExtractRuns /\ driver.collected \in SUBSET Shard
           /\ driver.at # "idle" => driver.run \in ExtractRun
           /\ stop \in [ExtractRun -> BOOLEAN] /\ jobs \in [ExtractRun -> [Shard -> JobType]]
BY DEF ExtractIndInv, ExtractTypes

\* An ended state of a job that had not ended.
LEMMA EndsJob ==
    ASSUME ExtractIndInv, NEW r \in ExtractRun, NEW s \in Shard, NEW at \in Ended,
           jobs[r][s].at \notin Ended
    PROVE  /\ [jobs[r][s] EXCEPT !.at = at] \in JobType
           /\ Moved(jobs[r][s], [jobs[r][s] EXCEPT !.at = at], s)
           /\ Quiet(jobs[r][s], [jobs[r][s] EXCEPT !.at = at])
<1>1. jobs[r][s] \in JobType /\ JobKeeps(jobs[r][s], s)
  BY JobOf
<1> QED
  BY <1>1, AtOnly

\* The driver takes one answer, and stops the run if it is a failure.
LEMMA CollectKeeps ==
    ASSUME ExtractIndInv, NEW s \in Shard, Collect(s)
    PROVE  ExtractIndInv'
<1>1. /\ driver.at = "collect"
      /\ shardKeys' = shardKeys /\ exported' = exported /\ savedBy' = savedBy /\ shared' = shared
  BY DEF Collect
<1>2. CASE /\ jobs[driver.run][s].at = "done"
           /\ driver' = [driver EXCEPT !.collected = @ \cup {s}] /\ stop' = stop /\ jobs' = jobs
  <2>1. /\ driver'.run = driver.run /\ driver'.at = driver.at /\ driver'.collected = driver.collected \cup {s}
        /\ driver' \in [run : 0..ExtractRuns, at : {"idle", "collect", "drain"}, collected : SUBSET Shard]
    BY <1>2, DriverFields
  <2>2. jobs' \in [ExtractRun -> [Shard -> JobType]] /\ stop' \in [ExtractRun -> BOOLEAN]
    BY <1>2, DriverFields
  <2>3. \A r \in ExtractRun, t \in Shard : jobs'[r][t] = jobs[r][t]
    BY <1>2
  <2>4. \A t \in driver'.collected : t \in driver.collected \/ jobs[driver.run][t].at = "done"
    BY <1>2, <2>1
  <2> QED
    BY <1>1, <2>1, <2>2, <2>3, <2>4, WorldKeeps
<1>3. CASE StopAll(driver.run)
  <2> DEFINE r == driver.run
  <2>0. r \in ExtractRun
    BY <1>1, DriverFields
  <2>1. PICK handed \in SUBSET {t \in Shard : jobs[r][t].at = "queued"} :
          jobs' = [jobs EXCEPT ![r] = [t \in Shard |->
                     IF jobs[r][t].at = "queued" /\ t \notin handed
                     THEN [jobs[r][t] EXCEPT !.at = "cancelled"] ELSE jobs[r][t]]]
    BY <1>3 DEF StopAll
  <2>2. stop' = [stop EXCEPT ![r] = TRUE] /\ driver' = [driver EXCEPT !.at = "drain"]
    BY <1>3 DEF StopAll
  <2> DEFINE group == [t \in Shard |->
                     IF jobs[r][t].at = "queued" /\ t \notin handed
                     THEN [jobs[r][t] EXCEPT !.at = "cancelled"] ELSE jobs[r][t]]
  <2>3. "cancelled" \in Ended
    BY DEF Ended
  <2>4. ASSUME NEW t \in Shard
        PROVE  /\ group[t] \in JobType
               /\ \/ group[t] = jobs[r][t]
                  \/ Moved(jobs[r][t], group[t], t) /\ Quiet(jobs[r][t], group[t])
    <3>1. jobs[r][t] \in JobType
      BY <2>0, JobOf
    <3>2. jobs[r][t].at = "queued" => jobs[r][t].at \notin Ended
      BY DEF Ended
    <3> QED
      BY <2>0, <2>3, <3>1, <3>2, EndsJob
  <2>5. jobs' = [jobs EXCEPT ![r] = group]
    BY <2>1
  <2> HIDE DEF group
  <2>6. group \in [Shard -> JobType]
    BY <2>1, <2>4 DEF group
  <2>7. jobs' \in [ExtractRun -> [Shard -> JobType]]
    BY <2>5, <2>6, DriverFields
  <2>8. /\ \A t \in Shard : jobs'[r][t] = group[t]
        /\ \A q \in ExtractRun, t \in Shard : q # r => jobs'[q][t] = jobs[q][t]
    BY <2>0, <2>5, DriverFields
  <2>9. stop' \in [ExtractRun -> BOOLEAN]
    BY <2>2, DriverFields
  <2>10. /\ driver' \in [run : 0..ExtractRuns, at : {"idle", "collect", "drain"}, collected : SUBSET Shard]
         /\ driver'.run = driver.run /\ driver'.at = "drain"
    BY <2>2, DriverFields
  <2>11. \A q \in ExtractRun, t \in Shard :
           \/ jobs'[q][t] = jobs[q][t]
           \/ /\ q = driver.run
              /\ Moved(jobs[q][t], jobs'[q][t], t) /\ Quiet(jobs[q][t], jobs'[q][t])
    BY <2>4, <2>8
  <2> QED
    BY <1>1, <2>7, <2>9, <2>10, <2>11, WorldKeeps
<1> QED
  BY <1>2, <1>3 DEF Collect

\* The driver ends, or is killed.
LEMMA IdleDriverKeeps ==
    ASSUME ExtractIndInv, driver' = [driver EXCEPT !.at = "idle"],
           shardKeys' = shardKeys, stop' = stop, jobs' = jobs, exported' = exported,
           savedBy' = savedBy, shared' = shared
    PROVE  ExtractIndInv'
<1>1. /\ driver' \in [run : 0..ExtractRuns, at : {"idle", "collect", "drain"}, collected : SUBSET Shard]
      /\ driver'.run = driver.run /\ driver'.at = "idle"
  BY DriverFields
<1>2. jobs' \in [ExtractRun -> [Shard -> JobType]] /\ stop' \in [ExtractRun -> BOOLEAN]
  BY DriverFields
<1>3. \A r \in ExtractRun, t \in Shard : jobs'[r][t] = jobs[r][t]
  OBVIOUS
<1> QED
  BY <1>1, <1>2, <1>3, WorldKeeps

\* A worker dies, alone or with the pool.
LEMMA WorkerDiesKeeps ==
    ASSUME ExtractIndInv, NEW r \in ExtractRun, NEW s \in Shard, WorkerDies(r, s)
    PROVE  ExtractIndInv'
<1>1. /\ jobs[r][s].at \in Busy
      /\ shardKeys' = shardKeys /\ driver' = driver /\ stop' = stop /\ exported' = exported
      /\ savedBy' = savedBy /\ shared' = shared
  BY DEF WorkerDies
<1>2. "error" \in Ended
  BY DEF Ended
<1>3. CASE SetJob(r, s, [jobs[r][s] EXCEPT !.at = "error"])
  <2>1. jobs[r][s].at \in {"queued"} \cup Busy /\ jobs[r][s].at \notin Ended
    BY <1>1 DEF Busy, Ended
  <2>2. /\ [jobs[r][s] EXCEPT !.at = "error"] \in JobType
        /\ Moved(jobs[r][s], [jobs[r][s] EXCEPT !.at = "error"], s)
        /\ Quiet(jobs[r][s], [jobs[r][s] EXCEPT !.at = "error"])
    BY <1>2, <2>1, EndsJob
  <2> QED
    BY <1>1, <1>3, <2>1, <2>2, QuietWorker
<1>4. CASE /\ driver.run = r
           /\ jobs' = [jobs EXCEPT ![r] = [t \in Shard |-> IF jobs[r][t].at \in Ended THEN jobs[r][t]
                                                         ELSE [jobs[r][t] EXCEPT !.at = "error"]]]
  <2> DEFINE group == [t \in Shard |-> IF jobs[r][t].at \in Ended THEN jobs[r][t]
                                       ELSE [jobs[r][t] EXCEPT !.at = "error"]]
  <2>1. ASSUME NEW t \in Shard
        PROVE  /\ group[t] \in JobType
               /\ \/ group[t] = jobs[r][t]
                  \/ Moved(jobs[r][t], group[t], t) /\ Quiet(jobs[r][t], group[t])
    <3>1. jobs[r][t] \in JobType
      BY JobOf
    <3> QED
      BY <1>2, <3>1, EndsJob
  <2>2. jobs' = [jobs EXCEPT ![r] = group]
    BY <1>4
  <2>3. group \in [Shard -> JobType]
    BY <2>1
  <2> HIDE DEF group
  <2>4. jobs' \in [ExtractRun -> [Shard -> JobType]]
    BY <2>2, <2>3, DriverFields
  <2>5. /\ \A t \in Shard : jobs'[r][t] = group[t]
        /\ \A q \in ExtractRun, t \in Shard : q # r => jobs'[q][t] = jobs[q][t]
    BY <2>2, DriverFields
  <2>6. \A q \in ExtractRun, t \in Shard :
          \/ jobs'[q][t] = jobs[q][t]
          \/ q = driver.run /\ Moved(jobs[q][t], jobs'[q][t], t) /\ Quiet(jobs[q][t], jobs'[q][t])
    BY <1>4, <2>1, <2>5
  <2>7. /\ driver' \in [run : 0..ExtractRuns, at : {"idle", "collect", "drain"}, collected : SUBSET Shard]
        /\ driver'.run = driver.run /\ driver'.at = driver.at /\ driver'.collected = driver.collected
        /\ stop' \in [ExtractRun -> BOOLEAN]
    BY <1>1, DriverFields
  <2> QED
    BY <1>1, <2>4, <2>6, <2>7, WorldKeeps
<1> QED
  BY <1>1, <1>3, <1>4 DEF WorkerDies, JobAt

\* The merged export is published.
LEMMA ExportKeeps ==
    ASSUME ExtractIndInv, Export
    PROVE  ExtractIndInv'
<1> DEFINE r == driver.run
           all == UNION {jobs[r][s].memory : s \in Shard}
<1>1. /\ driver.at = "collect" /\ driver.collected = Shard
      /\ exported' = [exported EXCEPT ![r] = all] /\ driver' = [driver EXCEPT !.at = "idle"]
      /\ shardKeys' = shardKeys /\ stop' = stop /\ jobs' = jobs /\ savedBy' = savedBy /\ shared' = shared
  BY DEF Export
<1>2. r \in ExtractRun /\ ExtractTypes
  BY <1>1, DriverFields DEF ExtractIndInv
<1>3. \A s \in Shard : jobs[r][s].at = "done"
  BY <1>1 DEF ExtractIndInv, CollectedDone
<1>4. all \in SUBSET Text
  <2>1. \A s \in Shard : jobs[r][s].memory \in SUBSET Text
    BY <1>2, JobOf, JobFields
  <2> QED
    BY <2>1
<1> HIDE DEF all
<1>5. exported \in [ExtractRun -> SUBSET (Text \cup NoExport)]
  BY <1>2 DEF ExtractTypes
<1>6. /\ exported' \in [ExtractRun -> SUBSET (Text \cup NoExport)] /\ exported'[r] = all
      /\ \A q \in ExtractRun : q # r => exported'[q] = exported[q]
  <2>1. all \in SUBSET (Text \cup NoExport)
    BY <1>4
  <2> QED
    BY <1>1, <1>2, <1>5, <2>1
<1>7. /\ driver' \in [run : 0..ExtractRuns, at : {"idle", "collect", "drain"}, collected : SUBSET Shard]
      /\ driver'.run = driver.run /\ driver'.at = "idle"
  BY <1>1, DriverFields
<1>8. ExtractTypes'
  BY <1>1, <1>2, <1>6, <1>7 DEF ExtractTypes
<1>9. ExportIs'
  <2> SUFFICES ASSUME NEW q \in ExtractRun, exported'[q] # NoExport
               PROVE  /\ \A s \in Shard : jobs[q][s].at = "done"
                      /\ exported'[q] = UNION {jobs[q][s].memory : s \in Shard}
    BY <1>1 DEF ExportIs
  <2>1. CASE q = r
    BY <1>3, <1>6, <2>1 DEF all
  <2>2. CASE q # r
    BY <1>6, <2>2 DEF ExtractIndInv, ExportIs
  <2> QED
    BY <2>1, <2>2
<1>10. NotBegun'
  <2> SUFFICES ASSUME NEW q \in ExtractRun, q > r
               PROVE  exported'[q] = NoExport /\ \A s \in Shard : jobs[q][s] = NoJob
    BY <1>1, <1>7 DEF NotBegun
  <2>1. q # r
    BY <1>2 DEF ExtractRun
  <2> QED
    BY <1>6, <2>1 DEF ExtractIndInv, NotBegun
<1>11. CollectedDone'
  BY <1>7 DEF CollectedDone
<1>12. JobsKeep' /\ SaverRemembers' /\ OneWorker' /\ PaidOnce' /\ InShards'
  BY <1>1 DEF ExtractIndInv, JobsKeep, SaverRemembers, OneWorker, PaidOnce, InShards
<1>13. QuotasHeld'
  <2>1. \A q \in ExtractRun : NewIn(q)' = NewIn(q) /\ CallsIn(q)' = CallsIn(q)
    BY <1>1 DEF NewIn, CallsIn
  <2> QED
    BY <2>1 DEF ExtractIndInv, QuotasHeld
<1> QED
  BY <1>8, <1>9, <1>10, <1>11, <1>12, <1>13 DEF ExtractIndInv

\* A driver deals its budget out.
LEMMA StartKeeps ==
    ASSUME ExtractIndInv, StartExtraction
    PROVE  ExtractIndInv'
<1> DEFINE r == driver.run + 1
           quotas == Quotas
           new == [s \in Shard |-> [NoJob EXCEPT !.at = "queued", !.new = quotas[s].new, !.calls = quotas[s].calls]]
<1>1. /\ driver.run < ExtractRuns
      /\ driver' = [run |-> r, at |-> "collect", collected |-> {}]
      /\ jobs' = [jobs EXCEPT ![r] = new]
      /\ shardKeys' = shardKeys /\ stop' = stop /\ exported' = exported /\ savedBy' = savedBy /\ shared' = shared
  BY DEF StartExtraction
<1>2. ExtractTypes
  BY DEF ExtractIndInv
<1>3. r \in ExtractRun /\ driver.run \in Nat /\ r \in 0..ExtractRuns
  <2>1. driver.run \in 0..ExtractRuns /\ ExtractRuns \in Nat
    BY Bounds, DriverFields
  <2>2. driver.run < ExtractRuns
    BY <1>1
  <2>3. \A n \in 0..ExtractRuns : n < ExtractRuns => n + 1 \in 1..ExtractRuns /\ n + 1 \in 0..ExtractRuns /\ n \in Nat
    BY <2>1
  <2> QED
    BY <2>1, <2>2, <2>3 DEF ExtractRun
<1>4. /\ \A s \in Shard : quotas[s].new \in Nat /\ quotas[s].calls \in Nat
      /\ SumFunctionOnSet(NewOf, Shard) <= MaxNew /\ SumFunctionOnSet(CallsOf, Shard) <= MaxCalls
  <2>1. shardKeys \in [Shard -> SUBSET Text]
    BY <1>2 DEF ExtractTypes
  <2> QED
    BY <2>1, QuotasFit
<1>5. \A s \in Shard : NewOf[s] = quotas[s].new /\ CallsOf[s] = quotas[s].calls
  BY DEF NewOf, CallsOf
<1> HIDE DEF quotas
<1>6. ASSUME NEW s \in Shard
      PROVE  /\ new[s] \in JobType /\ new[s].at = "queued" /\ new[s].memory = {} /\ new[s].pending = <<>>
             /\ new[s].new = quotas[s].new /\ new[s].calls = quotas[s].calls
             /\ new[s].used = 0 /\ new[s].done = 0
  <2>1. <<>> \in Seq(Text)
    OBVIOUS
  <2>2. quotas[s].new \in Nat /\ quotas[s].calls \in Nat
    BY <1>4
  <2> QED
    BY <2>1, <2>2 DEF NoJob, JobType
<1>7. new \in [Shard -> JobType]
  BY <1>6
<1> HIDE DEF new, r
<1>8. jobs \in [ExtractRun -> [Shard -> JobType]]
  BY <1>2 DEF ExtractTypes
<1>9. /\ jobs' \in [ExtractRun -> [Shard -> JobType]] /\ jobs'[r] = new
      /\ \A q \in ExtractRun : q # r => jobs'[q] = jobs[q]
  BY <1>1, <1>3, <1>7, <1>8
<1>10. ExtractTypes'
  BY <1>1, <1>2, <1>3, <1>9 DEF ExtractTypes
<1>11. JobsKeep'
  <2> SUFFICES ASSUME NEW q \in ExtractRun, NEW s \in Shard PROVE JobKeeps(jobs'[q][s], s)
    BY DEF JobsKeep
  <2>1. CASE q # r
    BY <1>9, <2>1, JobOf
  <2>2. CASE q = r
    <3>1. ToSet(<<>>) = {} /\ Distinct(<<>>) /\ Len(<<>>) = 0
      BY DEF ToSet, Distinct
    <3>2. quotas[s].new \in Nat /\ quotas[s].calls \in Nat
      BY <1>4
    <3>3. /\ new[s].used <= new[s].calls /\ new[s].done + Len(new[s].pending) <= new[s].new
          /\ ToSet(new[s].pending) = {} /\ Distinct(new[s].pending)
      BY <1>6, <3>1, <3>2
    <3>4. JobKeeps(new[s], s)
      BY <1>6, <3>3 DEF JobKeeps
    <3> QED
      BY <1>9, <2>2, <3>4
  <2> QED
    BY <2>1, <2>2
<1>12. QuotasHeld'
  <2> SUFFICES ASSUME NEW q \in ExtractRun
               PROVE  /\ SumFunctionOnSet(NewIn(q)', Shard) <= MaxNew
                      /\ SumFunctionOnSet(CallsIn(q)', Shard) <= MaxCalls
    BY DEF QuotasHeld
  <2>1. CASE q # r
    <3>1. NewIn(q)' = NewIn(q) /\ CallsIn(q)' = CallsIn(q)
      BY <1>9, <2>1 DEF NewIn, CallsIn
    <3> QED
      BY <3>1 DEF ExtractIndInv, QuotasHeld
  <2>2. CASE q = r
    <3>1. /\ NewIn(q)' = [s \in Shard |-> jobs'[q][s].new]
          /\ CallsIn(q)' = [s \in Shard |-> jobs'[q][s].calls]
      BY DEF NewIn, CallsIn
    <3>2. \A s \in Shard : NewOf[s] = jobs'[q][s].new /\ CallsOf[s] = jobs'[q][s].calls
      BY <1>5, <1>6, <1>9, <2>2
    <3>3. /\ NewOf = [s \in Shard |-> NewOf[s]] /\ CallsOf = [s \in Shard |-> CallsOf[s]]
      BY DEF NewOf, CallsOf
    <3>4. NewIn(q)' = NewOf /\ CallsIn(q)' = CallsOf
      BY <3>1, <3>2, <3>3
    <3> QED
      BY <1>4, <3>4
  <2> QED
    BY <2>1, <2>2
<1>13. driver'.run = r /\ driver'.at = "collect" /\ driver'.collected = {}
  BY <1>1
<1>14. \A s \in Shard : jobs[r][s] = NoJob
  <2>1. r > driver.run
    BY <1>3 DEF r
  <2> QED
    BY <1>3, <2>1 DEF ExtractIndInv, NotBegun
<1>15. NotBegun'
  <2> SUFFICES ASSUME NEW q \in ExtractRun, q > r
               PROVE  exported'[q] = NoExport /\ \A s \in Shard : jobs'[q][s] = NoJob
    BY <1>13 DEF NotBegun
  <2>1. q # r /\ q > driver.run
    BY <1>3 DEF ExtractRun, r
  <2> QED
    BY <1>1, <1>9, <2>1 DEF ExtractIndInv, NotBegun
<1>16. CollectedDone'
  BY <1>13 DEF CollectedDone
<1>17. exported[r] = NoExport
  <2>1. r > driver.run
    BY <1>3 DEF r
  <2> QED
    BY <1>3, <2>1 DEF ExtractIndInv, NotBegun
<1>18. ExportIs'
  <2> SUFFICES ASSUME NEW q \in ExtractRun, exported[q] # NoExport
               PROVE  /\ \A s \in Shard : jobs'[q][s].at = "done"
                      /\ exported[q] = UNION {jobs'[q][s].memory : s \in Shard}
    BY <1>1 DEF ExportIs
  <2>1. q # r
    BY <1>17
  <2>2. jobs'[q] = jobs[q]
    BY <1>9, <2>1
  <2> QED
    BY <2>2 DEF ExtractIndInv, ExportIs
<1>19. /\ \A q \in ExtractRun, s \in Shard : Quiet(jobs[q][s], jobs'[q][s])
  <2> SUFFICES ASSUME NEW q \in ExtractRun, NEW s \in Shard PROVE Quiet(jobs[q][s], jobs'[q][s])
    OBVIOUS
  <2>1. CASE q # r
    BY <1>9, <2>1 DEF Quiet
  <2>2. CASE q = r
    BY <1>6, <1>9, <1>14, <2>2, NoJobFacts DEF Quiet, Busy
  <2> QED
    BY <2>1, <2>2
<1>20. SaverRemembers' /\ OneWorker' /\ PaidOnce' /\ InShards'
  BY <1>1, <1>19, QuietKeeps
<1> QED
  BY <1>10, <1>11, <1>12, <1>15, <1>16, <1>18, <1>20 DEF ExtractIndInv

\* Every step of drivers and workers, their deaths included, keeps the invariant.
THEOREM ExtractStep == ExtractIndInv /\ [ExtractNext]_extractVars => ExtractIndInv'
<1> SUFFICES ASSUME ExtractIndInv, [ExtractNext]_extractVars PROVE ExtractIndInv'
  OBVIOUS
<1>1. CASE UNCHANGED extractVars
  <2>1. /\ shardKeys' = shardKeys /\ driver' = driver /\ stop' = stop /\ jobs' = jobs
        /\ exported' = exported /\ savedBy' = savedBy /\ shared' = shared
    BY <1>1 DEF extractVars
  <2>2. /\ driver' \in [run : 0..ExtractRuns, at : {"idle", "collect", "drain"}, collected : SUBSET Shard]
        /\ jobs' \in [ExtractRun -> [Shard -> JobType]] /\ stop' \in [ExtractRun -> BOOLEAN]
    BY <2>1, DriverFields
  <2>3. \A r \in ExtractRun, s \in Shard : jobs'[r][s] = jobs[r][s]
    BY <2>1
  <2> QED
    BY <2>1, <2>2, <2>3, WorldKeeps
<1>2. CASE StartExtraction
  BY <1>2, StartKeeps
<1>3. CASE Export
  BY <1>3, ExportKeeps
<1>4. CASE Drain
  <2>1. /\ driver' = [driver EXCEPT !.at = "idle"]
        /\ shardKeys' = shardKeys /\ stop' = stop /\ jobs' = jobs
        /\ exported' = exported /\ savedBy' = savedBy /\ shared' = shared
    BY <1>4 DEF Drain
  <2> QED
    BY <2>1, IdleDriverKeeps
<1>5. CASE DriverDies
  <2>1. /\ driver' = [driver EXCEPT !.at = "idle"]
        /\ shardKeys' = shardKeys /\ stop' = stop /\ jobs' = jobs
        /\ exported' = exported /\ savedBy' = savedBy /\ shared' = shared
    BY <1>5 DEF DriverDies
  <2> QED
    BY <2>1, IdleDriverKeeps
<1>6. ASSUME NEW s \in Shard, Collect(s) PROVE ExtractIndInv'
  BY <1>6, CollectKeeps
<1>7. ASSUME NEW r \in ExtractRun, NEW s \in Shard,
             \/ BeginJob(r, s) \/ SaveEmpty(r, s) \/ NextBatch(r, s) \/ Translate(r, s)
             \/ SaveBatch(r, s) \/ WorkerDies(r, s)
      PROVE  ExtractIndInv'
  BY <1>7, BeginKeeps, SaveEmptyKeeps, NextKeeps, TranslateKeeps, SaveBatchKeeps, WorkerDiesKeeps
<1> QED
  BY <1>1, <1>2, <1>3, <1>4, <1>5, <1>6, <1>7 DEF ExtractNext

\* The budgets of a run are totals over its workers, whatever fails.
LEMMA BudgetsFollow == ExtractIndInv => BudgetHeld
<1> SUFFICES ASSUME ExtractIndInv, NEW r \in ExtractRun
             PROVE  /\ SumFunction([s \in Shard |-> jobs[r][s].used]) <= MaxCalls
                    /\ SumFunction([s \in Shard |-> jobs[r][s].done]) <= MaxNew
  BY DEF BudgetHeld
<1> DEFINE used == [s \in Shard |-> jobs[r][s].used]
           done == [s \in Shard |-> jobs[r][s].done]
<1>1. \A s \in Shard :
        /\ jobs[r][s].used \in Nat /\ jobs[r][s].calls \in Nat /\ jobs[r][s].done \in Nat
        /\ jobs[r][s].new \in Nat /\ jobs[r][s].used <= jobs[r][s].calls /\ jobs[r][s].done <= jobs[r][s].new
  <2> TAKE s \in Shard
  <2>1. jobs[r][s] \in JobType /\ JobKeeps(jobs[r][s], s)
    BY JobOf
  <2>2. /\ jobs[r][s].used \in Nat /\ jobs[r][s].calls \in Nat /\ jobs[r][s].done \in Nat
        /\ jobs[r][s].new \in Nat /\ Len(jobs[r][s].pending) \in Nat
    BY <2>1, JobFields, LenProperties
  <2>3. jobs[r][s].used <= jobs[r][s].calls /\ jobs[r][s].done + Len(jobs[r][s].pending) <= jobs[r][s].new
    BY <2>1 DEF JobKeeps
  <2>4. jobs[r][s].done <= jobs[r][s].new
    BY <2>2, <2>3
  <2> QED
    BY <2>2, <2>3, <2>4
<1>2. /\ \A s \in Shard : used[s] \in Int /\ CallsIn(r)[s] \in Int /\ used[s] <= CallsIn(r)[s]
      /\ \A s \in Shard : done[s] \in Int /\ NewIn(r)[s] \in Int /\ done[s] <= NewIn(r)[s]
  BY <1>1 DEF CallsIn, NewIn
<1>3. DOMAIN used = Shard /\ DOMAIN done = Shard
  OBVIOUS
<1> HIDE DEF used, done
<1>4. IsFiniteSet(Shard)
  BY ShardFacts
<1>5. Ints(used, Shard) /\ Ints(done, Shard) /\ Ints(CallsIn(r), Shard) /\ Ints(NewIn(r), Shard)
  BY <1>2 DEF Ints
<1>6. SumFunctionOnSet(used, Shard) <= SumFunctionOnSet(CallsIn(r), Shard)
  BY <1>2, <1>4, <1>5, SumMonotone
<1>7. SumFunctionOnSet(done, Shard) <= SumFunctionOnSet(NewIn(r), Shard)
  BY <1>2, <1>4, <1>5, SumMonotone
<1>8. SumFunctionOnSet(NewIn(r), Shard) <= MaxNew /\ SumFunctionOnSet(CallsIn(r), Shard) <= MaxCalls
  BY DEF ExtractIndInv, QuotasHeld
<1>9. /\ SumFunctionOnSet(used, Shard) \in Int /\ SumFunctionOnSet(done, Shard) \in Int
      /\ SumFunctionOnSet(NewIn(r), Shard) \in Int /\ SumFunctionOnSet(CallsIn(r), Shard) \in Int
  BY <1>4, <1>5, SumInt
<1>10. SumFunctionOnSet(used, Shard) <= MaxCalls /\ SumFunctionOnSet(done, Shard) <= MaxNew
  BY <1>6, <1>7, <1>8, <1>9, Bounds
<1>11. SumFunction(used) = SumFunctionOnSet(used, Shard) /\ SumFunction(done) = SumFunctionOnSet(done, Shard)
  BY <1>3 DEF SumFunction
<1> QED
  BY <1>10, <1>11 DEF used, done

\* An export is whole.
LEMMA ExportsFollow == ExtractIndInv => ExportWhole
<1> SUFFICES ASSUME ExtractIndInv, NEW r \in ExtractRun, exported[r] # NoExport
             PROVE  /\ \A s \in Shard : jobs[r][s].at = "done"
                    /\ \A k \in Text :
                         /\ r \in savedBy[k] => k \in exported[r]
                         /\ k \in exported[r] /\ ShardOf[k] \notin shared => k \in shardKeys[ShardOf[k]]
  BY DEF ExportWhole
<1>1. /\ \A s \in Shard : jobs[r][s].at = "done"
      /\ exported[r] = UNION {jobs[r][s].memory : s \in Shard}
  BY DEF ExtractIndInv, ExportIs
<1>2. ASSUME NEW k \in Text, r \in savedBy[k] PROVE k \in exported[r]
  <2>1. ShardOf[k] \in Shard /\ k \in jobs[r][ShardOf[k]].memory
    BY <1>2, ShardFacts DEF ExtractIndInv, SaverRemembers
  <2> QED
    BY <1>1, <2>1
<1>3. ASSUME NEW k \in Text, k \in exported[r], ShardOf[k] \notin shared PROVE k \in shardKeys[ShardOf[k]]
  <2>1. PICK s \in Shard : k \in jobs[r][s].memory
    BY <1>1, <1>3
  <2>2. k \in Group(s)
    BY <2>1, JobOf DEF JobKeeps
  <2>3. s = ShardOf[k]
    BY <2>2 DEF Group
  <2>4. jobs[r][s].memory \subseteq shardKeys[s]
    BY <1>3, <2>3 DEF ExtractIndInv, OneWorker
  <2> QED
    BY <2>1, <2>3, <2>4
<1> QED
  BY <1>1, <1>2, <1>3

\* The inductive invariant: what a worker remembers, has pending and may still
\* use, and that a shard which never had two workers has one who knows its cache.
THEOREM ExtractInvHolds == ExtractSpec => []ExtractIndInv
<1> QED
  BY ExtractStarts, ExtractStep, PTL DEF ExtractSpec

\* A run keeps to its budgets over all its workers, what was saved is not paid
\* for again and not lost, and an export is whole, for any articles, shards and
\* limits and whatever fails, stops or dies (cli/llm_extract_batch.py).
THEOREM ExtractionSafe == ExtractSpec => []ExtractionSound
<1>1. ExtractIndInv => ExtractionSound
  BY BudgetsFollow, ExportsFollow DEF ExtractionSound, ExtractIndInv
<1> QED
  BY <1>1, ExtractInvHolds, PTL

(***************************************************************************)
(* The pair rules                                                          *)
(***************************************************************************)

\* Two rules of which one would repeat the other.
Meets(p, q, withinFamily, cases) ==
    (withinFamily => IsUnary(q) = IsUnary(p)) /\ RedundantRules(p, q, cases)

RetainStep(p, s, base, family, limit, cap, withinFamily, cases) ==
    IF \/ Len(s) >= cap \/ Len(s) >= Len(base) + limit \/ p \notin family
       \/ Repeats(p, s, withinFamily, cases)
    THEN s ELSE Append(s, p)
RetainAt(g, n, base, order, family, limit, cap, withinFamily, cases) ==
    IF n = 0 THEN base
    ELSE RetainStep(order[n], g[n - 1], base, family, limit, cap, withinFamily, cases)
Retained(base, order, family, limit, cap, withinFamily, cases) ==
    CHOOSE g : g = [n \in 0..Len(order) |->
                        RetainAt(g, n, base, order, family, limit, cap, withinFamily, cases)]

\* It is the value at the end of the function that is chosen.
LEMMA RetainIs ==
    ASSUME NEW base, NEW order, NEW family, NEW limit, NEW cap, NEW withinFamily, NEW cases
    PROVE  Retain(base, order, family, limit, cap, withinFamily, cases)
             = Retained(base, order, family, limit, cap, withinFamily, cases)[Len(order)]
BY DEF Retain, Retained, RetainAt, RetainStep

\* There is such a function.
LEMMA RetainExists ==
    ASSUME NEW S, NEW base \in Seq(S), NEW order \in Seq(S), NEW family, NEW limit, NEW cap,
           NEW withinFamily, NEW cases
    PROVE  LET g == Retained(base, order, family, limit, cap, withinFamily, cases)
           IN  /\ g[0] = base
               /\ \A n \in 0..Len(order) : g[n] \in Seq(S)
               /\ \A n \in 1..Len(order) :
                    g[n] = RetainStep(order[n], g[n - 1], base, family, limit, cap, withinFamily, cases)
<1> DEFINE N == Len(order)
           D == Seq(S)
           next(n, x) == RetainStep(order[n], x, base, family, limit, cap, withinFamily, cases)
           st == [n \in 1..N |-> [x \in D |-> next(n, x)]]
           at(g, n) == RetainAt(g, n, base, order, family, limit, cap, withinFamily, cases)
<1>1. N \in Nat /\ \A n \in 1..N : order[n] \in S
  BY LenProperties, ElementOfSeq
<1>2. \A n \in 1..N : \A x \in D : next(n, x) \in D
  BY <1>1, AppendProperties DEF RetainStep
<1>3. \A n \in 1..N : \A x \in D : st[n][x] = next(n, x)
  <2> HIDE DEF next, D, N
  <2> QED
    OBVIOUS
<1> HIDE DEF st, next, D, N
<1>4. PICK g : Follows(g, N, base, st) /\ \A n \in 0..N : g[n] \in D
  <2>1. Closed(st, N, D)
    BY <1>2, <1>3 DEF Closed
  <2>2. base \in D
    BY DEF D
  <2> QED
    BY <1>1, <2>1, <2>2, Recursion
<1>5. ASSUME NEW n \in 0..N PROVE g[n] = at(g, n)
  <2>1. CASE n = 0
    BY <1>4, <2>1 DEF RetainAt, Follows
  <2>2. CASE n # 0
    <3>1. n \in 1..N /\ n - 1 \in 0..N
      BY <1>1, <2>2
    <3>2. g[n] = st[n][g[n - 1]] /\ g[n - 1] \in D
      BY <1>4, <3>1 DEF Follows
    <3> QED
      BY <1>3, <2>2, <3>1, <3>2 DEF RetainAt, next
  <2> QED
    BY <2>1, <2>2
<1>6. g = [n \in 0..N |-> at(g, n)]
  <2>1. g = [n \in 0..N |-> g[n]]
    BY <1>4 DEF Follows
  <2> HIDE DEF at
  <2> QED
    BY <1>5, <2>1
<1> DEFINE h == Retained(base, order, family, limit, cap, withinFamily, cases)
<1>7. h = [n \in 0..N |-> at(h, n)]
  BY <1>6 DEF Retained, N
<1> HIDE DEF h
<1>8. \A n \in 0..N : h[n] = at(h, n)
  BY <1>7
<1>9. h[0] = base /\ \A n \in 1..N : h[n] = next(n, h[n - 1])
  <2>1. 0 \in 0..N /\ \A n \in 1..N : n \in 0..N /\ n # 0
    BY <1>1
  <2> QED
    BY <1>8, <2>1 DEF RetainAt, next
<1>10. \A n \in 0..N : h[n] \in D
  <2> DEFINE P == {n \in 0..N : h[n] \in D}
  <2>1. 0 \in P
    BY <1>1, <1>9 DEF D
  <2>2. ASSUME NEW n \in 0..N, n \in P, n < N PROVE n + 1 \in P
    <3>1. n + 1 \in 1..N /\ n + 1 \in 0..N /\ (n + 1) - 1 = n
      BY <1>1, <2>2
    <3>2. h[n] \in D /\ h[n + 1] = next(n + 1, h[n])
      BY <1>9, <2>2, <3>1
    <3> QED
      BY <1>2, <3>1, <3>2
  <2> HIDE DEF P
  <2>3. \A n \in 0..N : n \in P
    BY <1>1, <2>1, <2>2, Climb
  <2> QED
    BY <2>3 DEF P
<1> QED
  BY <1>9, <1>10 DEF h, N, D, next

\* A list that has grown from another by rules of a family, none of which would
\* repeat an earlier one.
Grown(s, base, order, family, limit, cap, withinFamily, cases) ==
    /\ Len(base) <= Len(s) /\ \A i \in 1..Len(base) : s[i] = base[i]
    /\ Len(base) <= cap => Len(s) <= cap
    /\ Len(s) <= Len(base) + limit
    /\ \A i \in 1..Len(s) : i > Len(base) =>
         /\ s[i] \in family /\ s[i] \in ToSet(order)
         /\ \A j \in 1..i - 1 : ~Meets(s[i], s[j], withinFamily, cases)

\* A rule that a list has, or need not have.
Settled(p, s, withinFamily, cases) ==
    \E q \in ToSet(s) : q = p \/ Meets(p, q, withinFamily, cases)

\* One more rule.
LEMMA GrowsByOne ==
    ASSUME NEW S, NEW base \in Seq(S), NEW order \in Seq(S), NEW s \in Seq(S), NEW p \in S,
           NEW family, p \in ToSet(order), p \in family, NEW limit \in Nat, NEW cap \in Nat,
           NEW withinFamily, NEW cases, Len(s) < cap, Len(s) < Len(base) + limit,
           ~Repeats(p, s, withinFamily, cases),
           Grown(s, base, order, family, limit, cap, withinFamily, cases)
    PROVE  Grown(Append(s, p), base, order, family, limit, cap, withinFamily, cases)
<1> DEFINE t == Append(s, p)
           n == Len(s)
           b == Len(base)
<1>1. n \in Nat /\ b \in Nat /\ DOMAIN s = 1..n /\ Len(t) = n + 1 /\ t[n + 1] = p
      /\ \A i \in 1..n : t[i] = s[i]
  BY LenProperties, AppendProperties
<1>2. b <= n /\ n + 1 <= cap /\ n + 1 <= b + limit
  BY <1>1 DEF Grown
<1>3. \A j \in 1..n : ~Meets(p, s[j], withinFamily, cases)
  BY <1>1 DEF Repeats, Meets, ToSet
<1> HIDE DEF t, n, b
<1>4. \A i \in 1..b : t[i] = base[i]
  BY <1>1, <1>2 DEF Grown, b
<1>5. ASSUME NEW i \in 1..n + 1, i > b
      PROVE  /\ t[i] \in family /\ t[i] \in ToSet(order)
             /\ \A j \in 1..i - 1 : ~Meets(t[i], t[j], withinFamily, cases)
  <2>1. CASE i = n + 1
    <3>1. i - 1 = n
      BY <1>1, <2>1
    <3> QED
      BY <1>1, <1>3, <2>1, <3>1
  <2>2. CASE i # n + 1
    <3>1. i \in 1..n /\ \A j \in 1..i - 1 : j \in 1..n
      BY <1>1, <2>2
    <3>2. /\ s[i] \in family /\ s[i] \in ToSet(order)
          /\ \A j \in 1..i - 1 : ~Meets(s[i], s[j], withinFamily, cases)
      BY <1>5, <3>1 DEF Grown, n, b
    <3> QED
      BY <1>1, <3>1, <3>2
  <2> QED
    BY <2>1, <2>2
<1>6. b <= n + 1
  BY <1>1, <1>2
<1> QED
  BY <1>1, <1>2, <1>4, <1>5, <1>6 DEF Grown, t, b

\* What retain_candidates returns: the list has grown within its cap and its
\* limit, and where both leave room no rule of the family is missing.
LEMMA RetainFacts ==
    ASSUME NEW S, NEW base \in Seq(S), NEW order \in Seq(S), NEW family, NEW limit \in Nat,
           NEW cap \in Nat, NEW withinFamily, NEW cases
    PROVE  LET r == Retain(base, order, family, limit, cap, withinFamily, cases)
           IN  /\ r \in Seq(S)
               /\ Grown(r, base, order, family, limit, cap, withinFamily, cases)
               /\ Len(r) < cap /\ Len(r) < Len(base) + limit =>
                    \A p \in ToSet(order) \cap family : Settled(p, r, withinFamily, cases)
<1> DEFINE N == Len(order)
           g == Retained(base, order, family, limit, cap, withinFamily, cases)
           grown(s) == Grown(s, base, order, family, limit, cap, withinFamily, cases)
           room(s) == Len(s) < cap /\ Len(s) < Len(base) + limit
           settled(s, n) == \A k \in 1..n : order[k] \in family => Settled(order[k], s, withinFamily, cases)
           P == {n \in 0..N : grown(g[n]) /\ (room(g[n]) => settled(g[n], n))}
<1>1. N \in Nat /\ DOMAIN order = 1..N /\ \A n \in 1..N : order[n] \in S /\ order[n] \in ToSet(order)
  BY LenProperties, ElementOfSeq DEF ToSet
<1>2. /\ g[0] = base
      /\ \A n \in 0..N : g[n] \in Seq(S)
      /\ \A n \in 1..N : g[n] = RetainStep(order[n], g[n - 1], base, family, limit, cap, withinFamily, cases)
  BY RetainExists
<1> HIDE DEF g
<1>3. 0 \in P
  <2>1. Len(base) \in Nat
    BY LenProperties
  <2>2. grown(base)
    BY <2>1 DEF Grown
  <2>3. settled(base, 0)
    OBVIOUS
  <2>4. 0 \in 0..N
    BY <1>1
  <2> HIDE DEF grown, room, settled, N
  <2> QED
    BY <1>2, <2>2, <2>3, <2>4
<1>4. ASSUME NEW n \in 0..N, n \in P, n < N PROVE n + 1 \in P
  <2> DEFINE s == g[n]
             p == order[n + 1]
             t == g[n + 1]
             stay == Len(s) >= cap \/ Len(s) >= Len(base) + limit \/ p \notin family
                     \/ Repeats(p, s, withinFamily, cases)
  <2>1. n + 1 \in 1..N /\ n + 1 \in 0..N /\ (n + 1) - 1 = n
    BY <1>1, <1>4
  <2>2. s \in Seq(S) /\ p \in S /\ p \in ToSet(order) /\ t \in Seq(S)
    BY <1>1, <1>2, <2>1
  <2>3. t = IF stay THEN s ELSE Append(s, p)
    BY <1>2, <2>1 DEF RetainStep
  <2>4. grown(s) /\ (room(s) => settled(s, n))
    BY <1>4
  <2>5. Len(s) \in Nat /\ Len(base) \in Nat
    BY <2>2, LenProperties
  <2> HIDE DEF s, p, t
  <2>6. grown(t)
    <3>1. CASE stay
      BY <2>3, <2>4, <3>1
    <3>2. CASE ~stay
      <4>1. Len(s) < cap /\ Len(s) < Len(base) + limit
        BY <2>5, <3>2
      <4>2. grown(Append(s, p))
        BY <2>2, <2>4, <3>2, <4>1, GrowsByOne
      <4> QED
        BY <2>3, <3>2, <4>2
    <3> QED
      BY <3>1, <3>2
  <2>7. ASSUME room(t), NEW k \in 1..n + 1, order[k] \in family PROVE Settled(order[k], t, withinFamily, cases)
    <3>1. room(s) /\ ToSet(s) \subseteq ToSet(t)
      <4>1. CASE stay
        BY <2>3, <2>7, <4>1
      <4>2. CASE ~stay
        <5>1. t = Append(s, p) /\ Len(t) = Len(s) + 1
          BY <2>2, <2>3, <4>2, AppendProperties
        <5>2. room(s)
          BY <2>5, <4>2
        <5>3. \A i \in 1..Len(s) : t[i] = s[i] /\ i \in 1..Len(t)
          BY <2>2, <2>5, <5>1, AppendProperties
        <5>4. DOMAIN s = 1..Len(s) /\ DOMAIN t = 1..Len(t)
          BY <2>2, LenProperties
        <5> QED
          BY <5>2, <5>3, <5>4 DEF ToSet
      <4> QED
        BY <4>1, <4>2
    <3>2. CASE k # n + 1
      <4>1. k \in 1..n
        BY <1>1, <3>2
      <4>2. Settled(order[k], s, withinFamily, cases)
        BY <2>4, <2>7, <3>1, <4>1
      <4> QED
        BY <3>1, <4>2 DEF Settled
    <3>3. CASE k = n + 1
      <4>1. p \in family /\ order[k] = p
        BY <2>7, <3>3 DEF p
      <4>2. CASE Repeats(p, s, withinFamily, cases)
        BY <3>1, <4>1, <4>2 DEF Repeats, Settled, Meets
      <4>3. CASE ~Repeats(p, s, withinFamily, cases)
        <5>1. t = Append(s, p)
          BY <2>3, <2>5, <3>1, <4>1, <4>3
        <5>2. t[Len(s) + 1] = p /\ Len(s) + 1 \in DOMAIN t
          BY <2>2, <2>5, <5>1, AppendProperties, LenProperties
        <5>3. p \in ToSet(t)
          BY <5>2 DEF ToSet
        <5> QED
          BY <4>1, <5>3 DEF Settled
      <4> QED
        BY <4>2, <4>3
    <3> QED
      BY <3>2, <3>3
  <2> HIDE DEF grown, room
  <2>8. room(t) => settled(t, n + 1)
    BY <2>7
  <2> HIDE DEF settled
  <2> QED
    BY <2>1, <2>6, <2>8 DEF t
<1>5. N \in P
  <2>1. N \in 0..N
    BY <1>1
  <2> HIDE DEF P
  <2> QED
    BY <1>1, <1>3, <1>4, <2>1, Climb
<1>6. Retain(base, order, family, limit, cap, withinFamily, cases) = g[N]
  BY RetainIs DEF g
<1>7. N \in 0..N
  BY <1>1
<1>8. \A p \in ToSet(order) : \E k \in 1..N : order[k] = p
  BY <1>1 DEF ToSet
<1> HIDE DEF N
<1> QED
  BY <1>2, <1>5, <1>6, <1>7, <1>8

\* Of two redundant rules it does not matter which comes first, and the same
\* holds of a dependency.
LEMMA Symmetric ==
    ASSUME NEW cases, IsFiniteSet(cases), NEW p, NEW q
    PROVE  /\ RedundantRules(p, q, cases) => RedundantRules(q, p, cases)
           /\ SharesDependency(p, q, cases) => SharesDependency(q, p, cases)
<1> DEFINE ps == CasesWith(p, cases)
           qs == CasesWith(q, cases)
           x == Clicks(ps) * Cardinality(qs)
           y == Clicks(qs) * Cardinality(ps)
<1>1. IsFiniteSet(ps) /\ IsFiniteSet(qs)
  BY FS_Subset DEF CasesWith
<1>2. Cardinality(ps) \in Nat /\ Cardinality(qs) \in Nat
  BY <1>1, FS_CardinalityType
<1>3. Clicks(ps) \in Nat /\ Clicks(qs) \in Nat
  <2>1. \A S : IsFiniteSet(S) => Clicks(S) \in Nat
    <3> TAKE S
    <3>1. {c \in S : c.click} \in SUBSET S
      OBVIOUS
    <3> QED
      BY <3>1, FS_Subset, FS_CardinalityType DEF Clicks
  <2> QED
    BY <1>1, <2>1
<1>4. x \in Int /\ y \in Int
  BY <1>2, <1>3
<1>5. Cardinality(ps) * Cardinality(qs) = Cardinality(qs) * Cardinality(ps)
  BY <1>2
<1> HIDE DEF ps, qs
<1>6. {x - y, -(x - y)} = {y - x, -(y - x)}
  <2> HIDE DEF x, y
  <2>1. -(x - y) = y - x /\ -(y - x) = x - y
    BY <1>4
  <2> QED
    BY <2>1
<1>7. ps \cap qs = qs \cap ps /\ ps \cup qs = qs \cup ps
      /\ {Cardinality(ps), Cardinality(qs)} = {Cardinality(qs), Cardinality(ps)}
      /\ {p, q} = {q, p} /\ Lineage(p) \cap Lineage(q) = Lineage(q) \cap Lineage(p)
  OBVIOUS
<1>8. RedundantRules(p, q, cases) => RedundantRules(q, p, cases)
  <2>1. RedundantRules(p, q, cases) <=>
          /\ 100 * Cardinality(ps \cap qs) >= 98 * Cardinality(ps \cup qs)
          /\ 50 * Max({x - y, -(x - y)}) < Cardinality(ps) * Cardinality(qs)
    BY DEF RedundantRules, ps, qs
  <2>2. RedundantRules(q, p, cases) <=>
          /\ 100 * Cardinality(qs \cap ps) >= 98 * Cardinality(qs \cup ps)
          /\ 50 * Max({y - x, -(y - x)}) < Cardinality(qs) * Cardinality(ps)
    BY DEF RedundantRules, ps, qs
  <2> HIDE DEF x, y
  <2> QED
    BY <1>5, <1>6, <1>7, <2>1, <2>2
<1>9. SharesDependency(p, q, cases) => SharesDependency(q, p, cases)
  BY <1>7 DEF SharesDependency, ps, qs
<1> QED
  BY <1>8, <1>9

-----------------------------------------------------------------------------
\* No rule repeats another of its family.
Clear(s, cases) ==
    \A j \in 1..Len(s) : \A i \in 1..j - 1 :
        ~RedundantRules(s[j], s[i], cases) \/ IsUnary(s[j]) # IsUnary(s[i])

\* A list that grows stays clear.
LEMMA GrownClear ==
    ASSUME NEW S, NEW s \in Seq(S), NEW base \in Seq(S), NEW order, NEW family, NEW limit, NEW cap,
           NEW withinFamily, NEW cases, Clear(base, cases),
           Grown(s, base, order, family, limit, cap, withinFamily, cases)
    PROVE  Clear(s, cases)
<1>1. Len(s) \in Nat /\ Len(base) \in Nat
  BY LenProperties
<1>2. SUFFICES ASSUME NEW j \in 1..Len(s), NEW i \in 1..j - 1
              PROVE  ~RedundantRules(s[j], s[i], cases) \/ IsUnary(s[j]) # IsUnary(s[i])
  BY DEF Clear
<1>3. CASE j > Len(base)
  BY <1>3 DEF Grown, Meets
<1>4. CASE ~(j > Len(base))
  <2>1. j \in 1..Len(base) /\ i \in 1..Len(base)
    BY <1>1, <1>4
  <2> QED
    BY <2>1 DEF Grown, Clear
<1> QED
  BY <1>3, <1>4

\* What has been said of a selection that depends on the rules alone.
Selected(r, order, cap, cases) ==
    /\ r \in Seq(ToSet(order)) /\ Len(r) <= cap /\ Clear(r, cases)
    /\ \A p \in ToSet(order) :
         /\ Len(r) < cap => \E q \in ToSet(r) : q = p \/ RedundantRules(p, q, cases)
         /\ cap >= 2 => \E q \in ToSet(r) : IsUnary(q) = IsUnary(p)

\* The last pass fills up to the cap, whatever the first ones have reserved.
LEMMA LastPass ==
    ASSUME NEW S, NEW order \in Seq(S), NEW cap \in Nat, cap > 0, NEW cases,
           NEW base \in Seq(ToSet(order)), Len(base) <= cap, Clear(base, cases)
    PROVE  LET r == Retain(base, order, ToSet(order), cap, cap, FALSE, cases)
           IN  /\ r \in Seq(ToSet(order)) /\ Len(r) <= cap /\ Clear(r, cases)
               /\ \A p \in ToSet(order) :
                    Len(r) < cap => \E q \in ToSet(r) : q = p \/ RedundantRules(p, q, cases)
               /\ ToSet(base) \subseteq ToSet(r)
               /\ ToSet(order) # {} => ToSet(r) # {}
<1> DEFINE all == ToSet(order)
           r == Retain(base, order, all, cap, cap, FALSE, cases)
<1>1. order \in Seq(all)
  BY LenProperties, ElementOfSeq, IsASeq DEF ToSet
<1>2. /\ r \in Seq(all)
      /\ Grown(r, base, order, all, cap, cap, FALSE, cases)
      /\ Len(r) < cap /\ Len(r) < Len(base) + cap => \A p \in all \cap all : Settled(p, r, FALSE, cases)
  <2> HIDE DEF all
  <2> QED
    BY <1>1, RetainFacts DEF all
<1>3. Len(r) \in Nat /\ Len(base) \in Nat /\ DOMAIN r = 1..Len(r) /\ DOMAIN base = 1..Len(base)
  <2> HIDE DEF r, all
  <2> QED
    BY <1>2, LenProperties DEF all
<1> HIDE DEF r
<1>4. Len(r) <= cap /\ Clear(r, cases)
  <2>1. Len(r) <= cap
    BY <1>2 DEF Grown
  <2> HIDE DEF all
  <2>2. base \in Seq(all)
    BY DEF all
  <2>3. Clear(r, cases)
    BY <1>2, <2>2, GrownClear
  <2> QED
    BY <2>1, <2>3
<1>5. Len(r) < cap => \A p \in all : Settled(p, r, FALSE, cases)
  <2>1. Len(r) < cap => Len(r) < Len(base) + cap
    BY <1>3
  <2>2. all \cap all = all
    OBVIOUS
  <2> HIDE DEF all
  <2> QED
    BY <1>2, <2>1, <2>2
<1>6. ToSet(base) \subseteq ToSet(r)
  <2>1. \A i \in 1..Len(base) : i \in 1..Len(r) /\ r[i] = base[i]
    BY <1>2, <1>3 DEF Grown
  <2> QED
    BY <1>3, <2>1 DEF ToSet
<1>7. ToSet(order) # {} => ToSet(r) # {}
  <2>1. CASE Len(r) < cap
    BY <1>5, <2>1 DEF Settled
  <2>2. CASE ~(Len(r) < cap)
    <3>1. 1 \in DOMAIN r
      BY <1>3, <2>2
    <3> QED
      BY <3>1 DEF ToSet
  <2> QED
    BY <2>1, <2>2
<1> QED
  BY <1>2, <1>4, <1>5, <1>6, <1>7 DEF Settled, Meets, r

\* A reserved share is not empty: a pass for a family of which the list so far
\* has no rule takes one, as long as there is room for it.
LEMMA ReservedPass ==
    ASSUME NEW order, order \in Seq(ToSet(order)), NEW family \in SUBSET ToSet(order), family # {},
           NEW limit \in Nat, limit > 0, NEW cap \in Nat, NEW cases,
           NEW base \in Seq(ToSet(order)), Len(base) < cap, Clear(base, cases),
           \A q \in ToSet(base) : \A p \in family : IsUnary(q) # IsUnary(p)
    PROVE  LET r == Retain(base, order, family, limit, cap, TRUE, cases)
           IN  /\ r \in Seq(ToSet(order)) /\ Len(r) <= cap /\ Len(r) <= Len(base) + limit
               /\ Clear(r, cases)
               /\ ToSet(base) \subseteq ToSet(r) /\ ToSet(r) \subseteq ToSet(base) \cup family
               /\ \E q \in family : q \in ToSet(r)
<1> DEFINE all == ToSet(order)
           r == Retain(base, order, family, limit, cap, TRUE, cases)
<1>1. /\ r \in Seq(all)
      /\ Grown(r, base, order, family, limit, cap, TRUE, cases)
      /\ Len(r) < cap /\ Len(r) < Len(base) + limit =>
           \A p \in all \cap family : Settled(p, r, TRUE, cases)
  <2>1. order \in Seq(all) /\ base \in Seq(all)
    OBVIOUS
  <2> HIDE DEF all
  <2> QED
    BY <2>1, RetainFacts DEF all
<1>2. /\ Len(r) \in Nat /\ Len(base) \in Nat /\ DOMAIN r = 1..Len(r) /\ DOMAIN base = 1..Len(base)
      /\ base \in Seq(all)
  <2>1. base \in Seq(all)
    OBVIOUS
  <2> HIDE DEF r, all
  <2> QED
    BY <1>1, <2>1, LenProperties
<1> HIDE DEF r, all
<1>3. Clear(r, cases) /\ Len(r) <= cap /\ Len(r) <= Len(base) + limit
  <2>1. Clear(r, cases)
    BY <1>1, <1>2, GrownClear
  <2> QED
    BY <1>1, <1>2, <2>1 DEF Grown
<1>4. /\ \A i \in 1..Len(base) : i \in 1..Len(r) /\ r[i] = base[i]
      /\ \A i \in 1..Len(r) : i \in 1..Len(base) \/ r[i] \in family
  <2>1. /\ Len(base) <= Len(r) /\ \A i \in 1..Len(base) : r[i] = base[i]
        /\ \A i \in 1..Len(r) : i > Len(base) => r[i] \in family
    BY <1>1 DEF Grown
  <2>2. \A i \in 1..Len(base) : i \in 1..Len(r)
    BY <1>2, <2>1
  <2>3. \A i \in 1..Len(r) : i \in 1..Len(base) \/ i > Len(base)
    BY <1>2
  <2> QED
    BY <2>1, <2>2, <2>3
<1>5. ToSet(base) \subseteq ToSet(r) /\ ToSet(r) \subseteq ToSet(base) \cup family
  <2>1. ToSet(base) \subseteq ToSet(r)
    BY <1>2, <1>4 DEF ToSet
  <2>2. ToSet(r) \subseteq ToSet(base) \cup family
    BY <1>2, <1>4 DEF ToSet
  <2> QED
    BY <2>1, <2>2
<1>6. Len(r) > Len(base)
  <2> SUFFICES ASSUME ~(Len(r) > Len(base)) PROVE FALSE
    OBVIOUS
  <2>1. Len(r) < cap /\ Len(r) < Len(base) + limit
    BY <1>2
  <2>2. PICK p \in family : p \in all
    BY DEF all
  <2>3. PICK q \in ToSet(r) : q = p \/ Meets(p, q, TRUE, cases)
    BY <1>1, <2>1, <2>2 DEF Settled
  <2>4. IsUnary(q) = IsUnary(p)
    BY <2>3 DEF Meets
  <2>5. PICK i \in 1..Len(r) : r[i] = q
    BY <1>2 DEF ToSet
  <2>6. i \in 1..Len(base)
    BY <1>2
  <2>7. q \in ToSet(base)
    BY <1>2, <1>4, <2>5, <2>6 DEF ToSet
  <2> QED
    BY <2>4, <2>7
<1>7. Len(r) \in 1..Len(r) /\ ~(Len(r) \in 1..Len(base))
  BY <1>2, <1>6
<1>8. r[Len(r)] \in family /\ r[Len(r)] \in ToSet(r)
  BY <1>2, <1>4, <1>7 DEF ToSet
<1> QED
  BY <1>1, <1>3, <1>5, <1>8 DEF r, all

\* What the selection returns.
LEMMA SelectFacts ==
    ASSUME NEW S, NEW order \in Seq(S), NEW cap \in Nat \ {0}, NEW cases
    PROVE  Selected(SelectRules(order, cap, cases), order, cap, cases)
<1> DEFINE all == ToSet(order)
           unary == {p \in all : IsUnary(p)}
           deeper == all \ unary
           quota == UnaryQuota(cap)
           first == Retain(<<>>, order, unary, quota, cap, TRUE, cases)
           second == Retain(first, order, deeper, cap - quota, cap, TRUE, cases)
           last(base) == Retain(base, order, all, cap, cap, FALSE, cases)
           r == SelectRules(order, cap, cases)
<1>1. order \in Seq(all)
  BY LenProperties, ElementOfSeq, IsASeq DEF ToSet
<1>2. <<>> \in Seq(all) /\ Len(<<>>) = 0 /\ Clear(<<>>, cases) /\ ToSet(<<>>) = {}
  BY DEF Clear, ToSet
<1>3. CASE unary = {} \/ deeper = {}
  <2>1. r = last(<<>>)
    BY <1>3 DEF SelectRules
  <2>2. /\ r \in Seq(all) /\ Len(r) <= cap /\ Clear(r, cases)
        /\ \A p \in all : Len(r) < cap => \E q \in ToSet(r) : q = p \/ RedundantRules(p, q, cases)
        /\ all # {} => ToSet(r) # {}
    <3>1. Len(<<>>) <= cap /\ cap > 0 /\ cap \in Nat
      BY <1>2
    <3> HIDE DEF r
    <3> QED
      BY <1>2, <2>1, <3>1, LastPass DEF all
  <2> HIDE DEF r
  <2>3. ToSet(r) \subseteq all
    BY <2>2, LenProperties, ElementOfSeq DEF ToSet
  <2>4. ASSUME NEW p \in all PROVE \E q \in ToSet(r) : IsUnary(q) = IsUnary(p)
    <3>1. PICK q \in ToSet(r) : q \in all
      BY <2>2, <2>3
    <3>2. (\A x \in all : IsUnary(x)) \/ \A x \in all : ~IsUnary(x)
      BY <1>3
    <3>3. IsUnary(q) = IsUnary(p)
      BY <3>1, <3>2 DEF IsUnary
    <3> QED
      BY <3>3
  <2> QED
    BY <2>2, <2>4 DEF Selected, r
<1>4. CASE unary # {} /\ deeper # {} /\ cap = 1
  <2>1. r = Retain(<<>>, order, unary, cap, cap, FALSE, cases)
    BY <1>4 DEF SelectRules
  <2> HIDE DEF r, unary
  <2>2. /\ r \in Seq(all)
        /\ Grown(r, <<>>, order, unary, cap, cap, FALSE, cases)
        /\ Len(r) < cap /\ Len(r) < Len(<<>>) + cap =>
              \A p \in all \cap unary : Settled(p, r, FALSE, cases)
    <3> HIDE DEF all
    <3> QED
      BY <1>1, <1>2, <2>1, RetainFacts DEF all
  <2>3. Len(r) \in Nat /\ DOMAIN r = 1..Len(r)
    <3> HIDE DEF all
    <3> QED
      BY <2>2, LenProperties
  <2>4. Len(r) = 1
    <3> SUFFICES ASSUME Len(r) # 1 PROVE FALSE
      OBVIOUS
    <3>1. Len(r) <= cap
      BY <1>2, <2>2 DEF Grown
    <3>2. Len(r) = 0
      BY <1>4, <2>3, <3>1
    <3>3. PICK p \in all : p \in unary
      BY <1>4 DEF unary
    <3>4. Len(r) < cap /\ Len(r) < Len(<<>>) + cap
      BY <1>2, <1>4, <3>2
    <3>5. Settled(p, r, FALSE, cases)
      BY <2>2, <3>3, <3>4
    <3> QED
      BY <2>3, <3>2, <3>5 DEF Settled, ToSet
  <2>5. Clear(r, cases)
    BY <2>4 DEF Clear
  <2>6. ~(Len(r) < cap) /\ ~(cap >= 2) /\ Len(r) <= cap
    BY <1>4, <2>4
  <2> QED
    BY <2>2, <2>5, <2>6 DEF Selected, r
<1>5. CASE unary # {} /\ deeper # {} /\ cap # 1
  <2>1. r = last(second)
    BY <1>5 DEF SelectRules
  <2>2. quota \in Nat /\ quota > 0 /\ cap - quota \in Nat /\ cap - quota > 0 /\ quota < cap
    BY <1>5 DEF UnaryQuota
  <2>3. /\ unary \in SUBSET all /\ deeper \in SUBSET all
        /\ \A p \in unary : \A q \in deeper : IsUnary(p) # IsUnary(q)
        /\ \A p \in unary : \A q \in unary : IsUnary(q) = IsUnary(p)
        /\ \A p \in deeper : \A q \in deeper : IsUnary(q) = IsUnary(p)
    BY DEF IsUnary
  <2>4. cap \in Nat /\ cap > 0
    OBVIOUS
  <2> HIDE DEF quota, unary, deeper, r
  <2>5. /\ first \in Seq(all) /\ Len(first) <= cap /\ Len(first) <= Len(<<>>) + quota
        /\ Clear(first, cases)
        /\ ToSet(first) \subseteq ToSet(<<>>) \cup unary
        /\ \E q \in unary : q \in ToSet(first)
    BY <1>1, <1>2, <1>5, <2>2, <2>3, <2>4, ReservedPass
  <2> HIDE DEF first
  <2>6. /\ second \in Seq(all) /\ Len(second) <= cap
        /\ Clear(second, cases)
        /\ ToSet(first) \subseteq ToSet(second)
        /\ \E q \in deeper : q \in ToSet(second)
    <3>1. Len(first) \in Nat /\ Len(first) < cap
      <4>1. Len(first) \in Nat
        BY <2>5, LenProperties
      <4> QED
        BY <1>2, <2>2, <2>4, <2>5, <4>1
    <3>2. \A q \in ToSet(first) : \A p \in deeper : IsUnary(q) # IsUnary(p)
      BY <1>2, <2>3, <2>5
    <3> QED
      BY <1>1, <1>5, <2>2, <2>3, <2>4, <2>5, <3>1, <3>2, ReservedPass
  <2> HIDE DEF second
  <2>7. /\ r \in Seq(all) /\ Len(r) <= cap /\ Clear(r, cases)
        /\ \A p \in all : Len(r) < cap => \E q \in ToSet(r) : q = p \/ RedundantRules(p, q, cases)
        /\ ToSet(second) \subseteq ToSet(r)
    BY <1>1, <2>1, <2>4, <2>6, LastPass DEF all
  <2>8. ASSUME NEW p \in all PROVE \E q \in ToSet(r) : IsUnary(q) = IsUnary(p)
    <3>1. CASE p \in unary
      BY <2>3, <2>5, <2>6, <2>7, <3>1
    <3>2. CASE p \in deeper
      <4>1. PICK q \in deeper : q \in ToSet(r)
        BY <2>6, <2>7
      <4>2. IsUnary(q) = IsUnary(p)
        BY <2>3, <3>2, <4>1
      <4> QED
        BY <4>1, <4>2
    <3> QED
      BY <3>1, <3>2 DEF deeper
  <2> QED
    BY <2>7, <2>8 DEF Selected, r
<1> QED
  BY <1>3, <1>4, <1>5

-----------------------------------------------------------------------------
\* The pairs of two rules, and the union of their roots.
PairsOf(rules) == {p \in (DOMAIN rules) \X (DOMAIN rules) : p[1] < p[2]}
Merged(p, roots, rules, cases) ==
    IF SharesDependency(rules[p[1]], rules[p[2]], cases)
    THEN [k \in DOMAIN roots |-> IF roots[k] = roots[p[2]] THEN roots[p[1]] ELSE roots[k]]
    ELSE roots
RootsAt(g, s, rules, cases) ==
    IF s = {} THEN [k \in DOMAIN rules |-> k]
    ELSE Merged(Some(s), g[s \ {Some(s)}], rules, cases)
Rooting(rules, cases) ==
    CHOOSE g : g = [s \in SUBSET PairsOf(rules) |-> RootsAt(g, s, rules, cases)]

\* The roots are the value, at all pairs, of the function that is chosen.
LEMMA RootsIs ==
    ASSUME NEW rules, NEW cases
    PROVE  RootsOf(rules, cases) = Rooting(rules, cases)[PairsOf(rules)]
BY DEF RootsOf, Rooting, PairsOf, RootsAt, Merged, Some, FoldSet, MapThenFoldSet

\* There is such a function.
LEMMA RootingExists ==
    ASSUME NEW rules, NEW cases, IsFiniteSet(PairsOf(rules))
    PROVE  \A s \in SUBSET PairsOf(rules) :
               Rooting(rules, cases)[s] = RootsAt(Rooting(rules, cases), s, rules, cases)
<1> DEFINE R == PairsOf(rules)
           Upto(n) == {s \in SUBSET R : Cardinality(s) <= n}
           at(g, s) == RootsAt(g, s, rules, cases)
           Good(n) == \E g : g = [s \in Upto(n) |-> at(g, s)]
           Bad == {n \in Nat : ~Good(n)}
<1> HIDE DEF R
<1>0. IsFiniteSet(R)
  BY DEF R
<1>1. \A s \in SUBSET R : IsFiniteSet(s) /\ Cardinality(s) \in Nat /\ Cardinality(s) <= Cardinality(R)
  BY <1>0, FS_Subset, FS_CardinalityType
<1>2. \A s \in SUBSET R : Cardinality(s) = 0 <=> s = {}
  BY <1>1, FS_EmptySet
<1>3. \A s \in SUBSET R : s # {} => s \ {Some(s)} \in SUBSET R /\ Cardinality(s \ {Some(s)}) = Cardinality(s) - 1
  BY <1>1, SomeIn, FS_RemoveElement
<1>4. Good(0)
  <2> DEFINE g == [s \in Upto(0) |-> [k \in DOMAIN rules |-> k]]
  <2>1. \A s \in Upto(0) : s = {}
    BY <1>1, <1>2
  <2>2. g = [s \in Upto(0) |-> at(g, s)]
    BY <2>1 DEF RootsAt
  <2> QED
    BY <2>2
<1>5. ASSUME NEW n \in Nat, Good(n) PROVE Good(n + 1)
  <2>1. PICK g : g = [s \in Upto(n) |-> at(g, s)]
    BY <1>5
  <2> DEFINE h == [s \in Upto(n + 1) |-> at(g, s)]
  <2>2. ASSUME NEW s \in Upto(n + 1), s # {} PROVE h[s \ {Some(s)}] = g[s \ {Some(s)}]
    <3>1. s \ {Some(s)} \in Upto(n) /\ s \ {Some(s)} \in Upto(n + 1)
      BY <1>1, <1>3, <2>2
    <3> HIDE DEF Upto, at
    <3>2. g[s \ {Some(s)}] = at(g, s \ {Some(s)})
      BY <2>1, <3>1
    <3> QED
      BY <3>1, <3>2
  <2> HIDE DEF h
  <2>3. \A s \in Upto(n + 1) : at(h, s) = at(g, s)
    BY <2>2 DEF RootsAt
  <2>4. h = [s \in Upto(n + 1) |-> at(h, s)]
    BY <2>3 DEF h
  <2> QED
    BY <2>4
<1> HIDE DEF Good
<1>6. Bad = {}
  <2> SUFFICES ASSUME Bad # {} PROVE FALSE
    OBVIOUS
  <2>1. PICK m \in Bad : \A k \in Bad : m <= k
    BY Least
  <2>2. m # 0
    BY <1>4, <2>1
  <2>3. m - 1 \in Nat /\ m - 1 \notin Bad
    BY <2>1, <2>2
  <2> QED
    BY <1>5, <2>1, <2>3
<1>7. Good(Cardinality(R)) /\ Upto(Cardinality(R)) = SUBSET R
  BY <1>0, <1>1, <1>6, FS_CardinalityType
<1> DEFINE g == Rooting(rules, cases)
<1>8. g = [s \in SUBSET R |-> at(g, s)]
  BY <1>7 DEF Good, Rooting, R
<1> HIDE DEF g
<1> QED
  BY <1>8 DEF R, g

\* Rules of one dependency have one root.
LEMMA RootsShared ==
    ASSUME NEW S, NEW rules \in Seq(S), NEW cases
    PROVE  /\ DOMAIN RootsOf(rules, cases) = DOMAIN rules
           /\ \A i, j \in DOMAIN rules :
                i < j /\ SharesDependency(rules[i], rules[j], cases) =>
                    RootsOf(rules, cases)[i] = RootsOf(rules, cases)[j]
<1> DEFINE R == PairsOf(rules)
           g == Rooting(rules, cases)
           Right(T) ==
             /\ DOMAIN g[T] = DOMAIN rules
             /\ \A p \in T : SharesDependency(rules[p[1]], rules[p[2]], cases) =>
                                 g[T][p[1]] = g[T][p[2]]
           Bad == {T \in SUBSET R : ~Right(T)}
<1>1. Len(rules) \in Nat /\ DOMAIN rules = 1..Len(rules)
  BY LenProperties
<1>2. IsFiniteSet(R) /\ \A p \in R : p[1] \in DOMAIN rules /\ p[2] \in DOMAIN rules
  <2>1. IsFiniteSet(DOMAIN rules)
    BY <1>1, FS_Interval
  <2>2. IsFiniteSet((DOMAIN rules) \X (DOMAIN rules))
    BY <2>1, FS_Product
  <2>3. R \in SUBSET ((DOMAIN rules) \X (DOMAIN rules))
    BY DEF PairsOf
  <2> HIDE DEF R
  <2>4. IsFiniteSet(R)
    BY <2>2, <2>3, FS_Subset
  <2> QED
    BY <2>3, <2>4
<1>3. \A s \in SUBSET R : g[s] = RootsAt(g, s, rules, cases)
  BY <1>2, RootingExists
<1> HIDE DEF g, R
<1>4. Bad = {}
  <2> SUFFICES ASSUME Bad # {} PROVE FALSE
    OBVIOUS
  <2>1. PICK T \in Bad : IsFiniteSet(T) /\ \A U \in Bad : U \subseteq T => U = T
    <3>1. Bad \in SUBSET (SUBSET R)
      OBVIOUS
    <3> HIDE DEF Bad
    <3> QED
      BY <1>2, <3>1, SmallestSet
  <2>2. T \in SUBSET R /\ ~Right(T)
    BY <2>1
  <2>3. T # {}
    <3>1. g[{}] = [k \in DOMAIN rules |-> k]
      BY <1>3 DEF RootsAt
    <3>2. Right({})
      BY <3>1
    <3> QED
      BY <2>2, <3>2
  <2> DEFINE x == Some(T)
             U == T \ {x}
             old == g[U]
             new == g[T]
  <2>4. x \in T /\ x \in R /\ U \in SUBSET R /\ U # T /\ U \subseteq T
    BY <2>2, <2>3, SomeIn
  <2>5. Right(U)
    BY <2>1, <2>4
  <2>6. new = Merged(x, old, rules, cases)
    BY <1>3, <2>2, <2>3 DEF RootsAt
  <2>7. /\ DOMAIN old = DOMAIN rules
        /\ \A p \in U : SharesDependency(rules[p[1]], rules[p[2]], cases) => old[p[1]] = old[p[2]]
    BY <2>5
  <2> HIDE DEF new, old
  <2>8. DOMAIN new = DOMAIN rules
    BY <2>6, <2>7 DEF Merged
  <2>9. \A i, j \in DOMAIN rules : old[i] = old[j] => new[i] = new[j]
    BY <2>6, <2>7 DEF Merged
  <2>10. SharesDependency(rules[x[1]], rules[x[2]], cases) => new[x[1]] = new[x[2]]
    <3>1. x[1] \in DOMAIN rules /\ x[2] \in DOMAIN rules
      BY <1>2, <2>4
    <3> HIDE DEF x
    <3> QED
      BY <2>6, <2>7, <3>1 DEF Merged
  <2>11. \A p \in T : SharesDependency(rules[p[1]], rules[p[2]], cases) => new[p[1]] = new[p[2]]
    <3> TAKE p \in T
    <3>1. CASE p = x
      BY <2>10, <3>1
    <3>2. CASE p # x
      <4>1. p \in U /\ p[1] \in DOMAIN rules /\ p[2] \in DOMAIN rules
        BY <1>2, <2>2, <3>2
      <4> HIDE DEF U
      <4> QED
        BY <2>7, <2>9, <4>1
    <3> QED
      BY <3>1, <3>2
  <2> QED
    BY <2>2, <2>8, <2>11 DEF new
<1>5. Right(R)
  BY <1>4
<1>6. RootsOf(rules, cases) = g[R]
  BY RootsIs DEF g, R
<1>7. ASSUME NEW i \in DOMAIN rules, NEW j \in DOMAIN rules, i < j,
             SharesDependency(rules[i], rules[j], cases)
      PROVE  g[R][i] = g[R][j]
  <2>1. <<i, j>> \in R /\ <<i, j>>[1] = i /\ <<i, j>>[2] = j
    BY <1>7 DEF R, PairsOf
  <2> QED
    BY <1>5, <1>7, <2>1
<1> HIDE DEF Right
<1> QED
  BY <1>5, <1>6, <1>7 DEF Right

-----------------------------------------------------------------------------
\* The image of a finite domain is finite.
LEMMA FiniteImage ==
    ASSUME NEW D, IsFiniteSet(D), NEW f, DOMAIN f = D
    PROVE  IsFiniteSet({f[x] : x \in D})
<1> DEFINE T == {f[x] : x \in D}
           h == [x \in D |-> f[x]]
<1>1. h \in Surjection(D, T)
  BY DEF Surjection
<1> HIDE DEF h, T
<1>2. IsFiniteSet(T)
  BY <1>1, FS_Surjection
<1> QED
  BY <1>2 DEF T

\* Two things are finitely many.
LEMMA FinitePair == ASSUME NEW x, NEW y PROVE IsFiniteSet({x, y})
<1>1. IsFiniteSet({x}) /\ IsFiniteSet({y}) /\ {x, y} = {x} \cup {y}
  BY FS_Singleton
<1>2. IsFiniteSet({x} \cup {y})
  BY <1>1, FS_Union
<1> QED
  BY <1>1, <1>2

\* The union of finitely many finite sets.
LEMMA FiniteUnion ==
    ASSUME NEW D, IsFiniteSet(D), NEW f, DOMAIN f = D, \A x \in D : IsFiniteSet(f[x])
    PROVE  IsFiniteSet(UNION {f[x] : x \in D})
<1> DEFINE T == {f[x] : x \in D}
<1>1. IsFiniteSet(T) /\ \A y \in T : IsFiniteSet(y)
  BY FiniteImage
<1> HIDE DEF T
<1>2. IsFiniteSet(UNION T)
  BY <1>1, FS_UNION
<1> QED
  BY <1>2 DEF T

Logged == UNION {ToSet(interval) : interval \in Intervals}

\* A log has finitely many cases, and each has finitely many facts.
LEMMA CasesFinite ==
    ASSUME NEW entries \in Seq(Logged)
    PROVE  IsFiniteSet(CasesOf(entries)) /\ \A c \in CasesOf(entries) : IsFiniteSet(c.facts)
<1> DEFINE K == {k \in DOMAIN entries : entries[k] # OpenImpression}
           clicked(k) == [impression |-> k, click |-> TRUE, facts |-> entries[k],
                          fold |-> TemporalFold(entries, k)]
           skipped(k) == [impression |-> k, click |-> FALSE, facts |-> Opposite(entries[k]),
                          fold |-> TemporalFold(entries, k)]
           f == [k \in K |-> {clicked(k), skipped(k)}]
<1>1. IsFiniteSet(K)
  <2>1. Len(entries) \in Nat /\ DOMAIN entries = 1..Len(entries)
    BY LenProperties
  <2>2. IsFiniteSet(DOMAIN entries) /\ K \in SUBSET (DOMAIN entries)
    BY <2>1, FS_Interval
  <2> HIDE DEF K
  <2> QED
    BY <2>2, FS_Subset
<1>2. ASSUME NEW k \in K PROVE IsFiniteSet(entries[k]) /\ IsFiniteSet(Opposite(entries[k]))
  <2>1. entries[k] \in Logged /\ entries[k] # OpenImpression
    BY LenProperties, ElementOfSeq
  <2>2. IsFiniteSet(entries[k])
    BY <2>1, SelectionAssumption DEF Logged
  <2> DEFINE D == entries[k]
             turned(a) == <<a[1], IF a[2] = "left" THEN "right" ELSE IF a[2] = "right" THEN "left" ELSE a[2]>>
             h == [a \in D |-> turned(a)]
  <2> HIDE DEF turned
  <2>3. IsFiniteSet({h[a] : a \in D})
    <3>1. DOMAIN h = D
      OBVIOUS
    <3> HIDE DEF h, D
    <3> QED
      BY <2>2, <3>1, FiniteImage DEF D
  <2>4. {h[a] : a \in D} = Opposite(D)
    BY DEF Opposite, turned
  <2> QED
    BY <2>2, <2>3, <2>4
<1>3. CasesOf(entries) = UNION {f[k] : k \in K}
  BY DEF CasesOf
<1>4. IsFiniteSet(CasesOf(entries))
  <2>1. DOMAIN f = K
    OBVIOUS
  <2>2. \A k \in K : IsFiniteSet(f[k])
    <3> TAKE k \in K
    <3>1. f[k] = {clicked(k), skipped(k)}
      OBVIOUS
    <3> HIDE DEF f, clicked, skipped
    <3> QED
      BY <3>1, FinitePair
  <2> HIDE DEF f, K
  <2> QED
    BY <1>1, <1>3, <2>1, <2>2, FiniteUnion
<1>5. ASSUME NEW c \in CasesOf(entries) PROVE IsFiniteSet(c.facts)
  <2>1. PICK k \in K : c = clicked(k) \/ c = skipped(k)
    BY <1>3
  <2>2. c.facts = entries[k] \/ c.facts = Opposite(entries[k])
    BY <2>1
  <2> QED
    BY <1>2, <2>2
<1> QED
  BY <1>4, <1>5

\* So there are finitely many rules to choose from.
LEMMA RulesFinite ==
    ASSUME NEW entries \in Seq(Logged)
    PROVE  IsFiniteSet(CalibratedRules(entries))
<1> DEFINE cases == CasesOf(entries)
           facts == UNION {c.facts : c \in cases}
           f == [c \in cases |-> c.facts]
           one == [a \in facts |-> {a}]
           two == [ab \in facts \X facts |-> {ab[1], ab[2]}]
           ones == {one[a] : a \in facts}
           twos == {two[ab] : ab \in facts \X facts}
<1>1. IsFiniteSet(cases) /\ \A c \in cases : IsFiniteSet(c.facts)
  BY CasesFinite
<1> HIDE DEF cases
<1>2. IsFiniteSet(facts)
  <2>1. DOMAIN f = cases /\ \A c \in cases : IsFiniteSet(f[c])
    BY <1>1
  <2>2. facts = UNION {f[c] : c \in cases}
    OBVIOUS
  <2> HIDE DEF f, facts
  <2> QED
    BY <1>1, <2>1, <2>2, FiniteUnion
<1> HIDE DEF facts
<1>3. IsFiniteSet(ones)
  <2>1. DOMAIN one = facts
    OBVIOUS
  <2> HIDE DEF one
  <2> QED
    BY <1>2, <2>1, FiniteImage
<1>4. IsFiniteSet(twos)
  <2>1. DOMAIN two = facts \X facts /\ IsFiniteSet(facts \X facts)
    BY <1>2, FS_Product
  <2> HIDE DEF two
  <2> QED
    BY <2>1, FiniteImage
<1>5. CalibratedRules(entries) \in SUBSET (ones \cup twos)
  <2> SUFFICES ASSUME NEW p \in CandidateRules(cases) PROVE p \in ones \cup twos
    BY DEF CalibratedRules, cases
  <2>1. CASE p \in ConditionalPatterns(cases)
    <3>1. PICK a \in FrequentAtoms(cases), b \in FrequentAtoms(cases) : p = {a, b}
      BY <2>1 DEF ConditionalPatterns
    <3>2. a \in facts /\ b \in facts
      BY DEF FrequentAtoms, facts
    <3>3. <<a, b>> \in facts \X facts /\ two[<<a, b>>] = p
      BY <3>1, <3>2
    <3> QED
      BY <3>3
  <2>2. CASE p \notin ConditionalPatterns(cases)
    <3>1. PICK a \in EmittedUnaries(cases) : p = {a}
      BY <2>2 DEF CandidateRules
    <3>2. a \in facts
      BY DEF EmittedUnaries, facts
    <3> QED
      BY <3>1, <3>2
  <2> QED
    BY <2>1, <2>2
<1> HIDE DEF ones, twos
<1> QED
  BY <1>3, <1>4, <1>5, FS_Union, FS_Subset

\* An order by quality lists the calibrated rules.
LEMMA QualityOrderFacts ==
    ASSUME NEW entries \in Seq(Logged), NEW order \in QualityOrders(entries)
    PROVE  order \in Seq(CalibratedRules(entries)) /\ ToSet(order) = CalibratedRules(entries)
<1> DEFINE C == CalibratedRules(entries)
           n == Cardinality(C)
<1>1. IsFiniteSet(C) /\ n \in Nat
  BY RulesFinite, FS_CardinalityType
<1>2. order \in [1..n -> C] /\ \A i, j \in 1..n : i # j => order[i] # order[j]
  BY DEF QualityOrders, SetToSeqs
<1> HIDE DEF C
<1>3. IsFiniteSet(1..n) /\ Cardinality(1..n) = n
  <2> HIDE DEF n
  <2> QED
    BY <1>1, FS_Interval
<1>4. order \in Surjection(1..n, C)
  <2>1. order \in Injection(1..n, C)
    BY <1>2 DEF Injection, IsInjective
  <2> QED
    BY <1>1, <1>3, <2>1, FS_Injection
<1>5. order \in Seq(C)
  BY <1>1, <1>2
<1>6. ToSet(order) = C
  BY <1>2, <1>4 DEF Surjection, ToSet
<1> QED
  BY <1>5, <1>6 DEF C

\* A semantic seed is no rule of its own.
LEMMA SeedsApart ==
    ASSUME NEW cases, NEW p \in CandidateRules(cases), NEW a \in p, a[1] \in SemanticPredicates
    PROVE  ~IsUnary(p)
<1>1. CASE p \in ConditionalPatterns(cases)
  <2>1. PICK x \in SemanticSeeds(cases), y \in FrequentAtoms(cases) : p = {x, y} /\ y[1] \in ContextPredicates
    BY <1>1 DEF ConditionalPatterns
  <2>2. x[1] \in SemanticPredicates
    BY DEF SemanticSeeds
  <2>3. x # y
    BY <2>1, <2>2, SelectionAssumption
  <2>4. Cardinality(p) # 1
    <3> SUFFICES ASSUME Cardinality(p) = 1 PROVE FALSE
      OBVIOUS
    <3>1. IsFiniteSet(p)
      BY <2>1, FinitePair
    <3>2. PICK z : p = {z}
      BY <3>1, FS_Singleton
    <3> QED
      BY <2>1, <2>3, <3>2
  <2> QED
    BY <2>4 DEF IsUnary
<1>2. CASE p \notin ConditionalPatterns(cases)
  <2>1. PICK b \in EmittedUnaries(cases) \ SemanticSeeds(cases) : p = {b}
    BY <1>2 DEF CandidateRules
  <2>2. a = b /\ a \in EmittedUnaries(cases) /\ a \notin SemanticSeeds(cases)
    BY <2>1
  <2> QED
    BY <2>2 DEF SemanticSeeds
<1> QED
  BY <1>1, <1>2

-----------------------------------------------------------------------------
\* What the mined rules are in the model's terms.
MinedAs(r, cap, entries) ==
    LET roots == RootsOf(r, CasesOf(entries))
    IN  [cap |-> cap, rules |-> [k \in DOMAIN r |-> [premises |-> r[k], root |-> roots[k]]]]

\* A selection of the calibrated rules is sound.
LEMMA SelectionIsSound ==
    ASSUME NEW entries \in Seq(Logged), NEW cap \in Nat, NEW order \in QualityOrders(entries),
           NEW r, Selected(r, order, cap, CasesOf(entries)), NEW m, m = MinedAs(r, cap, entries)
    PROVE  SoundFor(m, entries)
<1> DEFINE cases == CasesOf(entries)
           C == CalibratedRules(entries)
           rules == m.rules
           roots == RootsOf(r, cases)
           kept == {x.premises : x \in ToSet(rules)}
<1>1. order \in Seq(C) /\ ToSet(order) = C /\ IsFiniteSet(cases)
  BY QualityOrderFacts, CasesFinite
<1>2. /\ r \in Seq(C) /\ Len(r) <= cap /\ Clear(r, cases)
      /\ \A p \in C : /\ Len(r) < cap => \E q \in ToSet(r) : q = p \/ RedundantRules(p, q, cases)
                      /\ cap >= 2 => \E q \in ToSet(r) : IsUnary(q) = IsUnary(p)
  BY <1>1 DEF Selected
<1>3. /\ m.cap = cap /\ rules = [k \in DOMAIN r |-> [premises |-> r[k], root |-> roots[k]]]
  BY DEF MinedAs
<1>4. Len(r) \in Nat /\ DOMAIN r = 1..Len(r) /\ \A k \in 1..Len(r) : r[k] \in C
  <2> HIDE DEF C
  <2> QED
    BY <1>2, LenProperties, ElementOfSeq
<1> HIDE DEF C, rules, roots, cases
<1>5. /\ DOMAIN rules = 1..Len(r) /\ Len(rules) = Len(r)
      /\ \A k \in 1..Len(r) : rules[k].premises = r[k] /\ rules[k].root = roots[k]
  BY <1>3, <1>4
<1>6. kept = ToSet(r) /\ kept \subseteq C
  <2>1. \A x \in kept : \E k \in 1..Len(r) : x = r[k]
    BY <1>5 DEF ToSet
  <2>2. \A k \in 1..Len(r) : r[k] \in kept
    BY <1>5 DEF ToSet
  <2>3. ToSet(r) = {r[k] : k \in 1..Len(r)}
    BY <1>4 DEF ToSet
  <2> HIDE DEF kept
  <2> QED
    BY <1>4, <2>1, <2>2, <2>3
<1>7. ASSUME cap >= 2, NEW unary \in BOOLEAN, \E p \in C : IsUnary(p) = unary
      PROVE  \E p \in kept : IsUnary(p) = unary
  <2>1. PICK p \in C : IsUnary(p) = unary
    BY <1>7
  <2>2. PICK q \in ToSet(r) : IsUnary(q) = IsUnary(p)
    BY <1>2, <1>7
  <2> HIDE DEF kept
  <2> QED
    BY <1>6, <2>1, <2>2
<1>8. Len(rules) < cap => \A p \in C \ kept : \E q \in kept : RedundantRules(p, q, cases)
  <2> HIDE DEF kept
  <2> QED
    BY <1>2, <1>5, <1>6
<1>9. ASSUME NEW i \in DOMAIN rules, NEW j \in DOMAIN rules, i < j
      PROVE  \/ ~RedundantRules(rules[i].premises, rules[j].premises, cases)
             \/ IsUnary(rules[i].premises) # IsUnary(rules[j].premises)
  <2>1. i \in 1..Len(r) /\ j \in 1..Len(r) /\ i \in 1..j - 1
    BY <1>5, <1>9
  <2>2. ~RedundantRules(r[j], r[i], cases) \/ IsUnary(r[j]) # IsUnary(r[i])
    BY <1>2, <2>1 DEF Clear
  <2>3. RedundantRules(r[i], r[j], cases) => RedundantRules(r[j], r[i], cases)
    BY <1>1, Symmetric
  <2> QED
    BY <1>5, <2>1, <2>2, <2>3
<1>10. ASSUME NEW p \in kept, NEW a \in p, a[1] \in SemanticPredicates PROVE ~IsUnary(p)
  <2>1. p \in C
    BY <1>6
  <2>2. p \in CandidateRules(cases)
    BY <2>1 DEF C, CalibratedRules, cases
  <2> QED
    BY <1>10, <2>2, SeedsApart
<1>11. ASSUME NEW x \in ToSet(rules), NEW y \in ToSet(rules),
              SharesDependency(x.premises, y.premises, cases)
       PROVE  x.root = y.root
  <2>1. PICK i \in 1..Len(r) : x = rules[i]
    BY <1>5 DEF ToSet
  <2>2. PICK j \in 1..Len(r) : y = rules[j]
    BY <1>5 DEF ToSet
  <2>3. /\ x.premises = r[i] /\ x.root = roots[i]
        /\ y.premises = r[j] /\ y.root = roots[j]
    BY <1>5, <2>1, <2>2
  <2>4. SharesDependency(r[i], r[j], cases) /\ SharesDependency(r[j], r[i], cases)
    BY <1>1, <1>11, <2>3, Symmetric
  <2>5. \A k, l \in DOMAIN r : k < l /\ SharesDependency(r[k], r[l], cases) => roots[k] = roots[l]
    BY <1>2, RootsShared DEF roots
  <2>6. i < j \/ i = j \/ j < i
    BY <1>4
  <2> QED
    BY <1>4, <2>3, <2>4, <2>5, <2>6
<1>12. Len(rules) <= m.cap
  BY <1>2, <1>3, <1>5
<1> HIDE DEF kept
<1> QED
  BY <1>3, <1>6, <1>7, <1>8, <1>9, <1>10, <1>11, <1>12 DEF SoundFor, kept, rules, cases, C

\* The log is one of impressions, and what was mined last is sound for it.
SelectionInv == impressions \in Seq(Logged) /\ SelectionSound

\* Nothing has been mined at the start.
LEMMA SelectionStarts == SelectionInit => SelectionInv
BY DEF SelectionInit, SelectionInv, SelectionSound

\* New impressions unset the rules.
LEMMA SelectionRecords ==
    ASSUME SelectionInv, NEW interval \in Intervals, RecordImpressions(interval)
    PROVE  SelectionInv'
<1>1. impressions' = impressions \o interval /\ mined' = NotMined
  BY DEF RecordImpressions
<1>2. impressions' \in Seq(Logged)
  <2>1. interval \in Seq(ToSet(interval)) /\ ToSet(interval) \subseteq Logged
    BY SelectionAssumption DEF Logged
  <2>2. interval \in Seq(Logged)
    BY <2>1, SeqMonotonic
  <2> QED
    BY <1>1, <2>2, ConcatProperties DEF SelectionInv
<1>3. SelectionSound'
  BY <1>1 DEF SelectionSound
<1> QED
  BY <1>2, <1>3 DEF SelectionInv

\* A mining run selects soundly, whatever the cap and however quality orders.
LEMMA SelectionMines ==
    ASSUME SelectionInv, NEW cap \in RuleCaps, NEW order \in QualityOrders(impressions),
           MinePairs(cap, order)
    PROVE  SelectionInv'
<1> DEFINE r == SelectRules(order, cap, CasesOf(impressions))
<1>1. impressions' = impressions /\ impressions \in Seq(Logged)
  BY DEF MinePairs, SelectionInv
<1>2. mined' = MinedAs(r, cap, impressions)
  BY DEF MinePairs, MinedAs
<1>3. cap \in Nat \ {0}
  BY SelectionAssumption
<1>4. order \in Seq(CalibratedRules(impressions))
  BY <1>1, QualityOrderFacts
<1>5. Selected(r, order, cap, CasesOf(impressions))
  BY <1>3, <1>4, SelectFacts
<1>6. SelectionSound'
  <2>1. SoundFor(mined', impressions)
    BY <1>1, <1>2, <1>3, <1>5, SelectionIsSound
  <2>2. SelectionSound' <=> (mined' # NotMined => SoundFor(mined', impressions'))
    BY DEF SelectionSound, SoundFor
  <2> HIDE DEF r
  <2> QED
    BY <1>1, <2>1, <2>2
<1> QED
  BY <1>1, <1>6 DEF SelectionInv

\* The inductive invariant: any log, and any run of the miner on it.
THEOREM SelectionInvHolds == SelectionSpec => []SelectionInv
<1>1. SelectionInv /\ [SelectionNext]_selectionVars => SelectionInv'
  <2> SUFFICES ASSUME SelectionInv, [SelectionNext]_selectionVars PROVE SelectionInv'
    OBVIOUS
  <2>1. CASE SelectionNext
    BY <2>1, SelectionRecords, SelectionMines DEF SelectionNext
  <2>2. CASE UNCHANGED selectionVars
    <3>1. impressions' = impressions /\ mined' = mined
      BY <2>2 DEF selectionVars
    <3> QED
      BY <3>1 DEF SelectionInv, SelectionSound
  <2> QED
    BY <2>1, <2>2
<1> QED
  BY <1>1, SelectionStarts, PTL DEF SelectionSpec

\* _mine_pairwise keeps the cap, gives both halves of the hybrid their share,
\* leaves no room while a rule is missing, keeps no rule that repeats another of
\* its family, never lets a semantic seed vote beside its patterns, and gives
\* rules of one evidence one root, whatever log it mines.
THEOREM SelectionSafe == SelectionSpec => []SelectionSound
<1>1. SelectionInv => SelectionSound
  BY DEF SelectionInv
<1> QED
  BY <1>1, SelectionInvHolds, PTL

(***************************************************************************)
(* The cut of the training log                                             *)
(***************************************************************************)

\* What a sequence has of a set.

AmongAt(f, s, S, n) ==
    IF n = 0 THEN <<>>
    ELSE IF s[n] \in S THEN Append(f[n - 1], s[n]) ELSE f[n - 1]
Amongs(s, S) == CHOOSE f : f = [n \in 0..Len(s) |-> AmongAt(f, s, S, n)]

\* It is the value at the end of the function that is chosen.
LEMMA AmongIs == ASSUME NEW s, NEW S PROVE Among(s, S) = Amongs(s, S)[Len(s)]
BY DEF Among, Amongs, AmongAt

\* There is such a function.
LEMMA AmongExists ==
    ASSUME NEW T, NEW s \in Seq(T), NEW S
    PROVE  /\ Len(s) \in Nat /\ DOMAIN s = 1..Len(s)
           /\ \A n \in 0..Len(s) : Amongs(s, S)[n] = AmongAt(Amongs(s, S), s, S, n)
<1> DEFINE N == Len(s)
           D == Seq(T)
           next(n, x) == IF s[n] \in S THEN Append(x, s[n]) ELSE x
           st == [n \in 1..N |-> [x \in D |-> next(n, x)]]
<1>1. N \in Nat /\ DOMAIN s = 1..N /\ \A n \in 1..N : s[n] \in T
  BY LenProperties, ElementOfSeq
<1>2. \A n \in 1..N : \A x \in D : next(n, x) \in D
  BY <1>1, AppendProperties
<1>3. <<>> \in D
  OBVIOUS
<1>4. \A n \in 1..N : \A x \in D : st[n][x] = next(n, x)
  <2> HIDE DEF next, D, N
  <2> QED
    OBVIOUS
<1> HIDE DEF st, next, D, N
<1>5. PICK g : Follows(g, N, <<>>, st) /\ \A n \in 0..N : g[n] \in D
  <2>1. Closed(st, N, D)
    BY <1>2, <1>4 DEF Closed
  <2> QED
    BY <1>1, <1>3, <2>1, Recursion
<1>6. ASSUME NEW n \in 0..N PROVE g[n] = AmongAt(g, s, S, n)
  <2>1. CASE n = 0
    BY <1>5, <2>1 DEF AmongAt, Follows
  <2>2. CASE n # 0
    <3>1. n \in 1..N /\ n - 1 \in 0..N
      BY <1>1, <2>2
    <3>2. g[n] = next(n, g[n - 1])
      BY <1>4, <1>5, <3>1 DEF Follows
    <3> QED
      BY <2>2, <3>2 DEF AmongAt, next
  <2> QED
    BY <2>1, <2>2
<1>7. g = [n \in 0..N |-> AmongAt(g, s, S, n)]
  BY <1>5, <1>6 DEF Follows
<1>8. Amongs(s, S) = [n \in 0..N |-> AmongAt(Amongs(s, S), s, S, n)]
  BY <1>7 DEF Amongs, N
<1> QED
  BY <1>1, <1>8 DEF N

\* It has what the sequence has, if the set has it.
LEMMA AmongFacts ==
    ASSUME NEW T, NEW s \in Seq(T), NEW S
    PROVE  Among(s, S) \in Seq(T) /\ ToSet(Among(s, S)) = ToSet(s) \cap S
<1> DEFINE N == Len(s)
           f == Amongs(s, S)
           Has(n) == /\ f[n] \in Seq(T)
                     /\ ToSet(f[n]) = {s[i] : i \in {j \in 1..n : s[j] \in S}}
           P == {n \in 0..N : Has(n)}
<1>1. N \in Nat /\ DOMAIN s = 1..N /\ \A n \in 1..N : s[n] \in T
  BY LenProperties, ElementOfSeq
<1>2. \A n \in 0..N : f[n] = AmongAt(f, s, S, n)
  BY AmongExists
<1> HIDE DEF f, N
<1>3. 0 \in P
  <2>1. f[0] = <<>> /\ <<>> \in Seq(T) /\ DOMAIN <<>> = {}
    BY <1>1, <1>2 DEF AmongAt
  <2> QED
    <3>1. ToSet(<<>>) = {}
      BY <2>1 DEF ToSet
    <3>2. {s[i] : i \in {j \in 1..0 : s[j] \in S}} = {}
      OBVIOUS
    <3>3. Has(0) /\ 0 \in 0..N
      BY <1>1, <2>1, <3>1, <3>2
    <3> HIDE DEF Has
    <3> QED
      BY <3>3
<1>4. ASSUME NEW n \in 0..N, n \in P, n < N PROVE n + 1 \in P
  <2>1. n + 1 \in 0..N /\ n + 1 \in 1..N /\ (n + 1) - 1 = n /\ n + 1 # 0
    BY <1>1, <1>4
  <2>2. f[n] \in Seq(T) /\ ToSet(f[n]) = {s[i] : i \in {j \in 1..n : s[j] \in S}}
    BY <1>4
  <2>3. f[n + 1] = IF s[n + 1] \in S THEN Append(f[n], s[n + 1]) ELSE f[n]
    BY <1>2, <2>1 DEF AmongAt
  <2>4. 1..n + 1 = (1..n) \cup {n + 1}
    BY <1>1
  <2>5. CASE s[n + 1] \in S
    <3> DEFINE t == Append(f[n], s[n + 1])
    <3>1. /\ t \in Seq(T) /\ Len(t) = Len(f[n]) + 1 /\ Len(f[n]) \in Nat
          /\ \A i \in 1..Len(f[n]) : t[i] = f[n][i]
          /\ t[Len(f[n]) + 1] = s[n + 1]
          /\ DOMAIN f[n] = 1..Len(f[n])
      BY <1>1, <2>1, <2>2, AppendProperties, LenProperties
    <3> HIDE DEF t
    <3>2. DOMAIN t = (DOMAIN f[n]) \cup {Len(f[n]) + 1}
      <4>1. DOMAIN t = 1..Len(t)
        BY <3>1, LenProperties
      <4> QED
        BY <3>1, <4>1
    <3>3. ToSet(t) = ToSet(f[n]) \cup {s[n + 1]}
      BY <3>1, <3>2 DEF ToSet
    <3>4. {s[i] : i \in {j \in 1..n + 1 : s[j] \in S}} =
            {s[i] : i \in {j \in 1..n : s[j] \in S}} \cup {s[n + 1]}
      BY <2>4, <2>5
    <3>5. f[n + 1] = t
      BY <2>3, <2>5 DEF t
    <3> QED
      BY <2>1, <2>2, <3>1, <3>3, <3>4, <3>5
  <2>6. CASE s[n + 1] \notin S
    <3>1. {j \in 1..n + 1 : s[j] \in S} = {j \in 1..n : s[j] \in S}
      BY <2>4, <2>6
    <3> QED
      BY <2>1, <2>2, <2>3, <2>6, <3>1
  <2> QED
    BY <2>5, <2>6
<1>5. N \in P
  <2>1. N \in 0..N
    BY <1>1
  <2> HIDE DEF P
  <2> QED
    BY <1>1, <1>3, <1>4, <2>1, Climb
<1>6. Among(s, S) = f[N]
  BY AmongIs DEF f, N
<1>7. Among(s, S) \in Seq(T) /\ ToSet(Among(s, S)) = {s[i] : i \in {j \in 1..N : s[j] \in S}}
  BY <1>5, <1>6
<1>8. {s[i] : i \in {j \in 1..N : s[j] \in S}} = ToSet(s) \cap S
  BY <1>1 DEF ToSet
<1> QED
  BY <1>7, <1>8

\* It depends on the members of the set only.
LEMMA AmongSame ==
    ASSUME NEW T, NEW s \in Seq(T), NEW t \in Seq(T), NEW S, Len(s) = Len(t),
           \A n \in 1..Len(s) : s[n] = t[n] \/ (s[n] \notin S /\ t[n] \notin S)
    PROVE  Among(s, S) = Among(t, S)
<1> DEFINE N == Len(s)
           f == Amongs(s, S)
           g == Amongs(t, S)
           P == {n \in 0..N : f[n] = g[n]}
<1>1. /\ N \in Nat
      /\ \A n \in 0..N : f[n] = AmongAt(f, s, S, n)
      /\ \A n \in 0..N : g[n] = AmongAt(g, t, S, n)
  BY AmongExists
<1>0. Among(s, S) = f[N] /\ Among(t, S) = g[N]
  BY AmongIs
<1>2. \A n \in 1..N : s[n] = t[n] \/ (s[n] \notin S /\ t[n] \notin S)
  OBVIOUS
<1> HIDE DEF f, g, N
<1>3. 0 \in P
  BY <1>1 DEF AmongAt
<1>4. ASSUME NEW n \in 0..N, n \in P, n < N PROVE n + 1 \in P
  <2>1. n + 1 \in 0..N /\ n + 1 \in 1..N /\ (n + 1) - 1 = n /\ n + 1 # 0
    BY <1>1, <1>4
  <2>2. /\ f[n + 1] = IF s[n + 1] \in S THEN Append(f[n], s[n + 1]) ELSE f[n]
        /\ g[n + 1] = IF t[n + 1] \in S THEN Append(g[n], t[n + 1]) ELSE g[n]
    BY <1>1, <2>1 DEF AmongAt
  <2> QED
    BY <1>2, <1>4, <2>1, <2>2
<1>5. N \in P
  <2>1. N \in 0..N
    BY <1>1
  <2> HIDE DEF P
  <2> QED
    BY <1>1, <1>3, <1>4, <2>1, Climb
<1> QED
  BY <1>0, <1>5

Swapped(s, i) == [s EXCEPT ![i] = s[i + 1], ![i + 1] = s[i]]

\* A swap of two neighbours.
LEMMA SwapFacts ==
    ASSUME NEW T, NEW s \in Seq(T), NEW i \in 1..Len(s) - 1
    PROVE  /\ Swapped(s, i) \in Seq(T) /\ Len(Swapped(s, i)) = Len(s)
           /\ DOMAIN s = 1..Len(s) /\ Len(s) \in Nat
           /\ i \in 1..Len(s) /\ i + 1 \in 1..Len(s)
           /\ Swapped(s, i)[i] = s[i + 1] /\ Swapped(s, i)[i + 1] = s[i]
           /\ \A n \in 1..Len(s) : n # i /\ n # i + 1 => Swapped(s, i)[n] = s[n]
<1>1. Len(s) \in Nat /\ DOMAIN s = 1..Len(s)
  BY LenProperties
<1>2. i \in DOMAIN s /\ i + 1 \in DOMAIN s /\ i # i + 1
  BY <1>1
<1>3. s[i] \in T /\ s[i + 1] \in T
  BY <1>1, <1>2, ElementOfSeq
<1> DEFINE t == [s EXCEPT ![i] = s[i + 1]]
<1>4. t \in Seq(T) /\ Len(t) = Len(s)
  BY <1>1, <1>2, <1>3, ExceptSeq
<1>5. Swapped(s, i) = [t EXCEPT ![i + 1] = s[i]]
  BY DEF Swapped
<1>6. Swapped(s, i) \in Seq(T) /\ Len(Swapped(s, i)) = Len(s)
  <2>1. DOMAIN t = 1..Len(t)
    BY <1>4, LenProperties
  <2> HIDE DEF t
  <2> QED
    BY <1>1, <1>2, <1>3, <1>4, <1>5, <2>1, ExceptSeq
<1>7. /\ Swapped(s, i)[i] = s[i + 1] /\ Swapped(s, i)[i + 1] = s[i]
      /\ \A n \in 1..Len(s) : n # i /\ n # i + 1 => Swapped(s, i)[n] = s[n]
  BY <1>1, <1>2 DEF Swapped
<1> QED
  BY <1>1, <1>2, <1>6, <1>7

\* Neighbours of which one is left out may change places.
LEMMA AmongSwap ==
    ASSUME NEW T, NEW s \in Seq(T), NEW S, NEW i \in 1..Len(s) - 1,
           ~(s[i] \in S /\ s[i + 1] \in S)
    PROVE  Among(Swapped(s, i), S) = Among(s, S)
<1> DEFINE N == Len(s)
           t == Swapped(s, i)
           f == Amongs(s, S)
           g == Amongs(t, S)
           P == {n \in 0..N : n # i => f[n] = g[n]}
<1>0. /\ t \in Seq(T) /\ Len(t) = N /\ N \in Nat /\ i \in 1..N /\ i + 1 \in 1..N
      /\ t[i] = s[i + 1] /\ t[i + 1] = s[i]
      /\ \A n \in 1..N : n # i /\ n # i + 1 => t[n] = s[n]
  BY SwapFacts
<1> HIDE DEF t
<1>1. /\ \A n \in 0..N : f[n] = AmongAt(f, s, S, n)
      /\ \A n \in 0..N : g[n] = AmongAt(g, t, S, n)
  BY <1>0, AmongExists
<1>2. Among(s, S) = f[N] /\ Among(t, S) = g[N]
  BY <1>0, AmongIs
<1> HIDE DEF f, g, N
<1>3. 0 \in P
  BY <1>0, <1>1 DEF AmongAt
<1>4. ASSUME NEW n \in 0..N, n \in P, n < N PROVE n + 1 \in P
  <2>1. n + 1 \in 0..N /\ n + 1 \in 1..N /\ (n + 1) - 1 = n /\ n + 1 # 0
    BY <1>0, <1>4
  <2>2. /\ f[n + 1] = IF s[n + 1] \in S THEN Append(f[n], s[n + 1]) ELSE f[n]
        /\ g[n + 1] = IF t[n + 1] \in S THEN Append(g[n], t[n + 1]) ELSE g[n]
    BY <1>1, <2>1 DEF AmongAt
  <2>3. CASE n + 1 = i
    BY <2>1, <2>3
  <2>4. CASE n = i
    <3>1. i - 1 \in 0..N /\ i \in 0..N /\ i # 0
      BY <1>0
    <3>2. /\ f[i] = IF s[i] \in S THEN Append(f[i - 1], s[i]) ELSE f[i - 1]
          /\ g[i] = IF t[i] \in S THEN Append(g[i - 1], t[i]) ELSE g[i - 1]
      BY <1>1, <3>1 DEF AmongAt
    <3>3. f[i - 1] = g[i - 1]
      <4> DEFINE Q == {m \in 0..i - 1 : f[m] = g[m]}
      <4>1. 0 \in Q
        BY <1>0, <1>1, <3>1 DEF AmongAt
      <4>2. ASSUME NEW m \in 0..i - 1, m \in Q, m < i - 1 PROVE m + 1 \in Q
        <5>1. m + 1 \in 0..N /\ m + 1 \in 1..N /\ (m + 1) - 1 = m /\ m + 1 # 0 /\ m + 1 # i /\ m + 1 # i + 1
                 /\ m + 1 \in 0..i - 1
          BY <1>0, <4>2
        <5>2. /\ f[m + 1] = IF s[m + 1] \in S THEN Append(f[m], s[m + 1]) ELSE f[m]
              /\ g[m + 1] = IF t[m + 1] \in S THEN Append(g[m], t[m + 1]) ELSE g[m]
          BY <1>1, <5>1 DEF AmongAt
        <5> QED
          BY <1>0, <4>2, <5>1, <5>2
      <4>3. i - 1 \in Nat /\ i - 1 \in 0..i - 1
        BY <1>0
      <4> HIDE DEF Q
      <4>4. i - 1 \in Q
        BY <4>1, <4>2, <4>3, Climb
      <4> QED
        BY <4>4 DEF Q
    <3> QED
      BY <1>0, <2>1, <2>2, <2>4, <3>2, <3>3
  <2>5. CASE n + 1 # i /\ n # i
    BY <1>0, <1>4, <2>1, <2>2, <2>5
  <2> QED
    BY <2>3, <2>4, <2>5
<1>5. N \in P
  <2>1. N \in 0..N
    BY <1>0
  <2> HIDE DEF P
  <2> QED
    BY <1>0, <1>3, <1>4, <2>1, Climb
<1>6. N # i
  BY <1>0
<1> QED
  BY <1>2, <1>5, <1>6 DEF t

-----------------------------------------------------------------------------
(* Sequences that follow each other *)

FlatAt(f, ss, n) == IF n = 1 THEN ss[n] ELSE f[n - 1] \o ss[n]
Flats(ss) == CHOOSE f : f = [n \in 1..Len(ss) |-> FlatAt(f, ss, n)]

\* Every element of the whole is one of a part.
LEMMA FlattenHas ==
    ASSUME NEW T, NEW ss \in Seq(Seq(T)), NEW x \in ToSet(FlattenSeq(ss))
    PROVE  \E k \in DOMAIN ss : x \in ToSet(ss[k])
<1> DEFINE N == Len(ss)
           D == Seq(T)
           next(n, y) == IF n = 1 THEN ss[n] ELSE y \o ss[n]
           st == [n \in 1..N |-> [y \in D |-> next(n, y)]]
           f == Flats(ss)
<1>1. N \in Nat /\ DOMAIN ss = 1..N /\ \A n \in 1..N : ss[n] \in Seq(T)
  BY LenProperties, ElementOfSeq
<1>2. \A n \in 1..N : \A y \in D : next(n, y) \in D
  BY <1>1, ConcatProperties
<1>3. <<>> \in D
  OBVIOUS
<1>4. \A n \in 1..N : \A y \in D : st[n][y] = next(n, y)
  <2> HIDE DEF next, D, N
  <2> QED
    OBVIOUS
<1>5. FlattenSeq(ss) = IF N = 0 THEN ss ELSE f[N]
  BY DEF FlattenSeq, Flats, FlatAt
<1> HIDE DEF st, next, D, N, f
<1>6. PICK h : Follows(h, N, <<>>, st) /\ \A n \in 0..N : h[n] \in D
  <2>1. Closed(st, N, D)
    BY <1>2, <1>4 DEF Closed
  <2> QED
    BY <1>1, <1>3, <2>1, Recursion
<1>7. f = [n \in 1..N |-> FlatAt(f, ss, n)]
  <2> DEFINE g == [n \in 1..N |-> h[n]]
  <2>1. ASSUME NEW n \in 1..N PROVE g[n] = FlatAt(g, ss, n)
    <3>1. n - 1 \in 0..N /\ (n # 1 => n - 1 \in 1..N)
      BY <1>1
    <3>2. h[n] = st[n][h[n - 1]] /\ h[n - 1] \in D
      BY <1>6, <3>1 DEF Follows
    <3>3. h[n] = next(n, h[n - 1])
      BY <1>4, <3>2
    <3>4. n # 1 => g[n - 1] = h[n - 1]
      BY <3>1
    <3>5. g[n] = h[n]
      OBVIOUS
    <3> HIDE DEF g
    <3> QED
      BY <3>3, <3>4, <3>5 DEF FlatAt, next
  <2>2. g = [n \in 1..N |-> FlatAt(g, ss, n)]
    <3>1. g = [n \in 1..N |-> g[n]]
      OBVIOUS
    <3> HIDE DEF g
    <3> QED
      BY <2>1, <3>1
  <2> HIDE DEF g
  <2> QED
    BY <2>2 DEF f, Flats, N
<1> DEFINE Has(n) == n # 0 => f[n] \in Seq(T) /\ \A y \in ToSet(f[n]) : \E k \in 1..n : y \in ToSet(ss[k])
           P == {n \in 0..N : Has(n)}
<1>8. 0 \in P
  BY <1>1
<1>9. ASSUME NEW n \in 0..N, n \in P, n < N PROVE n + 1 \in P
  <2>1. n + 1 \in 0..N /\ n + 1 \in 1..N /\ (n + 1) - 1 = n
    BY <1>1, <1>9
  <2>2. f[n + 1] = FlatAt(f, ss, n + 1)
    BY <1>7, <2>1
  <2>3. ss[n + 1] \in Seq(T)
    BY <1>1, <2>1
  <2>4. CASE n = 0
    <3>1. f[n + 1] = ss[n + 1] /\ n + 1 \in 1..n + 1
      BY <2>2, <2>4 DEF FlatAt
    <3>2. Has(n + 1)
      BY <2>3, <3>1
    <3> HIDE DEF Has
    <3> QED
      BY <2>1, <3>2
  <2>5. CASE n # 0
    <3>1. f[n] \in Seq(T) /\ \A y \in ToSet(f[n]) : \E k \in 1..n : y \in ToSet(ss[k])
      BY <1>9, <2>5
    <3>2. f[n + 1] = f[n] \o ss[n + 1]
      <4>1. n + 1 # 1
        BY <1>9, <2>5
      <4> QED
        BY <2>1, <2>2, <4>1 DEF FlatAt
    <3> DEFINE a == f[n]
               b == ss[n + 1]
    <3>3. /\ a \o b \in Seq(T) /\ Len(a \o b) = Len(a) + Len(b) /\ Len(a) \in Nat /\ Len(b) \in Nat
          /\ \A i \in 1..Len(a) + Len(b) : (a \o b)[i] = IF i <= Len(a) THEN a[i] ELSE b[i - Len(a)]
          /\ DOMAIN a = 1..Len(a) /\ DOMAIN b = 1..Len(b) /\ DOMAIN (a \o b) = 1..Len(a \o b)
      BY <2>3, <3>1, ConcatProperties, LenProperties
    <3>4. ASSUME NEW y \in ToSet(a \o b) PROVE y \in ToSet(a) \/ y \in ToSet(b)
      <4>1. PICK i \in 1..Len(a) + Len(b) : (a \o b)[i] = y
        BY <3>3, <3>4 DEF ToSet
      <4> HIDE DEF a, b
      <4>2. CASE i <= Len(a)
        <5>1. i \in DOMAIN a /\ a[i] = y
          BY <3>3, <4>1, <4>2
        <5> QED
          BY <5>1 DEF ToSet
      <4>3. CASE ~(i <= Len(a))
        <5>1. i - Len(a) \in DOMAIN b /\ b[i - Len(a)] = y
          BY <3>3, <4>1, <4>3
        <5> QED
          BY <5>1 DEF ToSet
      <4> QED
        BY <4>2, <4>3
    <3>5. n + 1 \in 1..n + 1 /\ \A k \in 1..n : k \in 1..n + 1
      BY <1>9
    <3>6. f[n + 1] \in Seq(T) /\ \A y \in ToSet(f[n + 1]) : \E k \in 1..n + 1 : y \in ToSet(ss[k])
      BY <3>1, <3>2, <3>3, <3>4, <3>5
    <3> QED
      BY <2>1, <3>6
  <2> QED
    BY <2>4, <2>5
<1>10. N \in P
  <2>1. N \in 0..N
    BY <1>1
  <2> HIDE DEF P
  <2> QED
    BY <1>1, <1>8, <1>9, <2>1, Climb
<1>11. CASE N = 0
  <2>1. FlattenSeq(ss) = ss /\ DOMAIN ss = {}
    BY <1>1, <1>5, <1>11
  <2>2. x \in ToSet(ss)
    BY <2>1
  <2> QED
    BY <2>1, <2>2 DEF ToSet
<1>12. CASE N # 0
  BY <1>1, <1>5, <1>10, <1>12
<1> QED
  BY <1>11, <1>12

-----------------------------------------------------------------------------
(* The order of the impressions *)

\* The rows of an impression have times, and a first place.
LEMMA TimesFacts ==
    ASSUME NEW entries \in Seq(LogEvent), NEW imp \in Shown(entries)
    PROVE  /\ imp \in Impression
           /\ Times(entries, imp) \in SUBSET (1..LastTime)
           /\ Earliest(entries, imp) \in Times(entries, imp)
           /\ \A y \in Times(entries, imp) : Earliest(entries, imp) <= y
           /\ Latest(entries, imp) \in Times(entries, imp)
           /\ \A y \in Times(entries, imp) : y <= Latest(entries, imp)
           /\ FirstRow(entries, imp) \in 1..Len(entries)
           /\ entries[FirstRow(entries, imp)].impression = imp
<1>0. LastTime \in Nat
  BY SplitAssumption
<1>1. /\ Len(entries) \in Nat /\ DOMAIN entries = 1..Len(entries)
      /\ \A i \in DOMAIN entries : entries[i].impression \in Impression /\ entries[i].at \in 1..LastTime
  <2>1. Len(entries) \in Nat /\ DOMAIN entries = 1..Len(entries)
    BY LenProperties
  <2>2. \A i \in 1..Len(entries) : entries[i] \in LogEvent
    BY ElementOfSeq
  <2> QED
    BY <2>1, <2>2 DEF LogEvent
<1>2. PICK i \in DOMAIN entries : entries[i].impression = imp
  BY DEF Shown
<1> DEFINE T == Times(entries, imp)
           R == {j \in DOMAIN entries : entries[j].impression = imp}
<1>3. T \in SUBSET (1..LastTime) /\ T # {}
  BY <1>1, <1>2 DEF Times
<1>4. T \in SUBSET Nat /\ T \in SUBSET (0..LastTime)
  BY <1>0, <1>3
<1>5. R \in SUBSET Nat /\ R # {}
  BY <1>1, <1>2
<1> HIDE DEF T, R
<1>6. Min(T) \in T /\ \A y \in T : Min(T) <= y
  BY <1>3, <1>4, MinIs
<1>7. Max(T) \in T /\ \A y \in T : y <= Max(T)
  BY <1>0, <1>3, <1>4, MaxIs
<1>8. Min(R) \in R
  BY <1>5, MinIs
<1>9. Earliest(entries, imp) = Min(T) /\ Latest(entries, imp) = Max(T) /\ FirstRow(entries, imp) = Min(R)
  BY DEF Earliest, Latest, FirstRow, T, R
<1>10. FirstRow(entries, imp) \in DOMAIN entries /\ entries[FirstRow(entries, imp)].impression = imp
  BY <1>8, <1>9 DEF R
<1> QED
  BY <1>1, <1>2, <1>3, <1>6, <1>7, <1>9, <1>10 DEF T

\* Times and then rows order the impressions, none with another.
LEMMA BeforeFacts ==
    ASSUME NEW entries \in Seq(LogEvent)
    PROVE  /\ \A i, j \in Shown(entries) : i # j => IsEarlier(entries, i, j) \/ IsEarlier(entries, j, i)
           /\ \A i, j \in Shown(entries) : ~(IsEarlier(entries, i, j) /\ IsEarlier(entries, j, i))
           /\ \A i, j, k \in Shown(entries) :
                IsEarlier(entries, i, j) /\ IsEarlier(entries, j, k) => IsEarlier(entries, i, k)
           /\ \A i, j \in Shown(entries) :
                IsEarlier(entries, i, j) => Earliest(entries, i) <= Earliest(entries, j)
<1>1. \A i \in Shown(entries) :
        /\ Earliest(entries, i) \in Nat /\ FirstRow(entries, i) \in Nat
        /\ entries[FirstRow(entries, i)].impression = i
  <2> TAKE i \in Shown(entries)
  <2>1. Earliest(entries, i) \in 1..LastTime /\ FirstRow(entries, i) \in 1..Len(entries)
    BY TimesFacts
  <2>2. entries[FirstRow(entries, i)].impression = i
    BY TimesFacts
  <2>3. \A m, n : n \in 1..m => n \in Nat
    OBVIOUS
  <2> QED
    BY <2>1, <2>2, <2>3
<1>2. \A i, j \in Shown(entries) : FirstRow(entries, i) = FirstRow(entries, j) => i = j
  BY <1>1
<1> QED
  BY <1>1, <1>2 DEF IsEarlier

\* Finitely many impressions are shown.
LEMMA ShownFacts ==
    ASSUME NEW entries \in Seq(LogEvent)
    PROVE  /\ IsFiniteSet(Shown(entries)) /\ Cardinality(Shown(entries)) \in Nat
           /\ Len(entries) \in Nat /\ DOMAIN entries = 1..Len(entries)
<1>1. Len(entries) \in Nat /\ DOMAIN entries = 1..Len(entries)
  BY LenProperties
<1>2. IsFiniteSet(1..Len(entries))
  BY <1>1, FS_Interval
<1> DEFINE f == [i \in DOMAIN entries |-> entries[i].impression]
<1>3. f \in Surjection(DOMAIN entries, Shown(entries))
  BY DEF Surjection, Shown
<1> HIDE DEF f
<1>4. IsFiniteSet(Shown(entries))
  BY <1>1, <1>2, <1>3, FS_Surjection
<1> QED
  BY <1>1, <1>4, FS_CardinalityType

\* Each impression has a place of its own, and each place an impression.
LEMMA PlaceFacts ==
    ASSUME NEW entries \in Seq(LogEvent)
    PROVE  /\ \A i \in Shown(entries) : Position(entries, i) \in 1..Cardinality(Shown(entries))
           /\ \A i, j \in Shown(entries) : IsEarlier(entries, i, j) => Position(entries, i) < Position(entries, j)
           /\ \A k \in 1..Cardinality(Shown(entries)) : \E i \in Shown(entries) : Position(entries, i) = k
<1> DEFINE S == Shown(entries)
           n == Cardinality(S)
           Earlier(i) == {j \in S : IsEarlier(entries, j, i)}
           f == [i \in S |-> Position(entries, i)]
<1>1. IsFiniteSet(S) /\ n \in Nat
  BY ShownFacts
<1>2. \A i \in S : IsFiniteSet(Earlier(i)) /\ Cardinality(Earlier(i)) \in Nat
  BY <1>1, FS_Subset, FS_CardinalityType
<1>3. \A i \in S : Position(entries, i) = 1 + Cardinality(Earlier(i))
  BY DEF Position
<1>4. ASSUME NEW i \in S PROVE Position(entries, i) \in 1..n
  <2>1. Earlier(i) \in SUBSET S /\ i \notin Earlier(i)
    BY BeforeFacts
  <2>2. Earlier(i) # S
    BY <2>1
  <2> HIDE DEF S, Earlier
  <2>3. Cardinality(Earlier(i)) <= n /\ Cardinality(Earlier(i)) # n
    BY <1>1, <2>1, <2>2, FS_Subset
  <2> HIDE DEF n
  <2> QED
    BY <1>1, <1>2, <1>3, <2>3
<1>5. ASSUME NEW i \in S, NEW j \in S, IsEarlier(entries, i, j) PROVE Position(entries, i) < Position(entries, j)
  <2>1. Earlier(i) \in SUBSET Earlier(j) /\ i \in Earlier(j) /\ i \notin Earlier(i)
    BY <1>5, BeforeFacts
  <2>2. Earlier(i) # Earlier(j)
    BY <2>1
  <2>3. IsFiniteSet(Earlier(j))
    BY <1>2
  <2>4. Cardinality(Earlier(i)) \in Nat /\ Cardinality(Earlier(j)) \in Nat
    BY <1>2
  <2> HIDE DEF S, Earlier
  <2>5. Cardinality(Earlier(i)) <= Cardinality(Earlier(j)) /\ Cardinality(Earlier(i)) # Cardinality(Earlier(j))
    BY <2>1, <2>2, <2>3, FS_Subset
  <2> QED
    BY <1>3, <2>4, <2>5
<1>6. ASSUME NEW k \in 1..n PROVE \E i \in S : Position(entries, i) = k
  <2>1. f \in Injection(S, 1..n)
    <3>1. f \in [S -> 1..n]
      BY <1>4
    <3>2. ASSUME NEW i \in S, NEW j \in S, f[i] = f[j] PROVE i = j
      <4>1. Position(entries, i) = Position(entries, j) /\ Position(entries, i) \in Nat /\ Position(entries, j) \in Nat
        BY <1>4, <3>2
      <4>2. ~IsEarlier(entries, i, j) /\ ~IsEarlier(entries, j, i)
        BY <1>5, <4>1
      <4> QED
        BY <4>2, BeforeFacts
    <3> HIDE DEF f
    <3> QED
      BY <3>1, <3>2 DEF Injection, IsInjective
  <2> HIDE DEF f, S
  <2>2. IsFiniteSet(1..n) /\ Cardinality(1..n) = n
    BY <1>1, FS_Interval
  <2>3. f \in Surjection(S, 1..n)
    BY <1>1, <2>1, <2>2, FS_Injection
  <2>4. PICK i \in S : f[i] = k
    BY <2>3 DEF Surjection
  <2> QED
    BY <2>4 DEF f
<1> QED
  BY <1>4, <1>5, <1>6

\* The chronology lists the impressions, each once, and in order.
LEMMA ChronologyFacts ==
    ASSUME NEW entries \in Seq(LogEvent)
    PROVE  /\ Cardinality(Shown(entries)) \in Nat
           /\ Chronology(entries) \in Seq(Shown(entries))
           /\ Len(Chronology(entries)) = Cardinality(Shown(entries))
           /\ \A i \in Shown(entries) :
                \E k \in 1..Cardinality(Shown(entries)) : Chronology(entries)[k] = i
           /\ \A k \in 1..Cardinality(Shown(entries)) :
                /\ Chronology(entries)[k] \in Shown(entries)
                /\ Position(entries, Chronology(entries)[k]) = k
                /\ \A m \in 1..Cardinality(Shown(entries)) :
                     k < m => IsEarlier(entries, Chronology(entries)[k], Chronology(entries)[m])
<1> DEFINE S == Shown(entries)
           n == Cardinality(S)
           q == Chronology(entries)
<1>1. n \in Nat
  BY ShownFacts
<1>2. q = [k \in 1..n |-> CHOOSE i \in S : Position(entries, i) = k]
  BY DEF Chronology
<1>3. ASSUME NEW k \in 1..n PROVE q[k] \in S /\ Position(entries, q[k]) = k
  <2>1. \E i \in S : Position(entries, i) = k
    BY PlaceFacts
  <2>2. q[k] = CHOOSE i \in S : Position(entries, i) = k
    BY <1>2
  <2> HIDE DEF q
  <2> QED
    BY <2>1, <2>2
<1> HIDE DEF q
<1>4. q \in Seq(S) /\ Len(q) = n
  <2>1. q \in [1..n -> S]
    BY <1>2, <1>3
  <2> HIDE DEF n, S
  <2> QED
    BY <1>1, <2>1
<1>5. ASSUME NEW i \in S PROVE \E k \in 1..n : q[k] = i
  <2>1. Position(entries, i) \in 1..n
    BY PlaceFacts
  <2> DEFINE k == Position(entries, i)
  <2>2. q[k] \in S /\ Position(entries, q[k]) = k
    BY <1>3, <2>1
  <2>3. q[k] = i
    <3> SUFFICES ASSUME q[k] # i PROVE FALSE
      OBVIOUS
    <3>1. IsEarlier(entries, q[k], i) \/ IsEarlier(entries, i, q[k])
      BY <2>2, BeforeFacts
    <3>2. Position(entries, q[k]) < Position(entries, i) \/ Position(entries, i) < Position(entries, q[k])
      BY <2>2, <3>1, PlaceFacts
    <3> QED
      BY <1>1, <2>1, <2>2, <3>2
  <2> QED
    BY <2>1, <2>3
<1>6. ASSUME NEW k \in 1..n, NEW m \in 1..n, k < m PROVE IsEarlier(entries, q[k], q[m])
  <2>1. q[k] \in S /\ q[m] \in S /\ Position(entries, q[k]) = k /\ Position(entries, q[m]) = m
    BY <1>3
  <2>2. q[k] # q[m] /\ ~(m < k)
    BY <1>1, <1>6, <2>1
  <2>3. ~IsEarlier(entries, q[m], q[k])
    BY <2>1, <2>2, PlaceFacts
  <2> QED
    BY <2>1, <2>2, <2>3, BeforeFacts
<1> QED
  BY <1>1, <1>3, <1>4, <1>5, <1>6 DEF q

\* Whatever the order, two impressions neither overlap nor tie.
Apart(entries) ==
    \A i, j \in Shown(entries) :
      i # j => Latest(entries, i) < Earliest(entries, j) \/ Latest(entries, j) < Earliest(entries, i)

\* It is enough that neighbours do not.
LEMMA OrderedIsApart ==
    ASSUME NEW entries \in Seq(LogEvent)
    PROVE  /\ Ordered(entries) <=> Apart(entries)
           /\ Ordered(entries) =>
                \A k, m \in 1..Cardinality(Shown(entries)) :
                  k < m => Latest(entries, Chronology(entries)[k]) < Earliest(entries, Chronology(entries)[m])
<1> DEFINE S == Shown(entries)
           n == Cardinality(S)
           q == Chronology(entries)
<1>1. /\ n \in Nat /\ Len(q) = n
      /\ \A i \in S : \E k \in 1..n : q[k] = i
      /\ \A k \in 1..n : q[k] \in S
      /\ \A k, m \in 1..n : k < m => IsEarlier(entries, q[k], q[m])
  BY ChronologyFacts
<1>2. \A i \in S : /\ Earliest(entries, i) \in Nat /\ Latest(entries, i) \in Nat
                   /\ Earliest(entries, i) <= Latest(entries, i)
  <2> TAKE i \in S
  <2>1. Earliest(entries, i) \in 1..LastTime /\ Latest(entries, i) \in 1..LastTime
    BY TimesFacts
  <2>2. Earliest(entries, i) <= Latest(entries, i)
    BY TimesFacts
  <2>3. \A m, l : l \in 1..m => l \in Nat
    OBVIOUS
  <2> QED
    BY <2>1, <2>2, <2>3
<1>3. Ordered(entries) <=> \A k \in 1..n - 1 : Latest(entries, q[k]) < Earliest(entries, q[k + 1])
  BY <1>1 DEF Ordered
<1>4. \A k, m \in 1..n : k < m => Earliest(entries, q[k]) <= Earliest(entries, q[m])
  BY <1>1, BeforeFacts
<1> HIDE DEF q, n, S
<1>5. ASSUME Ordered(entries), NEW k \in 1..n, NEW m \in 1..n, k < m
      PROVE  Latest(entries, q[k]) < Earliest(entries, q[m])
  <2>1. k \in 1..n - 1 /\ k + 1 \in 1..n /\ (k + 1 = m \/ k + 1 < m)
    BY <1>1, <1>5
  <2>2. Latest(entries, q[k]) < Earliest(entries, q[k + 1])
    BY <1>3, <1>5, <2>1
  <2>3. Earliest(entries, q[k + 1]) <= Earliest(entries, q[m])
    <3>1. CASE k + 1 = m
      <4>1. Earliest(entries, q[m]) \in Nat
        BY <1>1, <1>2
      <4> QED
        BY <3>1, <4>1
    <3>2. CASE k + 1 < m
      BY <1>4, <2>1, <3>2
    <3> QED
      BY <2>1, <3>1, <3>2
  <2>4. /\ Latest(entries, q[k]) \in Nat /\ Earliest(entries, q[k + 1]) \in Nat
        /\ Earliest(entries, q[m]) \in Nat
    BY <1>1, <1>2, <2>1
  <2> QED
    BY <2>2, <2>3, <2>4
<1>6. ASSUME Ordered(entries) PROVE Apart(entries)
  <2> SUFFICES ASSUME NEW i \in S, NEW j \in S, i # j
               PROVE  Latest(entries, i) < Earliest(entries, j) \/ Latest(entries, j) < Earliest(entries, i)
    BY DEF Apart, S
  <2>1. PICK k \in 1..n : q[k] = i
    BY <1>1
  <2>2. PICK m \in 1..n : q[m] = j
    BY <1>1
  <2>3. k < m \/ m < k
    BY <1>1, <2>1, <2>2
  <2> QED
    BY <1>5, <1>6, <2>1, <2>2, <2>3
<1>7. ASSUME Apart(entries) PROVE Ordered(entries)
  <2> SUFFICES ASSUME NEW k \in 1..n - 1 PROVE Latest(entries, q[k]) < Earliest(entries, q[k + 1])
    BY <1>3
  <2>1. k \in 1..n /\ k + 1 \in 1..n /\ k < k + 1
    BY <1>1
  <2>2. q[k] \in S /\ q[k + 1] \in S /\ IsEarlier(entries, q[k], q[k + 1])
    BY <1>1, <2>1
  <2>3. q[k] # q[k + 1]
    BY <2>2, BeforeFacts DEF S
  <2>4. \/ Latest(entries, q[k]) < Earliest(entries, q[k + 1])
        \/ Latest(entries, q[k + 1]) < Earliest(entries, q[k])
    BY <1>7, <2>2, <2>3 DEF Apart, S
  <2>5. Earliest(entries, q[k]) <= Earliest(entries, q[k + 1])
    BY <1>4, <2>1
  <2>6. /\ Latest(entries, q[k + 1]) \in Nat /\ Earliest(entries, q[k]) \in Nat
        /\ Earliest(entries, q[k + 1]) \in Nat
        /\ Earliest(entries, q[k + 1]) <= Latest(entries, q[k + 1])
    BY <1>2, <2>2
  <2> QED
    BY <2>4, <2>5, <2>6
<1> QED
  BY <1>5, <1>6, <1>7 DEF n, q, S

\* The chronology of an ordered log depends on when impressions were shown.
LEMMA SameChronology ==
    ASSUME NEW e \in Seq(LogEvent), NEW g \in Seq(LogEvent), Shown(e) = Shown(g),
           \A i \in Shown(e) : Times(e, i) = Times(g, i)
    PROVE  /\ Ordered(e) <=> Ordered(g)
           /\ Ordered(e) => Chronology(e) = Chronology(g)
<1> DEFINE S == Shown(e)
           n == Cardinality(S)
<1>1. \A i \in S : Earliest(e, i) = Earliest(g, i) /\ Latest(e, i) = Latest(g, i)
  BY DEF Earliest, Latest
<1>2. Apart(e) <=> Apart(g)
  BY <1>1 DEF Apart
<1>3. Ordered(e) <=> Ordered(g)
  BY <1>2, OrderedIsApart
<1>4. ASSUME Ordered(e) PROVE Chronology(e) = Chronology(g)
  <2>1. Apart(e)
    BY <1>4, OrderedIsApart
  <2>2. ASSUME NEW i \in S, NEW j \in S PROVE IsEarlier(e, i, j) <=> IsEarlier(g, i, j)
    <3>1. CASE i = j
      <4>1. ~IsEarlier(e, i, i) /\ ~IsEarlier(g, i, i)
        BY BeforeFacts
      <4> QED
        BY <3>1, <4>1
    <3>2. CASE i # j
      <4>1. /\ Earliest(e, i) \in 1..LastTime /\ Earliest(e, j) \in 1..LastTime
            /\ Latest(e, i) \in 1..LastTime /\ Latest(e, j) \in 1..LastTime
            /\ Earliest(e, i) <= Latest(e, i) /\ Earliest(e, j) <= Latest(e, j)
        BY TimesFacts
      <4>2. Earliest(e, i) # Earliest(e, j)
        BY <2>1, <3>2, <4>1 DEF Apart
      <4> QED
        BY <1>1, <4>2 DEF IsEarlier
    <3> QED
      BY <3>1, <3>2
  <2>3. \A i \in S : Position(e, i) = Position(g, i)
    <3> TAKE i \in S
    <3>1. {j \in S : IsEarlier(e, j, i)} = {j \in S : IsEarlier(g, j, i)}
      BY <2>2
    <3> QED
      BY <3>1 DEF Position
  <2>4. \A k \in 1..n : /\ Chronology(e)[k] \in S /\ Position(e, Chronology(e)[k]) = k
                        /\ Chronology(g)[k] \in S /\ Position(g, Chronology(g)[k]) = k
    BY ChronologyFacts
  <2>5. ASSUME NEW k \in 1..n PROVE Chronology(e)[k] = Chronology(g)[k]
    <3> DEFINE i == Chronology(e)[k]
               j == Chronology(g)[k]
    <3>1. i \in S /\ j \in S /\ Position(e, i) = k /\ Position(e, j) = k
      BY <2>3, <2>4
    <3> HIDE DEF i, j
    <3>2. SUFFICES ASSUME i # j PROVE FALSE
      BY DEF i, j
    <3>3. IsEarlier(e, i, j) \/ IsEarlier(e, j, i)
      BY <3>1, <3>2, BeforeFacts
    <3>4. Position(e, i) < Position(e, j) \/ Position(e, j) < Position(e, i)
      BY <3>1, <3>3, PlaceFacts
    <3>5. k \in Nat
      BY ShownFacts
    <3> QED
      BY <3>1, <3>4, <3>5
  <2>6. /\ Chronology(e) = [k \in 1..n |-> Chronology(e)[k]]
        /\ Chronology(g) = [k \in 1..n |-> Chronology(g)[k]]
    BY DEF Chronology
  <2> QED
    BY <2>5, <2>6
<1> QED
  BY <1>3, <1>4

-----------------------------------------------------------------------------
(* The parts *)

\* The rows of an impression.
LEMMA RowFacts ==
    ASSUME NEW entries \in Seq(LogEvent), NEW imp
    PROVE  /\ Rows(entries, imp) \in Seq(LogEvent)
           /\ \A row \in ToSet(Rows(entries, imp)) :
                \E i \in DOMAIN entries : entries[i] = row /\ row.impression = imp
<1> DEFINE Of == [impression : {imp}, at : 1..LastTime, positive : BOOLEAN]
<1>1. Rows(entries, imp) = Among(entries, Of)
  BY DEF Rows
<1>2. \A row \in Of : row.impression = imp
  OBVIOUS
<1> HIDE DEF Of
<1>3. Rows(entries, imp) \in Seq(LogEvent) /\ ToSet(Rows(entries, imp)) = ToSet(entries) \cap Of
  BY <1>1, AmongFacts
<1> QED
  BY <1>2, <1>3 DEF ToSet

\* What is not refused is cut within an order without overlaps.
LEMMA Unrefused ==
    ASSUME NEW entries, Refusal(entries) = ""
    PROVE  Ordered(entries) /\ Cutoff(entries) \in 1..Cardinality(Shown(entries)) - 1
BY DEF Refusal

\* The groups of the two parts, by their places in the chronology.
LEMMA GroupFacts ==
    ASSUME NEW entries \in Seq(LogEvent), Cutoff(entries) \in 1..Cardinality(Shown(entries)) - 1
    PROVE  LET n == Cardinality(Shown(entries))
               c == Cutoff(entries)
               q == Chronology(entries)
           IN  /\ BuildGroups(entries) \in Seq(Shown(entries))
               /\ TailGroups(entries) \in Seq(Shown(entries))
               /\ \A i \in ToSet(BuildGroups(entries)) : \E k \in 1..n : k <= c /\ q[k] = i
               /\ \A i \in ToSet(TailGroups(entries)) : \E k \in 1..n : c < k /\ q[k] = i
<1> DEFINE S == Shown(entries)
           n == Cardinality(S)
           c == Cutoff(entries)
           q == Chronology(entries)
<1>1. n \in Nat /\ q \in Seq(S) /\ Len(q) = n /\ DOMAIN q = 1..n
  BY ChronologyFacts, LenProperties
<1>2. c \in 1..n - 1
  OBVIOUS
<1>3. BuildGroups(entries) = SubSeq(q, 1, c) /\ TailGroups(entries) = SubSeq(q, c + 1, n)
  BY <1>1 DEF BuildGroups, TailGroups
<1> HIDE DEF S, n, c, q
<1>4. /\ SubSeq(q, 1, c) \in Seq(S) /\ Len(SubSeq(q, 1, c)) = c
      /\ \A k \in 1..c : SubSeq(q, 1, c)[k] = q[k]
  <2>1. 1 \in 1..n + 1 /\ c \in 0..n /\ c = (c - 1) + 1 /\ 1 \in 1..Len(q) /\ c \in 1..Len(q) /\ 1 <= c
    BY <1>1, <1>2
  <2>2. \A k \in 1..c : (1 + k) - 1 = k
    BY <1>2
  <2> QED
    BY <1>1, <1>2, <2>1, <2>2, SubSeqProperties
<1>5. /\ SubSeq(q, c + 1, n) \in Seq(S) /\ Len(SubSeq(q, c + 1, n)) = n - c
      /\ \A k \in 1..n - c : SubSeq(q, c + 1, n)[k] = q[c + k]
  <2>1. c + 1 \in 1..Len(q) /\ n \in 1..Len(q) /\ c + 1 <= n /\ n - (c + 1) + 1 = n - c
    BY <1>1, <1>2
  <2>2. \A k \in 1..n - c : (c + 1) + k - 1 = c + k
    BY <1>1, <1>2
  <2> QED
    BY <1>1, <1>2, <2>1, <2>2, SubSeqProperties
<1>6. ASSUME NEW i \in ToSet(BuildGroups(entries)) PROVE \E k \in 1..n : k <= c /\ q[k] = i
  <2>1. DOMAIN SubSeq(q, 1, c) = 1..c
    BY <1>4, LenProperties
  <2>2. PICK k \in 1..c : SubSeq(q, 1, c)[k] = i
    BY <1>3, <2>1 DEF ToSet
  <2>3. k \in 1..n /\ k <= c
    BY <1>1, <1>2
  <2> QED
    BY <1>4, <2>2, <2>3
<1>7. ASSUME NEW i \in ToSet(TailGroups(entries)) PROVE \E k \in 1..n : c < k /\ q[k] = i
  <2>1. DOMAIN SubSeq(q, c + 1, n) = 1..n - c
    BY <1>5, LenProperties
  <2>2. PICK k \in 1..n - c : SubSeq(q, c + 1, n)[k] = i
    BY <1>3, <2>1 DEF ToSet
  <2>3. c + k \in 1..n /\ c < c + k
    BY <1>1, <1>2
  <2> QED
    BY <1>5, <2>2, <2>3
<1> QED
  BY <1>3, <1>4, <1>5, <1>6, <1>7 DEF S, n, c, q

\* Of the groups, the complete ones.
LEMMA CompleteFacts ==
    ASSUME NEW T, NEW groups \in Seq(T), NEW entries
    PROVE  ToSet(CompleteOf(groups, entries)) = ToSet(groups) \cap {i \in Impression : Complete(entries, i)}
BY AmongFacts DEF CompleteOf

\* What trains is made of rows of the groups before the cut.
LEMMA BuildFacts ==
    ASSUME NEW entries \in Seq(LogEvent), NEW T, NEW groups \in Seq(T),
           NEW row \in ToSet(RowsOf(groups, entries))
    PROVE  \E i \in DOMAIN entries : entries[i] = row /\ row.impression \in ToSet(groups)
<1> DEFINE ss == [k \in DOMAIN groups |-> Rows(entries, groups[k])]
<1>1. DOMAIN groups = 1..Len(groups) /\ Len(groups) \in Nat
  BY LenProperties
<1>2. \A k \in DOMAIN groups : ss[k] = Rows(entries, groups[k])
  OBVIOUS
<1>3. ss \in Seq(Seq(LogEvent)) /\ DOMAIN ss = DOMAIN groups
  <2>1. \A k \in 1..Len(groups) : Rows(entries, groups[k]) \in Seq(LogEvent)
    BY RowFacts
  <2>2. ss \in [1..Len(groups) -> Seq(LogEvent)]
    BY <1>1, <2>1
  <2> HIDE DEF ss
  <2> QED
    BY <1>1, <2>2
<1>4. row \in ToSet(FlattenSeq(ss))
  BY DEF RowsOf
<1> HIDE DEF ss
<1>5. PICK k \in DOMAIN ss : row \in ToSet(ss[k])
  BY <1>3, <1>4, FlattenHas
<1>6. row \in ToSet(Rows(entries, groups[k])) /\ groups[k] \in ToSet(groups)
  BY <1>2, <1>3, <1>5 DEF ToSet
<1> QED
  BY <1>6, RowFacts

-----------------------------------------------------------------------------
(* The properties *)

\* Training comes before judging.
LEMMA BuildIsEarlier ==
    ASSUME log \in Seq(LogEvent), Ordered(log), Cutoff(log) \in 1..Cardinality(Shown(log)) - 1,
           NEW row \in ToSet(Split(log).build),
           NEW j \in DOMAIN log, log[j].impression \in ToSet(Split(log).cases)
    PROVE  row.at < log[j].at
<1> DEFINE n == Cardinality(Shown(log))
           c == Cutoff(log)
           q == Chronology(log)
           cases == Split(log).cases
<1>1. Ordered(log) /\ c \in 1..n - 1
  OBVIOUS
<1>2. /\ BuildGroups(log) \in Seq(Shown(log)) /\ TailGroups(log) \in Seq(Shown(log))
      /\ \A i \in ToSet(BuildGroups(log)) : \E k \in 1..n : k <= c /\ q[k] = i
      /\ \A i \in ToSet(TailGroups(log)) : \E k \in 1..n : c < k /\ q[k] = i
  BY <1>1, GroupFacts
<1>3. Split(log).build = RowsOf(BuildGroups(log), log) /\ cases = CompleteOf(TailGroups(log), log)
  BY DEF Split
<1>4. PICK i \in DOMAIN log : log[i] = row /\ row.impression \in ToSet(BuildGroups(log))
  BY <1>2, <1>3, BuildFacts
<1>5. log[j].impression \in ToSet(TailGroups(log))
  <2>1. ToSet(CompleteOf(TailGroups(log), log)) =
          ToSet(TailGroups(log)) \cap {g \in Impression : Complete(log, g)}
    BY <1>2, CompleteFacts
  <2> QED
    BY <1>3, <2>1
<1>6. PICK k \in 1..n : k <= c /\ q[k] = log[i].impression
  BY <1>2, <1>4
<1>7. PICK m \in 1..n : c < m /\ q[m] = log[j].impression
  BY <1>2, <1>5
<1>8. n \in Nat /\ k < m
  <2>1. n \in Nat
    BY ShownFacts
  <2> HIDE DEF n, c, q
  <2> QED
    BY <1>1, <1>6, <1>7, <2>1
<1>9. Latest(log, q[k]) < Earliest(log, q[m])
  BY <1>1, <1>8, OrderedIsApart
<1>10. q[k] \in Shown(log) /\ q[m] \in Shown(log)
  BY ChronologyFacts
<1>11. log[i].at \in Times(log, q[k]) /\ log[j].at \in Times(log, q[m])
  BY <1>6, <1>7 DEF Times
<1>12. /\ log[i].at <= Latest(log, q[k]) /\ Earliest(log, q[m]) <= log[j].at
       /\ log[i].at \in 1..LastTime /\ Latest(log, q[k]) \in 1..LastTime
       /\ log[j].at \in 1..LastTime /\ Earliest(log, q[m]) \in 1..LastTime
  BY <1>10, <1>11, TimesFacts
<1>13. log[i].at < log[j].at
  <2>1. LastTime \in Nat
    BY SplitAssumption
  <2> QED
    BY <1>9, <1>12, <2>1
<1> QED
  BY <1>4, <1>13

\* What trains is earlier than what judges.
LEMMA NoLeak == ASSUME log \in Seq(LogEvent) PROVE NoLeakage
BY Unrefused, BuildIsEarlier DEF NoLeakage

\* An impression without its clicks.
Spoiled(imp) ==
    [i \in DOMAIN log |-> IF log[i].impression = imp
                          THEN [log[i] EXCEPT !.positive = FALSE] ELSE log[i]]

\* It keeps its rows, their times and all other impressions.
LEMMA SpoiledFacts ==
    ASSUME log \in Seq(LogEvent), NEW imp
    PROVE  /\ Spoiled(imp) \in Seq(LogEvent) /\ Len(Spoiled(imp)) = Len(log)
           /\ Shown(Spoiled(imp)) = Shown(log)
           /\ \A g : Times(Spoiled(imp), g) = Times(log, g)
           /\ \A g : g # imp => Rows(Spoiled(imp), g) = Rows(log, g)
<1> DEFINE e == Spoiled(imp)
<1>1. DOMAIN log = 1..Len(log) /\ Len(log) \in Nat /\ \A i \in 1..Len(log) : log[i] \in LogEvent
  BY LenProperties, ElementOfSeq
<1>2. ASSUME NEW i \in 1..Len(log)
      PROVE  /\ e[i] \in LogEvent /\ e[i].impression = log[i].impression /\ e[i].at = log[i].at
             /\ log[i].impression # imp => e[i] = log[i]
  <2>1. e[i] = IF log[i].impression = imp THEN [log[i] EXCEPT !.positive = FALSE] ELSE log[i]
    BY <1>1 DEF Spoiled
  <2>2. log[i] \in LogEvent
    BY <1>1
  <2> QED
    BY <2>1, <2>2 DEF LogEvent
<1>3. DOMAIN e = 1..Len(log) /\ e = [i \in 1..Len(log) |-> e[i]]
  BY <1>1 DEF Spoiled
<1> HIDE DEF e
<1>4. e \in Seq(LogEvent) /\ Len(e) = Len(log)
  <2>1. e \in [1..Len(log) -> LogEvent]
    BY <1>2, <1>3
  <2> QED
    BY <1>1, <2>1
<1>5. Shown(e) = Shown(log)
  BY <1>1, <1>2, <1>3 DEF Shown
<1>6. ASSUME NEW g PROVE Times(e, g) = Times(log, g)
  <2>1. {j \in DOMAIN e : e[j].impression = g} = {j \in DOMAIN log : log[j].impression = g}
    BY <1>1, <1>2, <1>3
  <2> DEFINE R == {j \in DOMAIN log : log[j].impression = g}
  <2>2. \A j \in R : e[j].at = log[j].at
    BY <1>1, <1>2
  <2>3. {e[j].at : j \in R} = {log[j].at : j \in R}
    <3> HIDE DEF R
    <3> QED
      BY <2>2
  <2> QED
    BY <2>1, <2>3 DEF Times
<1>7. ASSUME NEW g, g # imp PROVE Rows(e, g) = Rows(log, g)
  <2> DEFINE Of == [impression : {g}, at : 1..LastTime, positive : BOOLEAN]
  <2>1. \A row \in Of : row.impression = g
    OBVIOUS
  <2> HIDE DEF Of
  <2>2. \A i \in 1..Len(e) : e[i] = log[i] \/ (e[i] \notin Of /\ log[i] \notin Of)
    BY <1>2, <1>4, <1>7, <2>1
  <2>3. Among(e, Of) = Among(log, Of)
    BY <1>4, <2>2, AmongSame
  <2> QED
    BY <2>3 DEF Rows, Of
<1> QED
  BY <1>4, <1>5, <1>6, <1>7 DEF e

\* A tail impression is none that trains.
LEMMA PartsApart ==
    ASSUME NEW entries \in Seq(LogEvent), Cutoff(entries) \in 1..Cardinality(Shown(entries)) - 1,
           NEW i \in ToSet(BuildGroups(entries)), NEW j \in ToSet(TailGroups(entries))
    PROVE  i # j
<1> DEFINE n == Cardinality(Shown(entries))
           c == Cutoff(entries)
           q == Chronology(entries)
<1>1. PICK k \in 1..n : k <= c /\ q[k] = i
  BY GroupFacts
<1>2. PICK m \in 1..n : c < m /\ q[m] = j
  BY GroupFacts
<1>3. n \in Nat /\ c \in 1..n - 1
  BY ShownFacts
<1>4. k < m
  <2> HIDE DEF n, c, q
  <2> QED
    BY <1>1, <1>2, <1>3
<1>5. q[k] \in Shown(entries) /\ q[m] \in Shown(entries) /\ IsEarlier(entries, q[k], q[m])
  BY <1>4, ChronologyFacts
<1> QED
  BY <1>1, <1>2, <1>5, BeforeFacts

\* What trains stays, and so do the slates of the other impressions.
LEMMA SpoiledSplit ==
    ASSUME log \in Seq(LogEvent), Ordered(log), Cutoff(log) \in 1..Cardinality(Shown(log)) - 1,
           NEW imp \in ToSet(TailGroups(log))
    PROVE  /\ Split(Spoiled(imp)).build = Split(log).build
           /\ ToSet(Split(log).cases) \subseteq ToSet(Split(Spoiled(imp)).cases) \cup {imp}
<1> DEFINE e == Spoiled(imp)
<1>1. /\ e \in Seq(LogEvent) /\ Len(e) = Len(log) /\ Shown(e) = Shown(log)
      /\ \A g : Times(e, g) = Times(log, g)
      /\ \A g : g # imp => Rows(e, g) = Rows(log, g)
  BY SpoiledFacts
<1> HIDE DEF e
<1>2. Chronology(e) = Chronology(log)
  BY <1>1, SameChronology
<1>3. Cutoff(e) = Cutoff(log)
  BY <1>1 DEF Cutoff
<1>4. BuildGroups(e) = BuildGroups(log) /\ TailGroups(e) = TailGroups(log)
  BY <1>2, <1>3 DEF BuildGroups, TailGroups
<1> DEFINE build == BuildGroups(log)
           tail == TailGroups(log)
<1>5. /\ Split(e).build = RowsOf(build, e) /\ Split(log).build = RowsOf(build, log)
      /\ Split(e).cases = CompleteOf(tail, e) /\ Split(log).cases = CompleteOf(tail, log)
  BY <1>4 DEF Split
<1>6. RowsOf(build, e) = RowsOf(build, log)
  <2>1. \A k \in DOMAIN build : build[k] # imp
    BY PartsApart DEF ToSet
  <2> HIDE DEF build
  <2>2. [k \in DOMAIN build |-> Rows(e, build[k])] = [k \in DOMAIN build |-> Rows(log, build[k])]
    BY <1>1, <2>1
  <2> QED
    BY <2>2 DEF RowsOf
<1>7. tail \in Seq(Shown(log))
  BY GroupFacts
<1> HIDE DEF build, tail
<1>8. /\ ToSet(CompleteOf(tail, e)) = ToSet(tail) \cap {g \in Impression : Complete(e, g)}
      /\ ToSet(CompleteOf(tail, log)) = ToSet(tail) \cap {g \in Impression : Complete(log, g)}
  BY <1>7, CompleteFacts
<1>9. \A g : g # imp => (Complete(e, g) <=> Complete(log, g))
  BY <1>1 DEF Complete
<1>10. ToSet(CompleteOf(tail, log)) \subseteq ToSet(CompleteOf(tail, e)) \cup {imp}
  BY <1>8, <1>9
<1> QED
  BY <1>5, <1>6, <1>10 DEF e

\* What trains does not depend on whether a tail impression is usable.
LEMMA TailMovesNothing == ASSUME log \in Seq(LogEvent) PROVE UnusableTailMovesNothing
BY Unrefused, SpoiledSplit DEF UnusableTailMovesNothing, Spoiled

\* Two neighbours of different impressions may change places.
LEMMA SwappedSplit ==
    ASSUME log \in Seq(LogEvent), NEW i \in 1..Len(log) - 1,
           log[i].impression # log[i + 1].impression
    PROVE  /\ Refusal(Swapped(log, i)) = Refusal(log)
           /\ Ordered(log) => Split(Swapped(log, i)) = Split(log)
<1> DEFINE e == Swapped(log, i)
<1>1. /\ e \in Seq(LogEvent) /\ Len(e) = Len(log) /\ DOMAIN log = 1..Len(log)
      /\ i \in 1..Len(log) /\ i + 1 \in 1..Len(log)
      /\ e[i] = log[i + 1] /\ e[i + 1] = log[i]
      /\ \A n \in 1..Len(log) : n # i /\ n # i + 1 => e[n] = log[n]
  BY SwapFacts
<1>2. DOMAIN e = 1..Len(log)
  BY <1>1, LenProperties
<1>3. ASSUME NEW g PROVE Rows(e, g) = Rows(log, g)
  <2> DEFINE Of == [impression : {g}, at : 1..LastTime, positive : BOOLEAN]
  <2>1. ~(log[i] \in Of /\ log[i + 1] \in Of)
    <3>1. \A row \in Of : row.impression = g
      OBVIOUS
    <3> HIDE DEF Of
    <3> QED
      BY <3>1
  <2> HIDE DEF Of
  <2>2. Among(e, Of) = Among(log, Of)
    BY <2>1, AmongSwap
  <2> QED
    BY <2>2 DEF Rows, Of
<1> HIDE DEF e
<1>4. /\ \A n \in DOMAIN e : \E m \in DOMAIN log : e[n] = log[m]
      /\ \A m \in DOMAIN log : \E n \in DOMAIN e : e[n] = log[m]
  BY <1>1, <1>2
<1>5. Shown(e) = Shown(log)
  BY <1>4 DEF Shown
<1>6. ASSUME NEW g PROVE Times(e, g) = Times(log, g)
  BY <1>4 DEF Times
<1>7. Cutoff(e) = Cutoff(log) /\ Cardinality(Shown(e)) = Cardinality(Shown(log))
  BY <1>5 DEF Cutoff
<1>8. /\ Ordered(e) <=> Ordered(log)
      /\ Ordered(log) => Chronology(e) = Chronology(log)
  BY <1>1, <1>5, <1>6, SameChronology
<1>9. ASSUME NEW groups PROVE CompleteOf(groups, e) = CompleteOf(groups, log)
  <2>1. \A g : Complete(e, g) <=> Complete(log, g)
    BY <1>3 DEF Complete
  <2>2. {g \in Impression : Complete(e, g)} = {g \in Impression : Complete(log, g)}
    BY <2>1
  <2> QED
    BY <2>2 DEF CompleteOf
<1>10. ASSUME Ordered(log)
       PROVE  BuildGroups(e) = BuildGroups(log) /\ TailGroups(e) = TailGroups(log)
  BY <1>7, <1>8, <1>10 DEF BuildGroups, TailGroups
<1>11. Refusal(e) = Refusal(log)
  <2>1. CASE Ordered(log)
    <3>1. /\ CompleteOf(BuildGroups(e), e) = CompleteOf(BuildGroups(log), log)
          /\ CompleteOf(TailGroups(e), e) = CompleteOf(TailGroups(log), log)
      BY <1>9, <1>10, <2>1
    <3> QED
      BY <1>7, <1>8, <2>1, <3>1 DEF Refusal
  <2>2. CASE ~Ordered(log)
    BY <1>7, <1>8, <2>2 DEF Refusal
  <2> QED
    BY <2>1, <2>2
<1>12. ASSUME Ordered(log) PROVE Split(e) = Split(log)
  <2> DEFINE b == BuildGroups(log)
             l == TailGroups(log)
  <2>1. BuildGroups(e) = b /\ TailGroups(e) = l
    BY <1>10, <1>12
  <2> HIDE DEF b, l
  <2>2. /\ [k \in DOMAIN b |-> Rows(e, b[k])] = [k \in DOMAIN b |-> Rows(log, b[k])]
        /\ [k \in DOMAIN l |-> Rows(e, l[k])] = [k \in DOMAIN l |-> Rows(log, l[k])]
    BY <1>3
  <2>3. RowsOf(b, e) = RowsOf(b, log) /\ CompleteOf(l, e) = CompleteOf(l, log)
    BY <1>9, <2>2 DEF RowsOf
  <2> QED
    BY <2>1, <2>2, <2>3 DEF Split, b, l
<1> QED
  BY <1>11, <1>12 DEF e

\* The fingerprint of a cohort is that of its chronology.
LEMMA CohortHolds == ASSUME log \in Seq(LogEvent) PROVE CohortOfChronology
<1> SUFFICES ASSUME NEW i \in 1..Len(log) - 1, log[i].impression # log[i + 1].impression
             PROVE  /\ Refusal(Swapped(log, i)) = Refusal(log)
                    /\ Refusal(log) = "" => Split(Swapped(log, i)) = Split(log)
  BY DEF CohortOfChronology, Swapped
<1>1. /\ Refusal(Swapped(log, i)) = Refusal(log)
      /\ Ordered(log) => Split(Swapped(log, i)) = Split(log)
  BY SwappedSplit
<1> QED
  BY <1>1, Unrefused

\* The log stays a sequence of events.
SplitTypes == log \in Seq(LogEvent)

\* Any log of events, in any order, can come to the cut.
THEOREM SplitTypeCorrect == SplitSpec => []SplitTypes
<1>1. SplitInit => SplitTypes
  BY DEF SplitInit, SplitTypes
<1>2. SplitTypes /\ [SplitNext]_log => SplitTypes'
  <2> SUFFICES ASSUME SplitTypes, [SplitNext]_log PROVE SplitTypes'
    OBVIOUS
  <2>1. CASE SplitNext
    <3>1. PICK event \in LogEvent : log' = Append(log, event)
      BY <2>1 DEF SplitNext, LogEntry
    <3> QED
      BY <3>1, AppendProperties DEF SplitTypes
  <2>2. CASE UNCHANGED log
    BY <2>2 DEF SplitTypes
  <2> QED
    BY <2>1, <2>2
<1> QED
  BY <1>1, <1>2, PTL DEF SplitSpec

\* prepare_training_confirmation cuts every log that it accepts such that what
\* trains a compared model is earlier than all that judges it, an unusable
\* impression of the tail moves nothing into what trains, and the cohort does
\* not depend on how the log interleaves its impressions.
THEOREM SplitSafe == SplitSpec => []SplitSound
<1>1. SplitTypes => SplitSound
  BY NoLeak, TailMovesNothing, CohortHolds DEF SplitTypes, SplitSound
<1> QED
  BY <1>1, SplitTypeCorrect, PTL

=============================================================================
