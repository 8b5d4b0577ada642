---------------------------- MODULE TrainingAttempt ----------------------------
(***************************************************************************)
(* The durable registry of training confirmations                           *)
(* (evaluation/training_gate_experiment.py): a run claims its cohort on     *)
(* disk before it mines anything, publishes an artifact with the decision,  *)
(* and binds the artifact's hash to the claim.  Runs are processes that may *)
(* raise, be killed, or lose their machine at every step; what a file or a  *)
(* directory holds survives a loss of power only after its fsync.           *)
(*                                                                         *)
(* The decision itself (evaluation/training_gate.py) is any outcome.  A run *)
(* whose challenger changes a key that is not declared never gets to one:   *)
(* DeclaredKey is empty in app/server.py:314.                               *)
(***************************************************************************)
EXTENDS Naturals, FiniteSets

CONSTANTS
    Run,          \* runs of main(), each with a cohort and an output of its own choice
    Cohort,       \* cohort fingerprints
    Output,       \* --output paths
    Key,          \* configuration keys a challenger may change
    DeclaredKey,  \* CHALLENGER_CONFIG_KEYS
    NoRun,
    MaxFaults     \* bound on exceptions, kills and power losses together

ASSUME AttemptAssumption == DeclaredKey \subseteq Key /\ NoRun \notin Run /\ MaxFaults \in Nat

VARIABLES
    record,     \* what each cohort's file in the registry says
    recordLeft, \* what it may say after a loss of power
    artifact,   \* the artifact at each output
    artifactLeft,
    registryLock, \* the run that holds flock on the registry
    runs,       \* what each run is doing
    looked,     \* the runs that looked at a cohort's confirmation cases
    faults

attemptVars == <<record, recordLeft, artifact, artifactLeft, registryLock, runs, looked, faults>>
recordVars == <<record, recordLeft>>
artifactVars == <<artifact, artifactLeft>>

Absent == [status |-> "absent", by |-> NoRun]
Corrupt == [status |-> "corrupt", by |-> NoRun]
Running == [status |-> "running", by |-> NoRun]
\* A pass or a hold binds the artifact of the run that wrote it.
Final(status, r) == [status |-> status, by |-> r]

AttemptInit ==
    /\ record = [c \in Cohort |-> Absent] /\ recordLeft = [c \in Cohort |-> {Absent}]
    /\ artifact = [o \in Output |-> NoRun] /\ artifactLeft = [o \in Output |-> {NoRun}]
    /\ registryLock = NoRun
    /\ \E cohort \in [Run -> Cohort], output \in [Run -> Output], key \in [Run -> Key] :
         runs = [r \in Run |-> [at |-> "start", cohort |-> cohort[r], output |-> output[r],
                                key |-> key[r], status |-> "none", reported |-> FALSE]]
    /\ looked = [c \in Cohort |-> {}]
    /\ faults = 0

AtStep(r, at) == runs[r].at = at
Steps(r, at) == runs' = [runs EXCEPT ![r].at = at]
Mine(r) == runs[r].cohort

Writes(c, value, left) ==
    /\ record' = [record EXCEPT ![c] = value]
    /\ recordLeft' = [recordLeft EXCEPT ![c] = left]

-----------------------------------------------------------------------------
(* The claim                                                               *)

\* The output must be new; the registry is locked.
Preflight(r) ==
    /\ AtStep(r, "start")
    /\ IF artifact[runs[r].output] # NoRun
       THEN Steps(r, "dead") /\ UNCHANGED registryLock
       ELSE /\ registryLock = NoRun /\ registryLock' = r
            /\ Steps(r, "claim")
    /\ UNCHANGED <<recordVars, artifactVars, looked, faults>>

\* O_CREAT | O_EXCL: an existing record, whatever it says, ends the run.
ClaimCreates(r) ==
    /\ AtStep(r, "claim")
    /\ IF record[Mine(r)] # Absent
       THEN Steps(r, "dead") /\ registryLock' = NoRun /\ UNCHANGED recordVars
       ELSE /\ Writes(Mine(r), Corrupt, {Absent, Corrupt})
            /\ Steps(r, "claim_write") /\ UNCHANGED registryLock
    /\ UNCHANGED <<artifactVars, looked, faults>>

ClaimWrites(r) ==
    /\ AtStep(r, "claim_write")
    /\ Writes(Mine(r), Running, {Absent, Corrupt, Running})
    /\ Steps(r, "claim_sync")
    /\ UNCHANGED <<artifactVars, registryLock, looked, faults>>

\* Mutant of ClaimSyncs: the directory is not synchronised.
ClaimSyncsFile(r) ==
    /\ AtStep(r, "claim_sync")
    /\ Writes(Mine(r), Running, {Absent, Running})
    /\ Steps(r, "confirm") /\ registryLock' = NoRun
    /\ UNCHANGED <<artifactVars, looked, faults>>

\* fsync of the file, then of the directory; the lock is released.
ClaimSyncs(r) ==
    /\ AtStep(r, "claim_sync")
    /\ \/ /\ Corrupt \in recordLeft[Mine(r)]
          /\ Writes(Mine(r), Running, {Absent, Running})
          /\ UNCHANGED <<runs, registryLock>>
       \/ /\ Corrupt \notin recordLeft[Mine(r)]
          /\ Writes(Mine(r), Running, {Running})
          /\ Steps(r, "confirm") /\ registryLock' = NoRun
    /\ UNCHANGED <<artifactVars, looked, faults>>

-----------------------------------------------------------------------------
(* The decision, and its publication                                       *)

\* lab.training_confirmation: both architectures are mined and evaluated.
Confirm(r) ==
    /\ AtStep(r, "confirm")
    /\ IF runs[r].key \in DeclaredKey
       THEN /\ looked' = [looked EXCEPT ![Mine(r)] = @ \cup {r}]
            /\ \E status \in {"pass", "hold"} :
                 runs' = [runs EXCEPT ![r].at = "publish", ![r].status = status]
       ELSE Steps(r, "error") /\ UNCHANGED looked
    /\ UNCHANGED <<recordVars, artifactVars, registryLock, faults>>

\* A hard link of the synchronised file, which never replaces an artifact.
Publish(r) ==
    LET o == runs[r].output IN
    /\ AtStep(r, "publish")
    /\ IF artifact[o] # NoRun
       THEN Steps(r, "error") /\ UNCHANGED artifactVars
       ELSE /\ artifact' = [artifact EXCEPT ![o] = r]
            /\ artifactLeft' = [artifactLeft EXCEPT ![o] = {NoRun, r}]
            /\ Steps(r, "publish_sync")
    /\ UNCHANGED <<recordVars, registryLock, looked, faults>>

\* Mutant of PublishSyncs: the directory is left to the operating system.
PublishUnsynced(r) ==
    /\ AtStep(r, "publish_sync")
    /\ Steps(r, "finalize")
    /\ UNCHANGED <<recordVars, artifactVars, registryLock, looked, faults>>

PublishSyncs(r) ==
    /\ AtStep(r, "publish_sync")
    /\ artifactLeft' = [artifactLeft EXCEPT ![runs[r].output] = {r}]
    /\ Steps(r, "finalize")
    /\ UNCHANGED <<recordVars, artifact, registryLock, looked, faults>>

-----------------------------------------------------------------------------
(* The end of an attempt                                                   *)

\* _finalize_attempt: only a claim that is running becomes final.
FinalizeLocks(r) ==
    /\ runs[r].at \in {"finalize", "error"}
    /\ registryLock = NoRun
    /\ IF record[Mine(r)] = Running
       THEN /\ registryLock' = r
            /\ Steps(r, IF AtStep(r, "error") THEN "replace_error" ELSE "replace")
       ELSE /\ Steps(r, IF AtStep(r, "error") THEN "dead" ELSE "error")
            /\ UNCHANGED registryLock
    /\ UNCHANGED <<recordVars, artifactVars, looked, faults>>

\* os.replace by a file that was written and synchronised aside.
FinalizeReplaces(r) ==
    /\ runs[r].at \in {"replace", "replace_error"}
    /\ LET final == IF AtStep(r, "replace") THEN Final(runs[r].status, r) ELSE Final("error", NoRun) IN
       Writes(Mine(r), final, recordLeft[Mine(r)] \cup {final})
    /\ Steps(r, IF AtStep(r, "replace") THEN "final_sync" ELSE "error_sync")
    /\ UNCHANGED <<artifactVars, registryLock, looked, faults>>

FinalizeSyncs(r) ==
    /\ runs[r].at \in {"final_sync", "error_sync"}
    /\ Writes(Mine(r), record[Mine(r)], {record[Mine(r)]})
    /\ registryLock' = NoRun
    /\ runs' = [runs EXCEPT ![r].at = "dead", ![r].reported = AtStep(r, "final_sync")]
    /\ UNCHANGED <<artifactVars, looked, faults>>

-----------------------------------------------------------------------------
(* Faults                                                                  *)

Faulty == faults < MaxFaults /\ faults' = faults + 1
Released(dead) == registryLock' = IF registryLock \in dead THEN NoRun ELSE registryLock

\* Where the exception handler of main() is in force.
Guarded == {"confirm", "publish", "publish_sync", "finalize", "replace", "final_sync"}

\* The disk is full, a file vanished, a mine failed: the run goes on in the
\* handler, or ends.  Mining may fail after it began.
Raises(r) ==
    /\ runs[r].at \notin {"start", "dead"}
    /\ Faulty
    /\ Steps(r, IF runs[r].at \in Guarded THEN "error" ELSE "dead")
    /\ Released({r})
    /\ looked' = IF AtStep(r, "confirm") /\ runs[r].key \in DeclaredKey
                 THEN [looked EXCEPT ![Mine(r)] = @ \cup {r}] ELSE looked
    /\ UNCHANGED <<recordVars, artifactVars>>

Killed(r) ==
    /\ runs[r].at \notin {"start", "dead"}
    /\ Faulty
    /\ Steps(r, "dead") /\ Released({r})
    /\ looked' = IF AtStep(r, "confirm") /\ runs[r].key \in DeclaredKey
                 THEN [looked EXCEPT ![Mine(r)] = @ \cup {r}] ELSE looked
    /\ UNCHANGED <<recordVars, artifactVars>>

\* Every process ends; each file is one of those it may have left.
PowerLoss ==
    /\ Faulty
    /\ runs' = [r \in Run |-> IF AtStep(r, "start") THEN runs[r] ELSE [runs[r] EXCEPT !.at = "dead"]]
    /\ registryLock' = NoRun
    /\ record' \in {f \in [Cohort -> UNION {recordLeft[c] : c \in Cohort}] : \A c \in Cohort : f[c] \in recordLeft[c]}
    /\ artifact' \in {f \in [Output -> Run \cup {NoRun}] : \A o \in Output : f[o] \in artifactLeft[o]}
    /\ recordLeft' = [c \in Cohort |-> {record'[c]}]
    /\ artifactLeft' = [o \in Output |-> {artifact'[o]}]
    /\ UNCHANGED looked

AttemptNext ==
    \/ \E r \in Run :
         \/ Preflight(r) \/ ClaimCreates(r) \/ ClaimWrites(r) \/ ClaimSyncs(r)
         \/ Confirm(r) \/ Publish(r) \/ PublishSyncs(r)
         \/ FinalizeLocks(r) \/ FinalizeReplaces(r) \/ FinalizeSyncs(r)
         \/ Raises(r) \/ Killed(r)
    \/ PowerLoss

AttemptSpec == AttemptInit /\ [][AttemptNext]_attemptVars

-----------------------------------------------------------------------------
(* training_gate_experiment.py:199-204: a cohort is consumed before mining  *)
(* begins, for ever.  Its confirmation cases are looked at by one run, and  *)
(* what can be left of its record after a loss of power is never "absent". *)
ConsumedOnce ==
    \A c \in Cohort :
      /\ Cardinality(looked[c]) <= 1
      /\ looked[c] # {} => Absent \notin recordLeft[c]

(* A pass or a hold in the registry was decided by the run that looked, and *)
(* its artifact is on disk for good; a run that reported its decision left  *)
(* nothing else that the record could say.                                  *)
DecisionsBound ==
    /\ \A c \in Cohort : \A final \in recordLeft[c] \cup {record[c]} :
         final.status \in {"pass", "hold"} =>
           /\ looked[c] = {final.by}
           /\ runs[final.by].status = final.status
           /\ artifact[runs[final.by].output] = final.by
           /\ artifactLeft[runs[final.by].output] = {final.by}
    /\ \A r \in Run :
         runs[r].reported => recordLeft[Mine(r)] = {Final(runs[r].status, r)}

(* training_gate_experiment.py: an attempt is consumed, decided and reported *)
(* once, whichever runs die and whatever a loss of power takes with it.     *)
AttemptsDurable == ConsumedOnce /\ DecisionsBound
=============================================================================
