----------------------------- MODULE TrainingGate -----------------------------
(***************************************************************************)
(* run_training_confirmation (evaluation/training_gate.py): a Lab, under    *)
(* its lock, spends its cohort on one decision between its configuration    *)
(* and a challenger's, mines both on the build prefix in Labs of their own, *)
(* compares them, and adopts a model of the challenger mined from all of    *)
(* its data when that was asked for.  Hosts in one process share the        *)
(* registry of spent cohorts.  Every build, evaluation and comparison may   *)
(* raise.  The engines a request opens are named by what they are for.      *)
(***************************************************************************)
EXTENDS Naturals, FiniteSets

CONSTANTS
    Host,
    Dataset,      \* each with the cohort its split names
    CohortOf,
    Design,       \* configurations
    FirstDesign,
    MaxAsked      \* bound on requests

ASSUME GateAssumption == FirstDesign \in Design /\ MaxAsked \in Nat

VARIABLES
    hosts,      \* each Lab: its data, configuration, model and live feedback
    gates,      \* the request each Lab is answering
    engines,    \* the proof workers each Lab has running
    spent,      \* _ATTEMPT_REGISTRY
    compared,   \* how often a cohort's slates were compared (history)
    gateRequests

gateVars == <<hosts, gates, engines, spent, compared, gateRequests>>

GateCohort == {CohortOf[d] : d \in Dataset}

\* A model is what it was mined from: a dataset or its build prefix, and a design.
MinedModel(d, part, design) == [data |-> d, part |-> part, design |-> design]
NoGate == [at |-> "idle", challenger |-> FirstDesign, promote |-> FALSE,
              before |-> MinedModel("none", "all", FirstDesign), status |-> "none", failed |-> FALSE]

GateInit ==
    /\ \E data \in [Host -> Dataset] :
         hosts = [h \in Host |-> [data |-> data[h], design |-> FirstDesign,
                                  model |-> MinedModel(data[h], "all", FirstDesign), online |-> FALSE]]
    /\ gates = [h \in Host |-> NoGate]
    /\ engines = [h \in Host |-> {"host"}]
    /\ spent = [c \in GateCohort |-> "new"]
    /\ compared = [c \in GateCohort |-> 0]
    /\ gateRequests = 0

GateAt(h, at) == gates[h].at = at
CohortAt(h) == CohortOf[hosts[h].data]

\* Feedback that the offline protocol does not admit, and the reload that it
\* asks for, a new Lab: neither happens while the Lab's lock is held.
GateFeedback(h) ==
    /\ GateAt(h, "idle")
    /\ hosts' = [hosts EXCEPT ![h].online = TRUE]
    /\ UNCHANGED <<gates, engines, spent, compared, gateRequests>>

GateReload(h) ==
    /\ GateAt(h, "idle")
    /\ \E d \in Dataset :
         hosts' = [hosts EXCEPT ![h] = [data |-> d, design |-> FirstDesign,
                                        model |-> MinedModel(d, "all", FirstDesign), online |-> FALSE]]
    /\ gates' = [gates EXCEPT ![h] = NoGate]
    /\ UNCHANGED <<engines, spent, compared, gateRequests>>

\* What is refused before the claim costs nothing: live feedback, or a
\* challenger that changes nothing.
Ask(h) ==
    /\ GateAt(h, "idle") /\ gateRequests < MaxAsked /\ gateRequests' = gateRequests + 1
    /\ ~hosts[h].online
    /\ \E challenger \in Design \ {hosts[h].design}, promote \in BOOLEAN :
         gates' = [gates EXCEPT ![h] = [NoGate EXCEPT !.at = "claim", !.challenger = challenger,
                                          !.promote = promote, !.before = hosts[h].model]]
    /\ UNCHANGED <<hosts, engines, spent, compared>>

\* Mutant of ClaimCohort: only an attempt that decided is remembered.
ClaimUndecided(h) ==
    /\ GateAt(h, "claim")
    /\ IF spent[CohortAt(h)] \in {"pass", "hold"}
       THEN gates' = [gates EXCEPT ![h].at = "idle", ![h].failed = TRUE] /\ UNCHANGED spent
       ELSE gates' = [gates EXCEPT ![h].at = "champion"] /\ spent' = [spent EXCEPT ![CohortAt(h)] = "running"]
    /\ UNCHANGED <<hosts, engines, compared, gateRequests>>

\* The registry's lock covers the test and the entry.
ClaimCohort(h) ==
    /\ GateAt(h, "claim")
    /\ IF spent[CohortAt(h)] # "new"
       THEN gates' = [gates EXCEPT ![h].at = "idle", ![h].failed = TRUE] /\ UNCHANGED spent
       ELSE gates' = [gates EXCEPT ![h].at = "champion"] /\ spent' = [spent EXCEPT ![CohortAt(h)] = "running"]
    /\ UNCHANGED <<hosts, engines, compared, gateRequests>>

\* An ephemeral Lab is built and evaluated; its engine is closed either way.
OpenEphemeral(h, role) ==
    /\ GateAt(h, role) /\ role \notin engines[h]
    /\ engines' = [engines EXCEPT ![h] = @ \cup {role}]
    /\ UNCHANGED <<hosts, gates, spent, compared, gateRequests>>

RunEphemeral(h, role, next) ==
    /\ GateAt(h, role) /\ role \in engines[h]
    /\ engines' = [engines EXCEPT ![h] = @ \ {role}]
    /\ gates' = [gates EXCEPT ![h].at = next]
    /\ UNCHANGED <<hosts, spent, compared, gateRequests>>

\* All four lower confidence bounds must hold: served and proof-only, over
\* impressions and over whole users.
CompareRuns(h) ==
    /\ GateAt(h, "compare")
    /\ compared' = [compared EXCEPT ![CohortAt(h)] = @ + 1]
    /\ \E bounds \in SUBSET {"served", "served by user", "proof", "proof by user"} :
         LET passed == Cardinality(bounds) = 4 IN
         gates' = [gates EXCEPT ![h].status = IF passed THEN "pass" ELSE "hold",
                                ![h].at = IF passed /\ gates[h].promote THEN "stage" ELSE "finish"]
    /\ UNCHANGED <<hosts, engines, spent, gateRequests>>

StageChallenger(h) ==
    /\ GateAt(h, "stage")
    /\ engines' = [engines EXCEPT ![h] = @ \cup {"staged"}]
    /\ gates' = [gates EXCEPT ![h].at = "adopt"]
    /\ UNCHANGED <<hosts, spent, compared, gateRequests>>

\* Mutant of AdoptStaged: the model is bound to its fingerprint after the swap.
AdoptThenBind(h) ==
    /\ GateAt(h, "adopt")
    /\ hosts' = [hosts EXCEPT ![h].design = gates[h].challenger,
                              ![h].model = MinedModel(hosts[h].data, "all", gates[h].challenger)]
    /\ UNCHANGED <<gates, engines, spent, compared, gateRequests>>

\* Every fallible check was made before: fields, engine and caches change
\* together, and the worker of the old model is closed.
AdoptStaged(h) ==
    /\ GateAt(h, "adopt")
    /\ hosts' = [hosts EXCEPT ![h].design = gates[h].challenger,
                              ![h].model = MinedModel(hosts[h].data, "all", gates[h].challenger)]
    /\ engines' = [engines EXCEPT ![h] = {"host"}]
    /\ gates' = [gates EXCEPT ![h].at = "finish"]
    /\ UNCHANGED <<spent, compared, gateRequests>>

FinishAttempt(h) ==
    /\ GateAt(h, "finish")
    /\ spent' = [spent EXCEPT ![CohortAt(h)] = gates[h].status]
    /\ gates' = [gates EXCEPT ![h].at = "idle"]
    /\ UNCHANGED <<hosts, engines, compared, gateRequests>>

\* Mutant of GateRaises: the staged Lab is left behind.
GateRaisesStaged(h) ==
    /\ gates[h].at \in {"champion", "challenger", "compare", "stage", "adopt"}
    /\ engines' = [engines EXCEPT ![h] = @ \ {"champion", "challenger"}]
    /\ spent' = [spent EXCEPT ![CohortAt(h)] = "error"]
    /\ gates' = [gates EXCEPT ![h].at = "idle", ![h].failed = TRUE]
    /\ UNCHANGED <<hosts, compared, gateRequests>>

\* Anything up to the swap may raise: what was opened is closed, and the
\* cohort stays spent.
GateRaises(h) ==
    /\ gates[h].at \in {"champion", "challenger", "compare", "stage", "adopt"}
    /\ engines' = [engines EXCEPT ![h] = {"host"}]
    /\ spent' = [spent EXCEPT ![CohortAt(h)] = "error"]
    /\ gates' = [gates EXCEPT ![h].at = "idle", ![h].failed = TRUE]
    /\ UNCHANGED <<hosts, compared, gateRequests>>

GateNext ==
    \E h \in Host :
      \/ GateFeedback(h) \/ GateReload(h) \/ Ask(h) \/ ClaimCohort(h)
      \/ OpenEphemeral(h, "champion") \/ RunEphemeral(h, "champion", "challenger")
      \/ OpenEphemeral(h, "challenger") \/ RunEphemeral(h, "challenger", "compare")
      \/ CompareRuns(h) \/ StageChallenger(h) \/ AdoptStaged(h)
      \/ FinishAttempt(h) \/ GateRaises(h)

GateSpec == GateInit /\ [][GateNext]_gateVars

-----------------------------------------------------------------------------
(* training_gate.py:1157-1172, :1470-1473: a cohort decides once, whatever  *)
(* host and however its request ended; no decision stays "running".         *)
CohortSpentOnce ==
    \A c \in GateCohort :
      /\ compared[c] <= 1
      /\ compared[c] > 0 => spent[c] # "new"
      /\ spent[c] = "running" <=> \E h \in Host : CohortAt(h) = c /\ gates[h].at \notin {"idle", "claim"}

(* training_gate.py:1180-1182: a request that fails leaves the model it     *)
(* found; a Lab serves what its configuration mined from its data; and no   *)
(* engine of a request outlives it.                                         *)
GateLeavesNoTrace ==
    \A h \in Host :
      /\ GateAt(h, "idle") => engines[h] = {"host"}
      /\ gates[h].failed => hosts[h].model = gates[h].before
      /\ hosts[h].model = MinedModel(hosts[h].data, "all", hosts[h].design)

(* training_gate.py: a cohort decides once and a failed gate leaves nothing. *)
GateSound == CohortSpentOnce /\ GateLeavesNoTrace
=============================================================================
