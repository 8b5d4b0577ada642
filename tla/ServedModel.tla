----------------------------- MODULE ServedModel -----------------------------
(***************************************************************************)
(* What the Lab promises of the rule model it serves, whoever mines it and *)
(* however long that takes: the model changes in one step, to the next     *)
(* version, and was mined from a prefix of the recorded events that is no  *)
(* shorter than its predecessor's, under the configuration in force.       *)
(* BackgroundMining implements this specification.                         *)
(***************************************************************************)
EXTENDS Naturals

CONSTANTS
    Config,          \* configurations
    MiningKey        \* the part of a configuration that mining reads

VARIABLES
    version,         \* version of the served model
    model,           \* the events and the configuration it was mined from
    recorded,        \* number of recorded events
    config,          \* configuration in force
    open             \* FALSE once the Lab is closed

vars == <<version, model, recorded, config, open>>

Init ==
    /\ version = 1
    /\ recorded = 0
    /\ config \in Config
    /\ model = [events |-> 0, config |-> config]
    /\ open = TRUE

Record ==
    /\ open
    /\ recorded' = recorded + 1
    /\ UNCHANGED <<version, model, config, open>>

(* A change of a parameter that mining does not read.                      *)
Reconfigure ==
    /\ open
    /\ config' \in {c \in Config : MiningKey[c] = MiningKey[config]}
    /\ UNCHANGED <<version, model, recorded, open>>

(* A new model; an explicit mine may bring a new configuration with it.    *)
Publish ==
    /\ open
    /\ version' = version + 1
    /\ config' \in Config
    /\ \E n \in model.events..recorded : model' = [events |-> n, config |-> config']
    /\ UNCHANGED <<recorded, open>>

Shut ==
    /\ open
    /\ open' = FALSE
    /\ UNCHANGED <<version, model, recorded, config>>

Next == Record \/ Reconfigure \/ Publish \/ Shut

Spec == Init /\ [][Next]_vars
=============================================================================
