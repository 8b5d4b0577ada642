----------------------------- MODULE MCReasoner -----------------------------
(* Two callers, an add of two statements and a removal, two snapshots.     *)
EXTENDS Reasoner, TLC

MCCaller == {"feed", "miner"}
MCMutation == {"add", "remove"}
MCUnits == [m \in MCMutation |-> IF m = "add" THEN 2 ELSE 1]
MCSnapshot == {"first", "second"}
=============================================================================
