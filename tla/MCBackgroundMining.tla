------------------------- MODULE MCBackgroundMining -------------------------
(* Three configurations: "other" differs from "base" in a mining key,      *)
(* "slow" only in a longer mine_interval.                                  *)
EXTENDS BackgroundMining, TLC

CONSTANTS w1, cleanup, e1, e2

MCWorker == {w1}
MCWaiter == {cleanup}
MCTimedWaiter == {}
MCEngine == {e1, e2}
MCFault == {"capture", "build", "promote", "dispose"}
MCConfig == {"base", "slow", "other"}
MCInterval == [c \in MCConfig |-> IF c = "slow" THEN 2 ELSE 1]
MCMiningKey == [c \in MCConfig |-> IF c = "other" THEN 2 ELSE 1]
AllLabFaults == {"capture", "build", "promote", "rerank"}
PrewarmFault == {"prewarm"}
EveryFault == AllLabFaults \cup PrewarmFault
=============================================================================
