--------------------------- MODULE MCAsyncMining ---------------------------
(* Two thread identities (a second thread is what SingleFlight excludes),  *)
(* a waiter with and one without a timeout, three requests.                *)
EXTENDS AsyncMining

CONSTANTS w1, w2, plain, timed

MCWorker == {w1, w2}
MCWaiter == {plain, timed}
MCTimedWaiter == {timed}
MCFault == {"capture", "build", "promote", "dispose"}
=============================================================================
