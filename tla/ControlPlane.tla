----------------------------- MODULE ControlPlane -----------------------------
(***************************************************************************)
(* The control plane of one server process (app/server.py, and the         *)
(* benchmark, comparison and tuning of evaluation/lab_benchmark.py).  A     *)
(* request pins the active Lab: it takes LAB_SWAP_LOCK, and keeps it until  *)
(* it has the Lab's own lock.  A dataset load builds its Lab outside of    *)
(* both, swaps it in, and closes the one it displaced.  A setting is a     *)
(* value of the keys in MINING_CONFIG_KEYS; a mine may raise.              *)
(*                                                                         *)
(* Background builds and what a Lab serves are in BackgroundMining.        *)
(***************************************************************************)
EXTENDS Naturals, FiniteSets

CONSTANTS
    Client,        \* requests that run at the same time
    LabId,         \* Labs the process may construct
    FirstLab, NoLab,
    Setting, DefaultSetting,
    Nobody,
    MaxTrials,     \* trials of tune()
    MaxRequests    \* bound on the requests

ASSUME ControlAssumption ==
    /\ FirstLab \in LabId /\ NoLab \notin LabId /\ DefaultSetting \in Setting
    /\ Nobody \notin Client
    /\ MaxTrials \in Nat /\ MaxRequests \in Nat

VARIABLES
    lab,           \* LAB
    labs,          \* every Lab: whether it is open, its settings, its model
    swapLock,      \* the holder of LAB_SWAP_LOCK
    requests,      \* what each client is doing
    servingOnly,   \* --serving-only, inherited by every replacement
    asked          \* requests so far

controlVars == <<lab, labs, swapLock, requests, servingOnly, asked>>

Operation == {"read", "config", "mine", "benchmark", "replay", "compare", "tune", "load"}
Gated == {"config", "mine", "load"}

Unborn == [at |-> "unborn", config |-> DefaultSetting, model |-> DefaultSetting,
           source |-> "all", spoilt |-> FALSE, holder |-> Nobody]
Born(config) == [Unborn EXCEPT !.at = "open", !.config = config, !.model = config]

NoRequest == [op |-> "read", at |-> "idle", arg |-> DefaultSetting, saved |-> DefaultSetting,
              lab |-> NoLab, trials |-> 0]

ControlInit ==
    /\ lab = FirstLab
    /\ labs = [l \in LabId |-> IF l = FirstLab THEN Born(DefaultSetting) ELSE Unborn]
    /\ swapLock = Nobody
    /\ requests = [c \in Client |-> NoRequest]
    /\ servingOnly \in BOOLEAN
    /\ asked = 0

At(c, op, at) == requests[c].op = op /\ requests[c].at = at
Goes(c, at) == requests' = [requests EXCEPT ![c].at = at]
Held(c) == requests[c].lab
Ends(c) ==
    /\ requests' = [requests EXCEPT ![c] = NoRequest]
    /\ labs' = [labs EXCEPT ![Held(c)].holder = Nobody]
    /\ UNCHANGED <<lab, swapLock, servingOnly, asked>>

-----------------------------------------------------------------------------
(* Pinning the Lab                                                         *)

Request(c) ==
    /\ requests[c].at = "idle" /\ asked < MaxRequests
    /\ asked' = asked + 1
    /\ \E op \in Operation, arg \in Setting :
         requests' = [requests EXCEPT ![c] =
           [NoRequest EXCEPT !.op = op, !.arg = arg, !.at = IF op \in Gated THEN "gate" ELSE "pin"]]
    /\ UNCHANGED <<lab, labs, swapLock, servingOnly>>

TakeSwapLock(c) ==
    /\ requests[c].at \in {"gate", "pin"}
    /\ swapLock = Nobody
    /\ swapLock' = c
    /\ UNCHANGED <<lab, labs, requests, servingOnly, asked>>

\* The first pin of a request that changes the Lab looks at serving_only, and
\* lets go.
PassGate(c) ==
    /\ requests[c].at = "gate" /\ swapLock = c
    /\ labs[lab].holder = Nobody
    /\ swapLock' = Nobody
    /\ requests' = IF servingOnly THEN [requests EXCEPT ![c] = NoRequest]
                   ELSE [requests EXCEPT ![c].at = IF requests[c].op = "load" THEN "build" ELSE "pin",
                                         ![c].saved = labs[lab].config]
    /\ UNCHANGED <<lab, labs, servingOnly, asked>>

Pin(c) ==
    /\ requests[c].at = "pin" /\ swapLock = c
    /\ labs[lab].holder = Nobody
    /\ swapLock' = Nobody
    /\ labs' = [labs EXCEPT ![lab].holder = c]
    /\ requests' = [requests EXCEPT ![c].at = "held", ![c].lab = lab, ![c].saved = labs[lab].config]
    /\ UNCHANGED <<lab, servingOnly, asked>>

-----------------------------------------------------------------------------
(* Requests on a pinned Lab                                                *)

\* mine() restores the model's fields when it raises; a serving-only Lab refuses.
Mines(l) == ~servingOnly /\ labs' = [labs EXCEPT ![l].model = labs[l].config, ![l].spoilt = FALSE]
Configures(l, value) == labs' = [labs EXCEPT ![l].config = value]

Read(c) == At(c, "read", "held") /\ Ends(c)

\* configure(body), and a mine when a mining key changed.
Configure(c) ==
    /\ requests[c].op \in {"config", "benchmark"} /\ requests[c].at = "held"
    /\ Configures(Held(c), requests[c].arg)
    /\ Goes(c, IF requests[c].op = "config" /\ requests[c].arg = requests[c].saved
               THEN "evaluate" ELSE "mine")
    /\ UNCHANGED <<lab, swapLock, servingOnly, asked>>

\* benchmark with remine=false may not change a mining key.
Replay(c) ==
    /\ At(c, "replay", "held")
    /\ Goes(c, "evaluate")
    /\ UNCHANGED <<lab, labs, swapLock, servingOnly, asked>>

MineNow(c) ==
    /\ At(c, "mine", "held")
    /\ Goes(c, "mine")
    /\ UNCHANGED <<lab, labs, swapLock, servingOnly, asked>>

Mined(c) ==
    /\ requests[c].op \in {"config", "mine", "benchmark"} /\ requests[c].at = "mine"
    /\ Mines(Held(c))
    /\ Goes(c, "evaluate")
    /\ UNCHANGED <<lab, swapLock, servingOnly, asked>>

\* Mutant of MineRaises: the refused settings stay.
MineRaisesConfigured(c) ==
    /\ requests[c].op \in {"config", "mine", "benchmark"} /\ requests[c].at = "mine"
    /\ UNCHANGED labs
    /\ Goes(c, "evaluate")
    /\ UNCHANGED <<lab, swapLock, servingOnly, asked>>

MineRaises(c) ==
    /\ requests[c].op \in {"config", "mine", "benchmark"} /\ requests[c].at = "mine"
    /\ Configures(Held(c), IF requests[c].op = "mine" THEN labs[Held(c)].config ELSE requests[c].saved)
    /\ Goes(c, "evaluate")
    /\ UNCHANGED <<lab, swapLock, servingOnly, asked>>

\* The evaluation only reads, whether or not it raises.
Answer(c) == requests[c].at = "evaluate" /\ Ends(c)

-----------------------------------------------------------------------------
(* Trials.  compare_profiles mines the champion and the challenger: with   *)
(* no challenger keys declared (server.py:314) both have the settings in   *)
(* force.  tune() tries a grid of settings on a part of the evaluation     *)
(* cases; it is called by scripts that have the Lab to themselves.         *)

BeginTrials(c) ==
    /\ requests[c].op \in {"compare", "tune"} /\ requests[c].at = "held"
    /\ labs' = IF requests[c].op = "tune" THEN [labs EXCEPT ![Held(c)].source = "tuning"] ELSE labs
    /\ Goes(c, "trial")
    /\ UNCHANGED <<lab, swapLock, servingOnly, asked>>

Tries(c) == IF requests[c].op = "compare" THEN {requests[c].saved} ELSE Setting

\* A configuration that is mined and evaluated.
Try(c) ==
    /\ requests[c].at = "trial" /\ requests[c].trials < MaxTrials
    /\ ~servingOnly
    /\ \E s \in Tries(c) :
         labs' = [labs EXCEPT ![Held(c)].config = s, ![Held(c)].model = s, ![Held(c)].spoilt = FALSE]
    /\ requests' = [requests EXCEPT ![c].trials = @ + 1]
    /\ UNCHANGED <<lab, swapLock, servingOnly, asked>>

\* The mine of a trial raises, or its evaluation; or the challenger is not better.
TryRaises(c) ==
    /\ requests[c].at = "trial"
    /\ \E s \in Tries(c) : \E mined \in {FALSE} \cup {~servingOnly} :
         labs' = [labs EXCEPT ![Held(c)].config = s, ![Held(c)].model = IF mined THEN s ELSE @]
    /\ Goes(c, "restore")
    /\ UNCHANGED <<lab, swapLock, servingOnly, asked>>

\* The best settings of the grid, mined and reported on the other part of the
\* cases; or the challenger, when it passed.
Adopt(c) ==
    /\ requests[c].at = "trial" /\ requests[c].trials > 0
    /\ ~servingOnly
    /\ \E s \in Tries(c) :
         labs' = [labs EXCEPT ![Held(c)].config = s, ![Held(c)].model = s, ![Held(c)].source = "all",
                              ![Held(c)].spoilt = FALSE]
    /\ Goes(c, "evaluate")
    /\ UNCHANGED <<lab, swapLock, servingOnly, asked>>

\* What a trial leaves, with or without another mine.
Restored(l, value, mined) ==
    LET model == IF mined THEN value ELSE labs[l].model IN
    [labs[l] EXCEPT !.config = value, !.source = "all", !.model = model, !.spoilt = model # value]

\* Mutant of Restore: the evaluation cases are put back after a success only.
RestoreSettings(c) ==
    /\ requests[c].at = "restore"
    /\ \E mined \in {FALSE} \cup {~servingOnly} :
         labs' = [labs EXCEPT ![Held(c)] =
           [Restored(Held(c), requests[c].saved, mined) EXCEPT !.source = labs[Held(c)].source]]
    /\ Goes(c, "evaluate")
    /\ UNCHANGED <<lab, swapLock, servingOnly, asked>>

\* The settings of before are mined again, which may raise as well: compare
\* reports that, tune does not.
Restore(c) ==
    /\ requests[c].at = "restore"
    /\ \E mined \in {FALSE} \cup {~servingOnly} :
         labs' = [labs EXCEPT ![Held(c)] = Restored(Held(c), requests[c].saved, mined)]
    /\ Goes(c, "evaluate")
    /\ UNCHANGED <<lab, swapLock, servingOnly, asked>>

-----------------------------------------------------------------------------
(* A dataset load                                                          *)

\* The replacement is constructed and mined; its settings are those of a replay
\* snapshot that was active at the gate, or the defaults.
Construct(c) ==
    /\ At(c, "load", "build")
    /\ \E l \in LabId :
         /\ labs[l].at = "unborn"
         /\ \E config \in {requests[c].saved, DefaultSetting} : labs' = [labs EXCEPT ![l] = Born(config)]
         /\ requests' = [requests EXCEPT ![c].at = "swap", ![c].lab = l]
    /\ UNCHANGED <<lab, swapLock, servingOnly, asked>>

ConstructRaises(c) ==
    /\ At(c, "load", "build")
    /\ requests' = [requests EXCEPT ![c] = NoRequest]
    /\ UNCHANGED <<lab, labs, swapLock, servingOnly, asked>>

\* Mutant of Swap: the Lab to close is the one that was active when the load began.
SwapForgets(c) ==
    /\ At(c, "load", "swap") /\ swapLock = Nobody
    /\ lab' = Held(c)
    /\ requests' = [requests EXCEPT ![c].at = "retire", ![c].lab = FirstLab]
    /\ UNCHANGED <<labs, swapLock, servingOnly, asked>>

Swap(c) ==
    /\ At(c, "load", "swap") /\ swapLock = Nobody
    /\ lab' = Held(c)
    /\ requests' = [requests EXCEPT ![c].at = "retire", ![c].lab = lab]
    /\ UNCHANGED <<labs, swapLock, servingOnly, asked>>

\* The displaced Lab is closed under its lock, after the requests that pinned it.
Retire(c) ==
    /\ At(c, "load", "retire")
    /\ labs[Held(c)].holder = Nobody
    /\ labs' = [labs EXCEPT ![Held(c)].at = "closed"]
    /\ requests' = [requests EXCEPT ![c] = NoRequest]
    /\ UNCHANGED <<lab, swapLock, servingOnly, asked>>

ControlNext ==
    \E c \in Client :
      \/ Request(c) \/ TakeSwapLock(c) \/ PassGate(c) \/ Pin(c)
      \/ Read(c) \/ Configure(c) \/ Replay(c) \/ MineNow(c) \/ Mined(c) \/ MineRaises(c) \/ Answer(c)
      \/ BeginTrials(c) \/ Try(c) \/ TryRaises(c) \/ Adopt(c) \/ Restore(c)
      \/ Construct(c) \/ ConstructRaises(c) \/ Swap(c) \/ Retire(c)

ControlSpec == ControlInit /\ [][ControlNext]_controlVars

-----------------------------------------------------------------------------
Open == {l \in LabId : labs[l].at = "open"}
InHand == {c \in Client : requests[c].op = "load" /\ requests[c].at \in {"swap", "retire"}}

(* server.py:1611-1613: no request can pin the old Lab after the swap.     *)
(* The active Lab is open and so is every pinned one, until its lock is    *)
(* released; each other open Lab is in the hand of exactly one load, which *)
(* will swap it in or close it.                                            *)
LabsAccountedFor ==
    /\ lab \in Open
    /\ \A l \in LabId : labs[l].holder # Nobody => l \in Open
    /\ \A c \in InHand : Held(c) \in Open \ {lab}
    /\ \A c, d \in InHand : Held(c) = Held(d) => c = d
    /\ \A l \in Open \ {lab} : \E c \in InHand : Held(c) = l

(* lab_benchmark.py:553-556: a Lab that nobody holds has the rules of its  *)
(* settings and all of its evaluation cases, whichever requests failed; it *)
(* has others only when the mine that was to restore them raised, too.  A  *)
(* serving-only Lab never changes either.                                  *)
ModelFitsSettings ==
    \A l \in Open :
      labs[l].holder = Nobody =>
        /\ labs[l].source = "all"
        /\ labs[l].model # labs[l].config => labs[l].spoilt
        /\ servingOnly => labs[l] = Born(DefaultSetting)

(* server.py, lab_benchmark.py: replacing the Lab and trying settings on it *)
(* loses no Lab and leaves no trial in force.                              *)
ControlSound == LabsAccountedFor /\ ModelFitsSettings
=============================================================================
