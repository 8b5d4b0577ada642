---------------------------- MODULE ServingProofs ----------------------------
(***************************************************************************)
(* Theorems about what serves requests: the control plane of one server    *)
(* process, for any number of clients, Labs, settings and requests, and    *)
(* the proof caches of scoring, for any cases, channels, slates and limits *)
(* and any commands that raise.                                            *)
(***************************************************************************)
EXTENDS ControlPlane, ProofCache, FiniteSetTheorems, SequenceTheorems, TLAPS

(***************************************************************************)
(* The control plane                                                       *)
(***************************************************************************)
Pinned == {"held", "mine", "evaluate", "trial", "restore"}
Place == {"idle", "gate", "pin", "build", "swap", "retire"} \cup Pinned

RequestState == [op : Operation, at : Place, arg : Setting, saved : Setting,
                 lab : LabId \cup {NoLab}, trials : Nat]
LabState == [at : {"unborn", "open", "closed"}, config : Setting, model : Setting,
             source : {"all", "tuning"}, spoilt : BOOLEAN, holder : Client \cup {Nobody}]

ControlTypeOK ==
    /\ lab \in LabId
    /\ labs \in [LabId -> LabState]
    /\ requests \in [Client -> RequestState]
    /\ servingOnly \in BOOLEAN

-----------------------------------------------------------------------------
\* A Lab in this state has the rules and the cases of these settings, as far as
\* its last mine let it.
Fits(state, config) ==
    /\ state.source = "all"
    /\ state.model # config => state.spoilt
    /\ servingOnly => config = DefaultSetting /\ state.model = DefaultSetting /\ ~state.spoilt

\* What a request that has pinned a Lab can bring it back to.
Restorable(request, state) ==
    /\ request.at = "held" => request.saved = state.config /\ Fits(state, state.config)
    /\ request.at = "mine" =>
         /\ request.op \in {"config", "mine", "benchmark"}
         /\ Fits(state, IF request.op = "mine" THEN state.config ELSE request.saved)
    /\ request.at = "evaluate" => Fits(state, state.config)
    /\ request.at \in {"trial", "restore"} /\ servingOnly =>
         request.saved = DefaultSetting /\ state.model = DefaultSetting /\ ~state.spoilt

\* A pinned Lab is open and knows its request, which is none that loads.
PinsAgree ==
    /\ \A c \in Client : requests[c].at \in Pinned =>
         /\ requests[c].op # "load" /\ Held(c) \in LabId
         /\ labs[Held(c)].holder = c /\ labs[Held(c)].at = "open"
         /\ Restorable(requests[c], labs[Held(c)])
    /\ \A l \in LabId : labs[l].holder # Nobody =>
         requests[labs[l].holder].at \in Pinned /\ Held(labs[l].holder) = l

\* A load has a Lab in its hand between its construction and its end.
HandsDiffer ==
    /\ lab \in Open
    /\ \A c \in Client : requests[c].at \in {"swap", "retire"} => Held(c) \in Open \ {lab}
    /\ \A c, d \in Client :
         requests[c].at \in {"swap", "retire"} /\ requests[d].at \in {"swap", "retire"}
           /\ Held(c) = Held(d) => c = d
    /\ \A l \in Open \ {lab} : \E c \in Client :
         requests[c].at \in {"swap", "retire"} /\ Held(c) = l
    /\ \A c \in Client : requests[c].at \in {"build", "swap", "retire"} =>
         requests[c].op = "load" /\ ~servingOnly
    /\ \A c \in Client : requests[c].op \in Gated /\ requests[c].at \in {"pin"} \cup Pinned =>
         ~servingOnly
    /\ \A c \in Client : requests[c].at = "pin" => requests[c].op # "load"

IdleFits == \A l \in Open : labs[l].holder = Nobody => Fits(labs[l], labs[l].config)

CInv == ControlTypeOK /\ PinsAgree /\ HandsDiffer /\ IdleFits

LEMMA ControlInitInv == ControlInit => CInv
<1> SUFFICES ASSUME ControlInit PROVE CInv
  OBVIOUS
<1> USE ControlAssumption DEF ControlInit
<1>1. NoRequest \in RequestState /\ NoRequest.at = "idle"
  BY DEF NoRequest, RequestState, Operation, Place
<1>2. Unborn \in LabState /\ Born(DefaultSetting) \in LabState
  BY DEF Unborn, Born, LabState
<1>3. ControlTypeOK
  BY <1>1, <1>2 DEF ControlTypeOK
<1>4. \A c \in Client : requests[c].at = "idle"
  BY <1>1
<1>5. /\ \A l \in LabId : labs[l].holder = Nobody /\ (labs[l].at = "open" <=> l = FirstLab)
      /\ labs[FirstLab] = Born(DefaultSetting)
  BY DEF Unborn, Born
<1>6. PinsAgree
  BY <1>4, <1>5 DEF PinsAgree, Pinned
<1>7. HandsDiffer
  BY <1>4, <1>5 DEF HandsDiffer, Open, Pinned
<1>8. IdleFits
  BY <1>5 DEF IdleFits, Open, Fits, Born, Unborn
<1> QED
  BY <1>3, <1>6, <1>7, <1>8 DEF CInv

-----------------------------------------------------------------------------
\* A step of a request that has pinned no Lab and has none in its hand.
LEMMA Walks ==
    ASSUME CInv, NEW c \in Client, NEW request \in RequestState,
           requests[c].at \notin Pinned \cup {"swap", "retire"},
           request.at \notin Pinned \cup {"swap", "retire"},
           request.at = "build" => request.op = "load" /\ ~servingOnly,
           request.at = "pin" =>
             request.op # "load" /\ (request.op \in Gated => ~servingOnly),
           requests' = [requests EXCEPT ![c] = request],
           UNCHANGED <<lab, labs, servingOnly>>
    PROVE  CInv'
<1>0. ControlTypeOK /\ PinsAgree /\ HandsDiffer /\ IdleFits
  BY DEF CInv
<1>1. /\ requests' \in [Client -> RequestState] /\ requests'[c] = request
      /\ \A d \in Client : d # c => requests'[d] = requests[d]
  BY <1>0 DEF ControlTypeOK
<1>2. ControlTypeOK'
  BY <1>0, <1>1 DEF ControlTypeOK
<1>3. PinsAgree'
  <2>1. ASSUME NEW d \in Client, requests'[d].at \in Pinned
        PROVE  /\ requests'[d].op # "load" /\ Held(d)' \in LabId
               /\ labs[Held(d)'].holder = d /\ labs[Held(d)'].at = "open"
               /\ Restorable(requests[d], labs[Held(d)])'
    BY <1>0, <1>1, <2>1 DEF PinsAgree, Held, Restorable, Fits
  <2>2. ASSUME NEW l \in LabId, labs[l].holder # Nobody
        PROVE  requests'[labs[l].holder].at \in Pinned /\ Held(labs[l].holder)' = l
    <3>1. labs[l].holder \in Client /\ requests[labs[l].holder].at \in Pinned /\ Held(labs[l].holder) = l
      BY <1>0, <2>2 DEF PinsAgree, ControlTypeOK, LabState
    <3> QED
      BY <1>1, <3>1 DEF Held
  <2> QED
    BY <2>1, <2>2 DEF PinsAgree
<1>4. HandsDiffer'
  BY <1>0, <1>1 DEF HandsDiffer, Held, Open
<1>5. IdleFits'
  BY <1>0 DEF IdleFits, Open, Fits
<1> QED
  BY <1>2, <1>3, <1>4, <1>5 DEF CInv

\* A step of a request on the Lab that it has pinned.
LEMMA Works ==
    ASSUME CInv, NEW c \in Client, requests[c].at \in Pinned,
           NEW request \in RequestState, NEW state \in LabState,
           request.at \in Pinned, request.op = requests[c].op, request.lab = Held(c),
           state.at = "open", state.holder = c, Restorable(request, state),
           requests' = [requests EXCEPT ![c] = request],
           labs' = [labs EXCEPT ![Held(c)] = state],
           UNCHANGED <<lab, servingOnly>>
    PROVE  CInv'
<1>0. /\ ControlTypeOK /\ PinsAgree /\ HandsDiffer /\ IdleFits
      /\ Held(c) \in LabId /\ labs[Held(c)].holder = c /\ labs[Held(c)].at = "open"
      /\ requests[c].op # "load"
  BY DEF CInv, PinsAgree
<1>1. /\ requests' \in [Client -> RequestState] /\ requests'[c] = request
      /\ \A d \in Client : d # c => requests'[d] = requests[d]
  BY <1>0 DEF ControlTypeOK
<1>2. /\ labs' \in [LabId -> LabState] /\ labs'[Held(c)] = state
      /\ \A l \in LabId : l # Held(c) => labs'[l] = labs[l]
      /\ \A l \in LabId : labs'[l].holder = labs[l].holder /\ labs'[l].at = labs[l].at
  BY <1>0 DEF ControlTypeOK
<1>3. ControlTypeOK'
  BY <1>0, <1>1, <1>2 DEF ControlTypeOK
<1>4. \A d \in Client : Held(d)' = Held(d)
  BY <1>1 DEF Held
<1>5. PinsAgree'
  <2>1. ASSUME NEW d \in Client, requests'[d].at \in Pinned
        PROVE  /\ requests'[d].op # "load" /\ Held(d)' \in LabId
               /\ labs'[Held(d)'].holder = d /\ labs'[Held(d)'].at = "open"
               /\ Restorable(requests[d], labs[Held(d)])'
    <3>1. CASE d = c
      BY <1>0, <1>1, <1>2, <1>4, <3>1 DEF Restorable, Fits
    <3>2. CASE d # c
      <4>1. Held(d) # Held(c)
        BY <1>0, <1>1, <2>1, <3>2 DEF PinsAgree
      <4>2. requests'[d] = requests[d]
        BY <1>1, <3>2
      <4>3. /\ requests[d].op # "load" /\ Held(d) \in LabId
            /\ labs[Held(d)].holder = d /\ labs[Held(d)].at = "open"
            /\ Restorable(requests[d], labs[Held(d)])
        BY <1>0, <2>1, <4>2 DEF PinsAgree
      <4>4. labs'[Held(d)'] = labs[Held(d)]
        BY <1>2, <1>4, <4>1, <4>3
      <4> QED
        BY <1>4, <4>2, <4>3, <4>4 DEF Restorable, Fits
    <3> QED
      BY <3>1, <3>2
  <2>2. ASSUME NEW l \in LabId, labs'[l].holder # Nobody
        PROVE  requests'[labs'[l].holder].at \in Pinned /\ Held(labs[l].holder)' = l
    <3>1. /\ labs[l].holder = labs'[l].holder /\ labs[l].holder \in Client
          /\ requests[labs[l].holder].at \in Pinned /\ Held(labs[l].holder) = l
      BY <1>0, <1>2, <2>2 DEF PinsAgree, ControlTypeOK, LabState
    <3>2. requests'[labs[l].holder].at \in Pinned
      BY <1>1, <3>1
    <3> QED
      BY <1>1, <3>1, <3>2 DEF Held
  <2> QED
    BY <2>1, <2>2 DEF PinsAgree
<1>6. HandsDiffer'
  <2>1. Open' = Open
    BY <1>2 DEF Open
  <2>2. \A d \in Client : requests'[d].at \in {"swap", "retire"} <=> requests[d].at \in {"swap", "retire"}
    BY <1>1 DEF Pinned
  <2>3. \A d \in Client : /\ requests'[d].op = requests[d].op
                          /\ requests'[d].at \in {"build", "swap", "retire"} =>
                               requests[d].at \in {"build", "swap", "retire"}
                          /\ requests'[d].at \in {"pin"} \cup Pinned =>
                               requests[d].at \in {"pin"} \cup Pinned
    BY <1>1 DEF Pinned
  <2> QED
    BY <1>0, <1>4, <2>1, <2>2, <2>3 DEF HandsDiffer
<1>7. IdleFits'
  <2> SUFFICES ASSUME NEW l \in LabId, labs'[l].at = "open", labs'[l].holder = Nobody
               PROVE  Fits(labs[l], labs[l].config)'
    BY DEF IdleFits, Open
  <2>1. l # Held(c)
    BY <1>0, <1>2, ControlAssumption
  <2> QED
    BY <1>0, <1>2, <2>1 DEF IdleFits, Open, Fits
<1> QED
  BY <1>3, <1>5, <1>6, <1>7 DEF CInv

-----------------------------------------------------------------------------
LEMMA WalksInv ==
    ASSUME CInv, NEW c \in Client,
           Request(c) \/ TakeSwapLock(c) \/ PassGate(c) \/ ConstructRaises(c)
    PROVE  CInv'
<1>0. /\ ControlTypeOK /\ HandsDiffer /\ requests[c] \in RequestState
      /\ NoRequest \in RequestState /\ NoRequest.at = "idle"
      /\ labs[lab].config \in Setting
  BY ControlAssumption DEF CInv, ControlTypeOK, NoRequest, RequestState, Operation, Place, LabState
<1>1. CASE Request(c)
  <2>1. PICK op \in Operation, arg \in Setting :
          requests' = [requests EXCEPT ![c] =
            [NoRequest EXCEPT !.op = op, !.arg = arg, !.at = IF op \in Gated THEN "gate" ELSE "pin"]]
    BY <1>1 DEF Request
  <2> DEFINE request ==
        [NoRequest EXCEPT !.op = op, !.arg = arg, !.at = IF op \in Gated THEN "gate" ELSE "pin"]
  <2>2. /\ request \in RequestState /\ request.at \in {"gate", "pin"} /\ request.op = op
        /\ request.at = "pin" => op \notin Gated /\ op # "load"
    BY <1>0 DEF RequestState, NoRequest, Place, Gated
  <2>3. requests' = [requests EXCEPT ![c] = request]
    BY <2>1
  <2> HIDE DEF request
  <2> QED
    BY <1>1, <2>2, <2>3, Walks DEF Request, Pinned
<1>2. CASE TakeSwapLock(c)
  BY <1>2 DEF TakeSwapLock, CInv, ControlTypeOK, PinsAgree, HandsDiffer, IdleFits, Open, Held,
              Restorable, Fits
<1>3. CASE PassGate(c)
  <2>1. CASE servingOnly
    BY <1>0, <1>3, <2>1, Walks DEF PassGate, Pinned
  <2>2. CASE ~servingOnly
    <3> DEFINE request == [requests[c] EXCEPT !.at = IF requests[c].op = "load" THEN "build" ELSE "pin",
                                              !.saved = labs[lab].config]
    <3>1. /\ request \in RequestState /\ request.at \in {"build", "pin"}
          /\ request.at = "build" <=> request.op = "load"
      BY <1>0 DEF RequestState, Place
    <3>2. requests' = [requests EXCEPT ![c] = request]
      BY <1>3, <2>2 DEF PassGate
    <3> HIDE DEF request
    <3> QED
      BY <1>3, <2>2, <3>1, <3>2, Walks DEF PassGate, Pinned
  <2> QED
    BY <2>1, <2>2
<1>4. CASE ConstructRaises(c)
  BY <1>0, <1>4, Walks DEF ConstructRaises, Pinned, At
<1> QED
  BY <1>1, <1>2, <1>3, <1>4

LEMMA WorksInv ==
    ASSUME CInv, NEW c \in Client,
           \/ Configure(c) \/ Replay(c) \/ MineNow(c) \/ Mined(c) \/ MineRaises(c)
           \/ BeginTrials(c) \/ Try(c) \/ TryRaises(c) \/ Adopt(c) \/ Restore(c)
    PROVE  CInv'
<1> DEFINE old == requests[c]
           l == Held(c)
<1>0. /\ ControlTypeOK /\ old \in RequestState /\ old.at \in Pinned /\ old.saved \in Setting
      /\ l \in LabId /\ labs[l] \in LabState /\ labs[l].holder = c /\ labs[l].at = "open"
      /\ Restorable(old, labs[l]) /\ old.lab = l /\ old.op # "load"
      /\ (old.op \in Gated => ~servingOnly) /\ labs[l].config \in Setting
  <2>1. old.at \in Pinned /\ UNCHANGED <<lab, servingOnly>>
    BY DEF Configure, Replay, MineNow, Mined, MineRaises, BeginTrials, Try, TryRaises, Adopt,
           Restore, At, Pinned
  <2> QED
    BY <2>1 DEF CInv, ControlTypeOK, PinsAgree, HandsDiffer, RequestState, LabState, Held
<1>1. UNCHANGED <<lab, servingOnly>>
  BY DEF Configure, Replay, MineNow, Mined, MineRaises, BeginTrials, Try, TryRaises, Adopt, Restore
\* Whatever the step makes of the request and of its Lab.
<1>2. ASSUME NEW request \in RequestState, NEW state \in LabState,
             request.at \in Pinned, request.op = old.op, request.lab = l,
             state.at = "open", state.holder = c, Restorable(request, state),
             requests' = [requests EXCEPT ![c] = request], labs' = [labs EXCEPT ![l] = state]
      PROVE  CInv'
  BY <1>0, <1>1, <1>2, Works
<1> HIDE DEF old, l
<1>3. CASE Configure(c)
  <2> DEFINE request == [old EXCEPT !.at = IF old.op = "config" /\ old.arg = old.saved
                                           THEN "evaluate" ELSE "mine"]
             state == [labs[l] EXCEPT !.config = old.arg]
  <2>1. requests' = [requests EXCEPT ![c] = request] /\ labs' = [labs EXCEPT ![l] = state]
    BY <1>0, <1>3 DEF Configure, Configures, Goes, old, l
  <2>2. /\ request \in RequestState /\ request.at \in Pinned /\ request.op = old.op /\ request.lab = l
        /\ state \in LabState /\ state.at = "open" /\ state.holder = c
    BY <1>0 DEF RequestState, LabState, Place, Pinned
  <2>3. Restorable(request, state)
    BY <1>0, <1>3 DEF Configure, Restorable, Fits, RequestState, LabState, old
  <2> HIDE DEF request, state
  <2> QED
    BY <1>2, <2>1, <2>2, <2>3
<1>4. CASE Replay(c) \/ MineNow(c)
  <2> DEFINE request == [old EXCEPT !.at = IF Replay(c) THEN "evaluate" ELSE "mine"]
  <2>1. requests' = [requests EXCEPT ![c] = request] /\ labs' = [labs EXCEPT ![l] = labs[l]]
    BY <1>0, <1>4 DEF Replay, MineNow, Goes, At, old, l, ControlTypeOK
  <2>2. /\ request \in RequestState /\ request.at \in Pinned /\ request.op = old.op /\ request.lab = l
    BY <1>0 DEF RequestState, Place, Pinned
  <2>3. Restorable(request, labs[l])
    BY <1>0, <1>4 DEF Replay, MineNow, At, Restorable, Fits, RequestState, old
  <2> HIDE DEF request
  <2> QED
    BY <1>0, <1>2, <2>1, <2>2, <2>3
<1>5. CASE Mined(c)
  <2> DEFINE request == [old EXCEPT !.at = "evaluate"]
             state == [labs[l] EXCEPT !.model = labs[l].config, !.spoilt = FALSE]
  <2>1. requests' = [requests EXCEPT ![c] = request] /\ labs' = [labs EXCEPT ![l] = state]
    BY <1>0, <1>5 DEF Mined, Mines, Goes, old, l
  <2>2. /\ request \in RequestState /\ request.at \in Pinned /\ request.op = old.op /\ request.lab = l
        /\ state \in LabState /\ state.at = "open" /\ state.holder = c
    BY <1>0 DEF RequestState, LabState, Place, Pinned
  <2>3. Restorable(request, state)
    BY <1>0, <1>5 DEF Mined, Mines, Restorable, Fits, RequestState, LabState, old
  <2> HIDE DEF request, state
  <2> QED
    BY <1>2, <2>1, <2>2, <2>3
<1>6. CASE MineRaises(c)
  <2> DEFINE request == [old EXCEPT !.at = "evaluate"]
             state == [labs[l] EXCEPT !.config = IF old.op = "mine" THEN labs[l].config ELSE old.saved]
  <2>1. requests' = [requests EXCEPT ![c] = request] /\ labs' = [labs EXCEPT ![l] = state]
    BY <1>0, <1>6 DEF MineRaises, Configures, Goes, old, l
  <2>2. /\ request \in RequestState /\ request.at \in Pinned /\ request.op = old.op /\ request.lab = l
        /\ state \in LabState /\ state.at = "open" /\ state.holder = c
    BY <1>0 DEF RequestState, LabState, Place, Pinned
  <2>3. Restorable(request, state)
    BY <1>0, <1>6 DEF MineRaises, Restorable, Fits, RequestState, LabState, old
  <2> HIDE DEF request, state
  <2> QED
    BY <1>2, <2>1, <2>2, <2>3
<1>7. CASE BeginTrials(c)
  <2> DEFINE request == [old EXCEPT !.at = "trial"]
             state == IF old.op = "tune" THEN [labs[l] EXCEPT !.source = "tuning"] ELSE labs[l]
  <2>1. requests' = [requests EXCEPT ![c] = request] /\ labs' = [labs EXCEPT ![l] = state]
    BY <1>0, <1>7 DEF BeginTrials, Goes, old, l, ControlTypeOK
  <2>2. /\ request \in RequestState /\ request.at \in Pinned /\ request.op = old.op /\ request.lab = l
        /\ state \in LabState /\ state.at = "open" /\ state.holder = c
    BY <1>0 DEF RequestState, LabState, Place, Pinned
  <2>3. Restorable(request, state)
    BY <1>0, <1>7 DEF BeginTrials, Restorable, Fits, RequestState, LabState, old
  <2> HIDE DEF request, state
  <2> QED
    BY <1>2, <2>1, <2>2, <2>3
<1>8. CASE Try(c)
  <2>1. PICK s \in Tries(c) :
          labs' = [labs EXCEPT ![l].config = s, ![l].model = s, ![l].spoilt = FALSE]
    BY <1>8 DEF Try, l
  <2> DEFINE request == [old EXCEPT !.trials = @ + 1]
             state == [labs[l] EXCEPT !.config = s, !.model = s, !.spoilt = FALSE]
  <2>2. requests' = [requests EXCEPT ![c] = request] /\ labs' = [labs EXCEPT ![l] = state]
    BY <1>0, <1>8, <2>1 DEF Try, old, l
  <2>3. s \in Setting
    BY <1>0 DEF Tries, old
  <2>4. /\ request \in RequestState /\ request.at = "trial" /\ request.op = old.op /\ request.lab = l
        /\ state \in LabState /\ state.at = "open" /\ state.holder = c
    <3>1. old.at = "trial"
      BY <1>8 DEF Try, old
    <3>2. state \in LabState /\ state.at = "open" /\ state.holder = c
      BY <1>0, <2>3 DEF LabState
    <3> QED
      BY <1>0, <3>1, <3>2 DEF RequestState
  <2>5. Restorable(request, state) /\ request.at \in Pinned
    BY <1>8, <2>4 DEF Try, Restorable, Pinned
  <2> HIDE DEF request, state
  <2> QED
    BY <1>2, <2>2, <2>4, <2>5
<1>9. CASE TryRaises(c)
  <2>1. PICK s \in Tries(c), mined \in {FALSE} \cup {~servingOnly} :
          labs' = [labs EXCEPT ![l].config = s, ![l].model = IF mined THEN s ELSE @]
    BY <1>9 DEF TryRaises, l
  <2> DEFINE request == [old EXCEPT !.at = "restore"]
             state == [labs[l] EXCEPT !.config = s, !.model = IF mined THEN s ELSE @]
  <2>2. requests' = [requests EXCEPT ![c] = request] /\ labs' = [labs EXCEPT ![l] = state]
    BY <1>0, <1>9, <2>1 DEF TryRaises, Goes, old, l
  <2>3. s \in Setting /\ (servingOnly => ~mined)
    BY <1>0 DEF Tries, old, ControlTypeOK
  <2>4. /\ request \in RequestState /\ request.at = "restore" /\ request.op = old.op /\ request.lab = l
        /\ state \in LabState /\ state.at = "open" /\ state.holder = c
    BY <1>0, <2>3 DEF RequestState, LabState, Place, Pinned
  <2>5. Restorable(request, state) /\ request.at \in Pinned
    BY <1>0, <1>9, <2>3, <2>4 DEF TryRaises, Restorable, Pinned, RequestState, LabState, old
  <2> HIDE DEF request, state
  <2> QED
    BY <1>2, <2>2, <2>4, <2>5
<1>10. CASE Adopt(c)
  <2>1. PICK s \in Tries(c) :
          labs' = [labs EXCEPT ![l].config = s, ![l].model = s, ![l].source = "all", ![l].spoilt = FALSE]
    BY <1>10 DEF Adopt, l
  <2> DEFINE request == [old EXCEPT !.at = "evaluate"]
             state == [labs[l] EXCEPT !.config = s, !.model = s, !.source = "all", !.spoilt = FALSE]
  <2>2. requests' = [requests EXCEPT ![c] = request] /\ labs' = [labs EXCEPT ![l] = state]
    BY <1>0, <1>10, <2>1 DEF Adopt, Goes, old, l
  <2>3. s \in Setting
    BY <1>0 DEF Tries, old
  <2>4. /\ request \in RequestState /\ request.at = "evaluate" /\ request.op = old.op /\ request.lab = l
        /\ state \in LabState /\ state.at = "open" /\ state.holder = c
    BY <1>0, <2>3 DEF RequestState, LabState, Place, Pinned
  <2>5. Restorable(request, state) /\ request.at \in Pinned
    BY <1>0, <1>10, <2>4 DEF Adopt, Restorable, Fits, Pinned, LabState
  <2> HIDE DEF request, state
  <2> QED
    BY <1>2, <2>2, <2>4, <2>5
<1>11. CASE Restore(c)
  <2>1. PICK mined \in {FALSE} \cup {~servingOnly} :
          labs' = [labs EXCEPT ![l] = Restored(l, old.saved, mined)]
    BY <1>11 DEF Restore, l, old
  <2> DEFINE request == [old EXCEPT !.at = "evaluate"]
             state == Restored(l, old.saved, mined)
  <2>2. requests' = [requests EXCEPT ![c] = request] /\ labs' = [labs EXCEPT ![l] = state]
    BY <1>0, <1>11, <2>1 DEF Restore, Goes, old, l
  <2>3. servingOnly => ~mined
    BY <1>0 DEF ControlTypeOK
  <2>4. /\ state.config = old.saved /\ state.source = "all" /\ state.at = "open" /\ state.holder = c
        /\ state.model = (IF mined THEN old.saved ELSE labs[l].model)
        /\ state.spoilt = (state.model # old.saved)
        /\ state \in LabState
    BY <1>0 DEF Restored, LabState
  <2>5. request \in RequestState /\ request.at = "evaluate" /\ request.op = old.op /\ request.lab = l
    BY <1>0 DEF RequestState, Place, Pinned
  <2> HIDE DEF request, state
  <2>6. servingOnly => old.saved = DefaultSetting /\ labs[l].model = DefaultSetting
    BY <1>0, <1>11 DEF Restore, Restorable, old
  <2>7. Restorable(request, state) /\ request.at \in Pinned
    BY <2>3, <2>4, <2>5, <2>6 DEF Restorable, Fits, Pinned
  <2> QED
    BY <1>2, <2>2, <2>4, <2>5, <2>7
<1> QED
  BY <1>3, <1>4, <1>5, <1>6, <1>7, <1>8, <1>9, <1>10, <1>11

\* A request that leaves its Lab, the evaluation or the read being over.
LEMMA EndsInv ==
    ASSUME CInv, NEW c \in Client, Read(c) \/ Answer(c)
    PROVE  CInv'
<1> DEFINE l == Held(c)
<1>0. /\ ControlTypeOK /\ PinsAgree /\ HandsDiffer /\ IdleFits
      /\ requests[c].at \in {"held", "evaluate"} /\ requests[c].at \in Pinned
      /\ NoRequest \in RequestState /\ NoRequest.at = "idle"
      /\ UNCHANGED <<lab, servingOnly>>
      /\ requests' = [requests EXCEPT ![c] = NoRequest]
      /\ labs' = [labs EXCEPT ![l].holder = Nobody]
  BY ControlAssumption
  DEF CInv, Read, Answer, Ends, At, Pinned, NoRequest, RequestState, Operation, Place
<1>1. /\ l \in LabId /\ labs[l].holder = c /\ labs[l].at = "open" /\ labs[l] \in LabState
      /\ Fits(labs[l], labs[l].config)
  BY <1>0 DEF PinsAgree, Restorable, ControlTypeOK
<1>2. /\ requests' \in [Client -> RequestState] /\ requests'[c] = NoRequest
      /\ \A d \in Client : d # c => requests'[d] = requests[d] /\ Held(d)' = Held(d)
  BY <1>0 DEF ControlTypeOK, Held
<1> DEFINE freed == [labs[l] EXCEPT !.holder = Nobody]
<1>3. /\ freed \in LabState /\ freed.holder = Nobody /\ freed.at = "open"
      /\ freed.config = labs[l].config /\ freed.source = labs[l].source
      /\ freed.model = labs[l].model /\ freed.spoilt = labs[l].spoilt
      /\ labs' = [labs EXCEPT ![l] = freed]
  BY <1>0, <1>1 DEF LabState
<1> HIDE DEF l, freed
<1>4. /\ labs' \in [LabId -> LabState] /\ labs'[l] = freed
      /\ \A k \in LabId : k # l => labs'[k] = labs[k]
      /\ \A k \in LabId : labs'[k].at = labs[k].at
  BY <1>0, <1>1, <1>3 DEF ControlTypeOK
<1>5. ControlTypeOK'
  BY <1>0, <1>2, <1>4 DEF ControlTypeOK
<1>6. PinsAgree'
  <2>1. ASSUME NEW d \in Client, requests'[d].at \in Pinned
        PROVE  /\ requests'[d].op # "load" /\ Held(d)' \in LabId
               /\ labs'[Held(d)'].holder = d /\ labs'[Held(d)'].at = "open"
               /\ Restorable(requests[d], labs[Held(d)])'
    <3>1. d # c
      BY <1>0, <1>2, <2>1 DEF Pinned
    <3>2. /\ requests'[d] = requests[d] /\ Held(d)' = Held(d)
          /\ requests[d].op # "load" /\ Held(d) \in LabId
          /\ labs[Held(d)].holder = d /\ labs[Held(d)].at = "open"
          /\ Restorable(requests[d], labs[Held(d)])
      BY <1>0, <1>2, <2>1, <3>1 DEF PinsAgree
    <3>3. labs'[Held(d)'] = labs[Held(d)]
      BY <1>1, <1>4, <3>1, <3>2
    <3> QED
      BY <1>0, <3>2, <3>3 DEF Restorable, Fits
  <2>2. ASSUME NEW k \in LabId, labs'[k].holder # Nobody
        PROVE  requests'[labs'[k].holder].at \in Pinned /\ Held(labs[k].holder)' = k
    <3>1. k # l /\ labs'[k] = labs[k]
      BY <1>3, <1>4, <2>2
    <3>2. /\ labs[k].holder \in Client /\ requests[labs[k].holder].at \in Pinned
          /\ Held(labs[k].holder) = k
      BY <1>0, <2>2, <3>1 DEF PinsAgree, ControlTypeOK, LabState
    <3>3. labs[k].holder # c
      BY <3>1, <3>2 DEF l
    <3> QED
      BY <1>2, <3>1, <3>2, <3>3 DEF Held
  <2> QED
    BY <2>1, <2>2 DEF PinsAgree
<1>7. HandsDiffer'
  <2>1. Open' = Open
    BY <1>4 DEF Open
  <2>2. \A d \in Client : /\ requests'[d].at \in {"swap", "retire"} <=> requests[d].at \in {"swap", "retire"}
                          /\ requests'[d].at # "idle" => requests'[d] = requests[d] /\ Held(d)' = Held(d)
    BY <1>0, <1>2
  <2> QED
    BY <1>0, <2>1, <2>2 DEF HandsDiffer, Pinned
<1>8. IdleFits'
  <2> SUFFICES ASSUME NEW k \in LabId, labs'[k].at = "open", labs'[k].holder = Nobody
               PROVE  Fits(labs[k], labs[k].config)'
    BY DEF IdleFits, Open
  <2>1. CASE k = l
    BY <1>0, <1>1, <1>3, <1>4, <2>1 DEF Fits
  <2>2. CASE k # l
    BY <1>0, <1>4, <2>2 DEF IdleFits, Open, Fits
  <2> QED
    BY <2>1, <2>2
<1> QED
  BY <1>5, <1>6, <1>7, <1>8 DEF CInv

LEMMA PinInv ==
    ASSUME CInv, NEW c \in Client, Pin(c)
    PROVE  CInv'
<1>0. /\ ControlTypeOK /\ PinsAgree /\ HandsDiffer /\ IdleFits
      /\ requests[c] \in RequestState /\ requests[c].at = "pin"
      /\ lab \in LabId /\ labs[lab] \in LabState /\ labs[lab].holder = Nobody /\ labs[lab].at = "open"
      /\ labs[lab].config \in Setting
      /\ UNCHANGED <<lab, servingOnly>>
  BY DEF CInv, Pin, HandsDiffer, Open, ControlTypeOK, LabState
<1> DEFINE request == [requests[c] EXCEPT !.at = "held", !.lab = lab, !.saved = labs[lab].config]
           pinned == [labs[lab] EXCEPT !.holder = c]
<1>1. /\ request \in RequestState /\ request.at = "held" /\ request.lab = lab
      /\ request.saved = labs[lab].config /\ request.op = requests[c].op
      /\ requests' = [requests EXCEPT ![c] = request]
  BY <1>0 DEF Pin, RequestState, Place, Pinned
<1>2. /\ pinned \in LabState /\ pinned.holder = c /\ pinned.at = "open"
      /\ pinned.config = labs[lab].config /\ pinned.source = labs[lab].source
      /\ pinned.model = labs[lab].model /\ pinned.spoilt = labs[lab].spoilt
      /\ labs' = [labs EXCEPT ![lab] = pinned]
  BY <1>0 DEF Pin, LabState
<1> HIDE DEF request, pinned
<1>3. /\ requests' \in [Client -> RequestState] /\ requests'[c] = request /\ Held(c)' = lab
      /\ \A d \in Client : d # c => requests'[d] = requests[d] /\ Held(d)' = Held(d)
  BY <1>0, <1>1 DEF ControlTypeOK, Held
<1>4. /\ labs' \in [LabId -> LabState] /\ labs'[lab] = pinned
      /\ \A k \in LabId : k # lab => labs'[k] = labs[k]
      /\ \A k \in LabId : labs'[k].at = labs[k].at
  BY <1>0, <1>2 DEF ControlTypeOK
<1>5. ControlTypeOK'
  BY <1>0, <1>3, <1>4 DEF ControlTypeOK
<1>6. Fits(labs[lab], labs[lab].config)' /\ requests[c].op # "load" /\ c # Nobody
  <2>1. Fits(labs[lab], labs[lab].config)
    BY <1>0 DEF IdleFits, HandsDiffer
  <2> QED
    BY <1>0, <1>2, <1>4, <2>1, ControlAssumption DEF Fits, HandsDiffer
<1>7. PinsAgree'
  <2>1. ASSUME NEW d \in Client, requests'[d].at \in Pinned
        PROVE  /\ requests'[d].op # "load" /\ Held(d)' \in LabId
               /\ labs'[Held(d)'].holder = d /\ labs'[Held(d)'].at = "open"
               /\ Restorable(requests[d], labs[Held(d)])'
    <3>1. CASE d = c
      BY <1>0, <1>1, <1>2, <1>3, <1>4, <1>6, <3>1 DEF Restorable
    <3>2. CASE d # c
      <4>1. /\ requests'[d] = requests[d] /\ Held(d)' = Held(d)
            /\ requests[d].op # "load" /\ Held(d) \in LabId
            /\ labs[Held(d)].holder = d /\ labs[Held(d)].at = "open"
            /\ Restorable(requests[d], labs[Held(d)])
        BY <1>0, <1>3, <2>1, <3>2 DEF PinsAgree
      <4>2. labs'[Held(d)'] = labs[Held(d)]
        BY <1>0, <1>4, <4>1, ControlAssumption
      <4> QED
        BY <1>0, <4>1, <4>2 DEF Restorable, Fits
    <3> QED
      BY <3>1, <3>2
  <2>2. ASSUME NEW k \in LabId, labs'[k].holder # Nobody
        PROVE  requests'[labs'[k].holder].at \in Pinned /\ Held(labs[k].holder)' = k
    <3>1. CASE k = lab
      BY <1>1, <1>2, <1>3, <1>4, <3>1 DEF Pinned, Held
    <3>2. CASE k # lab
      <4>1. /\ labs'[k] = labs[k] /\ labs[k].holder \in Client
            /\ requests[labs[k].holder].at \in Pinned /\ Held(labs[k].holder) = k
        BY <1>0, <1>4, <2>2, <3>2 DEF PinsAgree, ControlTypeOK, LabState
      <4>2. labs[k].holder # c
        BY <1>0, <4>1 DEF Pinned
      <4> QED
        BY <1>3, <4>1, <4>2 DEF Held
    <3> QED
      BY <3>1, <3>2
  <2> QED
    BY <2>1, <2>2 DEF PinsAgree
<1>8. HandsDiffer'
  <2>1. Open' = Open
    BY <1>4 DEF Open
  <2>2. /\ \A d \in Client : d # c => requests'[d] = requests[d] /\ Held(d)' = Held(d)
        /\ requests'[c].at = "held" /\ requests'[c].op = requests[c].op /\ requests[c].at = "pin"
    BY <1>0, <1>1, <1>3
  <2>3. \A d \in Client : /\ requests'[d].at \in {"swap", "retire"} <=> requests[d].at \in {"swap", "retire"}
                          /\ requests'[d].at \in {"swap", "retire"} => Held(d)' = Held(d)
    BY <2>2
  <2>4. \A d \in Client : requests'[d].at \in {"build", "swap", "retire"} =>
                            requests'[d].op = "load" /\ ~servingOnly
    BY <1>0, <2>2 DEF HandsDiffer
  <2>5. \A d \in Client : requests'[d].op \in Gated /\ requests'[d].at \in {"pin"} \cup Pinned =>
                            ~servingOnly
    BY <1>0, <2>2 DEF HandsDiffer
  <2>6. \A d \in Client : requests'[d].at = "pin" => requests'[d].op # "load"
    BY <1>0, <2>2 DEF HandsDiffer
  <2> QED
    BY <1>0, <2>1, <2>3, <2>4, <2>5, <2>6 DEF HandsDiffer
<1>9. IdleFits'
  <2> SUFFICES ASSUME NEW k \in LabId, labs'[k].at = "open", labs'[k].holder = Nobody
               PROVE  Fits(labs[k], labs[k].config)'
    BY DEF IdleFits, Open
  <2>1. k # lab
    BY <1>2, <1>4, <1>6
  <2> QED
    BY <1>0, <1>4, <2>1 DEF IdleFits, Open, Fits
<1> QED
  BY <1>5, <1>7, <1>8, <1>9 DEF CInv

-----------------------------------------------------------------------------
\* The steps of a load that has a Lab in its hand: nothing that is pinned changes.
LEMMA ConstructInv ==
    ASSUME CInv, NEW c \in Client, Construct(c)
    PROVE  CInv'
<1>1. PICK l \in LabId :
        /\ labs[l].at = "unborn"
        /\ \E config \in {requests[c].saved, DefaultSetting} : labs' = [labs EXCEPT ![l] = Born(config)]
        /\ requests' = [requests EXCEPT ![c].at = "swap", ![c].lab = l]
  BY DEF Construct
<1>2. PICK config \in {requests[c].saved, DefaultSetting} : labs' = [labs EXCEPT ![l] = Born(config)]
  BY <1>1
<1>0. /\ ControlTypeOK /\ PinsAgree /\ HandsDiffer /\ IdleFits
      /\ requests[c] \in RequestState /\ requests[c].at = "build" /\ requests[c].op = "load"
      /\ config \in Setting /\ ~servingOnly
      /\ UNCHANGED <<lab, servingOnly>>
  BY ControlAssumption DEF CInv, Construct, At, HandsDiffer, ControlTypeOK, RequestState
<1> DEFINE request == [requests[c] EXCEPT !.at = "swap", !.lab = l]
           built == Born(config)
<1>3. /\ request \in RequestState /\ request.at = "swap" /\ request.lab = l /\ request.op = "load"
      /\ requests' = [requests EXCEPT ![c] = request]
  BY <1>0, <1>1 DEF RequestState, Place
<1>4. /\ built \in LabState /\ built.holder = Nobody /\ built.at = "open" /\ built.config = config
      /\ Fits(built, built.config) /\ labs' = [labs EXCEPT ![l] = built]
  BY <1>0, <1>2 DEF Born, Unborn, LabState, Fits
<1> HIDE DEF request, built
<1>5. /\ requests' \in [Client -> RequestState] /\ requests'[c] = request /\ Held(c)' = l
      /\ \A d \in Client : d # c => requests'[d] = requests[d] /\ Held(d)' = Held(d)
  BY <1>0, <1>3 DEF ControlTypeOK, Held
<1>6. /\ labs' \in [LabId -> LabState] /\ labs'[l] = built
      /\ \A k \in LabId : k # l => labs'[k] = labs[k]
  BY <1>0, <1>4 DEF ControlTypeOK
<1>7. ControlTypeOK'
  BY <1>0, <1>5, <1>6 DEF ControlTypeOK
<1>8. PinsAgree'
  <2>1. ASSUME NEW d \in Client, requests'[d].at \in Pinned
        PROVE  /\ requests'[d].op # "load" /\ Held(d)' \in LabId
               /\ labs'[Held(d)'].holder = d /\ labs'[Held(d)'].at = "open"
               /\ Restorable(requests[d], labs[Held(d)])'
    <3>1. d # c
      BY <1>3, <1>5, <2>1 DEF Pinned
    <3>2. /\ requests'[d] = requests[d] /\ Held(d)' = Held(d)
          /\ requests[d].op # "load" /\ Held(d) \in LabId
          /\ labs[Held(d)].holder = d /\ labs[Held(d)].at = "open"
          /\ Restorable(requests[d], labs[Held(d)])
      BY <1>0, <1>5, <2>1, <3>1 DEF PinsAgree
    <3>3. labs'[Held(d)'] = labs[Held(d)]
      BY <1>1, <1>6, <3>2
    <3> QED
      BY <1>0, <3>2, <3>3 DEF Restorable, Fits
  <2>2. ASSUME NEW k \in LabId, labs'[k].holder # Nobody
        PROVE  requests'[labs'[k].holder].at \in Pinned /\ Held(labs[k].holder)' = k
    <3>1. k # l /\ labs'[k] = labs[k]
      BY <1>4, <1>6, <2>2
    <3>2. /\ labs[k].holder \in Client /\ requests[labs[k].holder].at \in Pinned
          /\ Held(labs[k].holder) = k
      BY <1>0, <2>2, <3>1 DEF PinsAgree, ControlTypeOK, LabState
    <3>3. labs[k].holder # c
      BY <1>0, <3>2 DEF Pinned
    <3> QED
      BY <1>5, <3>1, <3>2, <3>3 DEF Held
  <2> QED
    BY <2>1, <2>2 DEF PinsAgree
<1>9. HandsDiffer'
  <2>1. Open' = Open \cup {l} /\ l \notin Open /\ l # lab /\ lab' = lab
    <3>1. \A k \in LabId : labs'[k].at = "open" <=> labs[k].at = "open" \/ k = l
      BY <1>4, <1>6
    <3> QED
      BY <1>0, <1>1, <3>1 DEF Open, HandsDiffer
  <2>2. \A d \in Client :
          d # c => /\ requests'[d] = requests[d] /\ Held(d)' = Held(d)
                   /\ requests'[d].at \in {"swap", "retire"} => Held(d) \in Open \ {lab}
    BY <1>0, <1>5 DEF HandsDiffer
  <2>3. lab' \in Open'
    BY <1>0, <2>1 DEF HandsDiffer
  <2>4. \A d \in Client : requests'[d].at \in {"swap", "retire"} => Held(d)' \in Open' \ {lab'}
    BY <1>5, <2>1, <2>2
  <2>5. \A d, e \in Client :
          requests'[d].at \in {"swap", "retire"} /\ requests'[e].at \in {"swap", "retire"}
            /\ Held(d)' = Held(e)' => d = e
    <3> SUFFICES ASSUME NEW d \in Client, NEW e \in Client,
                        requests'[d].at \in {"swap", "retire"}, requests'[e].at \in {"swap", "retire"},
                        Held(d)' = Held(e)', d # e
                 PROVE  FALSE
      OBVIOUS
    <3>1. CASE d # c /\ e # c
      BY <1>0, <2>2, <3>1 DEF HandsDiffer
    <3>2. CASE d = c \/ e = c
      BY <1>5, <2>1, <2>2, <3>2
    <3> QED
      BY <3>1, <3>2
  <2>6. \A k \in Open' \ {lab'} : \E d \in Client : requests'[d].at \in {"swap", "retire"} /\ Held(d)' = k
    <3> SUFFICES ASSUME NEW k \in Open' \ {lab'}
                 PROVE  \E d \in Client : requests'[d].at \in {"swap", "retire"} /\ Held(d)' = k
      OBVIOUS
    <3>1. CASE k = l
      BY <1>3, <1>5, <3>1
    <3>2. CASE k # l
      <4>1. PICK d \in Client : requests[d].at \in {"swap", "retire"} /\ Held(d) = k
        BY <1>0, <2>1, <3>2 DEF HandsDiffer
      <4>2. d # c
        BY <1>0, <4>1
      <4> QED
        BY <2>2, <4>1, <4>2
    <3> QED
      BY <3>1, <3>2
  <2>7. \A d \in Client :
          /\ requests'[d].at \in {"build", "swap", "retire"} => requests'[d].op = "load" /\ ~servingOnly'
          /\ requests'[d].op \in Gated /\ requests'[d].at \in {"pin"} \cup Pinned => ~servingOnly'
          /\ requests'[d].at = "pin" => requests'[d].op # "load"
    BY <1>0, <1>3, <1>5, <2>2 DEF HandsDiffer, Pinned
  <2> QED
    BY <2>3, <2>4, <2>5, <2>6, <2>7 DEF HandsDiffer
<1>10. IdleFits'
  <2> SUFFICES ASSUME NEW k \in LabId, labs'[k].at = "open", labs'[k].holder = Nobody
               PROVE  Fits(labs[k], labs[k].config)'
    BY DEF IdleFits, Open
  <2>1. CASE k = l
    BY <1>0, <1>4, <1>6, <2>1 DEF Fits
  <2>2. CASE k # l
    BY <1>0, <1>6, <2>2 DEF IdleFits, Open, Fits
  <2> QED
    BY <2>1, <2>2
<1> QED
  BY <1>7, <1>8, <1>9, <1>10 DEF CInv

LEMMA SwapInv ==
    ASSUME CInv, NEW c \in Client, Swap(c)
    PROVE  CInv'
<1> DEFINE l == Held(c)
           request == [requests[c] EXCEPT !.at = "retire", !.lab = lab]
<1>0. /\ ControlTypeOK /\ PinsAgree /\ HandsDiffer /\ IdleFits
      /\ requests[c] \in RequestState /\ requests[c].at = "swap" /\ requests[c].op = "load"
      /\ l \in LabId /\ l \in Open \ {lab} /\ lab \in Open /\ lab \in LabId
      /\ lab' = l /\ UNCHANGED <<labs, servingOnly>> /\ ~servingOnly
  BY DEF CInv, Swap, At, HandsDiffer, ControlTypeOK, Open
<1>1. /\ request \in RequestState /\ request.at = "retire" /\ request.lab = lab /\ request.op = "load"
      /\ requests' = [requests EXCEPT ![c] = request]
  BY <1>0 DEF Swap, RequestState, Place
<1> HIDE DEF l, request
<1>2. /\ requests' \in [Client -> RequestState] /\ requests'[c] = request /\ Held(c)' = lab
      /\ \A d \in Client : d # c => requests'[d] = requests[d] /\ Held(d)' = Held(d)
  BY <1>0, <1>1 DEF ControlTypeOK, Held
<1>3. ControlTypeOK'
  BY <1>0, <1>2 DEF ControlTypeOK
<1>4. PinsAgree'
  <2>1. ASSUME NEW d \in Client, requests'[d].at \in Pinned
        PROVE  /\ requests'[d].op # "load" /\ Held(d)' \in LabId
               /\ labs'[Held(d)'].holder = d /\ labs'[Held(d)'].at = "open"
               /\ Restorable(requests[d], labs[Held(d)])'
    <3>1. d # c
      BY <1>1, <1>2, <2>1 DEF Pinned
    <3>2. /\ requests'[d] = requests[d] /\ Held(d)' = Held(d)
          /\ requests[d].op # "load" /\ Held(d) \in LabId
          /\ labs[Held(d)].holder = d /\ labs[Held(d)].at = "open"
          /\ Restorable(requests[d], labs[Held(d)])
      BY <1>0, <1>2, <2>1, <3>1 DEF PinsAgree
    <3> QED
      BY <1>0, <3>2 DEF Restorable, Fits
  <2>2. ASSUME NEW k \in LabId, labs'[k].holder # Nobody
        PROVE  requests'[labs'[k].holder].at \in Pinned /\ Held(labs[k].holder)' = k
    <3>2. /\ labs'[k] = labs[k] /\ labs[k].holder \in Client
          /\ requests[labs[k].holder].at \in Pinned /\ Held(labs[k].holder) = k
      BY <1>0, <2>2 DEF PinsAgree, ControlTypeOK, LabState
    <3>3. labs[k].holder # c
      BY <1>0, <3>2 DEF Pinned
    <3> QED
      BY <1>2, <3>2, <3>3 DEF Held
  <2> QED
    BY <2>1, <2>2 DEF PinsAgree
<1>5. HandsDiffer'
  <2>1. Open' = Open
    BY <1>0 DEF Open
  <2>2. \A d \in Client :
          d # c => /\ requests'[d] = requests[d] /\ Held(d)' = Held(d)
                   /\ requests'[d].at \in {"swap", "retire"} => Held(d) \in Open \ {lab} /\ Held(d) # l
    BY <1>0, <1>2 DEF HandsDiffer, l
  <2>3. \A d \in Client : requests'[d].at \in {"swap", "retire"} => Held(d)' \in Open' \ {lab'}
    BY <1>0, <1>2, <2>1, <2>2
  <2>4. \A d, e \in Client :
          requests'[d].at \in {"swap", "retire"} /\ requests'[e].at \in {"swap", "retire"}
            /\ Held(d)' = Held(e)' => d = e
    <3> SUFFICES ASSUME NEW d \in Client, NEW e \in Client,
                        requests'[d].at \in {"swap", "retire"}, requests'[e].at \in {"swap", "retire"},
                        Held(d)' = Held(e)', d # e
                 PROVE  FALSE
      OBVIOUS
    <3>1. CASE d # c /\ e # c
      BY <1>0, <2>2, <3>1 DEF HandsDiffer
    <3>2. CASE d = c \/ e = c
      BY <1>2, <2>2, <3>2
    <3> QED
      BY <3>1, <3>2
  <2>5. \A k \in Open' \ {lab'} : \E d \in Client : requests'[d].at \in {"swap", "retire"} /\ Held(d)' = k
    <3> SUFFICES ASSUME NEW k \in Open' \ {lab'}
                 PROVE  \E d \in Client : requests'[d].at \in {"swap", "retire"} /\ Held(d)' = k
      OBVIOUS
    <3>1. CASE k = lab
      BY <1>1, <1>2, <3>1
    <3>2. CASE k # lab
      <4>1. PICK d \in Client : requests[d].at \in {"swap", "retire"} /\ Held(d) = k
        BY <1>0, <2>1, <3>2 DEF HandsDiffer
      <4>2. d # c
        BY <1>0, <4>1 DEF l
      <4> QED
        BY <2>2, <4>1, <4>2
    <3> QED
      BY <3>1, <3>2
  <2>6. \A d \in Client :
          /\ requests'[d].at \in {"build", "swap", "retire"} => requests'[d].op = "load" /\ ~servingOnly'
          /\ requests'[d].op \in Gated /\ requests'[d].at \in {"pin"} \cup Pinned => ~servingOnly'
          /\ requests'[d].at = "pin" => requests'[d].op # "load"
    BY <1>0, <1>1, <1>2, <2>2 DEF HandsDiffer, Pinned
  <2> QED
    BY <1>0, <2>1, <2>3, <2>4, <2>5, <2>6 DEF HandsDiffer
<1>6. IdleFits'
  BY <1>0 DEF IdleFits, Open, Fits
<1> QED
  BY <1>3, <1>4, <1>5, <1>6 DEF CInv

LEMMA RetireInv ==
    ASSUME CInv, NEW c \in Client, Retire(c)
    PROVE  CInv'
<1> DEFINE l == Held(c)
           closed == [labs[l] EXCEPT !.at = "closed"]
<1>0. /\ ControlTypeOK /\ PinsAgree /\ HandsDiffer /\ IdleFits
      /\ requests[c].at = "retire" /\ NoRequest \in RequestState /\ NoRequest.at = "idle"
      /\ l \in LabId /\ l \in Open \ {lab} /\ labs[l] \in LabState /\ labs[l].holder = Nobody
      /\ requests' = [requests EXCEPT ![c] = NoRequest]
      /\ labs' = [labs EXCEPT ![l] = closed]
      /\ UNCHANGED <<lab, servingOnly>>
  BY ControlAssumption
  DEF CInv, Retire, At, HandsDiffer, ControlTypeOK, Open, NoRequest, RequestState, Operation, Place
<1>1. closed \in LabState /\ closed.holder = Nobody /\ closed.at = "closed"
  BY <1>0 DEF LabState
<1> HIDE DEF l, closed
<1>2. /\ requests' \in [Client -> RequestState] /\ requests'[c] = NoRequest
      /\ \A d \in Client : d # c => requests'[d] = requests[d] /\ Held(d)' = Held(d)
  BY <1>0 DEF ControlTypeOK, Held
<1>3. /\ labs' \in [LabId -> LabState] /\ labs'[l] = closed
      /\ \A k \in LabId : k # l => labs'[k] = labs[k]
  BY <1>0, <1>1 DEF ControlTypeOK
<1>4. ControlTypeOK'
  BY <1>0, <1>2, <1>3 DEF ControlTypeOK
<1>5. PinsAgree'
  <2>1. ASSUME NEW d \in Client, requests'[d].at \in Pinned
        PROVE  /\ requests'[d].op # "load" /\ Held(d)' \in LabId
               /\ labs'[Held(d)'].holder = d /\ labs'[Held(d)'].at = "open"
               /\ Restorable(requests[d], labs[Held(d)])'
    <3>1. d # c
      BY <1>0, <1>2, <2>1 DEF Pinned
    <3>2. /\ requests'[d] = requests[d] /\ Held(d)' = Held(d)
          /\ requests[d].op # "load" /\ Held(d) \in LabId
          /\ labs[Held(d)].holder = d /\ labs[Held(d)].at = "open"
          /\ Restorable(requests[d], labs[Held(d)])
      BY <1>0, <1>2, <2>1, <3>1 DEF PinsAgree
    <3>3. labs'[Held(d)'] = labs[Held(d)]
      BY <1>0, <1>3, <3>2, ControlAssumption
    <3> QED
      BY <1>0, <3>2, <3>3 DEF Restorable, Fits
  <2>2. ASSUME NEW k \in LabId, labs'[k].holder # Nobody
        PROVE  requests'[labs'[k].holder].at \in Pinned /\ Held(labs[k].holder)' = k
    <3>1. k # l /\ labs'[k] = labs[k]
      BY <1>1, <1>3, <2>2
    <3>2. /\ labs[k].holder \in Client /\ requests[labs[k].holder].at \in Pinned
          /\ Held(labs[k].holder) = k
      BY <1>0, <2>2, <3>1 DEF PinsAgree, ControlTypeOK, LabState
    <3>3. labs[k].holder # c
      BY <1>0, <3>2 DEF Pinned
    <3> QED
      BY <1>2, <3>1, <3>2, <3>3 DEF Held
  <2> QED
    BY <2>1, <2>2 DEF PinsAgree
<1>6. HandsDiffer'
  <2>1. Open' = Open \ {l}
    BY <1>1, <1>3 DEF Open
  <2>2. \A d \in Client :
          requests'[d].at \in {"build", "swap", "retire", "pin"} \cup Pinned =>
            d # c /\ requests'[d] = requests[d] /\ Held(d)' = Held(d)
    BY <1>0, <1>2 DEF Pinned
  <2>3. \A d \in Client : d # c /\ requests[d].at \in {"swap", "retire"} => Held(d) # l
    BY <1>0 DEF HandsDiffer, l
  <2>4. lab' \in Open'
    BY <1>0, <2>1 DEF HandsDiffer
  <2>5. \A d \in Client : requests'[d].at \in {"swap", "retire"} => Held(d)' \in Open' \ {lab'}
    BY <1>0, <2>1, <2>2, <2>3 DEF HandsDiffer
  <2>6. \A d, e \in Client :
          requests'[d].at \in {"swap", "retire"} /\ requests'[e].at \in {"swap", "retire"}
            /\ Held(d)' = Held(e)' => d = e
    BY <1>0, <2>2 DEF HandsDiffer
  <2>7. \A k \in Open' \ {lab'} : \E d \in Client : requests'[d].at \in {"swap", "retire"} /\ Held(d)' = k
    <3> SUFFICES ASSUME NEW k \in Open' \ {lab'}
                 PROVE  \E d \in Client : requests'[d].at \in {"swap", "retire"} /\ Held(d)' = k
      OBVIOUS
    <3>1. PICK d \in Client : requests[d].at \in {"swap", "retire"} /\ Held(d) = k
      BY <1>0, <2>1 DEF HandsDiffer
    <3>2. d # c
      BY <2>1, <3>1 DEF l
    <3> QED
      BY <1>2, <3>1, <3>2
  <2>8. \A d \in Client :
          /\ requests'[d].at \in {"build", "swap", "retire"} => requests'[d].op = "load" /\ ~servingOnly'
          /\ requests'[d].op \in Gated /\ requests'[d].at \in {"pin"} \cup Pinned => ~servingOnly'
          /\ requests'[d].at = "pin" => requests'[d].op # "load"
    BY <1>0, <2>2 DEF HandsDiffer
  <2> QED
    BY <2>4, <2>5, <2>6, <2>7, <2>8 DEF HandsDiffer
<1>7. IdleFits'
  <2> SUFFICES ASSUME NEW k \in LabId, labs'[k].at = "open", labs'[k].holder = Nobody
               PROVE  Fits(labs[k], labs[k].config)'
    BY DEF IdleFits, Open
  <2>1. k # l
    BY <1>1, <1>3
  <2> QED
    BY <1>0, <1>3, <2>1 DEF IdleFits, Open, Fits
<1> QED
  BY <1>4, <1>5, <1>6, <1>7 DEF CInv

-----------------------------------------------------------------------------
LEMMA ControlNextInv == CInv /\ [ControlNext]_controlVars => CInv'
<1> SUFFICES ASSUME CInv, [ControlNext]_controlVars PROVE CInv'
  OBVIOUS
<1>1. ASSUME NEW c \in Client,
             \/ Request(c) \/ TakeSwapLock(c) \/ PassGate(c) \/ Pin(c)
             \/ Read(c) \/ Configure(c) \/ Replay(c) \/ MineNow(c) \/ Mined(c) \/ MineRaises(c) \/ Answer(c)
             \/ BeginTrials(c) \/ Try(c) \/ TryRaises(c) \/ Adopt(c) \/ Restore(c)
             \/ Construct(c) \/ ConstructRaises(c) \/ Swap(c) \/ Retire(c)
      PROVE  CInv'
  <2>1. CASE Request(c) \/ TakeSwapLock(c) \/ PassGate(c) \/ ConstructRaises(c)
    BY <2>1, WalksInv
  <2>2. CASE \/ Configure(c) \/ Replay(c) \/ MineNow(c) \/ Mined(c) \/ MineRaises(c)
             \/ BeginTrials(c) \/ Try(c) \/ TryRaises(c) \/ Adopt(c) \/ Restore(c)
    BY <2>2, WorksInv
  <2>3. CASE Pin(c)
    BY <2>3, PinInv
  <2>4. CASE Read(c) \/ Answer(c)
    BY <2>4, EndsInv
  <2>5. CASE Construct(c)
    BY <2>5, ConstructInv
  <2>6. CASE Swap(c)
    BY <2>6, SwapInv
  <2>7. CASE Retire(c)
    BY <2>7, RetireInv
  <2> QED
    BY <1>1, <2>1, <2>2, <2>3, <2>4, <2>5, <2>6, <2>7
<1>2. CASE UNCHANGED controlVars
  <2> USE <1>2 DEF controlVars
  <2>1. ControlTypeOK'
    BY DEF CInv, ControlTypeOK
  <2>2. PinsAgree'
    BY DEF CInv, PinsAgree, Held, Restorable, Fits
  <2>3. HandsDiffer'
    BY DEF CInv, HandsDiffer, Held, Open
  <2>4. IdleFits'
    BY DEF CInv, IdleFits, Open, Fits
  <2> QED
    BY <2>1, <2>2, <2>3, <2>4 DEF CInv
<1> QED
  BY <1>1, <1>2 DEF ControlNext

\* The invariant of a run: a pinned Lab and its request know each other, a load
\* has its Lab to itself, and what a request pinned can be restored.
THEOREM ControlInvHolds == ControlSpec => []CInv
<1> QED
  BY ControlInitInv, ControlNextInv, PTL DEF ControlSpec

\* server.py: the active Lab, the Labs, the requests and --serving-only keep
\* their types whatever the requests do and fail at.
THEOREM ControlTypeCorrect == ControlSpec => []ControlTypeOK
<1>1. CInv => ControlTypeOK
  BY DEF CInv
<1> QED
  BY <1>1, ControlInvHolds, PTL

LEMMA SoundFromInv == CInv => ControlSound
<1> SUFFICES ASSUME CInv PROVE ControlSound
  OBVIOUS
<1>0. ControlTypeOK /\ PinsAgree /\ HandsDiffer /\ IdleFits
  BY DEF CInv
<1>1. LabsAccountedFor
  <2>1. InHand = {c \in Client : requests[c].at \in {"swap", "retire"}}
    BY <1>0 DEF InHand, HandsDiffer
  <2>2. \A l \in LabId : labs[l].holder # Nobody => l \in Open
    <3> SUFFICES ASSUME NEW l \in LabId, labs[l].holder # Nobody PROVE l \in Open
      OBVIOUS
    <3>1. labs[l].holder \in Client /\ requests[labs[l].holder].at \in Pinned /\ Held(labs[l].holder) = l
      BY <1>0 DEF PinsAgree, ControlTypeOK, LabState
    <3> QED
      BY <1>0, <3>1 DEF PinsAgree, Open
  <2> QED
    BY <1>0, <2>1, <2>2 DEF LabsAccountedFor, HandsDiffer
<1>2. ModelFitsSettings
  <2> SUFFICES ASSUME NEW l \in Open, labs[l].holder = Nobody
               PROVE  /\ labs[l].source = "all"
                      /\ labs[l].model # labs[l].config => labs[l].spoilt
                      /\ servingOnly => labs[l] = Born(DefaultSetting)
    BY DEF ModelFitsSettings
  <2>1. /\ labs[l] \in LabState /\ labs[l].at = "open" /\ Fits(labs[l], labs[l].config)
    BY <1>0 DEF IdleFits, Open, ControlTypeOK
  <2>2. servingOnly => labs[l] = Born(DefaultSetting)
    <3> SUFFICES ASSUME servingOnly PROVE labs[l] = Born(DefaultSetting)
      OBVIOUS
    <3>1. /\ labs[l].config = DefaultSetting /\ labs[l].model = DefaultSetting
          /\ labs[l].source = "all" /\ labs[l].spoilt = FALSE
      BY <2>1 DEF Fits, LabState
    <3>2. \A state \in LabState :
            state = [at |-> state.at, config |-> state.config, model |-> state.model,
                     source |-> state.source, spoilt |-> state.spoilt, holder |-> state.holder]
      BY DEF LabState
    <3> DEFINE born == Born(DefaultSetting)
    <3>3. /\ born \in LabState /\ born.at = "open" /\ born.config = DefaultSetting
          /\ born.model = DefaultSetting /\ born.source = "all" /\ born.spoilt = FALSE
          /\ born.holder = Nobody
      BY ControlAssumption DEF Born, Unborn, LabState
    <3> HIDE DEF born
    <3>4. labs[l] = [at |-> "open", config |-> DefaultSetting, model |-> DefaultSetting,
                     source |-> "all", spoilt |-> FALSE, holder |-> Nobody]
      BY <2>1, <3>1, <3>2
    <3>5. born = [at |-> "open", config |-> DefaultSetting, model |-> DefaultSetting,
                  source |-> "all", spoilt |-> FALSE, holder |-> Nobody]
      BY <3>2, <3>3
    <3> QED
      BY <3>4, <3>5 DEF born
  <2> QED
    BY <2>1, <2>2 DEF Fits
<1> QED
  BY <1>1, <1>2 DEF ControlSound

\* server.py:1611-1613, lab_benchmark.py:553-556: whichever requests overlap and
\* fail, no Lab is lost or closed under a request, and no trial stays in force.
THEOREM ControlIsSound == ControlSpec => []ControlSound
<1> QED
  BY ControlInvHolds, SoundFromInv, PTL

(***************************************************************************)
(* The proof caches                                                        *)
(***************************************************************************)
Batch == SUBSET (Channel \cup PointCase)
CallPlace == {"idle", "ground", "point", "insert point", "feedback", "index", "pair",
              "insert pair", "margins"}
CallState == [at : CallPlace, slate : Slate \cup {NoSlate}, point : SUBSET PointCase,
              pair : SUBSET PairCase, skips : SUBSET PointCase, pending : SUBSET Channel]
Ranking == [slate : Slate \cup {NoSlate}, profile : Nat, rules : Nat \cup {NoRules}]

ProofTypeOK ==
    /\ rules \in Nat \cup {NoRules} /\ atoms \in Seq(Batch) /\ storeUp \in BOOLEAN
    /\ loaded \in [Family -> SUBSET Channel] /\ proved \in [Family -> SUBSET Channel]
    /\ cached \in [Family -> SUBSET (PointCase \cup PairCase)]
    /\ grounded \subseteq PointCase /\ skipProofs \subseteq PointCase
    /\ indexed \subseteq PairCase /\ margins \subseteq PairCase
    /\ ranked \in Seq(Ranking) /\ profile \in Nat /\ failures \in Nat
    /\ call \in CallState

\* What the call that holds the lock has made sure of.
CallFits ==
    /\ call.at = "idle" => call = NoCall
    /\ call.at \notin {"idle", "ground"} => call.skips \subseteq grounded
    /\ \A f \in Family : call.at = Inserting(f) =>
         /\ Size(f) + Cardinality(Missing(f)) <= CacheLimit
         /\ Cardinality(proved[f]) + Cardinality(Unproved(f)) <= CacheLimit
         /\ \A x \in Unproved(f) \ call.pending : Inserted(x) # {}

PInv == ProofTypeOK /\ CallFits /\ CachesBounded /\ CachesCoherent /\ RankingsCurrent

-----------------------------------------------------------------------------
LEMMA CacheFinite ==
    ASSUME NEW S \in SUBSET (PointCase \cup PairCase \cup Channel)
    PROVE  IsFiniteSet(S) /\ Cardinality(S) \in Nat
BY CaseAssumption, FS_Subset, FS_CardinalityType

LEMMA CacheGrows ==
    ASSUME NEW S \in SUBSET (PointCase \cup PairCase \cup Channel),
           NEW T \in SUBSET (PointCase \cup PairCase \cup Channel)
    PROVE  Cardinality(S \cup T) <= Cardinality(S) + Cardinality(T \ S)
<1>1. S \cup T = S \cup (T \ S) /\ S \cap (T \ S) = {}
  OBVIOUS
<1>2. IsFiniteSet(S) /\ IsFiniteSet(T \ S)
  BY CacheFinite
<1>3. Cardinality(S) \in Nat /\ Cardinality(T \ S) \in Nat
  BY CacheFinite
<1>4. Cardinality(S \cup (T \ S)) = Cardinality(S) + Cardinality(T \ S) - Cardinality({})
  BY <1>1, <1>2, FS_Union
<1> QED
  BY <1>1, <1>3, <1>4, FS_EmptySet

LEMMA CallFields ==
    ASSUME ProofTypeOK
    PROVE  /\ call.at \in CallPlace /\ call.slate \in Slate \cup {NoSlate}
           /\ call.point \in SUBSET PointCase /\ call.pair \in SUBSET PairCase
           /\ call.skips \in SUBSET PointCase /\ call.pending \in SUBSET Channel
BY DEF ProofTypeOK, CallState

LEMMA NoCallType == NoCall \in CallState /\ NoCall.at = "idle"
BY DEF NoCall, CallState, CallPlace

\* A command that the store accepts adds its facts, and no others.
LEMMA Inserts ==
    ASSUME ProofTypeOK, NEW batch \in Batch, Worker!Accept(batch)
    PROVE  /\ atoms' \in Seq(Batch) /\ rules' = rules /\ storeUp' = storeUp
           /\ \A x : x \notin batch => Inserted(x)' = Inserted(x)
           /\ \A x \in batch : Inserted(x)' = Inserted(x) \cup {Len(atoms) + 1}
<1>1. atoms \in Seq(Batch) /\ atoms' = Append(atoms, batch) /\ rules' = rules /\ storeUp' = storeUp
  BY DEF ProofTypeOK, Worker!Accept
<1>2. /\ atoms' \in Seq(Batch) /\ Len(atoms) \in Nat /\ Len(atoms') = Len(atoms) + 1
      /\ DOMAIN atoms = 1..Len(atoms) /\ DOMAIN atoms' = 1..Len(atoms) + 1
      /\ \A i \in 1..Len(atoms) : atoms'[i] = atoms[i]
      /\ atoms'[Len(atoms) + 1] = batch
  BY <1>1
<1>3. \A x : Inserted(x) = {i \in 1..Len(atoms) : x \in atoms[i]}
  BY <1>2 DEF Inserted
<1>4. \A x : Inserted(x)' = {i \in 1..Len(atoms) + 1 : x \in atoms'[i]}
  BY <1>2 DEF Inserted
<1>5. ASSUME NEW x, x \notin batch PROVE Inserted(x)' = Inserted(x)
  <2>1. \A i \in 1..Len(atoms) + 1 : x \in atoms'[i] <=> i \in 1..Len(atoms) /\ x \in atoms[i]
    BY <1>2, <1>5
  <2>2. Inserted(x)' = {i \in 1..Len(atoms) + 1 : x \in atoms'[i]}
    BY <1>4
  <2>3. Inserted(x) = {i \in 1..Len(atoms) : x \in atoms[i]}
    BY <1>3
  <2>4. 1..Len(atoms) \subseteq 1..Len(atoms) + 1
    BY <1>2
  <2> QED
    BY <2>1, <2>2, <2>3, <2>4
<1>6. ASSUME NEW x \in batch PROVE Inserted(x)' = Inserted(x) \cup {Len(atoms) + 1}
  BY <1>2, <1>3, <1>4
<1> QED
  BY <1>1, <1>2, <1>5, <1>6

LEMMA CachesFinite ==
    ASSUME ProofTypeOK, NEW f \in Family
    PROVE  /\ Cardinality(cached[f]) \in Nat /\ Cardinality(proved[f]) \in Nat
           /\ Cardinality(skipProofs) \in Nat /\ Size(f) \in Nat
           /\ Cardinality(grounded) \in Nat /\ Cardinality(indexed) \in Nat
           /\ Cardinality(margins) \in Nat
<1>1. /\ cached[f] \in SUBSET (PointCase \cup PairCase) /\ proved[f] \in SUBSET Channel
      /\ skipProofs \subseteq PointCase /\ grounded \subseteq PointCase
      /\ indexed \subseteq PairCase /\ margins \subseteq PairCase
  BY DEF ProofTypeOK
<1>2. /\ Cardinality(cached[f]) \in Nat /\ Cardinality(proved[f]) \in Nat
      /\ Cardinality(skipProofs) \in Nat
      /\ Cardinality(grounded) \in Nat /\ Cardinality(indexed) \in Nat
      /\ Cardinality(margins) \in Nat
  BY <1>1, CacheFinite
<1> QED
  BY <1>2 DEF Size

LEMMA Emptied ==
    ASSUME PInv, ForgetProofs, atoms' \in Seq(Batch), rules' \in Nat, storeUp' \in BOOLEAN,
           profile' = profile, failures' = failures, call' \in CallState,
           call'.at = "idle" => call' = NoCall, call'.at \in {"idle", "point"},
           call'.skips = {}, \A c \in PointCase : Inserted(c)' = {}
    PROVE  PInv'
<1>1. ProofTypeOK'
  BY DEF PInv, ProofTypeOK, ForgetProofs, NoProofs
<1>2. CallFits'
  BY DEF CallFits, Inserting
<1>3. CachesBounded'
  <2>1. \A f \in Family : cached'[f] = {} /\ proved'[f] = {}
    BY DEF ForgetProofs, NoProofs
  <2>2. grounded' = {} /\ skipProofs' = {} /\ indexed' = {} /\ margins' = {} /\ ranked' = <<>>
    BY DEF ForgetProofs
  <2>3. Cardinality({}) = 0
    BY FS_EmptySet
  <2>4. \A f \in Family : Size(f)' = 0
    <3>1. \A f \in Family : Cardinality(cached'[f]) = 0 /\ Cardinality(proved'[f]) = 0
      BY <2>1, <2>3
    <3>2. Cardinality(skipProofs') = 0
      BY <2>2, <2>3
    <3> QED
      BY <3>1, <3>2 DEF Size
  <2>5. Len(<<>>) = 0 /\ CacheLimit \in Nat /\ RankLimit \in Nat
    BY CacheAssumption
  <2>6. Cardinality(grounded') = 0 /\ Cardinality(indexed') = 0 /\ Cardinality(margins') = 0
    BY <2>2, <2>3
  <2>7. \A f \in Family : Cardinality(proved'[f]) = 0
    BY <2>1, <2>3
  <2>8. Len(ranked') = 0
    BY <2>2, <2>5
  <2>9. /\ \A f \in Family :
             /\ cached'[f] \subseteq Cases(f) /\ proved'[f] \subseteq loaded'[f]
             /\ Size(f)' <= CacheLimit
             /\ Cardinality(proved'[f]) <= CacheLimit
        /\ Cardinality(grounded') <= CacheLimit /\ Cardinality(indexed') <= CacheLimit
        /\ Cardinality(margins') <= CacheLimit
        /\ Len(ranked') <= RankLimit
    BY <2>1, <2>4, <2>5, <2>6, <2>7, <2>8
  <2> QED
    BY <2>9 DEF CachesBounded
<1>4. CachesCoherent'
  <2>1. \A f \in Family : cached'[f] = {} /\ loaded'[f] = {}
    BY DEF ForgetProofs, NoProofs
  <2> QED
    BY <2>1 DEF CachesCoherent, ForgetProofs
<1>5. RankingsCurrent'
  BY DEF RankingsCurrent, ForgetProofs
<1> QED
  BY <1>1, <1>2, <1>3, <1>4, <1>5 DEF PInv

LEMMA NewRulesForProofs == PInv /\ (MineAndWarm \/ AdoptEngine) => PInv'
<1>1. ASSUME PInv, MineAndWarm PROVE PInv'
  <2>1. atoms' = <<>> /\ rules' = NextRules /\ storeUp' = TRUE
    BY <1>1 DEF MineAndWarm, Worker!Install
  <2>2. NextRules \in Nat
    BY <1>1, CacheAssumption DEF MineAndWarm
  <2>3. \A c \in PointCase : Inserted(c)' = {}
    BY <2>1 DEF Inserted
  <2>4. call' = [NoCall EXCEPT !.at = "point", !.point = WarmPoint, !.pair = WarmPair]
    BY <1>1 DEF MineAndWarm
  <2>5. call' \in CallState /\ call'.at = "point" /\ call'.skips = {}
    BY <2>4, CaseAssumption DEF NoCall, CallState, CallPlace
  <2> QED
    BY <1>1, <2>1, <2>2, <2>3, <2>5, Emptied DEF MineAndWarm
<1>2. ASSUME PInv, AdoptEngine PROVE PInv'
  <2> DEFINE one == UNION {Active[c] : c \in WarmPoint}
             two == UNION {Active[c] : c \in WarmPair}
  <2>1. atoms' = <<one, two>> /\ rules' = NextRules /\ storeUp' = TRUE
    BY <1>2 DEF AdoptEngine
  <2>2. NextRules \in Nat
    BY <1>2, CacheAssumption DEF AdoptEngine
  <2>3. one \in SUBSET Channel /\ two \in SUBSET Channel
    BY CaseAssumption DEF Channel
  <2> HIDE DEF one, two
  <2>4. atoms' \in Seq(Batch)
    BY <2>1, <2>3 DEF Batch
  <2>5. \A c \in PointCase : Inserted(c)' = {}
    <3>1. \A c \in PointCase : c \notin one /\ c \notin two
      BY <2>3, CacheAssumption
    <3>2. DOMAIN atoms' = 1..2 /\ atoms'[1] = one /\ atoms'[2] = two
      BY <2>1
    <3> QED
      BY <3>1, <3>2 DEF Inserted
  <2>6. call' = NoCall
    BY <1>2 DEF AdoptEngine
  <2>7. NoCall.skips = {}
    BY DEF NoCall
  <2> QED
    BY <1>2, <2>1, <2>2, <2>4, <2>5, <2>6, <2>7, NoCallType, Emptied DEF AdoptEngine
<1> QED
  BY <1>1, <1>2

\* A step that leaves the store and the caches alone.
LEMMA CachesSame ==
    ASSUME PInv, UNCHANGED <<rules, atoms, cacheVars>>, storeUp' \in BOOLEAN,
           failures' \in Nat, call' \in CallState, CallFits',
           profile' \in Nat, ranked' \in Seq(Ranking), Len(ranked') <= RankLimit,
           RankingsCurrent'
    PROVE  PInv'
<1>1. /\ UNCHANGED <<loaded, proved, cached, grounded, skipProofs, indexed, margins>>
      /\ UNCHANGED <<rules, atoms>>
  BY DEF cacheVars
<1>2. ProofTypeOK'
  BY <1>1 DEF PInv, ProofTypeOK
<1>3. CachesBounded'
  BY <1>1 DEF PInv, CachesBounded, Size
<1>4. CachesCoherent'
  <2>1. \A x : Inserted(x)' = Inserted(x)
    BY <1>1 DEF Inserted
  <2> QED
    BY <1>1, <2>1 DEF PInv, CachesCoherent
<1> QED
  BY <1>2, <1>3, <1>4 DEF PInv

LEMMA RankingsSame ==
    ASSUME PInv, UNCHANGED <<rules, ranked, profile>>
    PROVE  /\ profile' \in Nat /\ ranked' \in Seq(Ranking) /\ Len(ranked') <= RankLimit
           /\ RankingsCurrent'
BY DEF PInv, ProofTypeOK, CachesBounded, RankingsCurrent

LEMMA RaisesInv == PInv /\ CallRaises => PInv'
<1> SUFFICES ASSUME PInv, CallRaises PROVE PInv'
  OBVIOUS
<1>1. call' = NoCall /\ failures' \in Nat /\ storeUp' \in BOOLEAN
  <2>1. call' = NoCall /\ failures' = failures + 1 /\ storeUp' \in {storeUp, FALSE}
    BY DEF CallRaises
  <2>2. failures \in Nat /\ storeUp \in BOOLEAN
    BY DEF PInv, ProofTypeOK
  <2>3. storeUp' \in BOOLEAN
    BY <2>1, <2>2, Zenon
  <2>4. failures' \in Nat
    BY <2>1, <2>2
  <2> QED
    BY <2>1, <2>3, <2>4
<1>2. CallFits'
  BY <1>1, NoCallType DEF CallFits, Inserting
<1>3. UNCHANGED <<rules, atoms, cacheVars, ranked, profile>>
  BY DEF CallRaises
<1> QED
  BY <1>1, <1>2, <1>3, NoCallType, RankingsSame, CachesSame

LEMMA Removes ==
    ASSUME NEW S, NEW s \in Seq(S), NEW i \in DOMAIN s
    PROVE  /\ RemoveAt(s, i) \in Seq(S) /\ Len(RemoveAt(s, i)) = Len(s) - 1
           /\ \A j \in DOMAIN RemoveAt(s, i) :
                \E k \in DOMAIN s : RemoveAt(s, i)[j] = s[k]
<1>1. Len(s) \in Nat /\ DOMAIN s = 1..Len(s) /\ i \in 1..Len(s)
  BY LenProperties
<1> DEFINE before == SubSeq(s, 1, i - 1)
           after == SubSeq(s, i + 1, Len(s))
<1>2. /\ before \in Seq(S) /\ Len(before) = i - 1
      /\ \A j \in 1..i - 1 : before[j] = s[j]
  BY <1>1
<1>3. /\ after \in Seq(S) /\ Len(after) = Len(s) - i
      /\ \A j \in 1..Len(s) - i : after[j] = s[i + j]
  BY <1>1
<1> HIDE DEF before, after
<1>4. /\ before \o after \in Seq(S) /\ Len(before \o after) = Len(s) - 1
      /\ \A j \in 1..Len(s) - 1 : (before \o after)[j] =
            IF j <= i - 1 THEN before[j] ELSE after[j - (i - 1)]
  <2>1. /\ before \o after \in Seq(S) /\ Len(before \o after) = Len(before) + Len(after)
        /\ \A j \in 1..Len(before) + Len(after) : (before \o after)[j] =
              IF j <= Len(before) THEN before[j] ELSE after[j - Len(before)]
    BY <1>2, <1>3, ConcatProperties
  <2>2. Len(before) + Len(after) = Len(s) - 1
    BY <1>1, <1>2, <1>3
  <2> QED
    BY <1>2, <2>1, <2>2
<1>5. RemoveAt(s, i) = before \o after
  BY DEF RemoveAt, before, after
<1>6. ASSUME NEW j \in 1..Len(s) - 1
      PROVE  \E k \in 1..Len(s) : (before \o after)[j] = s[k]
  <2>1. CASE j <= i - 1
    <3>1. j \in 1..i - 1 /\ j \in 1..Len(s)
      BY <1>1, <2>1
    <3> QED
      BY <1>2, <1>4, <2>1, <3>1
  <2>2. CASE ~(j <= i - 1)
    <3>1. j - (i - 1) \in 1..Len(s) - i /\ i + (j - (i - 1)) = j + 1 /\ j + 1 \in 1..Len(s)
      BY <1>1, <2>2
    <3>2. (before \o after)[j] = after[j - (i - 1)]
      BY <1>4, <2>2
    <3>3. after[j - (i - 1)] = s[j + 1]
      BY <1>3, <3>1
    <3> QED
      BY <3>1, <3>2, <3>3
  <2> QED
    BY <2>1, <2>2
<1>7. DOMAIN (before \o after) = 1..Len(s) - 1
  BY <1>4, LenProperties
<1> QED
  BY <1>1, <1>4, <1>5, <1>6, <1>7

\* A ranking that is served again was kept: the same rankings, in another order.
LEMMA HitInv ==
    ASSUME PInv, NEW slate \in Slate, ScoreHit(slate)
    PROVE  PInv'
<1>1. PICK i \in Hit(slate) : ranked' = Append(RemoveAt(ranked, i), ranked[i])
  BY DEF ScoreHit
<1>2. /\ UNCHANGED <<rules, atoms, storeUp, cacheVars, profile, failures, call>>
      /\ call = NoCall
  BY DEF ScoreHit, atomVars
<1>3. i \in DOMAIN ranked /\ ranked \in Seq(Ranking) /\ DOMAIN ranked = 1..Len(ranked)
  BY DEF Hit, PInv, ProofTypeOK
<1> DEFINE kept == RemoveAt(ranked, i)
<1>4. /\ kept \in Seq(Ranking) /\ Len(kept) = Len(ranked) - 1
      /\ \A j \in DOMAIN kept : \E k \in DOMAIN ranked : kept[j] = ranked[k]
  BY <1>3, Removes
<1> HIDE DEF kept
<1>5. ranked[i] \in Ranking /\ ranked' = Append(kept, ranked[i])
  BY <1>1, <1>3 DEF kept
<1>6. ranked' \in Seq(Ranking) /\ Len(ranked') = Len(kept) + 1
  BY <1>4, <1>5
<1>7. Len(ranked') <= RankLimit
  <2>1. Len(ranked) <= RankLimit /\ Len(ranked) \in Nat
    BY <1>3 DEF PInv, CachesBounded
  <2> QED
    BY <1>4, <1>6, <2>1
<1>8. RankingsCurrent'
  <2> SUFFICES ASSUME NEW j \in DOMAIN ranked'
               PROVE  ranked'[j].profile = profile /\ ranked'[j].rules = rules
    BY <1>2 DEF RankingsCurrent
  <2>1. DOMAIN ranked' = 1..Len(kept) + 1 /\ DOMAIN kept = 1..Len(kept) /\ Len(kept) \in Nat
    BY <1>4, <1>6
  <2>2. \E k \in DOMAIN ranked : ranked'[j] = ranked[k]
    <3>1. CASE j = Len(kept) + 1
      BY <1>3, <1>4, <1>5, <3>1
    <3>2. CASE j \in DOMAIN kept
      BY <1>4, <1>5, <2>1, <3>2
    <3> QED
      BY <2>1, <3>1, <3>2
  <2> QED
    BY <2>2 DEF PInv, RankingsCurrent
<1>9. CallFits'
  BY <1>2, NoCallType DEF CallFits, Inserting
<1>10. profile' \in Nat /\ failures' \in Nat /\ storeUp' \in BOOLEAN /\ call' \in CallState
  BY <1>2 DEF PInv, ProofTypeOK
<1> QED
  BY <1>2, <1>6, <1>7, <1>8, <1>9, <1>10, CachesSame

LEMMA MissInv ==
    ASSUME PInv, NEW slate \in Slate, NEW point \in SUBSET PointCase,
           NEW pair \in SUBSET PairCase, NEW skips \in SUBSET PointCase,
           ScoreMiss(slate, point, pair, skips)
    PROVE  PInv'
<1>1. call' = [NoCall EXCEPT !.at = "ground", !.slate = slate, !.point = point,
                             !.pair = pair, !.skips = skips]
  BY DEF ScoreMiss
<1>2. call' \in CallState /\ call'.at = "ground"
  BY <1>1 DEF NoCall, CallState, CallPlace
<1>3. CallFits'
  BY <1>2 DEF CallFits, Inserting
<1>4. UNCHANGED <<rules, atoms, storeUp, cacheVars, ranked, profile, failures>>
  BY DEF ScoreMiss, atomVars
<1>5. failures' \in Nat /\ storeUp' \in BOOLEAN
  BY <1>4 DEF PInv, ProofTypeOK
<1> QED
  BY <1>2, <1>3, <1>4, <1>5, RankingsSame, CachesSame

\* A candidate has its facts once: those that are inserted had none.
LEMMA GroundInv == PInv /\ Ground => PInv'
<1> SUFFICES ASSUME PInv, Ground PROVE PInv'
  OBVIOUS
<1> DEFINE missing == call.skips \ grounded
<1>1. /\ call.at = "ground" /\ ~Overflows(Cardinality(grounded), missing)
      /\ IF missing = {} THEN UNCHANGED atomVars ELSE Worker!Accept(missing)
      /\ grounded' = grounded \cup missing
      /\ call' = [call EXCEPT !.at = "point"]
      /\ UNCHANGED <<loaded, proved, cached, skipProofs, indexed, margins, ranked, profile, failures>>
  BY DEF Ground
<1>2. ProofTypeOK /\ call.skips \in SUBSET PointCase /\ grounded \subseteq PointCase
  BY CallFields DEF PInv, ProofTypeOK
<1>3. missing \in Batch /\ missing \subseteq PointCase
  BY <1>2 DEF Batch
<1>4. missing = call.skips \ grounded
  OBVIOUS
<1> HIDE DEF missing
<1>5. /\ atoms' \in Seq(Batch) /\ rules' = rules /\ storeUp' = storeUp
      /\ \A x : x \notin missing => Inserted(x)' = Inserted(x)
      /\ \A x \in missing : Inserted(x)' = Inserted(x) \cup {Len(atoms) + 1}
  <2>1. CASE missing = {}
    <3>1. UNCHANGED <<rules, atoms, storeUp>>
      BY <1>1, <2>1 DEF atomVars
    <3>2. \A x : Inserted(x)' = Inserted(x)
      BY <3>1 DEF Inserted
    <3> QED
      BY <1>2, <2>1, <3>1, <3>2 DEF ProofTypeOK
  <2>2. CASE missing # {}
    BY <1>1, <1>2, <1>3, <2>2, Inserts
  <2> QED
    BY <2>1, <2>2
<1>6. call' \in CallState /\ call'.at = "point" /\ call'.skips = call.skips
  BY <1>1, <1>2 DEF ProofTypeOK, CallState, CallPlace
<1>7. ProofTypeOK'
  BY <1>1, <1>2, <1>3, <1>5, <1>6 DEF ProofTypeOK
<1>8. CallFits'
  BY <1>1, <1>4, <1>6 DEF CallFits, Inserting
<1>9. CachesBounded'
  <2>1. Cardinality(grounded \cup missing) <= Cardinality(grounded) + Cardinality(missing \ grounded)
    BY <1>2, <1>3, CacheGrows
  <2>2. missing \ grounded = missing
    BY <1>4
  <2>6. Cardinality(grounded') <= Cardinality(grounded) + Cardinality(missing)
    BY <1>1, <2>1, <2>2
  <2>3. Cardinality(grounded) + Cardinality(missing) <= CacheLimit
    <3>1. Cardinality(grounded) \in Nat /\ Cardinality(missing) \in Nat
      BY <1>2, <1>3, CacheFinite
    <3> QED
      BY <1>1, <3>1, CacheAssumption DEF Overflows
  <2>4. Cardinality(grounded') \in Nat /\ Cardinality(grounded) \in Nat /\ Cardinality(missing) \in Nat
    BY <1>1, <1>2, <1>3, CacheFinite
  <2>5. Cardinality(grounded') <= CacheLimit
    BY <2>6, <2>3, <2>4, CacheAssumption
  <2> QED
    BY <1>1, <2>5 DEF PInv, CachesBounded, Size
<1>10. CachesCoherent'
  <2> USE DEF PInv
  <2>1. \A x : Inserted(x) # {} => Inserted(x)' # {}
    BY <1>5
  <2>2. \A f \in Family : \A x \in loaded'[f] : Inserted(x)' # {}
    BY <1>1, <2>1 DEF CachesCoherent
  <2>3. ASSUME NEW c \in PointCase, Inserted(c)' # {}
        PROVE  c \in grounded' /\ \A i, j \in Inserted(c)' : i = j
    <3>1. CASE c \in missing
      <4>1. Inserted(c) = {}
        BY <1>4, <3>1 DEF CachesCoherent
      <4> QED
        BY <1>1, <1>5, <3>1, <4>1
    <3>2. CASE c \notin missing
      BY <1>1, <1>5, <2>3, <3>2 DEF CachesCoherent
    <3> QED
      BY <3>1, <3>2
  <2>4. \A c \in grounded' : Inserted(c)' # {}
    BY <1>1, <1>5, <2>1 DEF CachesCoherent
  <2> QED
    BY <1>1, <2>2, <2>3, <2>4 DEF CachesCoherent
<1>11. RankingsCurrent'
  BY <1>1, <1>5 DEF PInv, RankingsCurrent
<1> QED
  BY <1>7, <1>8, <1>9, <1>10, <1>11 DEF PInv

\* What a step of one family leaves to the other family and to the store.
LEMMA PlanInv ==
    ASSUME PInv, NEW f \in Family, PlanChannels(f)
    PROVE  PInv'
<1>1. /\ call.at = f /\ ~Overflows(Size(f), Missing(f))
      /\ ~Overflows(Cardinality(proved[f]), Unproved(f))
      /\ call' = [call EXCEPT !.at = Inserting(f), !.pending = Unproved(f) \ loaded[f]]
      /\ UNCHANGED <<rules, atoms, storeUp, cacheVars, ranked, profile, failures>>
  BY DEF PlanChannels, atomVars
<1>2. ProofTypeOK /\ call \in CallState
  BY DEF PInv, ProofTypeOK
<1>3. Missing(f) \subseteq PointCase \cup PairCase /\ Unproved(f) \subseteq Channel
  <2>1. call[f] \subseteq PointCase \cup PairCase
    BY <1>2, CallFields DEF Family
  <2>2. \A c \in PointCase \cup PairCase : Active[c] \subseteq Channel
    BY CaseAssumption
  <2> QED
    BY <2>1, <2>2 DEF Missing, Templates, Unproved
<1>4. Inserting(f) \in CallPlace /\ Inserting(f) \notin {"idle", "ground"}
  BY DEF Inserting, CallPlace, Family
<1>5. /\ call' \in CallState /\ call'.at = Inserting(f) /\ call'.skips = call.skips
      /\ call'.point = call.point /\ call'.pair = call.pair
      /\ call'.pending = Unproved(f) \ loaded[f]
  BY <1>1, <1>2, <1>3, <1>4 DEF CallState
<1>6. CallFits'
  <2>1. call'.skips \subseteq grounded'
    <3>1. call.at \notin {"idle", "ground"}
      BY <1>1 DEF Family
    <3> QED
      BY <1>1, <1>5, <3>1 DEF PInv, CallFits, cacheVars
  <2>2. ASSUME NEW g \in Family, call'.at = Inserting(g)
        PROVE  g = f
    <3>1. Inserting(f) = Inserting(g) /\ f \in {"point", "pair"} /\ g \in {"point", "pair"}
      BY <1>5, <2>2 DEF Family
    <3>2. Inserting("point") = "insert point" /\ Inserting("pair") = "insert pair"
      BY DEF Inserting
    <3>3. Inserting("point") # Inserting("pair")
      BY <3>2
    <3> QED
      BY <3>1, <3>3
  <2>3. UNCHANGED <<loaded, proved, cached, skipProofs>>
    BY <1>1 DEF cacheVars
  <2>4. Missing(f)' = Missing(f)
    <3>1. call'[f] = call[f]
      BY <1>5 DEF Family
    <3> QED
      BY <2>3, <3>1 DEF Missing
  <2>5. Unproved(f)' = Unproved(f)
    BY <2>3, <2>4 DEF Unproved, Templates
  <2>6. \A x : Inserted(x)' = Inserted(x)
    BY <1>1 DEF Inserted
  <2>7. Size(f) + Cardinality(Missing(f)) <= CacheLimit
    <3>1. Size(f) \in Nat /\ Cardinality(Missing(f)) \in Nat
      BY <1>2, <1>3, CachesFinite, CacheFinite
    <3> QED
      BY <1>1, <3>1, CacheAssumption DEF Overflows
  <2>8. Cardinality(proved[f]) + Cardinality(Unproved(f)) <= CacheLimit
    <3>1. Cardinality(proved[f]) \in Nat /\ Cardinality(Unproved(f)) \in Nat
      BY <1>2, <1>3, CachesFinite, CacheFinite
    <3> QED
      BY <1>1, <3>1, CacheAssumption DEF Overflows
  <2>9. \A x \in Unproved(f) \ call'.pending : Inserted(x) # {}
    <3>1. \A x \in loaded[f] : Inserted(x) # {}
      BY DEF PInv, CachesCoherent
    <3> QED
      BY <1>5, <3>1
  <2>10. Size(f)' = Size(f)
    BY <2>3 DEF Size
  <2>11. /\ Size(f)' + Cardinality(Missing(f)') <= CacheLimit
         /\ Cardinality(proved'[f]) + Cardinality(Unproved(f)') <= CacheLimit
         /\ \A x \in Unproved(f)' \ call'.pending : Inserted(x)' # {}
    BY <2>3, <2>4, <2>5, <2>6, <2>7, <2>8, <2>9, <2>10
  <2>12. call'.at # "idle"
    BY <1>4, <1>5
  <2> QED
    BY <2>1, <2>2, <2>11, <2>12 DEF CallFits
<1>7. failures' \in Nat /\ storeUp' \in BOOLEAN
  BY <1>1 DEF PInv, ProofTypeOK
<1> QED
  BY <1>1, <1>5, <1>6, <1>7, RankingsSame, CachesSame

LEMMA InsertInv ==
    ASSUME PInv, NEW f \in Family, Insert(f)
    PROVE  PInv'
<1>1. PICK batch \in SUBSET call.pending \ {{}} :
        Worker!Accept(batch) /\ call' = [call EXCEPT !.pending = @ \ batch]
  BY DEF Insert
<1>2. call.at = Inserting(f) /\ UNCHANGED <<cacheVars, ranked, profile, failures>>
  BY DEF Insert
<1>3. UNCHANGED <<loaded, proved, cached, grounded, skipProofs, indexed, margins>>
  BY <1>2 DEF cacheVars
<1>4. ProofTypeOK /\ call \in CallState
  BY DEF PInv, ProofTypeOK
<1>5. batch \in Batch /\ batch \subseteq Channel
  BY <1>1, <1>4, CallFields DEF Batch
<1>6. /\ atoms' \in Seq(Batch) /\ rules' = rules /\ storeUp' = storeUp
      /\ \A x : x \notin batch => Inserted(x)' = Inserted(x)
      /\ \A x \in batch : Inserted(x)' = Inserted(x) \cup {Len(atoms) + 1}
  BY <1>1, <1>4, <1>5, Inserts
<1>7. /\ call' \in CallState /\ call'.at = call.at /\ call'.skips = call.skips
      /\ call'.point = call.point /\ call'.pair = call.pair
      /\ call'.pending = call.pending \ batch
  BY <1>1, <1>4 DEF CallState
<1>8. ProofTypeOK'
  BY <1>2, <1>3, <1>4, <1>6, <1>7 DEF ProofTypeOK
<1>9. \A x : Inserted(x) # {} => Inserted(x)' # {}
  BY <1>6
<1>10. CallFits'
  <2>1. \A g \in Family : Missing(g)' = Missing(g)
    <3>1. \A g \in Family : call'[g] = call[g]
      BY <1>7 DEF Family
    <3> QED
      BY <1>3, <3>1 DEF Missing
  <2>2. \A g \in Family : Unproved(g)' = Unproved(g)
    BY <1>3, <2>1 DEF Unproved, Templates
  <2>3. \A g \in Family : Size(g)' = Size(g)
    BY <1>3 DEF Size
  <2>4. ASSUME NEW g \in Family, call'.at = Inserting(g)
        PROVE  /\ Size(g)' + Cardinality(Missing(g)') <= CacheLimit
               /\ Cardinality(proved'[g]) + Cardinality(Unproved(g)') <= CacheLimit
               /\ \A x \in Unproved(g)' \ call'.pending : Inserted(x)' # {}
    <3>1. /\ Size(g) + Cardinality(Missing(g)) <= CacheLimit
          /\ Cardinality(proved[g]) + Cardinality(Unproved(g)) <= CacheLimit
          /\ \A x \in Unproved(g) \ call.pending : Inserted(x) # {}
      BY <1>7, <2>4 DEF PInv, CallFits
    <3>2. \A x \in Unproved(g) \ call'.pending : Inserted(x)' # {}
      BY <1>6, <1>7, <1>9, <3>1
    <3> QED
      BY <1>3, <2>1, <2>2, <2>3, <3>1, <3>2
  <2>5. call'.at \notin {"idle", "ground"} /\ call'.skips \subseteq grounded'
    <3>1. call.at \notin {"idle", "ground"}
      BY <1>2 DEF Inserting
    <3> QED
      BY <1>3, <1>7, <3>1 DEF PInv, CallFits
  <2> QED
    BY <2>4, <2>5 DEF CallFits
<1>11. CachesBounded'
  BY <1>2, <1>3 DEF PInv, CachesBounded, Size
<1>12. CachesCoherent'
  <2>1. \A c \in PointCase : Inserted(c)' = Inserted(c)
    BY <1>5, <1>6, CacheAssumption
  <2>2. \A c \in grounded : Inserted(c)' # {}
    BY <1>9 DEF PInv, CachesCoherent
  <2>3. \A g \in Family : \A x \in loaded[g] : Inserted(x)' # {}
    BY <1>9 DEF PInv, CachesCoherent
  <2> QED
    BY <1>3, <2>1, <2>2, <2>3 DEF PInv, CachesCoherent
<1>13. RankingsCurrent'
  BY <1>2, <1>6 DEF PInv, RankingsCurrent
<1> QED
  BY <1>8, <1>10, <1>11, <1>12, <1>13 DEF PInv

\* The proofs of a family are published when all its templates are in the store.
LEMMA PublishProofsInv ==
    ASSUME PInv, NEW f \in Family, PublishProofs(f)
    PROVE  PInv'
<1>1. /\ call.at = Inserting(f) /\ call.pending = {}
      /\ loaded' = [loaded EXCEPT ![f] = @ \cup Unproved(f)]
      /\ proved' = [proved EXCEPT ![f] = @ \cup Unproved(f)]
      /\ cached' = [cached EXCEPT ![f] = @ \cup call[f]]
      /\ call' = [call EXCEPT !.at = After(f)]
      /\ UNCHANGED <<rules, atoms, storeUp>>
      /\ UNCHANGED <<grounded, skipProofs, indexed, margins, ranked, profile, failures>>
  BY DEF PublishProofs, atomVars
<1>2. ProofTypeOK /\ call \in CallState
  BY DEF PInv, ProofTypeOK
<1>3. call[f] \subseteq Cases(f) /\ call[f] \subseteq PointCase \cup PairCase
  BY <1>2, CallFields DEF Family, Cases
<1>4. Missing(f) \subseteq PointCase \cup PairCase /\ Unproved(f) \subseteq Channel
  <2>1. \A c \in PointCase \cup PairCase : Active[c] \subseteq Channel
    BY CaseAssumption
  <2> QED
    BY <1>3, <2>1 DEF Missing, Templates, Unproved
<1>5. /\ call' \in CallState /\ call'.at = After(f) /\ After(f) \in {"feedback", "margins"}
      /\ call'.skips = call.skips
  BY <1>1, <1>2 DEF CallState, CallPlace, After
<1>6. /\ loaded \in [Family -> SUBSET Channel] /\ proved \in [Family -> SUBSET Channel]
      /\ cached \in [Family -> SUBSET (PointCase \cup PairCase)]
  BY <1>2 DEF ProofTypeOK
<1>7. /\ loaded' \in [Family -> SUBSET Channel] /\ proved' \in [Family -> SUBSET Channel]
      /\ cached' \in [Family -> SUBSET (PointCase \cup PairCase)]
      /\ loaded'[f] = loaded[f] \cup Unproved(f)
      /\ proved'[f] = proved[f] \cup Unproved(f)
      /\ cached'[f] = cached[f] \cup call[f]
      /\ \A g \in Family \ {f} :
           loaded'[g] = loaded[g] /\ proved'[g] = proved[g] /\ cached'[g] = cached[g]
  BY <1>1, <1>3, <1>4, <1>6
<1>8. ProofTypeOK'
  BY <1>1, <1>2, <1>5, <1>7 DEF ProofTypeOK
<1>9. CallFits'
  <2>1. call'.skips \subseteq grounded'
    <3>1. call.at \notin {"idle", "ground"}
      BY <1>1 DEF Inserting
    <3> QED
      BY <1>1, <1>5, <3>1 DEF PInv, CallFits
  <2>2. \A g \in Family : call'.at # Inserting(g)
    BY <1>5 DEF Inserting
  <2> QED
    BY <1>5, <2>1, <2>2 DEF CallFits
<1>10. /\ Size(f) + Cardinality(Missing(f)) <= CacheLimit
       /\ Cardinality(proved[f]) + Cardinality(Unproved(f)) <= CacheLimit
       /\ \A x \in Unproved(f) : Inserted(x) # {}
  BY <1>1 DEF PInv, CallFits
<1>11. CachesBounded'
  <2>1. Cardinality(cached[f] \cup call[f]) <= Cardinality(cached[f]) + Cardinality(Missing(f))
    <3>1. cached[f] \in SUBSET (PointCase \cup PairCase \cup Channel)
      BY <1>6
    <3>2. call[f] \in SUBSET (PointCase \cup PairCase \cup Channel)
      BY <1>3
    <3> QED
      BY <3>1, <3>2, CacheGrows DEF Missing
  <2>2. Cardinality(proved[f] \cup Unproved(f)) <= Cardinality(proved[f]) + Cardinality(Unproved(f))
    <3>1. proved[f] \in SUBSET (PointCase \cup PairCase \cup Channel)
      BY <1>6
    <3>2. Unproved(f) \in SUBSET (PointCase \cup PairCase \cup Channel)
      BY <1>4
    <3>3. Unproved(f) \ proved[f] = Unproved(f)
      BY DEF Unproved
    <3> QED
      BY <3>1, <3>2, <3>3, CacheGrows
  <2>3. /\ Cardinality(cached[f]) \in Nat /\ Cardinality(proved[f]) \in Nat
        /\ Cardinality(skipProofs) \in Nat /\ Cardinality(Missing(f)) \in Nat
        /\ Cardinality(Unproved(f)) \in Nat
        /\ Cardinality(cached[f] \cup call[f]) \in Nat
        /\ Cardinality(proved[f] \cup Unproved(f)) \in Nat
    BY <1>2, <1>3, <1>4, <1>6, CachesFinite, CacheFinite
  <2>4. Cardinality(proved'[f]) <= CacheLimit
    BY <1>7, <1>10, <2>2, <2>3, CacheAssumption
  <2>5. Size(f)' <= CacheLimit
    <3>1. Cardinality(cached'[f]) <= Cardinality(cached[f]) + Cardinality(Missing(f))
      BY <1>7, <2>1
    <3>2. Cardinality(cached'[f]) \in Nat /\ skipProofs' = skipProofs
      BY <1>1, <1>7, <2>3
    <3> QED
      BY <1>10, <2>3, <3>1, <3>2, CacheAssumption DEF Size
  <2>6. ASSUME NEW g \in Family \ {f}
        PROVE  Size(g)' = Size(g)
    BY <1>1, <1>7, <2>6 DEF Size
  <2>7. ASSUME NEW g \in Family
        PROVE  /\ cached'[g] \subseteq Cases(g) /\ proved'[g] \subseteq loaded'[g]
               /\ Size(g)' <= CacheLimit
               /\ Cardinality(proved'[g]) <= CacheLimit
    <3>1. /\ cached[g] \subseteq Cases(g) /\ proved[g] \subseteq loaded[g]
          /\ Size(g) <= CacheLimit
          /\ Cardinality(proved[g]) <= CacheLimit
      BY DEF PInv, CachesBounded
    <3>2. CASE g = f
      BY <1>3, <1>7, <2>4, <2>5, <3>1, <3>2
    <3>3. CASE g # f
      BY <1>7, <2>6, <3>1, <3>3
    <3> QED
      BY <3>2, <3>3
  <2> QED
    BY <1>1, <2>7 DEF PInv, CachesBounded
<1>12. CachesCoherent'
  <2>1. \A x : Inserted(x)' = Inserted(x)
    BY <1>1 DEF Inserted
  <2>2. ASSUME NEW g \in Family, NEW x \in loaded'[g]
        PROVE  Inserted(x)' # {}
    <3>1. \A y \in loaded[g] : Inserted(y) # {}
      BY DEF PInv, CachesCoherent
    <3>2. CASE g = f
      BY <1>7, <1>10, <2>1, <2>2, <3>1, <3>2
    <3>3. CASE g # f
      BY <1>7, <2>1, <2>2, <3>1, <3>3
    <3> QED
      BY <3>2, <3>3
  <2>3. ASSUME NEW g \in Family, NEW c \in cached'[g]
        PROVE  Active[c] \subseteq proved'[g]
    <3>1. \A d \in cached[g] : Active[d] \subseteq proved[g]
      BY DEF PInv, CachesCoherent
    <3>2. CASE g # f
      BY <1>7, <2>3, <3>1, <3>2
    <3>3. CASE g = f /\ c \in cached[f]
      BY <1>7, <3>1, <3>3
    <3>4. CASE g = f /\ c \notin cached[f]
      <4>1. c \in Missing(f)
        BY <1>7, <2>3, <3>4 DEF Missing
      <4>2. Active[c] \subseteq Templates(f)
        BY <4>1 DEF Templates
      <4> QED
        BY <1>7, <3>4, <4>2 DEF Unproved
    <3> QED
      BY <3>2, <3>3, <3>4
  <2> QED
    BY <1>1, <2>1, <2>2, <2>3 DEF PInv, CachesCoherent
<1>13. RankingsCurrent'
  BY <1>1 DEF PInv, RankingsCurrent
<1> QED
  BY <1>8, <1>9, <1>11, <1>12, <1>13 DEF PInv

LEMMA FeedbackProofsInv == PInv /\ ProveFeedback => PInv'
<1> SUFFICES ASSUME PInv, ProveFeedback PROVE PInv'
  OBVIOUS
<1> DEFINE missing == call.skips \ skipProofs
<1>1. /\ call.at = "feedback" /\ ~Overflows(Size("point"), missing)
      /\ IF missing = {}
         THEN call' = [call EXCEPT !.at = "index"] /\ skipProofs' = skipProofs
         ELSE /\ \E batch \in SUBSET missing \ {{}} : skipProofs' = skipProofs \cup batch
              /\ call' = call
      /\ UNCHANGED <<rules, atoms, storeUp>>
      /\ UNCHANGED <<loaded, proved, cached, grounded, indexed, margins, ranked, profile, failures>>
  BY DEF ProveFeedback, atomVars
<1>2. ProofTypeOK /\ call \in CallState
  BY DEF PInv, ProofTypeOK
<1>3. call.skips \subseteq grounded /\ grounded \subseteq PointCase /\ skipProofs \subseteq PointCase
  BY <1>1, <1>2 DEF PInv, CallFits, ProofTypeOK
<1>4. missing \subseteq grounded /\ missing \cap skipProofs = {}
  BY <1>3
<1> HIDE DEF missing
<1>5. PICK batch \in SUBSET missing : skipProofs' = skipProofs \cup batch
  <2>1. CASE missing = {}
    BY <1>1, <2>1
  <2>2. CASE missing # {}
    BY <1>1, <2>2
  <2> QED
    BY <2>1, <2>2
<1>6. /\ call' \in CallState /\ call'.at \in {"index", "feedback"} /\ call'.skips = call.skips
  <2>1. CASE missing = {}
    BY <1>1, <1>2, <2>1 DEF CallState, CallPlace
  <2>2. CASE missing # {}
    BY <1>1, <1>2, <2>2
  <2> QED
    BY <2>1, <2>2
<1>7. skipProofs' \subseteq grounded /\ skipProofs' \subseteq PointCase
  BY <1>3, <1>4, <1>5 DEF PInv, CachesCoherent
<1>8. ProofTypeOK'
  BY <1>1, <1>2, <1>6, <1>7 DEF ProofTypeOK
<1>9. CallFits'
  <2>1. \A g \in Family : call'.at # Inserting(g)
    BY <1>6 DEF Inserting
  <2> QED
    BY <1>1, <1>3, <1>6, <2>1 DEF CallFits
<1>10. CachesBounded'
  <2>1. Cardinality(skipProofs \cup batch) <= Cardinality(skipProofs) + Cardinality(batch \ skipProofs)
    BY <1>3, <1>4, <1>5, CacheGrows
  <2>2. batch \ skipProofs = batch
    BY <1>4, <1>5
  <2>3. Cardinality(batch) <= Cardinality(missing)
    <3>1. IsFiniteSet(missing)
      BY <1>3, <1>4, CacheFinite
    <3> QED
      BY <1>5, <3>1, FS_Subset
  <2>4. /\ Cardinality(skipProofs) \in Nat /\ Cardinality(batch) \in Nat
        /\ Cardinality(missing) \in Nat /\ Cardinality(skipProofs \cup batch) \in Nat
    BY <1>3, <1>4, <1>5, CacheFinite
  <2>5. Cardinality(cached["point"]) \in Nat /\ Cardinality(cached["point"]) = Cardinality(cached'["point"])
    BY <1>1, <1>2, CachesFinite DEF Family
  <2>6. Size("point") = Cardinality(cached["point"]) + Cardinality(skipProofs)
    BY DEF Size
  <2>7. Size("point") + Cardinality(missing) <= CacheLimit
    BY <1>1, <2>4, <2>5, <2>6, CacheAssumption DEF Overflows
  <2>8. Size("point")' = Cardinality(cached["point"]) + Cardinality(skipProofs')
    BY <1>1 DEF Size
  <2>9. Cardinality(skipProofs') <= Cardinality(skipProofs) + Cardinality(missing)
    <3>1. Cardinality(skipProofs \cup batch) <= Cardinality(skipProofs) + Cardinality(batch)
      BY <2>1, <2>2
    <3> QED
      BY <1>5, <2>3, <2>4, <3>1
  <2>10. Size("point")' <= CacheLimit
    <3>1. Cardinality(skipProofs') \in Nat
      BY <1>5, <2>4
    <3> QED
      BY <2>4, <2>5, <2>6, <2>7, <2>8, <2>9, <3>1, CacheAssumption
  <2>11. Size("pair")' = Size("pair")
    BY <1>1 DEF Size
  <2>12. \A g \in Family : Size(g)' <= CacheLimit
    BY <2>10, <2>11 DEF PInv, CachesBounded, Family
  <2> QED
    BY <1>1, <2>12 DEF PInv, CachesBounded
<1>11. CachesCoherent'
  <2>1. \A x : Inserted(x)' = Inserted(x)
    BY <1>1 DEF Inserted
  <2> QED
    BY <1>1, <1>7, <2>1 DEF PInv, CachesCoherent
<1>12. RankingsCurrent'
  BY <1>1 DEF PInv, RankingsCurrent
<1> QED
  BY <1>8, <1>9, <1>10, <1>11, <1>12 DEF PInv

LEMMA IndexInv == PInv /\ IndexPairs => PInv'
<1> SUFFICES ASSUME PInv, IndexPairs PROVE PInv'
  OBVIOUS
<1> DEFINE new == call.pair \ indexed
<1>1. /\ call.at = "index" /\ ~Overflows(Cardinality(indexed), new)
      /\ indexed' = indexed \cup new
      /\ call' = [call EXCEPT !.at = "pair"]
      /\ UNCHANGED <<rules, atoms, storeUp>>
      /\ UNCHANGED <<loaded, proved, cached, grounded, skipProofs, margins, ranked, profile, failures>>
  BY DEF IndexPairs, atomVars
<1>2. /\ ProofTypeOK /\ call \in CallState
      /\ call.pair \subseteq PairCase /\ indexed \subseteq PairCase
  BY CallFields DEF PInv, ProofTypeOK
<1>3. new \subseteq PairCase /\ new \ indexed = new
  BY <1>2
<1> HIDE DEF new
<1>4. call' \in CallState /\ call'.at = "pair" /\ call'.skips = call.skips
  BY <1>1, <1>2 DEF CallState, CallPlace
<1>5. ProofTypeOK'
  BY <1>1, <1>2, <1>3, <1>4 DEF ProofTypeOK
<1>6. CallFits'
  <2>1. \A g \in Family : call'.at # Inserting(g)
    BY <1>4 DEF Inserting
  <2> QED
    BY <1>1, <1>4, <2>1 DEF PInv, CallFits
<1>7. CachesBounded'
  <2>1. Cardinality(indexed \cup new) <= Cardinality(indexed) + Cardinality(new \ indexed)
    BY <1>2, <1>3, CacheGrows
  <2>2. Cardinality(indexed') <= Cardinality(indexed) + Cardinality(new)
    BY <1>1, <1>3, <2>1
  <2>3. /\ Cardinality(indexed) \in Nat /\ Cardinality(new) \in Nat
        /\ Cardinality(indexed') \in Nat
    BY <1>1, <1>2, <1>3, CacheFinite
  <2>4. Cardinality(indexed') <= CacheLimit
    BY <1>1, <2>2, <2>3, CacheAssumption DEF Overflows
  <2> QED
    BY <1>1, <2>4 DEF PInv, CachesBounded, Size
<1>8. CachesCoherent'
  <2>1. \A x : Inserted(x)' = Inserted(x)
    BY <1>1 DEF Inserted
  <2> QED
    BY <1>1, <2>1 DEF PInv, CachesCoherent
<1>9. RankingsCurrent'
  BY <1>1 DEF PInv, RankingsCurrent
<1> QED
  BY <1>5, <1>6, <1>7, <1>8, <1>9 DEF PInv

\* The newest ranking fits, since the oldest goes.
LEMMA Remembers ==
    ASSUME PInv, NEW ranking \in Ranking, ranking.profile = profile, ranking.rules = rules,
           ranked' = Remember(ranking), UNCHANGED <<profile, rules>>
    PROVE  ranked' \in Seq(Ranking) /\ Len(ranked') <= RankLimit /\ RankingsCurrent'
<1>1. /\ ranked \in Seq(Ranking) /\ Len(ranked) \in Nat /\ Len(ranked) <= RankLimit
      /\ DOMAIN ranked = 1..Len(ranked) /\ RankLimit \in Nat \ {0}
  BY CacheAssumption DEF PInv, ProofTypeOK, CachesBounded
<1> DEFINE longer == Append(ranked, ranking)
<1>2. /\ longer \in Seq(Ranking) /\ Len(longer) = Len(ranked) + 1
      /\ \A i \in 1..Len(ranked) : longer[i] = ranked[i]
      /\ longer[Len(ranked) + 1] = ranking
  BY <1>1
<1>3. ranked' = IF Len(longer) > RankLimit THEN Tail(longer) ELSE longer
  BY DEF Remember
<1> HIDE DEF longer
<1>4. /\ Tail(longer) \in Seq(Ranking) /\ Len(Tail(longer)) = Len(ranked)
      /\ \A i \in 1..Len(ranked) : Tail(longer)[i] = longer[i + 1]
  BY <1>1, <1>2
<1>5. \A i \in 1..Len(ranked) + 1 : longer[i].profile = profile /\ longer[i].rules = rules
  <2> SUFFICES ASSUME NEW i \in 1..Len(ranked) + 1
               PROVE  longer[i].profile = profile /\ longer[i].rules = rules
    OBVIOUS
  <2>1. CASE i = Len(ranked) + 1
    BY <1>2, <2>1
  <2>2. CASE i \in 1..Len(ranked)
    BY <1>1, <1>2, <2>2 DEF PInv, RankingsCurrent
  <2> QED
    BY <1>1, <2>1, <2>2
<1>6. CASE Len(longer) > RankLimit
  <2>1. ranked' = Tail(longer)
    BY <1>3, <1>6
  <2>2. \A i \in 1..Len(ranked) : Tail(longer)[i].profile = profile /\ Tail(longer)[i].rules = rules
    BY <1>1, <1>4, <1>5
  <2>3. DOMAIN Tail(longer) = 1..Len(ranked)
    BY <1>4
  <2> QED
    BY <1>1, <1>4, <2>1, <2>2, <2>3 DEF RankingsCurrent
<1>7. CASE ~(Len(longer) > RankLimit)
  <2>1. ranked' = longer
    BY <1>3, <1>7
  <2>2. DOMAIN longer = 1..Len(ranked) + 1
    BY <1>2
  <2>3. Len(longer) <= RankLimit
    BY <1>1, <1>2, <1>7
  <2> QED
    BY <1>2, <1>5, <2>1, <2>2, <2>3 DEF RankingsCurrent
<1> QED
  BY <1>6, <1>7

LEMMA FinishInv == PInv /\ Finish => PInv'
<1> SUFFICES ASSUME PInv, Finish PROVE PInv'
  OBVIOUS
<1> DEFINE new == {c \in call.pair : Active[c] # {}} \ margins
           ranking == [slate |-> call.slate, profile |-> profile, rules |-> rules]
<1>1. /\ call.slate = NoSlate \/ ~Overflows(Cardinality(margins), new)
      /\ margins' = IF call.slate = NoSlate THEN {} ELSE margins \cup new
      /\ cached' = IF call.slate = NoSlate THEN NoProofs ELSE cached
      /\ skipProofs' = IF call.slate = NoSlate THEN {} ELSE skipProofs
      /\ indexed' = IF call.slate = NoSlate THEN {} ELSE indexed
      /\ ranked' = IF call.slate = NoSlate THEN ranked ELSE Remember(ranking)
      /\ call' = NoCall
      /\ UNCHANGED <<rules, atoms, storeUp>>
      /\ UNCHANGED <<loaded, proved, grounded, profile, failures>>
  BY DEF Finish, atomVars
<1>2. /\ ProofTypeOK /\ call \in CallState /\ call.slate \in Slate \cup {NoSlate}
      /\ call.pair \subseteq PairCase /\ margins \subseteq PairCase
  BY CallFields DEF PInv, ProofTypeOK
<1>3. new \subseteq PairCase /\ new \ margins = new
  BY <1>2
<1>4. ranking \in Ranking /\ ranking.profile = profile /\ ranking.rules = rules
  BY <1>2 DEF Ranking, ProofTypeOK
<1> HIDE DEF new, ranking
<1>5. ranked' \in Seq(Ranking) /\ Len(ranked') <= RankLimit /\ RankingsCurrent'
  <2>1. CASE call.slate = NoSlate
    BY <1>1, <2>1 DEF PInv, ProofTypeOK, CachesBounded, RankingsCurrent
  <2>2. CASE call.slate # NoSlate
    BY <1>1, <1>4, <2>2, Remembers
  <2> QED
    BY <2>1, <2>2
<1>6. CallFits'
  BY <1>1, NoCallType DEF CallFits, Inserting
<1>7. \A x : Inserted(x)' = Inserted(x)
  BY <1>1 DEF Inserted
<1>8. CASE call.slate = NoSlate
  <2>1. /\ margins' = {} /\ skipProofs' = {} /\ indexed' = {}
        /\ \A f \in Family : cached'[f] = {}
        /\ cached' \in [Family -> SUBSET (PointCase \cup PairCase)]
    BY <1>1, <1>8 DEF NoProofs
  <2>2. ProofTypeOK'
    BY <1>1, <1>2, <1>5, <2>1, NoCallType DEF ProofTypeOK
  <2>3. CachesBounded'
    <3>1. Cardinality({}) = 0
      BY FS_EmptySet
    <3>2. /\ Cardinality(margins') = 0 /\ Cardinality(skipProofs') = 0
          /\ Cardinality(indexed') = 0
          /\ \A f \in Family : Cardinality(cached'[f]) = 0
      BY <2>1, <3>1
    <3>3. \A f \in Family : Size(f)' = 0
      BY <3>2 DEF Size
    <3> QED
      BY <1>1, <1>5, <2>1, <3>2, <3>3, CacheAssumption DEF PInv, CachesBounded
  <2>4. CachesCoherent'
    BY <1>1, <1>7, <2>1 DEF PInv, CachesCoherent
  <2> QED
    BY <1>5, <1>6, <2>2, <2>3, <2>4 DEF PInv
<1>9. CASE call.slate # NoSlate
  <2>1. /\ margins' = margins \cup new
        /\ UNCHANGED <<cached, skipProofs, indexed>>
        /\ ~Overflows(Cardinality(margins), new)
    BY <1>1, <1>9
  <2>2. ProofTypeOK'
    BY <1>1, <1>2, <1>3, <1>5, <2>1, NoCallType DEF ProofTypeOK
  <2>3. CachesBounded'
    <3>1. Cardinality(margins \cup new) <= Cardinality(margins) + Cardinality(new \ margins)
      BY <1>2, <1>3, CacheGrows
    <3>2. Cardinality(margins') <= Cardinality(margins) + Cardinality(new)
      BY <1>3, <2>1, <3>1
    <3>3. /\ Cardinality(margins) \in Nat /\ Cardinality(new) \in Nat
          /\ Cardinality(margins') \in Nat
      BY <1>2, <1>3, <2>1, CacheFinite
    <3>4. Cardinality(margins') <= CacheLimit
      BY <2>1, <3>2, <3>3, CacheAssumption DEF Overflows
    <3> QED
      BY <1>1, <1>5, <2>1, <3>4 DEF PInv, CachesBounded, Size
  <2>4. CachesCoherent'
    BY <1>1, <1>7, <2>1 DEF PInv, CachesCoherent
  <2> QED
    BY <1>5, <1>6, <2>2, <2>3, <2>4 DEF PInv
<1> QED
  BY <1>8, <1>9

\* What makes rankings old drops all of them.
LEMMA OldRankingsInv == PInv /\ (RecordAction \/ ChangeInference) => PInv'
<1> SUFFICES ASSUME PInv, RecordAction \/ ChangeInference PROVE PInv'
  OBVIOUS
<1>1. /\ call = NoCall /\ call' = call /\ profile' = profile + 1 /\ ranked' = <<>>
      /\ UNCHANGED <<rules, atoms, storeUp>>
      /\ UNCHANGED <<loaded, grounded, indexed, failures>>
  BY DEF RecordAction, ChangeInference, atomVars, cacheVars
<1>2. ProofTypeOK /\ profile' \in Nat
  BY <1>1 DEF PInv, ProofTypeOK
<1>3. RankingsCurrent' /\ ranked' \in Seq(Ranking) /\ Len(ranked') <= RankLimit
  BY <1>1, CacheAssumption DEF RankingsCurrent
<1>4. CallFits'
  BY <1>1, NoCallType DEF CallFits, Inserting
<1>5. CASE RecordAction
  <2>1. UNCHANGED cacheVars
    BY <1>5 DEF RecordAction
  <2>2. failures' \in Nat /\ storeUp' \in BOOLEAN /\ call' \in CallState
    BY <1>1, <1>2 DEF ProofTypeOK
  <2> QED
    BY <1>1, <1>2, <1>3, <1>4, <2>1, <2>2, CachesSame
<1>6. CASE ChangeInference
  <2>1. /\ proved' = NoProofs /\ cached' = NoProofs /\ skipProofs' = {} /\ margins' = {}
    BY <1>6 DEF ChangeInference
  <2>2. ProofTypeOK'
    BY <1>1, <1>2, <1>3, <2>1 DEF ProofTypeOK, NoProofs
  <2>3. CachesBounded'
    <3>1. Cardinality({}) = 0
      BY FS_EmptySet
    <3>2. /\ Cardinality(margins') = 0 /\ Cardinality(skipProofs') = 0
          /\ \A f \in Family : cached'[f] = {} /\ proved'[f] = {}
      BY <2>1, <3>1 DEF NoProofs
    <3>3. \A f \in Family : Cardinality(cached'[f]) = 0 /\ Cardinality(proved'[f]) = 0
      BY <3>1, <3>2
    <3>4. \A f \in Family : Size(f)' = 0
      BY <3>2, <3>3 DEF Size
    <3> QED
      BY <1>1, <1>3, <3>2, <3>3, <3>4, CacheAssumption DEF PInv, CachesBounded
  <2>4. CachesCoherent'
    <3>1. \A x : Inserted(x)' = Inserted(x)
      BY <1>1 DEF Inserted
    <3>2. \A f \in Family : cached'[f] = {}
      BY <2>1 DEF NoProofs
    <3> QED
      BY <1>1, <2>1, <3>1, <3>2 DEF PInv, CachesCoherent
  <2> QED
    BY <1>3, <1>4, <2>2, <2>3, <2>4 DEF PInv
<1> QED
  BY <1>5, <1>6

LEMMA ProofInitInv == ProofInit => PInv
<1> SUFFICES ASSUME ProofInit PROVE PInv
  OBVIOUS
<1>1. /\ rules = NoRules /\ atoms = <<>> /\ storeUp = FALSE
      /\ loaded = NoProofs /\ proved = NoProofs /\ cached = NoProofs
      /\ grounded = {} /\ skipProofs = {} /\ indexed = {} /\ margins = {}
      /\ ranked = <<>> /\ profile = 0 /\ failures = 0 /\ call = NoCall
  BY DEF ProofInit, Worker!Init
<1>2. ProofTypeOK
  <2>1. storeUp \in BOOLEAN
    BY <1>1, Zenon
  <2>2. atoms \in Seq(Batch) /\ ranked \in Seq(Ranking)
    BY <1>1
  <2> QED
    BY <1>1, <2>1, <2>2, NoCallType DEF ProofTypeOK, NoProofs
<1>3. CallFits
  BY <1>1, NoCallType DEF CallFits, Inserting
<1>4. \A f \in Family : cached[f] = {} /\ proved[f] = {} /\ loaded[f] = {}
  BY <1>1 DEF NoProofs
<1>5. CachesBounded
  <2>1. /\ \A f \in Family : Cardinality(cached[f]) = 0 /\ Cardinality(proved[f]) = 0
        /\ Cardinality(skipProofs) = 0 /\ Cardinality(grounded) = 0
        /\ Cardinality(indexed) = 0 /\ Cardinality(margins) = 0 /\ Len(ranked) = 0
    BY <1>1, <1>4, FS_EmptySet
  <2>2. \A f \in Family : Size(f) = 0
    BY <2>1 DEF Size
  <2> QED
    BY <1>4, <2>1, <2>2, CacheAssumption DEF CachesBounded
<1>6. CachesCoherent
  BY <1>1, <1>4 DEF CachesCoherent, Inserted
<1>7. RankingsCurrent
  BY <1>1 DEF RankingsCurrent
<1> QED
  BY <1>2, <1>3, <1>5, <1>6, <1>7 DEF PInv

LEMMA ProofNextInv == PInv /\ [ProofNext]_proofVars => PInv'
<1> SUFFICES ASSUME PInv, [ProofNext]_proofVars PROVE PInv'
  OBVIOUS
<1>1. CASE MineAndWarm \/ AdoptEngine
  BY <1>1, NewRulesForProofs
<1>2. CASE CallRaises
  BY <1>2, RaisesInv
<1>3. ASSUME NEW slate \in Slate, ScoreHit(slate) PROVE PInv'
  BY <1>3, HitInv
<1>4. ASSUME NEW slate \in Slate, NEW point \in SUBSET PointCase \ {{}},
             NEW pair \in SUBSET PairCase, NEW skips \in SUBSET PointCase,
             ScoreMiss(slate, point, pair, skips)
      PROVE  PInv'
  BY <1>4, MissInv
<1>5. CASE Ground \/ ProveFeedback \/ IndexPairs \/ Finish
  BY <1>5, GroundInv, FeedbackProofsInv, IndexInv, FinishInv
<1>6. ASSUME NEW f \in Family, PlanChannels(f) \/ Insert(f) \/ PublishProofs(f) PROVE PInv'
  BY <1>6, PlanInv, InsertInv, PublishProofsInv
<1>7. CASE RecordAction \/ ChangeInference
  BY <1>7, OldRankingsInv
<1>8. CASE UNCHANGED proofVars
  <2>1. /\ UNCHANGED <<rules, atoms, storeUp, cacheVars>>
        /\ UNCHANGED <<ranked, profile, failures, call>>
    BY <1>8 DEF proofVars, atomVars
  <2>2. UNCHANGED <<loaded, proved, cached, grounded, skipProofs, indexed, margins>>
    BY <2>1 DEF cacheVars
  <2>3. CallFits'
    <3>1. /\ \A g \in Family : Missing(g)' = Missing(g) /\ Unproved(g)' = Unproved(g)
                               /\ Size(g)' = Size(g)
          /\ \A x : Inserted(x)' = Inserted(x)
      BY <2>1, <2>2 DEF Missing, Unproved, Templates, Size, Inserted
    <3> QED
      BY <2>1, <2>2, <3>1 DEF PInv, CallFits
  <2>4. failures' \in Nat /\ storeUp' \in BOOLEAN /\ call' \in CallState
    BY <2>1 DEF PInv, ProofTypeOK
  <2> QED
    BY <2>1, <2>3, <2>4, RankingsSame, CachesSame
<1> QED
  BY <1>1, <1>2, <1>3, <1>4, <1>5, <1>6, <1>7, <1>8 DEF ProofNext

-----------------------------------------------------------------------------
\* The invariant holds of the caches in every behaviour.
THEOREM PInvHolds == ProofSpec => []PInv
<1> QED
  BY ProofInitInv, ProofNextInv, PTL DEF ProofSpec

\* The caches hold cases, channels and rankings, the store batches of facts.
THEOREM ProofTypeCorrect == ProofSpec => []ProofTypeOK
<1>1. PInv => ProofTypeOK
  BY DEF PInv
<1> QED
  BY <1>1, PInvHolds, PTL

\* lab_serving.py and lab_pairwise.py: whichever command of a call raises, the
\* caches keep their limits, are true of the store, and serve no old ranking.
THEOREM ProofCachesAreSound == ProofSpec => []ProofCachesSound
<1>1. PInv => ProofCachesSound
  BY DEF PInv, ProofCachesSound
<1> QED
  BY <1>1, PInvHolds, PTL
=============================================================================
