------------------------------ MODULE MCServing ------------------------------
(***************************************************************************)
(* What serves the reader, one component at a time: the initial state      *)
(* picks a component, and only that one takes steps. They share no state   *)
(* that these modules model, so their product would show nothing more. An  *)
(* idle component starts in one of its initial states.                     *)
(***************************************************************************)
EXTENDS FeedSession, ProofCache, ControlPlane

VARIABLE part

ServingInit ==
    /\ part \in {"feed", "proof", "control"}
    /\ IF part = "control" THEN TRUE ELSE servingOnly = FALSE
    /\ FeedInit /\ ProofInit /\ ControlInit

ServingNext ==
    \/ /\ part = "feed" /\ FeedNext
       /\ UNCHANGED <<proofVars, controlVars, part>>
    \/ /\ part = "proof" /\ ProofNext
       /\ UNCHANGED <<feedVars, controlVars, part>>
    \/ /\ part = "control" /\ ControlNext
       /\ UNCHANGED <<feedVars, proofVars, part>>

ServingSpec == ServingInit /\ [][ServingNext]_<<feedVars, proofVars, controlVars, part>>

-----------------------------------------------------------------------------
(* FeedSession *)
MCArticle == {"a", "b", "c"}
MCLimit == {1, 2}

(* ProofCache *)
MCActive == ("x" :> {"a"}) @@ ("y" :> {"a", "b"}) @@ ("u" :> {"p"})

\* The clients and the slates are the same values.
ModelSymmetry == Permutations(Client)
=============================================================================
