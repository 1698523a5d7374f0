----------------------------- MODULE MCTokenSwaps -----------------------------
(***************************************************************************)
(* Instances of TokenSwaps for TLC.                                        *)
(***************************************************************************)
EXTENDS TokenSwapsProperties, TLC

CONSTANTS ethnet, biznet, k1, k2, l1, l2, t1, t2  \* model values

MCSha256 == k1 :> l1 @@ k2 :> l2

(* The same two addresses on both networks, paired crosswise.              *)
Crossed == <<ethnet :> t1 @@ biznet :> t2, ethnet :> t2 @@ biznet :> t1>>

(* A unit of time is also longer than the server needs to come to a row it *)
(* can do something about: it passes when no handler has anything to do.   *)
NextPrompt == NextSwaps /\ (now' = now \/ \A b \in Boxes : ~ENABLED Handle(b))
PromptSwaps ==
    /\ InitSwaps /\ [][NextPrompt]_allVars
    /\ \A b \in Boxes : WF_allVars(Handle(b))
    /\ WF_allVars(\E tx \in pending : Mine(tx))

Offer(n, t, lock) == [net |-> n, token |-> t, terms |-> [amount |-> 1, fee |-> 1, lock |-> lock]]
MCOffers == {Offer(ethnet, t1, l1), Offer(ethnet, t2, l2)}
===============================================================================
