---------------------------- MODULE MCTokenBridge ----------------------------
(***************************************************************************)
(* Instances of TokenBridge for TLC.                                       *)
(***************************************************************************)
EXTENDS TokenBridgeProperties, TLC

CONSTANTS ethnet, biznet, k1, l1, t1, t2  \* model values

MCSha256 == k1 :> l1

(* The same two addresses on both networks, paired crosswise: a lookup in  *)
(* the wrong column finds the other token.                                 *)
Crossed == <<ethnet :> t1 @@ biznet :> t2, ethnet :> t2 @@ biznet :> t1>>

Offer(n, t, fee) == [net |-> n, token |-> t, terms |-> [amount |-> 1, fee |-> fee, lock |-> l1]]
MCOffers == {Offer(ethnet, t1, 1), Offer(ethnet, t2, 0)}
=============================================================================
