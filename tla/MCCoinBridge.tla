---------------------------- MODULE MCCoinBridge ----------------------------
(***************************************************************************)
(* Instances of CoinBridge for TLC.                                        *)
(***************************************************************************)
EXTENDS CoinBridgeProperties, TLC

CONSTANTS ethnet, biznet, k1, k2, l1, l2  \* model values

MCSha256 == k1 :> l1 @@ k2 :> l2
MCTerms == {[amount |-> 3, fee |-> 1, lock |-> l1]}

(* scripts/boa: the bridge on EthNet collects fees, the one on BizNet not. *)
AsDeployed == ethnet :> TRUE @@ biznet :> FALSE
(* The fee in the decimals of BizNet (18) is longer than in those of       *)
(* EthNet (7); a factor of 2 stands for it.                                *)
LongerOnBizNet == ethnet :> 1 @@ biznet :> 2
LongerFromEthNet == ethnet :> 2 @@ biznet :> 1
=============================================================================
