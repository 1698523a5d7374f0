---------------------------- MODULE MCPriceFeeds ----------------------------
(***************************************************************************)
(* Instances of PriceFeeds for TLC.                                        *)
(***************************************************************************)
EXTENDS PriceFeedsProperties

MCGasUsage == [t \in Types |-> [d \in Directions |-> 10]]
MCOffset == [f \in Feeds |-> IF f = "CMC" THEN 0 ELSE 1]
MCGasUnit == [BOA |-> 10, TOKEN |-> 100]
=============================================================================
