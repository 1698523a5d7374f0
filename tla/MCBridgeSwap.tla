---------------------------- MODULE MCBridgeSwap ----------------------------
(***************************************************************************)
(* Instances of BridgeSwap for TLC.                                        *)
(***************************************************************************)
EXTENDS BridgeSwapProperties, TLC

CONSTANTS l1, l2, k1, k2,  \* model values
          Horizon,      \* time a swap needs to run through
          CollectTime   \* time the bridge needs to collect a deposit

OneSha256 == k1 :> l1
MCSha256 == k1 :> l1 @@ k2 :> l2

(* What a trader may ask for and post: one swap; two with different locks; *)
(* two with one lock; and two of which the bridge can pay out one only.    *)
OneTerms  == {[amount |-> 3, fee |-> 1, lock |-> l1]}
TwoTerms  == {[amount |-> 3, fee |-> 1, lock |-> l1], [amount |-> 2, fee |-> 1, lock |-> l2]}
OneLock   == {[amount |-> 3, fee |-> 1, lock |-> l1], [amount |-> 2, fee |-> 1, lock |-> l1]}
TooLarge  == {[amount |-> 3, fee |-> 1, lock |-> l1], [amount |-> 9, fee |-> 1, lock |-> l1]}

(* The target chain's clock against the server's. *)
InStep == 0
TwoBehind == -2

(* A swap posted soon after its deposit was opened reaches an end: paid    *)
(* and collected, expired, or reported as an error.                        *)
EverySwapEnds ==
    \A s \in Swaps :
        (/\ StatusIn(s, {"NONE"}) /\ deposit[s].state = "OPEN"
         /\ SourceClock <= deposit[s].created + 1
         /\ now + Horizon <= MaxTime)
            ~> StatusIn(s, DoneStatus \cup ErrorStatus)
(* A payout while the deposit still has some time is followed by the       *)
(* bridge collecting the deposit.                                          *)
PaidIsCollected ==
    \A s \in Swaps :
        (/\ withdraw[s].state = "CLOSED" /\ deposit[s].state = "OPEN"
         /\ SourceClock + CollectTime <= deposit[s].created + DepositLock
         /\ now + CollectTime <= MaxTime)
            ~> deposit[s].state = "CLOSED"
=============================================================================
