------------------------ MODULE CoinBridgeProperties ------------------------
(***************************************************************************)
(* What the two contracts promise about coins and boxes.                   *)
(***************************************************************************)
EXTENDS CoinBridge, Totals

Box == [state : {"INVALID", "OPEN", "CLOSED", "EXPIRED"}, terms : AllTerms \cup {NoTerms},
        key : Keys \cup {NoKey}, timeLock : Nat, created : Nat]

FundsOK ==
    /\ balance \in [Networks -> Nat]
    /\ liquid \in [Networks -> [Accounts -> Nat]]
AdminOK ==
    /\ feeManager \in [Networks -> Accounts]
    /\ active \in [Networks -> BOOLEAN]
    /\ timeLock \in [Networks -> TimeLocks]
Payable(box) == box.state # "INVALID" => box.terms \in AllTerms /\ box.terms.fee < box.terms.amount
BoxesOK ==
    /\ deposit \in [Networks -> [Boxes -> Box]]
    /\ withdraw \in [Networks -> [Boxes -> Box]]
    /\ \A n \in Networks, b \in Boxes : Payable(deposit[n][b]) /\ Payable(withdraw[n][b])
(* Each variable keeps its type: no contract pays out coins it does not    *)
(* hold, and nobody takes out more liquidity than is booked for him        *)
(* (decreaseLiquidity).  A box that was ever opened has terms to pay for.  *)
TypeOK == FundsOK /\ AdminOK /\ BoxesOK /\ now \in Nat

(* A payout is made good once the bridge has closed the deposit it was     *)
(* made for.                                                               *)
Repaid(n, b) == \E m \in Networks \ {n} : deposit[m][b].state = "CLOSED"

(* The balance of each contract covers what its providers may take out and *)
(* the deposits it has kept, with what it has paid out taken off: a fee is *)
(* credited once, where fees are collected, and setFeeManager hands over   *)
(* what is there.                                                          *)
Collected(n, fee) == IF CollectFee[n] THEN fee ELSE 0
Kept(n, box) ==
    CASE box.state = "OPEN" -> box.terms.amount
      [] box.state = "CLOSED" -> box.terms.amount - Collected(n, box.terms.fee)
      [] OTHER -> 0
Paid(n, box) ==
    IF box.state = "CLOSED" THEN Payout(box.terms) + Collected(n, box.terms.fee) ELSE 0
AllKept(n) == Total([b \in Boxes |-> Kept(n, deposit[n][b])])
AllPaid(n) == Total([b \in Boxes |-> Paid(n, withdraw[n][b])])
BooksCover == \A n \in Networks : balance[n] + AllPaid(n) >= Total(liquid[n]) + AllKept(n)

(* A withdraw box is for a deposit box of the other network, on its terms  *)
(* with the fee converted: behind ProvidersCovered.                        *)
BoxesMatch ==
    \A n \in Networks, m \in Networks, b \in Boxes :
        n # m /\ withdraw[n][b].state # "INVALID" =>
            /\ deposit[m][b].state # "INVALID"
            /\ withdraw[n][b].terms = Converted(n, deposit[m][b].terms)

(* Once every payout is repaid, the two contracts together hold the coins  *)
(* of all providers, collected fees included, and all open deposits: fees  *)
(* are credited once, no coin is booked twice (closeDeposit,               *)
(* closeWithdraw, setFeeManager, the liquidity calls).                     *)
ProvidersCovered ==
    (\A n \in Networks, b \in Boxes : withdraw[n][b].state = "CLOSED" => Repaid(n, b))
        => Total(balance) >=
               Total([n \in Networks |-> Total(liquid[n])])
                   + Total([n \in Networks |-> Total([b \in Boxes |->
                         IF deposit[n][b].state = "OPEN" THEN deposit[n][b].terms.amount ELSE 0])])

(* Fees are collected on one network only, and converted to the other they *)
(* are no less: as scripts/boa deploy the two contracts.                   *)
FeesCarried ==
    \A n \in Networks, m \in Networks :
        n # m /\ CollectFee[n] => ~CollectFee[m] /\ FeeMul[m] >= FeeDiv[m]

(* A box goes from INVALID to OPEN to one of its two ends and stays there, *)
(* its terms, lock and time fixed at the opening, its key at the closing;  *)
(* a payout or a refund is made at most once.                              *)
BoxMoves(before, after) ==
    \/ after = before
    \/ before.state = "INVALID" /\ after.state = "OPEN"
    \/ before.state = "OPEN" /\ \E k \in Keys : after = Closed(before, k)
    \/ before.state = "OPEN" /\ after = Expired(before)
BoxesMove ==
    \A n \in Networks, b \in Boxes :
        /\ BoxMoves(deposit[n][b], deposit'[n][b])
        /\ BoxMoves(withdraw[n][b], withdraw'[n][b])
BoxesAreFinal == [][BoxesMove]_vars

(* Every payout can be collected: as long as the deposit is open, the key  *)
(* that its closed withdraw box shows on the other network opens it, also  *)
(* when its lock is over, the bridge is not active or time locks, fee      *)
(* manager and liquidity have changed since (closeWithdraw stores the key, *)
(* checkSecretKeyWithdraw shows it, closeDeposit takes it).                *)
PayoutCanBeCollected ==
    \A n \in Networks, m \in Networks, b \in Boxes :
        n # m /\ withdraw[n][b].state = "CLOSED" /\ deposit[m][b].state = "OPEN"
            => withdraw[n][b].key \in Keys /\ CanCloseDeposit(m, b, withdraw[n][b].key)

(* Behind it: a withdraw box is closed with a key of its own lock.         *)
ShownKeysFit ==
    \A n \in Networks, b \in Boxes :
        withdraw[n][b].state = "CLOSED" =>
            withdraw[n][b].key \in Keys /\ Sha256[withdraw[n][b].key] = withdraw[n][b].terms.lock
=============================================================================
