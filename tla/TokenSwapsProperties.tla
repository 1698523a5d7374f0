------------------------ MODULE TokenSwapsProperties ------------------------
(***************************************************************************)
(* What the server promises of swaps in tokens.                            *)
(***************************************************************************)
EXTENDS TokenSwaps, TokenBridgeProperties

ActiveStatus ==
    {"NONE", "CONFIRMED_OPENING_DEPOSIT", "FINISHED_OPENING_WITHDRAW", "CONFIRMED_OPENING_WITHDRAW",
     "FINISHED_CLOSING_WITHDRAW", "CONFIRMED_CLOSING_WITHDRAW", "FINISHED_CLOSING_DEPOSIT",
     "STARTED_EXPIRE_WITHDRAW", "FINISHED_EXPIRE_WITHDRAW"}
EndStatus == {"CONFIRMED_CLOSING_DEPOSIT", "CONFIRMED_EXPIRE_WITHDRAW", "ERROR_OPENING_DEPOSIT",
              "ERROR_OPENING_WITHDRAW", "ERROR_CLOSING_WITHDRAW"}

Row == [status : ActiveStatus \cup EndStatus, source : Networks, deposit : Box,
        withdraw : {"INVALID", "OPEN", "CLOSED", "EXPIRED"}, key : Keys \cup {NoKey}, timeDiff : Int]
Transaction ==
    [kind : {"OpenWithdraw", "CloseWithdraw", "ExpireWithdraw", "CloseDeposit"}, net : Networks,
     id : Boxes, token : Tokens \cup {NoToken}, terms : AllTerms \cup {NoTerms}, key : Keys \cup {NoKey}]

RowsOK ==
    /\ row \in [Boxes -> Row \cup {NoRow}]
    /\ \A b \in Boxes : row[b] # NoRow => row[b].deposit.terms \in AllTerms
PendingOK == pending \subseteq Transaction
(* The tables and transactions keep their types: openWithdraw has a token  *)
(* and terms, the two close calls a key, and no task is tried again after  *)
(* it was given up.                                                        *)
ServerOK ==
    /\ RowsOK /\ PendingOK
    /\ tries \in [Boxes -> 0 .. MaxRetry]
    /\ faults \in 0 .. MaxFaults
    /\ \A tx \in pending :
        /\ tx.kind = "OpenWithdraw" => tx.token \in Tokens /\ tx.terms \in AllTerms
        /\ tx.kind \in {"CloseWithdraw", "CloseDeposit"} => tx.key \in Keys

(* Two contracts and a server take only the steps TokenBridge allows them: *)
(* a withdraw box is opened for a deposit box that is there, for its terms *)
(* and in the token its token is paired with in that direction, whatever   *)
(* terms and direction the caller of the route named.                      *)
StepsOfTokenBridge == [][Next]_vars

(* The server, or whoever uses the key, takes a deposit only after its     *)
(* withdraw box has been paid.                                             *)
TakenOnlyIfPaid ==
    \A n \in Networks, b \in Boxes :
        deposit[n][b].state = "CLOSED" => withdraw[Other(n)][b].state = "CLOSED"

(* The status of a row is never ahead of the boxes of its own direction.   *)
Tells(r, dep, wit) ==
    /\ r.status \in ActiveStatus \ {"NONE"} => dep.state # "INVALID"
    /\ r.status \in {"CONFIRMED_OPENING_WITHDRAW", "FINISHED_CLOSING_WITHDRAW",
                     "STARTED_EXPIRE_WITHDRAW", "FINISHED_EXPIRE_WITHDRAW"}
         => wit.state # "INVALID"
    /\ r.status \in {"CONFIRMED_CLOSING_WITHDRAW", "FINISHED_CLOSING_DEPOSIT"}
         => wit.state = "CLOSED"
    /\ r.status = "CONFIRMED_CLOSING_DEPOSIT" => dep.state = "CLOSED"
    /\ r.status = "CONFIRMED_EXPIRE_WITHDRAW" => wit.state = "EXPIRED"
StatusTellsBoxes ==
    \A b \in Boxes : row[b] # NoRow => Tells(row[b], DepositBox(b), WithdrawBox(b))

(* The inductive invariant behind these.  A row that has left NONE names   *)
(* token and terms of the deposit box in its direction, and so does an     *)
(* openWithdraw that a node holds; a closeDeposit is sent only when the    *)
(* withdrawal has been paid; closed boxes, and only those, show a key.     *)
Sees(r, dep) ==
    /\ r.deposit.state # "INVALID" =>
         dep.state # "INVALID" /\ dep.token = r.deposit.token /\ dep.terms = r.deposit.terms
    /\ r.status \in ActiveStatus \ {"NONE"} => r.deposit.state # "INVALID"
RowsSeeDeposits == \A b \in Boxes : row[b] # NoRow => Sees(row[b], DepositBox(b))

Asks(tx, dep) ==
    /\ dep.state # "INVALID" /\ tx.terms = dep.terms
    /\ tx.token = TargetToken(Other(tx.net), dep.token)
PendingIsTrue ==
    \A tx \in pending :
        /\ tx.kind = "OpenWithdraw" => Asks(tx, deposit[Other(tx.net)][tx.id])
        /\ tx.kind = "CloseDeposit" => withdraw[Other(tx.net)][tx.id].state = "CLOSED"
KeysAreShown ==
    \A n \in Networks, b \in Boxes : withdraw[n][b].state = "CLOSED" <=> withdraw[n][b].key # NoKey

IInv ==
    /\ TypeOK /\ ServerOK
    /\ StatusTellsBoxes /\ RowsSeeDeposits /\ PendingIsTrue
    /\ KeysAreShown /\ TakenOnlyIfPaid

(* While no node fails, the bridge collects a deposit whose withdraw box   *)
(* was paid before the lock of the deposit is over: the trader is not paid *)
(* and refunded too, whatever administrators do to managers, liquidity and *)
(* the active flag, because closeDeposit needs none of them                *)
(* (TokenBridge.closeDeposit has no onlyManager).                          *)
PaidIsCollected ==
    \A b \in Boxes, n \in Networks :
        (/\ row[b] # NoRow /\ row[b].source = n
         /\ withdraw[Other(n)][b].state = "CLOSED" /\ ~Expirable(deposit[n][b]))
            ~> (deposit[n][b].state = "CLOSED" \/ faults > 0)
=============================================================================
