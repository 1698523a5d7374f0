-------------------------- MODULE TokenSwapsProofs --------------------------
(***************************************************************************)
(* Proofs about the server between the two contracts of the token bridge,  *)
(* for any number of swaps, any token pairs, and any faults and changes of *)
(* managers, liquidity and time locks.                                     *)
(*                                                                         *)
(* A step of the server changes one row, or a transaction, and no box; a   *)
(* step of the chains moves one box on and changes no row.  So the proof   *)
(* looks at rows against boxes that stay (GoodRow), and at boxes that move *)
(* on against rows that stay (BoxStep).                                    *)
(***************************************************************************)
EXTENDS TokenSwapsProperties, TokenBridgeProofs, FiniteSetTheorems

LEMMA OtherTwice == \A n \in Networks : Other(n) \in Networks /\ Other(Other(n)) = n
  <1> SUFFICES ASSUME NEW n \in Networks PROVE Other(n) \in Networks /\ Other(Other(n)) = n
    OBVIOUS
  <1>1. PICK m \in Networks : Networks = {n, m} /\ n # m
    BY TwoNetworks
  <1>2. Other(n) = m
    BY <1>1 DEF Other
  <1>3. Other(m) = n
    BY <1>1 DEF Other
  <1> QED
    BY <1>1, <1>2, <1>3

(***************************************************************************)
(* How a box moves on, and what stays true of it.                          *)
(***************************************************************************)
BoxStep(old, new) ==
    \/ new = old
    \/ old.state = "INVALID" /\ new.state = "OPEN" /\ new.key = NoKey
    \/ old.state = "OPEN" /\ \E k \in Keys : new = Closed(old, k)
    \/ old.state = "OPEN" /\ new = Expired(old)

LEMMA MovesOn ==
    ASSUME NEW old \in Box, NEW new \in Box, BoxStep(old, new)
    PROVE  /\ old.state # "INVALID" =>
                new.state # "INVALID" /\ new.token = old.token /\ new.terms = old.terms
           /\ old.state \in {"CLOSED", "EXPIRED"} => new = old
           /\ (old.state = "CLOSED" <=> old.key # NoKey) => (new.state = "CLOSED" <=> new.key # NoKey)
  BY Configuration DEF BoxStep, Box, Closed, Expired

LEMMA TellsStays ==
    ASSUME NEW r \in Row, NEW dep \in Box, NEW dep2 \in Box, NEW wit \in Box, NEW wit2 \in Box,
           BoxStep(dep, dep2), BoxStep(wit, wit2), Tells(r, dep, wit), Sees(r, dep)
    PROVE  Tells(r, dep2, wit2) /\ Sees(r, dep2)
  <1>1. /\ dep.state # "INVALID" =>
             dep2.state # "INVALID" /\ dep2.token = dep.token /\ dep2.terms = dep.terms
        /\ dep.state \in {"CLOSED", "EXPIRED"} => dep2 = dep
    BY MovesOn
  <1>2. /\ wit.state # "INVALID" => wit2.state # "INVALID"
        /\ wit.state \in {"CLOSED", "EXPIRED"} => wit2 = wit
    BY MovesOn
  <1> QED
    BY <1>1, <1>2 DEF Tells, Sees

(* The steps of the two contracts, as the boxes see them. *)
DepositStep(n, b, box) ==
    /\ deposit' = [deposit EXCEPT ![n][b] = box] /\ withdraw' = withdraw
    /\ BoxStep(deposit[n][b], box)
    /\ box.state = "CLOSED" => withdraw[Other(n)][b].state = "CLOSED"
WithdrawStep(n, b, box) ==
    /\ withdraw' = [withdraw EXCEPT ![n][b] = box] /\ deposit' = deposit
    /\ BoxStep(withdraw[n][b], box)
BoxesStep ==
    \/ UNCHANGED boxes
    \/ \E n \in Networks, b \in Boxes, box \in Box : DepositStep(n, b, box) \/ WithdrawStep(n, b, box)

(* Every box moves on by a step, and a deposit is closed when it was paid. *)
LEMMA EachBoxSteps ==
    ASSUME TypeOK, BoxesStep
    PROVE  /\ \A n \in Networks, b \in Boxes : BoxStep(deposit[n][b], deposit'[n][b])
           /\ \A n \in Networks, b \in Boxes : BoxStep(withdraw[n][b], withdraw'[n][b])
           /\ TakenOnlyIfPaid => TakenOnlyIfPaid'
  <1>0. deposit \in [Networks -> [Boxes -> Box]] /\ withdraw \in [Networks -> [Boxes -> Box]]
    BY DEF TypeOK, DepositOK, WithdrawOK
  <1>1. CASE UNCHANGED boxes
    BY <1>1 DEF boxes, BoxStep, TakenOnlyIfPaid
  <1>2. ASSUME NEW n \in Networks, NEW b \in Boxes, NEW box \in Box, DepositStep(n, b, box)
        PROVE  /\ \A m \in Networks, c \in Boxes : BoxStep(deposit[m][c], deposit'[m][c])
               /\ \A m \in Networks, c \in Boxes : BoxStep(withdraw[m][c], withdraw'[m][c])
               /\ TakenOnlyIfPaid => TakenOnlyIfPaid'
    <2>1. \A m \in Networks, c \in Boxes :
             deposit'[m][c] = IF m = n /\ c = b THEN box ELSE deposit[m][c]
      BY <1>0, <1>2, Replaced DEF DepositStep
    <2>2. withdraw' = withdraw /\ BoxStep(deposit[n][b], box)
          /\ (box.state = "CLOSED" => withdraw[Other(n)][b].state = "CLOSED")
      BY <1>2 DEF DepositStep
    <2>3. \A m \in Networks, c \in Boxes : BoxStep(deposit[m][c], deposit'[m][c])
      BY <2>1, <2>2 DEF BoxStep
    <2>4. \A m \in Networks, c \in Boxes : BoxStep(withdraw[m][c], withdraw'[m][c])
      BY <2>2 DEF BoxStep
    <2>5. TakenOnlyIfPaid => TakenOnlyIfPaid'
      BY <2>1, <2>2 DEF TakenOnlyIfPaid
    <2> QED
      BY <2>3, <2>4, <2>5
  <1>3. ASSUME NEW n \in Networks, NEW b \in Boxes, NEW box \in Box, WithdrawStep(n, b, box)
        PROVE  /\ \A m \in Networks, c \in Boxes : BoxStep(deposit[m][c], deposit'[m][c])
               /\ \A m \in Networks, c \in Boxes : BoxStep(withdraw[m][c], withdraw'[m][c])
               /\ TakenOnlyIfPaid => TakenOnlyIfPaid'
    <2>1. \A m \in Networks, c \in Boxes :
             withdraw'[m][c] = IF m = n /\ c = b THEN box ELSE withdraw[m][c]
      BY <1>0, <1>3, Replaced DEF WithdrawStep
    <2>2. deposit' = deposit /\ BoxStep(withdraw[n][b], box)
      BY <1>3 DEF WithdrawStep
    <2>3. \A m \in Networks, c \in Boxes : BoxStep(withdraw[m][c], withdraw'[m][c])
      BY <2>1, <2>2 DEF BoxStep
    <2>4. \A m \in Networks, c \in Boxes : BoxStep(deposit[m][c], deposit'[m][c])
      BY <2>2 DEF BoxStep
    <2>5. withdraw[n][b] \in Box /\ (withdraw[n][b].state = "CLOSED" => box = withdraw[n][b])
      BY <1>0, <2>2, MovesOn
    <2>6. TakenOnlyIfPaid => TakenOnlyIfPaid'
      BY <2>1, <2>2, <2>5, OtherTwice DEF TakenOnlyIfPaid
    <2> QED
      BY <2>3, <2>4, <2>6
  <1> QED
    BY <1>1, <1>2, <1>3 DEF BoxesStep

(* What TypeOK says of the boxes, before and after a step. *)
LEMMA BoxTypes ==
    ASSUME TypeOK, NEW n \in Networks, NEW b \in Boxes
    PROVE  /\ deposit[n][b] \in Box /\ Held(deposit[n][b])
           /\ withdraw[n][b] \in Box /\ Held(withdraw[n][b])
  BY DEF TypeOK, DepositOK, WithdrawOK

(***************************************************************************)
(* The calls are such steps.                                               *)
(***************************************************************************)
LEMMA AskStep ==
    ASSUME TypeOK, NEW b \in Boxes, Ask(b)
    PROVE  BoxesStep
  <1>1. PICK o \in Offers : OpenDeposit(o.net, b, o.token, o.terms)
    BY DEF Ask
  <1>2. o.net \in Networks /\ o.token \in Tokens /\ o.terms \in AllTerms
    BY <1>1, Configuration DEF AllOffers
  <1>3. PICK box : box = Opened(o.token, o.terms, 2 * timeLock[o.net])
    OBVIOUS
  <1>4. box \in Box
    BY <1>2, <1>3, LocksOK, OpenedBox DEF TypeOK
  <1>5. box.state = "OPEN" /\ box.key = NoKey
    BY <1>3 DEF Opened
  <1>6. deposit' = [deposit EXCEPT ![o.net][b] = box] /\ withdraw' = withdraw
        /\ deposit[o.net][b].state = "INVALID"
    BY <1>1, <1>3 DEF OpenDeposit
  <1>7. DepositStep(o.net, b, box)
    BY <1>5, <1>6 DEF DepositStep, BoxStep
  <1> QED
    BY <1>2, <1>4, <1>7 DEF BoxesStep

LEMMA AnswerStep ==
    ASSUME TypeOK, NEW n \in Networks, NEW b \in Boxes, NEW token, NEW t \in AllTerms,
           OpenWithdraw(n, b, token, t)
    PROVE  BoxesStep
  <1>1. token \in Tokens
    BY DEF OpenWithdraw, CanOpenWithdraw, TypeOK, SettingsOK
  <1>3. PICK box : box = Opened(token, t, timeLock[n])
    OBVIOUS
  <1>4. box \in Box
    BY <1>1, <1>3, LocksOK, OpenedBox DEF TypeOK
  <1>5. box.state = "OPEN" /\ box.key = NoKey
    BY <1>3 DEF Opened
  <1>6. withdraw' = [withdraw EXCEPT ![n][b] = box] /\ deposit' = deposit
        /\ withdraw[n][b].state = "INVALID"
    BY <1>3 DEF OpenWithdraw, CanOpenWithdraw
  <1>7. WithdrawStep(n, b, box)
    BY <1>5, <1>6 DEF WithdrawStep, BoxStep
  <1> QED
    BY <1>4, <1>7 DEF BoxesStep

LEMMA CloseWithdrawStep ==
    ASSUME TypeOK, NEW n \in Networks, NEW b \in Boxes, NEW k \in Keys, CloseWithdraw(n, b, k)
    PROVE  BoxesStep
  <1>1. PICK box : box = Closed(withdraw[n][b], k)
    OBVIOUS
  <1>2. withdraw[n][b].state = "OPEN" /\ withdraw' = [withdraw EXCEPT ![n][b] = box] /\ deposit' = deposit
    BY <1>1 DEF CloseWithdraw, CanCloseWithdraw
  <1>3. box \in Box
    BY <1>1, <1>2, BoxTypes, ClosedBox
  <1>4. WithdrawStep(n, b, box)
    BY <1>1, <1>2 DEF WithdrawStep, BoxStep
  <1> QED
    BY <1>3, <1>4 DEF BoxesStep

LEMMA ExpireWithdrawStep ==
    ASSUME TypeOK, NEW n \in Networks, NEW b \in Boxes, ExpireWithdraw(n, b)
    PROVE  BoxesStep
  <1>1. PICK box : box = Expired(withdraw[n][b])
    OBVIOUS
  <1>2. withdraw[n][b].state = "OPEN" /\ withdraw' = [withdraw EXCEPT ![n][b] = box] /\ deposit' = deposit
    BY <1>1 DEF ExpireWithdraw, CanExpireWithdraw
  <1>3. box \in Box
    BY <1>1, <1>2, BoxTypes, ExpiredBox
  <1>4. WithdrawStep(n, b, box)
    BY <1>1, <1>2 DEF WithdrawStep, BoxStep
  <1> QED
    BY <1>3, <1>4 DEF BoxesStep

LEMMA ExpireDepositStep ==
    ASSUME TypeOK, NEW n \in Networks, NEW b \in Boxes, ExpireDeposit(n, b)
    PROVE  BoxesStep
  <1>1. PICK box : box = Expired(deposit[n][b])
    OBVIOUS
  <1>2. deposit[n][b].state = "OPEN" /\ deposit' = [deposit EXCEPT ![n][b] = box] /\ withdraw' = withdraw
    BY <1>1 DEF ExpireDeposit
  <1>3. box \in Box /\ box.state = "EXPIRED"
    BY <1>1, <1>2, BoxTypes, ExpiredBox DEF Expired, Box
  <1>4. DepositStep(n, b, box)
    BY <1>1, <1>2, <1>3 DEF DepositStep, BoxStep
  <1> QED
    BY <1>3, <1>4 DEF BoxesStep

(* Whoever closes a deposit can show that its withdrawal was paid. *)
LEMMA CloseDepositStep ==
    ASSUME TypeOK, NEW n \in Networks, NEW b \in Boxes, NEW k \in Keys, CloseDeposit(n, b, k),
           withdraw[Other(n)][b].state = "CLOSED"
    PROVE  BoxesStep
  <1>1. PICK box : box = Closed(deposit[n][b], k)
    OBVIOUS
  <1>2. deposit[n][b].state = "OPEN" /\ deposit' = [deposit EXCEPT ![n][b] = box] /\ withdraw' = withdraw
    BY <1>1 DEF CloseDeposit, CanCloseDeposit
  <1>3. box \in Box
    BY <1>1, <1>2, BoxTypes, ClosedBox
  <1>4. DepositStep(n, b, box)
    BY <1>1, <1>2 DEF DepositStep, BoxStep
  <1> QED
    BY <1>3, <1>4 DEF BoxesStep

(* A transaction of the manager is a step that TokenBridge allows.         *)
LEMMA ExecuteStep ==
    ASSUME IInv, NEW tx \in pending, Execute(tx)
    PROVE  BoxesStep /\ Next
  <1>0. tx.net \in Networks /\ tx.id \in Boxes
    BY DEF IInv, ServerOK, PendingOK, Transaction
  <1>1. CASE tx.kind = "OpenWithdraw" /\ OpenWithdraw(tx.net, tx.id, tx.token, tx.terms)
    <2>1. tx.terms \in AllTerms
      BY <1>1 DEF IInv, ServerOK
    <2>2. Asks(tx, deposit[Other(tx.net)][tx.id])
      BY <1>1 DEF IInv, PendingIsTrue
    <2>3. BoxesStep
      BY <1>0, <1>1, <2>1, AnswerStep DEF IInv
    <2>4. Answer(tx.net, tx.id)
      BY <1>1, <2>2 DEF Asks, Answer
    <2> QED
      BY <1>0, <2>3, <2>4 DEF Next
  <1>2. CASE tx.kind = "CloseWithdraw" /\ CloseWithdraw(tx.net, tx.id, tx.key)
    <2>1. tx.key \in Keys
      BY <1>2 DEF IInv, ServerOK
    <2>2. BoxesStep
      BY <1>0, <1>2, <2>1, CloseWithdrawStep DEF IInv
    <2>3. Settle(tx.net, tx.id)
      BY <1>2, <2>1 DEF Settle
    <2> QED
      BY <1>0, <2>2, <2>3 DEF Next
  <1>3. CASE tx.kind = "ExpireWithdraw" /\ ExpireWithdraw(tx.net, tx.id)
    <2>2. BoxesStep
      BY <1>0, <1>3, ExpireWithdrawStep DEF IInv
    <2>3. Settle(tx.net, tx.id)
      BY <1>3 DEF Settle
    <2> QED
      BY <1>0, <2>2, <2>3 DEF Next
  <1>4. CASE tx.kind = "CloseDeposit" /\ CloseDeposit(tx.net, tx.id, tx.key)
    <2>1. tx.key \in Keys /\ withdraw[Other(tx.net)][tx.id].state = "CLOSED"
      BY <1>4 DEF IInv, ServerOK, PendingIsTrue
    <2>2. BoxesStep
      BY <1>0, <1>4, <2>1, CloseDepositStep DEF IInv
    <2>3. Settle(tx.net, tx.id)
      BY <1>4, <2>1 DEF Settle
    <2> QED
      BY <1>0, <2>2, <2>3 DEF Next
  <1> QED
    BY <1>1, <1>2, <1>3, <1>4 DEF Execute

LEMMA TradeStep ==
    ASSUME IInv, NEW b \in Boxes, Trade(b)
    PROVE  BoxesStep /\ Next
  <1>0. TypeOK
    BY DEF IInv
  <1>1. CASE Ask(b)
    BY <1>0, <1>1, AskStep DEF Next
  <1>2. ASSUME NEW n \in Networks, NEW k \in Keys, CloseWithdraw(n, b, k)
        PROVE  BoxesStep /\ Next
    <2>1. BoxesStep
      BY <1>0, <1>2, CloseWithdrawStep
    <2>2. Settle(n, b)
      BY <1>2 DEF Settle
    <2> QED
      BY <2>1, <2>2 DEF Next
  <1>3. ASSUME NEW n \in Networks, NEW k \in Keys, withdraw[Other(n)][b].key = k, CloseDeposit(n, b, k)
        PROVE  BoxesStep /\ Next
    <2>1. withdraw[Other(n)][b].state = "CLOSED"
      BY <1>3, OtherTwice, Configuration DEF IInv, KeysAreShown
    <2>2. BoxesStep
      BY <1>0, <1>3, <2>1, CloseDepositStep
    <2>3. Settle(n, b)
      BY <1>3 DEF Settle
    <2> QED
      BY <2>2, <2>3 DEF Next
  <1>4. ASSUME NEW n \in Networks, ExpireDeposit(n, b) \/ ExpireWithdraw(n, b)
        PROVE  BoxesStep /\ Next
    <2>1. BoxesStep
      BY <1>0, <1>4, ExpireDepositStep, ExpireWithdrawStep
    <2>2. Settle(n, b)
      BY <1>4 DEF Settle
    <2> QED
      BY <2>1, <2>2 DEF Next
  <1> QED
    BY <1>1, <1>2, <1>3, <1>4 DEF Trade

LEMMA ChangeStep ==
    ASSUME NEW n \in Networks, Invest(n) \/ Administer(n)
    PROVE  UNCHANGED boxes /\ Next
  <1>1. CASE Invest(n)
    BY <1>1 DEF Invest, DecreaseLiquidity, boxes, Next
  <1>2. CASE Administer(n)
    BY <1>2 DEF Administer, WithdrawTxFee, SetActive, ChangeTimeLock, ChangeRoles, boxes, Next
  <1> QED
    BY <1>1, <1>2

(***************************************************************************)
(* The start.                                                              *)
(***************************************************************************)
LEMMA SupplyIsNat == \A n \in Networks, t \in Tokens : Supply(n, t) \in Nat
  <1> SUFFICES ASSUME NEW n \in Networks, NEW t \in Tokens PROVE Supply(n, t) \in Nat
    OBVIOUS
  <1>1. IsFiniteSet(1 .. Len(TokenPairs))
    BY Pairs, FS_Interval
  <1>2. IsFiniteSet(PairsOf(n, t))
    BY <1>1, Pairs, FS_Subset DEF PairsOf
  <1>3. Cardinality(PairsOf(n, t)) \in Nat
    BY <1>2, FS_CardinalityType
  <1>4. \A x, y \in Nat : x * y \in Nat
    OBVIOUS
  <1> QED
    BY <1>3, <1>4, Quantities DEF Supply

LEMMA SwapsInit == InitSwaps => IInv
  <1> SUFFICES ASSUME InitSwaps PROVE IInv
    OBVIOUS
  <1> USE DEF InitSwaps
  <1>1. RolesOK
    BY People DEF RolesOK
  <1>2. SettingsOK
    BY Pairs DEF SettingsOK
  <1>3. BalanceOK /\ LiquidOK
    BY SupplyIsNat DEF BalanceOK, LiquidOK
  <1>4. NoBox \in Box /\ Held(NoBox)
    BY DEF NoBox, Box, Held
  <1>5. DepositOK /\ WithdrawOK
    BY <1>4 DEF DepositOK, WithdrawOK
  <1>6. NoScript \in [name : {"none", "register_token", "add_liquidity"}, next : DOMAIN TokenPairs]
    BY Pairs DEF NoScript
  <1>7. ScriptOK /\ coins \in [Networks -> Nat] /\ now \in Nat
    BY <1>6 DEF ScriptOK
  <1>8. TypeOK
    BY <1>1, <1>2, <1>3, <1>5, <1>7 DEF TypeOK
  <1>9. ServerOK
    BY Server DEF ServerOK, RowsOK, PendingOK
  <1>10. StatusTellsBoxes /\ RowsSeeDeposits /\ PendingIsTrue
    BY DEF StatusTellsBoxes, RowsSeeDeposits, PendingIsTrue
  <1>11. KeysAreShown /\ TakenOnlyIfPaid
    BY DEF KeysAreShown, TakenOnlyIfPaid, NoBox
  <1> QED
    BY <1>8, <1>9, <1>10, <1>11 DEF IInv

(***************************************************************************)
(* A step of the chains keeps the invariant: rows stay, boxes move on.     *)
(***************************************************************************)
LEMMA ChainsKeepRows ==
    ASSUME IInv, TypeOK', BoxesStep, row' = row
    PROVE  StatusTellsBoxes' /\ RowsSeeDeposits'
  <1>1. SUFFICES ASSUME NEW b \in Boxes, row[b] # NoRow
                 PROVE  Tells(row[b], DepositBox(b)', WithdrawBox(b)') /\ Sees(row[b], DepositBox(b)')
    BY DEF StatusTellsBoxes, RowsSeeDeposits
  <1>2. row[b] \in Row /\ row[b].source \in Networks /\ Other(row[b].source) \in Networks
    BY <1>1, OtherTwice DEF IInv, ServerOK, RowsOK, Row
  <1>3. PICK n : n = row[b].source
    OBVIOUS
  <1>4. /\ deposit[n][b] \in Box /\ withdraw[Other(n)][b] \in Box
        /\ deposit'[n][b] \in Box /\ withdraw'[Other(n)][b] \in Box
    BY <1>2, <1>3 DEF IInv, TypeOK, DepositOK, WithdrawOK
  <1>5. BoxStep(deposit[n][b], deposit'[n][b]) /\ BoxStep(withdraw[Other(n)][b], withdraw'[Other(n)][b])
    BY <1>2, <1>3, EachBoxSteps DEF IInv
  <1>6. Tells(row[b], deposit[n][b], withdraw[Other(n)][b]) /\ Sees(row[b], deposit[n][b])
    BY <1>1, <1>3 DEF IInv, StatusTellsBoxes, RowsSeeDeposits, DepositBox, WithdrawBox, Source, Target
  <1>7. Tells(row[b], deposit'[n][b], withdraw'[Other(n)][b]) /\ Sees(row[b], deposit'[n][b])
    BY <1>2, <1>4, <1>5, <1>6, TellsStays
  <1> QED
    BY <1>3, <1>7 DEF DepositBox, WithdrawBox, Source, Target

LEMMA ChainsKeepPending ==
    ASSUME IInv, TypeOK', BoxesStep, pending' \subseteq pending
    PROVE  PendingIsTrue'
  <1>1. SUFFICES ASSUME NEW tx \in pending
                 PROVE  /\ tx.kind = "OpenWithdraw" => Asks(tx, deposit'[Other(tx.net)][tx.id])
                        /\ tx.kind = "CloseDeposit" => withdraw'[Other(tx.net)][tx.id].state = "CLOSED"
    BY DEF PendingIsTrue, Asks
  <1>2. Other(tx.net) \in Networks /\ tx.id \in Boxes
    BY <1>1, OtherTwice DEF IInv, ServerOK, PendingOK, Transaction
  <1>3. PICK n : n = Other(tx.net)
    OBVIOUS
  <1>4. /\ deposit[n][tx.id] \in Box /\ withdraw[n][tx.id] \in Box
        /\ deposit'[n][tx.id] \in Box /\ withdraw'[n][tx.id] \in Box
    BY <1>2, <1>3 DEF IInv, TypeOK, DepositOK, WithdrawOK
  <1>5. BoxStep(deposit[n][tx.id], deposit'[n][tx.id]) /\ BoxStep(withdraw[n][tx.id], withdraw'[n][tx.id])
    BY <1>2, <1>3, EachBoxSteps DEF IInv
  <1>6. tx.kind = "OpenWithdraw" => Asks(tx, deposit'[n][tx.id])
    <2>1. deposit[n][tx.id].state # "INVALID" =>
            /\ deposit'[n][tx.id].state # "INVALID"
            /\ deposit'[n][tx.id].token = deposit[n][tx.id].token
            /\ deposit'[n][tx.id].terms = deposit[n][tx.id].terms
      BY <1>4, <1>5, MovesOn
    <2>2. tx.kind = "OpenWithdraw" => Asks(tx, deposit[n][tx.id])
      BY <1>3 DEF IInv, PendingIsTrue
    <2> QED
      BY <2>1, <2>2 DEF Asks
  <1>7. tx.kind = "CloseDeposit" => withdraw'[n][tx.id].state = "CLOSED"
    <2>1. tx.kind = "CloseDeposit" => withdraw[n][tx.id].state = "CLOSED"
      BY <1>3 DEF IInv, PendingIsTrue
    <2> QED
      BY <1>4, <1>5, <2>1, MovesOn
  <1> QED
    BY <1>3, <1>6, <1>7

LEMMA ChainsKeepIInv ==
    ASSUME IInv, BoxesStep, [Next]_vars, UNCHANGED <<row, tries, faults>>, pending' \subseteq pending
    PROVE  IInv'
  <1>1. TypeOK /\ TypeOK'
    BY NextKeepsType DEF IInv
  <1>2. ServerOK'
    BY DEF IInv, ServerOK, RowsOK, PendingOK
  <1>3. StatusTellsBoxes' /\ RowsSeeDeposits'
    BY <1>1, ChainsKeepRows
  <1>4. PendingIsTrue'
    BY <1>1, ChainsKeepPending
  <1>5. KeysAreShown'
    <2>1. SUFFICES ASSUME NEW n \in Networks, NEW b \in Boxes
                   PROVE  withdraw'[n][b].state = "CLOSED" <=> withdraw'[n][b].key # NoKey
      BY DEF KeysAreShown
    <2>2. withdraw[n][b] \in Box /\ withdraw'[n][b] \in Box
      BY <1>1 DEF TypeOK, WithdrawOK
    <2>3. BoxStep(withdraw[n][b], withdraw'[n][b])
      BY <1>1, EachBoxSteps
    <2>4. withdraw[n][b].state = "CLOSED" <=> withdraw[n][b].key # NoKey
      BY DEF IInv, KeysAreShown
    <2> QED
      BY <2>2, <2>3, <2>4, MovesOn
  <1>6. TakenOnlyIfPaid'
    BY <1>1, EachBoxSteps DEF IInv
  <1> QED
    BY <1>1, <1>2, <1>3, <1>4, <1>5, <1>6 DEF IInv

(***************************************************************************)
(* A step of the server keeps it: a row or a transaction is replaced by    *)
(* one that is true of the boxes.                                          *)
(***************************************************************************)
GoodRow(r, b) ==
    /\ r \in Row /\ r.deposit.terms \in AllTerms
    /\ Sees(r, deposit[r.source][b])
    /\ Tells(r, deposit[r.source][b], withdraw[Other(r.source)][b])
GoodTx(tx) ==
    /\ tx \in Transaction
    /\ tx.kind = "OpenWithdraw" => /\ tx.token \in Tokens /\ tx.terms \in AllTerms
                                   /\ Asks(tx, deposit[Other(tx.net)][tx.id])
    /\ tx.kind \in {"CloseWithdraw", "CloseDeposit"} => tx.key \in Keys
    /\ tx.kind = "CloseDeposit" => withdraw[Other(tx.net)][tx.id].state = "CLOSED"
RowStep == row' = row \/ \E b \in Boxes, r \in Row : GoodRow(r, b) /\ row' = [row EXCEPT ![b] = r]
PendingStep == pending' \subseteq pending \/ \E tx \in Transaction : GoodTx(tx) /\ pending' \subseteq pending \cup {tx}
ServerStep ==
    /\ UNCHANGED chains
    /\ RowStep /\ PendingStep
    /\ tries' \in [Boxes -> 0 .. MaxRetry] /\ faults' \in 0 .. MaxFaults

LEMMA RowIsGood ==
    ASSUME IInv, NEW b \in Boxes, row[b] # NoRow
    PROVE  GoodRow(row[b], b)
  BY DEF IInv, ServerOK, RowsOK, RowsSeeDeposits, StatusTellsBoxes, GoodRow, DepositBox, WithdrawBox,
         Source, Target

LEMMA RowsKept ==
    ASSUME IInv, UNCHANGED boxes, RowStep
    PROVE  RowsOK' /\ StatusTellsBoxes' /\ RowsSeeDeposits'
  <1>0. row \in [Boxes -> Row \cup {NoRow}] /\ UNCHANGED <<deposit, withdraw>>
    BY DEF IInv, ServerOK, RowsOK, boxes
  <1>1. row' \in [Boxes -> Row \cup {NoRow}]
    BY <1>0 DEF RowStep
  <1>2. ASSUME NEW b \in Boxes, row'[b] # NoRow PROVE GoodRow(row'[b], b)
    <2>1. CASE row' = row
      BY <1>2, <2>1, RowIsGood
    <2>2. ASSUME NEW c \in Boxes, NEW r \in Row, GoodRow(r, c), row' = [row EXCEPT ![c] = r]
          PROVE  GoodRow(row'[b], b)
      <3>1. CASE b = c
        BY <1>0, <2>2, <3>1
      <3>2. CASE b # c
        <4>1. row'[b] = row[b]
          BY <1>0, <2>2, <3>2
        <4> QED
          BY <1>2, <4>1, RowIsGood
      <3> QED
        BY <3>1, <3>2
    <2> QED
      BY <2>1, <2>2 DEF RowStep
  <1>3. RowsOK'
    BY <1>1, <1>2 DEF RowsOK, GoodRow
  <1>4. StatusTellsBoxes' /\ RowsSeeDeposits'
    BY <1>0, <1>2 DEF StatusTellsBoxes, RowsSeeDeposits, GoodRow, DepositBox, WithdrawBox, Source, Target
  <1> QED
    BY <1>3, <1>4

LEMMA TxIsGood ==
    ASSUME IInv, NEW tx \in pending
    PROVE  GoodTx(tx)
  BY DEF IInv, ServerOK, PendingOK, PendingIsTrue, GoodTx

LEMMA PendingKept ==
    ASSUME IInv, UNCHANGED boxes, PendingStep
    PROVE  \A tx \in pending' : GoodTx(tx)
  BY TxIsGood DEF PendingStep

LEMMA ServerKeepsIInv ==
    ASSUME IInv, ServerStep
    PROVE  IInv'
  <1>0. UNCHANGED vars /\ UNCHANGED boxes /\ UNCHANGED <<deposit, withdraw>>
    BY DEF ServerStep, chains, vars, boxes
  <1>1. TypeOK'
    BY <1>0, NextKeepsType DEF IInv
  <1>2. RowsOK' /\ StatusTellsBoxes' /\ RowsSeeDeposits'
    BY <1>0, RowsKept DEF ServerStep
  <1>3. \A tx \in pending' : GoodTx(tx)
    BY <1>0, PendingKept DEF ServerStep
  <1>4. ServerOK'
    BY <1>2, <1>3 DEF ServerOK, PendingOK, ServerStep, GoodTx
  <1>5. PendingIsTrue'
    BY <1>0, <1>3 DEF PendingIsTrue, GoodTx, Asks
  <1>6. KeysAreShown' /\ TakenOnlyIfPaid'
    BY <1>0 DEF IInv, KeysAreShown, TakenOnlyIfPaid
  <1> QED
    BY <1>1, <1>2, <1>4, <1>5, <1>6 DEF IInv

(***************************************************************************)
(* The routes and the handlers are steps of the server.                    *)
(***************************************************************************)
Quiet == UNCHANGED <<chains, tries, pending, faults>>

LEMMA QuietStep ==
    ASSUME IInv, RowStep, Quiet
    PROVE  ServerStep
  BY DEF IInv, ServerOK, ServerStep, PendingStep, Quiet

(* A row of the same swap and deposit, with a status that tells the boxes. *)
LEMMA NewRow ==
    ASSUME IInv, NEW b \in Boxes, row[b] # NoRow, NEW r \in Row, row' = [row EXCEPT ![b] = r],
           r.source = row[b].source, r.deposit = row[b].deposit,
           r.status \in ActiveStatus \ {"NONE"} => row[b].status \in ActiveStatus \ {"NONE"},
           r.status \in {"CONFIRMED_OPENING_WITHDRAW", "FINISHED_CLOSING_WITHDRAW",
                         "STARTED_EXPIRE_WITHDRAW", "FINISHED_EXPIRE_WITHDRAW"}
             => WithdrawBox(b).state # "INVALID",
           r.status \in {"CONFIRMED_CLOSING_WITHDRAW", "FINISHED_CLOSING_DEPOSIT"}
             => WithdrawBox(b).state = "CLOSED",
           r.status = "CONFIRMED_CLOSING_DEPOSIT" => DepositBox(b).state = "CLOSED",
           r.status = "CONFIRMED_EXPIRE_WITHDRAW" => WithdrawBox(b).state = "EXPIRED"
    PROVE  RowStep
  <1>1. GoodRow(row[b], b)
    BY RowIsGood
  <1>2. Sees(r, DepositBox(b)) /\ Tells(r, DepositBox(b), WithdrawBox(b))
    BY <1>1 DEF GoodRow, Sees, Tells, DepositBox, WithdrawBox, Source, Target
  <1>3. GoodRow(r, b)
    BY <1>1, <1>2 DEF GoodRow, DepositBox, WithdrawBox, Source, Target
  <1> QED
    BY <1>3 DEF RowStep

LEMMA StatusStep ==
    ASSUME IInv, NEW b \in Boxes, row[b] # NoRow, NEW st \in ActiveStatus \cup EndStatus, SetStatus(b, st),
           st \in ActiveStatus \ {"NONE"} => row[b].status \in ActiveStatus \ {"NONE"},
           st \in {"CONFIRMED_OPENING_WITHDRAW", "FINISHED_CLOSING_WITHDRAW",
                   "STARTED_EXPIRE_WITHDRAW", "FINISHED_EXPIRE_WITHDRAW"}
             => WithdrawBox(b).state # "INVALID",
           st \in {"CONFIRMED_CLOSING_WITHDRAW", "FINISHED_CLOSING_DEPOSIT"}
             => WithdrawBox(b).state = "CLOSED",
           st = "CONFIRMED_CLOSING_DEPOSIT" => DepositBox(b).state = "CLOSED",
           st = "CONFIRMED_EXPIRE_WITHDRAW" => WithdrawBox(b).state = "EXPIRED"
    PROVE  RowStep
  <1>1. row[b] \in Row
    BY RowIsGood DEF GoodRow
  <1>2. PICK r : r = [row[b] EXCEPT !.status = st]
    OBVIOUS
  <1>3. r \in Row /\ r.source = row[b].source /\ r.deposit = row[b].deposit /\ r.status = st
    BY <1>1, <1>2 DEF Row
  <1>4. row' = [row EXCEPT ![b] = r]
    BY <1>2 DEF SetStatus
  <1> QED
    BY <1>3, <1>4, NewRow

(* The state of the withdraw box is noted with the new status. *)
LEMMA WithdrawnStep ==
    ASSUME IInv, NEW b \in Boxes, row[b] # NoRow, row[b].status \in ActiveStatus \ {"NONE"},
           NEW st \in {"CONFIRMED_CLOSING_WITHDRAW", "ERROR_CLOSING_WITHDRAW"},
           row' = [row EXCEPT ![b] = RowOfWithdraw(@, WithdrawBox(b), st)],
           st = "CONFIRMED_CLOSING_WITHDRAW" => WithdrawBox(b).state = "CLOSED"
    PROVE  RowStep
  <1>1. row[b] \in Row /\ row[b].source \in Networks
    BY RowIsGood DEF GoodRow, Row
  <1>2. WithdrawBox(b).state \in {"INVALID", "OPEN", "CLOSED", "EXPIRED"}
    BY <1>1, OtherTwice, BoxTypes DEF IInv, WithdrawBox, Target, Box
  <1>3. PICK r : r = RowOfWithdraw(row[b], WithdrawBox(b), st)
    OBVIOUS
  <1>4. r \in Row /\ r.source = row[b].source /\ r.deposit = row[b].deposit /\ r.status = st
    BY <1>1, <1>2, <1>3 DEF RowOfWithdraw, Row, ActiveStatus, EndStatus
  <1>5. row' = [row EXCEPT ![b] = r]
    BY <1>3
  <1> QED
    BY <1>4, <1>5, NewRow DEF ActiveStatus

LEMMA SendStep ==
    ASSUME IInv, NEW tx, NEW taken, Send(tx, taken), Succeeds(tx) => GoodTx(tx)
    PROVE  PendingStep /\ faults' \in 0 .. MaxFaults
  <1>1. faults' \in 0 .. MaxFaults
    BY Server DEF IInv, ServerOK, Send
  <1>2. pending' \subseteq pending \/ (Succeeds(tx) /\ pending' \subseteq pending \cup {tx})
    BY DEF Send
  <1>3. PendingStep
    BY <1>2 DEF PendingStep, GoodTx
  <1> QED
    BY <1>1, <1>3

LEMMA PostStep ==
    ASSUME IInv, NEW b \in Boxes, Post(b)
    PROVE  ServerStep
  <1>1. ASSUME NEW n \in Networks, NEW o \in Offers, PostDeposit(b, n, o.terms)
        PROVE  ServerStep
    <2>1. o.terms \in AllTerms
      BY Configuration DEF AllOffers
    <2>2. PICK r : r = [status |-> "NONE", source |-> n, deposit |-> [NoBox EXCEPT !.terms = o.terms],
                        withdraw |-> "INVALID", key |-> NoKey, timeDiff |-> 0]
      OBVIOUS
    <2>3. [NoBox EXCEPT !.terms = o.terms] \in Box
      BY <2>1 DEF NoBox, Box
    <2>4. r \in Row
      BY <2>2, <2>3 DEF Row, ActiveStatus
    <2>5. GoodRow(r, b)
      BY <2>1, <2>2, <2>4 DEF GoodRow, Sees, Tells, NoBox
    <2>6. row' = [row EXCEPT ![b] = r] /\ Quiet
      BY <1>1, <2>2 DEF PostDeposit, Quiet
    <2> QED
      BY <2>4, <2>5, <2>6, QuietStep DEF RowStep
  <1>2. ASSUME NEW k \in Keys, PostSecretKey(b, k)
        PROVE  ServerStep
    <2>1. row[b] # NoRow
      BY <1>2 DEF PostSecretKey
    <2>2. PICK r : r = [row[b] EXCEPT !.key = k]
      OBVIOUS
    <2>3. GoodRow(row[b], b)
      BY <2>1, RowIsGood
    <2>4. r \in Row /\ r.source = row[b].source /\ r.deposit = row[b].deposit /\ r.status = row[b].status
      BY <2>2, <2>3 DEF GoodRow, Row
    <2>5. GoodRow(r, b)
      BY <2>3, <2>4 DEF GoodRow, Sees, Tells
    <2>6. row' = [row EXCEPT ![b] = r] /\ Quiet
      BY <1>2, <2>2 DEF PostSecretKey, Quiet
    <2> QED
      BY <2>4, <2>5, <2>6, QuietStep DEF RowStep
  <1> QED
    BY <1>1, <1>2 DEF Post

LEMMA CheckDepositIsOpenedStep ==
    ASSUME IInv, NEW b \in Boxes, CheckDepositIsOpened(b)
    PROVE  ServerStep
  <1>1. row[b] # NoRow /\ DepositBox(b).state # "INVALID" /\ Quiet
    BY DEF CheckDepositIsOpened, Handles, Quiet
  <1>2. GoodRow(row[b], b)
    BY <1>1, RowIsGood
  <1>3. row[b] \in Row /\ row[b].source \in Networks
    BY <1>2 DEF GoodRow, Row
  <1>4. CASE SetStatus(b, "ERROR_OPENING_DEPOSIT")
    <2>1. RowStep
      BY <1>1, <1>4, StatusStep DEF ActiveStatus, EndStatus
    <2> QED
      BY <1>1, <2>1, QuietStep
  <1>5. ASSUME NEW st \in {"CONFIRMED_OPENING_DEPOSIT", "ERROR_OPENING_DEPOSIT"},
               row' = [row EXCEPT ![b] = RowOfDeposit(@, DepositBox(b), st)]
        PROVE  ServerStep
    <2>1. PICK r : r = RowOfDeposit(row[b], DepositBox(b), st)
      OBVIOUS
    <2>2. DepositBox(b) \in Box /\ Held(DepositBox(b))
      BY <1>3, BoxTypes DEF IInv, DepositBox, Source
    <2>3. DepositBox(b).terms \in AllTerms
      BY <1>1, <2>2 DEF Held
    <2>4. r \in Row /\ r.source = row[b].source /\ r.deposit = DepositBox(b) /\ r.status = st
      BY <1>3, <2>1, <2>2 DEF RowOfDeposit, Row, ActiveStatus, EndStatus
    <2>5. GoodRow(r, b)
      BY <1>1, <2>3, <2>4 DEF GoodRow, Sees, Tells, DepositBox, Source, ActiveStatus
    <2>6. row' = [row EXCEPT ![b] = r]
      BY <1>5, <2>1
    <2> QED
      BY <1>1, <2>4, <2>5, <2>6, QuietStep DEF RowStep
  <1> QED
    BY <1>4, <1>5 DEF CheckDepositIsOpened

LEMMA OpenWithdrawTaskStep ==
    ASSUME IInv, NEW b \in Boxes, OpenWithdrawTask(b)
    PROVE  ServerStep
  <1> DEFINE tx == Tx("OpenWithdraw", Target(b), b, TokenFor(row[b]), row[b].deposit.terms, NoKey)
  <1>1. row[b] # NoRow /\ row[b].status = "CONFIRMED_OPENING_DEPOSIT"
    BY DEF OpenWithdrawTask, Handles
  <1>2. GoodRow(row[b], b)
    BY <1>1, RowIsGood
  <1>3. row[b] \in Row /\ row[b].source \in Networks
    BY <1>2 DEF GoodRow, Row
  <1>4. ASSUME NEW st \in {"FINISHED_OPENING_WITHDRAW", "ERROR_OPENING_WITHDRAW"}, SetStatus(b, st)
        PROVE  RowStep
    BY <1>1, <1>4, StatusStep DEF ActiveStatus, EndStatus
  <1>5. Succeeds(tx) => GoodTx(tx)
    <2>1. SUFFICES ASSUME Succeeds(tx) PROVE GoodTx(tx)
      OBVIOUS
    <2>2. /\ tx.kind = "OpenWithdraw" /\ tx.net = Other(row[b].source) /\ tx.id = b
          /\ tx.token = TokenFor(row[b]) /\ tx.terms = row[b].deposit.terms /\ tx.key = NoKey
      BY DEF Tx, Target
    <2>3. CanOpenWithdraw(tx.net, tx.id, tx.token, tx.terms)
      BY <2>1, <2>2 DEF Succeeds
    <2>4. tx.net \in Networks /\ Other(tx.net) = row[b].source
      BY <1>3, <2>2, OtherTwice
    <2>5. tx.token \in Tokens
      BY <2>3, <2>4 DEF CanOpenWithdraw, IInv, TypeOK, SettingsOK
    <2>6. tx.terms \in AllTerms
      BY <1>2, <2>2 DEF GoodRow
    <2>7. Asks(tx, deposit[Other(tx.net)][tx.id])
      <3>1. row[b].deposit.state # "INVALID"
        BY <1>1, <1>2 DEF GoodRow, Sees, ActiveStatus
      <3>2. /\ deposit[row[b].source][b].state # "INVALID"
            /\ deposit[row[b].source][b].token = row[b].deposit.token
            /\ deposit[row[b].source][b].terms = row[b].deposit.terms
        BY <1>2, <3>1 DEF GoodRow, Sees
      <3> QED
        BY <2>2, <2>4, <3>2 DEF Asks, TokenFor
    <2>8. tx \in Transaction
      BY <2>2, <2>4, <2>5, <2>6 DEF Transaction, Tx
    <2> QED
      BY <2>2, <2>5, <2>6, <2>7, <2>8 DEF GoodTx
  <1> HIDE DEF tx
  <1>6. CASE \E st \in {"FINISHED_OPENING_WITHDRAW", "ERROR_OPENING_WITHDRAW"} : Judge(b, st)
    BY <1>4, <1>6, QuietStep DEF Judge, Quiet
  <1>7. CASE /\ Send(tx, TRUE) /\ SetStatus(b, "FINISHED_OPENING_WITHDRAW")
             /\ tries' = [tries EXCEPT ![b] = 0] /\ UNCHANGED chains
    <2>1. PendingStep /\ faults' \in 0 .. MaxFaults
      BY <1>5, <1>7, SendStep
    <2>2. tries' \in [Boxes -> 0 .. MaxRetry]
      BY <1>7, Server DEF IInv, ServerOK
    <2> QED
      BY <1>4, <1>7, <2>1, <2>2 DEF ServerStep
  <1>8. CASE /\ ~GivenUp(b) /\ Send(tx, FALSE)
             /\ tries' = [tries EXCEPT ![b] = @ + 1] /\ UNCHANGED <<chains, row>>
    <2>1. PendingStep /\ faults' \in 0 .. MaxFaults
      BY <1>5, <1>8, SendStep
    <2>2. tries[b] + 1 \in 0 .. MaxRetry
      BY <1>8, Server DEF IInv, ServerOK, GivenUp
    <2>3. tries' \in [Boxes -> 0 .. MaxRetry]
      BY <1>8, <2>2 DEF IInv, ServerOK
    <2> QED
      BY <1>8, <2>1, <2>3 DEF ServerStep, RowStep
  <1> QED
    BY <1>6, <1>7, <1>8 DEF OpenWithdrawTask, SentStatus, tx

LEMMA CheckWithdrawIsOpenedStep ==
    ASSUME IInv, NEW b \in Boxes, CheckWithdrawIsOpened(b)
    PROVE  ServerStep
  <1>1. /\ row[b] # NoRow /\ row[b].status = "FINISHED_OPENING_WITHDRAW"
        /\ WithdrawBox(b).state # "INVALID" /\ Quiet
    BY DEF CheckWithdrawIsOpened, Handles, Quiet
  <1>2. row[b] \in Row /\ row[b].source \in Networks
    BY <1>1, RowIsGood DEF GoodRow, Row
  <1>3. WithdrawBox(b) \in Box
    BY <1>2, OtherTwice, BoxTypes DEF IInv, WithdrawBox, Target
  <1>4. PICK st : st = IF WithdrawBox(b).state = "EXPIRED"
                       THEN "ERROR_OPENING_WITHDRAW" ELSE "CONFIRMED_OPENING_WITHDRAW"
    OBVIOUS
  <1>5. PICK diff : diff = WithdrawBox(b).created - now
    OBVIOUS
  <1>6. diff \in Int
    BY <1>3, <1>5 DEF IInv, TypeOK, Box
  <1>7. PICK r : r = WithTimeDiff(RowOfWithdraw(row[b], WithdrawBox(b), st), diff)
    OBVIOUS
  <1>8. r \in Row /\ r.source = row[b].source /\ r.deposit = row[b].deposit /\ r.status = st
    BY <1>2, <1>3, <1>4, <1>6, <1>7 DEF WithTimeDiff, RowOfWithdraw, Row, Box, ActiveStatus, EndStatus
  <1>9. row' = [row EXCEPT ![b] = r]
    BY <1>4, <1>5, <1>7 DEF CheckWithdrawIsOpened
  <1>10. RowStep
    BY <1>1, <1>4, <1>8, <1>9, NewRow DEF ActiveStatus
  <1> QED
    BY <1>1, <1>10, QuietStep

(* The transactions that are sent once. *)
LEMMA SentOnce ==
    ASSUME IInv, NEW b \in Boxes, NEW tx, SendOnce(b, tx), RowStep, Succeeds(tx) => GoodTx(tx)
    PROVE  ServerStep
  <1>1. PICK taken \in BOOLEAN : Send(tx, taken)
    BY DEF SendOnce
  <1>2. PendingStep /\ faults' \in 0 .. MaxFaults
    BY <1>1, SendStep
  <1> QED
    BY <1>2 DEF SendOnce, ServerStep, IInv, ServerOK

LEMMA CloseWithdrawTaskStep ==
    ASSUME IInv, NEW b \in Boxes, CloseWithdrawTask(b)
    PROVE  ServerStep
  <1> DEFINE tx == Tx("CloseWithdraw", Target(b), b, NoToken, NoTerms, row[b].key)
  <1>1. row[b] # NoRow /\ row[b].status = "CONFIRMED_OPENING_WITHDRAW"
    BY DEF CloseWithdrawTask, Handles
  <1>2. row[b] \in Row /\ row[b].source \in Networks /\ WithdrawBox(b).state # "INVALID"
    BY <1>1, RowIsGood DEF GoodRow, Row, Tells, WithdrawBox, Target
  <1>3. ASSUME WithdrawBox(b).state = "CLOSED",
               row' = [row EXCEPT ![b] = RowOfWithdraw(@, WithdrawBox(b), "CONFIRMED_CLOSING_WITHDRAW")], Quiet
        PROVE  ServerStep
    BY <1>1, <1>3, WithdrawnStep, QuietStep DEF ActiveStatus
  <1>4. CASE Judge(b, "STARTED_EXPIRE_WITHDRAW")
    <2>1. RowStep
      BY <1>1, <1>2, <1>4, StatusStep DEF Judge, ActiveStatus
    <2> QED
      BY <1>4, <2>1, QuietStep DEF Judge, Quiet
  <1>5. CASE row[b].key # NoKey /\ SendOnce(b, tx)
    <2>1. /\ tx.kind = "CloseWithdraw" /\ tx.net = Other(row[b].source) /\ tx.id = b
          /\ tx.token = NoToken /\ tx.terms = NoTerms /\ tx.key = row[b].key
      BY DEF Tx, Target
    <2>2. row[b].key \in Keys
      BY <1>2, <1>5 DEF Row
    <2>3. tx \in Transaction
      BY <1>2, <2>1, <2>2, OtherTwice DEF Tx, Target, Transaction
    <2>4. GoodTx(tx)
      BY <2>1, <2>2, <2>3 DEF GoodTx
    <2>5. SetStatus(b, "FINISHED_CLOSING_WITHDRAW")
      BY <1>5, <2>1 DEF SendOnce, SentStatus
    <2>6. RowStep
      BY <1>1, <1>2, <2>5, StatusStep DEF ActiveStatus
    <2> HIDE DEF tx
    <2> QED
      BY <1>5, <2>4, <2>6, SentOnce
  <1> QED
    BY <1>3, <1>4, <1>5 DEF CloseWithdrawTask, Quiet

LEMMA CheckWithdrawIsClosedStep ==
    ASSUME IInv, NEW b \in Boxes, CheckWithdrawIsClosed(b)
    PROVE  ServerStep
  <1>1. row[b] # NoRow /\ row[b].status = "FINISHED_CLOSING_WITHDRAW"
    BY DEF CheckWithdrawIsClosed, Handles
  <1>2. WithdrawBox(b).state # "INVALID"
    BY <1>1, RowIsGood DEF GoodRow, Tells, WithdrawBox, Target
  <1>3. CASE Judge(b, "STARTED_EXPIRE_WITHDRAW")
    <2>1. RowStep
      BY <1>1, <1>2, <1>3, StatusStep DEF Judge, ActiveStatus
    <2> QED
      BY <1>3, <2>1, QuietStep DEF Judge, Quiet
  <1>4. ASSUME NEW st \in {"CONFIRMED_CLOSING_WITHDRAW", "ERROR_CLOSING_WITHDRAW"},
               st = "CONFIRMED_CLOSING_WITHDRAW" => WithdrawBox(b).state = "CLOSED",
               row' = [row EXCEPT ![b] = RowOfWithdraw(@, WithdrawBox(b), st)], Quiet
        PROVE  ServerStep
    BY <1>1, <1>4, WithdrawnStep, QuietStep DEF ActiveStatus
  <1> QED
    BY <1>3, <1>4 DEF CheckWithdrawIsClosed, Quiet

LEMMA ExpireWithdrawTaskStep ==
    ASSUME IInv, NEW b \in Boxes, ExpireWithdrawTask(b)
    PROVE  ServerStep
  <1> DEFINE tx == Tx("ExpireWithdraw", Target(b), b, NoToken, NoTerms, NoKey)
  <1>1. row[b] # NoRow /\ row[b].status = "STARTED_EXPIRE_WITHDRAW"
    BY DEF ExpireWithdrawTask, Handles
  <1>2. row[b] \in Row /\ row[b].source \in Networks /\ WithdrawBox(b).state # "INVALID"
    BY <1>1, RowIsGood DEF GoodRow, Row, Tells, WithdrawBox, Target
  <1>3. CASE WithdrawBox(b).state = "CLOSED" /\ Judge(b, "CONFIRMED_CLOSING_WITHDRAW")
    <2>1. RowStep
      BY <1>1, <1>3, StatusStep DEF Judge, ActiveStatus
    <2> QED
      BY <1>3, <2>1, QuietStep DEF Judge, Quiet
  <1>4. CASE SendOnce(b, tx)
    <2>1. /\ tx.kind = "ExpireWithdraw" /\ tx.net = Other(row[b].source) /\ tx.id = b
          /\ tx.token = NoToken /\ tx.terms = NoTerms /\ tx.key = NoKey
      BY DEF Tx, Target
    <2>2. tx \in Transaction
      BY <1>2, <2>1, OtherTwice DEF Tx, Target, Transaction
    <2>3. GoodTx(tx)
      BY <2>1, <2>2 DEF GoodTx
    <2>4. SetStatus(b, "FINISHED_EXPIRE_WITHDRAW")
      BY <1>4, <2>1 DEF SendOnce, SentStatus
    <2>5. RowStep
      BY <1>1, <1>2, <2>4, StatusStep DEF ActiveStatus
    <2> HIDE DEF tx
    <2> QED
      BY <1>4, <2>3, <2>5, SentOnce
  <1> QED
    BY <1>3, <1>4 DEF ExpireWithdrawTask

LEMMA CloseDepositTaskStep ==
    ASSUME IInv, NEW b \in Boxes, CloseDepositTask(b)
    PROVE  ServerStep
  <1> DEFINE tx == Tx("CloseDeposit", Source(b), b, NoToken, NoTerms, WithdrawBox(b).key)
  <1>1. /\ row[b] # NoRow /\ row[b].status = "CONFIRMED_CLOSING_WITHDRAW"
        /\ WithdrawBox(b).state = "CLOSED" /\ SendOnce(b, tx)
    BY DEF CloseDepositTask, Handles
  <1>2. row[b].source \in Networks /\ WithdrawBox(b) = withdraw[Other(row[b].source)][b]
    BY <1>1, RowIsGood DEF GoodRow, Row, WithdrawBox, Target
  <1>3. WithdrawBox(b).key \in Keys
    <2>1. WithdrawBox(b) \in Box
      BY <1>2, OtherTwice, BoxTypes DEF IInv
    <2>2. WithdrawBox(b).key # NoKey
      BY <1>1, <1>2, OtherTwice DEF IInv, KeysAreShown
    <2> QED
      BY <2>1, <2>2 DEF Box
  <1>4. /\ tx.kind = "CloseDeposit" /\ tx.net = row[b].source /\ tx.id = b
        /\ tx.token = NoToken /\ tx.terms = NoTerms /\ tx.key = WithdrawBox(b).key
    BY DEF Tx, Source
  <1>5. tx \in Transaction
    BY <1>2, <1>3 DEF Tx, Source, Transaction
  <1>6. GoodTx(tx)
    BY <1>1, <1>2, <1>3, <1>4, <1>5 DEF GoodTx
  <1>7. SetStatus(b, "FINISHED_CLOSING_DEPOSIT")
    BY <1>1, <1>4 DEF SendOnce, SentStatus
  <1>8. RowStep
    BY <1>1, <1>7, StatusStep DEF ActiveStatus
  <1> HIDE DEF tx
  <1> QED
    BY <1>1, <1>6, <1>8, SentOnce

LEMMA LastChecksStep ==
    ASSUME IInv, NEW b \in Boxes, CheckDepositIsClosed(b) \/ CheckWithdrawIsExpired(b)
    PROVE  ServerStep
  <1>1. CASE CheckDepositIsClosed(b)
    <2>1. row[b] # NoRow /\ DepositBox(b).state = "CLOSED" /\ Judge(b, "CONFIRMED_CLOSING_DEPOSIT")
      BY <1>1 DEF CheckDepositIsClosed, Handles
    <2>2. RowStep
      BY <2>1, StatusStep DEF Judge, ActiveStatus, EndStatus
    <2> QED
      BY <2>1, <2>2, QuietStep DEF Judge, Quiet
  <1>2. CASE CheckWithdrawIsExpired(b)
    <2>1. row[b] # NoRow /\ WithdrawBox(b).state = "EXPIRED" /\ Judge(b, "CONFIRMED_EXPIRE_WITHDRAW")
      BY <1>2 DEF CheckWithdrawIsExpired, Handles
    <2>2. RowStep
      BY <2>1, StatusStep DEF Judge, ActiveStatus, EndStatus
    <2> QED
      BY <2>1, <2>2, QuietStep DEF Judge, Quiet
  <1> QED
    BY <1>1, <1>2

LEMMA HandleStep ==
    ASSUME IInv, NEW b \in Boxes, Handle(b)
    PROVE  ServerStep
  BY CheckDepositIsOpenedStep, OpenWithdrawTaskStep, CheckWithdrawIsOpenedStep, CloseWithdrawTaskStep,
     CheckWithdrawIsClosedStep, ExpireWithdrawTaskStep, CloseDepositTaskStep, LastChecksStep
  DEF Handle

(***************************************************************************)
(* The theorems.                                                           *)
(***************************************************************************)
LEMMA StepIsOne ==
    ASSUME IInv, [NextSwaps]_allVars
    PROVE  /\ [Next]_vars
           /\ \/ ServerStep
              \/ BoxesStep /\ UNCHANGED <<row, tries, faults>> /\ pending' \subseteq pending
  <1>1. ASSUME NEW b \in Boxes, Handle(b) \/ Post(b)
        PROVE  UNCHANGED vars /\ ServerStep
    <2>1. ServerStep
      BY <1>1, HandleStep, PostStep
    <2> QED
      BY <2>1 DEF ServerStep, chains
  <1>2. ASSUME NEW tx \in pending, Mine(tx)
        PROVE  [Next]_vars /\ BoxesStep /\ UNCHANGED <<row, tries, faults>> /\ pending' \subseteq pending
    <2>1. UNCHANGED <<row, tries, faults>> /\ pending' \subseteq pending /\ (Execute(tx) \/ UNCHANGED vars)
      BY <1>2 DEF Mine
    <2>2. CASE Execute(tx)
      BY <2>1, <2>2, ExecuteStep
    <2>3. CASE UNCHANGED vars
      BY <2>1, <2>3 DEF BoxesStep, vars, boxes
    <2> QED
      BY <2>1, <2>2, <2>3
  <1>3. ASSUME NEW tx \in pending, Drop(tx)
        PROVE  UNCHANGED vars /\ ServerStep
    <2>1. UNCHANGED <<chains, row, tries>> /\ pending' \subseteq pending /\ faults' \in 0 .. MaxFaults
      BY <1>3, Server DEF Drop, IInv, ServerOK
    <2> QED
      BY <2>1 DEF ServerStep, RowStep, PendingStep, IInv, ServerOK, chains
  <1>4. ASSUME (\E b \in Boxes : Trade(b)) \/ Pass, UNCHANGED <<server, changes>>
        PROVE  [Next]_vars /\ BoxesStep /\ UNCHANGED <<row, tries, faults>> /\ pending' \subseteq pending
    <2>1. UNCHANGED <<row, tries, faults>> /\ pending' \subseteq pending
      BY <1>4 DEF server
    <2>2. CASE \E b \in Boxes : Trade(b)
      BY <2>1, <2>2, TradeStep
    <2>3. CASE Pass
      BY <2>1, <2>3 DEF Pass, Tick, Next, BoxesStep, boxes
    <2> QED
      BY <1>4, <2>2, <2>3
  <1>5. ASSUME Change, UNCHANGED server
        PROVE  [Next]_vars /\ BoxesStep /\ UNCHANGED <<row, tries, faults>> /\ pending' \subseteq pending
    <2>1. PICK n \in Networks : Invest(n) \/ Administer(n)
      BY <1>5 DEF Change
    <2>2. UNCHANGED boxes /\ Next
      BY <2>1, ChangeStep
    <2> QED
      BY <1>5, <2>2 DEF BoxesStep, server
  <1>6. CASE UNCHANGED allVars
    <2>1. UNCHANGED vars /\ UNCHANGED chains /\ UNCHANGED <<row, tries, pending, faults>>
      BY <1>6 DEF allVars, chains, server
    <2> QED
      BY <2>1 DEF ServerStep, RowStep, PendingStep, IInv, ServerOK
  <1> QED
    BY <1>1, <1>2, <1>3, <1>4, <1>5, <1>6 DEF NextSwaps

LEMMA SwapsKeepIInv == IInv /\ [NextSwaps]_allVars => IInv'
  BY StepIsOne, ServerKeepsIInv, ChainsKeepIInv

(* Rows, and the transactions nodes hold, are true of the boxes whenever   *)
(* they are used, for rows of both directions over the same two contracts. *)
THEOREM SwapsInductive == SpecSwaps => []IInv
  BY SwapsInit, SwapsKeepIInv, PTL DEF SpecSwaps

(* The server's tables keep their types and no task is tried once more     *)
(* than it may be.                                                         *)
THEOREM ServerCorrect == SpecSwaps => []ServerOK
  <1>1. IInv => ServerOK
    BY DEF IInv
  <1> QED
    BY <1>1, SwapsInductive, PTL

(* No status is ahead of the two boxes of its swap.                        *)
THEOREM StatusCorrect == SpecSwaps => []StatusTellsBoxes
  <1>1. IInv => StatusTellsBoxes
    BY DEF IInv
  <1> QED
    BY <1>1, SwapsInductive, PTL

(* A closed deposit belongs to a paid withdrawal.                          *)
THEOREM PaidCorrect == SpecSwaps => []TakenOnlyIfPaid
  <1>1. IInv => TakenOnlyIfPaid
    BY DEF IInv
  <1> QED
    BY <1>1, SwapsInductive, PTL

(* The server and the contracts take steps of TokenBridge only: what is    *)
(* promised on one network is what the deposit on the other asked for.     *)
THEOREM StepsCorrect == SpecSwaps => StepsOfTokenBridge
  <1>1. IInv /\ [NextSwaps]_allVars => [Next]_vars
    BY StepIsOne
  <1> QED
    BY <1>1, SwapsInductive, PTL DEF SpecSwaps, StepsOfTokenBridge

(***************************************************************************)
(* What the contracts promise to whoever calls them (TokenBridgeProofs)    *)
(* they promise with the server between them.                              *)
(***************************************************************************)
LEMMA SuppliesAreBooked == InitSwaps => BooksBalance /\ BoxesMatch
  <1> SUFFICES ASSUME InitSwaps
               PROVE  BooksBalance /\ BoxesMatch
    OBVIOUS
  <1>1. \A n \in Networks, b \in Boxes : deposit[n][b].state = "INVALID" /\ withdraw[n][b].state = "INVALID"
    BY DEF InitSwaps, NoBox
  <1>2. BoxesMatch
    BY <1>1 DEF BoxesMatch, Matches
  <1>3. ASSUME NEW n \in Networks, NEW t \in Tokens
        PROVE  Provided(n, t) = Supply(n, t) /\ balance[n][t] = Supply(n, t) /\ Supply(n, t) \in Nat
    <2> DEFINE none == [a \in Accounts |-> 0]
               given == [a \in Accounts |-> IF a = Admin THEN Supply(n, t) ELSE 0]
    <2>1. Supply(n, t) \in Nat /\ Admin \in Accounts
      BY SupplyIsNat, People
    <2>2. /\ none \in [Accounts -> Nat] /\ given \in [Accounts -> Nat]
          /\ given[Admin] = Supply(n, t)
          /\ \A a \in Accounts : none[a] = 0
          /\ \A a \in Accounts \ {Admin} : given[a] = none[a]
      BY <2>1
    <2>3. liquid[n][t] = given /\ balance[n][t] = Supply(n, t)
      BY DEF InitSwaps
    <2> HIDE DEF none, given
    <2>4. Total(none) = 0 /\ Total(given) \in Nat
      BY <2>2, TotalZero, TotalType, FiniteIds
    <2>5. Total(given) + none[Admin] = Total(none) + given[Admin]
      BY <2>1, <2>2, TotalChange, FiniteIds
    <2>6. Total(given) = Supply(n, t)
      BY <2>1, <2>2, <2>4, <2>5
    <2> QED
      BY <2>1, <2>3, <2>6 DEF Provided
  <1>4. ASSUME NEW n \in Networks, NEW t \in Tokens
        PROVE  InBoxes(withdraw[n], t, {"CLOSED"}) = 0 /\ InBoxes(deposit[n], t, {"OPEN", "CLOSED"}) = 0
    BY <1>1, EmptyBoxes
  <1>5. BooksBalance
    BY <1>3, <1>4 DEF BooksBalance
  <1> QED
    BY <1>2, <1>5

(* The books of both contracts balance in every token while the server     *)
(* answers swaps of both directions over them, however it fails and tries  *)
(* again and whatever administrators and providers change in between.      *)
THEOREM BooksOfSwaps == SpecSwaps => []BooksBalance
  <1>1. IInv => TypeOK
    BY DEF IInv
  <1> QED
    BY <1>1, SuppliesAreBooked, NextKeepsBooks, SwapsInductive, StepsCorrect, PTL
    DEF SpecSwaps, StepsOfTokenBridge

(* So do two paired tokens cover what providers and open deposits may      *)
(* claim of them, once the server has collected what it paid for.          *)
THEOREM PairsOfSwaps == SpecSwaps => []PairsAreCovered
  <1>1. IInv => TypeOK
    BY DEF IInv
  <1>2. SpecSwaps => []BoxesMatch
    BY <1>1, SuppliesAreBooked, NextKeepsMatch, SwapsInductive, StepsCorrect, PTL
    DEF SpecSwaps, StepsOfTokenBridge
  <1>3. TypeOK /\ BooksBalance /\ BoxesMatch => PairsAreCovered
    BY Covered
  <1> QED
    BY <1>1, <1>2, <1>3, SwapsInductive, BooksOfSwaps, PTL
=============================================================================
