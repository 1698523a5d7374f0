-------------------------- MODULE CoinBridgeProofs --------------------------
(***************************************************************************)
(* Proofs about the two contracts, for any boxes and accounts, any amounts *)
(* and time locks.                                                         *)
(***************************************************************************)
EXTENDS CoinBridgeProperties, TotalsProofs, TLAPS

(* A box of the right type, opened on terms that were asked for. *)
LEMMA OpenedBox ==
    ASSUME NEW t \in AllTerms, t.fee < t.amount, NEW lock \in Nat, now \in Nat
    PROVE  Opened(t, lock) \in Box /\ Payable(Opened(t, lock))
  BY DEF Opened, Box, Payable

(* An open box stays well-typed and payable when it is closed or expired. *)
LEMMA ClosedBox ==
    ASSUME NEW box \in Box, box.state = "OPEN", Payable(box), NEW k \in Keys
    PROVE  /\ Closed(box, k) \in Box
           /\ Payable(Closed(box, k))
  BY DEF Box, Payable, Closed

LEMMA ExpiredBox ==
    ASSUME NEW box \in Box, box.state = "OPEN", Payable(box)
    PROVE  /\ Expired(box) \in Box
           /\ Payable(Expired(box))
  BY DEF Box, Payable, Expired

(* A function of two arguments with one value replaced. *)
LEMMA Replaced ==
    ASSUME NEW S, NEW f \in [Networks -> [Boxes -> S]],
           NEW n \in Networks, NEW b \in Boxes, NEW x \in S
    PROVE  /\ [f EXCEPT ![n][b] = x] \in [Networks -> [Boxes -> S]]
           /\ \A m \in Networks, c \in Boxes :
                [f EXCEPT ![n][b] = x][m][c] = IF m = n /\ c = b THEN x ELSE f[m][c]
  OBVIOUS

LEMMA TypeInit == Init => TypeOK
  <1>1. ASSUME Init PROVE FundsOK /\ AdminOK /\ now \in Nat
    BY <1>1, ContractSetup, Quantities DEF Init, FundsOK, AdminOK
  <1>2. NoBox \in Box /\ Payable(NoBox)
    BY DEF NoBox, Box, Payable
  <1>3. ASSUME Init PROVE BoxesOK
    BY <1>2, <1>3 DEF Init, BoxesOK
  <1> QED
    BY <1>1, <1>3 DEF TypeOK

LEMMA CreditOK ==
    ASSUME FundsOK, AdminOK, NEW n \in Networks, NEW fee \in Nat, Credit(n, fee)
    PROVE  liquid' \in [Networks -> [Accounts -> Nat]]
  BY DEF FundsOK, AdminOK, Credit

LEMMA TransferOK ==
    ASSUME FundsOK, NEW n \in Networks, NEW coins \in Nat, Transfer(n, coins)
    PROVE  balance' \in [Networks -> Nat]
  BY DEF FundsOK, Transfer

LEMMA ReceiveOK ==
    ASSUME FundsOK, NEW n \in Networks, NEW coins \in Nat, Receive(n, coins)
    PROVE  balance' \in [Networks -> Nat]
  BY DEF FundsOK, Receive

(* The fields of open boxes that the calls compute with. *)
LEMMA TermsOK ==
    ASSUME BoxesOK, NEW n \in Networks, NEW b \in Boxes, NEW box \in {deposit[n][b], withdraw[n][b]},
           box.state # "INVALID"
    PROVE  /\ box.terms \in AllTerms
           /\ box.terms.fee \in Nat /\ box.terms.amount \in Nat /\ Payout(box.terms) \in Nat
  BY DEF BoxesOK, Payable, Payout, AllTerms

(* What the server promises are terms too.  *)
LEMMA PromisedOK ==
    ASSUME BoxesOK, NEW n \in Networks, NEW b \in Boxes, NEW t \in Promised(n, b)
    PROVE  t \in AllTerms
  <1>1. PICK m \in Networks : deposit[m][b].state # "INVALID" /\ t = Converted(n, deposit[m][b].terms)
    BY DEF Promised
  <1>2. deposit[m][b].terms \in AllTerms
    BY <1>1 DEF BoxesOK, Payable
  <1>3. \A x, y \in Nat, z \in Nat \ {0} : (x * y) \div z \in Nat
    OBVIOUS
  <1>4. (deposit[m][b].terms.fee * FeeMul[n]) \div FeeDiv[n] \in Nat
    BY <1>2, <1>3, Decimals DEF AllTerms
  <1> QED
    BY <1>1, <1>2, <1>4 DEF Converted, AllTerms

(* A call that replaces one box by a good one leaves all boxes good. *)
LEMMA DepositReplaced ==
    ASSUME BoxesOK, NEW n \in Networks, NEW b \in Boxes, NEW box \in Box, Payable(box),
           deposit' = [deposit EXCEPT ![n][b] = box], withdraw' = withdraw
    PROVE  BoxesOK'
  <1>1. deposit \in [Networks -> [Boxes -> Box]]
    BY DEF BoxesOK
  <1>2. /\ deposit' \in [Networks -> [Boxes -> Box]]
        /\ \A m \in Networks, c \in Boxes :
              deposit'[m][c] = IF m = n /\ c = b THEN box ELSE deposit[m][c]
    BY <1>1, Replaced
  <1> QED
    BY <1>2 DEF BoxesOK, Payable

LEMMA WithdrawReplaced ==
    ASSUME BoxesOK, NEW n \in Networks, NEW b \in Boxes, NEW box \in Box, Payable(box),
           withdraw' = [withdraw EXCEPT ![n][b] = box], deposit' = deposit
    PROVE  BoxesOK'
  <1>1. withdraw \in [Networks -> [Boxes -> Box]]
    BY DEF BoxesOK
  <1>2. /\ withdraw' \in [Networks -> [Boxes -> Box]]
        /\ \A m \in Networks, c \in Boxes :
              withdraw'[m][c] = IF m = n /\ c = b THEN box ELSE withdraw[m][c]
    BY <1>1, Replaced
  <1> QED
    BY <1>2 DEF BoxesOK, Payable

LEMMA TradeKeepsType ==
    ASSUME TypeOK, NEW n \in Networks, NEW b \in Boxes, Trade(n, b)
    PROVE  TypeOK'
  <1> USE DEF TypeOK
  <1>0. FundsOK /\ AdminOK /\ BoxesOK /\ now \in Nat
    OBVIOUS
  <1>d. deposit[n][b] \in Box /\ withdraw[n][b] \in Box
        /\ Payable(deposit[n][b]) /\ Payable(withdraw[n][b])
    BY <1>0 DEF BoxesOK
  <1>t. timeLock[n] \in Nat /\ 2 * timeLock[n] \in Nat
    <2>1. timeLock[n] \in TimeLocks
      BY <1>0 DEF AdminOK
    <2>2. timeLock[n] \in Nat
      BY <2>1, Quantities
    <2>3. \A x \in Nat : 2 * x \in Nat
      OBVIOUS
    <2> QED
      BY <2>2, <2>3
  <1>s. \A t \in Terms : t.amount \in Nat /\ t.fee \in Nat
    BY SwapTerms DEF AllTerms
  <1>1. CASE \E t \in Terms : OpenDeposit(n, b, t)
    <2>1. PICK t \in Terms : OpenDeposit(n, b, t)
      BY <1>1
    <2>2. balance' \in [Networks -> Nat] /\ UNCHANGED <<liquid, admin, now>>
      BY <1>0, <1>s, <2>1, ReceiveOK DEF OpenDeposit
    <2>3. PICK box : box = Opened(t, 2 * timeLock[n])
      OBVIOUS
    <2>4. box \in Box /\ Payable(box)
      BY <1>0, <1>t, <2>1, <2>3, SwapTerms, OpenedBox DEF OpenDeposit
    <2>5. BoxesOK'
      BY <1>0, <2>1, <2>3, <2>4, DepositReplaced DEF OpenDeposit
    <2> QED
      BY <1>0, <2>2, <2>5 DEF FundsOK, AdminOK, admin
  <1>2. CASE \E t \in Promised(n, b) : OpenWithdraw(n, b, t)
    <2>1. PICK t \in Promised(n, b) : OpenWithdraw(n, b, t)
      BY <1>2
    <2>2. UNCHANGED <<funds, admin, now>>
      BY <2>1 DEF OpenWithdraw
    <2>3. PICK box : box = Opened(t, timeLock[n])
      OBVIOUS
    <2>p. t \in AllTerms
      BY <1>0, PromisedOK
    <2>4. box \in Box /\ Payable(box)
      BY <1>0, <1>t, <2>p, <2>1, <2>3, OpenedBox DEF OpenWithdraw
    <2>5. BoxesOK'
      BY <1>0, <2>1, <2>3, <2>4, WithdrawReplaced DEF OpenWithdraw
    <2> QED
      BY <1>0, <2>2, <2>5 DEF FundsOK, AdminOK, admin, funds
  <1>3. CASE \E k \in Keys : CloseDeposit(n, b, k)
    <2>1. PICK k \in Keys : CloseDeposit(n, b, k)
      BY <1>3
    <2>o. deposit[n][b].state = "OPEN"
      BY <2>1 DEF CloseDeposit, CanCloseDeposit
    <2>2. liquid' \in [Networks -> [Accounts -> Nat]] /\ UNCHANGED <<balance, admin, now>>
      BY <1>0, <2>1, <2>o, TermsOK, CreditOK DEF CloseDeposit
    <2>3. PICK box : box = Closed(deposit[n][b], k)
      OBVIOUS
    <2>4. box \in Box /\ Payable(box)
      BY <1>d, <2>o, <2>3, ClosedBox
    <2>5. BoxesOK'
      BY <1>0, <2>1, <2>3, <2>4, DepositReplaced DEF CloseDeposit
    <2> QED
      BY <1>0, <2>2, <2>5 DEF FundsOK, AdminOK, admin
  <1>4. CASE \E k \in Keys : CloseWithdraw(n, b, k)
    <2>1. PICK k \in Keys : CloseWithdraw(n, b, k)
      BY <1>4
    <2>o. withdraw[n][b].state = "OPEN"
      BY <2>1 DEF CloseWithdraw
    <2>2. /\ liquid' \in [Networks -> [Accounts -> Nat]]
          /\ balance' \in [Networks -> Nat]
          /\ UNCHANGED <<admin, now>>
      BY <1>0, <2>1, <2>o, TermsOK, CreditOK, TransferOK DEF CloseWithdraw
    <2>3. PICK box : box = Closed(withdraw[n][b], k)
      OBVIOUS
    <2>4. box \in Box /\ Payable(box)
      BY <1>d, <2>o, <2>3, ClosedBox
    <2>5. BoxesOK'
      BY <1>0, <2>1, <2>3, <2>4, WithdrawReplaced DEF CloseWithdraw
    <2> QED
      BY <1>0, <2>2, <2>5 DEF FundsOK, AdminOK, admin
  <1>5. CASE ExpireDeposit(n, b)
    <2>o. deposit[n][b].state = "OPEN"
      BY <1>5 DEF ExpireDeposit
    <2>2. balance' \in [Networks -> Nat] /\ UNCHANGED <<liquid, admin, now>>
      BY <1>0, <1>5, <2>o, TermsOK, TransferOK DEF ExpireDeposit
    <2>3. PICK box : box = Expired(deposit[n][b])
      OBVIOUS
    <2>4. box \in Box /\ Payable(box)
      BY <1>d, <2>o, <2>3, ExpiredBox
    <2>5. BoxesOK'
      BY <1>0, <1>5, <2>3, <2>4, DepositReplaced DEF ExpireDeposit
    <2> QED
      BY <1>0, <2>2, <2>5 DEF FundsOK, AdminOK, admin
  <1>6. CASE ExpireWithdraw(n, b)
    <2>o. withdraw[n][b].state = "OPEN" /\ UNCHANGED <<funds, admin, now>>
      BY <1>6 DEF ExpireWithdraw
    <2>3. PICK box : box = Expired(withdraw[n][b])
      OBVIOUS
    <2>4. box \in Box /\ Payable(box)
      BY <1>d, <2>o, <2>3, ExpiredBox
    <2>5. BoxesOK'
      BY <1>0, <1>6, <2>3, <2>4, WithdrawReplaced DEF ExpireWithdraw
    <2> QED
      BY <1>0, <2>o, <2>5 DEF FundsOK, AdminOK, admin, funds
  <1> QED
    BY <1>1, <1>2, <1>3, <1>4, <1>5, <1>6 DEF Trade

LEMMA InvestKeepsType ==
    ASSUME TypeOK, NEW n \in Networks, NEW a \in Accounts, Invest(n, a)
    PROVE  TypeOK'
  <1>0. FundsOK /\ AdminOK /\ BoxesOK /\ now \in Nat
    BY DEF TypeOK
  <1>1. PICK coins \in Sums : IncreaseLiquidity(n, a, coins) \/ DecreaseLiquidity(n, a, coins)
    BY DEF Invest
  <1>2. coins \in Nat
    BY Quantities
  <1>3. UNCHANGED <<boxes, admin, now>>
    BY <1>1 DEF IncreaseLiquidity, DecreaseLiquidity
  <1>4. FundsOK'
    <2>1. CASE IncreaseLiquidity(n, a, coins)
      BY <1>0, <1>2, <2>1, ReceiveOK DEF IncreaseLiquidity, FundsOK
    <2>2. CASE DecreaseLiquidity(n, a, coins)
      BY <1>0, <1>2, <2>2, TransferOK DEF DecreaseLiquidity, CanDecrease, FundsOK
    <2> QED
      BY <1>1, <2>1, <2>2
  <1> QED
    BY <1>0, <1>3, <1>4 DEF TypeOK, AdminOK, BoxesOK, Payable, boxes, admin

LEMMA AdministerKeepsType ==
    ASSUME TypeOK, NEW n \in Networks, Administer(n)
    PROVE  TypeOK'
  <1>0. FundsOK /\ AdminOK /\ BoxesOK /\ now \in Nat
    BY DEF TypeOK
  <1>1. UNCHANGED <<boxes, now>>
    BY DEF Administer, SetFeeManager, SetActive, ChangeTimeLock
  <1>2. FundsOK' /\ AdminOK'
    <2>1. CASE \E a \in Accounts : SetFeeManager(n, a)
      <3>1. PICK a \in Accounts : SetFeeManager(n, a)
        BY <2>1
      <3>2. HandOver(n, a) \in [Accounts -> Nat]
        BY <1>0 DEF HandOver, FundsOK, AdminOK
      <3> QED
        BY <1>0, <3>1, <3>2 DEF SetFeeManager, FundsOK, AdminOK
    <2>2. CASE \E v \in BOOLEAN : SetActive(n, v)
      BY <1>0, <2>2 DEF SetActive, FundsOK, AdminOK, funds
    <2>3. CASE \E lock \in TimeLocks : ChangeTimeLock(n, lock)
      BY <1>0, <2>3 DEF ChangeTimeLock, FundsOK, AdminOK, funds
    <2> QED
      BY <2>1, <2>2, <2>3 DEF Administer
  <1> QED
    BY <1>0, <1>1, <1>2 DEF TypeOK, BoxesOK, Payable, boxes

LEMMA TypeStep == TypeOK /\ [Next]_vars => TypeOK'
  <1> SUFFICES ASSUME TypeOK, [Next]_vars PROVE TypeOK'
    OBVIOUS
  <1>1. CASE Next
    <2>1. CASE Tick
      BY <2>1 DEF Tick, TypeOK, FundsOK, AdminOK, BoxesOK, Payable, funds, boxes, admin
    <2> QED
      BY <1>1, <2>1, TradeKeepsType, InvestKeepsType, AdministerKeepsType DEF Next
  <1>2. CASE UNCHANGED vars
    BY <1>2 DEF vars, TypeOK, FundsOK, AdminOK, BoxesOK, Payable, funds, boxes, admin
  <1> QED
    BY <1>1, <1>2

(* No contract pays out what it does not hold, no account goes below zero, *)
(* every box that was opened has terms to be paid on.                      *)
THEOREM TypeCorrect == Spec => []TypeOK
  BY TypeInit, TypeStep, PTL DEF Spec

(***************************************************************************)
(* Boxes.                                                                  *)
(***************************************************************************)
(* What one call may do to the box it names, and a step to all boxes.      *)
KeyFits(before, after) ==
    before.state = "OPEN" /\ after.state = "CLOSED" => after.key \in Keys /\ Sha256[after.key] = before.terms.lock
KeysFit == \A n \in Networks, b \in Boxes : KeyFits(withdraw[n][b], withdraw'[n][b])
GoodMove(before, after) == BoxMoves(before, after) /\ KeyFits(before, after)
GoodMoves == BoxesMove /\ KeysFit

LEMMA DepositMoves ==
    ASSUME BoxesOK, NEW n \in Networks, NEW b \in Boxes, NEW box,
           deposit' = [deposit EXCEPT ![n][b] = box], withdraw' = withdraw,
           GoodMove(deposit[n][b], box)
    PROVE  GoodMoves
  BY DEF BoxesOK, GoodMove, GoodMoves, BoxMoves, BoxesMove, KeyFits, KeysFit

LEMMA WithdrawMoves ==
    ASSUME BoxesOK, NEW n \in Networks, NEW b \in Boxes, NEW box,
           withdraw' = [withdraw EXCEPT ![n][b] = box], deposit' = deposit,
           GoodMove(withdraw[n][b], box)
    PROVE  GoodMoves
  BY DEF BoxesOK, GoodMove, GoodMoves, BoxMoves, BoxesMove, KeyFits, KeysFit

(* The moves of a box: opened, closed with a key of its lock, and expired. *)
LEMMA FirstMove ==
    ASSUME NEW box \in Box, NEW t, NEW lock, box.state = "INVALID"
    PROVE  GoodMove(box, Opened(t, lock))
  BY DEF Box, GoodMove, BoxMoves, KeyFits, Opened

LEMMA PaidMove ==
    ASSUME NEW box \in Box, NEW k \in Keys, box.state = "OPEN", box.terms.lock = Sha256[k]
    PROVE  GoodMove(box, Closed(box, k))
  BY DEF Box, GoodMove, BoxMoves, KeyFits, Closed

LEMMA LastMove ==
    ASSUME NEW box \in Box, box.state = "OPEN"
    PROVE  GoodMove(box, Expired(box))
  BY DEF Box, GoodMove, BoxMoves, KeyFits, Expired

LEMMA TradeMoves ==
    ASSUME TypeOK, NEW n \in Networks, NEW b \in Boxes, Trade(n, b)
    PROVE  GoodMoves
  <1>0. BoxesOK /\ now \in Nat
    BY DEF TypeOK
  <1>1. deposit[n][b] \in Box /\ withdraw[n][b] \in Box
    BY <1>0 DEF BoxesOK
  <1>2. CASE \E t \in Terms : OpenDeposit(n, b, t)
    <2>1. PICK t \in Terms : OpenDeposit(n, b, t)
      BY <1>2
    <2>2. PICK box : box = Opened(t, 2 * timeLock[n])
      OBVIOUS
    <2>3. GoodMove(deposit[n][b], box)
      BY <1>1, <2>1, <2>2, FirstMove DEF OpenDeposit
    <2> QED
      BY <1>0, <2>1, <2>2, <2>3, DepositMoves DEF OpenDeposit
  <1>3. CASE \E t \in Promised(n, b) : OpenWithdraw(n, b, t)
    <2>1. PICK t \in Promised(n, b) : OpenWithdraw(n, b, t)
      BY <1>3
    <2>2. PICK box : box = Opened(t, timeLock[n])
      OBVIOUS
    <2>3. GoodMove(withdraw[n][b], box)
      BY <1>1, <2>1, <2>2, FirstMove DEF OpenWithdraw
    <2> QED
      BY <1>0, <2>1, <2>2, <2>3, WithdrawMoves DEF OpenWithdraw
  <1>4. CASE \E k \in Keys : CloseDeposit(n, b, k)
    <2>1. PICK k \in Keys : CloseDeposit(n, b, k)
      BY <1>4
    <2>2. PICK box : box = Closed(deposit[n][b], k)
      OBVIOUS
    <2>3. GoodMove(deposit[n][b], box)
      BY <1>1, <2>1, <2>2, PaidMove DEF CloseDeposit, CanCloseDeposit
    <2> QED
      BY <1>0, <2>1, <2>2, <2>3, DepositMoves DEF CloseDeposit
  <1>5. CASE \E k \in Keys : CloseWithdraw(n, b, k)
    <2>1. PICK k \in Keys : CloseWithdraw(n, b, k)
      BY <1>5
    <2>2. PICK box : box = Closed(withdraw[n][b], k)
      OBVIOUS
    <2>3. GoodMove(withdraw[n][b], box)
      BY <1>1, <2>1, <2>2, PaidMove DEF CloseWithdraw
    <2> QED
      BY <1>0, <2>1, <2>2, <2>3, WithdrawMoves DEF CloseWithdraw
  <1>6. CASE ExpireDeposit(n, b)
    BY <1>0, <1>1, <1>6, LastMove, DepositMoves DEF ExpireDeposit
  <1>7. CASE ExpireWithdraw(n, b)
    BY <1>0, <1>1, <1>7, LastMove, WithdrawMoves DEF ExpireWithdraw
  <1> QED
    BY <1>2, <1>3, <1>4, <1>5, <1>6, <1>7 DEF Trade

LEMMA BoxStep ==
    ASSUME TypeOK, [Next]_vars
    PROVE  GoodMoves
  <1>1. ASSUME UNCHANGED boxes PROVE GoodMoves
    BY <1>1 DEF boxes, GoodMoves, BoxMoves, BoxesMove, KeyFits, KeysFit
  <1>2. ASSUME NEW n \in Networks, NEW a \in Accounts, Invest(n, a) PROVE UNCHANGED boxes
    BY <1>2 DEF Invest, IncreaseLiquidity, DecreaseLiquidity
  <1>3. ASSUME NEW n \in Networks, Administer(n) PROVE UNCHANGED boxes
    BY <1>3 DEF Administer, SetFeeManager, SetActive, ChangeTimeLock
  <1>4. ASSUME Tick \/ UNCHANGED vars PROVE UNCHANGED boxes
    BY <1>4 DEF Tick, vars
  <1> QED
    BY <1>1, <1>2, <1>3, <1>4, TradeMoves DEF Next

(* A box goes from INVALID to OPEN to one of two ends, and nothing written *)
(* at its opening changes: it pays, or is refunded, at most once.          *)
THEOREM BoxesFinal == Spec => BoxesAreFinal
  <1>1. TypeOK /\ [Next]_vars => [BoxesMove]_vars
    BY BoxStep DEF GoodMoves
  <1> QED
    BY <1>1, TypeCorrect, PTL DEF Spec, BoxesAreFinal

(***************************************************************************)
(* The books: the balance of a contract, with what it has paid out, covers *)
(* the liquidity of its providers and the deposits it has kept.            *)
(***************************************************************************)
AllPayable(box) == box \in [Boxes -> Box] /\ \A b \in Boxes : Payable(box[b])
At(m, n, coins) == IF m = n THEN coins ELSE 0
Replace(f, n, b, x) == [f EXCEPT ![n][b] = x]

LEMMA BoxesArePayable ==
    ASSUME BoxesOK, NEW n \in Networks
    PROVE  AllPayable(deposit[n]) /\ AllPayable(withdraw[n])
  BY DEF BoxesOK, AllPayable

LEMMA CollectedType ==
    ASSUME NEW n \in Networks, NEW fee \in Nat
    PROVE  Collected(n, fee) \in Nat /\ Collected(n, fee) <= fee
  BY ContractSetup DEF Collected

(* What a box counts for. *)
LEMMA BoxSums ==
    ASSUME NEW n \in Networks, NEW box \in Box, Payable(box)
    PROVE  Kept(n, box) \in Nat /\ Paid(n, box) \in Nat
  <1>1. CASE box.state \in {"INVALID", "EXPIRED"}
    BY <1>1 DEF Kept, Paid
  <1>2. CASE box.state \in {"OPEN", "CLOSED"}
    <2>1. box.terms.fee \in Nat /\ box.terms.amount \in Nat /\ box.terms.fee < box.terms.amount
      BY <1>2 DEF Payable, AllTerms
    <2>2. Collected(n, box.terms.fee) \in Nat /\ Collected(n, box.terms.fee) <= box.terms.fee
      BY <2>1, CollectedType
    <2> QED
      BY <1>2, <2>1, <2>2 DEF Kept, Paid, Payout
  <1> QED
    BY <1>1, <1>2 DEF Box

LEMMA BookTypes ==
    ASSUME NEW n \in Networks, NEW box, AllPayable(box)
    PROVE  /\ [b \in Boxes |-> Kept(n, box[b])] \in [Boxes -> Nat]
           /\ [b \in Boxes |-> Paid(n, box[b])] \in [Boxes -> Nat]
           /\ Total([b \in Boxes |-> Kept(n, box[b])]) \in Nat
           /\ Total([b \in Boxes |-> Paid(n, box[b])]) \in Nat
  <1>1. \A b \in Boxes : Kept(n, box[b]) \in Nat /\ Paid(n, box[b]) \in Nat
    BY BoxSums DEF AllPayable
  <1> DEFINE kept == [b \in Boxes |-> Kept(n, box[b])]
             paid == [b \in Boxes |-> Paid(n, box[b])]
  <1>2. kept \in [Boxes -> Nat] /\ paid \in [Boxes -> Nat]
    BY <1>1
  <1> HIDE DEF kept, paid
  <1>3. Total(kept) \in Nat /\ Total(paid) \in Nat
    BY <1>2, TotalType, FiniteIds
  <1> QED
    BY <1>2, <1>3 DEF kept, paid

LEMMA SumsType ==
    ASSUME FundsOK, BoxesOK, NEW m \in Networks
    PROVE  balance[m] \in Nat /\ Total(liquid[m]) \in Nat /\ AllKept(m) \in Nat /\ AllPaid(m) \in Nat
  <1>1. liquid[m] \in [Accounts -> Nat] /\ balance[m] \in Nat
    BY DEF FundsOK
  <1>2. Total(liquid[m]) \in Nat
    BY <1>1, TotalType, FiniteIds
  <1>3. AllKept(m) \in Nat /\ AllPaid(m) \in Nat
    BY BoxesArePayable, BookTypes DEF AllKept, AllPaid
  <1> QED
    BY <1>1, <1>2, <1>3

(* One deposit box changes, or one withdraw box: the sums follow it. *)
LEMMA KeptSum ==
    ASSUME BoxesOK, BoxesOK', NEW n \in Networks, NEW b \in Boxes, NEW box,
           deposit' = Replace(deposit, n, b, box), NEW m \in Networks,
           NEW before, before = Kept(n, deposit[n][b]), NEW after, after = Kept(n, box)
    PROVE  /\ At(m, n, before) \in Nat /\ At(m, n, after) \in Nat
           /\ AllKept(m) \in Nat /\ AllKept(m)' \in Nat
           /\ AllKept(m)' + At(m, n, before) = AllKept(m) + At(m, n, after)
  <1>0. PICK old, new : old = deposit[m] /\ new = deposit'[m]
    OBVIOUS
  <1>1. AllPayable(old) /\ AllPayable(new)
    BY <1>0 DEF BoxesOK, AllPayable
  <1> DEFINE f == [c \in Boxes |-> Kept(m, old[c])]
             g == [c \in Boxes |-> Kept(m, new[c])]
  <1>2. f \in [Boxes -> Nat] /\ g \in [Boxes -> Nat] /\ Total(f) \in Nat /\ Total(g) \in Nat
    BY <1>1, BookTypes
  <1>3. AllKept(m) = Total(f) /\ AllKept(m)' = Total(g)
    BY <1>0 DEF AllKept
  <1>4. f[b] = Kept(m, old[b]) /\ g[b] = Kept(m, new[b])
    OBVIOUS
  <1>5. CASE m # n
    <2>1. new = old
      BY <1>0, <1>5 DEF BoxesOK, Replace
    <2> QED
      BY <1>2, <1>3, <1>5, <2>1 DEF At
  <1>6. CASE m = n
    <2>1. old[b] = deposit[n][b] /\ new[b] = box /\ \A c \in Boxes \ {b} : new[c] = old[c]
      BY <1>0, <1>6 DEF BoxesOK, Replace
    <2>2. \A c \in Boxes \ {b} : g[c] = f[c]
      BY <2>1
    <2>3. f[b] = before /\ g[b] = after /\ f[b] \in Nat /\ g[b] \in Nat
      BY <1>2, <1>4, <1>6, <2>1
    <2> HIDE DEF f, g
    <2>4. Total(g) + f[b] = Total(f) + g[b]
      BY <1>2, <2>2, TotalChange, FiniteIds
    <2> QED
      BY <1>2, <1>3, <1>6, <2>3, <2>4 DEF At
  <1> QED
    BY <1>5, <1>6

LEMMA PaidSum ==
    ASSUME BoxesOK, BoxesOK', NEW n \in Networks, NEW b \in Boxes, NEW box,
           withdraw' = Replace(withdraw, n, b, box), NEW m \in Networks,
           NEW before, before = Paid(n, withdraw[n][b]), NEW after, after = Paid(n, box)
    PROVE  /\ At(m, n, before) \in Nat /\ At(m, n, after) \in Nat
           /\ AllPaid(m) \in Nat /\ AllPaid(m)' \in Nat
           /\ AllPaid(m)' + At(m, n, before) = AllPaid(m) + At(m, n, after)
  <1>0. PICK old, new : old = withdraw[m] /\ new = withdraw'[m]
    OBVIOUS
  <1>1. AllPayable(old) /\ AllPayable(new)
    BY <1>0 DEF BoxesOK, AllPayable
  <1> DEFINE f == [c \in Boxes |-> Paid(m, old[c])]
             g == [c \in Boxes |-> Paid(m, new[c])]
  <1>2. f \in [Boxes -> Nat] /\ g \in [Boxes -> Nat] /\ Total(f) \in Nat /\ Total(g) \in Nat
    BY <1>1, BookTypes
  <1>3. AllPaid(m) = Total(f) /\ AllPaid(m)' = Total(g)
    BY <1>0 DEF AllPaid
  <1>4. f[b] = Paid(m, old[b]) /\ g[b] = Paid(m, new[b])
    OBVIOUS
  <1>5. CASE m # n
    <2>1. new = old
      BY <1>0, <1>5 DEF BoxesOK, Replace
    <2> QED
      BY <1>2, <1>3, <1>5, <2>1 DEF At
  <1>6. CASE m = n
    <2>1. old[b] = withdraw[n][b] /\ new[b] = box /\ \A c \in Boxes \ {b} : new[c] = old[c]
      BY <1>0, <1>6 DEF BoxesOK, Replace
    <2>2. \A c \in Boxes \ {b} : g[c] = f[c]
      BY <2>1
    <2>3. f[b] = before /\ g[b] = after /\ f[b] \in Nat /\ g[b] \in Nat
      BY <1>2, <1>4, <1>6, <2>1
    <2> HIDE DEF f, g
    <2>4. Total(g) + f[b] = Total(f) + g[b]
      BY <1>2, <2>2, TotalChange, FiniteIds
    <2> QED
      BY <1>2, <1>3, <1>6, <2>3, <2>4 DEF At
  <1> QED
    BY <1>5, <1>6

(* What is booked for accounts: one more, one less, one for another. *)
LEMMA LiquidSum ==
    ASSUME FundsOK, FundsOK', NEW n \in Networks, NEW a \in Accounts, NEW x,
           liquid' = Replace(liquid, n, a, x), NEW m \in Networks
    PROVE  /\ x \in Nat /\ Total(liquid[m]) \in Nat /\ Total(liquid'[m]) \in Nat
           /\ Total(liquid'[m]) + At(m, n, liquid[n][a]) = Total(liquid[m]) + At(m, n, x)
  <1>0. PICK old, new : old = liquid[m] /\ new = liquid'[m]
    OBVIOUS
  <1>1. old \in [Accounts -> Nat] /\ new \in [Accounts -> Nat]
    BY <1>0 DEF FundsOK
  <1>2. Total(old) \in Nat /\ Total(new) \in Nat
    BY <1>1, TotalType, FiniteIds
  <1>3. liquid'[n][a] = x /\ liquid'[n][a] \in Nat
    BY DEF FundsOK, Replace
  <1>4. CASE m # n
    <2>1. new = old
      BY <1>0, <1>4 DEF FundsOK, Replace
    <2> QED
      BY <1>0, <1>2, <1>3, <1>4, <2>1 DEF At
  <1>5. CASE m = n
    <2>1. old[a] = liquid[n][a] /\ new[a] = x /\ \A c \in Accounts \ {a} : new[c] = old[c]
      BY <1>0, <1>5 DEF FundsOK, Replace
    <2>2. Total(new) + old[a] = Total(old) + new[a]
      BY <1>1, <2>1, TotalChange, FiniteIds
    <2> QED
      BY <1>0, <1>2, <1>3, <1>5, <2>1, <2>2 DEF At
  <1> QED
    BY <1>4, <1>5
(* The hand-over of the fees: the sum stays, or shrinks when the manager   *)
(* is set to who he is.                                                    *)
LEMMA HandOverSum ==
    ASSUME FundsOK, AdminOK, NEW n \in Networks, NEW a \in Accounts, NEW m \in Networks,
           liquid' = [liquid EXCEPT ![n] = HandOver(n, a)]
    PROVE  Total(liquid'[m]) \in Nat /\ Total(liquid'[m]) <= Total(liquid[m])
  <1>0. liquid[m] \in [Accounts -> Nat] /\ Total(liquid[m]) \in Nat
    BY TotalType, FiniteIds DEF FundsOK
  <1>1. CASE m # n
    <2>1. liquid'[m] = liquid[m]
      BY <1>1 DEF FundsOK
    <2> QED
      BY <1>0, <2>1
  <1>2. CASE m = n
    <2>0. PICK old, fm : old = liquid[n] /\ fm = feeManager[n]
      OBVIOUS
    <2>1. old \in [Accounts -> Nat] /\ fm \in Accounts
      BY <2>0 DEF FundsOK, AdminOK
    <2>2. PICK mid : mid = [old EXCEPT ![a] = @ + old[fm]]
      OBVIOUS
    <2>3. PICK new : new = [mid EXCEPT ![fm] = 0]
      OBVIOUS
    <2>4. mid \in [Accounts -> Nat] /\ new \in [Accounts -> Nat]
      BY <2>1, <2>2, <2>3
    <2>5. mid[a] = old[a] + old[fm] /\ \A c \in Accounts \ {a} : mid[c] = old[c]
      BY <2>1, <2>2
    <2>6. new[fm] = 0 /\ \A c \in Accounts \ {fm} : new[c] = mid[c]
      BY <2>1, <2>3, <2>4
    <2>7. Total(mid) + old[a] = Total(old) + mid[a]
      BY <2>1, <2>4, <2>5, TotalChange, FiniteIds
    <2>8. Total(new) + mid[fm] = Total(mid) + new[fm]
      BY <2>1, <2>4, <2>6, TotalChange, FiniteIds
    <2>9. /\ old[a] \in Nat /\ old[fm] \in Nat /\ mid[fm] \in Nat
          /\ Total(old) \in Nat /\ Total(mid) \in Nat /\ Total(new) \in Nat
      BY <2>1, <2>4, TotalType, FiniteIds
    <2>10. mid[fm] >= old[fm]
      <3>1. CASE fm = a
        BY <2>5, <2>9, <3>1
      <3>2. CASE fm # a
        BY <2>1, <2>5, <2>9, <3>2
      <3> QED
        BY <3>1, <3>2
    <2>11. Total(new) <= Total(old)
      BY <2>5, <2>6, <2>7, <2>8, <2>9, <2>10
    <2>12. liquid'[m] = new
      BY <1>2, <2>0, <2>2, <2>3 DEF HandOver, FundsOK
    <2> QED
      BY <1>2, <2>0, <2>9, <2>11, <2>12
  <1> QED
    BY <1>1, <1>2

LEMMA CreditSum ==
    ASSUME FundsOK, FundsOK', AdminOK, NEW n \in Networks, NEW fee \in Nat, Credit(n, fee),
           NEW m \in Networks
    PROVE  /\ Total(liquid[m]) \in Nat /\ Total(liquid'[m]) \in Nat
           /\ Total(liquid'[m]) = Total(liquid[m]) + At(m, n, Collected(n, fee))
  <1>0. Total(liquid[m]) \in Nat
    BY TotalType, FiniteIds DEF FundsOK
  <1>1. CASE CollectFee[n]
    <2>1. PICK fm, old, x : fm = feeManager[n] /\ old = liquid[n][fm] /\ x = old + fee
      OBVIOUS
    <2>2. fm \in Accounts /\ old \in Nat
      BY <2>1 DEF AdminOK, FundsOK
    <2>3. liquid' = Replace(liquid, n, fm, x)
      BY <1>1, <2>1, <2>2 DEF Credit, Replace, FundsOK
    <2>4. /\ Total(liquid'[m]) \in Nat
          /\ Total(liquid'[m]) + At(m, n, old) = Total(liquid[m]) + At(m, n, x)
      BY <2>1, <2>2, <2>3, LiquidSum
    <2> QED
      BY <1>0, <1>1, <2>1, <2>2, <2>4 DEF Collected, At
  <1>2. CASE ~CollectFee[n]
    BY <1>0, <1>2 DEF Credit, Collected, At
  <1> QED
    BY <1>1, <1>2

LEMMA MovedIn ==
    ASSUME FundsOK, NEW n \in Networks, NEW coins \in Nat, Receive(n, coins), NEW m \in Networks
    PROVE  /\ balance[m] \in Nat /\ balance'[m] \in Nat
           /\ balance'[m] = balance[m] + At(m, n, coins)
  BY DEF FundsOK, Receive, At

LEMMA MovedOut ==
    ASSUME FundsOK, NEW n \in Networks, NEW coins \in Nat, Transfer(n, coins), NEW m \in Networks
    PROVE  /\ balance[m] \in Nat /\ balance'[m] \in Nat
           /\ balance'[m] + At(m, n, coins) = balance[m]
  BY DEF FundsOK, Transfer, At

Covers(m) == balance[m] + AllPaid(m) >= Total(liquid[m]) + AllKept(m)

LEMMA SameKept == ASSUME UNCHANGED deposit, NEW m PROVE AllKept(m)' = AllKept(m)
  BY DEF AllKept

LEMMA SamePaid == ASSUME UNCHANGED withdraw, NEW m PROVE AllPaid(m)' = AllPaid(m)
  BY DEF AllPaid

LEMMA AtZero == \A m, n : At(m, n, 0) = 0
  BY DEF At

LEMMA AtSum ==
    ASSUME NEW m, NEW n, NEW x \in Nat, NEW y \in Nat
    PROVE  /\ At(m, n, x) \in Nat /\ At(m, n, y) \in Nat
           /\ At(m, n, x + y) = At(m, n, x) + At(m, n, y)
  BY DEF At

LEMMA DepositsKeepBooks ==
    ASSUME TypeOK, TypeOK', BooksCover, NEW n \in Networks, NEW b \in Boxes,
           \/ \E t \in Terms : OpenDeposit(n, b, t)
           \/ \E k \in Keys : CloseDeposit(n, b, k)
           \/ ExpireDeposit(n, b)
    PROVE  BooksCover'
  <1> SUFFICES ASSUME NEW m \in Networks
               PROVE  Covers(m)'
    BY DEF BooksCover, Covers
  <1>0. FundsOK /\ FundsOK' /\ AdminOK /\ BoxesOK /\ BoxesOK' /\ Covers(m)
    BY DEF TypeOK, BooksCover, Covers
  <1>t. /\ balance[m] \in Nat /\ Total(liquid[m]) \in Nat /\ AllKept(m) \in Nat /\ AllPaid(m) \in Nat
    BY <1>0, SumsType
  <1>d. deposit[n][b] \in Box /\ Payable(deposit[n][b])
    BY <1>0 DEF BoxesOK
  <1>1. ASSUME NEW t \in Terms, OpenDeposit(n, b, t)
        PROVE  Covers(m)'
    <2>1. PICK box : box = Opened(t, 2 * timeLock[n])
      OBVIOUS
    <2>2. deposit' = Replace(deposit, n, b, box) /\ UNCHANGED <<liquid, withdraw>>
      BY <1>1, <2>1 DEF OpenDeposit, Replace
    <2>3. Kept(n, deposit[n][b]) = 0 /\ Kept(n, box) = t.amount /\ t.amount \in Nat
      BY <1>1, <2>1, SwapTerms DEF Kept, OpenDeposit, Opened, AllTerms
    <2>4. /\ AllKept(m)' \in Nat /\ AllKept(m)' + At(m, n, 0) = AllKept(m) + At(m, n, t.amount)
      BY <1>0, <2>2, <2>3, KeptSum
    <2>5. balance'[m] = balance[m] + At(m, n, t.amount)
      BY <1>0, <1>1, <2>3, MovedIn DEF OpenDeposit
    <2>6. AllPaid(m)' = AllPaid(m) /\ liquid' = liquid
      BY <2>2, SamePaid
    <2>7. At(m, n, t.amount) \in Nat
      BY <2>3 DEF At
    <2> QED
      BY <1>0, <1>t, <2>4, <2>5, <2>6, <2>7, AtZero DEF Covers
  <1>2. ASSUME NEW k \in Keys, CloseDeposit(n, b, k)
        PROVE  Covers(m)'
    <2>1. PICK box : box = Closed(deposit[n][b], k)
      OBVIOUS
    <2>2. deposit' = Replace(deposit, n, b, box) /\ UNCHANGED <<balance, withdraw>>
      BY <1>2, <2>1 DEF CloseDeposit, Replace
    <2>o. deposit[n][b].state = "OPEN"
      BY <1>2 DEF CloseDeposit, CanCloseDeposit
    <2>p. PICK amount, fee, got : /\ amount = deposit[n][b].terms.amount /\ fee = deposit[n][b].terms.fee
                                  /\ got = Collected(n, fee)
      OBVIOUS
    <2>3. amount \in Nat /\ fee \in Nat /\ fee < amount
      BY <1>d, <2>o, <2>p DEF Payable, AllTerms
    <2>4. got \in Nat /\ got <= fee
      BY <2>p, <2>3, CollectedType
    <2>5. Kept(n, deposit[n][b]) = amount
      BY <2>o, <2>p DEF Kept
    <2>6. Kept(n, box) = amount - got
      BY <1>d, <2>1, <2>o, <2>p DEF Kept, Closed, Box
    <2>7. /\ AllKept(m)' \in Nat
          /\ AllKept(m)' + At(m, n, amount) = AllKept(m) + At(m, n, amount - got)
      BY <1>0, <2>2, <2>5, <2>6, KeptSum
    <2>8. /\ Total(liquid'[m]) \in Nat
          /\ Total(liquid'[m]) = Total(liquid[m]) + At(m, n, got)
      BY <1>0, <1>2, <2>p, <2>3, CreditSum DEF CloseDeposit
    <2>9. At(m, n, amount) = At(m, n, amount - got) + At(m, n, got) /\ At(m, n, got) \in Nat
          /\ At(m, n, amount) \in Nat /\ At(m, n, amount - got) \in Nat
      BY <2>3, <2>4 DEF At
    <2>10. AllPaid(m)' = AllPaid(m) /\ balance' = balance
      BY <2>2, SamePaid
    <2> QED
      BY <1>0, <1>t, <2>7, <2>8, <2>9, <2>10 DEF Covers
  <1>3. CASE ExpireDeposit(n, b)
    <2>1. PICK box : box = Expired(deposit[n][b])
      OBVIOUS
    <2>2. deposit' = Replace(deposit, n, b, box) /\ UNCHANGED <<liquid, withdraw>>
      BY <1>3, <2>1 DEF ExpireDeposit, Replace
    <2>o. deposit[n][b].state = "OPEN"
      BY <1>3 DEF ExpireDeposit
    <2>p. PICK amount : amount = deposit[n][b].terms.amount
      OBVIOUS
    <2>3. amount \in Nat
      BY <1>d, <2>o, <2>p DEF Payable, AllTerms
    <2>4. Kept(n, deposit[n][b]) = amount /\ Kept(n, box) = 0
      BY <1>d, <2>1, <2>o, <2>p DEF Kept, Expired, Box
    <2>5. /\ AllKept(m)' \in Nat /\ AllKept(m)' + At(m, n, amount) = AllKept(m) + At(m, n, 0)
      BY <1>0, <2>2, <2>4, KeptSum
    <2>6. balance'[m] \in Nat /\ balance'[m] + At(m, n, amount) = balance[m]
      BY <1>0, <1>3, <2>p, <2>3, MovedOut DEF ExpireDeposit
    <2>7. AllPaid(m)' = AllPaid(m) /\ liquid' = liquid /\ At(m, n, amount) \in Nat
      BY <2>2, <2>3, SamePaid DEF At
    <2> QED
      BY <1>0, <1>t, <2>5, <2>6, <2>7, AtZero DEF Covers
  <1> QED
    BY <1>1, <1>2, <1>3

LEMMA WithdrawalsKeepBooks ==
    ASSUME TypeOK, TypeOK', BooksCover, NEW n \in Networks, NEW b \in Boxes,
           \/ \E t : OpenWithdraw(n, b, t)
           \/ \E k \in Keys : CloseWithdraw(n, b, k)
           \/ ExpireWithdraw(n, b)
    PROVE  BooksCover'
  <1> SUFFICES ASSUME NEW m \in Networks
               PROVE  Covers(m)'
    BY DEF BooksCover, Covers
  <1>0. FundsOK /\ FundsOK' /\ AdminOK /\ BoxesOK /\ BoxesOK' /\ Covers(m)
    BY DEF TypeOK, BooksCover, Covers
  <1>t. /\ balance[m] \in Nat /\ Total(liquid[m]) \in Nat /\ AllKept(m) \in Nat /\ AllPaid(m) \in Nat
    BY <1>0, SumsType
  <1>w. withdraw[n][b] \in Box /\ Payable(withdraw[n][b])
    BY <1>0 DEF BoxesOK
  <1>1. ASSUME NEW box, withdraw' = Replace(withdraw, n, b, box), UNCHANGED <<funds, deposit>>,
               withdraw[n][b].state # "CLOSED", box.state # "CLOSED"
        PROVE  Covers(m)'
    <2>1. Paid(n, withdraw[n][b]) = 0 /\ Paid(n, box) = 0
      BY <1>1 DEF Paid
    <2>2. AllPaid(m)' \in Nat /\ AllPaid(m)' + At(m, n, 0) = AllPaid(m) + At(m, n, 0)
      BY <1>0, <1>1, <2>1, PaidSum
    <2>3. AllKept(m)' = AllKept(m) /\ balance' = balance /\ liquid' = liquid
      BY <1>1, SameKept DEF funds
    <2> QED
      BY <1>0, <1>t, <2>2, <2>3, AtZero DEF Covers
  <1>2. ASSUME NEW t, OpenWithdraw(n, b, t)
        PROVE  Covers(m)'
    <2>1. PICK box : box = Opened(t, timeLock[n])
      OBVIOUS
    <2>2. withdraw' = Replace(withdraw, n, b, box) /\ UNCHANGED <<funds, deposit>>
      BY <1>2, <2>1 DEF OpenWithdraw, Replace
    <2>3. withdraw[n][b].state # "CLOSED" /\ box.state # "CLOSED"
      BY <1>2, <2>1 DEF OpenWithdraw, Opened
    <2> QED
      BY <1>1, <2>2, <2>3
  <1>3. CASE ExpireWithdraw(n, b)
    <2>1. PICK box : box = Expired(withdraw[n][b])
      OBVIOUS
    <2>2. withdraw' = Replace(withdraw, n, b, box) /\ UNCHANGED <<funds, deposit>>
      BY <1>3, <2>1 DEF ExpireWithdraw, Replace
    <2>3. withdraw[n][b].state # "CLOSED" /\ box.state # "CLOSED"
      BY <1>3, <1>w, <2>1 DEF ExpireWithdraw, Expired, Box
    <2> QED
      BY <1>1, <2>2, <2>3
  <1>4. ASSUME NEW k \in Keys, CloseWithdraw(n, b, k)
        PROVE  Covers(m)'
    <2>1. PICK box : box = Closed(withdraw[n][b], k)
      OBVIOUS
    <2>2. withdraw' = Replace(withdraw, n, b, box) /\ UNCHANGED deposit
      BY <1>4, <2>1 DEF CloseWithdraw, Replace
    <2>o. withdraw[n][b].state = "OPEN"
      BY <1>4 DEF CloseWithdraw
    <2>p. PICK fee, pay, got : /\ fee = withdraw[n][b].terms.fee
                               /\ pay = Payout(withdraw[n][b].terms) /\ got = Collected(n, fee)
      OBVIOUS
    <2>3. pay \in Nat /\ fee \in Nat
      BY <1>w, <2>o, <2>p DEF Payable, AllTerms, Payout
    <2>4. got \in Nat
      BY <2>p, <2>3, CollectedType
    <2>5. Paid(n, withdraw[n][b]) = 0 /\ Paid(n, box) = pay + got
      BY <1>w, <2>1, <2>o, <2>p DEF Paid, Closed, Box
    <2>6. AllPaid(m)' \in Nat /\ AllPaid(m)' + At(m, n, 0) = AllPaid(m) + At(m, n, pay + got)
      BY <1>0, <2>2, <2>5, PaidSum
    <2>7. /\ Total(liquid'[m]) \in Nat /\ Total(liquid'[m]) = Total(liquid[m]) + At(m, n, got)
      BY <1>0, <1>4, <2>p, <2>3, CreditSum DEF CloseWithdraw
    <2>8. balance'[m] \in Nat /\ balance'[m] + At(m, n, pay) = balance[m]
      BY <1>0, <1>4, <2>p, <2>3, MovedOut DEF CloseWithdraw
    <2>9. AllKept(m)' = AllKept(m)
      BY <2>2, SameKept
    <2>10. /\ At(m, n, pay) \in Nat /\ At(m, n, got) \in Nat
           /\ At(m, n, pay + got) = At(m, n, pay) + At(m, n, got)
      BY <2>3, <2>4, AtSum
    <2> QED
      BY <1>0, <1>t, <2>6, <2>7, <2>8, <2>9, <2>10, AtZero DEF Covers
  <1> QED
    BY <1>2, <1>3, <1>4

LEMMA InvestKeepsBooks ==
    ASSUME TypeOK, TypeOK', BooksCover, NEW n \in Networks, NEW a \in Accounts, Invest(n, a)
    PROVE  BooksCover'
  <1> SUFFICES ASSUME NEW m \in Networks
               PROVE  Covers(m)'
    BY DEF BooksCover, Covers
  <1>0. FundsOK /\ FundsOK' /\ BoxesOK /\ Covers(m)
    BY DEF TypeOK, BooksCover, Covers
  <1>t. /\ balance[m] \in Nat /\ Total(liquid[m]) \in Nat /\ AllKept(m) \in Nat /\ AllPaid(m) \in Nat
    BY <1>0, SumsType
  <1>1. PICK coins \in Sums : IncreaseLiquidity(n, a, coins) \/ DecreaseLiquidity(n, a, coins)
    BY DEF Invest
  <1>2. coins \in Nat /\ At(m, n, coins) \in Nat
    BY Quantities DEF At
  <1>3. AllKept(m)' = AllKept(m) /\ AllPaid(m)' = AllPaid(m)
    <2>1. UNCHANGED deposit /\ UNCHANGED withdraw
      BY <1>1 DEF IncreaseLiquidity, DecreaseLiquidity, boxes
    <2> QED
      BY <2>1, SameKept, SamePaid
  <1>4. PICK old : old = liquid[n][a]
    OBVIOUS
  <1>5. old \in Nat
    BY <1>0, <1>4 DEF FundsOK
  <1>6. CASE IncreaseLiquidity(n, a, coins)
    <2>1. PICK x : x = old + coins
      OBVIOUS
    <2>2. liquid' = Replace(liquid, n, a, x)
      BY <1>0, <1>4, <1>6, <2>1 DEF IncreaseLiquidity, Replace, FundsOK
    <2>3. /\ Total(liquid'[m]) \in Nat
          /\ Total(liquid'[m]) + At(m, n, old) = Total(liquid[m]) + At(m, n, x)
      BY <1>0, <1>4, <2>2, LiquidSum
    <2>4. At(m, n, x) = At(m, n, old) + At(m, n, coins) /\ At(m, n, old) \in Nat
      BY <1>2, <1>5, <2>1, AtSum
    <2>5. balance'[m] = balance[m] + At(m, n, coins)
      BY <1>0, <1>2, <1>6, MovedIn DEF IncreaseLiquidity
    <2> QED
      BY <1>0, <1>t, <1>2, <1>3, <2>3, <2>4, <2>5 DEF Covers
  <1>7. CASE DecreaseLiquidity(n, a, coins)
    <2>1. PICK x : x = old - coins
      OBVIOUS
    <2>2. liquid' = Replace(liquid, n, a, x)
      BY <1>0, <1>4, <1>7, <2>1 DEF DecreaseLiquidity, Replace, FundsOK
    <2>3. /\ x \in Nat /\ Total(liquid'[m]) \in Nat
          /\ Total(liquid'[m]) + At(m, n, old) = Total(liquid[m]) + At(m, n, x)
      BY <1>0, <1>4, <2>2, LiquidSum
    <2>4. At(m, n, old) = At(m, n, x) + At(m, n, coins) /\ At(m, n, x) \in Nat
      <3>1. old = x + coins
        BY <1>2, <1>5, <2>1
      <3> QED
        BY <1>2, <2>3, <3>1, AtSum
    <2>5. balance'[m] \in Nat /\ balance'[m] + At(m, n, coins) = balance[m]
      BY <1>0, <1>2, <1>7, MovedOut DEF DecreaseLiquidity
    <2> QED
      BY <1>0, <1>t, <1>2, <1>3, <2>3, <2>4, <2>5 DEF Covers
  <1> QED
    BY <1>1, <1>6, <1>7

LEMMA AdministerKeepsBooks ==
    ASSUME TypeOK, BooksCover, NEW n \in Networks, Administer(n)
    PROVE  BooksCover'
  <1> SUFFICES ASSUME NEW m \in Networks
               PROVE  Covers(m)'
    BY DEF BooksCover, Covers
  <1>0. FundsOK /\ AdminOK /\ BoxesOK /\ Covers(m)
    BY DEF TypeOK, BooksCover, Covers
  <1>t. /\ balance[m] \in Nat /\ Total(liquid[m]) \in Nat /\ AllKept(m) \in Nat /\ AllPaid(m) \in Nat
    BY <1>0, SumsType
  <1>1. AllKept(m)' = AllKept(m) /\ AllPaid(m)' = AllPaid(m) /\ balance' = balance
    <2>1. UNCHANGED deposit /\ UNCHANGED withdraw /\ UNCHANGED balance
      BY DEF Administer, SetFeeManager, SetActive, ChangeTimeLock, boxes, funds
    <2> QED
      BY <2>1, SameKept, SamePaid
  <1>2. Total(liquid'[m]) \in Nat /\ Total(liquid'[m]) <= Total(liquid[m])
    <2>1. CASE \E a \in Accounts : SetFeeManager(n, a)
      BY <1>0, <2>1, HandOverSum DEF SetFeeManager
    <2>2. CASE (\E v \in BOOLEAN : SetActive(n, v)) \/ \E lock \in TimeLocks : ChangeTimeLock(n, lock)
      <3>1. liquid' = liquid
        BY <2>2 DEF SetActive, ChangeTimeLock, funds
      <3> QED
        BY <1>t, <3>1
    <2> QED
      BY <2>1, <2>2 DEF Administer
  <1> QED
    BY <1>0, <1>t, <1>1, <1>2 DEF Covers

LEMMA NextKeepsBooks == TypeOK /\ BooksCover /\ [Next]_vars => BooksCover'
  <1> SUFFICES ASSUME TypeOK, BooksCover, [Next]_vars PROVE BooksCover'
    OBVIOUS
  <1>0. TypeOK'
    BY TypeStep
  <1>1. ASSUME NEW n \in Networks, NEW b \in Boxes, Trade(n, b)
        PROVE  BooksCover'
    BY <1>0, <1>1, DepositsKeepBooks, WithdrawalsKeepBooks DEF Trade
  <1>2. CASE Tick \/ UNCHANGED vars
    BY <1>2 DEF Tick, vars, funds, boxes, BooksCover, AllKept, AllPaid
  <1> QED
    BY <1>0, <1>1, <1>2, InvestKeepsBooks, AdministerKeepsBooks DEF Next
LEMMA BooksInit == Init => BooksCover
  <1> SUFFICES ASSUME Init, NEW m \in Networks
               PROVE  Covers(m)
    BY DEF BooksCover, Covers
  <1>1. balance[m] = 0 /\ liquid[m] = [a \in Accounts |-> 0]
    BY DEF Init
  <1>2. Total(liquid[m]) = 0
    <2>1. [a \in Accounts |-> 0] \in [Accounts -> Nat]
      OBVIOUS
    <2> QED
      BY <1>1, <2>1, TotalZero
  <1> DEFINE kept == [b \in Boxes |-> Kept(m, deposit[m][b])]
             paid == [b \in Boxes |-> Paid(m, withdraw[m][b])]
  <1>3. \A b \in Boxes : Kept(m, deposit[m][b]) = 0 /\ Paid(m, withdraw[m][b]) = 0
    BY DEF Init, NoBox, Kept, Paid
  <1>4. kept \in [Boxes -> Nat] /\ paid \in [Boxes -> Nat] /\ \A b \in Boxes : kept[b] = 0 /\ paid[b] = 0
    BY <1>3
  <1>5. AllKept(m) = Total(kept) /\ AllPaid(m) = Total(paid)
    BY DEF AllKept, AllPaid
  <1> HIDE DEF kept, paid
  <1>6. Total(kept) = 0 /\ Total(paid) = 0
    BY <1>4, TotalZero
  <1> QED
    BY <1>1, <1>2, <1>5, <1>6 DEF Covers

(* Each contract's balance, with what it has paid out, covers what its     *)
(* providers and fee manager may take and the deposits it has kept, for    *)
(* any boxes, accounts, amounts and fees, wherever fees are collected.     *)
THEOREM CoveredBooks == Spec => []BooksCover
  BY BooksInit, NextKeepsBooks, TypeCorrect, PTL DEF Spec

(***************************************************************************)
(* The two contracts together.                                             *)
(***************************************************************************)
LEMMA MatchInit == Init => BoxesMatch
  BY DEF Init, NoBox, BoxesMatch

LEMMA DepositKeepsMatch ==
    ASSUME TypeOK, BoxesMatch, NEW n \in Networks, NEW b \in Boxes, NEW box,
           deposit' = Replace(deposit, n, b, box), UNCHANGED withdraw,
           deposit[n][b].state # "INVALID" =>
               box.state # "INVALID" /\ box.terms = deposit[n][b].terms
    PROVE  BoxesMatch'
  <1> SUFFICES ASSUME NEW i \in Networks, NEW m \in Networks, NEW c \in Boxes,
                      i # m, withdraw'[i][c].state # "INVALID"
               PROVE  /\ deposit'[m][c].state # "INVALID"
                      /\ withdraw'[i][c].terms = Converted(i, deposit'[m][c].terms)
    BY DEF BoxesMatch
  <1>1. /\ deposit[m][c].state # "INVALID"
        /\ withdraw'[i][c].terms = Converted(i, deposit[m][c].terms)
    BY DEF BoxesMatch
  <1>2. deposit'[m][c] = IF m = n /\ c = b THEN box ELSE deposit[m][c]
    BY DEF TypeOK, BoxesOK, Replace
  <1> QED
    BY <1>1, <1>2

LEMMA WithdrawKeepsMatch ==
    ASSUME TypeOK, BoxesMatch, NEW n \in Networks, NEW b \in Boxes, NEW box,
           withdraw' = Replace(withdraw, n, b, box), UNCHANGED deposit,
           \A m \in Networks \ {n} :
               deposit[m][b].state # "INVALID" /\ box.terms = Converted(n, deposit[m][b].terms)
    PROVE  BoxesMatch'
  <1> SUFFICES ASSUME NEW i \in Networks, NEW m \in Networks, NEW c \in Boxes,
                      i # m, withdraw'[i][c].state # "INVALID"
               PROVE  /\ deposit'[m][c].state # "INVALID"
                      /\ withdraw'[i][c].terms = Converted(i, deposit'[m][c].terms)
    BY DEF BoxesMatch
  <1>1. withdraw[i][c].state # "INVALID" =>
            /\ deposit[m][c].state # "INVALID"
            /\ withdraw[i][c].terms = Converted(i, deposit[m][c].terms)
    BY DEF BoxesMatch
  <1>2. withdraw'[i][c] = IF i = n /\ c = b THEN box ELSE withdraw[i][c]
    BY DEF TypeOK, BoxesOK, Replace
  <1> QED
    BY <1>1, <1>2

LEMMA TradeKeepsMatch ==
    ASSUME TypeOK, BoxesMatch, NEW n \in Networks, NEW b \in Boxes, Trade(n, b)
    PROVE  BoxesMatch'
  <1>d. deposit[n][b] \in Box /\ withdraw[n][b] \in Box
    BY DEF TypeOK, BoxesOK
  <1>w. withdraw[n][b].state # "INVALID" =>
          \A m \in Networks \ {n} :
            /\ deposit[m][b].state # "INVALID"
            /\ withdraw[n][b].terms = Converted(n, deposit[m][b].terms)
    BY DEF BoxesMatch
  <1>1. ASSUME NEW t \in Terms, OpenDeposit(n, b, t) PROVE BoxesMatch'
    <2>1. PICK box : box = Opened(t, 2 * timeLock[n])
      OBVIOUS
    <2>2. /\ deposit' = Replace(deposit, n, b, box) /\ UNCHANGED withdraw
          /\ deposit[n][b].state = "INVALID"
      BY <1>1, <2>1 DEF OpenDeposit, Replace
    <2> QED
      BY <2>2, DepositKeepsMatch
  <1>2. ASSUME NEW t \in Promised(n, b), OpenWithdraw(n, b, t) PROVE BoxesMatch'
    <2>1. PICK box : box = Opened(t, timeLock[n])
      OBVIOUS
    <2>2. withdraw' = Replace(withdraw, n, b, box) /\ UNCHANGED deposit /\ box.terms = t
      BY <1>2, <2>1 DEF OpenWithdraw, Replace, Opened
    <2>3. PICK m \in Networks \ {n} : deposit[m][b].state # "INVALID" /\ t = Converted(n, deposit[m][b].terms)
      BY DEF Promised
    <2>4. \A i \in Networks \ {n} : i = m
      BY TwoNetworks
    <2> QED
      BY <2>2, <2>3, <2>4, WithdrawKeepsMatch
  <1>3. ASSUME NEW k \in Keys, CloseDeposit(n, b, k) PROVE BoxesMatch'
    <2>1. PICK box : box = Closed(deposit[n][b], k)
      OBVIOUS
    <2>2. deposit' = Replace(deposit, n, b, box) /\ UNCHANGED withdraw
      BY <1>3, <2>1 DEF CloseDeposit, Replace
    <2>3. box.state # "INVALID" /\ box.terms = deposit[n][b].terms
      BY <1>d, <2>1 DEF Closed, Box
    <2> QED
      BY <2>2, <2>3, DepositKeepsMatch
  <1>4. ASSUME NEW k \in Keys, CloseWithdraw(n, b, k) PROVE BoxesMatch'
    <2>1. PICK box : box = Closed(withdraw[n][b], k)
      OBVIOUS
    <2>2. /\ withdraw' = Replace(withdraw, n, b, box) /\ UNCHANGED deposit
          /\ withdraw[n][b].state # "INVALID"
      BY <1>4, <2>1 DEF CloseWithdraw, Replace
    <2>3. box.terms = withdraw[n][b].terms
      BY <1>d, <2>1 DEF Closed, Box
    <2> QED
      BY <1>w, <2>2, <2>3, WithdrawKeepsMatch
  <1>5. CASE ExpireDeposit(n, b)
    <2>1. PICK box : box = Expired(deposit[n][b])
      OBVIOUS
    <2>2. deposit' = Replace(deposit, n, b, box) /\ UNCHANGED withdraw
      BY <1>5, <2>1 DEF ExpireDeposit, Replace
    <2>3. box.state # "INVALID" /\ box.terms = deposit[n][b].terms
      BY <1>d, <2>1 DEF Expired, Box
    <2> QED
      BY <2>2, <2>3, DepositKeepsMatch
  <1>6. CASE ExpireWithdraw(n, b)
    <2>1. PICK box : box = Expired(withdraw[n][b])
      OBVIOUS
    <2>2. /\ withdraw' = Replace(withdraw, n, b, box) /\ UNCHANGED deposit
          /\ withdraw[n][b].state # "INVALID"
      BY <1>6, <2>1 DEF ExpireWithdraw, Replace
    <2>3. box.terms = withdraw[n][b].terms
      BY <1>d, <2>1 DEF Expired, Box
    <2> QED
      BY <1>w, <2>2, <2>3, WithdrawKeepsMatch
  <1> QED
    BY <1>1, <1>2, <1>3, <1>4, <1>5, <1>6 DEF Trade

LEMMA NextKeepsMatch == TypeOK /\ BoxesMatch /\ [Next]_vars => BoxesMatch'
  <1> SUFFICES ASSUME TypeOK, BoxesMatch, [Next]_vars PROVE BoxesMatch'
    OBVIOUS
  <1>1. ASSUME UNCHANGED boxes PROVE BoxesMatch'
    BY <1>1 DEF boxes, BoxesMatch
  <1>2. ASSUME NEW n \in Networks, NEW a \in Accounts, Invest(n, a) PROVE BoxesMatch'
    BY <1>1, <1>2 DEF Invest, IncreaseLiquidity, DecreaseLiquidity
  <1>3. ASSUME NEW n \in Networks, Administer(n) PROVE BoxesMatch'
    BY <1>1, <1>3 DEF Administer, SetFeeManager, SetActive, ChangeTimeLock
  <1>4. CASE Tick \/ UNCHANGED vars
    BY <1>1, <1>4 DEF Tick, vars
  <1> QED
    BY <1>2, <1>3, <1>4, TradeKeepsMatch DEF Next

(* Conversion to at least as many decimals does not make a fee smaller. *)
LEMMA ConvertedFee ==
    ASSUME NEW fee \in Nat, NEW mul \in Nat, NEW d \in Nat \ {0}, mul >= d
    PROVE  (fee * mul) \div d \in Nat /\ fee <= (fee * mul) \div d
  <1> DEFINE x == fee * mul
             q == x \div d
  <1>1. x \in Nat /\ fee * d \in Nat /\ fee * d <= x
    OBVIOUS
  <1>2. q \in Nat /\ x < (q + 1) * d
    OBVIOUS
  <1>3. ASSUME q < fee PROVE FALSE
    <2>1. (q + 1) * d <= fee * d
      BY <1>2, <1>3
    <2>2. (q + 1) * d \in Nat
      BY <1>2
    <2> HIDE DEF x, q
    <2> QED
      BY <1>1, <1>2, <2>1, <2>2
  <1> QED
    BY <1>2, <1>3

(* What one contract pays for a closed withdraw box is what the other has  *)
(* kept of the deposit box it answers, or less.                            *)
Returned(m, box) == IF box.state = "CLOSED" THEN Kept(m, box) ELSE 0
Reserved(box) == IF box.state = "OPEN" THEN box.terms.amount ELSE 0

LEMMA PaidIsKept ==
    ASSUME FeesCarried, TypeOK, BoxesMatch, NEW n \in Networks, NEW m \in Networks, n # m,
           NEW b \in Boxes, withdraw[n][b].state = "CLOSED" => deposit[m][b].state = "CLOSED"
    PROVE  Paid(n, withdraw[n][b]) <= Returned(m, deposit[m][b])
  <1>0. /\ deposit[m][b] \in Box /\ Payable(deposit[m][b])
        /\ withdraw[n][b] \in Box /\ Payable(withdraw[n][b])
    BY DEF TypeOK, BoxesOK
  <1>1. CASE withdraw[n][b].state # "CLOSED"
    <2>1. Paid(n, withdraw[n][b]) = 0
      BY <1>1 DEF Paid
    <2>2. Returned(m, deposit[m][b]) \in Nat
      BY <1>0, BoxSums DEF Returned
    <2> QED
      BY <2>1, <2>2
  <1>2. CASE withdraw[n][b].state = "CLOSED"
    <2>1. PICK amount, fee, other : /\ amount = deposit[m][b].terms.amount /\ fee = deposit[m][b].terms.fee
                                    /\ other = (fee * FeeMul[n]) \div FeeDiv[n]
      OBVIOUS
    <2>2. deposit[m][b].state = "CLOSED"
      BY <1>2
    <2>3. amount \in Nat /\ fee \in Nat /\ fee < amount
      BY <1>0, <2>1, <2>2 DEF Payable, AllTerms
    <2>4. withdraw[n][b].terms.amount = amount /\ withdraw[n][b].terms.fee = other
      <3>1. withdraw[n][b].terms = Converted(n, deposit[m][b].terms)
        BY <1>2 DEF BoxesMatch
      <3>2. /\ Converted(n, deposit[m][b].terms).amount = deposit[m][b].terms.amount
            /\ Converted(n, deposit[m][b].terms).fee
                  = (deposit[m][b].terms.fee * FeeMul[n]) \div FeeDiv[n]
        BY DEF Converted
      <3> QED
        BY <2>1, <3>1, <3>2
    <2>5. other \in Nat /\ other < amount
      BY <1>0, <1>2, <2>4 DEF Payable, AllTerms
    <2>6. Paid(n, withdraw[n][b]) = amount - other + Collected(n, other)
      BY <1>2, <2>4 DEF Paid, Payout
    <2>7. Returned(m, deposit[m][b]) = amount - Collected(m, fee)
      BY <2>1, <2>2 DEF Returned, Kept
    <2>8. CASE CollectFee[n]
      <3>1. ~CollectFee[m]
        BY <2>8 DEF FeesCarried
      <3> QED
        BY <2>3, <2>5, <2>6, <2>7, <2>8, <3>1 DEF Collected
    <2>9. CASE ~CollectFee[n] /\ ~CollectFee[m]
      BY <2>3, <2>5, <2>6, <2>7, <2>9 DEF Collected
    <2>10. CASE ~CollectFee[n] /\ CollectFee[m]
      <3>1. FeeMul[n] >= FeeDiv[n] /\ FeeMul[n] \in Nat /\ FeeDiv[n] \in Nat \ {0}
        BY <2>10, Decimals DEF FeesCarried
      <3>2. fee <= other
        BY <2>1, <2>3, <3>1, ConvertedFee
      <3> QED
        BY <2>3, <2>5, <2>6, <2>7, <2>10, <3>2 DEF Collected
    <2> QED
      BY <2>8, <2>9, <2>10
  <1> QED
    BY <1>1, <1>2

LEMMA KeptParts ==
    ASSUME BoxesOK, NEW n \in Networks
    PROVE  /\ [b \in Boxes |-> Reserved(deposit[n][b])] \in [Boxes -> Nat]
           /\ [b \in Boxes |-> Returned(n, deposit[n][b])] \in [Boxes -> Nat]
           /\ Total([b \in Boxes |-> Reserved(deposit[n][b])]) \in Nat
           /\ Total([b \in Boxes |-> Returned(n, deposit[n][b])]) \in Nat
           /\ AllKept(n) = Total([b \in Boxes |-> Reserved(deposit[n][b])])
                             + Total([b \in Boxes |-> Returned(n, deposit[n][b])])
  <1> DEFINE all == [b \in Boxes |-> Kept(n, deposit[n][b])]
             open == [b \in Boxes |-> Reserved(deposit[n][b])]
             closed == [b \in Boxes |-> Returned(n, deposit[n][b])]
  <1>1. ASSUME NEW b \in Boxes
        PROVE  /\ Kept(n, deposit[n][b]) \in Nat /\ Reserved(deposit[n][b]) \in Nat
               /\ Returned(n, deposit[n][b]) \in Nat
               /\ Kept(n, deposit[n][b]) = Reserved(deposit[n][b]) + Returned(n, deposit[n][b])
    <2>1. deposit[n][b] \in Box /\ Payable(deposit[n][b])
      BY DEF BoxesOK
    <2>2. Kept(n, deposit[n][b]) \in Nat
      BY <2>1, BoxSums
    <2>3. CASE deposit[n][b].state = "OPEN"
      BY <2>2, <2>3 DEF Kept, Reserved, Returned
    <2>4. CASE deposit[n][b].state = "CLOSED"
      BY <2>2, <2>4 DEF Reserved, Returned
    <2>5. CASE deposit[n][b].state \notin {"OPEN", "CLOSED"}
      BY <2>2, <2>5 DEF Kept, Reserved, Returned
    <2> QED
      BY <2>3, <2>4, <2>5
  <1>2. all \in [Boxes -> Nat] /\ open \in [Boxes -> Nat] /\ closed \in [Boxes -> Nat]
    BY <1>1
  <1>3. \A b \in Boxes : all[b] = open[b] + closed[b]
    BY <1>1
  <1>4. AllKept(n) = Total(all)
    BY DEF AllKept
  <1> HIDE DEF all, open, closed
  <1>5. Total(open) \in Nat /\ Total(closed) \in Nat
    BY <1>2, TotalType, FiniteIds
  <1>6. Total(all) = Total(open) + Total(closed)
    BY <1>2, <1>3, TotalAdd, FiniteIds
  <1> QED
    BY <1>2, <1>4, <1>5, <1>6 DEF open, closed

LEMMA PaidBound ==
    ASSUME FeesCarried, TypeOK, BoxesMatch, NEW n \in Networks, NEW m \in Networks, n # m,
           \A b \in Boxes : withdraw[n][b].state = "CLOSED" => deposit[m][b].state = "CLOSED"
    PROVE  AllPaid(n) <= Total([b \in Boxes |-> Returned(m, deposit[m][b])])
  <1> DEFINE paid == [b \in Boxes |-> Paid(n, withdraw[n][b])]
             kept == [b \in Boxes |-> Returned(m, deposit[m][b])]
  <1>1. AllPayable(withdraw[n])
    BY BoxesArePayable DEF TypeOK
  <1>2. paid \in [Boxes -> Nat]
    BY <1>1, BookTypes
  <1>3. kept \in [Boxes -> Nat]
    BY KeptParts DEF TypeOK
  <1>4. \A b \in Boxes : paid[b] <= kept[b]
    BY PaidIsKept
  <1>5. AllPaid(n) = Total(paid)
    BY DEF AllPaid
  <1> HIDE DEF paid, kept
  <1>6. Total(paid) <= Total(kept)
    BY <1>2, <1>3, <1>4, TotalMonotone, FiniteIds
  <1> QED
    BY <1>5, <1>6 DEF kept

LEMMA Covered == FeesCarried /\ TypeOK /\ BooksCover /\ BoxesMatch => ProvidersCovered
  <1> SUFFICES ASSUME FeesCarried, TypeOK, BooksCover, BoxesMatch,
                      \A n \in Networks, b \in Boxes : withdraw[n][b].state = "CLOSED" => Repaid(n, b)
               PROVE  Total(balance) >=
                        Total([n \in Networks |-> Total(liquid[n])])
                          + Total([n \in Networks |-> Total([b \in Boxes |->
                               IF deposit[n][b].state = "OPEN" THEN deposit[n][b].terms.amount ELSE 0])])
    BY DEF ProvidersCovered
  <1> DEFINE open(n) == Total([b \in Boxes |-> Reserved(deposit[n][b])])
             back(n) == Total([b \in Boxes |-> Returned(n, deposit[n][b])])
             brought == [n \in Networks |-> Total(liquid[n])]
             locked == [n \in Networks |-> open(n)]
  <1>0. FundsOK /\ BoxesOK
    BY DEF TypeOK
  <1>1. PICK n \in Networks, m \in Networks : n # m /\ Networks = {n, m}
    BY TwoNetworks
  <1>2. ASSUME NEW i \in Networks
        PROVE  /\ balance[i] \in Nat /\ brought[i] \in Nat /\ locked[i] \in Nat
               /\ AllPaid(i) \in Nat /\ back(i) \in Nat
               /\ balance[i] + AllPaid(i) >= brought[i] + locked[i] + back(i)
    <2>1. balance[i] \in Nat /\ Total(liquid[i]) \in Nat /\ AllPaid(i) \in Nat
      BY <1>0, SumsType
    <2>2. open(i) \in Nat /\ back(i) \in Nat /\ AllKept(i) = open(i) + back(i)
      BY <1>0, KeptParts
    <2>3. balance[i] + AllPaid(i) >= Total(liquid[i]) + AllKept(i)
      BY DEF BooksCover
    <2>4. brought[i] = Total(liquid[i]) /\ locked[i] = open(i)
      OBVIOUS
    <2> HIDE DEF open, back, brought, locked
    <2> QED
      BY <2>1, <2>2, <2>3, <2>4
  <1>3. /\ \A b \in Boxes : withdraw[n][b].state = "CLOSED" => deposit[m][b].state = "CLOSED"
        /\ \A b \in Boxes : withdraw[m][b].state = "CLOSED" => deposit[n][b].state = "CLOSED"
    BY <1>1 DEF Repaid
  <1>4. AllPaid(n) <= back(m) /\ AllPaid(m) <= back(n)
    BY <1>1, <1>3, PaidBound
  <1>5. balance \in [{n, m} -> Nat] /\ brought \in [{n, m} -> Nat] /\ locked \in [{n, m} -> Nat]
    BY <1>0, <1>1, <1>2 DEF FundsOK
  <1>6. Total(locked) = Total([i \in Networks |-> Total([b \in Boxes |->
             IF deposit[i][b].state = "OPEN" THEN deposit[i][b].terms.amount ELSE 0])])
    BY DEF Reserved
  <1> HIDE DEF open, back, brought, locked
  <1>7. /\ Total(balance) = balance[n] + balance[m]
        /\ Total(brought) = brought[n] + brought[m]
        /\ Total(locked) = locked[n] + locked[m]
    BY <1>1, <1>5, TotalTwo
  <1>8. Total(balance) >= Total(brought) + Total(locked)
    BY <1>1, <1>2, <1>4, <1>7
  <1> QED
    BY <1>6, <1>8 DEF brought

(* With fees collected on one network and converted without loss to the    *)
(* other, the two contracts together hold the coins of all providers,      *)
(* collected fees included, and of all open deposits, once every payout is *)
(* repaid: for any number of swaps in both directions, any amounts, fees   *)
(* and providers.                                                          *)
THEOREM CoveredProviders == FeesCarried => (Spec => []ProvidersCovered)
  <1>1. Spec => []BoxesMatch
    BY MatchInit, NextKeepsMatch, TypeCorrect, PTL DEF Spec
  <1> SUFFICES ASSUME FeesCarried PROVE Spec => []ProvidersCovered
    OBVIOUS
  <1>2. TypeOK /\ BooksCover /\ BoxesMatch => ProvidersCovered
    BY Covered
  <1> QED
    BY <1>1, <1>2, TypeCorrect, CoveredBooks, PTL

(* A withdraw box is closed with a key of its lock, and shows it for good. *)
LEMMA ShownKeysStay ==
    ASSUME TypeOK, ShownKeysFit, [Next]_vars
    PROVE  ShownKeysFit'
  <1> SUFFICES ASSUME NEW n \in Networks, NEW b \in Boxes, withdraw'[n][b].state = "CLOSED"
               PROVE  withdraw'[n][b].key \in Keys /\ Sha256[withdraw'[n][b].key] = withdraw'[n][b].terms.lock
    BY DEF ShownKeysFit
  <1> DEFINE before == withdraw[n][b]
             after == withdraw'[n][b]
  <1>1. BoxMoves(before, after) /\ KeyFits(before, after)
    BY BoxStep DEF GoodMoves, BoxesMove, KeysFit
  <1>2. before \in Box
    BY DEF TypeOK, BoxesOK
  <1>3. after = before \/ (before.state = "OPEN" /\ after.terms = before.terms)
    BY <1>1, <1>2 DEF BoxMoves, Box, Closed, Expired
  <1> QED
    BY <1>1, <1>3 DEF ShownKeysFit, KeyFits

(* As long as a deposit is open, the key its paid withdraw box shows       *)
(* closes it: the two boxes have one lock (BoxesMatch), and the key fits   *)
(* it (ShownKeysFit); nothing else is asked for.                           *)
THEOREM Collectable == Spec => []PayoutCanBeCollected
  <1>1. Spec => []BoxesMatch
    BY MatchInit, NextKeepsMatch, TypeCorrect, PTL DEF Spec
  <1>2. Init => ShownKeysFit
    BY DEF Init, NoBox, ShownKeysFit
  <1>3. Spec => []ShownKeysFit
    BY <1>2, ShownKeysStay, TypeCorrect, PTL DEF Spec
  <1>4. BoxesMatch /\ ShownKeysFit => PayoutCanBeCollected
    <2>1. ASSUME NEW n \in Networks, NEW t PROVE Converted(n, t).lock = t.lock
      BY DEF Converted
    <2> QED
      BY <2>1 DEF BoxesMatch, ShownKeysFit, PayoutCanBeCollected, CanCloseDeposit
  <1> QED
    BY <1>1, <1>3, <1>4, PTL
=============================================================================
