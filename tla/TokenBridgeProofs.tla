-------------------------- MODULE TokenBridgeProofs --------------------------
(***************************************************************************)
(* Proofs about the contracts of the token bridge and the scripts, for any *)
(* tokens, pairs, boxes, accounts and amounts.                             *)
(***************************************************************************)
EXTENDS TokenBridgeProperties, TotalsProofs, TLAPS

LEMMA OtherNetwork == \A n \in Networks : Other(n) \in Networks
  BY TwoNetworks DEF Other

LEMMA Pairs ==
    /\ DOMAIN TokenPairs = 1 .. Len(TokenPairs) /\ Len(TokenPairs) \in Nat \ {0}
    /\ \A i \in DOMAIN TokenPairs, n \in Networks : TokenPairs[i][n] \in Tokens
  BY Configuration

(* A box opened on a token and terms, and what becomes of it. *)
LEMMA OpenedBox ==
    ASSUME NEW token \in Tokens, NEW t \in AllTerms, NEW lock \in Nat, now \in Nat
    PROVE  Opened(token, t, lock) \in Box /\ Held(Opened(token, t, lock))
  BY DEF Opened, Box, Held

LEMMA ClosedBox ==
    ASSUME NEW box \in Box, box.state # "INVALID", Held(box), NEW k \in Keys
    PROVE  Closed(box, k) \in Box /\ Held(Closed(box, k))
  BY DEF Box, Held, Closed

LEMMA ExpiredBox ==
    ASSUME NEW box \in Box, box.state # "INVALID", Held(box)
    PROVE  Expired(box) \in Box /\ Held(Expired(box))
  BY DEF Box, Held, Expired

(* What can be spent of a box that was opened. *)
LEMMA HeldTerms ==
    ASSUME NEW box \in Box, box.state # "INVALID", Held(box)
    PROVE  box.token \in Tokens /\ box.terms \in AllTerms /\ box.terms.amount \in Nat
  BY DEF Held, AllTerms

(* A function of two arguments with one value replaced. *)
LEMMA Replaced ==
    ASSUME NEW S, NEW f \in [Networks -> [Boxes -> S]],
           NEW n \in Networks, NEW b \in Boxes, NEW x \in S
    PROVE  /\ [f EXCEPT ![n][b] = x] \in [Networks -> [Boxes -> S]]
           /\ \A m \in Networks, c \in Boxes :
                [f EXCEPT ![n][b] = x][m][c] = IF m = n /\ c = b THEN x ELSE f[m][c]
  OBVIOUS

LEMMA DepositReplaced ==
    ASSUME DepositOK, NEW n \in Networks, NEW b \in Boxes, NEW box \in Box, Held(box),
           deposit' = [deposit EXCEPT ![n][b] = box]
    PROVE  DepositOK'
  <1>1. deposit \in [Networks -> [Boxes -> Box]]
    BY DEF DepositOK
  <1>2. /\ deposit' \in [Networks -> [Boxes -> Box]]
        /\ \A m \in Networks, c \in Boxes :
              deposit'[m][c] = IF m = n /\ c = b THEN box ELSE deposit[m][c]
    BY <1>1, Replaced
  <1> QED
    BY <1>2 DEF DepositOK, Held

LEMMA WithdrawReplaced ==
    ASSUME WithdrawOK, NEW n \in Networks, NEW b \in Boxes, NEW box \in Box, Held(box),
           withdraw' = [withdraw EXCEPT ![n][b] = box]
    PROVE  WithdrawOK'
  <1>1. withdraw \in [Networks -> [Boxes -> Box]]
    BY DEF WithdrawOK
  <1>2. /\ withdraw' \in [Networks -> [Boxes -> Box]]
        /\ \A m \in Networks, c \in Boxes :
              withdraw'[m][c] = IF m = n /\ c = b THEN box ELSE withdraw[m][c]
    BY <1>1, Replaced
  <1> QED
    BY <1>2 DEF WithdrawOK, Held

(* Parts that a call leaves alone stay as they are. *)
LEMMA Untouched ==
    /\ RolesOK /\ UNCHANGED roles => RolesOK'
    /\ SettingsOK /\ UNCHANGED settings => SettingsOK'
    /\ BalanceOK /\ UNCHANGED balance => BalanceOK'
    /\ LiquidOK /\ UNCHANGED liquid => LiquidOK'
    /\ DepositOK /\ UNCHANGED deposit => DepositOK'
    /\ WithdrawOK /\ UNCHANGED withdraw => WithdrawOK'
    /\ ScriptOK /\ UNCHANGED script => ScriptOK'
  BY DEF RolesOK, SettingsOK, BalanceOK, LiquidOK, DepositOK, WithdrawOK, ScriptOK, roles, settings

LEMMA ReceiveOK ==
    ASSUME BalanceOK, NEW n \in Networks, NEW token \in Tokens, NEW amount \in Nat,
           Receive(n, token, amount)
    PROVE  BalanceOK'
  BY DEF BalanceOK, Receive

LEMMA TransferOK ==
    ASSUME BalanceOK, NEW n \in Networks, NEW token \in Tokens, NEW amount \in Nat,
           Transfer(n, token, amount)
    PROVE  BalanceOK'
  BY DEF BalanceOK, Transfer

LEMMA TypeInit == Init => TypeOK
  <1>1. ASSUME Init PROVE RolesOK /\ SettingsOK /\ BalanceOK /\ LiquidOK
    BY <1>1, People DEF Init, RolesInit, RolesOK, SettingsOK, BalanceOK, LiquidOK
  <1>2. NoBox \in Box /\ Held(NoBox)
    BY DEF NoBox, Box, Held
  <1>3. ASSUME Init PROVE DepositOK /\ WithdrawOK
    BY <1>2, <1>3 DEF Init, DepositOK, WithdrawOK
  <1>4. NoScript \in [name : {"none", "register_token", "add_liquidity"}, next : DOMAIN TokenPairs]
    BY Pairs DEF NoScript
  <1>5. ASSUME Init PROVE ScriptOK /\ coins \in [Networks -> Nat] /\ now \in Nat
    BY <1>4, <1>5 DEF Init, ScriptOK
  <1> QED
    BY <1>1, <1>3, <1>5 DEF TypeOK

(* The two locks of a network. *)
LEMMA LocksOK ==
    ASSUME SettingsOK, NEW n \in Networks
    PROVE  timeLock[n] \in Nat /\ 2 * timeLock[n] \in Nat
  <1>1. timeLock[n] \in Nat
    BY Quantities DEF SettingsOK
  <1>2. \A x \in Nat : 2 * x \in Nat
    OBVIOUS
  <1> QED
    BY <1>1, <1>2

(***************************************************************************)
(* Each call keeps the types.                                              *)
(***************************************************************************)
LEMMA AskKeepsType ==
    ASSUME TypeOK, NEW b \in Boxes, Ask(b)
    PROVE  TypeOK'
  <1>0. RolesOK /\ SettingsOK /\ BalanceOK /\ LiquidOK /\ DepositOK /\ WithdrawOK /\ ScriptOK
        /\ coins \in [Networks -> Nat] /\ now \in Nat
    BY DEF TypeOK
  <1>1. PICK o \in Offers : OpenDeposit(o.net, b, o.token, o.terms)
    BY DEF Ask
  <1>2. /\ o.net \in Networks /\ o.token \in Tokens /\ o.terms \in AllTerms
        /\ o.terms.amount \in Nat /\ o.terms.fee \in Nat
    BY <1>1, Configuration DEF AllOffers, AllTerms
  <1>3. PICK box : box = Opened(o.token, o.terms, 2 * timeLock[o.net])
    OBVIOUS
  <1>4. box \in Box /\ Held(box)
    BY <1>0, <1>2, <1>3, LocksOK, OpenedBox
  <1>5. DepositOK'
    BY <1>0, <1>1, <1>2, <1>3, <1>4, DepositReplaced DEF OpenDeposit
  <1>6. BalanceOK'
    BY <1>0, <1>1, <1>2, ReceiveOK DEF OpenDeposit
  <1>7. coins' \in [Networks -> Nat]
    BY <1>0, <1>1, <1>2 DEF OpenDeposit
  <1>8. UNCHANGED roles /\ UNCHANGED settings /\ UNCHANGED liquid /\ UNCHANGED withdraw
        /\ UNCHANGED script /\ UNCHANGED now
    BY <1>1 DEF OpenDeposit
  <1> QED
    BY <1>0, <1>5, <1>6, <1>7, <1>8, Untouched DEF TypeOK

LEMMA AnswerKeepsType ==
    ASSUME TypeOK, NEW n \in Networks, NEW b \in Boxes,
           NEW token, NEW t \in AllTerms, OpenWithdraw(n, b, token, t)
    PROVE  TypeOK'
  <1>0. RolesOK /\ SettingsOK /\ BalanceOK /\ LiquidOK /\ DepositOK /\ WithdrawOK /\ ScriptOK
        /\ coins \in [Networks -> Nat] /\ now \in Nat
    BY DEF TypeOK
  <1>1. token \in Tokens
    BY <1>0 DEF OpenWithdraw, CanOpenWithdraw, SettingsOK
  <1>3. PICK box : box = Opened(token, t, timeLock[n])
    OBVIOUS
  <1>4. box \in Box /\ Held(box)
    BY <1>0, <1>1, <1>3, LocksOK, OpenedBox
  <1>5. WithdrawOK'
    BY <1>0, <1>3, <1>4, WithdrawReplaced DEF OpenWithdraw
  <1>8. UNCHANGED roles /\ UNCHANGED settings /\ UNCHANGED balance /\ UNCHANGED liquid
        /\ UNCHANGED deposit /\ UNCHANGED script /\ UNCHANGED coins /\ UNCHANGED now
    BY DEF OpenWithdraw, funds
  <1> QED
    BY <1>0, <1>5, <1>8, Untouched DEF TypeOK

LEMMA SettleKeepsType ==
    ASSUME TypeOK, NEW n \in Networks, NEW b \in Boxes, Settle(n, b)
    PROVE  TypeOK'
  <1>0. RolesOK /\ SettingsOK /\ BalanceOK /\ LiquidOK /\ DepositOK /\ WithdrawOK /\ ScriptOK
        /\ coins \in [Networks -> Nat] /\ now \in Nat
    BY DEF TypeOK
  <1>d. deposit[n][b] \in Box /\ Held(deposit[n][b])
    BY <1>0 DEF DepositOK
  <1>w. withdraw[n][b] \in Box /\ Held(withdraw[n][b])
    BY <1>0 DEF WithdrawOK
  <1>1. CASE \E k \in Keys : CloseDeposit(n, b, k)
    <2>1. PICK k \in Keys : CloseDeposit(n, b, k)
      BY <1>1
    <2>2. PICK box : box = Closed(deposit[n][b], k)
      OBVIOUS
    <2>3. box \in Box /\ Held(box)
      BY <1>d, <2>1, <2>2, ClosedBox DEF CloseDeposit, CanCloseDeposit
    <2>4. DepositOK'
      BY <1>0, <2>1, <2>2, <2>3, DepositReplaced DEF CloseDeposit
    <2>5. UNCHANGED roles /\ UNCHANGED settings /\ UNCHANGED balance /\ UNCHANGED liquid
          /\ UNCHANGED withdraw /\ UNCHANGED script /\ UNCHANGED coins /\ UNCHANGED now
      BY <2>1 DEF CloseDeposit, funds
    <2> QED
      BY <1>0, <2>4, <2>5, Untouched DEF TypeOK
  <1>2. CASE \E k \in Keys : CloseWithdraw(n, b, k)
    <2>1. PICK k \in Keys : CloseWithdraw(n, b, k)
      BY <1>2
    <2>o. withdraw[n][b].state # "INVALID"
      BY <2>1 DEF CloseWithdraw, CanCloseWithdraw
    <2>2. PICK box : box = Closed(withdraw[n][b], k)
      OBVIOUS
    <2>3. box \in Box /\ Held(box)
      BY <1>w, <2>o, <2>2, ClosedBox
    <2>4. WithdrawOK'
      BY <1>0, <2>1, <2>2, <2>3, WithdrawReplaced DEF CloseWithdraw
    <2>5. BalanceOK'
      BY <1>0, <1>w, <2>1, <2>o, HeldTerms, TransferOK DEF CloseWithdraw
    <2>6. UNCHANGED roles /\ UNCHANGED settings /\ UNCHANGED liquid
          /\ UNCHANGED deposit /\ UNCHANGED script /\ UNCHANGED coins /\ UNCHANGED now
      BY <2>1 DEF CloseWithdraw
    <2> QED
      BY <1>0, <2>4, <2>5, <2>6, Untouched DEF TypeOK
  <1>3. CASE ExpireDeposit(n, b)
    <2>o. deposit[n][b].state # "INVALID"
      BY <1>3 DEF ExpireDeposit
    <2>2. PICK box : box = Expired(deposit[n][b])
      OBVIOUS
    <2>3. box \in Box /\ Held(box)
      BY <1>d, <2>o, <2>2, ExpiredBox
    <2>4. DepositOK'
      BY <1>0, <1>3, <2>2, <2>3, DepositReplaced DEF ExpireDeposit
    <2>5. BalanceOK'
      BY <1>0, <1>d, <1>3, <2>o, HeldTerms, TransferOK DEF ExpireDeposit
    <2>6. UNCHANGED roles /\ UNCHANGED settings /\ UNCHANGED liquid
          /\ UNCHANGED withdraw /\ UNCHANGED script /\ UNCHANGED coins /\ UNCHANGED now
      BY <1>3 DEF ExpireDeposit
    <2> QED
      BY <1>0, <2>4, <2>5, <2>6, Untouched DEF TypeOK
  <1>4. CASE ExpireWithdraw(n, b)
    <2>o. withdraw[n][b].state # "INVALID"
      BY <1>4 DEF ExpireWithdraw, CanExpireWithdraw
    <2>2. PICK box : box = Expired(withdraw[n][b])
      OBVIOUS
    <2>3. box \in Box /\ Held(box)
      BY <1>w, <2>o, <2>2, ExpiredBox
    <2>4. WithdrawOK'
      BY <1>0, <1>4, <2>2, <2>3, WithdrawReplaced DEF ExpireWithdraw
    <2>5. UNCHANGED roles /\ UNCHANGED settings /\ UNCHANGED balance /\ UNCHANGED liquid
          /\ UNCHANGED deposit /\ UNCHANGED script /\ UNCHANGED coins /\ UNCHANGED now
      BY <1>4 DEF ExpireWithdraw, funds
    <2> QED
      BY <1>0, <2>4, <2>5, Untouched DEF TypeOK
  <1> QED
    BY <1>1, <1>2, <1>3, <1>4 DEF Settle

(* Liquidity comes from a provider, or from the script. *)
LEMMA IncreaseOK ==
    ASSUME BalanceOK, LiquidOK, NEW n \in Networks, NEW token \in Tokens, NEW a \in Accounts,
           NEW amount \in Nat, IncreaseLiquidity(n, token, a, amount)
    PROVE  BalanceOK' /\ LiquidOK' /\ UNCHANGED settings
  <1>1. BalanceOK' /\ UNCHANGED settings
    BY ReceiveOK DEF IncreaseLiquidity
  <1>2. LiquidOK'
    BY DEF LiquidOK, IncreaseLiquidity
  <1> QED
    BY <1>1, <1>2

LEMMA InvestKeepsType ==
    ASSUME TypeOK, NEW n \in Networks, Invest(n)
    PROVE  TypeOK'
  <1>0. RolesOK /\ SettingsOK /\ BalanceOK /\ LiquidOK /\ DepositOK /\ WithdrawOK /\ ScriptOK
        /\ coins \in [Networks -> Nat] /\ now \in Nat
    BY DEF TypeOK
  <1>1. PICK token \in Tokens, a \in Providers, amount \in Sums :
          \/ /\ CanIncrease(n, token, amount) /\ Room(n, token, a, amount)
             /\ IncreaseLiquidity(n, token, a, amount)
             /\ UNCHANGED <<roles, coins, boxes, script, now>>
          \/ DecreaseLiquidity(n, token, a, amount)
    BY DEF Invest
  <1>2. a \in Accounts /\ amount \in Nat
    BY <1>1, Quantities
  <1>3. CASE /\ IncreaseLiquidity(n, token, a, amount)
             /\ UNCHANGED <<roles, coins, boxes, script, now>>
    <2>1. BalanceOK' /\ LiquidOK' /\ UNCHANGED settings
      BY <1>0, <1>2, <1>3, IncreaseOK
    <2>2. UNCHANGED roles /\ UNCHANGED deposit /\ UNCHANGED withdraw
          /\ UNCHANGED script /\ UNCHANGED coins /\ UNCHANGED now
      BY <1>3 DEF boxes
    <2> QED
      BY <1>0, <2>1, <2>2, Untouched DEF TypeOK
  <1>4. CASE DecreaseLiquidity(n, token, a, amount)
    <2>1. BalanceOK'
      BY <1>0, <1>2, <1>4, TransferOK DEF DecreaseLiquidity
    <2>2. LiquidOK'
      BY <1>0, <1>2, <1>4 DEF DecreaseLiquidity, CanDecrease, LiquidOK
    <2>3. UNCHANGED roles /\ UNCHANGED settings /\ UNCHANGED deposit /\ UNCHANGED withdraw
          /\ UNCHANGED script /\ UNCHANGED coins /\ UNCHANGED now
      BY <1>4 DEF DecreaseLiquidity, boxes
    <2> QED
      BY <1>0, <2>1, <2>2, <2>3, Untouched DEF TypeOK
  <1> QED
    BY <1>1, <1>3, <1>4

LEMMA RolesKeepType ==
    ASSUME RolesOK, NEW n \in Networks, NEW a \in Accounts,
           AddManager(n, a) \/ RemoveManager(n, a) \/ TransferOwnership(n, a)
    PROVE  RolesOK'
  <1>1. CASE AddManager(n, a) \/ RemoveManager(n, a)
    BY <1>1 DEF RolesOK, AddManager, RemoveManager
  <1>2. CASE TransferOwnership(n, a)
    BY <1>2 DEF RolesOK, TransferOwnership, Handed
  <1> QED
    BY <1>1, <1>2

LEMMA AdministerKeepsType ==
    ASSUME TypeOK, NEW n \in Networks, Administer(n)
    PROVE  TypeOK'
  <1>0. RolesOK /\ SettingsOK /\ BalanceOK /\ LiquidOK /\ DepositOK /\ WithdrawOK /\ ScriptOK
        /\ coins \in [Networks -> Nat] /\ now \in Nat
    BY DEF TypeOK
  <1>1. CASE WithdrawTxFee(n)
    <2>1. coins' \in [Networks -> Nat]
      BY <1>0, <1>1 DEF WithdrawTxFee
    <2>2. UNCHANGED roles /\ UNCHANGED settings /\ UNCHANGED balance /\ UNCHANGED liquid
          /\ UNCHANGED deposit /\ UNCHANGED withdraw /\ UNCHANGED script /\ UNCHANGED now
      BY <1>1 DEF WithdrawTxFee, funds, boxes
    <2> QED
      BY <1>0, <2>1, <2>2, Untouched DEF TypeOK
  <1>2. CASE \E v \in BOOLEAN : SetActive(n, v)
    <2>0. PICK v \in BOOLEAN : SetActive(n, v)
      BY <1>2
    <2>1. active' \in [Networks -> BOOLEAN] /\ UNCHANGED <<registered, timeLock>>
      BY <1>0, <2>0 DEF SetActive, SettingsOK
    <2>2. UNCHANGED roles /\ UNCHANGED balance /\ UNCHANGED liquid /\ UNCHANGED coins
          /\ UNCHANGED deposit /\ UNCHANGED withdraw /\ UNCHANGED script /\ UNCHANGED now
      BY <2>0 DEF SetActive, funds, boxes
    <2>3. SettingsOK'
      BY <1>0, <2>1 DEF SettingsOK
    <2> QED
      BY <1>0, <2>2, <2>3, Untouched DEF TypeOK
  <1>3. CASE \E lock \in TimeLocks : ChangeTimeLock(n, lock)
    <2>0. PICK lock \in TimeLocks : ChangeTimeLock(n, lock)
      BY <1>3
    <2>1. SettingsOK'
      BY <1>0, <2>0 DEF ChangeTimeLock, SettingsOK
    <2>2. UNCHANGED roles /\ UNCHANGED balance /\ UNCHANGED liquid /\ UNCHANGED coins
          /\ UNCHANGED deposit /\ UNCHANGED withdraw /\ UNCHANGED script /\ UNCHANGED now
      BY <2>0 DEF ChangeTimeLock, funds, boxes
    <2> QED
      BY <1>0, <2>1, <2>2, Untouched DEF TypeOK
  <1>4. CASE ChangeRoles(n)
    <2>1. RolesOK'
      BY <1>0, <1>4, RolesKeepType, People DEF ChangeRoles
    <2>2. UNCHANGED settings /\ UNCHANGED balance /\ UNCHANGED liquid /\ UNCHANGED coins
          /\ UNCHANGED deposit /\ UNCHANGED withdraw /\ UNCHANGED script /\ UNCHANGED now
      BY <1>4 DEF ChangeRoles, funds, boxes
    <2> QED
      BY <1>0, <2>1, <2>2, Untouched DEF TypeOK
  <1> QED
    BY <1>1, <1>2, <1>3, <1>4 DEF Administer

(* A script names a token of the list, and stays on the list. *)
LEMMA ScriptSteps ==
    ASSUME ScriptOK, NEW n \in Networks
    PROVE  /\ ScriptToken(n) \in Tokens
           /\ Advance(n) => ScriptOK'
           /\ Halt(n) => ScriptOK'
  <1>1. script[n].next \in DOMAIN TokenPairs
    BY DEF ScriptOK
  <1>2. NoScript \in [name : {"none", "register_token", "add_liquidity"}, next : DOMAIN TokenPairs]
    BY Pairs DEF NoScript
  <1>3. script[n].next # Len(TokenPairs) => script[n].next + 1 \in DOMAIN TokenPairs
    BY <1>1, Pairs
  <1>4. ScriptToken(n) \in Tokens
    BY <1>1, Pairs DEF ScriptToken
  <1>5. Advance(n) => ScriptOK'
    BY <1>2, <1>3 DEF Advance, ScriptOK
  <1>6. Halt(n) => ScriptOK'
    BY <1>2 DEF Halt, ScriptOK
  <1> QED
    BY <1>4, <1>5, <1>6

LEMMA ScriptsKeepType ==
    ASSUME TypeOK, NEW n \in Networks, RunScript(n)
    PROVE  TypeOK'
  <1>0. RolesOK /\ SettingsOK /\ BalanceOK /\ LiquidOK /\ DepositOK /\ WithdrawOK /\ ScriptOK
        /\ coins \in [Networks -> Nat] /\ now \in Nat
    BY DEF TypeOK
  <1>1. CASE Begin(n)
    <2>1. ScriptOK'
      BY <1>0, <1>1 DEF Begin, ScriptOK
    <2>2. UNCHANGED roles /\ UNCHANGED settings /\ UNCHANGED balance /\ UNCHANGED liquid
          /\ UNCHANGED coins /\ UNCHANGED deposit /\ UNCHANGED withdraw /\ UNCHANGED now
      BY <1>1 DEF Begin, funds, boxes
    <2> QED
      BY <1>0, <2>1, <2>2, Untouched DEF TypeOK
  <1>2. CASE RegisterTokens(n)
    <2>1. ScriptOK'
      BY <1>0, <1>2, ScriptSteps DEF RegisterTokens
    <2>2. UNCHANGED <<settings, funds>> \/ RegisterToken(n, ScriptToken(n))
      BY <1>2 DEF RegisterTokens
    <2>3. SettingsOK' /\ UNCHANGED balance /\ UNCHANGED liquid
      <3>1. CASE UNCHANGED <<settings, funds>>
        BY <1>0, <3>1, Untouched DEF funds
      <3>2. CASE RegisterToken(n, ScriptToken(n))
        BY <1>0, <3>2, ScriptSteps DEF RegisterToken, SettingsOK, funds
      <3> QED
        BY <2>2, <3>1, <3>2
    <2>4. UNCHANGED roles /\ UNCHANGED coins /\ UNCHANGED deposit /\ UNCHANGED withdraw /\ UNCHANGED now
      BY <1>2 DEF RegisterTokens, boxes
    <2> QED
      BY <1>0, <2>1, <2>3, <2>4, Untouched DEF TypeOK
  <1>3. CASE AddLiquidity(n)
    <2>1. ScriptOK'
      BY <1>0, <1>3, ScriptSteps DEF AddLiquidity
    <2>2. UNCHANGED <<settings, funds>> \/ IncreaseLiquidity(n, ScriptToken(n), Admin, ScriptSum)
      BY <1>3 DEF AddLiquidity
    <2>3. SettingsOK' /\ BalanceOK' /\ LiquidOK'
      <3>1. CASE UNCHANGED <<settings, funds>>
        BY <1>0, <3>1, Untouched DEF funds
      <3>2. CASE IncreaseLiquidity(n, ScriptToken(n), Admin, ScriptSum)
        <4>1. ScriptToken(n) \in Tokens /\ Admin \in Accounts /\ ScriptSum \in Nat
          BY <1>0, ScriptSteps, People, Quantities
        <4> QED
          BY <1>0, <3>2, <4>1, IncreaseOK, Untouched
      <3> QED
        BY <2>2, <3>1, <3>2
    <2>4. UNCHANGED roles /\ UNCHANGED coins /\ UNCHANGED deposit /\ UNCHANGED withdraw /\ UNCHANGED now
      BY <1>3 DEF AddLiquidity, boxes
    <2> QED
      BY <1>0, <2>1, <2>3, <2>4, Untouched DEF TypeOK
  <1>4. CASE Interrupt(n)
    <2>1. ScriptOK'
      BY <1>0, <1>4, ScriptSteps DEF Interrupt
    <2>2. UNCHANGED roles /\ UNCHANGED settings /\ UNCHANGED balance /\ UNCHANGED liquid
          /\ UNCHANGED coins /\ UNCHANGED deposit /\ UNCHANGED withdraw /\ UNCHANGED now
      BY <1>4 DEF Interrupt, funds, boxes
    <2> QED
      BY <1>0, <2>1, <2>2, Untouched DEF TypeOK
  <1> QED
    BY <1>1, <1>2, <1>3, <1>4 DEF RunScript

LEMMA NextKeepsType == TypeOK /\ [Next]_vars => TypeOK'
  <1> SUFFICES ASSUME TypeOK, [Next]_vars PROVE TypeOK'
    OBVIOUS
  <1>0. RolesOK /\ SettingsOK /\ BalanceOK /\ LiquidOK /\ DepositOK /\ WithdrawOK /\ ScriptOK
        /\ coins \in [Networks -> Nat] /\ now \in Nat
    BY DEF TypeOK
  <1>1. CASE \E b \in Boxes : Ask(b)
    BY <1>1, AskKeepsType
  <1>2. ASSUME NEW n \in Networks, NEW b \in Boxes, Answer(n, b)
        PROVE  TypeOK'
    <2>1. deposit[Other(n)][b].terms \in AllTerms
      BY <1>0, <1>2, OtherNetwork DEF Answer, DepositOK, Held
    <2> QED
      BY <1>2, <2>1, AnswerKeepsType DEF Answer
  <1>3. CASE Tick
    <2>1. now' \in Nat
      BY <1>0, <1>3 DEF Tick
    <2>2. UNCHANGED roles /\ UNCHANGED settings /\ UNCHANGED balance /\ UNCHANGED liquid
          /\ UNCHANGED coins /\ UNCHANGED deposit /\ UNCHANGED withdraw /\ UNCHANGED script
      BY <1>3 DEF Tick, funds, boxes
    <2> QED
      BY <1>0, <2>1, <2>2, Untouched DEF TypeOK
  <1>4. CASE UNCHANGED vars
    <2>2. UNCHANGED roles /\ UNCHANGED settings /\ UNCHANGED balance /\ UNCHANGED liquid /\ UNCHANGED now
          /\ UNCHANGED coins /\ UNCHANGED deposit /\ UNCHANGED withdraw /\ UNCHANGED script
      BY <1>4 DEF vars, funds, boxes
    <2> QED
      BY <1>0, <2>2, Untouched DEF TypeOK
  <1> QED
    BY <1>1, <1>2, <1>3, <1>4, SettleKeepsType, InvestKeepsType, AdministerKeepsType, ScriptsKeepType
    DEF Next

(* Every variable keeps its type, whatever tokens, pairs and amounts the   *)
(* configuration names: no transfer takes more than there is, no provider  *)
(* more than is booked for him in that token.                              *)
THEOREM TypeCorrect == Spec => []TypeOK
  BY TypeInit, NextKeepsType, PTL DEF Spec

(***************************************************************************)
(* Roles change in ChangeRoles only, and there together with the owner.    *)
(***************************************************************************)
LEMMA RolesStay ==
    ASSUME [Next]_vars, ~ \E n \in Networks : ChangeRoles(n)
    PROVE  UNCHANGED roles
  <1>1. CASE \E b \in Boxes : Ask(b)
    BY <1>1 DEF Ask, OpenDeposit
  <1>2. ASSUME NEW n \in Networks, NEW b \in Boxes, Answer(n, b) \/ Settle(n, b)
        PROVE  UNCHANGED roles
    BY <1>2 DEF Answer, OpenWithdraw, Settle, CloseDeposit, CloseWithdraw, ExpireDeposit, ExpireWithdraw
  <1>3. ASSUME NEW n \in Networks, Invest(n) \/ RunScript(n)
        PROVE  UNCHANGED roles
    BY <1>3 DEF Invest, DecreaseLiquidity, RunScript, Begin, RegisterTokens, AddLiquidity, Interrupt
  <1>4. ASSUME NEW n \in Networks, Administer(n)
        PROVE  UNCHANGED roles
    BY <1>4 DEF Administer, WithdrawTxFee, SetActive, ChangeTimeLock
  <1>5. CASE Tick \/ UNCHANGED vars
    BY <1>5 DEF Tick, vars
  <1> QED
    BY <1>1, <1>2, <1>3, <1>4, <1>5 DEF Next

LEMMA ChangedRoles ==
    ASSUME RolesOK, OwnerIsAdmin, NEW n \in Networks, ChangeRoles(n)
    PROVE  OwnerIsAdmin'
  <1>1. CASE AddManager(n, Manager) \/ RemoveManager(n, Manager)
    BY <1>1 DEF AddManager, RemoveManager, OwnerIsAdmin
  <1>2. CASE \E a \in Heirs : TransferOwnership(n, a)
    <2>1. PICK a \in Heirs : TransferOwnership(n, a)
      BY <1>2
    <2>2. Handed(n, a) = {a}
      BY DEF Handed, OwnerIsAdmin
    <2> QED
      BY <2>1, <2>2 DEF TransferOwnership, RolesOK, OwnerIsAdmin
  <1> QED
    BY <1>1, <1>2 DEF ChangeRoles

(* A contract always has an administrator of its roles, and it is the      *)
(* owner: only both together can add and remove managers (addManager has   *)
(* onlyOwner, and grantRole inside it asks for the role).                  *)
THEOREM OneAdministrator == Spec => []OwnerIsAdmin
  <1>1. Init => OwnerIsAdmin
    BY DEF Init, RolesInit, OwnerIsAdmin
  <1>2. TypeOK /\ OwnerIsAdmin /\ [Next]_vars => OwnerIsAdmin'
    <2> SUFFICES ASSUME TypeOK, OwnerIsAdmin, [Next]_vars PROVE OwnerIsAdmin'
      OBVIOUS
    <2>1. CASE \E n \in Networks : ChangeRoles(n)
      BY <2>1, ChangedRoles DEF TypeOK
    <2>2. CASE ~ \E n \in Networks : ChangeRoles(n)
      BY <2>2, RolesStay DEF OwnerIsAdmin, roles
    <2> QED
      BY <2>1, <2>2
  <1> QED
    BY <1>1, <1>2, TypeCorrect, PTL DEF Spec
(***************************************************************************)
(* The books: what a contract holds of a token is the liquidity of its     *)
(* providers and the deposits it has kept, less what it has paid out.      *)
(***************************************************************************)
AllHeld(box) == box \in [Boxes -> Box] /\ \A b \in Boxes : Held(box[b])

LEMMA BoxesAreHeld ==
    ASSUME TypeOK, NEW n \in Networks
    PROVE  AllHeld(deposit[n]) /\ AllHeld(withdraw[n])
  BY DEF TypeOK, DepositOK, WithdrawOK, AllHeld

LEMMA AmountsType ==
    ASSUME NEW box, AllHeld(box), NEW t \in Tokens, NEW states, "INVALID" \notin states
    PROVE  [b \in Boxes |-> Amounts(box[b], t, states)] \in [Boxes -> Nat]
  <1>1. ASSUME NEW b \in Boxes
        PROVE  Amounts(box[b], t, states) \in Nat
    <2>1. CASE box[b].state \in states /\ box[b].token = t
      BY <2>1, HeldTerms DEF Amounts, AllHeld
    <2>2. CASE ~(box[b].state \in states /\ box[b].token = t)
      BY <2>2 DEF Amounts
    <2> QED
      BY <2>1, <2>2
  <1> QED
    BY <1>1

LEMMA InBoxesType ==
    ASSUME NEW box, AllHeld(box), NEW t \in Tokens, NEW states, "INVALID" \notin states
    PROVE  InBoxes(box, t, states) \in Nat
  BY AmountsType, TotalType, FiniteIds DEF InBoxes

(* One box changes: the sum follows it. *)
LEMMA InBoxesChange ==
    ASSUME NEW old, AllHeld(old), NEW new, AllHeld(new), NEW e \in Boxes,
           \A b \in Boxes \ {e} : new[b] = old[b],
           NEW t \in Tokens, NEW states, "INVALID" \notin states
    PROVE  /\ Amounts(old[e], t, states) \in Nat /\ Amounts(new[e], t, states) \in Nat
           /\ InBoxes(new, t, states) + Amounts(old[e], t, states)
                = InBoxes(old, t, states) + Amounts(new[e], t, states)
  <1> DEFINE f == [b \in Boxes |-> Amounts(old[b], t, states)]
             g == [b \in Boxes |-> Amounts(new[b], t, states)]
  <1>1. f \in [Boxes -> Nat] /\ g \in [Boxes -> Nat]
    BY AmountsType
  <1>2. \A b \in Boxes \ {e} : g[b] = f[b]
    OBVIOUS
  <1>3. f[e] = Amounts(old[e], t, states) /\ g[e] = Amounts(new[e], t, states)
    OBVIOUS
  <1>4. Total(f) = InBoxes(old, t, states) /\ Total(g) = InBoxes(new, t, states)
    BY DEF InBoxes
  <1> HIDE DEF f, g
  <1>5. Total(g) + f[e] = Total(f) + g[e]
    BY <1>1, <1>2, TotalChange, FiniteIds
  <1> QED
    BY <1>1, <1>3, <1>4, <1>5
(* What a change of one box, and of one balance, does to the sums of any   *)
(* network m and token t: nothing, unless m is its network.                *)
At(m, n, amount) == IF m = n THEN amount ELSE 0
Replace(f, n, b, box) == [f EXCEPT ![n][b] = box]
Rebook(f, n, token, a, x) == [f EXCEPT ![n][token][a] = x]

LEMMA DepositSum ==
    ASSUME TypeOK, TypeOK', NEW n \in Networks, NEW b \in Boxes, NEW box,
           deposit' = Replace(deposit, n, b, box),
           NEW m \in Networks, NEW t \in Tokens, NEW states, "INVALID" \notin states
    PROVE  /\ At(m, n, Amounts(deposit[n][b], t, states)) \in Nat
           /\ At(m, n, Amounts(box, t, states)) \in Nat
           /\ InBoxes(deposit[m], t, states) \in Nat /\ InBoxes(deposit'[m], t, states) \in Nat
           /\ InBoxes(deposit'[m], t, states) + At(m, n, Amounts(deposit[n][b], t, states))
                = InBoxes(deposit[m], t, states) + At(m, n, Amounts(box, t, states))
  <1>1. AllHeld(deposit[m]) /\ AllHeld(deposit'[m])
    BY DEF TypeOK, DepositOK, AllHeld
  <1>2. InBoxes(deposit[m], t, states) \in Nat /\ InBoxes(deposit'[m], t, states) \in Nat
    BY <1>1, InBoxesType
  <1>3. CASE m # n
    <2>1. deposit'[m] = deposit[m]
      BY <1>3 DEF TypeOK, DepositOK, Replace
    <2> QED
      BY <1>2, <1>3, <2>1 DEF At
  <1>4. CASE m = n
    <2>1. deposit'[m][b] = box /\ \A c \in Boxes \ {b} : deposit'[m][c] = deposit[m][c]
      BY <1>4 DEF TypeOK, DepositOK, Replace
    <2>p. PICK old, new : old = deposit[m] /\ new = deposit'[m]
      OBVIOUS
    <2>h. AllHeld(old) /\ AllHeld(new) /\ \A c \in Boxes \ {b} : new[c] = old[c]
      BY <1>1, <2>1, <2>p
    <2>s. /\ Amounts(old[b], t, states) \in Nat /\ Amounts(new[b], t, states) \in Nat
          /\ InBoxes(new, t, states) + Amounts(old[b], t, states)
               = InBoxes(old, t, states) + Amounts(new[b], t, states)
      BY <2>h, InBoxesChange
    <2>2. /\ Amounts(deposit[m][b], t, states) \in Nat /\ Amounts(deposit'[m][b], t, states) \in Nat
          /\ InBoxes(deposit'[m], t, states) + Amounts(deposit[m][b], t, states)
               = InBoxes(deposit[m], t, states) + Amounts(deposit'[m][b], t, states)
      BY <2>p, <2>s
    <2> QED
      BY <1>2, <1>4, <2>1, <2>2 DEF At
  <1> QED
    BY <1>3, <1>4

LEMMA WithdrawSum ==
    ASSUME TypeOK, TypeOK', NEW n \in Networks, NEW b \in Boxes, NEW box,
           withdraw' = Replace(withdraw, n, b, box),
           NEW m \in Networks, NEW t \in Tokens, NEW states, "INVALID" \notin states
    PROVE  /\ At(m, n, Amounts(withdraw[n][b], t, states)) \in Nat
           /\ At(m, n, Amounts(box, t, states)) \in Nat
           /\ InBoxes(withdraw[m], t, states) \in Nat /\ InBoxes(withdraw'[m], t, states) \in Nat
           /\ InBoxes(withdraw'[m], t, states) + At(m, n, Amounts(withdraw[n][b], t, states))
                = InBoxes(withdraw[m], t, states) + At(m, n, Amounts(box, t, states))
  <1>1. AllHeld(withdraw[m]) /\ AllHeld(withdraw'[m])
    BY DEF TypeOK, WithdrawOK, AllHeld
  <1>2. InBoxes(withdraw[m], t, states) \in Nat /\ InBoxes(withdraw'[m], t, states) \in Nat
    BY <1>1, InBoxesType
  <1>3. CASE m # n
    <2>1. withdraw'[m] = withdraw[m]
      BY <1>3 DEF TypeOK, WithdrawOK, Replace
    <2> QED
      BY <1>2, <1>3, <2>1 DEF At
  <1>4. CASE m = n
    <2>1. withdraw'[m][b] = box /\ \A c \in Boxes \ {b} : withdraw'[m][c] = withdraw[m][c]
      BY <1>4 DEF TypeOK, WithdrawOK, Replace
    <2>p. PICK old, new : old = withdraw[m] /\ new = withdraw'[m]
      OBVIOUS
    <2>h. AllHeld(old) /\ AllHeld(new) /\ \A c \in Boxes \ {b} : new[c] = old[c]
      BY <1>1, <2>1, <2>p
    <2>s. /\ Amounts(old[b], t, states) \in Nat /\ Amounts(new[b], t, states) \in Nat
          /\ InBoxes(new, t, states) + Amounts(old[b], t, states)
               = InBoxes(old, t, states) + Amounts(new[b], t, states)
      BY <2>h, InBoxesChange
    <2>2. /\ Amounts(withdraw[m][b], t, states) \in Nat /\ Amounts(withdraw'[m][b], t, states) \in Nat
          /\ InBoxes(withdraw'[m], t, states) + Amounts(withdraw[m][b], t, states)
               = InBoxes(withdraw[m], t, states) + Amounts(withdraw'[m][b], t, states)
      BY <2>p, <2>s
    <2> QED
      BY <1>2, <1>4, <2>1, <2>2 DEF At
  <1> QED
    BY <1>3, <1>4

(* The deposits a contract has kept, and the withdrawals it has paid, when *)
(* the amount of one box in them changes.                                  *)
LEMMA KeptSum ==
    ASSUME TypeOK, TypeOK', NEW n \in Networks, NEW b \in Boxes, NEW box,
           deposit' = Replace(deposit, n, b, box), NEW m \in Networks, NEW t \in Tokens,
           NEW before, before = Amounts(deposit[n][b], t, {"OPEN", "CLOSED"}),
           NEW after, after = Amounts(box, t, {"OPEN", "CLOSED"})
    PROVE  /\ At(m, n, before) \in Nat /\ At(m, n, after) \in Nat
           /\ InBoxes(deposit'[m], t, {"OPEN", "CLOSED"}) \in Nat
           /\ InBoxes(deposit'[m], t, {"OPEN", "CLOSED"}) + At(m, n, before)
                = InBoxes(deposit[m], t, {"OPEN", "CLOSED"}) + At(m, n, after)
  <1>1. PICK states : states = {"OPEN", "CLOSED"}
    OBVIOUS
  <1>2. "INVALID" \notin states
    BY <1>1
  <1>3. /\ At(m, n, Amounts(deposit[n][b], t, states)) \in Nat
        /\ At(m, n, Amounts(box, t, states)) \in Nat
        /\ InBoxes(deposit'[m], t, states) \in Nat
        /\ InBoxes(deposit'[m], t, states) + At(m, n, Amounts(deposit[n][b], t, states))
             = InBoxes(deposit[m], t, states) + At(m, n, Amounts(box, t, states))
    BY <1>2, DepositSum
  <1> QED
    BY <1>1, <1>3

LEMMA PaidSum ==
    ASSUME TypeOK, TypeOK', NEW n \in Networks, NEW b \in Boxes, NEW box,
           withdraw' = Replace(withdraw, n, b, box), NEW m \in Networks, NEW t \in Tokens,
           NEW before, before = Amounts(withdraw[n][b], t, {"CLOSED"}),
           NEW after, after = Amounts(box, t, {"CLOSED"})
    PROVE  /\ At(m, n, before) \in Nat /\ At(m, n, after) \in Nat
           /\ InBoxes(withdraw'[m], t, {"CLOSED"}) \in Nat
           /\ InBoxes(withdraw'[m], t, {"CLOSED"}) + At(m, n, before)
                = InBoxes(withdraw[m], t, {"CLOSED"}) + At(m, n, after)
  <1>1. PICK states : states = {"CLOSED"}
    OBVIOUS
  <1>2. "INVALID" \notin states
    BY <1>1
  <1>3. /\ At(m, n, Amounts(withdraw[n][b], t, states)) \in Nat
        /\ At(m, n, Amounts(box, t, states)) \in Nat
        /\ InBoxes(withdraw'[m], t, states) \in Nat
        /\ InBoxes(withdraw'[m], t, states) + At(m, n, Amounts(withdraw[n][b], t, states))
             = InBoxes(withdraw[m], t, states) + At(m, n, Amounts(box, t, states))
    BY <1>2, WithdrawSum
  <1> QED
    BY <1>1, <1>3

LEMMA Received ==
    ASSUME BalanceOK, NEW n \in Networks, NEW token \in Tokens, NEW amount \in Nat,
           Receive(n, token, amount), NEW m \in Networks, NEW t \in Tokens
    PROVE  /\ balance[m][t] \in Nat /\ balance'[m][t] \in Nat
           /\ balance'[m][t] = balance[m][t] + At(m, n, IF t = token THEN amount ELSE 0)
  BY DEF BalanceOK, Receive, At

LEMMA Transferred ==
    ASSUME BalanceOK, NEW n \in Networks, NEW token \in Tokens, NEW amount \in Nat,
           Transfer(n, token, amount), NEW m \in Networks, NEW t \in Tokens
    PROVE  /\ balance[m][t] \in Nat /\ balance'[m][t] \in Nat
           /\ balance'[m][t] + At(m, n, IF t = token THEN amount ELSE 0) = balance[m][t]
  BY DEF BalanceOK, Transfer, At

LEMMA ProvidedType ==
    ASSUME LiquidOK, NEW m \in Networks, NEW t \in Tokens
    PROVE  Provided(m, t) \in Nat
  <1>1. liquid[m][t] \in [Accounts -> Nat]
    BY DEF LiquidOK
  <1> QED
    BY <1>1, TotalType, FiniteIds DEF Provided

(* What is booked for one provider changes: so does their sum.             *)
LEMMA ProvidedSum ==
    ASSUME LiquidOK, LiquidOK', NEW n \in Networks, NEW token \in Tokens, NEW a \in Accounts, NEW x,
           liquid' = Rebook(liquid, n, token, a, x), NEW m \in Networks, NEW t \in Tokens
    PROVE  /\ x \in Nat /\ Provided(m, t) \in Nat /\ Provided(m, t)' \in Nat
           /\ Provided(m, t)' + At(m, n, IF t = token THEN liquid[n][token][a] ELSE 0)
                = Provided(m, t) + At(m, n, IF t = token THEN x ELSE 0)
  <1>1. Provided(m, t) \in Nat /\ Provided(m, t)' \in Nat
    BY ProvidedType, FiniteIds, TotalType DEF LiquidOK, Provided
  <1>2. liquid'[n][token][a] = x
    BY DEF LiquidOK, Rebook
  <1>3. x \in Nat
    BY <1>2 DEF LiquidOK
  <1>4. CASE m # n \/ t # token
    <2>1. liquid'[m][t] = liquid[m][t]
      BY <1>4 DEF LiquidOK, Rebook
    <2>2. Provided(m, t)' = Provided(m, t)
      BY <2>1 DEF Provided
    <2> QED
      BY <1>1, <1>3, <1>4, <2>2 DEF At
  <1>5. CASE m = n /\ t = token
    <2>1. liquid[m][t] \in [Accounts -> Nat] /\ liquid'[m][t] \in [Accounts -> Nat]
      BY DEF LiquidOK, Rebook
    <2>2. \A c \in Accounts \ {a} : liquid'[m][t][c] = liquid[m][t][c]
      BY <1>5 DEF LiquidOK, Rebook
    <2>3. Total(liquid'[m][t]) + liquid[m][t][a] = Total(liquid[m][t]) + liquid'[m][t][a]
      BY <2>1, <2>2, FiniteIds, TotalChange
    <2> QED
      BY <1>1, <1>2, <1>3, <1>5, <2>3 DEF Provided, At
  <1> QED
    BY <1>1, <1>3, <1>4, <1>5
Booked(m, t) ==
    balance[m][t] + InBoxes(withdraw[m], t, {"CLOSED"})
        = Provided(m, t) + InBoxes(deposit[m], t, {"OPEN", "CLOSED"})

(* The sums, for a network m and a token t, are numbers. *)
LEMMA SumsType ==
    ASSUME TypeOK, NEW m \in Networks, NEW t \in Tokens
    PROVE  /\ balance[m][t] \in Nat /\ Provided(m, t) \in Nat
           /\ InBoxes(withdraw[m], t, {"CLOSED"}) \in Nat
           /\ InBoxes(deposit[m], t, {"OPEN", "CLOSED"}) \in Nat
           /\ InBoxes(deposit[m], t, {"OPEN"}) \in Nat /\ InBoxes(deposit[m], t, {"CLOSED"}) \in Nat
  <1>1. balance[m][t] \in Nat /\ Provided(m, t) \in Nat
    BY ProvidedType DEF TypeOK, BalanceOK
  <1>2. AllHeld(deposit[m]) /\ AllHeld(withdraw[m])
    BY BoxesAreHeld
  <1> QED
    BY <1>1, <1>2, InBoxesType

LEMMA SameProvided ==
    ASSUME UNCHANGED liquid, NEW m, NEW t
    PROVE  Provided(m, t)' = Provided(m, t)
  BY DEF Provided

LEMMA SameBooks ==
    ASSUME BooksBalance, UNCHANGED <<balance, liquid, deposit, withdraw>>
    PROVE  BooksBalance'
  BY DEF BooksBalance, Provided, InBoxes

LEMMA AskKeepsBooks ==
    ASSUME TypeOK, TypeOK', BooksBalance, NEW b \in Boxes, Ask(b)
    PROVE  BooksBalance'
  <1>1. PICK o \in Offers : OpenDeposit(o.net, b, o.token, o.terms)
    BY DEF Ask
  <1>2. /\ o.net \in Networks /\ o.token \in Tokens /\ o.terms \in AllTerms
        /\ o.terms.amount \in Nat
    BY <1>1, Configuration DEF AllOffers, AllTerms
  <1>3. PICK box : box = Opened(o.token, o.terms, 2 * timeLock[o.net])
    OBVIOUS
  <1> SUFFICES ASSUME NEW m \in Networks, NEW t \in Tokens
               PROVE  Booked(m, t)'
    BY DEF BooksBalance, Booked
  <1> DEFINE paid == IF t = o.token THEN o.terms.amount ELSE 0
  <1>4. Amounts(deposit[o.net][b], t, {"OPEN", "CLOSED"}) = 0
        /\ Amounts(box, t, {"OPEN", "CLOSED"}) = paid
    BY <1>1, <1>3 DEF OpenDeposit, Amounts, Opened
  <1>5. deposit' = Replace(deposit, o.net, b, box)
    BY <1>1, <1>3 DEF OpenDeposit, Replace
  <1>6. /\ InBoxes(deposit'[m], t, {"OPEN", "CLOSED"}) \in Nat
        /\ InBoxes(deposit'[m], t, {"OPEN", "CLOSED"}) + At(m, o.net, 0)
             = InBoxes(deposit[m], t, {"OPEN", "CLOSED"}) + At(m, o.net, paid)
    BY <1>2, <1>4, <1>5, KeptSum
  <1>7. balance'[m][t] = balance[m][t] + At(m, o.net, paid)
    BY <1>1, <1>2, Received DEF OpenDeposit, TypeOK
  <1>8. Provided(m, t)' = Provided(m, t) /\ withdraw' = withdraw
    BY <1>1, SameProvided DEF OpenDeposit
  <1>9. Booked(m, t)
    BY DEF BooksBalance, Booked
  <1>10. At(m, o.net, 0) = 0 /\ At(m, o.net, paid) \in Nat
    BY <1>2 DEF At
  <1> HIDE DEF paid
  <1> QED
    BY <1>6, <1>7, <1>8, <1>9, <1>10, SumsType DEF Booked

LEMMA CloseDepositKeepsBooks ==
    ASSUME TypeOK, TypeOK', BooksBalance, NEW n \in Networks, NEW b \in Boxes, NEW k \in Keys,
           CloseDeposit(n, b, k)
    PROVE  BooksBalance'
  <1>1. PICK box : box = Closed(deposit[n][b], k)
    OBVIOUS
  <1>2. deposit' = Replace(deposit, n, b, box)
    BY <1>1 DEF CloseDeposit, Replace
  <1>3. deposit[n][b] \in Box /\ deposit[n][b].state = "OPEN"
    BY DEF CloseDeposit, CanCloseDeposit, TypeOK, DepositOK
  <1> SUFFICES ASSUME NEW m \in Networks, NEW t \in Tokens
               PROVE  Booked(m, t)'
    BY DEF BooksBalance, Booked
  <1>4. PICK paid : /\ paid = Amounts(deposit[n][b], t, {"OPEN", "CLOSED"})
                    /\ paid = Amounts(box, t, {"OPEN", "CLOSED"})
    BY <1>1, <1>3 DEF Closed, Amounts, Box
  <1>5. /\ At(m, n, paid) \in Nat
        /\ InBoxes(deposit'[m], t, {"OPEN", "CLOSED"}) \in Nat
        /\ InBoxes(deposit'[m], t, {"OPEN", "CLOSED"}) + At(m, n, paid)
             = InBoxes(deposit[m], t, {"OPEN", "CLOSED"}) + At(m, n, paid)
    BY <1>2, <1>4, KeptSum
  <1>6. Provided(m, t)' = Provided(m, t) /\ withdraw' = withdraw /\ balance' = balance
    BY SameProvided DEF CloseDeposit, funds
  <1>7. Booked(m, t)
    BY DEF BooksBalance, Booked
  <1> QED
    BY <1>5, <1>6, <1>7, SumsType DEF Booked

LEMMA ExpireDepositKeepsBooks ==
    ASSUME TypeOK, TypeOK', BooksBalance, NEW n \in Networks, NEW b \in Boxes, ExpireDeposit(n, b)
    PROVE  BooksBalance'
  <1>1. PICK box : box = Expired(deposit[n][b])
    OBVIOUS
  <1>2. deposit' = Replace(deposit, n, b, box)
    BY <1>1 DEF ExpireDeposit, Replace
  <1>3. deposit[n][b] \in Box /\ deposit[n][b].state = "OPEN" /\ Held(deposit[n][b])
    BY DEF ExpireDeposit, TypeOK, DepositOK
  <1>p. PICK token, amount : token = deposit[n][b].token /\ amount = deposit[n][b].terms.amount
    OBVIOUS
  <1>h. token \in Tokens /\ amount \in Nat
    BY <1>3, <1>p, HeldTerms
  <1> SUFFICES ASSUME NEW m \in Networks, NEW t \in Tokens
               PROVE  Booked(m, t)'
    BY DEF BooksBalance, Booked
  <1> DEFINE back == IF t = token THEN amount ELSE 0
  <1>4. Amounts(deposit[n][b], t, {"OPEN", "CLOSED"}) = back /\ Amounts(box, t, {"OPEN", "CLOSED"}) = 0
    BY <1>1, <1>3, <1>p DEF Expired, Amounts, Box
  <1>5. /\ At(m, n, back) \in Nat
        /\ InBoxes(deposit'[m], t, {"OPEN", "CLOSED"}) \in Nat
        /\ InBoxes(deposit'[m], t, {"OPEN", "CLOSED"}) + At(m, n, back)
             = InBoxes(deposit[m], t, {"OPEN", "CLOSED"}) + At(m, n, 0)
    BY <1>2, <1>4, KeptSum
  <1>6. balance'[m][t] \in Nat /\ balance'[m][t] + At(m, n, back) = balance[m][t]
    BY <1>p, <1>h, Transferred DEF ExpireDeposit, TypeOK
  <1>7. Provided(m, t)' = Provided(m, t) /\ withdraw' = withdraw
    BY SameProvided DEF ExpireDeposit
  <1>8. Booked(m, t) /\ At(m, n, 0) = 0
    BY DEF BooksBalance, Booked, At
  <1> HIDE DEF back
  <1> QED
    BY <1>5, <1>6, <1>7, <1>8, SumsType DEF Booked
LEMMA CloseWithdrawKeepsBooks ==
    ASSUME TypeOK, TypeOK', BooksBalance, NEW n \in Networks, NEW b \in Boxes, NEW k \in Keys,
           CloseWithdraw(n, b, k)
    PROVE  BooksBalance'
  <1>1. PICK box : box = Closed(withdraw[n][b], k)
    OBVIOUS
  <1>2. withdraw' = Replace(withdraw, n, b, box)
    BY <1>1 DEF CloseWithdraw, Replace
  <1>3. withdraw[n][b] \in Box /\ withdraw[n][b].state = "OPEN" /\ Held(withdraw[n][b])
    BY DEF CloseWithdraw, CanCloseWithdraw, TypeOK, WithdrawOK
  <1>p. PICK token, amount : token = withdraw[n][b].token /\ amount = withdraw[n][b].terms.amount
    OBVIOUS
  <1>h. token \in Tokens /\ amount \in Nat
    BY <1>3, <1>p, HeldTerms
  <1> SUFFICES ASSUME NEW m \in Networks, NEW t \in Tokens
               PROVE  Booked(m, t)'
    BY DEF BooksBalance, Booked
  <1> DEFINE paid == IF t = token THEN amount ELSE 0
  <1>4. Amounts(withdraw[n][b], t, {"CLOSED"}) = 0 /\ Amounts(box, t, {"CLOSED"}) = paid
    BY <1>1, <1>3, <1>p DEF Closed, Amounts, Box
  <1>5. /\ At(m, n, paid) \in Nat
        /\ InBoxes(withdraw'[m], t, {"CLOSED"}) \in Nat
        /\ InBoxes(withdraw'[m], t, {"CLOSED"}) + At(m, n, 0)
             = InBoxes(withdraw[m], t, {"CLOSED"}) + At(m, n, paid)
    BY <1>2, <1>4, PaidSum
  <1>6. balance'[m][t] \in Nat /\ balance'[m][t] + At(m, n, paid) = balance[m][t]
    BY <1>p, <1>h, Transferred DEF CloseWithdraw, TypeOK
  <1>7. Provided(m, t)' = Provided(m, t) /\ deposit' = deposit
    BY SameProvided DEF CloseWithdraw
  <1>8. Booked(m, t) /\ At(m, n, 0) = 0
    BY DEF BooksBalance, Booked, At
  <1> HIDE DEF paid
  <1> QED
    BY <1>5, <1>6, <1>7, <1>8, SumsType DEF Booked

(* A withdraw box that is opened or expired has paid nothing. *)
LEMMA UnpaidKeepsBooks ==
    ASSUME TypeOK, TypeOK', BooksBalance, NEW n \in Networks, NEW b \in Boxes, NEW box,
           withdraw' = Replace(withdraw, n, b, box), UNCHANGED <<balance, liquid, deposit>>,
           withdraw[n][b].state # "CLOSED", box.state # "CLOSED"
    PROVE  BooksBalance'
  <1> SUFFICES ASSUME NEW m \in Networks, NEW t \in Tokens
               PROVE  Booked(m, t)'
    BY DEF BooksBalance, Booked
  <1>1. Amounts(withdraw[n][b], t, {"CLOSED"}) = 0 /\ Amounts(box, t, {"CLOSED"}) = 0
    BY DEF Amounts
  <1>2. /\ InBoxes(withdraw'[m], t, {"CLOSED"}) \in Nat
        /\ InBoxes(withdraw'[m], t, {"CLOSED"}) + At(m, n, 0)
             = InBoxes(withdraw[m], t, {"CLOSED"}) + At(m, n, 0)
    BY <1>1, PaidSum
  <1>3. Provided(m, t)' = Provided(m, t) /\ deposit' = deposit /\ balance' = balance
    BY SameProvided
  <1>4. Booked(m, t) /\ At(m, n, 0) = 0
    BY DEF BooksBalance, Booked, At
  <1> QED
    BY <1>2, <1>3, <1>4, SumsType DEF Booked

LEMMA SettleKeepsBooks ==
    ASSUME TypeOK, TypeOK', BooksBalance, NEW n \in Networks, NEW b \in Boxes, Settle(n, b)
    PROVE  BooksBalance'
  <1>1. CASE \E k \in Keys : CloseDeposit(n, b, k) \/ CloseWithdraw(n, b, k)
    BY <1>1, CloseDepositKeepsBooks, CloseWithdrawKeepsBooks
  <1>2. CASE ExpireDeposit(n, b)
    BY <1>2, ExpireDepositKeepsBooks
  <1>3. CASE ExpireWithdraw(n, b)
    <2>1. PICK box : box = Expired(withdraw[n][b])
      OBVIOUS
    <2>2. withdraw' = Replace(withdraw, n, b, box) /\ UNCHANGED <<balance, liquid, deposit>>
      BY <1>3, <2>1 DEF ExpireWithdraw, Replace, funds
    <2>3. withdraw[n][b].state # "CLOSED"
      BY <1>3 DEF ExpireWithdraw, CanExpireWithdraw
    <2>4. box.state # "CLOSED"
      BY <2>1 DEF Expired, TypeOK, WithdrawOK, Box
    <2> QED
      BY <2>2, <2>3, <2>4, UnpaidKeepsBooks
  <1> QED
    BY <1>1, <1>2, <1>3 DEF Settle

LEMMA OpenWithdrawKeepsBooks ==
    ASSUME TypeOK, TypeOK', BooksBalance, NEW n \in Networks, NEW b \in Boxes, NEW token, NEW t,
           OpenWithdraw(n, b, token, t)
    PROVE  BooksBalance'
  <1>1. PICK box : box = Opened(token, t, timeLock[n])
    OBVIOUS
  <1>2. withdraw' = Replace(withdraw, n, b, box) /\ UNCHANGED <<balance, liquid, deposit>>
    BY <1>1 DEF OpenWithdraw, Replace, funds
  <1>3. withdraw[n][b].state # "CLOSED" /\ box.state # "CLOSED"
    BY <1>1 DEF OpenWithdraw, CanOpenWithdraw, Opened
  <1> QED
    BY <1>2, <1>3, UnpaidKeepsBooks

LEMMA IncreaseKeepsBooks ==
    ASSUME TypeOK, TypeOK', BooksBalance, NEW n \in Networks, NEW token \in Tokens,
           NEW a \in Accounts, NEW amount \in Nat, IncreaseLiquidity(n, token, a, amount),
           UNCHANGED boxes
    PROVE  BooksBalance'
  <1> SUFFICES ASSUME NEW m \in Networks, NEW t \in Tokens
               PROVE  Booked(m, t)'
    BY DEF BooksBalance, Booked
  <1>0. LiquidOK /\ LiquidOK' /\ BalanceOK
    BY DEF TypeOK
  <1>1. PICK old, new : /\ old = liquid[n][token][a] /\ new = old + amount
                        /\ liquid' = Rebook(liquid, n, token, a, new)
    BY <1>0 DEF IncreaseLiquidity, LiquidOK, Rebook
  <1>2. old \in Nat
    BY <1>0, <1>1 DEF LiquidOK
  <1>3. /\ Provided(m, t)' \in Nat
        /\ Provided(m, t)' + At(m, n, IF t = token THEN old ELSE 0)
             = Provided(m, t) + At(m, n, IF t = token THEN new ELSE 0)
    BY <1>0, <1>1, ProvidedSum
  <1>4. balance'[m][t] = balance[m][t] + At(m, n, IF t = token THEN amount ELSE 0)
    BY <1>0, Received DEF IncreaseLiquidity
  <1>5. withdraw' = withdraw /\ deposit' = deposit /\ Booked(m, t)
    BY DEF BooksBalance, Booked, boxes
  <1>6. Provided(m, t)' = Provided(m, t) + At(m, n, IF t = token THEN amount ELSE 0)
    BY <1>1, <1>2, <1>3, SumsType DEF At
  <1>7. At(m, n, IF t = token THEN amount ELSE 0) \in Nat
    BY DEF At
  <1> QED
    BY <1>4, <1>5, <1>6, <1>7, SumsType DEF Booked

LEMMA DecreaseKeepsBooks ==
    ASSUME TypeOK, TypeOK', BooksBalance, NEW n \in Networks, NEW token \in Tokens,
           NEW a \in Accounts, NEW amount \in Nat, DecreaseLiquidity(n, token, a, amount)
    PROVE  BooksBalance'
  <1> SUFFICES ASSUME NEW m \in Networks, NEW t \in Tokens
               PROVE  Booked(m, t)'
    BY DEF BooksBalance, Booked
  <1>0. LiquidOK /\ LiquidOK' /\ BalanceOK
    BY DEF TypeOK
  <1>1. PICK old, new : /\ old = liquid[n][token][a] /\ new = old - amount
                        /\ liquid' = Rebook(liquid, n, token, a, new)
    BY <1>0 DEF DecreaseLiquidity, LiquidOK, Rebook
  <1>2. old \in Nat
    BY <1>0, <1>1 DEF LiquidOK
  <1>3. /\ new \in Nat /\ Provided(m, t)' \in Nat
        /\ Provided(m, t)' + At(m, n, IF t = token THEN old ELSE 0)
             = Provided(m, t) + At(m, n, IF t = token THEN new ELSE 0)
    BY <1>0, <1>1, ProvidedSum
  <1>4. /\ balance'[m][t] \in Nat
        /\ balance'[m][t] + At(m, n, IF t = token THEN amount ELSE 0) = balance[m][t]
    BY <1>0, Transferred DEF DecreaseLiquidity
  <1>5. withdraw' = withdraw /\ deposit' = deposit /\ Booked(m, t)
    BY DEF BooksBalance, Booked, DecreaseLiquidity, boxes
  <1>6. Provided(m, t)' + At(m, n, IF t = token THEN amount ELSE 0) = Provided(m, t)
    BY <1>1, <1>2, <1>3, SumsType DEF At
  <1>7. At(m, n, IF t = token THEN amount ELSE 0) \in Nat
    BY DEF At
  <1> QED
    BY <1>3, <1>4, <1>5, <1>6, <1>7, SumsType DEF Booked

LEMMA InvestKeepsBooks ==
    ASSUME TypeOK, TypeOK', BooksBalance, NEW n \in Networks, Invest(n)
    PROVE  BooksBalance'
  <1>1. PICK token \in Tokens, a \in Providers, amount \in Sums :
          \/ /\ CanIncrease(n, token, amount) /\ Room(n, token, a, amount)
             /\ IncreaseLiquidity(n, token, a, amount)
             /\ UNCHANGED <<roles, coins, boxes, script, now>>
          \/ DecreaseLiquidity(n, token, a, amount)
    BY DEF Invest
  <1>2. a \in Accounts /\ amount \in Nat
    BY <1>1, Quantities
  <1> QED
    BY <1>1, <1>2, IncreaseKeepsBooks, DecreaseKeepsBooks

LEMMA ScriptsKeepBooks ==
    ASSUME TypeOK, TypeOK', BooksBalance, NEW n \in Networks, RunScript(n)
    PROVE  BooksBalance'
  <1>1. CASE Begin(n) \/ Interrupt(n) \/ RegisterTokens(n)
    BY <1>1, SameBooks DEF Begin, Interrupt, RegisterTokens, RegisterToken, funds, boxes
  <1>2. CASE AddLiquidity(n)
    <2>1. ScriptToken(n) \in Tokens /\ Admin \in Accounts /\ ScriptSum \in Nat
      BY ScriptSteps, People, Quantities DEF TypeOK
    <2>2. UNCHANGED boxes
      BY <1>2 DEF AddLiquidity
    <2>3. UNCHANGED funds \/ IncreaseLiquidity(n, ScriptToken(n), Admin, ScriptSum)
      BY <1>2 DEF AddLiquidity
    <2>4. CASE UNCHANGED funds
      BY <2>2, <2>4, SameBooks DEF funds, boxes
    <2>5. CASE IncreaseLiquidity(n, ScriptToken(n), Admin, ScriptSum)
      BY <2>1, <2>2, <2>5, IncreaseKeepsBooks
    <2> QED
      BY <2>3, <2>4, <2>5
  <1> QED
    BY <1>1, <1>2 DEF RunScript

LEMMA NextKeepsBooks == TypeOK /\ BooksBalance /\ [Next]_vars => BooksBalance'
  <1> SUFFICES ASSUME TypeOK, BooksBalance, [Next]_vars PROVE BooksBalance'
    OBVIOUS
  <1>0. TypeOK'
    BY NextKeepsType
  <1>1. CASE \E b \in Boxes : Ask(b)
    BY <1>0, <1>1, AskKeepsBooks
  <1>2. ASSUME NEW n \in Networks, NEW b \in Boxes, Answer(n, b)
        PROVE  BooksBalance'
    BY <1>0, <1>2, OpenWithdrawKeepsBooks DEF Answer
  <1>3. ASSUME NEW n \in Networks, NEW b \in Boxes, Settle(n, b)
        PROVE  BooksBalance'
    BY <1>0, <1>3, SettleKeepsBooks
  <1>4. ASSUME NEW n \in Networks, Invest(n)
        PROVE  BooksBalance'
    BY <1>0, <1>4, InvestKeepsBooks
  <1>5. ASSUME NEW n \in Networks, RunScript(n)
        PROVE  BooksBalance'
    BY <1>0, <1>5, ScriptsKeepBooks
  <1>6. ASSUME NEW n \in Networks, Administer(n)
        PROVE  BooksBalance'
    BY <1>6, SameBooks DEF Administer, WithdrawTxFee, SetActive, ChangeTimeLock, ChangeRoles, funds, boxes
  <1>7. CASE Tick \/ UNCHANGED vars
    BY <1>7, SameBooks DEF Tick, vars, funds, boxes
  <1> QED
    BY <1>1, <1>2, <1>3, <1>4, <1>5, <1>6, <1>7 DEF Next

(* Boxes that nobody has opened hold nothing. *)
LEMMA EmptyBoxes ==
    ASSUME NEW box, \A b \in Boxes : box[b].state = "INVALID", NEW t, NEW states, "INVALID" \notin states
    PROVE  InBoxes(box, t, states) = 0
  <1>1. \A b \in Boxes : Amounts(box[b], t, states) = 0
    BY DEF Amounts
  <1> DEFINE f == [b \in Boxes |-> Amounts(box[b], t, states)]
  <1>2. f \in [Boxes -> Nat] /\ \A b \in Boxes : f[b] = 0
    BY <1>1
  <1> HIDE DEF f
  <1>3. Total(f) = 0
    BY <1>2, TotalZero
  <1> QED
    BY <1>3 DEF InBoxes, f

LEMMA BooksInit == Init => BooksBalance
  <1> SUFFICES ASSUME Init, NEW m \in Networks, NEW t \in Tokens
               PROVE  Booked(m, t)
    BY DEF BooksBalance, Booked
  <1>1. balance[m][t] = 0
    BY DEF Init
  <1>2. Provided(m, t) = 0
    <2>1. liquid[m][t] = [a \in Accounts |-> 0]
      BY DEF Init
    <2>2. [a \in Accounts |-> 0] \in [Accounts -> Nat]
      OBVIOUS
    <2> QED
      BY <2>1, <2>2, TotalZero DEF Provided
  <1>3. \A b \in Boxes : deposit[m][b].state = "INVALID" /\ withdraw[m][b].state = "INVALID"
    BY DEF Init, NoBox
  <1>4. InBoxes(withdraw[m], t, {"CLOSED"}) = 0
    BY <1>3, EmptyBoxes
  <1>5. InBoxes(deposit[m], t, {"OPEN", "CLOSED"}) = 0
    BY <1>3, EmptyBoxes
  <1> QED
    BY <1>1, <1>2, <1>4, <1>5 DEF Booked

(* The books of both contracts balance, in every token, whatever tokens    *)
(* are paired, registered, deposited and provided, for any number of boxes *)
(* and providers: no call pays out what it does not book.                  *)
THEOREM BalancedBooks == Spec => []BooksBalance
  BY BooksInit, NextKeepsBooks, TypeCorrect, PTL DEF Spec
(***************************************************************************)
(* The two contracts together.  A withdraw box repeats the deposit box it  *)
(* answers, so what one contract has paid is what the other has kept.      *)
(***************************************************************************)
LEMMA Others ==
    \A n \in Networks :
        /\ Other(n) \in Networks /\ Other(n) # n /\ Other(Other(n)) = n
        /\ Networks = {n, Other(n)}
  <1> SUFFICES ASSUME NEW n \in Networks
               PROVE  /\ Other(n) \in Networks /\ Other(n) # n /\ Other(Other(n)) = n
                      /\ Networks = {n, Other(n)}
    OBVIOUS
  <1>1. PICK m \in Networks : Networks = {n, m} /\ n # m
    BY TwoNetworks
  <1>2. Other(n) = m /\ Other(m) = n
    BY <1>1 DEF Other
  <1> QED
    BY <1>1, <1>2

LEMMA DepositKeepsMatch ==
    ASSUME TypeOK, BoxesMatch, NEW n \in Networks, NEW b \in Boxes, NEW box,
           deposit' = Replace(deposit, n, b, box), UNCHANGED withdraw,
           deposit[n][b].state # "INVALID" =>
               box.state # "INVALID" /\ box.terms = deposit[n][b].terms /\ box.token = deposit[n][b].token
    PROVE  BoxesMatch'
  <1> SUFFICES ASSUME NEW m \in Networks, NEW c \in Boxes
               PROVE  Matches(withdraw'[m][c], deposit'[Other(m)][c], Other(m))
    BY DEF BoxesMatch
  <1>1. Matches(withdraw[m][c], deposit[Other(m)][c], Other(m)) /\ Other(m) \in Networks
    BY Others DEF BoxesMatch
  <1>2. CASE Other(m) = n /\ c = b
    <2>1. deposit'[Other(m)][c] = box
      BY <1>2 DEF TypeOK, DepositOK, Replace
    <2> QED
      BY <1>1, <1>2, <2>1 DEF Matches
  <1>3. CASE ~(Other(m) = n /\ c = b)
    <2>1. deposit'[Other(m)][c] = deposit[Other(m)][c]
      BY <1>1, <1>3 DEF TypeOK, DepositOK, Replace
    <2> QED
      BY <1>1, <2>1
  <1> QED
    BY <1>2, <1>3

LEMMA WithdrawKeepsMatch ==
    ASSUME TypeOK, BoxesMatch, NEW n \in Networks, NEW b \in Boxes, NEW box,
           withdraw' = Replace(withdraw, n, b, box), UNCHANGED deposit,
           Matches(box, deposit[Other(n)][b], Other(n))
    PROVE  BoxesMatch'
  <1> SUFFICES ASSUME NEW m \in Networks, NEW c \in Boxes
               PROVE  Matches(withdraw'[m][c], deposit'[Other(m)][c], Other(m))
    BY DEF BoxesMatch
  <1>1. Matches(withdraw[m][c], deposit[Other(m)][c], Other(m))
    BY DEF BoxesMatch
  <1>2. withdraw'[m][c] = IF m = n /\ c = b THEN box ELSE withdraw[m][c]
    BY DEF TypeOK, WithdrawOK, Replace
  <1> QED
    BY <1>1, <1>2

LEMMA SettleKeepsMatch ==
    ASSUME TypeOK, BoxesMatch, NEW n \in Networks, NEW b \in Boxes, Settle(n, b)
    PROVE  BoxesMatch'
  <1>d. deposit[n][b] \in Box
    BY DEF TypeOK, DepositOK
  <1>w. withdraw[n][b] \in Box /\ Matches(withdraw[n][b], deposit[Other(n)][b], Other(n))
    BY DEF TypeOK, WithdrawOK, BoxesMatch
  <1>1. ASSUME NEW k \in Keys, CloseDeposit(n, b, k) PROVE BoxesMatch'
    <2>1. PICK box : box = Closed(deposit[n][b], k)
      OBVIOUS
    <2>2. deposit' = Replace(deposit, n, b, box) /\ UNCHANGED withdraw
      BY <1>1, <2>1 DEF CloseDeposit, Replace
    <2>3. box.state # "INVALID" /\ box.terms = deposit[n][b].terms /\ box.token = deposit[n][b].token
      BY <1>d, <2>1 DEF Closed, Box
    <2> QED
      BY <2>2, <2>3, DepositKeepsMatch
  <1>2. ASSUME NEW k \in Keys, CloseWithdraw(n, b, k) PROVE BoxesMatch'
    <2>1. PICK box : box = Closed(withdraw[n][b], k)
      OBVIOUS
    <2>2. withdraw' = Replace(withdraw, n, b, box) /\ UNCHANGED deposit /\ withdraw[n][b].state = "OPEN"
      BY <1>2, <2>1 DEF CloseWithdraw, CanCloseWithdraw, Replace
    <2>3. box.terms = withdraw[n][b].terms /\ box.token = withdraw[n][b].token
      BY <1>w, <2>1 DEF Closed, Box
    <2>4. Matches(box, deposit[Other(n)][b], Other(n))
      BY <1>w, <2>2, <2>3 DEF Matches
    <2> QED
      BY <2>2, <2>4, WithdrawKeepsMatch
  <1>3. CASE ExpireDeposit(n, b)
    <2>1. PICK box : box = Expired(deposit[n][b])
      OBVIOUS
    <2>2. deposit' = Replace(deposit, n, b, box) /\ UNCHANGED withdraw
      BY <1>3, <2>1 DEF ExpireDeposit, Replace
    <2>3. box.state # "INVALID" /\ box.terms = deposit[n][b].terms /\ box.token = deposit[n][b].token
      BY <1>d, <2>1 DEF Expired, Box
    <2> QED
      BY <2>2, <2>3, DepositKeepsMatch
  <1>4. CASE ExpireWithdraw(n, b)
    <2>1. PICK box : box = Expired(withdraw[n][b])
      OBVIOUS
    <2>2. withdraw' = Replace(withdraw, n, b, box) /\ UNCHANGED deposit /\ withdraw[n][b].state = "OPEN"
      BY <1>4, <2>1 DEF ExpireWithdraw, CanExpireWithdraw, Replace
    <2>3. box.terms = withdraw[n][b].terms /\ box.token = withdraw[n][b].token
      BY <1>w, <2>1 DEF Expired, Box
    <2>4. Matches(box, deposit[Other(n)][b], Other(n))
      BY <1>w, <2>2, <2>3 DEF Matches
    <2> QED
      BY <2>2, <2>4, WithdrawKeepsMatch
  <1> QED
    BY <1>1, <1>2, <1>3, <1>4 DEF Settle

LEMMA SameBoxesMatch == BoxesMatch /\ UNCHANGED boxes => BoxesMatch'
  BY DEF BoxesMatch, boxes

LEMMA NextKeepsMatch == TypeOK /\ BoxesMatch /\ [Next]_vars => BoxesMatch'
  <1> SUFFICES ASSUME TypeOK, BoxesMatch, [Next]_vars PROVE BoxesMatch'
    OBVIOUS
  <1>1. ASSUME NEW b \in Boxes, Ask(b) PROVE BoxesMatch'
    <2>1. PICK o \in Offers : OpenDeposit(o.net, b, o.token, o.terms)
      BY <1>1 DEF Ask
    <2>2. PICK box : box = Opened(o.token, o.terms, 2 * timeLock[o.net])
      OBVIOUS
    <2>3. /\ o.net \in Networks /\ deposit[o.net][b].state = "INVALID"
          /\ deposit' = Replace(deposit, o.net, b, box) /\ UNCHANGED withdraw
      BY <2>1, <2>2, Configuration DEF OpenDeposit, Replace, AllOffers
    <2> QED
      BY <2>3, DepositKeepsMatch
  <1>2. ASSUME NEW n \in Networks, NEW b \in Boxes, Answer(n, b) PROVE BoxesMatch'
    <2> DEFINE dep == deposit[Other(n)][b]
    <2>1. dep.state # "INVALID" /\ OpenWithdraw(n, b, TargetToken(Other(n), dep.token), dep.terms)
      BY <1>2 DEF Answer
    <2>2. PICK box : box = Opened(TargetToken(Other(n), dep.token), dep.terms, timeLock[n])
      OBVIOUS
    <2>3. withdraw' = Replace(withdraw, n, b, box) /\ UNCHANGED deposit
      BY <2>1, <2>2 DEF OpenWithdraw, Replace
    <2>4. Matches(box, deposit[Other(n)][b], Other(n))
      BY <2>1, <2>2 DEF Matches, Opened
    <2> QED
      BY <2>3, <2>4, WithdrawKeepsMatch
  <1>3. ASSUME NEW n \in Networks, Invest(n) PROVE BoxesMatch'
    BY <1>3, SameBoxesMatch DEF Invest, DecreaseLiquidity, boxes
  <1>4. ASSUME NEW n \in Networks, Administer(n) PROVE BoxesMatch'
    BY <1>4, SameBoxesMatch DEF Administer, WithdrawTxFee, SetActive, ChangeTimeLock, ChangeRoles
  <1>5. ASSUME NEW n \in Networks, RunScript(n) PROVE BoxesMatch'
    BY <1>5, SameBoxesMatch DEF RunScript, Begin, RegisterTokens, AddLiquidity, Interrupt
  <1>6. CASE Tick \/ UNCHANGED vars
    BY <1>6, SameBoxesMatch DEF Tick, vars
  <1> QED
    BY <1>1, <1>2, <1>3, <1>4, <1>5, <1>6, SettleKeepsMatch DEF Next

LEMMA MatchInit == Init => BoxesMatch
  BY DEF Init, NoBox, BoxesMatch, Matches
(* The first pair of a token: a set of positions has a least one.  The     *)
(* intervals 1 .. x are finite sets, among which one has none within it.   *)
LEMMA FirstOf ==
    ASSUME NEW S \in SUBSET Nat, S # {}
    PROVE  First(S) \in S
  <1> DEFINE upTo == {1 .. x : x \in S}
  <1>1. upTo \subseteq FiniteSubsetsOf(Nat) /\ upTo # {}
    <2>1. ASSUME NEW x \in S PROVE 1 .. x \in SUBSET Nat /\ IsFiniteSet(1 .. x)
      <3>1. x \in Int /\ 1 \in Int
        OBVIOUS
      <3> QED
        BY <3>1, FS_Interval
    <2> QED
      BY <2>1 DEF FiniteSubsetsOf
  <1>2. IsWellFoundedOn(StrictSubsetOrdering(Nat), FiniteSubsetsOf(Nat))
    BY FS_StrictSubsetOrderingWellFounded
  <1> HIDE DEF upTo
  <1>3. PICK T \in upTo : \A U \in upTo : <<U, T>> \notin StrictSubsetOrdering(Nat)
    BY <1>1, <1>2, WFMin
  <1>4. PICK x \in S : T = 1 .. x
    BY <1>3 DEF upTo
  <1>5. ASSUME NEW y \in S, y < x PROVE FALSE
    <2>1. 1 .. y \in upTo
      BY DEF upTo
    <2>2. 1 .. y \subseteq 1 .. x /\ 1 .. y # 1 .. x
      BY <1>5
    <2>3. <<1 .. y, 1 .. x>> \in StrictSubsetOrdering(Nat)
      BY <2>2 DEF StrictSubsetOrdering
    <2> QED
      BY <1>3, <1>4, <2>1, <2>3
  <1>6. \A y \in S : x <= y
    BY <1>5
  <1> QED
    BY <1>6 DEF First

(* A token of a pair that shares no token is the target of its partner     *)
(* only.                                                                   *)
LEMMA TargetOfAlone ==
    ASSUME NEW n \in Networks, NEW i \in DOMAIN TokenPairs, Alone(i), NEW token \in Tokens,
           TargetToken(Other(n), token) = TokenPairs[i][n]
    PROVE  token = TokenPairs[i][Other(n)]
  <1>1. Other(n) \in Networks /\ Other(Other(n)) = n
    BY Others
  <1>2. TokenPairs[i][n] \in Tokens
    BY Pairs
  <1>3. PairsOf(Other(n), token) # {}
    BY <1>1, <1>2, Configuration DEF TargetToken
  <1>4. PICK j : j = First(PairsOf(Other(n), token))
    OBVIOUS
  <1>5. PairsOf(Other(n), token) \in SUBSET Nat
    BY Pairs DEF PairsOf
  <1>6. j \in PairsOf(Other(n), token)
    BY <1>3, <1>4, <1>5, FirstOf
  <1>7. j \in DOMAIN TokenPairs /\ TokenPairs[j][Other(n)] = token
    BY <1>6 DEF PairsOf
  <1>8. TokenPairs[j][n] = TokenPairs[i][n]
    BY <1>1, <1>3, <1>4 DEF TargetToken
  <1>9. j = i
    BY <1>7, <1>8 DEF Alone
  <1> QED
    BY <1>7, <1>9

(* What a contract has paid of a token of the pair, the other one has kept *)
(* of its partner.                                                         *)
LEMMA PaidIsKept ==
    ASSUME TypeOK, BoxesMatch, \A n \in Networks, b \in Boxes : Repaid(n, b),
           NEW i \in DOMAIN TokenPairs, Alone(i), NEW n \in Networks
    PROVE  InBoxes(withdraw[n], TokenPairs[i][n], {"CLOSED"})
             <= InBoxes(deposit[Other(n)], TokenPairs[i][Other(n)], {"CLOSED"})
  <1> DEFINE paid == [b \in Boxes |-> Amounts(withdraw[n][b], TokenPairs[i][n], {"CLOSED"})]
             kept == [b \in Boxes |->
                         Amounts(deposit[Other(n)][b], TokenPairs[i][Other(n)], {"CLOSED"})]
  <1>0. Other(n) \in Networks /\ TokenPairs[i][n] \in Tokens /\ TokenPairs[i][Other(n)] \in Tokens
    BY Others, Pairs
  <1>1. PICK states : states = {"CLOSED"}
    OBVIOUS
  <1>2. "INVALID" \notin states
    BY <1>1
  <1>3. AllHeld(withdraw[n]) /\ AllHeld(deposit[Other(n)])
    BY <1>0, BoxesAreHeld
  <1>4. /\ [b \in Boxes |-> Amounts(withdraw[n][b], TokenPairs[i][n], states)] \in [Boxes -> Nat]
        /\ [b \in Boxes |-> Amounts(deposit[Other(n)][b], TokenPairs[i][Other(n)], states)]
              \in [Boxes -> Nat]
    BY <1>0, <1>2, <1>3, AmountsType
  <1>5. paid \in [Boxes -> Nat] /\ kept \in [Boxes -> Nat]
    BY <1>1, <1>4
  <1>6. ASSUME NEW b \in Boxes
        PROVE  Amounts(withdraw[n][b], TokenPairs[i][n], {"CLOSED"})
                 <= Amounts(deposit[Other(n)][b], TokenPairs[i][Other(n)], {"CLOSED"})
    <2>1. CASE withdraw[n][b].state = "CLOSED" /\ withdraw[n][b].token = TokenPairs[i][n]
      <3>1. deposit[Other(n)][b].state = "CLOSED"
        BY <2>1 DEF Repaid
      <3>2. /\ withdraw[n][b].terms = deposit[Other(n)][b].terms
            /\ TargetToken(Other(n), deposit[Other(n)][b].token) = TokenPairs[i][n]
        BY <2>1 DEF BoxesMatch, Matches
      <3>3. deposit[Other(n)][b].token \in Tokens /\ deposit[Other(n)][b].terms.amount \in Nat
        BY <1>3, <3>1, HeldTerms DEF AllHeld
      <3>4. deposit[Other(n)][b].token = TokenPairs[i][Other(n)]
        BY <3>2, <3>3, TargetOfAlone
      <3> QED
        BY <2>1, <3>1, <3>2, <3>3, <3>4 DEF Amounts
    <2>2. CASE ~(withdraw[n][b].state = "CLOSED" /\ withdraw[n][b].token = TokenPairs[i][n])
      <3>1. Amounts(withdraw[n][b], TokenPairs[i][n], {"CLOSED"}) = 0
        BY <2>2 DEF Amounts
      <3>2. kept[b] \in Nat /\ kept[b] = Amounts(deposit[Other(n)][b], TokenPairs[i][Other(n)], {"CLOSED"})
        BY <1>5
      <3> HIDE DEF kept
      <3> QED
        BY <3>1, <3>2
    <2> QED
      BY <2>1, <2>2
  <1>7. \A b \in Boxes : paid[b] <= kept[b]
    BY <1>6
  <1>8. InBoxes(withdraw[n], TokenPairs[i][n], {"CLOSED"}) = Total(paid)
        /\ InBoxes(deposit[Other(n)], TokenPairs[i][Other(n)], {"CLOSED"}) = Total(kept)
    BY DEF InBoxes
  <1> HIDE DEF paid, kept
  <1>9. Total(paid) <= Total(kept)
    BY <1>5, <1>7, FiniteIds, TotalMonotone
  <1> QED
    BY <1>8, <1>9

(* A deposit that was kept is open or closed. *)
LEMMA OpenOrClosed ==
    ASSUME NEW box, AllHeld(box), NEW t \in Tokens
    PROVE  InBoxes(box, t, {"OPEN", "CLOSED"}) = InBoxes(box, t, {"OPEN"}) + InBoxes(box, t, {"CLOSED"})
  <1> DEFINE both == [b \in Boxes |-> Amounts(box[b], t, {"OPEN", "CLOSED"})]
             open == [b \in Boxes |-> Amounts(box[b], t, {"OPEN"})]
             closed == [b \in Boxes |-> Amounts(box[b], t, {"CLOSED"})]
  <1>1. \A states : "INVALID" \notin states =>
            [b \in Boxes |-> Amounts(box[b], t, states)] \in [Boxes -> Nat]
    BY AmountsType
  <1>2. "INVALID" \notin {"OPEN", "CLOSED"} /\ "INVALID" \notin {"OPEN"} /\ "INVALID" \notin {"CLOSED"}
    OBVIOUS
  <1>3. both \in [Boxes -> Nat] /\ open \in [Boxes -> Nat] /\ closed \in [Boxes -> Nat]
    BY <1>1, <1>2, Zenon
  <1>4. ASSUME NEW b \in Boxes PROVE both[b] = open[b] + closed[b]
    <2>1. both[b] = Amounts(box[b], t, {"OPEN", "CLOSED"}) /\ open[b] = Amounts(box[b], t, {"OPEN"})
          /\ closed[b] = Amounts(box[b], t, {"CLOSED"})
      OBVIOUS
    <2>2. both[b] \in Nat /\ open[b] \in Nat /\ closed[b] \in Nat
      BY <1>3
    <2> HIDE DEF both, open, closed
    <2>3. CASE box[b].token = t
      BY <2>1, <2>2, <2>3 DEF Amounts
    <2>4. CASE box[b].token # t
      BY <2>1, <2>2, <2>4 DEF Amounts
    <2> QED
      BY <2>3, <2>4
  <1>5. InBoxes(box, t, {"OPEN", "CLOSED"}) = Total(both) /\ InBoxes(box, t, {"OPEN"}) = Total(open)
        /\ InBoxes(box, t, {"CLOSED"}) = Total(closed)
    BY DEF InBoxes
  <1> HIDE DEF both, open, closed
  <1>6. Total(both) = Total(open) + Total(closed)
    BY <1>3, <1>4, FiniteIds, TotalAdd
  <1> QED
    BY <1>5, <1>6

LEMMA Covered == TypeOK /\ BooksBalance /\ BoxesMatch => PairsAreCovered
  <1> SUFFICES ASSUME TypeOK, BooksBalance, BoxesMatch, \A n \in Networks, b \in Boxes : Repaid(n, b),
                      NEW i \in DOMAIN TokenPairs, Alone(i)
               PROVE  Total([n \in Networks |-> balance[n][TokenPairs[i][n]]])
                        >= Total([n \in Networks |-> Provided(n, TokenPairs[i][n])
                                     + InBoxes(deposit[n], TokenPairs[i][n], {"OPEN"})])
    BY DEF PairsAreCovered
  <1> DEFINE has == [n \in Networks |-> balance[n][TokenPairs[i][n]]]
             owes == [n \in Networks |-> Provided(n, TokenPairs[i][n])
                                            + InBoxes(deposit[n], TokenPairs[i][n], {"OPEN"})]
             paid(n) == InBoxes(withdraw[n], TokenPairs[i][n], {"CLOSED"})
             kept(n) == InBoxes(deposit[n], TokenPairs[i][n], {"CLOSED"})
  <1>1. ASSUME NEW n \in Networks
        PROVE  /\ has[n] \in Nat /\ owes[n] \in Nat /\ paid(n) \in Nat /\ kept(n) \in Nat
               /\ has[n] + paid(n) = owes[n] + kept(n)
    <2>0. TokenPairs[i][n] \in Tokens
      BY Pairs
    <2>1. /\ has[n] = balance[n][TokenPairs[i][n]]
          /\ owes[n] = Provided(n, TokenPairs[i][n]) + InBoxes(deposit[n], TokenPairs[i][n], {"OPEN"})
      OBVIOUS
    <2>2. Booked(n, TokenPairs[i][n])
      BY <2>0 DEF BooksBalance, Booked
    <2>3. AllHeld(deposit[n])
      BY BoxesAreHeld
    <2>4. InBoxes(deposit[n], TokenPairs[i][n], {"OPEN", "CLOSED"})
            = InBoxes(deposit[n], TokenPairs[i][n], {"OPEN"}) + kept(n)
      BY <2>0, <2>3, OpenOrClosed
    <2> HIDE DEF has, owes
    <2> QED
      BY <2>0, <2>1, <2>2, <2>4, SumsType DEF Booked
  <1>2. ASSUME NEW n \in Networks PROVE paid(n) <= kept(Other(n))
    BY PaidIsKept
  <1>3. has \in [Networks -> Nat] /\ owes \in [Networks -> Nat]
    <2>1. \A n \in Networks : has[n] \in Nat /\ owes[n] \in Nat
      BY <1>1
    <2> QED
      BY <2>1
  <1>4. CASE Networks = {}
    <2>1. \A n \in Networks : has[n] = 0 /\ owes[n] = 0
      BY <1>4
    <2> HIDE DEF has, owes
    <2>2. Total(has) = 0 /\ Total(owes) = 0
      BY <1>3, <2>1, TotalZero
    <2> QED
      BY <2>2 DEF has, owes
  <1>5. CASE Networks # {}
    <2>1. PICK n : n \in Networks
      BY <1>5
    <2>2. PICK m : m = Other(n)
      OBVIOUS
    <2>3. m \in Networks /\ m # n /\ Other(m) = n /\ Networks = {n, m}
      BY <2>1, <2>2, Others
    <2>4. paid(n) <= kept(m) /\ paid(m) <= kept(n)
      BY <1>2, <2>1, <2>2, <2>3
    <2>5. /\ has[n] \in Nat /\ owes[n] \in Nat /\ has[n] + paid(n) = owes[n] + kept(n)
          /\ has[m] \in Nat /\ owes[m] \in Nat /\ has[m] + paid(m) = owes[m] + kept(m)
          /\ paid(n) \in Nat /\ kept(n) \in Nat /\ paid(m) \in Nat /\ kept(m) \in Nat
      BY <1>1, <2>1, <2>3
    <2>6. has \in [{n, m} -> Nat] /\ owes \in [{n, m} -> Nat]
      BY <1>3, <2>3
    <2> HIDE DEF has, owes, paid, kept
    <2>7. Total(has) = has[n] + has[m] /\ Total(owes) = owes[n] + owes[m]
      BY <2>3, <2>6, TotalTwo
    <2>8. Total(has) >= Total(owes)
      BY <2>4, <2>5, <2>7
    <2> QED
      BY <2>8 DEF has, owes
  <1> QED
    BY <1>4, <1>5

(* When the bridge has collected the deposit of every withdrawal it paid,  *)
(* the two contracts hold, of a pair that shares no token with another,    *)
(* at least what providers brought in and open deposits may take back: for *)
(* any list of pairs, any offers, boxes, providers and amounts.  A withdraw*)
(* box is for a deposit of the other network (BoxesMatch), so the books of *)
(* the two contracts (BooksBalance) add up.                                *)
THEOREM CoveredPairs == Spec => []PairsAreCovered
  <1>1. Init => BoxesMatch
    BY MatchInit
  <1>2. TypeOK /\ BoxesMatch /\ [Next]_vars => BoxesMatch'
    BY NextKeepsMatch
  <1>3. Spec => []BoxesMatch
    BY <1>1, <1>2, TypeCorrect, PTL DEF Spec
  <1>4. TypeOK /\ BooksBalance /\ BoxesMatch => PairsAreCovered
    BY Covered
  <1> QED
    BY <1>3, <1>4, TypeCorrect, BalancedBooks, PTL
=============================================================================
