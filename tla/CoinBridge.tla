----------------------------- MODULE CoinBridge -----------------------------
(***************************************************************************)
(* The contracts of the BOA bridge: BOATokenBridge on EthNet, which moves  *)
(* an ERC20 token, and BOACoinBridge on BizNet, which moves the coin of    *)
(* the network; their state changes are the same.  The module holds lock   *)
(* boxes, liquidity, fees and administration of one contract on each       *)
(* network, with what each contract owns; BridgeSwap looks at a swap from  *)
(* the server's side, this module looks at the money.                      *)
(*                                                                         *)
(* A call that fails a require is reverted and changes nothing: a require  *)
(* is a conjunct.  So is the transfer at the end of a call, which reverts  *)
(* when the contract holds too little.  Boxes of one swap carry one id on  *)
(* both networks.  What users own and allow to be taken is not kept: they  *)
(* pay whenever a call asks them to.                                       *)
(***************************************************************************)
EXTENDS Integers, FiniteSets

CONSTANTS
    Networks,     \* the networks, one contract on each
    Boxes,        \* ids of lock boxes
    Accounts,     \* providers of liquidity and fee managers
    Keys, Locks,  \* secret keys and their hashes
    Sha256,       \* the hash of each key
    Terms,        \* [amount, fee, lock] of the deposits asked for
    FeeMul, FeeDiv,  \* fees in the decimals of a network, from the other's
    Sums,         \* amounts of liquidity moved by one call
    TimeLocks,    \* what changeTimeLock may set
    CollectFee,   \* collectFee of each contract
    FirstManager, \* the fee manager named in the constructor
    NoTerms, NoKey,
    MaxCoins, MaxTime  \* bounds of a contract's balance and of the clock

AllTerms == [amount : Nat, fee : Nat, lock : Locks]
ASSUME TwoNetworks == \E n, m \in Networks : n # m /\ Networks = {n, m}
ASSUME FiniteIds == IsFiniteSet(Boxes) /\ IsFiniteSet(Accounts)
ASSUME SwapTerms == Terms \subseteq AllTerms /\ NoTerms \notin AllTerms
ASSUME Decimals == FeeMul \in [Networks -> Nat] /\ FeeDiv \in [Networks -> Nat \ {0}]
ASSUME ContractSetup ==
    /\ Sha256 \in [Keys -> Locks]
    /\ NoKey \notin Keys
    /\ CollectFee \in [Networks -> BOOLEAN]
    /\ FirstManager \in Accounts
ASSUME Quantities ==
    /\ Sums \subseteq Nat
    /\ TimeLocks \subseteq Nat /\ TimeLocks # {}

VARIABLES
    balance,     \* address(this).balance of each contract
    liquid,      \* liquidBalance
    feeManager,  \* feeManagerAddress
    active,      \* openDeposit is allowed
    timeLock,    \* withdrawTimeLock; depositTimeLock is twice as long
    deposit,     \* depositBoxes and depositBoxStates
    withdraw,    \* withdrawBoxes and withdrawBoxStates
    now          \* block.timestamp

funds == <<balance, liquid>>
boxes == <<deposit, withdraw>>
admin == <<feeManager, active, timeLock>>
vars == <<funds, boxes, admin, now>>

NoBox == [state |-> "INVALID", terms |-> NoTerms, key |-> NoKey, timeLock |-> 0, created |-> 0]
Opened(t, lock) == [state |-> "OPEN", terms |-> t, key |-> NoKey, timeLock |-> lock, created |-> now]
Closed_ForgetsKey(box, k) == [box EXCEPT !.state = "CLOSED"]
Closed(box, k) == [box EXCEPT !.state = "CLOSED", !.key = k]
Expired(box) == [box EXCEPT !.state = "EXPIRED"]

(* Nobody has called a contract yet. *)
Init ==
    /\ balance = [n \in Networks |-> 0]
    /\ liquid = [n \in Networks |-> [a \in Accounts |-> 0]]
    /\ feeManager = [n \in Networks |-> FirstManager]
    /\ active = [n \in Networks |-> TRUE]
    /\ timeLock \in [Networks -> TimeLocks]
    /\ deposit = [n \in Networks |-> [b \in Boxes |-> NoBox]]
    /\ withdraw = [n \in Networks |-> [b \in Boxes |-> NoBox]]
    /\ now = 0

Payout(t) == t.amount - t.fee

(* Balances: what a call moves in, out, or to the fee manager.             *)
Receive(n, coins) == balance' = [balance EXCEPT ![n] = @ + coins]
Transfer(n, coins) ==
    /\ coins <= balance[n]
    /\ balance' = [balance EXCEPT ![n] = @ - coins]
Credit_Always(n, fee) == liquid' = [liquid EXCEPT ![n][feeManager[n]] = @ + fee]
Credit(n, fee) ==
    liquid' = IF CollectFee[n] THEN [liquid EXCEPT ![n][feeManager[n]] = @ + fee] ELSE liquid

Expirable(box) == box.timeLock + box.created <= now

(***************************************************************************)
(* Deposits.                                                               *)
(***************************************************************************)
OpenDeposit(n, b, t) ==
    /\ deposit[n][b].state = "INVALID"
    /\ active[n]
    /\ t.fee < t.amount
    /\ balance[n] + t.amount <= MaxCoins
    /\ Receive(n, t.amount)
    /\ deposit' = [deposit EXCEPT ![n][b] = Opened(t, 2 * timeLock[n])]
    /\ UNCHANGED <<liquid, withdraw, admin, now>>

CanCloseDeposit_AnyState(n, b, k) == deposit[n][b].state # "INVALID" /\ deposit[n][b].terms.lock = Sha256[k]
CanCloseDeposit(n, b, k) == deposit[n][b].state = "OPEN" /\ deposit[n][b].terms.lock = Sha256[k]
CloseDeposit(n, b, k) ==
    /\ CanCloseDeposit(n, b, k)
    /\ Credit(n, deposit[n][b].terms.fee)
    /\ deposit' = [deposit EXCEPT ![n][b] = Closed(@, k)]
    /\ UNCHANGED <<balance, withdraw, admin, now>>

ExpireDeposit(n, b) ==
    /\ deposit[n][b].state = "OPEN"
    /\ Expirable(deposit[n][b])
    /\ Transfer(n, deposit[n][b].terms.amount)
    /\ deposit' = [deposit EXCEPT ![n][b] = Expired(@)]
    /\ UNCHANGED <<liquid, withdraw, admin, now>>

(***************************************************************************)
(* Withdrawals.  openWithdraw is for managers: the server, which opens a   *)
(* withdraw box on the terms of a deposit box it has seen on the other     *)
(* network (BridgeSwap).  It converts the fee to the decimals of this      *)
(* network, and not the amount.  The box reserves no coins.                *)
(***************************************************************************)
Converted(n, t) == [amount |-> t.amount, fee |-> (t.fee * FeeMul[n]) \div FeeDiv[n], lock |-> t.lock]
Promised(n, b) ==
    {Converted(n, deposit[m][b].terms) :
        m \in {m \in Networks \ {n} : deposit[m][b].state # "INVALID"}}
OpenWithdraw(n, b, t) ==
    /\ withdraw[n][b].state = "INVALID"
    /\ t.fee < t.amount
    /\ Payout(t) <= balance[n]
    /\ withdraw' = [withdraw EXCEPT ![n][b] = Opened(t, timeLock[n])]
    /\ UNCHANGED <<funds, deposit, admin, now>>

CloseWithdraw(n, b, k) ==
    /\ withdraw[n][b].state = "OPEN"
    /\ withdraw[n][b].terms.lock = Sha256[k]
    /\ Credit(n, withdraw[n][b].terms.fee)
    /\ Transfer(n, Payout(withdraw[n][b].terms))
    /\ withdraw' = [withdraw EXCEPT ![n][b] = Closed(@, k)]
    /\ UNCHANGED <<deposit, admin, now>>

ExpireWithdraw(n, b) ==
    /\ withdraw[n][b].state = "OPEN"
    /\ Expirable(withdraw[n][b])
    /\ withdraw' = [withdraw EXCEPT ![n][b] = Expired(@)]
    /\ UNCHANGED <<funds, deposit, admin, now>>

(***************************************************************************)
(* Liquidity and administration.                                           *)
(***************************************************************************)
IncreaseLiquidity(n, a, coins) ==
    /\ balance[n] + coins <= MaxCoins
    /\ Receive(n, coins)
    /\ liquid' = [liquid EXCEPT ![n][a] = @ + coins]
    /\ UNCHANGED <<boxes, admin, now>>

CanDecrease_AnyAmount(n, a, coins) == coins > 0
CanDecrease(n, a, coins) == coins > 0 /\ coins <= liquid[n][a]
DecreaseLiquidity(n, a, coins) ==
    /\ CanDecrease(n, a, coins)
    /\ Transfer(n, coins)
    /\ liquid' = [liquid EXCEPT ![n][a] = @ - coins]
    /\ UNCHANGED <<boxes, admin, now>>

(* The new manager takes over the old one's balance.  The two assignments  *)
(* are made one after the other: with a new manager who is the old one the *)
(* balance is doubled and then cleared.                                    *)
HandOver_KeepsOld(n, a) == [liquid[n] EXCEPT ![a] = @ + liquid[n][feeManager[n]]]
HandOver(n, a) ==
    [[liquid[n] EXCEPT ![a] = @ + liquid[n][feeManager[n]]] EXCEPT ![feeManager[n]] = 0]
SetFeeManager(n, a) ==
    /\ liquid' = [liquid EXCEPT ![n] = HandOver(n, a)]
    /\ feeManager' = [feeManager EXCEPT ![n] = a]
    /\ UNCHANGED <<balance, boxes, active, timeLock, now>>

SetActive(n, v) ==
    /\ active' = [active EXCEPT ![n] = v]
    /\ UNCHANGED <<funds, boxes, feeManager, timeLock, now>>

ChangeTimeLock(n, lock) ==
    /\ timeLock' = [timeLock EXCEPT ![n] = lock]
    /\ UNCHANGED <<funds, boxes, feeManager, active, now>>

Tick ==
    /\ now < MaxTime
    /\ now' = now + 1
    /\ UNCHANGED <<funds, boxes, admin>>

Trade(n, b) ==
    \/ \E t \in Terms : OpenDeposit(n, b, t)
    \/ \E t \in Promised(n, b) : OpenWithdraw(n, b, t)
    \/ \E k \in Keys : CloseDeposit(n, b, k) \/ CloseWithdraw(n, b, k)
    \/ ExpireDeposit(n, b)
    \/ ExpireWithdraw(n, b)
Invest(n, a) == \E coins \in Sums : IncreaseLiquidity(n, a, coins) \/ DecreaseLiquidity(n, a, coins)
Administer(n) ==
    \/ \E a \in Accounts : SetFeeManager(n, a)
    \/ \E v \in BOOLEAN : SetActive(n, v)
    \/ \E lock \in TimeLocks : ChangeTimeLock(n, lock)

Next ==
    \/ \E n \in Networks :
        \/ \E b \in Boxes : Trade(n, b)
        \/ \E a \in Accounts : Invest(n, a)
        \/ Administer(n)
    \/ Tick

Spec == Init /\ [][Next]_vars
=============================================================================
