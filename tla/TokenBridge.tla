----------------------------- MODULE TokenBridge -----------------------------
(***************************************************************************)
(* The contract TokenBridge on two networks: lock boxes for any registered *)
(* ERC20 token, liquidity by token, fees in the coin of the network, and   *)
(* the scripts that set a bridge up.  As in CoinBridge a require is a      *)
(* conjunct, a transfer that would revert too, and users pay whenever a    *)
(* call asks them to.                                                      *)
(*                                                                         *)
(* The configuration lists pairs of tokens, one on each network, that are  *)
(* exchanged one for one.  The same address may be a token on both         *)
(* networks, and be in two pairs.                                          *)
(***************************************************************************)
EXTENDS ManagerAccessControl, Sequences

CONSTANTS
    Tokens,       \* addresses of token contracts
    TokenPairs,   \* token_bridge.token_addresses: a sequence of pairs
    Boxes,        \* ids of lock boxes
    Keys, Locks,  \* secret keys and their hashes
    Sha256,       \* the hash of each key
    Offers,       \* [net, token, terms] of the deposits asked for
    LeastFee,     \* a deposit's fee must exceed it
    Providers,    \* who moves liquidity by hand
    Sums, ScriptSum,  \* amounts of it, and the amount of add_liquidity.ts
    TimeLocks,    \* what changeTimeLock may set
    NoTerms, NoKey, NoToken,
    MaxTokens, MaxTime  \* bounds of a provider's tokens and of the clock

AllTerms == [amount : Nat, fee : Nat, lock : Locks]
AllOffers == [net : Networks, token : Tokens, terms : AllTerms]
ASSUME TwoNetworks == \A n \in Networks : \E m \in Networks : Networks = {n, m} /\ n # m
ASSUME FiniteIds == IsFiniteSet(Boxes) /\ IsFiniteSet(Accounts)
ASSUME Configuration ==
    /\ TokenPairs \in Seq([Networks -> Tokens]) /\ TokenPairs # << >>
    /\ Offers \subseteq AllOffers
    /\ Sha256 \in [Keys -> Locks]
    /\ NoTerms \notin AllTerms /\ NoKey \notin Keys /\ NoToken \notin Tokens
ASSUME Quantities ==
    /\ Sums \cup {ScriptSum} \subseteq Nat
    /\ LeastFee \in Nat
    /\ TimeLocks \subseteq Nat /\ TimeLocks # {}
    /\ Providers \subseteq Accounts

VARIABLES
    registered,  \* tokens with status Registered
    balance,     \* balanceOf(bridge) of each token
    liquid,      \* liquidBalance of each token
    coins,       \* fees paid in the coin of the network
    active,      \* openDeposit is allowed
    timeLock,    \* withdrawTimeLock; depositTimeLock is twice as long
    deposit,     \* depositBoxes and depositBoxStates
    withdraw,    \* withdrawBoxes and withdrawBoxStates
    script,      \* the script an operator runs against a network
    now          \* block.timestamp

settings == <<registered, active, timeLock>>
funds == <<balance, liquid>>
boxes == <<deposit, withdraw>>
vars == <<roles, settings, funds, coins, boxes, script, now>>

Other(n) == CHOOSE m \in Networks : m # n

NoBox == [state |-> "INVALID", token |-> NoToken, terms |-> NoTerms, key |-> NoKey,
          timeLock |-> 0, created |-> 0]
Opened(token, t, lock) ==
    [state |-> "OPEN", token |-> token, terms |-> t, key |-> NoKey, timeLock |-> lock, created |-> now]
Closed(box, k) == [box EXCEPT !.state = "CLOSED", !.key = k]
Expired(box) == [box EXCEPT !.state = "EXPIRED"]
NoScript == [name |-> "none", next |-> 1]

(* deploy_bridge.ts on both networks. *)
Init ==
    /\ RolesInit
    /\ registered = [n \in Networks |-> {}]
    /\ balance = [n \in Networks |-> [t \in Tokens |-> 0]]
    /\ liquid = [n \in Networks |-> [t \in Tokens |-> [a \in Accounts |-> 0]]]
    /\ coins = [n \in Networks |-> 0]
    /\ active = [n \in Networks |-> TRUE]
    /\ timeLock \in [Networks -> TimeLocks]
    /\ deposit = [n \in Networks |-> [b \in Boxes |-> NoBox]]
    /\ withdraw = [n \in Networks |-> [b \in Boxes |-> NoBox]]
    /\ script = [n \in Networks |-> NoScript]
    /\ now = 0

Room(n, token, a, amount) == liquid[n][token][a] + amount <= MaxTokens
Receive(n, token, amount) == balance' = [balance EXCEPT ![n][token] = @ + amount]
Transfer(n, token, amount) ==
    /\ amount <= balance[n][token]
    /\ balance' = [balance EXCEPT ![n][token] = @ - amount]
Expirable(box) == box.timeLock + box.created <= now

(***************************************************************************)
(* Deposits.  The fee is paid in coins, the tokens are the amount.         *)
(***************************************************************************)
OpenDeposit(n, b, token, t) ==
    /\ deposit[n][b].state = "INVALID"
    /\ token \in registered[n]
    /\ active[n]
    /\ t.fee > LeastFee
    /\ Receive(n, token, t.amount)
    /\ coins' = [coins EXCEPT ![n] = @ + t.fee]
    /\ deposit' = [deposit EXCEPT ![n][b] = Opened(token, t, 2 * timeLock[n])]
    /\ UNCHANGED <<roles, settings, liquid, withdraw, script, now>>

CanCloseDeposit_OnlyManager(n, b, k) ==
    Manager \in managers[n] /\ deposit[n][b].state = "OPEN" /\ deposit[n][b].terms.lock = Sha256[k]
CanCloseDeposit_AnyState(n, b, k) ==
    deposit[n][b].state # "INVALID" /\ deposit[n][b].terms.lock = Sha256[k]
CanCloseDeposit(n, b, k) == deposit[n][b].state = "OPEN" /\ deposit[n][b].terms.lock = Sha256[k]
CloseDeposit(n, b, k) ==
    /\ CanCloseDeposit(n, b, k)
    /\ deposit' = [deposit EXCEPT ![n][b] = Closed(@, k)]
    /\ UNCHANGED <<roles, settings, funds, coins, withdraw, script, now>>

ExpireDeposit(n, b) ==
    /\ deposit[n][b].state = "OPEN"
    /\ Expirable(deposit[n][b])
    /\ Transfer(n, deposit[n][b].token, deposit[n][b].terms.amount)
    /\ deposit' = [deposit EXCEPT ![n][b] = Expired(@)]
    /\ UNCHANGED <<roles, settings, liquid, coins, withdraw, script, now>>

(***************************************************************************)
(* Withdrawals.  A manager is the server: it opens a withdraw box for an   *)
(* open deposit box of the other network, in the token paired with the     *)
(* deposit's, for the same amount and lock (TokenSwaps).                   *)
(***************************************************************************)
PairsOf(n, token) == {i \in DOMAIN TokenPairs : TokenPairs[i][n] = token}
First(S) == CHOOSE i \in S : \A j \in S : i <= j

(* getTargetTokenBySource: the first pair of the list that has the token   *)
(* on the source network.                                                  *)
TargetToken_ByTarget(source, token) ==
    IF PairsOf(Other(source), token) = {} THEN NoToken
    ELSE TokenPairs[First(PairsOf(Other(source), token))][Other(source)]
TargetToken(source, token) ==
    IF PairsOf(source, token) = {} THEN NoToken
    ELSE TokenPairs[First(PairsOf(source, token))][Other(source)]

CanOpenWithdraw(n, b, token, t) ==
    /\ Manager \in managers[n]
    /\ withdraw[n][b].state = "INVALID"
    /\ token \in registered[n]
    /\ t.amount <= balance[n][token]
OpenWithdraw(n, b, token, t) ==
    /\ CanOpenWithdraw(n, b, token, t)
    /\ withdraw' = [withdraw EXCEPT ![n][b] = Opened(token, t, timeLock[n])]
    /\ UNCHANGED <<roles, settings, funds, coins, deposit, script, now>>

CanCloseWithdraw(n, b, k) ==
    /\ withdraw[n][b].state = "OPEN"
    /\ withdraw[n][b].terms.lock = Sha256[k]
    /\ withdraw[n][b].terms.amount <= balance[n][withdraw[n][b].token]
CloseWithdraw(n, b, k) ==
    /\ CanCloseWithdraw(n, b, k)
    /\ Transfer(n, withdraw[n][b].token, withdraw[n][b].terms.amount)
    /\ withdraw' = [withdraw EXCEPT ![n][b] = Closed(@, k)]
    /\ UNCHANGED <<roles, settings, liquid, coins, deposit, script, now>>

CanExpireWithdraw_AnyState(n, b) == withdraw[n][b].state # "INVALID" /\ Expirable(withdraw[n][b])
CanExpireWithdraw(n, b) == withdraw[n][b].state = "OPEN" /\ Expirable(withdraw[n][b])
ExpireWithdraw(n, b) ==
    /\ CanExpireWithdraw(n, b)
    /\ withdraw' = [withdraw EXCEPT ![n][b] = Expired(@)]
    /\ UNCHANGED <<roles, settings, funds, coins, deposit, script, now>>

(***************************************************************************)
(* Tokens, liquidity and administration.                                   *)
(***************************************************************************)
CanRegister(n, token) == Manager \in managers[n] /\ token \notin registered[n]
RegisterToken(n, token) ==
    /\ registered' = [registered EXCEPT ![n] = @ \cup {token}]
    /\ UNCHANGED <<active, timeLock, funds>>

CanIncrease(n, token, amount) == token \in registered[n] /\ amount > 0
IncreaseLiquidity(n, token, a, amount) ==
    /\ Receive(n, token, amount)
    /\ liquid' = [liquid EXCEPT ![n][token][a] = @ + amount]
    /\ UNCHANGED settings

CanDecrease_AnyAmount(n, token, a, amount) == token \in registered[n] /\ amount > 0
CanDecrease(n, token, a, amount) ==
    /\ token \in registered[n]
    /\ amount > 0
    /\ amount <= liquid[n][token][a]
DecreaseLiquidity(n, token, a, amount) ==
    /\ CanDecrease(n, token, a, amount)
    /\ Transfer(n, token, amount)
    /\ liquid' = [liquid EXCEPT ![n][token][a] = @ - amount]
    /\ UNCHANGED <<roles, settings, coins, boxes, script, now>>

WithdrawTxFee(n) ==
    /\ Manager \in managers[n]
    /\ coins' = [coins EXCEPT ![n] = 0]
    /\ UNCHANGED <<roles, settings, funds, boxes, script, now>>

SetActive(n, v) ==
    /\ Manager \in managers[n]
    /\ active' = [active EXCEPT ![n] = v]
    /\ UNCHANGED <<roles, registered, timeLock, funds, coins, boxes, script, now>>

ChangeTimeLock(n, lock) ==
    /\ Manager \in managers[n]
    /\ timeLock' = [timeLock EXCEPT ![n] = lock]
    /\ UNCHANGED <<roles, registered, active, funds, coins, boxes, script, now>>

ChangeRoles(n) ==
    /\ \/ AddManager(n, Manager)
       \/ RemoveManager(n, Manager)
       \/ \E a \in Heirs : TransferOwnership(n, a)
    /\ UNCHANGED <<settings, funds, coins, boxes, script, now>>

(***************************************************************************)
(* The scripts.  register_token.ts and add_liquidity.ts send one call for  *)
(* each token, in the order of the list; a call that reverts ends the      *)
(* script, an operator may end it too, and run it again from the start.    *)
(* He runs one script at a time.                                           *)
(***************************************************************************)
Begin(n) ==
    /\ \A m \in Networks : script[m] = NoScript
    /\ \E name \in {"register_token", "add_liquidity"} :
        script' = [script EXCEPT ![n].name = name]
    /\ UNCHANGED <<roles, settings, funds, coins, boxes, now>>

ScriptToken(n) == TokenPairs[script[n].next][n]
Advance(n) ==
    script' = [script EXCEPT ![n] = IF @.next = Len(TokenPairs) THEN NoScript
                                    ELSE [name |-> @.name, next |-> @.next + 1]]
Halt(n) == script' = [script EXCEPT ![n] = NoScript]

RegisterTokens(n) ==
    /\ script[n].name = "register_token"
    /\ IF CanRegister(n, ScriptToken(n))
       THEN RegisterToken(n, ScriptToken(n)) /\ Advance(n)
       ELSE Halt(n) /\ UNCHANGED <<settings, funds>>
    /\ UNCHANGED <<roles, coins, boxes, now>>

AddLiquidity(n) ==
    /\ script[n].name = "add_liquidity"
    /\ Room(n, ScriptToken(n), Admin, ScriptSum)
    /\ IF CanIncrease(n, ScriptToken(n), ScriptSum)
       THEN IncreaseLiquidity(n, ScriptToken(n), Admin, ScriptSum) /\ Advance(n)
       ELSE Halt(n) /\ UNCHANGED <<settings, funds>>
    /\ UNCHANGED <<roles, coins, boxes, now>>

Interrupt(n) ==
    /\ script[n] # NoScript
    /\ Halt(n)
    /\ UNCHANGED <<roles, settings, funds, coins, boxes, now>>

Tick ==
    /\ now < MaxTime
    /\ now' = now + 1
    /\ UNCHANGED <<roles, settings, funds, coins, boxes, script>>

RunScript(n) == Begin(n) \/ RegisterTokens(n) \/ AddLiquidity(n) \/ Interrupt(n)

Ask(b) == \E o \in Offers : OpenDeposit(o.net, b, o.token, o.terms)
Answer(n, b) ==
    /\ deposit[Other(n)][b].state # "INVALID"
    /\ OpenWithdraw(n, b, TargetToken(Other(n), deposit[Other(n)][b].token), deposit[Other(n)][b].terms)
Settle(n, b) ==
    \/ \E k \in Keys : CloseDeposit(n, b, k) \/ CloseWithdraw(n, b, k)
    \/ ExpireDeposit(n, b)
    \/ ExpireWithdraw(n, b)
Invest(n) ==
    \E token \in Tokens, a \in Providers, amount \in Sums :
        \/ /\ CanIncrease(n, token, amount) /\ Room(n, token, a, amount)
           /\ IncreaseLiquidity(n, token, a, amount)
           /\ UNCHANGED <<roles, coins, boxes, script, now>>
        \/ DecreaseLiquidity(n, token, a, amount)
Administer(n) ==
    \/ WithdrawTxFee(n)
    \/ \E v \in BOOLEAN : SetActive(n, v)
    \/ \E lock \in TimeLocks : ChangeTimeLock(n, lock)
    \/ ChangeRoles(n)

Next ==
    \/ \E b \in Boxes : Ask(b)
    \/ \E n \in Networks :
        \/ \E b \in Boxes : Answer(n, b) \/ Settle(n, b)
        \/ Invest(n)
        \/ Administer(n)
        \/ RunScript(n)
    \/ Tick

Spec == Init /\ [][Next]_vars
==============================================================================
