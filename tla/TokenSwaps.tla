----------------------------- MODULE TokenSwaps -----------------------------
(***************************************************************************)
(* The server between the two contracts of TokenBridge: the rows of type   *)
(* TOKEN in bridge_swaps, in both directions, and TokenBridgeTasks.        *)
(*                                                                         *)
(* A handler is one action here; what may happen between its awaits is the *)
(* subject of BridgeSwap, whose handlers have the same shape.  Here rows   *)
(* of two directions share two contracts, in tokens that the configuration *)
(* pairs, while managers, liquidity and the active flag change.  A read    *)
(* that fails, and a handler that finds nothing to do, change no row and   *)
(* are no steps.                                                           *)
(***************************************************************************)
EXTENDS TokenBridge

CONSTANTS
    LateClose,   \* may a trader close a withdraw box that can expire?
    MaxRetry,    \* refusals after which openWithdraw is given up
    MaxFaults,   \* bound of the number of faults
    MaxChanges,  \* bound of the calls of administrators and providers
    NoRow

ASSUME Server ==
    /\ LateClose \in BOOLEAN
    /\ MaxRetry \in Nat /\ MaxFaults \in Nat /\ MaxChanges \in Nat

VARIABLES
    row,      \* bridge_swaps: a row for each id
    tries,    \* bridge_vm_error: failures of the task OpenWithdraw
    pending,  \* transactions of the manager that nodes hold
    faults,   \* failures of a node so far
    changes   \* calls of administrators and providers so far

server == <<row, tries, pending, faults>>
chains == <<vars, changes>>
allVars == <<chains, server>>

Tx(kind, n, b, token, t, k) ==
    [kind |-> kind, net |-> n, id |-> b, token |-> token, terms |-> t, key |-> k]

Supply(n, token) == ScriptSum * Cardinality(PairsOf(n, token))

(* deploy_bridge, add_manager, register_token and add_liquidity have been  *)
(* run on both networks.                                                   *)
InitSwaps ==
    /\ owner = [n \in Networks |-> Admin]
    /\ admins = [n \in Networks |-> {Admin}]
    /\ managers = [n \in Networks |-> {Manager}]
    /\ registered = [n \in Networks |-> {TokenPairs[i][n] : i \in DOMAIN TokenPairs}]
    /\ balance = [n \in Networks |-> [t \in Tokens |-> Supply(n, t)]]
    /\ liquid = [n \in Networks |-> [t \in Tokens |->
                    [a \in Accounts |-> IF a = Admin THEN Supply(n, t) ELSE 0]]]
    /\ coins = [n \in Networks |-> 0]
    /\ active = [n \in Networks |-> TRUE]
    /\ timeLock \in [Networks -> TimeLocks]
    /\ deposit = [n \in Networks |-> [b \in Boxes |-> NoBox]]
    /\ withdraw = [n \in Networks |-> [b \in Boxes |-> NoBox]]
    /\ script = [n \in Networks |-> NoScript]
    /\ now = 0
    /\ row = [b \in Boxes |-> NoRow]
    /\ tries = [b \in Boxes |-> 0]
    /\ pending = {}
    /\ faults = 0
    /\ changes = 0

(***************************************************************************)
(* The routes.  The caller names terms and a direction; the row takes the  *)
(* terms of the deposit box when the server has seen it.                   *)
(***************************************************************************)
PostDeposit(b, n, t) ==
    /\ row[b] = NoRow
    /\ row' = [row EXCEPT ![b] = [status |-> "NONE", source |-> n, deposit |-> [NoBox EXCEPT !.terms = t],
                                  withdraw |-> "INVALID", key |-> NoKey, timeDiff |-> 0]]
    /\ UNCHANGED <<chains, tries, pending, faults>>

PostSecretKey(b, k) ==
    /\ row[b] # NoRow
    /\ row[b].deposit.terms.lock = Sha256[k]
    /\ row' = [row EXCEPT ![b].key = k]
    /\ UNCHANGED <<chains, tries, pending, faults>>

(***************************************************************************)
(* The manager's transactions.                                             *)
(***************************************************************************)
Succeeds(tx) ==
    \/ tx.kind = "OpenWithdraw" /\ CanOpenWithdraw(tx.net, tx.id, tx.token, tx.terms)
    \/ tx.kind = "CloseWithdraw" /\ CanCloseWithdraw(tx.net, tx.id, tx.key)
    \/ tx.kind = "ExpireWithdraw" /\ CanExpireWithdraw(tx.net, tx.id)
    \/ tx.kind = "CloseDeposit" /\ CanCloseDeposit(tx.net, tx.id, tx.key)

Execute(tx) ==
    \/ tx.kind = "OpenWithdraw" /\ OpenWithdraw(tx.net, tx.id, tx.token, tx.terms)
    \/ tx.kind = "CloseWithdraw" /\ CloseWithdraw(tx.net, tx.id, tx.key)
    \/ tx.kind = "ExpireWithdraw" /\ ExpireWithdraw(tx.net, tx.id)
    \/ tx.kind = "CloseDeposit" /\ CloseDeposit(tx.net, tx.id, tx.key)

(* A block takes it; what has become impossible is reverted.               *)
Mine(tx) ==
    /\ tx \in pending
    /\ pending' = pending \ {tx}
    /\ IF Succeeds(tx) THEN Execute(tx) ELSE UNCHANGED vars
    /\ UNCHANGED <<row, tries, faults, changes>>

Drop(tx) ==
    /\ tx \in pending
    /\ faults < MaxFaults
    /\ faults' = faults + 1
    /\ pending' = pending \ {tx}
    /\ UNCHANGED <<chains, row, tries>>

(* A node refuses what would revert; it may fail before or after it took   *)
(* the transaction.                                                        *)
Send(tx, taken) ==
    \/ /\ taken /\ Succeeds(tx)
       /\ pending' = pending \cup {tx}
       /\ UNCHANGED faults
    \/ /\ ~taken /\ ~Succeeds(tx)
       /\ UNCHANGED <<pending, faults>>
    \/ /\ ~taken /\ Succeeds(tx)
       /\ faults < MaxFaults
       /\ faults' = faults + 1
       /\ pending' \in {pending, pending \cup {tx}}

(***************************************************************************)
(* The handlers of TokenBridgeTasks.                                       *)
(***************************************************************************)
Unfinished(state) == state \in {"INVALID", "OPEN"}
Handles(b, st) ==
    /\ row[b] # NoRow
    /\ row[b].status = st
    /\ Unfinished(row[b].deposit.state) \/ Unfinished(row[b].withdraw)

(* The boxes that the handlers read: the direction of the row says on      *)
(* which network the deposit is.                                           *)
Source(b) == row[b].source
Target(b) == Other(row[b].source)
DepositBox(b) == deposit[Source(b)][b]
WithdrawBox(b) == withdraw[Target(b)][b]

SetStatus(b, st) == row' = [row EXCEPT ![b].status = st]
SentStatus_Confirmed ==
    [OpenWithdraw |-> "FINISHED_OPENING_WITHDRAW", CloseWithdraw |-> "CONFIRMED_CLOSING_WITHDRAW",
     ExpireWithdraw |-> "FINISHED_EXPIRE_WITHDRAW", CloseDeposit |-> "FINISHED_CLOSING_DEPOSIT"]
SentStatus ==
    [OpenWithdraw |-> "FINISHED_OPENING_WITHDRAW", CloseWithdraw |-> "FINISHED_CLOSING_WITHDRAW",
     ExpireWithdraw |-> "FINISHED_EXPIRE_WITHDRAW", CloseDeposit |-> "FINISHED_CLOSING_DEPOSIT"]
Judge(b, st) == SetStatus(b, st) /\ UNCHANGED <<chains, tries, pending, faults>>

TimeLeft(box) == 2 * (box.created + box.timeLock - now) >= box.timeLock
RowOfDeposit_PostedTerms(r, box, st) ==
    [r EXCEPT !.deposit = [box EXCEPT !.terms = r.deposit.terms], !.status = st]
RowOfDeposit(r, box, st) == [r EXCEPT !.deposit = box, !.status = st]
RowOfWithdraw(r, box, st) == [r EXCEPT !.withdraw = box.state, !.status = st]
WithTimeDiff(r, diff) == [r EXCEPT !.timeDiff = diff]

(* The fee is too low or good enough for prices that may be any; while     *)
(* they are unknown nothing is done.                                       *)
CheckDepositIsOpened(b) ==
    LET box == DepositBox(b) IN
    /\ Handles(b, "NONE")
    /\ box.state # "INVALID"
    /\ \/ box.state = "OPEN" /\ SetStatus(b, "ERROR_OPENING_DEPOSIT")
       \/ row' = [row EXCEPT ![b] = RowOfDeposit(@, box,
                    IF box.state = "OPEN" /\ TimeLeft(box)
                    THEN "CONFIRMED_OPENING_DEPOSIT" ELSE "ERROR_OPENING_DEPOSIT")]
    /\ UNCHANGED <<chains, tries, pending, faults>>

IsStill(box, seen) ==
    /\ box.state = "OPEN"
    /\ box.terms.lock = seen.terms.lock
    /\ box.timeLock = seen.timeLock
    /\ box.created = seen.created
SameBox(box, seen) == box.terms.amount = seen.terms.amount /\ box.terms.lock = seen.terms.lock

TokenFor_ByTarget(r) == TargetToken_ByTarget(r.source, r.deposit.token)
TokenFor(r) == TargetToken(r.source, r.deposit.token)
GivenUp(b) == tries[b] >= MaxRetry
OpenWithdrawTask(b) ==
    LET seen  == row[b].deposit
        tx    == Tx("OpenWithdraw", Target(b), b, TokenFor(row[b]), seen.terms, NoKey)
        ready == /\ IsStill(DepositBox(b), seen)
                 /\ WithdrawBox(b).state = "INVALID"
                 /\ TokenFor(row[b]) # NoToken
                 /\ ~GivenUp(b)
    IN  /\ Handles(b, "CONFIRMED_OPENING_DEPOSIT")
        /\ \/ /\ ~ready
              /\ Judge(b, IF /\ IsStill(DepositBox(b), seen)
                             /\ WithdrawBox(b).state # "INVALID"
                             /\ SameBox(WithdrawBox(b), seen)
                          THEN SentStatus["OpenWithdraw"] ELSE "ERROR_OPENING_WITHDRAW")
           \/ /\ ready /\ Send(tx, TRUE)
              /\ SetStatus(b, SentStatus["OpenWithdraw"])
              /\ tries' = [tries EXCEPT ![b] = 0]
              /\ UNCHANGED chains
           \/ /\ ready /\ Send(tx, FALSE)
              /\ tries' = [tries EXCEPT ![b] = @ + 1]
              /\ UNCHANGED <<chains, row>>

CheckWithdrawIsOpened(b) ==
    LET box == WithdrawBox(b) IN
    /\ Handles(b, "FINISHED_OPENING_WITHDRAW")
    /\ box.state # "INVALID"
    /\ row' = [row EXCEPT ![b] = WithTimeDiff(RowOfWithdraw(@, box, IF box.state = "EXPIRED"
                    THEN "ERROR_OPENING_WITHDRAW" ELSE "CONFIRMED_OPENING_WITHDRAW"), box.created - now)]
    /\ UNCHANGED <<chains, tries, pending, faults>>

LooksExpired(b) ==
    /\ WithdrawBox(b).state = "OPEN"
    /\ WithdrawBox(b).created + WithdrawBox(b).timeLock - row[b].timeDiff < now

(* The other transactions are sent once: the status goes on whether a node *)
(* has taken them or not.                                                  *)
SendOnce(b, tx) ==
    /\ \E taken \in BOOLEAN : Send(tx, taken)
    /\ SetStatus(b, SentStatus[tx.kind])
    /\ UNCHANGED <<chains, tries>>

CloseWithdrawTask(b) ==
    LET box == WithdrawBox(b) IN
    /\ Handles(b, "CONFIRMED_OPENING_WITHDRAW")
    /\ \/ /\ box.state = "CLOSED"
          /\ row' = [row EXCEPT ![b] = RowOfWithdraw(@, box, "CONFIRMED_CLOSING_WITHDRAW")]
          /\ UNCHANGED <<chains, tries, pending, faults>>
       \/ /\ LooksExpired(b)
          /\ Judge(b, "STARTED_EXPIRE_WITHDRAW")
       \/ /\ box.state # "CLOSED" /\ ~LooksExpired(b)
          /\ row[b].key # NoKey
          /\ SendOnce(b, Tx("CloseWithdraw", Target(b), b, NoToken, NoTerms, row[b].key))

CheckWithdrawIsClosed(b) ==
    LET box == WithdrawBox(b) IN
    /\ Handles(b, "FINISHED_CLOSING_WITHDRAW")
    /\ \/ LooksExpired(b) /\ Judge(b, "STARTED_EXPIRE_WITHDRAW")
       \/ /\ box.state \in {"CLOSED", "EXPIRED"}
          /\ row' = [row EXCEPT ![b] = RowOfWithdraw(@, box, IF box.state = "CLOSED"
                        THEN "CONFIRMED_CLOSING_WITHDRAW" ELSE "ERROR_CLOSING_WITHDRAW")]
          /\ UNCHANGED <<chains, tries, pending, faults>>

ExpireWithdrawTask(b) ==
    /\ Handles(b, "STARTED_EXPIRE_WITHDRAW")
    /\ \/ WithdrawBox(b).state = "CLOSED" /\ Judge(b, "CONFIRMED_CLOSING_WITHDRAW")
       \/ /\ WithdrawBox(b).state = "OPEN"
          /\ SendOnce(b, Tx("ExpireWithdraw", Target(b), b, NoToken, NoTerms, NoKey))

(* checkSecretKeyWithdraw answers for a closed box only.                   *)
CloseDepositTask(b) ==
    /\ Handles(b, "CONFIRMED_CLOSING_WITHDRAW")
    /\ WithdrawBox(b).state = "CLOSED"
    /\ SendOnce(b, Tx("CloseDeposit", Source(b), b, NoToken, NoTerms, WithdrawBox(b).key))

CheckDepositIsClosed(b) ==
    /\ Handles(b, "FINISHED_CLOSING_DEPOSIT")
    /\ DepositBox(b).state = "CLOSED"
    /\ Judge(b, "CONFIRMED_CLOSING_DEPOSIT")

CheckWithdrawIsExpired(b) ==
    /\ Handles(b, "FINISHED_EXPIRE_WITHDRAW")
    /\ WithdrawBox(b).state = "EXPIRED"
    /\ Judge(b, "CONFIRMED_EXPIRE_WITHDRAW")

Handle(b) ==
    \/ CheckDepositIsOpened(b) \/ OpenWithdrawTask(b)
    \/ CheckWithdrawIsOpened(b) \/ CloseWithdrawTask(b) \/ CheckWithdrawIsClosed(b)
    \/ ExpireWithdrawTask(b) \/ CheckWithdrawIsExpired(b)
    \/ CloseDepositTask(b) \/ CheckDepositIsClosed(b)

(***************************************************************************)
(* Traders and administrators.  The deposit is given away with a key that  *)
(* a closed withdraw box has shown, and not before.                        *)
(***************************************************************************)
Trade(b) ==
    \/ Ask(b)
    \/ \E n \in Networks :
        \/ \E k \in Keys :
            \/ (LateClose \/ ~Expirable(withdraw[n][b])) /\ CloseWithdraw(n, b, k)
            \/ withdraw[Other(n)][b].key = k /\ CloseDeposit(n, b, k)
        \/ ExpireDeposit(n, b)
        \/ ExpireWithdraw(n, b)

Post(b) ==
    \/ \E n \in Networks, o \in Offers : PostDeposit(b, n, o.terms)
    \/ \E k \in Keys : PostSecretKey(b, k)

(* A unit of time is longer than a block takes to come.                    *)
Pass == pending = {} /\ Tick

Change ==
    /\ changes < MaxChanges
    /\ changes' = changes + 1
    /\ \E n \in Networks : Invest(n) \/ Administer(n)

NextSwaps ==
    \/ \E b \in Boxes : Handle(b) \/ Post(b)
    \/ \E tx \in pending : Mine(tx) \/ Drop(tx)
    \/ /\ (\E b \in Boxes : Trade(b)) \/ Pass
       /\ UNCHANGED <<server, changes>>
    \/ Change /\ UNCHANGED server

SpecSwaps == InitSwaps /\ [][NextSwaps]_allVars
=============================================================================
