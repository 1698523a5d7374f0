------------------------ MODULE BridgeSwapProperties ------------------------
(***************************************************************************)
(* What BridgeSwap is checked and proved against.                          *)
(***************************************************************************)
EXTENDS BridgeSwap

TypeOK ==
    /\ now \in Nat /\ faults \in Nat /\ pool \in Nat
    /\ deposit \in [Swaps -> Box]
    /\ withdraw \in [Swaps -> Box]
    /\ pending \subseteq Tx
    /\ db \in [Swaps -> Row \cup {NoRow}]
    /\ vm \in [Swaps -> [Tasks -> [tries : Nat, next : Nat]]]
    /\ pc \in [Workers -> {"idle", "loop", "recheck", "judge", "record",
                           "settle", "diff", "stamp"}]
    /\ snap \in [Workers -> [Swaps -> Row \cup {NoRow}]]
    /\ work \in [Workers -> [began : Nat, swap : Swaps \cup {NoSwap}, box : Box,
                             sent : BOOLEAN, tries : Nat, diff : Int]]

StatusIn(s, S) == db[s] # NoRow /\ db[s].status \in S

(* What a status of swap s says of the chains. *)
StatusTrue(s, st) ==
    /\ st \in {"CONFIRMED_OPENING_WITHDRAW", "FINISHED_CLOSING_WITHDRAW",
              "STARTED_EXPIRE_WITHDRAW", "FINISHED_EXPIRE_WITHDRAW"}
          => withdraw[s].state # "INVALID"
    /\ st \in {"CONFIRMED_CLOSING_WITHDRAW", "FINISHED_CLOSING_DEPOSIT",
              "CONFIRMED_CLOSING_DEPOSIT"}
          => withdraw[s].state = "CLOSED"
    /\ st = "CONFIRMED_CLOSING_DEPOSIT" => deposit[s].state = "CLOSED"
    /\ st = "CONFIRMED_EXPIRE_WITHDRAW" => withdraw[s].state = "EXPIRED"

(* A confirmed status is never ahead of the chains, though it is written   *)
(* after the read it rests on and other workers, crashes and retries come  *)
(* between: SwapServer and ScheduleServer show these to the user.          *)
StatusMatchesChains ==
    \A s \in Swaps : db[s] # NoRow => StatusTrue(s, db[s].status)

(* Whatever terms a caller posted for the id, the withdraw box is opened   *)
(* on the terms of the deposit box (checkDepositIsOpened overwrites them,  *)
(* openWithdraw sends them).                                               *)
WithdrawOnDepositTerms ==
    \A s \in Swaps : withdraw[s].state # "INVALID" =>
        /\ deposit[s].state # "INVALID"
        /\ withdraw[s].terms = deposit[s].terms

(* The bridge never keeps a deposit it has not paid out: closeDeposit is   *)
(* sent only with the key that the closed withdraw box revealed.           *)
TraderIsPaid ==
    \A s \in Swaps : deposit[s].state = "CLOSED" =>
        /\ withdraw[s].state = "CLOSED"
        /\ withdraw[s].key = deposit[s].key

(* The filter of getBridgeWaitingSwap never hides a row whose status still *)
(* has a handler.                                                          *)
NoSwapIsForgotten ==
    \A s \in Swaps : StatusIn(s, ActiveStatus) => Waiting(db[s])

(* closeWithdraw and checkWithdrawIsClosed start the expiry only when the  *)
(* target chain's own clock lets the contract expire the box: the server   *)
(* estimates that clock from the time difference it stored.                *)
NeverExpiresEarly ==
    \A s \in Swaps :
        StatusIn(s, {"STARTED_EXPIRE_WITHDRAW", "FINISHED_EXPIRE_WITHDRAW"}) =>
            withdraw[s].created + WithdrawLock <= TargetClock

(* checkDepositIsOpened wants half of the deposit's lock left, so the      *)
(* withdraw lock runs out before the trader can take the deposit back, or  *)
(* later by at most the one period that passes until openWithdraw and by   *)
(* what the source chain's clock is ahead of the server's, since the       *)
(* server takes one for the other.  Both ends are told by one clock.       *)
DepositLockEnds(s) == deposit[s].created - SourceSkew + DepositLock
WithdrawLockEnds(s) == withdraw[s].created - TargetSkew + WithdrawLock
LocksAreNested ==
    \A s \in Swaps : withdraw[s].state # "INVALID" =>
        WithdrawLockEnds(s) <= DepositLockEnds(s) + TargetInterval + SourceSkew

StatusEdges ==
    {<<"NONE", "CONFIRMED_OPENING_DEPOSIT">>, <<"NONE", "ERROR_OPENING_DEPOSIT">>,
     <<"CONFIRMED_OPENING_DEPOSIT", "FINISHED_OPENING_WITHDRAW">>,
     <<"CONFIRMED_OPENING_DEPOSIT", "ERROR_OPENING_WITHDRAW">>,
     <<"FINISHED_OPENING_WITHDRAW", "CONFIRMED_OPENING_WITHDRAW">>,
     <<"FINISHED_OPENING_WITHDRAW", "ERROR_OPENING_WITHDRAW">>,
     <<"CONFIRMED_OPENING_WITHDRAW", "CONFIRMED_CLOSING_WITHDRAW">>,
     <<"CONFIRMED_OPENING_WITHDRAW", "FINISHED_CLOSING_WITHDRAW">>,
     <<"CONFIRMED_OPENING_WITHDRAW", "STARTED_EXPIRE_WITHDRAW">>,
     <<"FINISHED_CLOSING_WITHDRAW", "CONFIRMED_CLOSING_WITHDRAW">>,
     <<"FINISHED_CLOSING_WITHDRAW", "STARTED_EXPIRE_WITHDRAW">>,
     <<"FINISHED_CLOSING_WITHDRAW", "ERROR_CLOSING_WITHDRAW">>,
     <<"STARTED_EXPIRE_WITHDRAW", "CONFIRMED_CLOSING_WITHDRAW">>,
     <<"STARTED_EXPIRE_WITHDRAW", "FINISHED_EXPIRE_WITHDRAW">>,
     <<"FINISHED_EXPIRE_WITHDRAW", "CONFIRMED_EXPIRE_WITHDRAW">>,
     <<"CONFIRMED_CLOSING_WITHDRAW", "FINISHED_CLOSING_DEPOSIT">>,
     <<"FINISHED_CLOSING_DEPOSIT", "CONFIRMED_CLOSING_DEPOSIT">>}
    (* runVMTask gives up, after crashes that kept failures from being settled *)
    \cup {<<"CONFIRMED_OPENING_WITHDRAW", "ERROR_CLOSING_WITHDRAW">>,
          <<"STARTED_EXPIRE_WITHDRAW", "ERROR_EXPIRE_WITHDRAW">>,
          <<"CONFIRMED_CLOSING_WITHDRAW", "ERROR_CLOSING_DEPOSIT">>}

(* With one worker a status only moves along the edges of the protocol,    *)
(* whatever crashes, failed updates and retries: a row never goes back,    *)
(* and an ended swap stays ended.                                          *)
StatusFollowsProtocol ==
    [][\A s \in Swaps : db[s] # NoRow /\ db'[s].status # db[s].status =>
            <<db[s].status, db'[s].status>> \in StatusEdges]_db

(* BridgeSwap implements AtomicSwap.                                       *)
Abstract(b) == [state |-> b.state, terms |-> b.terms, key |-> b.key]

Atomic == INSTANCE AtomicSwap WITH
    deposit  <- [s \in Swaps |-> Abstract(deposit[s])],
    withdraw <- [s \in Swaps |-> Abstract(withdraw[s])]

(* Each step of server, chains and users is a step of the atomic swap or   *)
(* none at all: deposits are collected only after the payout, with its key *)
(* (closeDeposit), payouts are reserved only on opened deposits' terms.    *)
ImplementsAtomicSwap == Atomic!Spec
-----------------------------------------------------------------------------
(* The inductive invariant: what a row, a snapshot, a box in a handler's   *)
(* hands and a transaction in a node's say of the chains, each possibly    *)
(* long after it was written, read or sent.  It holds because boxes only   *)
(* move forward: INVALID, OPEN, then CLOSED or EXPIRED for ever.           *)

DepositOpened(s)  == deposit[s].state # "INVALID"
WithdrawOpened(s) == withdraw[s].state # "INVALID"

ChainsTrue ==
    \A s \in Swaps :
        /\ DepositOpened(s) => deposit[s].terms \in Terms
        /\ WithdrawOpened(s) => DepositOpened(s) /\ withdraw[s].terms = deposit[s].terms
        /\ deposit[s].state = "CLOSED" =>
                withdraw[s].state = "CLOSED" /\ withdraw[s].key = deposit[s].key

RowTrue(s, r) ==
    /\ r.status = "CONFIRMED_OPENING_DEPOSIT" => DepositOpened(s) /\ r.terms = deposit[s].terms
    /\ StatusTrue(s, r.status)

DepositBoxTrue(s, b) ==
    /\ b.state # "INVALID" => DepositOpened(s) /\ b.terms = deposit[s].terms
    /\ b.state = "CLOSED" => deposit[s].state = "CLOSED"

WithdrawBoxTrue(s, b) ==
    /\ b.state # "INVALID" => WithdrawOpened(s)
    /\ b.state = "CLOSED" => withdraw[s].state = "CLOSED" /\ withdraw[s].key = b.key
    /\ b.state = "EXPIRED" => withdraw[s].state = "EXPIRED"

TxTrue(tx) ==
    /\ tx.kind = "OpenWithdraw" =>
            DepositOpened(tx.swap) /\ tx.terms = deposit[tx.swap].terms
    /\ tx.kind = "CloseWithdraw" => tx.key \in Keys
    /\ tx.kind = "CloseDeposit" =>
            withdraw[tx.swap].state = "CLOSED" /\ withdraw[tx.swap].key = tx.key

RowsTrue    == \A s \in Swaps : db[s] # NoRow => RowTrue(s, db[s])
PendingTrue == \A tx \in pending : TxTrue(tx)

SnapshotsTrue ==
    \A w \in Workers, s \in Swaps : snap[w][s] # NoRow =>
        /\ db[s] # NoRow
        /\ snap[w][s].status \in ActiveStatus
        /\ RowTrue(s, snap[w][s])

(* Job k of a worker at l that handles swap k.swap by row r. *)
JobTrue(l, k, r) ==
    l \notin {"idle", "loop"} =>
        /\ k.swap \in Swaps
        /\ r # NoRow
        /\ l = "recheck" =>
                r.status = "CONFIRMED_OPENING_DEPOSIT" /\ DepositBoxTrue(k.swap, k.box)
        /\ l = "judge" =>
                /\ r.status \in {"NONE", "FINISHED_CLOSING_DEPOSIT"}
                        => DepositBoxTrue(k.swap, k.box)
                /\ r.status \notin {"NONE", "FINISHED_CLOSING_DEPOSIT"}
                        => WithdrawBoxTrue(k.swap, k.box)
                /\ r.status = "CONFIRMED_CLOSING_WITHDRAW" => k.box.state = "CLOSED"
        /\ l \in {"record", "settle"} => r.status \in SendStatus

JobsTrue == \A w \in Workers : JobTrue(pc[w], work[w], Current(w))

(* Everything the server has written, read or sent is still true of the    *)
(* chains when it is used.                                                 *)
IInv == /\ TypeOK /\ ChainsTrue /\ RowsTrue
        /\ PendingTrue /\ SnapshotsTrue /\ JobsTrue
-----------------------------------------------------------------------------
(* Why no expiry starts early.  A box carries a time of the target chain   *)
(* that is not ahead of it, so a time difference that was taken from a box *)
(* is never above TargetSkew; the 0 a row is posted with may be.  While a  *)
(* withdraw box is open the row has a time difference of its own, or       *)
(* checkWithdrawIsOpened is between its two updates.                       *)

AwaitsClose  == {"CONFIRMED_OPENING_WITHDRAW", "FINISHED_CLOSING_WITHDRAW"}
AwaitsExpiry == {"STARTED_EXPIRE_WITHDRAW", "FINISHED_EXPIRE_WITHDRAW"}

Dated(r)    == r.timeDiff <= TargetSkew
Dating(s)   == \E w \in Workers : pc[w] = "diff" /\ work[w].swap = s
LockOver(s) == withdraw[s].created + WithdrawLock <= TargetClock

BoxesDated == \A s \in Swaps : WithdrawOpened(s) => withdraw[s].created <= TargetClock

RowDated(s, r) ==
    /\ TargetSkew >= 0 => Dated(r)
    /\ r.status \in AwaitsClose => Dated(r) \/ Dating(s)
    /\ r.status \in AwaitsExpiry => LockOver(s)

RowsDated == \A s \in Swaps : db[s] # NoRow => RowDated(s, db[s])

SnapshotDated(s, r) ==
    /\ r.status \in AwaitsClose => Dated(r) /\ Dated(db[s])
    /\ r.status \in AwaitsExpiry => LockOver(s)

SnapshotsDated ==
    \A w \in Workers, s \in Swaps : snap[w][s] # NoRow => SnapshotDated(s, snap[w][s])

JobDated(l, k, r) ==
    /\ l = "judge" /\ r.status \in AwaitsClose \cup {"FINISHED_OPENING_WITHDRAW"}
            /\ k.box.state # "INVALID"
        => k.box.created = withdraw[k.swap].created
    /\ l = "diff" => k.diff <= TargetSkew

JobsDated == \A w \in Workers : JobDated(pc[w], work[w], Current(w))

DatesTrue == BoxesDated /\ RowsDated /\ SnapshotsDated /\ JobsDated
-----------------------------------------------------------------------------
(* Why the locks are nested, as long as the server is in time.  The row of *)
(* a confirmed deposit was written with half of the deposit's lock left,   *)
(* and is fetched in the next period of the target chain; the withdraw box *)
(* is opened then, or refused for ever: the pool of the bridge only falls, *)
(* and a box is opened once.                                               *)

EarlyAt(s, t) == 2 * (deposit[s].created + DepositLock - t) >= DepositLock
InTime(s)     == EarlyAt(s, now - TargetInterval)
Refused(s)    == DepositOpened(s) /\ ~CanOpenWithdraw(s, deposit[s].terms)

NestedBox(s) ==
    /\ 0 <= Payout(withdraw[s].terms)
    /\ withdraw[s].created - TargetSkew + WithdrawLock
            <= deposit[s].created + DepositLock + TargetInterval

BoxesNested == \A s \in Swaps : WithdrawOpened(s) => NestedBox(s)

TxInTime == \A tx \in pending : tx.kind = "OpenWithdraw" => InTime(tx.swap)

(* No read is held back, and openWithdraw only where it is hopeless. *)
VmInTime ==
    \A s \in Swaps :
        /\ \A task \in {"CheckDepositIsOpened", "CheckWithdrawIsNone"} : vm[s][task].tries = 0
        /\ vm[s]["OpenWithdraw"].tries > 0 => Refused(s)

(* The worker has written row s, and has not stamped it yet. *)
Written(w, s) == pc[w] \in {"diff", "stamp"} /\ work[w].swap = s

ToOpen(r) == r # NoRow /\ r.status = "CONFIRMED_OPENING_DEPOSIT"

RowInTime(s, r) ==
    ToOpen(r) /\ (\A w \in Workers : ~Written(w, s)) =>
        /\ r.depositState = "OPEN"
        /\ Refused(s) \/ (EarlyAt(s, r.updated) /\ now <= r.updated + TargetInterval)

RowsInTime == \A s \in Swaps : RowInTime(s, db[s])

SnapshotsInTime ==
    \A w \in Workers, s \in Swaps :
        pc[w] # "idle" /\ ToOpen(snap[w][s]) => Refused(s) \/ InTime(s)

JobInTime(l, k, r) ==
    /\ l # "idle" => k.began = now
    /\ l = "judge" /\ r.status = "NONE" /\ k.box.state # "INVALID"
            => k.box.created = deposit[k.swap].created
    /\ l = "record" /\ ToOpen(r) /\ ~k.sent => Refused(k.swap)
    /\ l = "diff" => ~ToOpen(db[k.swap])
    /\ l = "stamp" /\ ToOpen(db[k.swap]) =>
            /\ db[k.swap].depositState = "OPEN"
            /\ Refused(k.swap) \/ EarlyAt(k.swap, now)

JobsInTime == \A w \in Workers : JobInTime(pc[w], work[w], Current(w))

ServerInTime ==
    BoxesNested /\ TxInTime /\ VmInTime /\ RowsInTime /\ SnapshotsInTime /\ JobsInTime
=============================================================================
