----------------------------- MODULE BridgeSwap -----------------------------
(***************************************************************************)
(* One bridge, its server and its users: the path of a swap from the       *)
(* deposit box on the source chain to the withdraw box on the target chain *)
(* and back.                                                               *)
(*                                                                         *)
(* A worker is a process that runs BridgeScheduler.work().  It reads the   *)
(* waiting rows once, then handles them one after another; every await of  *)
(* a handler ends an action, so that users, the chains, a second worker    *)
(* and the clock may move between any two of them.                         *)
(*                                                                         *)
(*   pc       what the worker is awaiting                                  *)
(*     "idle"     the next cron tick                                       *)
(*     "loop"     the next row of its snapshot                             *)
(*     "recheck"  openWithdraw, after the deposit box was read             *)
(*     "judge"    the handler has the box it decides on                    *)
(*     "record"   runVMTask has the outcome of a transaction               *)
(*     "settle"   the handler has the result of runVMTask                  *)
(*     "diff"     checkWithdrawIsOpened, between its two updates           *)
(*     "stamp"    updateBridgeProcessTime                                  *)
(*                                                                         *)
(* A lock stands for everything openWithdraw compares: the trader's and    *)
(* the withdraw address and the hash of the key; fee is swapFee + txFee.   *)
(*                                                                         *)
(* An operator Op_Slip states how Op would read with a plausible slip in   *)
(* the code; the README tells which property each of them breaks.          *)
(***************************************************************************)
EXTENDS Integers, FiniteSets

CONSTANTS
    Swaps,            \* ids of lock boxes
    Workers,          \* processes running the bridge scheduler on one database
    Keys, Locks,      \* secret keys and their hashes
    Sha256,           \* the hash of each key
    Terms,            \* [amount, fee, lock] a trader may ask for
    FeeVerdicts,      \* what the fee checks of checkDepositIsOpened may say
    NoSwap, NoRow, NoTerms, NoKey

CONSTANTS
    FeeMul, FeeDiv,            \* Amount.convert between the decimals of the chains
    Pool0,                     \* what the target bridge can pay out at the start
    WithdrawLock, DepositLock, \* time locks of the two bridges
    SourceInterval, TargetInterval, Offset,
    SourceSkew, TargetSkew,    \* chain clock minus server clock
    RetryDelay, MaxRetry,      \* runVMTask: 60 seconds, 3 attempts
    MaxTime, MaxFaults,        \* bounds of the clock and of the faults
    Prompt,                    \* the clock waits for the server and the chains
    LateClose, Outsiders       \* what users do: see CloseWithdraw, ExpireWithdraw, CloseDeposit

BoxStates == {"INVALID", "OPEN", "CLOSED", "EXPIRED"}

(* BridgeProcessStatus, by the network whose interval paces the handler. *)
SourceStatus_NoCollect == {"NONE", "FINISHED_CLOSING_DEPOSIT"}
SourceStatus == {"NONE", "CONFIRMED_CLOSING_WITHDRAW", "FINISHED_CLOSING_DEPOSIT"}
TargetStatus_NoExpiryCheck ==
    {"CONFIRMED_OPENING_DEPOSIT", "FINISHED_OPENING_WITHDRAW",
     "CONFIRMED_OPENING_WITHDRAW", "FINISHED_CLOSING_WITHDRAW",
     "STARTED_EXPIRE_WITHDRAW"}
TargetStatus == {"CONFIRMED_OPENING_DEPOSIT", "FINISHED_OPENING_WITHDRAW",
                 "CONFIRMED_OPENING_WITHDRAW", "FINISHED_CLOSING_WITHDRAW",
                 "STARTED_EXPIRE_WITHDRAW", "FINISHED_EXPIRE_WITHDRAW"}
ActiveStatus == SourceStatus \cup TargetStatus
DoneStatus   == {"CONFIRMED_CLOSING_DEPOSIT", "CONFIRMED_EXPIRE_WITHDRAW"}
ErrorStatus  == {"ERROR_OPENING_DEPOSIT", "ERROR_OPENING_WITHDRAW",
                 "ERROR_CLOSING_WITHDRAW", "ERROR_EXPIRE_WITHDRAW",
                 "ERROR_CLOSING_DEPOSIT"}
Status == ActiveStatus \cup DoneStatus \cup ErrorStatus

(* TaskName of the first call a handler makes, by the status of the row. *)
ReadTask == [NONE                       |-> "CheckDepositIsOpened",
             CONFIRMED_OPENING_DEPOSIT  |-> "CheckDepositIsOpened",
             FINISHED_OPENING_WITHDRAW  |-> "CheckWithdrawIsOpened",
             CONFIRMED_OPENING_WITHDRAW |-> "CheckWithdrawIsOpened",
             FINISHED_CLOSING_WITHDRAW  |-> "CheckWithdrawIsClosed",
             CONFIRMED_CLOSING_WITHDRAW |-> "GetSecretKey",
             FINISHED_CLOSING_DEPOSIT   |-> "CheckDepositIsClosed",
             STARTED_EXPIRE_WITHDRAW    |-> "CheckWithdrawExpire",
             FINISHED_EXPIRE_WITHDRAW   |-> "CheckDepositIsOpened"]

(* TaskName of the transaction a handler sends, the status it leaves       *)
(* behind, and the status it ends in when its retries are used up.         *)
SendTask == [CONFIRMED_OPENING_DEPOSIT  |-> "OpenWithdraw",
             CONFIRMED_OPENING_WITHDRAW |-> "CloseWithdraw",
             STARTED_EXPIRE_WITHDRAW    |-> "ExpireWithdraw",
             CONFIRMED_CLOSING_WITHDRAW |-> "CloseDeposit"]
SentStatus_Confirmed ==
    [CONFIRMED_OPENING_DEPOSIT  |-> "FINISHED_OPENING_WITHDRAW",
     CONFIRMED_OPENING_WITHDRAW |-> "FINISHED_CLOSING_WITHDRAW",
     STARTED_EXPIRE_WITHDRAW    |-> "FINISHED_EXPIRE_WITHDRAW",
     CONFIRMED_CLOSING_WITHDRAW |-> "CONFIRMED_CLOSING_DEPOSIT"]
SentStatus == [CONFIRMED_OPENING_DEPOSIT  |-> "FINISHED_OPENING_WITHDRAW",
               CONFIRMED_OPENING_WITHDRAW |-> "FINISHED_CLOSING_WITHDRAW",
               STARTED_EXPIRE_WITHDRAW    |-> "FINISHED_EXPIRE_WITHDRAW",
               CONFIRMED_CLOSING_WITHDRAW |-> "FINISHED_CLOSING_DEPOSIT"]
GivenUpStatus == [CONFIRMED_OPENING_DEPOSIT  |-> "ERROR_OPENING_WITHDRAW",
                  CONFIRMED_OPENING_WITHDRAW |-> "ERROR_CLOSING_WITHDRAW",
                  STARTED_EXPIRE_WITHDRAW    |-> "ERROR_EXPIRE_WITHDRAW",
                  CONFIRMED_CLOSING_WITHDRAW |-> "ERROR_CLOSING_DEPOSIT"]

SendStatus == DOMAIN SendTask
Tasks == {ReadTask[st] : st \in ActiveStatus} \cup {"CheckWithdrawIsNone"}
            \cup {SendTask[st] : st \in SendStatus}

Box == [state : BoxStates, terms : Terms \cup {NoTerms}, created : Int,
        key : Keys \cup {NoKey}]
NoBox == [state |-> "INVALID", terms |-> NoTerms, created |-> 0, key |-> NoKey]

Row == [status : Status, terms : Terms, key : Keys \cup {NoKey},
        depositState : BoxStates, withdrawState : BoxStates,
        depositCreated : Int, timeDiff : Int, updated : Int,
        posted : Locks]   \* the lock of PostDeposit, no column of the table

Tx == [kind : {SendTask[st] : st \in SendStatus}, swap : Swaps,
       terms : Terms \cup {NoTerms}, key : Keys \cup {NoKey}]

ASSUME BridgeAssumption ==
    /\ Sha256 \in [Keys -> Locks]
    /\ Terms \subseteq [amount : Nat, fee : Nat, lock : Locks]
    /\ NoSwap \notin Swaps /\ NoTerms \notin Terms /\ NoKey \notin Keys
    /\ NoRow \notin Row
    /\ FeeVerdicts \subseteq {"unknown", "low", "fair"}
    /\ FeeMul \in Nat /\ FeeDiv \in Nat \ {0}
    /\ Pool0 \in Nat /\ WithdrawLock \in Nat /\ DepositLock \in Nat
    /\ SourceInterval \in Nat \ {0} /\ TargetInterval \in Nat \ {0}
    /\ Offset \in Nat /\ SourceSkew \in Int /\ TargetSkew \in Int
    /\ RetryDelay \in Nat /\ MaxRetry \in Nat /\ MaxTime \in Nat /\ MaxFaults \in Nat
    /\ {Prompt, LateClose, Outsiders} \subseteq BOOLEAN

VARIABLES
    now,       \* server clock
    deposit,   \* deposit boxes of the source bridge
    withdraw,  \* withdraw boxes of the target bridge
    pool,      \* balance of the target bridge
    pending,   \* transactions accepted by a node and not yet mined
    db,        \* table bridge_swaps
    vm,        \* table bridge_vm_error
    pc, snap, work,  \* a worker: what it awaits, its rows, its local variables
    faults     \* faults so far

chain  == <<deposit, withdraw, pool>>
worker == <<pc, snap, work>>
vars   == <<now, deposit, withdraw, pool, pending, db, vm, pc, snap, work, faults>>

IdleWork == [began |-> 0, swap |-> NoSwap, box |-> NoBox, sent |-> FALSE,
             tries |-> 0, diff |-> 0]

Init ==
    /\ now = 1
    /\ deposit = [s \in Swaps |-> NoBox]
    /\ withdraw = [s \in Swaps |-> NoBox]
    /\ pool = Pool0
    /\ pending = {}
    /\ db = [s \in Swaps |-> NoRow]
    /\ vm = [s \in Swaps |-> [t \in Tasks |-> [tries |-> 0, next |-> 0]]]
    /\ pc = [w \in Workers |-> "idle"]
    /\ snap = [w \in Workers |-> [s \in Swaps |-> NoRow]]
    /\ work = [w \in Workers |-> IdleWork]
    /\ faults = 0

-----------------------------------------------------------------------------
(* The two bridge contracts, as far as one swap sees them.                 *)

SourceClock == now + SourceSkew
TargetClock == now + TargetSkew

TargetFee(t) == (t.fee * FeeMul) \div FeeDiv
Payout(t)    == t.amount - TargetFee(t)

CanOpenWithdraw(s, t) ==
    /\ withdraw[s].state = "INVALID"
    /\ TargetFee(t) < t.amount
    /\ Payout(t) <= pool

CanCloseWithdraw(s, k) ==
    /\ withdraw[s].state = "OPEN"
    /\ withdraw[s].terms.lock = Sha256[k]
    /\ Payout(withdraw[s].terms) <= pool

CanExpireWithdraw_AnyState(s) ==
    /\ withdraw[s].state # "INVALID"
    /\ withdraw[s].created + WithdrawLock <= TargetClock

CanExpireWithdraw(s) ==
    /\ withdraw[s].state = "OPEN"
    /\ withdraw[s].created + WithdrawLock <= TargetClock

CanCloseDeposit(s, k) ==
    /\ deposit[s].state = "OPEN"
    /\ deposit[s].terms.lock = Sha256[k]

CanExpireDeposit(s) ==
    /\ deposit[s].state = "OPEN"
    /\ deposit[s].created + DepositLock <= SourceClock

CloseWithdrawBox_PaysFees(s, k) ==
    /\ withdraw' = [withdraw EXCEPT ![s].state = "CLOSED", ![s].key = k]
    /\ pool' = pool - withdraw[s].terms.amount
    /\ UNCHANGED deposit

CloseWithdrawBox(s, k) ==
    /\ withdraw' = [withdraw EXCEPT ![s].state = "CLOSED", ![s].key = k]
    /\ pool' = pool - Payout(withdraw[s].terms)
    /\ UNCHANGED deposit

ExpireWithdrawBox(s) ==
    /\ withdraw' = [withdraw EXCEPT ![s].state = "EXPIRED"]
    /\ UNCHANGED <<deposit, pool>>

(* A block takes a pending transaction; one that reverts changes nothing.  *)
Succeeds(tx) ==
    \/ tx.kind = "OpenWithdraw"   /\ CanOpenWithdraw(tx.swap, tx.terms)
    \/ tx.kind = "CloseWithdraw"  /\ CanCloseWithdraw(tx.swap, tx.key)
    \/ tx.kind = "ExpireWithdraw" /\ CanExpireWithdraw(tx.swap)
    \/ tx.kind = "CloseDeposit"   /\ CanCloseDeposit(tx.swap, tx.key)

MineOpenWithdraw(tx) ==
    /\ tx.kind = "OpenWithdraw"
    /\ withdraw' = [withdraw EXCEPT ![tx.swap] =
            [state |-> "OPEN", terms |-> tx.terms, created |-> TargetClock, key |-> NoKey]]
    /\ UNCHANGED <<deposit, pool>>

MineCloseWithdraw(tx) ==
    /\ tx.kind = "CloseWithdraw"
    /\ CloseWithdrawBox(tx.swap, tx.key)

MineExpireWithdraw(tx) ==
    /\ tx.kind = "ExpireWithdraw"
    /\ ExpireWithdrawBox(tx.swap)

MineCloseDeposit(tx) ==
    /\ tx.kind = "CloseDeposit"
    /\ deposit' = [deposit EXCEPT ![tx.swap].state = "CLOSED", ![tx.swap].key = tx.key]
    /\ UNCHANGED <<withdraw, pool>>

Mine(tx) ==
    /\ pending' = pending \ {tx}
    /\ IF Succeeds(tx)
       THEN \/ MineOpenWithdraw(tx)   \/ MineCloseWithdraw(tx)
            \/ MineExpireWithdraw(tx) \/ MineCloseDeposit(tx)
       ELSE UNCHANGED chain
    /\ UNCHANGED <<now, db, vm, worker, faults>>

(* A node forgets a transaction it had accepted. *)
Drop(tx) ==
    /\ faults < MaxFaults
    /\ faults' = faults + 1
    /\ pending' = pending \ {tx}
    /\ UNCHANGED <<now, chain, db, vm, worker>>

-----------------------------------------------------------------------------
(* The trader and other users.                                             *)

OpenDeposit(s, t) ==
    /\ deposit[s].state = "INVALID"
    /\ t.fee < t.amount
    /\ deposit' = [deposit EXCEPT ![s] =
            [state |-> "OPEN", terms |-> t, created |-> SourceClock, key |-> NoKey]]
    /\ UNCHANGED <<now, withdraw, pool, pending, db, vm, worker, faults>>

ExpireDeposit(s) ==
    /\ CanExpireDeposit(s)
    /\ deposit' = [deposit EXCEPT ![s].state = "EXPIRED"]
    /\ UNCHANGED <<now, withdraw, pool, pending, db, vm, worker, faults>>

(* Without LateClose no trader closes a box whose lock has run out. *)
CloseWithdraw(s, k) ==
    /\ CanCloseWithdraw(s, k)
    /\ LateClose \/ ~CanExpireWithdraw(s)
    /\ CloseWithdrawBox(s, k)
    /\ UNCHANGED <<now, pending, db, vm, worker, faults>>

(* expireWithdraw has no access control. *)
ExpireWithdraw(s) ==
    /\ Outsiders
    /\ CanExpireWithdraw(s)
    /\ ExpireWithdrawBox(s)
    /\ UNCHANGED <<now, pending, db, vm, worker, faults>>

(* A withdraw box that is closed shows its key, and closeDeposit asks for  *)
(* nothing but the key.                                                    *)
CloseDeposit(s) ==
    /\ Outsiders
    /\ withdraw[s].state = "CLOSED"
    /\ CanCloseDeposit(s, withdraw[s].key)
    /\ deposit' = [deposit EXCEPT ![s].state = "CLOSED", ![s].key = withdraw[s].key]
    /\ UNCHANGED <<now, withdraw, pool, pending, db, vm, worker, faults>>

(* POST /bridge/deposit: the terms are the caller's, the chain is not read. *)
PostDeposit(s, t) ==
    /\ db[s] = NoRow
    /\ db' = [db EXCEPT ![s] =
            [status |-> "NONE", terms |-> t, key |-> NoKey,
             depositState |-> "INVALID", withdrawState |-> "INVALID",
             depositCreated |-> 0, timeDiff |-> 0, updated |-> 0, posted |-> t.lock]]
    /\ UNCHANGED <<now, chain, pending, vm, worker, faults>>

(* POST /bridge/close: the key must open the lock of the row, which is     *)
(* read before and may have been replaced by the deposit's since.          *)
PostSecretKey(s, k) ==
    /\ db[s] # NoRow
    /\ Sha256[k] \in {db[s].posted, db[s].terms.lock}
    /\ db' = [db EXCEPT ![s].key = k]
    /\ UNCHANGED <<now, chain, pending, vm, worker, faults>>

-----------------------------------------------------------------------------
(* The scheduler.                                                          *)

Waiting_Both(r) ==
    /\ r.depositState \in {"INVALID", "OPEN"}
    /\ r.withdrawState \in {"INVALID", "OPEN"}

Waiting(r) ==
    \/ r.depositState \in {"INVALID", "OPEN"}
    \/ r.withdrawState \in {"INVALID", "OPEN"}

Period(t, interval) == (t + Offset) \div interval

(* The row has a handler and a new period of its network has begun. *)
Due(r, t) ==
    \/ /\ r.status \in SourceStatus
       /\ Period(r.updated, SourceInterval) # Period(t, SourceInterval)
    \/ /\ r.status \in TargetStatus
       /\ Period(r.updated, TargetInterval) # Period(t, TargetInterval)

Fetched(s) == db[s] # NoRow /\ Waiting(db[s]) /\ Due(db[s], now)

StartRound(w) ==
    /\ pc[w] = "idle"
    /\ \E s \in Swaps : Fetched(s)
    /\ pc' = [pc EXCEPT ![w] = "loop"]
    /\ snap' = [snap EXCEPT ![w] = [s \in Swaps |-> IF Fetched(s) THEN db[s] ELSE NoRow]]
    /\ work' = [work EXCEPT ![w].began = now]
    /\ UNCHANGED <<now, chain, pending, db, vm, faults>>

Goto(w, l) == pc' = [pc EXCEPT ![w] = l]

(* The row being handled, as it was when the round began. *)
Current(w) == snap[w][work[w].swap]
Handling(w, l, st) == pc[w] = l /\ Current(w).status = st
SetRow(w, r) == db' = [db EXCEPT ![work[w].swap] = r]
SetStatus(w, st) == db' = [db EXCEPT ![work[w].swap].status = st]

(* runVMTask: an earlier failure of this task is younger than the delay. *)
Held(s, task) == vm[s][task].tries > 0 /\ now < vm[s][task].next

Failure(tries) == [tries |-> tries + 1, next |-> now + RetryDelay]

(* runVMTask around a call that reads box b of swap s.  With "answers" the *)
(* contract returns it, otherwise the call reverts; the node may fail too. *)
Read(w, s, task, answers, b, next) ==
    \/ /\ Held(s, task)
       /\ Goto(w, "stamp")
       /\ work' = [work EXCEPT ![w].swap = s]
       /\ UNCHANGED <<vm, faults>>
    \/ /\ ~Held(s, task)
       /\ ~answers \/ faults < MaxFaults
       /\ faults' = IF answers THEN faults + 1 ELSE faults
       /\ vm' = [vm EXCEPT ![s][task] = Failure(vm[s][task].tries)]
       /\ Goto(w, "stamp")
       /\ work' = [work EXCEPT ![w].swap = s]
    \/ /\ ~Held(s, task)
       /\ answers
       /\ vm' = [vm EXCEPT ![s][task] = [tries |-> 0, next |-> 0]]
       /\ Goto(w, next)
       /\ work' = [work EXCEPT ![w].swap = s, ![w].box = b]
       /\ UNCHANGED faults

(* The switch of work() and the first call of the handler it chooses. *)
BeginTask(w, s) ==
    /\ pc[w] = "loop"
    /\ snap[w][s] # NoRow
    /\ LET st == snap[w][s].status IN
       Read(w, s, ReadTask[st],
            st = "CONFIRMED_CLOSING_WITHDRAW" => withdraw[s].state = "CLOSED",
            IF st \in {"NONE", "CONFIRMED_OPENING_DEPOSIT", "FINISHED_CLOSING_DEPOSIT"}
            THEN deposit[s] ELSE withdraw[s],
            IF st = "CONFIRMED_OPENING_DEPOSIT" THEN "recheck" ELSE "judge")
    /\ UNCHANGED <<now, chain, pending, db, snap>>

(* checkDepositIsOpened waits while the gas price or the rate is unknown.  *)
PutOnHold(w, s) ==
    /\ pc[w] = "loop"
    /\ snap[w][s] # NoRow
    /\ snap[w][s].status = "NONE"
    /\ "unknown" \in FeeVerdicts
    /\ Goto(w, "stamp")
    /\ work' = [work EXCEPT ![w].swap = s]
    /\ UNCHANGED <<now, chain, pending, db, vm, snap, faults>>

(* A transaction is refused when the gas estimation reverts, and the node  *)
(* may fail before or after it took the transaction.                       *)
Submit(w, tx, tries) ==
    /\ \/ /\ Succeeds(tx)
          /\ pending' = pending \cup {tx}
          /\ work' = [work EXCEPT ![w].sent = TRUE, ![w].tries = tries]
          /\ UNCHANGED faults
       \/ /\ ~Succeeds(tx)
          /\ work' = [work EXCEPT ![w].sent = FALSE, ![w].tries = tries]
          /\ UNCHANGED <<pending, faults>>
       \/ /\ Succeeds(tx)
          /\ faults < MaxFaults
          /\ faults' = faults + 1
          /\ pending' \in {pending, pending \cup {tx}}
          /\ work' = [work EXCEPT ![w].sent = FALSE, ![w].tries = tries]
    /\ Goto(w, "record")
    /\ UNCHANGED db

(* runVMTask around a transaction: wait, give up, or try. *)
Send(w, tx) ==
    LET s    == work[w].swap
        st   == Current(w).status
        task == SendTask[st]
        usedUp == vm[s][task].tries > 0 /\ vm[s][task].tries >= MaxRetry
    IN \/ /\ Held(s, task)
          /\ Goto(w, "stamp")
          /\ UNCHANGED <<db, pending, work, faults>>
       \/ /\ ~Held(s, task) /\ usedUp
          /\ SetStatus(w, GivenUpStatus[st])
          /\ Goto(w, "stamp")
          /\ UNCHANGED <<pending, work, faults>>
       \/ /\ ~Held(s, task) /\ ~usedUp
          /\ Submit(w, tx, vm[s][task].tries)

(* runVMTask stores the outcome; openWithdraw returns on a failure, the    *)
(* other handlers go on.                                                   *)
Record(w) ==
    LET s  == work[w].swap
        st == Current(w).status
    IN /\ pc[w] = "record"
       /\ vm' = [vm EXCEPT ![s][SendTask[st]] =
                    IF work[w].sent THEN [tries |-> 0, next |-> 0]
                    ELSE Failure(work[w].tries)]
       /\ Goto(w, IF ~work[w].sent /\ st = "CONFIRMED_OPENING_DEPOSIT"
                  THEN "stamp" ELSE "settle")
       /\ UNCHANGED <<now, chain, pending, db, snap, work, faults>>

Settle(w) ==
    /\ pc[w] = "settle"
    /\ SetStatus(w, SentStatus[Current(w).status])
    /\ Goto(w, "stamp")
    /\ UNCHANGED <<now, chain, pending, vm, snap, work, faults>>

StampedRow_Snapshot(w) == [Current(w) EXCEPT !.updated = work[w].began]

StampedRow(w) == [db[work[w].swap] EXCEPT !.updated = work[w].began]

(* updateBridgeProcessTime, then the next row or the end of the round. *)
Stamp(w) ==
    LET s == work[w].swap IN
    /\ pc[w] = "stamp"
    /\ SetRow(w, StampedRow(w))
    /\ snap' = [snap EXCEPT ![w][s] = NoRow]
    /\ IF \E other \in Swaps \ {s} : snap[w][other] # NoRow
       THEN /\ Goto(w, "loop")
            /\ work' = [work EXCEPT ![w] = [IdleWork EXCEPT !.began = work[w].began]]
       ELSE /\ Goto(w, "idle")
            /\ work' = [work EXCEPT ![w] = IdleWork]
    /\ UNCHANGED <<now, chain, pending, vm, faults>>

(* The storage throws, or the process stops and is started again: the rest *)
(* of the round is abandoned.                                              *)
Abort(w) ==
    /\ pc[w] # "idle"
    /\ faults < MaxFaults
    /\ faults' = faults + 1
    /\ Goto(w, "idle")
    /\ snap' = [snap EXCEPT ![w] = [s \in Swaps |-> NoRow]]
    /\ work' = [work EXCEPT ![w] = IdleWork]
    /\ UNCHANGED <<now, chain, pending, db, vm>>

-----------------------------------------------------------------------------
(* The handlers of BOABridgeTasks, from the decision on the box they read. *)

RowOfDeposit_PostedTerms(r, b, st) ==
    [r EXCEPT !.depositState = b.state, !.depositCreated = b.created, !.status = st]

RowOfDeposit(r, b, st) ==
    [r EXCEPT !.terms = b.terms, !.depositState = b.state,
              !.depositCreated = b.created, !.status = st]

TimeLeft_Quarter(b) == 4 * (b.created + DepositLock - now) >= DepositLock

(* At least half of the deposit's lock is left. *)
TimeLeft(b) == 2 * (b.created + DepositLock - now) >= DepositLock

CheckDepositIsOpened(w) ==
    LET b == work[w].box
        r == db[work[w].swap]
    IN /\ Handling(w, "judge", "NONE")
       /\ \/ /\ b.state = "OPEN"
             /\ \E verdict \in FeeVerdicts :
                  \/ verdict = "unknown" /\ UNCHANGED db
                  \/ verdict = "low" /\ SetStatus(w, "ERROR_OPENING_DEPOSIT")
                  \/ /\ verdict = "fair"
                     /\ SetRow(w, RowOfDeposit(r, b, IF TimeLeft(b)
                            THEN "CONFIRMED_OPENING_DEPOSIT" ELSE "ERROR_OPENING_DEPOSIT"))
          \/ /\ b.state \in {"CLOSED", "EXPIRED"}
             /\ SetRow(w, RowOfDeposit(r, b, "ERROR_OPENING_DEPOSIT"))
          \/ b.state = "INVALID" /\ UNCHANGED db
       /\ Goto(w, "stamp")
       /\ UNCHANGED <<now, chain, pending, vm, snap, work, faults>>

(* openWithdraw compares the row with the deposit box, amount and fees     *)
(* aside, before it looks at the withdraw box.                             *)
RecheckDeposit(w) ==
    LET b == work[w].box
        r == Current(w)
        matches == /\ b.state = "OPEN"
                   /\ b.terms.lock = r.terms.lock
                   /\ b.created = r.depositCreated
    IN /\ pc[w] = "recheck"
       /\ IF matches
          THEN /\ Read(w, work[w].swap, "CheckWithdrawIsNone", TRUE,
                       withdraw[work[w].swap], "judge")
               /\ UNCHANGED db
          ELSE /\ SetStatus(w, "ERROR_OPENING_WITHDRAW")
               /\ Goto(w, "stamp")
               /\ UNCHANGED <<vm, work, faults>>
       /\ UNCHANGED <<now, chain, pending, snap>>

OpenWithdraw(w) ==
    LET b == work[w].box
        r == Current(w)
        same == b.terms.amount = r.terms.amount /\ b.terms.lock = r.terms.lock
    IN /\ Handling(w, "judge", "CONFIRMED_OPENING_DEPOSIT")
       /\ IF b.state = "INVALID"
          THEN Send(w, [kind |-> "OpenWithdraw", swap |-> work[w].swap,
                        terms |-> r.terms, key |-> NoKey])
          ELSE /\ SetStatus(w, IF same THEN "FINISHED_OPENING_WITHDRAW"
                               ELSE "ERROR_OPENING_WITHDRAW")
               /\ Goto(w, "stamp")
               /\ UNCHANGED <<pending, work, faults>>
       /\ UNCHANGED <<now, chain, vm, snap>>

CheckWithdrawIsOpened(w) ==
    LET b == work[w].box
        r == db[work[w].swap]
    IN /\ Handling(w, "judge", "FINISHED_OPENING_WITHDRAW")
       /\ IF b.state = "INVALID"
          THEN Goto(w, "stamp") /\ UNCHANGED <<db, work>>
          ELSE /\ SetRow(w, [r EXCEPT !.withdrawState = b.state,
                    !.status = IF b.state = "EXPIRED" THEN "ERROR_OPENING_WITHDRAW"
                               ELSE "CONFIRMED_OPENING_WITHDRAW"])
               /\ work' = [work EXCEPT ![w].diff = b.created - now]
               /\ Goto(w, "diff")
       /\ UNCHANGED <<now, chain, pending, vm, snap, faults>>

UpdateTimeDiff(w) ==
    /\ pc[w] = "diff"
    /\ db' = [db EXCEPT ![work[w].swap].timeDiff = work[w].diff]
    /\ Goto(w, "stamp")
    /\ UNCHANGED <<now, chain, pending, vm, snap, work, faults>>

LooksExpired_ServerClock(w) == work[w].box.created + WithdrawLock < now

(* The withdraw lock has run out, by the server's estimate of chain time. *)
LooksExpired(w) ==
    work[w].box.created + WithdrawLock - Current(w).timeDiff < now

RowOfWithdraw(r, b, st) == [r EXCEPT !.withdrawState = b.state, !.status = st]

CloseWithdrawTask(w) ==
    LET b == work[w].box
        r == Current(w)
    IN /\ Handling(w, "judge", "CONFIRMED_OPENING_WITHDRAW")
       /\ \/ /\ b.state = "CLOSED"
             /\ SetRow(w, RowOfWithdraw(db[work[w].swap], b, "CONFIRMED_CLOSING_WITHDRAW"))
             /\ Goto(w, "stamp")
             /\ UNCHANGED <<pending, work, faults>>
          \/ /\ b.state = "OPEN" /\ LooksExpired(w)
             /\ SetStatus(w, "STARTED_EXPIRE_WITHDRAW")
             /\ Goto(w, "stamp")
             /\ UNCHANGED <<pending, work, faults>>
          \/ /\ b.state # "CLOSED" /\ ~(b.state = "OPEN" /\ LooksExpired(w))
             /\ IF r.key = NoKey
                THEN Goto(w, "stamp") /\ UNCHANGED <<db, pending, work, faults>>
                ELSE Send(w, [kind |-> "CloseWithdraw", swap |-> work[w].swap,
                              terms |-> NoTerms, key |-> r.key])
       /\ UNCHANGED <<now, chain, vm, snap>>

CheckWithdrawIsClosed(w) ==
    LET b == work[w].box
        r == db[work[w].swap]
    IN /\ Handling(w, "judge", "FINISHED_CLOSING_WITHDRAW")
       /\ \/ /\ b.state = "CLOSED"
             /\ SetRow(w, RowOfWithdraw(r, b, "CONFIRMED_CLOSING_WITHDRAW"))
          \/ /\ b.state = "OPEN" /\ LooksExpired(w)
             /\ SetStatus(w, "STARTED_EXPIRE_WITHDRAW")
          \/ /\ b.state = "EXPIRED"
             /\ SetRow(w, RowOfWithdraw(r, b, "ERROR_CLOSING_WITHDRAW"))
          \/ /\ b.state = "INVALID" \/ (b.state = "OPEN" /\ ~LooksExpired(w))
             /\ UNCHANGED db
       /\ Goto(w, "stamp")
       /\ UNCHANGED <<now, chain, pending, vm, snap, work, faults>>

ExpireWithdrawTask(w) ==
    LET b == work[w].box
    IN /\ Handling(w, "judge", "STARTED_EXPIRE_WITHDRAW")
       /\ \/ /\ b.state = "CLOSED"
             /\ SetStatus(w, "CONFIRMED_CLOSING_WITHDRAW")
             /\ Goto(w, "stamp")
             /\ UNCHANGED <<pending, work, faults>>
          \/ /\ b.state = "OPEN"
             /\ Send(w, [kind |-> "ExpireWithdraw", swap |-> work[w].swap,
                         terms |-> NoTerms, key |-> NoKey])
          \/ /\ b.state \in {"INVALID", "EXPIRED"}
             /\ Goto(w, "stamp")
             /\ UNCHANGED <<db, pending, work, faults>>
       /\ UNCHANGED <<now, chain, vm, snap>>

(* The box read is CLOSED: checkSecretKeyWithdraw answered. *)
CloseDepositTask(w) ==
    /\ Handling(w, "judge", "CONFIRMED_CLOSING_WITHDRAW")
    /\ Send(w, [kind |-> "CloseDeposit", swap |-> work[w].swap,
                terms |-> NoTerms, key |-> work[w].box.key])
    /\ UNCHANGED <<now, chain, vm, snap>>

CheckDepositIsClosed(w) ==
    /\ Handling(w, "judge", "FINISHED_CLOSING_DEPOSIT")
    /\ IF work[w].box.state = "CLOSED"
       THEN SetStatus(w, "CONFIRMED_CLOSING_DEPOSIT")
       ELSE UNCHANGED db
    /\ Goto(w, "stamp")
    /\ UNCHANGED <<now, chain, pending, vm, snap, work, faults>>

CheckWithdrawIsExpired(w) ==
    /\ Handling(w, "judge", "FINISHED_EXPIRE_WITHDRAW")
    /\ IF work[w].box.state = "EXPIRED"
       THEN SetStatus(w, "CONFIRMED_EXPIRE_WITHDRAW")
       ELSE UNCHANGED db
    /\ Goto(w, "stamp")
    /\ UNCHANGED <<now, chain, pending, vm, snap, work, faults>>

-----------------------------------------------------------------------------
(* When Prompt, a unit of time is longer than a round and a block.         *)
Tick ==
    /\ now < MaxTime
    /\ Prompt => /\ \A w \in Workers : pc[w] = "idle"
                 /\ pending = {}
                 /\ ~\E s \in Swaps : Fetched(s)
    /\ now' = now + 1
    /\ UNCHANGED <<chain, pending, db, vm, worker, faults>>

Worker(w) ==
    \/ StartRound(w) \/ (\E s \in Swaps : BeginTask(w, s) \/ PutOnHold(w, s))
    \/ CheckDepositIsOpened(w)
    \/ RecheckDeposit(w) \/ OpenWithdraw(w)
    \/ CheckWithdrawIsOpened(w) \/ UpdateTimeDiff(w)
    \/ CloseWithdrawTask(w) \/ CheckWithdrawIsClosed(w)
    \/ ExpireWithdrawTask(w) \/ CheckWithdrawIsExpired(w)
    \/ CloseDepositTask(w) \/ CheckDepositIsClosed(w)
    \/ Record(w) \/ Settle(w) \/ Stamp(w)

User(s) ==
    \/ \E t \in Terms : OpenDeposit(s, t) \/ PostDeposit(s, t)
    \/ \E k \in Keys : PostSecretKey(s, k) \/ CloseWithdraw(s, k)
    \/ ExpireDeposit(s) \/ ExpireWithdraw(s) \/ CloseDeposit(s)

Next ==
    \/ \E w \in Workers : Worker(w) \/ Abort(w)
    \/ \E s \in Swaps : User(s)
    \/ \E tx \in pending : Mine(tx) \/ Drop(tx)
    \/ Tick

Spec == Init /\ [][Next]_vars

(* Workers run while the process is up, blocks take what nodes hold, time  *)
(* passes; nothing obliges a user.                                         *)
FairSpec ==
    /\ Spec
    /\ \A w \in Workers : WF_vars(Worker(w))
    /\ WF_vars(\E tx \in pending : Mine(tx))
    /\ WF_vars(Tick)
=============================================================================
