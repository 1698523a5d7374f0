-------------------------- MODULE BridgeSwapProofs --------------------------
(***************************************************************************)
(* For every number of swaps, every key, every time lock, and any clocks:  *)
(*   - for any number of workers and faults, the inductive invariant of    *)
(*     BridgeSwap, the properties it implies and the refinement;           *)
(*   - for one worker, what a status does and that no swap is forgotten;   *)
(*   - that no expiry starts early, and, for one prompt worker without     *)
(*     faults, that the locks are nested.                                  *)
(***************************************************************************)
EXTENDS BridgeSwapProperties, TLAPS

-----------------------------------------------------------------------------
(* Types.                                                                  *)

(* What the target bridge pays out is a number.                            *)
LEMMA PayoutType == \A t \in Terms : TargetFee(t) \in Int /\ Payout(t) \in Int
<1> SUFFICES ASSUME NEW t \in Terms PROVE TargetFee(t) \in Int /\ Payout(t) \in Int
  OBVIOUS
<1>1. t.amount \in Nat /\ t.fee \in Nat
  BY BridgeAssumption
<1>2. t.fee * FeeMul \in Int /\ FeeDiv \in Nat \ {0}
  BY <1>1, BridgeAssumption
<1>3. \A x \in Int, d \in Nat \ {0} : x \div d \in Int
  OBVIOUS
<1>4. TargetFee(t) \in Int
  BY <1>2, <1>3 DEF TargetFee
<1> QED
  BY <1>1, <1>4 DEF Payout

(* A new status keeps a row a row. *)
LEMMA StatusUpdate ==
  ASSUME NEW r \in Row, NEW st \in Status
  PROVE  /\ [r EXCEPT !.status = st] \in Row
         /\ [r EXCEPT !.status = st].status = st
         /\ [r EXCEPT !.status = st].terms = r.terms
BY DEF Row

LEMMA StatusSets ==
  /\ ActiveStatus \subseteq Status /\ SendStatus \subseteq ActiveStatus
  /\ SendStatus = {"CONFIRMED_OPENING_DEPOSIT", "CONFIRMED_OPENING_WITHDRAW",
                   "STARTED_EXPIRE_WITHDRAW", "CONFIRMED_CLOSING_WITHDRAW"}
  /\ DOMAIN ReadTask = ActiveStatus
  /\ \A st \in SendStatus : /\ SentStatus[st] \in Status /\ GivenUpStatus[st] \in ErrorStatus
                            /\ SendTask[st] \in Tasks
  /\ \A st \in ActiveStatus : ReadTask[st] \in Tasks
BY DEF ActiveStatus, Status, SourceStatus, TargetStatus, DoneStatus, ErrorStatus, SendStatus,
       SendTask, SentStatus, GivenUpStatus, ReadTask, Tasks

LEMMA InitInv == Init => IInv
<1> SUFFICES ASSUME Init PROVE IInv
  OBVIOUS
<1>1. NoBox \in Box /\ NoBox.state = "INVALID"
  BY DEF NoBox, Box, BoxStates
<1>2. TypeOK
  BY <1>1, BridgeAssumption DEF Init, TypeOK, IdleWork
<1>3. ChainsTrue
  BY <1>1 DEF Init, ChainsTrue, DepositOpened, WithdrawOpened
<1>4. RowsTrue /\ PendingTrue /\ SnapshotsTrue
  BY DEF Init, RowsTrue, PendingTrue, SnapshotsTrue
<1>5. JobsTrue
  BY DEF Init, JobsTrue, JobTrue
<1> QED
  BY <1>2, <1>3, <1>4, <1>5 DEF IInv

-----------------------------------------------------------------------------
(* Boxes only move forward.                                                *)
BoxesAdvance ==
    \A s \in Swaps :
        /\ DepositOpened(s) => DepositOpened(s)' /\ deposit'[s].terms = deposit[s].terms
        /\ deposit[s].state = "CLOSED" => deposit'[s].state = "CLOSED"
        /\ WithdrawOpened(s) => WithdrawOpened(s)' /\ withdraw'[s].terms = withdraw[s].terms
        /\ withdraw[s].state = "CLOSED" =>
                withdraw'[s].state = "CLOSED" /\ withdraw'[s].key = withdraw[s].key
        /\ withdraw[s].state = "EXPIRED" => withdraw'[s].state = "EXPIRED"

(* What was true of the chains stays true while boxes move forward. *)
LEMMA TruthsStay ==
  ASSUME BoxesAdvance
  PROVE  /\ \A s \in Swaps : \A r : RowTrue(s, r) => RowTrue(s, r)'
         /\ \A s \in Swaps : \A b : DepositBoxTrue(s, b) => DepositBoxTrue(s, b)'
         /\ \A s \in Swaps : \A b : WithdrawBoxTrue(s, b) => WithdrawBoxTrue(s, b)'
         /\ \A tx : tx.swap \in Swaps /\ TxTrue(tx) => TxTrue(tx)'
<1>1. ASSUME NEW s \in Swaps, NEW r, RowTrue(s, r) PROVE RowTrue(s, r)'
  BY <1>1, BoxesAdvance DEF BoxesAdvance, RowTrue, StatusTrue, DepositOpened, WithdrawOpened
<1>2. ASSUME NEW s \in Swaps, NEW b, DepositBoxTrue(s, b) PROVE DepositBoxTrue(s, b)'
  BY <1>2, BoxesAdvance DEF BoxesAdvance, DepositBoxTrue, DepositOpened
<1>3. ASSUME NEW s \in Swaps, NEW b, WithdrawBoxTrue(s, b) PROVE WithdrawBoxTrue(s, b)'
  BY <1>3, BoxesAdvance DEF BoxesAdvance, WithdrawBoxTrue, WithdrawOpened
<1>4. ASSUME NEW tx, tx.swap \in Swaps, TxTrue(tx) PROVE TxTrue(tx)'
  BY <1>4, BoxesAdvance DEF BoxesAdvance, TxTrue, DepositOpened
<1> QED
  BY <1>1, <1>2, <1>3, <1>4

(* A job stays true too, so long as the worker does not move. *)
LEMMA JobsStay ==
  ASSUME BoxesAdvance, NEW l, NEW k, NEW r, JobTrue(l, k, r)
  PROVE  JobTrue(l, k, r)'
BY TruthsStay DEF JobTrue

(* Chains and users that leave the server's state alone.                   *)
LEMMA ChainStep ==
  ASSUME IInv, BoxesAdvance, UNCHANGED <<db, worker>>, pending' \subseteq pending
  PROVE  RowsTrue' /\ PendingTrue' /\ SnapshotsTrue' /\ JobsTrue'
<1> USE DEF IInv, worker
<1>1. RowsTrue'
  BY TruthsStay DEF RowsTrue
<1>2. PendingTrue'
  BY TruthsStay DEF PendingTrue, TypeOK, Tx
<1>3. SnapshotsTrue'
  BY TruthsStay DEF SnapshotsTrue
<1>4. JobsTrue'
  BY JobsStay DEF JobsTrue, Current
<1> QED
  BY <1>1, <1>2, <1>3, <1>4

-----------------------------------------------------------------------------
(* Chains and users.  Each step is shown to advance the boxes and to keep  *)
(* the two chains in agreement.                                            *)
AgreedStep == TypeOK' /\ ChainsTrue' /\ BoxesAdvance

LEMMA OpenDepositStep ==
  ASSUME IInv, NEW s \in Swaps, NEW t \in Terms, OpenDeposit(s, t)
  PROVE  AgreedStep
<1> USE DEF IInv, OpenDeposit
<1>1. [state |-> "OPEN", terms |-> t, created |-> SourceClock, key |-> NoKey] \in Box
  BY BridgeAssumption DEF Box, BoxStates, SourceClock, TypeOK
<1>2. TypeOK'
  BY <1>1 DEF TypeOK, worker
<1>3. withdraw[s].state = "INVALID"
  BY DEF ChainsTrue, WithdrawOpened, DepositOpened
<1>4. ChainsTrue'
  BY <1>3 DEF TypeOK, ChainsTrue, WithdrawOpened, DepositOpened
<1>5. BoxesAdvance
  BY DEF TypeOK, BoxesAdvance, WithdrawOpened, DepositOpened
<1> QED
  BY <1>2, <1>4, <1>5 DEF AgreedStep

(* The deposit box of s leaves OPEN, to be CLOSED only with the key that   *)
(* its closed withdraw box shows.                                          *)
LEMMA DepositEnds ==
  ASSUME IInv, NEW s \in Swaps, NEW state \in {"CLOSED", "EXPIRED"}, NEW k \in Keys \cup {NoKey},
         deposit[s].state = "OPEN",
         state = "CLOSED" => withdraw[s].state = "CLOSED" /\ withdraw[s].key = k,
         deposit' = [deposit EXCEPT ![s] = [deposit[s] EXCEPT !.state = state, !.key = k]],
         UNCHANGED withdraw
  PROVE  deposit' \in [Swaps -> Box] /\ ChainsTrue' /\ BoxesAdvance
<1>1. [deposit[s] EXCEPT !.state = state, !.key = k] \in Box
  <2>1. deposit[s] \in Box
    BY DEF IInv, TypeOK
  <2> QED
    BY <2>1 DEF Box, BoxStates
<1> USE DEF IInv
<1>2. deposit' \in [Swaps -> Box]
  BY <1>1 DEF TypeOK
<1>3. /\ deposit'[s].state = state /\ deposit'[s].key = k
      /\ deposit'[s].terms = deposit[s].terms
      /\ \A other \in Swaps \ {s} : deposit'[other] = deposit[other]
  BY DEF TypeOK, Box
<1>4. ChainsTrue'
  BY <1>3 DEF ChainsTrue, WithdrawOpened, DepositOpened
<1>5. BoxesAdvance
  BY <1>3 DEF BoxesAdvance, WithdrawOpened, DepositOpened
<1> QED
  BY <1>2, <1>4, <1>5

LEMMA ExpireDepositStep ==
  ASSUME IInv, NEW s \in Swaps, ExpireDeposit(s)
  PROVE  AgreedStep
<1> USE DEF IInv, ExpireDeposit, CanExpireDeposit
<1>1. deposit[s].key \in Keys \cup {NoKey}
  BY DEF TypeOK, Box
<1>2. deposit' = [deposit EXCEPT ![s] = [deposit[s] EXCEPT !.state = "EXPIRED", !.key = deposit[s].key]]
  BY DEF TypeOK, Box
<1>3. deposit' \in [Swaps -> Box] /\ ChainsTrue' /\ BoxesAdvance
  BY <1>1, <1>2, DepositEnds
<1>4. TypeOK'
  BY <1>3 DEF TypeOK, worker
<1> QED
  BY <1>3, <1>4 DEF AgreedStep

LEMMA CloseDepositStep ==
  ASSUME IInv, NEW s \in Swaps, CloseDeposit(s)
  PROVE  AgreedStep
<1> USE DEF IInv, CloseDeposit, CanCloseDeposit
<1>1. withdraw[s].key \in Keys \cup {NoKey}
  BY DEF TypeOK, Box
<1>2. deposit' = [deposit EXCEPT ![s] = [deposit[s] EXCEPT !.state = "CLOSED", !.key = withdraw[s].key]]
  BY DEF TypeOK, Box
<1>3. deposit' \in [Swaps -> Box] /\ ChainsTrue' /\ BoxesAdvance
  BY <1>1, <1>2, DepositEnds
<1>4. TypeOK'
  BY <1>3 DEF TypeOK, worker
<1> QED
  BY <1>3, <1>4 DEF AgreedStep

(* The withdraw box of s leaves OPEN. *)
LEMMA WithdrawEnds ==
  ASSUME IInv, NEW s \in Swaps, NEW state \in {"CLOSED", "EXPIRED"}, NEW k \in Keys \cup {NoKey},
         withdraw[s].state = "OPEN",
         withdraw' = [withdraw EXCEPT ![s] = [withdraw[s] EXCEPT !.state = state, !.key = k]],
         UNCHANGED deposit
  PROVE  withdraw' \in [Swaps -> Box] /\ ChainsTrue' /\ BoxesAdvance
<1>1. [withdraw[s] EXCEPT !.state = state, !.key = k] \in Box
  <2>1. withdraw[s] \in Box
    BY DEF IInv, TypeOK
  <2> QED
    BY <2>1 DEF Box, BoxStates
<1> USE DEF IInv
<1>2. withdraw' \in [Swaps -> Box]
  BY <1>1 DEF TypeOK
<1>3. /\ withdraw'[s].state = state /\ withdraw'[s].key = k
      /\ withdraw'[s].terms = withdraw[s].terms
      /\ \A other \in Swaps \ {s} : withdraw'[other] = withdraw[other]
  BY DEF TypeOK, Box
<1>4. ChainsTrue'
  BY <1>3 DEF ChainsTrue, WithdrawOpened, DepositOpened
<1>5. BoxesAdvance
  BY <1>3 DEF BoxesAdvance, WithdrawOpened, DepositOpened
<1> QED
  BY <1>2, <1>4, <1>5

(* A payout never exceeds the pool. *)
LEMMA PayOutBox ==
  ASSUME IInv, NEW s \in Swaps, NEW k \in Keys \cup {NoKey},
         CanCloseWithdraw(s, k), CloseWithdrawBox(s, k)
  PROVE  /\ withdraw' \in [Swaps -> Box] /\ pool' \in Nat /\ deposit' = deposit
         /\ ChainsTrue' /\ BoxesAdvance
<1> USE DEF IInv, CanCloseWithdraw, CloseWithdrawBox
<1>1. withdraw' = [withdraw EXCEPT ![s] = [withdraw[s] EXCEPT !.state = "CLOSED", !.key = k]]
  BY DEF TypeOK, Box
<1>2. withdraw' \in [Swaps -> Box] /\ ChainsTrue' /\ BoxesAdvance
  BY <1>1, WithdrawEnds
<1>3. withdraw[s].terms \in Terms
  BY DEF ChainsTrue, WithdrawOpened
<1>4. Payout(withdraw[s].terms) \in Int
  BY <1>3, PayoutType
<1>5. pool' \in Nat
  BY <1>4 DEF TypeOK
<1> QED
  BY <1>2, <1>5

LEMMA ExpireBox ==
  ASSUME IInv, NEW s \in Swaps, CanExpireWithdraw(s), ExpireWithdrawBox(s)
  PROVE  /\ withdraw' \in [Swaps -> Box] /\ pool' \in Nat /\ deposit' = deposit
         /\ ChainsTrue' /\ BoxesAdvance
<1> USE DEF IInv, CanExpireWithdraw, ExpireWithdrawBox
<1>1. withdraw[s].key \in Keys \cup {NoKey}
  BY DEF TypeOK, Box
<1>2. withdraw' = [withdraw EXCEPT ![s] =
                      [withdraw[s] EXCEPT !.state = "EXPIRED", !.key = withdraw[s].key]]
  BY DEF TypeOK, Box
<1>3. withdraw' \in [Swaps -> Box] /\ ChainsTrue' /\ BoxesAdvance
  BY <1>1, <1>2, WithdrawEnds
<1> QED
  BY <1>3 DEF TypeOK

LEMMA CloseWithdrawStep ==
  ASSUME IInv, NEW s \in Swaps, NEW k \in Keys, CloseWithdraw(s, k)
  PROVE  AgreedStep
<1>1. /\ withdraw' \in [Swaps -> Box] /\ pool' \in Nat /\ deposit' = deposit
      /\ ChainsTrue' /\ BoxesAdvance
  BY PayOutBox DEF CloseWithdraw
<1>2. TypeOK'
  BY <1>1 DEF IInv, TypeOK, CloseWithdraw, worker
<1> QED
  BY <1>1, <1>2 DEF AgreedStep

LEMMA ExpireWithdrawStep ==
  ASSUME IInv, NEW s \in Swaps, ExpireWithdraw(s)
  PROVE  AgreedStep
<1>1. /\ withdraw' \in [Swaps -> Box] /\ pool' \in Nat /\ deposit' = deposit
      /\ ChainsTrue' /\ BoxesAdvance
  BY ExpireBox DEF ExpireWithdraw
<1>2. TypeOK'
  BY <1>1 DEF IInv, TypeOK, ExpireWithdraw, worker
<1> QED
  BY <1>1, <1>2 DEF AgreedStep

(* A block: the transaction is still true of the chains when it is mined.  *)
LEMMA MineStep ==
  ASSUME IInv, NEW tx \in pending, Mine(tx)
  PROVE  AgreedStep
<1> USE DEF IInv
<1>1. tx \in Tx /\ TxTrue(tx)
  BY DEF TypeOK, PendingTrue
<1>2. /\ tx.swap \in Swaps /\ tx.terms \in Terms \cup {NoTerms}
      /\ tx.key \in Keys \cup {NoKey}
  BY <1>1 DEF Tx
<1> DEFINE Kept == /\ deposit' \in [Swaps -> Box] /\ withdraw' \in [Swaps -> Box] /\ pool' \in Nat
                   /\ ChainsTrue' /\ BoxesAdvance
<1>3. ASSUME Succeeds(tx), MineOpenWithdraw(tx) PROVE Kept
  <2>1. /\ withdraw[tx.swap].state = "INVALID"
        /\ DepositOpened(tx.swap) /\ tx.terms = deposit[tx.swap].terms
    BY <1>1, <1>3 DEF Succeeds, MineOpenWithdraw, CanOpenWithdraw, TxTrue
  <2> DEFINE box == [state |-> "OPEN", terms |-> tx.terms, created |-> TargetClock, key |-> NoKey]
  <2>2. box \in Box
    BY <1>2, BridgeAssumption DEF Box, BoxStates, TargetClock, TypeOK
  <2>3. withdraw' = [withdraw EXCEPT ![tx.swap] = box] /\ UNCHANGED <<deposit, pool>>
    BY <1>3 DEF MineOpenWithdraw
  <2>4. withdraw' \in [Swaps -> Box]
    BY <2>2, <2>3 DEF TypeOK
  <2>5. /\ withdraw'[tx.swap].state = "OPEN" /\ withdraw'[tx.swap].terms = tx.terms
        /\ \A other \in Swaps \ {tx.swap} : withdraw'[other] = withdraw[other]
    BY <1>2, <2>3 DEF TypeOK
  <2>6. ChainsTrue'
    BY <2>1, <2>3, <2>5 DEF ChainsTrue, WithdrawOpened, DepositOpened
  <2>7. BoxesAdvance
    BY <2>1, <2>3, <2>5 DEF BoxesAdvance, WithdrawOpened, DepositOpened
  <2> QED
    BY <2>3, <2>4, <2>6, <2>7 DEF TypeOK
<1>4. ASSUME Succeeds(tx), MineCloseWithdraw(tx) PROVE Kept
  <2>1. CanCloseWithdraw(tx.swap, tx.key) /\ CloseWithdrawBox(tx.swap, tx.key)
    BY <1>4 DEF Succeeds, MineCloseWithdraw
  <2> QED
    BY <1>2, <2>1, PayOutBox DEF TypeOK
<1>5. ASSUME Succeeds(tx), MineExpireWithdraw(tx) PROVE Kept
  <2>1. CanExpireWithdraw(tx.swap) /\ ExpireWithdrawBox(tx.swap)
    BY <1>5 DEF Succeeds, MineExpireWithdraw
  <2> QED
    BY <1>2, <2>1, ExpireBox DEF TypeOK
<1>6. ASSUME Succeeds(tx), MineCloseDeposit(tx) PROVE Kept
  <2>1. /\ deposit[tx.swap].state = "OPEN"
        /\ withdraw[tx.swap].state = "CLOSED" /\ withdraw[tx.swap].key = tx.key
    BY <1>1, <1>6 DEF Succeeds, MineCloseDeposit, CanCloseDeposit, TxTrue
  <2>2. deposit' = [deposit EXCEPT ![tx.swap] =
                        [deposit[tx.swap] EXCEPT !.state = "CLOSED", !.key = tx.key]]
    BY <1>2, <1>6 DEF MineCloseDeposit, TypeOK, Box
  <2>3. UNCHANGED <<withdraw, pool>>
    BY <1>6 DEF MineCloseDeposit
  <2> QED
    BY <1>2, <2>1, <2>2, <2>3, DepositEnds DEF TypeOK
<1>7. ASSUME UNCHANGED chain PROVE Kept
  BY <1>7 DEF chain, TypeOK, ChainsTrue, BoxesAdvance, WithdrawOpened, DepositOpened
<1>8. Kept
  BY <1>3, <1>4, <1>5, <1>6, <1>7 DEF Mine
<1>9. TypeOK'
  BY <1>8 DEF Mine, TypeOK, worker
<1> QED
  BY <1>8, <1>9 DEF AgreedStep

(* Nothing happens on the chains. *)
LEMMA StillChains ==
  ASSUME IInv, UNCHANGED chain
  PROVE  ChainsTrue' /\ BoxesAdvance
BY DEF IInv, chain, ChainsTrue, BoxesAdvance, WithdrawOpened, DepositOpened

LEMMA DropStep ==
  ASSUME IInv, NEW tx \in pending, Drop(tx)
  PROVE  AgreedStep
BY StillChains DEF AgreedStep, IInv, Drop, TypeOK, chain, worker

LEMMA TickStep ==
  ASSUME IInv, Tick
  PROVE  AgreedStep
BY StillChains DEF AgreedStep, IInv, Tick, TypeOK, chain, worker

-----------------------------------------------------------------------------
(* The server.  None of its steps touches a box.                           *)

(* Row s is replaced by one that is true of the chains. *)
Rewritten(s) == \E r \in Row : db' = [db EXCEPT ![s] = r] /\ RowTrue(s, r)

LEMMA RewrittenRow ==
  ASSUME IInv, NEW s \in Swaps, Rewritten(s) \/ UNCHANGED db, UNCHANGED chain
  PROVE  /\ db' \in [Swaps -> Row \cup {NoRow}]
         /\ RowsTrue'
         /\ \A x \in Swaps : db[x] # NoRow => db'[x] # NoRow
<1>0. NoRow \notin Row
  BY BridgeAssumption
<1>1. CASE UNCHANGED db
  BY <1>1, StillChains, TruthsStay DEF IInv, TypeOK, RowsTrue
<1>2. CASE Rewritten(s)
  <2>1. PICK r \in Row : db' = [db EXCEPT ![s] = r] /\ RowTrue(s, r)
    BY <1>2 DEF Rewritten
  <2>2. db'[s] = r /\ \A x \in Swaps \ {s} : db'[x] = db[x]
    BY <2>1 DEF IInv, TypeOK
  <2>3. \A x \in Swaps : db'[x] # NoRow => RowTrue(x, db'[x])
    BY <2>1, <2>2 DEF IInv, RowsTrue
  <2>4. RowsTrue'
    BY <2>3, StillChains, TruthsStay DEF RowsTrue
  <2> QED
    BY <1>0, <2>1, <2>2, <2>4 DEF IInv, TypeOK
<1> QED
  BY <1>1, <1>2

(* A status other than CONFIRMED_OPENING_DEPOSIT says nothing of the terms. *)
LEMMA SetStatusRow ==
  ASSUME IInv, NEW w \in Workers, work[w].swap \in Swaps, db[work[w].swap] # NoRow,
         NEW st \in Status, st # "CONFIRMED_OPENING_DEPOSIT",
         StatusTrue(work[w].swap, st), SetStatus(w, st)
  PROVE  Rewritten(work[w].swap)
<1> DEFINE s == work[w].swap
           r == [db[s] EXCEPT !.status = st]
<1>1. db[s] \in Row
  BY DEF IInv, TypeOK
<1>2. r \in Row /\ r.status = st
  BY <1>1, StatusUpdate
<1>3. db' = [db EXCEPT ![s] = r]
  BY DEF SetStatus
<1>4. RowTrue(s, r)
  BY <1>2 DEF RowTrue
<1> QED
  BY <1>2, <1>3, <1>4 DEF Rewritten

(* Everything but the row stands still.                                    *)
LEMMA PostStep ==
  ASSUME IInv, NEW s \in Swaps, Rewritten(s),
         UNCHANGED <<now, chain, pending, vm, worker, faults>>
  PROVE  IInv'
<1>1. /\ db' \in [Swaps -> Row \cup {NoRow}]
      /\ RowsTrue'
      /\ \A x \in Swaps : db[x] # NoRow => db'[x] # NoRow
  BY RewrittenRow
<1>2. ChainsTrue' /\ BoxesAdvance
  BY StillChains
<1>3. TypeOK'
  BY <1>1 DEF IInv, TypeOK, chain, worker
<1>4. PendingTrue'
  BY <1>2, TruthsStay DEF IInv, PendingTrue, TypeOK, Tx
<1>5. SnapshotsTrue'
  BY <1>1, <1>2, TruthsStay DEF IInv, SnapshotsTrue, worker
<1>6. JobsTrue'
  BY <1>2, JobsStay DEF IInv, JobsTrue, Current, worker
<1> QED
  BY <1>1, <1>2, <1>3, <1>4, <1>5, <1>6 DEF IInv

LEMMA PostDepositStep ==
  ASSUME IInv, NEW s \in Swaps, NEW t \in Terms, PostDeposit(s, t)
  PROVE  IInv'
<1> DEFINE r == [status |-> "NONE", terms |-> t, key |-> NoKey,
                 depositState |-> "INVALID", withdrawState |-> "INVALID",
                 depositCreated |-> 0, timeDiff |-> 0, updated |-> 0, posted |-> t.lock]
<1>0. t.lock \in Locks
  BY BridgeAssumption
<1>1. r \in Row /\ RowTrue(s, r)
  BY <1>0, StatusSets DEF Row, BoxStates, RowTrue, StatusTrue, ActiveStatus, SourceStatus
<1>2. Rewritten(s)
  BY <1>1 DEF Rewritten, PostDeposit
<1> QED
  BY <1>2, PostStep DEF PostDeposit

LEMMA PostSecretKeyStep ==
  ASSUME IInv, NEW s \in Swaps, NEW k \in Keys, PostSecretKey(s, k)
  PROVE  IInv'
<1> DEFINE r == [db[s] EXCEPT !.key = k]
<1>1. db[s] \in Row /\ RowTrue(s, db[s])
  BY DEF PostSecretKey, IInv, TypeOK, RowsTrue
<1>2. r \in Row /\ r.status = db[s].status /\ r.terms = db[s].terms
  BY <1>1 DEF Row
<1>3. RowTrue(s, r)
  BY <1>1, <1>2 DEF RowTrue
<1>4. Rewritten(s)
  BY <1>2, <1>3 DEF Rewritten, PostSecretKey
<1> QED
  BY <1>4, PostStep DEF PostSecretKey

-----------------------------------------------------------------------------
(* A worker that keeps its snapshot and goes to l with job k.              *)
LEMMA WorkerStep ==
  ASSUME IInv, NEW w \in Workers, NEW s \in Swaps, NEW l, NEW k,
         Rewritten(s) \/ UNCHANGED db,
         UNCHANGED <<now, chain, snap>>,
         pending' \subseteq Tx, \A tx \in pending' \ pending : TxTrue(tx),
         vm' \in [Swaps -> [Tasks -> [tries : Nat, next : Nat]]], faults' \in Nat,
         pc' = [pc EXCEPT ![w] = l], work' = [work EXCEPT ![w] = k],
         l \in {"recheck", "judge", "record", "settle", "diff", "stamp"},
         k \in [began : Nat, swap : Swaps, box : Box, sent : BOOLEAN, tries : Nat, diff : Int],
         JobTrue(l, k, snap[w][k.swap])
  PROVE  IInv'
<1>1. /\ db' \in [Swaps -> Row \cup {NoRow}]
      /\ RowsTrue'
      /\ \A x \in Swaps : db[x] # NoRow => db'[x] # NoRow
  BY RewrittenRow
<1>2. ChainsTrue' /\ BoxesAdvance
  BY StillChains
<1>3. TypeOK'
  BY <1>1 DEF IInv, TypeOK, chain
<1>4. PendingTrue'
  BY <1>2, TruthsStay DEF IInv, PendingTrue, TypeOK, Tx
<1>5. SnapshotsTrue'
  BY <1>1, <1>2, TruthsStay DEF IInv, SnapshotsTrue
<1>6. JobsTrue'
  <2>1. ASSUME NEW v \in Workers PROVE JobTrue(pc[v], work[v], Current(v))'
    <3>1. CASE v = w
      <4>1. PICK r : r = snap[w][k.swap]
        OBVIOUS
      <4>2. pc'[v] = l /\ work'[v] = k /\ Current(v)' = r
        BY <3>1, <4>1 DEF IInv, TypeOK, Current
      <4>3. JobTrue(l, k, r)'
        BY <1>2, <4>1, JobsStay
      <4> QED
        BY <4>2, <4>3
    <3>2. CASE v # w
      <4>1. pc'[v] = pc[v] /\ work'[v] = work[v] /\ Current(v)' = Current(v)
        BY <3>2 DEF IInv, TypeOK, Current
      <4>2. PICK r : r = Current(v)
        OBVIOUS
      <4>3. JobTrue(pc[v], work[v], r)
        BY <4>2 DEF IInv, JobsTrue
      <4>4. PICK l0, k0 : l0 = pc[v] /\ k0 = work[v]
        OBVIOUS
      <4>5. JobTrue(l0, k0, r)'
        BY <1>2, <4>3, <4>4, JobsStay
      <4> QED
        BY <4>1, <4>2, <4>4, <4>5
    <3> QED
      BY <3>1, <3>2
  <2> QED
    BY <2>1 DEF JobsTrue
<1> QED
  BY <1>1, <1>2, <1>3, <1>4, <1>5, <1>6 DEF IInv

(* A worker that handles a row: the row is there, and what it read is true. *)
LEMMA Job ==
  ASSUME IInv, NEW w \in Workers, pc[w] \notin {"idle", "loop"}
  PROVE  /\ work[w].swap \in Swaps
         /\ work[w] \in [began : Nat, swap : Swaps, box : Box, sent : BOOLEAN,
                         tries : Nat, diff : Int]
         /\ Current(w) \in Row /\ Current(w) = snap[w][work[w].swap]
         /\ Current(w).status \in ActiveStatus
         /\ RowTrue(work[w].swap, Current(w))
         /\ db[work[w].swap] \in Row /\ db[work[w].swap] # NoRow
         /\ RowTrue(work[w].swap, db[work[w].swap])
<1>1. work[w].swap \in Swaps /\ Current(w) # NoRow
  BY DEF IInv, JobsTrue, JobTrue
<1>2. snap[w] \in [Swaps -> Row \cup {NoRow}] /\ db \in [Swaps -> Row \cup {NoRow}]
  BY DEF IInv, TypeOK
<1>3. /\ db[work[w].swap] # NoRow
      /\ Current(w).status \in ActiveStatus
      /\ RowTrue(work[w].swap, Current(w))
  BY <1>1 DEF IInv, SnapshotsTrue, Current
<1>4. RowTrue(work[w].swap, db[work[w].swap])
  BY <1>1, <1>3 DEF IInv, RowsTrue
<1>5. work[w] \in [began : Nat, swap : Swaps, box : Box, sent : BOOLEAN, tries : Nat, diff : Int]
  BY <1>1 DEF IInv, TypeOK
<1> QED
  BY <1>1, <1>2, <1>3, <1>4, <1>5 DEF Current

(* The ways a handler ends: its row is rewritten, or left alone.           *)
LEMMA FinishStep ==
  ASSUME IInv, NEW w \in Workers, pc[w] \notin {"idle", "loop"},
         Rewritten(work[w].swap) \/ UNCHANGED db,
         NEW l \in {"diff", "stamp"}, Goto(w, l), work' = [work EXCEPT ![w].diff = work'[w].diff],
         work'[w].diff \in Int,
         UNCHANGED <<now, chain, pending, vm, snap, faults>>
  PROVE  IInv'
<1> DEFINE s == work[w].swap
           k == [work[w] EXCEPT !.diff = work'[w].diff]
<1>1. /\ s \in Swaps /\ Current(w) \in Row /\ Current(w) = snap[w][s]
      /\ work[w] \in [began : Nat, swap : Swaps, box : Box, sent : BOOLEAN,
                      tries : Nat, diff : Int]
  BY Job
<1>2. k \in [began : Nat, swap : Swaps, box : Box, sent : BOOLEAN, tries : Nat, diff : Int]
  BY <1>1
<1>3. work' = [work EXCEPT ![w] = k] /\ k.swap = s
  BY <1>1 DEF IInv, TypeOK
<1>4. JobTrue(l, k, snap[w][s])
  BY <1>1, <1>3, BridgeAssumption DEF JobTrue
<1>5. pc' = [pc EXCEPT ![w] = l]
  BY DEF Goto
<1>6. /\ pending' \subseteq Tx /\ faults' \in Nat
      /\ vm' \in [Swaps -> [Tasks -> [tries : Nat, next : Nat]]]
  BY DEF IInv, TypeOK
<1> HIDE DEF k
<1> QED
  BY <1>1, <1>2, <1>3, <1>4, <1>5, <1>6, WorkerStep

(* runVMTask around a read. *)
LEMMA ReadStep ==
  ASSUME IInv, NEW w \in Workers, NEW s \in Swaps, snap[w][s] # NoRow,
         NEW task \in Tasks, NEW answers \in BOOLEAN, NEW b \in Box, NEW l \in {"recheck", "judge"},
         answers => JobTrue(l, [swap |-> s, box |-> b], snap[w][s]),
         Read(w, s, task, answers, b, l),
         UNCHANGED <<now, chain, pending, db, snap>>
  PROVE  IInv'
<1> DEFINE Work == [began : Nat, swap : Swaps, box : Box, sent : BOOLEAN, tries : Nat, diff : Int]
           k1 == [work[w] EXCEPT !.swap = s]
           k2 == [work[w] EXCEPT !.swap = s, !.box = b]
<1>1. work[w] \in [began : Nat, swap : Swaps \cup {NoSwap}, box : Box, sent : BOOLEAN,
                  tries : Nat, diff : Int]
  BY DEF IInv, TypeOK
<1>2. k1 \in Work /\ k1.swap = s /\ k2 \in Work /\ k2.swap = s /\ k2.box = b
  BY <1>1
<1>3. JobTrue("stamp", k1, snap[w][s])
  BY <1>2 DEF JobTrue
<1>4. answers => JobTrue(l, k2, snap[w][s])
  BY <1>2 DEF JobTrue
<1>5. vm[s][task] \in [tries : Nat, next : Nat] /\ vm[s] \in [Tasks -> [tries : Nat, next : Nat]]
  BY DEF IInv, TypeOK
<1>6. Failure(vm[s][task].tries) \in [tries : Nat, next : Nat]
  BY <1>5, BridgeAssumption DEF Failure, IInv, TypeOK
<1>7. pending' \subseteq Tx /\ pending' \ pending = {}
  BY DEF IInv, TypeOK
<1>8. CASE pc' = [pc EXCEPT ![w] = "stamp"] /\ work' = [work EXCEPT ![w] = k1]
           /\ vm' \in [Swaps -> [Tasks -> [tries : Nat, next : Nat]]] /\ faults' \in Nat
  <2> HIDE DEF k1, k2
  <2> QED
    BY <1>2, <1>3, <1>7, <1>8, WorkerStep
<1>9. CASE pc' = [pc EXCEPT ![w] = l] /\ work' = [work EXCEPT ![w] = k2] /\ answers
           /\ vm' \in [Swaps -> [Tasks -> [tries : Nat, next : Nat]]] /\ faults' \in Nat
  <2> HIDE DEF k1, k2
  <2> QED
    BY <1>2, <1>4, <1>7, <1>9, WorkerStep
<1>10. \A e \in [tries : Nat, next : Nat] :
         [vm EXCEPT ![s][task] = e] \in [Swaps -> [Tasks -> [tries : Nat, next : Nat]]]
  BY <1>5 DEF IInv, TypeOK
<1>11. [tries |-> 0, next |-> 0] \in [tries : Nat, next : Nat]
  OBVIOUS
<1>12. ASSUME vm' = [vm EXCEPT ![s][task] = [tries |-> 0, next |-> 0]]
       PROVE  vm' \in [Swaps -> [Tasks -> [tries : Nat, next : Nat]]]
  BY <1>10, <1>11, <1>12
<1>13. ASSUME vm' = [vm EXCEPT ![s][task] = Failure(vm[s][task].tries)]
       PROVE  vm' \in [Swaps -> [Tasks -> [tries : Nat, next : Nat]]]
  BY <1>6, <1>10, <1>13
<1>14. faults \in Nat /\ faults + 1 \in Nat
       /\ vm \in [Swaps -> [Tasks -> [tries : Nat, next : Nat]]]
  BY DEF IInv, TypeOK
<1>15. work' = [work EXCEPT ![w].swap = s] => work' = [work EXCEPT ![w] = k1]
  OBVIOUS
<1>16. work' = [work EXCEPT ![w].swap = s, ![w].box = b] => work' = [work EXCEPT ![w] = k2]
  BY DEF IInv, TypeOK
<1> QED
  BY <1>8, <1>9, <1>12, <1>13, <1>14, <1>15, <1>16 DEF Read, Goto

(* A handler that leaves its local variables alone. *)
LEMMA EndStep ==
  ASSUME IInv, NEW w \in Workers, pc[w] \notin {"idle", "loop"},
         Rewritten(work[w].swap) \/ UNCHANGED db, Goto(w, "stamp"),
         UNCHANGED <<now, chain, pending, vm, snap, work, faults>>
  PROVE  IInv'
<1>1. work[w].diff \in Int /\ work = [work EXCEPT ![w].diff = work[w].diff]
  BY DEF IInv, TypeOK
<1> QED
  BY <1>1, FinishStep

(* runVMTask around a transaction that is true of the chains. *)
LEMMA SendStep ==
  ASSUME IInv, NEW w \in Workers, pc[w] = "judge", Current(w).status \in SendStatus,
         NEW tx \in Tx, TxTrue(tx), Send(w, tx), UNCHANGED <<now, chain, vm, snap>>
  PROVE  IInv'
<1> DEFINE s == work[w].swap
           st == Current(w).status
           task == SendTask[st]
           Work == [began : Nat, swap : Swaps, box : Box, sent : BOOLEAN, tries : Nat, diff : Int]
<1>1. /\ s \in Swaps /\ Current(w) \in Row /\ Current(w) = snap[w][s]
      /\ work[w] \in Work /\ db[s] # NoRow /\ st \in SendStatus
  BY Job
<1>2. task \in Tasks /\ GivenUpStatus[st] \in ErrorStatus
  BY <1>1, StatusSets
<1>3. vm[s][task] \in [tries : Nat, next : Nat]
  BY <1>1, <1>2 DEF IInv, TypeOK
<1>4. ASSUME UNCHANGED db \/ SetStatus(w, GivenUpStatus[st]),
             Goto(w, "stamp"), UNCHANGED <<pending, work, faults>>
      PROVE  IInv'
  <2>1. SetStatus(w, GivenUpStatus[st]) => Rewritten(s)
    BY <1>1, <1>2, SetStatusRow DEF StatusTrue, Status, ErrorStatus
  <2> QED
    BY <1>4, <2>1, EndStep
<1>5. ASSUME Submit(w, tx, vm[s][task].tries)
      PROVE  IInv'
  <2>1. PICK b \in BOOLEAN :
          work' = [work EXCEPT ![w].sent = b, ![w].tries = vm[s][task].tries]
    BY <1>5 DEF Submit
  <2> DEFINE k == [work[w] EXCEPT !.sent = b, !.tries = vm[s][task].tries]
  <2>2. k \in Work /\ k.swap = s
    BY <1>1, <1>3
  <2>3. work' = [work EXCEPT ![w] = k]
    BY <1>1, <2>1 DEF IInv, TypeOK
  <2>4. JobTrue("record", k, snap[w][s])
    BY <1>1, <2>2, BridgeAssumption DEF JobTrue
  <2>5. /\ pending' \subseteq Tx /\ \A x \in pending' \ pending : TxTrue(x)
        /\ faults' \in Nat /\ UNCHANGED db /\ pc' = [pc EXCEPT ![w] = "record"]
        /\ vm' \in [Swaps -> [Tasks -> [tries : Nat, next : Nat]]]
    BY <1>5 DEF Submit, Goto, IInv, TypeOK
  <2> HIDE DEF k
  <2> QED
    BY <1>1, <2>2, <2>3, <2>4, <2>5, WorkerStep
<1> QED
  BY <1>4, <1>5 DEF Send

LEMMA RecordStep ==
  ASSUME IInv, NEW w \in Workers, Record(w)
  PROVE  IInv'
<1> USE DEF Record
<1> DEFINE s == work[w].swap
           st == Current(w).status
           task == SendTask[st]
           Entry == [tries : Nat, next : Nat]
           Work == [began : Nat, swap : Swaps, box : Box, sent : BOOLEAN, tries : Nat, diff : Int]
<1>1. /\ s \in Swaps /\ Current(w) \in Row /\ Current(w) = snap[w][s] /\ work[w] \in Work
  BY Job
<1>2. st \in SendStatus
  BY DEF IInv, JobsTrue, JobTrue
<1>3. task \in Tasks
  BY <1>2, StatusSets
<1>4. Failure(work[w].tries) \in Entry /\ [tries |-> 0, next |-> 0] \in Entry
  BY <1>1, BridgeAssumption DEF Failure, IInv, TypeOK
<1>5. vm' \in [Swaps -> [Tasks -> Entry]]
  <2>1. PICK e \in Entry : vm' = [vm EXCEPT ![s][task] = e]
    BY <1>4
  <2> QED
    BY <1>1, <1>3, <2>1 DEF IInv, TypeOK
<1>6. PICK l \in {"stamp", "settle"} : pc' = [pc EXCEPT ![w] = l]
  BY DEF Goto
<1>7. JobTrue(l, work[w], snap[w][s])
  BY <1>1, <1>2, BridgeAssumption DEF JobTrue
<1>8. work' = [work EXCEPT ![w] = work[w]]
  BY DEF IInv, TypeOK
<1>9. pending' \subseteq Tx /\ pending' \ pending = {} /\ faults' \in Nat
  BY DEF IInv, TypeOK
<1> QED
  BY <1>1, <1>5, <1>6, <1>7, <1>8, <1>9, WorkerStep

(* The status after a transaction claims no more than the one before it.   *)
LEMMA SettleStep ==
  ASSUME IInv, NEW w \in Workers, Settle(w)
  PROVE  IInv'
<1> DEFINE s == work[w].swap
           st == Current(w).status
<1>1. s \in Swaps /\ db[s] # NoRow /\ RowTrue(s, Current(w))
  BY Job DEF Settle
<1>2. st \in SendStatus
  BY DEF Settle, IInv, JobsTrue, JobTrue
<1>3. SentStatus[st] \in Status /\ SentStatus[st] # "CONFIRMED_OPENING_DEPOSIT"
  BY <1>2, StatusSets DEF SentStatus
<1>4. StatusTrue(s, SentStatus[st])
  BY <1>1, <1>2, StatusSets DEF RowTrue, StatusTrue, SentStatus
<1>5. Rewritten(s)
  BY <1>1, <1>3, <1>4, SetStatusRow DEF Settle
<1> QED
  BY <1>5, EndStep DEF Settle

-----------------------------------------------------------------------------
(* Steps that change a snapshot.                                           *)
LEMMA SnapshotStep ==
  ASSUME IInv, NEW w \in Workers, NEW s \in Swaps, Rewritten(s) \/ UNCHANGED db,
         UNCHANGED <<now, chain, pending, vm>>, faults' \in Nat,
         NEW l \in {"idle", "loop"}, pc' = [pc EXCEPT ![w] = l],
         NEW k \in [began : Nat, swap : Swaps \cup {NoSwap}, box : Box, sent : BOOLEAN,
                    tries : Nat, diff : Int],
         work' = [work EXCEPT ![w] = k],
         NEW new \in [Swaps -> Row \cup {NoRow}], snap' = [snap EXCEPT ![w] = new],
         \A x \in Swaps : new[x] # NoRow => new[x] = snap[w][x] \/
             (db[x] = new[x] /\ new[x].status \in ActiveStatus)
  PROVE  IInv'
<1>1. /\ db' \in [Swaps -> Row \cup {NoRow}]
      /\ RowsTrue'
      /\ \A x \in Swaps : db[x] # NoRow => db'[x] # NoRow
  BY RewrittenRow
<1>2. ChainsTrue' /\ BoxesAdvance
  BY StillChains
<1>3. TypeOK'
  BY <1>1 DEF IInv, TypeOK, chain
<1>4. PendingTrue'
  BY <1>2, TruthsStay DEF IInv, PendingTrue, TypeOK, Tx
<1>5. SnapshotsTrue'
  <2>1. ASSUME NEW x \in Swaps, new[x] # NoRow
        PROVE  db[x] # NoRow /\ new[x].status \in ActiveStatus /\ RowTrue(x, new[x])
    BY <2>1 DEF IInv, SnapshotsTrue, RowsTrue
  <2>2. ASSUME NEW v \in Workers, NEW x \in Swaps, snap'[v][x] # NoRow
        PROVE  db[x] # NoRow /\ snap'[v][x].status \in ActiveStatus /\ RowTrue(x, snap'[v][x])
    <3>1. CASE v = w
      <4>1. snap'[v] = new
        BY <3>1 DEF IInv, TypeOK
      <4> QED
        BY <2>1, <2>2, <4>1
    <3>2. CASE v # w
      <4>1. snap'[v] = snap[v]
        BY <3>2 DEF IInv, TypeOK
      <4> QED
        BY <2>2, <4>1 DEF IInv, SnapshotsTrue
    <3> QED
      BY <3>1, <3>2
  <2> QED
    BY <1>1, <1>2, <2>2, TruthsStay DEF SnapshotsTrue
<1>6. JobsTrue'
  <2>1. ASSUME NEW v \in Workers PROVE JobTrue(pc[v], work[v], Current(v))'
    <3>1. CASE v = w
      <4>1. pc'[v] = l
        BY <3>1 DEF IInv, TypeOK
      <4> QED
        BY <4>1 DEF JobTrue
    <3>2. CASE v # w
      <4>1. pc'[v] = pc[v] /\ work'[v] = work[v] /\ Current(v)' = Current(v)
        BY <3>2 DEF IInv, TypeOK, Current
      <4>2. PICK r, l0, k0 : r = Current(v) /\ l0 = pc[v] /\ k0 = work[v]
        OBVIOUS
      <4>3. JobTrue(l0, k0, r)
        BY <4>2 DEF IInv, JobsTrue
      <4>4. JobTrue(l0, k0, r)'
        BY <1>2, <4>3, JobsStay
      <4> QED
        BY <4>1, <4>2, <4>4
    <3> QED
      BY <3>1, <3>2
  <2> QED
    BY <2>1 DEF JobsTrue
<1> QED
  BY <1>1, <1>2, <1>3, <1>4, <1>5, <1>6 DEF IInv

LEMMA StartRoundStep ==
  ASSUME IInv, NEW w \in Workers, StartRound(w)
  PROVE  IInv'
<1> DEFINE new == [s \in Swaps |-> IF Fetched(s) THEN db[s] ELSE NoRow]
           k == [work[w] EXCEPT !.began = now]
<1>1. PICK s \in Swaps : Fetched(s)
  BY DEF StartRound
<1>2. new \in [Swaps -> Row \cup {NoRow}]
  BY DEF IInv, TypeOK
<1>3. \A x \in Swaps : new[x] # NoRow => db[x] = new[x] /\ new[x].status \in ActiveStatus
  BY DEF Fetched, Due, ActiveStatus
<1>4. k \in [began : Nat, swap : Swaps \cup {NoSwap}, box : Box, sent : BOOLEAN,
             tries : Nat, diff : Int]
  BY DEF IInv, TypeOK
<1>5. /\ pc' = [pc EXCEPT ![w] = "loop"] /\ work' = [work EXCEPT ![w] = k]
      /\ snap' = [snap EXCEPT ![w] = new] /\ faults' \in Nat
      /\ UNCHANGED <<now, chain, pending, vm, db>>
  BY DEF StartRound, IInv, TypeOK
<1> HIDE DEF new, k
<1> QED
  BY <1>1, <1>2, <1>3, <1>4, <1>5, SnapshotStep

LEMMA StampStep ==
  ASSUME IInv, NEW w \in Workers, Stamp(w)
  PROVE  IInv'
<1> DEFINE s == work[w].swap
           r == StampedRow(w)
           new == [snap[w] EXCEPT ![s] = NoRow]
           k == [IdleWork EXCEPT !.began = work[w].began]
<1>1. /\ s \in Swaps /\ db[s] \in Row /\ RowTrue(s, db[s])
      /\ work[w].began \in Nat
  BY Job DEF Stamp
<1>2. r \in Row /\ r.status = db[s].status /\ r.terms = db[s].terms
  BY <1>1 DEF StampedRow, Row
<1>3. Rewritten(s)
  BY <1>1, <1>2 DEF Rewritten, RowTrue, Stamp, SetRow
<1>4. new \in [Swaps -> Row \cup {NoRow}] /\ snap' = [snap EXCEPT ![w] = new]
  BY DEF Stamp, IInv, TypeOK
<1>5. \A x \in Swaps : new[x] # NoRow => new[x] = snap[w][x] \/
          (db[x] = new[x] /\ new[x].status \in ActiveStatus)
  BY DEF IInv, TypeOK
<1>6. IdleWork \in [began : Nat, swap : Swaps \cup {NoSwap}, box : Box, sent : BOOLEAN,
                    tries : Nat, diff : Int]
  BY DEF IdleWork, NoBox, Box, BoxStates
<1>7. k \in [began : Nat, swap : Swaps \cup {NoSwap}, box : Box, sent : BOOLEAN,
              tries : Nat, diff : Int]
  BY <1>1, <1>6
<1>8. UNCHANGED <<now, chain, pending, vm>> /\ faults' \in Nat
  BY DEF Stamp, IInv, TypeOK
<1>9. \/ pc' = [pc EXCEPT ![w] = "loop"] /\ work' = [work EXCEPT ![w] = k]
      \/ pc' = [pc EXCEPT ![w] = "idle"] /\ work' = [work EXCEPT ![w] = IdleWork]
  BY DEF Stamp, Goto
<1> HIDE DEF new, k, s, r
<1>10. CASE pc' = [pc EXCEPT ![w] = "loop"] /\ work' = [work EXCEPT ![w] = k]
  BY <1>10, <1>1, <1>3, <1>4, <1>5, <1>7, <1>8, SnapshotStep
<1>11. CASE pc' = [pc EXCEPT ![w] = "idle"] /\ work' = [work EXCEPT ![w] = IdleWork]
  BY <1>11, <1>1, <1>3, <1>4, <1>5, <1>6, <1>8, SnapshotStep
<1> QED
  BY <1>9, <1>10, <1>11

LEMMA AbortStep ==
  ASSUME IInv, NEW w \in Workers, Abort(w)
  PROVE  IInv'
<1> DEFINE new == [s \in Swaps |-> NoRow]
<1>1. CASE Swaps = {}
  <2>1. TypeOK'
    BY BridgeAssumption DEF IInv, TypeOK, Abort, Goto, chain, IdleWork, NoBox, Box, BoxStates
  <2>2. ChainsTrue' /\ RowsTrue' /\ SnapshotsTrue'
    BY <1>1 DEF ChainsTrue, RowsTrue, SnapshotsTrue
  <2>3. PendingTrue'
    BY <1>1, <2>1 DEF TypeOK, Tx, PendingTrue
  <2>4. \A v \in Workers : pc[v] \in {"idle", "loop"}
    BY <1>1 DEF IInv, JobsTrue, JobTrue
  <2>5. JobsTrue'
    BY <2>4 DEF IInv, TypeOK, JobsTrue, JobTrue, Abort, Goto
  <2> QED
    BY <2>1, <2>2, <2>3, <2>5 DEF IInv
<1>2. CASE Swaps # {}
  <2>1. PICK s \in Swaps : TRUE
    BY <1>2
  <2>2. new \in [Swaps -> Row \cup {NoRow}] /\ \A x \in Swaps : new[x] = NoRow
    OBVIOUS
  <2>3. IdleWork \in [began : Nat, swap : Swaps \cup {NoSwap}, box : Box, sent : BOOLEAN,
                      tries : Nat, diff : Int]
    BY DEF IdleWork, NoBox, Box, BoxStates
  <2>4. /\ pc' = [pc EXCEPT ![w] = "idle"] /\ work' = [work EXCEPT ![w] = IdleWork]
        /\ snap' = [snap EXCEPT ![w] = new] /\ faults' \in Nat
        /\ UNCHANGED <<now, chain, pending, vm, db>>
    BY DEF Abort, Goto, IInv, TypeOK
  <2>5. \A x \in Swaps : new[x] # NoRow => new[x] = snap[w][x] \/
            (db[x] = new[x] /\ new[x].status \in ActiveStatus)
    BY <2>2
  <2> HIDE DEF new
  <2> QED
    BY <2>1, <2>2, <2>3, <2>4, <2>5, SnapshotStep
<1> QED
  BY <1>1, <1>2

-----------------------------------------------------------------------------
(* The first call of a handler.                                            *)
LEMMA BeginTaskStep ==
  ASSUME IInv, NEW w \in Workers, NEW s \in Swaps, BeginTask(w, s)
  PROVE  IInv'
<1> DEFINE r == snap[w][s]
           st == r.status
           answers == st = "CONFIRMED_CLOSING_WITHDRAW" => withdraw[s].state = "CLOSED"
           source == st \in {"NONE", "CONFIRMED_OPENING_DEPOSIT", "FINISHED_CLOSING_DEPOSIT"}
           b == IF source THEN deposit[s] ELSE withdraw[s]
           l == IF st = "CONFIRMED_OPENING_DEPOSIT" THEN "recheck" ELSE "judge"
<1>1. r # NoRow /\ st \in ActiveStatus
  BY DEF BeginTask, IInv, SnapshotsTrue
<1>2. ReadTask[st] \in Tasks
  BY <1>1, StatusSets
<1>3. b \in Box /\ deposit[s] \in Box /\ withdraw[s] \in Box
  BY DEF IInv, TypeOK
<1>4. DepositBoxTrue(s, deposit[s]) /\ WithdrawBoxTrue(s, withdraw[s])
  BY DEF DepositBoxTrue, WithdrawBoxTrue, DepositOpened, WithdrawOpened
<1>5. answers => JobTrue(l, [swap |-> s, box |-> b], r)
  BY <1>1, <1>4 DEF JobTrue
<1>6. Read(w, s, ReadTask[st], answers, b, l) /\ UNCHANGED <<now, chain, pending, db, snap>>
  BY DEF BeginTask
<1>7. l \in {"recheck", "judge"} /\ answers \in BOOLEAN
  OBVIOUS
<1> HIDE DEF answers, b, l
<1> QED
  BY <1>1, <1>2, <1>3, <1>5, <1>6, <1>7, ReadStep

LEMMA PutOnHoldStep ==
  ASSUME IInv, NEW w \in Workers, NEW s \in Swaps, PutOnHold(w, s)
  PROVE  IInv'
<1> DEFINE k == [work[w] EXCEPT !.swap = s]
<1>1. k \in [began : Nat, swap : Swaps, box : Box, sent : BOOLEAN, tries : Nat, diff : Int]
  BY DEF IInv, TypeOK
<1>2. k.swap = s /\ work' = [work EXCEPT ![w] = k]
  BY DEF IInv, TypeOK, PutOnHold
<1>3. JobTrue("stamp", k, snap[w][s])
  BY <1>2 DEF JobTrue, PutOnHold
<1>4. /\ UNCHANGED <<now, chain, snap, db, vm>> /\ pending' \subseteq Tx /\ pending' \ pending = {}
      /\ faults' \in Nat /\ pc' = [pc EXCEPT ![w] = "stamp"]
      /\ vm' \in [Swaps -> [Tasks -> [tries : Nat, next : Nat]]]
  BY DEF IInv, TypeOK, PutOnHold, Goto
<1> HIDE DEF k
<1> QED
  BY <1>1, <1>2, <1>3, <1>4, WorkerStep

-----------------------------------------------------------------------------
(* The handlers.  Each of them ends by rewriting its row with a status that *)
(* the box in its hands bears out, or sends a transaction that it bears    *)
(* out.                                                                    *)

(* What a handler may rely on when it decides. *)
LEMMA Judged ==
  ASSUME IInv, NEW w \in Workers, pc[w] = "judge"
  PROVE  /\ work[w].swap \in Swaps /\ work[w].box \in Box
         /\ Current(w).status \in {"NONE", "FINISHED_CLOSING_DEPOSIT"}
                => DepositBoxTrue(work[w].swap, work[w].box)
         /\ Current(w).status \notin {"NONE", "FINISHED_CLOSING_DEPOSIT"}
                => WithdrawBoxTrue(work[w].swap, work[w].box)
         /\ Current(w).status = "CONFIRMED_CLOSING_WITHDRAW" => work[w].box.state = "CLOSED"
<1>1. JobTrue(pc[w], work[w], Current(w))
  BY DEF IInv, JobsTrue
<1> QED
  BY <1>1, Job DEF JobTrue

LEMMA SetStatusStep ==
  ASSUME IInv, NEW w \in Workers, pc[w] \notin {"idle", "loop"},
         NEW st \in Status, st # "CONFIRMED_OPENING_DEPOSIT",
         StatusTrue(work[w].swap, st), SetStatus(w, st), Goto(w, "stamp"),
         UNCHANGED <<now, chain, pending, vm, snap, work, faults>>
  PROVE  IInv'
BY Job, SetStatusRow, EndStep

(* The row takes the state of the withdraw box and a status it bears out.  *)
LEMMA RowOfWithdrawStep ==
  ASSUME IInv, NEW w \in Workers, pc[w] = "judge",
         NEW st \in Status, st # "CONFIRMED_OPENING_DEPOSIT", StatusTrue(work[w].swap, st),
         SetRow(w, RowOfWithdraw(db[work[w].swap], work[w].box, st)), Goto(w, "stamp"),
         UNCHANGED <<now, chain, pending, vm, snap, work, faults>>
  PROVE  IInv'
<1> DEFINE s == work[w].swap
           b == work[w].box
           r == RowOfWithdraw(db[s], b, st)
<1>1. db[s] \in Row /\ b.state \in BoxStates
  BY Job, Judged DEF Box
<1>2. r \in Row /\ r.status = st
  BY <1>1 DEF RowOfWithdraw, Row
<1>3. RowTrue(s, r)
  BY <1>2 DEF RowTrue
<1>4. Rewritten(s)
  BY <1>2, <1>3 DEF Rewritten, SetRow
<1> QED
  BY <1>4, EndStep

LEMMA CheckDepositIsOpenedStep ==
  ASSUME IInv, NEW w \in Workers, CheckDepositIsOpened(w)
  PROVE  IInv'
<1> DEFINE s == work[w].swap
           b == work[w].box
<1>1. /\ pc[w] = "judge" /\ s \in Swaps /\ b \in Box /\ db[s] \in Row
      /\ DepositBoxTrue(s, b)
  BY Judged, Job DEF CheckDepositIsOpened, Handling
<1>2. Goto(w, "stamp") /\ UNCHANGED <<now, chain, pending, vm, snap, work, faults>>
  BY DEF CheckDepositIsOpened
<1>3. CASE UNCHANGED db
  BY <1>1, <1>2, <1>3, EndStep
<1>4. CASE SetStatus(w, "ERROR_OPENING_DEPOSIT")
  BY <1>1, <1>2, <1>4, SetStatusStep DEF StatusTrue, Status, ErrorStatus
<1>5. ASSUME NEW st \in {"CONFIRMED_OPENING_DEPOSIT", "ERROR_OPENING_DEPOSIT"},
             b.state # "INVALID", SetRow(w, RowOfDeposit(db[s], b, st))
      PROVE  IInv'
  <2> DEFINE r == RowOfDeposit(db[s], b, st)
  <2>1. /\ DepositOpened(s) /\ b.terms = deposit[s].terms /\ b.terms \in Terms
        /\ b.state \in BoxStates /\ b.created \in Int
    BY <1>1, <1>5 DEF DepositBoxTrue, IInv, ChainsTrue, Box
  <2>2. st \in Status
    BY DEF Status, ErrorStatus, ActiveStatus, TargetStatus
  <2>3. r \in Row /\ r.status = st /\ r.terms = b.terms
    BY <1>1, <2>1, <2>2 DEF RowOfDeposit, Row
  <2>4. RowTrue(s, r)
    BY <2>1, <2>3 DEF RowTrue, StatusTrue
  <2>5. Rewritten(s)
    BY <1>5, <2>3, <2>4 DEF Rewritten, SetRow
  <2> QED
    BY <1>1, <1>2, <2>5, EndStep
<1>6. \/ UNCHANGED db
      \/ SetStatus(w, "ERROR_OPENING_DEPOSIT")
      \/ \E st \in {"CONFIRMED_OPENING_DEPOSIT", "ERROR_OPENING_DEPOSIT"} :
            b.state # "INVALID" /\ SetRow(w, RowOfDeposit(db[s], b, st))
  BY DEF CheckDepositIsOpened
<1> QED
  BY <1>3, <1>4, <1>5, <1>6

LEMMA RecheckDepositStep ==
  ASSUME IInv, NEW w \in Workers, RecheckDeposit(w)
  PROVE  IInv'
<1> DEFINE s == work[w].swap
           b == withdraw[s]
<1>1. /\ pc[w] = "recheck" /\ s \in Swaps /\ snap[w][s] # NoRow /\ Current(w) = snap[w][s]
  BY Job, BridgeAssumption DEF RecheckDeposit
<1>2. UNCHANGED <<now, chain, pending, snap>>
  BY DEF RecheckDeposit
<1>3. CASE Read(w, s, "CheckWithdrawIsNone", TRUE, b, "judge") /\ UNCHANGED db
  <2>1. Current(w).status = "CONFIRMED_OPENING_DEPOSIT"
    BY <1>1 DEF IInv, JobsTrue, JobTrue
  <2>2. b \in Box /\ WithdrawBoxTrue(s, b)
    BY <1>1 DEF IInv, TypeOK, WithdrawBoxTrue, WithdrawOpened
  <2>3. JobTrue("judge", [swap |-> s, box |-> b], snap[w][s])
    BY <1>1, <2>1, <2>2 DEF JobTrue
  <2>4. "CheckWithdrawIsNone" \in Tasks
    BY DEF Tasks
  <2> HIDE DEF b, s
  <2> QED
    BY <1>1, <1>2, <1>3, <2>2, <2>3, <2>4, ReadStep
<1>4. CASE /\ SetStatus(w, "ERROR_OPENING_WITHDRAW") /\ Goto(w, "stamp")
           /\ UNCHANGED <<vm, work, faults>>
  BY <1>1, <1>2, <1>4, SetStatusStep DEF StatusTrue, Status, ErrorStatus
<1> QED
  BY <1>3, <1>4 DEF RecheckDeposit

LEMMA OpenWithdrawStep ==
  ASSUME IInv, NEW w \in Workers, OpenWithdraw(w)
  PROVE  IInv'
<1> DEFINE s == work[w].swap
           r == Current(w)
           tx == [kind |-> "OpenWithdraw", swap |-> s, terms |-> r.terms, key |-> NoKey]
<1>1. /\ pc[w] = "judge" /\ s \in Swaps
      /\ r \in Row /\ r.status = "CONFIRMED_OPENING_DEPOSIT" /\ RowTrue(s, r)
  BY Job DEF OpenWithdraw, Handling
<1>2. UNCHANGED <<now, chain, vm, snap>>
  BY DEF OpenWithdraw
<1>3. CASE Send(w, tx)
  <2>1. tx \in Tx
    BY <1>1, StatusSets DEF Tx, Row, SendTask
  <2>2. TxTrue(tx)
    BY <1>1 DEF TxTrue, RowTrue
  <2>3. r.status \in SendStatus
    BY <1>1, StatusSets
  <2> HIDE DEF tx
  <2> QED
    BY <1>1, <1>2, <1>3, <2>1, <2>2, <2>3, SendStep
<1>4. CASE /\ \/ SetStatus(w, "FINISHED_OPENING_WITHDRAW")
              \/ SetStatus(w, "ERROR_OPENING_WITHDRAW")
           /\ Goto(w, "stamp") /\ UNCHANGED <<pending, work, faults>>
  BY <1>1, <1>2, <1>4, SetStatusStep
     DEF StatusTrue, Status, ErrorStatus, ActiveStatus, TargetStatus
<1> QED
  BY <1>3, <1>4 DEF OpenWithdraw

LEMMA CheckWithdrawIsOpenedStep ==
  ASSUME IInv, NEW w \in Workers, CheckWithdrawIsOpened(w)
  PROVE  IInv'
<1> DEFINE s == work[w].swap
           b == work[w].box
           st == IF b.state = "EXPIRED" THEN "ERROR_OPENING_WITHDRAW"
                 ELSE "CONFIRMED_OPENING_WITHDRAW"
           r == [db[s] EXCEPT !.withdrawState = b.state, !.status = st]
<1>1. /\ pc[w] = "judge" /\ s \in Swaps /\ b \in Box /\ db[s] \in Row
      /\ WithdrawBoxTrue(s, b)
  BY Judged, Job DEF CheckWithdrawIsOpened, Handling
<1>2. UNCHANGED <<now, chain, pending, vm, snap, faults>>
  BY DEF CheckWithdrawIsOpened
<1>3. CASE b.state = "INVALID"
  BY <1>1, <1>2, <1>3, EndStep DEF CheckWithdrawIsOpened
<1>4. CASE b.state # "INVALID"
  <2>1. st \in Status /\ StatusTrue(s, st) /\ st # "CONFIRMED_OPENING_DEPOSIT"
    BY <1>1, <1>4 DEF StatusTrue, WithdrawBoxTrue, WithdrawOpened,
                      Status, ErrorStatus, ActiveStatus, TargetStatus
  <2>2. b.state \in BoxStates /\ b.created \in Int /\ now \in Int
    BY <1>1 DEF Box, IInv, TypeOK
  <2>3. r \in Row /\ r.status = st
    BY <1>1, <2>1, <2>2 DEF Row
  <2>4. RowTrue(s, r)
    BY <2>1, <2>3 DEF RowTrue
  <2>5. /\ db' = [db EXCEPT ![s] = r] /\ Goto(w, "diff")
        /\ work' = [work EXCEPT ![w].diff = b.created - now]
    BY <1>4 DEF CheckWithdrawIsOpened, SetRow
  <2>6. Rewritten(s)
    BY <2>3, <2>4, <2>5 DEF Rewritten
  <2>7. work'[w].diff = b.created - now
    BY <1>1, <2>5 DEF IInv, TypeOK
  <2>8. work'[w].diff \in Int /\ work' = [work EXCEPT ![w].diff = work'[w].diff]
    <3>1. b.created - now \in Int
      BY <2>2
    <3> QED
      BY <2>5, <2>7, <3>1
  <2>9. Goto(w, "diff") /\ pc[w] \notin {"idle", "loop"}
    BY <1>1, <2>5
  <2> QED
    BY <1>2, <2>6, <2>8, <2>9, FinishStep
<1> QED
  BY <1>3, <1>4

LEMMA UpdateTimeDiffStep ==
  ASSUME IInv, NEW w \in Workers, UpdateTimeDiff(w)
  PROVE  IInv'
<1> DEFINE s == work[w].swap
           r == [db[s] EXCEPT !.timeDiff = work[w].diff]
<1>1. pc[w] = "diff" /\ s \in Swaps /\ db[s] \in Row /\ RowTrue(s, db[s]) /\ work[w].diff \in Int
  BY Job DEF UpdateTimeDiff
<1>2. r \in Row /\ r.status = db[s].status /\ r.terms = db[s].terms
  BY <1>1 DEF Row
<1>3. RowTrue(s, r)
  BY <1>1, <1>2 DEF RowTrue
<1>4. Rewritten(s)
  BY <1>2, <1>3 DEF Rewritten, UpdateTimeDiff
<1> QED
  BY <1>1, <1>4, EndStep DEF UpdateTimeDiff

LEMMA CloseWithdrawTaskStep ==
  ASSUME IInv, NEW w \in Workers, CloseWithdrawTask(w)
  PROVE  IInv'
<1> DEFINE s == work[w].swap
           b == work[w].box
           r == Current(w)
           tx == [kind |-> "CloseWithdraw", swap |-> s, terms |-> NoTerms, key |-> r.key]
<1>1. /\ pc[w] = "judge" /\ s \in Swaps /\ b \in Box
      /\ r \in Row /\ r.status = "CONFIRMED_OPENING_WITHDRAW" /\ RowTrue(s, r)
      /\ WithdrawBoxTrue(s, b)
  BY Judged, Job DEF CloseWithdrawTask, Handling
<1>2. UNCHANGED <<now, chain, vm, snap>>
  BY DEF CloseWithdrawTask
<1>3. CASE /\ b.state = "CLOSED"
           /\ SetRow(w, RowOfWithdraw(db[s], b, "CONFIRMED_CLOSING_WITHDRAW"))
           /\ Goto(w, "stamp") /\ UNCHANGED <<pending, work, faults>>
  <2>1. /\ "CONFIRMED_CLOSING_WITHDRAW" \in Status
        /\ StatusTrue(s, "CONFIRMED_CLOSING_WITHDRAW")
    BY <1>1, <1>3 DEF StatusTrue, WithdrawBoxTrue, Status, ActiveStatus, SourceStatus
  <2> QED
    BY <1>1, <1>2, <1>3, <2>1, RowOfWithdrawStep
<1>4. CASE /\ SetStatus(w, "STARTED_EXPIRE_WITHDRAW")
           /\ Goto(w, "stamp") /\ UNCHANGED <<pending, work, faults>>
  <2>1. "STARTED_EXPIRE_WITHDRAW" \in Status /\ StatusTrue(s, "STARTED_EXPIRE_WITHDRAW")
    BY <1>1 DEF RowTrue, StatusTrue, Status, ActiveStatus, TargetStatus
  <2> QED
    BY <1>1, <1>2, <1>4, <2>1, SetStatusStep
<1>5. CASE Goto(w, "stamp") /\ UNCHANGED <<db, pending, work, faults>>
  BY <1>1, <1>2, <1>5, EndStep
<1>6. CASE r.key # NoKey /\ Send(w, tx)
  <2>1. tx \in Tx /\ tx.key \in Keys
    BY <1>1, <1>6, StatusSets DEF Tx, Row, SendTask
  <2>2. TxTrue(tx) /\ r.status \in SendStatus
    BY <1>1, <2>1, StatusSets DEF TxTrue
  <2> HIDE DEF tx
  <2> QED
    BY <1>1, <1>2, <1>6, <2>1, <2>2, SendStep
<1> QED
  BY <1>3, <1>4, <1>5, <1>6 DEF CloseWithdrawTask

LEMMA CheckWithdrawIsClosedStep ==
  ASSUME IInv, NEW w \in Workers, CheckWithdrawIsClosed(w)
  PROVE  IInv'
<1> DEFINE s == work[w].swap
           b == work[w].box
<1>1. /\ pc[w] = "judge" /\ s \in Swaps
      /\ Current(w).status = "FINISHED_CLOSING_WITHDRAW" /\ RowTrue(s, Current(w))
      /\ WithdrawBoxTrue(s, b)
  BY Judged, Job DEF CheckWithdrawIsClosed, Handling
<1>2. Goto(w, "stamp") /\ UNCHANGED <<now, chain, pending, vm, snap, work, faults>>
  BY DEF CheckWithdrawIsClosed
<1>3. CASE /\ b.state = "CLOSED"
           /\ SetRow(w, RowOfWithdraw(db[s], b, "CONFIRMED_CLOSING_WITHDRAW"))
  <2>1. /\ "CONFIRMED_CLOSING_WITHDRAW" \in Status
        /\ StatusTrue(s, "CONFIRMED_CLOSING_WITHDRAW")
    BY <1>1, <1>3 DEF StatusTrue, WithdrawBoxTrue, Status, ActiveStatus, SourceStatus
  <2> QED
    BY <1>1, <1>2, <1>3, <2>1, RowOfWithdrawStep
<1>4. CASE SetStatus(w, "STARTED_EXPIRE_WITHDRAW")
  <2>1. "STARTED_EXPIRE_WITHDRAW" \in Status /\ StatusTrue(s, "STARTED_EXPIRE_WITHDRAW")
    BY <1>1 DEF RowTrue, StatusTrue, Status, ActiveStatus, TargetStatus
  <2> QED
    BY <1>1, <1>2, <1>4, <2>1, SetStatusStep
<1>5. CASE SetRow(w, RowOfWithdraw(db[s], b, "ERROR_CLOSING_WITHDRAW"))
  <2>1. "ERROR_CLOSING_WITHDRAW" \in Status /\ StatusTrue(s, "ERROR_CLOSING_WITHDRAW")
    BY DEF StatusTrue, Status, ErrorStatus
  <2> QED
    BY <1>1, <1>2, <1>5, <2>1, RowOfWithdrawStep
<1>6. CASE UNCHANGED db
  BY <1>1, <1>2, <1>6, EndStep
<1> QED
  BY <1>3, <1>4, <1>5, <1>6 DEF CheckWithdrawIsClosed

LEMMA ExpireWithdrawTaskStep ==
  ASSUME IInv, NEW w \in Workers, ExpireWithdrawTask(w)
  PROVE  IInv'
<1> DEFINE s == work[w].swap
           b == work[w].box
           tx == [kind |-> "ExpireWithdraw", swap |-> s, terms |-> NoTerms, key |-> NoKey]
<1>1. /\ pc[w] = "judge" /\ s \in Swaps /\ b \in Box
      /\ Current(w).status = "STARTED_EXPIRE_WITHDRAW" /\ WithdrawBoxTrue(s, b)
  BY Judged DEF ExpireWithdrawTask, Handling
<1>2. UNCHANGED <<now, chain, vm, snap>>
  BY DEF ExpireWithdrawTask
<1>3. CASE /\ b.state = "CLOSED" /\ SetStatus(w, "CONFIRMED_CLOSING_WITHDRAW")
           /\ Goto(w, "stamp") /\ UNCHANGED <<pending, work, faults>>
  <2>1. /\ "CONFIRMED_CLOSING_WITHDRAW" \in Status
        /\ StatusTrue(s, "CONFIRMED_CLOSING_WITHDRAW")
    BY <1>1, <1>3 DEF StatusTrue, WithdrawBoxTrue, Status, ActiveStatus, SourceStatus
  <2> QED
    BY <1>1, <1>2, <1>3, <2>1, SetStatusStep
<1>4. CASE Send(w, tx)
  <2>1. tx \in Tx
    BY <1>1, StatusSets DEF Tx, SendTask
  <2>2. TxTrue(tx) /\ Current(w).status \in SendStatus
    BY <1>1, StatusSets DEF TxTrue
  <2> HIDE DEF tx
  <2> QED
    BY <1>1, <1>2, <1>4, <2>1, <2>2, SendStep
<1>5. CASE Goto(w, "stamp") /\ UNCHANGED <<db, pending, work, faults>>
  BY <1>1, <1>2, <1>5, EndStep
<1> QED
  BY <1>3, <1>4, <1>5 DEF ExpireWithdrawTask

(* The key sent is the one the closed withdraw box showed. *)
LEMMA CloseDepositTaskStep ==
  ASSUME IInv, NEW w \in Workers, CloseDepositTask(w)
  PROVE  IInv'
<1> DEFINE s == work[w].swap
           b == work[w].box
           tx == [kind |-> "CloseDeposit", swap |-> s, terms |-> NoTerms, key |-> b.key]
<1>1. /\ pc[w] = "judge" /\ s \in Swaps /\ b \in Box
      /\ Current(w).status = "CONFIRMED_CLOSING_WITHDRAW"
      /\ WithdrawBoxTrue(s, b) /\ b.state = "CLOSED"
  BY Judged DEF CloseDepositTask, Handling
<1>2. UNCHANGED <<now, chain, vm, snap>> /\ Send(w, tx)
  BY DEF CloseDepositTask
<1>3. tx \in Tx
  BY <1>1, StatusSets DEF Tx, SendTask, Box
<1>4. TxTrue(tx) /\ Current(w).status \in SendStatus
  BY <1>1, StatusSets DEF TxTrue, WithdrawBoxTrue
<1> HIDE DEF tx
<1> QED
  BY <1>1, <1>2, <1>3, <1>4, SendStep

LEMMA CheckDepositIsClosedStep ==
  ASSUME IInv, NEW w \in Workers, CheckDepositIsClosed(w)
  PROVE  IInv'
<1> DEFINE s == work[w].swap
           st == "CONFIRMED_CLOSING_DEPOSIT"
<1>1. /\ pc[w] = "judge" /\ s \in Swaps /\ Current(w).status = "FINISHED_CLOSING_DEPOSIT"
      /\ RowTrue(s, Current(w)) /\ DepositBoxTrue(s, work[w].box)
  BY Judged, Job DEF CheckDepositIsClosed, Handling
<1>2. Goto(w, "stamp") /\ UNCHANGED <<now, chain, pending, vm, snap, work, faults>>
  BY DEF CheckDepositIsClosed
<1>3. CASE work[w].box.state = "CLOSED" /\ SetStatus(w, st)
  <2>1. st \in Status /\ StatusTrue(s, st)
    BY <1>1, <1>3 DEF RowTrue, DepositBoxTrue, StatusTrue, Status, DoneStatus
  <2> QED
    BY <1>1, <1>2, <1>3, <2>1, SetStatusStep
<1>4. CASE UNCHANGED db
  BY <1>1, <1>2, <1>4, EndStep
<1> QED
  BY <1>3, <1>4 DEF CheckDepositIsClosed

LEMMA CheckWithdrawIsExpiredStep ==
  ASSUME IInv, NEW w \in Workers, CheckWithdrawIsExpired(w)
  PROVE  IInv'
<1> DEFINE s == work[w].swap
           st == "CONFIRMED_EXPIRE_WITHDRAW"
<1>1. /\ pc[w] = "judge" /\ s \in Swaps /\ Current(w).status = "FINISHED_EXPIRE_WITHDRAW"
      /\ WithdrawBoxTrue(s, work[w].box)
  BY Judged DEF CheckWithdrawIsExpired, Handling
<1>2. Goto(w, "stamp") /\ UNCHANGED <<now, chain, pending, vm, snap, work, faults>>
  BY DEF CheckWithdrawIsExpired
<1>3. CASE work[w].box.state = "EXPIRED" /\ SetStatus(w, st)
  <2>1. st \in Status /\ StatusTrue(s, st)
    BY <1>1, <1>3 DEF WithdrawBoxTrue, StatusTrue, Status, DoneStatus
  <2> QED
    BY <1>1, <1>2, <1>3, <2>1, SetStatusStep
<1>4. CASE UNCHANGED db
  BY <1>1, <1>2, <1>4, EndStep
<1> QED
  BY <1>3, <1>4 DEF CheckWithdrawIsExpired

-----------------------------------------------------------------------------
(* Every step.                                                             *)
LEMMA ChainOrUserStep ==
  ASSUME IInv, AgreedStep, UNCHANGED <<db, worker>>, pending' \subseteq pending
  PROVE  IInv'
BY ChainStep DEF AgreedStep, IInv

LEMMA UserStep ==
  ASSUME IInv, NEW s \in Swaps, User(s)
  PROVE  IInv'
<1>1. ASSUME NEW t \in Terms, OpenDeposit(s, t) PROVE IInv'
  BY <1>1, OpenDepositStep, ChainOrUserStep DEF OpenDeposit
<1>2. ASSUME NEW t \in Terms, PostDeposit(s, t) PROVE IInv'
  BY <1>2, PostDepositStep
<1>3. ASSUME NEW k \in Keys, PostSecretKey(s, k) PROVE IInv'
  BY <1>3, PostSecretKeyStep
<1>4. ASSUME NEW k \in Keys, CloseWithdraw(s, k) PROVE IInv'
  BY <1>4, CloseWithdrawStep, ChainOrUserStep DEF CloseWithdraw
<1>5. CASE ExpireDeposit(s)
  BY <1>5, ExpireDepositStep, ChainOrUserStep DEF ExpireDeposit
<1>6. CASE ExpireWithdraw(s)
  BY <1>6, ExpireWithdrawStep, ChainOrUserStep DEF ExpireWithdraw
<1>7. CASE CloseDeposit(s)
  BY <1>7, CloseDepositStep, ChainOrUserStep DEF CloseDeposit
<1> QED
  BY <1>1, <1>2, <1>3, <1>4, <1>5, <1>6, <1>7 DEF User

LEMMA WorkersStep ==
  ASSUME IInv, NEW w \in Workers, Worker(w) \/ Abort(w)
  PROVE  IInv'
BY StartRoundStep, BeginTaskStep, PutOnHoldStep, CheckDepositIsOpenedStep, RecheckDepositStep,
   OpenWithdrawStep, CheckWithdrawIsOpenedStep, UpdateTimeDiffStep, CloseWithdrawTaskStep,
   CheckWithdrawIsClosedStep, ExpireWithdrawTaskStep, CheckWithdrawIsExpiredStep,
   CloseDepositTaskStep, CheckDepositIsClosedStep, RecordStep, SettleStep, StampStep, AbortStep
   DEF Worker

LEMMA StutterStep ==
  ASSUME IInv, UNCHANGED vars
  PROVE  IInv'
<1>1. AgreedStep
  BY StillChains DEF AgreedStep, IInv, TypeOK, vars, chain
<1> QED
  BY <1>1, ChainOrUserStep DEF vars, worker, IInv

LEMMA NextInv == IInv /\ [Next]_vars => IInv'
<1> SUFFICES ASSUME IInv, [Next]_vars PROVE IInv'
  OBVIOUS
<1>1. CASE UNCHANGED vars
  BY <1>1, StutterStep
<1>2. ASSUME NEW tx \in pending, Mine(tx) PROVE IInv'
  BY <1>2, MineStep, ChainOrUserStep DEF Mine
<1>3. ASSUME NEW tx \in pending, Drop(tx) PROVE IInv'
  BY <1>3, DropStep, ChainOrUserStep DEF Drop
<1>4. CASE Tick
  BY <1>4, TickStep, ChainOrUserStep DEF Tick
<1> QED
  BY <1>1, <1>2, <1>3, <1>4, UserStep, WorkersStep DEF Next

(* Whatever the server has written, read or sent stays true of the chains  *)
(* until it is used (BridgeScheduler.work and its handlers, any number of  *)
(* workers, crashes and retries).                                          *)
THEOREM Inductive == Spec => []IInv
<1>1. Init => IInv
  BY InitInv
<1>2. IInv /\ [Next]_vars => IInv'
  BY NextInv
<1> QED
  BY <1>1, <1>2, PTL DEF Spec

(* Every variable keeps its type; in particular the target bridge never    *)
(* pays out more than it holds: closeWithdraw checks its balance.          *)
THEOREM TypeCorrect == Spec => []TypeOK
<1>1. IInv => TypeOK
  BY DEF IInv
<1> QED
  BY <1>1, Inductive, PTL

(* No status the server stores and shows is ahead of the two chains, for   *)
(* any number of schedulers, crashes, lost transactions and clock skews.   *)
THEOREM StatusCorrect == Spec => []StatusMatchesChains
<1>1. IInv => StatusMatchesChains
  BY DEF IInv, RowsTrue, RowTrue, StatusMatchesChains
<1> QED
  BY <1>1, Inductive, PTL

(* openWithdraw only ever opens a box on the terms of the deposit box,     *)
(* whatever was posted to /bridge/deposit.                                 *)
THEOREM TermsCorrect == Spec => []WithdrawOnDepositTerms
<1>1. IInv => WithdrawOnDepositTerms
  BY DEF IInv, ChainsTrue, WithdrawOnDepositTerms, DepositOpened, WithdrawOpened
<1> QED
  BY <1>1, Inductive, PTL

(* closeDeposit takes a deposit only after the trader was paid, and with   *)
(* the key the payout revealed.                                            *)
THEOREM PaidCorrect == Spec => []TraderIsPaid
<1>1. IInv => TraderIsPaid
  BY DEF IInv, ChainsTrue, TraderIsPaid
<1> QED
  BY <1>1, Inductive, PTL

-----------------------------------------------------------------------------
(* The atomic swap.                                                        *)
AtomicDeposit  == [s \in Swaps |-> Abstract(deposit[s])]
AtomicWithdraw == [s \in Swaps |-> Abstract(withdraw[s])]

LEMMA AtomicInit == Init => Atomic!Init
BY DEF Init, Atomic!Init, Atomic!NoBox, NoBox, Abstract

(* A box replaced is its abstraction replaced. *)
LEMMA AtomicUpdate ==
  ASSUME IInv, NEW s \in Swaps
  PROVE  /\ \A b : deposit' = [deposit EXCEPT ![s] = b]
                => AtomicDeposit' = [AtomicDeposit EXCEPT ![s] = Abstract(b)]
         /\ \A b : withdraw' = [withdraw EXCEPT ![s] = b]
                => AtomicWithdraw' = [AtomicWithdraw EXCEPT ![s] = Abstract(b)]
         /\ UNCHANGED deposit => UNCHANGED AtomicDeposit
         /\ UNCHANGED withdraw => UNCHANGED AtomicWithdraw
BY DEF IInv, TypeOK, AtomicDeposit, AtomicWithdraw, Abstract

LEMMA AtomicBox ==
  ASSUME IInv, NEW s \in Swaps
  PROVE  /\ AtomicDeposit[s] = Abstract(deposit[s]) /\ AtomicWithdraw[s] = Abstract(withdraw[s])
         /\ AtomicDeposit[s].state = deposit[s].state /\ AtomicDeposit[s].terms = deposit[s].terms
         /\ AtomicWithdraw[s].state = withdraw[s].state /\ AtomicWithdraw[s].key = withdraw[s].key
BY DEF AtomicDeposit, AtomicWithdraw, Abstract

LEMMA AtomicOpen ==
  ASSUME IInv, NEW s \in Swaps, NEW t \in Terms, OpenDeposit(s, t)
  PROVE  Atomic!Deposit(s, t)
<1>0. PICK b : b = [state |-> "OPEN", terms |-> t, created |-> SourceClock, key |-> NoKey]
  OBVIOUS
<1>1. deposit[s].state = "INVALID" /\ deposit' = [deposit EXCEPT ![s] = b] /\ UNCHANGED withdraw
  BY <1>0 DEF OpenDeposit
<1>2. Abstract(b) = Atomic!Opened(t)
  BY <1>0 DEF Abstract, Atomic!Opened
<1>3. /\ AtomicDeposit' = [AtomicDeposit EXCEPT ![s] = Atomic!Opened(t)]
      /\ UNCHANGED AtomicWithdraw
  BY <1>1, <1>2 DEF IInv, TypeOK, AtomicDeposit, AtomicWithdraw
<1> QED
  BY <1>1, <1>3, AtomicBox DEF Atomic!Deposit, AtomicDeposit, AtomicWithdraw

LEMMA AtomicReserve ==
  ASSUME IInv, NEW s \in Swaps, NEW b, withdraw[s].state = "INVALID", DepositOpened(s),
         Abstract(b) = Atomic!Opened(deposit[s].terms),
         withdraw' = [withdraw EXCEPT ![s] = b], UNCHANGED deposit
  PROVE  Atomic!Reserve(s)
<1>1. /\ AtomicWithdraw' = [AtomicWithdraw EXCEPT ![s] = Atomic!Opened(deposit[s].terms)]
      /\ UNCHANGED AtomicDeposit
  BY AtomicUpdate
<1> QED
  BY <1>1, AtomicBox DEF Atomic!Reserve, AtomicDeposit, AtomicWithdraw, DepositOpened

(* What closing a box leaves of its abstraction. *)
LEMMA ClosedBox ==
  ASSUME NEW a \in Box, NEW k \in Keys \cup {NoKey},
         NEW b, b = [a EXCEPT !.state = "CLOSED", !.key = k]
  PROVE  Abstract(b) = [Abstract(a) EXCEPT !.state = "CLOSED", !.key = k]
<1> DEFINE Pair == [state : BoxStates, terms : Terms \cup {NoTerms}, key : Keys \cup {NoKey}]
<1>1. b.state = "CLOSED" /\ b.key = k /\ b.terms = a.terms /\ b \in Box
  BY DEF Box, BoxStates
<1>2. Abstract(a) \in Pair /\ Abstract(a).terms = a.terms
  BY DEF Abstract, Box
<1>3. Abstract(b) \in Pair
  BY <1>1 DEF Abstract, Box
<1>4. Abstract(b).state = "CLOSED" /\ Abstract(b).key = k /\ Abstract(b).terms = a.terms
  BY <1>1 DEF Abstract
<1>5. PICK c : c = [Abstract(a) EXCEPT !.state = "CLOSED", !.key = k]
  OBVIOUS
<1>6. c \in Pair /\ c.state = "CLOSED" /\ c.key = k /\ c.terms = a.terms
  BY <1>2, <1>5 DEF BoxStates
<1> QED
  BY <1>3, <1>4, <1>5, <1>6

LEMMA AtomicPayOut ==
  ASSUME IInv, NEW s \in Swaps, NEW k \in Keys, CanCloseWithdraw(s, k), CloseWithdrawBox(s, k)
  PROVE  Atomic!PayOut(s, k)
<1>1. PICK b : b = [withdraw[s] EXCEPT !.state = "CLOSED", !.key = k]
  OBVIOUS
<1>2. withdraw[s] \in Box
  BY DEF IInv, TypeOK
<1>3. withdraw' = [withdraw EXCEPT ![s] = b] /\ UNCHANGED deposit /\ withdraw[s].state = "OPEN"
  BY <1>1, <1>2 DEF CloseWithdrawBox, CanCloseWithdraw, IInv, TypeOK, Box
<1>4. Abstract(b) = [Abstract(withdraw[s]) EXCEPT !.state = "CLOSED", !.key = k]
  BY <1>1, <1>2, ClosedBox
<1>5. /\ AtomicWithdraw' = [AtomicWithdraw EXCEPT ![s] =
                                [AtomicWithdraw[s] EXCEPT !.state = "CLOSED", !.key = k]]
      /\ UNCHANGED AtomicDeposit
  BY <1>3, <1>4, AtomicBox DEF IInv, TypeOK, AtomicDeposit, AtomicWithdraw
<1>6. AtomicWithdraw[s].state = "OPEN"
  BY <1>3, AtomicBox
<1> QED
  BY <1>5, <1>6 DEF Atomic!PayOut, AtomicDeposit, AtomicWithdraw

LEMMA AtomicRelease ==
  ASSUME IInv, NEW s \in Swaps, CanExpireWithdraw(s), ExpireWithdrawBox(s)
  PROVE  Atomic!Release(s)
<1>1. PICK b : b = [withdraw[s] EXCEPT !.state = "EXPIRED"]
  OBVIOUS
<1>2. withdraw[s] \in Box
  BY DEF IInv, TypeOK
<1>3. withdraw' = [withdraw EXCEPT ![s] = b] /\ UNCHANGED deposit /\ withdraw[s].state = "OPEN"
  BY <1>1, <1>2 DEF ExpireWithdrawBox, CanExpireWithdraw, IInv, TypeOK, Box
<1>4. Abstract(b) = [Abstract(withdraw[s]) EXCEPT !.state = "EXPIRED"]
  BY <1>1, <1>2 DEF Abstract, Box
<1>5. /\ AtomicWithdraw' = [AtomicWithdraw EXCEPT ![s] =
                                [AtomicWithdraw[s] EXCEPT !.state = "EXPIRED"]]
      /\ UNCHANGED AtomicDeposit
  BY <1>3, <1>4, AtomicBox DEF IInv, TypeOK, AtomicDeposit, AtomicWithdraw
<1>6. AtomicWithdraw[s].state = "OPEN"
  BY <1>3, AtomicBox
<1> QED
  BY <1>5, <1>6 DEF Atomic!Release, AtomicDeposit, AtomicWithdraw

LEMMA AtomicRefund ==
  ASSUME IInv, NEW s \in Swaps, ExpireDeposit(s)
  PROVE  Atomic!Refund(s)
<1>1. PICK b : b = [deposit[s] EXCEPT !.state = "EXPIRED"]
  OBVIOUS
<1>2. deposit[s] \in Box
  BY DEF IInv, TypeOK
<1>3. deposit' = [deposit EXCEPT ![s] = b] /\ UNCHANGED withdraw /\ deposit[s].state = "OPEN"
  BY <1>1, <1>2 DEF ExpireDeposit, CanExpireDeposit, IInv, TypeOK, Box
<1>4. Abstract(b) = [Abstract(deposit[s]) EXCEPT !.state = "EXPIRED"]
  BY <1>1, <1>2 DEF Abstract, Box
<1>5. /\ AtomicDeposit' = [AtomicDeposit EXCEPT ![s] =
                                [AtomicDeposit[s] EXCEPT !.state = "EXPIRED"]]
      /\ UNCHANGED AtomicWithdraw
  BY <1>3, <1>4, AtomicBox DEF IInv, TypeOK, AtomicDeposit, AtomicWithdraw
<1>6. AtomicDeposit[s].state = "OPEN"
  BY <1>3, AtomicBox
<1> QED
  BY <1>5, <1>6 DEF Atomic!Refund, AtomicDeposit, AtomicWithdraw

LEMMA AtomicCollect ==
  ASSUME IInv, NEW s \in Swaps, withdraw[s].state = "CLOSED", deposit[s].state = "OPEN",
         deposit' = [deposit EXCEPT ![s].state = "CLOSED", ![s].key = withdraw[s].key],
         UNCHANGED withdraw
  PROVE  Atomic!Collect(s)
<1>1. PICK k : k = withdraw[s].key
  OBVIOUS
<1>2. deposit[s] \in Box /\ k \in Keys \cup {NoKey}
  BY <1>1 DEF IInv, TypeOK, Box
<1> DEFINE b == [deposit[s] EXCEPT !.state = "CLOSED", !.key = k]
<1>3. PICK c : c = b
  OBVIOUS
<1>4. deposit' = [deposit EXCEPT ![s] = c]
  BY <1>1, <1>2, <1>3 DEF IInv, TypeOK, Box
<1>5. Abstract(c) = [Abstract(deposit[s]) EXCEPT !.state = "CLOSED", !.key = k]
  BY <1>2, <1>3, ClosedBox
<1>6. UNCHANGED withdraw
  OBVIOUS
<1> HIDE DEF b
<1>7. /\ AtomicDeposit' = [AtomicDeposit EXCEPT ![s] =
            [AtomicDeposit[s] EXCEPT !.state = "CLOSED", !.key = k]]
      /\ UNCHANGED AtomicWithdraw
  <2>1. PICK d : d = [Abstract(deposit[s]) EXCEPT !.state = "CLOSED", !.key = k]
    OBVIOUS
  <2>2. AtomicDeposit' = [AtomicDeposit EXCEPT ![s] = d]
    BY <1>4, <1>5, <2>1 DEF IInv, TypeOK, AtomicDeposit
  <2>3. UNCHANGED AtomicWithdraw
    BY <1>6 DEF AtomicWithdraw
  <2> QED
    BY <2>1, <2>2, <2>3, AtomicBox
<1>8. /\ AtomicDeposit[s].state = "OPEN"
      /\ AtomicWithdraw[s].state = "CLOSED" /\ AtomicWithdraw[s].key = k
  BY <1>1, AtomicBox
<1>9. AtomicDeposit' = [AtomicDeposit EXCEPT ![s] =
            [AtomicDeposit[s] EXCEPT !.state = "CLOSED", !.key = AtomicWithdraw[s].key]]
  BY <1>7, <1>8
<1> QED
  BY <1>7, <1>8, <1>9 DEF Atomic!Collect, AtomicDeposit, AtomicWithdraw

LEMMA AtomicMine ==
  ASSUME IInv, NEW tx \in pending, Mine(tx)
  PROVE  Atomic!Next \/ UNCHANGED <<AtomicDeposit, AtomicWithdraw>>
<1>1. tx \in Tx /\ TxTrue(tx)
  BY DEF IInv, TypeOK, PendingTrue
<1>2. tx.swap \in Swaps
  BY <1>1 DEF Tx
<1>3. ASSUME Succeeds(tx), MineOpenWithdraw(tx) PROVE Atomic!Next
  <2>0. PICK b : b = [state |-> "OPEN", terms |-> tx.terms, created |-> TargetClock, key |-> NoKey]
    OBVIOUS
  <2>1. /\ withdraw[tx.swap].state = "INVALID"
        /\ DepositOpened(tx.swap) /\ tx.terms = deposit[tx.swap].terms
        /\ withdraw' = [withdraw EXCEPT ![tx.swap] = b] /\ UNCHANGED deposit
    BY <1>1, <1>3, <2>0 DEF Succeeds, MineOpenWithdraw, CanOpenWithdraw, TxTrue
  <2>2. Abstract(b) = Atomic!Opened(deposit[tx.swap].terms)
    BY <2>0, <2>1 DEF Abstract, Atomic!Opened
  <2>3. Atomic!Reserve(tx.swap)
    BY <1>2, <2>1, <2>2, AtomicReserve
  <2> QED
    BY <1>2, <2>3 DEF Atomic!Next
<1>4. ASSUME Succeeds(tx), MineCloseWithdraw(tx) PROVE Atomic!Next
  <2>1. CanCloseWithdraw(tx.swap, tx.key) /\ CloseWithdrawBox(tx.swap, tx.key)
    BY <1>4 DEF Succeeds, MineCloseWithdraw
  <2>2. tx.key \in Keys
    BY <1>1, <1>4 DEF MineCloseWithdraw, TxTrue
  <2>3. Atomic!PayOut(tx.swap, tx.key)
    BY <1>2, <2>1, <2>2, AtomicPayOut
  <2> QED
    BY <1>2, <2>2, <2>3 DEF Atomic!Next
<1>5. ASSUME Succeeds(tx), MineExpireWithdraw(tx) PROVE Atomic!Next
  <2>1. CanExpireWithdraw(tx.swap) /\ ExpireWithdrawBox(tx.swap)
    BY <1>5 DEF Succeeds, MineExpireWithdraw
  <2>2. Atomic!Release(tx.swap)
    BY <1>2, <2>1, AtomicRelease
  <2> QED
    BY <1>2, <2>2 DEF Atomic!Next
<1>6. ASSUME Succeeds(tx), MineCloseDeposit(tx) PROVE Atomic!Next
  <2>1. /\ deposit[tx.swap].state = "OPEN"
        /\ withdraw[tx.swap].state = "CLOSED" /\ withdraw[tx.swap].key = tx.key
        /\ deposit' = [deposit EXCEPT ![tx.swap].state = "CLOSED", ![tx.swap].key = tx.key]
        /\ UNCHANGED withdraw
    BY <1>1, <1>6 DEF Succeeds, MineCloseDeposit, CanCloseDeposit, TxTrue
  <2>2. Atomic!Collect(tx.swap)
    BY <1>2, <2>1, AtomicCollect
  <2> QED
    BY <1>2, <2>2 DEF Atomic!Next
<1>7. ASSUME UNCHANGED chain PROVE UNCHANGED <<AtomicDeposit, AtomicWithdraw>>
  BY <1>7 DEF chain, AtomicDeposit, AtomicWithdraw
<1> QED
  BY <1>3, <1>4, <1>5, <1>6, <1>7 DEF Mine

LEMMA AtomicUser ==
  ASSUME IInv, NEW s \in Swaps, User(s)
  PROVE  Atomic!Next \/ UNCHANGED <<AtomicDeposit, AtomicWithdraw>>
<1>1. ASSUME NEW t \in Terms, OpenDeposit(s, t) PROVE Atomic!Next
  BY <1>1, AtomicOpen DEF Atomic!Next
<1>2. ASSUME NEW t \in Terms, PostDeposit(s, t)
      PROVE  UNCHANGED <<AtomicDeposit, AtomicWithdraw>>
  BY <1>2 DEF PostDeposit, chain, AtomicDeposit, AtomicWithdraw
<1>3. ASSUME NEW k \in Keys, PostSecretKey(s, k)
      PROVE  UNCHANGED <<AtomicDeposit, AtomicWithdraw>>
  BY <1>3 DEF PostSecretKey, chain, AtomicDeposit, AtomicWithdraw
<1>4. ASSUME NEW k \in Keys, CloseWithdraw(s, k) PROVE Atomic!Next
  BY <1>4, AtomicPayOut DEF CloseWithdraw, Atomic!Next
<1>5. CASE ExpireDeposit(s)
  BY <1>5, AtomicRefund DEF Atomic!Next
<1>6. CASE ExpireWithdraw(s)
  BY <1>6, AtomicRelease DEF ExpireWithdraw, Atomic!Next
<1>7. CASE CloseDeposit(s)
  BY <1>7, AtomicCollect DEF CloseDeposit, CanCloseDeposit, Atomic!Next
<1> QED
  BY <1>1, <1>2, <1>3, <1>4, <1>5, <1>6, <1>7 DEF User

(* No step of the server touches a box. *)
LEMMA ServerKeepsBoxes ==
  ASSUME NEW w \in Workers, Worker(w) \/ Abort(w)
  PROVE  UNCHANGED chain
BY DEF Worker, Abort, StartRound, BeginTask, PutOnHold, CheckDepositIsOpened, RecheckDeposit,
       OpenWithdraw, CheckWithdrawIsOpened, UpdateTimeDiff, CloseWithdrawTask,
       CheckWithdrawIsClosed, ExpireWithdrawTask, CheckWithdrawIsExpired, CloseDepositTask,
       CheckDepositIsClosed, Record, Settle, Stamp

LEMMA AtomicStep ==
  IInv /\ [Next]_vars => [Atomic!Next]_<<AtomicDeposit, AtomicWithdraw>>
<1> SUFFICES ASSUME IInv, [Next]_vars
             PROVE  Atomic!Next \/ UNCHANGED <<AtomicDeposit, AtomicWithdraw>>
  OBVIOUS
<1>1. ASSUME UNCHANGED chain PROVE UNCHANGED <<AtomicDeposit, AtomicWithdraw>>
  BY <1>1 DEF chain, AtomicDeposit, AtomicWithdraw
<1>2. ASSUME NEW w \in Workers, Worker(w) \/ Abort(w)
      PROVE  UNCHANGED <<AtomicDeposit, AtomicWithdraw>>
  BY <1>1, <1>2, ServerKeepsBoxes
<1>3. ASSUME NEW tx \in pending, Drop(tx) PROVE UNCHANGED <<AtomicDeposit, AtomicWithdraw>>
  BY <1>1, <1>3 DEF Drop
<1>4. CASE Tick
  BY <1>1, <1>4 DEF Tick
<1>5. CASE UNCHANGED vars
  BY <1>1, <1>5 DEF vars, chain
<1> QED
  BY <1>2, <1>3, <1>4, <1>5, AtomicUser, AtomicMine DEF Next

(* The server, the two bridges, any nodes and any users together implement *)
(* the atomic swap: every step is one of its steps or none.                *)
THEOREM Refinement == Spec => ImplementsAtomicSwap
<1>1. Init => Atomic!Init
  BY AtomicInit
<1>2. IInv /\ [Next]_vars => [Atomic!Next]_(Atomic!boxes)
  BY AtomicStep DEF Atomic!boxes, AtomicDeposit, AtomicWithdraw
<1> QED
  BY <1>1, <1>2, Inductive, PTL DEF Spec, ImplementsAtomicSwap, Atomic!Spec

(***************************************************************************)
(* One worker.                                                             *)
(*                                                                         *)
(* What holds as long as one worker runs on the database, for any number   *)
(* of swaps in its rounds, any crashes, failures, retries and clocks: a    *)
(* status follows the protocol, and no swap is forgotten.                  *)
(*                                                                         *)
(* The worker decides on rows it has read at the begin of the round.  It   *)
(* alone changes the status of a row, so the one it has read is still in   *)
(* the database until it has written another itself (Fresh).               *)
(***************************************************************************)

OneWorker == \E w : Workers = {w}

Fresh(w, s) ==
    snap[w][s] # NoRow /\ ~Written(w, s) => db[s].status = snap[w][s].status

(* The deposit box of a row with a handler was not seen ended: such a row  *)
(* is an error.                                                            *)
DepositPending(s) ==
    StatusIn(s, ActiveStatus) => db[s].depositState \in {"INVALID", "OPEN"}

OneInv ==
    /\ \A w \in Workers, s \in Swaps : Fresh(w, s)
    /\ \A s \in Swaps : DepositPending(s)

StatusStep ==
    \A s \in Swaps : db[s] # NoRow /\ db'[s].status # db[s].status =>
        <<db[s].status, db'[s].status>> \in StatusEdges

(* A handler moves its row on, from the status it has read.                *)
Moves(w) ==
    \E s, r :
        /\ s = work[w].swap
        /\ db' = [db EXCEPT ![s] = r]
        /\ \/ r.status = db[s].status
           \/ /\ pc[w] \in {"recheck", "judge", "settle"} /\ Written(w, s)'
              /\ <<Current(w).status, r.status>> \in StatusEdges
        /\ r.depositState \in {db[s].depositState, "OPEN"} \/ r.status \in ErrorStatus
TaskMove(w) ==
    /\ UNCHANGED snap
    /\ UNCHANGED db \/ (pc[w] \notin {"idle", "loop"} /\ Moves(w))
    /\ \A s \in Swaps : Written(w, s) => Written(w, s)'

LEMMA Edges ==
    /\ \A st \in SendStatus : /\ <<st, SentStatus[st]>> \in StatusEdges
                              /\ <<st, GivenUpStatus[st]>> \in StatusEdges
    /\ ActiveStatus \cap ErrorStatus = {}
  BY DEF SendStatus, SendTask, SentStatus, GivenUpStatus, StatusEdges,
         ActiveStatus, SourceStatus, TargetStatus, ErrorStatus

LEMMA OneInit == Init => OneInv
  BY BridgeAssumption DEF Init, OneInv, Fresh, DepositPending, StatusIn

(***************************************************************************)
(* A step of a handler keeps the invariant.                                *)
(***************************************************************************)
LEMMA TaskMoveStep ==
    ASSUME OneWorker, IInv, OneInv, NEW w \in Workers, TaskMove(w)
    PROVE  OneInv' /\ StatusStep
  <1>1. Workers = {w}
    BY DEF OneWorker
  <1>2. CASE UNCHANGED db
    <2>1. \A s \in Swaps : Fresh(w, s)'
      BY <1>2 DEF TaskMove, OneInv, Fresh
    <2> QED
      BY <1>1, <1>2, <2>1 DEF OneInv, DepositPending, StatusIn, StatusStep
  <1>3. CASE pc[w] \notin {"idle", "loop"} /\ Moves(w)
    <2>1. PICK s, r :
             /\ s = work[w].swap
             /\ db' = [db EXCEPT ![s] = r]
             /\ \/ r.status = db[s].status
                \/ /\ pc[w] \in {"recheck", "judge", "settle"} /\ Written(w, s)'
                   /\ <<Current(w).status, r.status>> \in StatusEdges
             /\ r.depositState \in {db[s].depositState, "OPEN"} \/ r.status \in ErrorStatus
      BY <1>3 DEF Moves
    <2>2. /\ s \in Swaps /\ db[s] # NoRow
          /\ Current(w) = snap[w][s] /\ Current(w) # NoRow /\ Current(w).status \in ActiveStatus
      BY <1>3, <2>1, Job, BridgeAssumption
    <2>3. db'[s] = r /\ \A x \in Swaps \ {s} : db'[x] = db[x]
      BY <2>1, <2>2 DEF IInv, TypeOK
    <2>4. pc[w] \in {"recheck", "judge", "settle"} => db[s].status = Current(w).status
      BY <2>1, <2>2 DEF OneInv, Fresh, Written
    <2>5. \A x \in Swaps : Fresh(w, x)'
      <3>1. Fresh(w, s)'
        BY <2>1, <2>2, <2>3 DEF TaskMove, OneInv, Fresh
      <3>2. ASSUME NEW x \in Swaps \ {s} PROVE Fresh(w, x)'
        BY <2>3, <3>2 DEF TaskMove, OneInv, Fresh
      <3> QED
        BY <3>1, <3>2
    <2>6. DepositPending(s)'
      <3>1. db[s].status \in ActiveStatus \/ r.status \notin ActiveStatus \/ r.status = db[s].status
        BY <2>1, <2>2, <2>4
      <3>2. r.status \in ActiveStatus => db[s].depositState \in {"INVALID", "OPEN"}
        BY <2>2, <3>1 DEF OneInv, DepositPending, StatusIn
      <3> QED
        BY <2>1, <2>3, <3>2, Edges DEF DepositPending, StatusIn
    <2>7. \A x \in Swaps \ {s} : DepositPending(x)'
      BY <2>3 DEF OneInv, DepositPending, StatusIn
    <2>8. StatusStep
      BY <2>1, <2>3, <2>4 DEF StatusStep
    <2> QED
      BY <1>1, <2>5, <2>6, <2>7, <2>8 DEF OneInv
  <1> QED
    BY <1>2, <1>3 DEF TaskMove

(***************************************************************************)
(* Each handler makes such a step.                                         *)
(***************************************************************************)
LEMMA GoesTo ==
    ASSUME IInv, NEW w \in Workers, NEW l, Goto(w, l)
    PROVE  pc'[w] = l
  BY DEF Goto, IInv, TypeOK

LEMMA Unwritten ==
    ASSUME NEW w \in Workers, pc[w] \notin {"diff", "stamp"}, UNCHANGED <<db, snap>>
    PROVE  TaskMove(w)
  BY DEF TaskMove, Written

LEMMA RowMoves ==
    ASSUME IInv, NEW w \in Workers, pc[w] \in {"recheck", "judge", "settle"},
           NEW r, SetRow(w, r), <<Current(w).status, r.status>> \in StatusEdges,
           r.depositState \in {db[work[w].swap].depositState, "OPEN"} \/ r.status \in ErrorStatus,
           UNCHANGED snap, work'[w].swap = work[w].swap,
           NEW l \in {"diff", "stamp"}, Goto(w, l)
    PROVE  TaskMove(w)
  <1>1. PICK s : s = work[w].swap
    OBVIOUS
  <1>2. Written(w, s)'
    BY <1>1, GoesTo DEF Written
  <1>3. Moves(w)
    BY <1>1, <1>2 DEF Moves, SetRow
  <1> QED
    BY <1>3 DEF TaskMove, Written

LEMMA StatusMoves ==
    ASSUME IInv, NEW w \in Workers, pc[w] \in {"recheck", "judge", "settle"},
           NEW st, SetStatus(w, st), <<Current(w).status, st>> \in StatusEdges,
           UNCHANGED snap, work'[w].swap = work[w].swap, Goto(w, "stamp")
    PROVE  TaskMove(w)
  <1> DEFINE s == work[w].swap
             r == [db[s] EXCEPT !.status = st]
  <1>1. db[s] \in Row
    BY Job
  <1>2. r.status = st /\ r.depositState = db[s].depositState
    BY <1>1 DEF Row
  <1>3. SetRow(w, r)
    BY DEF SetRow, SetStatus
  <1> HIDE DEF r
  <1> QED
    BY <1>2, <1>3, RowMoves

LEMMA SendMoves ==
    ASSUME IInv, NEW w \in Workers, pc[w] = "judge", Current(w).status \in SendStatus,
           NEW tx, Send(w, tx), UNCHANGED snap
    PROVE  TaskMove(w)
  <1>1. CASE UNCHANGED db
    BY <1>1, Unwritten
  <1>2. CASE SetStatus(w, GivenUpStatus[Current(w).status]) /\ Goto(w, "stamp") /\ UNCHANGED work
    BY <1>2, Edges, StatusMoves
  <1> QED
    BY <1>1, <1>2 DEF Send, Submit

LEMMA TaskSteps ==
    ASSUME IInv, NEW w \in Workers, NEW s \in Swaps,
           BeginTask(w, s) \/ PutOnHold(w, s)
    PROVE  TaskMove(w)
  BY Unwritten DEF BeginTask, PutOnHold

LEMMA SettleMoves ==
    ASSUME IInv, NEW w \in Workers, Settle(w)
    PROVE  TaskMove(w)
  <1>1. Current(w).status \in SendStatus
    BY DEF Settle, IInv, JobsTrue, JobTrue
  <1> QED
    BY <1>1, Edges, StatusMoves DEF Settle

LEMMA UpdateTimeDiffMoves ==
    ASSUME IInv, NEW w \in Workers, UpdateTimeDiff(w)
    PROVE  TaskMove(w)
  <1>1. PICK s : s = work[w].swap
    OBVIOUS
  <1> DEFINE r == [db[s] EXCEPT !.timeDiff = work[w].diff]
  <1>2. db[s] \in Row
    BY <1>1, Job DEF UpdateTimeDiff
  <1>3. r.status = db[s].status /\ r.depositState = db[s].depositState
    BY <1>2 DEF Row
  <1>4. db' = [db EXCEPT ![s] = r]
    BY <1>1 DEF UpdateTimeDiff
  <1>5. pc'[w] = "stamp"
    BY GoesTo DEF UpdateTimeDiff
  <1> HIDE DEF r
  <1>6. Moves(w)
    BY <1>1, <1>3, <1>4 DEF Moves
  <1> QED
    BY <1>5, <1>6 DEF TaskMove, Written, UpdateTimeDiff

LEMMA CheckDepositIsOpenedMoves ==
    ASSUME IInv, NEW w \in Workers, CheckDepositIsOpened(w)
    PROVE  TaskMove(w)
  <1> DEFINE s == work[w].swap
             b == work[w].box
             Row2(st) == RowOfDeposit(db[s], b, st)
  <1>1. pc[w] = "judge" /\ Current(w).status = "NONE"
    BY DEF CheckDepositIsOpened, Handling
  <1>2. db[s] \in Row
    BY <1>1, Job
  <1>3. \A st : Row2(st).status = st /\ Row2(st).depositState = b.state
    BY <1>2 DEF Row, RowOfDeposit
  <1>4. CASE UNCHANGED db
    BY <1>1, <1>4, Unwritten DEF CheckDepositIsOpened
  <1>5. CASE SetStatus(w, "ERROR_OPENING_DEPOSIT")
    BY <1>1, <1>5, StatusMoves DEF CheckDepositIsOpened, StatusEdges
  <1>6. CASE \E st \in {"CONFIRMED_OPENING_DEPOSIT", "ERROR_OPENING_DEPOSIT"} :
                SetRow(w, Row2(st)) /\ (st = "ERROR_OPENING_DEPOSIT" \/ b.state = "OPEN")
    <2>1. PICK st \in {"CONFIRMED_OPENING_DEPOSIT", "ERROR_OPENING_DEPOSIT"} :
                SetRow(w, Row2(st)) /\ (st = "ERROR_OPENING_DEPOSIT" \/ b.state = "OPEN")
      BY <1>6
    <2>2. <<Current(w).status, Row2(st).status>> \in StatusEdges
      BY <1>1, <1>3, <2>1 DEF StatusEdges
    <2>3. Row2(st).depositState \in {db[s].depositState, "OPEN"} \/ Row2(st).status \in ErrorStatus
      BY <1>3, <2>1 DEF ErrorStatus
    <2> HIDE DEF Row2
    <2> QED
      BY <1>1, <2>1, <2>2, <2>3, RowMoves DEF CheckDepositIsOpened
  <1> QED
    BY <1>4, <1>5, <1>6 DEF CheckDepositIsOpened

LEMMA RecheckDepositMoves ==
    ASSUME IInv, NEW w \in Workers, RecheckDeposit(w)
    PROVE  TaskMove(w)
  <1>1. pc[w] = "recheck" /\ Current(w).status = "CONFIRMED_OPENING_DEPOSIT"
    BY DEF RecheckDeposit, IInv, JobsTrue, JobTrue
  <1>2. CASE UNCHANGED db
    BY <1>1, <1>2, Unwritten DEF RecheckDeposit
  <1>3. CASE SetStatus(w, "ERROR_OPENING_WITHDRAW") /\ Goto(w, "stamp") /\ UNCHANGED work
    BY <1>1, <1>3, StatusMoves DEF RecheckDeposit, StatusEdges
  <1> QED
    BY <1>2, <1>3 DEF RecheckDeposit

LEMMA OpenWithdrawMoves ==
    ASSUME IInv, NEW w \in Workers, OpenWithdraw(w)
    PROVE  TaskMove(w)
  <1>1. pc[w] = "judge" /\ Current(w).status = "CONFIRMED_OPENING_DEPOSIT"
    BY DEF OpenWithdraw, Handling
  <1>2. CASE work[w].box.state = "INVALID"
    BY <1>1, <1>2, SendMoves, StatusSets DEF OpenWithdraw
  <1>3. CASE work[w].box.state # "INVALID"
    <2>1. PICK st \in {"FINISHED_OPENING_WITHDRAW", "ERROR_OPENING_WITHDRAW"} :
              SetStatus(w, st) /\ Goto(w, "stamp") /\ UNCHANGED work
      BY <1>3 DEF OpenWithdraw
    <2>2. <<Current(w).status, st>> \in StatusEdges
      BY <1>1, <2>1 DEF StatusEdges
    <2> QED
      BY <1>1, <2>1, <2>2, StatusMoves DEF OpenWithdraw
  <1> QED
    BY <1>2, <1>3

(* What a handler writes from a withdraw box leaves the deposit's state.   *)
LEMMA WithdrawRowMoves ==
    ASSUME IInv, NEW w \in Workers, pc[w] = "judge", NEW x, NEW st,
           SetRow(w, [db[work[w].swap] EXCEPT !.withdrawState = x, !.status = st]),
           <<Current(w).status, st>> \in StatusEdges,
           UNCHANGED snap, work'[w].swap = work[w].swap,
           NEW l \in {"diff", "stamp"}, Goto(w, l)
    PROVE  TaskMove(w)
  <1> DEFINE r == [db[work[w].swap] EXCEPT !.withdrawState = x, !.status = st]
  <1>1. db[work[w].swap] \in Row
    BY Job
  <1>2. r.status = st /\ r.depositState = db[work[w].swap].depositState
    BY <1>1 DEF Row
  <1> HIDE DEF r
  <1>3. SetRow(w, r)
    BY DEF r
  <1> QED
    BY <1>2, <1>3, RowMoves

LEMMA CheckWithdrawIsOpenedMoves ==
    ASSUME IInv, NEW w \in Workers, CheckWithdrawIsOpened(w)
    PROVE  TaskMove(w)
  <1> DEFINE b == work[w].box
  <1>1. pc[w] = "judge" /\ Current(w).status = "FINISHED_OPENING_WITHDRAW"
    BY DEF CheckWithdrawIsOpened, Handling
  <1>2. CASE b.state = "INVALID"
    BY <1>1, <1>2, Unwritten DEF CheckWithdrawIsOpened
  <1>3. CASE b.state # "INVALID"
    <2>1. work'[w].swap = work[w].swap
      BY <1>3 DEF CheckWithdrawIsOpened, IInv, TypeOK
    <2>2. PICK st \in {"ERROR_OPENING_WITHDRAW", "CONFIRMED_OPENING_WITHDRAW"} :
              SetRow(w, [db[work[w].swap] EXCEPT !.withdrawState = b.state, !.status = st])
      BY <1>3 DEF CheckWithdrawIsOpened
    <2>3. <<Current(w).status, st>> \in StatusEdges
      BY <1>1, <2>2 DEF StatusEdges
    <2> QED
      BY <1>1, <1>3, <2>1, <2>2, <2>3, WithdrawRowMoves DEF CheckWithdrawIsOpened
  <1> QED
    BY <1>2, <1>3

LEMMA CloseWithdrawTaskMoves ==
    ASSUME IInv, NEW w \in Workers, CloseWithdrawTask(w)
    PROVE  TaskMove(w)
  <1>1. pc[w] = "judge" /\ Current(w).status = "CONFIRMED_OPENING_WITHDRAW" /\ UNCHANGED snap
    BY DEF CloseWithdrawTask, Handling
  <1>2. CASE UNCHANGED db
    BY <1>1, <1>2, Unwritten
  <1>3. CASE /\ SetRow(w, RowOfWithdraw(db[work[w].swap], work[w].box, "CONFIRMED_CLOSING_WITHDRAW"))
             /\ Goto(w, "stamp") /\ UNCHANGED work
    <2>1. <<Current(w).status, "CONFIRMED_CLOSING_WITHDRAW">> \in StatusEdges
      BY <1>1 DEF StatusEdges
    <2> QED
      BY <1>1, <1>3, <2>1, WithdrawRowMoves DEF RowOfWithdraw
  <1>4. CASE SetStatus(w, "STARTED_EXPIRE_WITHDRAW") /\ Goto(w, "stamp") /\ UNCHANGED work
    BY <1>1, <1>4, StatusMoves DEF StatusEdges
  <1>5. CASE \E tx : Send(w, tx)
    BY <1>1, <1>5, SendMoves, StatusSets
  <1> QED
    BY <1>2, <1>3, <1>4, <1>5 DEF CloseWithdrawTask

LEMMA CheckWithdrawIsClosedMoves ==
    ASSUME IInv, NEW w \in Workers, CheckWithdrawIsClosed(w)
    PROVE  TaskMove(w)
  <1>1. /\ pc[w] = "judge" /\ Current(w).status = "FINISHED_CLOSING_WITHDRAW"
        /\ UNCHANGED <<snap, work>> /\ Goto(w, "stamp")
    BY DEF CheckWithdrawIsClosed, Handling
  <1>2. CASE UNCHANGED db
    BY <1>1, <1>2, Unwritten
  <1>3. CASE SetStatus(w, "STARTED_EXPIRE_WITHDRAW")
    BY <1>1, <1>3, StatusMoves DEF StatusEdges
  <1>4. ASSUME NEW st \in {"CONFIRMED_CLOSING_WITHDRAW", "ERROR_CLOSING_WITHDRAW"},
               SetRow(w, RowOfWithdraw(db[work[w].swap], work[w].box, st))
        PROVE  TaskMove(w)
    <2>1. <<Current(w).status, st>> \in StatusEdges
      BY <1>1 DEF StatusEdges
    <2> QED
      BY <1>1, <1>4, <2>1, WithdrawRowMoves DEF RowOfWithdraw
  <1> QED
    BY <1>2, <1>3, <1>4 DEF CheckWithdrawIsClosed

LEMMA ExpireWithdrawTaskMoves ==
    ASSUME IInv, NEW w \in Workers, ExpireWithdrawTask(w)
    PROVE  TaskMove(w)
  <1>1. pc[w] = "judge" /\ Current(w).status = "STARTED_EXPIRE_WITHDRAW" /\ UNCHANGED snap
    BY DEF ExpireWithdrawTask, Handling
  <1>2. CASE UNCHANGED db
    BY <1>1, <1>2, Unwritten
  <1>3. CASE SetStatus(w, "CONFIRMED_CLOSING_WITHDRAW") /\ Goto(w, "stamp") /\ UNCHANGED work
    BY <1>1, <1>3, StatusMoves DEF StatusEdges
  <1>4. CASE \E tx : Send(w, tx)
    BY <1>1, <1>4, SendMoves, StatusSets
  <1> QED
    BY <1>2, <1>3, <1>4 DEF ExpireWithdrawTask

LEMMA CloseDepositTaskMoves ==
    ASSUME IInv, NEW w \in Workers, CloseDepositTask(w)
    PROVE  TaskMove(w)
  BY SendMoves, StatusSets DEF CloseDepositTask, Handling

LEMMA LastChecksMove ==
    ASSUME IInv, NEW w \in Workers, CheckDepositIsClosed(w) \/ CheckWithdrawIsExpired(w)
    PROVE  TaskMove(w)
  <1>1. CASE CheckDepositIsClosed(w)
    BY <1>1, Unwritten, StatusMoves DEF CheckDepositIsClosed, Handling, StatusEdges
  <1>2. CASE CheckWithdrawIsExpired(w)
    BY <1>2, Unwritten, StatusMoves DEF CheckWithdrawIsExpired, Handling, StatusEdges
  <1> QED
    BY <1>1, <1>2

-----------------------------------------------------------------------------
(* The other steps leave the statuses of the rows as they are.             *)
LEMMA KeepRows ==
    ASSUME OneInv,
           \A s \in Swaps : \/ db'[s] = db[s]
                            \/ /\ db[s] # NoRow
                               /\ db'[s].status = db[s].status
                               /\ db'[s].depositState = db[s].depositState,
           \A v \in Workers, s \in Swaps : snap'[v][s] # NoRow =>
               /\ snap'[v][s] = snap[v][s]
               /\ Written(v, s) => Written(v, s)'
    PROVE  OneInv' /\ StatusStep
  <1>1. \A v \in Workers, s \in Swaps : Fresh(v, s)'
    BY DEF OneInv, Fresh
  <1>2. \A s \in Swaps : DepositPending(s)'
    BY DEF OneInv, DepositPending, StatusIn
  <1>3. StatusStep
    BY DEF StatusStep
  <1> QED
    BY <1>1, <1>2, <1>3 DEF OneInv

LEMMA StillKeeps ==
    ASSUME OneInv, UNCHANGED <<db, worker>>
    PROVE  OneInv' /\ StatusStep
  BY KeepRows DEF worker, Written

LEMMA StartRoundKeeps ==
    ASSUME IInv, OneInv, NEW w \in Workers, StartRound(w)
    PROVE  OneInv' /\ StatusStep
  <1>1. UNCHANGED db /\ snap \in [Workers -> [Swaps -> Row \cup {NoRow}]]
    BY DEF StartRound, IInv, TypeOK
  <1>2. \A s \in Swaps : snap'[w][s] # NoRow => snap'[w][s] = db[s]
    BY <1>1 DEF StartRound
  <1>3. \A v \in Workers \ {w} : snap'[v] = snap[v] /\ pc'[v] = pc[v] /\ work'[v] = work[v]
    BY <1>1 DEF StartRound, IInv, TypeOK
  <1>4. \A s \in Swaps : Fresh(w, s)'
    BY <1>1, <1>2 DEF Fresh
  <1>5. \A v \in Workers \ {w}, s \in Swaps : Fresh(v, s)'
    BY <1>1, <1>3 DEF OneInv, Fresh, Written
  <1> QED
    BY <1>1, <1>4, <1>5 DEF OneInv, DepositPending, StatusIn, StatusStep

LEMMA StampKeeps ==
    ASSUME IInv, OneInv, NEW w \in Workers, Stamp(w)
    PROVE  OneInv' /\ StatusStep
  <1>1. PICK s : s = work[w].swap
    OBVIOUS
  <1> DEFINE r == [db[s] EXCEPT !.updated = work[w].began]
  <1>2. s \in Swaps /\ db[s] \in Row /\ db[s] # NoRow
    BY <1>1, Job DEF Stamp
  <1>3. r.status = db[s].status /\ r.depositState = db[s].depositState
    BY <1>2 DEF Row
  <1>4. db' = [db EXCEPT ![s] = r]
    BY <1>1 DEF Stamp, SetRow, StampedRow
  <1> HIDE DEF r
  <1>5. \A x \in Swaps : db'[x] = db[x] \/ (x = s /\ db'[x] = r)
    BY <1>4 DEF IInv, TypeOK
  <1>6. /\ snap' = [snap EXCEPT ![w] = [snap[w] EXCEPT ![s] = NoRow]]
        /\ snap \in [Workers -> [Swaps -> Row \cup {NoRow}]]
    BY <1>1 DEF Stamp, IInv, TypeOK
  <1>7. /\ snap'[w][s] = NoRow
        /\ \A x \in Swaps \ {s} : snap'[w][x] = snap[w][x] /\ ~Written(w, x)
    BY <1>1, <1>2, <1>6 DEF Written
  <1>8. \A v \in Workers \ {w} : snap'[v] = snap[v] /\ pc'[v] = pc[v] /\ work'[v] = work[v]
    BY <1>6 DEF Stamp, Goto, IInv, TypeOK
  <1>9. \A v \in Workers, x \in Swaps : snap'[v][x] # NoRow =>
            snap'[v][x] = snap[v][x] /\ (Written(v, x) => Written(v, x)')
    BY <1>7, <1>8 DEF Written
  <1> QED
    BY <1>2, <1>3, <1>5, <1>9, KeepRows

LEMMA AbortKeeps ==
    ASSUME IInv, OneInv, NEW w \in Workers, Abort(w)
    PROVE  OneInv' /\ StatusStep
  <1>1. \A s \in Swaps : snap'[w][s] = NoRow
    BY DEF Abort, IInv, TypeOK
  <1>2. \A v \in Workers \ {w} : snap'[v] = snap[v] /\ pc'[v] = pc[v] /\ work'[v] = work[v]
    BY DEF Abort, Goto, IInv, TypeOK
  <1>3. \A v \in Workers, x \in Swaps : snap'[v][x] # NoRow =>
            snap'[v][x] = snap[v][x] /\ (Written(v, x) => Written(v, x)')
    BY <1>1, <1>2 DEF Written
  <1> QED
    BY <1>3, KeepRows DEF Abort

(* A row that is posted is in no snapshot yet.                             *)
LEMMA PostDepositKeeps ==
    ASSUME IInv, OneInv, NEW s \in Swaps, NEW t \in Terms, PostDeposit(s, t)
    PROVE  OneInv' /\ StatusStep
  <1>1. /\ db[s] = NoRow /\ db'[s].depositState = "INVALID"
        /\ \A x \in Swaps \ {s} : db'[x] = db[x]
        /\ UNCHANGED worker
    BY DEF PostDeposit, IInv, TypeOK
  <1>2. \A v \in Workers : snap[v][s] = NoRow
    BY <1>1 DEF IInv, SnapshotsTrue
  <1>3. \A v \in Workers, x \in Swaps : Fresh(v, x)'
    BY <1>1, <1>2 DEF OneInv, Fresh, Written, worker
  <1>4. \A x \in Swaps : DepositPending(x)'
    BY <1>1 DEF OneInv, DepositPending, StatusIn
  <1>5. StatusStep
    BY <1>1 DEF StatusStep
  <1> QED
    BY <1>3, <1>4, <1>5 DEF OneInv

LEMMA PostSecretKeyKeeps ==
    ASSUME IInv, OneInv, NEW s \in Swaps, NEW k \in Keys, PostSecretKey(s, k)
    PROVE  OneInv' /\ StatusStep
  <1>1. db[s] \in Row /\ db[s] # NoRow /\ UNCHANGED worker
    BY DEF PostSecretKey, IInv, TypeOK
  <1>2. /\ db'[s].status = db[s].status /\ db'[s].depositState = db[s].depositState
        /\ \A x \in Swaps \ {s} : db'[x] = db[x]
    BY <1>1 DEF PostSecretKey, IInv, TypeOK, Row
  <1> QED
    BY <1>1, <1>2, KeepRows DEF worker, Written

LEMMA UserKeeps ==
    ASSUME IInv, OneInv, NEW s \in Swaps, User(s)
    PROVE  OneInv' /\ StatusStep
  <1>1. CASE \E t \in Terms : PostDeposit(s, t)
    BY <1>1, PostDepositKeeps
  <1>2. CASE \E k \in Keys : PostSecretKey(s, k)
    BY <1>2, PostSecretKeyKeeps
  <1>3. CASE \/ \E t \in Terms : OpenDeposit(s, t)
             \/ \E k \in Keys : CloseWithdraw(s, k)
             \/ ExpireDeposit(s) \/ ExpireWithdraw(s) \/ CloseDeposit(s)
    BY <1>3, StillKeeps
       DEF OpenDeposit, CloseWithdraw, ExpireDeposit, ExpireWithdraw, CloseDeposit
  <1> QED
    BY <1>1, <1>2, <1>3 DEF User

LEMMA WorkerKeeps ==
    ASSUME OneWorker, IInv, OneInv, NEW w \in Workers, Worker(w)
    PROVE  OneInv' /\ StatusStep
  <1>1. CASE StartRound(w)
    BY <1>1, StartRoundKeeps
  <1>2. CASE Stamp(w)
    BY <1>2, StampKeeps
  <1>3. CASE \E s \in Swaps : BeginTask(w, s) \/ PutOnHold(w, s)
    BY <1>3, TaskSteps, TaskMoveStep
  <1>4. CASE CheckDepositIsOpened(w) \/ RecheckDeposit(w) \/ OpenWithdraw(w)
    BY <1>4, CheckDepositIsOpenedMoves, RecheckDepositMoves, OpenWithdrawMoves, TaskMoveStep
  <1>5. CASE CheckWithdrawIsOpened(w) \/ UpdateTimeDiff(w) \/ CloseWithdrawTask(w)
    BY <1>5, CheckWithdrawIsOpenedMoves, UpdateTimeDiffMoves, CloseWithdrawTaskMoves, TaskMoveStep
  <1>6. CASE CheckWithdrawIsClosed(w) \/ ExpireWithdrawTask(w) \/ CloseDepositTask(w)
    BY <1>6, CheckWithdrawIsClosedMoves, ExpireWithdrawTaskMoves, CloseDepositTaskMoves,
       TaskMoveStep
  <1>7. CASE CheckDepositIsClosed(w) \/ CheckWithdrawIsExpired(w)
    BY <1>7, LastChecksMove, TaskMoveStep
  <1>8. CASE Settle(w)
    BY <1>8, SettleMoves, TaskMoveStep
  <1>9. CASE Record(w)
    <2>1. TaskMove(w)
      BY <1>9, Unwritten DEF Record
    <2> QED
      BY <2>1, TaskMoveStep
  <1> QED
    BY <1>1, <1>2, <1>3, <1>4, <1>5, <1>6, <1>7, <1>8, <1>9 DEF Worker

LEMMA OneStep ==
    ASSUME OneWorker, IInv, OneInv, [Next]_vars
    PROVE  OneInv' /\ StatusStep
  <1>1. ASSUME NEW w \in Workers, Worker(w) \/ Abort(w) PROVE OneInv' /\ StatusStep
    BY <1>1, WorkerKeeps, AbortKeeps
  <1>2. ASSUME NEW tx \in pending, Mine(tx) \/ Drop(tx) PROVE OneInv' /\ StatusStep
    BY <1>2, StillKeeps DEF Mine, Drop
  <1>3. CASE Tick \/ UNCHANGED vars
    BY <1>3, StillKeeps DEF Tick, vars, worker
  <1> QED
    BY <1>1, <1>2, <1>3, UserKeeps DEF Next

-----------------------------------------------------------------------------
(* Whatever crashes, failed updates and retries, one worker moves a status *)
(* only along the edges of the protocol (work() and its handlers).         *)
THEOREM OneWorkerStatus == OneWorker => (Spec => StatusFollowsProtocol)
  <1> SUFFICES ASSUME OneWorker PROVE Spec => StatusFollowsProtocol
    OBVIOUS
  <1>1. IInv /\ OneInv /\ [Next]_vars => OneInv' /\ StatusStep
    BY OneStep
  <1>2. StatusStep => [\A s \in Swaps : db[s] # NoRow /\ db'[s].status # db[s].status =>
                            <<db[s].status, db'[s].status>> \in StatusEdges]_db
    BY DEF StatusStep
  <1> QED
    BY <1>1, <1>2, OneInit, Inductive, PTL DEF Spec, StatusFollowsProtocol

(* With one worker the filter of getBridgeWaitingSwap never hides a row    *)
(* that still has a handler: such a row's deposit box was not seen ended.  *)
THEOREM OneWorkerForgetsNothing == OneWorker => (Spec => []NoSwapIsForgotten)
  <1> SUFFICES ASSUME OneWorker PROVE Spec => []NoSwapIsForgotten
    OBVIOUS
  <1>1. IInv /\ OneInv /\ [Next]_vars => OneInv'
    BY OneStep
  <1>2. OneInv => NoSwapIsForgotten
    BY DEF OneInv, DepositPending, NoSwapIsForgotten, Waiting
  <1> QED
    BY <1>1, <1>2, OneInit, Inductive, PTL DEF Spec

-----------------------------------------------------------------------------
(***************************************************************************)
(* Expiry.                                                                 *)
(*                                                                         *)
(* What holds when no clock of the target chain is behind the server's,    *)
(* or when one worker runs and nothing fails: no expiry starts early.      *)
(***************************************************************************)

NothingFails == OneWorker /\ MaxFaults = 0

(* A box keeps its time, and a new one gets the time of its chain.         *)
TimesStay ==
    \A s \in Swaps :
        /\ WithdrawOpened(s) => withdraw'[s].created = withdraw[s].created
        /\ ~WithdrawOpened(s) /\ WithdrawOpened(s)' => withdraw'[s].created = TargetClock

LEMMA BoxTimes ==
    ASSUME IInv, NEW s \in Swaps, NEW t \in BoxStates, NEW k,
           WithdrawOpened(s), withdraw' = [withdraw EXCEPT ![s].state = t, ![s].key = k]
    PROVE  TimesStay
  <1>1. withdraw \in [Swaps -> Box]
    BY DEF IInv, TypeOK
  <1>2. withdraw'[s].created = withdraw[s].created
    BY <1>1 DEF Box
  <1>3. \A x \in Swaps \ {s} : withdraw'[x] = withdraw[x]
    BY <1>1
  <1> QED
    BY <1>2, <1>3 DEF TimesStay, WithdrawOpened

LEMMA ExpiredBoxTimes ==
    ASSUME IInv, NEW s \in Swaps, WithdrawOpened(s), ExpireWithdrawBox(s)
    PROVE  TimesStay
  <1>1. withdraw \in [Swaps -> Box]
    BY DEF IInv, TypeOK
  <1>2. withdraw'[s].created = withdraw[s].created
    BY <1>1 DEF Box, ExpireWithdrawBox
  <1>3. \A x \in Swaps \ {s} : withdraw'[x] = withdraw[x]
    BY <1>1 DEF ExpireWithdrawBox
  <1> QED
    BY <1>2, <1>3 DEF TimesStay, WithdrawOpened

LEMMA MineTimes ==
    ASSUME IInv, NEW tx \in pending, Mine(tx)
    PROVE  TimesStay
  <1>1. tx.swap \in Swaps /\ withdraw \in [Swaps -> Box]
    BY DEF IInv, TypeOK, Tx
  <1>2. CASE UNCHANGED withdraw
    BY <1>2 DEF TimesStay, WithdrawOpened
  <1>3. ASSUME Succeeds(tx), MineOpenWithdraw(tx) PROVE TimesStay
    <2>1. ~WithdrawOpened(tx.swap)
      BY <1>3 DEF Succeeds, MineOpenWithdraw, CanOpenWithdraw, WithdrawOpened
    <2>2. withdraw'[tx.swap].created = TargetClock
      BY <1>1, <1>3 DEF MineOpenWithdraw
    <2>3. \A x \in Swaps \ {tx.swap} : withdraw'[x] = withdraw[x]
      BY <1>1, <1>3 DEF MineOpenWithdraw
    <2> QED
      BY <2>1, <2>2, <2>3 DEF TimesStay, WithdrawOpened
  <1>4. ASSUME Succeeds(tx), MineCloseWithdraw(tx) PROVE TimesStay
    <2>1. WithdrawOpened(tx.swap)
      BY <1>4 DEF Succeeds, MineCloseWithdraw, CanCloseWithdraw, WithdrawOpened
    <2> QED
      BY <1>1, <1>4, <2>1, BoxTimes DEF MineCloseWithdraw, CloseWithdrawBox, BoxStates
  <1>5. ASSUME Succeeds(tx), MineExpireWithdraw(tx) PROVE TimesStay
    <2>1. WithdrawOpened(tx.swap)
      BY <1>5 DEF Succeeds, MineExpireWithdraw, CanExpireWithdraw, WithdrawOpened
    <2> QED
      BY <1>1, <1>5, <2>1, ExpiredBoxTimes DEF MineExpireWithdraw
  <1> QED
    BY <1>2, <1>3, <1>4, <1>5 DEF Mine, MineCloseDeposit, chain

LEMMA UserTimes ==
    ASSUME IInv, NEW s \in Swaps, User(s)
    PROVE  TimesStay /\ UNCHANGED <<now, worker>>
  <1>1. CASE UNCHANGED withdraw /\ UNCHANGED <<now, worker>>
    BY <1>1 DEF TimesStay, WithdrawOpened
  <1>2. ASSUME NEW k \in Keys, CloseWithdraw(s, k) PROVE TimesStay /\ UNCHANGED <<now, worker>>
    <2>1. WithdrawOpened(s)
      BY <1>2 DEF CloseWithdraw, CanCloseWithdraw, WithdrawOpened
    <2> QED
      BY <1>2, <2>1, BoxTimes DEF CloseWithdraw, CloseWithdrawBox, BoxStates
  <1>3. CASE ExpireWithdraw(s)
    <2>1. WithdrawOpened(s)
      BY <1>3 DEF ExpireWithdraw, CanExpireWithdraw, WithdrawOpened
    <2> QED
      BY <1>3, <2>1, ExpiredBoxTimes DEF ExpireWithdraw
  <1>4. CASE CloseDeposit(s) \/ ExpireDeposit(s) \/ \E t \in Terms : OpenDeposit(s, t)
    BY <1>1, <1>4 DEF CloseDeposit, ExpireDeposit, OpenDeposit
  <1>5. CASE (\E t \in Terms : PostDeposit(s, t)) \/ \E k \in Keys : PostSecretKey(s, k)
    BY <1>1, <1>5 DEF PostDeposit, PostSecretKey, chain
  <1> QED
    BY <1>2, <1>3, <1>4, <1>5 DEF User

LEMMA BoxesStayDated ==
    ASSUME IInv, BoxesDated, TimesStay, now' \in Nat, now <= now'
    PROVE  /\ BoxesDated'
           /\ \A s \in Swaps : WithdrawOpened(s) /\ LockOver(s) => LockOver(s)'
  <1>1. ASSUME NEW s \in Swaps, WithdrawOpened(s)
        PROVE  /\ withdraw[s].created <= TargetClock => withdraw'[s].created <= TargetClock'
               /\ LockOver(s) => LockOver(s)'
    BY <1>1, BridgeAssumption DEF TimesStay, LockOver, TargetClock, IInv, TypeOK, Box
  <1>2. ASSUME NEW s \in Swaps, ~WithdrawOpened(s), WithdrawOpened(s)'
        PROVE  withdraw'[s].created <= TargetClock'
    BY <1>2, BridgeAssumption DEF TimesStay, TargetClock, IInv, TypeOK
  <1> QED
    BY <1>1, <1>2 DEF BoxesDated

(* A step that leaves status and time difference of every row as they are. *)
LEMMA KeepsDates ==
    ASSUME IInv, DatesTrue, TimesStay, now' \in Nat, now <= now',
           \A s \in Swaps : \/ db'[s] = db[s]
                            \/ /\ db[s] # NoRow
                               /\ db'[s].status = db[s].status
                               /\ db'[s].timeDiff = db[s].timeDiff,
           \A v \in Workers, s \in Swaps : snap'[v][s] # NoRow => snap'[v][s] = snap[v][s],
           \A v \in Workers :
               \/ pc'[v] = pc[v] /\ work'[v] = work[v] /\ Current(v)' = Current(v)
               \/ pc'[v] \notin {"judge", "diff"} /\ (pc[v] # "diff" \/ TargetSkew >= 0)
    PROVE  DatesTrue'
  <1>1. BoxesDated' /\ \A s \in Swaps : WithdrawOpened(s) /\ LockOver(s) => LockOver(s)'
    BY BoxesStayDated DEF DatesTrue
  <1>2. ASSUME NEW s \in Swaps, db'[s] # NoRow PROVE RowDated(s, db[s])'
    <2>1. /\ db[s] # NoRow /\ db'[s].status = db[s].status
          /\ Dated(db[s]) <=> Dated(db[s])'
      BY <1>2 DEF Dated
    <2>2. RowTrue(s, db[s]) /\ RowDated(s, db[s])
      BY <2>1 DEF IInv, RowsTrue, DatesTrue, RowsDated
    <2>3. db[s].status \in AwaitsExpiry => LockOver(s)'
      BY <1>1, <2>2 DEF RowTrue, StatusTrue, RowDated, AwaitsExpiry, WithdrawOpened
    <2>4. TargetSkew >= 0 \/ (Dating(s) => Dating(s)')
      BY DEF Dating
    <2> QED
      BY <2>1, <2>2, <2>3, <2>4 DEF RowDated
  <1>3. ASSUME NEW v \in Workers, NEW s \in Swaps, snap'[v][s] # NoRow
        PROVE  SnapshotDated(s, snap[v][s])'
    <2>1. snap'[v][s] = snap[v][s] /\ SnapshotDated(s, snap[v][s])
      BY <1>3 DEF DatesTrue, SnapshotsDated
    <2>2. RowTrue(s, snap[v][s]) /\ db[s] # NoRow
      BY <1>3, <2>1 DEF IInv, SnapshotsTrue
    <2>3. snap[v][s].status \in AwaitsExpiry => LockOver(s)'
      BY <1>1, <2>1, <2>2 DEF RowTrue, StatusTrue, SnapshotDated, AwaitsExpiry, WithdrawOpened
    <2>4. Dated(db[s]) => Dated(db[s])'
      BY DEF Dated
    <2>5. Dated(snap[v][s]) => Dated(snap[v][s])'
      BY <2>1 DEF Dated
    <2> QED
      BY <2>1, <2>3, <2>4, <2>5 DEF SnapshotDated
  <1>4. ASSUME NEW v \in Workers PROVE JobDated(pc[v], work[v], Current(v))'
    <2>1. CASE pc'[v] \notin {"judge", "diff"}
      BY <2>1 DEF JobDated
    <2>2. CASE pc[v] \in {"judge", "diff"} /\ pc'[v] = pc[v] /\ work'[v] = work[v]
               /\ Current(v)' = Current(v)
      <3>1. JobDated(pc[v], work[v], Current(v))
        BY DEF DatesTrue, JobsDated
      <3>2. work[v].swap \in Swaps /\ JobTrue(pc[v], work[v], Current(v))
        BY <2>2, Job DEF IInv, JobsTrue
      <3>3. pc[v] = "judge" /\ Current(v).status \in AwaitsClose \cup {"FINISHED_OPENING_WITHDRAW"}
                 /\ work[v].box.state # "INVALID" => WithdrawOpened(work[v].swap)
        BY <3>2 DEF JobTrue, WithdrawBoxTrue, AwaitsClose
      <3> QED
        BY <2>2, <3>1, <3>2, <3>3 DEF JobDated, TimesStay
    <2> QED
      BY <2>1, <2>2
  <1> QED
    BY <1>1, <1>2, <1>3, <1>4 DEF DatesTrue, RowsDated, SnapshotsDated, JobsDated
(***************************************************************************)
(* A handler.                                                              *)
(***************************************************************************)

(* It rewrites its row, or none.                                           *)
WritesDated(w, s, r) ==
    /\ db' = [db EXCEPT ![s] = r]
    /\ Dated(db[s]) => Dated(r)
    /\ r.status \in AwaitsClose => Dated(r) \/ Dating(s)'
    /\ r.status \in AwaitsExpiry => LockOver(s)
    /\ pc[w] = "diff" => Dated(r)

LEMMA HandlerDates ==
    ASSUME IInv, DatesTrue, NEW w \in Workers, UNCHANGED <<now, withdraw, snap>>,
           \A v \in Workers \ {w} : pc'[v] = pc[v] /\ work'[v] = work[v],
           JobDated(pc[w], work[w], Current(w))',
           \/ UNCHANGED db /\ pc[w] # "diff"
           \/ /\ pc[w] \notin {"idle", "loop"}
              /\ \E s, r : s = work[w].swap /\ WritesDated(w, s, r)
    PROVE  DatesTrue'
  <1>1. BoxesDated' /\ \A s \in Swaps : LockOver(s) => LockOver(s)'
    BY DEF DatesTrue, BoxesDated, WithdrawOpened, LockOver, TargetClock
  <1>2. ASSUME NEW x \in Swaps PROVE Dating(x) => Dating(x)' \/ (pc[w] = "diff" /\ work[w].swap = x)
    BY DEF Dating
  <1>3. ASSUME NEW x \in Swaps, db'[x] = db[x], ~(pc[w] = "diff" /\ work[w].swap = x)
        PROVE  db'[x] # NoRow => RowDated(x, db[x])'
    BY <1>1, <1>2, <1>3 DEF DatesTrue, RowsDated, RowDated, Dated
  <1>4. ASSUME NEW v \in Workers PROVE JobDated(pc[v], work[v], Current(v))'
    BY DEF DatesTrue, JobsDated, JobDated, Current
  <1>5. ASSUME \A x \in Swaps : /\ db'[x] # NoRow => RowDated(x, db[x])'
                                /\ db[x] # NoRow /\ Dated(db[x]) => Dated(db[x])'
        PROVE  DatesTrue'
    <2>1. ASSUME NEW v \in Workers, NEW x \in Swaps, snap'[v][x] # NoRow
          PROVE  SnapshotDated(x, snap[v][x])'
      <3>1. snap'[v][x] = snap[v][x] /\ SnapshotDated(x, snap[v][x]) /\ db[x] # NoRow
        BY <2>1 DEF DatesTrue, SnapshotsDated, IInv, SnapshotsTrue
      <3>2. Dated(snap[v][x]) => Dated(snap[v][x])'
        BY <3>1 DEF Dated
      <3> QED
        BY <1>1, <1>5, <3>1, <3>2 DEF SnapshotDated
    <2> QED
      BY <1>1, <1>4, <1>5, <2>1 DEF DatesTrue, RowsDated, SnapshotsDated, JobsDated
  <1>6. CASE UNCHANGED db /\ pc[w] # "diff"
    BY <1>3, <1>5, <1>6 DEF Dated
  <1>7. ASSUME pc[w] \notin {"idle", "loop"}, NEW s, NEW r,
               s = work[w].swap, WritesDated(w, s, r)
        PROVE  DatesTrue'
    <2>1. s \in Swaps /\ db[s] # NoRow /\ db \in [Swaps -> Row \cup {NoRow}]
      BY <1>7, Job DEF IInv, TypeOK
    <2>2. db'[s] = r /\ \A x \in Swaps \ {s} : db'[x] = db[x]
      BY <1>7, <2>1 DEF WritesDated
    <2>3. Dated(db[s])' <=> Dated(r)
      BY <2>2 DEF Dated
    <2>4. RowDated(s, db[s])'
      <3>1. TargetSkew >= 0 => Dated(db[s])
        BY <2>1 DEF DatesTrue, RowsDated, RowDated
      <3> QED
        BY <1>1, <1>7, <2>1, <2>2, <2>3, <3>1 DEF WritesDated, RowDated
    <2>5. \A x \in Swaps \ {s} : db'[x] # NoRow => RowDated(x, db[x])'
      BY <1>3, <1>7, <2>2
    <2>6. \A x \in Swaps : db[x] # NoRow /\ Dated(db[x]) => Dated(db[x])'
      BY <1>7, <2>2, <2>3 DEF Dated, WritesDated
    <2> QED
      BY <1>5, <2>4, <2>5, <2>6
  <1> QED
    BY <1>6, <1>7

(* A handler that moves on in its row, or is done with it.                 *)
LEMMA PassesOn ==
    ASSUME IInv, DatesTrue, NEW w \in Workers, pc[w] # "diff",
           UNCHANGED <<now, withdraw, snap, db>>, NEW l, Goto(w, l), l \notin {"judge", "diff"},
           \A v \in Workers \ {w} : work'[v] = work[v]
    PROVE  DatesTrue'
  <1>1. pc'[w] = l /\ \A v \in Workers \ {w} : pc'[v] = pc[v]
    BY DEF Goto, IInv, TypeOK
  <1>2. JobDated(pc[w], work[w], Current(w))'
    BY <1>1 DEF JobDated
  <1> QED
    BY <1>1, <1>2, HandlerDates

LEMMA WritesStatus ==
    ASSUME IInv, DatesTrue, NEW w \in Workers, pc[w] \in {"recheck", "judge", "settle"},
           UNCHANGED <<now, withdraw, snap, work>>, Goto(w, "stamp"),
           NEW r, SetRow(w, r), r.timeDiff = db[work[w].swap].timeDiff,
           r.status \in AwaitsClose => Dated(db[work[w].swap]),
           r.status \in AwaitsExpiry => LockOver(work[w].swap)
    PROVE  DatesTrue'
  <1>1. pc'[w] = "stamp" /\ \A v \in Workers \ {w} : pc'[v] = pc[v]
    BY DEF Goto, IInv, TypeOK
  <1>2. JobDated(pc[w], work[w], Current(w))'
    BY <1>1 DEF JobDated
  <1>3. PICK s : s = work[w].swap
    OBVIOUS
  <1>4. WritesDated(w, s, r)
    BY <1>3 DEF WritesDated, SetRow, Dated
  <1> QED
    BY <1>1, <1>2, <1>3, <1>4, HandlerDates

LEMMA SetsStatus ==
    ASSUME IInv, DatesTrue, NEW w \in Workers, pc[w] \in {"recheck", "judge", "settle"},
           UNCHANGED <<now, withdraw, snap, work>>, Goto(w, "stamp"),
           NEW st, SetStatus(w, st),
           st \in AwaitsClose => Dated(db[work[w].swap]),
           st \in AwaitsExpiry => LockOver(work[w].swap)
    PROVE  DatesTrue'
  <1> DEFINE r == [db[work[w].swap] EXCEPT !.status = st]
  <1>1. db[work[w].swap] \in Row
    BY Job
  <1>2. r.status = st /\ r.timeDiff = db[work[w].swap].timeDiff
    BY <1>1 DEF Row
  <1>3. SetRow(w, r)
    BY DEF SetRow, SetStatus
  <1> HIDE DEF r
  <1> QED
    BY <1>2, <1>3, WritesStatus

LEMMA SendDates ==
    ASSUME IInv, DatesTrue, NEW w \in Workers, pc[w] = "judge",
           Current(w).status \in SendStatus, NEW tx, Send(w, tx), UNCHANGED <<now, chain, snap>>
    PROVE  DatesTrue'
  <1>1. UNCHANGED withdraw
    BY DEF chain
  <1>2. CASE SetStatus(w, GivenUpStatus[Current(w).status]) /\ Goto(w, "stamp") /\ UNCHANGED work
    <2>1. GivenUpStatus[Current(w).status] \notin AwaitsClose \cup AwaitsExpiry
      BY DEF GivenUpStatus, SendStatus, SendTask, AwaitsClose, AwaitsExpiry
    <2> QED
      BY <1>1, <1>2, <2>1, SetsStatus
  <1>3. CASE UNCHANGED <<db, work>> /\ Goto(w, "stamp")
    BY <1>1, <1>3, PassesOn
  <1>4. CASE \E n : Submit(w, tx, n)
    <2>1. UNCHANGED db /\ Goto(w, "record") /\ \A v \in Workers \ {w} : work'[v] = work[v]
      BY <1>4 DEF Submit, IInv, TypeOK
    <2> QED
      BY <1>1, <2>1, PassesOn
  <1> QED
    BY <1>2, <1>3, <1>4 DEF Send

(* A handler that has read the withdraw box knows when it was opened.      *)
LEMMA ReadDates ==
    ASSUME IInv, DatesTrue, NEW w \in Workers, pc[w] # "diff", NEW s \in Swaps,
           NEW task, NEW answers \in BOOLEAN, NEW b, NEW l, l # "diff",
           Read(w, s, task, answers, b, l),
           \/ b = withdraw[s]
           \/ snap[w][s].status \notin AwaitsClose \cup {"FINISHED_OPENING_WITHDRAW"},
           UNCHANGED <<now, chain, pending, db, snap>>
    PROVE  DatesTrue'
  <1>1. UNCHANGED withdraw
    BY DEF chain
  <1>2. \A v \in Workers \ {w} : work'[v] = work[v]
    BY DEF Read, IInv, TypeOK
  <1>3. CASE Goto(w, "stamp")
    BY <1>1, <1>2, <1>3, PassesOn
  <1>4. CASE Goto(w, l) /\ work' = [work EXCEPT ![w].swap = s, ![w].box = b]
    <2>1. pc'[w] = l /\ \A v \in Workers \ {w} : pc'[v] = pc[v]
      BY <1>4 DEF Goto, IInv, TypeOK
    <2>2. work'[w].swap = s /\ work'[w].box = b
      BY <1>4 DEF IInv, TypeOK
    <2>3. JobDated(pc[w], work[w], Current(w))'
      BY <1>1, <2>1, <2>2 DEF JobDated, Current
    <2> QED
      BY <1>1, <1>2, <2>1, <2>3, HandlerDates
  <1> QED
    BY <1>3, <1>4 DEF Read

LEMMA BeginTaskDates ==
    ASSUME IInv, DatesTrue, NEW w \in Workers, NEW s \in Swaps,
           BeginTask(w, s) \/ PutOnHold(w, s)
    PROVE  DatesTrue'
  <1>1. CASE PutOnHold(w, s)
    <2>1. UNCHANGED withdraw /\ \A v \in Workers \ {w} : work'[v] = work[v]
      BY <1>1 DEF PutOnHold, chain, IInv, TypeOK
    <2> QED
      BY <1>1, <2>1, PassesOn DEF PutOnHold
  <1>2. CASE BeginTask(w, s)
    <2> DEFINE st == snap[w][s].status
               ofDeposit == st \in {"NONE", "CONFIRMED_OPENING_DEPOSIT", "FINISHED_CLOSING_DEPOSIT"}
               answers == st = "CONFIRMED_CLOSING_WITHDRAW" => withdraw[s].state = "CLOSED"
               b == IF ofDeposit THEN deposit[s] ELSE withdraw[s]
               l == IF st = "CONFIRMED_OPENING_DEPOSIT" THEN "recheck" ELSE "judge"
    <2>1. Read(w, s, ReadTask[st], answers, b, l) /\ UNCHANGED <<now, chain, pending, db, snap>>
          /\ pc[w] = "loop"
      BY <1>2 DEF BeginTask
    <2>2. b = withdraw[s] \/ st \notin AwaitsClose \cup {"FINISHED_OPENING_WITHDRAW"}
      BY DEF AwaitsClose
    <2>3. answers \in BOOLEAN /\ l # "diff" /\ pc[w] # "diff"
      BY <2>1
    <2> HIDE DEF answers, b, l
    <2> QED
      BY <2>1, <2>2, <2>3, ReadDates
  <1> QED
    BY <1>1, <1>2
LEMMA CheckDepositIsOpenedDates ==
    ASSUME IInv, DatesTrue, NEW w \in Workers, CheckDepositIsOpened(w)
    PROVE  DatesTrue'
  <1> DEFINE s == work[w].swap
             b == work[w].box
             Row2(st) == RowOfDeposit(db[s], b, st)
  <1>1. /\ pc[w] = "judge" /\ UNCHANGED <<now, withdraw, snap, work>> /\ Goto(w, "stamp")
    BY DEF CheckDepositIsOpened, Handling, chain
  <1>2. CASE UNCHANGED db
    BY <1>1, <1>2, PassesOn
  <1>3. CASE SetStatus(w, "ERROR_OPENING_DEPOSIT")
    BY <1>1, <1>3, SetsStatus DEF AwaitsClose, AwaitsExpiry
  <1>4. ASSUME NEW st \in {"CONFIRMED_OPENING_DEPOSIT", "ERROR_OPENING_DEPOSIT"},
               SetRow(w, Row2(st))
        PROVE  DatesTrue'
    <2>1. db[s] \in Row
      BY <1>1, Job
    <2>2. Row2(st).status = st /\ Row2(st).timeDiff = db[s].timeDiff
      BY <2>1 DEF Row, RowOfDeposit
    <2>3. Row2(st).status \notin AwaitsClose \cup AwaitsExpiry
      BY <1>4, <2>2 DEF AwaitsClose, AwaitsExpiry
    <2> HIDE DEF Row2
    <2> QED
      BY <1>1, <1>4, <2>2, <2>3, WritesStatus
  <1> QED
    BY <1>2, <1>3, <1>4 DEF CheckDepositIsOpened

LEMMA RecheckDepositDates ==
    ASSUME IInv, DatesTrue, NEW w \in Workers, RecheckDeposit(w)
    PROVE  DatesTrue'
  <1>1. pc[w] = "recheck" /\ Current(w).status = "CONFIRMED_OPENING_DEPOSIT"
    BY DEF RecheckDeposit, IInv, JobsTrue, JobTrue
  <1>2. UNCHANGED <<now, withdraw, snap>>
    BY DEF RecheckDeposit, chain
  <1>3. CASE SetStatus(w, "ERROR_OPENING_WITHDRAW") /\ Goto(w, "stamp") /\ UNCHANGED work
    BY <1>1, <1>2, <1>3, SetsStatus DEF AwaitsClose, AwaitsExpiry
  <1>4. ASSUME Read(w, work[w].swap, "CheckWithdrawIsNone", TRUE, withdraw[work[w].swap], "judge"),
               UNCHANGED db
        PROVE  DatesTrue'
    <2>1. PICK s \in Swaps : s = work[w].swap
      BY <1>1, Job
    <2> QED
      BY <1>1, <1>4, <2>1, ReadDates DEF RecheckDeposit
  <1> QED
    BY <1>3, <1>4 DEF RecheckDeposit

LEMMA OpenWithdrawDates ==
    ASSUME IInv, DatesTrue, NEW w \in Workers, OpenWithdraw(w)
    PROVE  DatesTrue'
  <1>1. /\ pc[w] = "judge" /\ Current(w).status = "CONFIRMED_OPENING_DEPOSIT"
        /\ UNCHANGED <<now, chain, snap>>
    BY DEF OpenWithdraw, Handling
  <1>2. CASE work[w].box.state = "INVALID"
    BY <1>1, <1>2, SendDates, StatusSets DEF OpenWithdraw
  <1>3. CASE work[w].box.state # "INVALID"
    <2>1. PICK st \in {"FINISHED_OPENING_WITHDRAW", "ERROR_OPENING_WITHDRAW"} :
              SetStatus(w, st) /\ Goto(w, "stamp") /\ UNCHANGED work
      BY <1>3 DEF OpenWithdraw
    <2> QED
      BY <1>1, <2>1, SetsStatus DEF chain, AwaitsClose, AwaitsExpiry
  <1> QED
    BY <1>2, <1>3

(* The time difference is taken from the box, which is not ahead of its    *)
(* chain.                                                                  *)
LEMMA CheckWithdrawIsOpenedDates ==
    ASSUME IInv, DatesTrue, NEW w \in Workers, CheckWithdrawIsOpened(w)
    PROVE  DatesTrue'
  <1>1. PICK s, b : s = work[w].swap /\ b = work[w].box
    OBVIOUS
  <1>2. /\ pc[w] = "judge" /\ Current(w).status = "FINISHED_OPENING_WITHDRAW"
        /\ UNCHANGED <<now, withdraw, snap>>
    BY DEF CheckWithdrawIsOpened, Handling, chain
  <1>3. CASE b.state = "INVALID"
    BY <1>1, <1>2, <1>3, PassesOn DEF CheckWithdrawIsOpened
  <1>4. CASE b.state # "INVALID"
    <2>1. s \in Swaps /\ db[s] \in Row /\ WithdrawBoxTrue(s, b)
      BY <1>1, <1>2, Judged, Job
    <2>2. b.created = withdraw[s].created /\ b.created <= TargetClock
      BY <1>1, <1>2, <1>4, <2>1 DEF DatesTrue, JobsDated, JobDated, BoxesDated, WithdrawBoxTrue
    <2> DEFINE st == IF b.state = "EXPIRED" THEN "ERROR_OPENING_WITHDRAW"
                     ELSE "CONFIRMED_OPENING_WITHDRAW"
               r == [db[s] EXCEPT !.withdrawState = b.state, !.status = st]
    <2>3. /\ db' = [db EXCEPT ![s] = r] /\ Goto(w, "diff")
          /\ work' = [work EXCEPT ![w].diff = b.created - now]
      BY <1>1, <1>4 DEF CheckWithdrawIsOpened, SetRow
    <2>4. /\ pc'[w] = "diff" /\ work'[w].diff = b.created - now /\ work'[w].swap = s
          /\ \A v \in Workers \ {w} : pc'[v] = pc[v] /\ work'[v] = work[v]
      BY <1>1, <2>3 DEF Goto, IInv, TypeOK
    <2>5. b.created - now <= TargetSkew
      BY <2>1, <2>2, BridgeAssumption DEF TargetClock, IInv, TypeOK, Box
    <2>6. JobDated(pc[w], work[w], Current(w))'
      BY <2>4, <2>5 DEF JobDated
    <2>7. Dating(s)'
      BY <2>4 DEF Dating
    <2>8. r.timeDiff = db[s].timeDiff /\ r.status \notin AwaitsExpiry
      BY <2>1 DEF Row, AwaitsExpiry
    <2> HIDE DEF r
    <2>9. WritesDated(w, s, r)
      BY <1>2, <2>3, <2>7, <2>8 DEF WritesDated, Dated
    <2> QED
      BY <1>1, <1>2, <2>4, <2>6, <2>9, HandlerDates
  <1> QED
    BY <1>3, <1>4

LEMMA UpdateTimeDiffDates ==
    ASSUME IInv, DatesTrue, NEW w \in Workers, UpdateTimeDiff(w)
    PROVE  DatesTrue'
  <1>1. PICK s : s = work[w].swap
    OBVIOUS
  <1> DEFINE r == [db[s] EXCEPT !.timeDiff = work[w].diff]
  <1>2. /\ pc[w] = "diff" /\ UNCHANGED <<now, withdraw, snap, work>> /\ Goto(w, "stamp")
        /\ db' = [db EXCEPT ![s] = r]
    BY <1>1 DEF UpdateTimeDiff, chain
  <1>3. s \in Swaps /\ db[s] # NoRow /\ db[s] \in Row
    BY <1>1, <1>2, Job
  <1>4. r.timeDiff = work[w].diff /\ r.status = db[s].status
    BY <1>3 DEF Row
  <1>5. pc'[w] = "stamp" /\ \A v \in Workers \ {w} : pc'[v] = pc[v]
    BY <1>2 DEF Goto, IInv, TypeOK
  <1>6. JobDated(pc[w], work[w], Current(w))'
    BY <1>5 DEF JobDated
  <1> HIDE DEF r
  <1>7. Dated(r)
    BY <1>2, <1>4 DEF Dated, DatesTrue, JobsDated, JobDated
  <1>8. r.status \in AwaitsExpiry => LockOver(s)
    BY <1>3, <1>4 DEF DatesTrue, RowsDated, RowDated
  <1>9. WritesDated(w, s, r)
    BY <1>2, <1>7, <1>8 DEF WritesDated
  <1> QED
    BY <1>1, <1>2, <1>5, <1>6, <1>9, HandlerDates

(* What the handlers of an open withdraw box decide.                       *)
LEMMA ExpiresInTime ==
    ASSUME IInv, DatesTrue, NEW w \in Workers, pc[w] = "judge",
           Current(w).status \in AwaitsClose, work[w].box.state = "OPEN", LooksExpired(w)
    PROVE  LockOver(work[w].swap)
  <1>1. PICK s, r : s = work[w].swap /\ r = Current(w)
    OBVIOUS
  <1>2. s \in Swaps /\ r \in Row /\ r = snap[w][s] /\ r # NoRow /\ work[w].box \in Box
    BY <1>1, Job, BridgeAssumption
  <1>3. work[w].box.created = withdraw[s].created
    BY <1>1 DEF DatesTrue, JobsDated, JobDated
  <1>4. r.timeDiff <= TargetSkew
    BY <1>1, <1>2 DEF DatesTrue, SnapshotsDated, SnapshotDated, Dated
  <1>5. withdraw[s].created + WithdrawLock - r.timeDiff < now
    BY <1>1, <1>3 DEF LooksExpired
  <1>6. r.timeDiff \in Int /\ withdraw[s].created \in Int /\ now \in Int
    BY <1>2, <1>3 DEF Row, Box, IInv, TypeOK
  <1> QED
    BY <1>1, <1>4, <1>5, <1>6, BridgeAssumption DEF LockOver, TargetClock

LEMMA WithdrawRowDates ==
    ASSUME IInv, DatesTrue, NEW w \in Workers, pc[w] = "judge",
           UNCHANGED <<now, withdraw, snap, work>>, Goto(w, "stamp"),
           NEW st, st \notin AwaitsClose \cup AwaitsExpiry,
           SetRow(w, RowOfWithdraw(db[work[w].swap], work[w].box, st))
    PROVE  DatesTrue'
  <1> DEFINE r == RowOfWithdraw(db[work[w].swap], work[w].box, st)
  <1>1. db[work[w].swap] \in Row
    BY Job
  <1>2. r.status = st /\ r.timeDiff = db[work[w].swap].timeDiff
    BY <1>1 DEF Row, RowOfWithdraw
  <1>3. SetRow(w, r)
    OBVIOUS
  <1> HIDE DEF r
  <1> QED
    BY <1>2, <1>3, WritesStatus

LEMMA CloseWithdrawTaskDates ==
    ASSUME IInv, DatesTrue, NEW w \in Workers, CloseWithdrawTask(w)
    PROVE  DatesTrue'
  <1>1. /\ pc[w] = "judge" /\ Current(w).status = "CONFIRMED_OPENING_WITHDRAW"
        /\ UNCHANGED <<now, chain, withdraw, snap>> /\ Current(w).status \in AwaitsClose
    BY DEF CloseWithdrawTask, Handling, chain, AwaitsClose
  <1>2. CASE /\ SetRow(w, RowOfWithdraw(db[work[w].swap], work[w].box, "CONFIRMED_CLOSING_WITHDRAW"))
             /\ Goto(w, "stamp") /\ UNCHANGED work
    <2>1. "CONFIRMED_CLOSING_WITHDRAW" \notin AwaitsClose \cup AwaitsExpiry
      BY DEF AwaitsClose, AwaitsExpiry
    <2> QED
      BY <1>1, <1>2, <2>1, WithdrawRowDates
  <1>3. CASE /\ work[w].box.state = "OPEN" /\ LooksExpired(w)
             /\ SetStatus(w, "STARTED_EXPIRE_WITHDRAW") /\ Goto(w, "stamp") /\ UNCHANGED work
    BY <1>1, <1>3, ExpiresInTime, SetsStatus DEF AwaitsClose
  <1>4. CASE Goto(w, "stamp") /\ UNCHANGED <<db, work>>
    BY <1>1, <1>4, PassesOn
  <1>5. CASE \E tx : Send(w, tx)
    BY <1>1, <1>5, SendDates, StatusSets
  <1> QED
    BY <1>2, <1>3, <1>4, <1>5 DEF CloseWithdrawTask

LEMMA CheckWithdrawIsClosedDates ==
    ASSUME IInv, DatesTrue, NEW w \in Workers, CheckWithdrawIsClosed(w)
    PROVE  DatesTrue'
  <1>1. /\ pc[w] = "judge" /\ Current(w).status = "FINISHED_CLOSING_WITHDRAW"
        /\ UNCHANGED <<now, withdraw, snap, work>> /\ Goto(w, "stamp")
        /\ Current(w).status \in AwaitsClose
    BY DEF CheckWithdrawIsClosed, Handling, chain, AwaitsClose
  <1>2. CASE \E st \in {"CONFIRMED_CLOSING_WITHDRAW", "ERROR_CLOSING_WITHDRAW"} :
                 SetRow(w, RowOfWithdraw(db[work[w].swap], work[w].box, st))
    BY <1>1, <1>2, WithdrawRowDates DEF AwaitsClose, AwaitsExpiry
  <1>3. CASE /\ work[w].box.state = "OPEN" /\ LooksExpired(w)
             /\ SetStatus(w, "STARTED_EXPIRE_WITHDRAW")
    BY <1>1, <1>3, ExpiresInTime, SetsStatus DEF AwaitsClose
  <1>4. CASE UNCHANGED db
    BY <1>1, <1>4, PassesOn
  <1> QED
    BY <1>2, <1>3, <1>4 DEF CheckWithdrawIsClosed

LEMMA ExpireWithdrawTaskDates ==
    ASSUME IInv, DatesTrue, NEW w \in Workers, ExpireWithdrawTask(w)
    PROVE  DatesTrue'
  <1>1. /\ pc[w] = "judge" /\ Current(w).status = "STARTED_EXPIRE_WITHDRAW"
        /\ UNCHANGED <<now, chain, withdraw, snap>>
    BY DEF ExpireWithdrawTask, Handling, chain
  <1>2. CASE SetStatus(w, "CONFIRMED_CLOSING_WITHDRAW") /\ Goto(w, "stamp") /\ UNCHANGED work
    BY <1>1, <1>2, SetsStatus DEF AwaitsClose, AwaitsExpiry
  <1>3. CASE Goto(w, "stamp") /\ UNCHANGED <<db, work>>
    BY <1>1, <1>3, PassesOn
  <1>4. CASE \E tx : Send(w, tx)
    BY <1>1, <1>4, SendDates, StatusSets
  <1> QED
    BY <1>2, <1>3, <1>4 DEF ExpireWithdrawTask

LEMMA OtherTaskDates ==
    ASSUME IInv, DatesTrue, NEW w \in Workers,
           \/ CloseDepositTask(w) \/ CheckDepositIsClosed(w) \/ CheckWithdrawIsExpired(w)
           \/ Record(w)
    PROVE  DatesTrue'
  <1>1. UNCHANGED <<now, chain, withdraw, snap>>
    BY DEF CloseDepositTask, CheckDepositIsClosed, CheckWithdrawIsExpired, Record, chain
  <1>2. CASE CloseDepositTask(w)
    BY <1>1, <1>2, SendDates, StatusSets DEF CloseDepositTask, Handling
  <1>3. CASE CheckDepositIsClosed(w) \/ CheckWithdrawIsExpired(w)
    <2>1. pc[w] = "judge" /\ UNCHANGED work /\ Goto(w, "stamp")
      BY <1>3 DEF CheckDepositIsClosed, CheckWithdrawIsExpired, Handling
    <2>2. CASE UNCHANGED db
      BY <1>1, <2>1, <2>2, PassesOn
    <2>3. CASE \E st \in {"CONFIRMED_CLOSING_DEPOSIT", "CONFIRMED_EXPIRE_WITHDRAW"} :
                   SetStatus(w, st)
      BY <1>1, <2>1, <2>3, SetsStatus DEF AwaitsClose, AwaitsExpiry
    <2> QED
      BY <1>3, <2>2, <2>3 DEF CheckDepositIsClosed, CheckWithdrawIsExpired
  <1>4. CASE Record(w)
    <2>1. PICK l \in {"stamp", "settle"} : Goto(w, l)
      BY <1>4 DEF Record
    <2> QED
      BY <1>1, <1>4, <2>1, PassesOn DEF Record
  <1> QED
    BY <1>2, <1>3, <1>4

LEMMA SettleDates ==
    ASSUME IInv, DatesTrue, NEW w \in Workers, Settle(w)
    PROVE  DatesTrue'
  <1>1. PICK s, r : s = work[w].swap /\ r = Current(w)
    OBVIOUS
  <1>2. /\ pc[w] = "settle" /\ UNCHANGED <<now, withdraw, snap, work>> /\ Goto(w, "stamp")
        /\ SetStatus(w, SentStatus[r.status])
    BY <1>1 DEF Settle, chain
  <1>3. s \in Swaps /\ r = snap[w][s] /\ r # NoRow /\ r.status \in SendStatus
    BY <1>1, <1>2, Job, BridgeAssumption DEF IInv, JobsTrue, JobTrue
  <1>4. SnapshotDated(s, r)
    BY <1>3 DEF DatesTrue, SnapshotsDated
  <1>5. /\ SentStatus[r.status] \in AwaitsClose => r.status \in AwaitsClose
        /\ SentStatus[r.status] \in AwaitsExpiry => r.status \in AwaitsExpiry
    BY <1>3 DEF SentStatus, SendStatus, SendTask, AwaitsClose, AwaitsExpiry
  <1> QED
    BY <1>1, <1>2, <1>4, <1>5, SetsStatus DEF SnapshotDated

(***************************************************************************)
(* The other steps.                                                        *)
(***************************************************************************)
LEMMA StampDates ==
    ASSUME IInv, DatesTrue, NEW w \in Workers, Stamp(w)
    PROVE  DatesTrue'
  <1>1. PICK s : s = work[w].swap
    OBVIOUS
  <1> DEFINE r == [db[s] EXCEPT !.updated = work[w].began]
  <1>2. s \in Swaps /\ db[s] \in Row /\ db[s] # NoRow
    BY <1>1, Job DEF Stamp
  <1>3. r.status = db[s].status /\ r.timeDiff = db[s].timeDiff
    BY <1>2 DEF Row
  <1>4. db' = [db EXCEPT ![s] = r]
    BY <1>1 DEF Stamp, SetRow, StampedRow
  <1> HIDE DEF r
  <1>5. \A x \in Swaps : db'[x] = db[x] \/ (x = s /\ db'[x] = r)
    BY <1>4 DEF IInv, TypeOK
  <1>6. \A v \in Workers, x \in Swaps : snap'[v][x] # NoRow => snap'[v][x] = snap[v][x]
    BY <1>1 DEF Stamp, IInv, TypeOK
  <1>7. pc'[w] \in {"loop", "idle"} /\ pc[w] = "stamp"
    BY DEF Stamp, Goto, IInv, TypeOK
  <1>8. \A v \in Workers \ {w} : pc'[v] = pc[v] /\ work'[v] = work[v] /\ snap'[v] = snap[v]
    BY DEF Stamp, Goto, IInv, TypeOK
  <1>9. TimesStay /\ now' = now /\ now \in Nat
    BY DEF Stamp, chain, TimesStay, WithdrawOpened, IInv, TypeOK
  <1> QED
    BY <1>2, <1>3, <1>5, <1>6, <1>7, <1>8, <1>9, KeepsDates DEF Current

LEMMA AbortDates ==
    ASSUME IInv, DatesTrue, NEW w \in Workers, Abort(w), TargetSkew >= 0
    PROVE  DatesTrue'
  <1>1. \A x \in Swaps : snap'[w][x] = NoRow
    BY DEF Abort, IInv, TypeOK
  <1>2. pc'[w] = "idle"
    BY DEF Abort, Goto, IInv, TypeOK
  <1>3. \A v \in Workers \ {w} : pc'[v] = pc[v] /\ work'[v] = work[v] /\ snap'[v] = snap[v]
    BY DEF Abort, Goto, IInv, TypeOK
  <1>4. TimesStay /\ UNCHANGED db /\ now' = now /\ now \in Nat
    BY DEF Abort, chain, TimesStay, WithdrawOpened, IInv, TypeOK
  <1> QED
    BY <1>1, <1>2, <1>3, <1>4, KeepsDates DEF Current

(* No round begins between the two updates of checkWithdrawIsOpened.       *)
LEMMA StartRoundDates ==
    ASSUME IInv, DatesTrue, NEW w \in Workers, StartRound(w), TargetSkew >= 0 \/ Workers = {w}
    PROVE  DatesTrue'
  <1>1. UNCHANGED <<db, now, withdraw>> /\ pc[w] = "idle"
    BY DEF StartRound, chain
  <1>2. \A s \in Swaps : snap'[w][s] # NoRow => snap'[w][s] = db[s]
    BY DEF StartRound, IInv, TypeOK
  <1>3. \A v \in Workers \ {w} : pc'[v] = pc[v] /\ work'[v] = work[v] /\ snap'[v] = snap[v]
    BY DEF StartRound, IInv, TypeOK
  <1>4. pc'[w] = "loop"
    BY DEF StartRound, IInv, TypeOK
  <1>5. \A s \in Swaps : Dating(s) => Dating(s)'
    BY <1>1, <1>3 DEF Dating
  <1>6. BoxesDated' /\ \A s \in Swaps : LockOver(s) => LockOver(s)'
    BY <1>1 DEF DatesTrue, BoxesDated, WithdrawOpened, LockOver, TargetClock
  <1>7. RowsDated'
    BY <1>1, <1>5, <1>6 DEF DatesTrue, RowsDated, RowDated, Dated
  <1>8. ASSUME NEW s \in Swaps, snap'[w][s] # NoRow PROVE SnapshotDated(s, snap[w][s])'
    <2>1. snap'[w][s] = db[s] /\ db[s] # NoRow /\ RowDated(s, db[s])
      BY <1>2, <1>8 DEF DatesTrue, RowsDated
    <2>2. TargetSkew >= 0 \/ ~Dating(s)
      BY <1>1 DEF Dating
    <2>3. db[s].status \in AwaitsClose => Dated(db[s])
      BY <2>1, <2>2 DEF RowDated
    <2>4. Dated(db[s]) => Dated(snap[w][s])' /\ Dated(db[s])'
      BY <1>1, <2>1 DEF Dated
    <2> QED
      BY <1>6, <2>1, <2>3, <2>4 DEF SnapshotDated, RowDated
  <1>9. ASSUME NEW v \in Workers \ {w}, NEW s \in Swaps, snap'[v][s] # NoRow
        PROVE  SnapshotDated(s, snap[v][s])'
    BY <1>1, <1>3, <1>6, <1>9 DEF DatesTrue, SnapshotsDated, SnapshotDated, Dated
  <1>10. JobsDated'
    BY <1>1, <1>3, <1>4 DEF DatesTrue, JobsDated, JobDated, Current
  <1> QED
    BY <1>6, <1>7, <1>8, <1>9, <1>10 DEF DatesTrue, SnapshotsDated

LEMMA PostDepositDates ==
    ASSUME IInv, DatesTrue, NEW s \in Swaps, NEW t \in Terms, PostDeposit(s, t)
    PROVE  DatesTrue'
  <1>1. /\ db[s] = NoRow /\ db'[s].status = "NONE" /\ db'[s].timeDiff = 0
        /\ \A x \in Swaps \ {s} : db'[x] = db[x]
        /\ UNCHANGED <<now, withdraw, worker>>
    BY DEF PostDeposit, IInv, TypeOK, chain
  <1>2. BoxesDated' /\ \A x \in Swaps : (LockOver(x) => LockOver(x)') /\ (Dating(x) => Dating(x)')
    BY <1>1 DEF DatesTrue, BoxesDated, WithdrawOpened, LockOver, TargetClock, Dating, worker
  <1>3. RowDated(s, db[s])'
    BY <1>1, BridgeAssumption DEF RowDated, Dated, AwaitsClose, AwaitsExpiry
  <1>4. ASSUME NEW x \in Swaps \ {s}, db'[x] # NoRow PROVE RowDated(x, db[x])'
    BY <1>1, <1>2, <1>4 DEF DatesTrue, RowsDated, RowDated, Dated
  <1>5. ASSUME NEW v \in Workers, NEW x \in Swaps, snap'[v][x] # NoRow
        PROVE  SnapshotDated(x, snap[v][x])'
    <2>1. snap'[v][x] = snap[v][x] /\ db[x] # NoRow
      BY <1>1, <1>5 DEF worker, IInv, SnapshotsTrue
    <2> QED
      BY <1>1, <1>2, <1>5, <2>1 DEF DatesTrue, SnapshotsDated, SnapshotDated, Dated
  <1>6. JobsDated'
    BY <1>1 DEF DatesTrue, JobsDated, JobDated, Current, worker
  <1> QED
    BY <1>2, <1>3, <1>4, <1>5, <1>6 DEF DatesTrue, RowsDated, SnapshotsDated

LEMMA PostSecretKeyDates ==
    ASSUME IInv, DatesTrue, NEW s \in Swaps, NEW k \in Keys, PostSecretKey(s, k)
    PROVE  DatesTrue'
  <1>1. db[s] \in Row /\ db[s] # NoRow /\ UNCHANGED <<now, withdraw, worker>>
    BY DEF PostSecretKey, IInv, TypeOK, chain
  <1>2. /\ db'[s].status = db[s].status /\ db'[s].timeDiff = db[s].timeDiff
        /\ \A x \in Swaps \ {s} : db'[x] = db[x]
    BY <1>1 DEF PostSecretKey, IInv, TypeOK, Row
  <1>3. TimesStay /\ now' \in Nat /\ now <= now'
    BY <1>1 DEF TimesStay, WithdrawOpened, IInv, TypeOK
  <1> QED
    BY <1>1, <1>2, <1>3, KeepsDates DEF worker, Current

LEMMA StillDates ==
    ASSUME IInv, DatesTrue, TimesStay, UNCHANGED <<db, worker>>, now' \in Nat, now <= now'
    PROVE  DatesTrue'
  BY KeepsDates DEF worker, Current

LEMMA UserDates ==
    ASSUME IInv, DatesTrue, NEW s \in Swaps, User(s)
    PROVE  DatesTrue'
  <1>1. CASE \E t \in Terms : PostDeposit(s, t)
    BY <1>1, PostDepositDates
  <1>2. CASE \E k \in Keys : PostSecretKey(s, k)
    BY <1>2, PostSecretKeyDates
  <1>3. CASE UNCHANGED db
    BY <1>3, UserTimes, StillDates DEF IInv, TypeOK
  <1> QED
    BY <1>1, <1>2, <1>3
       DEF User, OpenDeposit, CloseWithdraw, ExpireDeposit, ExpireWithdraw, CloseDeposit

LEMMA WorkerDates ==
    ASSUME TargetSkew >= 0 \/ OneWorker, IInv, DatesTrue, NEW w \in Workers, Worker(w)
    PROVE  DatesTrue'
  <1>1. TargetSkew >= 0 \/ Workers = {w}
    BY DEF OneWorker
  <1> QED
    BY <1>1, StartRoundDates, BeginTaskDates, CheckDepositIsOpenedDates, RecheckDepositDates,
       OpenWithdrawDates, CheckWithdrawIsOpenedDates, UpdateTimeDiffDates, CloseWithdrawTaskDates,
       CheckWithdrawIsClosedDates, ExpireWithdrawTaskDates, OtherTaskDates, SettleDates, StampDates
       DEF Worker

LEMMA DatesInit == Init => DatesTrue
  BY BridgeAssumption
     DEF Init, DatesTrue, BoxesDated, WithdrawOpened, NoBox, RowsDated, SnapshotsDated,
         JobsDated, JobDated

LEMMA DatesStep ==
    ASSUME TargetSkew >= 0 \/ NothingFails, IInv, DatesTrue, [Next]_vars
    PROVE  DatesTrue'
  <1>1. ASSUME NEW w \in Workers, Worker(w) PROVE DatesTrue'
    BY <1>1, WorkerDates DEF NothingFails
  <1>2. ASSUME NEW w \in Workers, Abort(w) PROVE DatesTrue'
    <2>1. TargetSkew >= 0
      BY <1>2 DEF Abort, NothingFails, IInv, TypeOK
    <2> QED
      BY <1>2, <2>1, AbortDates
  <1>3. ASSUME NEW tx \in pending, Mine(tx) PROVE DatesTrue'
    BY <1>3, MineTimes, StillDates DEF Mine, IInv, TypeOK
  <1>4. ASSUME NEW tx \in pending, Drop(tx) PROVE DatesTrue'
    <2>1. TimesStay
      BY <1>4 DEF Drop, chain, TimesStay, WithdrawOpened
    <2> QED
      BY <1>4, <2>1, StillDates DEF Drop, IInv, TypeOK
  <1>5. CASE Tick \/ UNCHANGED vars
    <2>1. TimesStay /\ UNCHANGED <<db, worker>> /\ now' \in {now, now + 1}
      BY <1>5 DEF Tick, vars, chain, worker, TimesStay, WithdrawOpened
    <2> QED
      BY <2>1, StillDates DEF IInv, TypeOK
  <1> QED
    BY <1>1, <1>2, <1>3, <1>4, <1>5, UserDates DEF Next

-----------------------------------------------------------------------------
(* closeWithdraw and checkWithdrawIsClosed start no expiry that the        *)
(* contract would refuse: always, when the target chain's clock is not     *)
(* behind the server's, and with any clock as long as one worker runs and  *)
(* no call fails.  Otherwise a row may be judged by the time difference 0  *)
(* it was posted with.                                                     *)
THEOREM NoneExpiresEarly == TargetSkew >= 0 \/ NothingFails => (Spec => []NeverExpiresEarly)
  <1> SUFFICES ASSUME TargetSkew >= 0 \/ NothingFails PROVE Spec => []NeverExpiresEarly
    OBVIOUS
  <1>1. IInv /\ DatesTrue /\ [Next]_vars => DatesTrue'
    BY DatesStep
  <1>2. DatesTrue => NeverExpiresEarly
    BY DEF DatesTrue, RowsDated, RowDated, NeverExpiresEarly, StatusIn, AwaitsExpiry, LockOver
  <1> QED
    BY <1>1, <1>2, DatesInit, Inductive, PTL DEF Spec

-----------------------------------------------------------------------------
(***************************************************************************)
(* Nested locks.                                                           *)
(*                                                                         *)
(* What holds when one worker runs, nothing fails, a round and a block     *)
(* take less than a unit of time, and a deposit is locked at least twice   *)
(* as long as a withdrawal: the withdraw box expires before the deposit    *)
(* box does, or a period of the target chain later.                        *)
(***************************************************************************)

InTimeServer == Prompt /\ NothingFails

(* A deposit box keeps its time, and nobody adds to the pool.              *)
CoinsStay ==
    /\ pool' <= pool
    /\ \A s \in Swaps : DepositOpened(s) => deposit'[s].created = deposit[s].created

LEMMA BoxNeeds ==
    ASSUME IInv, NEW s \in Swaps, DepositOpened(s)
    PROVE  /\ deposit[s].terms \in Terms /\ deposit[s].created \in Int
           /\ TargetFee(deposit[s].terms) \in Int /\ Payout(deposit[s].terms) \in Int
           /\ pool \in Int /\ now \in Int
  <1>1. deposit[s].terms \in Terms /\ deposit[s].created \in Int /\ pool \in Int /\ now \in Int
    BY DEF IInv, TypeOK, ChainsTrue, Box
  <1> QED
    BY <1>1, PayoutType

LEMMA LocksStay ==
    ASSUME IInv, BoxesAdvance, CoinsStay, pool' \in Nat, NEW s \in Swaps, DepositOpened(s)
    PROVE  /\ Refused(s) => Refused(s)'
           /\ \A t : EarlyAt(s, t)' <=> EarlyAt(s, t)
           /\ now' = now => (InTime(s)' <=> InTime(s))
  <1>1. /\ DepositOpened(s)' /\ deposit'[s].terms = deposit[s].terms
        /\ deposit'[s].created = deposit[s].created
        /\ WithdrawOpened(s) => WithdrawOpened(s)'
    BY DEF BoxesAdvance, CoinsStay
  <1>2. PICK t : t = deposit[s].terms
    OBVIOUS
  <1>3. t \in Terms /\ TargetFee(t) \in Int /\ Payout(t) \in Int /\ pool \in Int
    BY <1>2, BoxNeeds
  <1>4. CanOpenWithdraw(s, t)' => CanOpenWithdraw(s, t)
    BY <1>1, <1>3 DEF CanOpenWithdraw, WithdrawOpened, CoinsStay
  <1>5. Refused(s) => Refused(s)'
    BY <1>1, <1>2, <1>4 DEF Refused
  <1>6. \A x : EarlyAt(s, x)' <=> EarlyAt(s, x)
    BY <1>1 DEF EarlyAt
  <1>7. now' = now => (InTime(s)' <=> InTime(s))
    BY <1>1 DEF InTime, EarlyAt
  <1> QED
    BY <1>5, <1>6, <1>7

(* Rows and snapshots that are to be opened belong to an opened deposit.   *)
LEMMA ToOpenOpened ==
    ASSUME IInv, NEW s \in Swaps
    PROVE  /\ ToOpen(db[s]) => DepositOpened(s)
           /\ \A w \in Workers : ToOpen(snap[w][s]) => DepositOpened(s) /\ db[s] # NoRow
           /\ Refused(s) => DepositOpened(s)
  BY DEF ToOpen, IInv, RowsTrue, SnapshotsTrue, RowTrue, Refused

(* A step of the chains and users.                                         *)
LEMMA ChainsInTime ==
    ASSUME IInv, ServerInTime, BoxesAdvance, TimesStay, CoinsStay, pool' \in Nat, now' = now,
           pending' \subseteq pending, UNCHANGED <<vm, worker>>,
           \A s \in Swaps : ToOpen(db[s])' =>
               /\ ToOpen(db[s]) /\ db'[s].depositState = db[s].depositState
               /\ db'[s].updated = db[s].updated,
           \A s \in Swaps : ~WithdrawOpened(s) /\ WithdrawOpened(s)' => NestedBox(s)'
    PROVE  ServerInTime'
  <1>1. BoxesNested'
    <2>1. ASSUME NEW s \in Swaps, WithdrawOpened(s) PROVE NestedBox(s)'
      <3>1. DepositOpened(s)
        BY <2>1 DEF IInv, ChainsTrue
      <3>2. /\ withdraw'[s].terms = withdraw[s].terms /\ withdraw'[s].created = withdraw[s].created
            /\ deposit'[s].created = deposit[s].created
        BY <2>1, <3>1 DEF BoxesAdvance, TimesStay, CoinsStay
      <3>3. NestedBox(s)
        BY <2>1 DEF ServerInTime, BoxesNested
      <3> QED
        BY <3>2, <3>3 DEF NestedBox
    <2> QED
      BY <2>1 DEF BoxesNested
  <1>2. TxInTime'
    <2>1. ASSUME NEW tx \in pending', tx.kind = "OpenWithdraw" PROVE InTime(tx.swap)'
      <3>1. PICK s \in Swaps : s = tx.swap
        BY DEF IInv, TypeOK, Tx
      <3>2. DepositOpened(s) /\ InTime(s)
        BY <2>1, <3>1 DEF IInv, PendingTrue, TxTrue, ServerInTime, TxInTime
      <3> QED
        BY <3>1, <3>2, LocksStay
    <2> QED
      BY <2>1 DEF TxInTime
  <1>3. VmInTime'
    BY ToOpenOpened, LocksStay DEF ServerInTime, VmInTime
  <1>4. ASSUME NEW s \in Swaps PROVE RowInTime(s, db[s])'
    <2>1. SUFFICES ASSUME ToOpen(db[s])', \A w \in Workers : ~Written(w, s)'
                   PROVE  /\ db'[s].depositState = "OPEN"
                          /\ \/ Refused(s)'
                             \/ /\ 2 * (deposit'[s].created + DepositLock - db'[s].updated) >= DepositLock
                                /\ now' <= db'[s].updated + TargetInterval
      BY DEF RowInTime, EarlyAt
    <2>2. /\ ToOpen(db[s]) /\ db'[s].depositState = db[s].depositState
          /\ db'[s].updated = db[s].updated
      BY <2>1
    <2>3. \A w \in Workers : ~Written(w, s)
      BY <2>1 DEF Written, worker
    <2>4. RowInTime(s, db[s])
      BY DEF ServerInTime, RowsInTime
    <2>5. DepositOpened(s) /\ deposit'[s].created = deposit[s].created
      BY <2>2, ToOpenOpened DEF CoinsStay
    <2>6. Refused(s) => Refused(s)'
      BY <2>5, LocksStay
    <2> QED
      BY <2>2, <2>3, <2>4, <2>5, <2>6 DEF RowInTime, EarlyAt
  <1>5. SnapshotsInTime'
    BY ToOpenOpened, LocksStay DEF ServerInTime, SnapshotsInTime, worker
  <1>6. ASSUME NEW w \in Workers PROVE JobInTime(pc[w], work[w], Current(w))'
    <2>1. PICK l, k, r : l = pc[w] /\ k = work[w] /\ r = Current(w)
      OBVIOUS
    <2>2. pc'[w] = l /\ work'[w] = k /\ Current(w)' = r
      BY <2>1 DEF worker, Current
    <2>3. JobInTime(l, k, r)
      BY <2>1 DEF ServerInTime, JobsInTime
    <2>4. CASE l \in {"idle", "loop"}
      BY <2>2, <2>3, <2>4 DEF JobInTime
    <2>5. CASE l \notin {"idle", "loop"}
      <3>1. PICK s \in Swaps : s = k.swap
        BY <2>1, <2>5, Job
      <3>2. k.swap = s /\ JobTrue(l, k, r)
        BY <2>1, <3>1 DEF IInv, JobsTrue
      <3>3. DepositOpened(s) => deposit'[s].created = deposit[s].created
        BY DEF CoinsStay
      <3>4. l = "judge" /\ r.status = "NONE" /\ k.box.state # "INVALID" => DepositOpened(s)
        BY <3>2 DEF JobTrue, DepositBoxTrue
      <3>5. Refused(s) => Refused(s)'
        BY ToOpenOpened, LocksStay
      <3>6. ToOpen(db[s])' => /\ ToOpen(db[s]) /\ db'[s].depositState = db[s].depositState
                              /\ EarlyAt(s, now) => EarlyAt(s, now)'
        BY <3>3, ToOpenOpened DEF EarlyAt
      <3> QED
        BY <2>2, <2>3, <3>2, <3>3, <3>4, <3>5, <3>6 DEF JobInTime
    <2> QED
      BY <2>4, <2>5
  <1> QED
    BY <1>1, <1>2, <1>3, <1>4, <1>5, <1>6 DEF ServerInTime, RowsInTime, JobsInTime

LEMMA PayOutCoins ==
    ASSUME IInv, ServerInTime, NEW s \in Swaps, NEW k, WithdrawOpened(s), CloseWithdrawBox(s, k)
    PROVE  CoinsStay
  <1>1. PICK n : n = Payout(withdraw[s].terms)
    OBVIOUS
  <1>2. 0 <= n
    BY <1>1 DEF ServerInTime, BoxesNested, NestedBox
  <1>3. withdraw[s].terms \in Terms
    BY DEF IInv, ChainsTrue
  <1>4. n \in Int /\ pool \in Int
    BY <1>1, <1>3, PayoutType DEF IInv, TypeOK
  <1>5. pool' = pool - n /\ UNCHANGED deposit
    BY <1>1 DEF CloseWithdrawBox
  <1> QED
    BY <1>2, <1>4, <1>5 DEF CoinsStay

LEMMA StillCoins ==
    ASSUME IInv, UNCHANGED <<deposit, pool>>
    PROVE  CoinsStay
  BY DEF CoinsStay, IInv, TypeOK

LEMMA DepositCoins ==
    ASSUME IInv, UNCHANGED pool, NEW s \in Swaps, NEW t,
           \/ deposit' = [deposit EXCEPT ![s].state = t]
           \/ \E k : deposit' = [deposit EXCEPT ![s].state = t, ![s].key = k]
    PROVE  CoinsStay
  <1>1. deposit \in [Swaps -> Box] /\ pool \in Int
    BY DEF IInv, TypeOK
  <1>2. deposit'[s].created = deposit[s].created /\ \A x \in Swaps \ {s} : deposit'[x] = deposit[x]
    BY <1>1 DEF Box
  <1> QED
    BY <1>1, <1>2 DEF CoinsStay

(* The withdraw box is opened in time.                                     *)
LEMMA OpenedInTime ==
    ASSUME IInv, ServerInTime, 2 * WithdrawLock <= DepositLock, NEW tx \in pending,
           Succeeds(tx), MineOpenWithdraw(tx)
    PROVE  /\ NestedBox(tx.swap)'
           /\ \A x \in Swaps : ~WithdrawOpened(x) /\ WithdrawOpened(x)' => x = tx.swap
  <1>1. PICK s, t : s \in Swaps /\ s = tx.swap /\ t = tx.terms
    BY DEF IInv, TypeOK, Tx
  <1>2. /\ CanOpenWithdraw(s, t) /\ UNCHANGED <<deposit, pool>>
        /\ withdraw' = [withdraw EXCEPT ![s] =
               [state |-> "OPEN", terms |-> t, created |-> TargetClock, key |-> NoKey]]
    BY <1>1 DEF Succeeds, MineOpenWithdraw
  <1>3. DepositOpened(s) /\ t = deposit[s].terms /\ InTime(s)
    BY <1>1 DEF IInv, PendingTrue, TxTrue, ServerInTime, TxInTime, MineOpenWithdraw
  <1>4. /\ t \in Terms /\ t.amount \in Int /\ TargetFee(t) \in Int /\ now \in Int
        /\ deposit[s].created \in Int
    BY <1>1, <1>3, BoxNeeds, BridgeAssumption
  <1>5. 0 <= Payout(t)
    BY <1>2, <1>4 DEF CanOpenWithdraw, Payout
  <1>6. withdraw'[s].terms = t /\ withdraw'[s].created = now + TargetSkew
    BY <1>1, <1>2 DEF TargetClock, IInv, TypeOK
  <1>7. now + WithdrawLock <= deposit[s].created + DepositLock + TargetInterval
    BY <1>3, <1>4, BridgeAssumption DEF InTime, EarlyAt
  <1>8. now + TargetSkew - TargetSkew + WithdrawLock = now + WithdrawLock
    BY <1>4, BridgeAssumption
  <1>9. NestedBox(s)'
    <2>1. deposit' = deposit
      BY <1>2
    <2>2. PICK c : c = withdraw'[s].created /\ c = now + TargetSkew
      BY <1>6
    <2>3. 0 <= Payout(withdraw'[s].terms)
      BY <1>5, <1>6
    <2>4. c - TargetSkew + WithdrawLock <= deposit[s].created + DepositLock + TargetInterval
      BY <1>4, <1>7, <2>2, BridgeAssumption
    <2>5. PICK d : d = deposit[s].created /\ d = deposit'[s].created
      BY <2>1
    <2>6. c - TargetSkew + WithdrawLock <= d + DepositLock + TargetInterval
      BY <2>4, <2>5
    <2> QED
      BY <2>2, <2>3, <2>5, <2>6 DEF NestedBox
  <1>10. \A x \in Swaps \ {s} : withdraw'[x] = withdraw[x]
    BY <1>2 DEF IInv, TypeOK
  <1> QED
    BY <1>1, <1>9, <1>10 DEF WithdrawOpened

LEMMA MineInTime ==
    ASSUME IInv, ServerInTime, 2 * WithdrawLock <= DepositLock, NEW tx \in pending, Mine(tx)
    PROVE  ServerInTime'
  <1>1. BoxesAdvance /\ TimesStay /\ pool' \in Nat /\ tx.swap \in Swaps
    BY MineStep, MineTimes DEF AgreedStep, TypeOK, IInv, Tx
  <1>2. ASSUME CoinsStay, \A s \in Swaps : ~WithdrawOpened(s) /\ WithdrawOpened(s)' => NestedBox(s)'
        PROVE  ServerInTime'
    BY <1>1, <1>2, ChainsInTime DEF Mine, ToOpen
  <1>3. ASSUME Succeeds(tx), MineOpenWithdraw(tx) PROVE ServerInTime'
    BY <1>2, <1>3, OpenedInTime, StillCoins DEF MineOpenWithdraw
  <1>4. ASSUME Succeeds(tx), MineCloseWithdraw(tx) PROVE ServerInTime'
    <2>1. WithdrawOpened(tx.swap) /\ CloseWithdrawBox(tx.swap, tx.key)
      BY <1>4 DEF Succeeds, MineCloseWithdraw, CanCloseWithdraw, WithdrawOpened
    <2>2. \A s \in Swaps : WithdrawOpened(s)' => WithdrawOpened(s)
      BY <2>1 DEF CloseWithdrawBox, WithdrawOpened, IInv, TypeOK
    <2> QED
      BY <1>1, <1>2, <2>1, <2>2, PayOutCoins
  <1>5. ASSUME Succeeds(tx), MineExpireWithdraw(tx) PROVE ServerInTime'
    <2>1. WithdrawOpened(tx.swap) /\ ExpireWithdrawBox(tx.swap)
      BY <1>5 DEF Succeeds, MineExpireWithdraw, CanExpireWithdraw, WithdrawOpened
    <2>2. \A s \in Swaps : WithdrawOpened(s)' => WithdrawOpened(s)
      BY <2>1 DEF ExpireWithdrawBox, WithdrawOpened, IInv, TypeOK
    <2> QED
      BY <1>2, <2>1, <2>2, StillCoins DEF ExpireWithdrawBox
  <1>6. CASE MineCloseDeposit(tx)
    <2>1. CoinsStay
      BY <1>1, <1>6, DepositCoins DEF MineCloseDeposit
    <2> QED
      BY <1>2, <1>6, <2>1 DEF MineCloseDeposit, WithdrawOpened
  <1>7. CASE UNCHANGED chain
    BY <1>2, <1>7, StillCoins DEF chain, WithdrawOpened
  <1> QED
    BY <1>3, <1>4, <1>5, <1>6, <1>7 DEF Mine
LEMMA UserInTime ==
    ASSUME IInv, ServerInTime, NEW s \in Swaps, User(s)
    PROVE  ServerInTime'
  <1>1. TimesStay /\ UNCHANGED <<now, worker>>
    BY UserTimes
  <1>2. UNCHANGED <<pending, vm>>
    BY DEF User, OpenDeposit, PostDeposit, PostSecretKey, CloseWithdraw, ExpireDeposit,
           ExpireWithdraw, CloseDeposit
  <1>3. ASSUME AgreedStep, CoinsStay, UNCHANGED db,
               \A x \in Swaps : WithdrawOpened(x)' => WithdrawOpened(x)
        PROVE  ServerInTime'
    BY <1>1, <1>2, <1>3, ChainsInTime DEF AgreedStep, TypeOK, ToOpen
  <1>4. ASSUME NEW t \in Terms, OpenDeposit(s, t) PROVE ServerInTime'
    <2>1. ~DepositOpened(s) /\ UNCHANGED <<withdraw, pool, db>>
          /\ \A x \in Swaps \ {s} : deposit'[x] = deposit[x]
      BY <1>4 DEF OpenDeposit, DepositOpened, IInv, TypeOK
    <2>2. CoinsStay
      BY <2>1 DEF CoinsStay, IInv, TypeOK
    <2> QED
      BY <1>3, <1>4, <2>1, <2>2, OpenDepositStep DEF WithdrawOpened
  <1>5. CASE ExpireDeposit(s)
    <2>1. CoinsStay
      BY <1>5, DepositCoins DEF ExpireDeposit
    <2> QED
      BY <1>3, <1>5, <2>1, ExpireDepositStep DEF ExpireDeposit, WithdrawOpened
  <1>6. CASE CloseDeposit(s)
    <2>1. CoinsStay
      BY <1>6, DepositCoins DEF CloseDeposit
    <2> QED
      BY <1>3, <1>6, <2>1, CloseDepositStep DEF CloseDeposit, WithdrawOpened
  <1>7. ASSUME NEW k \in Keys, CloseWithdraw(s, k) PROVE ServerInTime'
    <2>1. WithdrawOpened(s) /\ CloseWithdrawBox(s, k) /\ UNCHANGED db
      BY <1>7 DEF CloseWithdraw, CanCloseWithdraw, WithdrawOpened
    <2>2. \A x \in Swaps : WithdrawOpened(x)' => WithdrawOpened(x)
      BY <2>1 DEF CloseWithdrawBox, WithdrawOpened, IInv, TypeOK
    <2> QED
      BY <1>3, <1>7, <2>1, <2>2, PayOutCoins, CloseWithdrawStep
  <1>8. CASE ExpireWithdraw(s)
    <2>1. WithdrawOpened(s) /\ ExpireWithdrawBox(s) /\ UNCHANGED db
      BY <1>8 DEF ExpireWithdraw, CanExpireWithdraw, WithdrawOpened
    <2>2. \A x \in Swaps : WithdrawOpened(x)' => WithdrawOpened(x)
      BY <2>1 DEF ExpireWithdrawBox, WithdrawOpened, IInv, TypeOK
    <2>3. CoinsStay
      BY <2>1, StillCoins DEF ExpireWithdrawBox
    <2> QED
      BY <1>3, <1>8, <2>1, <2>2, <2>3, ExpireWithdrawStep
  <1>9. CASE (\E t \in Terms : PostDeposit(s, t)) \/ \E k \in Keys : PostSecretKey(s, k)
    <2>1. UNCHANGED chain
      BY <1>9 DEF PostDeposit, PostSecretKey
    <2>2. BoxesAdvance /\ CoinsStay /\ pool' \in Nat
      BY <2>1, StillChains, StillCoins DEF chain, IInv, TypeOK
    <2>3. ASSUME NEW x \in Swaps, ToOpen(db[x])'
          PROVE  /\ ToOpen(db[x]) /\ db'[x].depositState = db[x].depositState
                 /\ db'[x].updated = db[x].updated
      <3>1. CASE \E t \in Terms : PostDeposit(s, t)
        BY <2>3, <3>1 DEF PostDeposit, ToOpen, IInv, TypeOK
      <3>2. CASE \E k \in Keys : PostSecretKey(s, k)
        BY <2>3, <3>2 DEF PostSecretKey, ToOpen, IInv, TypeOK, Row
      <3> QED
        BY <1>9, <3>1, <3>2
    <2> QED
      BY <1>1, <1>2, <2>1, <2>2, <2>3, ChainsInTime DEF chain, WithdrawOpened
  <1> QED
    BY <1>4, <1>5, <1>6, <1>7, <1>8, <1>9 DEF User

(* The clock does not move before a row that is due has been handled.      *)
LEMMA SamePeriod ==
    ASSUME NEW a \in Int, NEW b \in Int, NEW n \in Nat \ {0}, a \div n = b \div n
    PROVE  b < a + n
  <1>1. PICK q \in Int : q = a \div n /\ q = b \div n
    OBVIOUS
  <1>2. PICK m \in Int : m = n * q
    OBVIOUS
  <1>3. m <= a /\ m <= b
    BY <1>1, <1>2
  <1>4. b < m + n
    BY <1>1, <1>2
  <1> QED
    BY <1>2, <1>3, <1>4

LEMMA TickInTime ==
    ASSUME IInv, ServerInTime, Prompt, Tick
    PROVE  ServerInTime'
  <1>1. /\ \A w \in Workers : pc[w] = "idle"
        /\ pending = {} /\ pending' = {}
        /\ \A s \in Swaps : ~Fetched(s)
        /\ now' = now + 1 /\ now \in Nat
        /\ UNCHANGED <<deposit, withdraw, pool, db, vm, pc, snap, work>>
    BY DEF Tick, chain, worker, IInv, TypeOK
  <1>2. \A s \in Swaps : Refused(s)' <=> Refused(s)
    BY <1>1 DEF Refused, DepositOpened, CanOpenWithdraw
  <1>3. BoxesNested' /\ TxInTime' /\ SnapshotsInTime'
    BY <1>1 DEF ServerInTime, BoxesNested, WithdrawOpened, NestedBox, TxInTime, SnapshotsInTime
  <1>4. VmInTime'
    BY <1>1, <1>2 DEF ServerInTime, VmInTime
  <1>5. JobsInTime'
    BY <1>1 DEF JobsInTime, JobInTime
  <1>6. ASSUME NEW s \in Swaps PROVE RowInTime(s, db[s])'
    <2>1. SUFFICES ASSUME ToOpen(db[s])
                   PROVE  /\ db[s].depositState = "OPEN"
                          /\ \/ Refused(s)
                             \/ EarlyAt(s, db[s].updated) /\ now + 1 <= db[s].updated + TargetInterval
      BY <1>1, <1>2 DEF RowInTime, ToOpen, EarlyAt
    <2>2. /\ db[s].depositState = "OPEN"
          /\ Refused(s) \/ (EarlyAt(s, db[s].updated) /\ now <= db[s].updated + TargetInterval)
      BY <1>1, <2>1 DEF ServerInTime, RowsInTime, RowInTime, Written
    <2>3. PICK u : u = db[s].updated
      OBVIOUS
    <2>4. /\ db[s] # NoRow /\ u \in Int /\ db[s].status = "CONFIRMED_OPENING_DEPOSIT"
      BY <2>1, <2>3 DEF ToOpen, IInv, TypeOK, Row
    <2>5. Period(u, TargetInterval) = Period(now, TargetInterval)
      BY <1>1, <2>2, <2>3, <2>4 DEF Fetched, Waiting, Due, TargetStatus
    <2>6. /\ u + Offset \in Int /\ now + Offset \in Int /\ TargetInterval \in Nat \ {0}
          /\ Offset \in Nat
      BY <1>1, <2>4, BridgeAssumption
    <2>7. now + Offset < u + Offset + TargetInterval
      BY <2>5, <2>6, SamePeriod DEF Period
    <2>8. now + 1 <= u + TargetInterval
      BY <1>1, <2>4, <2>6, <2>7
    <2> QED
      BY <2>2, <2>3, <2>8
  <1> QED
    BY <1>3, <1>4, <1>5, <1>6 DEF ServerInTime, RowsInTime

(***************************************************************************)
(* The one worker.                                                         *)
(***************************************************************************)
LEMMA SameLocks ==
    ASSUME UNCHANGED <<now, chain>>
    PROVE  \A s \in Swaps : /\ Refused(s)' <=> Refused(s)
                            /\ InTime(s)' <=> InTime(s)
                            /\ EarlyAt(s, now)' <=> EarlyAt(s, now)
  BY DEF chain, Refused, DepositOpened, CanOpenWithdraw, InTime, EarlyAt

LEMMA SameBoxesNested ==
    ASSUME BoxesNested, UNCHANGED <<now, chain>>
    PROVE  BoxesNested'
  BY DEF BoxesNested, NestedBox, WithdrawOpened, chain

(* A handler that keeps its snapshot.                                      *)
LEMMA HandlerInTime ==
    ASSUME IInv, ServerInTime, NEW w \in Workers, Workers = {w},
           UNCHANGED <<now, chain, snap>>, pc[w] # "idle", pc'[w] # "idle",
           \A s \in Swaps : db'[s] = db[s] \/ Written(w, s)',
           \A s \in Swaps : Written(w, s) => Written(w, s)',
           \A tx \in pending' \ pending : tx.kind = "OpenWithdraw" => InTime(tx.swap),
           VmInTime', JobInTime(pc[w], work[w], Current(w))'
    PROVE  ServerInTime'
  <1>1. TxInTime'
    <2>1. ASSUME NEW tx \in pending', tx.kind = "OpenWithdraw" PROVE InTime(tx.swap)
      BY <2>1 DEF ServerInTime, TxInTime
    <2> QED
      BY <2>1 DEF TxInTime, InTime, EarlyAt, chain
  <1>2. RowsInTime'
    <2>1. ASSUME NEW s \in Swaps PROVE RowInTime(s, db[s])'
      <3>1. CASE Written(w, s)'
        BY <3>1 DEF RowInTime
      <3>2. CASE ~Written(w, s)'
        <4>1. db'[s] = db[s] /\ ~Written(w, s)
          BY <3>2
        <4> QED
          BY <4>1, SameLocks DEF ServerInTime, RowsInTime, RowInTime, ToOpen, EarlyAt, chain
      <3> QED
        BY <3>1, <3>2
    <2> QED
      BY <2>1 DEF RowsInTime
  <1>3. SnapshotsInTime'
    BY SameLocks DEF ServerInTime, SnapshotsInTime, ToOpen
  <1> QED
    BY <1>1, <1>2, <1>3, SameBoxesNested DEF ServerInTime, JobsInTime

LEMMA SameVm ==
    ASSUME ServerInTime, UNCHANGED <<now, chain, vm>>
    PROVE  VmInTime'
  BY SameLocks DEF ServerInTime, VmInTime

(* The row of a handler that has written nothing is the one it has read.   *)
LEMMA RowAsRead ==
    ASSUME IInv, OneInv, ServerInTime, NEW w \in Workers, Workers = {w}, NEW s \in Swaps,
           snap[w][s] # NoRow, ~Written(w, s), ToOpen(db[s])
    PROVE  ToOpen(snap[w][s]) /\ db[s].depositState = "OPEN"
  BY DEF ToOpen, OneInv, Fresh, ServerInTime, RowsInTime, RowInTime

(* A handler ends without a word, or with a status.                        *)
LEMMA EndsInTime ==
    ASSUME IInv, OneInv, ServerInTime, NEW w \in Workers, Workers = {w},
           pc[w] \in {"recheck", "judge", "record", "settle"}, Goto(w, "stamp"),
           ToOpen(Current(w)) => Refused(work[w].swap),
           VmInTime', UNCHANGED <<now, chain, pending, db, snap, work>>
    PROVE  ServerInTime'
  <1>1. PICK s \in Swaps : s = work[w].swap /\ Current(w) = snap[w][s] /\ snap[w][s] # NoRow
    BY Job, BridgeAssumption
  <1>2. pc'[w] = "stamp"
    BY GoesTo
  <1>3. ~Written(w, s) /\ \A x \in Swaps : ~Written(w, x)
    BY DEF Written
  <1>4. work[w].began = now
    BY DEF ServerInTime, JobsInTime, JobInTime
  <1>5. ToOpen(db[s]) => db[s].depositState = "OPEN" /\ Refused(s)
    BY <1>1, <1>3, RowAsRead
  <1>6. Refused(s) => Refused(s)'
    BY SameLocks
  <1>7. JobInTime(pc[w], work[w], Current(w))'
    BY <1>1, <1>2, <1>4, <1>5, <1>6 DEF JobInTime, ToOpen
  <1> QED
    BY <1>2, <1>3, <1>7, HandlerInTime

LEMMA WritesInTime ==
    ASSUME IInv, ServerInTime, NEW w \in Workers, Workers = {w},
           pc[w] \notin {"idle", "loop"}, Goto(w, "stamp"), NEW r, SetRow(w, r),
           ToOpen(r) => r.depositState = "OPEN" /\ EarlyAt(work[w].swap, now),
           UNCHANGED <<now, chain, pending, vm, snap, work>>
    PROVE  ServerInTime'
  <1>1. PICK s \in Swaps : s = work[w].swap
    BY Job
  <1>2. pc'[w] = "stamp" /\ db' = [db EXCEPT ![s] = r] /\ db \in [Swaps -> Row \cup {NoRow}]
    BY <1>1, GoesTo DEF SetRow, IInv, TypeOK
  <1>3. db'[s] = r /\ \A x \in Swaps \ {s} : db'[x] = db[x]
    BY <1>2
  <1>4. Written(w, s)' /\ \A x \in Swaps : Written(w, x) => Written(w, x)'
    BY <1>1, <1>2 DEF Written
  <1>5. work[w].began = now
    BY DEF ServerInTime, JobsInTime, JobInTime
  <1>6. EarlyAt(s, now) => EarlyAt(s, now)'
    BY SameLocks
  <1>7. JobInTime(pc[w], work[w], Current(w))'
    BY <1>1, <1>2, <1>3, <1>5, <1>6 DEF JobInTime, ToOpen
  <1> QED
    BY <1>2, <1>3, <1>4, <1>7, SameVm, HandlerInTime

LEMMA StatusInTime ==
    ASSUME IInv, ServerInTime, NEW w \in Workers, Workers = {w},
           pc[w] \notin {"idle", "loop"}, Goto(w, "stamp"),
           NEW st, SetStatus(w, st), st # "CONFIRMED_OPENING_DEPOSIT",
           UNCHANGED <<now, chain, pending, vm, snap, work>>
    PROVE  ServerInTime'
  <1> DEFINE r == [db[work[w].swap] EXCEPT !.status = st]
  <1>1. db[work[w].swap] \in Row
    BY Job
  <1>2. ~ToOpen(r) /\ SetRow(w, r)
    BY <1>1 DEF Row, ToOpen, SetRow, SetStatus
  <1> HIDE DEF r
  <1> QED
    BY <1>2, WritesInTime

(* runVMTask around a read: it does not fail, and nothing holds it back.   *)
LEMMA ReadInTime ==
    ASSUME IInv, OneInv, ServerInTime, MaxFaults = 0, NEW w \in Workers, Workers = {w},
           pc[w] \in {"loop", "recheck"}, NEW s \in Swaps, snap[w][s] # NoRow,
           NEW task \in Tasks, NEW answers \in BOOLEAN, NEW b, NEW l \in {"recheck", "judge"},
           Read(w, s, task, answers, b, l), task # "OpenWithdraw",
           task \in {"CheckDepositIsOpened", "CheckWithdrawIsNone"} => answers,
           ToOpen(snap[w][s]) => task \in {"CheckDepositIsOpened", "CheckWithdrawIsNone"},
           snap[w][s].status = "NONE" => b = deposit[s],
           UNCHANGED <<now, chain, pending, db, snap>>
    PROVE  ServerInTime'
  <1>1. \A x \in Swaps : ~Written(w, x)
    BY DEF Written
  <1>2. work[w].began = now
    BY DEF ServerInTime, JobsInTime, JobInTime
  <1>3. VmInTime'
    <2>1. vm \in [Swaps -> [Tasks -> [tries : Nat, next : Nat]]] /\ faults \in Nat
      BY DEF IInv, TypeOK
    <2>2. CASE UNCHANGED vm
      BY <2>2, SameVm
    <2>3. ASSUME NEW e, vm' = [vm EXCEPT ![s][task] = e],
                 task \notin {"CheckDepositIsOpened", "CheckWithdrawIsNone"} \/ e.tries = 0
          PROVE  VmInTime'
      <3>1. \A x \in Swaps, t \in Tasks :
                vm'[x][t] = IF x = s /\ t = task THEN e ELSE vm[x][t]
        BY <2>1, <2>3
      <3>2. {"CheckDepositIsOpened", "CheckWithdrawIsNone", "OpenWithdraw"} \subseteq Tasks
        BY DEF Tasks, SendStatus, SendTask, ReadTask, ActiveStatus, SourceStatus
      <3> QED
        BY <2>3, <3>1, <3>2, SameLocks DEF ServerInTime, VmInTime
    <2>4. CASE vm' = [vm EXCEPT ![s][task] = [tries |-> 0, next |-> 0]]
      <3>1. PICK e : e = [tries |-> 0, next |-> 0]
        OBVIOUS
      <3> QED
        BY <2>3, <2>4, <3>1
    <2>5. CASE ~answers /\ \E e : vm' = [vm EXCEPT ![s][task] = e]
      BY <2>3, <2>5
    <2>6. ~(faults < MaxFaults)
      BY <2>1
    <2> QED
      BY <2>2, <2>4, <2>5, <2>6 DEF Read
  <1>4. CASE Goto(w, "stamp") /\ work' = [work EXCEPT ![w].swap = s]
             /\ (Held(s, task) \/ ~answers)
    <2>1. pc'[w] = "stamp" /\ work'[w].swap = s /\ work'[w].began = now
      BY <1>2, <1>4, GoesTo DEF IInv, TypeOK
    <2>2. ~ToOpen(snap[w][s])
      BY <1>4 DEF Held, ServerInTime, VmInTime
    <2>3. ~ToOpen(db[s])
      BY <1>1, <2>2, RowAsRead
    <2>4. JobInTime(pc[w], work[w], Current(w))'
      BY <2>1, <2>3 DEF JobInTime, ToOpen
    <2> QED
      BY <1>1, <1>3, <2>1, <2>4, HandlerInTime
  <1>5. CASE Goto(w, l) /\ work' = [work EXCEPT ![w].swap = s, ![w].box = b]
    <2>1. pc'[w] = l /\ work'[w].swap = s /\ work'[w].began = now /\ work'[w].box = b
      BY <1>2, <1>5, GoesTo DEF IInv, TypeOK
    <2>2. Current(w)' = snap[w][s] /\ deposit' = deposit
      BY <2>1 DEF Current, chain
    <2>3. JobInTime(pc[w], work[w], Current(w))'
      BY <2>1, <2>2 DEF JobInTime
    <2> QED
      BY <1>1, <1>3, <2>1, <2>3, HandlerInTime
  <1> QED
    BY <1>4, <1>5 DEF Read, IInv, TypeOK

LEMMA BeginTaskInTime ==
    ASSUME IInv, OneInv, ServerInTime, MaxFaults = 0, NEW w \in Workers, Workers = {w},
           NEW s \in Swaps, BeginTask(w, s)
    PROVE  ServerInTime'
  <1> DEFINE st == snap[w][s].status
             ofDeposit == st \in {"NONE", "CONFIRMED_OPENING_DEPOSIT", "FINISHED_CLOSING_DEPOSIT"}
             answers == st = "CONFIRMED_CLOSING_WITHDRAW" => withdraw[s].state = "CLOSED"
             b == IF ofDeposit THEN deposit[s] ELSE withdraw[s]
             l == IF st = "CONFIRMED_OPENING_DEPOSIT" THEN "recheck" ELSE "judge"
  <1>1. /\ Read(w, s, ReadTask[st], answers, b, l) /\ UNCHANGED <<now, chain, pending, db, snap>>
        /\ pc[w] = "loop" /\ snap[w][s] # NoRow
    BY DEF BeginTask
  <1>2. st \in ActiveStatus
    BY <1>1 DEF IInv, SnapshotsTrue
  <1>3. /\ ReadTask[st] \in Tasks /\ ReadTask[st] # "OpenWithdraw"
        /\ ReadTask[st] # "CheckWithdrawIsNone"
        /\ ReadTask[st] = "CheckDepositIsOpened" => st # "CONFIRMED_CLOSING_WITHDRAW"
        /\ st = "CONFIRMED_OPENING_DEPOSIT" => ReadTask[st] = "CheckDepositIsOpened"
    BY <1>2 DEF Tasks, ReadTask, ActiveStatus, SourceStatus, TargetStatus
  <1>4. /\ ReadTask[st] \in {"CheckDepositIsOpened", "CheckWithdrawIsNone"} => answers
        /\ ToOpen(snap[w][s]) => ReadTask[st] \in {"CheckDepositIsOpened", "CheckWithdrawIsNone"}
        /\ st = "NONE" => b = deposit[s]
        /\ answers \in BOOLEAN /\ l \in {"recheck", "judge"}
    BY <1>3 DEF ToOpen
  <1>5. PICK task \in Tasks : task = ReadTask[st]
    BY <1>3
  <1> HIDE DEF answers, b, l
  <1> QED
    BY <1>1, <1>3, <1>4, <1>5, ReadInTime

LEMMA PutOnHoldInTime ==
    ASSUME IInv, OneInv, ServerInTime, NEW w \in Workers, Workers = {w},
           NEW s \in Swaps, PutOnHold(w, s)
    PROVE  ServerInTime'
  <1>1. /\ pc[w] = "loop" /\ snap[w][s] # NoRow /\ snap[w][s].status = "NONE"
        /\ Goto(w, "stamp") /\ work' = [work EXCEPT ![w].swap = s]
        /\ UNCHANGED <<now, chain, pending, db, vm, snap>>
    BY DEF PutOnHold
  <1>2. \A x \in Swaps : ~Written(w, x)
    BY <1>1 DEF Written
  <1>3. work[w].began = now
    BY <1>1 DEF ServerInTime, JobsInTime, JobInTime
  <1>4. pc'[w] = "stamp" /\ work'[w].swap = s /\ work'[w].began = now
    BY <1>1, <1>3, GoesTo DEF IInv, TypeOK
  <1>5. ~ToOpen(db[s])
    BY <1>1, <1>2, RowAsRead DEF ToOpen
  <1>6. JobInTime(pc[w], work[w], Current(w))'
    BY <1>1, <1>4, <1>5 DEF JobInTime, ToOpen
  <1> QED
    BY <1>1, <1>2, <1>4, <1>6, SameVm, HandlerInTime

(* A deposit is confirmed with half of its lock left.                      *)
LEMMA CheckDepositIsOpenedInTime ==
    ASSUME IInv, OneInv, ServerInTime, NEW w \in Workers, Workers = {w}, CheckDepositIsOpened(w)
    PROVE  ServerInTime'
  <1>1. PICK s, b : s = work[w].swap /\ b = work[w].box
    OBVIOUS
  <1> DEFINE Row2(st) == RowOfDeposit(db[s], b, st)
  <1>2. /\ pc[w] = "judge" /\ Current(w).status = "NONE" /\ Goto(w, "stamp")
        /\ UNCHANGED <<now, chain, pending, vm, snap, work>>
    BY DEF CheckDepositIsOpened, Handling
  <1>3. db[s] \in Row
    BY <1>1, <1>2, Job
  <1>4. \A st : Row2(st).status = st /\ Row2(st).depositState = b.state
    BY <1>3 DEF Row, RowOfDeposit
  <1>5. CASE UNCHANGED db
    BY <1>2, <1>5, SameVm, EndsInTime DEF ToOpen
  <1>6. CASE SetStatus(w, "ERROR_OPENING_DEPOSIT")
    BY <1>2, <1>6, StatusInTime
  <1>7. CASE SetRow(w, Row2("ERROR_OPENING_DEPOSIT"))
    <2>1. ~ToOpen(Row2("ERROR_OPENING_DEPOSIT"))
      BY <1>4 DEF ToOpen
    <2> HIDE DEF Row2
    <2> QED
      BY <1>2, <1>7, <2>1, WritesInTime
  <1>8. CASE b.state = "OPEN" /\ TimeLeft(b) /\ SetRow(w, Row2("CONFIRMED_OPENING_DEPOSIT"))
    <2>1. b.created = deposit[s].created
      BY <1>1, <1>2, <1>8 DEF ServerInTime, JobsInTime, JobInTime
    <2>2. EarlyAt(s, now)
      BY <1>8, <2>1 DEF TimeLeft, EarlyAt
    <2>3. Row2("CONFIRMED_OPENING_DEPOSIT").depositState = "OPEN"
      BY <1>4, <1>8
    <2> HIDE DEF Row2
    <2> QED
      BY <1>1, <1>2, <1>8, <2>2, <2>3, WritesInTime
  <1> QED
    BY <1>1, <1>5, <1>6, <1>7, <1>8 DEF CheckDepositIsOpened

LEMMA RecheckDepositInTime ==
    ASSUME IInv, OneInv, ServerInTime, MaxFaults = 0, NEW w \in Workers, Workers = {w},
           RecheckDeposit(w)
    PROVE  ServerInTime'
  <1>1. pc[w] = "recheck" /\ Current(w).status = "CONFIRMED_OPENING_DEPOSIT"
        /\ UNCHANGED <<now, chain, pending, snap>>
    BY DEF RecheckDeposit, IInv, JobsTrue, JobTrue
  <1>2. CASE SetStatus(w, "ERROR_OPENING_WITHDRAW") /\ Goto(w, "stamp") /\ UNCHANGED <<vm, work>>
    BY <1>1, <1>2, StatusInTime
  <1>3. ASSUME Read(w, work[w].swap, "CheckWithdrawIsNone", TRUE, withdraw[work[w].swap], "judge"),
               UNCHANGED db
        PROVE  ServerInTime'
    <2>1. PICK s \in Swaps : s = work[w].swap /\ Current(w) = snap[w][s] /\ snap[w][s] # NoRow
      BY <1>1, Job, BridgeAssumption
    <2>2. "CheckWithdrawIsNone" \in Tasks
      BY DEF Tasks
    <2> QED
      BY <1>1, <1>3, <2>1, <2>2, ReadInTime
  <1> QED
    BY <1>2, <1>3 DEF RecheckDeposit

(* runVMTask around a transaction: openWithdraw is sent in time, and what  *)
(* is refused or held back is refused for ever.                            *)
LEMMA SendInTime ==
    ASSUME IInv, OneInv, ServerInTime, MaxFaults = 0, NEW w \in Workers, Workers = {w},
           pc[w] = "judge", Current(w).status \in SendStatus, NEW tx, Send(w, tx),
           UNCHANGED <<now, chain, vm, snap>>,
           tx.kind = "OpenWithdraw" /\ Succeeds(tx) => InTime(tx.swap),
           ToOpen(Current(w)) /\ ~Succeeds(tx) => Refused(work[w].swap)
    PROVE  ServerInTime'
  <1>1. PICK s \in Swaps : s = work[w].swap /\ Current(w) = snap[w][s] /\ snap[w][s] # NoRow
    BY Job, BridgeAssumption
  <1>2. PICK st \in SendStatus : st = Current(w).status
    OBVIOUS
  <1>3. CASE /\ Held(s, SendTask[st]) /\ Goto(w, "stamp")
             /\ UNCHANGED <<db, pending, work>>
    <2>1. ToOpen(Current(w)) => Refused(s)
      BY <1>2, <1>3 DEF ToOpen, SendTask, Held, ServerInTime, VmInTime
    <2> QED
      BY <1>1, <1>3, <2>1, SameVm, EndsInTime
  <1>4. CASE /\ SetStatus(w, GivenUpStatus[st]) /\ Goto(w, "stamp")
             /\ UNCHANGED <<pending, work>>
    <2>1. GivenUpStatus[st] # "CONFIRMED_OPENING_DEPOSIT"
      BY DEF GivenUpStatus, SendStatus, SendTask
    <2> QED
      BY <1>4, <2>1, StatusInTime
  <1>5. ASSUME NEW n, Submit(w, tx, n) PROVE ServerInTime'
    <2>1. Goto(w, "record") /\ UNCHANGED db
          /\ \/ Succeeds(tx) /\ pending' = pending \cup {tx}
                /\ work' = [work EXCEPT ![w].sent = TRUE, ![w].tries = n]
             \/ ~Succeeds(tx) /\ UNCHANGED pending
                /\ work' = [work EXCEPT ![w].sent = FALSE, ![w].tries = n]
      <3>1. ~(faults < MaxFaults)
        BY DEF IInv, TypeOK
      <3> QED
        BY <1>5, <3>1 DEF Submit
    <2>2. pc'[w] = "record"
      BY <2>1, GoesTo
    <2>3. work'[w].swap = s /\ work'[w].began = work[w].began
          /\ (~work'[w].sent => ~Succeeds(tx))
      BY <1>1, <2>1 DEF IInv, TypeOK
    <2>4. work[w].began = now
      BY DEF ServerInTime, JobsInTime, JobInTime
    <2>5. Current(w)' = Current(w)
      BY <1>1, <2>3 DEF Current
    <2>6. Refused(s)' <=> Refused(s)
      BY SameLocks
    <2>7. JobInTime(pc[w], work[w], Current(w))'
      BY <1>1, <2>2, <2>3, <2>4, <2>5, <2>6 DEF JobInTime
    <2>8. \A x \in Swaps : ~Written(w, x)
      BY DEF Written
    <2>9. \A y \in pending' \ pending : y.kind = "OpenWithdraw" => InTime(y.swap)
      BY <2>1
    <2> QED
      BY <2>1, <2>2, <2>7, <2>8, <2>9, SameVm, HandlerInTime
  <1> QED
    BY <1>1, <1>2, <1>3, <1>4, <1>5 DEF Send

LEMMA OpenWithdrawInTime ==
    ASSUME IInv, OneInv, ServerInTime, MaxFaults = 0, NEW w \in Workers, Workers = {w},
           OpenWithdraw(w)
    PROVE  ServerInTime'
  <1>1. PICK s, r : /\ s \in Swaps /\ s = work[w].swap
                   /\ r = Current(w) /\ r = snap[w][s] /\ r # NoRow /\ RowTrue(s, r)
    BY Job, BridgeAssumption DEF OpenWithdraw, Handling
  <1>2. /\ pc[w] = "judge" /\ r.status = "CONFIRMED_OPENING_DEPOSIT"
        /\ UNCHANGED <<now, chain, vm, snap>>
    BY <1>1 DEF OpenWithdraw, Handling
  <1>3. CASE work[w].box.state = "INVALID"
    <2> DEFINE tx == [kind |-> "OpenWithdraw", swap |-> s, terms |-> r.terms, key |-> NoKey]
    <2>1. Send(w, tx)
      BY <1>1, <1>3 DEF OpenWithdraw
    <2>2. DepositOpened(s) /\ r.terms = deposit[s].terms
      BY <1>1, <1>2 DEF RowTrue
    <2>3. Succeeds(tx) <=> CanOpenWithdraw(s, deposit[s].terms)
      BY <2>2 DEF Succeeds
    <2>4. Refused(s) \/ InTime(s)
      BY <1>1, <1>2 DEF ServerInTime, SnapshotsInTime, ToOpen
    <2>5. ~Succeeds(tx) <=> Refused(s)
      BY <2>2, <2>3 DEF Refused
    <2>6. tx.kind = "OpenWithdraw" /\ tx.swap = s
      OBVIOUS
    <2> HIDE DEF tx
    <2> QED
      BY <1>1, <1>2, <2>1, <2>4, <2>5, <2>6, StatusSets, SendInTime
  <1>4. CASE work[w].box.state # "INVALID"
    <2>1. PICK st \in {"FINISHED_OPENING_WITHDRAW", "ERROR_OPENING_WITHDRAW"} :
              SetStatus(w, st) /\ Goto(w, "stamp") /\ UNCHANGED <<pending, work>>
      BY <1>4 DEF OpenWithdraw
    <2> QED
      BY <1>2, <2>1, StatusInTime
  <1> QED
    BY <1>3, <1>4

(* The handlers of the withdraw box and of the end of the deposit.         *)
LEMMA CheckWithdrawIsOpenedInTime ==
    ASSUME IInv, OneInv, ServerInTime, NEW w \in Workers, Workers = {w}, CheckWithdrawIsOpened(w)
    PROVE  ServerInTime'
  <1>1. PICK s, b : s = work[w].swap /\ b = work[w].box
    OBVIOUS
  <1>2. /\ pc[w] = "judge" /\ Current(w).status = "FINISHED_OPENING_WITHDRAW"
        /\ UNCHANGED <<now, chain, pending, vm, snap>>
    BY DEF CheckWithdrawIsOpened, Handling
  <1>3. CASE b.state = "INVALID"
    BY <1>1, <1>2, <1>3, SameVm, EndsInTime DEF CheckWithdrawIsOpened, ToOpen
  <1>4. CASE b.state # "INVALID"
    <2>1. s \in Swaps /\ db[s] \in Row /\ db \in [Swaps -> Row \cup {NoRow}]
      BY <1>1, <1>2, Job DEF IInv, TypeOK
    <2> DEFINE st == IF b.state = "EXPIRED" THEN "ERROR_OPENING_WITHDRAW"
                     ELSE "CONFIRMED_OPENING_WITHDRAW"
               r == [db[s] EXCEPT !.withdrawState = b.state, !.status = st]
    <2>2. /\ db' = [db EXCEPT ![s] = r] /\ Goto(w, "diff")
          /\ work' = [work EXCEPT ![w].diff = b.created - now]
      BY <1>1, <1>4 DEF CheckWithdrawIsOpened, SetRow
    <2>3. ~ToOpen(r)
      BY <2>1 DEF Row, ToOpen
    <2> HIDE DEF r
    <2>4. pc'[w] = "diff" /\ work'[w].swap = s /\ work'[w].began = work[w].began
      BY <1>1, <2>2, GoesTo DEF IInv, TypeOK
    <2>5. db'[s] = r /\ \A x \in Swaps \ {s} : db'[x] = db[x]
      BY <2>1, <2>2
    <2>6. work[w].began = now
      BY <1>2 DEF ServerInTime, JobsInTime, JobInTime
    <2>7. JobInTime(pc[w], work[w], Current(w))'
      BY <1>2, <2>3, <2>4, <2>5, <2>6 DEF JobInTime, ToOpen
    <2>8. Written(w, s)' /\ \A x \in Swaps : ~Written(w, x)
      BY <1>2, <2>4 DEF Written
    <2> QED
      BY <1>2, <2>4, <2>5, <2>7, <2>8, SameVm, HandlerInTime
  <1> QED
    BY <1>3, <1>4

LEMMA UpdateTimeDiffInTime ==
    ASSUME IInv, ServerInTime, NEW w \in Workers, Workers = {w}, UpdateTimeDiff(w)
    PROVE  ServerInTime'
  <1>1. PICK s : s = work[w].swap
    OBVIOUS
  <1> DEFINE r == [db[s] EXCEPT !.timeDiff = work[w].diff]
  <1>2. /\ pc[w] = "diff" /\ UNCHANGED <<now, chain, pending, vm, snap, work>>
        /\ Goto(w, "stamp") /\ SetRow(w, r)
    BY <1>1 DEF UpdateTimeDiff, SetRow
  <1>3. db[s] \in Row /\ db[s] # NoRow
    BY <1>1, <1>2, Job
  <1>4. db[s].status # "CONFIRMED_OPENING_DEPOSIT"
    BY <1>1, <1>2, <1>3 DEF ServerInTime, JobsInTime, JobInTime, ToOpen
  <1>5. ~ToOpen(r)
    BY <1>3, <1>4 DEF Row, ToOpen
  <1> HIDE DEF r
  <1> QED
    BY <1>2, <1>5, WritesInTime

LEMMA WithdrawRowInTime ==
    ASSUME IInv, ServerInTime, NEW w \in Workers, Workers = {w}, pc[w] = "judge",
           UNCHANGED <<now, chain, pending, vm, snap, work>>, Goto(w, "stamp"),
           NEW st, st # "CONFIRMED_OPENING_DEPOSIT",
           SetRow(w, RowOfWithdraw(db[work[w].swap], work[w].box, st))
    PROVE  ServerInTime'
  <1> DEFINE r == RowOfWithdraw(db[work[w].swap], work[w].box, st)
  <1>1. db[work[w].swap] \in Row
    BY Job
  <1>2. ~ToOpen(r) /\ SetRow(w, r)
    BY <1>1 DEF Row, RowOfWithdraw, ToOpen
  <1> HIDE DEF r
  <1> QED
    BY <1>2, WritesInTime

LEMMA CloseWithdrawTaskInTime ==
    ASSUME IInv, OneInv, ServerInTime, MaxFaults = 0, NEW w \in Workers, Workers = {w},
           CloseWithdrawTask(w)
    PROVE  ServerInTime'
  <1>1. /\ pc[w] = "judge" /\ Current(w).status = "CONFIRMED_OPENING_WITHDRAW"
        /\ UNCHANGED <<now, chain, vm, snap>> /\ ~ToOpen(Current(w))
    BY DEF CloseWithdrawTask, Handling, ToOpen
  <1>2. CASE /\ SetRow(w, RowOfWithdraw(db[work[w].swap], work[w].box, "CONFIRMED_CLOSING_WITHDRAW"))
             /\ Goto(w, "stamp") /\ UNCHANGED <<pending, work>>
    BY <1>1, <1>2, WithdrawRowInTime
  <1>3. CASE /\ SetStatus(w, "STARTED_EXPIRE_WITHDRAW") /\ Goto(w, "stamp")
             /\ UNCHANGED <<pending, work>>
    BY <1>1, <1>3, StatusInTime
  <1>4. CASE Goto(w, "stamp") /\ UNCHANGED <<db, pending, work>>
    BY <1>1, <1>4, SameVm, EndsInTime
  <1>5. CASE \E tx : tx.kind = "CloseWithdraw" /\ Send(w, tx)
    BY <1>1, <1>5, SendInTime, StatusSets
  <1> QED
    BY <1>2, <1>3, <1>4, <1>5 DEF CloseWithdrawTask

LEMMA CheckWithdrawIsClosedInTime ==
    ASSUME IInv, OneInv, ServerInTime, NEW w \in Workers, Workers = {w}, CheckWithdrawIsClosed(w)
    PROVE  ServerInTime'
  <1>1. /\ pc[w] = "judge" /\ ~ToOpen(Current(w)) /\ Goto(w, "stamp")
        /\ UNCHANGED <<now, chain, pending, vm, snap, work>>
    BY DEF CheckWithdrawIsClosed, Handling, ToOpen
  <1>2. ASSUME NEW st \in {"CONFIRMED_CLOSING_WITHDRAW", "ERROR_CLOSING_WITHDRAW"},
               SetRow(w, RowOfWithdraw(db[work[w].swap], work[w].box, st))
        PROVE  ServerInTime'
    BY <1>1, <1>2, WithdrawRowInTime
  <1>3. CASE SetStatus(w, "STARTED_EXPIRE_WITHDRAW")
    BY <1>1, <1>3, StatusInTime
  <1>4. CASE UNCHANGED db
    BY <1>1, <1>4, SameVm, EndsInTime
  <1> QED
    BY <1>2, <1>3, <1>4 DEF CheckWithdrawIsClosed

LEMMA ExpireWithdrawTaskInTime ==
    ASSUME IInv, OneInv, ServerInTime, MaxFaults = 0, NEW w \in Workers, Workers = {w},
           ExpireWithdrawTask(w)
    PROVE  ServerInTime'
  <1>1. /\ pc[w] = "judge" /\ Current(w).status = "STARTED_EXPIRE_WITHDRAW"
        /\ UNCHANGED <<now, chain, vm, snap>> /\ ~ToOpen(Current(w))
    BY DEF ExpireWithdrawTask, Handling, ToOpen
  <1>2. CASE /\ SetStatus(w, "CONFIRMED_CLOSING_WITHDRAW") /\ Goto(w, "stamp")
             /\ UNCHANGED <<pending, work>>
    BY <1>1, <1>2, StatusInTime
  <1>3. CASE Goto(w, "stamp") /\ UNCHANGED <<db, pending, work>>
    BY <1>1, <1>3, SameVm, EndsInTime
  <1>4. CASE \E tx : tx.kind = "ExpireWithdraw" /\ Send(w, tx)
    BY <1>1, <1>4, SendInTime, StatusSets
  <1> QED
    BY <1>2, <1>3, <1>4 DEF ExpireWithdrawTask

LEMMA CloseDepositTaskInTime ==
    ASSUME IInv, OneInv, ServerInTime, MaxFaults = 0, NEW w \in Workers, Workers = {w},
           CloseDepositTask(w)
    PROVE  ServerInTime'
  <1>1. /\ pc[w] = "judge" /\ Current(w).status = "CONFIRMED_CLOSING_WITHDRAW"
        /\ UNCHANGED <<now, chain, vm, snap>> /\ ~ToOpen(Current(w))
    BY DEF CloseDepositTask, Handling, ToOpen
  <1>2. PICK tx : tx.kind = "CloseDeposit" /\ Send(w, tx)
    BY DEF CloseDepositTask
  <1> QED
    BY <1>1, <1>2, SendInTime, StatusSets

LEMMA LastChecksInTime ==
    ASSUME IInv, OneInv, ServerInTime, NEW w \in Workers, Workers = {w},
           CheckDepositIsClosed(w) \/ CheckWithdrawIsExpired(w)
    PROVE  ServerInTime'
  <1>1. /\ pc[w] = "judge" /\ ~ToOpen(Current(w)) /\ Goto(w, "stamp")
        /\ UNCHANGED <<now, chain, pending, vm, snap, work>>
    BY DEF CheckDepositIsClosed, CheckWithdrawIsExpired, Handling, ToOpen
  <1>2. CASE UNCHANGED db
    BY <1>1, <1>2, SameVm, EndsInTime
  <1>3. CASE \E st \in {"CONFIRMED_CLOSING_DEPOSIT", "CONFIRMED_EXPIRE_WITHDRAW"} :
                 SetStatus(w, st)
    BY <1>1, <1>3, StatusInTime
  <1> QED
    BY <1>2, <1>3 DEF CheckDepositIsClosed, CheckWithdrawIsExpired

LEMMA SettleInTime ==
    ASSUME IInv, ServerInTime, NEW w \in Workers, Workers = {w}, Settle(w)
    PROVE  ServerInTime'
  <1>1. /\ pc[w] = "settle" /\ Goto(w, "stamp") /\ SetStatus(w, SentStatus[Current(w).status])
        /\ UNCHANGED <<now, chain, pending, vm, snap, work>>
    BY DEF Settle
  <1>2. PICK st \in SendStatus : st = Current(w).status
    BY <1>1 DEF IInv, JobsTrue, JobTrue
  <1>3. SentStatus[st] # "CONFIRMED_OPENING_DEPOSIT"
    BY DEF SentStatus, SendStatus, SendTask
  <1> QED
    BY <1>1, <1>2, <1>3, StatusInTime

(* An attempt of openWithdraw that was refused is counted: it would be     *)
(* refused again.                                                          *)
LEMMA RecordInTime ==
    ASSUME IInv, OneInv, ServerInTime, NEW w \in Workers, Workers = {w}, Record(w)
    PROVE  ServerInTime'
  <1>1. PICK s, r : /\ s \in Swaps /\ s = work[w].swap
                   /\ r = Current(w) /\ r = snap[w][s] /\ r # NoRow
    BY Job, BridgeAssumption DEF Record
  <1>2. PICK st \in SendStatus : st = r.status
    BY <1>1 DEF Record, IInv, JobsTrue, JobTrue
  <1>3. PICK e : /\ e = IF work[w].sent THEN [tries |-> 0, next |-> 0] ELSE Failure(work[w].tries)
                 /\ vm' = [vm EXCEPT ![s][SendTask[st]] = e]
    BY <1>1, <1>2 DEF Record
  <1>4. /\ pc[w] = "record" /\ UNCHANGED <<now, chain, pending, db, snap, work>>
        /\ Goto(w, IF ~work[w].sent /\ st = "CONFIRMED_OPENING_DEPOSIT" THEN "stamp" ELSE "settle")
    BY <1>1, <1>2 DEF Record
  <1>5. ToOpen(r) /\ ~work[w].sent => Refused(s)
    BY <1>1, <1>4 DEF ServerInTime, JobsInTime, JobInTime
  <1>6. VmInTime'
    <2>1. SendTask[st] \in Tasks /\ vm \in [Swaps -> [Tasks -> [tries : Nat, next : Nat]]]
      BY StatusSets DEF IInv, TypeOK, Tasks
    <2>2. \A x \in Swaps, t \in Tasks :
              vm'[x][t] = IF x = s /\ t = SendTask[st] THEN e ELSE vm[x][t]
      BY <1>3, <2>1
    <2>3. {"CheckDepositIsOpened", "CheckWithdrawIsNone", "OpenWithdraw"} \subseteq Tasks
      BY DEF Tasks, SendStatus, SendTask, ReadTask, ActiveStatus, SourceStatus
    <2>4. /\ SendTask[st] \notin {"CheckDepositIsOpened", "CheckWithdrawIsNone"}
          /\ SendTask[st] = "OpenWithdraw" => st = "CONFIRMED_OPENING_DEPOSIT"
      BY DEF SendStatus, SendTask
    <2>5. SendTask[st] = "OpenWithdraw" /\ e.tries > 0 => Refused(s)
      BY <1>1, <1>2, <1>3, <1>5, <2>4 DEF ToOpen
    <2>6. ASSUME NEW x \in Swaps
          PROVE  /\ \A t \in {"CheckDepositIsOpened", "CheckWithdrawIsNone"} : vm'[x][t].tries = 0
                 /\ vm'[x]["OpenWithdraw"].tries > 0 => Refused(x)
      <3>1. /\ \A t \in {"CheckDepositIsOpened", "CheckWithdrawIsNone"} : vm'[x][t] = vm[x][t]
            /\ vm'[x]["OpenWithdraw"] = vm[x]["OpenWithdraw"]
                \/ (x = s /\ SendTask[st] = "OpenWithdraw" /\ vm'[x]["OpenWithdraw"] = e)
        BY <2>2, <2>3, <2>4
      <3> QED
        BY <2>5, <3>1 DEF ServerInTime, VmInTime
    <2> QED
      BY <1>4, <2>6, SameLocks DEF VmInTime
  <1>7. CASE ~work[w].sent /\ st = "CONFIRMED_OPENING_DEPOSIT"
    BY <1>1, <1>2, <1>4, <1>5, <1>6, <1>7, EndsInTime
  <1>8. CASE Goto(w, "settle")
    <2>1. pc'[w] = "settle"
      BY <1>8, GoesTo
    <2>2. work[w].began = now
      BY <1>4 DEF ServerInTime, JobsInTime, JobInTime
    <2>3. JobInTime(pc[w], work[w], Current(w))'
      BY <1>4, <2>1, <2>2 DEF JobInTime
    <2>4. \A x \in Swaps : ~Written(w, x)
      BY <1>4 DEF Written
    <2> QED
      BY <1>4, <1>6, <2>1, <2>3, <2>4, HandlerInTime
  <1> QED
    BY <1>4, <1>7, <1>8

(***************************************************************************)
(* Its rounds.                                                             *)
(***************************************************************************)
LEMMA StampInTime ==
    ASSUME IInv, ServerInTime, NEW w \in Workers, Workers = {w}, Stamp(w)
    PROVE  ServerInTime'
  <1>1. PICK s : s = work[w].swap
    OBVIOUS
  <1> DEFINE r == [db[s] EXCEPT !.updated = work[w].began]
  <1>2. /\ pc[w] = "stamp" /\ UNCHANGED <<now, chain, pending, vm>>
        /\ s \in Swaps /\ db[s] \in Row /\ db[s] # NoRow
    BY <1>1, Job DEF Stamp
  <1>3. /\ work[w].began = now
        /\ ToOpen(db[s]) => db[s].depositState = "OPEN" /\ (Refused(s) \/ EarlyAt(s, now))
    BY <1>1, <1>2 DEF ServerInTime, JobsInTime, JobInTime
  <1>4. /\ r.status = db[s].status /\ r.depositState = db[s].depositState /\ r.updated = now
        /\ db' = [db EXCEPT ![s] = r] /\ db \in [Swaps -> Row \cup {NoRow}]
    BY <1>1, <1>2, <1>3 DEF Row, Stamp, SetRow, StampedRow, IInv, TypeOK
  <1> HIDE DEF r
  <1>5. db'[s] = r /\ \A x \in Swaps \ {s} : db'[x] = db[x]
    BY <1>2, <1>4
  <1>6. /\ snap'[w][s] = NoRow /\ \A x \in Swaps \ {s} : snap'[w][x] = snap[w][x]
        /\ pc'[w] \in {"loop", "idle"} /\ (pc'[w] = "loop" => work'[w].began = now)
    BY <1>1, <1>2, <1>3 DEF Stamp, Goto, IInv, TypeOK, IdleWork
  <1>7. \A x \in Swaps \ {s} : ~Written(w, x)
    BY <1>1 DEF Written
  <1>8. BoxesNested' /\ VmInTime'
    BY <1>2, SameBoxesNested, SameVm DEF ServerInTime
  <1>9. TxInTime'
    BY <1>2 DEF ServerInTime, TxInTime, InTime, EarlyAt, chain
  <1>10. RowInTime(s, db[s])'
    <2>1. now <= now + TargetInterval
      BY BridgeAssumption DEF IInv, TypeOK
    <2>2. ToOpen(r) => ToOpen(db[s])
      BY <1>2, <1>4 DEF ToOpen
    <2>3. (Refused(s) => Refused(s)') /\ (EarlyAt(s, now) => EarlyAt(s, now)')
      BY <1>2, SameLocks
    <2> QED
      BY <1>2, <1>3, <1>4, <1>5, <2>1, <2>2, <2>3 DEF RowInTime, EarlyAt, ToOpen
  <1>11. ASSUME NEW x \in Swaps \ {s} PROVE RowInTime(x, db[x])'
    <2>1. db'[x] = db[x] /\ \A v \in Workers : ~Written(v, x)
      BY <1>5, <1>7
    <2>2. Refused(x) => Refused(x)'
      BY <1>2, SameLocks
    <2> QED
      BY <1>2, <2>1, <2>2 DEF ServerInTime, RowsInTime, RowInTime, ToOpen, EarlyAt, chain
  <1>12. SnapshotsInTime'
    BY <1>2, <1>6, SameLocks DEF ServerInTime, SnapshotsInTime, ToOpen
  <1>13. JobsInTime'
    BY <1>2, <1>6 DEF JobsInTime, JobInTime
  <1> QED
    BY <1>8, <1>9, <1>10, <1>11, <1>12, <1>13 DEF ServerInTime, RowsInTime

LEMMA StartRoundInTime ==
    ASSUME IInv, ServerInTime, NEW w \in Workers, Workers = {w}, StartRound(w)
    PROVE  ServerInTime'
  <1>1. pc[w] = "idle" /\ UNCHANGED <<now, chain, pending, db, vm>>
    BY DEF StartRound
  <1>2. /\ \A s \in Swaps : snap'[w][s] # NoRow => snap'[w][s] = db[s]
        /\ pc'[w] = "loop" /\ work'[w].began = now
    BY DEF StartRound, IInv, TypeOK
  <1>3. \A s \in Swaps : ~Written(w, s)
    BY <1>1 DEF Written
  <1>4. BoxesNested' /\ VmInTime'
    BY <1>1, SameBoxesNested, SameVm DEF ServerInTime
  <1>5. TxInTime'
    BY <1>1 DEF ServerInTime, TxInTime, InTime, EarlyAt, chain
  <1>6. ASSUME NEW s \in Swaps PROVE RowInTime(s, db[s])'
    <2>1. Refused(s) => Refused(s)'
      BY <1>1, SameLocks
    <2> QED
      BY <1>1, <1>3, <2>1 DEF ServerInTime, RowsInTime, RowInTime, ToOpen, EarlyAt, chain
  <1>7. ASSUME NEW s \in Swaps, ToOpen(snap[w][s])' PROVE Refused(s)' \/ InTime(s)'
    <2>1. ToOpen(db[s])
      BY <1>2, <1>7 DEF ToOpen
    <2>2. Refused(s) \/ (EarlyAt(s, db[s].updated) /\ now <= db[s].updated + TargetInterval)
      BY <1>3, <2>1 DEF ServerInTime, RowsInTime, RowInTime
    <2>3. PICK u \in Int : u = db[s].updated
      BY <2>1 DEF ToOpen, IInv, TypeOK, Row
    <2>4. DepositOpened(s)
      BY <2>1, ToOpenOpened
    <2>5. deposit[s].created \in Int /\ now \in Int
      BY <2>4, BoxNeeds
    <2>6. ASSUME EarlyAt(s, u), now <= u + TargetInterval PROVE InTime(s)
      BY <2>5, <2>6, BridgeAssumption DEF EarlyAt, InTime
    <2> QED
      BY <1>1, <2>2, <2>3, <2>6, SameLocks
  <1>8. SnapshotsInTime'
    BY <1>7 DEF SnapshotsInTime
  <1>9. JobsInTime'
    BY <1>1, <1>2 DEF JobsInTime, JobInTime
  <1> QED
    BY <1>4, <1>5, <1>6, <1>8, <1>9 DEF ServerInTime, RowsInTime

LEMMA WorkerInTime ==
    ASSUME InTimeServer, IInv, OneInv, ServerInTime, NEW w \in Workers, Worker(w)
    PROVE  ServerInTime'
  <1>1. Workers = {w} /\ MaxFaults = 0
    BY DEF InTimeServer, NothingFails, OneWorker
  <1>2. CASE StartRound(w) \/ Stamp(w) \/ \E s \in Swaps : BeginTask(w, s) \/ PutOnHold(w, s)
    BY <1>1, <1>2, StartRoundInTime, StampInTime, BeginTaskInTime, PutOnHoldInTime
  <1>3. CASE CheckDepositIsOpened(w) \/ RecheckDeposit(w) \/ OpenWithdraw(w)
    BY <1>1, <1>3, CheckDepositIsOpenedInTime, RecheckDepositInTime, OpenWithdrawInTime
  <1>4. CASE CheckWithdrawIsOpened(w) \/ UpdateTimeDiff(w) \/ CloseWithdrawTask(w)
    BY <1>1, <1>4, CheckWithdrawIsOpenedInTime, UpdateTimeDiffInTime, CloseWithdrawTaskInTime
  <1>5. CASE CheckWithdrawIsClosed(w) \/ ExpireWithdrawTask(w) \/ CloseDepositTask(w)
    BY <1>1, <1>5, CheckWithdrawIsClosedInTime, ExpireWithdrawTaskInTime, CloseDepositTaskInTime
  <1>6. CASE CheckDepositIsClosed(w) \/ CheckWithdrawIsExpired(w) \/ Record(w) \/ Settle(w)
    BY <1>1, <1>6, LastChecksInTime, RecordInTime, SettleInTime
  <1> QED
    BY <1>2, <1>3, <1>4, <1>5, <1>6 DEF Worker

LEMMA InTimeInit == Init => ServerInTime
  <1> SUFFICES ASSUME Init PROVE ServerInTime
    OBVIOUS
  <1>1. BoxesNested /\ TxInTime /\ RowsInTime
    BY DEF Init, BoxesNested, WithdrawOpened, NoBox, TxInTime, RowsInTime, RowInTime, ToOpen
  <1>2. {"CheckDepositIsOpened", "CheckWithdrawIsNone", "OpenWithdraw"} \subseteq Tasks
    BY DEF Tasks, SendStatus, SendTask, ReadTask, ActiveStatus, SourceStatus
  <1>3. VmInTime
    BY <1>2 DEF Init, VmInTime
  <1>4. SnapshotsInTime /\ JobsInTime
    BY DEF Init, SnapshotsInTime, JobsInTime, JobInTime
  <1> QED
    BY <1>1, <1>3, <1>4 DEF ServerInTime

LEMMA InTimeStep ==
    ASSUME InTimeServer, 2 * WithdrawLock <= DepositLock, IInv, OneInv, ServerInTime, [Next]_vars
    PROVE  ServerInTime'
  <1>1. ASSUME NEW w \in Workers, Worker(w) PROVE ServerInTime'
    BY <1>1, WorkerInTime
  <1>2. ASSUME NEW w \in Workers, Abort(w) PROVE ServerInTime'
    BY <1>2 DEF Abort, InTimeServer, NothingFails, IInv, TypeOK
  <1>3. ASSUME NEW tx \in pending, Mine(tx) PROVE ServerInTime'
    BY <1>3, MineInTime
  <1>4. ASSUME NEW tx \in pending, Drop(tx) PROVE ServerInTime'
    BY <1>4 DEF Drop, InTimeServer, NothingFails, IInv, TypeOK
  <1>5. CASE Tick
    BY <1>5, TickInTime DEF InTimeServer
  <1>6. CASE UNCHANGED vars
    <2>1. BoxesAdvance /\ CoinsStay /\ TimesStay /\ pool' \in Nat
      BY <1>6, StillChains, StillCoins DEF vars, chain, TimesStay, WithdrawOpened, IInv, TypeOK
    <2> QED
      BY <1>6, <2>1, ChainsInTime DEF vars, worker, ToOpen, WithdrawOpened
  <1> QED
    BY <1>1, <1>2, <1>3, <1>4, <1>5, <1>6, UserInTime DEF Next

-----------------------------------------------------------------------------
(* checkDepositIsOpened leaves so much of the deposit's lock that the      *)
(* withdraw box, opened in the next period of the target chain, is over    *)
(* before it, or later by at most that period and by what the source       *)
(* chain's clock is ahead.  This rests on a server that is in time; a      *)
(* refused openWithdraw that were tried again later could break it, were   *)
(* the refusal not for ever.                                               *)
THEOREM NestedLocks ==
    InTimeServer /\ 2 * WithdrawLock <= DepositLock => (Spec => []LocksAreNested)
  <1> SUFFICES ASSUME InTimeServer, 2 * WithdrawLock <= DepositLock
               PROVE  Spec => []LocksAreNested
    OBVIOUS
  <1>1. OneWorker
    BY DEF InTimeServer, NothingFails
  <1>2. IInv /\ OneInv /\ [Next]_vars => OneInv'
    BY <1>1, OneStep
  <1>3. IInv /\ OneInv /\ ServerInTime /\ [Next]_vars => ServerInTime'
    BY InTimeStep
  <1>4. IInv /\ ServerInTime => LocksAreNested
    <2> SUFFICES ASSUME IInv, ServerInTime, NEW s \in Swaps, withdraw[s].state # "INVALID"
                 PROVE  WithdrawLockEnds(s) <= DepositLockEnds(s) + TargetInterval + SourceSkew
      BY DEF LocksAreNested
    <2>1. withdraw[s].created - TargetSkew + WithdrawLock <= deposit[s].created + DepositLock + TargetInterval
      BY DEF ServerInTime, BoxesNested, NestedBox, WithdrawOpened
    <2>2. deposit[s].created \in Int /\ withdraw[s].created \in Int
      BY DEF IInv, TypeOK, Box
    <2>3. SourceSkew \in Int /\ TargetSkew \in Int /\ WithdrawLock \in Int /\ DepositLock \in Int /\ TargetInterval \in Int
      BY BridgeAssumption
    <2> QED
      BY <2>1, <2>2, <2>3 DEF WithdrawLockEnds, DepositLockEnds
  <1> QED
    BY <1>2, <1>3, <1>4, OneInit, InTimeInit, Inductive, PTL DEF Spec
=============================================================================
