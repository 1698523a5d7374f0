------------------------------- MODULE Nonces -------------------------------
(***************************************************************************)
(* The nonces of the bridge manager's transactions.  Each server process   *)
(* has one NonceManager for each network, shared by its two bridges        *)
(* (SignerMap); two servers use one account and know nothing of each       *)
(* other.  A NonceManager counts on its own and is set back to the number  *)
(* of mined transactions when a transaction has failed, whatever the       *)
(* reason.                                                                 *)
(*                                                                         *)
(* What a transaction does is left out: a node may refuse any, as one that *)
(* would revert.  A server sends one at a time (OneWorkAtATime).           *)
(***************************************************************************)
EXTENDS Integers, FiniteSets

CONSTANTS
    Servers,   \* processes that run the bridge scheduler
    Networks,
    Tip,       \* maxPriorityFeePerGas
    BaseFees,  \* what the latest block may ask
    Unknown,   \* a NonceManager that has not counted yet
    Broken,    \* one whose first count failed
    MaxNonce,  \* bound of the transactions of each network
    MaxFaults  \* bound of failed counts and dropped transactions

ASSUME NonceSetup ==
    /\ \A n \in Networks : \E m \in Networks : Networks = {n, m} /\ n # m
    /\ Tip \in Nat \ {0} /\ BaseFees \subseteq Nat /\ BaseFees # {}
    /\ Unknown \notin Nat /\ Broken \notin Nat /\ Unknown # Broken
    /\ MaxNonce \in [Networks -> Nat] /\ MaxFaults \in Nat

VARIABLES
    mined,   \* getTransactionCount(): transactions in blocks
    pool,    \* transactions that the node holds
    next,    \* the nonce that a NonceManager gives next
    worker,  \* the handler of a server that sends a transaction
    faults   \* failed counts and dropped transactions so far

node == <<mined, pool>>
vars == <<node, next, worker, faults>>

SendTasks == {"OpenWithdraw", "CloseWithdraw", "ExpireWithdraw", "CloseDeposit"}
Other(n) == CHOOSE m \in Networks : m # n

(* The network a handler sends to, and the one whose count it sets back.   *)
SendsTo(task, source) == IF task = "CloseDeposit" THEN source ELSE Other(source)
Resets_Swapped(task, source) == IF task = "CloseDeposit" THEN Other(source) ELSE source
Resets(task, source) == IF task = "CloseDeposit" THEN source ELSE Other(source)

(* The fees of a transaction.                                              *)
Bid_ScaledTip(base) == [tip |-> base + Tip, cap |-> (base * 81) \div 64 + base + Tip]
Bid(base) == [tip |-> Tip, cap |-> (base * 81) \div 64 + Tip]
Idle == [step |-> "idle"]
Sending(task, source, nonce) ==
    [step |-> "sending", net |-> SendsTo(task, source), reset |-> Resets(task, source), nonce |-> nonce]
Caught_NoReset(job) == Idle
Caught(job) == [step |-> "failed", reset |-> job.reset]
Counted(job, count) == [step |-> "counted", reset |-> job.reset, count |-> count]

Init ==
    /\ mined = [n \in Networks |-> 0]
    /\ pool = [n \in Networks |-> {}]
    /\ next = [s \in Servers |-> [n \in Networks |-> Unknown]]
    /\ worker = [s \in Servers |-> Idle]
    /\ faults = 0

Held(n) == {tx.nonce : tx \in pool[n]}
Fault == faults < MaxFaults /\ faults' = faults + 1

(***************************************************************************)
(* The node.  It takes a transaction with a nonce it holds already only if *)
(* both fees are a tenth higher, and then forgets the other.               *)
(***************************************************************************)
IsPending(n, k) ==
    /\ k >= mined[n] /\ k \notin Held(n)
    /\ \A j \in 0 .. k - 1 : j >= mined[n] => j \in Held(n)
Outbids(fees, old) == 10 * fees.tip >= 11 * old.tip /\ 10 * fees.cap >= 11 * old.cap
Accepts(n, nonce, fees) ==
    /\ nonce >= mined[n]
    /\ \A old \in pool[n] : old.nonce = nonce => Outbids(fees, old.fees)
Take(n, nonce, fees) ==
    pool' = [pool EXCEPT ![n] = {old \in @ : old.nonce # nonce} \cup {[nonce |-> nonce, fees |-> fees]}]

Mine(n) ==
    /\ \E tx \in pool[n] :
        /\ tx.nonce = mined[n]
        /\ pool' = [pool EXCEPT ![n] = @ \ {tx}]
    /\ mined' = [mined EXCEPT ![n] = @ + 1]
    /\ UNCHANGED <<next, worker, faults>>

Drop(n) ==
    /\ Fault
    /\ \E tx \in pool[n] : pool' = [pool EXCEPT ![n] = @ \ {tx}]
    /\ UNCHANGED <<mined, next, worker>>

(***************************************************************************)
(* A server.  The nonce is used up before anything is sent.  The first     *)
(* count includes what is pending.                                         *)
(***************************************************************************)
NextNonces(s, n) ==
    IF next[s][n] = Unknown THEN {k \in 0 .. MaxNonce[n] - 1 : IsPending(n, k)}
    ELSE {next[s][n]} \ {Broken, MaxNonce[n]}

Begin(s) ==
    /\ worker[s] = Idle
    /\ \E task \in SendTasks, source \in Networks :
        \E k \in NextNonces(s, SendsTo(task, source)) :
            /\ next' = [next EXCEPT ![s][SendsTo(task, source)] = k + 1]
            /\ worker' = [worker EXCEPT ![s] = Sending(task, source, k)]
    /\ UNCHANGED <<node, faults>>

(* A first count that fails is kept and fails every time, until the count  *)
(* is set.                                                                 *)
BeginBroken(s) ==
    /\ worker[s] = Idle
    /\ \E task \in SendTasks, source \in Networks :
        /\ \/ next[s][SendsTo(task, source)] = Unknown /\ Fault
           \/ next[s][SendsTo(task, source)] = Broken /\ UNCHANGED faults
        /\ next' = [next EXCEPT ![s][SendsTo(task, source)] = Broken]
        /\ worker' = [worker EXCEPT ![s] = Caught(Sending(task, source, 0))]
    /\ UNCHANGED node

(* The fees follow the latest block; the call may fail after the node took *)
(* the transaction.                                                        *)
Submit(s) ==
    /\ worker[s].step = "sending"
    /\ \E base \in BaseFees :
        /\ Accepts(worker[s].net, worker[s].nonce, Bid(base))
        /\ Take(worker[s].net, worker[s].nonce, Bid(base))
    /\ worker' \in {[worker EXCEPT ![s] = Idle], [worker EXCEPT ![s] = Caught(@)]}
    /\ UNCHANGED <<mined, next, faults>>

(* It would revert, its nonce is not free, or the node does not answer.    *)
Refuse(s) ==
    /\ worker[s].step = "sending"
    /\ worker' = [worker EXCEPT ![s] = Caught(@)]
    /\ UNCHANGED <<node, next, faults>>

(* The reset awaits the count and sets it.                                 *)
ReadCount(s) ==
    /\ worker[s].step = "failed"
    /\ worker' = [worker EXCEPT ![s] = Counted(@, mined[worker[s].reset])]
    /\ UNCHANGED <<node, next, faults>>

SetCount(s) ==
    /\ worker[s].step = "counted"
    /\ next' = [next EXCEPT ![s][worker[s].reset] = worker[s].count]
    /\ worker' = [worker EXCEPT ![s] = Idle]
    /\ UNCHANGED <<node, faults>>

ResetFails(s) ==
    /\ Fault
    /\ worker[s].step = "failed"
    /\ worker' = [worker EXCEPT ![s] = Idle]
    /\ UNCHANGED <<node, next>>

Restart(s) ==
    /\ next' = [next EXCEPT ![s] = [n \in Networks |-> Unknown]]
    /\ worker' = [worker EXCEPT ![s] = Idle]
    /\ UNCHANGED <<node, faults>>

Server(s) ==
    \/ Begin(s) \/ BeginBroken(s)
    \/ Submit(s) \/ Refuse(s)
    \/ ReadCount(s) \/ SetCount(s) \/ ResetFails(s)
    \/ Restart(s)

Next ==
    \/ \E s \in Servers : Server(s)
    \/ \E n \in Networks : Mine(n) \/ Drop(n)

Spec == Init /\ [][Next]_vars
(* Blocks take the transactions whose turn it is.                          *)
FairSpec == Spec /\ \A n \in Networks : WF_vars(Mine(n))
=============================================================================
