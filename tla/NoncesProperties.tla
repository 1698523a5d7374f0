-------------------------- MODULE NoncesProperties --------------------------
(***************************************************************************)
(* What the counting of nonces promises.                                   *)
(***************************************************************************)
EXTENDS Nonces

FeesOf == {Bid(base) : base \in BaseFees}
Transaction == [nonce : Nat, fees : FeesOf]
Jobs ==
    {Idle}
    \cup [step : {"sending"}, net : Networks, reset : Networks, nonce : Nat]
    \cup [step : {"failed"}, reset : Networks]
    \cup [step : {"counted"}, reset : Networks, count : Nat]

(* Each variable keeps its type; the node holds no nonce that is used up,  *)
(* and none twice.                                                         *)
TypeOK ==
    /\ mined \in [Networks -> Nat]
    /\ pool \in [Networks -> SUBSET Transaction]
    /\ next \in [Servers -> [Networks -> Nat \cup {Unknown, Broken}]]
    /\ worker \in [Servers -> Jobs]
    /\ faults \in Nat
HeldOnce ==
    \A n \in Networks :
        /\ \A tx \in pool[n] : tx.nonce >= mined[n]
        /\ \A tx1, tx2 \in pool[n] : tx1.nonce = tx2.nonce => tx1 = tx2

(* As long as every reset was answered and no node forgot a transaction,   *)
(* no transaction that a node holds waits for a nonce that nobody has sent *)
(* (resetSourceTransactionCount and resetTargetTransactionCount after each *)
(* failure).                                                               *)
NoGap ==
    faults = 0 =>
        \A n \in Networks : \A tx \in pool[n] : \A k \in mined[n] .. tx.nonce : k \in Held(n)

(* A server skips a nonce only where a reset failed or a node forgot a     *)
(* transaction, and no more nonces than that, however the transactions of  *)
(* two servers, their refusals and their resets meet.                      *)
Skipped(s, n) ==
    {k \in mined[n] .. next[s][n] - 1 :
        /\ k \notin Held(n)
        /\ ~(worker[s].step = "sending" /\ worker[s].net = n /\ worker[s].nonce = k)}
SkippedAreFaults ==
    \A s \in Servers, n \in Networks :
        (/\ next[s][n] \notin {Unknown, Broken}
         /\ ~(worker[s].step \in {"failed", "counted"} /\ worker[s].reset = n))
            => Cardinality(Skipped(s, n)) <= faults

(* Behind it: a nonce that was refused and that a reset is about to give   *)
(* out again is skipped for that long.                                     *)
MustReset(s, n) == worker[s].step = "failed" /\ worker[s].reset = n
IsReset(s, n) == worker[s].step = "counted" /\ worker[s].reset = n
SkippedAreCounted ==
    \A s \in Servers, n \in Networks :
        next[s][n] \notin {Unknown, Broken} /\ ~IsReset(s, n)
            => Cardinality(Skipped(s, n)) <= IF MustReset(s, n) THEN faults + 1 ELSE faults

(* The inductive invariant behind NoGap: what a server gives out next is   *)
(* in line behind what the node holds, but for the one it is sending or    *)
(* must still set back.                                                    *)
SendsWhereItResets ==
    \A s \in Servers :
        worker[s].step = "sending" =>
            /\ worker[s].net = worker[s].reset
            /\ next[s][worker[s].net] = worker[s].nonce + 1
CountsAreMined ==
    \A s \in Servers :
        worker[s].step = "counted" => worker[s].count <= mined[worker[s].reset]
InLine(s, n) ==
    \A k \in mined[n] .. next[s][n] - 1 :
        \/ k \in Held(n)
        \/ worker[s].step = "sending" /\ worker[s].net = n /\ worker[s].nonce = k
ServersInLine ==
    faults = 0 =>
        \A s \in Servers, n \in Networks :
            /\ next[s][n] # Broken
            /\ \/ next[s][n] = Unknown
               \/ worker[s].step \in {"failed", "counted"} /\ worker[s].reset = n
               \/ InLine(s, n)
IInv ==
    /\ TypeOK /\ HeldOnce
    /\ SendsWhereItResets /\ CountsAreMined
    /\ ServersInLine /\ NoGap

(* A transaction that a node has taken is never replaced by another,       *)
(* although a reset counts only what is mined and gives its nonce out      *)
(* again: GasPriceManager bids the same tip every time.                    *)
NothingIsReplaced ==
    [][\A n \in Networks : \A tx \in pool[n] :
            tx \in pool'[n] \/ mined'[n] > tx.nonce \/ faults' > faults]_vars

(* What a node has taken is mined.                                         *)
TakenIsMined ==
    \A n \in Networks : \A k \in 0 .. MaxNonce[n] - 1 :
        k \in Held(n) ~> (mined[n] > k \/ faults > 0)
=============================================================================
