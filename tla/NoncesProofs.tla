---------------------------- MODULE NoncesProofs ----------------------------
(***************************************************************************)
(* The theorems of Nonces, for any servers, tips and base fees.            *)
(***************************************************************************)
EXTENDS NoncesProperties, FiniteSetTheorems, TLAPS

LEMMA OtherNetwork == ASSUME NEW n \in Networks PROVE Other(n) \in Networks
<1>1. PICK m \in Networks : m # n
  BY NonceSetup
<1> QED BY <1>1 DEF Other

LEMMA SameNetwork ==
    ASSUME NEW task \in SendTasks, NEW source \in Networks
    PROVE  SendsTo(task, source) \in Networks /\ Resets(task, source) = SendsTo(task, source)
BY OtherNetwork DEF SendsTo, Resets

(* Equal tips never outbid each other, so a node takes free nonces only.   *)
LEMMA NeverOutbids ==
    ASSUME NEW base \in BaseFees, NEW fees \in FeesOf
    PROVE  ~Outbids(Bid(base), fees)
<1>1. Bid(base).tip = Tip /\ fees.tip = Tip
  BY DEF FeesOf, Bid
<1>2. Tip \in Nat \ {0}
  BY NonceSetup
<1>3. ~(10 * Tip >= 11 * Tip)
  BY <1>2
<1> QED BY <1>1, <1>3 DEF Outbids

LEMMA TakesFreeNonces ==
    ASSUME TypeOK, NEW n \in Networks, NEW k \in Nat, NEW base \in BaseFees,
           Accepts(n, k, Bid(base))
    PROVE  k \notin Held(n) /\ k >= mined[n]
<1>1. \A old \in pool[n] : old.fees \in FeesOf
  BY DEF TypeOK, Transaction
<1> QED BY <1>1, NeverOutbids DEF Accepts, Held

LEMMA JobFields ==
    ASSUME TypeOK, NEW s \in Servers
    PROVE  /\ worker[s].step = "sending" =>
                /\ worker[s].net \in Networks /\ worker[s].reset \in Networks
                /\ worker[s].nonce \in Nat
           /\ worker[s].step = "failed" => worker[s].reset \in Networks
           /\ worker[s].step = "counted" => worker[s].reset \in Networks /\ worker[s].count \in Nat
<1>1. worker[s] \in Jobs
  BY DEF TypeOK
<1> QED BY <1>1 DEF Jobs, Idle

LEMMA CaughtJob ==
    ASSUME TypeOK, NEW s \in Servers, worker[s].step = "sending"
    PROVE  /\ Caught(worker[s]) \in Jobs
           /\ Caught(worker[s]).step = "failed" /\ Caught(worker[s]).reset = worker[s].reset
BY JobFields DEF Caught, Jobs

LEMMA InitIInv == Init => IInv
<1> SUFFICES ASSUME Init PROVE IInv
  OBVIOUS
<1>1. TypeOK
  BY DEF Init, TypeOK, Jobs, Idle
<1>2. HeldOnce /\ NoGap
  BY DEF Init, HeldOnce, NoGap
<1>3. SendsWhereItResets /\ CountsAreMined
  BY DEF Init, SendsWhereItResets, CountsAreMined, Idle
<1>4. ServersInLine
  BY NonceSetup DEF Init, ServersInLine
<1> QED BY <1>1, <1>2, <1>3, <1>4 DEF IInv

(***************************************************************************)
(* The node.                                                               *)
(***************************************************************************)
LEMMA MineStep == ASSUME IInv, NEW n \in Networks, Mine(n) PROVE IInv'
<1> USE DEF IInv
<1>1. PICK tx \in pool[n] : tx.nonce = mined[n] /\ pool' = [pool EXCEPT ![n] = @ \ {tx}]
  BY DEF Mine
<1>2. mined' = [mined EXCEPT ![n] = @ + 1] /\ UNCHANGED <<next, worker, faults>>
  BY DEF Mine
<1>3. TypeOK'
  BY <1>1, <1>2 DEF TypeOK
<1>4. /\ pool'[n] = pool[n] \ {tx} /\ mined'[n] = mined[n] + 1
      /\ \A m \in Networks \ {n} : pool'[m] = pool[m] /\ mined'[m] = mined[m]
      /\ \A m \in Networks : mined[m] \in Nat /\ mined'[m] \in Nat
      /\ \A m \in Networks : \A t \in pool[m] : t.nonce \in Nat
  BY <1>1, <1>2 DEF TypeOK, Transaction
<1>5. HeldOnce'
  <2>1. \A t \in pool'[n] : t \in pool[n] /\ t.nonce >= mined[n] /\ t.nonce # mined[n]
    BY <1>1, <1>4 DEF HeldOnce
  <2>2. \A t \in pool'[n] : t.nonce >= mined'[n]
    BY <2>1, <1>4
  <2> QED BY <2>1, <2>2, <1>4 DEF HeldOnce
<1>6. \A m \in Networks, k \in Nat : k >= mined'[m] /\ k \in Held(m) => k \in Held(m)' /\ k >= mined[m]
  BY <1>1, <1>4 DEF Held
<1>7. \A m \in Networks, k \in Int : k >= mined'[m] => k >= mined[m] /\ k \in Nat
  BY <1>4
<1>8. NoGap'
  <2> SUFFICES ASSUME faults = 0, NEW m \in Networks, NEW t \in pool'[m], NEW k \in mined'[m] .. t.nonce
               PROVE  k \in Held(m)'
    BY <1>2 DEF NoGap
  <2>1. t \in pool[m]
    BY <1>4
  <2>2. k \in mined[m] .. t.nonce /\ k \in Nat /\ k >= mined'[m]
    BY <2>1, <1>4
  <2> QED BY <2>1, <2>2, <1>6 DEF NoGap
<1>9. SendsWhereItResets'
  BY <1>2 DEF SendsWhereItResets
<1>10. CountsAreMined'
  BY <1>2, <1>4, JobFields DEF CountsAreMined
<1>11. ServersInLine'
  <2> SUFFICES ASSUME faults = 0, NEW s \in Servers, NEW m \in Networks,
                      next[s][m] # Unknown, InLine(s, m)
               PROVE  InLine(s, m)'
    BY <1>2 DEF ServersInLine
  <2>1. next[s][m] \in Nat
    BY DEF ServersInLine, TypeOK
  <2> SUFFICES ASSUME NEW k \in mined'[m] .. next[s][m] - 1
               PROVE  \/ k \in Held(m)'
                      \/ worker[s].step = "sending" /\ worker[s].net = m /\ worker[s].nonce = k
    BY <1>2 DEF InLine
  <2>2. k \in mined[m] .. next[s][m] - 1 /\ k \in Nat /\ k >= mined'[m]
    BY <2>1, <1>4
  <2> QED BY <2>2, <1>6 DEF InLine
<1> QED BY <1>3, <1>5, <1>8, <1>9, <1>10, <1>11

LEMMA DropStep == ASSUME IInv, NEW n \in Networks, Drop(n) PROVE IInv'
<1> USE DEF IInv
<1>1. PICK tx \in pool[n] : pool' = [pool EXCEPT ![n] = @ \ {tx}]
  BY DEF Drop
<1>2. faults' = faults + 1 /\ UNCHANGED <<mined, next, worker>>
  BY DEF Drop, Fault
<1>3. faults' # 0 /\ TypeOK'
  BY <1>1, <1>2 DEF TypeOK
<1>4. HeldOnce'
  BY <1>1, <1>2 DEF TypeOK, HeldOnce
<1>5. SendsWhereItResets' /\ CountsAreMined'
  BY <1>2 DEF SendsWhereItResets, CountsAreMined
<1>6. ServersInLine' /\ NoGap'
  BY <1>3 DEF ServersInLine, NoGap
<1> QED BY <1>3, <1>4, <1>5, <1>6

(***************************************************************************)
(* A server.                                                               *)
(***************************************************************************)
LEMMA BeginStep == ASSUME IInv, NEW s \in Servers, Begin(s) PROVE IInv'
<1> USE DEF IInv
<1>0. PICK task \in SendTasks, source \in Networks :
        \E k \in NextNonces(s, SendsTo(task, source)) :
            /\ next' = [next EXCEPT ![s][SendsTo(task, source)] = k + 1]
            /\ worker' = [worker EXCEPT ![s] = Sending(task, source, k)]
  BY DEF Begin
<1>1. PICK k \in NextNonces(s, SendsTo(task, source)) :
        /\ next' = [next EXCEPT ![s][SendsTo(task, source)] = k + 1]
        /\ worker' = [worker EXCEPT ![s] = Sending(task, source, k)]
  BY <1>0
<1>2. worker[s] = Idle /\ UNCHANGED <<mined, pool, faults>>
  BY DEF Begin, node
<1> DEFINE net == SendsTo(task, source)
<1>3. net \in Networks /\ Resets(task, source) = net
  BY SameNetwork
<1>4. k \in Nat
  BY <1>3, NonceSetup DEF NextNonces, TypeOK
<1>5. Sending(task, source, k) = [step |-> "sending", net |-> net, reset |-> net, nonce |-> k]
  BY <1>3 DEF Sending
<1> HIDE DEF net
<1>6. worker' = [worker EXCEPT ![s] = [step |-> "sending", net |-> net, reset |-> net, nonce |-> k]]
  BY <1>1, <1>5
<1>7. next' = [next EXCEPT ![s][net] = k + 1]
  BY <1>1 DEF net
<1>8. TypeOK'
  <2>1. [step |-> "sending", net |-> net, reset |-> net, nonce |-> k] \in Jobs
    BY <1>3, <1>4 DEF Jobs
  <2>2. next' \in [Servers -> [Networks -> Nat \cup {Unknown, Broken}]]
    BY <1>3, <1>4, <1>7 DEF TypeOK
  <2> QED BY <1>2, <1>6, <2>1, <2>2 DEF TypeOK
<1>9. /\ next'[s][net] = k + 1
      /\ \A m \in Networks \ {net} : next'[s][m] = next[s][m]
      /\ \A r \in Servers \ {s} : next'[r] = next[r] /\ worker'[r] = worker[r]
      /\ worker'[s] = [step |-> "sending", net |-> net, reset |-> net, nonce |-> k]
  BY <1>3, <1>6, <1>7 DEF TypeOK
<1>10. HeldOnce' /\ NoGap'
  BY <1>2 DEF HeldOnce, NoGap, Held
<1>11. SendsWhereItResets' /\ CountsAreMined'
  BY <1>2, <1>3, <1>9 DEF SendsWhereItResets, CountsAreMined
<1>12. faults = 0 => \A j \in mined[net] .. k - 1 : j \in Held(net)
  <2> SUFFICES ASSUME faults = 0, NEW j \in mined[net] .. k - 1 PROVE j \in Held(net)
    OBVIOUS
  <2>1. mined[net] \in Nat
    BY <1>3 DEF TypeOK
  <2>2. CASE next[s][net] = Unknown
    <3>1. IsPending(net, k)
      BY <1>1, <2>2 DEF NextNonces, net
    <3> QED BY <3>1, <2>1, <1>4 DEF IsPending
  <2>3. CASE next[s][net] # Unknown
    <3>1. k = next[s][net]
      BY <1>1, <2>3 DEF NextNonces, net
    <3>2. InLine(s, net)
      BY <1>2, <1>3, <2>3 DEF ServersInLine, Idle
    <3> QED BY <1>2, <3>1, <3>2 DEF InLine, Idle
  <2> QED BY <2>2, <2>3
<1>13. ServersInLine'
  <2> SUFFICES ASSUME faults = 0, NEW r \in Servers, NEW m \in Networks
               PROVE  (next[r][m] # Broken)' /\ (next'[r][m] # Unknown =>
                        ((worker[r].step \in {"failed", "counted"} /\ worker[r].reset = m) \/ InLine(r, m))')
    BY <1>2 DEF ServersInLine
  <2>1. CASE r # s
    <3>1. next'[r] = next[r] /\ worker'[r] = worker[r]
      BY <2>1, <1>9
    <3> QED BY <1>2, <3>1 DEF ServersInLine, InLine, Held
  <2>2. CASE r = s /\ m # net
    <3>1. next'[s][m] = next[s][m]
      BY <2>2, <1>9
    <3>2. next[s][m] # Unknown => InLine(s, m)
      BY <1>2 DEF ServersInLine, Idle
    <3>3. next[s][m] # Unknown => \A j \in mined[m] .. next[s][m] - 1 : j \in Held(m)
      BY <1>2, <3>2 DEF InLine, Idle
    <3> QED BY <1>2, <2>2, <3>1, <3>3 DEF ServersInLine, InLine, Held
  <2>3. CASE r = s /\ m = net
    <3>1. InLine(s, net)'
      <4> SUFFICES ASSUME NEW j \in mined[net] .. k
                   PROVE  j \in Held(net) \/ j = k
        BY <1>2, <1>4, <1>9 DEF InLine, Held
      <4>1. mined[net] \in Nat
        BY <1>3 DEF TypeOK
      <4> QED BY <4>1, <1>4, <1>12
    <3>2. next'[s][net] # Broken
      BY <1>4, <1>9, NonceSetup
    <3> QED BY <2>3, <3>1, <3>2
  <2> QED BY <2>1, <2>2, <2>3
<1> QED BY <1>8, <1>10, <1>11, <1>13

LEMMA BeginBrokenStep == ASSUME IInv, NEW s \in Servers, BeginBroken(s) PROVE IInv'
<1> USE DEF IInv
<1>1. PICK task \in SendTasks, source \in Networks :
        /\ \/ next[s][SendsTo(task, source)] = Unknown /\ Fault
           \/ next[s][SendsTo(task, source)] = Broken /\ UNCHANGED faults
        /\ next' = [next EXCEPT ![s][SendsTo(task, source)] = Broken]
        /\ worker' = [worker EXCEPT ![s] = Caught(Sending(task, source, 0))]
  BY DEF BeginBroken
<1>2. UNCHANGED <<mined, pool>>
  BY DEF BeginBroken, node
<1>3. SendsTo(task, source) \in Networks /\ Resets(task, source) = SendsTo(task, source)
  BY SameNetwork
<1>4. faults' # 0 /\ faults' \in Nat
  BY <1>1, <1>3 DEF ServersInLine, Fault, TypeOK
<1>5. Caught(Sending(task, source, 0)) = [step |-> "failed", reset |-> SendsTo(task, source)]
  BY <1>3 DEF Caught, Sending
<1>6. TypeOK'
  <2>1. Caught(Sending(task, source, 0)) \in Jobs
    BY <1>3, <1>5 DEF Jobs
  <2>2. next' \in [Servers -> [Networks -> Nat \cup {Unknown, Broken}]]
    BY <1>1, <1>3 DEF TypeOK
  <2> QED BY <1>1, <1>2, <1>4, <2>1, <2>2 DEF TypeOK
<1>7. HeldOnce'
  BY <1>2 DEF HeldOnce
<1>8. SendsWhereItResets' /\ CountsAreMined'
  BY <1>1, <1>2, <1>5 DEF TypeOK, SendsWhereItResets, CountsAreMined
<1>9. ServersInLine' /\ NoGap'
  BY <1>4 DEF ServersInLine, NoGap
<1> QED BY <1>6, <1>7, <1>8, <1>9

LEMMA SubmitStep == ASSUME IInv, NEW s \in Servers, Submit(s) PROVE IInv'
<1> USE DEF IInv
<1>0. PICK net \in Networks, k \in Nat : net = worker[s].net /\ k = worker[s].nonce
  BY JobFields DEF Submit
<1>1. PICK base \in BaseFees : Accepts(net, k, Bid(base)) /\ Take(net, k, Bid(base))
  BY <1>0 DEF Submit
<1>2. /\ worker[s].step = "sending"
      /\ worker' \in {[worker EXCEPT ![s] = Idle], [worker EXCEPT ![s] = Caught(@)]}
      /\ UNCHANGED <<mined, next, faults>>
  BY DEF Submit
<1>3. net \in Networks /\ k \in Nat /\ worker[s].reset = net /\ next[s][net] = k + 1
  BY <1>0, <1>2, JobFields DEF SendsWhereItResets
<1>4. k \notin Held(net) /\ k >= mined[net]
  BY <1>1, <1>3, TakesFreeNonces
<1> DEFINE tx == [nonce |-> k, fees |-> Bid(base)]
<1>5. pool' = [pool EXCEPT ![net] = {old \in @ : old.nonce # k} \cup {tx}]
  BY <1>1 DEF Take
<1>6. {old \in pool[net] : old.nonce # k} = pool[net]
  BY <1>4 DEF Held
<1>7. pool'[net] = pool[net] \cup {tx} /\ \A m \in Networks \ {net} : pool'[m] = pool[m]
  BY <1>3, <1>5, <1>6 DEF TypeOK
<1>8. tx \in Transaction /\ tx.nonce = k
  BY <1>3 DEF Transaction, FeesOf
<1> HIDE DEF tx
<1>9. /\ worker'[s] = Idle \/ (worker'[s].step = "failed" /\ worker'[s].reset = net)
      /\ worker'[s] \in Jobs
      /\ \A r \in Servers \ {s} : worker'[r] = worker[r]
  BY <1>2, <1>3, CaughtJob DEF TypeOK, Jobs
<1>10. TypeOK'
  <2>1. worker' \in [Servers -> Jobs]
    BY <1>2, CaughtJob DEF TypeOK, Jobs
  <2>2. pool' \in [Networks -> SUBSET Transaction]
    BY <1>3, <1>5, <1>8 DEF TypeOK
  <2> QED BY <1>2, <2>1, <2>2 DEF TypeOK
<1>11. HeldOnce'
  BY <1>2, <1>4, <1>7, <1>8 DEF HeldOnce, Held
<1>12. \A m \in Networks : Held(m) \subseteq Held(m)'
  BY <1>7 DEF Held
<1>13. k \in Held(net)'
  BY <1>7, <1>8 DEF Held
<1>14. SendsWhereItResets' /\ CountsAreMined'
  BY <1>2, <1>9 DEF SendsWhereItResets, CountsAreMined, Idle
<1>15. faults = 0 => InLine(s, net)
  <2>1. next[s][net] # Unknown
    BY <1>3, NonceSetup
  <2> QED BY <1>2, <1>3, <2>1 DEF ServersInLine
<1>16. mined[net] \in Nat
  BY <1>3 DEF TypeOK
<1>17. faults = 0 => \A j \in mined[net] .. k : j \in Held(net)'
  BY <1>0, <1>2, <1>3, <1>12, <1>13, <1>15, <1>16 DEF InLine
<1>18. NoGap'
  <2> SUFFICES ASSUME faults = 0, NEW m \in Networks, NEW t \in pool'[m], NEW j \in mined[m] .. t.nonce
               PROVE  j \in Held(m)'
    BY <1>2 DEF NoGap
  <2>1. CASE t \in pool[m]
    BY <2>1, <1>12 DEF NoGap
  <2>2. CASE t \notin pool[m]
    <3>1. m = net /\ t = tx
      BY <2>2, <1>7
    <3>2. j \in mined[net] .. k
      BY <3>1, <1>8
    <3> QED BY <3>1, <3>2, <1>17
  <2> QED BY <2>1, <2>2
<1>19. ServersInLine'
  <2> SUFFICES ASSUME faults = 0, NEW r \in Servers, NEW m \in Networks, next[r][m] # Unknown
               PROVE  ((worker[r].step \in {"failed", "counted"} /\ worker[r].reset = m) \/ InLine(r, m))'
    BY <1>2 DEF ServersInLine
  <2>1. CASE r # s
    <3>1. worker'[r] = worker[r]
      BY <2>1, <1>9
    <3> QED BY <1>2, <1>12, <3>1 DEF ServersInLine, InLine
  <2>2. CASE r = s /\ m # net
    <3>1. InLine(s, m)
      BY <1>2, <2>2 DEF ServersInLine
    <3>2. \A j \in mined[m] .. next[s][m] - 1 : j \in Held(m)
      BY <1>0, <2>2, <3>1 DEF InLine
    <3> QED BY <1>2, <1>12, <2>2, <3>2 DEF InLine
  <2>3. CASE r = s /\ m = net
    <3>1. \A j \in mined[net] .. next[s][net] - 1 : j \in Held(net)'
      BY <1>3, <1>17
    <3> QED BY <1>2, <2>3, <3>1 DEF InLine
  <2> QED BY <2>1, <2>2, <2>3
<1> QED BY <1>10, <1>11, <1>14, <1>18, <1>19

LEMMA RefuseStep == ASSUME IInv, NEW s \in Servers, Refuse(s) PROVE IInv'
<1> USE DEF IInv
<1> DEFINE net == worker[s].reset
<1>1. /\ worker[s].step = "sending"
      /\ worker' = [worker EXCEPT ![s] = Caught(@)]
      /\ UNCHANGED <<mined, pool, next, faults>>
  BY DEF Refuse, node
<1>2. net \in Networks /\ worker[s].net = net
  BY <1>1, JobFields DEF SendsWhereItResets
<1> HIDE DEF net
<1>3. /\ worker'[s] \in Jobs /\ worker'[s].step = "failed" /\ worker'[s].reset = net
      /\ \A r \in Servers \ {s} : worker'[r] = worker[r]
  BY <1>1, CaughtJob DEF TypeOK, net
<1>4. TypeOK'
  BY <1>1, <1>3 DEF TypeOK
<1>5. HeldOnce' /\ NoGap'
  BY <1>1 DEF HeldOnce, NoGap, Held
<1>6. SendsWhereItResets' /\ CountsAreMined'
  BY <1>1, <1>3 DEF SendsWhereItResets, CountsAreMined
<1>7. ServersInLine'
  <2> SUFFICES ASSUME faults = 0, NEW r \in Servers, NEW m \in Networks, next[r][m] # Unknown
               PROVE  ((worker[r].step \in {"failed", "counted"} /\ worker[r].reset = m) \/ InLine(r, m))'
    BY <1>1 DEF ServersInLine
  <2>1. CASE r # s
    <3>1. worker'[r] = worker[r]
      BY <2>1, <1>3
    <3> QED BY <1>1, <3>1 DEF ServersInLine, InLine, Held
  <2>2. CASE r = s /\ m # net
    <3>1. InLine(s, m)
      BY <1>1, <2>2 DEF ServersInLine
    <3>2. \A j \in mined[m] .. next[s][m] - 1 : j \in Held(m)
      BY <1>2, <2>2, <3>1 DEF InLine
    <3> QED BY <1>1, <2>2, <3>2 DEF InLine, Held
  <2>3. CASE r = s /\ m = net
    BY <2>3, <1>3
  <2> QED BY <2>1, <2>2, <2>3
<1> QED BY <1>4, <1>5, <1>6, <1>7

LEMMA ReadCountStep == ASSUME IInv, NEW s \in Servers, ReadCount(s) PROVE IInv'
<1> USE DEF IInv
<1> DEFINE net == worker[s].reset
<1>1. /\ worker[s].step = "failed"
      /\ worker' = [worker EXCEPT ![s] = [step |-> "counted", reset |-> net, count |-> mined[net]]]
      /\ UNCHANGED <<mined, pool, next, faults>>
  BY DEF ReadCount, Counted, node
<1>2. net \in Networks /\ mined[net] \in Nat
  BY <1>1, JobFields DEF TypeOK
<1> HIDE DEF net
<1>3. /\ worker'[s] = [step |-> "counted", reset |-> net, count |-> mined[net]]
      /\ \A r \in Servers \ {s} : worker'[r] = worker[r]
  BY <1>1 DEF TypeOK
<1>4. TypeOK'
  <2>1. [step |-> "counted", reset |-> net, count |-> mined[net]] \in Jobs
    BY <1>2 DEF Jobs
  <2> QED BY <1>1, <2>1 DEF TypeOK
<1>5. HeldOnce' /\ NoGap'
  BY <1>1 DEF HeldOnce, NoGap, Held
<1>6. SendsWhereItResets' /\ CountsAreMined'
  BY <1>1, <1>2, <1>3 DEF SendsWhereItResets, CountsAreMined
<1>7. ServersInLine'
  <2> SUFFICES ASSUME faults = 0, NEW r \in Servers, NEW m \in Networks, next[r][m] # Unknown
               PROVE  ((worker[r].step \in {"failed", "counted"} /\ worker[r].reset = m) \/ InLine(r, m))'
    BY <1>1 DEF ServersInLine
  <2>1. CASE r # s
    <3>1. worker'[r] = worker[r]
      BY <2>1, <1>3
    <3> QED BY <1>1, <3>1 DEF ServersInLine, InLine, Held
  <2>2. CASE r = s /\ m # net
    <3>1. \A j \in mined[m] .. next[s][m] - 1 : j \in Held(m)
      BY <1>1, <2>2 DEF ServersInLine, InLine, net
    <3> QED BY <1>1, <2>2, <3>1 DEF InLine, Held
  <2>3. CASE r = s /\ m = net
    BY <2>3, <1>3
  <2> QED BY <2>1, <2>2, <2>3
<1> QED BY <1>4, <1>5, <1>6, <1>7

(* What is set is not beyond what is mined, so nothing is skipped.         *)
LEMMA SetCountStep == ASSUME IInv, NEW s \in Servers, SetCount(s) PROVE IInv'
<1> USE DEF IInv
<1>0. PICK net \in Networks, count \in Nat : net = worker[s].reset /\ count = worker[s].count
  BY JobFields DEF SetCount
<1>1. /\ worker[s].step = "counted"
      /\ next' = [next EXCEPT ![s][net] = count]
      /\ worker' = [worker EXCEPT ![s] = Idle]
      /\ UNCHANGED <<mined, pool, faults>>
  BY <1>0 DEF SetCount, node
<1>2. count <= mined[net] /\ mined[net] \in Nat
  BY <1>0, <1>1 DEF CountsAreMined, TypeOK
<1>3. /\ worker'[s] = Idle /\ next'[s][net] = count
      /\ \A m \in Networks \ {net} : next'[s][m] = next[s][m]
      /\ \A r \in Servers \ {s} : worker'[r] = worker[r] /\ next'[r] = next[r]
  BY <1>1, <1>2 DEF TypeOK
<1>4. TypeOK'
  <2>1. worker' \in [Servers -> Jobs]
    BY <1>1 DEF TypeOK, Jobs
  <2>2. next' \in [Servers -> [Networks -> Nat \cup {Unknown, Broken}]]
    BY <1>1, <1>2 DEF TypeOK
  <2> QED BY <1>1, <2>1, <2>2 DEF TypeOK
<1>5. HeldOnce' /\ NoGap'
  BY <1>1 DEF HeldOnce, NoGap, Held
<1>6. SendsWhereItResets' /\ CountsAreMined'
  BY <1>1, <1>3 DEF SendsWhereItResets, CountsAreMined, Idle
<1>7. ServersInLine'
  <2> SUFFICES ASSUME faults = 0, NEW r \in Servers, NEW m \in Networks
               PROVE  (next[r][m] # Broken)' /\ (next'[r][m] # Unknown =>
                        ((worker[r].step \in {"failed", "counted"} /\ worker[r].reset = m) \/ InLine(r, m))')
    BY <1>1 DEF ServersInLine
  <2>1. CASE r # s
    <3>1. worker'[r] = worker[r] /\ next'[r] = next[r]
      BY <2>1, <1>3
    <3> QED BY <1>1, <3>1 DEF ServersInLine, InLine, Held
  <2>2. CASE r = s /\ m # net
    <3>1. next'[s][m] = next[s][m] /\ next[s][m] # Broken
      BY <1>3, <2>2 DEF ServersInLine
    <3>2. next[s][m] # Unknown => \A j \in mined[m] .. next[s][m] - 1 : j \in Held(m)
      BY <1>0, <1>1, <2>2 DEF ServersInLine, InLine
    <3> QED BY <1>1, <2>2, <3>1, <3>2 DEF InLine, Held
  <2>3. CASE r = s /\ m = net
    <3>1. mined'[net] .. next'[s][net] - 1 = {}
      BY <1>1, <1>2, <1>3
    <3>2. InLine(s, net)'
      BY <3>1 DEF InLine
    <3>3. next'[s][net] # Broken
      BY <1>2, <1>3, NonceSetup
    <3> QED BY <2>3, <3>2, <3>3
  <2> QED BY <2>1, <2>2, <2>3
<1> QED BY <1>4, <1>5, <1>6, <1>7

LEMMA ResetFailsStep == ASSUME IInv, NEW s \in Servers, ResetFails(s) PROVE IInv'
<1> USE DEF IInv
<1>1. /\ faults' = faults + 1
      /\ worker' = [worker EXCEPT ![s] = Idle]
      /\ UNCHANGED <<mined, pool, next>>
  BY DEF ResetFails, Fault, node
<1>2. faults' # 0 /\ faults' \in Nat /\ worker' \in [Servers -> Jobs]
  BY <1>1 DEF TypeOK, Jobs
<1>3. TypeOK'
  BY <1>1, <1>2 DEF TypeOK
<1>4. HeldOnce'
  BY <1>1 DEF HeldOnce
<1>5. SendsWhereItResets' /\ CountsAreMined'
  BY <1>1 DEF TypeOK, SendsWhereItResets, CountsAreMined, Idle
<1>6. ServersInLine' /\ NoGap'
  BY <1>2 DEF ServersInLine, NoGap
<1> QED BY <1>3, <1>4, <1>5, <1>6

LEMMA RestartStep == ASSUME IInv, NEW s \in Servers, Restart(s) PROVE IInv'
<1> USE DEF IInv
<1>1. /\ next' = [next EXCEPT ![s] = [n \in Networks |-> Unknown]]
      /\ worker' = [worker EXCEPT ![s] = Idle]
      /\ UNCHANGED <<mined, pool, faults>>
  BY DEF Restart, node
<1>2. /\ worker'[s] = Idle /\ \A n \in Networks : next'[s][n] = Unknown
      /\ \A r \in Servers \ {s} : worker'[r] = worker[r] /\ next'[r] = next[r]
  BY <1>1 DEF TypeOK
<1>3. TypeOK'
  <2>1. worker' \in [Servers -> Jobs]
    BY <1>1 DEF TypeOK, Jobs
  <2>2. next' \in [Servers -> [Networks -> Nat \cup {Unknown, Broken}]]
    BY <1>1 DEF TypeOK
  <2> QED BY <1>1, <2>1, <2>2 DEF TypeOK
<1>4. HeldOnce' /\ NoGap'
  BY <1>1 DEF HeldOnce, NoGap, Held
<1>5. SendsWhereItResets' /\ CountsAreMined'
  BY <1>1, <1>2 DEF SendsWhereItResets, CountsAreMined, Idle
<1>6. ServersInLine'
  <2> SUFFICES ASSUME faults = 0, NEW r \in Servers, NEW m \in Networks
               PROVE  (next[r][m] # Broken)' /\ (next'[r][m] # Unknown =>
                        ((worker[r].step \in {"failed", "counted"} /\ worker[r].reset = m) \/ InLine(r, m))')
    BY <1>1 DEF ServersInLine
  <2>1. CASE r # s
    <3>1. worker'[r] = worker[r] /\ next'[r] = next[r]
      BY <2>1, <1>2
    <3> QED BY <1>1, <3>1 DEF ServersInLine, InLine, Held
  <2>2. CASE r = s
    BY <2>2, <1>2, NonceSetup
  <2> QED BY <2>1, <2>2
<1> QED BY <1>3, <1>4, <1>5, <1>6

LEMMA StutterStep == ASSUME IInv, UNCHANGED vars PROVE IInv'
BY DEF vars, node, IInv, TypeOK, HeldOnce, SendsWhereItResets, CountsAreMined,
    ServersInLine, NoGap, InLine, Held

LEMMA NextStep == ASSUME IInv, [Next]_vars PROVE IInv'
<1>1. ASSUME NEW s \in Servers, Server(s) PROVE IInv'
  BY <1>1, BeginStep, BeginBrokenStep, SubmitStep, RefuseStep, ReadCountStep, SetCountStep,
     ResetFailsStep, RestartStep DEF Server
<1>2. ASSUME NEW n \in Networks, Mine(n) \/ Drop(n) PROVE IInv'
  BY <1>2, MineStep, DropStep
<1> QED BY <1>1, <1>2, StutterStep DEF Next

(* What a server gives out next stays in line with the node (the counting  *)
(* of NonceManager and the resets of BridgeContractManager).               *)
THEOREM Inductive == Spec => []IInv
BY InitIInv, NextStep, PTL DEF Spec

(* No held transaction waits for a nonce that nobody has sent, as long as  *)
(* every reset was answered and nothing was forgotten.                     *)
THEOREM GapFree == Spec => []NoGap
<1>1. IInv => NoGap
  BY DEF IInv
<1> QED BY <1>1, Inductive, PTL

(***************************************************************************)
(* Replacement.                                                            *)
(***************************************************************************)
LEMMA KeepsTransactions ==
    ASSUME IInv, [Next]_vars, NEW n \in Networks, NEW tx \in pool[n]
    PROVE  tx \in pool'[n] \/ mined'[n] > tx.nonce \/ faults' > faults
<1>1. TypeOK
  BY DEF IInv
<1>2. ASSUME NEW s \in Servers, Submit(s) PROVE tx \in pool'[n]
  <2>1. PICK base \in BaseFees :
            /\ Accepts(worker[s].net, worker[s].nonce, Bid(base))
            /\ Take(worker[s].net, worker[s].nonce, Bid(base))
    BY <1>2 DEF Submit
  <2>2. worker[s].net \in Networks /\ worker[s].nonce \in Nat
    BY <1>1, <1>2, JobFields DEF Submit
  <2>3. worker[s].nonce \notin Held(worker[s].net)
    BY <1>1, <2>1, <2>2, TakesFreeNonces
  <2>4. {old \in pool[worker[s].net] : old.nonce # worker[s].nonce} = pool[worker[s].net]
    BY <2>3 DEF Held
  <2> QED BY <1>1, <2>1, <2>2, <2>4 DEF Take, TypeOK
<1>3. ASSUME NEW s \in Servers, Server(s), ~Submit(s) PROVE pool' = pool
  BY <1>3 DEF Server, Begin, BeginBroken, Refuse, ReadCount, SetCount, ResetFails, Restart, node
<1>4. ASSUME NEW m \in Networks, Mine(m) PROVE tx \in pool'[n] \/ mined'[n] > tx.nonce
  <2>1. PICK t \in pool[m] : t.nonce = mined[m] /\ pool' = [pool EXCEPT ![m] = @ \ {t}]
    BY <1>4 DEF Mine
  <2>2. mined' = [mined EXCEPT ![m] = @ + 1]
    BY <1>4 DEF Mine
  <2>3. CASE m = n /\ t = tx
    <3>1. mined'[n] = mined[n] + 1 /\ mined[n] \in Nat /\ tx.nonce = mined[n]
      BY <1>1, <2>1, <2>2, <2>3 DEF TypeOK
    <3> QED BY <3>1
  <2>4. CASE m # n \/ t # tx
    BY <1>1, <2>1, <2>4 DEF TypeOK
  <2> QED BY <2>3, <2>4
<1>5. ASSUME NEW m \in Networks, Drop(m) PROVE faults' > faults
  <2>1. faults' = faults + 1 /\ faults \in Nat
    BY <1>1, <1>5 DEF Drop, Fault, TypeOK
  <2> QED BY <2>1
<1>6. CASE UNCHANGED vars
  BY <1>6 DEF vars, node
<1> QED BY <1>2, <1>3, <1>4, <1>5, <1>6 DEF Next

(* Equal tips: a transaction a node has taken is replaced by no other      *)
(* (GasPriceManager's constant maxPriorityFeePerGas).                      *)
THEOREM NoReplacement == Spec => NothingIsReplaced
<1>1. IInv /\ [Next]_vars =>
        [\A n \in Networks : \A tx \in pool[n] :
            tx \in pool'[n] \/ mined'[n] > tx.nonce \/ faults' > faults]_vars
  BY KeepsTransactions
<1> QED BY <1>1, Inductive, PTL DEF Spec, NothingIsReplaced
(***************************************************************************)
(* Skipped nonces.  Each step leaves those of a server as they are, or     *)
(* fewer; a refusal adds the refused nonce until its reset, and a fault    *)
(* adds one.                                                               *)
(***************************************************************************)
LEMMA FewNumbers ==
    ASSUME NEW a \in Int, NEW b \in Int, NEW S, S \subseteq a .. b
    PROVE  IsFiniteSet(S) /\ Cardinality(S) \in Nat
<1>1. IsFiniteSet(a .. b)
  BY FS_Interval
<1>2. IsFiniteSet(S)
  BY <1>1, FS_Subset
<1> QED BY <1>2, FS_CardinalityType

LEMMA SkippedFinite ==
    ASSUME NEW s \in Servers, NEW n \in Networks, TypeOK, next[s][n] \notin {Unknown, Broken}
    PROVE  IsFiniteSet(Skipped(s, n)) /\ Cardinality(Skipped(s, n)) \in Nat
<1>1. mined[n] \in Int /\ next[s][n] - 1 \in Int
  BY DEF TypeOK
<1>2. Skipped(s, n) \subseteq mined[n] .. next[s][n] - 1
  BY DEF Skipped
<1> QED BY <1>1, <1>2, FewNumbers

LEMMA FewerSkipped ==
    ASSUME NEW s \in Servers, NEW n \in Networks, TypeOK, next[s][n] \notin {Unknown, Broken},
           Skipped(s, n)' \subseteq Skipped(s, n)
    PROVE  /\ Cardinality(Skipped(s, n)) \in Nat /\ Cardinality(Skipped(s, n))' \in Nat
           /\ Cardinality(Skipped(s, n))' <= Cardinality(Skipped(s, n))
BY SkippedFinite, FS_Subset, FS_CardinalityType

LEMMA OneMoreSkipped ==
    ASSUME NEW s \in Servers, NEW n \in Networks, TypeOK, next[s][n] \notin {Unknown, Broken},
           NEW x, Skipped(s, n)' \subseteq Skipped(s, n) \cup {x}
    PROVE  /\ Cardinality(Skipped(s, n)) \in Nat /\ Cardinality(Skipped(s, n))' \in Nat
           /\ Cardinality(Skipped(s, n))' <= Cardinality(Skipped(s, n)) + 1
<1>1. IsFiniteSet(Skipped(s, n)) /\ Cardinality(Skipped(s, n)) \in Nat
  BY SkippedFinite
<1> DEFINE more == Skipped(s, n) \cup {x}
<1>2. IsFiniteSet(more) /\ Cardinality(more) <= Cardinality(Skipped(s, n)) + 1
  <2>1. /\ IsFiniteSet(more)
        /\ \/ Cardinality(more) = Cardinality(Skipped(s, n))
           \/ Cardinality(more) = Cardinality(Skipped(s, n)) + 1
    BY <1>1, FS_AddElement
  <2> HIDE DEF more
  <2> QED BY <1>1, <2>1
<1>3. Cardinality(more) \in Nat
  BY <1>2, FS_CardinalityType
<1>4. IsFiniteSet(Skipped(s, n)') /\ Cardinality(Skipped(s, n)') <= Cardinality(more)
  <2> HIDE DEF more
  <2>1. Skipped(s, n)' \in SUBSET more
    BY DEF more
  <2> QED BY <1>2, <2>1, FS_Subset
<1>5. Cardinality(Skipped(s, n)') \in Nat
  BY <1>4, FS_CardinalityType
<1> HIDE DEF more
<1> QED BY <1>1, <1>2, <1>3, <1>4, <1>5

Bound(s, n) == IF MustReset(s, n) THEN faults + 1 ELSE faults
Counted1(s, n) ==
    next[s][n] \notin {Unknown, Broken} /\ ~IsReset(s, n) => Cardinality(Skipped(s, n)) <= Bound(s, n)

LEMMA BoundType == TypeOK => faults \in Nat /\ \A s, n : Bound(s, n) \in Nat
  BY DEF TypeOK, Bound

LEMMA BoundGrows ==
    ASSUME NEW s \in Servers, NEW n \in Networks, TypeOK, TypeOK', faults <= faults',
           MustReset(s, n) => MustReset(s, n)' \/ faults < faults'
    PROVE  Bound(s, n) <= Bound(s, n)'
<1>1. faults \in Nat /\ faults' \in Nat
  BY DEF TypeOK
<1>2. CASE MustReset(s, n)
  <2>1. Bound(s, n) = faults + 1 /\ (Bound(s, n)' = faults' + 1 \/ (Bound(s, n)' = faults' /\ faults < faults'))
    BY <1>2 DEF Bound
  <2> QED BY <1>1, <2>1
<1>3. CASE ~MustReset(s, n)
  <2>1. Bound(s, n) = faults /\ (Bound(s, n)' = faults' + 1 \/ Bound(s, n)' = faults')
    BY <1>3 DEF Bound
  <2> QED BY <1>1, <2>1
<1> QED BY <1>2, <1>3

(* The ways a step may go for one server and one network. *)
LEMMA StaysCounted ==
    ASSUME NEW s \in Servers, NEW n \in Networks, TypeOK, TypeOK', Counted1(s, n),
           \/ next'[s][n] \in {Unknown, Broken}
           \/ IsReset(s, n)'
           \/ Skipped(s, n)' = {}
           \/ /\ next[s][n] \notin {Unknown, Broken} /\ ~IsReset(s, n)
              /\ \/ Skipped(s, n)' \subseteq Skipped(s, n) /\ Bound(s, n) <= Bound(s, n)'
                 \/ \E x : Skipped(s, n)' \subseteq Skipped(s, n) \cup {x} /\ Bound(s, n) + 1 <= Bound(s, n)'
    PROVE  Counted1(s, n)'
<1>1. Bound(s, n) \in Nat /\ Bound(s, n)' \in Nat
  <2>1. faults \in Nat /\ faults' \in Nat
    BY DEF TypeOK
  <2>2. Bound(s, n) \in {faults, faults + 1} /\ Bound(s, n)' \in {faults', faults' + 1}
    BY <2>1 DEF Bound, MustReset
  <2> QED BY <2>1, <2>2
<1>2. CASE next'[s][n] \in {Unknown, Broken} \/ IsReset(s, n)'
  BY <1>2 DEF Counted1
<1>3. CASE Skipped(s, n)' = {}
  <2>1. Cardinality(Skipped(s, n))' = 0
    BY <1>3, FS_EmptySet
  <2> QED BY <1>1, <2>1 DEF Counted1
<1>4. CASE /\ next[s][n] \notin {Unknown, Broken} /\ ~IsReset(s, n)
           /\ Skipped(s, n)' \subseteq Skipped(s, n) /\ Bound(s, n) <= Bound(s, n)'
  <2>1. Cardinality(Skipped(s, n)) <= Bound(s, n)
    BY <1>4 DEF Counted1
  <2>2. /\ Cardinality(Skipped(s, n)) \in Nat /\ Cardinality(Skipped(s, n))' \in Nat
        /\ Cardinality(Skipped(s, n))' <= Cardinality(Skipped(s, n))
    BY <1>4, FewerSkipped
  <2> QED BY <1>1, <1>4, <2>1, <2>2 DEF Counted1
<1>5. CASE /\ next[s][n] \notin {Unknown, Broken} /\ ~IsReset(s, n)
           /\ \E x : Skipped(s, n)' \subseteq Skipped(s, n) \cup {x} /\ Bound(s, n) + 1 <= Bound(s, n)'
  <2>1. Cardinality(Skipped(s, n)) <= Bound(s, n) /\ Bound(s, n) + 1 <= Bound(s, n)'
    BY <1>5 DEF Counted1
  <2>2. /\ Cardinality(Skipped(s, n)) \in Nat /\ Cardinality(Skipped(s, n))' \in Nat
        /\ Cardinality(Skipped(s, n))' <= Cardinality(Skipped(s, n)) + 1
    BY <1>5, OneMoreSkipped
  <2> QED BY <1>1, <2>1, <2>2 DEF Counted1
<1> QED BY <1>2, <1>3, <1>4, <1>5

AllCounted == \A s \in Servers, n \in Networks : Counted1(s, n)

LEMMA CountedIsAll == SkippedAreCounted <=> AllCounted
BY DEF SkippedAreCounted, AllCounted, Counted1, Bound

Elsewhere(job, n) ==
    \/ job.step = "idle"
    \/ job.step = "sending" /\ job.net # n
    \/ job.step \in {"failed", "counted"} /\ job.reset # n

(* Nothing that counts for a server and a network has changed. *)
LEMMA SameCounted ==
    ASSUME NEW s \in Servers, NEW n \in Networks, Counted1(s, n), faults' = faults,
           mined'[n] = mined[n], pool'[n] = pool[n], next'[s][n] = next[s][n],
           worker'[s] = worker[s] \/ (Elsewhere(worker[s], n) /\ Elsewhere(worker'[s], n))
    PROVE  Counted1(s, n)'
<1>1. Skipped(s, n)' = Skipped(s, n)
  BY DEF Skipped, Held, Elsewhere
<1>2. IsReset(s, n)' = IsReset(s, n) /\ MustReset(s, n)' = MustReset(s, n)
  BY DEF IsReset, MustReset, Elsewhere
<1> QED BY <1>1, <1>2 DEF Counted1, Bound

LEMMA MineCounts ==
    ASSUME IInv, IInv', AllCounted, NEW m \in Networks, Mine(m), NEW s \in Servers, NEW n \in Networks
    PROVE  Counted1(s, n)'
<1>1. TypeOK /\ TypeOK' /\ Counted1(s, n) /\ UNCHANGED <<next, worker, faults>>
  BY DEF IInv, AllCounted, Mine
<1>2. PICK tx \in pool[m] : tx.nonce = mined[m] /\ pool' = [pool EXCEPT ![m] = @ \ {tx}]
  BY DEF Mine
<1>3. mined' = [mined EXCEPT ![m] = @ + 1]
  BY DEF Mine
<1>4. CASE n # m
  BY <1>1, <1>2, <1>3, <1>4, SameCounted DEF TypeOK, Elsewhere
<1>5. CASE n = m
  <2>1. mined[n] \in Nat /\ mined'[n] = mined[n] + 1 /\ pool'[n] = pool[n] \ {tx}
    BY <1>1, <1>2, <1>3, <1>5 DEF TypeOK
  <2>2. next'[s][n] \in {Unknown, Broken} \/ Skipped(s, n)' \subseteq Skipped(s, n)
    <3> SUFFICES ASSUME next'[s][n] \notin {Unknown, Broken}, NEW k \in Skipped(s, n)'
                 PROVE  k \in Skipped(s, n)
      OBVIOUS
    <3>1. k \in mined'[n] .. next[s][n] - 1 /\ next[s][n] \in Int
      BY <1>1 DEF Skipped, TypeOK
    <3>2. k \in mined[n] .. next[s][n] - 1 /\ k # mined[n]
      BY <2>1, <3>1
    <3>3. k \notin Held(n)
      BY <1>2, <1>5, <2>1, <3>2 DEF Skipped, Held
    <3> QED BY <1>1, <3>2, <3>3 DEF Skipped
  <2>3. /\ next'[s][n] = next[s][n] /\ IsReset(s, n)' = IsReset(s, n)
        /\ Bound(s, n)' = Bound(s, n) /\ Bound(s, n) \in Nat
    BY <1>1, BoundType DEF IsReset, MustReset, Bound
  <2>4. Bound(s, n) <= Bound(s, n)'
    BY <2>3
  <2> QED BY <1>1, <2>2, <2>3, <2>4, StaysCounted
<1> QED BY <1>4, <1>5

LEMMA DropCounts ==
    ASSUME IInv, IInv', AllCounted, NEW m \in Networks, Drop(m), NEW s \in Servers, NEW n \in Networks
    PROVE  Counted1(s, n)'
<1>1. /\ TypeOK /\ TypeOK' /\ Counted1(s, n) /\ UNCHANGED <<mined, next, worker>> /\ faults' = faults + 1
      /\ HeldOnce
  BY DEF IInv, AllCounted, Drop, Fault
<1>2. PICK tx \in pool[m] : pool' = [pool EXCEPT ![m] = @ \ {tx}]
  BY DEF Drop
<1>3. Skipped(s, n)' \subseteq Skipped(s, n) \cup {tx.nonce}
  <2> SUFFICES ASSUME NEW k \in Skipped(s, n)', k # tx.nonce
               PROVE  k \in Skipped(s, n)
    OBVIOUS
  <2>1. k \notin Held(n)
    <3>1. \A t \in pool[n] : t \in pool'[n] \/ t = tx
      BY <1>1, <1>2 DEF TypeOK
    <3> QED BY <3>1 DEF Skipped, Held
  <2> QED BY <1>1, <2>1 DEF Skipped
<1>4. /\ next'[s][n] = next[s][n] /\ IsReset(s, n)' = IsReset(s, n)
      /\ Bound(s, n) + 1 <= Bound(s, n)'
  <2>1. faults \in Nat /\ MustReset(s, n)' = MustReset(s, n)
    BY <1>1 DEF TypeOK, MustReset
  <2> QED BY <1>1, <2>1 DEF IsReset, Bound
<1> QED BY <1>1, <1>3, <1>4, StaysCounted

LEMMA BeginCounts ==
    ASSUME IInv, IInv', AllCounted, NEW t \in Servers, Begin(t), NEW s \in Servers, NEW n \in Networks
    PROVE  Counted1(s, n)'
<1>1. TypeOK /\ TypeOK' /\ Counted1(s, n) /\ UNCHANGED <<mined, pool, faults>> /\ worker[t] = Idle
  BY DEF IInv, AllCounted, Begin, node
<1>2. PICK task \in SendTasks, source \in Networks :
        \E k \in NextNonces(t, SendsTo(task, source)) :
            /\ next' = [next EXCEPT ![t][SendsTo(task, source)] = k + 1]
            /\ worker' = [worker EXCEPT ![t] = Sending(task, source, k)]
  BY DEF Begin
<1>3. PICK net \in Networks : net = SendsTo(task, source)
  BY SameNetwork
<1>4. PICK k \in NextNonces(t, net) :
        /\ next' = [next EXCEPT ![t][net] = k + 1]
        /\ worker' = [worker EXCEPT ![t] = Sending(task, source, k)]
  BY <1>2, <1>3
<1>5. /\ Sending(task, source, k).step = "sending" /\ Sending(task, source, k).net = net
      /\ Sending(task, source, k).nonce = k
  BY <1>3 DEF Sending
<1>6. CASE s # t
  <2>1. next'[s][n] = next[s][n] /\ worker'[s] = worker[s]
    BY <1>1, <1>4, <1>6 DEF TypeOK
  <2> QED BY <1>1, <2>1, SameCounted DEF Elsewhere
<1>7. CASE s = t /\ n # net
  <2>1. next'[s][n] = next[s][n] /\ worker[s].step = "idle" /\ worker'[s].step = "sending" /\ worker'[s].net # n
    BY <1>1, <1>4, <1>5, <1>7 DEF TypeOK, Idle
  <2> QED BY <1>1, <2>1, SameCounted DEF Elsewhere
<1>8. CASE s = t /\ n = net
  <2>1. /\ next'[s][n] = k + 1 /\ k \in Nat
        /\ worker'[s].step = "sending" /\ worker'[s].net = n /\ worker'[s].nonce = k
    BY <1>1, <1>4, <1>5, <1>8, NonceSetup DEF TypeOK, NextNonces
  <2>2. worker[s].step = "idle"
    BY <1>1, <1>8 DEF Idle
  <2>3. CASE next[s][n] = Unknown
    <3>1. IsPending(n, k)
      BY <1>4, <1>8, <2>3 DEF NextNonces
    <3>2. Skipped(s, n)' = {}
      <4> SUFFICES ASSUME NEW j \in Skipped(s, n)'
                   PROVE  FALSE
        OBVIOUS
      <4>1. j \in mined[n] .. k /\ j \notin Held(n) /\ j # k /\ mined[n] \in Nat
        BY <1>1, <2>1 DEF Skipped, Held, TypeOK
      <4>2. j \in 0 .. k - 1 /\ j >= mined[n]
        BY <2>1, <4>1
      <4> QED BY <3>1, <4>1, <4>2 DEF IsPending
    <3> QED BY <1>1, <3>2, StaysCounted
  <2>4. CASE next[s][n] # Unknown
    <3>1. next[s][n] = k /\ next[s][n] \notin {Unknown, Broken}
      BY <1>4, <1>8, <2>4 DEF NextNonces
    <3>2. Skipped(s, n)' \subseteq Skipped(s, n)
      <4> SUFFICES ASSUME NEW j \in Skipped(s, n)'
                   PROVE  j \in Skipped(s, n)
        OBVIOUS
      <4>1. j \in mined[n] .. k /\ j \notin Held(n) /\ j # k /\ mined[n] \in Nat
        BY <1>1, <2>1 DEF Skipped, Held, TypeOK
      <4>2. j \in mined[n] .. next[s][n] - 1
        BY <2>1, <3>1, <4>1
      <4> QED BY <2>2, <4>1, <4>2 DEF Skipped
    <3>3. ~IsReset(s, n) /\ Bound(s, n)' = Bound(s, n) /\ Bound(s, n) \in Nat
      BY <1>1, <2>1, <2>2, BoundType DEF IsReset, MustReset, Bound
    <3>4. Bound(s, n) <= Bound(s, n)'
      BY <3>3
    <3> QED BY <1>1, <3>1, <3>2, <3>3, <3>4, StaysCounted
  <2> QED BY <2>3, <2>4
<1> QED BY <1>6, <1>7, <1>8

LEMMA BeginBrokenCounts ==
    ASSUME IInv, IInv', AllCounted, NEW t \in Servers, BeginBroken(t), NEW s \in Servers, NEW n \in Networks
    PROVE  Counted1(s, n)'
<1>1. TypeOK /\ TypeOK' /\ Counted1(s, n) /\ UNCHANGED <<mined, pool>> /\ worker[t] = Idle
  BY DEF IInv, AllCounted, BeginBroken, node
<1>2. PICK task \in SendTasks, source \in Networks :
        /\ next' = [next EXCEPT ![t][SendsTo(task, source)] = Broken]
        /\ worker' = [worker EXCEPT ![t] = Caught(Sending(task, source, 0))]
        /\ faults' = faults \/ faults' = faults + 1
  BY DEF BeginBroken, Fault
<1>3. PICK net \in Networks : net = SendsTo(task, source) /\ net = Resets(task, source)
  BY SameNetwork
<1>4. /\ Caught(Sending(task, source, 0)).step = "failed"
      /\ Caught(Sending(task, source, 0)).reset = net
  BY <1>3 DEF Caught, Sending
<1>5. faults \in Nat /\ faults <= faults'
  BY <1>1, <1>2 DEF TypeOK
<1>6. CASE s = t /\ n = net
  <2>1. next'[s][n] = Broken
    BY <1>1, <1>2, <1>3, <1>6 DEF TypeOK
  <2> QED BY <1>1, <2>1, StaysCounted
<1>7. CASE ~(s = t /\ n = net)
  <2>1. next'[s][n] = next[s][n]
    BY <1>1, <1>2, <1>3, <1>7 DEF TypeOK
  <2>2. CASE s # t
    <3>1. worker'[s] = worker[s]
      BY <1>1, <1>2, <2>2 DEF TypeOK
    <3>2. Skipped(s, n)' = Skipped(s, n) /\ IsReset(s, n)' = IsReset(s, n) /\ MustReset(s, n)' = MustReset(s, n)
      BY <1>1, <2>1, <3>1 DEF Skipped, Held, IsReset, MustReset
    <3>3. Bound(s, n) <= Bound(s, n)'
      BY <1>1, <1>5, <3>2, BoundGrows
    <3> QED BY <1>1, <2>1, <3>2, <3>3, StaysCounted DEF Counted1
  <2>3. CASE s = t /\ n # net
    <3>1. worker[s].step = "idle" /\ worker'[s].step = "failed" /\ worker'[s].reset # n
      BY <1>1, <1>2, <1>4, <2>3 DEF TypeOK, Idle
    <3>2. Skipped(s, n)' = Skipped(s, n)
      BY <1>1, <2>1, <3>1 DEF Skipped, Held
    <3>3. ~IsReset(s, n) /\ ~IsReset(s, n)' /\ ~MustReset(s, n) /\ ~MustReset(s, n)'
      BY <3>1 DEF IsReset, MustReset
    <3>4. Bound(s, n) <= Bound(s, n)'
      BY <1>1, <1>5, <3>3, BoundGrows
    <3> QED BY <1>1, <2>1, <3>2, <3>3, <3>4, StaysCounted DEF Counted1
  <2> QED BY <1>7, <2>2, <2>3
<1> QED BY <1>6, <1>7

LEMMA SubmitCounts ==
    ASSUME IInv, IInv', AllCounted, NEW t \in Servers, Submit(t), NEW s \in Servers, NEW n \in Networks
    PROVE  Counted1(s, n)'
<1>1. /\ TypeOK /\ TypeOK' /\ Counted1(s, n) /\ UNCHANGED <<mined, next, faults>>
      /\ worker[t].step = "sending" /\ worker[t].net = worker[t].reset
      /\ worker[t].net \in Networks /\ worker[t].nonce \in Nat
  <2>1. TypeOK /\ SendsWhereItResets
    BY DEF IInv
  <2> QED BY <2>1, JobFields DEF IInv, AllCounted, Submit, SendsWhereItResets
<1>2. PICK base \in BaseFees : Take(worker[t].net, worker[t].nonce, Bid(base))
  BY DEF Submit
<1>3. worker' = [worker EXCEPT ![t] = Idle] \/ worker' = [worker EXCEPT ![t] = Caught(worker[t])]
  BY DEF Submit
<1>4. \A j \in Held(n) : j \in Held(n)'
  <2> DEFINE new == [nonce |-> worker[t].nonce, fees |-> Bid(base)]
  <2>1. CASE n # worker[t].net
    BY <1>1, <1>2, <2>1 DEF Take, TypeOK, Held
  <2>2. CASE n = worker[t].net
    <3>1. pool'[n] = {old \in pool[n] : old.nonce # worker[t].nonce} \cup {new}
      BY <1>1, <1>2, <2>2 DEF Take, TypeOK
    <3>2. new.nonce = worker[t].nonce
      OBVIOUS
    <3> HIDE DEF new
    <3> QED BY <3>1, <3>2 DEF Held
  <2> QED BY <2>1, <2>2
<1>5. n = worker[t].net => worker[t].nonce \in Held(n)'
  <2> DEFINE new == [nonce |-> worker[t].nonce, fees |-> Bid(base)]
  <2>1. n = worker[t].net => new \in pool'[n]
    BY <1>1, <1>2 DEF Take, TypeOK
  <2>2. new.nonce = worker[t].nonce
    OBVIOUS
  <2> HIDE DEF new
  <2> QED BY <2>1, <2>2 DEF Held
<1>6. CASE s # t
  <2>1. worker'[s] = worker[s]
    BY <1>1, <1>3, <1>6 DEF TypeOK
  <2>2. Skipped(s, n)' \subseteq Skipped(s, n)
    BY <1>1, <1>4, <2>1 DEF Skipped
  <2>3. IsReset(s, n)' = IsReset(s, n) /\ Bound(s, n)' = Bound(s, n) /\ Bound(s, n) \in Nat
    BY <1>1, <2>1, BoundType DEF IsReset, MustReset, Bound
  <2>4. Bound(s, n) <= Bound(s, n)'
    BY <2>3
  <2> QED BY <1>1, <2>2, <2>3, <2>4, StaysCounted
<1>7. CASE s = t
  <2>1. Skipped(s, n)' \subseteq Skipped(s, n)
    BY <1>1, <1>4, <1>5, <1>7 DEF Skipped
  <2>2. ~IsReset(s, n) /\ ~MustReset(s, n) /\ ~IsReset(s, n)'
    <3>1. worker'[s].step \in {"idle", "failed"}
      BY <1>1, <1>3, <1>7, CaughtJob DEF TypeOK, Idle
    <3> QED BY <1>1, <1>7, <3>1 DEF IsReset, MustReset
  <2>3. Bound(s, n) <= Bound(s, n)'
    <3>1. faults <= faults'
      BY <1>1 DEF TypeOK
    <3> QED BY <1>1, <2>2, <3>1, BoundGrows
  <2> QED BY <1>1, <2>1, <2>2, <2>3, StaysCounted DEF Counted1
<1> QED BY <1>6, <1>7

LEMMA RefuseCounts ==
    ASSUME IInv, IInv', AllCounted, NEW t \in Servers, Refuse(t), NEW s \in Servers, NEW n \in Networks
    PROVE  Counted1(s, n)'
<1>1. /\ TypeOK /\ TypeOK' /\ Counted1(s, n) /\ UNCHANGED <<mined, pool, next, faults>>
      /\ worker[t].step = "sending" /\ worker[t].net = worker[t].reset
      /\ worker' = [worker EXCEPT ![t] = Caught(worker[t])]
  BY DEF IInv, AllCounted, Refuse, SendsWhereItResets, node
<1>2. CASE s # t
  <2>1. worker'[s] = worker[s]
    BY <1>1, <1>2 DEF TypeOK
  <2> QED BY <1>1, <2>1, SameCounted DEF Elsewhere
<1>3. CASE s = t
  <2>1. worker'[s].step = "failed" /\ worker'[s].reset = worker[s].net
    BY <1>1, <1>3, CaughtJob DEF TypeOK
  <2>2. CASE n # worker[s].net
    BY <1>1, <1>3, <2>1, <2>2, SameCounted DEF Elsewhere
  <2>3. CASE n = worker[s].net
    <3>1. Skipped(s, n)' \subseteq Skipped(s, n) \cup {worker[s].nonce}
      BY <1>1 DEF Skipped, Held
    <3>2. ~IsReset(s, n) /\ ~MustReset(s, n) /\ MustReset(s, n)' /\ ~IsReset(s, n)'
      BY <1>1, <1>3, <2>1, <2>3 DEF IsReset, MustReset
    <3>3. Bound(s, n) + 1 <= Bound(s, n)'
      BY <1>1, <3>2 DEF Bound, TypeOK
    <3> QED BY <1>1, <3>1, <3>2, <3>3, StaysCounted DEF Counted1
  <2> QED BY <2>2, <2>3
<1> QED BY <1>2, <1>3

LEMMA ResetCounts ==
    ASSUME IInv, IInv', AllCounted, NEW t \in Servers, ReadCount(t) \/ SetCount(t) \/ ResetFails(t) \/ Restart(t),
           NEW s \in Servers, NEW n \in Networks
    PROVE  Counted1(s, n)'
<1>1. /\ TypeOK /\ TypeOK' /\ Counted1(s, n) /\ UNCHANGED <<mined, pool>>
      /\ faults' = faults \/ faults' = faults + 1
  BY DEF IInv, AllCounted, ReadCount, SetCount, ResetFails, Restart, node, Fault
<1>2. CASE s # t
  <2>1. worker'[s] = worker[s] /\ next'[s][n] = next[s][n]
    BY <1>1, <1>2 DEF TypeOK, ReadCount, SetCount, ResetFails, Restart
  <2>2. Skipped(s, n)' = Skipped(s, n) /\ IsReset(s, n)' = IsReset(s, n) /\ MustReset(s, n)' = MustReset(s, n)
    BY <1>1, <2>1 DEF Skipped, Held, IsReset, MustReset
  <2>3. Bound(s, n) <= Bound(s, n)'
    <3>1. faults <= faults'
      BY <1>1 DEF TypeOK
    <3> QED BY <1>1, <2>2, <3>1, BoundGrows
  <2> QED BY <1>1, <2>1, <2>2, <2>3, StaysCounted DEF Counted1
<1>3. CASE s = t /\ ReadCount(t)
  <2>1. /\ worker[s].step = "failed" /\ worker'[s].step = "counted" /\ worker'[s].reset = worker[s].reset
        /\ next' = next /\ faults' = faults
    BY <1>1, <1>3 DEF ReadCount, Counted, TypeOK
  <2>2. CASE worker[s].reset = n
    <3>1. IsReset(s, n)'
      BY <2>1, <2>2 DEF IsReset
    <3> QED BY <1>1, <3>1, StaysCounted
  <2>3. CASE worker[s].reset # n
    BY <1>1, <2>1, <2>3, SameCounted DEF Elsewhere
  <2> QED BY <2>2, <2>3
<1>4. CASE s = t /\ SetCount(t)
  <2>1. /\ worker[s].step = "counted" /\ worker'[s] = Idle /\ worker[s].reset \in Networks
        /\ worker[s].count \in Nat /\ worker[s].count <= mined[worker[s].reset]
        /\ next' = [next EXCEPT ![s][worker[s].reset] = worker[s].count] /\ faults' = faults
    BY <1>1, <1>4, JobFields DEF SetCount, TypeOK, IInv, CountsAreMined
  <2>2. CASE worker[s].reset = n
    <3>1. next'[s][n] = worker[s].count /\ mined[n] \in Nat
      BY <1>1, <2>1, <2>2 DEF TypeOK
    <3>2. Skipped(s, n)' = {}
      BY <1>1, <2>1, <2>2, <3>1 DEF Skipped
    <3> QED BY <1>1, <3>2, StaysCounted
  <2>3. CASE worker[s].reset # n
    <3>1. next'[s][n] = next[s][n] /\ worker'[s].step = "idle"
      BY <1>1, <2>1, <2>3 DEF TypeOK, Idle
    <3> QED BY <1>1, <2>1, <2>3, <3>1, SameCounted DEF Elsewhere
  <2> QED BY <2>2, <2>3
<1>5. CASE s = t /\ ResetFails(t)
  <2>1. worker[s].step = "failed" /\ worker'[s].step = "idle" /\ next' = next /\ faults' = faults + 1
    BY <1>1, <1>5 DEF ResetFails, Fault, Idle, TypeOK
  <2>2. Skipped(s, n)' = Skipped(s, n) /\ ~IsReset(s, n) /\ ~IsReset(s, n)' /\ ~MustReset(s, n)'
    BY <1>1, <2>1 DEF Skipped, Held, IsReset, MustReset
  <2>3. Bound(s, n) <= Bound(s, n)'
    <3>1. faults < faults' /\ faults <= faults'
      BY <1>1, <2>1 DEF TypeOK
    <3> QED BY <1>1, <3>1, BoundGrows
  <2> QED BY <1>1, <2>1, <2>2, <2>3, StaysCounted DEF Counted1
<1>6. CASE s = t /\ Restart(t)
  <2>1. next'[s][n] = Unknown
    BY <1>1, <1>6 DEF Restart, TypeOK
  <2> QED BY <1>1, <2>1, StaysCounted
<1> QED BY <1>2, <1>3, <1>4, <1>5, <1>6

LEMMA CountedInit == Init => AllCounted
BY DEF Init, AllCounted, Counted1

LEMMA StepCounts == ASSUME IInv, IInv', AllCounted, [Next]_vars PROVE AllCounted'
<1>1. ASSUME NEW t \in Servers, Server(t) PROVE AllCounted'
  BY <1>1, BeginCounts, BeginBrokenCounts, SubmitCounts, RefuseCounts, ResetCounts DEF Server, AllCounted
<1>2. ASSUME NEW m \in Networks, Mine(m) \/ Drop(m) PROVE AllCounted'
  BY <1>2, MineCounts, DropCounts DEF AllCounted
<1>3. CASE UNCHANGED vars
  BY <1>3, SameCounted DEF vars, node, AllCounted
<1> QED BY <1>1, <1>2, <1>3 DEF Next

(* However refusals, resets and the transactions of two servers meet, a    *)
(* server skips no more nonces than resets failed or transactions were     *)
(* forgotten (NonceManager, the resets of BridgeContractManager).          *)
THEOREM FewSkipped == Spec => []SkippedAreFaults
<1>1. IInv /\ AllCounted /\ IInv' /\ [Next]_vars => AllCounted'
  BY StepCounts
<1>2. TypeOK /\ AllCounted => SkippedAreFaults
  <2> SUFFICES ASSUME TypeOK, AllCounted, NEW s \in Servers, NEW n \in Networks,
                      next[s][n] \notin {Unknown, Broken}, ~IsReset(s, n), ~MustReset(s, n)
               PROVE  Cardinality(Skipped(s, n)) <= faults
    BY DEF SkippedAreFaults, IsReset, MustReset
  <2>1. Bound(s, n) = faults
    BY DEF Bound, TypeOK
  <2> QED BY <2>1 DEF AllCounted, Counted1
<1>3. IInv => TypeOK
  BY DEF IInv
<1> QED BY CountedInit, <1>1, <1>2, <1>3, Inductive, PTL DEF Spec

=============================================================================
