----------------------------- MODULE AtomicSwap -----------------------------
(***************************************************************************)
(* What a swap promises, whatever servers, databases, nodes and clocks do: *)
(* a withdraw box is opened only against an opened deposit box, on the     *)
(* deposit's terms, and the bridge takes a deposit only with the key that  *)
(* the trader's payout revealed.                                           *)
(***************************************************************************)
CONSTANTS Swaps, Terms, Keys, NoTerms, NoKey

VARIABLES deposit, withdraw  \* [state, terms, key] of each swap's two boxes

boxes == <<deposit, withdraw>>

NoBox == [state |-> "INVALID", terms |-> NoTerms, key |-> NoKey]
Opened(t) == [state |-> "OPEN", terms |-> t, key |-> NoKey]

Init ==
    /\ deposit = [s \in Swaps |-> NoBox]
    /\ withdraw = [s \in Swaps |-> NoBox]

Deposit(s, t) ==
    /\ deposit[s].state = "INVALID"
    /\ deposit' = [deposit EXCEPT ![s] = Opened(t)]
    /\ UNCHANGED withdraw

Reserve(s) ==
    /\ deposit[s].state # "INVALID"
    /\ withdraw[s].state = "INVALID"
    /\ withdraw' = [withdraw EXCEPT ![s] = Opened(deposit[s].terms)]
    /\ UNCHANGED deposit

PayOut(s, k) ==
    /\ withdraw[s].state = "OPEN"
    /\ withdraw' = [withdraw EXCEPT ![s].state = "CLOSED", ![s].key = k]
    /\ UNCHANGED deposit

Collect(s) ==
    /\ withdraw[s].state = "CLOSED"
    /\ deposit[s].state = "OPEN"
    /\ deposit' = [deposit EXCEPT ![s].state = "CLOSED", ![s].key = withdraw[s].key]
    /\ UNCHANGED withdraw

Release(s) ==
    /\ withdraw[s].state = "OPEN"
    /\ withdraw' = [withdraw EXCEPT ![s].state = "EXPIRED"]
    /\ UNCHANGED deposit

Refund(s) ==
    /\ deposit[s].state = "OPEN"
    /\ deposit' = [deposit EXCEPT ![s].state = "EXPIRED"]
    /\ UNCHANGED withdraw

Next == \E s \in Swaps :
    \/ \E t \in Terms : Deposit(s, t)
    \/ \E k \in Keys : PayOut(s, k)
    \/ Reserve(s) \/ Collect(s) \/ Release(s) \/ Refund(s)

Spec == Init /\ [][Next]_boxes
=============================================================================
