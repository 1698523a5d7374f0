------------------------------- MODULE Totals -------------------------------
(***************************************************************************)
(* The sum of the values of a function from a finite set to the naturals,  *)
(* as the books of the contracts need it: providers by account, boxes by   *)
(* id, contracts by network.                                               *)
(*                                                                         *)
(* A sum is counted: each x stands for f[x] units.  So what a fold would   *)
(* compute by recursion is the cardinality of a set here, and the theorems *)
(* about finite sets say how it changes (TotalsProofs).                    *)
(***************************************************************************)
EXTENDS Integers, FiniteSets

UnitsOf(f, x) == {x} \X (1 .. f[x])
UnitsIn(S, f) == UNION {UnitsOf(f, x) : x \in S}
Total(f) == Cardinality(UnitsIn(DOMAIN f, f))
=============================================================================
