------------------------------ MODULE MCNonces ------------------------------
(***************************************************************************)
(* Instances of Nonces for TLC.                                            *)
(***************************************************************************)
EXTENDS NoncesProperties

CONSTANTS ethnet, biznet  \* model values

MCMaxNonce == [n \in Networks |-> IF n = ethnet THEN 2 ELSE 1]
=============================================================================
