-------------------------- MODULE MCMoneyLiability --------------------------
(***************************************************************************)
(* Instances of MoneyLiability for TLC.                                     *)
(***************************************************************************)
EXTENDS MoneyLiability, TLC

CONSTANTS op1, op2, e1, e2, g1, g2

Symmetry == Permutations(Executors)

TwoEach == [op \in Operations |-> 2]
Three == [g \in Grants |-> 3]
\* A second budget smaller than the first.
Shrinking == [g \in Grants |-> IF g = g1 THEN 3 ELSE 2]
=============================================================================
