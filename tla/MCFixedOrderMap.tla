-------------------------- MODULE MCFixedOrderMap --------------------------
(* A small instance of the lookup map for TLC.                             *)
EXTENDS FixedOrderMap, TLC

Symmetry == Permutations(Keys) \cup Permutations(Values)

=============================================================================
