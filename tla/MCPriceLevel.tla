---------------------------- MODULE MCPriceLevel ----------------------------
(* A small instance of the pool and its lists for TLC.                     *)
EXTENDS PriceLevel

Symmetry == Permutations(Levels)
=============================================================================
