-------------------------- MODULE MCMatchingEngine --------------------------
(* Small instances of the matching engine for TLC.                         *)
EXTENDS MatchingEngine, TLC

(* Slots and owners are interchangeable; order ids are numbers here.       *)
Symmetry == Permutations(Slots) \cup Permutations(Owners)

(* The ids the engine gives out, and one for a refusal after the last.     *)
MCOrderIds == 1 .. MaxArrivals + 1

(* What the last step reported is written and never read, except for the   *)
(* reasons that OrderIdsFresh names.                                       *)
View == <<bookVars, next_order_id, next_trade_id,
          output = Rejected("MatchingEngineError")>>

=============================================================================
