----------------------------- MODULE MCExchange -----------------------------
(* Small instances of the exchange for TLC.                                *)
EXTENDS Exchange, TLC

(* Slots and client order ids are interchangeable.                         *)
Symmetry == Permutations(Slots) \cup Permutations(Owners)

(* The ids the engine gives out, and one for a refusal after the last.     *)
MCOrderIds == 1 .. MaxArrivals + 1

(* event, output and replies are written and never read, but for replies   *)
(* being left alone or added to.                                           *)
View == <<bookVars, next_order_id, next_trade_id, client_orders, terminated>>

=============================================================================
