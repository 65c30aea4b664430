---------------------------- MODULE MCOrderBook ----------------------------
(* Small instances of the order book for TLC.                              *)
EXTENDS OrderBook, TLC

(* Slots, order ids and owners are interchangeable.                        *)
Symmetry == Permutations(Slots) \cup Permutations(OrderIds) \cup Permutations(Owners)

(* output is written and never read: states that differ in it alone have   *)
(* the same successors, and no invariant mentions it.                      *)
View == <<orders, free, orders_by_id, levels, totals, best, active_orders,
          execution_count, aggressor, arrivals>>

=============================================================================
