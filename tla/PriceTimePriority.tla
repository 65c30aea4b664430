------------------------- MODULE PriceTimePriority -------------------------
(***************************************************************************)
(* What a price-time-priority limit order book promises, with no price     *)
(* levels, no cached best prices, no lookup map and no order pool: the     *)
(* book is a set of orders, and an incoming order trades, one execution    *)
(* at a time, with the resting order that has priority over every other    *)
(* one it can trade with.  Module OrderBook implements this specification. *)
(***************************************************************************)
EXTENDS Integers, FiniteSets

CONSTANTS
  OrderIds,   \* identifiers of orders
  Owners,     \* the parties that own orders
  Prices,     \* a set of natural numbers
  Quantities, \* the positive quantities an order may be placed for
  Capacity    \* how many orders may be in the book at once

VARIABLES
  resting,    \* the set of orders in the book
  incoming,   \* {}, or {o} while the order o is being executed
  clock,      \* the arrival time of the last accepted order
  output      \* what the last step reported

vars == <<resting, incoming, clock, output>>

-----------------------------------------------------------------------------

(* The output of a step: a value that tells the caller what happened.      *)
Silent == [kind |-> "Silent"]
Rejected(reason) == [kind |-> "Rejected", reason |-> reason]
Admitted(id) == [kind |-> "Admitted", order_id |-> id]
Rested(id, q) == [kind |-> "Rested", order_id |-> id, quantity |-> q]
Filled(id) == [kind |-> "Filled", order_id |-> id]
Cancelled(id, q) == [kind |-> "Cancelled", order_id |-> id, quantity |-> q]
Execution(o, r, p, q) ==   \* o and r are what the execution leaves of the two orders
  [kind |-> "Execution", price |-> p, quantity |-> q,
   aggressing_order_id |-> o.order_id, aggressing_remaining |-> o.quantity,
   resting_order_id |-> r.order_id, resting_remaining |-> r.quantity]

-----------------------------------------------------------------------------

(* Order o can trade with r: opposite sides, and o's limit reaches r's.    *)
CanTrade(o, r) ==
  \/ o.side = "Buy" /\ r.side = "Sell" /\ o.price >= r.price
  \/ o.side = "Sell" /\ r.side = "Buy" /\ o.price <= r.price

(* Of two resting orders of one side: the better price goes first, and at  *)
(* one price the earlier arrival.                                          *)
HasPriority(r, t) ==
  \/ r.side = "Buy" /\ r.price > t.price
  \/ r.side = "Sell" /\ r.price < t.price
  \/ r.price = t.price /\ r.arrival < t.arrival

Lesser(m, n) == IF m <= n THEN m ELSE n

-----------------------------------------------------------------------------

Init ==
  /\ resting = {}
  /\ incoming = {}
  /\ clock = 0
  /\ output = Silent

(* An order of a fresh identifier and a positive quantity is taken in, the  *)
(* latest to arrive.                                                       *)
Accept(id, owner, side, p, q) ==
  /\ incoming = {}
  /\ \A r \in resting : r.order_id # id
  /\ Cardinality(resting) < Capacity
  /\ clock' = clock + 1
  /\ incoming' = {[order_id |-> id, arrival |-> clock', owner |-> owner,
                   side |-> side, price |-> p, quantity |-> q]}
  /\ output' = Admitted(id)
  /\ UNCHANGED resting

(* The incoming order trades with the one order that has priority, at that *)
(* order's price, for as much as both still want.                          *)
Trade ==
  \E o \in incoming, r \in resting :
    /\ o.quantity > 0
    /\ CanTrade(o, r)
    /\ \A t \in resting \ {r} : CanTrade(o, t) => HasPriority(r, t)
    /\ LET q == Lesser(o.quantity, r.quantity)
           left == [o EXCEPT !.quantity = @ - q]
           stands == [r EXCEPT !.quantity = @ - q]
       IN  /\ incoming' = {left}
           /\ resting' = (resting \ {r}) \cup
                            {t \in {stands} : t.quantity > 0}
           /\ output' = Execution(left, stands, r.price, q)
    /\ UNCHANGED clock

(* What is left of the incoming order joins the book when nothing in the   *)
(* book can trade with it.                                                 *)
Rest ==
  \E o \in incoming :
    /\ o.quantity > 0
    /\ \A r \in resting : ~CanTrade(o, r)
    /\ resting' = resting \cup {o}
    /\ incoming' = {}
    /\ output' = Rested(o.order_id, o.quantity)
    /\ UNCHANGED clock

(* An incoming order with nothing left to trade is done.                   *)
Complete ==
  \E o \in incoming :
    /\ o.quantity = 0
    /\ incoming' = {}
    /\ output' = Filled(o.order_id)
    /\ UNCHANGED <<resting, clock>>

(* An owner takes an order out of the book.                                *)
Cancel(id, owner) ==
  /\ incoming = {}
  /\ \E r \in resting :
       /\ r.order_id = id
       /\ r.owner = owner
       /\ resting' = resting \ {r}
       /\ output' = Cancelled(id, r.quantity)
  /\ UNCHANGED <<incoming, clock>>

(* A cancel is refused as naming no order only if no such order is in the  *)
(* book, and as another party's only if the order is another party's.      *)
RefuseCancel(id, owner, reason) ==
  /\ output' = Rejected(reason)
  /\ incoming = {}
  /\ reason = "UnknownOrder" => \A r \in resting : r.order_id # id
  /\ reason = "NotOrderOwner" =>
       \E r \in resting : r.order_id = id /\ r.owner # owner
  /\ reason \in {"UnknownSymbol", "UnknownOrder", "NotOrderOwner"}
  /\ UNCHANGED <<resting, incoming, clock>>

(* A new order is refused for want of room only when the book is full, and *)
(* as an internal error only when its identifier is already in the book.   *)
RefuseNew(id, reason) ==
  /\ output' = Rejected(reason)
  /\ incoming = {}
  /\ reason = "CapacityExhausted" => Cardinality(resting) = Capacity
  /\ reason = "MatchingEngineError" => \E r \in resting : r.order_id = id
  /\ reason \in {"UnknownSymbol", "InvalidQuantity", "InvalidPrice",
                 "CapacityExhausted", "MatchingEngineError"}
  /\ UNCHANGED <<resting, incoming, clock>>

Reasons == {"UnknownSymbol", "InvalidQuantity", "InvalidPrice", "UnknownOrder",
            "NotOrderOwner", "CapacityExhausted", "MatchingEngineError"}

Next ==
  \/ Trade
  \/ Rest
  \/ Complete
  \/ \E reason \in Reasons, id \in OrderIds :
       \/ RefuseNew(id, reason)
       \/ \E owner \in Owners : RefuseCancel(id, owner, reason)
  \/ \E id \in OrderIds, owner \in Owners : Cancel(id, owner)
  \/ \E id \in OrderIds, owner \in Owners, side \in {"Buy", "Sell"},
       p \in Prices, q \in Quantities : Accept(id, owner, side, p, q)

Spec == Init /\ [][Next]_vars

=============================================================================
