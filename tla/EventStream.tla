---------------------------- MODULE EventStream ----------------------------
(***************************************************************************)
(* What a listener can rely on that sees nothing but the engine's events:  *)
(* starting from an empty book and applying each event as it comes, it     *)
(* knows every order in the market, what is left of it, and whether one is *)
(* still being executed.  Module MatchingEngine implements this            *)
(* specification.                                                          *)
(***************************************************************************)
EXTENDS Integers

CONSTANTS
  Owners,     \* the parties that own orders
  Prices,     \* a set of natural numbers
  Quantities  \* the positive quantities an order may be placed for

VARIABLES
  known,          \* the orders of the market, by order id
  incoming,       \* the order being executed, or NoOrder
  next_order_id,  \* the id of the next order that will be accepted
  next_trade_id,  \* the id of the next trade
  event           \* the event that came last

vars == <<known, incoming, next_order_id, next_trade_id, event>>

-----------------------------------------------------------------------------

NoOrder == 0
NoEvent == [type |-> "None"]

Known(owner, side, p, q) ==
  [owner |-> owner, side |-> side, price |-> p, quantity |-> q]

(* The two orders can trade: opposite sides, and prices that meet.         *)
Crosses(o, r) ==
  \/ o.side = "Buy" /\ r.side = "Sell" /\ o.price >= r.price
  \/ o.side = "Sell" /\ r.side = "Buy" /\ o.price <= r.price

Lesser(m, n) == IF m <= n THEN m ELSE n

(* The market after order id has traded q; nothing is kept of an order     *)
(* that has nothing left.                                                  *)
Reduced(market, id, q) ==
  IF market[id].quantity = q
  THEN [i \in DOMAIN market \ {id} |-> market[i]]
  ELSE [market EXCEPT ![id].quantity = @ - q]

-----------------------------------------------------------------------------

Init ==
  /\ known = [id \in {} |-> NoOrder]
  /\ incoming = NoOrder
  /\ next_order_id = 1
  /\ next_trade_id = 1
  /\ event = NoEvent

OrderAccepted(owner, side, p, q) ==
  /\ incoming = NoOrder
  /\ incoming' = next_order_id
  /\ next_order_id' = next_order_id + 1
  /\ known' = [id \in DOMAIN known \cup {next_order_id} |->
                 IF id = next_order_id THEN Known(owner, side, p, q) ELSE known[id]]
  /\ event' = [type |-> "OrderAccepted", order_id |-> next_order_id,
               owner |-> owner, side |-> side, price |-> p, quantity |-> q]
  /\ UNCHANGED next_trade_id

(* The order just accepted trades with one of the others, at its price, as *)
(* much as both want; the event says what is left of each.                 *)
TradeExecuted(resting) ==
  LET o == known[incoming]
      r == known[resting]
      q == Lesser(o.quantity, r.quantity)
  IN  /\ incoming # NoOrder
      /\ Crosses(o, r)
      /\ known' = Reduced(Reduced(known, incoming, q), resting, q)
      /\ incoming' = IF o.quantity = q THEN NoOrder ELSE incoming
      /\ next_trade_id' = next_trade_id + 1
      /\ event' = [type |-> "TradeExecuted", trade_id |-> next_trade_id,
                   price |-> r.price, quantity |-> q, aggressing_side |-> o.side,
                   aggressing_order_id |-> incoming, aggressing_owner |-> o.owner,
                   aggressing_remaining |-> o.quantity - q,
                   resting_order_id |-> resting, resting_owner |-> r.owner,
                   resting_remaining |-> r.quantity - q]
      /\ UNCHANGED next_order_id

(* The order just accepted rests once nothing is left it could trade with. *)
OrderRested ==
  LET o == known[incoming]
  IN  /\ incoming # NoOrder
      /\ \A id \in DOMAIN known : ~Crosses(o, known[id])
      /\ incoming' = NoOrder
      /\ event' = [type |-> "OrderRested", order_id |-> incoming, owner |-> o.owner,
                   side |-> o.side, price |-> o.price, quantity |-> o.quantity]
      /\ UNCHANGED <<known, next_order_id, next_trade_id>>

OrderCancelled(id) ==
  LET o == known[id]
  IN  /\ incoming = NoOrder
      /\ known' = [i \in DOMAIN known \ {id} |-> known[i]]
      /\ event' = [type |-> "OrderCancelled", order_id |-> id, owner |-> o.owner,
                   side |-> o.side, price |-> o.price, quantity |-> o.quantity]
      /\ UNCHANGED <<incoming, next_order_id, next_trade_id>>

(* A command is refused; an order is never refused for the id it would     *)
(* have been given.                                                        *)
CommandRejected(owner, command_type, reason) ==
  /\ incoming = NoOrder
  /\ command_type = "NewOrder" => reason # "MatchingEngineError"
  /\ event' = [type |-> "CommandRejected", owner |-> owner,
               command_type |-> command_type, reason |-> reason]
  /\ UNCHANGED <<known, incoming, next_order_id, next_trade_id>>

CommandTypes == {"NewOrder", "CancelOrder", "ReplaceOrder"}
Reasons == {"UnknownSymbol", "InvalidQuantity", "InvalidPrice", "UnknownOrder",
            "NotOrderOwner", "UnsupportedOrderType", "UnsupportedTimeInForce",
            "CapacityExhausted", "MatchingEngineError"}

Next ==
  \/ \E owner \in Owners, side \in {"Buy", "Sell"}, p \in Prices, q \in Quantities :
       OrderAccepted(owner, side, p, q)
  \/ \E resting \in DOMAIN known : TradeExecuted(resting)
  \/ OrderRested
  \/ \E id \in DOMAIN known : OrderCancelled(id)
  \/ \E owner \in Owners, command_type \in CommandTypes, reason \in Reasons :
       CommandRejected(owner, command_type, reason)

Spec == Init /\ [][Next]_vars

=============================================================================
