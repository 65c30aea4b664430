------------------------------ MODULE Session ------------------------------
(***************************************************************************)
(* What the exchange promises the client at the other end of the text      *)
(* protocol: every request gets one reply, a client order id is good for   *)
(* one order, and an order is open from its ACCEPTED until it has traded   *)
(* completely, of which the client is not told, or until its CANCELLED.    *)
(* Module Exchange implements this specification.                          *)
(***************************************************************************)
EXTENDS Integers

CONSTANTS
  ClientOrderIds,  \* the ids the client gives its orders
  NoId             \* no client order id could be read from the request

VARIABLES
  engine_id,       \* the engine's id for each client order id, or NoOrder
  open,            \* the client order ids of the open orders
  last_engine_id,  \* the engine's id of the order accepted last, or NoOrder
  replies          \* the replies to the last request

vars == <<engine_id, open, last_engine_id, replies>>

-----------------------------------------------------------------------------

NoOrder == 0

Accepted(id, order_id) ==
  [type |-> "OrderAccepted", client_order_id |-> id, order_id |-> order_id]
Cancelled(id, order_id) ==
  [type |-> "OrderCancelled", client_order_id |-> id, order_id |-> order_id]
Rejected(id, reason) ==
  [type |-> "OrderRejected", client_order_id |-> id, reason |-> reason]

-----------------------------------------------------------------------------

Init ==
  /\ engine_id = [id \in ClientOrderIds |-> NoOrder]
  /\ open = {}
  /\ last_engine_id = NoOrder
  /\ replies = <<>>

(* A new order under a client order id never accepted before.              *)
Accept(id) ==
  /\ engine_id[id] = NoOrder
  /\ last_engine_id' = last_engine_id + 1
  /\ engine_id' = [engine_id EXCEPT ![id] = last_engine_id']
  /\ open' = open \cup {id}
  /\ replies' = <<Accepted(id, last_engine_id')>>

(* An open order trades completely.                                        *)
Fill(id) ==
  /\ open' = open \ {id}
  /\ UNCHANGED <<engine_id, last_engine_id, replies>>

(* An open order is taken out of the market; the reply names it by the id  *)
(* it was accepted under.                                                  *)
Cancel(id) ==
  /\ open' = open \ {id}
  /\ replies' = <<Cancelled(id, engine_id[id])>>
  /\ UNCHANGED <<engine_id, last_engine_id>>

(* A request is refused: as a duplicate only if the id was accepted, as    *)
(* naming no order only if no such order is open, and never because of     *)
(* something that is not the client's business.                            *)
Refuse(id, reason) ==
  /\ reason = "DuplicateClientOrderId" => engine_id[id] # NoOrder
  /\ reason = "UnknownOrder" => id \notin open
  /\ replies' = <<Rejected(id, reason)>>
  /\ UNCHANGED <<engine_id, open, last_engine_id>>

(* The request could not be decoded.                                       *)
RefuseMessage(id, reason) ==
  /\ replies' = <<Rejected(id, reason)>>
  /\ UNCHANGED <<engine_id, open, last_engine_id>>

MessageReasons == {"InvalidMessage", "InvalidPrice", "InvalidQuantity"}
Reasons == {"DuplicateClientOrderId", "UnknownSymbol", "UnknownOrder", "InvalidPrice",
            "UnsupportedOrderType", "UnsupportedTimeInForce", "CapacityExhausted"}

Next ==
  \/ \E id \in ClientOrderIds :
       \/ Accept(id)
       \/ \E reason \in Reasons : Refuse(id, reason)
  \/ \E id \in open : Fill(id) \/ Cancel(id)
  \/ \E id \in ClientOrderIds \cup {NoId}, reason \in MessageReasons :
       RefuseMessage(id, reason)

Spec == Init /\ [][Next]_vars

=============================================================================
