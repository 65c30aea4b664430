--------------------------- MODULE MatchingEngine ---------------------------
(***************************************************************************)
(* The matching engine (src/src/engine/MatchingEngine.cpp): it gives ids to *)
(* orders and trades, runs commands against its order book and emits an    *)
(* event for what happened.  Each of its steps is a step of the book it    *)
(* owns, together with what the engine does around the call.               *)
(***************************************************************************)
EXTENDS OrderBook

ASSUME OrderIdsAssumption == OrderIds = 1 .. MaxArrivals + 1

VARIABLES
  next_order_id,  \* next_order_id_
  next_trade_id,  \* next_trade_id_
  event           \* the event last emitted to the event sink

engineVars == <<next_order_id, next_trade_id, event>>
bookVars == <<orders, free, orders_by_id, levels, totals, best, active_orders,
              execution_count, aggressor, arrivals>>

-----------------------------------------------------------------------------

OrderTypes == {"Limit", "Market"}
TimesInForce == {"GFD", "IOC", "FOK"}

(* The events, of which seq and symbol_id are left out.                    *)
NoEvent == [type |-> "None"]

OrderAccepted(id, c) ==
  [type |-> "OrderAccepted", order_id |-> id, owner |-> c.owner, side |-> c.side,
   price |-> c.price, quantity |-> c.quantity]

OrderRested(id, o, remaining) ==
  [type |-> "OrderRested", order_id |-> id, owner |-> o.owner, side |-> o.side,
   price |-> o.price, quantity |-> remaining]

(* o and r are the orders as they were before execution e of the book.     *)
TradeExecuted(e, trade_id, o, r) ==
  [type |-> "TradeExecuted", trade_id |-> trade_id, price |-> e.price,
   quantity |-> e.quantity, aggressing_side |-> o.side,
   aggressing_order_id |-> e.aggressing_order_id, aggressing_owner |-> o.owner,
   aggressing_remaining |-> e.aggressing_remaining,
   resting_order_id |-> e.resting_order_id, resting_owner |-> r.owner,
   resting_remaining |-> e.resting_remaining]

OrderCancelled(cancelled, o) ==
  [type |-> "OrderCancelled", order_id |-> cancelled.order_id, owner |-> o.owner,
   side |-> o.side, price |-> o.price, quantity |-> cancelled.quantity]

CommandRejected(owner, command_type, reason) ==
  [type |-> "CommandRejected", owner |-> owner, command_type |-> command_type,
   reason |-> reason]

-----------------------------------------------------------------------------

(* Why a new order does not reach the book.                                *)
Unsupported(order_type, tif) ==
  IF order_type # "Limit" THEN "UnsupportedOrderType"
  ELSE IF tif # "GFD" THEN "UnsupportedTimeInForce"
  ELSE "None"

RefuseUnsupported(owner, order_type, tif) ==
  /\ aggressor = NoSlot
  /\ Unsupported(order_type, tif) # "None"
  /\ event' = CommandRejected(owner, "NewOrder", Unsupported(order_type, tif))
  /\ output' = Silent
  /\ UNCHANGED <<bookVars, next_order_id, next_trade_id>>

(* Mutant: the id of an accepted order is given out again.                 *)
AcceptNewOrderKeepingId(c, order_type, tif) ==
  /\ Unsupported(order_type, tif) = "None"
  /\ Admit(c, next_order_id)
  /\ event' = OrderAccepted(next_order_id, c)
  /\ UNCHANGED <<next_order_id, next_trade_id>>

AcceptNewOrder(c, order_type, tif) ==
  /\ Unsupported(order_type, tif) = "None"
  /\ Admit(c, next_order_id)
  /\ next_order_id' = next_order_id + 1
  /\ event' = OrderAccepted(next_order_id, c)
  /\ UNCHANGED next_trade_id

(* Mutant: a refused order uses up an id.                                  *)
RefuseNewOrderAndId(c, order_type, tif) ==
  /\ Unsupported(order_type, tif) = "None"
  /\ RejectNew(c, next_order_id)
  /\ next_order_id' = next_order_id + 1
  /\ event' = CommandRejected(c.owner, "NewOrder", output'.reason)
  /\ UNCHANGED next_trade_id

RefuseNewOrder(c, order_type, tif) ==
  /\ Unsupported(order_type, tif) = "None"
  /\ RejectNew(c, next_order_id)
  /\ event' = CommandRejected(c.owner, "NewOrder", output'.reason)
  /\ UNCHANGED <<next_order_id, next_trade_id>>

(* The book reports an execution to the engine, in the middle of execute.  *)
OnMatch ==
  /\ FillPartially \/ FillCompletely
  /\ next_trade_id' = next_trade_id + 1
  /\ event' = TradeExecuted(output', next_trade_id, orders[aggressor], orders[Standing])
  /\ UNCHANGED next_order_id

(* Mutant: only an order that did not trade is reported to rest.           *)
ReportRestedUntraded ==
  /\ Rest
  /\ event' = IF event.type # "OrderAccepted" THEN event
              ELSE OrderRested(output'.order_id, orders[aggressor], output'.quantity)
  /\ UNCHANGED <<next_order_id, next_trade_id>>

(* execute returns to process_new_order.                                   *)
ReportRested ==
  /\ Rest
  /\ event' = OrderRested(output'.order_id, orders[aggressor], output'.quantity)
  /\ UNCHANGED <<next_order_id, next_trade_id>>

ReportNothing ==
  /\ FinishFilled
  /\ UNCHANGED engineVars

CancelOrder(c) ==
  /\ Cancel(c)
  /\ event' = OrderCancelled(output', orders[orders_by_id[c.order_id]])
  /\ UNCHANGED <<next_order_id, next_trade_id>>

RefuseCancelOrder(c) ==
  /\ RejectCancel(c)
  /\ event' = CommandRejected(c.owner, "CancelOrder", output'.reason)
  /\ UNCHANGED <<next_order_id, next_trade_id>>

(* Replacing an order is not implemented.                                  *)
RefuseReplaceOrder(owner) ==
  /\ aggressor = NoSlot
  /\ event' = CommandRejected(owner, "ReplaceOrder", "MatchingEngineError")
  /\ output' = Silent
  /\ UNCHANGED <<bookVars, next_order_id, next_trade_id>>

ProcessNewOrder(c, order_type, tif) ==
  \/ RefuseUnsupported(c.owner, order_type, tif)
  \/ AcceptNewOrder(c, order_type, tif)
  \/ RefuseNewOrder(c, order_type, tif)

ProcessCancelOrder(c) == CancelOrder(c) \/ RefuseCancelOrder(c)

-----------------------------------------------------------------------------

EngineInit ==
  /\ Init
  /\ next_order_id = 1
  /\ next_trade_id = 1
  /\ event = NoEvent

(* What execute and its caller do once an order is accepted.               *)
ExecuteOrder == OnMatch \/ ReportRested \/ ReportNothing

EngineNext ==
  \/ \E order_type \in OrderTypes, tif \in TimesInForce :
       \/ \E owner \in Owners : RefuseUnsupported(owner, order_type, tif)
       \/ \E c \in NewOrderCommand :
            AcceptNewOrder(c, order_type, tif) \/ RefuseNewOrder(c, order_type, tif)
  \/ ExecuteOrder
  \/ \E c \in CancelOrderCommand : ProcessCancelOrder(c)
  \/ \E owner \in Owners : RefuseReplaceOrder(owner)

EngineSpec == EngineInit /\ [][EngineNext]_<<vars, engineVars>>

-----------------------------------------------------------------------------
(* Properties                                                              *)

(* The ids have no gaps: the accepted orders and the executions are        *)
(* numbered from 1, and a refused command uses up neither.                 *)
IdsConsecutive ==
  /\ next_order_id = arrivals + 1
  /\ next_trade_id = execution_count + 1

(* Ids are never given out twice: every order in the book has an id below  *)
(* the next one, whatever was refused in between, and the book never       *)
(* refuses an order because of its id.                                     *)
OrderIdsFresh ==
  /\ \A slot \in Active : orders[slot].order_id < next_order_id
  /\ output # Rejected("MatchingEngineError")

(* Along a level, order ids grow: a listener that orders the orders of a   *)
(* price by their ids has the queue.                                       *)
LevelsInIdOrder ==
  \A side \in Sides, p \in Prices : \A i, j \in Entries(side, p) :
    i < j => orders[levels[side][p][i]].order_id < orders[levels[side][p][j]].order_id

(* Order ids are the numbers of the orders in the order of arrival.        *)
IdsFollowArrivals ==
  \A slot \in Active : orders[slot].order_id = orders[slot].seq

(* The conjunction that is inductive; module MatchingEngine_proofs proves  *)
(* it.                                                                     *)
EngineInv ==
  /\ IInv
  /\ IdsConsecutive
  /\ IdsFollowArrivals
  /\ output # Rejected("MatchingEngineError")

-----------------------------------------------------------------------------
(* The engine implements the event stream: what a listener knows are the   *)
(* orders that still want something.                                       *)

KnownIds == {orders[slot].order_id : slot \in Wanting}

KnownOrders ==
  [id \in KnownIds |->
     LET o == orders[orders_by_id[id]]
     IN  [owner |-> o.owner, side |-> o.side, price |-> o.price,
          quantity |-> o.remaining_quantity]]

IncomingId ==
  IF aggressor \in Wanting THEN orders[aggressor].order_id ELSE 0

Stream == INSTANCE EventStream WITH
  Quantities <- OfferedQuantities \ {0},
  known <- KnownOrders,
  incoming <- IncomingId

ImplementsEventStream == Stream!Spec

=============================================================================
