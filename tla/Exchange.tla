------------------------------ MODULE Exchange ------------------------------
(***************************************************************************)
(* The exchange as the program runs it (src/src/apps/sixchange_cli.cpp): a  *)
(* line is decoded, the order gateway (src/src/gateway/OrderGateway.cpp)    *)
(* hands the request to the matching engine, and the engine's events come  *)
(* back to the gateway inside that call.  A step of the exchange is a step *)
(* of the engine together with what the gateway does in it; the next line  *)
(* is read once the engine is done with the last one.                      *)
(*                                                                         *)
(* The one session has the one client_id of the code, so that an owner of  *)
(* OrderBook is a client order id here.                                    *)
(***************************************************************************)
EXTENDS MatchingEngine

CONSTANT NoId  \* the missing client order id of a reply to an unreadable line

VARIABLES
  client_orders,  \* client_orders_: the engine's id for each client order id
  terminated,     \* std::terminate has been called
  replies         \* what has been written in reply to the last line

gatewayVars == <<client_orders, terminated, replies>>
exchangeVars == <<vars, engineVars, gatewayVars>>

-----------------------------------------------------------------------------

ClientOrderIds == Owners
Unmapped == 0

(* What the codec makes of a line that it can read.                        *)
NewOrderRequest ==
  [client_order_id : ClientOrderIds, symbol : SymbolIds, side : Sides,
   order_type : OrderTypes, tif : TimesInForce,
   price : 1 .. PriceLevelCount, quantity : OfferedQuantities \ {0}]

CancelOrderRequest == [client_order_id : ClientOrderIds, symbol : SymbolIds]

(* What the codec says of a line that it cannot read: the client order id  *)
(* is given back only by a cancel with something wrong after it.           *)
DecodeErrors ==
  ({NoId} \X {"InvalidMessage", "InvalidPrice", "InvalidQuantity"})
    \cup (ClientOrderIds \X {"InvalidMessage"})

AcceptedReply(id, order_id) ==
  [type |-> "OrderAccepted", client_order_id |-> id, order_id |-> order_id]
CancelledReply(id, order_id) ==
  [type |-> "OrderCancelled", client_order_id |-> id, order_id |-> order_id]
RejectedReply(id, reason) ==
  [type |-> "OrderRejected", client_order_id |-> id, reason |-> reason]

(* Symbols stand for their ids, of which the gateway knows one.            *)
Resolves(symbol) == symbol = BookSymbol

-----------------------------------------------------------------------------
(* The gateway is the engine's event sink                                  *)

(* Mutant: a cancelled order is not reported.                              *)
RepliesToButCancelled(e) ==
  CASE e.type = "OrderAccepted" -> <<AcceptedReply(e.owner, e.order_id)>>
    [] e.type = "CommandRejected" -> <<RejectedReply(e.owner, e.reason)>>
    [] OTHER -> <<>>

RepliesTo(e) ==
  CASE e.type = "OrderAccepted" -> <<AcceptedReply(e.owner, e.order_id)>>
    [] e.type = "CommandRejected" -> <<RejectedReply(e.owner, e.reason)>>
    [] e.type = "OrderCancelled" -> <<CancelledReply(e.owner, e.order_id)>>
    [] OTHER -> <<>>

(* Mutant: the mapping is dropped when its order trades, filled or not.    *)
MappingAfterDroppingTraded(e) ==
  CASE e.type = "OrderAccepted" -> [client_orders EXCEPT ![e.owner] = e.order_id]
    [] e.type = "TradeExecuted" -> [client_orders EXCEPT ![e.resting_owner] = Unmapped]
    [] OTHER -> client_orders

MappingAfter(e) ==
  IF e.type = "OrderAccepted"
  THEN [client_orders EXCEPT ![e.owner] = e.order_id]
  ELSE client_orders

(* The engine emits event' to the gateway; earlier is what this line has   *)
(* been given in reply so far.                                             *)
OnEngineEvent(earlier) ==
  LET e == event'
      mapped == e.type = "OrderAccepted" /\ client_orders[e.owner] # Unmapped
  IN  /\ terminated' = mapped
      /\ client_orders' = IF mapped THEN client_orders ELSE MappingAfter(e)
      /\ replies' = IF mapped THEN earlier ELSE earlier \o RepliesTo(e)

-----------------------------------------------------------------------------
(* Lines                                                                   *)

(* The next line is read when the last one is done with.                   *)
ReadyForLine == ~terminated /\ aggressor = NoSlot

EmitRejection(id, reason) ==
  /\ replies' = <<RejectedReply(id, reason)>>
  /\ UNCHANGED <<vars, engineVars, client_orders, terminated>>

RejectLine(id, reason) ==
  /\ ReadyForLine
  /\ EmitRejection(id, reason)

(* Mutant: a client order id may come again.                               *)
NewOrderRefusalAnyId(r) ==
  IF ~Resolves(r.symbol) THEN "UnknownSymbol"
  ELSE "None"

(* Why the gateway does not submit a request to the engine.                *)
NewOrderRefusal(r) ==
  IF client_orders[r.client_order_id] # Unmapped THEN "DuplicateClientOrderId"
  ELSE IF ~Resolves(r.symbol) THEN "UnknownSymbol"
  ELSE "None"

CancelOrderRefusal(r) ==
  IF ~Resolves(r.symbol) THEN "UnknownSymbol"
  ELSE IF client_orders[r.client_order_id] = Unmapped THEN "UnknownOrder"
  ELSE "None"

HandleNewOrder(r) ==
  /\ ReadyForLine
  /\ \/ /\ NewOrderRefusal(r) # "None"
        /\ EmitRejection(r.client_order_id, NewOrderRefusal(r))
     \/ /\ NewOrderRefusal(r) = "None"
        /\ ProcessNewOrder(
             [symbol_id |-> r.symbol, owner |-> r.client_order_id, side |-> r.side,
              price |-> r.price, quantity |-> r.quantity],
             r.order_type, r.tif)
        /\ OnEngineEvent(<<>>)

HandleCancelOrder(r) ==
  /\ ReadyForLine
  /\ \/ /\ CancelOrderRefusal(r) # "None"
        /\ EmitRejection(r.client_order_id, CancelOrderRefusal(r))
     \/ /\ CancelOrderRefusal(r) = "None"
        /\ ProcessCancelOrder(
             [symbol_id |-> r.symbol, owner |-> r.client_order_id,
              order_id |-> client_orders[r.client_order_id]])
        /\ OnEngineEvent(<<>>)

(* The engine goes on with the order it has accepted.                      *)
ContinueNewOrder ==
  /\ ~terminated
  /\ \/ (OnMatch \/ ReportRested) /\ OnEngineEvent(replies)
     \/ ReportNothing /\ UNCHANGED gatewayVars

-----------------------------------------------------------------------------

ExchangeInit ==
  /\ EngineInit
  /\ client_orders = [id \in ClientOrderIds |-> Unmapped]
  /\ terminated = FALSE
  /\ replies = <<>>

ExchangeNext ==
  \/ \E error \in DecodeErrors : RejectLine(error[1], error[2])
  \/ \E r \in NewOrderRequest : HandleNewOrder(r)
  \/ \E r \in CancelOrderRequest : HandleCancelOrder(r)
  \/ ContinueNewOrder

ExchangeSpec == ExchangeInit /\ [][ExchangeNext]_exchangeVars

-----------------------------------------------------------------------------
(* Properties                                                              *)

(* The gateway's consistency check, which ends the process when the engine *)
(* accepts an order under a client order id already mapped, never fires:   *)
(* not after refusals of that id, cancels, fills or repeated requests.     *)
GatewayNeverTerminates == ~terminated

(* As long as an order is in the book its client can name it: the gateway  *)
(* maps its client order id to the very id the book knows it by.  So no    *)
(* two orders of the book share a client order id.                         *)
ClientsReachTheirOrders ==
  terminated \/ \A slot \in Active :
    client_orders[orders[slot].owner] = orders[slot].order_id

(* An engine id is mapped from the one client order id it was given out    *)
(* for, also when its order has long left the book.                        *)
MappedOnce ==
  /\ \A id \in ClientOrderIds : client_orders[id] < next_order_id
  /\ \A a, b \in ClientOrderIds :
       client_orders[a] = client_orders[b] /\ client_orders[a] # Unmapped => a = b

(* A line is never answered twice.                                         *)
AtMostOneReply == replies = <<>> \/ replies = <<replies[1]>>

(* The conjunction that is inductive; module Exchange_proofs proves it.    *)
ExchangeInv ==
  /\ EngineInv
  /\ client_orders \in [ClientOrderIds -> OrderIds \cup {Unmapped}]
  /\ GatewayNeverTerminates
  /\ ClientsReachTheirOrders
  /\ MappedOnce
  /\ AtMostOneReply

(* The exchange implements the session: an order is open while the book    *)
(* has it.                                                                 *)
OpenClientOrders ==
  {id \in ClientOrderIds :
     /\ client_orders[id] # Unmapped
     /\ orders_by_id[client_orders[id]] # NoSlot}

Client == INSTANCE Session WITH
  engine_id <- client_orders,
  open <- OpenClientOrders,
  last_engine_id <- next_order_id - 1

ImplementsSession == Client!Spec

=============================================================================
