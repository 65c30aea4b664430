-------------------------- MODULE Exchange_proofs --------------------------
(***************************************************************************)
(* Proofs about the exchange, for every value of its constants: whatever   *)
(* the client sends, the gateway's consistency check holds, every order in *)
(* the book can be reached by its client order id, and the replies are     *)
(* those of module Session.                                                *)
(***************************************************************************)
EXTENDS Exchange, MatchingEngine_proofs

-----------------------------------------------------------------------------
(* Requests and events                                                     *)

LEMMA RequestsAreCommands ==
  /\ \A r \in NewOrderRequest :
       /\ r.client_order_id \in ClientOrderIds
       /\ r.order_type \in OrderTypes
       /\ r.tif \in TimesInForce
       /\ [symbol_id |-> r.symbol, owner |-> r.client_order_id, side |-> r.side,
           price |-> r.price, quantity |-> r.quantity] \in NewOrderCommand
  /\ \A r \in CancelOrderRequest : \A id \in OrderIds :
       /\ r.client_order_id \in ClientOrderIds
       /\ [symbol_id |-> r.symbol, owner |-> r.client_order_id,
           order_id |-> id] \in CancelOrderCommand
<1>1. 1 .. PriceLevelCount \subseteq 0 .. PriceLevelCount
  BY LevelsAssumption
<1> QED
  BY <1>1 DEF NewOrderRequest, CancelOrderRequest, NewOrderCommand,
              CancelOrderCommand, ClientOrderIds

(* Only an OrderAccepted changes what the gateway maps.                    *)
LEMMA EventTypes ==
  /\ \A id, c : /\ OrderAccepted(id, c).type = "OrderAccepted"
                /\ OrderAccepted(id, c).order_id = id
                /\ OrderAccepted(id, c).owner = c.owner
  /\ \A id, o, q : OrderRested(id, o, q).type = "OrderRested"
  /\ \A e, id, o, r : TradeExecuted(e, id, o, r).type = "TradeExecuted"
  /\ \A e, o : OrderCancelled(e, o).type = "OrderCancelled"
  /\ \A owner, t, reason : CommandRejected(owner, t, reason).type = "CommandRejected"
BY DEF OrderAccepted, OrderRested, TradeExecuted, OrderCancelled, CommandRejected

(* What the gateway writes for each event.                                 *)
LEMMA Answers ==
  ASSUME NEW e
  PROVE  /\ e.type = "OrderAccepted" =>
              RepliesTo(e) = <<AcceptedReply(e.owner, e.order_id)>>
         /\ e.type = "CommandRejected" =>
              RepliesTo(e) = <<RejectedReply(e.owner, e.reason)>>
         /\ e.type = "OrderCancelled" =>
              RepliesTo(e) = <<CancelledReply(e.owner, e.order_id)>>
         /\ e.type \in {"OrderRested", "TradeExecuted"} => RepliesTo(e) = <<>>
BY DEF RepliesTo

LEMMA FirstReply ==
  ASSUME NEW reply
  PROVE  <<>> \o <<reply>> = <<reply>> /\ <<reply>> \o <<>> = <<reply>>
OBVIOUS

LEMMA OneReplyToCommand ==
  ASSUME OnEngineEvent(<<>>),
         event'.type \in {"OrderAccepted", "CommandRejected", "OrderCancelled"}
  PROVE  /\ AtMostOneReply'
         /\ ~terminated' => replies' = RepliesTo(event')
<1>1. PICK reply : RepliesTo(event') = <<reply>>
  BY Answers
<1>2. replies' = <<>> \/ replies' = <<reply>>
  BY <1>1, FirstReply DEF OnEngineEvent
<1>3. ~terminated' => replies' = <<reply>>
  BY <1>1, FirstReply DEF OnEngineEvent
<1> QED
  BY <1>1, <1>2, <1>3 DEF AtMostOneReply

LEMMA NoReplyToTrades ==
  ASSUME AtMostOneReply, OnEngineEvent(replies),
         event'.type \in {"OrderRested", "TradeExecuted"}
  PROVE  replies' = replies
<1>1. replies' = replies \o <<>>
  BY Answers DEF OnEngineEvent
<1>2. replies = <<>> \/ \E reply : replies = <<reply>>
  BY DEF AtMostOneReply
<1> QED
  BY <1>1, <1>2, FirstReply

LEMMA OtherEventsKeepTheMapping ==
  ASSUME NEW earlier, OnEngineEvent(earlier), event'.type # "OrderAccepted"
  PROVE  ~terminated' /\ client_orders' = client_orders
BY DEF OnEngineEvent, MappingAfter

-----------------------------------------------------------------------------
(* The steps of the exchange                                               *)

LEMMA NoNewOrders ==
  ASSUME ExchangeInv, OnlyKnownOrders, ~terminated',
         UNCHANGED <<client_orders, next_order_id>>
  PROVE  GatewayNeverTerminates' /\ ClientsReachTheirOrders' /\ MappedOnce'
BY DEF ExchangeInv, GatewayNeverTerminates, ClientsReachTheirOrders, OnlyKnownOrders,
       MappedOnce

LEMMA OrdersUntouched ==
  ASSUME orders' = orders
  PROVE  OnlyKnownOrders
BY DEF OnlyKnownOrders, Active

LEMMA AcceptedOrderIsMapped ==
  ASSUME ExchangeInv, NEW c \in NewOrderCommand, NEW order_type, NEW tif,
         AcceptNewOrder(c, order_type, tif), OnEngineEvent(<<>>),
         client_orders[c.owner] = Unmapped
  PROVE  /\ client_orders' \in [ClientOrderIds -> OrderIds \cup {Unmapped}]
         /\ GatewayNeverTerminates'
         /\ ClientsReachTheirOrders'
         /\ MappedOnce'
<1>1. /\ Admit(c, next_order_id)
      /\ event' = OrderAccepted(next_order_id, c)
      /\ next_order_id' = next_order_id + 1
  BY DEF AcceptNewOrder
<1>2. /\ c.owner \in ClientOrderIds
      /\ next_order_id \in OrderIds
      /\ orders \in [Slots -> OrderRecord \cup {BlankOrder}]
      /\ client_orders \in [ClientOrderIds -> OrderIds \cup {Unmapped}]
  BY NextIdIsFree DEF NewOrderCommand, ClientOrderIds, ExchangeInv, EngineInv, IInv, TypeOK
<1>3. /\ ~terminated'
      /\ client_orders' = [client_orders EXCEPT ![c.owner] = next_order_id]
  <2>1. /\ event'.type = "OrderAccepted"
        /\ event'.owner = c.owner
        /\ event'.order_id = next_order_id
    BY <1>1, EventTypes
  <2>2. /\ terminated' = (event'.type = "OrderAccepted" /\ client_orders[event'.owner] # Unmapped)
        /\ ~terminated' => client_orders' = MappingAfter(event')
    BY DEF OnEngineEvent
  <2> QED
    BY <2>1, <2>2 DEF MappingAfter
<1>4. PICK slot \in free : orders' = [orders EXCEPT ![slot] =
          [active |-> TRUE, order_id |-> next_order_id, owner |-> c.owner,
           side |-> c.side, price |-> c.price, remaining_quantity |-> c.quantity,
           seq |-> arrivals']]
  BY <1>1 DEF Admit
<1>5. /\ slot \in Slots
      /\ orders'[slot].owner = c.owner /\ orders'[slot].order_id = next_order_id
      /\ \A t \in Slots \ {slot} : orders'[t] = orders[t]
  BY <1>2, <1>4 DEF ExchangeInv, EngineInv, IInv, TypeOK
<1>6. ASSUME NEW t \in Active'
      PROVE  client_orders'[orders'[t].owner] = orders'[t].order_id
  <2>1. CASE t = slot
    BY <2>1, <1>2, <1>3, <1>5
  <2>2. CASE t # slot
    <3>1. t \in Active /\ orders'[t] = orders[t] /\ orders[t] \in OrderRecord
      BY <2>2, <1>2, <1>5, ActiveSlots DEF Active
    <3>2. client_orders[orders[t].owner] = orders[t].order_id
      BY <3>1 DEF ExchangeInv, GatewayNeverTerminates, ClientsReachTheirOrders
    <3>3. orders[t].order_id # Unmapped
      BY <3>1, RecordsAreActive, OrderIdsAssumption, ArrivalsAssumption DEF Unmapped
    <3>4. orders[t].owner \in ClientOrderIds /\ orders[t].owner # c.owner
      BY <3>1, <3>2, <3>3 DEF OrderRecord, ClientOrderIds
    <3> QED
      BY <3>1, <3>2, <3>4, <1>2, <1>3
  <2> QED
    BY <2>1, <2>2
<1>7. next_order_id \in Nat /\ \A id \in ClientOrderIds : client_orders[id] \in Nat
  BY <1>2, OrderIdsAssumption, ArrivalsAssumption DEF Unmapped
<1>8. \A id \in ClientOrderIds :
        client_orders'[id] = IF id = c.owner THEN next_order_id ELSE client_orders[id]
  BY <1>2, <1>3
<1>9. MappedOnce'
  BY <1>1, <1>7, <1>8 DEF MappedOnce, ExchangeInv
<1> QED
  BY <1>2, <1>3, <1>6, <1>9 DEF GatewayNeverTerminates, ClientsReachTheirOrders

LEMMA UnchangedExchangeInv ==
  ASSUME ExchangeInv, UNCHANGED <<vars, engineVars, client_orders, terminated>>,
         AtMostOneReply'
  PROVE  ExchangeInv'
<1>1. EngineInv'
  BY EngineNextInv DEF ExchangeInv
<1>2. UNCHANGED <<orders, client_orders, terminated, next_order_id>>
  BY DEF vars, engineVars
<1> QED
  BY <1>1, <1>2, NoNewOrders, OrdersUntouched DEF ExchangeInv, GatewayNeverTerminates

LEMMA HandleNewOrderInv ==
  ASSUME ExchangeInv, NEW r \in NewOrderRequest, HandleNewOrder(r)
  PROVE  ExchangeInv'
<1> DEFINE c == [symbol_id |-> r.symbol, owner |-> r.client_order_id, side |-> r.side,
                 price |-> r.price, quantity |-> r.quantity]
           MappingInv == /\ client_orders' \in [ClientOrderIds -> OrderIds \cup {Unmapped}]
                         /\ GatewayNeverTerminates'
                         /\ ClientsReachTheirOrders'
                         /\ MappedOnce'
                         /\ AtMostOneReply'
<1>1. /\ c \in NewOrderCommand /\ r.order_type \in OrderTypes /\ r.tif \in TimesInForce
      /\ c.owner = r.client_order_id
      /\ c.owner \in Owners
  BY RequestsAreCommands DEF ClientOrderIds
<1>2. ASSUME OnlyKnownOrders, ~terminated', UNCHANGED <<client_orders, next_order_id>>,
             AtMostOneReply'
      PROVE  MappingInv
  BY <1>2, NoNewOrders DEF ExchangeInv
<1>3. CASE NewOrderRefusal(r) # "None"
  <2>1. UNCHANGED <<vars, engineVars, client_orders, terminated>> /\ AtMostOneReply'
    BY <1>3 DEF HandleNewOrder, EmitRejection, AtMostOneReply
  <2> QED
    BY <2>1, UnchangedExchangeInv
<1>4. CASE NewOrderRefusal(r) = "None"
  <2>1. /\ ProcessNewOrder(c, r.order_type, r.tif)
        /\ OnEngineEvent(<<>>)
    BY <1>4 DEF HandleNewOrder
  <2>2. client_orders[c.owner] = Unmapped
    BY <1>1, <1>4 DEF NewOrderRefusal
  <2> HIDE DEF c
  <2>3. EngineInv'
    <3>1. EngineNext
      BY <1>1, <2>1 DEF ProcessNewOrder, EngineNext
    <3> QED
      BY <3>1, EngineNextInv DEF ExchangeInv
  <2>4. MappingInv
    <3>1. CASE AcceptNewOrder(c, r.order_type, r.tif)
      <4>1. event'.type = "OrderAccepted"
        BY <3>1, EventTypes DEF AcceptNewOrder
      <4> QED
        BY <1>1, <2>1, <2>2, <3>1, <4>1, AcceptedOrderIsMapped, OneReplyToCommand
    <3>2. CASE RefuseUnsupported(c.owner, r.order_type, r.tif)
      <4>1. event'.type = "CommandRejected" /\ UNCHANGED <<orders, next_order_id>>
        BY <3>2, EventTypes DEF RefuseUnsupported, bookVars
      <4> QED
        BY <1>2, <2>1, <4>1, OtherEventsKeepTheMapping, OrdersUntouched, OneReplyToCommand
    <3>3. CASE RefuseNewOrder(c, r.order_type, r.tif)
      <4>1. event'.type = "CommandRejected" /\ UNCHANGED <<orders, next_order_id>>
        BY <3>3, EventTypes DEF RefuseNewOrder, RejectNew
      <4> QED
        BY <1>2, <2>1, <4>1, OtherEventsKeepTheMapping, OrdersUntouched, OneReplyToCommand
    <3> QED
      BY <2>1, <3>1, <3>2, <3>3 DEF ProcessNewOrder
  <2> QED
    BY <2>3, <2>4 DEF ExchangeInv
<1> QED
  BY <1>3, <1>4

LEMMA HandleCancelOrderInv ==
  ASSUME ExchangeInv, NEW r \in CancelOrderRequest, HandleCancelOrder(r)
  PROVE  ExchangeInv'
<1> DEFINE c == [symbol_id |-> r.symbol, owner |-> r.client_order_id,
                 order_id |-> client_orders[r.client_order_id]]
<1>1. CASE CancelOrderRefusal(r) # "None"
  <2>1. UNCHANGED <<vars, engineVars, client_orders, terminated>> /\ AtMostOneReply'
    BY <1>1 DEF HandleCancelOrder, EmitRejection, AtMostOneReply
  <2> QED
    BY <2>1, UnchangedExchangeInv
<1>2. CASE CancelOrderRefusal(r) = "None"
  <2>1. /\ ProcessCancelOrder(c)
        /\ OnEngineEvent(<<>>)
    BY <1>2 DEF HandleCancelOrder
  <2>2. client_orders[r.client_order_id] \in OrderIds
    BY <1>2, RequestsAreCommands, OrderIdsAssumption, ArrivalsAssumption
    DEF CancelOrderRefusal, ExchangeInv, CancelOrderRequest
  <2>3. c \in CancelOrderCommand
    BY <2>2, RequestsAreCommands
  <2> HIDE DEF c
  <2>4. EngineInv'
    <3>1. EngineNext
      BY <2>1, <2>3 DEF EngineNext
    <3> QED
      BY <3>1, EngineNextInv DEF ExchangeInv
  <2>5. /\ event'.type \in {"OrderCancelled", "CommandRejected"}
        /\ next_order_id' = next_order_id
    BY <2>1, EventTypes DEF ProcessCancelOrder, CancelOrder, RefuseCancelOrder
  <2>6. OnlyKnownOrders
    <3>1. CASE CancelOrder(c)
      BY <2>3, <3>1, CancelKeepsOrders DEF CancelOrder, ExchangeInv, EngineInv
    <3>2. CASE RefuseCancelOrder(c)
      BY <3>2, OrdersUntouched DEF RefuseCancelOrder, RejectCancel
    <3> QED
      BY <2>1, <3>1, <3>2 DEF ProcessCancelOrder
  <2>7. ~terminated' /\ client_orders' = client_orders
    BY <2>1, <2>5, OtherEventsKeepTheMapping
  <2>8. AtMostOneReply'
    BY <2>1, <2>5, OneReplyToCommand
  <2> QED
    BY <2>4, <2>5, <2>6, <2>7, <2>8, NoNewOrders DEF ExchangeInv
<1> QED
  BY <1>1, <1>2

LEMMA ContinueNewOrderInv ==
  ASSUME ExchangeInv, ContinueNewOrder
  PROVE  ExchangeInv'
<1>1. ExecuteOrder
  BY DEF ContinueNewOrder, ExecuteOrder
<1>2. EngineInv'
  <2>1. EngineNext
    BY <1>1 DEF EngineNext
  <2> QED
    BY <2>1, EngineNextInv DEF ExchangeInv
<1>3. OnlyKnownOrders
  <2>1. ExecuteStep
    BY <1>1 DEF ExecuteOrder, OnMatch, ReportRested, ReportNothing, ExecuteStep
  <2> QED
    BY <2>1, ExecuteKeepsOrders DEF ExchangeInv, EngineInv
<1>4. ~terminated' /\ UNCHANGED <<client_orders, next_order_id, replies>>
  <2>1. CASE (OnMatch \/ ReportRested) /\ OnEngineEvent(replies)
    <3>1. /\ event'.type \in {"TradeExecuted", "OrderRested"}
          /\ next_order_id' = next_order_id
      BY <2>1, EventTypes DEF OnMatch, ReportRested
    <3> QED
      BY <2>1, <3>1, OtherEventsKeepTheMapping, NoReplyToTrades DEF ExchangeInv
  <2>2. CASE ReportNothing /\ UNCHANGED gatewayVars
    BY <2>2 DEF gatewayVars, ExchangeInv, GatewayNeverTerminates, ReportNothing, engineVars
  <2> QED
    BY <2>1, <2>2 DEF ContinueNewOrder
<1> QED
  BY <1>2, <1>3, <1>4, NoNewOrders DEF ExchangeInv, AtMostOneReply

-----------------------------------------------------------------------------
(* The exchange implements the session                                     *)

(* The clients' ids of the orders in the book.                             *)
Holders == {orders[t].owner : t \in Active}

LEMMA OrdersOfClients ==
  ASSUME ExchangeInv, NEW t \in Active
  PROVE  /\ orders[t].owner \in ClientOrderIds
         /\ orders[t].order_id \in OrderIds /\ orders[t].order_id # Unmapped
         /\ client_orders[orders[t].owner] = orders[t].order_id
         /\ orders_by_id[orders[t].order_id] = t
         /\ t \in Slots
<1>1. orders[t] \in OrderRecord /\ t \in Slots
  BY ActiveSlots DEF ExchangeInv, EngineInv, IInv, TypeOK
<1>2. orders[t].owner \in ClientOrderIds /\ orders[t].order_id \in OrderIds
  BY <1>1 DEF OrderRecord, ClientOrderIds
<1>3. orders[t].order_id # Unmapped
  BY <1>2, OrderIdsAssumption, ArrivalsAssumption DEF Unmapped
<1> QED
  BY <1>1, <1>2, <1>3 DEF ExchangeInv, GatewayNeverTerminates, ClientsReachTheirOrders,
                          EngineInv, IInv, PoolAndMapAgree

(* No client order id holds two orders of the book.                        *)
LEMMA OneOrderEach ==
  ASSUME ExchangeInv, NEW s \in Active, NEW t \in Active,
         orders[s].owner = orders[t].owner
  PROVE  s = t
BY OrdersOfClients

LEMMA OpenOrders == ExchangeInv => OpenClientOrders = Holders
<1> SUFFICES ASSUME ExchangeInv PROVE OpenClientOrders = Holders
  OBVIOUS
<1>1. ASSUME NEW id \in Holders
      PROVE  id \in OpenClientOrders
  <2>1. PICK t \in Active : orders[t].owner = id
    BY DEF Holders
  <2> QED
    BY <2>1, OrdersOfClients, SlotsAssumption DEF OpenClientOrders
<1>2. ASSUME NEW id \in OpenClientOrders
      PROVE  id \in Holders
  <2> DEFINE t == orders_by_id[client_orders[id]]
  <2>1. /\ id \in ClientOrderIds /\ client_orders[id] # Unmapped
        /\ t # NoSlot
    BY DEF OpenClientOrders
  <2>2. client_orders[id] \in OrderIds
    BY <2>1 DEF ExchangeInv
  <2>3. t \in Active /\ orders[t].order_id = client_orders[id]
    BY <2>1, <2>2 DEF ExchangeInv, EngineInv, IInv, PoolAndMapAgree
  <2> HIDE DEF t
  <2>4. orders[t].owner = id
    BY <2>1, <2>3, OrdersOfClients DEF ExchangeInv, MappedOnce
  <2> QED
    BY <2>3, <2>4 DEF Holders
<1> QED
  BY <1>1, <1>2

LEMMA OpenOrdersAfter == ExchangeInv' => OpenClientOrders' = Holders'
<1>1. [](ExchangeInv => OpenClientOrders = Holders)
  BY OpenOrders, PTL
<1>2. (ExchangeInv => OpenClientOrders = Holders)'
  BY <1>1, PTL
<1> QED
  BY <1>2

LEMMA ActiveByFree ==
  (EngineInv => Active = Slots \ free) /\ (EngineInv' => Active' = Slots \ free')
BY DEF EngineInv, IInv, PoolAndMapAgree, Active

(* An order that leaves the book leaves nothing of its client's behind.    *)
LEMMA HoldersAfterDeparture ==
  ASSUME ExchangeInv, OnlyKnownOrders, NEW t \in Active, Active' = Active \ {t}
  PROVE  Holders' = Holders \ {orders[t].owner} /\ orders[t].owner \in Holders
<1>1. \A s \in Active' : orders'[s].owner = orders[s].owner
  BY DEF OnlyKnownOrders
<1>2. Holders' = {orders[s].owner : s \in Active \ {t}}
  BY <1>1 DEF Holders
<1>3. \A s \in Active \ {t} : orders[s].owner # orders[t].owner
  BY OneOrderEach
<1> QED
  BY <1>2, <1>3 DEF Holders

(* Nothing the client could tell.                                          *)
LEMMA SessionStutters ==
  ASSUME UNCHANGED <<client_orders, next_order_id, replies>>,
         OpenClientOrders' = OpenClientOrders
  PROVE  UNCHANGED Client!vars
BY DEF Client!vars

LEMMA SessionFills ==
  ASSUME ExchangeInv, ExchangeInv', OnlyKnownOrders,
         NEW t \in Active, Active' = Active \ {t},
         UNCHANGED <<client_orders, next_order_id, replies>>
  PROVE  Client!Next
<1> DEFINE id == orders[t].owner
<1>1. /\ id \in OpenClientOrders
      /\ OpenClientOrders' = OpenClientOrders \ {id}
  BY HoldersAfterDeparture, OpenOrders, OpenOrdersAfter
<1> HIDE DEF id
<1>2. Client!Fill(id)
  BY <1>1 DEF Client!Fill
<1> QED
  BY <1>1, <1>2 DEF Client!Next

LEMMA SessionRefuses ==
  ASSUME NEW id \in ClientOrderIds, NEW reason \in Client!Reasons,
         reason = "DuplicateClientOrderId" => client_orders[id] # Unmapped,
         reason = "UnknownOrder" => id \notin OpenClientOrders,
         replies' = <<RejectedReply(id, reason)>>,
         UNCHANGED <<orders_by_id, client_orders, next_order_id>>
  PROVE  Client!Next
<1>1. OpenClientOrders' = OpenClientOrders
  BY DEF OpenClientOrders
<1>2. Client!Refuse(id, reason)
  BY <1>1 DEF Client!Refuse, RejectedReply, Client!Rejected, Client!NoOrder, Unmapped
<1> QED
  BY <1>2 DEF Client!Next

-----------------------------------------------------------------------------
(* Each step of the exchange, as the client sees it                        *)

LEMMA RejectLineIsRefuseMessage ==
  ASSUME NEW error \in DecodeErrors, RejectLine(error[1], error[2])
  PROVE  Client!Next
<1> DEFINE id == error[1]
           reason == error[2]
<1>1. id \in ClientOrderIds \cup {NoId} /\ reason \in Client!MessageReasons
  BY DEF DecodeErrors, Client!MessageReasons
<1>2. /\ replies' = <<RejectedReply(id, reason)>>
      /\ UNCHANGED <<orders_by_id, client_orders, next_order_id>>
  BY DEF RejectLine, EmitRejection, vars, engineVars
<1>3. OpenClientOrders' = OpenClientOrders
  BY <1>2 DEF OpenClientOrders
<1> HIDE DEF id, reason
<1>4. Client!RefuseMessage(id, reason)
  BY <1>2, <1>3 DEF Client!RefuseMessage, RejectedReply, Client!Rejected
<1> QED
  BY <1>1, <1>4 DEF Client!Next

LEMMA AcceptedIsAccept ==
  ASSUME ExchangeInv, ExchangeInv', NEW c \in NewOrderCommand, NEW order_type, NEW tif,
         AcceptNewOrder(c, order_type, tif), OnEngineEvent(<<>>),
         client_orders[c.owner] = Unmapped
  PROVE  Client!Next
<1> DEFINE id == c.owner
           n == next_order_id
<1>1. /\ Admit(c, n) /\ n' = n + 1
      /\ event' = OrderAccepted(n, c)
  BY DEF AcceptNewOrder
<1>2. event'.type = "OrderAccepted" /\ event'.owner = id /\ event'.order_id = n
  BY <1>1, EventTypes
<1>3. id \in ClientOrderIds
  BY DEF NewOrderCommand, ClientOrderIds
<1>4. ~terminated'
  BY DEF ExchangeInv, GatewayNeverTerminates
<1>5. client_orders' = [client_orders EXCEPT ![id] = n]
  BY <1>2, <1>4 DEF OnEngineEvent, MappingAfter
<1>6. replies' = <<AcceptedReply(id, n)>>
  BY <1>2, <1>4, OneReplyToCommand, Answers
<1>7. PICK slot \in free :
        /\ orders' = [orders EXCEPT ![slot] =
             [active |-> TRUE, order_id |-> n, owner |-> c.owner, side |-> c.side,
              price |-> c.price, remaining_quantity |-> c.quantity, seq |-> arrivals']]
        /\ free' = free \ {slot}
  BY <1>1 DEF Admit
<1>8. /\ slot \in Slots /\ slot \notin Active
      /\ orders \in [Slots -> OrderRecord \cup {BlankOrder}]
  BY <1>7 DEF ExchangeInv, EngineInv, IInv, TypeOK, PoolAndMapAgree
<1>9. /\ orders'[slot].owner = id
      /\ \A t \in Active : orders'[t] = orders[t]
  BY <1>7, <1>8 DEF Active
<1>10. Active' = Active \cup {slot}
  <2>1. Active = Slots \ free /\ Active' = Slots \ free'
    BY ActiveByFree DEF ExchangeInv
  <2> QED
    BY <1>7, <1>8, <2>1
<1>11. Holders' = Holders \cup {id}
  BY <1>9, <1>10 DEF Holders
<1>12. OpenClientOrders' = OpenClientOrders \cup {id}
  BY <1>11, OpenOrders, OpenOrdersAfter
<1>13. n \in Int
  BY NextIdIsFree, OrderIdsAssumption, ArrivalsAssumption DEF ExchangeInv
<1>14. (next_order_id - 1)' = (next_order_id - 1) + 1 /\ (next_order_id - 1)' = n
  BY <1>1, <1>13
<1> HIDE DEF id, n
<1>15. Client!Accept(id)
  <2>1. client_orders[id] = Client!NoOrder
    BY DEF id, Unmapped, Client!NoOrder
  <2>2. replies' = <<Client!Accepted(id, n)>>
    BY <1>6 DEF AcceptedReply, Client!Accepted
  <2> QED
    BY <1>5, <1>12, <1>14, <2>1, <2>2 DEF Client!Accept
<1> QED
  BY <1>3, <1>15 DEF Client!Next

LEMMA RefusedByGateway ==
  ASSUME NEW id \in ClientOrderIds, NEW reason \in Client!Reasons,
         reason = "DuplicateClientOrderId" => client_orders[id] # Unmapped,
         reason = "UnknownOrder" => client_orders[id] = Unmapped,
         EmitRejection(id, reason)
  PROVE  Client!Next
<1>1. /\ replies' = <<RejectedReply(id, reason)>>
      /\ UNCHANGED <<orders_by_id, client_orders, next_order_id>>
  BY DEF EmitRejection, vars, engineVars
<1>2. reason = "UnknownOrder" => id \notin OpenClientOrders
  BY DEF OpenClientOrders
<1> QED
  BY <1>1, <1>2, SessionRefuses

LEMMA RefusedByEngine ==
  ASSUME ExchangeInv', NEW id \in ClientOrderIds, NEW reason \in Client!Reasons,
         NEW command_type, reason # "DuplicateClientOrderId",
         reason = "UnknownOrder" => id \notin OpenClientOrders,
         event' = CommandRejected(id, command_type, reason),
         OnEngineEvent(<<>>),
         UNCHANGED <<orders_by_id, next_order_id>>
  PROVE  Client!Next
<1>1. /\ event'.type = "CommandRejected"
      /\ event'.owner = id /\ event'.reason = reason
  BY DEF CommandRejected
<1>2. ~terminated' /\ client_orders' = client_orders
  BY <1>1, OtherEventsKeepTheMapping
<1>3. replies' = <<RejectedReply(id, reason)>>
  BY <1>1, <1>2, OneReplyToCommand, Answers
<1> QED
  BY <1>2, <1>3, SessionRefuses

LEMMA NewOrderKeepsSession ==
  ASSUME ExchangeInv, ExchangeInv', NEW r \in NewOrderRequest, HandleNewOrder(r)
  PROVE  Client!Next
<1> DEFINE id == r.client_order_id
           c == [symbol_id |-> r.symbol, owner |-> id, side |-> r.side,
                 price |-> r.price, quantity |-> r.quantity]
<1>1. /\ c \in NewOrderCommand /\ id \in ClientOrderIds /\ c.owner = id
      /\ c.symbol_id = r.symbol /\ c.quantity = r.quantity
  BY RequestsAreCommands
<1>2. CASE NewOrderRefusal(r) # "None"
  <2> DEFINE reason == NewOrderRefusal(r)
  <2>1. /\ EmitRejection(id, reason)
        /\ reason \in {"DuplicateClientOrderId", "UnknownSymbol"}
        /\ reason = "DuplicateClientOrderId" => client_orders[id] # Unmapped
    BY <1>2 DEF HandleNewOrder, NewOrderRefusal
  <2> HIDE DEF reason, id
  <2> QED
    BY <1>1, <2>1, RefusedByGateway DEF Client!Reasons
<1>3. CASE NewOrderRefusal(r) = "None"
  <2>1. /\ ProcessNewOrder(c, r.order_type, r.tif)
        /\ OnEngineEvent(<<>>)
    BY <1>3 DEF HandleNewOrder
  <2>2. client_orders[id] = Unmapped /\ c.symbol_id = BookSymbol
    BY <1>1, <1>3 DEF NewOrderRefusal, Resolves
  <2>3. c.quantity # 0
    BY <1>1 DEF NewOrderRequest
  <2> HIDE DEF c, id
  <2>4. CASE AcceptNewOrder(c, r.order_type, r.tif)
    BY <1>1, <2>1, <2>2, <2>4, AcceptedIsAccept
  <2>5. CASE RefuseUnsupported(c.owner, r.order_type, r.tif)
    <3> DEFINE reason == Unsupported(r.order_type, r.tif)
    <3>1. reason \in {"UnsupportedOrderType", "UnsupportedTimeInForce"}
      BY <2>5 DEF RefuseUnsupported, Unsupported
    <3>2. /\ event' = CommandRejected(id, "NewOrder", reason)
          /\ UNCHANGED <<orders_by_id, next_order_id>>
      BY <1>1, <2>5 DEF RefuseUnsupported, bookVars
    <3> HIDE DEF reason
    <3> QED
      BY <1>1, <2>1, <3>1, <3>2, RefusedByEngine DEF Client!Reasons
  <2>6. CASE RefuseNewOrder(c, r.order_type, r.tif)
    <3> DEFINE reason == AdmitRefusal(c, next_order_id)
    <3>1. /\ output' = Rejected(reason) /\ reason # "None"
          /\ event' = CommandRejected(id, "NewOrder", output'.reason)
          /\ UNCHANGED <<orders_by_id, next_order_id>>
      BY <1>1, <2>6 DEF RefuseNewOrder, RejectNew
    <3>2. reason \in {"InvalidPrice", "CapacityExhausted"}
      BY <2>2, <2>3, <3>1, RefusalReasons DEF AdmitRefusal, ExchangeInv
    <3>3. output'.reason = reason
      BY <3>1 DEF Rejected
    <3> HIDE DEF reason
    <3> QED
      BY <1>1, <2>1, <3>1, <3>2, <3>3, RefusedByEngine DEF Client!Reasons
  <2> QED
    BY <1>1, <2>1, <2>4, <2>5, <2>6 DEF ProcessNewOrder
<1> QED
  BY <1>2, <1>3

(* A client names only its own orders.                                     *)
LEMMA CancelNamesOwnOrder ==
  ASSUME ExchangeInv, NEW c \in CancelOrderCommand,
         c.order_id = client_orders[c.owner], c.symbol_id = BookSymbol,
         orders_by_id[c.order_id] # NoSlot
  PROVE  /\ orders_by_id[c.order_id] \in Active
         /\ orders[orders_by_id[c.order_id]].owner = c.owner
         /\ orders[orders_by_id[c.order_id]].order_id = c.order_id
         /\ CancelRefusal(c) = "None"
<1> DEFINE t == orders_by_id[c.order_id]
<1>1. c.order_id \in OrderIds /\ c.owner \in ClientOrderIds
  BY DEF CancelOrderCommand, ClientOrderIds
<1>2. t \in Active /\ orders[t].order_id = c.order_id
  BY <1>1 DEF ExchangeInv, EngineInv, IInv, PoolAndMapAgree
<1> HIDE DEF t
<1>3. /\ orders[t].owner \in ClientOrderIds
      /\ client_orders[orders[t].owner] = client_orders[c.owner]
      /\ client_orders[c.owner] # Unmapped
  BY <1>2, OrdersOfClients
<1>4. orders[t].owner = c.owner
  BY <1>1, <1>3 DEF ExchangeInv, MappedOnce
<1> QED
  BY <1>2, <1>4 DEF CancelRefusal, t

LEMMA CancelKeepsSession ==
  ASSUME ExchangeInv, ExchangeInv', NEW r \in CancelOrderRequest, HandleCancelOrder(r)
  PROVE  Client!Next
<1> DEFINE id == r.client_order_id
           c == [symbol_id |-> r.symbol, owner |-> id, order_id |-> client_orders[id]]
           t == orders_by_id[c.order_id]
<1>1. id \in ClientOrderIds
  BY DEF CancelOrderRequest
<1>2. CASE CancelOrderRefusal(r) # "None"
  <2> DEFINE reason == CancelOrderRefusal(r)
  <2>1. /\ EmitRejection(id, reason)
        /\ reason \in {"UnknownSymbol", "UnknownOrder"}
        /\ reason = "UnknownOrder" => client_orders[id] = Unmapped
    BY <1>2 DEF HandleCancelOrder, CancelOrderRefusal
  <2> HIDE DEF reason, id
  <2> QED
    BY <1>1, <2>1, RefusedByGateway DEF Client!Reasons
<1>3. CASE CancelOrderRefusal(r) = "None"
  <2>1. /\ ProcessCancelOrder(c)
        /\ OnEngineEvent(<<>>)
    BY <1>3 DEF HandleCancelOrder
  <2>2. /\ client_orders[id] # Unmapped /\ client_orders[id] \in OrderIds
        /\ r.symbol = BookSymbol
    BY <1>1, <1>3, OrderIdsAssumption, ArrivalsAssumption
       DEF CancelOrderRefusal, Resolves, ExchangeInv
  <2>3. /\ c \in CancelOrderCommand
        /\ c.order_id = client_orders[c.owner] /\ c.symbol_id = BookSymbol
        /\ c.owner = id
    BY <2>2, RequestsAreCommands
  <2>4. t # NoSlot =>
          /\ t \in Active /\ orders[t].owner = id /\ orders[t].order_id = c.order_id
          /\ CancelRefusal(c) = "None"
    <3> HIDE DEF c, id
    <3> QED
      BY <2>3, CancelNamesOwnOrder
  <2> HIDE DEF c, id
  <2>5. CASE CancelOrder(c)
    <3>1. /\ Cancel(c)
          /\ output' = Cancelled(orders[t])
          /\ event' = OrderCancelled(output', orders[t])
          /\ free' = free \cup {t}
          /\ next_order_id' = next_order_id
      BY <2>5 DEF CancelOrder, Cancel, Depart
    <3>2. t \in Active /\ orders[t].owner = id /\ orders[t].order_id = c.order_id
      BY <2>4, <3>1 DEF Cancel, CancelRefusal
    <3>3. Active' = Active \ {t}
      <4>1. Active = Slots \ free /\ Active' = Slots \ free'
        BY ActiveByFree DEF ExchangeInv
      <4> QED
        BY <3>1, <4>1
    <3>4. OnlyKnownOrders
      BY <2>3, <3>1, CancelKeepsOrders DEF ExchangeInv, EngineInv
    <3>5. id \in OpenClientOrders /\ OpenClientOrders' = OpenClientOrders \ {id}
      <4> HIDE DEF t
      <4> QED
        BY <3>2, <3>3, <3>4, HoldersAfterDeparture, OpenOrders, OpenOrdersAfter
    <3>6. event'.owner = id /\ event'.order_id = c.order_id
      <4>1. event'.owner = orders[t].owner /\ event'.order_id = output'.order_id
        BY <3>1 DEF OrderCancelled
      <4>2. output'.order_id = orders[t].order_id
        BY <3>1 DEF Cancelled
      <4> QED
        BY <3>2, <4>1, <4>2
    <3>7. event'.type = "OrderCancelled"
      BY <3>1, EventTypes
    <3>8. ~terminated' /\ client_orders' = client_orders
      BY <2>1, <3>7, OtherEventsKeepTheMapping
    <3>9. replies' = <<CancelledReply(id, client_orders[id])>>
      BY <2>1, <2>3, <3>6, <3>7, <3>8, OneReplyToCommand, Answers
    <3>10. Client!Cancel(id)
      BY <3>1, <3>5, <3>8, <3>9 DEF Client!Cancel, CancelledReply, Client!Cancelled
    <3> QED
      BY <3>5, <3>10 DEF Client!Next
  <2>6. CASE RefuseCancelOrder(c)
    <3> DEFINE reason == CancelRefusal(c)
    <3>1. /\ output' = Rejected(reason) /\ reason # "None"
          /\ event' = CommandRejected(id, "CancelOrder", output'.reason)
          /\ UNCHANGED <<orders_by_id, next_order_id>>
      BY <2>3, <2>6 DEF RefuseCancelOrder, RejectCancel
    <3>2. t = NoSlot /\ reason = "UnknownOrder"
      BY <2>3, <2>4, <3>1 DEF CancelRefusal
    <3>3. id \notin OpenClientOrders
      BY <2>3, <3>2 DEF OpenClientOrders
    <3>4. output'.reason = reason
      BY <3>1 DEF Rejected
    <3> HIDE DEF reason
    <3> QED
      BY <1>1, <2>1, <3>1, <3>2, <3>3, <3>4, RefusedByEngine DEF Client!Reasons
  <2> QED
    BY <2>1, <2>5, <2>6 DEF ProcessCancelOrder
<1> QED
  BY <1>2, <1>3

(* What execute does is a fill to the client whose order it uses up, and   *)
(* nothing to the others.                                                  *)
LEMMA ContinueKeepsSession ==
  ASSUME ExchangeInv, ExchangeInv', ContinueNewOrder
  PROVE  Client!Next \/ UNCHANGED Client!vars
<1>1. ExecuteStep
  BY DEF ContinueNewOrder, OnMatch, ReportRested, ReportNothing, ExecuteStep
<1>2. OnlyKnownOrders
  BY <1>1, ExecuteKeepsOrders DEF ExchangeInv, EngineInv
<1>3. UNCHANGED <<client_orders, next_order_id, replies>>
  <2>1. CASE (OnMatch \/ ReportRested) /\ OnEngineEvent(replies)
    <3>1. /\ event'.type \in {"TradeExecuted", "OrderRested"}
          /\ next_order_id' = next_order_id
      BY <2>1, EventTypes DEF OnMatch, ReportRested
    <3> QED
      BY <2>1, <3>1, OtherEventsKeepTheMapping, NoReplyToTrades DEF ExchangeInv
  <2>2. CASE ReportNothing /\ UNCHANGED gatewayVars
    BY <2>2 DEF gatewayVars, ReportNothing, engineVars
  <2> QED
    BY <2>1, <2>2 DEF ContinueNewOrder
<1>4. Active = Slots \ free /\ Active' = Slots \ free'
  BY ActiveByFree DEF ExchangeInv
<1>5. CASE FillPartially \/ Rest
  <2>1. UNCHANGED <<orders_by_id, client_orders>>
    BY <1>3, <1>5 DEF FillPartially, Rest
  <2>2. OpenClientOrders' = OpenClientOrders
    BY <2>1 DEF OpenClientOrders
  <2> QED
    BY <1>3, <2>2, SessionStutters
<1>6. CASE FillCompletely
  <2>1. free' = free \cup {Standing} /\ aggressor # NoSlot /\ Marketable(orders[aggressor])
    BY <1>6 DEF FillCompletely, Depart, Execute
  <2>2. Standing \in Active
    BY <2>1, StandingOrder DEF Resting, ExchangeInv, EngineInv
  <2>3. Active' = Active \ {Standing}
    BY <1>4, <2>1
  <2> QED
    BY <1>2, <1>3, <2>2, <2>3, SessionFills
<1>7. CASE FinishFilled
  <2>1. free' = free \cup {aggressor} /\ aggressor # NoSlot
    BY <1>7 DEF FinishFilled
  <2>2. aggressor \in Active
    BY <2>1 DEF ExchangeInv, EngineInv, IInv, PoolAndMapAgree
  <2>3. Active' = Active \ {aggressor}
    BY <1>4, <2>1
  <2> QED
    BY <1>2, <1>3, <2>2, <2>3, SessionFills
<1> QED
  BY <1>1, <1>5, <1>6, <1>7 DEF ExecuteStep

LEMMA SessionInit ==
  ASSUME ExchangeInit
  PROVE  Client!Init
<1>1. /\ next_order_id = 1 /\ replies = <<>>
      /\ client_orders = [id \in ClientOrderIds |-> Unmapped]
  BY DEF ExchangeInit, EngineInit
<1>2. OpenClientOrders = {}
  BY <1>1 DEF OpenClientOrders
<1> QED
  BY <1>1, <1>2 DEF Client!Init, Client!NoOrder, Unmapped

LEMMA SessionStep ==
  ASSUME ExchangeInv, ExchangeInv', [ExchangeNext]_exchangeVars
  PROVE  [Client!Next]_(Client!vars)
<1>1. ASSUME UNCHANGED exchangeVars
      PROVE  UNCHANGED Client!vars
  <2>1. UNCHANGED <<orders_by_id, client_orders, next_order_id, replies>>
    BY <1>1 DEF exchangeVars, vars, engineVars, gatewayVars
  <2>2. OpenClientOrders' = OpenClientOrders
    BY <2>1 DEF OpenClientOrders
  <2> QED
    BY <2>1, <2>2, SessionStutters
<1> QED
  BY <1>1, RejectLineIsRefuseMessage, NewOrderKeepsSession, CancelKeepsSession,
     ContinueKeepsSession DEF ExchangeNext

-----------------------------------------------------------------------------
(* The theorems                                                            *)

(* Whatever lines the client sends, ExchangeInv holds in every state.      *)
THEOREM ExchangeInvariance == ExchangeSpec => []ExchangeInv
<1>1. ExchangeInit => ExchangeInv
  <2> SUFFICES ASSUME ExchangeInit PROVE ExchangeInv
    OBVIOUS
  <2>1. EngineInv /\ Init
    BY EngineInitInv DEF ExchangeInit, EngineInit
  <2>2. Active = {}
    BY <2>1 DEF Init, Active, BlankOrder
  <2> QED
    <3>1. MappedOnce /\ AtMostOneReply
      BY DEF ExchangeInit, EngineInit, MappedOnce, AtMostOneReply, Unmapped
    <3> QED
      BY <2>1, <2>2, <3>1 DEF ExchangeInit, ExchangeInv, GatewayNeverTerminates,
                              ClientsReachTheirOrders
<1>2. ExchangeInv /\ [ExchangeNext]_exchangeVars => ExchangeInv'
  <2> SUFFICES ASSUME ExchangeInv, [ExchangeNext]_exchangeVars
               PROVE  ExchangeInv'
    OBVIOUS
  <2>1. ASSUME NEW id, NEW reason, RejectLine(id, reason)
        PROVE  ExchangeInv'
    BY <2>1, UnchangedExchangeInv DEF RejectLine, EmitRejection, AtMostOneReply
  <2>2. CASE UNCHANGED exchangeVars
    BY <2>2, UnchangedExchangeInv DEF exchangeVars, gatewayVars, ExchangeInv, AtMostOneReply
  <2> QED
    BY <2>1, <2>2, HandleNewOrderInv, HandleCancelOrderInv, ContinueNewOrderInv
    DEF ExchangeNext
<1> QED
  BY <1>1, <1>2, PTL DEF ExchangeSpec

(* The gateway's consistency check never ends the process, for any number  *)
(* of client order ids and any sequence of lines.                          *)
THEOREM GatewayAlwaysConsistent == ExchangeSpec => []GatewayNeverTerminates
BY ExchangeInvariance, PTL DEF ExchangeInv

(* Every order in the book can be cancelled under its client order id.     *)
THEOREM OrdersReachable == ExchangeSpec => []ClientsReachTheirOrders
BY ExchangeInvariance, PTL DEF ExchangeInv

(* The book is uncrossed, and pool, map, levels and caches agree, in the   *)
(* whole program as they do in the book alone.                             *)
THEOREM ExchangeKeepsBook == ExchangeSpec => []IInv
BY ExchangeInvariance, PTL DEF ExchangeInv, EngineInv

(* One reply to every request, one order to every client order id, and an  *)
(* order is open from its ACCEPTED until it is filled or its CANCELLED: no *)
(* request is refused as a duplicate unless its id was accepted, none as   *)
(* unknown while the order is open, and no client is ever told that an     *)
(* order is not its own (OrderGateway.cpp:17-256).                         *)
THEOREM ExchangeIsSession == ExchangeSpec => ImplementsSession
<1>1. ExchangeInit => Client!Init
  BY SessionInit
<1>2. ExchangeInv /\ ExchangeInv' /\ [ExchangeNext]_exchangeVars
        => [Client!Next]_(Client!vars)
  BY SessionStep
<1> QED
  BY <1>1, <1>2, ExchangeInvariance, PTL DEF ExchangeSpec, ImplementsSession, Client!Spec

=============================================================================
