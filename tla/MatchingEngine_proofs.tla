----------------------- MODULE MatchingEngine_proofs -----------------------
(***************************************************************************)
(* Proofs about the matching engine, for every value of its constants: the *)
(* book stays what OrderBook_proofs shows it to be under everything the    *)
(* engine does with it, the ids are given out without gaps and in the      *)
(* order the orders stand in, and the events implement module EventStream. *)
(***************************************************************************)
EXTENDS MatchingEngine, OrderBook_proofs

-----------------------------------------------------------------------------
(* The inductive invariant                                                 *)

(* What the book reports is told apart by its kind and reason.             *)
LEMMA ReportKinds ==
  /\ Silent # Rejected("MatchingEngineError")
  /\ \A reason : Rejected(reason) = Rejected("MatchingEngineError") =>
                 reason = "MatchingEngineError"
  /\ \A id : /\ Admitted(id) # Rejected("MatchingEngineError")
             /\ Filled(id) # Rejected("MatchingEngineError")
  /\ \A o : /\ Rested(o) # Rejected("MatchingEngineError")
            /\ Cancelled(o) # Rejected("MatchingEngineError")
  /\ \A o, r, q : Execution(o, r, q) # Rejected("MatchingEngineError")
<1>1. /\ Silent.kind = "Silent"
      /\ \A reason : /\ Rejected(reason).kind = "Rejected"
                     /\ Rejected(reason).reason = reason
  BY DEF Silent, Rejected
<1>2. \A id : Admitted(id).kind = "Admitted" /\ Filled(id).kind = "Filled"
  BY DEF Admitted, Filled
<1>3. \A o : Rested(o).kind = "Rested" /\ Cancelled(o).kind = "Cancelled"
  BY DEF Rested, Cancelled
<1>4. \A o, r, q : Execution(o, r, q).kind = "Execution"
  BY DEF Execution
<1> QED
  BY <1>1, <1>2, <1>3, <1>4

LEMMA EngineInitInv == EngineInit => EngineInv
<1> SUFFICES ASSUME EngineInit PROVE EngineInv
  OBVIOUS
<1>1. Init /\ IInv
  BY InitInv DEF EngineInit
<1>2. Active = {}
  BY <1>1 DEF Init, Active, BlankOrder
<1>3. output # Rejected("MatchingEngineError")
  BY <1>1, ReportKinds DEF Init
<1> QED
  BY <1>1, <1>2, <1>3 DEF EngineInit, EngineInv, IdsConsecutive, IdsFollowArrivals, Init

(* Every step of the engine is a step of its book or leaves the book as it *)
(* is, apart from what is reported.                                        *)
LEMMA EngineStepOfBook ==
  ASSUME [EngineNext]_<<vars, engineVars>>, next_order_id \in OrderIds
  PROVE  [Next]_vars \/ UNCHANGED bookVars
<1>1. ASSUME NEW c \in NewOrderCommand, NEW order_type \in OrderTypes,
             NEW tif \in TimesInForce,
             \/ AcceptNewOrder(c, order_type, tif)
             \/ RefuseNewOrder(c, order_type, tif)
      PROVE  Next
  BY <1>1 DEF AcceptNewOrder, RefuseNewOrder, Next
<1>2. ASSUME NEW owner \in Owners, NEW order_type \in OrderTypes,
             NEW tif \in TimesInForce, RefuseUnsupported(owner, order_type, tif)
      PROVE  UNCHANGED bookVars
  BY <1>2 DEF RefuseUnsupported
<1>3. CASE ExecuteOrder
  BY <1>3 DEF ExecuteOrder, OnMatch, ReportRested, ReportNothing, Next, ExecuteStep
<1>4. ASSUME NEW c \in CancelOrderCommand, ProcessCancelOrder(c)
      PROVE  Next
  BY <1>4 DEF ProcessCancelOrder, CancelOrder, RefuseCancelOrder, Next
<1>5. ASSUME NEW owner \in Owners, RefuseReplaceOrder(owner)
      PROVE  UNCHANGED bookVars
  BY <1>5 DEF RefuseReplaceOrder
<1>6. CASE UNCHANGED <<vars, engineVars>>
  BY <1>6
<1> QED
  BY <1>1, <1>2, <1>3, <1>4, <1>5, <1>6 DEF EngineNext

(* The id the engine is about to give out is one of OrderIds, and no order *)
(* of the book has it.                                                     *)
LEMMA NextIdIsFree ==
  ASSUME EngineInv
  PROVE  /\ next_order_id \in OrderIds
         /\ next_order_id = arrivals + 1
         /\ orders_by_id[next_order_id] = NoSlot
<1>1. /\ arrivals \in 0 .. MaxArrivals
      /\ next_order_id = arrivals + 1
  BY DEF EngineInv, IdsConsecutive, IInv, TypeOK
<1>2. next_order_id \in OrderIds
  BY <1>1, ArrivalsAssumption, OrderIdsAssumption
<1>3. orders_by_id[next_order_id] = NoSlot
  <2> SUFFICES ASSUME orders_by_id[next_order_id] # NoSlot PROVE FALSE
    OBVIOUS
  <2> DEFINE slot == orders_by_id[next_order_id]
  <2>1. slot \in Active /\ orders[slot].order_id = next_order_id
    BY <1>2 DEF EngineInv, IInv, PoolAndMapAgree
  <2>2. orders[slot].seq <= arrivals /\ orders[slot].order_id = orders[slot].seq
    BY <2>1 DEF EngineInv, IInv, ArrivalOrder, IdsFollowArrivals
  <2> HIDE DEF slot
  <2> QED
    BY <1>1, <2>1, <2>2
<1> QED
  BY <1>1, <1>2, <1>3

(* A step that brings no order into the book, and only lessens what those  *)
(* in it want.                                                             *)
OnlyKnownOrders ==
  \A t \in Active' : /\ t \in Active
                     /\ orders'[t].order_id = orders[t].order_id
                     /\ orders'[t].seq = orders[t].seq
                     /\ orders'[t].owner = orders[t].owner

LEMMA IdsKept ==
  ASSUME EngineInv, OnlyKnownOrders
  PROVE  IdsFollowArrivals'
BY DEF EngineInv, IdsFollowArrivals, OnlyKnownOrders

(* Identity is what an order keeps when its quantity changes.              *)
LEMMA IdentityKept ==
  ASSUME NEW o \in OrderRecord, NEW n
  PROVE  LET changed == [o EXCEPT !.remaining_quantity = n]
         IN  /\ changed.order_id = o.order_id
             /\ changed.seq = o.seq
             /\ changed.owner = o.owner
BY DEF OrderRecord

LEMMA FillKeepsOrders ==
  ASSUME IInv, FillPartially \/ FillCompletely
  PROVE  OnlyKnownOrders
<1> DEFINE slot == Standing
           q == ExecutedQuantity
<1>1. Execute(slot, q)
  BY DEF FillPartially, FillCompletely
<1>2. /\ orders \in [Slots -> OrderRecord \cup {BlankOrder}]
      /\ aggressor # NoSlot /\ Marketable(orders[aggressor])
  BY <1>1 DEF IInv, TypeOK, Execute
<1>3. /\ slot \in Active /\ slot # aggressor /\ aggressor \in Active
      /\ orders[slot] \in OrderRecord /\ orders[aggressor] \in OrderRecord
  BY <1>2, StandingOrder DEF IInv, PoolAndMapAgree, Resting
<1>4. slot \in Slots /\ aggressor \in Slots
  BY <1>3 DEF Active
<1>5. /\ orders'[aggressor] = [orders[aggressor] EXCEPT !.remaining_quantity = @ - q]
      /\ \/ orders'[slot] = [orders[slot] EXCEPT !.remaining_quantity = @ - q]
         \/ orders'[slot] = BlankOrder
      /\ \A t \in Slots \ {aggressor, slot} : orders'[t] = orders[t]
  <2>1. CASE FillPartially
    <3>1. orders' = [orders EXCEPT ![aggressor].remaining_quantity = @ - q,
                                   ![slot].remaining_quantity = @ - q]
      BY <2>1 DEF FillPartially
    <3> HIDE DEF slot, q
    <3> QED
      BY <3>1, <1>2, <1>3, <1>4
  <2>2. CASE FillCompletely
    <3>1. orders' = [orders EXCEPT ![aggressor].remaining_quantity = @ - q,
                                   ![slot] = BlankOrder]
      BY <2>2 DEF FillCompletely
    <3> HIDE DEF slot, q
    <3> QED
      BY <3>1, <1>2, <1>3, <1>4
  <2> QED
    BY <2>1, <2>2
<1> HIDE DEF slot, q
<1>6. ASSUME NEW t \in Active'
      PROVE  /\ t \in Active
             /\ orders'[t].order_id = orders[t].order_id
             /\ orders'[t].seq = orders[t].seq
             /\ orders'[t].owner = orders[t].owner
  <2>1. t \in Slots /\ orders'[t].active
    BY DEF Active
  <2>2. CASE t = aggressor
    <3>1. orders'[t] = [orders[t] EXCEPT !.remaining_quantity =
                          orders[t].remaining_quantity - q]
      BY <2>2, <1>5
    <3> QED
      BY <3>1, <2>2, <1>3, IdentityKept
  <2>3. CASE t = slot
    <3>1. orders'[slot] # BlankOrder
      BY <2>1, <2>3, RecordsAreActive
    <3>2. orders'[t] = [orders[t] EXCEPT !.remaining_quantity =
                          orders[t].remaining_quantity - q]
      BY <2>3, <3>1, <1>5
    <3> QED
      BY <3>2, <2>3, <1>3, IdentityKept
  <2>4. CASE t \notin {aggressor, slot}
    BY <2>1, <2>4, <1>5 DEF Active
  <2> QED
    BY <2>2, <2>3, <2>4
<1> QED
  BY <1>6 DEF OnlyKnownOrders

LEMMA RemovalKeepsOrders ==
  ASSUME IInv, NEW slot \in Slots, orders' = [orders EXCEPT ![slot] = BlankOrder]
  PROVE  OnlyKnownOrders
<1>1. \A t \in Active' : t \in Active /\ orders'[t] = orders[t]
  BY RecordsAreActive DEF IInv, TypeOK, Active
<1> QED
  BY <1>1 DEF OnlyKnownOrders

(* What execute does after admission, and a cancel, bring in no order.     *)
LEMMA ExecuteKeepsOrders ==
  ASSUME IInv, ExecuteStep
  PROVE  OnlyKnownOrders
<1>1. CASE FillPartially \/ FillCompletely
  BY <1>1, FillKeepsOrders
<1>2. CASE Rest
  BY <1>2 DEF Rest, OnlyKnownOrders, Active
<1>3. CASE FinishFilled
  BY <1>3, RemovalKeepsOrders DEF FinishFilled, IInv, TypeOK
<1> QED
  BY <1>1, <1>2, <1>3 DEF ExecuteStep

LEMMA CancelKeepsOrders ==
  ASSUME IInv, NEW c \in CancelOrderCommand, Cancel(c)
  PROVE  OnlyKnownOrders
<1>1. orders_by_id[c.order_id] \in Slots
  BY DEF Cancel, CancelRefusal, CancelOrderCommand, IInv, TypeOK
<1> QED
  BY <1>1, RemovalKeepsOrders DEF Cancel

-----------------------------------------------------------------------------
(* The steps of the engine                                                 *)

LEMMA AcceptNewOrderInv ==
  ASSUME EngineInv, NEW c \in NewOrderCommand, NEW order_type, NEW tif,
         AcceptNewOrder(c, order_type, tif)
  PROVE  /\ IdsConsecutive'
         /\ IdsFollowArrivals'
         /\ output' # Rejected("MatchingEngineError")
<1>1. /\ Admit(c, next_order_id)
      /\ next_order_id' = next_order_id + 1
      /\ next_trade_id' = next_trade_id
  BY DEF AcceptNewOrder
<1>2. PICK slot \in free : orders' = [orders EXCEPT ![slot] =
          [active |-> TRUE, order_id |-> next_order_id, owner |-> c.owner,
           side |-> c.side, price |-> c.price, remaining_quantity |-> c.quantity,
           seq |-> arrivals']]
  BY <1>1 DEF Admit
<1>3. /\ arrivals' = arrivals + 1 /\ execution_count' = execution_count
      /\ output' = Admitted(next_order_id)
  BY <1>1 DEF Admit
<1>4. /\ orders \in [Slots -> OrderRecord \cup {BlankOrder}] /\ slot \in Slots
      /\ arrivals \in Nat /\ next_order_id = arrivals + 1
  BY <1>2, NextIdIsFree, ArrivalsAssumption DEF EngineInv, IInv, TypeOK
<1>5. /\ orders'[slot].order_id = orders'[slot].seq
      /\ \A t \in Slots \ {slot} : orders'[t] = orders[t]
  BY <1>2, <1>3, <1>4
<1>6. IdsFollowArrivals'
  BY <1>5 DEF IdsFollowArrivals, EngineInv, Active
<1>7. IdsConsecutive'
  BY <1>1, <1>3, <1>4 DEF IdsConsecutive, EngineInv
<1> QED
  BY <1>3, <1>6, <1>7, ReportKinds

LEMMA ExecuteOrderInv ==
  ASSUME EngineInv, ExecuteOrder
  PROVE  /\ IdsConsecutive'
         /\ IdsFollowArrivals'
         /\ output' # Rejected("MatchingEngineError")
<1>1. IdsFollowArrivals'
  <2>1. ExecuteStep
    BY DEF ExecuteOrder, OnMatch, ReportRested, ReportNothing, ExecuteStep
  <2> QED
    BY <2>1, ExecuteKeepsOrders, IdsKept DEF EngineInv
<1>2. CASE OnMatch
  <2>1. Execute(Standing, ExecutedQuantity) /\ arrivals' = arrivals
    BY <1>2 DEF OnMatch, FillPartially, FillCompletely
  <2>2. /\ execution_count' = execution_count + 1
        /\ next_trade_id' = next_trade_id + 1 /\ next_order_id' = next_order_id
        /\ output' # Rejected("MatchingEngineError")
    BY <1>2, <2>1, ReportKinds DEF Execute, OnMatch
  <2> QED
    BY <1>1, <2>1, <2>2 DEF IdsConsecutive, EngineInv
<1>3. CASE ReportRested \/ ReportNothing
  <2>1. /\ UNCHANGED <<execution_count, arrivals, next_order_id, next_trade_id>>
        /\ output' # Rejected("MatchingEngineError")
    BY <1>3, ReportKinds DEF ReportRested, Rest, ReportNothing, FinishFilled, engineVars
  <2> QED
    BY <1>1, <2>1 DEF EngineInv, IdsConsecutive
<1> QED
  BY <1>2, <1>3 DEF ExecuteOrder

LEMMA CancelOrderInv ==
  ASSUME EngineInv, NEW c \in CancelOrderCommand, CancelOrder(c)
  PROVE  /\ IdsConsecutive'
         /\ IdsFollowArrivals'
         /\ output' # Rejected("MatchingEngineError")
<1>1. Cancel(c) /\ UNCHANGED <<next_order_id, next_trade_id>>
  BY DEF CancelOrder
<1>2. /\ UNCHANGED <<execution_count, arrivals>>
      /\ output' # Rejected("MatchingEngineError")
  BY <1>1, ReportKinds DEF Cancel
<1>3. IdsFollowArrivals'
  BY <1>1, CancelKeepsOrders, IdsKept DEF EngineInv
<1> QED
  BY <1>1, <1>2, <1>3 DEF EngineInv, IdsConsecutive

(* No command is refused because of the id its order would have.           *)
LEMMA RefusalReasons ==
  ASSUME EngineInv
  PROVE  /\ \A c : AdmitRefusal(c, next_order_id) # "MatchingEngineError"
         /\ \A c : CancelRefusal(c) # "MatchingEngineError"
BY NextIdIsFree DEF AdmitRefusal, CancelRefusal

LEMMA EngineNextInv ==
  ASSUME EngineInv, [EngineNext]_<<vars, engineVars>>
  PROVE  EngineInv'
<1> DEFINE Ids ==
      /\ IdsConsecutive'
      /\ IdsFollowArrivals'
      /\ output' # Rejected("MatchingEngineError")
<1>1. IInv'
  BY EngineStepOfBook, NextIdIsFree, NextInv, UnchangedInv DEF EngineInv, bookVars
<1>2. ASSUME UNCHANGED <<orders, execution_count, arrivals, next_order_id, next_trade_id>>,
             output' # Rejected("MatchingEngineError")
      PROVE  Ids
  BY <1>2 DEF EngineInv, IdsConsecutive, IdsFollowArrivals, Active
<1>3. ASSUME NEW owner \in Owners, NEW order_type \in OrderTypes,
             NEW tif \in TimesInForce, RefuseUnsupported(owner, order_type, tif)
      PROVE  Ids
  BY <1>2, <1>3, ReportKinds DEF RefuseUnsupported, bookVars
<1>4. ASSUME NEW c \in NewOrderCommand, NEW order_type \in OrderTypes,
             NEW tif \in TimesInForce, AcceptNewOrder(c, order_type, tif)
      PROVE  Ids
  BY <1>4, AcceptNewOrderInv
<1>5. ASSUME NEW c \in NewOrderCommand, NEW order_type \in OrderTypes,
             NEW tif \in TimesInForce, RefuseNewOrder(c, order_type, tif)
      PROVE  Ids
  <2>1. /\ UNCHANGED <<orders, execution_count, arrivals, next_order_id, next_trade_id>>
        /\ output' = Rejected(AdmitRefusal(c, next_order_id))
    BY <1>5 DEF RefuseNewOrder, RejectNew
  <2> QED
    BY <1>2, <2>1, RefusalReasons, ReportKinds
<1>6. ASSUME ExecuteOrder
      PROVE  Ids
  BY <1>6, ExecuteOrderInv
<1>7. ASSUME NEW c \in CancelOrderCommand, CancelOrder(c)
      PROVE  Ids
  BY <1>7, CancelOrderInv
<1>8. ASSUME NEW c \in CancelOrderCommand, RefuseCancelOrder(c)
      PROVE  Ids
  <2>1. /\ UNCHANGED <<orders, execution_count, arrivals, next_order_id, next_trade_id>>
        /\ output' = Rejected(CancelRefusal(c))
    BY <1>8 DEF RefuseCancelOrder, RejectCancel
  <2> QED
    BY <1>2, <2>1, RefusalReasons, ReportKinds
<1>9. ASSUME NEW owner \in Owners, RefuseReplaceOrder(owner)
      PROVE  Ids
  BY <1>2, <1>9, ReportKinds DEF RefuseReplaceOrder, bookVars
<1>10. ASSUME UNCHANGED <<vars, engineVars>>
       PROVE  Ids
  <2>1. /\ UNCHANGED <<orders, execution_count, arrivals, next_order_id, next_trade_id>>
        /\ UNCHANGED output
    BY <1>10 DEF vars, engineVars
  <2>2. output' # Rejected("MatchingEngineError")
    BY <2>1 DEF EngineInv
  <2> QED
    BY <1>2, <2>1, <2>2
<1>11. Ids
  <2> HIDE DEF Ids
  <2> QED
    BY <1>3, <1>4, <1>5, <1>6, <1>7, <1>8, <1>9, <1>10
    DEF EngineNext, ProcessCancelOrder
<1> QED
  BY <1>1, <1>11 DEF EngineInv

-----------------------------------------------------------------------------
(* The engine implements the event stream                                  *)

(* A market is a function from order ids.                                  *)
IsMarket(market) == market = [id \in DOMAIN market |-> market[id]]

(* What a listener knows of an order of the book.                          *)
Seen(o) ==
  [owner |-> o.owner, side |-> o.side, price |-> o.price,
   quantity |-> o.remaining_quantity]

(* What is left of an order after it has traded q.                         *)
Lessened(o, q) == [o EXCEPT !.quantity = @ - q]

LEMMA SeenFields ==
  ASSUME NEW o
  PROVE  /\ Seen(o).owner = o.owner /\ Seen(o).side = o.side
         /\ Seen(o).price = o.price /\ Seen(o).quantity = o.remaining_quantity
BY DEF Seen

LEMMA SeenReduced ==
  ASSUME NEW o \in OrderRecord, NEW q \in Nat, q <= o.remaining_quantity
  PROVE  Seen([o EXCEPT !.remaining_quantity = @ - q])
           = Lessened(Seen(o), q)
BY ReducedRecord DEF Seen, Lessened

LEMMA WantingOrders ==
  ASSUME IInv
  PROVE  \A t \in Wanting : /\ t \in Slots /\ t \in Active
                            /\ orders[t] \in OrderRecord
                            /\ orders[t].order_id \in OrderIds
                            /\ orders_by_id[orders[t].order_id] = t
                            /\ orders[t].remaining_quantity \in Nat \ {0}
<1> SUFFICES ASSUME NEW t \in Wanting
             PROVE  /\ t \in Slots /\ t \in Active
                    /\ orders[t] \in OrderRecord
                    /\ orders[t].order_id \in OrderIds
                    /\ orders_by_id[orders[t].order_id] = t
                    /\ orders[t].remaining_quantity \in Nat \ {0}
  OBVIOUS
<1>1. t \in Active /\ orders[t].remaining_quantity > 0
  BY DEF Wanting
<1>2. t \in Slots /\ orders[t] \in OrderRecord
  BY <1>1, ActiveSlots DEF IInv, TypeOK
<1>3. orders[t].order_id \in OrderIds /\ orders[t].remaining_quantity \in Nat
  BY <1>2, RecordsAreActive, IntegerTypes
<1> QED
  BY <1>1, <1>2, <1>3 DEF IInv, PoolAndMapAgree

(* The listener's market has an entry for every order that wants something, *)
(* and nothing else.                                                       *)
LEMMA Market ==
  ASSUME IInv
  PROVE  /\ IsMarket(KnownOrders)
         /\ \A t \in Wanting : /\ orders[t].order_id \in DOMAIN KnownOrders
                               /\ KnownOrders[orders[t].order_id] = Seen(orders[t])
         /\ \A id \in DOMAIN KnownOrders : \E t \in Wanting : orders[t].order_id = id
<1>1. \A t \in Wanting : orders_by_id[orders[t].order_id] = t
  BY WantingOrders
<1> QED
  BY <1>1 DEF KnownOrders, KnownIds, Seen, IsMarket

LEMMA MarketAfter ==
  ASSUME IInv', NEW market, IsMarket(market),
         \A t \in Wanting' : /\ orders'[t].order_id \in DOMAIN market
                             /\ market[orders'[t].order_id] = Seen(orders'[t]),
         \A id \in DOMAIN market : \E t \in Wanting' : orders'[t].order_id = id
  PROVE  KnownOrders' = market
<1>1. \A t \in Wanting' : orders_by_id'[orders'[t].order_id] = t
  BY DEF IInv, PoolAndMapAgree, Wanting
<1>2. KnownIds' = DOMAIN market
  BY DEF KnownIds
<1> DEFINE entry(id) == Seen(orders'[orders_by_id'[id]])
<1>3. ASSUME NEW id \in DOMAIN market
      PROVE  market[id] = entry(id)
  BY <1>1
<1>4. KnownOrders' = [id \in KnownIds' |-> entry(id)]
  BY DEF KnownOrders, Seen
<1> HIDE DEF entry
<1> QED
  BY <1>2, <1>3, <1>4 DEF IsMarket

LEMMA MarketKept ==
  ASSUME IInv, IInv', Wanting' = Wanting, \A t \in Wanting : orders'[t] = orders[t]
  PROVE  KnownOrders' = KnownOrders
<1> DEFINE market == KnownOrders
<1>1. /\ IsMarket(market)
      /\ \A t \in Wanting : /\ orders[t].order_id \in DOMAIN market
                            /\ market[orders[t].order_id] = Seen(orders[t])
      /\ \A id \in DOMAIN market : \E t \in Wanting : orders[t].order_id = id
  BY Market
<1> HIDE DEF market
<1>2. KnownOrders' = market
  BY <1>1, MarketAfter
<1> QED
  BY <1>2 DEF market

(* Two orders that want something are told apart by their ids.             *)
LEMMA WantingDistinct ==
  ASSUME IInv, NEW s \in Wanting, NEW t \in Wanting,
         orders[s].order_id = orders[t].order_id
  PROVE  s = t
BY WantingOrders

LEMMA ReducedMarket ==
  ASSUME NEW market, IsMarket(market), NEW id \in DOMAIN market, NEW q
  PROVE  IsMarket(Stream!Reduced(market, id, q))
BY DEF Stream!Reduced, IsMarket

LEMMA ReducedIds ==
  ASSUME NEW market, IsMarket(market), NEW id \in DOMAIN market, NEW q
  PROVE  DOMAIN Stream!Reduced(market, id, q) =
           IF market[id].quantity = q THEN DOMAIN market \ {id} ELSE DOMAIN market
BY DEF Stream!Reduced, IsMarket

LEMMA ReducedOthers ==
  ASSUME NEW market, IsMarket(market), NEW id \in DOMAIN market, NEW q
  PROVE  \A i \in DOMAIN Stream!Reduced(market, id, q) \ {id} :
           Stream!Reduced(market, id, q)[i] = market[i]
BY DEF Stream!Reduced, IsMarket

LEMMA ReducedOrder ==
  ASSUME NEW market, IsMarket(market), NEW id \in DOMAIN market, NEW q
  PROVE  id \in DOMAIN Stream!Reduced(market, id, q) =>
           Stream!Reduced(market, id, q)[id] = Lessened(market[id], q)
BY DEF Stream!Reduced, IsMarket, Lessened

(* Between commands no order is being executed.                            *)
LEMMA NothingIncoming ==
  /\ aggressor = NoSlot => IncomingId = Stream!NoOrder
  /\ aggressor' = NoSlot => IncomingId' = Stream!NoOrder
BY SlotsAssumption DEF IncomingId, Wanting, Active, Stream!NoOrder

(* An order that is being executed and still wants something is incoming.  *)
LEMMA IncomingWants ==
  ASSUME IInv, aggressor # NoSlot, orders[aggressor].remaining_quantity > 0
  PROVE  /\ aggressor \in Wanting
         /\ IncomingId = orders[aggressor].order_id
         /\ IncomingId # Stream!NoOrder
<1>1. aggressor \in Wanting
  BY DEF IInv, PoolAndMapAgree, Wanting
<1>2. orders[aggressor].order_id \in OrderIds
  BY <1>1, WantingOrders
<1> QED
  BY <1>1, <1>2, OrderIdsAssumption, ArrivalsAssumption DEF IncomingId, Stream!NoOrder

(* An order that rests wants something.                                    *)
LEMMA RestingWants ==
  ASSUME IInv, NEW t \in Resting
  PROVE  t \in Wanting
<1>1. t \in Active
  BY DEF Resting
<1>2. orders[t].side \in Sides /\ orders[t].price \in Prices
  BY <1>1, ActiveSlots, RecordsAreActive DEF IInv, TypeOK
<1> QED
  BY <1>1, <1>2 DEF IInv, LevelsHoldRestingOrders, Wanting

LEMMA CrossesIsCanTrade ==
  ASSUME NEW o, NEW r
  PROVE  Stream!Crosses(Seen(o), Seen(r)) <=> PTP!CanTrade(Abstracted(o), Abstracted(r))
<1>1. /\ Seen(o).side = Abstracted(o).side /\ Seen(o).price = Abstracted(o).price
      /\ Seen(r).side = Abstracted(r).side /\ Seen(r).price = Abstracted(r).price
  BY SeenFields, AbstractFields
<1> QED
  BY <1>1 DEF Stream!Crosses, PTP!CanTrade

LEMMA IncomingKept ==
  ASSUME UNCHANGED <<orders, aggressor>>
  PROVE  IncomingId' = IncomingId
BY DEF IncomingId, Wanting, Active

LEMMA AcceptIsAccepted ==
  ASSUME EngineInv, IInv', NEW c \in NewOrderCommand, NEW order_type, NEW tif,
         AcceptNewOrder(c, order_type, tif)
  PROVE  Stream!OrderAccepted(c.owner, c.side, c.price, c.quantity)
<1> DEFINE id == next_order_id
           market == [i \in DOMAIN KnownOrders \cup {id} |->
                        IF i = id THEN Stream!Known(c.owner, c.side, c.price, c.quantity)
                        ELSE KnownOrders[i]]
<1>1. /\ Admit(c, id) /\ next_order_id' = id + 1
      /\ event' = OrderAccepted(id, c)
      /\ next_trade_id' = next_trade_id
  BY DEF AcceptNewOrder
<1>2. PICK slot \in free :
        /\ orders' = [orders EXCEPT ![slot] =
             [active |-> TRUE, order_id |-> id, owner |-> c.owner, side |-> c.side,
              price |-> c.price, remaining_quantity |-> c.quantity, seq |-> arrivals']]
        /\ aggressor' = slot
  BY <1>1 DEF Admit
<1>3. /\ slot \in Slots /\ slot \notin Active /\ slot \notin Wanting
      /\ orders \in [Slots -> OrderRecord \cup {BlankOrder}]
  BY <1>2 DEF EngineInv, IInv, TypeOK, PoolAndMapAgree, Wanting
<1>4. /\ orders'[slot].active /\ orders'[slot].order_id = id
      /\ orders'[slot].remaining_quantity = c.quantity
      /\ Seen(orders'[slot]) = Stream!Known(c.owner, c.side, c.price, c.quantity)
      /\ \A t \in Slots \ {slot} : orders'[t] = orders[t]
  BY <1>2, <1>3 DEF Seen, Stream!Known
<1>5. c.quantity \in Nat /\ c.quantity # 0
  <2>1. c.quantity \in OfferedQuantities /\ OfferedQuantities \subseteq Nat
    BY QuantityAssumption, IntegerTypes DEF NewOrderCommand
  <2>2. AdmitRefusal(c, id) = "None"
    BY <1>1 DEF Admit
  <2> QED
    BY <2>1, <2>2 DEF AdmitRefusal
<1>6. Wanting' = Wanting \cup {slot}
  <2>1. slot \in Wanting'
    BY <1>3, <1>4, <1>5 DEF Wanting, Active
  <2>2. \A t \in Slots \ {slot} : t \in Wanting' <=> t \in Wanting
    BY <1>4 DEF Wanting, Active
  <2>3. Wanting' \subseteq Slots /\ Wanting \subseteq Slots
    BY DEF Wanting, Active
  <2> QED
    BY <2>1, <2>2, <2>3, <1>3
<1>7. \A t \in Wanting : /\ orders'[t] = orders[t]
                         /\ orders[t].order_id # id
  <2> SUFFICES ASSUME NEW t \in Wanting
               PROVE  orders'[t] = orders[t] /\ orders[t].order_id # id
    OBVIOUS
  <2>1. t \in Slots /\ orders_by_id[orders[t].order_id] = t
    BY WantingOrders DEF EngineInv
  <2>2. orders_by_id[id] = NoSlot
    BY NextIdIsFree
  <2> QED
    BY <2>1, <2>2, <1>3, <1>4, SlotsAssumption
<1> HIDE DEF id
<1>8. KnownOrders' = market
  <2>1. /\ \A t \in Wanting : /\ orders[t].order_id \in DOMAIN KnownOrders
                              /\ KnownOrders[orders[t].order_id] = Seen(orders[t])
        /\ \A i \in DOMAIN KnownOrders : \E t \in Wanting : orders[t].order_id = i
    BY Market DEF EngineInv
  <2>2. ASSUME NEW t \in Wanting'
        PROVE  /\ orders'[t].order_id \in DOMAIN market
               /\ market[orders'[t].order_id] = Seen(orders'[t])
    BY <2>1, <1>4, <1>6, <1>7
  <2>3. ASSUME NEW i \in DOMAIN market
        PROVE  \E t \in Wanting' : orders'[t].order_id = i
    BY <2>1, <1>4, <1>6, <1>7
  <2>4. IsMarket(market)
    BY DEF IsMarket
  <2> HIDE DEF market
  <2> QED
    BY <2>2, <2>3, <2>4, MarketAfter
<1>9. IncomingId' = id
  BY <1>2, <1>4, <1>6 DEF IncomingId
<1>10. IncomingId = Stream!NoOrder
  BY <1>1, NothingIncoming DEF Admit
<1> QED
  BY <1>1, <1>8, <1>9, <1>10 DEF Stream!OrderAccepted, OrderAccepted, id

(* A refusal reaches the listener as an event that leaves the market alone. *)
LEMMA RefusalIsRejected ==
  ASSUME EngineInv, IInv', aggressor = NoSlot,
         NEW owner \in Owners, NEW command_type \in Stream!CommandTypes,
         NEW reason \in Stream!Reasons,
         command_type = "NewOrder" => reason # "MatchingEngineError",
         event' = CommandRejected(owner, command_type, reason),
         UNCHANGED <<orders, aggressor, next_order_id, next_trade_id>>
  PROVE  Stream!Next
<1>1. KnownOrders' = KnownOrders
  BY MarketKept DEF EngineInv, Wanting, Active
<1>2. IncomingId' = IncomingId /\ IncomingId = Stream!NoOrder
  BY IncomingKept, NothingIncoming
<1>3. Stream!CommandRejected(owner, command_type, reason)
  BY <1>1, <1>2 DEF Stream!CommandRejected, CommandRejected
<1> QED
  BY <1>3 DEF Stream!Next

LEMMA RefusalsAreRejected ==
  ASSUME EngineInv, IInv'
  PROVE  /\ \A owner \in Owners, order_type \in OrderTypes, tif \in TimesInForce :
              RefuseUnsupported(owner, order_type, tif) => Stream!Next
         /\ \A c \in NewOrderCommand, order_type \in OrderTypes, tif \in TimesInForce :
              RefuseNewOrder(c, order_type, tif) => Stream!Next
         /\ \A c \in CancelOrderCommand : RefuseCancelOrder(c) => Stream!Next
         /\ \A owner \in Owners : RefuseReplaceOrder(owner) => Stream!Next
<1>1. ASSUME NEW owner \in Owners, NEW order_type \in OrderTypes,
             NEW tif \in TimesInForce, RefuseUnsupported(owner, order_type, tif)
      PROVE  Stream!Next
  <2> DEFINE reason == Unsupported(order_type, tif)
  <2>1. reason \in {"UnsupportedOrderType", "UnsupportedTimeInForce"}
    BY <1>1 DEF RefuseUnsupported, Unsupported
  <2>2. /\ aggressor = NoSlot
        /\ event' = CommandRejected(owner, "NewOrder", reason)
        /\ UNCHANGED <<orders, aggressor, next_order_id, next_trade_id>>
    BY <1>1 DEF RefuseUnsupported, bookVars
  <2> HIDE DEF reason
  <2> QED
    BY <2>1, <2>2, RefusalIsRejected DEF Stream!CommandTypes, Stream!Reasons
<1>2. ASSUME NEW c \in NewOrderCommand, NEW order_type \in OrderTypes,
             NEW tif \in TimesInForce, RefuseNewOrder(c, order_type, tif)
      PROVE  Stream!Next
  <2> DEFINE reason == AdmitRefusal(c, next_order_id)
  <2>1. /\ aggressor = NoSlot /\ reason # "None"
        /\ event' = CommandRejected(c.owner, "NewOrder", output'.reason)
        /\ output' = Rejected(reason)
        /\ UNCHANGED <<orders, aggressor, next_order_id, next_trade_id>>
    BY <1>2 DEF RefuseNewOrder, RejectNew
  <2>2. reason \in {"UnknownSymbol", "InvalidQuantity", "InvalidPrice", "CapacityExhausted"}
    BY <2>1, RefusalReasons DEF AdmitRefusal
  <2>3. output'.reason = reason /\ c.owner \in Owners
    BY <2>1 DEF Rejected, NewOrderCommand
  <2> HIDE DEF reason
  <2> QED
    BY <2>1, <2>2, <2>3, RefusalIsRejected DEF Stream!CommandTypes, Stream!Reasons
<1>3. ASSUME NEW c \in CancelOrderCommand, RefuseCancelOrder(c)
      PROVE  Stream!Next
  <2> DEFINE reason == CancelRefusal(c)
  <2>1. /\ aggressor = NoSlot /\ reason # "None"
        /\ event' = CommandRejected(c.owner, "CancelOrder", output'.reason)
        /\ output' = Rejected(reason)
        /\ UNCHANGED <<orders, aggressor, next_order_id, next_trade_id>>
    BY <1>3 DEF RefuseCancelOrder, RejectCancel
  <2>2. reason \in {"UnknownSymbol", "UnknownOrder", "NotOrderOwner"}
    BY <2>1 DEF CancelRefusal
  <2>3. output'.reason = reason /\ c.owner \in Owners
    BY <2>1 DEF Rejected, CancelOrderCommand
  <2> HIDE DEF reason
  <2> QED
    BY <2>1, <2>2, <2>3, RefusalIsRejected DEF Stream!CommandTypes, Stream!Reasons
<1>4. ASSUME NEW owner \in Owners, RefuseReplaceOrder(owner)
      PROVE  Stream!Next
  <2>1. /\ aggressor = NoSlot
        /\ event' = CommandRejected(owner, "ReplaceOrder", "MatchingEngineError")
        /\ UNCHANGED <<orders, aggressor, next_order_id, next_trade_id>>
    BY <1>4 DEF RefuseReplaceOrder, bookVars
  <2> QED
    BY <2>1, RefusalIsRejected DEF Stream!CommandTypes, Stream!Reasons
<1> QED
  BY <1>1, <1>2, <1>3, <1>4

LEMMA RestIsRested ==
  ASSUME EngineInv, IInv', ReportRested
  PROVE  Stream!OrderRested
<1> DEFINE o == orders[aggressor]
<1>1. /\ aggressor # NoSlot /\ o.remaining_quantity > 0
      /\ ~Marketable(o)
      /\ aggressor' = NoSlot /\ orders' = orders
      /\ output' = Rested(o)
      /\ event' = OrderRested(output'.order_id, o, output'.quantity)
      /\ UNCHANGED <<next_order_id, next_trade_id>>
  BY DEF ReportRested, Rest
<1>2. /\ aggressor \in Wanting
      /\ IncomingId = o.order_id /\ IncomingId # Stream!NoOrder
  BY <1>1, IncomingWants DEF EngineInv
<1>3. KnownOrders[IncomingId] = Seen(o)
  BY <1>2, Market DEF EngineInv
<1>4. KnownOrders' = KnownOrders /\ IncomingId' = Stream!NoOrder
  BY <1>1, MarketKept, NothingIncoming DEF EngineInv, Wanting, Active
<1>5. ASSUME NEW id \in DOMAIN KnownOrders
      PROVE  ~Stream!Crosses(Seen(o), KnownOrders[id])
  <2>1. PICK t \in Wanting : orders[t].order_id = id
    BY Market DEF EngineInv
  <2>2. KnownOrders[id] = Seen(orders[t])
    BY <2>1, Market DEF EngineInv
  <2>3. CASE t = aggressor
    BY <2>2, <2>3, SeenFields DEF Stream!Crosses
  <2>4. CASE t # aggressor
    <3>1. t \in Resting
      BY <2>4 DEF Wanting, Resting
    <3>2. ~PTP!CanTrade(Abstracted(o), Abstracted(orders[t]))
      BY <1>1, <3>1, Partners DEF EngineInv
    <3> QED
      BY <2>2, <3>2, CrossesIsCanTrade
  <2> QED
    BY <2>3, <2>4
<1>6. event' = [type |-> "OrderRested", order_id |-> IncomingId, owner |-> Seen(o).owner,
                side |-> Seen(o).side, price |-> Seen(o).price,
                quantity |-> Seen(o).quantity]
  <2>1. output'.order_id = o.order_id /\ output'.quantity = o.remaining_quantity
    BY <1>1 DEF Rested
  <2>2. event' = OrderRested(o.order_id, o, o.remaining_quantity)
    BY <1>1, <2>1
  <2> HIDE DEF o
  <2> QED
    BY <1>2, <2>2, SeenFields DEF OrderRested
<1> HIDE DEF o
<1> QED
  BY <1>1, <1>2, <1>3, <1>4, <1>5, <1>6 DEF Stream!OrderRested

(* A filled order has left the market with its last trade.                 *)
LEMMA FinishIsStutter ==
  ASSUME EngineInv, IInv', ReportNothing
  PROVE  UNCHANGED Stream!vars
<1>1. /\ aggressor # NoSlot /\ orders[aggressor].remaining_quantity = 0
      /\ orders' = [orders EXCEPT ![aggressor] = BlankOrder]
      /\ aggressor' = NoSlot
      /\ UNCHANGED <<next_order_id, next_trade_id, event>>
  BY DEF ReportNothing, FinishFilled, engineVars
<1>2. aggressor \in Slots /\ orders \in [Slots -> OrderRecord \cup {BlankOrder}]
  BY <1>1 DEF EngineInv, IInv, TypeOK
<1>3. aggressor \notin Wanting
  BY <1>1 DEF Wanting
<1>4. /\ orders'[aggressor] = BlankOrder
      /\ \A t \in Slots \ {aggressor} : orders'[t] = orders[t]
  BY <1>1, <1>2
<1>5. aggressor \notin Active'
  BY <1>4, RecordsAreActive DEF Active
<1>6. Wanting' = Wanting /\ \A t \in Wanting : orders'[t] = orders[t]
  BY <1>3, <1>4, <1>5 DEF Wanting, Active
<1>7. KnownOrders' = KnownOrders
  BY <1>6, MarketKept DEF EngineInv
<1>8. IncomingId = Stream!NoOrder /\ IncomingId' = Stream!NoOrder
  BY <1>1, <1>3, NothingIncoming DEF IncomingId, Stream!NoOrder
<1> QED
  BY <1>1, <1>7, <1>8 DEF Stream!vars

LEMMA CancelIsCancelled ==
  ASSUME EngineInv, IInv', NEW c \in CancelOrderCommand, CancelOrder(c)
  PROVE  \E id \in DOMAIN KnownOrders : Stream!OrderCancelled(id)
<1> DEFINE slot == orders_by_id[c.order_id]
           o == orders[slot]
           id == o.order_id
           market == [i \in DOMAIN KnownOrders \ {id} |-> KnownOrders[i]]
<1>1. /\ aggressor = NoSlot /\ aggressor' = NoSlot
      /\ CancelRefusal(c) = "None"
      /\ orders' = [orders EXCEPT ![slot] = BlankOrder]
      /\ output' = Cancelled(o)
      /\ event' = OrderCancelled(output', o)
      /\ UNCHANGED <<next_order_id, next_trade_id>>
  BY DEF CancelOrder, Cancel
<1>2. slot # NoSlot /\ c.order_id \in OrderIds
  BY <1>1 DEF CancelRefusal, CancelOrderCommand
<1>3. slot \in Active /\ slot \in Resting
  BY <1>1, <1>2, SlotsAssumption DEF EngineInv, IInv, PoolAndMapAgree, Resting, Active
<1>4. slot \in Wanting
  BY <1>3, RestingWants DEF EngineInv
<1>5. /\ orders'[slot] = BlankOrder
      /\ \A t \in Slots \ {slot} : orders'[t] = orders[t]
  BY <1>1, <1>3 DEF EngineInv, IInv, TypeOK, Active
<1>6. slot \notin Active'
  BY <1>5, RecordsAreActive DEF Active
<1>7. Wanting' = Wanting \ {slot} /\ \A t \in Wanting \ {slot} : orders'[t] = orders[t]
  BY <1>5, <1>6 DEF Wanting, Active
<1>8. /\ \A t \in Wanting : /\ orders[t].order_id \in DOMAIN KnownOrders
                            /\ KnownOrders[orders[t].order_id] = Seen(orders[t])
      /\ \A i \in DOMAIN KnownOrders : \E t \in Wanting : orders[t].order_id = i
  BY Market DEF EngineInv
<1>9. \A t \in Wanting \ {slot} : orders[t].order_id # id
  BY <1>4, WantingDistinct DEF EngineInv
<1>10. id \in DOMAIN KnownOrders /\ KnownOrders[id] = Seen(o)
  BY <1>4, <1>8
<1>11. event' = [type |-> "OrderCancelled", order_id |-> id, owner |-> Seen(o).owner,
                 side |-> Seen(o).side, price |-> Seen(o).price,
                 quantity |-> Seen(o).quantity]
  <2>1. Cancelled(o).order_id = id /\ Cancelled(o).quantity = o.remaining_quantity
    BY DEF Cancelled
  <2> HIDE DEF o
  <2> QED
    BY <1>1, <2>1, SeenFields DEF OrderCancelled
<1> HIDE DEF id, o, slot
<1>12. KnownOrders' = market
  <2>1. ASSUME NEW t \in Wanting'
        PROVE  /\ orders'[t].order_id \in DOMAIN market
               /\ market[orders'[t].order_id] = Seen(orders'[t])
    BY <1>7, <1>8, <1>9
  <2>2. ASSUME NEW i \in DOMAIN market
        PROVE  \E t \in Wanting' : orders'[t].order_id = i
    <3>1. PICK t \in Wanting : orders[t].order_id = i
      BY <1>8
    <3>2. t # slot
      BY <3>1 DEF id, o
    <3> QED
      BY <3>1, <3>2, <1>7
  <2>3. IsMarket(market)
    BY DEF IsMarket
  <2> HIDE DEF market
  <2> QED
    BY <2>1, <2>2, <2>3, MarketAfter
<1>13. IncomingId = Stream!NoOrder /\ IncomingId' = Stream!NoOrder
  BY <1>1, NothingIncoming
<1>14. Stream!OrderCancelled(id)
  BY <1>1, <1>10, <1>11, <1>12, <1>13 DEF Stream!OrderCancelled
<1> QED
  BY <1>10, <1>14

(* An execution as the match loop makes it is the trade its event tells.   *)
LEMMA ExecutionIsTraded ==
  ASSUME EngineInv, IInv', Execute(Standing, ExecutedQuantity),
         orders'[aggressor] =
           [orders[aggressor] EXCEPT !.remaining_quantity = @ - ExecutedQuantity],
         \A t \in Slots \ {aggressor, Standing} : orders'[t] = orders[t],
         IF orders[Standing].remaining_quantity = ExecutedQuantity
         THEN orders'[Standing] = BlankOrder
         ELSE orders'[Standing] =
                [orders[Standing] EXCEPT !.remaining_quantity = @ - ExecutedQuantity],
         event' = TradeExecuted(output', next_trade_id, orders[aggressor], orders[Standing]),
         next_trade_id' = next_trade_id + 1,
         UNCHANGED <<aggressor, next_order_id>>
  PROVE  \E id \in DOMAIN KnownOrders : Stream!TradeExecuted(id)
<1> DEFINE o == orders[aggressor]
           r == orders[Standing]
           q == ExecutedQuantity
           left == [o EXCEPT !.remaining_quantity = @ - q]
           stands == [r EXCEPT !.remaining_quantity = @ - q]
           between == Stream!Reduced(KnownOrders, o.order_id, q)
           market == Stream!Reduced(between, r.order_id, q)
<1>1. aggressor # NoSlot /\ Marketable(o)
  BY DEF Execute
<1>2. /\ Standing \in Resting /\ Standing # aggressor
      /\ o \in OrderRecord /\ r \in OrderRecord
      /\ q \in Nat \ {0} /\ q <= o.remaining_quantity /\ q <= r.remaining_quantity
      /\ r.price = best[StandingSide]
  BY <1>1, StandingOrder DEF EngineInv
<1>3. /\ aggressor \in Wanting /\ IncomingId = o.order_id
      /\ IncomingId # Stream!NoOrder
  BY <1>1, IncomingWants DEF Marketable, EngineInv
<1>4. Standing \in Wanting /\ Standing \in Slots /\ aggressor \in Slots
  BY <1>2, <1>3, RestingWants, WantingOrders DEF EngineInv
<1>5. o.order_id # r.order_id
  BY <1>2, <1>3, <1>4, WantingDistinct DEF EngineInv
<1>6. /\ IsMarket(KnownOrders)
      /\ \A t \in Wanting : /\ orders[t].order_id \in DOMAIN KnownOrders
                            /\ KnownOrders[orders[t].order_id] = Seen(orders[t])
      /\ \A id \in DOMAIN KnownOrders : \E t \in Wanting : orders[t].order_id = id
  BY Market DEF EngineInv
<1>7. /\ o.remaining_quantity \in Nat /\ r.remaining_quantity \in Nat
      /\ Seen(o).quantity = o.remaining_quantity
      /\ Seen(r).quantity = r.remaining_quantity
  BY <1>2, RecordsAreActive, IntegerTypes, SeenFields
<1>8. Seen(left) = Lessened(Seen(o), q)
  <2> HIDE DEF o, q
  <2> QED
    BY <1>2, SeenReduced
<1>9. Seen(stands) = Lessened(Seen(r), q)
  <2> HIDE DEF r, q
  <2> QED
    BY <1>2, SeenReduced
<1>10. /\ left.order_id = o.order_id /\ left.remaining_quantity = o.remaining_quantity - q
       /\ left.active
  <2> HIDE DEF o, q
  <2> QED
    BY <1>2, ReducedRecord, RecordsAreActive
<1>11. /\ stands.order_id = r.order_id /\ stands.remaining_quantity = r.remaining_quantity - q
       /\ stands.active
  <2> HIDE DEF r, q
  <2> QED
    BY <1>2, ReducedRecord, RecordsAreActive
<1>12. /\ orders'[aggressor] = left
       /\ r.remaining_quantity = q => orders'[Standing] = BlankOrder
       /\ r.remaining_quantity # q => orders'[Standing] = stands
       /\ \A t \in Slots \ {aggressor, Standing} : orders'[t] = orders[t]
  OBVIOUS
<1>13. KnownOrders[o.order_id] = Seen(o) /\ KnownOrders[r.order_id] = Seen(r)
  BY <1>3, <1>4, <1>6
<1>14. Stream!Crosses(Seen(o), Seen(r))
  BY <1>1, StandingHasPriority, CrossesIsCanTrade DEF EngineInv
<1>15. q = Stream!Lesser(Seen(o).quantity, Seen(r).quantity)
  BY <1>7 DEF ExecutedQuantity, Lesser, Stream!Lesser
<1>16. event' =
         [type |-> "TradeExecuted", trade_id |-> next_trade_id,
          price |-> Seen(r).price, quantity |-> q, aggressing_side |-> Seen(o).side,
          aggressing_order_id |-> IncomingId, aggressing_owner |-> Seen(o).owner,
          aggressing_remaining |-> Seen(o).quantity - q,
          resting_order_id |-> r.order_id, resting_owner |-> Seen(r).owner,
          resting_remaining |-> Seen(r).quantity - q]
  <2>1. output' = Execution(o, r, q)
    BY DEF Execute
  <2>2. event' = TradeExecuted(output', next_trade_id, o, r)
    OBVIOUS
  <2> HIDE DEF o, r, q
  <2> QED
    BY <2>1, <2>2, <1>3, SeenFields DEF Execution, TradeExecuted
<1> HIDE DEF o, r, q, left, stands
<1>17. /\ IsMarket(between)
       /\ DOMAIN between = IF Seen(o).quantity = q THEN DOMAIN KnownOrders \ {o.order_id}
                           ELSE DOMAIN KnownOrders
       /\ \A i \in DOMAIN between \ {o.order_id} : between[i] = KnownOrders[i]
       /\ o.order_id \in DOMAIN between => between[o.order_id] = Seen(left)
  <2> DEFINE id == o.order_id
  <2>1. IsMarket(KnownOrders) /\ id \in DOMAIN KnownOrders
    BY <1>3, <1>6 DEF o
  <2> HIDE DEF id
  <2>2. IsMarket(between)
    BY <2>1, ReducedMarket DEF id
  <2>3. DOMAIN between = IF KnownOrders[id].quantity = q THEN DOMAIN KnownOrders \ {id} ELSE DOMAIN KnownOrders
    BY <2>1, ReducedIds DEF id
  <2>4. \A i \in DOMAIN between \ {id} : between[i] = KnownOrders[i]
    BY <2>1, ReducedOthers DEF id
  <2>5. id \in DOMAIN between => between[id] = Lessened(KnownOrders[id], q)
    BY <2>1, ReducedOrder DEF id
  <2>6. KnownOrders[id] = Seen(o)
    BY <1>13 DEF id
  <2> HIDE DEF between
  <2> QED
    BY <1>8, <2>2, <2>3, <2>4, <2>5, <2>6 DEF id
<1>18. r.order_id \in DOMAIN between /\ between[r.order_id] = Seen(r)
  BY <1>4, <1>5, <1>6, <1>13, <1>17 DEF r
<1>19. /\ IsMarket(market)
       /\ DOMAIN market = IF Seen(r).quantity = q THEN DOMAIN between \ {r.order_id}
                          ELSE DOMAIN between
       /\ \A i \in DOMAIN market \ {r.order_id} : market[i] = between[i]
       /\ r.order_id \in DOMAIN market => market[r.order_id] = Seen(stands)
  <2> DEFINE id == r.order_id
  <2> HIDE DEF between, id
  <2>1. id \in DOMAIN between
    BY <1>18 DEF id
  <2>2. IsMarket(market)
    BY <1>17, <2>1, ReducedMarket DEF id
  <2>3. DOMAIN market = IF between[id].quantity = q THEN DOMAIN between \ {id} ELSE DOMAIN between
    BY <1>17, <2>1, ReducedIds DEF id
  <2>4. \A i \in DOMAIN market \ {id} : market[i] = between[i]
    BY <1>17, <2>1, ReducedOthers DEF id
  <2>5. id \in DOMAIN market => market[id] = Lessened(between[id], q)
    BY <1>17, <2>1, ReducedOrder DEF id
  <2>6. between[id] = Seen(r)
    BY <1>18 DEF id
  <2> HIDE DEF market
  <2> QED
    BY <1>9, <2>2, <2>3, <2>4, <2>5, <2>6 DEF id
<1> HIDE DEF between, market
<1>20. \A t \in Slots : t \in Wanting' <=>
         IF t = aggressor THEN o.remaining_quantity # q
         ELSE IF t = Standing THEN r.remaining_quantity # q
         ELSE t \in Wanting
  <2>1. ASSUME NEW t \in Slots \ {aggressor, Standing}
        PROVE  t \in Wanting' <=> t \in Wanting
    BY <1>12 DEF Wanting, Active
  <2>2. aggressor \in Wanting' <=> o.remaining_quantity # q
    <3>1. left.remaining_quantity > 0 <=> o.remaining_quantity # q
      BY <1>2, <1>7, <1>10
    <3> QED
      BY <1>4, <1>10, <1>12, <3>1 DEF Wanting, Active
  <2>3. Standing \in Wanting' <=> r.remaining_quantity # q
    <3>1. stands.remaining_quantity > 0 <=> r.remaining_quantity # q
      BY <1>2, <1>7, <1>11
    <3>2. CASE r.remaining_quantity = q
      BY <3>2, <1>12, RecordsAreActive DEF Wanting, Active
    <3>3. CASE r.remaining_quantity # q
      BY <3>1, <3>3, <1>4, <1>11, <1>12 DEF Wanting, Active
    <3> QED
      BY <3>2, <3>3
  <2> QED
    BY <1>2, <2>1, <2>2, <2>3
<1>21. \A t \in Wanting' : t \in Wanting
  BY <1>3, <1>4, <1>20 DEF Wanting, Active
<1>22. ASSUME NEW t \in Wanting'
       PROVE  /\ orders'[t].order_id \in DOMAIN market
              /\ market[orders'[t].order_id] = Seen(orders'[t])
  <2>1. t \in Slots /\ t \in Wanting
    BY <1>21 DEF Wanting, Active
  <2>2. CASE t = aggressor
    <3>1. o.remaining_quantity # q /\ orders'[t] = left
      BY <1>12, <1>20, <2>1, <2>2
    <3>2. o.order_id \in DOMAIN market /\ market[o.order_id] = Seen(left)
      BY <1>5, <1>6, <1>7, <1>3, <1>17, <1>19, <3>1 DEF o
    <3> QED
      BY <3>1, <3>2, <1>10
  <2>3. CASE t = Standing
    <3>1. r.remaining_quantity # q /\ orders'[t] = stands
      BY <1>2, <1>12, <1>20, <2>1, <2>3
    <3>2. r.order_id \in DOMAIN market /\ market[r.order_id] = Seen(stands)
      BY <1>7, <1>18, <1>19, <3>1
    <3> QED
      BY <3>1, <3>2, <1>11
  <2>4. CASE t \notin {aggressor, Standing}
    <3> DEFINE id == orders[t].order_id
    <3>1. orders'[t] = orders[t]
      BY <1>12, <2>1, <2>4
    <3>2. id # o.order_id /\ id # r.order_id
      BY <1>3, <1>4, <2>1, <2>4, WantingDistinct DEF EngineInv, o, r
    <3>3. id \in DOMAIN KnownOrders /\ KnownOrders[id] = Seen(orders[t])
      BY <1>6, <2>1
    <3> HIDE DEF id
    <3>4. id \in DOMAIN market /\ market[id] = Seen(orders[t])
      BY <1>17, <1>19, <3>2, <3>3
    <3> QED
      BY <3>1, <3>4 DEF id
  <2> QED
    BY <2>2, <2>3, <2>4
<1>23. ASSUME NEW id \in DOMAIN market
       PROVE  \E t \in Wanting' : orders'[t].order_id = id
  <2>1. id \in DOMAIN KnownOrders
    BY <1>17, <1>19
  <2>2. PICK t \in Wanting : orders[t].order_id = id
    BY <1>6, <2>1
  <2>3. t \in Slots
    BY <2>2 DEF Wanting, Active
  <2>4. CASE t = aggressor
    <3>1. o.remaining_quantity # q
      BY <1>5, <1>7, <1>17, <1>19, <2>2, <2>4 DEF o
    <3> QED
      BY <1>10, <1>12, <1>20, <2>2, <2>3, <2>4, <3>1 DEF o
  <2>5. CASE t = Standing
    <3>1. r.remaining_quantity # q
      BY <1>7, <1>19, <2>2, <2>5 DEF r
    <3> QED
      BY <1>2, <1>11, <1>12, <1>20, <2>2, <2>3, <2>5, <3>1 DEF r
  <2>6. CASE t \notin {aggressor, Standing}
    BY <1>12, <1>20, <2>2, <2>3, <2>6
  <2> QED
    BY <2>4, <2>5, <2>6
<1>24. KnownOrders' = market
  BY <1>19, <1>22, <1>23, MarketAfter
<1>25. IncomingId' = IF Seen(o).quantity = q THEN Stream!NoOrder ELSE IncomingId
  <2>1. aggressor \in Wanting' <=> o.remaining_quantity # q
    BY <1>4, <1>20
  <2>2. orders'[aggressor].order_id = o.order_id /\ aggressor' = aggressor
    BY <1>10, <1>12
  <2> QED
    BY <1>3, <1>7, <2>1, <2>2 DEF IncomingId, Stream!NoOrder
<1>26. Stream!TradeExecuted(r.order_id)
  BY <1>3, <1>13, <1>14, <1>15, <1>16, <1>24, <1>25
     DEF Stream!TradeExecuted, market, between
<1> QED
  BY <1>4, <1>6, <1>26 DEF r

LEMMA MatchIsTraded ==
  ASSUME EngineInv, IInv', OnMatch
  PROVE  Stream!Next
<1> DEFINE q == ExecutedQuantity
           slot == Standing
<1>1. /\ Execute(slot, q)
      /\ event' = TradeExecuted(output', next_trade_id, orders[aggressor], orders[slot])
      /\ next_trade_id' = next_trade_id + 1
      /\ UNCHANGED <<aggressor, next_order_id>>
  BY DEF OnMatch, FillPartially, FillCompletely
<1>2. /\ slot \in Slots /\ aggressor \in Slots /\ slot # aggressor
      /\ orders[slot] \in OrderRecord /\ orders[aggressor] \in OrderRecord
      /\ orders \in [Slots -> OrderRecord \cup {BlankOrder}]
  <2>1. aggressor # NoSlot /\ Marketable(orders[aggressor])
    BY <1>1 DEF Execute
  <2> QED
    BY <2>1, StandingOrder DEF Resting, Active, EngineInv, IInv, TypeOK
<1>3. /\ orders'[aggressor] = [orders[aggressor] EXCEPT !.remaining_quantity = @ - q]
      /\ \A t \in Slots \ {aggressor, slot} : orders'[t] = orders[t]
      /\ IF orders[slot].remaining_quantity = q
         THEN orders'[slot] = BlankOrder
         ELSE orders'[slot] = [orders[slot] EXCEPT !.remaining_quantity = @ - q]
  <2>1. CASE FillPartially
    <3>1. /\ orders' = [orders EXCEPT ![aggressor].remaining_quantity = @ - q,
                                      ![slot].remaining_quantity = @ - q]
          /\ orders[slot].remaining_quantity # q
      BY <2>1 DEF FillPartially
    <3> HIDE DEF slot, q
    <3> QED
      BY <3>1, <1>2
  <2>2. CASE FillCompletely
    <3>1. /\ orders' = [orders EXCEPT ![aggressor].remaining_quantity = @ - q,
                                      ![slot] = BlankOrder]
          /\ orders[slot].remaining_quantity = q
      BY <2>2 DEF FillCompletely
    <3> HIDE DEF slot, q
    <3> QED
      BY <3>1, <1>2
  <2> QED
    BY <2>1, <2>2 DEF OnMatch
<1>4. \E id \in DOMAIN KnownOrders : Stream!TradeExecuted(id)
  BY <1>1, <1>3, ExecutionIsTraded
<1> QED
  BY <1>4 DEF Stream!Next

LEMMA StreamInit ==
  ASSUME EngineInit
  PROVE  Stream!Init
<1>1. Init /\ next_order_id = 1 /\ next_trade_id = 1 /\ event = NoEvent
  BY DEF EngineInit
<1>2. Wanting = {} /\ aggressor = NoSlot
  BY <1>1 DEF Init, Wanting, Active, BlankOrder
<1>3. KnownOrders = [id \in {} |-> Stream!NoOrder]
  BY <1>2 DEF KnownOrders, KnownIds
<1> QED
  BY <1>1, <1>2, <1>3, NothingIncoming DEF Stream!Init, NoEvent, Stream!NoEvent

LEMMA StreamStep ==
  ASSUME EngineInv, EngineInv', [EngineNext]_<<vars, engineVars>>
  PROVE  [Stream!Next]_(Stream!vars)
<1> USE DEF EngineInv
<1>1. ASSUME NEW order_type \in OrderTypes, NEW tif \in TimesInForce,
             NEW owner \in Owners, RefuseUnsupported(owner, order_type, tif)
      PROVE  Stream!Next
  BY <1>1, RefusalsAreRejected
<1>2. ASSUME NEW order_type \in OrderTypes, NEW tif \in TimesInForce,
             NEW c \in NewOrderCommand, AcceptNewOrder(c, order_type, tif)
      PROVE  Stream!Next
  <2>1. Stream!OrderAccepted(c.owner, c.side, c.price, c.quantity)
    BY <1>2, AcceptIsAccepted
  <2>2. AdmitRefusal(c, next_order_id) = "None"
    BY <1>2 DEF AcceptNewOrder, Admit
  <2>3. c.quantity # 0 /\ ~(c.price >= PriceLevelCount)
    BY <2>2 DEF AdmitRefusal
  <2>4. /\ c.owner \in Owners /\ c.side \in {"Buy", "Sell"}
        /\ c.price \in 0 .. PriceLevelCount /\ c.quantity \in OfferedQuantities
    BY DEF NewOrderCommand, Sides
  <2>5. c.price \in Prices
    BY <2>3, <2>4, LevelsAssumption DEF Prices
  <2> QED
    BY <2>1, <2>3, <2>4, <2>5 DEF Stream!Next
<1>3. ASSUME NEW order_type \in OrderTypes, NEW tif \in TimesInForce,
             NEW c \in NewOrderCommand, RefuseNewOrder(c, order_type, tif)
      PROVE  Stream!Next
  BY <1>3, RefusalsAreRejected
<1>4. ASSUME ExecuteOrder
      PROVE  Stream!Next \/ UNCHANGED Stream!vars
  <2>1. OnMatch => Stream!Next
    BY MatchIsTraded
  <2>2. ReportRested => Stream!Next
    BY RestIsRested DEF Stream!Next
  <2>3. ReportNothing => UNCHANGED Stream!vars
    BY FinishIsStutter
  <2> QED
    BY <1>4, <2>1, <2>2, <2>3 DEF ExecuteOrder
<1>5. ASSUME NEW c \in CancelOrderCommand, ProcessCancelOrder(c)
      PROVE  Stream!Next
  <2>1. CancelOrder(c) => Stream!Next
    BY CancelIsCancelled DEF Stream!Next
  <2>2. RefuseCancelOrder(c) => Stream!Next
    BY RefusalsAreRejected
  <2> QED
    BY <1>5, <2>1, <2>2 DEF ProcessCancelOrder
<1>6. ASSUME NEW owner \in Owners, RefuseReplaceOrder(owner)
      PROVE  Stream!Next
  BY <1>6, RefusalsAreRejected
<1>7. ASSUME UNCHANGED <<vars, engineVars>>
      PROVE  UNCHANGED Stream!vars
  <2>1. UNCHANGED <<orders, aggressor, next_order_id, next_trade_id, event>>
    BY <1>7 DEF vars, engineVars
  <2>2. KnownOrders' = KnownOrders /\ IncomingId' = IncomingId
    BY <2>1, MarketKept, IncomingKept DEF Wanting, Active
  <2> QED
    BY <2>1, <2>2 DEF Stream!vars
<1> QED
  BY <1>1, <1>2, <1>3, <1>4, <1>5, <1>6, <1>7 DEF EngineNext

-----------------------------------------------------------------------------
(* The theorems                                                            *)

(* The book keeps its invariants under everything the engine does.         *)
THEOREM EngineInvariance == EngineSpec => []EngineInv
<1>1. EngineInit => EngineInv
  BY EngineInitInv
<1>2. EngineInv /\ [EngineNext]_<<vars, engineVars>> => EngineInv'
  BY EngineNextInv
<1> QED
  BY <1>1, <1>2, PTL DEF EngineSpec

(* Accepted orders and trades are numbered without gaps.                   *)
THEOREM IdsWithoutGaps == EngineSpec => []IdsConsecutive
BY EngineInvariance, PTL DEF EngineInv

(* No order id is given out while, or after, an order of the book has it.  *)
THEOREM IdsNeverReused == EngineSpec => []OrderIdsFresh
<1>1. EngineInv => OrderIdsFresh
  <2> SUFFICES ASSUME EngineInv PROVE OrderIdsFresh
    OBVIOUS
  <2>1. next_order_id = arrivals + 1 /\ arrivals \in Nat
    BY NextIdIsFree, ArrivalsAssumption DEF EngineInv, IInv, TypeOK
  <2>2. ASSUME NEW slot \in Active
        PROVE  orders[slot].order_id < next_order_id
    <3>1. /\ orders[slot].order_id = orders[slot].seq
          /\ orders[slot].seq <= arrivals
      BY DEF EngineInv, IdsFollowArrivals, IInv, ArrivalOrder
    <3>2. orders[slot].seq \in Nat
      BY ActiveSlots, RecordsAreActive DEF EngineInv, IInv, TypeOK
    <3> QED
      BY <2>1, <3>1, <3>2
  <2> QED
    BY <2>2 DEF EngineInv, OrderIdsFresh
<1> QED
  BY <1>1, EngineInvariance, PTL

(* Along every level the order ids grow.                                   *)
THEOREM LevelsSortedById == EngineSpec => []LevelsInIdOrder
<1>1. EngineInv => LevelsInIdOrder
  <2> SUFFICES ASSUME EngineInv, NEW side \in Sides, NEW p \in Prices,
                      NEW i \in Entries(side, p), NEW j \in Entries(side, p), i < j
               PROVE  orders[levels[side][p][i]].order_id
                        < orders[levels[side][p][j]].order_id
    BY DEF LevelsInIdOrder
  <2>1. levels[side][p][i] \in Active /\ levels[side][p][j] \in Active
    BY DEF EngineInv, IInv, LevelsHoldRestingOrders, Resting
  <2>2. orders[levels[side][p][i]].seq < orders[levels[side][p][j]].seq
    BY DEF EngineInv, IInv, ArrivalOrder
  <2> QED
    BY <2>1, <2>2 DEF EngineInv, IdsFollowArrivals
<1> QED
  BY <1>1, EngineInvariance, PTL

(* The events tell the whole truth: a listener that applies them one by one *)
(* to an empty market has, after each, every order that still wants        *)
(* something, with what is left of it, and every trade it is told of is one *)
(* that those orders allow (MatchingEngine.cpp:24-229).                    *)
THEOREM EngineIsEventStream == EngineSpec => ImplementsEventStream
<1>1. EngineInit => Stream!Init
  BY StreamInit
<1>2. EngineInv /\ EngineInv' /\ [EngineNext]_<<vars, engineVars>>
        => [Stream!Next]_(Stream!vars)
  BY StreamStep
<1> QED
  BY <1>1, <1>2, EngineInvariance, PTL DEF EngineSpec, ImplementsEventStream, Stream!Spec

=============================================================================
