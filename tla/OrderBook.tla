----------------------------- MODULE OrderBook -----------------------------
(***************************************************************************)
(* The order book of one symbol (src/src/engine/OrderBook.cpp): a pool of   *)
(* order slots, a map from order ids to slots, one FIFO queue of slots per *)
(* price and side, and the cached best price and order count of each side. *)
(*                                                                         *)
(* OrderBook::execute is a loop; each action below is one iteration of it, *)
(* or one whole call of admit or cancel.  The bid and ask halves of the    *)
(* code mirror each other, and are one definition over a side here.  The   *)
(* pool, the map and the price levels appear as the set, the partial       *)
(* function and the sequences they stand for.                              *)
(***************************************************************************)
EXTENDS Integers, FiniteSets, Sequences, SequencesExt

CONSTANTS
  Slots,              \* the slots of the order pool (Order*)
  NoSlot,             \* nullptr
  OrderIds,           \* the engine order ids callers pass
  Owners,             \* (client_id, client_order_id) pairs
  SymbolIds,          \* the symbols commands name
  BookSymbol,         \* the symbol of this book
  PriceLevelCount,    \* config.price_level_count
  LookupCapacity,     \* config.order_lookup_capacity
  QuantityLimit,      \* 2^64 in the code: quantities are computed modulo this
  OfferedQuantities,  \* the quantities commands ask for
  MaxArrivals         \* bound: how many orders are admitted in a behaviour

ASSUME SlotsAssumption == IsFiniteSet(Slots) /\ Slots # {} /\ NoSlot \notin Slots
ASSUME SymbolAssumption == BookSymbol \in SymbolIds
ASSUME LevelsAssumption == PriceLevelCount \in Nat \ {0}
ASSUME LookupAssumption == LookupCapacity \in Nat /\ LookupCapacity >= Cardinality(Slots)
ASSUME QuantityAssumption ==
  QuantityLimit \in Nat \ {0} /\ OfferedQuantities \subseteq 0 .. QuantityLimit - 1
ASSUME ArrivalsAssumption == MaxArrivals \in Nat

VARIABLES
  orders,           \* what each slot of the pool holds
  free,             \* the slots allocate may return
  orders_by_id,     \* the slot of each order id, or NoSlot
  levels,           \* per side and price, the FIFO queue of resting slots
  totals,           \* per side and price, PriceLevel::total_quantity
  best,             \* per side, best_bid_ or best_ask_, or NoPrice
  active_orders,    \* per side, active_bid_orders_ or active_ask_orders_
  execution_count,  \* execution_count_
  aggressor,        \* the slot being executed, or NoSlot between commands
  arrivals,         \* how many orders have been admitted
  output            \* what the last step reported to its caller

vars == <<orders, free, orders_by_id, levels, totals, best, active_orders,
          execution_count, aggressor, arrivals, output>>

-----------------------------------------------------------------------------

Sides == {"Buy", "Sell"}
Prices == 0 .. PriceLevelCount - 1
NoPrice == -1

Opposite(side) == IF side = "Buy" THEN "Sell" ELSE "Buy"

(* p is a better price than q for the resting orders of a side.            *)
Better(side, p, q) == IF side = "Buy" THEN p > q ELSE p < q

Wrap(n) == n % QuantityLimit

Lesser(m, n) == IF m <= n THEN m ELSE n

(* seq orders the admitted orders as the gateway's sequence numbers do.    *)
OrderRecord ==
  [active : {TRUE}, order_id : OrderIds, owner : Owners, side : Sides,
   price : Prices, remaining_quantity : 0 .. QuantityLimit - 1, seq : 1 .. MaxArrivals]

(* Order{}, whose fields nothing reads.                                    *)
BlankOrder == [active |-> FALSE]

Active == {slot \in Slots : orders[slot].active}
Resting == Active \ {aggressor}

NewOrderCommand ==
  [symbol_id : SymbolIds, owner : Owners, side : Sides,
   price : 0 .. PriceLevelCount, quantity : OfferedQuantities]

CancelOrderCommand == [symbol_id : SymbolIds, order_id : OrderIds, owner : Owners]

(* What a step reports: an AdmitResult, a CancelResult, a NewOrderOutcome, *)
(* or a MatchExecution given to the match sink.                            *)
Silent == [kind |-> "Silent"]
Rejected(reason) == [kind |-> "Rejected", reason |-> reason]
Admitted(id) == [kind |-> "Admitted", order_id |-> id]
Rested(o) ==
  [kind |-> "Rested", order_id |-> o.order_id, quantity |-> o.remaining_quantity]
Filled(id) == [kind |-> "Filled", order_id |-> id]
Cancelled(o) ==
  [kind |-> "Cancelled", order_id |-> o.order_id, quantity |-> o.remaining_quantity]
Execution(o, r, q) ==
  [kind |-> "Execution", price |-> r.price, quantity |-> q,
   aggressing_order_id |-> o.order_id,
   aggressing_remaining |-> o.remaining_quantity - q,
   resting_order_id |-> r.order_id,
   resting_remaining |-> r.remaining_quantity - q]

-----------------------------------------------------------------------------
(* Price levels                                                            *)

(* Mutant: takes the newest order of a level.                              *)
NewestOrder(queue) == IF queue = <<>> THEN NoSlot ELSE queue[Len(queue)]

FrontOrder(queue) == IF queue = <<>> THEN NoSlot ELSE queue[1]

(* Mutant: an order that comes to rest is linked in at the head.           *)
PushFront(queue, slot) == <<slot>> \o queue

PushBack(queue, slot) == Append(queue, slot)

(* Mutant: the level gives up its oldest order, not the one named.         *)
UnlinkHead(queue, slot) == Tail(queue)

(* PriceLevel::remove splices the order out, wherever it stands.           *)
Unlink(queue, slot) ==
  RemoveAt(queue, CHOOSE i \in DOMAIN queue : queue[i] = slot)

(* The non-empty levels of a side that are worse than the removed one.     *)
WorseLevels(side, removed, book) ==
  {p \in Prices : Better(side, removed, p) /\ book[p] # <<>>}

(* Mutant: the scan stops short of the last level, price 0 for bids.       *)
BestAfterShortScan(side, removed, book, count) ==
  LET last == IF side = "Buy" THEN 0 ELSE PriceLevelCount - 1
      worse == WorseLevels(side, removed, book) \ {last}
  IN  IF count = 0 \/ worse = {} THEN NoPrice
      ELSE CHOOSE p \in worse : \A q \in worse : p = q \/ Better(side, p, q)

(* The scan of update_best_bid_after_removal, or of its ask counterpart,   *)
(* over the levels of the side, from the removed one to worse prices.      *)
BestAfterRemoval(side, removed, book, count) ==
  LET worse == WorseLevels(side, removed, book)
  IN  IF count = 0 \/ worse = {} THEN NoPrice
      ELSE CHOOSE p \in worse : \A q \in worse : p = q \/ Better(side, p, q)

(* Mutant: the count of active orders of the side is not brought down.     *)
DepartUncounted(slot, side, p) ==
  LET queue == Unlink(levels[side][p], slot)
  IN  /\ levels' = [levels EXCEPT ![side][p] = queue]
      /\ UNCHANGED active_orders
      /\ best' = IF best[side] # p \/ queue # <<>> THEN best
                 ELSE [best EXCEPT ![side] =
                   BestAfterRemoval(side, p, levels'[side], active_orders'[side])]
      /\ orders_by_id' = [orders_by_id EXCEPT ![orders[slot].order_id] = NoSlot]
      /\ free' = free \cup {slot}

(* A resting order leaves its level, the map and the pool; the best price  *)
(* of the side is brought up to date if its best level is now empty.       *)
Depart(slot, side, p) ==
  LET queue == Unlink(levels[side][p], slot)
  IN  /\ levels' = [levels EXCEPT ![side][p] = queue]
      /\ active_orders' = [active_orders EXCEPT ![side] = @ - 1]
      /\ best' = IF best[side] # p \/ queue # <<>> THEN best
                 ELSE [best EXCEPT ![side] =
                   BestAfterRemoval(side, p, levels'[side], active_orders'[side])]
      /\ orders_by_id' = [orders_by_id EXCEPT ![orders[slot].order_id] = NoSlot]
      /\ free' = free \cup {slot}

-----------------------------------------------------------------------------
(* Admission                                                               *)

(* Why admit refuses command c under order id, in the order of its checks; *)
(* the last two come from the pool and from the map, whose slot is then    *)
(* given back.                                                             *)
AdmitRefusal(c, id) ==
  IF c.symbol_id # BookSymbol THEN "UnknownSymbol"
  ELSE IF c.quantity = 0 THEN "InvalidQuantity"
  ELSE IF c.price >= PriceLevelCount THEN "InvalidPrice"
  ELSE IF free = {} THEN "CapacityExhausted"
  ELSE IF orders_by_id[id] # NoSlot THEN "MatchingEngineError"
  ELSE IF Cardinality({i \in OrderIds : orders_by_id[i] # NoSlot}) = LookupCapacity
    THEN "CapacityExhausted"
  ELSE "None"

(* admit takes the order; its caller hands the slot to execute at once.    *)
Admit(c, id) ==
  /\ aggressor = NoSlot
  /\ arrivals < MaxArrivals
  /\ AdmitRefusal(c, id) = "None"
  /\ arrivals' = arrivals + 1
  /\ \E slot \in free :
       /\ free' = free \ {slot}
       /\ orders' = [orders EXCEPT ![slot] =
            [active |-> TRUE, order_id |-> id, owner |-> c.owner, side |-> c.side,
             price |-> c.price, remaining_quantity |-> c.quantity, seq |-> arrivals']]
       /\ orders_by_id' = [orders_by_id EXCEPT ![id] = slot]
       /\ aggressor' = slot
  /\ output' = Admitted(id)
  /\ UNCHANGED <<levels, totals, best, active_orders, execution_count>>

(* Mutant: the slot allocated for a duplicate id is not given back.        *)
RejectNewLeaking(c, id) ==
  /\ aggressor = NoSlot
  /\ AdmitRefusal(c, id) # "None"
  /\ output' = Rejected(AdmitRefusal(c, id))
  /\ IF AdmitRefusal(c, id) = "MatchingEngineError"
     THEN \E slot \in free : free' = free \ {slot}
     ELSE UNCHANGED free
  /\ UNCHANGED <<orders, orders_by_id, levels, totals, best, active_orders,
                 execution_count, aggressor, arrivals>>

RejectNew(c, id) ==
  /\ aggressor = NoSlot
  /\ AdmitRefusal(c, id) # "None"
  /\ output' = Rejected(AdmitRefusal(c, id))
  /\ UNCHANGED <<orders, free, orders_by_id, levels, totals, best, active_orders,
                 execution_count, aggressor, arrivals>>

-----------------------------------------------------------------------------
(* Execution                                                               *)

(* Mutant: an order trades only through the best opposite price.           *)
MarketableBeyond(o) ==
  LET opposite == best[Opposite(o.side)]
  IN  /\ o.remaining_quantity > 0
      /\ opposite # NoPrice
      /\ Better(o.side, o.price, opposite)

(* The condition of the match loop.                                        *)
Marketable(o) ==
  LET opposite == best[Opposite(o.side)]
  IN  /\ o.remaining_quantity > 0
      /\ opposite # NoPrice
      /\ ~Better(o.side, opposite, o.price)

StandingSide == Opposite(orders[aggressor].side)
Standing == FrontOrder(levels[StandingSide][best[StandingSide]])

(* Mutants: the aggressor's quantity is taken for the executed quantity;   *)
(* the orders trade one unit at a time.                                    *)
AggressorQuantity == orders[aggressor].remaining_quantity
OneUnit == 1

ExecutedQuantity ==
  Lesser(orders[aggressor].remaining_quantity, orders[Standing].remaining_quantity)

(* Mutant: an execution leaves the total of the level as it was.           *)
ExecuteKeepingTotal(slot, q) ==
  /\ aggressor # NoSlot
  /\ Marketable(orders[aggressor])
  /\ slot # NoSlot
  /\ execution_count' = execution_count + 1
  /\ UNCHANGED totals
  /\ output' = Execution(orders[aggressor], orders[slot], q)

(* An iteration of match_buy or match_sell up to the call of the sink.     *)
Execute(slot, q) ==
  /\ aggressor # NoSlot
  /\ Marketable(orders[aggressor])
  /\ slot # NoSlot
  /\ execution_count' = execution_count + 1
  /\ totals' = [totals EXCEPT
       ![StandingSide][best[StandingSide]] = Wrap(@ - q)]
  /\ output' = Execution(orders[aggressor], orders[slot], q)

(* Mutant: the loop goes round again without a trade when both orders are  *)
(* of one owner.                                                           *)
FillPartiallyUnlessOwn ==
  LET slot == Standing
      q == ExecutedQuantity
  IN  /\ aggressor # NoSlot
      /\ Marketable(orders[aggressor])
      /\ orders[slot].remaining_quantity # q
      /\ IF orders[slot].owner = orders[aggressor].owner THEN UNCHANGED vars
         ELSE /\ Execute(slot, q)
              /\ orders' = [orders EXCEPT ![aggressor].remaining_quantity = @ - q,
                                          ![slot].remaining_quantity = @ - q]
              /\ UNCHANGED <<free, orders_by_id, levels, best, active_orders,
                             aggressor, arrivals>>

(* The resting order has quantity left, and keeps its place.               *)
FillPartially ==
  LET slot == Standing
      q == ExecutedQuantity
  IN  /\ Execute(slot, q)
      /\ orders[slot].remaining_quantity # q
      /\ orders' = [orders EXCEPT ![aggressor].remaining_quantity = @ - q,
                                  ![slot].remaining_quantity = @ - q]
      /\ UNCHANGED <<free, orders_by_id, levels, best, active_orders, aggressor,
                     arrivals>>

(* The resting order is filled, and departs.                               *)
FillCompletely ==
  LET slot == Standing
      q == ExecutedQuantity
  IN  /\ Execute(slot, q)
      /\ orders[slot].remaining_quantity = q
      /\ orders' = [orders EXCEPT ![aggressor].remaining_quantity = @ - q,
                                  ![slot] = BlankOrder]
      /\ Depart(slot, StandingSide, best[StandingSide])
      /\ UNCHANGED <<aggressor, arrivals>>

(* What is left of the aggressor joins the back of its level.              *)
Rest ==
  LET o == orders[aggressor]
  IN  /\ aggressor # NoSlot
      /\ o.remaining_quantity > 0
      /\ ~Marketable(o)
      /\ levels' = [levels EXCEPT ![o.side][o.price] = PushBack(@, aggressor)]
      /\ totals' = [totals EXCEPT ![o.side][o.price] = Wrap(@ + o.remaining_quantity)]
      /\ active_orders' = [active_orders EXCEPT ![o.side] = @ + 1]
      /\ best' = [best EXCEPT ![o.side] =
                    IF @ = NoPrice \/ Better(o.side, o.price, @) THEN o.price ELSE @]
      /\ aggressor' = NoSlot
      /\ output' = Rested(o)
      /\ UNCHANGED <<orders, free, orders_by_id, execution_count, arrivals>>

(* A filled aggressor leaves the map and the pool.                         *)
FinishFilled ==
  /\ aggressor # NoSlot
  /\ orders[aggressor].remaining_quantity = 0
  /\ orders' = [orders EXCEPT ![aggressor] = BlankOrder]
  /\ free' = free \cup {aggressor}
  /\ orders_by_id' = [orders_by_id EXCEPT ![orders[aggressor].order_id] = NoSlot]
  /\ aggressor' = NoSlot
  /\ output' = Filled(orders[aggressor].order_id)
  /\ UNCHANGED <<levels, totals, best, active_orders, execution_count, arrivals>>

-----------------------------------------------------------------------------
(* Cancellation                                                            *)

CancelRefusal(c) ==
  IF c.symbol_id # BookSymbol THEN "UnknownSymbol"
  ELSE IF orders_by_id[c.order_id] = NoSlot THEN "UnknownOrder"
  ELSE IF orders[orders_by_id[c.order_id]].owner # c.owner THEN "NotOrderOwner"
  ELSE "None"

Cancel(c) ==
  LET slot == orders_by_id[c.order_id]
      o == orders[slot]
  IN  /\ aggressor = NoSlot
      /\ CancelRefusal(c) = "None"
      /\ totals' = [totals EXCEPT ![o.side][o.price] = Wrap(@ - o.remaining_quantity)]
      /\ orders' = [orders EXCEPT ![slot] = BlankOrder]
      /\ Depart(slot, o.side, o.price)
      /\ output' = Cancelled(o)
      /\ UNCHANGED <<execution_count, aggressor, arrivals>>

RejectCancel(c) ==
  /\ aggressor = NoSlot
  /\ CancelRefusal(c) # "None"
  /\ output' = Rejected(CancelRefusal(c))
  /\ UNCHANGED <<orders, free, orders_by_id, levels, totals, best, active_orders,
                 execution_count, aggressor, arrivals>>

-----------------------------------------------------------------------------

Init ==
  /\ orders = [slot \in Slots |-> BlankOrder]
  /\ free = Slots
  /\ orders_by_id = [id \in OrderIds |-> NoSlot]
  /\ levels = [side \in Sides |-> [p \in Prices |-> <<>>]]
  /\ totals = [side \in Sides |-> [p \in Prices |-> 0]]
  /\ best = [side \in Sides |-> NoPrice]
  /\ active_orders = [side \in Sides |-> 0]
  /\ execution_count = 0
  /\ aggressor = NoSlot
  /\ arrivals = 0
  /\ output = Silent

(* The steps execute takes by itself, once admit has returned.             *)
ExecuteStep == FillPartially \/ FillCompletely \/ Rest \/ FinishFilled

Next ==
  \/ \E c \in NewOrderCommand, id \in OrderIds : Admit(c, id) \/ RejectNew(c, id)
  \/ ExecuteStep
  \/ \E c \in CancelOrderCommand : Cancel(c) \/ RejectCancel(c)

Spec == Init /\ [][Next]_vars

(* execute runs to its end on the thread that called it.                   *)
FairSpec == Spec /\ WF_vars(ExecuteStep)

-----------------------------------------------------------------------------
(* Properties                                                              *)

Entries(side, p) == DOMAIN levels[side][p]
NonEmptyPrices(side) == {p \in Prices : levels[side][p] # <<>>}

TypeOK ==
  /\ orders \in [Slots -> OrderRecord \cup {BlankOrder}]
  /\ free \subseteq Slots
  /\ orders_by_id \in [OrderIds -> Slots \cup {NoSlot}]
  /\ levels \in [Sides -> [Prices -> Seq(Slots)]]
  /\ totals \in [Sides -> [Prices -> 0 .. QuantityLimit - 1]]
  /\ best \in [Sides -> Prices \cup {NoPrice}]
  /\ active_orders \in [Sides -> Nat]
  /\ execution_count \in Nat
  /\ aggressor \in Slots \cup {NoSlot}
  /\ arrivals \in 0 .. MaxArrivals

(* The pool and the map agree with the orders: a slot is free exactly when *)
(* it holds no order, and the map finds every order, at its slot, and      *)
(* nothing else.  No admit, fill or cancel leaks a slot, releases it twice *)
(* or leaves an id pointing to a released slot.                            *)
PoolAndMapAgree ==
  /\ free = Slots \ Active
  /\ aggressor # NoSlot => aggressor \in Active
  /\ \A slot \in Active : orders_by_id[orders[slot].order_id] = slot
  /\ \A id \in OrderIds : orders_by_id[id] # NoSlot =>
       /\ orders_by_id[id] \in Active
       /\ orders[orders_by_id[id]].order_id = id

(* Every entry of a level is a resting order of that side and price with   *)
(* something left to trade, and every resting order stands in its level:   *)
(* no fill or cancel takes out the wrong order or leaves one behind.       *)
LevelsHoldRestingOrders ==
  /\ \A side \in Sides, p \in Prices : \A i \in Entries(side, p) :
       LET slot == levels[side][p][i]
       IN  /\ slot \in Resting
           /\ orders[slot].side = side
           /\ orders[slot].price = p
           /\ orders[slot].remaining_quantity > 0
  /\ \A slot \in Resting :
       \E i \in Entries(orders[slot].side, orders[slot].price) :
         levels[orders[slot].side][orders[slot].price][i] = slot

(* Along a level orders stand in the order they arrived in, whatever has   *)
(* left it in between, and the order being executed is the latest of all.  *)
ArrivalOrder ==
  /\ \A slot \in Active : orders[slot].seq <= arrivals
  /\ aggressor # NoSlot =>
       \A slot \in Resting : orders[slot].seq < orders[aggressor].seq
  /\ \A side \in Sides, p \in Prices : \A i, j \in Entries(side, p) :
       i < j => orders[levels[side][p][i]].seq < orders[levels[side][p][j]].seq

(* The cached best price of a side is the best price an order rests at,    *)
(* also in the middle of a match that empties several levels.              *)
BestPricesCurrent ==
  \A side \in Sides :
    /\ best[side] = NoPrice <=> NonEmptyPrices(side) = {}
    /\ best[side] # NoPrice =>
         /\ best[side] \in NonEmptyPrices(side)
         /\ \A p \in NonEmptyPrices(side) : ~Better(side, p, best[side])

(* The counters of active orders count the resting orders of each side.    *)
CountsExact ==
  \A side \in Sides :
    active_orders[side] = Cardinality({slot \in Resting : orders[slot].side = side})

(* No bid rests at or above a resting ask.                                 *)
BookNotCrossed ==
  \A bid, ask \in Resting :
    orders[bid].side = "Buy" /\ orders[ask].side = "Sell" =>
      orders[bid].price < orders[ask].price

(* Every execution uses up an order: there are never more executions than  *)
(* orders that have ended.                                                 *)
Wanting == {slot \in Active : orders[slot].remaining_quantity > 0}
ExecutionsUseUpOrders == execution_count + Cardinality(Wanting) <= arrivals

(* The quantity of a level without overflow, counted by the unit: one pair *)
(* for each unit that an order of the level still wants.                   *)
LevelUnits(side, p) ==
  {unit \in Range(levels[side][p]) \X (1 .. QuantityLimit - 1) :
     unit[2] <= orders[unit[1]].remaining_quantity}

LevelSum(side, p) == Cardinality(LevelUnits(side, p))

(* The cached quantity of a level is the sum of what its orders want,      *)
(* modulo the width of the counter, after any fills and cancels.           *)
TotalsModuloWidth ==
  \A side \in Sides, p \in Prices : totals[side][p] = Wrap(LevelSum(side, p))

(* Every order that is admitted is filled or comes to rest.                *)
ExecuteTerminates == aggressor # NoSlot ~> aggressor = NoSlot

(* The conjunction that is inductive; module OrderBook_proofs proves it.   *)
IInv ==
  /\ TypeOK
  /\ PoolAndMapAgree
  /\ LevelsHoldRestingOrders
  /\ ArrivalOrder
  /\ BestPricesCurrent
  /\ CountsExact
  /\ BookNotCrossed

-----------------------------------------------------------------------------
(* The book implements price-time priority: the orders of the abstract     *)
(* book are the records of the resting slots.                              *)

Abstracted(o) ==
  [order_id |-> o.order_id, arrival |-> o.seq, owner |-> o.owner,
   side |-> o.side, price |-> o.price, quantity |-> o.remaining_quantity]

AbstractBook == {Abstracted(orders[slot]) : slot \in Resting}
AbstractIncoming == {Abstracted(orders[slot]) : slot \in {aggressor} \ {NoSlot}}

PTP == INSTANCE PriceTimePriority WITH
  Quantities <- OfferedQuantities \ {0},
  Capacity <- Cardinality(Slots),
  resting <- AbstractBook,
  incoming <- AbstractIncoming,
  clock <- arrivals

ImplementsPriceTimePriority == PTP!Spec

=============================================================================
