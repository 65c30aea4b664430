-------------------------- MODULE OrderBook_proofs --------------------------
(***************************************************************************)
(* Proofs about the order book, for every value of its constants: the      *)
(* conjunction IInv is an inductive invariant of Spec, and the invariants  *)
(* TLC checks on small instances follow from it; the totals of the levels  *)
(* and the bound on the executions are carried along with it.  The second  *)
(* part shows that the book implements price-time priority: under the      *)
(* mapping that sends a slot to its order, each step of OrderBook is a     *)
(* step PriceTimePriority allows, or leaves its state as it is; that       *)
(* argument rests on IInv too and has one lemma for each action.           *)
(***************************************************************************)
EXTENDS OrderBook, FiniteSetTheorems, SequenceTheorems, FunctionTheorems,
        WellFoundedInduction, TLAPS

-----------------------------------------------------------------------------
(* Lemmas about the operators of the model                                 *)

(* Taking position k out of a queue keeps the other entries in order.      *)
LEMMA RemoveAtProperties ==
  ASSUME NEW S, NEW q \in Seq(S), NEW k \in DOMAIN q
  PROVE  /\ RemoveAt(q, k) \in Seq(S)
         /\ Len(RemoveAt(q, k)) = Len(q) - 1
         /\ \A i \in 1 .. Len(q) - 1 :
              RemoveAt(q, k)[i] = IF i < k THEN q[i] ELSE q[i + 1]
<1> DEFINE a == SubSeq(q, 1, k - 1)
           b == SubSeq(q, k + 1, Len(q))
<1>1. Len(q) \in Nat /\ DOMAIN q = 1 .. Len(q) /\ k \in 1 .. Len(q)
  BY LenProperties
<1>2. \A i \in 1 .. Len(q) : q[i] \in S
  BY <1>1, ElementOfSeq
<1>3. /\ a \in Seq(S)
      /\ Len(a) = k - 1
      /\ \A i \in 1 .. k - 1 : a[i] = q[i]
  BY <1>1, <1>2, SubSeqProperties
<1>4. /\ b \in Seq(S)
      /\ Len(b) = Len(q) - k
      /\ \A i \in 1 .. Len(q) - k : b[i] = q[k + i]
  <2>1. \A i \in k + 1 .. Len(q) : q[i] \in S
    BY <1>1, <1>2
  <2>2. /\ b \in Seq(S)
        /\ Len(b) = IF k + 1 <= Len(q) THEN Len(q) - (k + 1) + 1 ELSE 0
        /\ \A i \in 1 .. Len(q) - (k + 1) + 1 : b[i] = q[(k + 1) + i - 1]
    BY <1>1, <2>1, SubSeqProperties
  <2> QED
    BY <1>1, <2>2
<1>5. /\ a \o b \in Seq(S)
      /\ Len(a \o b) = Len(a) + Len(b)
      /\ \A i \in 1 .. Len(a) + Len(b) :
           (a \o b)[i] = IF i <= Len(a) THEN a[i] ELSE b[i - Len(a)]
  BY <1>3, <1>4, ConcatProperties
<1>6. RemoveAt(q, k) = a \o b
  BY DEF RemoveAt
<1> HIDE DEF a, b
<1>7. Len(a \o b) = Len(q) - 1
  BY <1>1, <1>3, <1>4, <1>5
<1>8. ASSUME NEW i \in 1 .. Len(q) - 1
      PROVE  (a \o b)[i] = IF i < k THEN q[i] ELSE q[i + 1]
  <2>1. CASE i < k
    BY <2>1, <1>1, <1>3, <1>4, <1>5
  <2>2. CASE ~(i < k)
    <3>1. (a \o b)[i] = b[i - (k - 1)]
      <4>1. Len(a) = k - 1 /\ i \in 1 .. Len(a) + Len(b) /\ ~(i <= Len(a))
        BY <2>2, <1>1, <1>3, <1>4
      <4>2. (a \o b)[i] = b[i - Len(a)]
        BY <4>1, <1>5
      <4> QED
        BY <4>1, <4>2
    <3>2. i - (k - 1) \in 1 .. Len(q) - k /\ k + (i - (k - 1)) = i + 1
      BY <2>2, <1>1
    <3> QED
      BY <2>2, <3>1, <3>2, <1>1, <1>4
  <2> QED
    BY <2>1, <2>2, <1>1
<1> QED
  BY <1>5, <1>6, <1>7, <1>8

(* Unlinking an order from the level it stands in takes out exactly it.    *)
LEMMA UnlinkProperties ==
  ASSUME NEW S, NEW q \in Seq(S), NEW slot, \E i \in DOMAIN q : q[i] = slot
  PROVE  \E k \in DOMAIN q :
           /\ q[k] = slot
           /\ Unlink(q, slot) \in Seq(S)
           /\ Len(Unlink(q, slot)) = Len(q) - 1
           /\ \A i \in 1 .. Len(q) - 1 :
                Unlink(q, slot)[i] = IF i < k THEN q[i] ELSE q[i + 1]
<1> DEFINE k == CHOOSE i \in DOMAIN q : q[i] = slot
<1>1. k \in DOMAIN q /\ q[k] = slot
  OBVIOUS
<1>2. Unlink(q, slot) = RemoveAt(q, k)
  BY DEF Unlink
<1> HIDE DEF k
<1> QED
  BY <1>1, <1>2, RemoveAtProperties

(* A non-empty set of prices has a least and a greatest one.               *)
LEMMA LeastPrice ==
  ASSUME NEW S \in SUBSET Nat, S # {}
  PROVE  \E p \in S : \A q \in S : p <= q
<1>1. PICK p \in S : \A q \in S : ~(<<q, p>> \in OpToRel(<, Nat))
  BY NatLessThanWellFounded, WFMin
<1>2. \A q \in S : ~(q < p)
  BY <1>1 DEF OpToRel
<1> QED
  BY <1>2

LEMMA GreatestPrice ==
  ASSUME NEW N \in Nat, NEW S \in SUBSET (0 .. N), S # {}
  PROVE  \E p \in S : \A q \in S : q <= p
<1> DEFINE T == {N - p : p \in S}
<1>1. T \in SUBSET Nat /\ T # {}
  <2>1. \A p \in S : N - p \in Nat
    OBVIOUS
  <2> QED
    BY <2>1
<1>2. PICK m \in T : \A n \in T : m <= n
  BY <1>1, LeastPrice
<1>3. PICK p \in S : m = N - p
  BY <1>2
<1>4. ASSUME NEW q \in S PROVE q <= p
  <2>1. N - q \in T
    OBVIOUS
  <2>2. N - p <= N - q
    BY <2>1, <1>2, <1>3
  <2>3. p \in Int /\ q \in Int /\ N \in Int
    OBVIOUS
  <2> HIDE DEF T
  <2> QED
    BY <2>2, <2>3
<1> QED
  BY <1>4

(* Of the non-empty levels worse than the emptied one, the scan finds the  *)
(* best; it finds none only if there is none, or the count says so.        *)
LEMMA BestAfterRemovalProperties ==
  ASSUME NEW side \in Sides, NEW removed \in Prices, NEW book, NEW count
  PROVE  LET worse == WorseLevels(side, removed, book)
             found == BestAfterRemoval(side, removed, book, count)
         IN  /\ count = 0 \/ worse = {} => found = NoPrice
             /\ count # 0 /\ worse # {} =>
                  /\ found \in worse
                  /\ \A q \in worse : ~Better(side, q, found)
<1> DEFINE worse == WorseLevels(side, removed, book)
           found == BestAfterRemoval(side, removed, book, count)
<1>1. CASE count = 0 \/ worse = {}
  BY <1>1 DEF BestAfterRemoval
<1>2. CASE count # 0 /\ worse # {}
  <2>1. worse \in SUBSET (0 .. PriceLevelCount - 1) /\ PriceLevelCount - 1 \in Nat
    BY LevelsAssumption DEF Prices, WorseLevels
  <2>2. \E p \in worse : \A q \in worse : p = q \/ Better(side, p, q)
    <3>1. CASE side = "Buy"
      <4>1. PICK p \in worse : \A q \in worse : q <= p
        BY <1>2, <2>1, GreatestPrice
      <4>2. \A q \in worse : p = q \/ Better(side, p, q)
        BY <3>1, <4>1, <2>1 DEF Better
      <4> QED
        BY <4>2
    <3>2. CASE side = "Sell"
      <4>1. PICK p \in worse : \A q \in worse : p <= q
        <5>1. worse \in SUBSET Nat
          BY <2>1
        <5> QED
          BY <1>2, <5>1, LeastPrice
      <4>2. \A q \in worse : p = q \/ Better(side, p, q)
        BY <3>2, <4>1, <2>1 DEF Better
      <4> QED
        BY <4>2
    <3> QED
      BY <3>1, <3>2 DEF Sides
  <2>3. found = CHOOSE p \in worse : \A q \in worse : p = q \/ Better(side, p, q)
    BY <1>2 DEF BestAfterRemoval
  <2>4. found \in worse /\ \A q \in worse : found = q \/ Better(side, found, q)
    BY <2>2, <2>3
  <2>5. \A q \in worse : ~Better(side, q, found)
    <3> HIDE DEF found
    <3> QED
      BY <2>1, <2>4 DEF Better
  <2> QED
    BY <1>2, <2>4, <2>5
<1> QED
  BY <1>1, <1>2

-----------------------------------------------------------------------------
(* Lemmas about the states of the book                                     *)

(* A slot holds an order if it is active, and Order{} otherwise.           *)
LEMMA RecordsAreActive ==
  /\ BlankOrder.active = FALSE
  /\ \A o \in OrderRecord :
       /\ o.active = TRUE
       /\ o.order_id \in OrderIds
       /\ o.side \in Sides
       /\ o.price \in Prices
       /\ o.remaining_quantity \in 0 .. QuantityLimit - 1
       /\ o.seq \in 1 .. MaxArrivals
BY DEF BlankOrder, OrderRecord

LEMMA ActiveSlots ==
  ASSUME orders \in [Slots -> OrderRecord \cup {BlankOrder}]
  PROVE  /\ Active \subseteq Slots
         /\ \A slot \in Active : orders[slot] \in OrderRecord
         /\ \A slot \in Slots \ Active : orders[slot] = BlankOrder
BY RecordsAreActive DEF Active

LEMMA IntegerTypes ==
  /\ Prices \subseteq Nat
  /\ NoPrice \in Int /\ NoPrice \notin Prices
  /\ QuantityLimit - 1 \in Nat
  /\ 0 .. QuantityLimit - 1 \subseteq Nat
BY LevelsAssumption, QuantityAssumption DEF Prices, NoPrice

LEMMA FiniteSlots ==
  ASSUME NEW T \in SUBSET Slots
  PROVE  IsFiniteSet(T) /\ Cardinality(T) \in Nat
BY SlotsAssumption, FS_Subset, FS_CardinalityType

(* The match loop always finds an order to trade with: the level at the    *)
(* cached best price is not empty, and both orders have quantity left.     *)
LEMMA StandingOrder ==
  ASSUME IInv, aggressor # NoSlot, Marketable(orders[aggressor])
  PROVE  /\ StandingSide \in Sides
         /\ best[StandingSide] \in Prices
         /\ Standing \in Resting
         /\ Standing # aggressor
         /\ orders[Standing] \in OrderRecord
         /\ orders[aggressor] \in OrderRecord
         /\ orders[Standing].side = StandingSide
         /\ orders[Standing].price = best[StandingSide]
         /\ ExecutedQuantity \in Nat \ {0}
         /\ ExecutedQuantity <= orders[aggressor].remaining_quantity
         /\ ExecutedQuantity <= orders[Standing].remaining_quantity
<1> USE DEF IInv
<1>1. aggressor \in Active /\ orders[aggressor] \in OrderRecord
  BY ActiveSlots DEF PoolAndMapAgree, TypeOK
<1>2. StandingSide \in Sides
  BY <1>1, RecordsAreActive DEF StandingSide, Opposite, Sides
<1>3. best[StandingSide] # NoPrice
  BY DEF Marketable, StandingSide
<1>4. best[StandingSide] \in Prices
  BY <1>2, <1>3 DEF TypeOK
<1> DEFINE queue == levels[StandingSide][best[StandingSide]]
<1>5. queue \in Seq(Slots) /\ queue # <<>>
  BY <1>2, <1>3, <1>4 DEF TypeOK, BestPricesCurrent, NonEmptyPrices
<1>6. 1 \in DOMAIN queue
  BY <1>5, LenProperties, EmptySeq
<1>7. Standing = queue[1]
  BY <1>5 DEF Standing, FrontOrder
<1>8. /\ Standing \in Resting
      /\ orders[Standing].side = StandingSide
      /\ orders[Standing].price = best[StandingSide]
      /\ orders[Standing].remaining_quantity > 0
  BY <1>2, <1>4, <1>6, <1>7 DEF LevelsHoldRestingOrders, Entries
<1>9. Standing # aggressor /\ orders[Standing] \in OrderRecord
  BY <1>8, ActiveSlots DEF Resting, TypeOK
<1>10. /\ ExecutedQuantity \in Nat \ {0}
       /\ ExecutedQuantity <= orders[aggressor].remaining_quantity
       /\ ExecutedQuantity <= orders[Standing].remaining_quantity
  <2>1. /\ orders[aggressor].remaining_quantity \in Nat \ {0}
        /\ orders[Standing].remaining_quantity \in Nat \ {0}
    BY <1>1, <1>8, <1>9, RecordsAreActive, IntegerTypes DEF Marketable
  <2> QED
    BY <2>1 DEF ExecutedQuantity, Lesser
<1> QED
  BY <1>1, <1>2, <1>4, <1>8, <1>9, <1>10

-----------------------------------------------------------------------------
(* A departure, by a fill or by a cancel                                   *)

(* What FillCompletely and Cancel have in common: the resting order in     *)
(* slot departs, and the other resting orders stay as they are.            *)
Departure(slot) ==
  /\ slot \in Resting
  /\ Depart(slot, orders[slot].side, orders[slot].price)
  /\ Active' = Active \ {slot}
  /\ \A t \in Resting \ {slot} : orders'[t] = orders[t]
  /\ \A t \in Active \ {slot} :
       orders'[t].order_id = orders[t].order_id /\ orders'[t].seq = orders[t].seq
  /\ UNCHANGED <<aggressor, arrivals>>

(* The level an order departs from keeps its other orders, in their order. *)
LEMMA DepartureQueue ==
  ASSUME IInv, NEW slot, Departure(slot)
  PROVE  LET side == orders[slot].side
             p == orders[slot].price
             q == levels[side][p]
         IN  \E k \in DOMAIN q :
               /\ side \in Sides /\ p \in Prices
               /\ orders[slot] \in OrderRecord
               /\ q \in Seq(Slots)
               /\ q[k] = slot
               /\ levels' = [levels EXCEPT ![side][p] = levels'[side][p]]
               /\ levels'[side][p] = Unlink(q, slot)
               /\ levels'[side][p] \in Seq(Slots)
               /\ Len(levels'[side][p]) = Len(q) - 1
               /\ \A i \in 1 .. Len(q) - 1 :
                    levels'[side][p][i] = IF i < k THEN q[i] ELSE q[i + 1]
<1> DEFINE side == orders[slot].side
           p == orders[slot].price
           q == levels[side][p]
<1>1. slot \in Resting /\ slot \in Active /\ slot \in Slots
  BY DEF Departure, Resting, Active
<1>2. orders[slot] \in OrderRecord
  BY <1>1, ActiveSlots DEF IInv, TypeOK
<1>3. side \in Sides /\ p \in Prices
  BY <1>2, RecordsAreActive
<1>4. q \in Seq(Slots)
  BY <1>3 DEF IInv, TypeOK
<1>5. \E i \in DOMAIN q : q[i] = slot
  BY <1>1 DEF IInv, LevelsHoldRestingOrders, Entries
<1>6. levels' = [levels EXCEPT ![side][p] = Unlink(q, slot)]
  BY DEF Departure, Depart
<1>7. levels'[side][p] = Unlink(q, slot)
  <2>1. levels \in [Sides -> [Prices -> Seq(Slots)]]
    BY DEF IInv, TypeOK
  <2> DEFINE left == Unlink(q, slot)
  <2>2. levels' = [levels EXCEPT ![side][p] = left]
    BY <1>6
  <2>3. levels'[side][p] = left
    <3> HIDE DEF side, p, q, left
    <3> QED
      BY <2>1, <2>2, <1>3
  <2> QED
    BY <2>3
<1>8. PICK k \in DOMAIN q :
         /\ q[k] = slot
         /\ Unlink(q, slot) \in Seq(Slots)
         /\ Len(Unlink(q, slot)) = Len(q) - 1
         /\ \A i \in 1 .. Len(q) - 1 :
              Unlink(q, slot)[i] = IF i < k THEN q[i] ELSE q[i + 1]
  BY <1>4, <1>5, UnlinkProperties
<1> HIDE DEF side, p, q
<1>9. levels' = [levels EXCEPT ![side][p] = levels'[side][p]]
  BY <1>6, <1>7
<1>10. /\ levels'[side][p] \in Seq(Slots)
       /\ Len(levels'[side][p]) = Len(q) - 1
       /\ \A i \in 1 .. Len(q) - 1 :
            levels'[side][p][i] = IF i < k THEN q[i] ELSE q[i + 1]
  BY <1>7, <1>8
<1> QED
  BY <1>2, <1>3, <1>4, <1>7, <1>8, <1>9, <1>10 DEF side, p, q

(* Every entry of a level after a departure was an entry of that level     *)
(* before, in the same order, and is not the departed one; and only the    *)
(* departed one is gone.                                                   *)
LEMMA DepartureEntries ==
  ASSUME IInv, NEW slot, Departure(slot), NEW side \in Sides, NEW p \in Prices
  PROVE  /\ levels'[side][p] \in Seq(Slots)
         /\ side # orders[slot].side \/ p # orders[slot].price =>
              levels'[side][p] = levels[side][p]
         /\ \A i \in Entries(side, p)' : \E j \in Entries(side, p) :
              /\ levels'[side][p][i] = levels[side][p][j]
              /\ levels[side][p][j] # slot
         /\ \A j \in Entries(side, p) : levels[side][p][j] # slot =>
              \E i \in Entries(side, p)' : levels'[side][p][i] = levels[side][p][j]
         /\ \A i1, i2 \in Entries(side, p)' : i1 < i2 =>
              \E j1, j2 \in Entries(side, p) :
                /\ j1 < j2
                /\ levels'[side][p][i1] = levels[side][p][j1]
                /\ levels'[side][p][i2] = levels[side][p][j2]
<1> DEFINE s == orders[slot].side
           r == orders[slot].price
           q == levels[s][r]
<1>1. PICK k \in DOMAIN q :
         /\ s \in Sides /\ r \in Prices
         /\ orders[slot] \in OrderRecord
         /\ q \in Seq(Slots)
         /\ q[k] = slot
         /\ levels' = [levels EXCEPT ![s][r] = levels'[s][r]]
         /\ levels'[s][r] \in Seq(Slots)
         /\ Len(levels'[s][r]) = Len(q) - 1
         /\ \A i \in 1 .. Len(q) - 1 :
              levels'[s][r][i] = IF i < k THEN q[i] ELSE q[i + 1]
  BY DepartureQueue
<1>2. levels \in [Sides -> [Prices -> Seq(Slots)]]
  BY DEF IInv, TypeOK
<1>3. DOMAIN q = 1 .. Len(q) /\ Len(q) \in Nat
  BY <1>1, LenProperties
<1>4. DOMAIN (levels'[s][r]) = 1 .. Len(q) - 1
  BY <1>1, LenProperties
<1>5. \A i \in DOMAIN q : q[i] = slot => i = k
  <2> SUFFICES ASSUME NEW i \in DOMAIN q, q[i] = slot, i # k PROVE FALSE
    OBVIOUS
  <2>1. i < k \/ k < i
    BY <1>3
  <2>2. orders[q[i]].seq < orders[q[k]].seq \/ orders[q[k]].seq < orders[q[i]].seq
    BY <1>1, <2>1 DEF IInv, ArrivalOrder, Entries
  <2>3. orders[slot].seq < orders[slot].seq /\ orders[slot].seq \in Int
    <3>1. orders[slot].seq \in Int
      <4>1. orders[slot].seq \in 1 .. MaxArrivals
        BY <1>1, RecordsAreActive
      <4> QED
        BY <4>1
    <3>2. q[i] = slot /\ q[k] = slot
      BY <1>1
    <3> HIDE DEF q
    <3> QED
      BY <3>1, <3>2, <2>2
  <2> QED
    BY <2>3
<1> HIDE DEF s, r, q
<1>6. CASE side = s /\ p = r
  <2>0. Entries(side, p)' = 1 .. Len(q) - 1
    BY <1>4, <1>6 DEF Entries
  <2>1. \A i \in Entries(side, p)' :
          /\ i \in 1 .. Len(q) - 1
          /\ i < k => i \in DOMAIN q /\ levels'[side][p][i] = q[i]
          /\ ~(i < k) => i + 1 \in DOMAIN q /\ levels'[side][p][i] = q[i + 1]
    <3> SUFFICES ASSUME NEW i \in 1 .. Len(q) - 1
                 PROVE  /\ i < k => i \in DOMAIN q /\ levels'[side][p][i] = q[i]
                        /\ ~(i < k) => i + 1 \in DOMAIN q
                                        /\ levels'[side][p][i] = q[i + 1]
      BY <2>0
    <3>1. i \in DOMAIN q /\ i + 1 \in DOMAIN q
      BY <1>3
    <3>2. levels'[side][p][i] = IF i < k THEN q[i] ELSE q[i + 1]
      BY <1>1, <1>6
    <3> QED
      BY <3>1, <3>2
  <2>2. levels[side][p] = q /\ Entries(side, p) = DOMAIN q
    BY <1>6 DEF Entries, q
  <2>3. ASSUME NEW i \in Entries(side, p)'
        PROVE  \E j \in Entries(side, p) :
                 /\ levels'[side][p][i] = levels[side][p][j]
                 /\ levels[side][p][j] # slot
    <3>1. CASE i < k
      BY <2>1, <2>2, <3>1, <1>3, <1>5
    <3>2. CASE ~(i < k)
      <4>1. i + 1 \in DOMAIN q /\ levels'[side][p][i] = q[i + 1] /\ i + 1 # k
        BY <2>1, <3>2, <1>3
      <4> QED
        BY <4>1, <2>2, <1>5
    <3> QED
      BY <3>1, <3>2
  <2>4. ASSUME NEW j \in Entries(side, p), levels[side][p][j] # slot
        PROVE  \E i \in Entries(side, p)' : levels'[side][p][i] = levels[side][p][j]
    <3>0. j \in 1 .. Len(q) /\ j # k /\ k \in 1 .. Len(q)
      BY <2>2, <2>4, <1>1, <1>3
    <3>1. CASE j < k
      <4>1. j \in 1 .. Len(q) - 1
        BY <3>0, <3>1, <1>3
      <4> QED
        BY <4>1, <3>1, <2>2, <1>1, <1>4, <1>6 DEF Entries
    <3>2. CASE j > k
      <4>1. j - 1 \in 1 .. Len(q) - 1 /\ ~(j - 1 < k) /\ (j - 1) + 1 = j
        BY <3>0, <3>2, <1>3
      <4>2. levels'[side][p][j - 1] = q[j]
        BY <4>1, <1>1, <1>6
      <4> QED
        BY <4>1, <4>2, <2>2, <1>4, <1>6 DEF Entries
    <3> QED
      BY <3>0, <3>1, <3>2
  <2>5. ASSUME NEW i1 \in Entries(side, p)', NEW i2 \in Entries(side, p)', i1 < i2
        PROVE  \E j1, j2 \in Entries(side, p) :
                 /\ j1 < j2
                 /\ levels'[side][p][i1] = levels[side][p][j1]
                 /\ levels'[side][p][i2] = levels[side][p][j2]
    <3> DEFINE old(i) == IF i < k THEN i ELSE i + 1
    <3>1. \A i \in Entries(side, p)' :
            /\ old(i) \in Entries(side, p)
            /\ levels'[side][p][i] = levels[side][p][old(i)]
      BY <2>1, <2>2
    <3>2. old(i1) < old(i2)
      BY <2>1, <2>5, <1>3
    <3> QED
      BY <3>1, <3>2
  <2>6. levels'[side][p] \in Seq(Slots)
    BY <1>1, <1>6
  <2>7. side = orders[slot].side /\ p = orders[slot].price
    BY <1>6 DEF s, r
  <2> QED
    BY <2>3, <2>4, <2>5, <2>6, <2>7
<1>7. CASE side # s \/ p # r
  <2>1. levels'[side][p] = levels[side][p]
    BY <1>1, <1>2, <1>7
  <2>2. ASSUME NEW j \in Entries(side, p), levels[side][p][j] = slot PROVE FALSE
    BY <2>2, <1>7 DEF IInv, LevelsHoldRestingOrders, Entries, s, r
  <2>3. Entries(side, p)' = Entries(side, p)
    BY <2>1 DEF Entries
  <2> QED
    BY <1>2, <2>1, <2>2, <2>3
<1> QED
  BY <1>6, <1>7

LEMMA DepartureTypes ==
  ASSUME IInv, NEW slot, Departure(slot)
  PROVE  /\ free' \subseteq Slots
         /\ orders_by_id' \in [OrderIds -> Slots \cup {NoSlot}]
         /\ levels' \in [Sides -> [Prices -> Seq(Slots)]]
         /\ orders[slot] \in OrderRecord
         /\ slot \in Resting /\ slot \in Active /\ slot \in Slots /\ slot # aggressor
         /\ Resting' = Resting \ {slot}
         /\ orders[slot].side \in Sides /\ orders[slot].price \in Prices
<1>1. slot \in Resting /\ slot \in Active /\ slot \in Slots /\ slot # aggressor
  BY DEF Departure, Resting, Active
<1>2. orders[slot] \in OrderRecord
  BY <1>1, ActiveSlots DEF IInv, TypeOK
<1>3. orders[slot].side \in Sides /\ orders[slot].price \in Prices
  BY <1>2, RecordsAreActive
<1>4. /\ free' \subseteq Slots
      /\ orders_by_id' \in [OrderIds -> Slots \cup {NoSlot}]
  BY <1>1 DEF IInv, TypeOK, Departure, Depart
<1>5. levels' \in [Sides -> [Prices -> Seq(Slots)]]
  <2> DEFINE side == orders[slot].side
             p == orders[slot].price
             r == levels'[side][p]
  <2>1. levels' = [levels EXCEPT ![side][p] = r] /\ r \in Seq(Slots)
    BY DepartureQueue
  <2>2. levels \in [Sides -> [Prices -> Seq(Slots)]] /\ side \in Sides /\ p \in Prices
    BY <1>3 DEF IInv, TypeOK
  <2> HIDE DEF side, p, r
  <2> QED
    BY <2>1, <2>2
<1>6. Resting' = Resting \ {slot}
  BY <1>1 DEF Departure, Resting
<1> QED
  BY <1>1, <1>2, <1>3, <1>4, <1>5, <1>6

LEMMA DepartureKeepsPoolAndMap ==
  ASSUME IInv, NEW slot, Departure(slot)
  PROVE  PoolAndMapAgree'
<1>1. free' = Slots \ Active'
  BY DepartureTypes DEF IInv, PoolAndMapAgree, Departure, Depart
<1>2. aggressor' # NoSlot => aggressor' \in Active'
  BY DepartureTypes DEF IInv, PoolAndMapAgree, Departure
<1>3. /\ orders_by_id \in [OrderIds -> Slots \cup {NoSlot}]
      /\ orders_by_id' = [orders_by_id EXCEPT ![orders[slot].order_id] = NoSlot]
  BY DEF IInv, TypeOK, Departure, Depart
<1>4. \A t \in Active : orders[t].order_id \in OrderIds
  BY ActiveSlots, RecordsAreActive DEF IInv, TypeOK
<1>5. orders_by_id[orders[slot].order_id] = slot
  BY DepartureTypes DEF IInv, PoolAndMapAgree
<1>6. ASSUME NEW t \in Active'
      PROVE  orders_by_id'[orders'[t].order_id] = t
  <2>1. t \in Active /\ t # slot /\ orders'[t].order_id = orders[t].order_id
    BY DEF Departure
  <2>2. orders_by_id[orders[t].order_id] = t
    BY <2>1 DEF IInv, PoolAndMapAgree
  <2> QED
    BY <2>1, <2>2, <1>3, <1>4, <1>5
<1>7. ASSUME NEW id \in OrderIds, orders_by_id'[id] # NoSlot
      PROVE  orders_by_id'[id] \in Active' /\ orders'[orders_by_id'[id]].order_id = id
  <2>1. orders_by_id'[id] = orders_by_id[id] /\ id # orders[slot].order_id
    BY <1>3, <1>7
  <2>2. /\ orders_by_id[id] \in Active
        /\ orders[orders_by_id[id]].order_id = id
    BY <1>7, <2>1 DEF IInv, PoolAndMapAgree
  <2>3. orders_by_id[id] # slot
    BY <2>1, <2>2
  <2> QED
    BY <2>1, <2>2, <2>3 DEF Departure
<1> QED
  BY <1>1, <1>2, <1>6, <1>7 DEF PoolAndMapAgree

LEMMA DepartureKeepsLevels ==
  ASSUME IInv, NEW slot, Departure(slot)
  PROVE  LevelsHoldRestingOrders' /\ ArrivalOrder'
<1>1. \A t \in Resting' : t \in Resting /\ t # slot /\ orders'[t] = orders[t]
  BY DepartureTypes DEF Departure
<1>2. ASSUME NEW side \in Sides, NEW p \in Prices, NEW i \in Entries(side, p)'
      PROVE  LET t == levels'[side][p][i]
             IN  /\ t \in Resting'
                 /\ orders'[t].side = side
                 /\ orders'[t].price = p
                 /\ orders'[t].remaining_quantity > 0
  <2> DEFINE t == levels'[side][p][i]
  <2>1. PICK j \in Entries(side, p) : t = levels[side][p][j] /\ t # slot
    BY DepartureEntries
  <2> HIDE DEF t
  <2>2. /\ t \in Resting
        /\ orders[t].side = side
        /\ orders[t].price = p
        /\ orders[t].remaining_quantity > 0
    BY <2>1 DEF IInv, LevelsHoldRestingOrders
  <2>3. t \in Resting' /\ orders'[t] = orders[t]
    BY <2>1, <2>2, DepartureTypes DEF Departure
  <2>4. t \in Resting' /\ orders'[t].side = side /\ orders'[t].price = p
        /\ orders'[t].remaining_quantity > 0
    BY <2>2, <2>3
  <2> QED
    BY <2>4 DEF t
<1>3. ASSUME NEW t \in Resting'
      PROVE  \E i \in DOMAIN (levels'[orders'[t].side][orders'[t].price]) :
               levels'[orders'[t].side][orders'[t].price][i] = t
  <2>1. t \in Resting /\ t # slot /\ orders'[t] = orders[t]
    BY <1>1
  <2>2. orders[t].side \in Sides /\ orders[t].price \in Prices
    BY <2>1, ActiveSlots, RecordsAreActive DEF IInv, TypeOK, Resting
  <2> DEFINE side == orders[t].side
             p == orders[t].price
  <2>3. PICK j \in Entries(side, p) : levels[side][p][j] = t
    BY <2>1 DEF IInv, LevelsHoldRestingOrders
  <2>4. \E i \in Entries(side, p)' : levels'[side][p][i] = t
    BY <2>1, <2>2, <2>3, DepartureEntries
  <2> QED
    BY <2>1, <2>4 DEF Entries
<1>4. LevelsHoldRestingOrders'
  BY <1>2, <1>3 DEF LevelsHoldRestingOrders, Entries
<1>5. /\ \A t \in Active' : orders'[t].seq <= arrivals'
      /\ aggressor' # NoSlot =>
           \A t \in Resting' : orders'[t].seq < orders'[aggressor'].seq
  <2>1. \A t \in Active' : t \in Active /\ orders'[t].seq = orders[t].seq
    BY DEF Departure
  <2>2. aggressor' = aggressor /\ arrivals' = arrivals
    BY DEF Departure
  <2>3. aggressor # NoSlot => aggressor \in Active'
    BY DepartureTypes DEF IInv, PoolAndMapAgree, Departure
  <2> QED
    BY <1>1, <2>1, <2>2, <2>3 DEF IInv, ArrivalOrder
<1>6. ASSUME NEW side \in Sides, NEW p \in Prices,
             NEW i \in Entries(side, p)', NEW j \in Entries(side, p)', i < j
      PROVE  orders'[levels'[side][p][i]].seq < orders'[levels'[side][p][j]].seq
  <2>1. PICK i0, j0 \in Entries(side, p) :
           /\ i0 < j0
           /\ levels'[side][p][i] = levels[side][p][i0]
           /\ levels'[side][p][j] = levels[side][p][j0]
    BY <1>6, DepartureEntries
  <2>2. orders[levels[side][p][i0]].seq < orders[levels[side][p][j0]].seq
    BY <2>1 DEF IInv, ArrivalOrder
  <2>3. /\ orders'[levels'[side][p][i]] = orders[levels'[side][p][i]]
        /\ orders'[levels'[side][p][j]] = orders[levels'[side][p][j]]
    BY <1>1, <1>2
  <2> QED
    BY <2>1, <2>2, <2>3
<1> QED
  BY <1>4, <1>5, <1>6 DEF ArrivalOrder, Entries

LEMMA DepartureKeepsCounts ==
  ASSUME IInv, NEW slot, Departure(slot)
  PROVE  active_orders' \in [Sides -> Nat] /\ CountsExact'
<1> DEFINE on(side) == {t \in Resting : orders[t].side = side}
           side0 == orders[slot].side
<1>1. active_orders' = [active_orders EXCEPT ![side0] = @ - 1]
  BY DEF Departure, Depart
<1>2. active_orders \in [Sides -> Nat]
  BY DEF IInv, TypeOK
<1>3. \A side \in Sides : active_orders[side] = Cardinality(on(side))
  BY DEF IInv, CountsExact
<1>4. \A side : IsFiniteSet(on(side)) /\ Cardinality(on(side)) \in Nat
  <2>1. \A side : on(side) \in SUBSET Slots
    BY DEF Resting, Active
  <2> QED
    BY <2>1, FiniteSlots
<1>5. \A side \in Sides :
        {t \in Resting' : orders'[t].side = side} = on(side) \ {slot}
  BY DepartureTypes DEF Departure
<1>6. ASSUME NEW side \in Sides
      PROVE  /\ active_orders'[side] \in Nat
             /\ active_orders'[side] = Cardinality(on(side) \ {slot})
  <2>1. Cardinality(on(side) \ {slot}) =
          IF slot \in on(side) THEN Cardinality(on(side)) - 1 ELSE Cardinality(on(side))
    BY <1>4, FS_RemoveElement
  <2>2. Cardinality(on(side) \ {slot}) \in Nat
    <3>1. on(side) \ {slot} \in SUBSET Slots
      BY DEF Resting, Active
    <3> QED
      BY <3>1, FiniteSlots
  <2>3. slot \in on(side) <=> side = side0
    BY DepartureTypes
  <2>4. active_orders'[side] = IF side = side0 THEN active_orders[side] - 1
                               ELSE active_orders[side]
    BY <1>1, <1>2
  <2> HIDE DEF on, side0
  <2> QED
    BY <2>1, <2>2, <2>3, <2>4, <1>3
<1>7. active_orders' \in [Sides -> Nat]
  BY <1>1, <1>2, <1>6
<1> QED
  BY <1>5, <1>6, <1>7 DEF CountsExact

(* The scan is needed only when the best level empties, and then finds the *)
(* best of the levels that are left; a count of zero is a side left empty. *)
LEMMA DepartureKeepsBest ==
  ASSUME IInv, NEW slot, Departure(slot)
  PROVE  best' \in [Sides -> Prices \cup {NoPrice}] /\ BestPricesCurrent'
<1> DEFINE s == orders[slot].side
           r == orders[slot].price
           found == BestAfterRemoval(s, r, levels'[s], active_orders'[s])
<1>1. /\ s \in Sides /\ r \in Prices
      /\ best \in [Sides -> Prices \cup {NoPrice}]
      /\ levels \in [Sides -> [Prices -> Seq(Slots)]]
      /\ levels' \in [Sides -> [Prices -> Seq(Slots)]]
  BY DepartureTypes DEF IInv, TypeOK
<1>2. levels'[s][r] = Unlink(levels[s][r], slot)
  BY DepartureQueue
<1>3. best' = IF best[s] # r \/ levels'[s][r] # <<>> THEN best
              ELSE [best EXCEPT ![s] = found]
  BY <1>2 DEF Departure, Depart
<1>4. levels[s][r] # <<>>
  <2>1. \E k \in DOMAIN (levels[s][r]) : levels[s][r][k] = slot
    BY DepartureTypes DEF IInv, LevelsHoldRestingOrders, Entries
  <2> QED
    BY <2>1
<1>5. \A side \in Sides, p \in Prices : side # s \/ p # r =>
        levels'[side][p] = levels[side][p]
  BY DepartureEntries
<1> DEFINE full(side) == NonEmptyPrices(side)
           left(side) == {p \in Prices : levels'[side][p] # <<>>}
<1>6. \A side \in Sides : left(side) = NonEmptyPrices(side)'
  BY DEF NonEmptyPrices
<1>7. \A side \in Sides \ {s} : left(side) = full(side)
  BY <1>5 DEF NonEmptyPrices
<1>8. left(s) \ {r} = full(s) \ {r} /\ r \in full(s)
  BY <1>1, <1>4, <1>5 DEF NonEmptyPrices
<1>9. \A side \in Sides :
        /\ best[side] = NoPrice <=> full(side) = {}
        /\ best[side] # NoPrice =>
             /\ best[side] \in full(side)
             /\ \A p \in full(side) : ~Better(side, p, best[side])
  BY DEF IInv, BestPricesCurrent
<1> HIDE DEF left, full
<1>10. \A side : full(side) \subseteq Prices /\ left(side) \subseteq Prices
  BY DEF full, left, NonEmptyPrices
<1> DEFINE Current(side) ==
             /\ best'[side] \in Prices \cup {NoPrice}
             /\ best'[side] = NoPrice <=> left(side) = {}
             /\ best'[side] # NoPrice =>
                  /\ best'[side] \in left(side)
                  /\ \A p \in left(side) : ~Better(side, p, best'[side])
<1>11. CASE best[s] # r \/ levels'[s][r] # <<>>
  <2>1. best' = best
    BY <1>3, <1>11
  <2>2. ASSUME NEW side \in Sides \ {s} PROVE Current(side)
    BY <2>1, <1>1, <1>7, <1>9
  <2>3. Current(s)
    <3>1. best[s] # NoPrice /\ best[s] \in full(s)
      BY <1>1, <1>8, <1>9
    <3>2. best[s] \in left(s) /\ left(s) \subseteq full(s)
      <4>1. r \in left(s) <=> levels'[s][r] # <<>>
        BY <1>1 DEF left
      <4> QED
        BY <3>1, <4>1, <1>8, <1>11
    <3> QED
      BY <2>1, <3>1, <3>2, <1>1, <1>9
  <2> QED
    BY <2>1, <2>2, <2>3, <1>1, <1>6 DEF BestPricesCurrent
<1>12. CASE best[s] = r /\ levels'[s][r] = <<>>
  <2>1. best' = [best EXCEPT ![s] = found]
    BY <1>3, <1>12
  <2>2. ASSUME NEW side \in Sides \ {s} PROVE Current(side)
    <3>1. best'[side] = best[side]
      BY <2>1, <1>1
    <3> QED
      BY <3>1, <1>1, <1>7, <1>9
  <2> DEFINE worse == WorseLevels(s, r, levels'[s])
  <2>3. worse = left(s)
    <3>1. ASSUME NEW p \in left(s) PROVE Better(s, r, p)
      <4>1. p # r /\ p \in full(s)
        BY <1>8, <1>12 DEF left
      <4>2. ~Better(s, p, r)
        BY <4>1, <1>1, <1>9, <1>12, IntegerTypes
      <4>3. p \in Nat /\ r \in Nat
        BY <1>1, <1>10, IntegerTypes
      <4> QED
        BY <4>1, <4>2, <4>3 DEF Better
    <3>2. left(s) = {p \in Prices : levels'[s][p] # <<>>}
      BY DEF left
    <3> QED
      BY <3>1, <3>2 DEF WorseLevels
  <2>4. active_orders'[s] = 0 => left(s) = {}
    <3> SUFFICES ASSUME active_orders'[s] = 0, NEW p \in left(s) PROVE FALSE
      OBVIOUS
    <3>1. p \in Prices /\ levels'[s][p] # <<>> /\ levels'[s][p] \in Seq(Slots)
      BY <1>1 DEF left
    <3>2. 1 \in DOMAIN (levels'[s][p])
      BY <3>1, LenProperties, EmptySeq
    <3>3. LevelsHoldRestingOrders'
      BY DepartureKeepsLevels
    <3> DEFINE t == levels'[s][p][1]
               on == {u \in Resting' : orders'[u].side = s}
    <3>4. t \in on
      BY <1>1, <3>1, <3>2, <3>3 DEF LevelsHoldRestingOrders, Entries
    <3>5. Cardinality(on) = 0
      BY <1>1, DepartureKeepsCounts DEF CountsExact
    <3>6. IsFiniteSet(on)
      <4>1. on \in SUBSET Slots
        BY DepartureTypes DEF Resting, Active
      <4> QED
        BY <4>1, FiniteSlots
    <3> HIDE DEF t, on
    <3> QED
      BY <3>4, <3>5, <3>6, FS_EmptySet
  <2>5. /\ active_orders'[s] = 0 \/ left(s) = {} => found = NoPrice
        /\ active_orders'[s] # 0 /\ left(s) # {} =>
             /\ found \in left(s)
             /\ \A p \in left(s) : ~Better(s, p, found)
    <3>1. /\ active_orders'[s] = 0 \/ worse = {} => found = NoPrice
          /\ active_orders'[s] # 0 /\ worse # {} =>
               /\ found \in worse
               /\ \A p \in worse : ~Better(s, p, found)
      BY <1>1, BestAfterRemovalProperties
    <3> HIDE DEF worse, found, s, r
    <3> QED
      BY <3>1, <2>3
  <2> HIDE DEF found
  <2>6. best'[s] = found
    BY <2>1, <1>1
  <2>7. Current(s)
    BY <2>4, <2>5, <2>6, <1>10, IntegerTypes
  <2>8. best' \in [Sides -> Prices \cup {NoPrice}]
    <3>1. found \in Prices \cup {NoPrice}
      BY <2>6, <2>7
    <3> QED
      BY <2>1, <3>1, <1>1
  <2> QED
    BY <2>2, <2>7, <2>8, <1>6 DEF BestPricesCurrent
<1> QED
  BY <1>11, <1>12

LEMMA DepartureKeepsBookUncrossed ==
  ASSUME IInv, NEW slot, Departure(slot)
  PROVE  BookNotCrossed'
<1>1. \A t \in Resting' : t \in Resting /\ orders'[t] = orders[t]
  BY DepartureTypes DEF Departure
<1> QED
  BY <1>1 DEF IInv, BookNotCrossed

-----------------------------------------------------------------------------
(* Every action preserves IInv                                             *)

LEMMA WrapType ==
  ASSUME NEW n \in Int
  PROVE  Wrap(n) \in 0 .. QuantityLimit - 1
BY QuantityAssumption DEF Wrap

LEMMA TotalIsNatural ==
  ASSUME NEW side \in Sides, NEW p \in Prices,
         totals \in [Sides -> [Prices -> 0 .. QuantityLimit - 1]]
  PROVE  totals[side][p] \in Nat
<1>1. totals[side][p] \in 0 .. QuantityLimit - 1
  OBVIOUS
<1> QED
  BY <1>1, IntegerTypes

LEMMA TotalsType ==
  ASSUME NEW side \in Sides, NEW p \in Prices, NEW n \in Int,
         totals \in [Sides -> [Prices -> 0 .. QuantityLimit - 1]],
         totals' = [totals EXCEPT ![side][p] = Wrap(n)]
  PROVE  totals' \in [Sides -> [Prices -> 0 .. QuantityLimit - 1]]
BY WrapType

LEMMA UnchangedInv ==
  ASSUME IInv,
         UNCHANGED <<orders, free, orders_by_id, levels, totals, best, active_orders,
                     execution_count, aggressor, arrivals>>
  PROVE  IInv'
<1>1. Active' = Active /\ Resting' = Resting
  BY DEF Active, Resting
<1>2. TypeOK' /\ PoolAndMapAgree'
  BY <1>1 DEF IInv, TypeOK, PoolAndMapAgree
<1>3. LevelsHoldRestingOrders'
  BY <1>1 DEF IInv, LevelsHoldRestingOrders, Entries
<1>4. ArrivalOrder'
  BY <1>1 DEF IInv, ArrivalOrder, Entries
<1>5. BestPricesCurrent'
  BY DEF IInv, BestPricesCurrent, NonEmptyPrices
<1>6. CountsExact' /\ BookNotCrossed'
  BY <1>1 DEF IInv, CountsExact, BookNotCrossed
<1> QED
  BY <1>2, <1>3, <1>4, <1>5, <1>6 DEF IInv

(* The conjuncts of IInv that only read the levels, the caches and the     *)
(* resting orders hold as long as these stay as they are.                  *)
LEMMA RestingOrdersUnchanged ==
  ASSUME IInv,
         Resting' = Resting,
         \A t \in Resting : orders'[t] = orders[t],
         UNCHANGED <<levels, best, active_orders>>
  PROVE  /\ LevelsHoldRestingOrders'
         /\ BestPricesCurrent'
         /\ CountsExact'
         /\ BookNotCrossed'
         /\ \A side \in Sides, p \in Prices : \A i, j \in Entries(side, p)' :
              i < j => orders'[levels'[side][p][i]].seq < orders'[levels'[side][p][j]].seq
<1>1. LevelsHoldRestingOrders'
  BY DEF IInv, LevelsHoldRestingOrders, Entries
<1>2. BestPricesCurrent'
  BY DEF IInv, BestPricesCurrent, NonEmptyPrices
<1>3. CountsExact'
  <2>1. \A side \in Sides : {t \in Resting' : orders'[t].side = side}
                              = {t \in Resting : orders[t].side = side}
    OBVIOUS
  <2> QED
    BY <2>1 DEF IInv, CountsExact
<1>4. BookNotCrossed'
  BY DEF IInv, BookNotCrossed
<1>5. ASSUME NEW side \in Sides, NEW p \in Prices,
             NEW i \in Entries(side, p)', NEW j \in Entries(side, p)', i < j
      PROVE  orders'[levels'[side][p][i]].seq < orders'[levels'[side][p][j]].seq
  <2>1. i \in Entries(side, p) /\ j \in Entries(side, p)
    BY DEF Entries
  <2>2. levels[side][p][i] \in Resting /\ levels[side][p][j] \in Resting
    BY <2>1 DEF IInv, LevelsHoldRestingOrders
  <2> QED
    BY <1>5, <2>1, <2>2 DEF IInv, ArrivalOrder
<1> QED
  BY <1>1, <1>2, <1>3, <1>4, <1>5

LEMMA InitInv ==
  ASSUME Init
  PROVE  IInv
<1>1. Active = {} /\ Resting = {}
  BY DEF Init, Active, Resting, BlankOrder
<1>2. TypeOK
  <2>1. <<>> \in Seq(Slots)
    BY EmptySeq
  <2> QED
    BY <2>1, IntegerTypes, ArrivalsAssumption DEF Init, TypeOK
<1>3. PoolAndMapAgree
  BY <1>1 DEF Init, PoolAndMapAgree
<1>4. \A side \in Sides, p \in Prices : Entries(side, p) = {}
  BY DEF Init, Entries
<1>5. LevelsHoldRestingOrders /\ ArrivalOrder
  BY <1>1, <1>4 DEF LevelsHoldRestingOrders, ArrivalOrder
<1>6. BestPricesCurrent
  BY DEF Init, BestPricesCurrent, NonEmptyPrices
<1>7. CountsExact
  <2>1. \A side : {slot \in Resting : orders[slot].side = side} = {}
    BY <1>1
  <2> QED
    BY <2>1, FS_EmptySet DEF Init, CountsExact
<1>8. BookNotCrossed
  BY <1>1 DEF BookNotCrossed
<1> QED
  BY <1>2, <1>3, <1>5, <1>6, <1>7, <1>8 DEF IInv

LEMMA AdmitInv ==
  ASSUME IInv, NEW c \in NewOrderCommand, NEW id \in OrderIds, Admit(c, id)
  PROVE  IInv'
<1>1. PICK slot \in free :
         /\ free' = free \ {slot}
         /\ orders' = [orders EXCEPT ![slot] =
              [active |-> TRUE, order_id |-> id, owner |-> c.owner, side |-> c.side,
               price |-> c.price, remaining_quantity |-> c.quantity, seq |-> arrivals']]
         /\ orders_by_id' = [orders_by_id EXCEPT ![id] = slot]
         /\ aggressor' = slot
  BY DEF Admit
<1>2. /\ orders \in [Slots -> OrderRecord \cup {BlankOrder}]
      /\ orders_by_id \in [OrderIds -> Slots \cup {NoSlot}]
      /\ arrivals \in 0 .. MaxArrivals
      /\ free = Slots \ Active
      /\ aggressor = NoSlot
      /\ NoSlot \notin Slots
  BY SlotsAssumption DEF IInv, TypeOK, PoolAndMapAgree, Admit
<1>3. slot \in Slots /\ slot \notin Active /\ orders[slot] = BlankOrder
  BY <1>1, <1>2, ActiveSlots
<1>4. arrivals' = arrivals + 1 /\ arrivals' \in 1 .. MaxArrivals
  BY <1>2, ArrivalsAssumption DEF Admit
<1>5. c.price \in Prices /\ orders_by_id[id] = NoSlot
  <2>1. c.price \in 0 .. PriceLevelCount /\ AdmitRefusal(c, id) = "None"
    BY DEF NewOrderCommand, Admit
  <2> QED
    BY <2>1, LevelsAssumption DEF AdmitRefusal, Prices
<1>6. orders'[slot] \in OrderRecord
  <2>1. /\ c.owner \in Owners /\ c.side \in Sides
        /\ c.quantity \in 0 .. QuantityLimit - 1
    BY QuantityAssumption DEF NewOrderCommand
  <2>2. orders'[slot] =
          [active |-> TRUE, order_id |-> id, owner |-> c.owner, side |-> c.side,
           price |-> c.price, remaining_quantity |-> c.quantity, seq |-> arrivals']
    BY <1>1, <1>2, <1>3
  <2> QED
    BY <1>4, <1>5, <2>1, <2>2 DEF OrderRecord
<1>7. orders'[slot].order_id = id /\ orders'[slot].seq = arrivals'
  BY <1>1, <1>2, <1>3
<1>8. \A t \in Slots \ {slot} : orders'[t] = orders[t]
  BY <1>1, <1>2
<1>9. orders' \in [Slots -> OrderRecord \cup {BlankOrder}]
  BY <1>1, <1>2, <1>6, <1>8
<1>10. Active' = Active \cup {slot}
  BY <1>3, <1>6, <1>8, RecordsAreActive DEF Active
<1>11. Resting' = Active /\ Resting = Active
  BY <1>1, <1>2, <1>3, <1>10 DEF Resting, Active
<1>12. UNCHANGED <<levels, totals, best, active_orders, execution_count>>
  BY DEF Admit
<1>13. TypeOK'
  <2>1. aggressor' \in Slots \cup {NoSlot}
    BY <1>1, <1>3
  <2>2. free' \subseteq Slots
    BY <1>1, <1>2
  <2>3. orders_by_id' \in [OrderIds -> Slots \cup {NoSlot}]
    BY <1>1, <1>2, <1>3
  <2>4. arrivals' \in 0 .. MaxArrivals
    BY <1>4
  <2> QED
    BY <1>9, <1>12, <2>1, <2>2, <2>3, <2>4 DEF IInv, TypeOK
<1>14. PoolAndMapAgree'
  <2>1. free' = Slots \ Active' /\ aggressor' \in Active'
    BY <1>1, <1>2, <1>10
  <2>2. ASSUME NEW t \in Active' PROVE orders_by_id'[orders'[t].order_id] = t
    <3>1. CASE t = slot
      BY <1>1, <1>2, <1>7, <3>1
    <3>2. CASE t # slot
      <4>1. t \in Active /\ orders'[t] = orders[t]
        BY <1>8, <1>10, <3>2 DEF Active
      <4>2. orders_by_id[orders[t].order_id] = t /\ orders[t].order_id \in OrderIds
        BY <4>1, <1>2, ActiveSlots, RecordsAreActive DEF IInv, PoolAndMapAgree
      <4>3. orders[t].order_id # id
        BY <1>2, <1>5, <4>1, <4>2 DEF Active
      <4> QED
        BY <1>1, <1>2, <4>1, <4>2, <4>3
    <3> QED
      BY <3>1, <3>2
  <2>3. ASSUME NEW i \in OrderIds, orders_by_id'[i] # NoSlot
        PROVE  /\ orders_by_id'[i] \in Active'
               /\ orders'[orders_by_id'[i]].order_id = i
    <3>1. CASE i = id
      BY <1>1, <1>2, <1>7, <1>10, <3>1
    <3>2. CASE i # id
      <4>1. orders_by_id'[i] = orders_by_id[i]
        BY <1>1, <1>2, <3>2
      <4>2. orders_by_id[i] \in Active /\ orders[orders_by_id[i]].order_id = i
        BY <2>3, <4>1 DEF IInv, PoolAndMapAgree
      <4>3. orders'[orders_by_id[i]] = orders[orders_by_id[i]]
        BY <4>2, <1>3, <1>8 DEF Active
      <4> QED
        BY <4>1, <4>2, <4>3, <1>10
    <3> QED
      BY <3>1, <3>2
  <2> QED
    BY <2>1, <2>2, <2>3 DEF PoolAndMapAgree
<1>15. \A t \in Resting : t # slot /\ orders'[t] = orders[t]
  BY <1>3, <1>8, <1>11 DEF Active
<1>16. /\ LevelsHoldRestingOrders'
       /\ BestPricesCurrent'
       /\ CountsExact'
       /\ BookNotCrossed'
       /\ \A side \in Sides, p \in Prices : \A i, j \in Entries(side, p)' :
            i < j => orders'[levels'[side][p][i]].seq < orders'[levels'[side][p][j]].seq
  BY <1>11, <1>12, <1>15, RestingOrdersUnchanged
<1>17. ArrivalOrder'
  <2>1. \A t \in Active : orders'[t].seq = orders[t].seq /\ orders[t].seq <= arrivals
    BY <1>11, <1>15 DEF IInv, ArrivalOrder
  <2>2. \A t \in Active : orders[t].seq \in Int
    BY <1>2, ActiveSlots, RecordsAreActive
  <2>3. \A t \in Active' : orders'[t].seq <= arrivals'
    BY <1>2, <1>4, <1>7, <1>10, <2>1, <2>2
  <2>4. \A t \in Resting' : orders'[t].seq < orders'[aggressor'].seq
    BY <1>1, <1>2, <1>4, <1>7, <1>11, <2>1, <2>2
  <2> QED
    BY <1>16, <2>3, <2>4 DEF ArrivalOrder, Entries
<1> QED
  BY <1>13, <1>14, <1>16, <1>17 DEF IInv

(* What an execution leaves of an order is an order of the same identity.  *)
LEMMA ReducedRecord ==
  ASSUME NEW o \in OrderRecord, NEW q \in Nat, q <= o.remaining_quantity
  PROVE  LET left == [o EXCEPT !.remaining_quantity = @ - q]
         IN  /\ left \in OrderRecord
             /\ left.order_id = o.order_id /\ left.seq = o.seq
             /\ left.side = o.side /\ left.price = o.price
             /\ left.owner = o.owner
             /\ left.remaining_quantity = o.remaining_quantity - q
<1>1. o.remaining_quantity \in 0 .. QuantityLimit - 1 /\ QuantityLimit - 1 \in Nat
  BY RecordsAreActive, IntegerTypes
<1>2. o.remaining_quantity - q \in 0 .. QuantityLimit - 1
  BY <1>1
<1> QED
  BY <1>2 DEF OrderRecord

(* Executing against a level changes its total within the counter's width. *)
LEMMA ExecuteTypes ==
  ASSUME IInv, Execute(Standing, ExecutedQuantity)
  PROVE  /\ totals' \in [Sides -> [Prices -> 0 .. QuantityLimit - 1]]
         /\ execution_count' \in Nat
<1>1. aggressor # NoSlot /\ Marketable(orders[aggressor])
  BY DEF Execute
<1>2. /\ StandingSide \in Sides /\ best[StandingSide] \in Prices
      /\ ExecutedQuantity \in Nat
  BY <1>1, StandingOrder
<1> DEFINE side == StandingSide
           p == best[StandingSide]
           n == totals[side][p] - ExecutedQuantity
<1>3. totals \in [Sides -> [Prices -> 0 .. QuantityLimit - 1]]
  BY DEF IInv, TypeOK
<1>4. n \in Int
  <2>1. totals[side][p] \in Nat
    BY <1>2, <1>3, TotalIsNatural
  <2> QED
    BY <1>2, <2>1
<1>5. totals' = [totals EXCEPT ![side][p] = Wrap(n)]
  BY DEF Execute
<1> HIDE DEF side, p, n
<1>6. totals' \in [Sides -> [Prices -> 0 .. QuantityLimit - 1]]
  BY <1>2, <1>3, <1>4, <1>5, TotalsType DEF side, p
<1>7. execution_count' \in Nat
  BY DEF Execute, IInv, TypeOK
<1> QED
  BY <1>6, <1>7

LEMMA FillPartiallyInv ==
  ASSUME IInv, FillPartially
  PROVE  IInv'
<1> DEFINE slot == Standing
           q == ExecutedQuantity
           leftover(t) == [orders[t] EXCEPT !.remaining_quantity = @ - q]
<1>1. /\ Execute(slot, q)
      /\ orders[slot].remaining_quantity # q
      /\ orders' = [orders EXCEPT ![aggressor].remaining_quantity = @ - q,
                                  ![slot].remaining_quantity = @ - q]
      /\ UNCHANGED <<free, orders_by_id, levels, best, active_orders, aggressor,
                     arrivals>>
  BY DEF FillPartially
<1>2. aggressor # NoSlot /\ Marketable(orders[aggressor])
  BY <1>1 DEF Execute
<1>3. /\ slot \in Resting /\ slot # aggressor
      /\ orders[slot] \in OrderRecord /\ orders[aggressor] \in OrderRecord
      /\ q \in Nat \ {0}
      /\ q <= orders[aggressor].remaining_quantity
      /\ q <= orders[slot].remaining_quantity
  BY <1>2, StandingOrder
<1>4. /\ orders \in [Slots -> OrderRecord \cup {BlankOrder}]
      /\ slot \in Slots /\ aggressor \in Slots
      /\ aggressor \in Active /\ slot \in Active
  BY <1>2, <1>3 DEF IInv, TypeOK, PoolAndMapAgree, Resting, Active
<1>5. /\ orders'[slot] = leftover(slot)
      /\ orders'[aggressor] = leftover(aggressor)
      /\ \A t \in Slots \ {slot, aggressor} : orders'[t] = orders[t]
      /\ DOMAIN orders' = Slots
  BY <1>1, <1>3, <1>4
<1>6. /\ leftover(slot) \in OrderRecord /\ leftover(aggressor) \in OrderRecord
      /\ \A t \in {slot, aggressor} :
           /\ leftover(t).order_id = orders[t].order_id
           /\ leftover(t).seq = orders[t].seq
           /\ leftover(t).side = orders[t].side
           /\ leftover(t).price = orders[t].price
           /\ leftover(t).remaining_quantity = orders[t].remaining_quantity - q
  BY <1>3, ReducedRecord
<1>7. orders' \in [Slots -> OrderRecord \cup {BlankOrder}]
  <2>1. orders' = [t \in Slots |-> orders'[t]]
    BY <1>1, <1>4
  <2>2. \A t \in Slots : orders'[t] \in OrderRecord \cup {BlankOrder}
    BY <1>4, <1>5, <1>6
  <2> QED
    BY <2>1, <2>2
<1>8. \A t \in Active : /\ orders'[t] \in OrderRecord
                        /\ orders'[t].order_id = orders[t].order_id
                        /\ orders'[t].seq = orders[t].seq
                        /\ orders'[t].side = orders[t].side
                        /\ orders'[t].price = orders[t].price
  <2>1. \A t \in Active : t \in Slots /\ orders[t] \in OrderRecord
    BY <1>4, ActiveSlots
  <2>2. \A t \in Active \ {slot, aggressor} : orders'[t] = orders[t]
    BY <1>5, <2>1
  <2>3. \A t \in {slot, aggressor} : orders'[t] = leftover(t)
    BY <1>5
  <2> HIDE DEF slot, q, leftover
  <2> QED
    BY <1>6, <2>1, <2>2, <2>3
<1>9. Active' = Active
  <2>1. \A t \in Slots \ Active : orders'[t] = orders[t]
    BY <1>4, <1>5
  <2> QED
    BY <1>8, <2>1, RecordsAreActive DEF Active
<1>10. Resting' = Resting
  BY <1>1, <1>9 DEF Resting
<1>11. \A t \in Resting : orders[t].remaining_quantity > 0 =>
                          orders'[t].remaining_quantity > 0
  <2>1. orders'[slot].remaining_quantity > 0
    <3>1. orders[slot].remaining_quantity \in Nat
      BY <1>3, RecordsAreActive, IntegerTypes
    <3>2. orders'[slot].remaining_quantity = orders[slot].remaining_quantity - q
      BY <1>5, <1>6
    <3>3. /\ q \in Nat
          /\ q <= orders[slot].remaining_quantity /\ orders[slot].remaining_quantity # q
      BY <1>1, <1>3
    <3> HIDE DEF slot, q
    <3> QED
      BY <3>1, <3>2, <3>3
  <2>2. \A t \in Resting \ {slot} : orders'[t] = orders[t]
    BY <1>5 DEF Resting, Active
  <2> QED
    BY <2>1, <2>2
<1> HIDE DEF slot, q, leftover
<1>12. TypeOK'
  <2>1. /\ totals' \in [Sides -> [Prices -> 0 .. QuantityLimit - 1]]
        /\ execution_count' \in Nat
    BY <1>1, ExecuteTypes DEF slot, q
  <2>2. UNCHANGED <<free, orders_by_id, levels, best, active_orders, aggressor,
                    arrivals>>
    BY <1>1
  <2>3. TypeOK
    BY DEF IInv
  <2> HIDE DEF IInv
  <2> QED
    BY <1>7, <2>1, <2>2, <2>3 DEF TypeOK
<1>13. PoolAndMapAgree'
  <2>0. UNCHANGED <<free, orders_by_id, aggressor>>
    BY <1>1
  <2>1. free' = Slots \ Active' /\ (aggressor' # NoSlot => aggressor' \in Active')
    BY <2>0, <1>9 DEF IInv, PoolAndMapAgree
  <2>2. \A t \in Active' : orders_by_id'[orders'[t].order_id] = t
    BY <2>0, <1>8, <1>9 DEF IInv, PoolAndMapAgree
  <2>3. ASSUME NEW id \in OrderIds, orders_by_id'[id] # NoSlot
        PROVE  orders_by_id'[id] \in Active' /\ orders'[orders_by_id'[id]].order_id = id
    <3>1. /\ orders_by_id'[id] = orders_by_id[id]
          /\ orders_by_id[id] \in Active
          /\ orders[orders_by_id[id]].order_id = id
      BY <2>0, <2>3 DEF IInv, PoolAndMapAgree
    <3> QED
      BY <3>1, <1>8, <1>9
  <2> QED
    BY <2>1, <2>2, <2>3 DEF PoolAndMapAgree
<1>14. \A t \in Resting : t \in Active
  BY DEF Resting
<1>15. LevelsHoldRestingOrders'
  <2>1. ASSUME NEW side \in Sides, NEW p \in Prices, NEW i \in Entries(side, p)'
        PROVE  LET t == levels'[side][p][i]
               IN  /\ t \in Resting'
                   /\ orders'[t].side = side
                   /\ orders'[t].price = p
                   /\ orders'[t].remaining_quantity > 0
    <3>1. i \in Entries(side, p) /\ levels'[side][p][i] = levels[side][p][i]
      BY <1>1 DEF Entries
    <3> DEFINE t == levels[side][p][i]
    <3>2. /\ t \in Resting
          /\ orders[t].side = side
          /\ orders[t].price = p
          /\ orders[t].remaining_quantity > 0
      BY <3>1 DEF IInv, LevelsHoldRestingOrders
    <3> HIDE DEF t
    <3>3. /\ t \in Resting'
          /\ orders'[t].side = side
          /\ orders'[t].price = p
          /\ orders'[t].remaining_quantity > 0
      BY <3>2, <1>8, <1>10, <1>11, <1>14
    <3> QED
      BY <3>1, <3>3 DEF t
  <2>2. ASSUME NEW t \in Resting'
        PROVE  \E i \in DOMAIN (levels'[orders'[t].side][orders'[t].price]) :
                 levels'[orders'[t].side][orders'[t].price][i] = t
    <3>1. /\ t \in Resting
          /\ orders'[t].side = orders[t].side /\ orders'[t].price = orders[t].price
      BY <1>8, <1>10, <1>14
    <3>2. \E i \in DOMAIN levels[orders[t].side][orders[t].price] :
            levels[orders[t].side][orders[t].price][i] = t
      BY <3>1 DEF IInv, LevelsHoldRestingOrders, Entries
    <3>3. levels' = levels
      BY <1>1
    <3> QED
      BY <3>1, <3>2, <3>3
  <2> QED
    BY <2>1, <2>2 DEF LevelsHoldRestingOrders, Entries
<1>16. ArrivalOrder'
  <2>1. \A t \in Active' : orders'[t].seq <= arrivals'
    BY <1>1, <1>8, <1>9 DEF IInv, ArrivalOrder
  <2>2. \A t \in Resting' : orders'[t].seq < orders'[aggressor'].seq
    BY <1>1, <1>2, <1>4, <1>8, <1>10, <1>14 DEF IInv, ArrivalOrder
  <2>3. ASSUME NEW side \in Sides, NEW p \in Prices,
               NEW i \in Entries(side, p)', NEW j \in Entries(side, p)', i < j
        PROVE  orders'[levels'[side][p][i]].seq < orders'[levels'[side][p][j]].seq
    <3>1. i \in Entries(side, p) /\ j \in Entries(side, p)
      BY <1>1 DEF Entries
    <3>2. levels[side][p][i] \in Active /\ levels[side][p][j] \in Active
      BY <3>1, <1>14 DEF IInv, LevelsHoldRestingOrders
    <3>3. orders[levels[side][p][i]].seq < orders[levels[side][p][j]].seq
      BY <3>1, <2>3 DEF IInv, ArrivalOrder
    <3> QED
      BY <3>2, <3>3, <1>1, <1>8
  <2> QED
    BY <2>1, <2>2, <2>3 DEF ArrivalOrder, Entries
<1>17. BestPricesCurrent'
  BY <1>1 DEF IInv, BestPricesCurrent, NonEmptyPrices
<1>18. CountsExact'
  <2>1. \A side \in Sides : {t \in Resting' : orders'[t].side = side}
                              = {t \in Resting : orders[t].side = side}
    BY <1>8, <1>10, <1>14
  <2> QED
    BY <1>1, <2>1 DEF IInv, CountsExact
<1>19. BookNotCrossed'
  BY <1>8, <1>10, <1>14 DEF IInv, BookNotCrossed
<1> QED
  BY <1>12, <1>13, <1>15, <1>16, <1>17, <1>18, <1>19 DEF IInv

LEMMA FillCompletelyInv ==
  ASSUME IInv, FillCompletely
  PROVE  IInv'
<1> DEFINE slot == Standing
           q == ExecutedQuantity
           leftover == [orders[aggressor] EXCEPT !.remaining_quantity = @ - q]
<1>1. /\ Execute(slot, q)
      /\ orders' = [orders EXCEPT ![aggressor].remaining_quantity = @ - q,
                                  ![slot] = BlankOrder]
      /\ Depart(slot, StandingSide, best[StandingSide])
      /\ UNCHANGED <<aggressor, arrivals>>
  BY DEF FillCompletely
<1>2. aggressor # NoSlot /\ Marketable(orders[aggressor])
  BY <1>1 DEF Execute
<1>3. /\ slot \in Resting /\ slot # aggressor
      /\ orders[slot] \in OrderRecord /\ orders[aggressor] \in OrderRecord
      /\ orders[slot].side = StandingSide
      /\ orders[slot].price = best[StandingSide]
      /\ q \in Nat /\ q <= orders[aggressor].remaining_quantity
  BY <1>2, StandingOrder
<1>4. /\ orders \in [Slots -> OrderRecord \cup {BlankOrder}]
      /\ slot \in Slots /\ aggressor \in Slots
      /\ aggressor \in Active /\ slot \in Active
  BY <1>2, <1>3 DEF IInv, TypeOK, PoolAndMapAgree, Resting, Active
<1>5. /\ orders'[slot] = BlankOrder
      /\ orders'[aggressor] = leftover
      /\ \A t \in Slots \ {slot, aggressor} : orders'[t] = orders[t]
  BY <1>1, <1>3, <1>4
<1>6. /\ leftover \in OrderRecord
      /\ leftover.order_id = orders[aggressor].order_id
      /\ leftover.seq = orders[aggressor].seq
  BY <1>3, ReducedRecord
<1>7. orders' \in [Slots -> OrderRecord \cup {BlankOrder}]
  <2>1. orders' = [t \in Slots |-> orders'[t]]
    BY <1>1, <1>4
  <2>2. \A t \in Slots : orders'[t] \in OrderRecord \cup {BlankOrder}
    BY <1>4, <1>5, <1>6
  <2> QED
    BY <2>1, <2>2
<1>8. Active' = Active \ {slot}
  BY <1>3, <1>4, <1>5, <1>6, RecordsAreActive DEF Active
<1>9. Departure(slot)
  <2>1. Depart(slot, orders[slot].side, orders[slot].price)
    BY <1>1, <1>3
  <2>2. \A t \in Resting \ {slot} : orders'[t] = orders[t]
    BY <1>5 DEF Resting, Active
  <2>3. \A t \in Active \ {slot} :
          orders'[t].order_id = orders[t].order_id /\ orders'[t].seq = orders[t].seq
    BY <1>5, <1>6 DEF Active
  <2> QED
    BY <1>1, <1>3, <1>8, <2>1, <2>2, <2>3 DEF Departure
<1> HIDE DEF slot, q, leftover
<1>10. TypeOK'
  <2>1. /\ totals' \in [Sides -> [Prices -> 0 .. QuantityLimit - 1]]
        /\ execution_count' \in Nat
    BY <1>1, ExecuteTypes DEF slot, q
  <2>2. /\ free' \subseteq Slots
        /\ orders_by_id' \in [OrderIds -> Slots \cup {NoSlot}]
        /\ levels' \in [Sides -> [Prices -> Seq(Slots)]]
        /\ best' \in [Sides -> Prices \cup {NoPrice}]
        /\ active_orders' \in [Sides -> Nat]
    BY <1>9, DepartureTypes, DepartureKeepsBest, DepartureKeepsCounts
  <2> QED
    BY <1>1, <1>7, <2>1, <2>2 DEF IInv, TypeOK
<1> QED
  BY <1>9, <1>10, DepartureKeepsPoolAndMap, DepartureKeepsLevels, DepartureKeepsBest,
     DepartureKeepsCounts, DepartureKeepsBookUncrossed DEF IInv

LEMMA CancelInv ==
  ASSUME IInv, NEW c \in CancelOrderCommand, Cancel(c)
  PROVE  IInv'
<1> DEFINE slot == orders_by_id[c.order_id]
           o == orders[slot]
<1>1. /\ aggressor = NoSlot
      /\ CancelRefusal(c) = "None"
      /\ totals' = [totals EXCEPT ![o.side][o.price] = Wrap(@ - o.remaining_quantity)]
      /\ orders' = [orders EXCEPT ![slot] = BlankOrder]
      /\ Depart(slot, o.side, o.price)
      /\ UNCHANGED <<execution_count, aggressor, arrivals>>
  BY DEF Cancel
<1>2. c.order_id \in OrderIds /\ slot # NoSlot
  BY <1>1 DEF CancelOrderCommand, CancelRefusal
<1>3. slot \in Active /\ slot \in Slots /\ slot \in Resting
  <2>1. slot \in Active
    BY <1>2 DEF IInv, PoolAndMapAgree
  <2> QED
    BY <1>1, <1>2, <2>1 DEF Resting, Active
<1>4. /\ orders \in [Slots -> OrderRecord \cup {BlankOrder}]
      /\ o \in OrderRecord
      /\ o.side \in Sides /\ o.price \in Prices /\ o.remaining_quantity \in Nat
  <2>1. orders \in [Slots -> OrderRecord \cup {BlankOrder}]
    BY DEF IInv, TypeOK
  <2>2. o \in OrderRecord
    BY <1>3, <2>1, ActiveSlots
  <2> QED
    BY <2>1, <2>2, RecordsAreActive, IntegerTypes
<1>5. /\ orders'[slot] = BlankOrder
      /\ \A t \in Slots \ {slot} : orders'[t] = orders[t]
      /\ orders' \in [Slots -> OrderRecord \cup {BlankOrder}]
  BY <1>1, <1>3, <1>4
<1>6. Active' = Active \ {slot}
  BY <1>3, <1>5, RecordsAreActive DEF Active
<1>7. Departure(slot)
  BY <1>1, <1>3, <1>5, <1>6 DEF Departure, Resting, Active
<1>8. TypeOK'
  <2>1. totals' \in [Sides -> [Prices -> 0 .. QuantityLimit - 1]]
    <3> DEFINE n == totals[o.side][o.price] - o.remaining_quantity
    <3>1. totals \in [Sides -> [Prices -> 0 .. QuantityLimit - 1]]
      BY DEF IInv, TypeOK
    <3>2. n \in Int
      <4>1. totals[o.side][o.price] \in Nat
        BY <1>4, <3>1, TotalIsNatural
      <4> QED
        BY <1>4, <4>1
    <3>3. totals' = [totals EXCEPT ![o.side][o.price] = Wrap(n)]
      BY <1>1
    <3> HIDE DEF n, o
    <3> QED
      BY <1>4, <3>1, <3>2, <3>3, TotalsType
  <2>2. /\ free' \subseteq Slots
        /\ orders_by_id' \in [OrderIds -> Slots \cup {NoSlot}]
        /\ levels' \in [Sides -> [Prices -> Seq(Slots)]]
        /\ best' \in [Sides -> Prices \cup {NoPrice}]
        /\ active_orders' \in [Sides -> Nat]
    BY <1>7, DepartureTypes, DepartureKeepsBest, DepartureKeepsCounts
  <2> HIDE DEF slot, o
  <2> QED
    BY <1>1, <1>5, <2>1, <2>2 DEF IInv, TypeOK
<1> QED
  BY <1>7, <1>8, DepartureKeepsPoolAndMap, DepartureKeepsLevels, DepartureKeepsBest,
     DepartureKeepsCounts, DepartureKeepsBookUncrossed DEF IInv

LEMMA RestInv ==
  ASSUME IInv, Rest
  PROVE  IInv'
<1> DEFINE o == orders[aggressor]
           s == o.side
           r == o.price
           q == levels[s][r]
<1>1. /\ aggressor # NoSlot
      /\ o.remaining_quantity > 0
      /\ ~Marketable(o)
      /\ levels' = [levels EXCEPT ![s][r] = Append(q, aggressor)]
      /\ totals' = [totals EXCEPT ![s][r] = Wrap(@ + o.remaining_quantity)]
      /\ active_orders' = [active_orders EXCEPT ![s] = @ + 1]
      /\ best' = [best EXCEPT ![s] = IF @ = NoPrice \/ Better(s, r, @) THEN r ELSE @]
      /\ aggressor' = NoSlot
      /\ UNCHANGED <<orders, free, orders_by_id, execution_count, arrivals>>
  BY DEF Rest, PushBack
<1>2. /\ aggressor \in Active /\ aggressor \in Slots /\ o \in OrderRecord
      /\ aggressor \notin Resting
      /\ s \in Sides /\ r \in Prices /\ o.remaining_quantity \in Nat
      /\ NoSlot \notin Slots
  <2>1. aggressor \in Active
    BY <1>1 DEF IInv, PoolAndMapAgree
  <2>2. o \in OrderRecord
    BY <2>1, ActiveSlots DEF IInv, TypeOK
  <2> QED
    BY <2>1, <2>2, RecordsAreActive, IntegerTypes, SlotsAssumption DEF Active, Resting
<1>3. Active' = Active
  BY <1>1 DEF Active
<1>4. Resting' = Resting \cup {aggressor}
  BY <1>1, <1>2, <1>3 DEF Resting, Active
<1>5. /\ levels \in [Sides -> [Prices -> Seq(Slots)]]
      /\ totals \in [Sides -> [Prices -> 0 .. QuantityLimit - 1]]
      /\ best \in [Sides -> Prices \cup {NoPrice}]
      /\ active_orders \in [Sides -> Nat]
  BY DEF IInv, TypeOK
<1>6. /\ Append(q, aggressor) \in Seq(Slots)
      /\ Append(q, aggressor) # <<>>
      /\ Len(q) \in Nat
      /\ DOMAIN q = 1 .. Len(q)
      /\ DOMAIN Append(q, aggressor) = 1 .. Len(q) + 1
      /\ \A i \in 1 .. Len(q) : Append(q, aggressor)[i] = q[i]
      /\ Append(q, aggressor)[Len(q) + 1] = aggressor
  <2>1. q \in Seq(Slots)
    BY <1>2, <1>5
  <2> HIDE DEF s, r, q
  <2>2. /\ Append(q, aggressor) \in Seq(Slots)
        /\ Append(q, aggressor) # <<>>
        /\ Len(Append(q, aggressor)) = Len(q) + 1
        /\ \A i \in 1 .. Len(q) : Append(q, aggressor)[i] = q[i]
        /\ Append(q, aggressor)[Len(q) + 1] = aggressor
    BY <1>2, <2>1, AppendProperties
  <2> QED
    BY <2>1, <2>2, LenProperties
<1>7. /\ levels'[s][r] = Append(q, aggressor)
      /\ \A side \in Sides, p \in Prices : side # s \/ p # r =>
           levels'[side][p] = levels[side][p]
      /\ levels' \in [Sides -> [Prices -> Seq(Slots)]]
  <2> DEFINE new == Append(q, aggressor)
  <2>1. levels' = [levels EXCEPT ![s][r] = new] /\ new \in Seq(Slots)
    BY <1>1, <1>6
  <2> HIDE DEF new, q, s, r
  <2>2. /\ levels'[s][r] = new
        /\ \A side \in Sides, p \in Prices : side # s \/ p # r =>
             levels'[side][p] = levels[side][p]
        /\ levels' \in [Sides -> [Prices -> Seq(Slots)]]
    BY <2>1, <1>2, <1>5
  <2> QED
    BY <2>2 DEF new
<1> HIDE DEF s, r, q
<1>8. TypeOK'
  <2>1. totals' \in [Sides -> [Prices -> 0 .. QuantityLimit - 1]]
    <3> DEFINE n == totals[s][r] + o.remaining_quantity
    <3>1. n \in Int
      <4>1. totals[s][r] \in Nat
        BY <1>2, <1>5, TotalIsNatural
      <4> QED
        BY <4>1, <1>2
    <3>2. totals' = [totals EXCEPT ![s][r] = Wrap(n)]
      BY <1>1
    <3> HIDE DEF n
    <3> QED
      BY <3>1, <3>2, <1>2, <1>5, TotalsType
  <2>2. active_orders' \in [Sides -> Nat] /\ best' \in [Sides -> Prices \cup {NoPrice}]
    BY <1>1, <1>2, <1>5
  <2> QED
    BY <1>1, <1>7, <2>1, <2>2 DEF IInv, TypeOK
<1>9. PoolAndMapAgree'
  BY <1>1, <1>3 DEF IInv, PoolAndMapAgree
<1>10. LevelsHoldRestingOrders'
  <2>1. ASSUME NEW side \in Sides, NEW p \in Prices, NEW i \in Entries(side, p)'
        PROVE  LET t == levels'[side][p][i]
               IN  /\ t \in Resting'
                   /\ orders'[t].side = side
                   /\ orders'[t].price = p
                   /\ orders'[t].remaining_quantity > 0
    <3> DEFINE t == levels'[side][p][i]
    <3>1. CASE side = s /\ p = r /\ i = Len(q) + 1
      <4>1. t = aggressor
        BY <3>1, <1>6, <1>7
      <4>2. aggressor \in Resting' /\ orders' = orders
        BY <1>1, <1>2, <1>4
      <4>3. /\ orders'[aggressor].side = s /\ orders'[aggressor].price = r
            /\ orders'[aggressor].remaining_quantity > 0
        BY <4>2, <1>1 DEF s, r
      <4> QED
        BY <3>1, <4>1, <4>2, <4>3
    <3>2. CASE ~(side = s /\ p = r /\ i = Len(q) + 1)
      <4>1. i \in Entries(side, p) /\ t = levels[side][p][i]
        <5>1. CASE side = s /\ p = r
          <6>1. i \in 1 .. Len(q) + 1
            BY <5>1, <1>6, <1>7 DEF Entries
          <6>2. i \in 1 .. Len(q)
            BY <6>1, <5>1, <3>2, <1>6
          <6> QED
            BY <6>2, <5>1, <1>6, <1>7 DEF Entries, q
        <5>2. CASE ~(side = s /\ p = r)
          BY <5>2, <1>7 DEF Entries
        <5> QED
          BY <5>1, <5>2
      <4>2. /\ t \in Resting
            /\ orders[t].side = side
            /\ orders[t].price = p
            /\ orders[t].remaining_quantity > 0
        BY <4>1 DEF IInv, LevelsHoldRestingOrders
      <4>3. orders' = orders
        BY <1>1
      <4> HIDE DEF t
      <4>4. /\ t \in Resting'
            /\ orders'[t].side = side
            /\ orders'[t].price = p
            /\ orders'[t].remaining_quantity > 0
        BY <4>2, <4>3, <1>4
      <4> QED
        BY <4>4 DEF t
    <3> QED
      BY <3>1, <3>2
  <2>2. ASSUME NEW t \in Resting'
        PROVE  \E i \in DOMAIN (levels'[orders'[t].side][orders'[t].price]) :
                 levels'[orders'[t].side][orders'[t].price][i] = t
    <3>1. CASE t = aggressor
      <4>1. Len(q) + 1 \in 1 .. Len(q) + 1
        BY <1>6
      <4> QED
        BY <3>1, <4>1, <1>1, <1>6, <1>7 DEF s, r
    <3>2. CASE t # aggressor
      <4> DEFINE side == orders[t].side
                 p == orders[t].price
      <4>1. t \in Resting /\ orders' = orders
        BY <3>2, <1>1, <1>4
      <4>2. PICK i \in Entries(side, p) : levels[side][p][i] = t
        BY <4>1 DEF IInv, LevelsHoldRestingOrders
      <4>3. side \in Sides /\ p \in Prices
        BY <4>1, ActiveSlots, RecordsAreActive DEF IInv, TypeOK, Resting
      <4>4. i \in DOMAIN (levels'[side][p]) /\ levels'[side][p][i] = t
        <5>1. CASE side = s /\ p = r
          <6>1. i \in 1 .. Len(q) /\ q[i] = t
            BY <5>1, <4>2, <1>6 DEF Entries, q
          <6>2. i \in 1 .. Len(q) + 1
            BY <6>1, <1>6
          <6> QED
            BY <6>1, <6>2, <5>1, <1>6, <1>7
        <5>2. CASE ~(side = s /\ p = r)
          BY <5>2, <4>2, <4>3, <1>7 DEF Entries
        <5> QED
          BY <5>1, <5>2
      <4> QED
        BY <4>1, <4>4
    <3> QED
      BY <3>1, <3>2
  <2> QED
    BY <2>1, <2>2 DEF LevelsHoldRestingOrders, Entries
<1>11. ArrivalOrder'
  <2>1. \A t \in Active' : orders'[t].seq <= arrivals'
    BY <1>1, <1>3 DEF IInv, ArrivalOrder
  <2>2. ASSUME NEW side \in Sides, NEW p \in Prices,
               NEW i \in Entries(side, p)', NEW j \in Entries(side, p)', i < j
        PROVE  orders'[levels'[side][p][i]].seq < orders'[levels'[side][p][j]].seq
    <3>1. CASE side = s /\ p = r
      <4>1. i \in 1 .. Len(q) + 1 /\ j \in 1 .. Len(q) + 1
        BY <3>1, <1>6, <1>7 DEF Entries
      <4>2. i \in 1 .. Len(q) /\ levels'[s][r][i] = levels[s][r][i]
        <5>1. i \in 1 .. Len(q)
          BY <4>1, <2>2, <1>6
        <5> QED
          BY <5>1, <1>6, <1>7 DEF q
      <4>3. i \in Entries(s, r)
        BY <4>2, <1>6 DEF Entries, q
      <4>4. CASE j = Len(q) + 1
        <5>1. levels'[s][r][j] = aggressor
          BY <4>4, <1>6, <1>7
        <5>2. levels[s][r][i] \in Resting
          BY <4>3, <1>2 DEF IInv, LevelsHoldRestingOrders
        <5>3. orders[levels[s][r][i]].seq < orders[aggressor].seq
          BY <5>2, <1>1 DEF IInv, ArrivalOrder
        <5> QED
          BY <3>1, <4>2, <5>1, <5>3, <1>1
      <4>5. CASE j # Len(q) + 1
        <5>1. j \in 1 .. Len(q)
          BY <4>1, <4>5, <1>6
        <5>2. j \in Entries(s, r) /\ levels'[s][r][j] = levels[s][r][j]
          BY <5>1, <1>6, <1>7 DEF Entries, q
        <5>3. orders[levels[s][r][i]].seq < orders[levels[s][r][j]].seq
          BY <2>2, <4>3, <5>2, <1>2 DEF IInv, ArrivalOrder
        <5> QED
          BY <3>1, <4>2, <5>2, <5>3, <1>1
      <4> QED
        BY <4>4, <4>5
    <3>2. CASE ~(side = s /\ p = r)
      <4>1. levels'[side][p] = levels[side][p]
        BY <3>2, <1>7
      <4>2. i \in Entries(side, p) /\ j \in Entries(side, p)
        BY <4>1 DEF Entries
      <4> QED
        BY <2>2, <4>1, <4>2, <1>1 DEF IInv, ArrivalOrder
    <3> QED
      BY <3>1, <3>2
  <2> QED
    BY <2>1, <2>2, <1>1 DEF ArrivalOrder, Entries
<1>12. BestPricesCurrent'
  <2> DEFINE left(side) == {p \in Prices : levels'[side][p] # <<>>}
  <2>1. \A side \in Sides \ {s} : left(side) = NonEmptyPrices(side)
    BY <1>7 DEF NonEmptyPrices
  <2>2. left(s) = NonEmptyPrices(s) \cup {r}
    BY <1>2, <1>6, <1>7 DEF NonEmptyPrices
  <2>3. \A side \in Sides :
          /\ best[side] = NoPrice <=> NonEmptyPrices(side) = {}
          /\ best[side] # NoPrice =>
               /\ best[side] \in NonEmptyPrices(side)
               /\ \A p \in NonEmptyPrices(side) : ~Better(side, p, best[side])
    BY DEF IInv, BestPricesCurrent
  <2>4. NonEmptyPrices(s) \subseteq Nat /\ r \in Nat /\ r # NoPrice
    BY <1>2, IntegerTypes DEF NonEmptyPrices
  <2> HIDE DEF left
  <2>5. best'[s] = IF best[s] = NoPrice \/ Better(s, r, best[s]) THEN r ELSE best[s]
    BY <1>1, <1>2, <1>5
  <2>6. /\ best'[s] # NoPrice
        /\ best'[s] \in left(s)
        /\ \A p \in left(s) : ~Better(s, p, best'[s])
    <3>1. CASE best[s] = NoPrice
      <4>1. left(s) = {r} /\ best'[s] = r
        BY <3>1, <2>2, <2>3, <2>5, <1>2
      <4> QED
        BY <4>1, <2>4 DEF Better
    <3>2. CASE best[s] # NoPrice
      <4>1. /\ best[s] \in NonEmptyPrices(s) /\ best[s] \in Nat
            /\ \A p \in NonEmptyPrices(s) : ~Better(s, p, best[s])
        BY <3>2, <2>3, <2>4, <1>2
      <4>2. CASE Better(s, r, best[s])
        <5>1. best'[s] = r
          BY <4>2, <2>5
        <5>2. \A p \in left(s) : ~Better(s, p, r)
          BY <4>1, <4>2, <2>2, <2>4 DEF Better
        <5> QED
          BY <5>1, <5>2, <2>2, <2>4
      <4>3. CASE ~Better(s, r, best[s])
        <5>1. best'[s] = best[s]
          BY <3>2, <4>3, <2>5
        <5> QED
          BY <3>2, <4>1, <4>3, <5>1, <2>2
      <4> QED
        BY <4>2, <4>3
    <3> QED
      BY <3>1, <3>2
  <2>7. \A side \in Sides \ {s} : best'[side] = best[side]
    BY <1>1, <1>5
  <2>8. \A side \in Sides : left(side) = NonEmptyPrices(side)'
    BY DEF left, NonEmptyPrices
  <2>9. ASSUME NEW side \in Sides
        PROVE  /\ best'[side] = NoPrice <=> left(side) = {}
               /\ best'[side] # NoPrice =>
                    /\ best'[side] \in left(side)
                    /\ \A p \in left(side) : ~Better(side, p, best'[side])
    <3>1. CASE side = s
      BY <3>1, <2>6
    <3>2. CASE side # s
      BY <3>2, <2>1, <2>3, <2>7
    <3> QED
      BY <3>1, <3>2
  <2> QED
    BY <2>8, <2>9 DEF BestPricesCurrent
<1>13. CountsExact'
  <2> DEFINE on(side) == {t \in Resting : orders[t].side = side}
  <2>1. \A side \in Sides : active_orders[side] = Cardinality(on(side))
    BY DEF IInv, CountsExact
  <2>2. \A side \in Sides \ {s} : {t \in Resting' : orders'[t].side = side} = on(side)
    BY <1>1, <1>4 DEF s
  <2>3. {t \in Resting' : orders'[t].side = s} = on(s) \cup {aggressor}
    BY <1>1, <1>4 DEF s
  <2>4. IsFiniteSet(on(s)) /\ aggressor \notin on(s)
    <3>1. on(s) \in SUBSET Slots
      BY DEF Resting, Active
    <3> QED
      BY <3>1, <1>2, FiniteSlots
  <2>5. Cardinality(on(s) \cup {aggressor}) = Cardinality(on(s)) + 1
    BY <2>4, FS_AddElement
  <2> HIDE DEF on
  <2>6. \A side \in Sides :
          active_orders'[side] = IF side = s THEN active_orders[side] + 1
                                 ELSE active_orders[side]
    BY <1>1, <1>5
  <2>7. \A side \in Sides :
          active_orders'[side] = Cardinality({t \in Resting' : orders'[t].side = side})
    BY <2>1, <2>2, <2>3, <2>5, <2>6
  <2> QED
    BY <2>7 DEF CountsExact
<1>14. BookNotCrossed'
  <2>1. ASSUME NEW t \in Resting, orders[t].side = Opposite(s)
        PROVE  Better(Opposite(s), r, orders[t].price)
    <3> DEFINE opp == Opposite(s)
               p == orders[t].price
    <3>1. opp \in Sides
      BY DEF Opposite, Sides
    <3>2. p \in Prices
      BY ActiveSlots, RecordsAreActive DEF IInv, TypeOK, Resting
    <3>3. p \in NonEmptyPrices(opp)
      <4>1. \E i \in DOMAIN (levels[opp][p]) : levels[opp][p][i] = t
        BY <2>1 DEF IInv, LevelsHoldRestingOrders, Entries
      <4> QED
        BY <3>2, <4>1 DEF NonEmptyPrices
    <3>4. /\ best[opp] # NoPrice
          /\ best[opp] \in Prices
          /\ ~Better(opp, p, best[opp])
      BY <3>1, <3>3, <1>5 DEF IInv, BestPricesCurrent
    <3>5. Better(s, best[opp], r)
      BY <1>1, <3>4 DEF Marketable, s, r
    <3>6. p \in Nat /\ r \in Nat /\ best[opp] \in Nat
      BY <1>2, <3>2, <3>4, IntegerTypes
    <3> HIDE DEF p
    <3> QED
      BY <3>4, <3>5, <3>6, <1>2 DEF Better, Opposite, Sides, p
  <2>2. ASSUME NEW bid \in Resting', NEW ask \in Resting',
               orders'[bid].side = "Buy", orders'[ask].side = "Sell"
        PROVE  orders'[bid].price < orders'[ask].price
    <3>1. CASE bid = aggressor
      <4>1. ask \in Resting /\ s = "Buy"
        BY <2>2, <3>1, <1>1, <1>4 DEF s
      <4> QED
        BY <2>1, <2>2, <3>1, <4>1, <1>1 DEF Opposite, Better, r
    <3>2. CASE ask = aggressor
      <4>1. bid \in Resting /\ s = "Sell"
        BY <2>2, <3>2, <1>1, <1>4 DEF s
      <4>2. Better("Buy", r, orders[bid].price)
        BY <2>1, <2>2, <4>1, <1>1 DEF Opposite
      <4>3. r > orders[bid].price
        BY <4>2 DEF Better
      <4>4. orders[bid].price \in Nat /\ r \in Nat
        BY <4>1, <1>2, ActiveSlots, RecordsAreActive, IntegerTypes
        DEF IInv, TypeOK, Resting
      <4> QED
        BY <3>2, <4>3, <4>4, <1>1 DEF r
    <3>3. CASE bid # aggressor /\ ask # aggressor
      BY <2>2, <3>3, <1>1, <1>4 DEF IInv, BookNotCrossed
    <3> QED
      BY <3>1, <3>2, <3>3
  <2> QED
    BY <2>2 DEF BookNotCrossed
<1> QED
  BY <1>8, <1>9, <1>10, <1>11, <1>12, <1>13, <1>14 DEF IInv

LEMMA FinishFilledInv ==
  ASSUME IInv, FinishFilled
  PROVE  IInv'
<1> DEFINE id == orders[aggressor].order_id
<1>1. /\ aggressor # NoSlot
      /\ orders' = [orders EXCEPT ![aggressor] = BlankOrder]
      /\ free' = free \cup {aggressor}
      /\ orders_by_id' = [orders_by_id EXCEPT ![id] = NoSlot]
      /\ aggressor' = NoSlot
      /\ UNCHANGED <<levels, totals, best, active_orders, execution_count, arrivals>>
  BY DEF FinishFilled
<1>2. /\ orders \in [Slots -> OrderRecord \cup {BlankOrder}]
      /\ orders_by_id \in [OrderIds -> Slots \cup {NoSlot}]
      /\ aggressor \in Active /\ aggressor \in Slots
      /\ orders_by_id[id] = aggressor
      /\ NoSlot \notin Slots
  BY <1>1, SlotsAssumption DEF IInv, TypeOK, PoolAndMapAgree, Active
<1>3. /\ orders'[aggressor] = BlankOrder
      /\ \A t \in Slots \ {aggressor} : orders'[t] = orders[t]
      /\ orders' \in [Slots -> OrderRecord \cup {BlankOrder}]
  BY <1>1, <1>2
<1>4. Active' = Active \ {aggressor}
  BY <1>2, <1>3, RecordsAreActive DEF Active
<1>5. Resting' = Resting
  BY <1>1, <1>2, <1>4 DEF Resting, Active
<1>6. \A t \in Resting : orders'[t] = orders[t] /\ t \in Active
  BY <1>3 DEF Resting, Active
<1>7. TypeOK'
  <2>1. free' \subseteq Slots /\ orders_by_id' \in [OrderIds -> Slots \cup {NoSlot}]
    BY <1>1, <1>2 DEF IInv, TypeOK
  <2> QED
    BY <1>1, <1>3, <2>1 DEF IInv, TypeOK
<1>8. PoolAndMapAgree'
  <2>1. free' = Slots \ Active'
    BY <1>1, <1>2, <1>4 DEF IInv, PoolAndMapAgree
  <2>2. ASSUME NEW t \in Active' PROVE orders_by_id'[orders'[t].order_id] = t
    <3>1. t \in Active /\ t # aggressor /\ orders'[t] = orders[t]
      BY <1>3, <1>4 DEF Active
    <3>2. orders_by_id[orders[t].order_id] = t /\ orders[t].order_id \in OrderIds
      BY <3>1, <1>2, ActiveSlots, RecordsAreActive DEF IInv, PoolAndMapAgree
    <3>3. orders[t].order_id # id
      BY <3>1, <3>2, <1>2
    <3> QED
      BY <3>1, <3>2, <3>3, <1>1, <1>2
  <2>3. ASSUME NEW i \in OrderIds, orders_by_id'[i] # NoSlot
        PROVE  orders_by_id'[i] \in Active' /\ orders'[orders_by_id'[i]].order_id = i
    <3>1. i # id /\ orders_by_id'[i] = orders_by_id[i]
      BY <2>3, <1>1, <1>2
    <3>2. orders_by_id[i] \in Active /\ orders[orders_by_id[i]].order_id = i
      BY <2>3, <3>1 DEF IInv, PoolAndMapAgree
    <3>3. orders_by_id[i] # aggressor
      BY <3>1, <3>2
    <3>4. orders'[orders_by_id[i]] = orders[orders_by_id[i]]
      BY <3>2, <3>3, <1>3 DEF Active
    <3> QED
      BY <3>1, <3>2, <3>3, <3>4, <1>4
  <2> QED
    BY <1>1, <2>1, <2>2, <2>3 DEF PoolAndMapAgree
<1>9. /\ LevelsHoldRestingOrders'
      /\ BestPricesCurrent'
      /\ CountsExact'
      /\ BookNotCrossed'
      /\ \A side \in Sides, p \in Prices : \A i, j \in Entries(side, p)' :
           i < j => orders'[levels'[side][p][i]].seq < orders'[levels'[side][p][j]].seq
  BY <1>1, <1>5, <1>6, RestingOrdersUnchanged
<1>10. ArrivalOrder'
  <2>1. \A t \in Active' : t \in Active /\ orders'[t] = orders[t]
    BY <1>3, <1>4 DEF Active
  <2>2. \A t \in Active' : orders'[t].seq <= arrivals'
    BY <1>1, <2>1 DEF IInv, ArrivalOrder
  <2> QED
    BY <1>1, <1>9, <2>2 DEF ArrivalOrder, Entries
<1> QED
  BY <1>7, <1>8, <1>9, <1>10 DEF IInv

-----------------------------------------------------------------------------
(* The theorems                                                            *)

LEMMA NextInv ==
  ASSUME IInv, [Next]_vars
  PROVE  IInv'
<1>1. ASSUME NEW c \in NewOrderCommand, NEW id \in OrderIds, Admit(c, id)
      PROVE  IInv'
  BY <1>1, AdmitInv
<1>2. ASSUME NEW c \in NewOrderCommand, NEW id \in OrderIds, RejectNew(c, id)
      PROVE  IInv'
  BY <1>2, UnchangedInv DEF RejectNew
<1>3. CASE FillPartially
  BY <1>3, FillPartiallyInv
<1>4. CASE FillCompletely
  BY <1>4, FillCompletelyInv
<1>5. CASE Rest
  BY <1>5, RestInv
<1>6. CASE FinishFilled
  BY <1>6, FinishFilledInv
<1>7. ASSUME NEW c \in CancelOrderCommand, Cancel(c)
      PROVE  IInv'
  BY <1>7, CancelInv
<1>8. ASSUME NEW c \in CancelOrderCommand, RejectCancel(c)
      PROVE  IInv'
  BY <1>8, UnchangedInv DEF RejectCancel
<1>9. CASE UNCHANGED vars
  BY <1>9, UnchangedInv DEF vars
<1> QED
  BY <1>1, <1>2, <1>3, <1>4, <1>5, <1>6, <1>7, <1>8, <1>9 DEF Next, ExecuteStep

(* The conjunction of the invariants of the book holds in every state.     *)
THEOREM Invariance == Spec => []IInv
<1>1. Init => IInv
  BY InitInv
<1>2. IInv /\ [Next]_vars => IInv'
  BY NextInv
<1> QED
  BY <1>1, <1>2, PTL DEF Spec

(* Every variable keeps its type: in particular no quantity is executed    *)
(* twice and no count of active orders falls below zero.                   *)
THEOREM TypeCorrectness == Spec => []TypeOK
BY Invariance, PTL DEF IInv

(* No admit, fill or cancel leaks a slot or leaves an id pointing at a     *)
(* slot that has been released, for any capacity of the pool.              *)
THEOREM PoolAndMapAgreement == Spec => []PoolAndMapAgree
BY Invariance, PTL DEF IInv

(* The levels hold the resting orders, each in its place.                  *)
THEOREM LevelsCorrect == Spec => []LevelsHoldRestingOrders
BY Invariance, PTL DEF IInv

(* Every level lists its orders in the order they were admitted, whatever  *)
(* is removed from its middle (PriceLevel.h:19-52).                        *)
THEOREM ArrivalsInOrder == Spec => []ArrivalOrder
BY Invariance, PTL DEF IInv

(* The cached best prices are exact, for any number of levels.             *)
THEOREM CachesCorrect == Spec => []BestPricesCurrent
BY Invariance, PTL DEF IInv

(* The counts of active orders are exact, for any number of orders         *)
(* (OrderBook.cpp:203-212, :264-272, :378, :437).                          *)
THEOREM CountsAlwaysExact == Spec => []CountsExact
BY Invariance, PTL DEF IInv

(* The book is never crossed by resting orders.                            *)
THEOREM NeverCrossed == Spec => []BookNotCrossed
BY Invariance, PTL DEF IInv

-----------------------------------------------------------------------------
(* The totals of the levels                                                *)

LEMMA Division ==
  ASSUME NEW a \in Int, NEW c \in Nat \ {0}
  PROVE  /\ (a % c) \in 0 .. c - 1
         /\ a \div c \in Int
         /\ a = c * (a \div c) + (a % c)
BY SMT

LEMMA SameRemainder ==
  ASSUME NEW c \in Nat \ {0}, NEW s \in 0 .. c - 1, NEW t \in 0 .. c - 1,
         NEW k \in Int, s - t = c * k
  PROVE  s = t
<1>1. CASE k <= -1
  BY <1>1, SMT
<1>2. CASE k = 0
  BY <1>2, SMT
<1>3. CASE k >= 1
  BY <1>3, SMT
<1> QED
  BY <1>1, <1>2, <1>3

(* A counter of limited width can be added to, or taken from, without      *)
(* regard to how often it has wrapped before.                              *)
LEMMA WrapOnceMore ==
  ASSUME NEW a \in Int, NEW b \in Int
  PROVE  Wrap(Wrap(a) + b) = Wrap(a + b)
<1> DEFINE c == QuantityLimit
           r == (a % c)
           s == ((r + b) % c)
           t == ((a + b) % c)
           i == a \div c
           j == (r + b) \div c
           k == (a + b) \div c
<1>1. c \in Nat \ {0}
  BY QuantityAssumption
<1>2. r \in 0 .. c - 1 /\ i \in Int /\ a = c * i + r
  BY <1>1, Division, Zenon
<1>3. r + b \in Int /\ a + b \in Int
  BY <1>1, <1>2
<1>4. s \in 0 .. c - 1 /\ j \in Int /\ r + b = c * j + s
  BY <1>1, <1>3, Division, Zenon
<1>5. t \in 0 .. c - 1 /\ k \in Int /\ a + b = c * k + t
  BY <1>1, <1>3, Division, Zenon
<1> SUFFICES s = t
  BY DEF Wrap
<1> HIDE DEF c, r, s, t, i, j, k
<1> DEFINE m == k - i - j
<1>6. m \in Int
  BY <1>2, <1>4, <1>5
<1>7. s - t = c * m
  <2>1. s - t = (c * k - c * i) - c * j
    BY <1>1, <1>2, <1>4, <1>5
  <2>2. (c * k - c * i) - c * j = c * m
    BY <1>1, <1>2, <1>4, <1>5
  <2> QED
    BY <2>1, <2>2
<1> HIDE DEF m
<1> QED
  BY <1>1, <1>4, <1>5, <1>6, <1>7, SameRemainder

(* The orders that rest at a price, by what they say of themselves.        *)
Residents(side, p) ==
  {t \in Resting : orders[t].side = side /\ orders[t].price = p}

LEMMA LevelMembers ==
  IInv => \A side \in Sides, p \in Prices : Range(levels[side][p]) = Residents(side, p)
<1> SUFFICES ASSUME IInv, NEW side \in Sides, NEW p \in Prices
             PROVE  Range(levels[side][p]) = Residents(side, p)
  OBVIOUS
<1>1. ASSUME NEW t \in Range(levels[side][p])
      PROVE  t \in Residents(side, p)
  BY DEF Range, Residents, IInv, LevelsHoldRestingOrders, Entries
<1>2. ASSUME NEW t \in Residents(side, p)
      PROVE  t \in Range(levels[side][p])
  BY DEF Range, Residents, IInv, LevelsHoldRestingOrders, Entries
<1> QED
  BY <1>1, <1>2

(* The units of the orders of T.                                           *)
UnitsOf(T) ==
  {unit \in T \X (1 .. QuantityLimit - 1) : unit[2] <= orders[unit[1]].remaining_quantity}

LEMMA UnitsOfLevels ==
  IInv => \A side \in Sides, p \in Prices : LevelSum(side, p) = Cardinality(UnitsOf(Residents(side, p)))
BY LevelMembers DEF LevelSum, LevelUnits, UnitsOf

LEMMA UnitsOfLevelsAfter ==
  IInv' => \A side \in Sides, p \in Prices :
             LevelSum(side, p)' = Cardinality(UnitsOf(Residents(side, p))')
<1>1. [](IInv => \A side \in Sides, p \in Prices :
                   LevelSum(side, p) = Cardinality(UnitsOf(Residents(side, p))))
  BY UnitsOfLevels, PTL
<1>2. (IInv => \A side \in Sides, p \in Prices :
                 LevelSum(side, p) = Cardinality(UnitsOf(Residents(side, p))))'
  BY <1>1, PTL
<1> QED
  BY <1>2

LEMMA FiniteUnits ==
  ASSUME NEW T \in SUBSET Slots
  PROVE  IsFiniteSet(UnitsOf(T)) /\ Cardinality(UnitsOf(T)) \in Nat
<1>1. IsFiniteSet(T)
  BY FiniteSlots
<1>2. IsFiniteSet(1 .. QuantityLimit - 1)
  BY FS_Interval, IntegerTypes
<1>3. IsFiniteSet(T \X (1 .. QuantityLimit - 1))
  BY <1>1, <1>2, FS_Product
<1> QED
  BY <1>3, FS_Subset, FS_CardinalityType DEF UnitsOf

(* What an order wants at a price: nothing, unless it rests there.         *)
WantedAt(slot, side, p) ==
  IF slot \in Residents(side, p) THEN orders[slot].remaining_quantity ELSE 0

OtherUnits(slot, side, p) == Cardinality(UnitsOf(Residents(side, p) \ {slot}))

LEMMA OneOfTheResidents ==
  IInv => \A side \in Sides, p \in Prices : \A slot \in Slots :
            /\ WantedAt(slot, side, p) \in Nat
            /\ OtherUnits(slot, side, p) \in Nat
            /\ Cardinality(UnitsOf(Residents(side, p))) =
                 OtherUnits(slot, side, p) + WantedAt(slot, side, p)
<1> SUFFICES ASSUME IInv, NEW side \in Sides, NEW p \in Prices, NEW slot \in Slots
             PROVE  /\ WantedAt(slot, side, p) \in Nat
                    /\ OtherUnits(slot, side, p) \in Nat
                    /\ Cardinality(UnitsOf(Residents(side, p))) =
                         OtherUnits(slot, side, p) + WantedAt(slot, side, p)
  OBVIOUS
<1> DEFINE T == Residents(side, p)
           n == orders[slot].remaining_quantity
           own == {slot} \X (1 .. n)
<1>1. T \in SUBSET Slots /\ T \ {slot} \in SUBSET Slots
  BY DEF Residents, Resting, Active
<1>2. IsFiniteSet(UnitsOf(T \ {slot})) /\ OtherUnits(slot, side, p) \in Nat
  BY <1>1, FiniteUnits DEF OtherUnits
<1>3. CASE slot \notin T
  <2>1. T \ {slot} = T
    BY <1>3
  <2>2. WantedAt(slot, side, p) = 0
    BY <1>3 DEF WantedAt
  <2>3. OtherUnits(slot, side, p) = Cardinality(UnitsOf(T))
    BY <2>1 DEF OtherUnits
  <2> QED
    BY <1>2, <2>2, <2>3
<1>4. CASE slot \in T
  <2>1. slot \in Active
    BY <1>4 DEF Residents, Resting
  <2>2. n \in 0 .. QuantityLimit - 1 /\ n \in Nat
    <3>1. orders[slot] \in OrderRecord
      BY <2>1, ActiveSlots DEF IInv, TypeOK
    <3> QED
      BY <3>1, RecordsAreActive, IntegerTypes
  <2>3. UnitsOf(T) = UnitsOf(T \ {slot}) \cup own
    BY <1>4, <2>2, IntegerTypes DEF UnitsOf
  <2>4. UnitsOf(T \ {slot}) \cap own = {}
    BY DEF UnitsOf
  <2>5. IsFiniteSet(own) /\ Cardinality(own) = n
    <3>1. IsFiniteSet({slot}) /\ Cardinality({slot}) = 1
      BY FS_Singleton
    <3>2. IsFiniteSet(1 .. n) /\ Cardinality(1 .. n) = n
      <4>1. n \in Int /\ 1 \in Int
        BY <2>2
      <4>2. /\ IsFiniteSet(1 .. n)
            /\ Cardinality(1 .. n) = IF 1 > n THEN 0 ELSE n - 1 + 1
        BY <4>1, FS_Interval
      <4> QED
        BY <4>2, <2>2
    <3>3. IsFiniteSet(own) /\ Cardinality(own) = Cardinality({slot}) * Cardinality(1 .. n)
      BY <3>1, <3>2, FS_Product
    <3> QED
      BY <3>1, <3>2, <3>3, <2>2
  <2>6. Cardinality(UnitsOf(T)) =
          Cardinality(UnitsOf(T \ {slot})) + Cardinality(own)
            - Cardinality(UnitsOf(T \ {slot}) \cap own)
    BY <1>2, <2>3, <2>5, FS_Union
  <2>7. Cardinality(UnitsOf(T)) = OtherUnits(slot, side, p) + n - 0
    BY <2>4, <2>5, <2>6, FS_EmptySet DEF OtherUnits
  <2> QED
    BY <1>2, <1>4, <2>2, <2>7 DEF WantedAt
<1> QED
  BY <1>3, <1>4

LEMMA OneOfTheResidentsAfter ==
  IInv' => \A side \in Sides, p \in Prices : \A slot \in Slots :
             /\ WantedAt(slot, side, p)' \in Nat
             /\ OtherUnits(slot, side, p)' \in Nat
             /\ Cardinality(UnitsOf(Residents(side, p))') =
                  OtherUnits(slot, side, p)' + WantedAt(slot, side, p)'
<1>1. [](IInv => \A side \in Sides, p \in Prices : \A slot \in Slots :
                   /\ WantedAt(slot, side, p) \in Nat
                   /\ OtherUnits(slot, side, p) \in Nat
                   /\ Cardinality(UnitsOf(Residents(side, p))) =
                        OtherUnits(slot, side, p) + WantedAt(slot, side, p))
  BY OneOfTheResidents, PTL
<1>2. (IInv => \A side \in Sides, p \in Prices : \A slot \in Slots :
                 /\ WantedAt(slot, side, p) \in Nat
                 /\ OtherUnits(slot, side, p) \in Nat
                 /\ Cardinality(UnitsOf(Residents(side, p))) =
                      OtherUnits(slot, side, p) + WantedAt(slot, side, p))'
  BY <1>1, PTL
<1> QED
  BY <1>2

(* A step that changes what one order wants, in its level, and the total   *)
(* of that level by as much, leaves every total exact modulo its width.    *)
LEMMA TotalsAfter ==
  ASSUME IInv, IInv', TotalsModuloWidth,
         NEW slot \in Slots, NEW s \in Sides, NEW r \in Prices,
         \A t \in Slots \ {slot} : (t \in Resting <=> t \in Resting')
                                   /\ (t \in Resting => /\ orders'[t].side = orders[t].side
                                                        /\ orders'[t].price = orders[t].price
                                                        /\ orders'[t].remaining_quantity =
                                                             orders[t].remaining_quantity),
         slot \in Resting => orders[slot].side = s /\ orders[slot].price = r,
         slot \in Resting' => orders'[slot].side = s /\ orders'[slot].price = r,
         \A side \in Sides, p \in Prices :
           totals'[side][p] =
             IF side = s /\ p = r
             THEN Wrap(totals[s][r] + (WantedAt(slot, s, r)' - WantedAt(slot, s, r)))
             ELSE totals[side][p]
  PROVE  TotalsModuloWidth'
<1> SUFFICES ASSUME NEW side \in Sides, NEW p \in Prices
             PROVE  totals'[side][p] = Wrap(LevelSum(side, p)')
  BY DEF TotalsModuloWidth, Wrap
<1> DEFINE T == Residents(side, p)
           n == OtherUnits(slot, side, p)
           a == WantedAt(slot, side, p)
           b == WantedAt(slot, side, p)'
<1>1. LevelSum(side, p) = n + a /\ n \in Nat /\ a \in Nat
  BY OneOfTheResidents, UnitsOfLevels
<1>2. LevelSum(side, p)' = n' + b /\ n' \in Nat /\ b \in Nat
  BY OneOfTheResidentsAfter, UnitsOfLevelsAfter
<1>3. n' = n
  <2>1. T' \ {slot} = T \ {slot}
    BY DEF Residents, Resting, Active
  <2>2. UnitsOf(T \ {slot})' = UnitsOf(T \ {slot})
    BY <2>1 DEF UnitsOf, Residents, Resting, Active
  <2> QED
    BY <2>2 DEF OtherUnits
<1>4. totals[side][p] = Wrap(n + a)
  BY <1>1 DEF TotalsModuloWidth
<1> HIDE DEF n, a, b
<1>5. CASE side = s /\ p = r
  <2>1. totals'[side][p] = Wrap(totals[side][p] + (b - a))
    BY <1>5 DEF a, b
  <2>2. totals'[side][p] = Wrap(Wrap(n + a) + (b - a))
    BY <1>4, <2>1
  <2>3. Wrap(Wrap(n + a) + (b - a)) = Wrap((n + a) + (b - a))
    BY <1>1, <1>2, WrapOnceMore
  <2>4. (n + a) + (b - a) = n' + b
    BY <1>1, <1>2, <1>3
  <2> QED
    BY <1>2, <2>2, <2>3, <2>4
<1>6. CASE ~ (side = s /\ p = r)
  <2>1. totals'[side][p] = totals[side][p]
    BY <1>6
  <2>2. a = 0 /\ b = 0
    BY <1>6 DEF a, b, WantedAt, Residents
  <2> QED
    BY <1>1, <1>2, <1>3, <1>4, <2>1, <2>2
<1> QED
  BY <1>5, <1>6

(* A step that neither changes the resting orders nor the totals.          *)
LEMMA TotalsKept ==
  ASSUME IInv, IInv', TotalsModuloWidth,
         Resting' = Resting, \A t \in Resting : orders'[t] = orders[t],
         UNCHANGED totals
  PROVE  TotalsModuloWidth'
<1> SUFFICES ASSUME NEW side \in Sides, NEW p \in Prices
             PROVE  totals'[side][p] = Wrap(LevelSum(side, p)')
  BY DEF TotalsModuloWidth, Wrap
<1>1. Residents(side, p)' = Residents(side, p)
  BY DEF Residents
<1>2. UnitsOf(Residents(side, p))' = UnitsOf(Residents(side, p))
  BY <1>1 DEF UnitsOf, Residents
<1>3. LevelSum(side, p)' = LevelSum(side, p)
  BY <1>2, UnitsOfLevels, UnitsOfLevelsAfter
<1> QED
  BY <1>3 DEF TotalsModuloWidth

LEMMA TotalOf ==
  ASSUME NEW s \in Sides, NEW r \in Prices, NEW n \in Int,
         totals \in [Sides -> [Prices -> 0 .. QuantityLimit - 1]],
         totals' = [totals EXCEPT ![s][r] = Wrap(n)]
  PROVE  \A side \in Sides, p \in Prices :
           totals'[side][p] = IF side = s /\ p = r THEN Wrap(n) ELSE totals[side][p]
<1> DEFINE w == Wrap(n)
<1>1. totals' = [totals EXCEPT ![s][r] = w]
  OBVIOUS
<1> HIDE DEF w
<1>2. \A side \in Sides, p \in Prices :
        totals'[side][p] = IF side = s /\ p = r THEN w ELSE totals[side][p]
  BY <1>1
<1> QED
  BY <1>2 DEF w

(* A fill takes the executed quantity from the standing order, which has   *)
(* none left exactly when it departs.                                      *)
LEMMA FillTotals ==
  ASSUME IInv, IInv', TotalsModuloWidth, FillPartially \/ FillCompletely
  PROVE  TotalsModuloWidth'
<1> SUFFICES ASSUME NEW slot, NEW q, NEW s, NEW r,
                    slot = Standing, q = ExecutedQuantity,
                    s = StandingSide, r = best[StandingSide]
             PROVE  TotalsModuloWidth'
  OBVIOUS
<1> DEFINE leftover(t) == [orders[t] EXCEPT !.remaining_quantity = @ - q]
<1>1. /\ aggressor # NoSlot /\ Marketable(orders[aggressor])
      /\ totals' = [totals EXCEPT ![s][r] = Wrap(@ - q)]
      /\ aggressor' = aggressor
  BY DEF FillPartially, FillCompletely, Execute
<1>2. /\ s \in Sides /\ r \in Prices
      /\ slot \in Resting /\ slot # aggressor
      /\ orders[slot] \in OrderRecord /\ orders[aggressor] \in OrderRecord
      /\ orders[slot].side = s /\ orders[slot].price = r
      /\ q \in Nat
      /\ q <= orders[aggressor].remaining_quantity
      /\ q <= orders[slot].remaining_quantity
  BY <1>1, StandingOrder
<1>3. /\ orders \in [Slots -> OrderRecord \cup {BlankOrder}]
      /\ totals \in [Sides -> [Prices -> 0 .. QuantityLimit - 1]]
      /\ slot \in Slots /\ aggressor \in Slots
  BY <1>1, <1>2 DEF IInv, TypeOK, PoolAndMapAgree, Resting, Active
<1>4. orders[slot].remaining_quantity \in Nat /\ totals[s][r] \in Nat
  BY <1>2, <1>3, RecordsAreActive, IntegerTypes, TotalIsNatural
<1>5. slot \in Residents(s, r) /\ WantedAt(slot, s, r) = orders[slot].remaining_quantity
  BY <1>2 DEF Residents, WantedAt
<1>6. \A side \in Sides, p \in Prices :
        totals'[side][p] =
          IF side = s /\ p = r THEN Wrap(totals[s][r] - q) ELSE totals[side][p]
  <2> DEFINE n == totals[s][r] - q
  <2>1. n \in Int /\ totals' = [totals EXCEPT ![s][r] = Wrap(n)]
    BY <1>1, <1>2, <1>4
  <2> HIDE DEF n
  <2>2. \A side \in Sides, p \in Prices :
          totals'[side][p] = IF side = s /\ p = r THEN Wrap(n) ELSE totals[side][p]
    BY <2>1, <1>2, <1>3, TotalOf
  <2> QED
    BY <2>2 DEF n
<1>7. /\ \A t \in Slots \ {slot, aggressor} : orders'[t] = orders[t]
      /\ \/ orders'[slot] = BlankOrder /\ q = orders[slot].remaining_quantity
         \/ orders'[slot] = leftover(slot)
  BY <1>2, <1>3 DEF FillPartially, FillCompletely
<1>8. \A t \in Slots \ {slot} : t \in Resting <=> t \in Resting'
  BY <1>1, <1>7 DEF Resting, Active
<1>9. /\ slot \in Resting' => orders'[slot].side = s /\ orders'[slot].price = r
      /\ WantedAt(slot, s, r)' = orders[slot].remaining_quantity - q
  <2>1. CASE orders'[slot] = BlankOrder /\ q = orders[slot].remaining_quantity
    <3>1. slot \notin Resting'
      BY <2>1, RecordsAreActive DEF Resting, Active
    <3> QED
      BY <2>1, <3>1, <1>4 DEF WantedAt, Residents
  <2>2. CASE orders'[slot] = leftover(slot)
    <3>1. /\ orders'[slot] \in OrderRecord
          /\ orders'[slot].side = s /\ orders'[slot].price = r
          /\ orders'[slot].remaining_quantity = orders[slot].remaining_quantity - q
      BY <2>2, <1>2, ReducedRecord
    <3>2. slot \in Resting'
      BY <3>1, <1>1, <1>2, <1>3, RecordsAreActive DEF Resting, Active
    <3> QED
      BY <3>1, <3>2 DEF WantedAt, Residents
  <2> QED
    BY <1>7, <2>1, <2>2
<1>10. totals[s][r] - q =
         totals[s][r] + (WantedAt(slot, s, r)' - WantedAt(slot, s, r))
  BY <1>2, <1>4, <1>5, <1>9
<1>11. \A t \in Resting \ {slot} : t \in Slots /\ orders'[t] = orders[t]
  BY <1>7 DEF Resting, Active
<1> HIDE DEF leftover
<1> QED
  BY <1>2, <1>3, <1>6, <1>8, <1>9, <1>10, <1>11, TotalsAfter

LEMMA CancelTotals ==
  ASSUME IInv, IInv', TotalsModuloWidth, NEW c \in CancelOrderCommand, Cancel(c)
  PROVE  TotalsModuloWidth'
<1>0. PICK slot, q, s, r :
        /\ slot = orders_by_id[c.order_id] /\ q = orders[slot].remaining_quantity
        /\ s = orders[slot].side /\ r = orders[slot].price
  OBVIOUS
<1>1. /\ aggressor = NoSlot /\ aggressor' = aggressor
      /\ CancelRefusal(c) = "None"
      /\ totals' = [totals EXCEPT ![s][r] = Wrap(@ - q)]
      /\ orders' = [orders EXCEPT ![slot] = BlankOrder]
  BY <1>0 DEF Cancel
<1>2. c.order_id \in OrderIds /\ slot # NoSlot
  BY <1>0, <1>1 DEF CancelOrderCommand, CancelRefusal
<1>3. slot \in Active /\ slot \in Slots /\ slot \in Resting
  <2>1. slot \in Active
    BY <1>0, <1>2 DEF IInv, PoolAndMapAgree
  <2> QED
    BY <1>1, <1>2, <2>1 DEF Resting, Active
<1>4. totals \in [Sides -> [Prices -> 0 .. QuantityLimit - 1]]
  BY DEF IInv, TypeOK
<1>5. /\ orders \in [Slots -> OrderRecord \cup {BlankOrder}]
      /\ s \in Sides /\ r \in Prices /\ q \in Nat
      /\ orders[slot].side = s /\ orders[slot].price = r
  BY <1>0, <1>3, ActiveSlots, RecordsAreActive, IntegerTypes DEF IInv, TypeOK
<1>6. totals[s][r] \in Nat
  BY <1>4, <1>5, TotalIsNatural
<1>7. \A side \in Sides, p \in Prices :
        totals'[side][p] =
          IF side = s /\ p = r THEN Wrap(totals[s][r] - q) ELSE totals[side][p]
  <2> DEFINE n == totals[s][r] - q
  <2>1. n \in Int /\ totals' = [totals EXCEPT ![s][r] = Wrap(n)]
    BY <1>1, <1>5, <1>6
  <2> HIDE DEF n
  <2>2. \A side \in Sides, p \in Prices :
          totals'[side][p] = IF side = s /\ p = r THEN Wrap(n) ELSE totals[side][p]
    <3>1. s \in Sides /\ r \in Prices
      BY <1>5
    <3> QED
      BY <2>1, <3>1, <1>4, TotalOf
  <2> QED
    BY <2>2 DEF n
<1>8. /\ orders'[slot] = BlankOrder
      /\ \A t \in Slots \ {slot} : orders'[t] = orders[t]
  BY <1>1, <1>3, <1>5
<1>9. slot \notin Resting' /\ \A t \in Slots \ {slot} : t \in Resting <=> t \in Resting'
  BY <1>1, <1>8, RecordsAreActive DEF Resting, Active
<1>10. WantedAt(slot, s, r) = q
  BY <1>0, <1>3 DEF WantedAt, Residents
<1>11. WantedAt(slot, s, r)' = 0
  BY <1>9 DEF WantedAt, Residents
<1>12. totals[s][r] - q =
         totals[s][r] + (WantedAt(slot, s, r)' - WantedAt(slot, s, r))
  BY <1>5, <1>6, <1>10, <1>11
<1>13. \A t \in Resting \ {slot} : t \in Slots /\ orders'[t] = orders[t]
  BY <1>8 DEF Resting, Active
<1>14. /\ slot \in Slots /\ s \in Sides /\ r \in Prices
       /\ orders[slot].side = s /\ orders[slot].price = r
  BY <1>3, <1>5
<1> QED
  BY <1>7, <1>9, <1>12, <1>13, <1>14, TotalsAfter

LEMMA RestTotals ==
  ASSUME IInv, IInv', TotalsModuloWidth, Rest
  PROVE  TotalsModuloWidth'
<1> SUFFICES ASSUME NEW slot, NEW q, NEW s, NEW r,
                    slot = aggressor, q = orders[slot].remaining_quantity,
                    s = orders[slot].side, r = orders[slot].price
             PROVE  TotalsModuloWidth'
  OBVIOUS
<1>1. /\ slot # NoSlot /\ aggressor' = NoSlot
      /\ totals' = [totals EXCEPT ![s][r] = Wrap(@ + q)]
      /\ orders' = orders
  BY DEF Rest
<1>2. slot \in Active /\ slot \in Slots
  BY <1>1 DEF IInv, PoolAndMapAgree, Active
<1>3. /\ totals \in [Sides -> [Prices -> 0 .. QuantityLimit - 1]]
      /\ orders[slot] \in OrderRecord
  BY <1>2, ActiveSlots DEF IInv, TypeOK
<1>4. s \in Sides /\ r \in Prices /\ q \in Nat
  BY <1>3, RecordsAreActive, IntegerTypes
<1>5. totals[s][r] \in Nat
  BY <1>3, <1>4, TotalIsNatural
<1>6. \A side \in Sides, p \in Prices :
        totals'[side][p] =
          IF side = s /\ p = r THEN Wrap(totals[s][r] + q) ELSE totals[side][p]
  <2> DEFINE n == totals[s][r] + q
  <2>1. n \in Int /\ totals' = [totals EXCEPT ![s][r] = Wrap(n)]
    BY <1>1, <1>4, <1>5
  <2> HIDE DEF n
  <2>2. \A side \in Sides, p \in Prices :
          totals'[side][p] = IF side = s /\ p = r THEN Wrap(n) ELSE totals[side][p]
    BY <2>1, <1>3, <1>4, TotalOf
  <2> QED
    BY <2>2 DEF n
<1>7. Resting' = Resting \cup {slot} /\ slot \notin Resting
  BY <1>1, <1>2, SlotsAssumption DEF Resting, Active
<1>8. WantedAt(slot, s, r) = 0
  BY <1>7 DEF WantedAt, Residents
<1>9. WantedAt(slot, s, r)' = q
  BY <1>1, <1>7 DEF WantedAt, Residents
<1>10. totals[s][r] + q =
         totals[s][r] + (WantedAt(slot, s, r)' - WantedAt(slot, s, r))
  BY <1>4, <1>5, <1>8, <1>9
<1> QED
  BY <1>1, <1>2, <1>4, <1>6, <1>7, <1>10, TotalsAfter

(* The cached quantity of every level is what its orders still want,       *)
(* modulo the width of the counter, for any quantities, any width and any  *)
(* number of levels, after any fills and cancels (OrderBook.cpp:237-262,   *)
(* :333-340, :392-399).                                                    *)
THEOREM TotalsExact == Spec => []TotalsModuloWidth
<1>1. Init => TotalsModuloWidth
  <2> SUFFICES ASSUME Init, NEW side \in Sides, NEW p \in Prices
               PROVE  totals[side][p] = Wrap(LevelSum(side, p))
    BY DEF TotalsModuloWidth
  <2>1. levels[side][p] = <<>> /\ totals[side][p] = 0
    BY DEF Init
  <2>2. Range(levels[side][p]) = {}
    BY <2>1 DEF Range
  <2>3. LevelUnits(side, p) = {}
    BY <2>2 DEF LevelUnits
  <2>4. LevelSum(side, p) = 0
    BY <2>3, FS_EmptySet DEF LevelSum
  <2> QED
    BY <2>1, <2>4, QuantityAssumption DEF Wrap
<1>2. IInv /\ IInv' /\ TotalsModuloWidth /\ [Next]_vars => TotalsModuloWidth'
  <2> SUFFICES ASSUME IInv, IInv', TotalsModuloWidth, [Next]_vars
               PROVE  TotalsModuloWidth'
    OBVIOUS
  <2>1. ASSUME NEW c \in NewOrderCommand, NEW id \in OrderIds, Admit(c, id)
        PROVE  TotalsModuloWidth'
    <3>1. PICK slot \in free :
            /\ orders' = [orders EXCEPT ![slot] =
                 [active |-> TRUE, order_id |-> id, owner |-> c.owner, side |-> c.side,
                  price |-> c.price, remaining_quantity |-> c.quantity,
                  seq |-> arrivals']]
            /\ aggressor' = slot
      BY <2>1 DEF Admit
    <3>2. /\ slot \in Slots \ Active /\ aggressor = NoSlot /\ NoSlot \notin Slots
          /\ \A t \in Slots \ {slot} : orders'[t] = orders[t]
      BY <2>1, <3>1, SlotsAssumption DEF Admit, IInv, TypeOK, PoolAndMapAgree
    <3>3. Resting' = Resting /\ \A t \in Resting : orders'[t] = orders[t]
      BY <3>1, <3>2 DEF Resting, Active
    <3> QED
      BY <3>3, <2>1, TotalsKept DEF Admit
  <2>2. ASSUME UNCHANGED <<orders, aggressor, totals>>
        PROVE  TotalsModuloWidth'
    BY <2>2, TotalsKept DEF Resting, Active
  <2>3. CASE FillPartially \/ FillCompletely
    BY <2>3, FillTotals
  <2>4. CASE Rest
    BY <2>4, RestTotals
  <2>5. CASE FinishFilled
    <3>1. /\ aggressor \in Active
          /\ \A t \in Slots \ {aggressor} : orders'[t] = orders[t]
          /\ orders'[aggressor] = BlankOrder
          /\ aggressor' = NoSlot /\ NoSlot \notin Slots
      BY <2>5, SlotsAssumption DEF FinishFilled, IInv, TypeOK, PoolAndMapAgree, Active
    <3>2. Resting' = Resting /\ \A t \in Resting : orders'[t] = orders[t]
      BY <3>1, RecordsAreActive DEF Resting, Active
    <3> QED
      BY <3>2, <2>5, TotalsKept DEF FinishFilled
  <2>6. ASSUME NEW c \in CancelOrderCommand, Cancel(c)
        PROVE  TotalsModuloWidth'
    BY <2>6, CancelTotals
  <2>7. ASSUME NEW c \in NewOrderCommand, NEW id \in OrderIds, RejectNew(c, id)
        PROVE  TotalsModuloWidth'
    BY <2>2, <2>7 DEF RejectNew
  <2>8. ASSUME NEW c \in CancelOrderCommand, RejectCancel(c)
        PROVE  TotalsModuloWidth'
    BY <2>2, <2>8 DEF RejectCancel
  <2>9. CASE UNCHANGED vars
    BY <2>2, <2>9 DEF vars
  <2> QED
    BY <2>1, <2>3, <2>4, <2>5, <2>6, <2>7, <2>8, <2>9 DEF Next, ExecuteStep
<1> QED
  BY <1>1, <1>2, Invariance, PTL DEF Spec

-----------------------------------------------------------------------------
(* The work of the match loop is bounded                                   *)

LEMMA WantingShrinks ==
  ASSUME NEW t \in Wanting, Wanting' \subseteq Wanting \ {t},
         execution_count \in Nat, execution_count' \in Nat,
         arrivals \in Nat, arrivals' = arrivals,
         execution_count' <= execution_count + 1,
         ExecutionsUseUpOrders
  PROVE  ExecutionsUseUpOrders'
<1>1. Wanting \in SUBSET Slots
  BY DEF Wanting, Active
<1>2. IsFiniteSet(Wanting) /\ Cardinality(Wanting) \in Nat
  BY <1>1, FiniteSlots
<1>3. /\ IsFiniteSet(Wanting \ {t})
      /\ Cardinality(Wanting \ {t}) = Cardinality(Wanting) - 1
  BY <1>2, FS_RemoveElement
<1>4. /\ Cardinality(Wanting') <= Cardinality(Wanting \ {t})
      /\ Cardinality(Wanting') \in Nat
  BY <1>3, FS_Subset, FS_CardinalityType
<1> QED
  BY <1>2, <1>3, <1>4 DEF ExecutionsUseUpOrders

LEMMA WantingKept ==
  ASSUME Wanting' \subseteq Wanting,
         execution_count \in Nat, arrivals \in Nat,
         UNCHANGED <<execution_count, arrivals>>,
         ExecutionsUseUpOrders
  PROVE  ExecutionsUseUpOrders'
<1>1. Wanting \in SUBSET Slots
  BY DEF Wanting, Active
<1>2. IsFiniteSet(Wanting) /\ Cardinality(Wanting) \in Nat
  BY <1>1, FiniteSlots
<1>3. Cardinality(Wanting') <= Cardinality(Wanting) /\ Cardinality(Wanting') \in Nat
  BY <1>2, FS_Subset, FS_CardinalityType
<1> QED
  BY <1>2, <1>3 DEF ExecutionsUseUpOrders

(* Every execution uses up an order, so that the match loop runs at most   *)
(* once per order ever admitted, whatever the quantities are.              *)
THEOREM BoundedWork == Spec => []ExecutionsUseUpOrders
<1>1. Init => ExecutionsUseUpOrders
  <2> SUFFICES ASSUME Init PROVE ExecutionsUseUpOrders
    OBVIOUS
  <2>1. Wanting = {}
    BY DEF Init, Wanting, Active, BlankOrder
  <2> QED
    BY <2>1, FS_EmptySet DEF Init, ExecutionsUseUpOrders
<1>2. IInv /\ IInv' /\ ExecutionsUseUpOrders /\ [Next]_vars => ExecutionsUseUpOrders'
  <2> SUFFICES ASSUME IInv, IInv', ExecutionsUseUpOrders, [Next]_vars
               PROVE  ExecutionsUseUpOrders'
    OBVIOUS
  <2>0. /\ orders \in [Slots -> OrderRecord \cup {BlankOrder}]
        /\ execution_count \in Nat /\ execution_count' \in Nat
        /\ arrivals \in Nat /\ arrivals' \in Nat
    BY ArrivalsAssumption DEF IInv, TypeOK
  <2>1. ASSUME NEW c \in NewOrderCommand, NEW id \in OrderIds, Admit(c, id)
        PROVE  ExecutionsUseUpOrders'
    <3>1. PICK slot \in Slots : \A t \in Slots \ {slot} : orders'[t] = orders[t]
      BY <2>1, <2>0 DEF Admit, IInv, TypeOK
    <3>2. Wanting' \subseteq Wanting \cup {slot}
      BY <3>1 DEF Wanting, Active
    <3>3. Wanting \in SUBSET Slots
      BY DEF Wanting, Active
    <3>4. IsFiniteSet(Wanting) /\ Cardinality(Wanting) \in Nat
      BY <3>3, FiniteSlots
    <3>5. /\ IsFiniteSet(Wanting \cup {slot})
          /\ Cardinality(Wanting \cup {slot}) <= Cardinality(Wanting) + 1
      <4>1. /\ IsFiniteSet(Wanting \cup {slot})
            /\ Cardinality(Wanting \cup {slot}) =
                 IF slot \in Wanting THEN Cardinality(Wanting) ELSE Cardinality(Wanting) + 1
        BY <3>4, FS_AddElement
      <4> QED
        BY <4>1, <3>4
    <3>6. /\ Cardinality(Wanting') <= Cardinality(Wanting \cup {slot})
          /\ Cardinality(Wanting') \in Nat
          /\ Cardinality(Wanting \cup {slot}) \in Nat
      BY <3>2, <3>5, FS_Subset, FS_CardinalityType
    <3>7. arrivals' = arrivals + 1 /\ execution_count' = execution_count
      BY <2>1 DEF Admit
    <3> QED
      BY <3>4, <3>5, <3>6, <3>7, <2>0 DEF ExecutionsUseUpOrders
  <2>2. ASSUME UNCHANGED <<orders, execution_count, arrivals>>
        PROVE  ExecutionsUseUpOrders'
    BY <2>2 DEF ExecutionsUseUpOrders, Wanting, Active
  <2>3. ASSUME Execute(Standing, ExecutedQuantity),
               UNCHANGED arrivals,
               \/ FillPartially
               \/ FillCompletely
        PROVE  ExecutionsUseUpOrders'
    <3> DEFINE slot == Standing
               q == ExecutedQuantity
    <3>1. /\ aggressor # NoSlot
          /\ Marketable(orders[aggressor])
          /\ execution_count' = execution_count + 1
      BY <2>3 DEF Execute
    <3>2. /\ slot \in Resting /\ slot # aggressor
          /\ orders[slot] \in OrderRecord /\ orders[aggressor] \in OrderRecord
          /\ q \in Nat \ {0}
          /\ q <= orders[aggressor].remaining_quantity
          /\ q <= orders[slot].remaining_quantity
      BY <3>1, StandingOrder
    <3>3. /\ slot \in Active /\ slot \in Slots
          /\ aggressor \in Active /\ aggressor \in Slots
      BY <3>1, <3>2 DEF IInv, PoolAndMapAgree, Resting, Active
    <3>4. /\ orders[slot].remaining_quantity \in Nat
          /\ orders[aggressor].remaining_quantity \in Nat
      BY <3>2, RecordsAreActive, IntegerTypes
    <3>5. slot \in Wanting /\ aggressor \in Wanting
      BY <3>2, <3>3, <3>4 DEF Wanting
    <3>6. CASE FillPartially
      <4>1. /\ orders[slot].remaining_quantity # q
            /\ orders' = [orders EXCEPT ![aggressor].remaining_quantity = @ - q,
                                        ![slot].remaining_quantity = @ - q]
        BY <3>6 DEF FillPartially
      <4>2. q = orders[aggressor].remaining_quantity
        BY <4>1, <3>2, <3>4 DEF ExecutedQuantity, Lesser
      <4>3. /\ orders'[aggressor] = [orders[aggressor] EXCEPT !.remaining_quantity = @ - q]
            /\ \A t \in Slots \ {aggressor, slot} : orders'[t] = orders[t]
        BY <4>1, <2>0, <3>2, <3>3
      <4>4. orders'[aggressor].remaining_quantity = 0
        <5>1. orders'[aggressor].remaining_quantity =
                orders[aggressor].remaining_quantity - q
          BY <4>3, <3>2, ReducedRecord
        <5> QED
          BY <5>1, <4>2, <3>4
      <4>5. Wanting' \subseteq Wanting \ {aggressor}
        <5> SUFFICES ASSUME NEW t \in Wanting' PROVE t \in Wanting /\ t # aggressor
          OBVIOUS
        <5>1. t \in Slots /\ orders'[t].active /\ orders'[t].remaining_quantity > 0
          BY DEF Wanting, Active
        <5>2. t # aggressor
          BY <5>1, <4>4
        <5>3. t # slot => orders'[t] = orders[t]
          BY <5>1, <5>2, <4>3
        <5> QED
          BY <5>1, <5>2, <5>3, <3>5 DEF Wanting, Active
      <4> QED
        BY <4>5, <3>1, <3>5, <2>0, <2>3, WantingShrinks
    <3>7. CASE FillCompletely
      <4>1. orders' = [orders EXCEPT ![aggressor].remaining_quantity = @ - q,
                                     ![slot] = BlankOrder]
        BY <3>7 DEF FillCompletely
      <4>2. /\ orders'[slot] = BlankOrder
            /\ \A t \in Slots \ {aggressor, slot} : orders'[t] = orders[t]
        BY <4>1, <2>0, <3>2, <3>3
      <4>3. Wanting' \subseteq Wanting \ {slot}
        BY <4>2, <3>5, RecordsAreActive DEF Wanting, Active
      <4> QED
        BY <4>3, <3>1, <3>5, <2>0, <2>3, WantingShrinks
    <3> QED
      BY <2>3, <3>6, <3>7
  <2>4. CASE FillPartially
    BY <2>3, <2>4 DEF FillPartially
  <2>5. CASE FillCompletely
    BY <2>3, <2>5 DEF FillCompletely
  <2>6. ASSUME NEW slot \in Slots,
               orders' = [orders EXCEPT ![slot] = BlankOrder],
               UNCHANGED <<execution_count, arrivals>>
        PROVE  ExecutionsUseUpOrders'
    <3>1. Wanting' \subseteq Wanting
      BY <2>6, <2>0, RecordsAreActive DEF Wanting, Active
    <3> QED
      BY <3>1, <2>0, <2>6, WantingKept
  <2>7. CASE FinishFilled
    BY <2>6, <2>7 DEF FinishFilled, IInv, TypeOK
  <2>8. ASSUME NEW c \in CancelOrderCommand, Cancel(c)
        PROVE  ExecutionsUseUpOrders'
    <3>1. orders_by_id[c.order_id] \in Slots
      BY <2>8 DEF Cancel, CancelRefusal, CancelOrderCommand, IInv, TypeOK
    <3> QED
      BY <3>1, <2>6, <2>8 DEF Cancel
  <2>9. CASE Rest
    BY <2>2, <2>9 DEF Rest
  <2>10. ASSUME NEW c \in NewOrderCommand, NEW id \in OrderIds, RejectNew(c, id)
         PROVE  ExecutionsUseUpOrders'
    BY <2>2, <2>10 DEF RejectNew
  <2>11. ASSUME NEW c \in CancelOrderCommand, RejectCancel(c)
         PROVE  ExecutionsUseUpOrders'
    BY <2>2, <2>11 DEF RejectCancel
  <2>12. CASE UNCHANGED vars
    BY <2>2, <2>12 DEF vars
  <2> QED
    BY <2>1, <2>4, <2>5, <2>7, <2>8, <2>9, <2>10, <2>11, <2>12 DEF Next, ExecuteStep
<1> QED
  BY <1>1, <1>2, Invariance, PTL DEF Spec

-----------------------------------------------------------------------------
(* The refinement: each step of the book is a step price-time priority     *)
(* allows.  First the mapping, which sends a slot to its order.            *)

(* No two slots hold the same order: an order's id leads to its slot.      *)
LEMMA DistinctOrders ==
  ASSUME IInv, NEW s \in Active, NEW t \in Active,
         Abstracted(orders[s]) = Abstracted(orders[t])
  PROVE  s = t
<1>1. orders[s].order_id = orders[t].order_id
  BY DEF Abstracted
<1> QED
  BY <1>1 DEF IInv, PoolAndMapAgree

(* The abstract book counts with the same operator.                        *)
LEMMA SameCardinality ==
  ASSUME NEW S
  PROVE  PTP!Cardinality(S) = Cardinality(S)
BY Zenon DEF Cardinality, PTP!Cardinality

LEMMA BookSize ==
  ASSUME IInv
  PROVE  Cardinality(AbstractBook) = Cardinality(Resting)
<1> DEFINE f == [t \in Resting |-> Abstracted(orders[t])]
<1>1. f \in [Resting -> AbstractBook] /\ \A t \in Resting : f[t] = Abstracted(orders[t])
  BY DEF AbstractBook
<1>2. \A s, t \in Resting : f[s] = f[t] => s = t
  BY <1>1, DistinctOrders DEF Resting
<1>3. \A o \in AbstractBook : \E t \in Resting : f[t] = o
  BY <1>1 DEF AbstractBook
<1> HIDE DEF f
<1>4. f \in Bijection(Resting, AbstractBook)
  BY <1>1, <1>2, <1>3, Fun_IsBij
<1>5. IsFiniteSet(Resting)
  BY FiniteSlots DEF Resting, Active
<1>6. ExistsBijection(Resting, AbstractBook)
  BY <1>4 DEF ExistsBijection
<1> QED
  BY <1>5, <1>6, FS_Bijection

(* Between commands every order in the pool is in the book.                *)
LEMMA BetweenCommands ==
  ASSUME IInv, aggressor = NoSlot
  PROVE  Resting = Active /\ AbstractIncoming = {}
BY SlotsAssumption DEF Resting, Active, AbstractIncoming

LEMMA IncomingOrder ==
  ASSUME IInv, aggressor # NoSlot
  PROVE  /\ AbstractIncoming = {Abstracted(orders[aggressor])}
         /\ orders[aggressor] \in OrderRecord
         /\ aggressor \in Active
<1>1. {aggressor} \ {NoSlot} = {aggressor}
  OBVIOUS
<1> QED
  BY <1>1, ActiveSlots DEF AbstractIncoming, IInv, PoolAndMapAgree, TypeOK

(* While a slot is free the book has room, and so has the map.             *)
LEMMA RoomInBook ==
  ASSUME IInv, aggressor = NoSlot, free # {}
  PROVE  /\ Cardinality(AbstractBook) < Cardinality(Slots)
         /\ Cardinality({i \in OrderIds : orders_by_id[i] # NoSlot}) # LookupCapacity
<1>1. Active \in SUBSET Slots /\ Active # Slots
  BY DEF Active, IInv, PoolAndMapAgree
<1>2. /\ Cardinality(Active) \in Nat /\ Cardinality(Slots) \in Nat
      /\ IsFiniteSet(Active) /\ IsFiniteSet(Slots)
  BY <1>1, FiniteSlots
<1>3. Cardinality(Active) < Cardinality(Slots)
  BY <1>1, <1>2, FS_Subset, SlotsAssumption
<1>4. Cardinality(AbstractBook) = Cardinality(Active)
  BY BookSize, BetweenCommands
<1> DEFINE mapped == {i \in OrderIds : orders_by_id[i] # NoSlot}
           g == [t \in Active |-> orders[t].order_id]
<1>5. g \in [Active -> mapped] /\ \A t \in Active : g[t] = orders[t].order_id
  <2>1. ASSUME NEW t \in Active PROVE orders[t].order_id \in mapped
    <3>1. orders[t].order_id \in OrderIds
      BY ActiveSlots, RecordsAreActive DEF IInv, TypeOK
    <3>2. orders_by_id[orders[t].order_id] = t /\ t # NoSlot
      BY <1>1, SlotsAssumption DEF IInv, PoolAndMapAgree
    <3> QED
      BY <3>1, <3>2
  <2> QED
    BY <2>1
<1>6. \A s, t \in Active : g[s] = g[t] => s = t
  BY <1>5 DEF IInv, PoolAndMapAgree
<1>7. \A i \in mapped : \E t \in Active : g[t] = i
  BY <1>5 DEF IInv, PoolAndMapAgree
<1> HIDE DEF g
<1>8. g \in Bijection(Active, mapped)
  BY <1>5, <1>6, <1>7, Fun_IsBij
<1>9. Cardinality(mapped) = Cardinality(Active)
  BY <1>2, <1>8, FS_Bijection DEF ExistsBijection
<1> QED
  BY <1>2, <1>3, <1>4, <1>9, LookupAssumption

-----------------------------------------------------------------------------
(* Executions *)

(* What an order of the book stands for, field by field.                   *)
LEMMA AbstractFields ==
  ASSUME NEW o
  PROVE  /\ Abstracted(o).order_id = o.order_id /\ Abstracted(o).arrival = o.seq
         /\ Abstracted(o).owner = o.owner /\ Abstracted(o).side = o.side
         /\ Abstracted(o).price = o.price
         /\ Abstracted(o).quantity = o.remaining_quantity
BY DEF Abstracted

LEMMA Comparisons ==
  ASSUME NEW a \in Prices, NEW b \in Prices
  PROVE  /\ Better("Buy", a, b) <=> a > b
         /\ Better("Sell", a, b) <=> a < b
         /\ ~Better("Buy", a, b) <=> a <= b
         /\ ~Better("Sell", a, b) <=> a >= b
         /\ a # b => a < b \/ a > b
BY IntegerTypes DEF Better, Prices

(* If the order being executed can trade with any order at all, the cached *)
(* best price of the other side shows it, and is no worse than that        *)
(* order's price.                                                          *)
LEMMA Partners ==
  ASSUME IInv, aggressor # NoSlot, NEW t \in Resting,
         PTP!CanTrade(Abstracted(orders[aggressor]), Abstracted(orders[t]))
  PROVE  /\ orders[t] \in OrderRecord
         /\ orders[t].side = StandingSide
         /\ best[StandingSide] \in Prices
         /\ ~Better(StandingSide, orders[t].price, best[StandingSide])
         /\ orders[aggressor].remaining_quantity > 0 => Marketable(orders[aggressor])
<1> DEFINE o == orders[aggressor]
           r == orders[t]
<1>1. o \in OrderRecord /\ r \in OrderRecord /\ t \in Active
  BY IncomingOrder, ActiveSlots DEF Resting, IInv, TypeOK
<1>2. /\ o.side \in Sides /\ o.price \in Prices
      /\ r.side \in Sides /\ r.price \in Prices
  BY <1>1, RecordsAreActive
<1>3. \/ o.side = "Buy" /\ r.side = "Sell" /\ o.price >= r.price
      \/ o.side = "Sell" /\ r.side = "Buy" /\ o.price <= r.price
  BY AbstractFields DEF PTP!CanTrade
<1>4. r.side = StandingSide /\ StandingSide \in Sides
  BY <1>2, <1>3 DEF StandingSide, Opposite, Sides
<1>5. r.price \in NonEmptyPrices(StandingSide)
  <2>1. PICK i \in Entries(r.side, r.price) : levels[r.side][r.price][i] = t
    BY DEF IInv, LevelsHoldRestingOrders
  <2>2. levels[r.side][r.price] # <<>>
    BY <2>1 DEF Entries
  <2> QED
    BY <1>2, <1>4, <2>2 DEF NonEmptyPrices
<1>6. /\ best[StandingSide] # NoPrice
      /\ best[StandingSide] \in NonEmptyPrices(StandingSide)
      /\ ~Better(StandingSide, r.price, best[StandingSide])
  BY <1>4, <1>5 DEF IInv, BestPricesCurrent
<1>7. best[StandingSide] \in Prices
  BY <1>6 DEF NonEmptyPrices
<1>8. ~Better(o.side, best[StandingSide], o.price)
  <2>1. CASE o.side = "Buy" /\ r.side = "Sell" /\ o.price >= r.price
    <3>1. best[StandingSide] <= r.price
      BY <1>2, <1>4, <1>6, <1>7, <2>1, Comparisons
    <3>2. best[StandingSide] <= o.price
      BY <1>2, <1>7, <2>1, <3>1 DEF Prices
    <3> QED
      BY <1>2, <1>7, <2>1, <3>2, Comparisons
  <2>2. CASE o.side = "Sell" /\ r.side = "Buy" /\ o.price <= r.price
    <3>1. best[StandingSide] >= r.price
      BY <1>2, <1>4, <1>6, <1>7, <2>2, Comparisons
    <3>2. best[StandingSide] >= o.price
      BY <1>2, <1>7, <2>2, <3>1 DEF Prices
    <3> QED
      BY <1>2, <1>7, <2>2, <3>2, Comparisons
  <2> QED
    BY <1>3, <2>1, <2>2
<1> QED
  BY <1>1, <1>4, <1>6, <1>7, <1>8 DEF Marketable, StandingSide

(* The order the match loop finds can trade, and has priority over every   *)
(* other one that can: it is the oldest of the level of the best price.    *)
LEMMA StandingHasPriority ==
  ASSUME IInv, aggressor # NoSlot, Marketable(orders[aggressor])
  PROVE  /\ PTP!CanTrade(Abstracted(orders[aggressor]), Abstracted(orders[Standing]))
         /\ \A t \in Resting \ {Standing} :
              PTP!CanTrade(Abstracted(orders[aggressor]), Abstracted(orders[t])) =>
                PTP!HasPriority(Abstracted(orders[Standing]), Abstracted(orders[t]))
<1> DEFINE o == orders[aggressor]
           r == orders[Standing]
           p == best[StandingSide]
<1>1. /\ StandingSide \in Sides /\ p \in Prices
      /\ Standing \in Resting
      /\ r \in OrderRecord /\ o \in OrderRecord
      /\ r.side = StandingSide /\ r.price = p
  BY StandingOrder
<1>2. o.side \in Sides /\ o.price \in Prices
  BY <1>1, RecordsAreActive
<1>3. PTP!CanTrade(Abstracted(o), Abstracted(r))
  <2>1. ~Better(o.side, p, o.price)
    BY DEF Marketable, StandingSide
  <2>2. \/ o.side = "Buy" /\ r.side = "Sell"
        \/ o.side = "Sell" /\ r.side = "Buy"
    BY <1>1, <1>2 DEF StandingSide, Opposite, Sides
  <2>3. \/ o.side = "Buy" /\ r.side = "Sell" /\ o.price >= r.price
        \/ o.side = "Sell" /\ r.side = "Buy" /\ o.price <= r.price
    BY <1>1, <1>2, <2>1, <2>2, Comparisons
  <2> QED
    BY <2>3, AbstractFields DEF PTP!CanTrade
<1>4. ASSUME NEW t \in Resting \ {Standing},
             PTP!CanTrade(Abstracted(o), Abstracted(orders[t]))
      PROVE  PTP!HasPriority(Abstracted(r), Abstracted(orders[t]))
  <2>1. /\ orders[t] \in OrderRecord
        /\ orders[t].side = StandingSide
        /\ ~Better(StandingSide, orders[t].price, p)
    BY <1>4, Partners
  <2>2. orders[t].price \in Prices
    BY <2>1, RecordsAreActive
  <2>3. CASE orders[t].price # p
    <3>1. \/ r.side = "Buy" /\ r.price > orders[t].price
          \/ r.side = "Sell" /\ r.price < orders[t].price
      BY <1>1, <2>1, <2>2, <2>3, Comparisons DEF Sides
    <3> QED
      BY <3>1, AbstractFields DEF PTP!HasPriority
  <2>4. CASE orders[t].price = p
    <3> DEFINE queue == levels[StandingSide][p]
    <3>1. PICK i \in Entries(StandingSide, p) : queue[i] = t
      BY <2>1, <2>4 DEF IInv, LevelsHoldRestingOrders
    <3>2. queue \in Seq(Slots)
      BY <1>1 DEF IInv, TypeOK
    <3>3. queue # <<>> /\ i \in 1 .. Len(queue) /\ Len(queue) \in Nat
      BY <3>1, <3>2, LenProperties DEF Entries
    <3>4. Standing = queue[1] /\ 1 \in Entries(StandingSide, p)
      BY <3>2, <3>3, LenProperties DEF Standing, FrontOrder, Entries
    <3>5. i # 1
      BY <3>1, <3>4
    <3>6. 1 < i
      BY <3>3, <3>5
    <3>7. r.seq < orders[t].seq
      BY <1>1, <3>1, <3>4, <3>6 DEF IInv, ArrivalOrder
    <3> QED
      BY <1>1, <2>4, <3>7, AbstractFields DEF PTP!HasPriority
  <2> QED
    BY <2>3, <2>4
<1> QED
  BY <1>3, <1>4

LEMMA AbstractReduced ==
  ASSUME NEW o \in OrderRecord, NEW q \in Nat, q <= o.remaining_quantity
  PROVE  LET left == [o EXCEPT !.remaining_quantity = @ - q]
         IN  /\ Abstracted(left) = [Abstracted(o) EXCEPT !.quantity = @ - q]
             /\ Abstracted(left).quantity = o.remaining_quantity - q
BY ReducedRecord DEF Abstracted

(* The book after a step that changes, or takes out, the order of one slot *)
(* only.                                                                   *)
LEMMA BookAfter ==
  ASSUME IInv, NEW slot \in Resting,
         Resting' \ {slot} = Resting \ {slot},
         \A t \in Resting \ {slot} : orders'[t] = orders[t]
  PROVE  AbstractBook' =
           (AbstractBook \ {Abstracted(orders[slot])})
             \cup {Abstracted(orders'[t]) : t \in {slot} \cap Resting'}
<1> DEFINE others == {Abstracted(orders[t]) : t \in Resting \ {slot}}
<1>1. AbstractBook \ {Abstracted(orders[slot])} = others
  <2>1. ASSUME NEW t \in Resting \ {slot}
        PROVE  Abstracted(orders[t]) # Abstracted(orders[slot])
    BY DistinctOrders DEF Resting
  <2> QED
    BY <2>1 DEF AbstractBook
<1>2. AbstractBook' = {Abstracted(orders'[t]) : t \in Resting'}
  BY DEF AbstractBook, Abstracted
<1>3. Resting' = (Resting \ {slot}) \cup ({slot} \cap Resting')
  OBVIOUS
<1>4. {Abstracted(orders'[t]) : t \in Resting \ {slot}} = others
  OBVIOUS
<1> QED
  BY <1>1, <1>2, <1>3, <1>4

(* The resting orders are those whose slot is neither free nor being       *)
(* executed.                                                               *)
LEMMA RestingByFree ==
  (IInv => Resting = Slots \ (free \cup {aggressor}))
    /\ (IInv' => Resting' = Slots \ (free' \cup {aggressor'}))
BY DEF IInv, PoolAndMapAgree, Resting, Active

(* An execution as the match loop makes it is the trade the abstract book  *)
(* asks for.                                                               *)
LEMMA TradeStep ==
  ASSUME IInv, Execute(Standing, ExecutedQuantity),
         orders'[aggressor] =
           [orders[aggressor] EXCEPT !.remaining_quantity = @ - ExecutedQuantity],
         Resting' \ {Standing} = Resting \ {Standing},
         \A t \in Resting \ {Standing} : orders'[t] = orders[t],
         Standing \in Resting' <=> orders[Standing].remaining_quantity # ExecutedQuantity,
         Standing \in Resting' =>
           orders'[Standing] =
             [orders[Standing] EXCEPT !.remaining_quantity = @ - ExecutedQuantity],
         UNCHANGED <<aggressor, arrivals>>
  PROVE  PTP!Trade
<1> DEFINE o == Abstracted(orders[aggressor])
           r == Abstracted(orders[Standing])
           q == ExecutedQuantity
           left == [o EXCEPT !.quantity = @ - q]
           stands == [r EXCEPT !.quantity = @ - q]
<1>1. aggressor # NoSlot /\ Marketable(orders[aggressor])
  BY DEF Execute
<1>2. /\ Standing \in Resting
      /\ orders[Standing] \in OrderRecord /\ orders[aggressor] \in OrderRecord
      /\ q \in Nat \ {0}
      /\ q <= orders[aggressor].remaining_quantity
      /\ q <= orders[Standing].remaining_quantity
      /\ orders[Standing].price = best[StandingSide]
  BY <1>1, StandingOrder
<1>3. /\ orders[aggressor].remaining_quantity \in Nat
      /\ orders[Standing].remaining_quantity \in Nat
  BY <1>2, RecordsAreActive, IntegerTypes
<1>4. AbstractIncoming = {o} /\ r \in AbstractBook
  BY <1>1, <1>2, IncomingOrder DEF AbstractBook
<1>5. o.quantity > 0
  BY <1>1, AbstractFields DEF Marketable
<1>6. PTP!CanTrade(o, r)
  BY <1>1, StandingHasPriority
<1>7. ASSUME NEW t \in AbstractBook \ {r}, PTP!CanTrade(o, t)
      PROVE  PTP!HasPriority(r, t)
  <2>1. PICK slot \in Resting : t = Abstracted(orders[slot])
    BY DEF AbstractBook
  <2>2. slot # Standing
    BY <2>1, <1>7
  <2> QED
    BY <1>1, <1>7, <2>1, <2>2, StandingHasPriority
<1>8. q = PTP!Lesser(o.quantity, r.quantity)
  BY AbstractFields DEF ExecutedQuantity, Lesser, PTP!Lesser
<1>9. /\ Abstracted([orders[aggressor] EXCEPT !.remaining_quantity = @ - q]) = left
      /\ Abstracted([orders[Standing] EXCEPT !.remaining_quantity = @ - q]) = stands
      /\ stands.quantity = orders[Standing].remaining_quantity - q
      /\ left.quantity = orders[aggressor].remaining_quantity - q
  <2> HIDE DEF q
  <2>1. q \in Nat
    BY <1>2
  <2>2. ASSUME NEW t \in {aggressor, Standing}
        PROVE  LET reduced == [orders[t] EXCEPT !.remaining_quantity = @ - q]
               IN  /\ Abstracted(reduced) = [Abstracted(orders[t]) EXCEPT !.quantity = @ - q]
                   /\ Abstracted(reduced).quantity = orders[t].remaining_quantity - q
    <3>1. orders[t] \in OrderRecord /\ q <= orders[t].remaining_quantity
      BY <1>2
    <3> QED
      BY <2>1, <3>1, AbstractReduced
  <2> QED
    BY <2>2
<1>10. AbstractIncoming' = {left}
  <2>1. AbstractIncoming' = {Abstracted(orders'[t]) : t \in {aggressor} \ {NoSlot}}
    BY DEF AbstractIncoming, Abstracted
  <2> QED
    BY <1>1, <1>9, <2>1
<1>11. AbstractBook' = (AbstractBook \ {r}) \cup {t \in {stands} : t.quantity > 0}
  <2>1. stands.quantity > 0 <=> Standing \in Resting'
    <3>1. stands.quantity = orders[Standing].remaining_quantity - q
      BY <1>9
    <3>2. Standing \in Resting' <=> orders[Standing].remaining_quantity # q
      OBVIOUS
    <3>3. q \in Nat /\ q <= orders[Standing].remaining_quantity
      BY <1>2
    <3> HIDE DEF q, stands
    <3> QED
      BY <1>3, <3>1, <3>2, <3>3
  <2>2. {Abstracted(orders'[t]) : t \in {Standing} \cap Resting'}
          = {t \in {stands} : t.quantity > 0}
    <3>1. Standing \in Resting' => Abstracted(orders'[Standing]) = stands
      BY <1>9
    <3> HIDE DEF stands
    <3> QED
      BY <2>1, <3>1
  <2>3. AbstractBook' = (AbstractBook \ {r}) \cup
          {Abstracted(orders'[t]) : t \in {Standing} \cap Resting'}
    BY <1>2, BookAfter
  <2> QED
    BY <2>2, <2>3
<1>12. output' = PTP!Execution(left, stands, r.price, q)
  <2>1. output' = Execution(orders[aggressor], orders[Standing], q)
    BY DEF Execute
  <2>2. /\ left.order_id = orders[aggressor].order_id
        /\ stands.order_id = orders[Standing].order_id
        /\ r.price = orders[Standing].price
    BY DEF Abstracted
  <2> QED
    BY <1>9, <2>1, <2>2 DEF Execution, PTP!Execution
<1> HIDE DEF o, r, q, left, stands
<1> QED
  BY <1>4, <1>5, <1>6, <1>7, <1>8, <1>10, <1>11, <1>12
     DEF PTP!Trade, left, stands

LEMMA PartialFillIsTrade ==
  ASSUME IInv, FillPartially
  PROVE  PTP!Trade
<1> DEFINE left(t) == [orders[t] EXCEPT !.remaining_quantity = @ - ExecutedQuantity]
<1>1. /\ Execute(Standing, ExecutedQuantity)
      /\ orders[Standing].remaining_quantity # ExecutedQuantity
      /\ orders' = [orders EXCEPT
           ![aggressor].remaining_quantity = @ - ExecutedQuantity,
           ![Standing].remaining_quantity = @ - ExecutedQuantity]
      /\ UNCHANGED <<free, aggressor, arrivals>>
  BY DEF FillPartially
<1>2. /\ Standing \in Resting /\ Standing # aggressor
      /\ Standing \in Slots /\ aggressor \in Slots
  BY <1>1, StandingOrder DEF Execute, IInv, TypeOK, Resting, Active
<1>3. /\ orders'[aggressor] = left(aggressor)
      /\ orders'[Standing] = left(Standing)
      /\ \A t \in Slots \ {Standing, aggressor} : orders'[t] = orders[t]
  BY <1>1, <1>2 DEF IInv, TypeOK
<1>4. Resting' = Resting
  BY <1>1, FillPartiallyInv, RestingByFree
<1>5. \A t \in Resting \ {Standing} : orders'[t] = orders[t]
  BY <1>3 DEF Resting, Active
<1> QED
  BY <1>1, <1>2, <1>3, <1>4, <1>5, TradeStep

LEMMA CompleteFillIsTrade ==
  ASSUME IInv, FillCompletely
  PROVE  PTP!Trade
<1> DEFINE left(t) == [orders[t] EXCEPT !.remaining_quantity = @ - ExecutedQuantity]
<1>1. /\ Execute(Standing, ExecutedQuantity)
      /\ orders[Standing].remaining_quantity = ExecutedQuantity
      /\ orders' = [orders EXCEPT
           ![aggressor].remaining_quantity = @ - ExecutedQuantity,
           ![Standing] = BlankOrder]
      /\ free' = free \cup {Standing}
      /\ UNCHANGED <<aggressor, arrivals>>
  BY DEF FillCompletely, Depart
<1>2. /\ Standing \in Resting /\ Standing # aggressor
      /\ Standing \in Slots /\ aggressor \in Slots
  BY <1>1, StandingOrder DEF Execute, IInv, TypeOK, Resting, Active
<1>3. /\ orders'[aggressor] = left(aggressor)
      /\ \A t \in Slots \ {Standing, aggressor} : orders'[t] = orders[t]
  BY <1>1, <1>2 DEF IInv, TypeOK
<1>4. Resting' = Resting \ {Standing}
  BY <1>1, FillCompletelyInv, RestingByFree
<1>5. \A t \in Resting \ {Standing} : orders'[t] = orders[t]
  BY <1>3 DEF Resting, Active
<1> QED
  BY <1>1, <1>2, <1>3, <1>4, <1>5, TradeStep

-----------------------------------------------------------------------------
(* The other actions *)

LEMMA RestIsRest ==
  ASSUME IInv, Rest
  PROVE  PTP!Rest
<1> DEFINE o == Abstracted(orders[aggressor])
<1>1. /\ aggressor # NoSlot
      /\ orders[aggressor].remaining_quantity > 0
      /\ ~Marketable(orders[aggressor])
      /\ aggressor' = NoSlot
      /\ output' = Rested(orders[aggressor])
      /\ UNCHANGED <<orders, arrivals>>
  BY DEF Rest
<1>2. AbstractIncoming = {o} /\ aggressor \in Active
  BY <1>1, IncomingOrder
<1>3. o.quantity > 0
  BY <1>1, AbstractFields
<1>4. ASSUME NEW r \in AbstractBook PROVE ~PTP!CanTrade(o, r)
  <2>1. PICK t \in Resting : r = Abstracted(orders[t])
    BY DEF AbstractBook
  <2> QED
    BY <1>1, <2>1, Partners
<1>5. Resting' = Resting \cup {aggressor}
  BY <1>1, <1>2, SlotsAssumption DEF Resting, Active
<1>6. AbstractBook' = AbstractBook \cup {o}
  BY <1>1, <1>5 DEF AbstractBook, Abstracted
<1>7. AbstractIncoming' = {}
  BY <1>1 DEF AbstractIncoming
<1>8. output' = PTP!Rested(o.order_id, o.quantity)
  BY <1>1, AbstractFields DEF Rested, PTP!Rested
<1> HIDE DEF o
<1> QED
  BY <1>1, <1>2, <1>3, <1>4, <1>6, <1>7, <1>8 DEF PTP!Rest

LEMMA FinishFilledIsComplete ==
  ASSUME IInv, FinishFilled
  PROVE  PTP!Complete
<1> DEFINE o == Abstracted(orders[aggressor])
<1>1. /\ aggressor # NoSlot
      /\ orders[aggressor].remaining_quantity = 0
      /\ orders' = [orders EXCEPT ![aggressor] = BlankOrder]
      /\ free' = free \cup {aggressor}
      /\ aggressor' = NoSlot
      /\ output' = Filled(orders[aggressor].order_id)
      /\ UNCHANGED arrivals
  BY DEF FinishFilled
<1>2. AbstractIncoming = {o}
  BY <1>1, IncomingOrder
<1>3. o.quantity = 0
  BY <1>1, AbstractFields
<1>4. Resting' = Resting
  BY <1>1, FinishFilledInv, RestingByFree, SlotsAssumption
<1>5. \A t \in Resting : orders'[t] = orders[t]
  BY <1>1 DEF Resting, Active, IInv, TypeOK
<1>6. UNCHANGED AbstractBook
  BY <1>4, <1>5 DEF AbstractBook, Abstracted
<1>7. AbstractIncoming' = {}
  BY <1>1 DEF AbstractIncoming
<1>8. output' = PTP!Filled(o.order_id)
  BY <1>1, AbstractFields DEF Filled, PTP!Filled
<1> HIDE DEF o
<1> QED
  BY <1>1, <1>2, <1>3, <1>6, <1>7, <1>8 DEF PTP!Complete

LEMMA AdmitIsAccept ==
  ASSUME IInv, NEW c \in NewOrderCommand, NEW id \in OrderIds, Admit(c, id)
  PROVE  PTP!Next
<1>1. PICK slot \in free :
         /\ orders' = [orders EXCEPT ![slot] =
              [active |-> TRUE, order_id |-> id, owner |-> c.owner, side |-> c.side,
               price |-> c.price, remaining_quantity |-> c.quantity, seq |-> arrivals']]
         /\ free' = free \ {slot}
         /\ aggressor' = slot
  BY DEF Admit
<1>2. /\ aggressor = NoSlot
      /\ AdmitRefusal(c, id) = "None"
      /\ arrivals' = arrivals + 1
      /\ output' = Admitted(id)
  BY DEF Admit
<1>3. AbstractIncoming = {}
  BY <1>2, BetweenCommands
<1>4. ASSUME NEW r \in AbstractBook PROVE r.order_id # id
  <2>1. PICK t \in Resting : r = Abstracted(orders[t])
    BY DEF AbstractBook
  <2>2. t \in Slots /\ orders_by_id[orders[t].order_id] = t
    BY DEF Resting, Active, IInv, PoolAndMapAgree
  <2>3. orders_by_id[id] = NoSlot
    BY <1>2 DEF AdmitRefusal
  <2> QED
    BY <2>1, <2>2, <2>3, AbstractFields, SlotsAssumption
<1>5. Cardinality(AbstractBook) < Cardinality(Slots)
  BY <1>1, <1>2, RoomInBook
<1>6. slot \in Slots /\ slot \notin Resting /\ slot # NoSlot
  BY <1>1, SlotsAssumption DEF IInv, PoolAndMapAgree, Resting
<1>7. /\ orders'[slot] =
           [active |-> TRUE, order_id |-> id, owner |-> c.owner, side |-> c.side,
            price |-> c.price, remaining_quantity |-> c.quantity, seq |-> arrivals']
      /\ \A t \in Slots \ {slot} : orders'[t] = orders[t]
  BY <1>1, <1>6 DEF IInv, TypeOK
<1>8. AbstractIncoming' =
        {[order_id |-> id, arrival |-> arrivals', owner |-> c.owner, side |-> c.side,
          price |-> c.price, quantity |-> c.quantity]}
  <2>1. AbstractIncoming' = {Abstracted(orders'[t]) : t \in {slot}}
    BY <1>1, <1>6 DEF AbstractIncoming, Abstracted
  <2> QED
    BY <1>7, <2>1 DEF Abstracted
<1>9. UNCHANGED AbstractBook
  <2>1. Resting' = Resting
    BY <1>1, <1>2, <1>6, AdmitInv, RestingByFree, SlotsAssumption
  <2>2. \A t \in Resting : orders'[t] = orders[t]
    BY <1>6, <1>7 DEF Resting, Active
  <2> QED
    BY <2>1, <2>2 DEF AbstractBook, Abstracted
<1>10. PTP!Accept(id, c.owner, c.side, c.price, c.quantity)
  <2>1. output' = PTP!Admitted(id)
    BY <1>2 DEF Admitted, PTP!Admitted
  <2> QED
    BY <1>2, <1>3, <1>4, <1>5, <1>8, <1>9, <2>1, SameCardinality DEF PTP!Accept
<1>11. /\ c.owner \in Owners /\ c.side \in {"Buy", "Sell"}
       /\ c.price \in Prices /\ c.quantity \in OfferedQuantities \ {0}
  <2>1. /\ c.owner \in Owners /\ c.side \in Sides
        /\ c.price \in 0 .. PriceLevelCount /\ c.quantity \in OfferedQuantities
    BY DEF NewOrderCommand
  <2>2. c.quantity # 0 /\ ~(c.price >= PriceLevelCount)
    BY <1>2 DEF AdmitRefusal
  <2> QED
    BY <2>1, <2>2, LevelsAssumption DEF Sides, Prices
<1> QED
  BY <1>10, <1>11 DEF PTP!Next

(* A refusal, and a step that changes nothing the abstract book shows.     *)
LEMMA StateKept ==
  ASSUME UNCHANGED <<orders, aggressor, arrivals>>
  PROVE  UNCHANGED <<AbstractBook, AbstractIncoming, arrivals>>
BY DEF AbstractBook, AbstractIncoming, Abstracted, Resting, Active

LEMMA RejectNewIsRefuseNew ==
  ASSUME IInv, NEW c \in NewOrderCommand, NEW id \in OrderIds, RejectNew(c, id)
  PROVE  PTP!Next
<1> DEFINE reason == AdmitRefusal(c, id)
<1>1. /\ aggressor = NoSlot /\ reason # "None"
      /\ output' = Rejected(reason)
      /\ UNCHANGED <<orders, aggressor, arrivals>>
  BY DEF RejectNew
<1>2. /\ AbstractIncoming = {} /\ Resting = Active
  BY <1>1, BetweenCommands
<1>3. ASSUME reason = "CapacityExhausted"
      PROVE  Cardinality(AbstractBook) = Cardinality(Slots)
  <2>1. free = {}
    BY <1>1, <1>3, RoomInBook DEF AdmitRefusal
  <2>2. Resting = Slots
    <3>1. free = Slots \ Active /\ Active \subseteq Slots
      BY DEF IInv, PoolAndMapAgree, Active
    <3> QED
      BY <1>2, <2>1, <3>1
  <2> QED
    BY <2>2, BookSize
<1>4. ASSUME reason = "MatchingEngineError"
      PROVE  \E r \in AbstractBook : r.order_id = id
  <2>1. orders_by_id[id] # NoSlot
    BY <1>4 DEF AdmitRefusal
  <2>2. /\ orders_by_id[id] \in Resting
        /\ orders[orders_by_id[id]].order_id = id
    BY <1>2, <2>1 DEF IInv, PoolAndMapAgree
  <2> QED
    BY <2>2, AbstractFields DEF AbstractBook
<1>5. reason \in {"UnknownSymbol", "InvalidQuantity", "InvalidPrice",
                  "CapacityExhausted", "MatchingEngineError"}
  BY <1>1 DEF AdmitRefusal
<1>6. output' = PTP!Rejected(reason)
  BY <1>1 DEF Rejected, PTP!Rejected
<1> HIDE DEF reason
<1>7. PTP!RefuseNew(id, reason)
  <2>1. UNCHANGED <<AbstractBook, AbstractIncoming, arrivals>>
    BY <1>1, StateKept
  <2> QED
    BY <1>2, <1>3, <1>4, <1>5, <1>6, <2>1, SameCardinality DEF PTP!RefuseNew
<1> QED
  BY <1>5, <1>7 DEF PTP!Next, PTP!Reasons

LEMMA CancelIsCancel ==
  ASSUME IInv, NEW c \in CancelOrderCommand, Cancel(c)
  PROVE  PTP!Next
<1> DEFINE slot == orders_by_id[c.order_id]
           r == Abstracted(orders[slot])
<1>1. /\ aggressor = NoSlot
      /\ CancelRefusal(c) = "None"
      /\ orders' = [orders EXCEPT ![slot] = BlankOrder]
      /\ free' = free \cup {slot}
      /\ output' = Cancelled(orders[slot])
      /\ UNCHANGED <<aggressor, arrivals>>
  BY DEF Cancel, Depart
<1>2. c.order_id \in OrderIds /\ c.owner \in Owners
  BY DEF CancelOrderCommand
<1>3. slot # NoSlot /\ orders[slot].owner = c.owner
  BY <1>1 DEF CancelRefusal
<1>4. /\ AbstractIncoming = {}
      /\ slot \in Resting /\ orders[slot].order_id = c.order_id
  BY <1>1, <1>2, <1>3, BetweenCommands DEF IInv, PoolAndMapAgree
<1>5. r \in AbstractBook /\ r.order_id = c.order_id /\ r.owner = c.owner
  BY <1>3, <1>4, AbstractFields DEF AbstractBook
<1>6. Resting' = Resting \ {slot}
  BY <1>1, CancelInv, RestingByFree
<1>7. \A t \in Resting \ {slot} : orders'[t] = orders[t]
  BY <1>1 DEF Resting, Active, IInv, TypeOK
<1>8. AbstractBook' = AbstractBook \ {r}
  BY <1>4, <1>6, <1>7, BookAfter
<1>9. UNCHANGED AbstractIncoming
  BY <1>1 DEF AbstractIncoming
<1>10. output' = PTP!Cancelled(c.order_id, r.quantity)
  BY <1>1, <1>4, AbstractFields DEF Cancelled, PTP!Cancelled
<1> HIDE DEF slot, r
<1>11. PTP!Cancel(c.order_id, c.owner)
  BY <1>1, <1>4, <1>5, <1>8, <1>9, <1>10 DEF PTP!Cancel
<1> QED
  BY <1>2, <1>11 DEF PTP!Next

LEMMA RejectCancelIsRefuseCancel ==
  ASSUME IInv, NEW c \in CancelOrderCommand, RejectCancel(c)
  PROVE  PTP!Next
<1> DEFINE reason == CancelRefusal(c)
           slot == orders_by_id[c.order_id]
<1>1. /\ aggressor = NoSlot /\ reason # "None"
      /\ output' = Rejected(reason)
      /\ UNCHANGED <<orders, aggressor, arrivals>>
  BY DEF RejectCancel
<1>2. c.order_id \in OrderIds /\ c.owner \in Owners
  BY DEF CancelOrderCommand
<1>3. AbstractIncoming = {} /\ Resting = Active
  BY <1>1, BetweenCommands
<1>4. ASSUME reason = "UnknownOrder", NEW r \in AbstractBook
      PROVE  r.order_id # c.order_id
  <2>1. PICK t \in Resting : r = Abstracted(orders[t])
    BY DEF AbstractBook
  <2>2. t \in Slots /\ orders_by_id[orders[t].order_id] = t
    BY DEF Resting, Active, IInv, PoolAndMapAgree
  <2>3. slot = NoSlot
    BY <1>4 DEF CancelRefusal
  <2> QED
    BY <2>1, <2>2, <2>3, AbstractFields, SlotsAssumption
<1>5. ASSUME reason = "NotOrderOwner"
      PROVE  \E r \in AbstractBook : r.order_id = c.order_id /\ r.owner # c.owner
  <2>1. slot # NoSlot /\ orders[slot].owner # c.owner
    BY <1>5 DEF CancelRefusal
  <2>2. slot \in Resting /\ orders[slot].order_id = c.order_id
    BY <1>2, <1>3, <2>1 DEF IInv, PoolAndMapAgree
  <2> QED
    BY <2>1, <2>2, AbstractFields DEF AbstractBook
<1>6. reason \in {"UnknownSymbol", "UnknownOrder", "NotOrderOwner"}
  BY <1>1 DEF CancelRefusal
<1>7. output' = PTP!Rejected(reason)
  BY <1>1 DEF Rejected, PTP!Rejected
<1> HIDE DEF reason
<1>8. PTP!RefuseCancel(c.order_id, c.owner, reason)
  BY <1>1, <1>3, <1>4, <1>5, <1>6, <1>7, StateKept DEF PTP!RefuseCancel
<1> QED
  BY <1>2, <1>6, <1>8 DEF PTP!Next, PTP!Reasons

-----------------------------------------------------------------------------
(* The theorem *)

LEMMA AbstractInit ==
  ASSUME Init
  PROVE  PTP!Init
<1>1. aggressor = NoSlot /\ arrivals = 0 /\ output = Silent
  BY DEF Init
<1>2. Resting = {}
  BY DEF Init, Resting, Active, BlankOrder
<1> QED
  BY <1>1, <1>2 DEF AbstractBook, AbstractIncoming, Silent, PTP!Init, PTP!Silent

LEMMA AbstractStep ==
  ASSUME IInv, [Next]_vars
  PROVE  [PTP!Next]_(PTP!vars)
<1>1. ASSUME NEW c \in NewOrderCommand, NEW id \in OrderIds,
             Admit(c, id) \/ RejectNew(c, id)
      PROVE  PTP!Next
  BY <1>1, AdmitIsAccept, RejectNewIsRefuseNew
<1>2. ASSUME ExecuteStep
      PROVE  PTP!Next
  <2>1. PTP!Trade \/ PTP!Rest \/ PTP!Complete
    BY <1>2, PartialFillIsTrade, CompleteFillIsTrade, RestIsRest, FinishFilledIsComplete
       DEF ExecuteStep
  <2> QED
    BY <2>1 DEF PTP!Next
<1>3. ASSUME NEW c \in CancelOrderCommand, Cancel(c) \/ RejectCancel(c)
      PROVE  PTP!Next
  BY <1>3, CancelIsCancel, RejectCancelIsRefuseCancel
<1>4. ASSUME UNCHANGED vars
      PROVE  UNCHANGED PTP!vars
  <2>1. UNCHANGED <<orders, aggressor, arrivals, output>>
    BY <1>4 DEF vars
  <2> QED
    BY <2>1, StateKept DEF PTP!vars
<1> QED
  BY <1>1, <1>2, <1>3, <1>4 DEF Next

(* Price-time priority: whatever was admitted, filled and cancelled so     *)
(* far, each execution is between the incoming order and the resting order *)
(* that has priority over all others it could trade with, at that order's  *)
(* price and for the smaller quantity; an order rests only when nothing in *)
(* the book can trade with it, and no refusal is given without its reason  *)
(* (OrderBook.cpp:35-445).                                                 *)
THEOREM BookIsPriceTimePriority == Spec => ImplementsPriceTimePriority
<1>1. IInv /\ [Next]_vars => [PTP!Next]_(PTP!vars)
  BY AbstractStep
<1>2. Init => PTP!Init
  BY AbstractInit
<1> QED
  BY <1>1, <1>2, Invariance, PTL DEF Spec, ImplementsPriceTimePriority, PTP!Spec

=============================================================================
