-------------------------- MODULE SpscRing_proofs --------------------------
(***************************************************************************)
(* The ring keeps its promises for every capacity, every width of the      *)
(* indices that is a multiple of it, and every set of records.             *)
(*                                                                         *)
(* The first lemmas are about remainders: two numbers less than c apart    *)
(* have different remainders modulo c, and a multiple of c changes none.   *)
(* With them, indices that are less than Capacity apart, counted round the *)
(* end of their range, stand for different cells.                          *)
(***************************************************************************)
EXTENDS SpscRing, SequenceTheorems, TLAPS

-----------------------------------------------------------------------------
(* Remainders *)

LEMMA Division ==
  ASSUME NEW a \in Nat, NEW c \in Nat \ {0}
  PROVE  /\ (a % c) \in 0 .. c - 1
         /\ a \div c \in Nat
         /\ a = c * (a \div c) + (a % c)
  BY SMT

LEMMA NoMultipleBetween ==
  ASSUME NEW m \in Int, NEW c \in Nat \ {0}, 0 < c * m, c * m < c
  PROVE  FALSE
<1>1. CASE m <= 0
  BY <1>1, SMT
<1>2. CASE m >= 1
  BY <1>2, SMT
<1> QED
  BY <1>1, <1>2

LEMMA RemaindersDiffer ==
  ASSUME NEW a \in Nat, NEW b \in Nat, NEW c \in Nat \ {0}, a < b, b - a < c
  PROVE  (a % c) # (b % c)
<1> SUFFICES ASSUME (a % c) = (b % c) PROVE FALSE
  OBVIOUS
<1> DEFINE p == a \div c
           q == b \div c
<1>1. (a % c) \in 0 .. c - 1 /\ p \in Nat /\ a = c * p + (a % c)
  BY Division, Zenon
<1>2. (b % c) \in 0 .. c - 1 /\ q \in Nat /\ b = c * q + (b % c)
  BY Division, Zenon
<1> HIDE DEF p, q
<1>3. b - a = c * q - c * p
  BY <1>1, <1>2
<1>4. c * q - c * p = c * (q - p)
  BY <1>1, <1>2
<1>5. q - p \in Int
  BY <1>1, <1>2
<1> QED
  BY NoMultipleBetween, <1>3, <1>4, <1>5

LEMMA MultiplesDropOut ==
  ASSUME NEW a \in Nat, NEW k \in Nat, NEW c \in Nat \ {0}
  PROVE  (a % c) = ((a + c * k) % c)
<1> DEFINE b == a + c * k
           p == a \div c
           q == b \div c
           r == (a % c)
           s == (b % c)
<1>0. b \in Nat
  OBVIOUS
<1>1. r \in 0 .. c - 1 /\ p \in Nat /\ a = c * p + r
  BY Division, Zenon
<1>2. s \in 0 .. c - 1 /\ q \in Nat /\ b = c * q + s
  BY Division, <1>0, Zenon
<1> SUFFICES r = s
  OBVIOUS
<1>3. b = a + c * k
  OBVIOUS
<1> HIDE DEF b, p, q, r, s
<1>4. c * q + s = c * p + r + c * k
  BY <1>1, <1>2, <1>3
<1> DEFINE up == p + k - q
           down == q - p - k
<1>5. up \in Int /\ down \in Int
  BY <1>1, <1>2
<1>6. s - r = c * up
  BY <1>1, <1>2, <1>4
<1>7. r - s = c * down
  BY <1>1, <1>2, <1>4
<1> HIDE DEF up, down
<1>8. ~(s > r)
  BY NoMultipleBetween, <1>1, <1>2, <1>5, <1>6
<1>9. ~(s < r)
  BY NoMultipleBetween, <1>1, <1>2, <1>5, <1>7
<1> QED
  BY <1>1, <1>2, <1>8, <1>9

-----------------------------------------------------------------------------
(* Indices *)

LEMMA Limits ==
  /\ Capacity \in Nat \ {0} /\ IndexLimit \in Nat \ {0}
  /\ Capacity < IndexLimit
  /\ \E n \in Nat : IndexLimit = Capacity * n
<1> PICK n \in 2 .. IndexLimit : IndexLimit = n * Capacity
  BY RingAssumption
<1>1. n >= 2 /\ n \in Nat /\ Capacity \in Nat \ {0} /\ IndexLimit \in Nat
  BY RingAssumption
<1>2. n * Capacity >= 2 * Capacity
  BY <1>1
<1> QED
  BY <1>1, <1>2

LEMMA CellsAreCells ==
  ASSUME NEW i \in Nat
  PROVE  (i % Capacity) \in Cells
BY Division, Limits DEF Cells

(* A number beyond the range of the indices stands for the same cell as    *)
(* the index it wraps to.                                                  *)
LEMMA CellOfWrapped ==
  ASSUME NEW i \in Nat
  PROVE  (i % Capacity) = ((i + IndexLimit) % Capacity)
<1> PICK n \in Nat : IndexLimit = Capacity * n
  BY Limits
<1>1. (i % Capacity) = ((i + Capacity * n) % Capacity)
  BY MultiplesDropOut, Limits
<1> QED
  BY <1>1

(* Indices less than Capacity apart stand for different cells, also when   *)
(* the later one has wrapped.                                              *)
LEMMA CellsDiffer ==
  ASSUME NEW i \in Indices, NEW j \in Indices,
         0 < Minus(i, j), Minus(i, j) < Capacity
  PROVE  Cell(i) # Cell(j)
<1>0. i \in Nat /\ j \in Nat
  BY Limits DEF Indices
<1>1. ASSUME i >= j
      PROVE  Cell(i) # Cell(j)
  <2>1. j < i /\ i - j < Capacity
    BY <1>0, <1>1 DEF Minus
  <2>2. (j % Capacity) # (i % Capacity)
    BY <1>0, <2>1, RemaindersDiffer, Limits
  <2> QED
    BY <2>2 DEF Cell
<1>2. ASSUME i < j
      PROVE  Cell(i) # Cell(j)
  <2> DEFINE beyond == i + IndexLimit
  <2>1. beyond \in Nat /\ j < beyond /\ beyond - j < Capacity
    BY <1>0, <1>2, Limits DEF Minus, Indices
  <2>2. (i % Capacity) = (beyond % Capacity)
    BY <1>0, <2>1, CellOfWrapped
  <2> HIDE DEF beyond
  <2>3. (j % Capacity) # (beyond % Capacity)
    BY <1>0, <2>1, RemaindersDiffer, Limits
  <2> QED
    BY <2>2, <2>3 DEF Cell
<1> QED
  BY <1>0, <1>1, <1>2

-----------------------------------------------------------------------------
(* The invariant *)

(* What the producer is to publish is in its cell.                         *)
CopyDone ==
  /\ push_pc # "idle" => pushing \in Records
  /\ push_pc = "publish" => storage[Cell(head)] = pushing

RingInv == RingTypeOK /\ IndicesInOrder /\ CopyDone

LEMMA IndexFacts ==
  ASSUME RingTypeOK
  PROVE  /\ head \in Indices /\ tail \in Indices
         /\ seen_head \in Indices /\ seen_tail \in Indices
BY DEF RingTypeOK

LEMMA SuccessorInRange ==
  ASSUME NEW i \in Indices
  PROVE  Successor(i) \in Indices
BY Limits DEF Successor, Indices

(* The distance grows by one when its far end moves up, unless it was the  *)
(* whole range, and shrinks by one when its near end does, unless it is    *)
(* zero.                                                                   *)
LEMMA DistanceGrows ==
  ASSUME NEW i \in Indices, NEW j \in Indices, Minus(i, j) < Capacity
  PROVE  Minus(Successor(i), j) = Minus(i, j) + 1
BY Limits DEF Successor, Minus, Indices

LEMMA DistanceShrinks ==
  ASSUME NEW i \in Indices, NEW j \in Indices, i # j
  PROVE  Minus(i, Successor(j)) = Minus(i, j) - 1
BY Limits DEF Successor, Minus, Indices

LEMMA Distances ==
  ASSUME NEW i \in Indices, NEW j \in Indices
  PROVE  Minus(i, j) \in 0 .. IndexLimit - 1 /\ (Minus(i, j) = 0 <=> i = j)
BY Limits DEF Minus, Indices

(* Two distances from the same place differ by the distance between.       *)
LEMMA DistanceBetween ==
  ASSUME NEW i \in Indices, NEW j \in Indices, NEW k \in Indices,
         Minus(j, k) <= Minus(i, k)
  PROVE  Minus(i, j) = Minus(i, k) - Minus(j, k)
BY Limits DEF Minus, Indices

LEMMA InvInit == RingInit => RingInv
<1> SUFFICES ASSUME RingInit PROVE RingInv
  OBVIOUS
<1>1. 0 \in Indices
  BY Limits DEF Indices
<1>2. RingTypeOK
  BY <1>1 DEF RingInit, RingTypeOK
<1>3. IndicesInOrder
  BY Limits DEF RingInit, IndicesInOrder, Minus
<1> QED
  BY <1>2, <1>3 DEF RingInit, RingInv, CopyDone

LEMMA TypeStep ==
  ASSUME RingInv, RingNext
  PROVE  RingTypeOK'
<1> USE IndexFacts DEF RingInv
<1> USE DEF producer_vars, consumer_vars
<1>1. CASE PushRefused
  BY <1>1 DEF PushRefused, RingTypeOK
<1>2. CASE PushCopies
  <2>1. pushing \in Records
    BY <1>2 DEF PushCopies, CopyDone
  <2>2. storage' \in [Cells -> Records \cup {Blank}]
    BY <1>2, <2>1 DEF PushCopies, RingTypeOK
  <2> QED
    BY <1>2, <2>2 DEF PushCopies, RingTypeOK
<1>3. CASE PushPublishes
  <2>1. head' \in Indices
    BY <1>3, SuccessorInRange DEF PushPublishes
  <2> QED
    BY <1>3, <2>1 DEF PushPublishes, RingTypeOK
<1>4. CASE TailArrives
  <2>1. seen_tail' \in Indices
    BY <1>4, SuccessorInRange DEF TailArrives
  <2> QED
    BY <1>4, <2>1 DEF TailArrives, RingTypeOK
<1>5. ASSUME NEW value \in Records, PushBegins(value)
      PROVE  RingTypeOK'
  BY <1>5 DEF PushBegins, RingTypeOK
<1>6. CASE PopFindsNothing
  BY <1>6 DEF PopFindsNothing, RingTypeOK
<1>7. CASE PopBegins
  BY <1>7 DEF PopBegins, RingTypeOK
<1>8. CASE PopCopies
  <2>1. tail \in Nat
    BY Limits DEF Indices
  <2>2. Cell(tail) \in Cells
    BY <2>1, CellsAreCells DEF Cell
  <2>3. record' \in Records \cup {Blank}
    BY <1>8, <2>2 DEF PopCopies, RingTypeOK
  <2> QED
    BY <1>8, <2>3 DEF PopCopies, RingTypeOK
<1>9. CASE PopReleases
  <2>1. tail' \in Indices
    BY <1>9, SuccessorInRange DEF PopReleases
  <2> QED
    BY <1>9, <2>1 DEF PopReleases, RingTypeOK
<1>10. CASE HeadArrives
  <2>1. seen_head' \in Indices
    BY <1>10, SuccessorInRange DEF HeadArrives
  <2> QED
    BY <1>10, <2>1 DEF HeadArrives, RingTypeOK
<1> QED
  BY <1>1, <1>2, <1>3, <1>4, <1>5, <1>6, <1>7, <1>8, <1>9, <1>10 DEF RingNext

LEMMA OrderStep ==
  ASSUME RingInv, RingNext
  PROVE  IndicesInOrder'
<1> USE DEF RingInv, producer_vars, consumer_vars, IndicesInOrder, Full, Empty
<1>0. /\ head \in Indices /\ tail \in Indices
      /\ seen_head \in Indices /\ seen_tail \in Indices
  BY IndexFacts
<1>a. /\ Minus(tail, seen_tail) \in Nat
      /\ Minus(seen_head, seen_tail) \in Nat
      /\ Minus(head, seen_tail) \in Nat
      /\ Capacity \in Nat
  BY <1>0, Distances, Limits
<1>1. CASE PushRefused
  BY <1>1 DEF PushRefused
<1>2. CASE PushCopies
  BY <1>2 DEF PushCopies
<1>3. CASE PushPublishes
  <2>1. Minus(head, seen_tail)' = Minus(head, seen_tail) + 1
    BY <1>0, <1>a, <1>3, DistanceGrows DEF PushPublishes
  <2> QED
    BY <1>3, <1>a, <2>1 DEF PushPublishes
<1>4. CASE TailArrives
  <2>1. Minus(tail, seen_tail) # 0
    BY <1>0, <1>4, Distances DEF TailArrives
  <2>2. seen_tail # seen_head /\ seen_tail # head
    BY <1>0, <1>a, <2>1, Distances
  <2>3. /\ Minus(tail, seen_tail)' = Minus(tail, seen_tail) - 1
        /\ Minus(seen_head, seen_tail)' = Minus(seen_head, seen_tail) - 1
        /\ Minus(head, seen_tail)' = Minus(head, seen_tail) - 1
    BY <1>0, <1>4, <2>2, DistanceShrinks DEF TailArrives
  <2> QED
    BY <1>4, <1>a, <2>3 DEF TailArrives
<1>5. ASSUME NEW value \in Records, PushBegins(value)
      PROVE  IndicesInOrder'
  BY <1>5 DEF PushBegins
<1>6. CASE PopFindsNothing
  BY <1>6 DEF PopFindsNothing
<1>7. CASE PopBegins
  BY <1>7 DEF PopBegins
<1>8. CASE PopCopies
  BY <1>8 DEF PopCopies
<1>9. CASE PopReleases
  <2>1. Minus(tail, seen_tail) < Minus(seen_head, seen_tail)
    BY <1>0, <1>a, <1>9, DistanceBetween, Distances DEF PopReleases
  <2>2. Minus(tail, seen_tail)' = Minus(tail, seen_tail) + 1
    BY <1>0, <1>a, <1>9, <2>1, DistanceGrows DEF PopReleases
  <2> QED
    BY <1>9, <1>a, <2>1, <2>2 DEF PopReleases
<1>10. CASE HeadArrives
  <2>1. Minus(seen_head, seen_tail) < Minus(head, seen_tail)
    BY <1>0, <1>a, <1>10, DistanceBetween, Distances DEF HeadArrives
  <2>2. Minus(seen_head, seen_tail)' = Minus(seen_head, seen_tail) + 1
    BY <1>0, <1>a, <1>10, <2>1, DistanceGrows DEF HeadArrives
  <2>3. seen_head' # tail
    BY <1>0, <1>a, <1>10, <2>2 DEF HeadArrives
  <2> QED
    BY <1>10, <1>a, <2>1, <2>2, <2>3 DEF HeadArrives
<1> QED
  BY <1>1, <1>2, <1>3, <1>4, <1>5, <1>6, <1>7, <1>8, <1>9, <1>10 DEF RingNext

LEMMA CopyStep ==
  ASSUME RingInv, RingNext
  PROVE  CopyDone'
<1> USE DEF RingInv, producer_vars, consumer_vars, CopyDone, Cell
<1>0. head \in Nat
  BY IndexFacts, Limits DEF Indices
<1>1. CASE PushRefused
  BY <1>1 DEF PushRefused
<1>2. CASE PushCopies
  <2>1. (head % Capacity) \in Cells
    BY <1>0, CellsAreCells
  <2> QED
    BY <1>2, <2>1 DEF PushCopies, RingTypeOK
<1>3. CASE PushPublishes
  BY <1>3 DEF PushPublishes
<1>4. CASE TailArrives
  BY <1>4 DEF TailArrives
<1>5. ASSUME NEW value \in Records, PushBegins(value)
      PROVE  CopyDone'
  BY <1>5 DEF PushBegins
<1>6. CASE PopFindsNothing
  BY <1>6 DEF PopFindsNothing
<1>7. CASE PopBegins
  BY <1>7 DEF PopBegins
<1>8. CASE PopCopies
  BY <1>8 DEF PopCopies
<1>9. CASE PopReleases
  BY <1>9 DEF PopReleases
<1>10. CASE HeadArrives
  BY <1>10 DEF HeadArrives
<1> QED
  BY <1>1, <1>2, <1>3, <1>4, <1>5, <1>6, <1>7, <1>8, <1>9, <1>10 DEF RingNext

LEMMA InvStep == RingInv /\ [RingNext]_ring_vars => RingInv'
<1>1. ASSUME RingInv, RingNext PROVE RingInv'
  BY <1>1, TypeStep, OrderStep, CopyStep DEF RingInv
<1>2. ASSUME RingInv, UNCHANGED ring_vars PROVE RingInv'
  <2>1. RingTypeOK'
    BY <1>2 DEF RingInv, RingTypeOK, ring_vars, producer_vars, consumer_vars
  <2>2. IndicesInOrder'
    BY <1>2 DEF RingInv, IndicesInOrder, Full, Empty,
                ring_vars, producer_vars, consumer_vars
  <2>3. CopyDone'
    BY <1>2 DEF RingInv, CopyDone, ring_vars, producer_vars, consumer_vars
  <2> QED
    BY <2>1, <2>2, <2>3 DEF RingInv
<1> QED
  BY <1>1, <1>2

LEMMA InvSeparates == RingInv => NoSharedCell
<1> SUFFICES ASSUME RingInv, push_pc = "copy", pop_pc = "copy"
             PROVE  Cell(head) # Cell(tail)
  BY DEF NoSharedCell
<1>0. /\ head \in Indices /\ tail \in Indices
      /\ seen_head \in Indices /\ seen_tail \in Indices
  BY IndexFacts DEF RingInv
<1>1. /\ Minus(tail, seen_tail) \in Nat
      /\ Minus(seen_head, seen_tail) \in Nat
      /\ Minus(head, seen_tail) \in Nat
  BY <1>0, Distances, Limits
<1>2. Minus(tail, seen_tail) < Minus(seen_head, seen_tail)
  BY <1>0, <1>1, DistanceBetween, Distances DEF RingInv, IndicesInOrder, Empty
<1>3. Minus(head, seen_tail) < Capacity /\ Minus(tail, seen_tail) < Minus(head, seen_tail)
  BY <1>1, <1>2, Limits DEF RingInv, IndicesInOrder, Full
<1>4. Minus(head, tail) = Minus(head, seen_tail) - Minus(tail, seen_tail)
  BY <1>0, <1>1, <1>3, DistanceBetween
<1> QED
  BY <1>0, <1>1, <1>3, <1>4, CellsDiffer, Limits

LEMMA RingInvariance == RingSpec => []RingInv
BY InvInit, InvStep, PTL DEF RingSpec

-----------------------------------------------------------------------------
(* The ring implements the bounded first-in first-out queue *)

(* The distances the mapping is made of, all counted from seen_tail.       *)
LEMMA MappedDistances ==
  ASSUME RingInv
  PROVE  /\ First \in Indices
         /\ Minus(tail, seen_tail) \in Nat
         /\ Minus(head, First) \in Nat
         /\ Minus(seen_head, First) \in Nat
         /\ Minus(seen_head, First) <= Minus(head, First)
         /\ Minus(head, seen_tail) =
              Minus(head, First) + Minus(tail, seen_tail)
                + (IF pop_pc = "release" THEN 1 ELSE 0)
<1>0. /\ head \in Indices /\ tail \in Indices
      /\ seen_head \in Indices /\ seen_tail \in Indices
  BY IndexFacts DEF RingInv
<1>1. /\ Minus(tail, seen_tail) \in Nat
      /\ Minus(seen_head, seen_tail) \in Nat
      /\ Minus(head, seen_tail) \in Nat
      /\ Capacity \in Nat
  BY <1>0, Distances, Limits
<1>2. /\ Minus(tail, seen_tail) <= Minus(seen_head, seen_tail)
      /\ Minus(seen_head, seen_tail) <= Minus(head, seen_tail)
      /\ Minus(head, seen_tail) <= Capacity
  BY DEF RingInv, IndicesInOrder
<1>3. /\ Minus(head, tail) = Minus(head, seen_tail) - Minus(tail, seen_tail)
      /\ Minus(seen_head, tail) = Minus(seen_head, seen_tail) - Minus(tail, seen_tail)
  BY <1>0, <1>1, <1>2, DistanceBetween
<1>4. ASSUME pop_pc # "release"
      PROVE  First = tail
  BY <1>4 DEF First
<1>5. ASSUME pop_pc = "release"
      PROVE  /\ First = Successor(tail)
             /\ First \in Indices
             /\ Minus(head, First) = Minus(head, tail) - 1
             /\ Minus(seen_head, First) = Minus(seen_head, tail) - 1
             /\ Minus(seen_head, tail) >= 1
  <2>1. First = Successor(tail) /\ First \in Indices
    BY <1>0, <1>5, SuccessorInRange DEF First
  <2>2. tail # seen_head
    BY <1>5 DEF RingInv, IndicesInOrder, Empty
  <2>3. Minus(seen_head, tail) >= 1
    BY <1>0, <2>2, Distances, Limits
  <2>4. tail # head
    BY <1>0, <1>1, <1>2, <1>3, <2>3, Distances
  <2> QED
    BY <1>0, <2>1, <2>2, <2>3, <2>4, DistanceShrinks
<1> QED
  BY <1>0, <1>1, <1>2, <1>3, <1>4, <1>5

LEMMA InFlightIsSeq ==
  ASSUME RingInv
  PROVE  /\ InFlight \in Seq(Records \cup {Blank})
         /\ Len(InFlight) = Minus(head, First)
<1>1. First \in Nat /\ Minus(head, First) \in Nat
  BY MappedDistances, Limits DEF Indices
<1>2. ASSUME NEW i \in 1 .. Minus(head, First)
      PROVE  storage[(First + i - 1) % Capacity] \in Records \cup {Blank}
  <2>1. First + i - 1 \in Nat
    BY <1>1
  <2>2. ((First + i - 1) % Capacity) \in Cells
    BY <2>1, CellsAreCells
  <2> QED
    BY <2>2 DEF RingInv, RingTypeOK
<1> QED
  BY <1>1, <1>2 DEF InFlight

(* The cell behind the last one in flight is the producer's, ...           *)
LEMMA NextCell ==
  ASSUME RingInv
  PROVE  ((First + Minus(head, First)) % Capacity) = Cell(head)
<1>1. First \in Indices /\ head \in Indices /\ head \in Nat
  BY MappedDistances, IndexFacts, Limits DEF RingInv, Indices
<1>2. \/ First + Minus(head, First) = head
      \/ First + Minus(head, First) = head + IndexLimit
  BY <1>1, Limits DEF Minus, Indices
<1>3. (head % Capacity) = ((head + IndexLimit) % Capacity)
  BY <1>1, CellOfWrapped
<1> QED
  BY <1>2, <1>3 DEF Cell

(* ... and it is none of those in flight as long as there is room.         *)
LEMMA OtherCells ==
  ASSUME RingInv, push_pc # "idle", NEW i \in 1 .. Minus(head, First)
  PROVE  ((First + i - 1) % Capacity) # Cell(head)
<1>1. First \in Indices /\ head \in Indices /\ head \in Nat /\ First \in Nat
  BY MappedDistances, IndexFacts, Limits DEF RingInv, Indices
<1>2. Minus(head, First) \in Nat /\ Minus(head, First) < Capacity
  <2>1. Minus(head, seen_tail) < Capacity
    BY Distances, IndexFacts, Limits DEF RingInv, IndicesInOrder, Full
  <2> QED
    BY <2>1, MappedDistances, Limits
<1> DEFINE n == First + i - 1
           j == IF n < IndexLimit THEN n ELSE n - IndexLimit
<1>3. n \in Nat /\ j \in Indices /\ Minus(head, j) = Minus(head, First) - i + 1
  BY <1>1, <1>2, Limits DEF Minus, Indices
<1>4. (n % Capacity) = Cell(j)
  <2>1. ASSUME n < IndexLimit
        PROVE  (n % Capacity) = Cell(j)
    BY <2>1 DEF Cell
  <2>2. ASSUME ~(n < IndexLimit)
        PROVE  (n % Capacity) = Cell(j)
    <3>1. j \in Nat /\ n = j + IndexLimit
      BY <1>3, <2>2, Limits
    <3> HIDE DEF n, j
    <3>2. (j % Capacity) = ((j + IndexLimit) % Capacity)
      BY <3>1, CellOfWrapped
    <3> QED
      BY <3>1, <3>2 DEF Cell
  <2> QED
    BY <2>1, <2>2
<1> HIDE DEF j
<1>5. 0 < Minus(head, j) /\ Minus(head, j) < Capacity
  BY <1>2, <1>3, Limits
<1>6. Cell(head) # Cell(j)
  BY <1>1, <1>3, <1>5, CellsDiffer
<1> QED
  BY <1>4, <1>6

(* One cell on from the first in flight, counted from either index.        *)
LEMMA CellsFromSuccessor ==
  ASSUME NEW i \in Nat \ {0}, NEW j \in Indices
  PROVE  ((Successor(j) + i - 1) % Capacity) = ((j + i) % Capacity)
<1>0. j \in Nat
  BY Limits DEF Indices
<1>1. ASSUME j + 1 # IndexLimit
      PROVE  ((Successor(j) + i - 1) % Capacity) = ((j + i) % Capacity)
  <2>1. Successor(j) + i - 1 = j + i
    BY <1>0, <1>1 DEF Successor
  <2> QED
    BY <2>1
<1>2. ASSUME j + 1 = IndexLimit
      PROVE  ((Successor(j) + i - 1) % Capacity) = ((j + i) % Capacity)
  <2>1. i - 1 \in Nat
    OBVIOUS
  <2>2. Successor(j) + i - 1 = i - 1 /\ j + i = i - 1 + IndexLimit
    BY <1>0, <1>2 DEF Successor
  <2>3. ((i - 1) % Capacity) = ((i - 1 + IndexLimit) % Capacity)
    BY <2>1, CellOfWrapped
  <2> QED
    BY <2>2, <2>3
<1> QED
  BY <1>1, <1>2

LEMMA FifoInit == RingInit => Fifo!Init
<1> SUFFICES ASSUME RingInit PROVE Fifo!Init
  OBVIOUS
<1>1. 0 \in Indices
  BY Limits DEF Indices
<1>2. First = 0 /\ Minus(head, First) = 0 /\ Minus(seen_head, First) = 0
  BY Limits DEF RingInit, First, Minus
<1>3. InFlight = <<>>
  BY <1>2 DEF InFlight
<1>4. Minus(tail, seen_tail) = 0
  BY Limits DEF RingInit, Minus
<1> QED
  BY <1>2, <1>3, <1>4 DEF Fifo!Init, RingInit

(* What a step of one of the threads leaves alone in the mapped queue.     *)
LEMMA SameFirst ==
  ASSUME tail' = tail, pop_pc' = pop_pc
  PROVE  First' = First
BY DEF First, Successor

LEMMA PutStep ==
  ASSUME RingInv, RingInv', PushPublishes
  PROVE  pushing \in Records /\ Fifo!Put(pushing)
<1> DEFINE k == Minus(head, First)
<1>0. First' = First /\ First \in Nat /\ k \in Nat
  BY SameFirst, MappedDistances, Limits DEF PushPublishes, consumer_vars, Indices
<1>1. pushing \in Records
  BY DEF PushPublishes, RingInv, CopyDone
<1>2. Minus(head, seen_tail) \in Nat /\ Minus(head, seen_tail) < Capacity
  BY Distances, IndexFacts, Limits DEF PushPublishes, RingInv, IndicesInOrder, Full
<1>3. Minus(head, First)' = k + 1
  <2>1. k < Capacity
    BY <1>0, <1>2, MappedDistances, Limits
  <2>2. head \in Indices /\ First \in Indices
    BY MappedDistances, IndexFacts DEF RingInv
  <2> QED
    BY <1>0, <2>1, <2>2, DistanceGrows DEF PushPublishes
<1>4. InFlight' = Append(InFlight, pushing)
  <2> HIDE DEF k
  <2>1. InFlight = [i \in 1 .. k |-> storage[(First + i - 1) % Capacity]]
    BY DEF InFlight, k
  <2>2. InFlight' = [i \in 1 .. k + 1 |-> storage[(First + i - 1) % Capacity]]
    BY <1>0, <1>3 DEF InFlight, PushPublishes
  <2>3. storage[(First + (k + 1) - 1) % Capacity] = pushing
    <3>1. First + (k + 1) - 1 = First + k
      BY <1>0
    <3>2. ((First + k) % Capacity) = Cell(head)
      BY NextCell DEF k
    <3> QED
      BY <3>1, <3>2 DEF PushPublishes, RingInv, CopyDone
  <2> QED
    BY <1>0, <2>1, <2>2, <2>3
<1>5. Fifo!PlacesTaken < Capacity
  BY <1>2, MappedDistances, InFlightIsSeq DEF Fifo!PlacesTaken
<1>6. Fifo!Put(pushing)
  BY <1>0, <1>4, <1>5 DEF Fifo!Put, PushPublishes, consumer_vars
<1> QED
  BY <1>1, <1>6

LEMMA SeqIsFunction ==
  ASSUME NEW S, NEW s \in Seq(S)
  PROVE  s = [i \in 1 .. Len(s) |-> s[i]]
BY SeqDef

LEMMA TakeStep ==
  ASSUME RingInv, RingInv', PopCopies
  PROVE  Fifo!Take
<1> DEFINE k == Minus(head, First)
<1>0. First = tail /\ First' = Successor(tail) /\ First \in Nat /\ k \in Nat
      /\ tail \in Indices /\ head \in Indices
  BY MappedDistances, IndexFacts, Limits
     DEF PopCopies, First, Successor, Indices, RingInv
<1>1. Minus(seen_head, First) > 0
  <2>1. seen_head # tail
    BY DEF PopCopies, RingInv, IndicesInOrder, Empty
  <2>2. seen_head \in Indices
    BY IndexFacts DEF RingInv
  <2>3. Minus(seen_head, tail) # 0 /\ Minus(seen_head, tail) \in Nat
    BY <1>0, <2>1, <2>2, Distances, Limits
  <2> QED
    BY <1>0, <2>3
<1>2. k > 0 /\ tail # head /\ tail # seen_head
  BY <1>0, <1>1, MappedDistances, Distances, IndexFacts, Limits DEF RingInv
<1>3. Minus(head, First)' = k - 1
  BY <1>0, <1>2, DistanceShrinks DEF PopCopies, producer_vars
<1>4. Minus(seen_head, First)' = Minus(seen_head, First) - 1
  BY <1>0, <1>2, DistanceShrinks, IndexFacts DEF PopCopies, producer_vars, RingInv
<1>5. InFlight' = Tail(InFlight) /\ record' = Head(InFlight)
  <2> HIDE DEF k
  <2>1. InFlight = [i \in 1 .. k |-> storage[(First + i - 1) % Capacity]]
    BY DEF InFlight, k
  <2>2. InFlight' = [i \in 1 .. k - 1 |-> storage[(Successor(tail) + i - 1) % Capacity]]
    BY <1>0, <1>3 DEF InFlight, PopCopies
  <2>3. ASSUME NEW i \in 1 .. k - 1
        PROVE  storage[(Successor(tail) + i - 1) % Capacity] = InFlight[i + 1]
    <3>1. i \in Nat \ {0} /\ i + 1 \in 1 .. k
      BY <1>0
    <3>2. ((Successor(tail) + i - 1) % Capacity) = ((tail + i) % Capacity)
      BY <1>0, <3>1, CellsFromSuccessor
    <3>3. First + (i + 1) - 1 = tail + i
      BY <1>0, <3>1
    <3> QED
      BY <2>1, <3>1, <3>2, <3>3
  <2>4. Head(InFlight) = storage[Cell(tail)]
    <3>1. First + 1 - 1 = tail
      BY <1>0
    <3>2. 1 \in 1 .. k
      BY <1>0, <1>2
    <3> QED
      BY <2>1, <3>1, <3>2 DEF Cell
  <2>5. InFlight' = [i \in 1 .. k - 1 |-> InFlight[i + 1]]
    BY <2>2, <2>3
  <2>6. Tail(InFlight) = [i \in 1 .. k - 1 |-> InFlight[i + 1]]
    <3>1. InFlight \in Seq(Records \cup {Blank}) /\ Len(InFlight) = k
      BY InFlightIsSeq DEF k
    <3>2. InFlight # <<>>
      BY <1>0, <1>2, <3>1
    <3>3. /\ Tail(InFlight) \in Seq(Records \cup {Blank})
          /\ Len(Tail(InFlight)) = k - 1
          /\ \A i \in 1 .. k - 1 : Tail(InFlight)[i] = InFlight[i + 1]
      BY <1>0, <3>1, <3>2, HeadTailProperties
    <3>4. Tail(InFlight) = [i \in 1 .. k - 1 |-> Tail(InFlight)[i]]
      BY <3>3, SeqIsFunction, Zenon
    <3> QED
      BY <3>3, <3>4, Zenon
  <2> QED
    BY <2>4, <2>5, <2>6 DEF PopCopies
<1> QED
  BY <1>1, <1>4, <1>5 DEF Fifo!Take, PopCopies, producer_vars

LEMMA CopyStutters ==
  ASSUME RingInv, RingInv', PushCopies
  PROVE  UNCHANGED Fifo!vars
<1>1. First' = First /\ head' = head
  BY SameFirst DEF PushCopies, consumer_vars
<1>2. head \in Nat
  BY IndexFacts, Limits DEF RingInv, Indices
<1>3. ASSUME NEW i \in 1 .. Minus(head, First)
      PROVE  storage'[(First + i - 1) % Capacity] = storage[(First + i - 1) % Capacity]
  <2>1. ((First + i - 1) % Capacity) # Cell(head)
    BY OtherCells DEF PushCopies
  <2>2. First + i - 1 \in Nat
    BY MappedDistances, Limits DEF Indices
  <2>3. ((First + i - 1) % Capacity) \in Cells
    BY <2>2, CellsAreCells
  <2> QED
    BY <2>1, <2>3 DEF PushCopies, RingInv, RingTypeOK
<1>4. InFlight' = InFlight
  BY <1>1, <1>3 DEF InFlight, Minus
<1> QED
  BY <1>1, <1>4 DEF Fifo!vars, PushCopies, consumer_vars, Minus

(* As long as the cells, the head and the consumer's place stay, the queue *)
(* does.                                                                   *)
LEMMA SameInFlight ==
  ASSUME storage' = storage, head' = head, First' = First
  PROVE  InFlight' = InFlight
BY DEF InFlight, Minus

LEMMA FifoStep ==
  ASSUME RingInv, RingInv', RingNext
  PROVE  [Fifo!Next]_(Fifo!vars)
<1> USE DEF producer_vars, consumer_vars
<1>1. CASE PushRefused
  <2>1. First' = First
    BY <1>1, SameFirst DEF PushRefused
  <2>2. InFlight' = InFlight
    BY <1>1, <2>1, SameInFlight DEF PushRefused
  <2>3. Minus(head, seen_tail) = Capacity
    BY <1>1, Distances, IndexFacts, Limits
       DEF PushRefused, Full, RingInv, IndicesInOrder
  <2>4. Fifo!PlacesTaken = Capacity
    BY <2>3, MappedDistances, InFlightIsSeq DEF Fifo!PlacesTaken
  <2>5. Fifo!Refuse
    BY <1>1, <2>1, <2>2, <2>4 DEF Fifo!Refuse, PushRefused, Minus
  <2> QED
    BY <2>5 DEF Fifo!Next
<1>2. CASE PushCopies
  BY <1>2, CopyStutters
<1>3. CASE PushPublishes
  BY <1>3, PutStep DEF Fifo!Next
<1>4. CASE TailArrives
  <2>1. First' = First
    BY <1>4, SameFirst DEF TailArrives
  <2>2. InFlight' = InFlight
    BY <1>4, <2>1, SameInFlight DEF TailArrives
  <2>3. Minus(tail, seen_tail)' = Minus(tail, seen_tail) - 1
    BY <1>4, DistanceShrinks, IndexFacts DEF TailArrives, RingInv
  <2>4. Minus(tail, seen_tail) > 0
    BY <1>4, Distances, IndexFacts, Limits DEF TailArrives, RingInv
  <2>5. Minus(seen_head, First)' = Minus(seen_head, First)
    BY <1>4, <2>1 DEF TailArrives, Minus
  <2>6. Fifo!SpaceArrives
    BY <1>4, <2>2, <2>3, <2>4, <2>5 DEF Fifo!SpaceArrives, TailArrives
  <2> QED
    BY <2>6 DEF Fifo!Next
<1>5. ASSUME NEW value \in Records, PushBegins(value)
      PROVE  [Fifo!Next]_(Fifo!vars)
  <2>1. First' = First
    BY <1>5, SameFirst DEF PushBegins
  <2>2. InFlight' = InFlight
    BY <1>5, <2>1, SameInFlight DEF PushBegins
  <2> QED
    BY <1>5, <2>1, <2>2 DEF Fifo!vars, PushBegins, Minus
<1>6. CASE PopFindsNothing
  <2>1. First' = First /\ First = tail
    BY <1>6, SameFirst DEF PopFindsNothing, First
  <2>2. InFlight' = InFlight
    BY <1>6, <2>1, SameInFlight DEF PopFindsNothing
  <2>3. Minus(seen_head, First) = 0
    BY <1>6, <2>1, Distances, IndexFacts DEF PopFindsNothing, Empty, RingInv
  <2>4. /\ Minus(seen_head, First)' = Minus(seen_head, First)
        /\ Minus(tail, seen_tail)' = Minus(tail, seen_tail)
    BY <1>6, <2>1 DEF PopFindsNothing, Minus
  <2>5. Fifo!FindNothing
    BY <1>6, <2>2, <2>3, <2>4 DEF Fifo!FindNothing, PopFindsNothing
  <2> QED
    BY <2>5 DEF Fifo!Next
<1>7. CASE PopBegins
  <2>1. First' = First
    BY <1>7 DEF PopBegins, First, Successor
  <2>2. InFlight' = InFlight
    BY <1>7, <2>1, SameInFlight DEF PopBegins
  <2> QED
    BY <1>7, <2>1, <2>2 DEF Fifo!vars, PopBegins, Minus
<1>8. CASE PopCopies
  BY <1>8, TakeStep DEF Fifo!Next
<1>9. CASE PopReleases
  <2>1. First' = First
    BY <1>9 DEF PopReleases, First, Successor
  <2>2. InFlight' = InFlight
    BY <1>9, <2>1, SameInFlight DEF PopReleases
  <2>3. Minus(tail, seen_tail) < Capacity
    BY <1>9, MappedDistances, Distances, IndexFacts, Limits
       DEF PopReleases, RingInv, IndicesInOrder
  <2>4. Minus(tail, seen_tail)' = Minus(tail, seen_tail) + 1
    BY <1>9, <2>3, DistanceGrows, IndexFacts DEF PopReleases, RingInv
  <2>5. Minus(seen_head, First)' = Minus(seen_head, First)
    BY <1>9, <2>1 DEF PopReleases, Minus
  <2>6. Fifo!GiveBack
    BY <1>9, <2>2, <2>4, <2>5 DEF Fifo!GiveBack, PopReleases
  <2> QED
    BY <2>6 DEF Fifo!Next
<1>10. CASE HeadArrives
  <2>1. First' = First
    BY <1>10, SameFirst DEF HeadArrives
  <2>2. InFlight' = InFlight
    BY <1>10, <2>1, SameInFlight DEF HeadArrives
  <2>3. /\ Minus(seen_head, First) < Minus(head, First)
        /\ Minus(head, First) <= Capacity
    <3>1. /\ Minus(seen_head, First) <= Minus(head, First)
          /\ Minus(head, First) \in Nat /\ Minus(seen_head, First) \in Nat
          /\ First \in Indices /\ head \in Indices /\ seen_head \in Indices
      BY MappedDistances, IndexFacts DEF RingInv
    <3>2. Minus(seen_head, First) # Minus(head, First)
      BY <1>10, <3>1, Limits DEF HeadArrives, Minus, Indices
    <3>3. Minus(head, First) <= Minus(head, seen_tail)
      BY MappedDistances
    <3>4. Minus(head, seen_tail) <= Capacity /\ Minus(head, seen_tail) \in Nat
      BY Distances, IndexFacts, Limits DEF RingInv, IndicesInOrder
    <3> QED
      BY <3>1, <3>2, <3>3, <3>4, Limits
  <2>4. Minus(seen_head, First)' = Minus(seen_head, First) + 1
    <3>1. First \in Indices /\ seen_head \in Indices
      BY MappedDistances, IndexFacts DEF RingInv
    <3>2. Minus(seen_head, First) < Capacity
      BY <2>3, MappedDistances, Limits
    <3> QED
      BY <1>10, <2>1, <3>1, <3>2, DistanceGrows DEF HeadArrives
  <2>5. Fifo!ItemArrives
    BY <1>10, <2>2, <2>3, <2>4, InFlightIsSeq
       DEF Fifo!ItemArrives, HeadArrives, Minus
  <2> QED
    BY <2>5 DEF Fifo!Next
<1> QED
  BY <1>1, <1>2, <1>3, <1>4, <1>5, <1>6, <1>7, <1>8, <1>9, <1>10 DEF RingNext

LEMMA FifoStutter ==
  ASSUME UNCHANGED ring_vars
  PROVE  UNCHANGED Fifo!vars
<1>1. First' = First
  BY DEF ring_vars, producer_vars, consumer_vars, First, Successor
<1>2. InFlight' = InFlight
  BY <1>1, SameInFlight DEF ring_vars, producer_vars, consumer_vars
<1> QED
  BY <1>1, <1>2 DEF Fifo!vars, ring_vars, producer_vars, consumer_vars, Minus

-----------------------------------------------------------------------------
(* The theorems *)

(* The indices of both threads, and what each knows of the other's, stay   *)
(* within one round of the ring of each other (SpscRing.h:26-35, :41-50).  *)
THEOREM IndicesStayInOrder == RingSpec => []IndicesInOrder
BY RingInvariance, PTL DEF RingInv

(* Producer and consumer are never inside the copy of the same cell, so    *)
(* the plain assignments of SpscRing.h:33 and :48 do not race.             *)
THEOREM CellsNeverShared == RingSpec => []NoSharedCell
BY RingInvariance, InvSeparates, PTL

(* The ring implements the bounded queue: nothing is lost, repeated,       *)
(* reordered or torn, and try_push and try_pop fail only for good reason   *)
(* (SpscRing.h:25-53).                                                     *)
THEOREM RingIsFifo == RingSpec => ImplementsBoundedFifo
<1>1. RingInv /\ RingInv' /\ [RingNext]_ring_vars => [Fifo!Next]_(Fifo!vars)
  <2>1. CASE RingNext
    BY <2>1, FifoStep
  <2>2. CASE UNCHANGED ring_vars
    BY <2>2, FifoStutter
  <2> QED
    BY <2>1, <2>2
<1> QED
  BY FifoInit, RingInvariance, <1>1, PTL DEF RingSpec, ImplementsBoundedFifo, Fifo!Spec

=============================================================================
