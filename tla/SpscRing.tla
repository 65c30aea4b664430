------------------------------ MODULE SpscRing ------------------------------
(***************************************************************************)
(* The ring between the thread that logs and the thread that writes the    *)
(* log (src/logging/SpscRing.h), one action per access to shared memory.   *)
(*                                                                         *)
(* head_ is stored by the producer alone and tail_ by the consumer alone,  *)
(* so each reads its own index as it is.  The other's index is loaded with *)
(* memory_order_acquire, which may return an old value: seen_tail is what  *)
(* the producer can see of tail_, seen_head what the consumer can see of   *)
(* head_, and both advance some time after the store (TailArrives,         *)
(* HeadArrives).  What a thread wrote before a release store is visible to *)
(* the one that has seen the store, so the cells are plain memory here.    *)
(* A copy into or out of a cell takes time: it lasts while the program     *)
(* counter stands at "copy".                                               *)
(***************************************************************************)
EXTENDS Integers, Sequences

CONSTANTS
  Capacity,    \* the number of cells, a power of two
  IndexLimit,  \* the indices count modulo 2^64, a multiple of the capacity
  Records,     \* what the ring carries
  Blank        \* a default-constructed record

ASSUME RingAssumption ==
  /\ Capacity \in Nat \ {0} /\ IndexLimit \in Nat
  /\ \E n \in 2 .. IndexLimit : IndexLimit = n * Capacity
  /\ Blank \notin Records

VARIABLES
  storage, head, tail,   \* the cells and the indices of both ends
  seen_head, seen_tail,  \* what the other thread can see of the indices
  push_pc, pushing,      \* the producer inside try_push, and its argument
  pop_pc, record,        \* the consumer inside try_pop, and its argument
  pushed, popped         \* what the last try_push and try_pop returned

producer_vars == <<head, seen_tail, push_pc, pushing, pushed>>
consumer_vars == <<tail, seen_head, pop_pc, record, popped>>
ring_vars == <<storage, producer_vars, consumer_vars>>

-----------------------------------------------------------------------------

Indices == 0 .. IndexLimit - 1
Cells == 0 .. Capacity - 1

(* head & mask_, head + 1 and head - tail on unsigned indices.             *)
Cell(i) == i % Capacity
Successor(i) == IF i + 1 = IndexLimit THEN 0 ELSE i + 1
Minus(i, j) == IF i >= j THEN i - j ELSE i - j + IndexLimit

(* Mutant: the distance is taken as a signed number.                       *)
FullSigned == head - seen_tail >= Capacity

(* Mutant: one record more than the ring has cells is let in.              *)
FullLate == Minus(head, seen_tail) > Capacity

(* The checks of try_push and of try_pop, and empty() as the consumer      *)
(* calls it.                                                               *)
Full == Minus(head, seen_tail) >= Capacity
(* Mutant: cells are compared, so that a full ring looks empty.            *)
EmptyByCell == Cell(tail) = Cell(seen_head)

Empty == tail = seen_head

RingInit ==
  /\ storage = [c \in Cells |-> Blank]
  /\ head = 0 /\ tail = 0
  /\ seen_head = 0 /\ seen_tail = 0
  /\ push_pc = "idle" /\ pushing = Blank
  /\ pop_pc = "idle" /\ record = Blank
  /\ pushed = TRUE /\ popped = TRUE

-----------------------------------------------------------------------------
(* try_push *)

PushRefused ==
  /\ push_pc = "idle"
  /\ Full
  /\ pushed' = FALSE
  /\ UNCHANGED <<storage, head, seen_tail, push_pc, pushing, consumer_vars>>

PushBegins(value) ==
  /\ push_pc = "idle"
  /\ ~Full
  /\ push_pc' = "copy"
  /\ pushing' = value
  /\ UNCHANGED <<storage, head, seen_tail, pushed, consumer_vars>>

PushCopies ==
  /\ push_pc = "copy"
  /\ storage' = [storage EXCEPT ![Cell(head)] = pushing]
  /\ push_pc' = "publish"
  /\ UNCHANGED <<head, seen_tail, pushing, pushed, consumer_vars>>

PushPublishes ==
  /\ push_pc = "publish"
  /\ head' = Successor(head)
  /\ pushed' = TRUE
  /\ push_pc' = "idle"
  /\ UNCHANGED <<storage, seen_tail, pushing, consumer_vars>>

TailArrives ==
  /\ seen_tail # tail
  /\ seen_tail' = Successor(seen_tail)
  /\ UNCHANGED <<storage, head, push_pc, pushing, pushed, consumer_vars>>

-----------------------------------------------------------------------------
(* try_pop *)

PopFindsNothing ==
  /\ pop_pc = "idle"
  /\ Empty
  /\ popped' = FALSE
  /\ UNCHANGED <<storage, tail, seen_head, pop_pc, record, producer_vars>>

PopBegins ==
  /\ pop_pc = "idle"
  /\ ~Empty
  /\ pop_pc' = "copy"
  /\ UNCHANGED <<storage, tail, seen_head, record, popped, producer_vars>>

PopCopies ==
  /\ pop_pc = "copy"
  /\ record' = storage[Cell(tail)]
  /\ pop_pc' = "release"
  /\ UNCHANGED <<storage, tail, seen_head, popped, producer_vars>>

PopReleases ==
  /\ pop_pc = "release"
  /\ tail' = Successor(tail)
  /\ popped' = TRUE
  /\ pop_pc' = "idle"
  /\ UNCHANGED <<storage, seen_head, record, producer_vars>>

HeadArrives ==
  /\ seen_head # head
  /\ seen_head' = Successor(seen_head)
  /\ UNCHANGED <<storage, tail, pop_pc, record, popped, producer_vars>>

-----------------------------------------------------------------------------

RingNext ==
  \/ PushRefused \/ PushCopies \/ PushPublishes \/ TailArrives
  \/ \E value \in Records : PushBegins(value)
  \/ PopFindsNothing \/ PopBegins \/ PopCopies \/ PopReleases \/ HeadArrives

RingSpec == RingInit /\ [][RingNext]_ring_vars

-----------------------------------------------------------------------------

RingTypeOK ==
  /\ storage \in [Cells -> Records \cup {Blank}]
  /\ {head, tail, seen_head, seen_tail} \subseteq Indices
  /\ push_pc \in {"idle", "copy", "publish"}
  /\ pop_pc \in {"idle", "copy", "release"}
  /\ {pushing, record} \subseteq Records \cup {Blank}
  /\ {pushed, popped} \subseteq BOOLEAN

(* Once round the indices, starting from what the producer knows of the    *)
(* tail, come the tail, what the consumer knows of the head, and the head, *)
(* all within one round of the ring; a thread that is past its check still *)
(* has the room, or the item, the check found (SpscRing.h:26-29, :41-44).  *)
IndicesInOrder ==
  /\ Minus(tail, seen_tail) <= Minus(seen_head, seen_tail)
  /\ Minus(seen_head, seen_tail) <= Minus(head, seen_tail)
  /\ Minus(head, seen_tail) <= Capacity
  /\ push_pc # "idle" => ~Full
  /\ pop_pc # "idle" => ~Empty

(* However late the threads see each other's index, they are never both    *)
(* inside the copy of the same cell, not even when the indices have        *)
(* wrapped around (SpscRing.h:29-33, :44-48).                              *)
NoSharedCell ==
  push_pc = "copy" /\ pop_pc = "copy" => Cell(head) # Cell(tail)

(* What is in flight: everything from the first cell the consumer has not  *)
(* copied out to the last one published.                                   *)
First == IF pop_pc = "release" THEN Successor(tail) ELSE tail

InFlight ==
  [i \in 1 .. Minus(head, First) |-> storage[(First + i - 1) % Capacity]]

Fifo == INSTANCE BoundedFifo WITH
  Items <- Records,
  queue <- InFlight,
  arrived <- Minus(seen_head, First),
  held <- IF pop_pc = "release" THEN <<record>> ELSE <<>>,
  unclaimed <- Minus(tail, seen_tail)

(* The ring is a first-in first-out queue of Capacity places: it loses,    *)
(* repeats, reorders and tears nothing, a push is refused only when the    *)
(* producer knows of no free cell, and a pop finds nothing only when the   *)
(* consumer knows of no item (SpscRing.h:25-53).                           *)
ImplementsBoundedFifo == Fifo!Spec

=============================================================================
