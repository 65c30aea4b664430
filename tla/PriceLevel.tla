----------------------------- MODULE PriceLevel -----------------------------
(***************************************************************************)
(* The pool of orders and the price levels, link by link                   *)
(* (src/engine/OrderPool.h, PriceLevel.h, Order.h).  An Order carries one  *)
(* pair of links: next threads it into the free list of the pool while it  *)
(* is unused, next and prev into the list of its level while it rests.     *)
(* The quantities an order and a level carry are in module OrderBook.      *)
(*                                                                         *)
(* An action is what the book does with an order in one go: the calls of   *)
(* the pool and of the level, in the order OrderBook.cpp makes them.       *)
(***************************************************************************)
EXTENDS Integers, FiniteSets, SequencesExt

CONSTANTS
  PoolCapacity,  \* the orders of the pool
  Levels         \* the price levels of both sides

ASSUME PoolAssumption == PoolCapacity \in Nat \ {0}

VARIABLES
  links,      \* prev and next of every order of the pool
  free_head,  \* the first of the free list
  size,       \* how many orders were ever handed out
  ends,       \* head and tail of every level
  pending,    \* the order admitted and neither resting nor released
  exhausted   \* did the last allocate return nullptr?

vars == <<links, free_head, size, ends, pending, exhausted>>

-----------------------------------------------------------------------------

Null == 0
Slots == 1 .. PoolCapacity
Unlinked == [prev |-> Null, next |-> Null]

Init ==
  /\ links = [o \in Slots |-> Unlinked]
  /\ free_head = Null
  /\ size = 0
  /\ ends = [l \in Levels |-> [head |-> Null, tail |-> Null]]
  /\ pending = Null
  /\ exhausted = FALSE

(* p->next = q and p->prev = q, behind the test of p against nullptr.      *)
SetNext(memory, p, q) ==
  IF p = Null THEN memory ELSE [memory EXCEPT ![p].next = q]
SetPrev(memory, p, q) ==
  IF p = Null THEN memory ELSE [memory EXCEPT ![p].prev = q]

-----------------------------------------------------------------------------
(* OrderPool *)

(* Mutant: the head of the free list stays where it is.                    *)
AllocateKeepingHead ==
  IF free_head # Null
  THEN /\ pending' = free_head
       /\ links' = [links EXCEPT ![free_head] = Unlinked]
       /\ UNCHANGED <<free_head, size>>
  ELSE /\ pending' = size + 1
       /\ size' = size + 1
       /\ UNCHANGED <<links, free_head>>

(* The most recently released order or, when there is none, the next one   *)
(* never used; the order is blank either way.                              *)
Allocate ==
  IF free_head # Null
  THEN /\ pending' = free_head
       /\ free_head' = links[free_head].next
       /\ links' = [links EXCEPT ![free_head] = Unlinked]
       /\ UNCHANGED size
  ELSE /\ pending' = size + 1
       /\ size' = size + 1
       /\ UNCHANGED <<links, free_head>>

(* Mutant: the pool hands out one order more than it has.                  *)
PoolExhaustedLate == free_head = Null /\ size > PoolCapacity

PoolExhausted == free_head = Null /\ size = PoolCapacity

(* release(o), the links being memory when it is called.                   *)
Release(memory, o) ==
  /\ links' = [memory EXCEPT ![o] = [prev |-> Null, next |-> free_head]]
  /\ free_head' = o

-----------------------------------------------------------------------------
(* PriceLevel *)

PushBack(l, o) ==
  /\ links' = SetNext([links EXCEPT ![o] = [prev |-> ends[l].tail, next |-> Null]],
                      ends[l].tail, o)
  /\ ends' = [ends EXCEPT ![l] =
       [head |-> IF @.tail = Null THEN o ELSE @.head, tail |-> o]]

(* Mutant: the successor keeps its link to the removed order.              *)
RemovedOneWay(o) ==
  [SetNext(links, links[o].prev, links[o].next) EXCEPT ![o] = Unlinked]

(* remove(o): the links after the call, and the ends of the level.         *)
Removed(o) ==
  LET bridged == SetPrev(SetNext(links, links[o].prev, links[o].next),
                         links[o].next, links[o].prev)
  IN  [bridged EXCEPT ![o] = Unlinked]

(* Mutant: the tail of the level stays on the order removed from there.    *)
EndsWithoutTail(l, o) ==
  [head |-> IF links[o].prev = Null THEN links[o].next ELSE ends[l].head,
   tail |-> ends[l].tail]

EndsWithout(l, o) ==
  [head |-> IF links[o].prev = Null THEN links[o].next ELSE ends[l].head,
   tail |-> IF links[o].next = Null THEN links[o].prev ELSE ends[l].tail]

(* A resting order leaves its level and returns to the pool.               *)
RemoveAndRelease(l, o) ==
  /\ ends' = [ends EXCEPT ![l] = EndsWithout(l, o)]
  /\ Release(Removed(o), o)
  /\ UNCHANGED <<size, exhausted>>

-----------------------------------------------------------------------------
(* The orders on the way from the first of a list along one of its links,  *)
(* after n steps each, Null once the list has ended.  The walk goes on for *)
(* one step more than there are orders, so that a ring shows as too long.  *)
Walk(first, link) ==
  LET at[n \in 0 .. PoolCapacity] ==
        IF n = 0 THEN first
        ELSE IF at[n - 1] = Null THEN Null
        ELSE link[at[n - 1]]
  IN  at

(* The orders a list is made of.                                           *)
Chain(first, link) ==
  LET at == Walk(first, link)
  IN  [i \in 1 .. Cardinality({n \in 0 .. PoolCapacity : at[n] # Null}) |-> at[i - 1]]

Nexts == [o \in Slots |-> links[o].next]
Prevs == [o \in Slots |-> links[o].prev]
FreeList == Chain(free_head, Nexts)
Queue(l) == Chain(ends[l].head, Nexts)
Queues == [l \in Levels |-> Queue(l)]

(* The book: admit, with Discard for what the lookup map refuses and for a *)
(* filled aggressor, execute and cancel.  Which level an order fills or    *)
(* joins is a matter of prices: here it may be any.                        *)
Place ==
  /\ pending = Null
  /\ ~PoolExhausted
  /\ Allocate
  /\ exhausted' = FALSE
  /\ UNCHANGED ends

Refuse ==
  /\ pending = Null
  /\ PoolExhausted
  /\ exhausted' = TRUE
  /\ UNCHANGED <<links, free_head, size, ends, pending>>

Discard ==
  /\ pending # Null
  /\ Release(links, pending)
  /\ pending' = Null
  /\ UNCHANGED <<size, ends, exhausted>>

Rest(l) ==
  /\ pending # Null
  /\ PushBack(l, pending)
  /\ pending' = Null
  /\ UNCHANGED <<free_head, size, exhausted>>

FillFront(l) ==
  /\ pending # Null
  /\ ends[l].head # Null
  /\ RemoveAndRelease(l, ends[l].head)
  /\ UNCHANGED pending

Cancel(l, o) ==
  /\ pending = Null
  /\ RemoveAndRelease(l, o)
  /\ UNCHANGED pending

Next ==
  \/ Place \/ Refuse \/ Discard
  \/ \E l \in Levels :
       Rest(l) \/ FillFront(l) \/ \E i \in DOMAIN Queue(l) : Cancel(l, Queue(l)[i])

Spec == Init /\ [][Next]_vars

-----------------------------------------------------------------------------

TypeOK ==
  /\ links \in [Slots -> [prev : 0 .. PoolCapacity, next : 0 .. PoolCapacity]]
  /\ size \in 0 .. PoolCapacity
  /\ {free_head, pending} \subseteq 0 .. PoolCapacity
  /\ ends \in [Levels -> [head : 0 .. PoolCapacity, tail : 0 .. PoolCapacity]]
  /\ exhausted \in BOOLEAN

(* A level read backwards from its tail is the level read forwards: no     *)
(* removal, at either end or in the middle, leaves a link behind           *)
(* (PriceLevel.h:19-52).                                                   *)
LevelsReadBothWays ==
  \A l \in Levels : Chain(ends[l].tail, Prevs) = Reverse(Queue(l))

(* The lists hold every order once: the free list, the levels and the      *)
(* hands of the book share none and leave none out.                        *)
HoldEveryOrderOnce(frees, queues) ==
  /\ IsInjective(frees) /\ pending \notin Range(frees)
  /\ \A l \in Levels :
       /\ IsInjective(queues[l]) /\ pending \notin Range(queues[l])
       /\ Range(queues[l]) \cap Range(frees) = {}
       /\ \A k \in Levels \ {l} : Range(queues[l]) \cap Range(queues[k]) = {}
  /\ 1 .. size = Range(frees) \cup ({pending} \ {Null})
                  \cup (UNION {Range(queues[l]) : l \in Levels})

(* Every order ever handed out is in exactly one place: the free list, one *)
(* level, or the hands of the book; none leaks and none is shared, though  *)
(* all lists use the same links (OrderPool.h:19-41, PriceLevel.h:19-52).   *)
EveryOrderInOnePlace == HoldEveryOrderOnce(FreeList, Queues)

(* The links, read as the neighbours of each order in the lists.           *)
Nth(queue, i) == IF i \in DOMAIN queue THEN queue[i] ELSE Null

FreeListLinked(frees) ==
  /\ free_head = Nth(frees, 1)
  /\ \A i \in DOMAIN frees : links[frees[i]].next = Nth(frees, i + 1)

LevelLinked(l, queue) ==
  /\ ends[l] = [head |-> Nth(queue, 1), tail |-> Nth(queue, Len(queue))]
  /\ \A i \in DOMAIN queue :
       links[queue[i]] = [prev |-> Nth(queue, i - 1), next |-> Nth(queue, i + 1)]

(* The links form the free list and the queues, and nothing else.          *)
Linked(frees, queues) ==
  /\ FreeListLinked(frees)
  /\ \A l \in Levels : LevelLinked(l, queues[l])
  /\ HoldEveryOrderOnce(frees, queues)

(* The conjunction that is inductive; module PriceLevel_proofs proves it.  *)
LinksInv ==
  /\ TypeOK
  /\ FreeList \in Seq(Slots) /\ Queues \in [Levels -> Seq(Slots)]
  /\ Linked(FreeList, Queues)

Orders == INSTANCE OrderQueues WITH
  NoSlot <- Null,
  free <- (Slots \ 1 .. size) \cup Range(FreeList),
  queues <- Queues

(* The links are the sets and the queues they stand for: allocate fails    *)
(* only when every order of the pool is in use, and a level keeps the      *)
(* order of arrival whatever is removed from it (OrderPool.h:19-41,        *)
(* PriceLevel.h:15-56).                                                    *)
ImplementsOrderQueues == Orders!Spec

=============================================================================
