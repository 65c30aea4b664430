------------------------- MODULE PriceLevel_proofs -------------------------
(***************************************************************************)
(* Proofs about the pool and the price levels, for every capacity and any  *)
(* levels: the links always form the free list and the queues they stand   *)
(* for (LinksInv), from which the invariants and the refinement of module  *)
(* OrderQueues follow.                                                     *)
(***************************************************************************)
EXTENDS PriceLevel, FiniteSetTheorems, SequenceTheorems, WellFoundedInduction, TLAPS

-----------------------------------------------------------------------------
(* Walks along the links                                                   *)

(* A set of numbers has a least one.                                       *)
LEMMA LeastNumber ==
  ASSUME NEW S \in SUBSET Nat, S # {}
  PROVE  \E m \in S : \A n \in S : m <= n
<1>1. PICK m \in S : \A n \in S : ~(<<n, m>> \in OpToRel(<, Nat))
  BY NatLessThanWellFounded, WFMin
<1>2. \A n \in S : ~(n < m)
  BY <1>1 DEF OpToRel
<1> QED
  BY <1>2

LEMMA CountUpTo ==
  \A n \in Nat : IsFiniteSet(1 .. n) /\ Cardinality(1 .. n) = n
<1> SUFFICES ASSUME NEW n \in Nat PROVE IsFiniteSet(1 .. n) /\ Cardinality(1 .. n) = n
  OBVIOUS
<1>1. 1 \in Int /\ n \in Int
  OBVIOUS
<1>2. IsFiniteSet(1 .. n) /\ Cardinality(1 .. n) = IF 1 > n THEN 0 ELSE n - 1 + 1
  BY <1>1, FS_Interval
<1> QED
  BY <1>2

(* What the walk from first along link has to satisfy.                     *)
IsWalk(at, first, link) ==
  at = [n \in 0 .. PoolCapacity |->
          IF n = 0 THEN first
          ELSE IF at[n - 1] = Null THEN Null
          ELSE link[at[n - 1]]]

LEMMA WalkExists ==
  ASSUME NEW first, NEW link, NEW at, IsWalk(at, first, link)
  PROVE  IsWalk(Walk(first, link), first, link)
BY Zenon DEF Walk, IsWalk

(* The orders of a list follow one another along link, up to its end.      *)
Threaded(queue, first, link) ==
  /\ first = Nth(queue, 1)
  /\ \A i \in DOMAIN queue : link[queue[i]] = Nth(queue, i + 1)

Positions(queue) == [n \in 0 .. PoolCapacity |-> Nth(queue, n + 1)]

LEMMA QueueDomain ==
  ASSUME NEW queue \in Seq(Slots)
  PROVE  /\ Len(queue) \in Nat
         /\ DOMAIN queue = 1 .. Len(queue)
         /\ \A i \in 1 .. Len(queue) : queue[i] \in Slots /\ Nth(queue, i) = queue[i]
         /\ \A i : i \notin 1 .. Len(queue) => Nth(queue, i) = Null
         /\ Null \notin Slots
<1>1. Len(queue) \in Nat /\ DOMAIN queue = 1 .. Len(queue)
  BY LenProperties
<1>2. \A i \in 1 .. Len(queue) : queue[i] \in Slots
  BY ElementOfSeq
<1>3. Null \notin Slots
  BY DEF Slots, Null
<1> QED
  BY <1>1, <1>2, <1>3 DEF Nth

LEMMA ThreadIsWalk ==
  ASSUME NEW queue \in Seq(Slots), NEW first, NEW link, Threaded(queue, first, link)
  PROVE  IsWalk(Positions(queue), first, link)
<1> DEFINE at == Positions(queue)
<1>1. SUFFICES ASSUME NEW n \in 0 .. PoolCapacity
               PROVE  at[n] = IF n = 0 THEN first
                              ELSE IF at[n - 1] = Null THEN Null
                              ELSE link[at[n - 1]]
  BY DEF IsWalk, Positions
<1>2. at[n] = Nth(queue, n + 1)
  BY DEF Positions
<1>3. CASE n = 0
  BY <1>2, <1>3 DEF Threaded
<1>4. CASE n # 0
  <2>1. n - 1 \in 0 .. PoolCapacity /\ (n - 1) + 1 = n
    BY <1>4, PoolAssumption
  <2>2. at[n - 1] = Nth(queue, n)
    BY <2>1 DEF Positions
  <2>3. CASE n \in 1 .. Len(queue)
    <3>1. at[n - 1] = queue[n] /\ queue[n] # Null /\ n \in DOMAIN queue
      BY <2>2, <2>3, QueueDomain
    <3> QED
      BY <3>1, <1>2, <1>4 DEF Threaded
  <2>4. CASE n \notin 1 .. Len(queue)
    <3>1. n + 1 \notin 1 .. Len(queue)
      BY <2>4, <1>4, PoolAssumption, QueueDomain
    <3>2. at[n] = Null /\ at[n - 1] = Null
      BY <3>1, <2>4, <2>2, <1>2, QueueDomain
    <3> QED
      BY <3>2, <1>4
  <2> QED
    BY <2>3, <2>4
<1> QED
  BY <1>3, <1>4

LEMMA WalkUnique ==
  ASSUME NEW first, NEW link, NEW f, NEW g,
         IsWalk(f, first, link), IsWalk(g, first, link)
  PROVE  f = g
<1> DEFINE apart == {n \in 0 .. PoolCapacity : f[n] # g[n]}
<1>1. ASSUME apart # {}
      PROVE  FALSE
  <2>1. apart \in SUBSET Nat
    BY PoolAssumption
  <2>2. PICK m \in apart : \A n \in apart : m <= n
    BY <1>1, <2>1, LeastNumber
  <2>3. m \in 0 .. PoolCapacity /\ f[m] # g[m]
    OBVIOUS
  <2>4. m # 0
    BY <2>3 DEF IsWalk
  <2>5. m - 1 \in 0 .. PoolCapacity /\ m - 1 \notin apart
    BY <2>2, <2>3, <2>4, PoolAssumption
  <2>6. f[m - 1] = g[m - 1]
    BY <2>5
  <2>7. /\ f[m] = IF f[m - 1] = Null THEN Null ELSE link[f[m - 1]]
        /\ g[m] = IF g[m - 1] = Null THEN Null ELSE link[g[m - 1]]
    BY <2>3, <2>4 DEF IsWalk
  <2> QED
    BY <2>3, <2>6, <2>7
<1>2. /\ f = [n \in 0 .. PoolCapacity |-> f[n]]
      /\ g = [n \in 0 .. PoolCapacity |-> g[n]]
  BY DEF IsWalk
<1>3. \A n \in 0 .. PoolCapacity : f[n] = g[n]
  BY <1>1
<1> QED
  BY <1>2, <1>3

(* A thread that fits in the pool is read back as it is.                   *)
LEMMA ChainIsThread ==
  ASSUME NEW queue \in Seq(Slots), Len(queue) <= PoolCapacity,
         NEW first, NEW link, Threaded(queue, first, link)
  PROVE  Chain(first, link) = queue
<1> DEFINE at == Walk(first, link)
           reached == {n \in 0 .. PoolCapacity : at[n] # Null}
<1>1. at = Positions(queue)
  <2>1. IsWalk(Positions(queue), first, link)
    BY ThreadIsWalk
  <2>2. IsWalk(at, first, link)
    BY <2>1, WalkExists
  <2> QED
    BY <2>1, <2>2, WalkUnique
<1>2. reached = 0 .. Len(queue) - 1
  <2>1. ASSUME NEW n \in 0 .. PoolCapacity
        PROVE  at[n] # Null <=> n \in 0 .. Len(queue) - 1
    <3>1. at[n] = Nth(queue, n + 1)
      BY <1>1 DEF Positions
    <3>2. n \in 0 .. Len(queue) - 1 <=> n + 1 \in 1 .. Len(queue)
      BY PoolAssumption, QueueDomain
    <3> QED
      BY <3>1, <3>2, QueueDomain
  <2>2. 0 .. Len(queue) - 1 \subseteq 0 .. PoolCapacity
    BY PoolAssumption, QueueDomain
  <2> QED
    BY <2>1, <2>2
<1>3. Cardinality(reached) = Len(queue)
  <2>1. Len(queue) \in Nat
    BY QueueDomain
  <2>2. 0 \in Int /\ Len(queue) - 1 \in Int
    BY <2>1
  <2>3. Cardinality(0 .. Len(queue) - 1) =
          IF 0 > Len(queue) - 1 THEN 0 ELSE (Len(queue) - 1) - 0 + 1
    BY <2>2, FS_Interval
  <2>4. Cardinality(0 .. Len(queue) - 1) = Len(queue)
    BY <2>1, <2>3
  <2> HIDE DEF reached
  <2> QED
    BY <1>2, <2>4
<1>4. Chain(first, link) = [i \in 1 .. Cardinality(reached) |-> at[i - 1]]
  BY DEF Chain
<1>5. \A i \in 1 .. Len(queue) : at[i - 1] = queue[i]
  <2> SUFFICES ASSUME NEW i \in 1 .. Len(queue) PROVE at[i - 1] = queue[i]
    OBVIOUS
  <2>1. i - 1 \in 0 .. PoolCapacity /\ (i - 1) + 1 = i
    BY PoolAssumption, QueueDomain
  <2> QED
    BY <1>1, <2>1, QueueDomain DEF Positions
<1>6. queue = [i \in 1 .. Len(queue) |-> queue[i]]
  BY LenProperties
<1> HIDE DEF at, reached
<1> QED
  BY <1>3, <1>4, <1>5, <1>6

(* A list without repetitions fits in the pool.                            *)
LEMMA ListsFit ==
  ASSUME NEW queue \in Seq(Slots), IsInjective(queue)
  PROVE  Len(queue) <= PoolCapacity
<1>1. Len(queue) \in Nat /\ queue \in [1 .. Len(queue) -> Slots]
  BY LenProperties
<1>2. queue \in Injection(1 .. Len(queue), Slots)
  BY <1>1 DEF Injection
<1>3. IsFiniteSet(Slots) /\ Cardinality(Slots) = PoolCapacity
  BY PoolAssumption, CountUpTo DEF Slots
<1>4. Cardinality(1 .. Len(queue)) <= PoolCapacity
  BY <1>2, <1>3, FS_Injection
<1>5. Cardinality(1 .. Len(queue)) = Len(queue)
  BY <1>1, CountUpTo
<1> QED
  BY <1>4, <1>5

-----------------------------------------------------------------------------
(* The links and the lists                                                 *)

LEMMA ReversedQueue ==
  ASSUME NEW queue \in Seq(Slots)
  PROVE  /\ Reverse(queue) \in Seq(Slots)
         /\ Len(Reverse(queue)) = Len(queue)
         /\ \A i \in 1 .. Len(queue) :
              /\ (Len(queue) - i) + 1 \in 1 .. Len(queue)
              /\ Reverse(queue)[i] = queue[(Len(queue) - i) + 1]
         /\ \A i \in 1 .. Len(queue) + 1 :
              Nth(Reverse(queue), i) = Nth(queue, (Len(queue) - i) + 1)
<1> DEFINE n == Len(queue)
           back == Reverse(queue)
<1>1. n \in Nat
  BY QueueDomain
<1>2. back = [i \in 1 .. n |-> queue[(n - i) + 1]]
  BY DEF Reverse
<1>3. \A i \in 1 .. n : (n - i) + 1 \in 1 .. n
  BY <1>1
<1>4. \A i \in 1 .. n : queue[(n - i) + 1] \in Slots
  BY <1>3, QueueDomain
<1> HIDE DEF n, back
<1>5. back \in [1 .. n -> Slots]
  BY <1>2, <1>4
<1>6. back \in Seq(Slots)
  BY <1>1, <1>5, SeqDef
<1>7. Len(back) = n
  <2>1. Len(back) \in Nat /\ DOMAIN back = 1 .. Len(back)
    BY <1>6, LenProperties
  <2>2. 1 .. Len(back) = 1 .. n
    <3>1. DOMAIN back = 1 .. n
      BY <1>2
    <3> QED
      BY <2>1, <3>1
  <2>3. /\ Cardinality(1 .. Len(back)) = Len(back)
        /\ Cardinality(1 .. n) = n
    BY <1>1, <2>1, CountUpTo
  <2> QED
    BY <2>2, <2>3
<1>8. \A i \in 1 .. n : back[i] = queue[(n - i) + 1]
  BY <1>2
<1>9. ASSUME NEW i \in 1 .. n + 1
      PROVE  Nth(back, i) = Nth(queue, (n - i) + 1)
  <2>1. CASE i \in 1 .. n
    <3>1. Nth(back, i) = back[i]
      BY <2>1, <1>6, <1>7, QueueDomain
    <3>2. Nth(queue, (n - i) + 1) = queue[(n - i) + 1]
      BY <2>1, <1>3, QueueDomain DEF n
    <3> QED
      BY <2>1, <3>1, <3>2, <1>8
  <2>2. CASE i \notin 1 .. n
    <3>1. (n - i) + 1 \notin 1 .. n
      BY <2>2, <1>1
    <3> QED
      BY <2>2, <3>1, <1>6, <1>7, QueueDomain DEF n
  <2> QED
    BY <2>1, <2>2
<1> QED
  BY <1>3, <1>6, <1>7, <1>8, <1>9 DEF n, back

(* The walks of the model find the lists that the links form.              *)
LEMMA ListsRead ==
  ASSUME NEW frees \in Seq(Slots), NEW queues \in [Levels -> Seq(Slots)],
         Linked(frees, queues)
  PROVE  /\ FreeList = frees
         /\ \A l \in Levels : Queue(l) = queues[l]
         /\ Queues = queues
         /\ \A l \in Levels : Chain(ends[l].tail, Prevs) = Reverse(queues[l])
<1>1. FreeList = frees
  <2>1. IsInjective(frees)
    BY DEF Linked, HoldEveryOrderOnce
  <2>2. Len(frees) <= PoolCapacity
    BY <2>1, ListsFit
  <2>3. free_head = Nth(frees, 1)
    BY DEF Linked, FreeListLinked
  <2>4. ASSUME NEW i \in DOMAIN frees
        PROVE  Nexts[frees[i]] = Nth(frees, i + 1)
    <3>1. frees[i] \in Slots
      BY QueueDomain
    <3>2. Nexts[frees[i]] = links[frees[i]].next
      BY <3>1 DEF Nexts
    <3> QED
      BY <3>2 DEF Linked, FreeListLinked
  <2>5. Threaded(frees, free_head, Nexts)
    BY <2>3, <2>4 DEF Threaded
  <2> QED
    BY <2>2, <2>5, ChainIsThread DEF FreeList
<1>2. ASSUME NEW l \in Levels
      PROVE  Queue(l) = queues[l] /\ Chain(ends[l].tail, Prevs) = Reverse(queues[l])
  <2>0. PICK queue \in Seq(Slots) : queue = queues[l]
    OBVIOUS
  <2>1. IsInjective(queue) /\ LevelLinked(l, queue)
    BY <2>0 DEF Linked, HoldEveryOrderOnce
  <2>2. Len(queue) <= PoolCapacity
    BY <2>1, ListsFit
  <2>3. ends[l].head = Nth(queue, 1) /\ ends[l].tail = Nth(queue, Len(queue))
    BY <2>1 DEF LevelLinked
  <2>4. ASSUME NEW i \in DOMAIN queue
        PROVE  /\ Nexts[queue[i]] = Nth(queue, i + 1)
               /\ Prevs[queue[i]] = Nth(queue, i - 1)
    <3>1. queue[i] \in Slots
      BY QueueDomain
    <3>2. Nexts[queue[i]] = links[queue[i]].next /\ Prevs[queue[i]] = links[queue[i]].prev
      BY <3>1 DEF Nexts, Prevs
    <3>3. links[queue[i]] = [prev |-> Nth(queue, i - 1), next |-> Nth(queue, i + 1)]
      BY <2>1 DEF LevelLinked
    <3> QED
      BY <3>2, <3>3
  <2>5. Threaded(queue, ends[l].head, Nexts)
    BY <2>3, <2>4 DEF Threaded
  <2>6. Queue(l) = queue
    BY <2>2, <2>5, ChainIsThread DEF Queue
  <2> DEFINE back == Reverse(queue)
             n == Len(queue)
  <2>7. /\ n \in Nat /\ DOMAIN queue = 1 .. n
        /\ back \in Seq(Slots) /\ Len(back) = n /\ DOMAIN back = 1 .. n
    BY ReversedQueue, QueueDomain
  <2>8. ends[l].tail = Nth(back, 1)
    <3>1. 1 \in 1 .. n + 1 /\ (n - 1) + 1 = n
      BY <2>7
    <3> QED
      BY <3>1, <2>3, ReversedQueue
  <2>9. ASSUME NEW i \in DOMAIN back
        PROVE  Prevs[back[i]] = Nth(back, i + 1)
    <3>1. /\ i \in 1 .. n /\ i + 1 \in 1 .. n + 1
          /\ (n - i) + 1 \in 1 .. n
          /\ ((n - i) + 1) - 1 = (n - (i + 1)) + 1
      BY <2>7
    <3>2. back[i] = queue[(n - i) + 1] /\ Nth(back, i + 1) = Nth(queue, (n - (i + 1)) + 1)
      BY <3>1, ReversedQueue
    <3>3. Prevs[queue[(n - i) + 1]] = Nth(queue, ((n - i) + 1) - 1)
      BY <3>1, <2>4, <2>7
    <3> QED
      BY <3>1, <3>2, <3>3
  <2>10. Threaded(back, ends[l].tail, Prevs)
    BY <2>8, <2>9 DEF Threaded
  <2>11. Chain(ends[l].tail, Prevs) = back
    BY <2>2, <2>7, <2>10, ChainIsThread
  <2> QED
    BY <2>0, <2>6, <2>11
<1>3. Queues = queues
  BY <1>2 DEF Queues
<1> QED
  BY <1>1, <1>2, <1>3

LEMMA AllListsRead ==
  \A f \in Seq(Slots), q \in [Levels -> Seq(Slots)] :
    Linked(f, q) => FreeList = f /\ Queues = q
BY ListsRead

LEMMA ListsReadAfter ==
  \A f \in Seq(Slots), q \in [Levels -> Seq(Slots)] :
    Linked(f, q)' => FreeList' = f /\ Queues' = q
<1>1. [](\A f \in Seq(Slots), q \in [Levels -> Seq(Slots)] :
           Linked(f, q) => FreeList = f /\ Queues = q)
  BY AllListsRead, PTL
<1>2. (\A f \in Seq(Slots), q \in [Levels -> Seq(Slots)] :
         Linked(f, q) => FreeList = f /\ Queues = q)'
  BY <1>1, PTL
<1> QED
  BY <1>2

-----------------------------------------------------------------------------
(* An order joins a list at its front or its back, or leaves it            *)

LEMMA NthOutside ==
  ASSUME NEW queue \in Seq(Slots), NEW i \in Int
  PROVE  Nth(queue, i) = Null <=> i \notin 1 .. Len(queue)
BY QueueDomain

LEMMA RangeOfQueue ==
  ASSUME NEW queue \in Seq(Slots)
  PROVE  /\ Range(queue) = {queue[i] : i \in 1 .. Len(queue)}
         /\ Range(queue) \subseteq Slots
         /\ IsInjective(queue) <=>
              \A i, j \in 1 .. Len(queue) : queue[i] = queue[j] => i = j
<1>1. DOMAIN queue = 1 .. Len(queue)
  BY QueueDomain
<1>2. Range(queue) = {queue[i] : i \in 1 .. Len(queue)}
  BY <1>1 DEF Range
<1>3. Range(queue) \subseteq Slots
  BY <1>2, QueueDomain
<1>4. IsInjective(queue) <=>
        \A i, j \in 1 .. Len(queue) : queue[i] = queue[j] => i = j
  BY <1>1 DEF IsInjective
<1> QED
  BY <1>2, <1>3, <1>4

LEMMA JoinFront ==
  ASSUME NEW queue \in Seq(Slots), NEW o \in Slots \ Range(queue), IsInjective(queue)
  PROVE  LET joined == <<o>> \o queue
         IN  /\ joined \in Seq(Slots)
             /\ Len(joined) = Len(queue) + 1
             /\ joined[1] = o /\ Nth(joined, 1) = o
             /\ \A i \in 1 .. Len(queue) : joined[i + 1] = queue[i]
             /\ \A i \in Nat \ {0} : Nth(joined, i + 1) = Nth(queue, i)
             /\ Range(joined) = Range(queue) \cup {o}
             /\ IsInjective(joined)
<1> DEFINE joined == <<o>> \o queue
           n == Len(queue)
<1>0. n \in Nat
  BY QueueDomain
<1>1. <<o>> \in Seq(Slots) /\ Len(<<o>>) = 1 /\ <<o>>[1] = o
  OBVIOUS
<1>2. /\ joined \in Seq(Slots)
      /\ Len(joined) = 1 + n
      /\ \A i \in 1 .. 1 + n : joined[i] = IF i <= 1 THEN <<o>>[i] ELSE queue[i - 1]
  <2>1. /\ joined \in Seq(Slots)
        /\ Len(joined) = Len(<<o>>) + n
        /\ \A i \in 1 .. Len(<<o>>) + n :
             joined[i] = IF i <= Len(<<o>>) THEN <<o>>[i] ELSE queue[i - Len(<<o>>)]
    BY <1>1, ConcatProperties
  <2> QED
    BY <2>1, <1>1
<1> HIDE DEF joined, n
<1>3. joined[1] = o /\ Len(joined) = n + 1 /\ 1 \in 1 .. Len(joined)
  BY <1>0, <1>1, <1>2
<1>4. ASSUME NEW i \in 1 .. n
      PROVE  joined[i + 1] = queue[i]
  <2>1. i + 1 \in 1 .. 1 + n /\ ~(i + 1 <= 1) /\ (i + 1) - 1 = i
    BY <1>0
  <2> QED
    BY <2>1, <1>2
<1>5. Nth(joined, 1) = o
  BY <1>2, <1>3, QueueDomain
<1>6. ASSUME NEW i \in Nat \ {0}
      PROVE  Nth(joined, i + 1) = Nth(queue, i)
  <2>1. CASE i \in 1 .. n
    <3>1. i + 1 \in 1 .. Len(joined)
      BY <2>1, <1>0, <1>3
    <3>2. Nth(joined, i + 1) = joined[i + 1]
      BY <3>1, <1>2, QueueDomain
    <3> QED
      BY <2>1, <3>2, <1>4, QueueDomain DEF n
  <2>2. CASE i \notin 1 .. n
    <3>1. i + 1 \notin 1 .. Len(joined)
      BY <2>2, <1>0, <1>3
    <3> QED
      BY <2>2, <3>1, <1>2, QueueDomain DEF n
  <2> QED
    BY <2>1, <2>2
<1>7. ASSUME NEW j \in 1 .. Len(joined)
      PROVE  \/ j = 1 /\ joined[j] = o
             \/ j - 1 \in 1 .. n /\ joined[j] = queue[j - 1]
  BY <1>0, <1>2, <1>3
<1>8. Range(joined) = Range(queue) \cup {o}
  <2>1. ASSUME NEW x \in Range(joined) PROVE x \in Range(queue) \cup {o}
    BY <1>2, <1>7, RangeOfQueue DEF n
  <2>2. ASSUME NEW x \in Range(queue) PROVE x \in Range(joined)
    <3>1. PICK i \in 1 .. n : x = queue[i]
      BY RangeOfQueue DEF n
    <3>2. i + 1 \in 1 .. Len(joined) /\ joined[i + 1] = x
      BY <3>1, <1>0, <1>3, <1>4
    <3> QED
      BY <3>2, <1>2, RangeOfQueue
  <2>3. o \in Range(joined)
    BY <1>2, <1>3, RangeOfQueue
  <2> QED
    BY <2>1, <2>2, <2>3
<1>9. IsInjective(joined)
  <2>1. ASSUME NEW i \in 1 .. Len(joined), NEW j \in 1 .. Len(joined), joined[i] = joined[j]
        PROVE  i = j
    <3>1. \A m \in 1 .. n : queue[m] # o
      BY RangeOfQueue DEF n
    <3>2. \A m, k \in 1 .. n : queue[m] = queue[k] => m = k
      BY RangeOfQueue DEF n
    <3>3. i \in Int /\ j \in Int
      OBVIOUS
    <3> QED
      BY <2>1, <3>1, <3>2, <3>3, <1>7
  <2> QED
    BY <2>1, <1>2, RangeOfQueue
<1> QED
  BY <1>2, <1>3, <1>4, <1>5, <1>6, <1>8, <1>9 DEF joined, n

LEMMA JoinBack ==
  ASSUME NEW queue \in Seq(Slots), NEW o \in Slots \ Range(queue), IsInjective(queue)
  PROVE  LET joined == Append(queue, o)
         IN  /\ joined \in Seq(Slots)
             /\ Len(joined) = Len(queue) + 1
             /\ \A i \in 1 .. Len(queue) : joined[i] = queue[i]
             /\ joined[Len(queue) + 1] = o
             /\ \A i \in Int : i # Len(queue) + 1 => Nth(joined, i) = Nth(queue, i)
             /\ Nth(joined, Len(queue) + 1) = o
             /\ Range(joined) = Range(queue) \cup {o}
             /\ IsInjective(joined)
<1> DEFINE joined == Append(queue, o)
           n == Len(queue)
<1>0. n \in Nat
  BY QueueDomain
<1>1. /\ joined \in Seq(Slots)
      /\ Len(joined) = n + 1
      /\ \A i \in 1 .. n : joined[i] = queue[i]
      /\ joined[n + 1] = o
  BY AppendProperties
<1> HIDE DEF joined, n
<1>2. ASSUME NEW i \in Int, i # n + 1
      PROVE  Nth(joined, i) = Nth(queue, i)
  <2>1. CASE i \in 1 .. n
    <3>1. i \in 1 .. Len(joined)
      BY <2>1, <1>0, <1>1
    <3>2. Nth(joined, i) = joined[i]
      BY <3>1, <1>1, QueueDomain
    <3> QED
      BY <2>1, <3>2, <1>1, QueueDomain DEF n
  <2>2. CASE i \notin 1 .. n
    <3>1. i \notin 1 .. Len(joined)
      BY <2>2, <1>0, <1>1, <1>2
    <3> QED
      BY <2>2, <3>1, <1>1, QueueDomain DEF n
  <2> QED
    BY <2>1, <2>2
<1>3. n + 1 \in 1 .. Len(joined) /\ Nth(joined, n + 1) = o
  <2>1. n + 1 \in 1 .. Len(joined)
    BY <1>0, <1>1
  <2> QED
    BY <2>1, <1>1, QueueDomain
<1>4. ASSUME NEW j \in 1 .. Len(joined)
      PROVE  \/ j = n + 1 /\ joined[j] = o
             \/ j \in 1 .. n /\ joined[j] = queue[j]
  BY <1>0, <1>1
<1>5. Range(joined) = Range(queue) \cup {o}
  <2>1. ASSUME NEW x \in Range(joined) PROVE x \in Range(queue) \cup {o}
    BY <1>1, <1>4, RangeOfQueue DEF n
  <2>2. ASSUME NEW x \in Range(queue) PROVE x \in Range(joined)
    <3>1. PICK i \in 1 .. n : x = queue[i]
      BY RangeOfQueue DEF n
    <3>2. i \in 1 .. Len(joined) /\ joined[i] = x
      BY <3>1, <1>0, <1>1
    <3> QED
      BY <3>2, <1>1, RangeOfQueue
  <2>3. o \in Range(joined)
    BY <1>1, <1>3, RangeOfQueue
  <2> QED
    BY <2>1, <2>2, <2>3
<1>6. IsInjective(joined)
  <2>1. ASSUME NEW i \in 1 .. Len(joined), NEW j \in 1 .. Len(joined), joined[i] = joined[j]
        PROVE  i = j
    <3>1. \A m \in 1 .. n : queue[m] # o
      BY RangeOfQueue DEF n
    <3>2. \A m, k \in 1 .. n : queue[m] = queue[k] => m = k
      BY RangeOfQueue DEF n
    <3> QED
      BY <2>1, <3>1, <3>2, <1>4
  <2> QED
    BY <2>1, <1>1, RangeOfQueue
<1> QED
  BY <1>1, <1>2, <1>3, <1>5, <1>6 DEF joined, n

(* Taking position k out of a queue keeps the other entries in order.      *)
LEMMA RemoveAtProperties ==
  ASSUME NEW S, NEW q \in Seq(S), NEW k \in DOMAIN q
  PROVE  /\ RemoveAt(q, k) \in Seq(S)
         /\ Len(RemoveAt(q, k)) = Len(q) - 1
         /\ \A i \in 1 .. Len(q) - 1 :
              RemoveAt(q, k)[i] = IF i < k THEN q[i] ELSE q[i + 1]
<1> DEFINE a == SubSeq(q, 1, k - 1)
           b == SubSeq(q, k + 1, Len(q))
<1>1. Len(q) \in Nat /\ DOMAIN q = 1 .. Len(q) /\ k \in 1 .. Len(q)
  BY LenProperties
<1>2. \A i \in 1 .. Len(q) : q[i] \in S
  BY <1>1, ElementOfSeq
<1>3. /\ a \in Seq(S)
      /\ Len(a) = k - 1
      /\ \A i \in 1 .. k - 1 : a[i] = q[i]
  BY <1>1, <1>2, SubSeqProperties
<1>4. /\ b \in Seq(S)
      /\ Len(b) = Len(q) - k
      /\ \A i \in 1 .. Len(q) - k : b[i] = q[k + i]
  <2>1. \A i \in k + 1 .. Len(q) : q[i] \in S
    BY <1>1, <1>2
  <2>2. /\ b \in Seq(S)
        /\ Len(b) = IF k + 1 <= Len(q) THEN Len(q) - (k + 1) + 1 ELSE 0
        /\ \A i \in 1 .. Len(q) - (k + 1) + 1 : b[i] = q[(k + 1) + i - 1]
    BY <1>1, <2>1, SubSeqProperties
  <2> QED
    BY <1>1, <2>2
<1>5. /\ a \o b \in Seq(S)
      /\ Len(a \o b) = Len(a) + Len(b)
      /\ \A i \in 1 .. Len(a) + Len(b) :
           (a \o b)[i] = IF i <= Len(a) THEN a[i] ELSE b[i - Len(a)]
  BY <1>3, <1>4, ConcatProperties
<1>6. RemoveAt(q, k) = a \o b
  BY DEF RemoveAt
<1> HIDE DEF a, b
<1>7. Len(a \o b) = Len(q) - 1
  BY <1>1, <1>3, <1>4, <1>5
<1>8. ASSUME NEW i \in 1 .. Len(q) - 1
      PROVE  (a \o b)[i] = IF i < k THEN q[i] ELSE q[i + 1]
  <2>1. CASE i < k
    BY <2>1, <1>1, <1>3, <1>4, <1>5
  <2>2. CASE ~(i < k)
    <3>1. (a \o b)[i] = b[i - (k - 1)]
      <4>1. Len(a) = k - 1 /\ i \in 1 .. Len(a) + Len(b) /\ ~(i <= Len(a))
        BY <2>2, <1>1, <1>3, <1>4
      <4>2. (a \o b)[i] = b[i - Len(a)]
        BY <4>1, <1>5
      <4> QED
        BY <4>1, <4>2
    <3>2. i - (k - 1) \in 1 .. Len(q) - k /\ k + (i - (k - 1)) = i + 1
      BY <2>2, <1>1
    <3> QED
      BY <2>2, <3>1, <3>2, <1>1, <1>4
  <2> QED
    BY <2>1, <2>2, <1>1
<1> QED
  BY <1>5, <1>6, <1>7, <1>8

LEMMA Leave ==
  ASSUME NEW queue \in Seq(Slots), NEW k \in 1 .. Len(queue), IsInjective(queue)
  PROVE  LET left == RemoveAt(queue, k)
         IN  /\ left \in Seq(Slots)
             /\ Len(left) = Len(queue) - 1
             /\ \A i \in 1 .. Len(queue) - 1 :
                  left[i] = IF i < k THEN queue[i] ELSE queue[i + 1]
             /\ \A i \in Nat :
                  Nth(left, i) = IF i < k THEN Nth(queue, i) ELSE Nth(queue, i + 1)
             /\ Range(left) = Range(queue) \ {queue[k]}
             /\ IsInjective(left)
<1> DEFINE left == RemoveAt(queue, k)
           n == Len(queue)
<1>0. n \in Nat /\ k \in DOMAIN queue
  BY QueueDomain
<1>1. /\ left \in Seq(Slots)
      /\ Len(left) = n - 1
      /\ \A i \in 1 .. n - 1 : left[i] = IF i < k THEN queue[i] ELSE queue[i + 1]
  BY <1>0, RemoveAtProperties
<1> HIDE DEF left
<1>2. \A i, j \in 1 .. n : queue[i] = queue[j] => i = j
  BY RangeOfQueue
<1>3. ASSUME NEW i \in 1 .. n - 1
      PROVE  \E j \in 1 .. n : j # k /\ j = (IF i < k THEN i ELSE i + 1) /\ left[i] = queue[j]
  <2>1. CASE i < k
    BY <2>1, <1>0, <1>1
  <2>2. CASE ~(i < k)
    <3>1. i + 1 \in 1 .. n /\ i + 1 # k
      BY <2>2, <1>0
    <3> QED
      BY <2>2, <3>1, <1>1
  <2> QED
    BY <2>1, <2>2
<1>4. ASSUME NEW j \in 1 .. n, j # k
      PROVE  \E i \in 1 .. n - 1 : left[i] = queue[j]
  <2>1. CASE j < k
    <3>1. j \in 1 .. n - 1
      BY <2>1, <1>0
    <3> QED
      BY <2>1, <3>1, <1>1
  <2>2. CASE ~(j < k)
    <3>1. j - 1 \in 1 .. n - 1 /\ ~(j - 1 < k) /\ (j - 1) + 1 = j
      BY <2>2, <1>0, <1>4
    <3>2. left[j - 1] = queue[j]
      BY <3>1, <1>1
    <3> QED
      BY <3>1, <3>2
  <2> QED
    BY <2>1, <2>2
<1>5. ASSUME NEW i \in Nat
      PROVE  Nth(left, i) = IF i < k THEN Nth(queue, i) ELSE Nth(queue, i + 1)
  <2>1. CASE i \in 1 .. n - 1
    <3>1. Nth(left, i) = left[i]
      BY <2>1, <1>0, <1>1, QueueDomain
    <3>2. CASE i < k
      <4>1. i \in 1 .. n
        BY <2>1, <1>0
      <4> QED
        BY <3>1, <3>2, <4>1, <2>1, <1>1, QueueDomain
    <3>3. CASE ~(i < k)
      <4>1. i + 1 \in 1 .. n
        BY <2>1, <1>0
      <4> QED
        BY <3>1, <3>3, <4>1, <2>1, <1>1, QueueDomain
    <3> QED
      BY <3>2, <3>3
  <2>2. CASE i \notin 1 .. n - 1
    <3>1. Nth(left, i) = Null
      BY <2>2, <1>0, <1>1, QueueDomain
    <3>2. CASE i < k
      <4>1. i \notin 1 .. n
        BY <2>2, <3>2, <1>0
      <4> QED
        BY <3>1, <3>2, <4>1, QueueDomain
    <3>3. CASE ~(i < k)
      <4>1. i + 1 \notin 1 .. n
        BY <2>2, <3>3, <1>0
      <4> QED
        BY <3>1, <3>3, <4>1, QueueDomain
    <3> QED
      BY <3>2, <3>3
  <2> QED
    BY <2>1, <2>2
<1>6. Range(left) = Range(queue) \ {queue[k]}
  <2>1. ASSUME NEW x \in Range(left) PROVE x \in Range(queue) \ {queue[k]}
    <3>1. PICK i \in 1 .. n - 1 : x = left[i]
      BY <1>1, RangeOfQueue
    <3>2. PICK j \in 1 .. n : j # k /\ left[i] = queue[j]
      BY <1>3
    <3> QED
      BY <3>1, <3>2, <1>2, RangeOfQueue
  <2>2. ASSUME NEW x \in Range(queue) \ {queue[k]} PROVE x \in Range(left)
    <3>1. PICK j \in 1 .. n : x = queue[j]
      BY RangeOfQueue
    <3>2. PICK i \in 1 .. n - 1 : left[i] = queue[j]
      BY <3>1, <1>4
    <3> QED
      BY <3>1, <3>2, <1>1, RangeOfQueue
  <2> QED
    BY <2>1, <2>2
<1>7. IsInjective(left)
  <2>1. ASSUME NEW i \in 1 .. n - 1, NEW j \in 1 .. n - 1, left[i] = left[j]
        PROVE  i = j
    <3>1. PICK a \in 1 .. n : a = (IF i < k THEN i ELSE i + 1) /\ left[i] = queue[a]
      BY <1>3
    <3>2. PICK b \in 1 .. n : b = (IF j < k THEN j ELSE j + 1) /\ left[j] = queue[b]
      BY <1>3
    <3>3. a = b
      BY <2>1, <3>1, <3>2, <1>2
    <3> QED
      BY <3>1, <3>2, <3>3, <1>0
  <2> QED
    BY <2>1, <1>1, RangeOfQueue
<1> QED
  BY <1>1, <1>5, <1>6, <1>7 DEF left

(* Taking the first order of a list leaves its tail.                       *)
LEMMA TailIsRemoval ==
  ASSUME NEW queue \in Seq(Slots), 1 \in 1 .. Len(queue)
  PROVE  Tail(queue) = RemoveAt(queue, 1) /\ Head(queue) = queue[1] /\ queue # <<>>
<1>1. queue # <<>> /\ 1 \in DOMAIN queue /\ Len(queue) \in Nat
  BY EmptySeq, QueueDomain
<1>2. /\ Tail(queue) \in Seq(Slots) /\ Len(Tail(queue)) = Len(queue) - 1
      /\ \A i \in 1 .. Len(queue) - 1 : Tail(queue)[i] = queue[i + 1]
  BY <1>1, HeadTailProperties
<1>3. /\ RemoveAt(queue, 1) \in Seq(Slots) /\ Len(RemoveAt(queue, 1)) = Len(queue) - 1
      /\ \A i \in 1 .. Len(queue) - 1 :
           RemoveAt(queue, 1)[i] = IF i < 1 THEN queue[i] ELSE queue[i + 1]
  BY <1>1, RemoveAtProperties
<1>4. \A i \in 1 .. Len(queue) - 1 : RemoveAt(queue, 1)[i] = Tail(queue)[i]
  BY <1>1, <1>2, <1>3
<1>5. Tail(queue) = RemoveAt(queue, 1)
  BY <1>2, <1>3, <1>4, SeqEqual
<1> QED
  BY <1>1, <1>5

-----------------------------------------------------------------------------
(* Every action keeps the links in order, and does to the lists what the   *)
(* action of OrderQueues of the same name does                             *)

AbstractFree == (Slots \ 1 .. size) \cup Range(FreeList)

(* The lists that a step leaves show in the links after it.                *)
LEMMA ListsAfter ==
  ASSUME NEW frees \in Seq(Slots), NEW queues \in [Levels -> Seq(Slots)],
         TypeOK', Linked(frees, queues)'
  PROVE  LinksInv' /\ FreeList' = frees /\ Queues' = queues
<1>1. FreeList' = frees /\ Queues' = queues
  BY ListsReadAfter
<1> QED
  BY <1>1 DEF LinksInv

LEMMA ListsBefore ==
  ASSUME LinksInv
  PROVE  /\ FreeList \in Seq(Slots)
         /\ Queues \in [Levels -> Seq(Slots)]
         /\ \A l \in Levels : Queue(l) = Queues[l] /\ Queues[l] \in Seq(Slots)
         /\ FreeListLinked(FreeList)
         /\ \A l \in Levels : LevelLinked(l, Queues[l])
         /\ HoldEveryOrderOnce(FreeList, Queues)
BY DEF LinksInv, Linked, Queues

(* A list none of whose orders or ends a step touches stays linked.        *)
LEMMA LevelKept ==
  ASSUME NEW l \in Levels, NEW queue \in Seq(Slots), LevelLinked(l, queue),
         ends'[l] = ends[l],
         \A o \in Range(queue) : links'[o] = links[o]
  PROVE  LevelLinked(l, queue)'
<1>1. \A i \in DOMAIN queue : links'[queue[i]] = links[queue[i]]
  BY RangeOfQueue, QueueDomain
<1> QED
  BY <1>1 DEF LevelLinked, Nth

LEMMA FreeListKept ==
  ASSUME NEW frees \in Seq(Slots), FreeListLinked(frees),
         free_head' = free_head,
         \A o \in Range(frees) : links'[o] = links[o]
  PROVE  FreeListLinked(frees)'
<1>1. \A i \in DOMAIN frees : links'[frees[i]] = links[frees[i]]
  BY RangeOfQueue, QueueDomain
<1> QED
  BY <1>1 DEF FreeListLinked, Nth

(* A released order comes first in the free list.                          *)
LEMMA Released ==
  ASSUME NEW frees \in Seq(Slots), FreeListLinked(frees), IsInjective(frees),
         NEW o \in Slots \ Range(frees),
         free_head' = o,
         links'[o] = [prev |-> Null, next |-> free_head],
         \A x \in Range(frees) : links'[x] = links[x]
  PROVE  FreeListLinked(<<o>> \o frees)'
<1> DEFINE joined == <<o>> \o frees
           n == Len(frees)
<1>1. /\ joined \in Seq(Slots) /\ Len(joined) = n + 1
      /\ joined[1] = o /\ Nth(joined, 1) = o
      /\ \A i \in 1 .. n : joined[i + 1] = frees[i]
      /\ \A i \in Nat \ {0} : Nth(joined, i + 1) = Nth(frees, i)
  BY JoinFront
<1>2. n \in Nat /\ DOMAIN frees = 1 .. n
  BY QueueDomain
<1> HIDE DEF joined
<1>3. ASSUME NEW j \in 1 .. n + 1
      PROVE  links'[joined[j]].next = Nth(joined, j + 1)
  <2>1. CASE j = 1
    <3>1. Nth(joined, 2) = Nth(frees, 1)
      <4>1. 1 \in Nat \ {0} /\ 1 + 1 = 2
        OBVIOUS
      <4> QED
        BY <4>1, <1>1
    <3> QED
      BY <2>1, <3>1, <1>1 DEF FreeListLinked
  <2>2. CASE j # 1
    <3>1. j - 1 \in 1 .. n /\ (j - 1) + 1 = j /\ j \in Nat \ {0}
      BY <2>2, <1>2
    <3>2. joined[j] = frees[j - 1] /\ Nth(joined, j + 1) = Nth(frees, j)
      BY <3>1, <1>1
    <3>3. links[frees[j - 1]].next = Nth(frees, j)
      BY <3>1, <1>2 DEF FreeListLinked
    <3>4. links'[frees[j - 1]] = links[frees[j - 1]]
      BY <3>1, RangeOfQueue
    <3> QED
      BY <3>2, <3>3, <3>4
  <2> QED
    BY <2>1, <2>2
<1>4. DOMAIN joined = 1 .. n + 1
  BY <1>1, QueueDomain
<1>5. free_head' = Nth(joined, 1)
  BY <1>1
<1>6. FreeListLinked(joined)'
  BY <1>3, <1>4, <1>5 DEF FreeListLinked, Nth
<1> QED
  BY <1>6 DEF joined

(* The orders that have been handed out are those in the lists.            *)
LEMMA Holding ==
  ASSUME LinksInv
  PROVE  /\ Range(FreeList) \subseteq 1 .. size
         /\ 1 .. size \subseteq Slots
         /\ pending # Null => pending \in 1 .. size
         /\ \A l \in Levels : Range(Queues[l]) \subseteq 1 .. size
         /\ size \in 0 .. PoolCapacity
         /\ Null \notin Slots
<1>1. size \in 0 .. PoolCapacity
  BY DEF LinksInv, TypeOK
<1>2. 1 .. size \subseteq Slots /\ Null \notin Slots
  BY <1>1, PoolAssumption DEF Slots, Null
<1> DEFINE rest == UNION {Range(Queues[l]) : l \in Levels}
<1>3. 1 .. size = Range(FreeList) \cup ({pending} \ {Null}) \cup rest
  BY ListsBefore DEF HoldEveryOrderOnce
<1>4. ASSUME NEW l \in Levels
      PROVE  Range(Queues[l]) \subseteq rest
  <2>1. Range(Queues[l]) \in {Range(Queues[k]) : k \in Levels}
    OBVIOUS
  <2> QED
    BY <2>1
<1> HIDE DEF rest
<1>5. rest \subseteq 1 .. size
  BY <1>3
<1>6. \A l \in Levels : Range(Queues[l]) \subseteq 1 .. size
  BY <1>4, <1>5, Zenon
<1>7. Range(FreeList) \subseteq 1 .. size /\ (pending # Null => pending \in 1 .. size)
  BY <1>3
<1> QED
  BY <1>1, <1>2, <1>6, <1>7

LEMMA InitLinks ==
  ASSUME Init
  PROVE  LinksInv /\ FreeList = <<>> /\ Queues = [l \in Levels |-> <<>>]
<1> DEFINE none == [l \in Levels |-> <<>>]
<1>1. <<>> \in Seq(Slots) /\ none \in [Levels -> Seq(Slots)]
  OBVIOUS
<1>2. TypeOK
  <2>1. Null \in 0 .. PoolCapacity /\ 0 \in 0 .. PoolCapacity
    BY PoolAssumption DEF Null
  <2>2. Unlinked \in [prev : 0 .. PoolCapacity, next : 0 .. PoolCapacity]
    BY <2>1 DEF Unlinked
  <2>3. /\ links \in [Slots -> [prev : 0 .. PoolCapacity, next : 0 .. PoolCapacity]]
        /\ ends \in [Levels -> [head : 0 .. PoolCapacity, tail : 0 .. PoolCapacity]]
    BY <2>1, <2>2 DEF Init
  <2> QED
    BY <2>1, <2>3 DEF Init, TypeOK
<1>3. Range(<<>>) = {} /\ IsInjective(<<>>)
  BY DEF Range, IsInjective
<1>4. \A i : Nth(<<>>, i) = Null
  BY DEF Nth
<1>5. Linked(<<>>, none)
  <2>1. FreeListLinked(<<>>)
    BY <1>4 DEF Init, FreeListLinked
  <2>2. ASSUME NEW l \in Levels PROVE LevelLinked(l, none[l])
    BY <1>4 DEF Init, LevelLinked
  <2>3. HoldEveryOrderOnce(<<>>, none)
    <3>1. 1 .. size = {} /\ pending = Null
      BY DEF Init
    <3>2. UNION {Range(none[l]) : l \in Levels} = {}
      BY <1>3
    <3> QED
      BY <3>1, <3>2, <1>3 DEF HoldEveryOrderOnce
  <2> QED
    BY <2>1, <2>2, <2>3 DEF Linked
<1>6. FreeList = <<>> /\ Queues = none
  BY <1>1, <1>5, ListsRead
<1> QED
  BY <1>1, <1>2, <1>5, <1>6 DEF LinksInv

(* An order leaves the free list for the hands of the book.                *)
LEMMA ReuseLinks ==
  ASSUME LinksInv, Place, free_head # Null
  PROVE  LinksInv' /\ Orders!Place
<1>0. PICK f \in Seq(Slots), q \in [Levels -> Seq(Slots)] : f = FreeList /\ q = Queues
  BY ListsBefore
<1>1. /\ FreeListLinked(f) /\ HoldEveryOrderOnce(f, q)
      /\ \A l \in Levels : LevelLinked(l, q[l])
      /\ IsInjective(f)
  BY <1>0, ListsBefore DEF HoldEveryOrderOnce
<1>2. PICK o : o = free_head
  OBVIOUS
<1>3. /\ pending = Null /\ pending' = o
      /\ free_head' = links[o].next
      /\ links' = [links EXCEPT ![o] = Unlinked]
      /\ UNCHANGED <<size, ends>> /\ exhausted' = FALSE
  BY <1>2 DEF Place, Allocate
<1>4. 1 \in 1 .. Len(f) /\ Nth(f, 1) = o
  BY <1>1, <1>2, NthOutside DEF FreeListLinked
<1>5. o = f[1] /\ o \in Slots /\ o \in Range(f) /\ o # Null
  BY <1>4, QueueDomain, RangeOfQueue
<1>6. IsInjective(f) /\ 1 \in 1 .. Len(f)
  BY <1>1, <1>4
<1>7. PICK g \in Seq(Slots) :
        /\ Len(g) = Len(f) - 1
        /\ \A i \in 1 .. Len(f) - 1 : g[i] = IF i < 1 THEN f[i] ELSE f[i + 1]
        /\ \A i \in Nat : Nth(g, i) = IF i < 1 THEN Nth(f, i) ELSE Nth(f, i + 1)
        /\ Range(g) = Range(f) \ {o}
        /\ IsInjective(g)
  <2> DEFINE g == RemoveAt(f, 1)
  <2>1. /\ g \in Seq(Slots) /\ Len(g) = Len(f) - 1
        /\ \A i \in 1 .. Len(f) - 1 : g[i] = IF i < 1 THEN f[i] ELSE f[i + 1]
        /\ \A i \in Nat : Nth(g, i) = IF i < 1 THEN Nth(f, i) ELSE Nth(f, i + 1)
        /\ Range(g) = Range(f) \ {f[1]}
        /\ IsInjective(g)
    BY <1>6, Leave
  <2>2. Range(g) = Range(f) \ {o}
    BY <2>1, <1>5
  <2> HIDE DEF g
  <2> QED
    BY <2>1, <2>2
<1>8. TypeOK'
  <2>1. /\ links \in [Slots -> [prev : 0 .. PoolCapacity, next : 0 .. PoolCapacity]]
        /\ Unlinked \in [prev : 0 .. PoolCapacity, next : 0 .. PoolCapacity]
        /\ o \in 0 .. PoolCapacity
    <3>1. Null \in 0 .. PoolCapacity
      BY PoolAssumption DEF Null
    <3>2. o \in 0 .. PoolCapacity
      BY <1>5, PoolAssumption DEF Slots
    <3> QED
      BY <3>1, <3>2 DEF LinksInv, TypeOK, Unlinked
  <2>2. links[o].next \in 0 .. PoolCapacity
    BY <2>1, <1>5
  <2>3. links' \in [Slots -> [prev : 0 .. PoolCapacity, next : 0 .. PoolCapacity]]
    BY <2>1, <1>3, <1>5
  <2> QED
    BY <1>3, <2>1, <2>2, <2>3 DEF LinksInv, TypeOK
<1>9. \A x \in Slots \ {o} : links'[x] = links[x]
  BY <1>3 DEF LinksInv, TypeOK
<1>10. FreeListLinked(g)'
  <2>1. Len(f) \in Nat /\ DOMAIN f = 1 .. Len(f) /\ DOMAIN g = 1 .. Len(f) - 1
    BY <1>7, QueueDomain
  <2>2. free_head' = Nth(g, 1)
    <3>1. links[f[1]].next = Nth(f, 2)
      <4>1. 1 \in DOMAIN f /\ 1 + 1 = 2
        BY <1>4, <2>1
      <4> QED
        BY <4>1, <1>1 DEF FreeListLinked
    <3>2. Nth(g, 1) = Nth(f, 2)
      <4>1. 1 \in Nat /\ ~(1 < 1) /\ 1 + 1 = 2
        OBVIOUS
      <4> QED
        BY <4>1, <1>7
    <3> QED
      BY <3>1, <3>2, <1>3, <1>5
  <2>3. ASSUME NEW i \in DOMAIN g
        PROVE  links'[g[i]].next = Nth(g, i + 1)
    <3>1. /\ i + 1 \in DOMAIN f /\ i \in 1 .. Len(f) - 1
          /\ ~(i < 1) /\ i + 1 \in Nat /\ ~(i + 1 < 1)
      BY <2>1
    <3>2. g[i] = f[i + 1] /\ Nth(g, i + 1) = Nth(f, (i + 1) + 1)
      BY <3>1, <1>7
    <3>3. links[f[i + 1]].next = Nth(f, (i + 1) + 1)
      BY <3>1, <1>1 DEF FreeListLinked
    <3>4. g[i] \in Range(g) /\ Range(g) \subseteq Slots
      <4>1. i \in 1 .. Len(g)
        BY <3>1, <1>7
      <4> QED
        BY <4>1, RangeOfQueue
    <3> QED
      BY <3>2, <3>3, <3>4, <1>7, <1>9
  <2> QED
    BY <2>2, <2>3 DEF FreeListLinked, Nth
<1>11. ASSUME NEW l \in Levels
       PROVE  LevelLinked(l, q[l])'
  <2>1. q[l] \in Seq(Slots) /\ Range(q[l]) \subseteq Slots /\ o \notin Range(q[l])
    BY <1>1, <1>5, RangeOfQueue DEF HoldEveryOrderOnce
  <2> QED
    BY <2>1, <1>1, <1>3, <1>9, LevelKept
<1>12. HoldEveryOrderOnce(g, q)'
  <2> DEFINE rest == UNION {Range(q[l]) : l \in Levels}
  <2>1. 1 .. size = Range(f) \cup ({pending} \ {Null}) \cup rest
    BY <1>1 DEF HoldEveryOrderOnce
  <2>2. \A l \in Levels :
          /\ IsInjective(q[l]) /\ Range(q[l]) \cap Range(f) = {}
          /\ \A k \in Levels \ {l} : Range(q[l]) \cap Range(q[k]) = {}
    BY <1>1 DEF HoldEveryOrderOnce
  <2> HIDE DEF rest
  <2>3. 1 .. size' = Range(g) \cup ({pending'} \ {Null}) \cup rest
    BY <2>1, <1>3, <1>5, <1>7
  <2>4. IsInjective(g) /\ pending' \notin Range(g)
    BY <1>3, <1>7
  <2>5. \A l \in Levels : pending' \notin Range(q[l]) /\ Range(q[l]) \cap Range(g) = {}
    BY <2>2, <1>3, <1>5, <1>7
  <2> QED
    BY <2>2, <2>3, <2>4, <2>5 DEF HoldEveryOrderOnce, rest
<1>13. LinksInv' /\ FreeList' = g /\ Queues' = q
  BY <1>8, <1>10, <1>11, <1>12, ListsAfter DEF Linked
<1>14. Orders!Place
  <2>1. o \notin Slots \ 1 .. size
    BY <1>0, <1>5, Holding
  <2>2. AbstractFree' = AbstractFree \ {o} /\ o \in AbstractFree
    BY <2>1, <1>0, <1>3, <1>5, <1>7, <1>13 DEF AbstractFree
  <2> QED
    BY <2>2, <1>0, <1>3, <1>13 DEF Orders!Place, AbstractFree
<1> QED
  BY <1>13, <1>14

(* An order that was never used goes to the hands of the book.             *)
LEMMA FreshLinks ==
  ASSUME LinksInv, Place, free_head = Null
  PROVE  LinksInv' /\ Orders!Place
<1>0. PICK f \in Seq(Slots), q \in [Levels -> Seq(Slots)] : f = FreeList /\ q = Queues
  BY ListsBefore
<1>1. /\ FreeListLinked(f) /\ HoldEveryOrderOnce(f, q)
      /\ \A l \in Levels : LevelLinked(l, q[l])
  BY <1>0, ListsBefore
<1>2. /\ size \in 0 .. PoolCapacity /\ size # PoolCapacity
      /\ pending = Null /\ pending' = size + 1 /\ size' = size + 1
      /\ UNCHANGED <<links, free_head, ends>> /\ exhausted' = FALSE
  BY DEF Place, Allocate, PoolExhausted, LinksInv, TypeOK
<1>3. /\ size + 1 \in 1 .. PoolCapacity /\ size + 1 \in Slots
      /\ size + 1 \notin 1 .. size /\ size + 1 # Null
      /\ 1 .. size + 1 = (1 .. size) \cup {size + 1}
  BY <1>2, PoolAssumption DEF Slots, Null
<1>4. TypeOK'
  <2>1. size + 1 \in 0 .. PoolCapacity
    BY <1>3, PoolAssumption
  <2> QED
    BY <2>1, <1>2 DEF LinksInv, TypeOK
<1>5. FreeListLinked(f)'
  BY <1>1, <1>2, FreeListKept
<1>6. ASSUME NEW l \in Levels
      PROVE  LevelLinked(l, q[l])'
  BY <1>1, <1>2, LevelKept
<1>7. HoldEveryOrderOnce(f, q)'
  <2> DEFINE rest == UNION {Range(q[l]) : l \in Levels}
  <2>1. 1 .. size = Range(f) \cup ({pending} \ {Null}) \cup rest
    BY <1>1 DEF HoldEveryOrderOnce
  <2>2. IsInjective(f) /\ \A l \in Levels :
          /\ IsInjective(q[l]) /\ Range(q[l]) \cap Range(f) = {}
          /\ \A k \in Levels \ {l} : Range(q[l]) \cap Range(q[k]) = {}
    BY <1>1 DEF HoldEveryOrderOnce
  <2> HIDE DEF rest
  <2>3. 1 .. size' = Range(f) \cup ({pending'} \ {Null}) \cup rest
    BY <2>1, <1>2, <1>3
  <2>4. pending' \notin Range(f) /\ \A l \in Levels : pending' \notin Range(q[l])
    BY <1>0, <1>2, <1>3, Holding
  <2> QED
    BY <2>2, <2>3, <2>4 DEF HoldEveryOrderOnce, rest
<1>8. LinksInv' /\ FreeList' = f /\ Queues' = q
  BY <1>4, <1>5, <1>6, <1>7, ListsAfter DEF Linked
<1>9. Orders!Place
  <2>1. size + 1 \notin Range(f)
    BY <1>0, <1>3, Holding
  <2>2. AbstractFree' = AbstractFree \ {size + 1} /\ size + 1 \in AbstractFree
    BY <2>1, <1>0, <1>2, <1>3, <1>8 DEF AbstractFree
  <2> QED
    BY <2>2, <1>0, <1>2, <1>8 DEF Orders!Place, AbstractFree
<1> QED
  BY <1>8, <1>9

LEMMA RefuseLinks ==
  ASSUME LinksInv, Refuse
  PROVE  LinksInv' /\ Orders!Refuse
<1>0. PICK f \in Seq(Slots), q \in [Levels -> Seq(Slots)] : f = FreeList /\ q = Queues
  BY ListsBefore
<1>1. /\ FreeListLinked(f) /\ HoldEveryOrderOnce(f, q)
      /\ \A l \in Levels : LevelLinked(l, q[l])
  BY <1>0, ListsBefore
<1>2. /\ pending = Null /\ free_head = Null /\ size = PoolCapacity
      /\ UNCHANGED <<links, free_head, size, ends, pending>> /\ exhausted' = TRUE
  BY DEF Refuse, PoolExhausted
<1>3. TypeOK'
  BY <1>2 DEF LinksInv, TypeOK
<1>4. FreeListLinked(f)' /\ HoldEveryOrderOnce(f, q)'
  BY <1>1, <1>2, FreeListKept DEF HoldEveryOrderOnce
<1>5. ASSUME NEW l \in Levels
      PROVE  LevelLinked(l, q[l])'
  BY <1>1, <1>2, LevelKept
<1>6. LinksInv' /\ FreeList' = f /\ Queues' = q
  BY <1>3, <1>4, <1>5, ListsAfter DEF Linked
<1>7. AbstractFree = {}
  <2>1. Slots \ 1 .. size = {}
    BY <1>2 DEF Slots
  <2>2. 1 \notin 1 .. Len(f)
    BY <1>1, <1>2, NthOutside DEF FreeListLinked
  <2>3. 1 .. Len(f) = {}
    BY <2>2, QueueDomain
  <2>4. Range(f) = {}
    BY <2>3, RangeOfQueue
  <2> QED
    BY <1>0, <2>1, <2>4 DEF AbstractFree
<1>8. AbstractFree' = AbstractFree
  BY <1>0, <1>2, <1>6 DEF AbstractFree
<1>9. Orders!Refuse
  BY <1>0, <1>2, <1>6, <1>7, <1>8 DEF Orders!Refuse, AbstractFree
<1> QED
  BY <1>6, <1>9

(* The order in the hands of the book returns to the free list.            *)
LEMMA DiscardLinks ==
  ASSUME LinksInv, Discard
  PROVE  LinksInv' /\ Orders!Discard
<1>0. PICK f \in Seq(Slots), q \in [Levels -> Seq(Slots)] : f = FreeList /\ q = Queues
  BY ListsBefore
<1>1. /\ FreeListLinked(f) /\ HoldEveryOrderOnce(f, q)
      /\ \A l \in Levels : LevelLinked(l, q[l])
      /\ IsInjective(f)
  BY <1>0, ListsBefore DEF HoldEveryOrderOnce
<1>2. PICK o : o = pending
  OBVIOUS
<1>3. /\ o # Null /\ pending = o /\ pending' = Null /\ free_head' = o
      /\ links' = [links EXCEPT ![o] = [prev |-> Null, next |-> free_head]]
      /\ UNCHANGED <<size, ends, exhausted>>
  BY <1>2 DEF Discard, Release
<1>4. o \in Slots /\ o \in 1 .. size /\ o \notin Range(f)
  BY <1>1, <1>2, <1>3, Holding DEF HoldEveryOrderOnce
<1>5. PICK g \in Seq(Slots) :
        g = <<o>> \o f /\ Range(g) = Range(f) \cup {o} /\ IsInjective(g)
  BY <1>1, <1>4, JoinFront
<1>6. TypeOK'
  <2>1. /\ Null \in 0 .. PoolCapacity /\ o \in 0 .. PoolCapacity
        /\ free_head \in 0 .. PoolCapacity
    BY <1>4, PoolAssumption DEF LinksInv, TypeOK, Slots, Null
  <2> DEFINE r == [prev |-> Null, next |-> free_head]
  <2>2. r \in [prev : 0 .. PoolCapacity, next : 0 .. PoolCapacity]
    BY <2>1
  <2>3. links' = [links EXCEPT ![o] = r]
    BY <1>3
  <2> HIDE DEF r
  <2>4. links' \in [Slots -> [prev : 0 .. PoolCapacity, next : 0 .. PoolCapacity]]
    BY <2>2, <2>3 DEF LinksInv, TypeOK
  <2> QED
    BY <1>3, <2>1, <2>4 DEF LinksInv, TypeOK
<1>7. /\ links'[o] = [prev |-> Null, next |-> free_head]
      /\ \A x \in Slots \ {o} : links'[x] = links[x]
  BY <1>3, <1>4 DEF LinksInv, TypeOK
<1>8. FreeListLinked(g)'
  <2>1. \A x \in Range(f) : links'[x] = links[x]
    BY <1>4, <1>7, RangeOfQueue
  <2>2. FreeListLinked(<<o>> \o f)'
    BY <2>1, <1>1, <1>3, <1>4, <1>7, Released
  <2> QED
    BY <2>2, <1>5
<1>9. ASSUME NEW l \in Levels
      PROVE  LevelLinked(l, q[l])'
  <2>1. q[l] \in Seq(Slots) /\ Range(q[l]) \subseteq Slots /\ o \notin Range(q[l])
    BY <1>1, <1>2, RangeOfQueue DEF HoldEveryOrderOnce
  <2> QED
    BY <2>1, <1>1, <1>3, <1>7, LevelKept
<1>10. HoldEveryOrderOnce(g, q)'
  <2> DEFINE rest == UNION {Range(q[l]) : l \in Levels}
  <2>1. 1 .. size = Range(f) \cup ({pending} \ {Null}) \cup rest
    BY <1>1 DEF HoldEveryOrderOnce
  <2>2. \A l \in Levels :
          /\ IsInjective(q[l]) /\ Range(q[l]) \cap Range(f) = {} /\ o \notin Range(q[l])
          /\ Range(q[l]) \subseteq Slots
          /\ \A k \in Levels \ {l} : Range(q[l]) \cap Range(q[k]) = {}
    BY <1>1, <1>2, RangeOfQueue DEF HoldEveryOrderOnce
  <2> HIDE DEF rest
  <2>3. 1 .. size' = Range(g) \cup ({pending'} \ {Null}) \cup rest
    BY <2>1, <1>3, <1>5
  <2>4. IsInjective(g) /\ pending' \notin Range(g)
    BY <1>3, <1>5, RangeOfQueue, Holding
  <2>5. \A l \in Levels : pending' \notin Range(q[l]) /\ Range(q[l]) \cap Range(g) = {}
    BY <2>2, <1>3, <1>5, Holding
  <2> QED
    BY <2>2, <2>3, <2>4, <2>5 DEF HoldEveryOrderOnce, rest
<1>11. LinksInv' /\ FreeList' = g /\ Queues' = q
  BY <1>6, <1>8, <1>9, <1>10, ListsAfter DEF Linked
<1>12. AbstractFree' = AbstractFree \cup {o}
  BY <1>0, <1>3, <1>5, <1>11 DEF AbstractFree
<1>13. Orders!Discard
  BY <1>0, <1>3, <1>11, <1>12 DEF Orders!Discard, AbstractFree
<1> QED
  BY <1>11, <1>13

(* What the levels hold after one of them has changed.                     *)
LEMMA OneLevelChanges ==
  ASSUME NEW q \in [Levels -> Seq(Slots)], NEW l \in Levels, NEW g \in Seq(Slots)
  PROVE  /\ [q EXCEPT ![l] = g] \in [Levels -> Seq(Slots)]
         /\ [q EXCEPT ![l] = g][l] = g
         /\ \A k \in Levels \ {l} : [q EXCEPT ![l] = g][k] = q[k]
         /\ \A x : x \in UNION {Range([q EXCEPT ![l] = g][k]) : k \in Levels} <=>
                     x \in Range(g) \/ \E k \in Levels \ {l} : x \in Range(q[k])
<1> DEFINE r == [q EXCEPT ![l] = g]
<1>1. /\ r \in [Levels -> Seq(Slots)] /\ r[l] = g
      /\ \A k \in Levels \ {l} : r[k] = q[k]
  OBVIOUS
<1> HIDE DEF r
<1>2. \A x : x \in UNION {Range(r[k]) : k \in Levels} <=>
               x \in Range(g) \/ \E k \in Levels \ {l} : x \in Range(q[k])
  BY <1>1
<1> QED
  BY <1>1, <1>2 DEF r

(* The order in the hands of the book comes to rest at the back of l.      *)
LEMMA RestLinks ==
  ASSUME LinksInv, NEW l \in Levels, Rest(l)
  PROVE  LinksInv' /\ Orders!Rest(l)
<1>0. PICK f \in Seq(Slots), q \in [Levels -> Seq(Slots)] : f = FreeList /\ q = Queues
  BY ListsBefore
<1>1. /\ FreeListLinked(f) /\ HoldEveryOrderOnce(f, q)
      /\ \A k \in Levels : LevelLinked(k, q[k])
  BY <1>0, ListsBefore
<1> PICK queue \in Seq(Slots) : queue = q[l]
  OBVIOUS
<1>2. PICK o, t : o = pending /\ t = ends[l].tail /\ queue = q[l]
  OBVIOUS
<1> DEFINE n == Len(queue)
           joined == Append(queue, o)
<1>3. /\ o # Null /\ pending = o /\ pending' = Null
      /\ links' = SetNext([links EXCEPT ![o] = [prev |-> t, next |-> Null]], t, o)
      /\ ends' = [ends EXCEPT ![l] =
           [head |-> IF t = Null THEN o ELSE ends[l].head, tail |-> o]]
      /\ UNCHANGED <<free_head, size, exhausted>>
  BY <1>2 DEF Rest, PushBack
<1>4. /\ o \in Slots /\ o \in 1 .. size /\ o \notin Range(f)
      /\ \A k \in Levels : o \notin Range(q[k])
      /\ IsInjective(queue) /\ LevelLinked(l, queue)
  BY <1>1, <1>2, <1>3, Holding DEF HoldEveryOrderOnce
<1>5. n \in Nat /\ DOMAIN queue = 1 .. n
  BY QueueDomain
<1>6. /\ t = Nth(queue, n)
      /\ ends[l].head = Nth(queue, 1)
  BY <1>2, <1>4 DEF LevelLinked
<1>7. /\ t = Null <=> n = 0
      /\ n # 0 => n \in 1 .. n /\ t = queue[n] /\ t \in Range(queue) /\ t \in Slots /\ t # o
  <2>1. t = Null <=> n = 0
    <3>1. n \in Int /\ (n \notin 1 .. n <=> n = 0)
      BY <1>5
    <3> QED
      BY <3>1, <1>6, NthOutside
  <2>2. ASSUME n # 0
        PROVE  n \in 1 .. n /\ t = queue[n] /\ t \in Range(queue) /\ t \in Slots /\ t # o
    <3>1. n \in 1 .. n
      BY <2>2, <1>5
    <3>2. t = queue[n] /\ t \in Range(queue) /\ t \in Slots
      BY <3>1, <1>6, QueueDomain, RangeOfQueue
    <3> QED
      BY <3>1, <3>2, <1>2, <1>4
  <2> QED
    BY <2>1, <2>2
<1>8. /\ links \in [Slots -> [prev : 0 .. PoolCapacity, next : 0 .. PoolCapacity]]
      /\ ends \in [Levels -> [head : 0 .. PoolCapacity, tail : 0 .. PoolCapacity]]
      /\ Null \in 0 .. PoolCapacity /\ o \in 0 .. PoolCapacity /\ t \in 0 .. PoolCapacity
  <2>1. Null \in 0 .. PoolCapacity /\ o \in 0 .. PoolCapacity
    BY <1>4, PoolAssumption DEF Slots, Null
  <2> QED
    BY <2>1, <1>2 DEF LinksInv, TypeOK
<1>9. /\ links' \in [Slots -> [prev : 0 .. PoolCapacity, next : 0 .. PoolCapacity]]
      /\ links'[o] = [prev |-> t, next |-> Null]
      /\ n # 0 => links'[t] = [prev |-> links[t].prev, next |-> o]
      /\ \A x \in Slots \ {o, t} : links'[x] = links[x]
  <2> DEFINE r == [prev |-> t, next |-> Null]
             m == [links EXCEPT ![o] = r]
  <2>1. r \in [prev : 0 .. PoolCapacity, next : 0 .. PoolCapacity]
    BY <1>8
  <2> HIDE DEF r
  <2>2. /\ m \in [Slots -> [prev : 0 .. PoolCapacity, next : 0 .. PoolCapacity]]
        /\ m[o] = r /\ \A x \in Slots \ {o} : m[x] = links[x]
    BY <2>1, <1>4, <1>8
  <2>3. links' = SetNext(m, t, o)
    BY <1>3 DEF r
  <2> HIDE DEF m
  <2>4. CASE n = 0
    <3>1. links' = m
      BY <2>3, <2>4, <1>7 DEF SetNext
    <3> QED
      BY <3>1, <2>2, <2>4 DEF r
  <2>5. CASE n # 0
    <3>1. links' = [m EXCEPT ![t].next = o] /\ t \in Slots /\ t # o
      BY <2>3, <2>5, <1>7 DEF SetNext
    <3>2. m[t] \in [prev : 0 .. PoolCapacity, next : 0 .. PoolCapacity] /\ m[t] = links[t]
      BY <3>1, <2>2
    <3>3. [m[t] EXCEPT !.next = o] = [prev |-> links[t].prev, next |-> o]
      BY <3>2
    <3>4. /\ links'[t] = [m[t] EXCEPT !.next = o]
          /\ \A x \in Slots \ {t} : links'[x] = m[x]
      BY <3>1, <2>2
    <3>5. links' \in [Slots -> [prev : 0 .. PoolCapacity, next : 0 .. PoolCapacity]]
      BY <3>1, <3>2, <2>2, <1>8
    <3> QED
      BY <3>1, <3>3, <3>4, <3>5, <2>2, <1>4 DEF r
  <2> QED
    BY <2>4, <2>5
<1>10. /\ ends'[l] = [head |-> IF t = Null THEN o ELSE ends[l].head, tail |-> o]
       /\ \A k \in Levels \ {l} : ends'[k] = ends[k]
       /\ ends' \in [Levels -> [head : 0 .. PoolCapacity, tail : 0 .. PoolCapacity]]
  <2> DEFINE e == [head |-> IF t = Null THEN o ELSE ends[l].head, tail |-> o]
  <2>1. e \in [head : 0 .. PoolCapacity, tail : 0 .. PoolCapacity]
    BY <1>8
  <2>2. ends' = [ends EXCEPT ![l] = e]
    BY <1>3
  <2> HIDE DEF e
  <2>3. /\ ends'[l] = e /\ \A k \in Levels \ {l} : ends'[k] = ends[k]
        /\ ends' \in [Levels -> [head : 0 .. PoolCapacity, tail : 0 .. PoolCapacity]]
    BY <2>1, <2>2, <1>8
  <2> QED
    BY <2>3 DEF e
<1>11. TypeOK'
  BY <1>3, <1>8, <1>9, <1>10 DEF LinksInv, TypeOK
<1>12. /\ joined \in Seq(Slots) /\ Len(joined) = n + 1
       /\ \A i \in 1 .. n : joined[i] = queue[i]
       /\ joined[n + 1] = o
       /\ \A i \in Int : i # n + 1 => Nth(joined, i) = Nth(queue, i)
       /\ Nth(joined, n + 1) = o
       /\ Range(joined) = Range(queue) \cup {o}
       /\ IsInjective(joined)
  <2>1. o \in Slots \ Range(queue) /\ IsInjective(queue)
    BY <1>2, <1>4
  <2> QED
    BY <2>1, JoinBack
<1> HIDE DEF n, joined
<1>13. LevelLinked(l, joined)'
  <2>1. DOMAIN joined = 1 .. n + 1
    BY <1>12, QueueDomain
  <2>2. ends'[l] = [head |-> Nth(joined, 1), tail |-> Nth(joined, Len(joined))]
    <3>1. Nth(joined, 1) = IF t = Null THEN o ELSE ends[l].head
      <4>1. CASE n = 0
        BY <4>1, <1>7, <1>12
      <4>2. CASE n # 0
        <5>1. 1 \in Int /\ 1 # n + 1
          BY <4>2, <1>5
        <5> QED
          BY <5>1, <4>2, <1>6, <1>7, <1>12
      <4> QED
        BY <4>1, <4>2
    <3> QED
      BY <3>1, <1>10, <1>12
  <2>3. ASSUME NEW i \in 1 .. n + 1
        PROVE  links'[joined[i]] = [prev |-> Nth(joined, i - 1), next |-> Nth(joined, i + 1)]
    <3>1. CASE i = n + 1
      <4>1. Nth(joined, n) = t
        <5>1. n \in Int /\ n # n + 1
          BY <1>5
        <5> QED
          BY <5>1, <1>6, <1>12 DEF n
      <4>2. Nth(joined, (n + 1) + 1) = Null
        <5>1. (n + 1) + 1 \notin 1 .. Len(joined)
          BY <1>5, <1>12
        <5> QED
          BY <5>1, <1>12, QueueDomain
      <4>3. (n + 1) - 1 = n
        BY <1>5
      <4> QED
        BY <3>1, <4>1, <4>2, <4>3, <1>9, <1>12
    <3>2. CASE i # n + 1
      <4>1. i \in 1 .. n /\ i - 1 \in Int /\ i - 1 # n + 1 /\ i + 1 \in Int
        BY <3>2, <1>5
      <4>2. joined[i] = queue[i] /\ Nth(joined, i - 1) = Nth(queue, i - 1)
        BY <4>1, <1>12
      <4>3. links[queue[i]] = [prev |-> Nth(queue, i - 1), next |-> Nth(queue, i + 1)]
        BY <4>1, <1>4, <1>5 DEF LevelLinked
      <4>4. queue[i] \in Slots /\ queue[i] \in Range(queue) /\ queue[i] # o
        BY <4>1, <1>2, <1>4, QueueDomain, RangeOfQueue DEF n
      <4>5. CASE i = n
        <5>1. n # 0 /\ queue[i] = t
          BY <4>1, <4>5, <1>7
        <5>2. links'[queue[i]] = [prev |-> links[queue[i]].prev, next |-> o]
          BY <5>1, <1>9
        <5>3. Nth(joined, i + 1) = o
          BY <4>5, <1>12
        <5> QED
          BY <5>2, <5>3, <4>2, <4>3
      <4>6. CASE i # n
        <5>1. n # 0 /\ n \in 1 .. n /\ t = queue[n]
          BY <4>1, <1>7
        <5>2. queue[i] # t
          BY <4>1, <4>6, <5>1, <1>4, RangeOfQueue DEF n
        <5>3. links'[queue[i]] = links[queue[i]]
          BY <5>2, <4>4, <1>9
        <5>4. Nth(joined, i + 1) = Nth(queue, i + 1)
          <6>1. i + 1 # n + 1
            BY <4>1, <4>6, <1>5
          <6> QED
            BY <6>1, <4>1, <1>12
        <5> QED
          BY <5>3, <5>4, <4>2, <4>3
      <4> QED
        BY <4>5, <4>6
    <3> QED
      BY <3>1, <3>2
  <2> QED
    BY <2>1, <2>2, <2>3 DEF LevelLinked
<1> DEFINE qs == [q EXCEPT ![l] = joined]
<1>14. /\ qs \in [Levels -> Seq(Slots)] /\ qs[l] = joined
       /\ \A k \in Levels \ {l} : qs[k] = q[k]
       /\ \A x : x \in UNION {Range(qs[k]) : k \in Levels} <=>
                   x \in Range(joined) \/ \E k \in Levels \ {l} : x \in Range(q[k])
  BY <1>12, OneLevelChanges
<1> HIDE DEF qs
<1>15. /\ t \notin Range(f)
       /\ \A k \in Levels \ {l} : t \notin Range(q[k])
       /\ Range(f) \subseteq Slots /\ \A k \in Levels : Range(q[k]) \subseteq Slots
       /\ Null \notin Slots
  <2>1. /\ Range(f) \subseteq Slots /\ \A k \in Levels : Range(q[k]) \subseteq Slots
        /\ Null \notin Slots
    BY RangeOfQueue, Holding
  <2>2. CASE n = 0
    BY <2>1, <2>2, <1>7
  <2>3. CASE n # 0
    BY <2>1, <2>3, <1>1, <1>2, <1>7 DEF HoldEveryOrderOnce
  <2> QED
    BY <2>1, <2>2, <2>3
<1>16. FreeListLinked(f)'
  <2>1. \A x \in Range(f) : links'[x] = links[x]
    BY <1>4, <1>9, <1>15
  <2> QED
    BY <2>1, <1>1, <1>3, FreeListKept
<1>17. ASSUME NEW k \in Levels
       PROVE  LevelLinked(k, qs[k])'
  <2>1. CASE k = l
    BY <2>1, <1>13, <1>14
  <2>2. CASE k # l
    <3>1. \A x \in Range(q[k]) : links'[x] = links[x]
      BY <2>2, <1>4, <1>9, <1>15
    <3>2. LevelLinked(k, q[k])'
      BY <2>2, <3>1, <1>1, <1>10, LevelKept
    <3> QED
      BY <2>2, <3>2, <1>14
  <2> QED
    BY <2>1, <2>2
<1>18. HoldEveryOrderOnce(f, qs)'
  <2> DEFINE rest == UNION {Range(q[k]) : k \in Levels}
             more == UNION {Range(qs[k]) : k \in Levels}
  <2>1. /\ 1 .. size = Range(f) \cup ({pending} \ {Null}) \cup rest
        /\ IsInjective(f)
        /\ \A k \in Levels :
             /\ IsInjective(q[k]) /\ Range(q[k]) \cap Range(f) = {}
             /\ \A m \in Levels \ {k} : Range(q[k]) \cap Range(q[m]) = {}
    BY <1>1 DEF HoldEveryOrderOnce
  <2>2. \A x : x \in rest <=> \E k \in Levels : x \in Range(q[k])
    OBVIOUS
  <2>3. \A x : x \in more <=>
                 x \in Range(joined) \/ \E k \in Levels \ {l} : x \in Range(q[k])
    BY <1>14
  <2> HIDE DEF rest, more
  <2>4. more = rest \cup {o}
    BY <2>2, <2>3, <1>2, <1>12
  <2>5. 1 .. size' = Range(f) \cup ({pending'} \ {Null}) \cup more
    BY <2>1, <2>4, <1>3
  <2>6. pending' = Null /\ \A k \in Levels : IsInjective(qs[k]) /\ Range(qs[k]) \subseteq Slots
    BY <2>1, <1>2, <1>3, <1>4, <1>12, <1>14, <1>15
  <2>7. ASSUME NEW k \in Levels
        PROVE  /\ Range(qs[k]) \cap Range(f) = {}
               /\ \A m \in Levels \ {k} : Range(qs[k]) \cap Range(qs[m]) = {}
    <3>1. /\ Range(qs[l]) = Range(q[l]) \cup {o}
          /\ \A m \in Levels \ {l} : Range(qs[m]) = Range(q[m])
      BY <1>2, <1>12, <1>14
    <3>2. Range(qs[k]) \cap Range(f) = {}
      BY <2>1, <3>1, <1>4
    <3>3. ASSUME NEW m \in Levels \ {k}
          PROVE  Range(qs[k]) \cap Range(qs[m]) = {}
      <4>1. Range(q[k]) \cap Range(q[m]) = {} /\ o \notin Range(q[k]) /\ o \notin Range(q[m])
        BY <2>1, <1>4
      <4>2. CASE k = l
        BY <4>1, <4>2, <3>1
      <4>3. CASE k # l
        BY <4>1, <4>3, <3>1
      <4> QED
        BY <4>2, <4>3
    <3> QED
      BY <3>2, <3>3
  <2> QED
    BY <2>1, <2>5, <2>6, <2>7, <1>15 DEF HoldEveryOrderOnce, more
<1>19. LinksInv' /\ FreeList' = f /\ Queues' = qs
  BY <1>11, <1>14, <1>16, <1>17, <1>18, ListsAfter DEF Linked
<1>20. AbstractFree' = AbstractFree
  BY <1>0, <1>3, <1>19 DEF AbstractFree
<1>21. Orders!Rest(l)
  <2>1. Queues' = [Queues EXCEPT ![l] = Append(Queues[l], pending)]
    BY <1>0, <1>2, <1>19 DEF qs, joined
  <2> QED
    BY <2>1, <1>3, <1>20 DEF Orders!Rest, AbstractFree
<1> QED
  BY <1>19, <1>21

(* The memory of the links, and single writes to it behind a null test.    *)
LinkRecord == [prev : 0 .. PoolCapacity, next : 0 .. PoolCapacity]

LEMMA SingleWrites ==
  ASSUME NEW m \in [Slots -> LinkRecord], NEW p \in Slots \cup {Null},
         NEW s \in 0 .. PoolCapacity
  PROVE  /\ SetNext(m, p, s) \in [Slots -> LinkRecord]
         /\ \A x \in Slots :
              SetNext(m, p, s)[x] =
                [prev |-> m[x].prev, next |-> IF x = p THEN s ELSE m[x].next]
         /\ SetPrev(m, p, s) \in [Slots -> LinkRecord]
         /\ \A x \in Slots :
              SetPrev(m, p, s)[x] =
                [prev |-> IF x = p THEN s ELSE m[x].prev, next |-> m[x].next]
<1>0. Null \notin Slots /\ \A x \in Slots : m[x] \in LinkRecord
  BY DEF Slots, Null
<1>1. \A x \in Slots : m[x] = [prev |-> m[x].prev, next |-> m[x].next]
  BY <1>0 DEF LinkRecord
<1>2. CASE p = Null
  <2>1. SetNext(m, p, s) = m /\ SetPrev(m, p, s) = m
    BY <1>2 DEF SetNext, SetPrev
  <2>2. \A x \in Slots : x # p
    BY <1>0, <1>2
  <2> QED
    BY <2>1, <2>2, <1>1
<1>3. CASE p # Null
  <2> DEFINE a == [m[p] EXCEPT !.next = s]
             b == [m[p] EXCEPT !.prev = s]
  <2>1. /\ a = [prev |-> m[p].prev, next |-> s] /\ a \in LinkRecord
        /\ b = [prev |-> s, next |-> m[p].next] /\ b \in LinkRecord
    BY <1>0, <1>3 DEF LinkRecord
  <2>2. SetNext(m, p, s) = [m EXCEPT ![p] = a] /\ SetPrev(m, p, s) = [m EXCEPT ![p] = b]
    BY <1>3 DEF SetNext, SetPrev
  <2> HIDE DEF a, b
  <2>3. /\ [m EXCEPT ![p] = a] \in [Slots -> LinkRecord]
        /\ \A x \in Slots : [m EXCEPT ![p] = a][x] = IF x = p THEN a ELSE m[x]
        /\ [m EXCEPT ![p] = b] \in [Slots -> LinkRecord]
        /\ \A x \in Slots : [m EXCEPT ![p] = b][x] = IF x = p THEN b ELSE m[x]
    BY <2>1
  <2> QED
    BY <2>1, <2>2, <2>3, <1>1
<1> QED
  BY <1>2, <1>3

(* Removing o makes its neighbours p and s each other's, whatever is null. *)
LEMMA RemovedLinks ==
  ASSUME links \in [Slots -> LinkRecord], NEW o \in Slots,
         NEW p \in Slots \cup {Null}, NEW s \in Slots \cup {Null},
         links[o] = [prev |-> p, next |-> s]
  PROVE  /\ Removed(o) \in [Slots -> LinkRecord]
         /\ \A x \in Slots \ {o} :
              Removed(o)[x] = [prev |-> IF x = s THEN p ELSE links[x].prev,
                               next |-> IF x = p THEN s ELSE links[x].next]
<1> DEFINE a == SetNext(links, p, s)
           b == SetPrev(a, s, p)
           c == [b EXCEPT ![o] = Unlinked]
<1>0. p \in 0 .. PoolCapacity /\ s \in 0 .. PoolCapacity /\ Unlinked \in LinkRecord
  BY PoolAssumption DEF Slots, Null, Unlinked, LinkRecord
<1>1. Removed(o) = c
  BY DEF Removed
<1>2. /\ a \in [Slots -> LinkRecord]
      /\ \A x \in Slots :
           a[x] = [prev |-> links[x].prev, next |-> IF x = p THEN s ELSE links[x].next]
  BY <1>0, SingleWrites
<1> HIDE DEF a
<1>3. /\ b \in [Slots -> LinkRecord]
      /\ \A x \in Slots : b[x] = [prev |-> IF x = s THEN p ELSE a[x].prev, next |-> a[x].next]
  <2>1. a \in [Slots -> LinkRecord]
    BY <1>2
  <2> QED
    BY <1>0, <2>1, SingleWrites
<1> HIDE DEF b
<1>4. c \in [Slots -> LinkRecord] /\ \A x \in Slots \ {o} : c[x] = b[x]
  BY <1>0, <1>3
<1> HIDE DEF c
<1>5. ASSUME NEW x \in Slots \ {o}
      PROVE  c[x] = [prev |-> IF x = s THEN p ELSE links[x].prev,
                     next |-> IF x = p THEN s ELSE links[x].next]
  <2>1. c[x] = b[x]
    BY <1>4
  <2>2. b[x] = [prev |-> IF x = s THEN p ELSE a[x].prev, next |-> a[x].next]
    BY <1>3
  <2>3. /\ a[x].prev = links[x].prev
        /\ a[x].next = IF x = p THEN s ELSE links[x].next
    BY <1>2
  <2> QED
    BY <2>1, <2>2, <2>3
<1> QED
  BY <1>1, <1>4, <1>5

(* The k-th order of a level is filled or cancelled: it leaves the level,  *)
(* wherever it stands, and returns to the free list.                       *)
LEMMA RemovalLinks ==
  ASSUME LinksInv, NEW l \in Levels, NEW k \in 1 .. Len(Queues[l]),
         RemoveAndRelease(l, Queues[l][k]), UNCHANGED pending
  PROVE  /\ LinksInv'
         /\ Queues' = [Queues EXCEPT ![l] = RemoveAt(Queues[l], k)]
         /\ AbstractFree' = AbstractFree \cup {Queues[l][k]}
<1>0. PICK f \in Seq(Slots), q \in [Levels -> Seq(Slots)] : f = FreeList /\ q = Queues
  BY ListsBefore
<1>1. /\ FreeListLinked(f) /\ HoldEveryOrderOnce(f, q)
      /\ \A m \in Levels : LevelLinked(m, q[m])
      /\ IsInjective(f)
  BY <1>0, ListsBefore DEF HoldEveryOrderOnce
<1> PICK queue \in Seq(Slots) : queue = q[l]
  OBVIOUS
<1> DEFINE n == Len(queue)
<1>2. PICK o, p, s, h, t :
        /\ o = queue[k] /\ p = Nth(queue, k - 1) /\ s = Nth(queue, k + 1)
        /\ h = ends[l].head /\ t = ends[l].tail /\ queue = q[l]
  OBVIOUS
<1>3. n \in Nat /\ DOMAIN queue = 1 .. n /\ k \in 1 .. n /\ k \in Int
  BY <1>0, <1>2, QueueDomain
<1>4. /\ o \in Slots /\ o \in Range(queue) /\ o \notin Range(f) /\ o # pending
      /\ \A m \in Levels \ {l} : o \notin Range(q[m])
      /\ IsInjective(queue) /\ LevelLinked(l, queue)
      /\ Null \notin Slots
  <2>1. o \in Slots /\ o \in Range(queue) /\ Null \notin Slots
    BY <1>2, <1>3, QueueDomain, RangeOfQueue
  <2> QED
    BY <2>1, <1>1, <1>2 DEF HoldEveryOrderOnce
<1>5. /\ h = Nth(queue, 1) /\ t = Nth(queue, n)
      /\ links[o] = [prev |-> p, next |-> s]
  <2>1. /\ ends[l] = [head |-> Nth(queue, 1), tail |-> Nth(queue, Len(queue))]
        /\ links[queue[k]] = [prev |-> Nth(queue, k - 1), next |-> Nth(queue, k + 1)]
    BY <1>3, <1>4 DEF LevelLinked
  <2>2. ends[l].head = Nth(queue, 1) /\ ends[l].tail = Nth(queue, Len(queue))
    BY <2>1
  <2> QED
    BY <2>1, <2>2, <1>2
<1>6. \A i, j \in 1 .. n : queue[i] = queue[j] => i = j
  BY <1>4, RangeOfQueue
<1>7. /\ p = Null <=> k = 1
      /\ k # 1 => k - 1 \in 1 .. n /\ p = queue[k - 1] /\ p \in Range(queue) /\ p \in Slots
      /\ s = Null <=> k = n
      /\ k # n => k + 1 \in 1 .. n /\ s = queue[k + 1] /\ s \in Range(queue) /\ s \in Slots
  <2>1. /\ (k = 1) <=> (k - 1 \notin 1 .. n)
        /\ (k = n) <=> (k + 1 \notin 1 .. n)
        /\ k - 1 \in Int /\ k + 1 \in Int
    <3> HIDE DEF n
    <3> QED
      BY <1>3
  <2>2. (p = Null <=> k = 1) /\ (s = Null <=> k = n)
    BY <2>1, <1>2, NthOutside
  <2>3. ASSUME k # 1
        PROVE  k - 1 \in 1 .. n /\ p = queue[k - 1] /\ p \in Range(queue) /\ p \in Slots
    BY <2>1, <2>3, <1>2, QueueDomain, RangeOfQueue
  <2>4. ASSUME k # n
        PROVE  k + 1 \in 1 .. n /\ s = queue[k + 1] /\ s \in Range(queue) /\ s \in Slots
    BY <2>1, <2>4, <1>2, QueueDomain, RangeOfQueue
  <2> QED
    BY <2>2, <2>3, <2>4
<1>8. p \in Slots \cup {Null} /\ s \in Slots \cup {Null}
  BY <1>7
<1>9. /\ free_head' = o
      /\ links' = [Removed(o) EXCEPT ![o] = [prev |-> Null, next |-> free_head]]
      /\ ends' = [ends EXCEPT ![l] = [head |-> IF p = Null THEN s ELSE h,
                                      tail |-> IF s = Null THEN p ELSE t]]
      /\ UNCHANGED <<size, exhausted, pending>>
  <2>1. RemoveAndRelease(l, o)
    BY <1>0, <1>2
  <2>2. links[o].prev = p /\ links[o].next = s
    BY <1>5
  <2> QED
    BY <2>1, <2>2, <1>2 DEF RemoveAndRelease, Release, EndsWithout
<1>10. /\ links \in [Slots -> LinkRecord]
       /\ ends \in [Levels -> [head : 0 .. PoolCapacity, tail : 0 .. PoolCapacity]]
       /\ free_head \in 0 .. PoolCapacity
       /\ {Null, o, p, s, h, t} \subseteq 0 .. PoolCapacity
  <2>1. /\ links \in [Slots -> LinkRecord]
        /\ ends \in [Levels -> [head : 0 .. PoolCapacity, tail : 0 .. PoolCapacity]]
        /\ free_head \in 0 .. PoolCapacity
    BY DEF LinksInv, TypeOK, LinkRecord
  <2>2. Null \in 0 .. PoolCapacity /\ \A x \in Slots : x \in 0 .. PoolCapacity
    BY PoolAssumption DEF Slots, Null
  <2>3. ends[l].head \in 0 .. PoolCapacity /\ ends[l].tail \in 0 .. PoolCapacity
    BY <2>1
  <2> QED
    BY <2>1, <2>2, <2>3, <1>2, <1>4, <1>8
<1>11. /\ links' \in [Slots -> LinkRecord]
       /\ links'[o] = [prev |-> Null, next |-> free_head]
       /\ \A x \in Slots \ {o} :
            links'[x] = [prev |-> IF x = s THEN p ELSE links[x].prev,
                         next |-> IF x = p THEN s ELSE links[x].next]
  <2> DEFINE r == [prev |-> Null, next |-> free_head]
  <2>1. r \in LinkRecord
    BY <1>10 DEF LinkRecord
  <2>2. links' = [Removed(o) EXCEPT ![o] = r]
    BY <1>9
  <2> HIDE DEF r
  <2>3. /\ links' \in [Slots -> LinkRecord] /\ links'[o] = r
        /\ \A x \in Slots \ {o} :
             links'[x] = [prev |-> IF x = s THEN p ELSE links[x].prev,
                          next |-> IF x = p THEN s ELSE links[x].next]
    <3>1. o \in Slots /\ p \in Slots \cup {Null} /\ s \in Slots \cup {Null}
      BY <1>4, <1>8
    <3>2. /\ links \in [Slots -> LinkRecord]
          /\ links[o] = [prev |-> p, next |-> s]
      BY <1>5, <1>10
    <3>3. PICK memory \in [Slots -> LinkRecord] :
            /\ memory = Removed(o)
            /\ \A x \in Slots \ {o} :
                 memory[x] = [prev |-> IF x = s THEN p ELSE links[x].prev,
                              next |-> IF x = p THEN s ELSE links[x].next]
      BY <3>1, <3>2, RemovedLinks
    <3> QED
      BY <2>1, <2>2, <3>1, <3>3
  <2> QED
    BY <2>3 DEF r
<1>12. /\ ends'[l] = [head |-> IF p = Null THEN s ELSE h, tail |-> IF s = Null THEN p ELSE t]
       /\ \A m \in Levels \ {l} : ends'[m] = ends[m]
       /\ ends' \in [Levels -> [head : 0 .. PoolCapacity, tail : 0 .. PoolCapacity]]
  <2> DEFINE e == [head |-> IF p = Null THEN s ELSE h, tail |-> IF s = Null THEN p ELSE t]
  <2>1. e \in [head : 0 .. PoolCapacity, tail : 0 .. PoolCapacity]
    BY <1>10
  <2>2. ends' = [ends EXCEPT ![l] = e]
    BY <1>9
  <2> HIDE DEF e
  <2>3. /\ ends'[l] = e /\ \A m \in Levels \ {l} : ends'[m] = ends[m]
        /\ ends' \in [Levels -> [head : 0 .. PoolCapacity, tail : 0 .. PoolCapacity]]
    BY <2>1, <2>2, <1>10
  <2> QED
    BY <2>3 DEF e
<1>13. TypeOK'
  BY <1>9, <1>10, <1>11, <1>12 DEF LinksInv, TypeOK, LinkRecord
<1>14. (* A slot next to neither p nor s, and other than o, keeps its links. *)
       \A x \in Slots \ {o, p, s} : links'[x] = links[x]
  <2>1. \A x \in Slots : links[x] = [prev |-> links[x].prev, next |-> links[x].next]
    BY <1>10 DEF LinkRecord
  <2> QED
    BY <2>1, <1>11
<1> DEFINE left == RemoveAt(queue, k)
<1>15. /\ left \in Seq(Slots) /\ Len(left) = n - 1
       /\ \A i \in 1 .. n - 1 : left[i] = IF i < k THEN queue[i] ELSE queue[i + 1]
       /\ \A i \in Nat :
            Nth(left, i) = IF i < k THEN Nth(queue, i) ELSE Nth(queue, i + 1)
       /\ Range(left) = Range(queue) \ {queue[k]}
       /\ IsInjective(left)
  BY <1>3, <1>4, Leave
<1>16. Range(left) = Range(queue) \ {o}
  BY <1>2, <1>15
<1> HIDE DEF left, n
<1>17. LevelLinked(l, left)'
  <2>1. DOMAIN left = 1 .. n - 1
    BY <1>15, QueueDomain
  <2>2. Nth(left, 1) = IF p = Null THEN s ELSE h
    <3>1. CASE k = 1
      <4>1. 1 \in Nat /\ ~(1 < k) /\ 1 + 1 = k + 1
        BY <3>1
      <4>2. Nth(left, 1) = Nth(queue, 1 + 1)
        BY <4>1, <1>15
      <4> QED
        BY <3>1, <4>1, <4>2, <1>2, <1>7
    <3>2. CASE k # 1
      <4>1. 1 \in Nat /\ 1 < k
        BY <3>2, <1>3
      <4>2. Nth(left, 1) = Nth(queue, 1)
        BY <4>1, <1>15
      <4> QED
        BY <3>2, <4>2, <1>5, <1>7
    <3> QED
      BY <3>1, <3>2
  <2>3. Nth(left, n - 1) = IF s = Null THEN p ELSE t
    <3>0. n - 1 \in Nat /\ n \in 1 .. n
      BY <1>3
    <3>1. CASE k = n
      <4>1. n - 1 < k /\ n - 1 = k - 1
        BY <3>1, <1>3
      <4>2. Nth(left, n - 1) = Nth(queue, n - 1)
        BY <3>0, <4>1, <1>15
      <4> QED
        BY <3>1, <4>1, <4>2, <1>2, <1>7
    <3>2. CASE k # n
      <4>1. ~(n - 1 < k) /\ (n - 1) + 1 = n
        BY <3>2, <1>3
      <4>2. Nth(left, n - 1) = Nth(queue, (n - 1) + 1)
        BY <3>0, <4>1, <1>15
      <4> QED
        BY <3>2, <4>1, <4>2, <1>5, <1>7 DEF n
    <3> QED
      BY <3>1, <3>2
  <2>4. ASSUME NEW i \in 1 .. n - 1
        PROVE  links'[left[i]] = [prev |-> Nth(left, i - 1), next |-> Nth(left, i + 1)]
    <3>0. i - 1 \in Nat /\ i + 1 \in Nat /\ i \in Nat
      BY <1>3
    <3>1. CASE i < k
      <4>1. i \in 1 .. n /\ i # k /\ left[i] = queue[i]
        BY <3>1, <1>3, <1>15
      <4>2. queue[i] \in Slots \ {o}
        BY <4>1, <1>2, <1>3, <1>6, QueueDomain DEF n
      <4>3. links[queue[i]] = [prev |-> Nth(queue, i - 1), next |-> Nth(queue, i + 1)]
        BY <4>1, <1>3, <1>4 DEF LevelLinked
      <4>4. Nth(left, i - 1) = Nth(queue, i - 1)
        <5>1. i - 1 < k
          BY <3>1, <3>0, <1>3
        <5> QED
          BY <5>1, <3>0, <1>15
      <4>5. queue[i] # s
        <5>1. CASE k = n
          BY <5>1, <4>2, <1>4, <1>7
        <5>2. CASE k # n
          <6>1. i # k + 1
            BY <3>1, <3>0, <1>3
          <6> QED
            BY <5>2, <6>1, <4>1, <1>6, <1>7
        <5> QED
          BY <5>1, <5>2
      <4>6. (IF queue[i] = p THEN s ELSE Nth(queue, i + 1)) = Nth(left, i + 1)
        <5>1. CASE i + 1 = k
          <6>1. k # 1 /\ k - 1 = i /\ ~(i + 1 < k)
            BY <5>1, <4>1, <1>3
          <6>2. queue[i] = p
            BY <6>1, <1>7
          <6>3. Nth(left, i + 1) = Nth(queue, (i + 1) + 1)
            BY <6>1, <3>0, <1>15
          <6> QED
            BY <5>1, <6>2, <6>3, <1>2
        <5>2. CASE i + 1 # k
          <6>1. i + 1 < k /\ i # k - 1 /\ k # 1
            BY <5>2, <3>1, <4>1, <1>3
          <6>2. queue[i] # p
            BY <6>1, <4>1, <1>6, <1>7
          <6>3. Nth(left, i + 1) = Nth(queue, i + 1)
            BY <6>1, <3>0, <1>15
          <6> QED
            BY <6>2, <6>3
        <5> QED
          BY <5>1, <5>2
      <4>7. links'[queue[i]] =
              [prev |-> IF queue[i] = s THEN p ELSE links[queue[i]].prev,
               next |-> IF queue[i] = p THEN s ELSE links[queue[i]].next]
        BY <4>2, <1>11
      <4>8. links[queue[i]].prev = Nth(queue, i - 1) /\ links[queue[i]].next = Nth(queue, i + 1)
        BY <4>3
      <4>9. links'[queue[i]] =
              [prev |-> Nth(queue, i - 1),
               next |-> IF queue[i] = p THEN s ELSE Nth(queue, i + 1)]
        BY <4>5, <4>7, <4>8
      <4> QED
        BY <4>1, <4>4, <4>6, <4>9
    <3>2. CASE ~(i < k)
      <4>1. i + 1 \in 1 .. n /\ i + 1 # k /\ left[i] = queue[i + 1]
        BY <3>2, <1>3, <1>15
      <4>2. queue[i + 1] \in Slots \ {o}
        BY <4>1, <1>2, <1>3, <1>6, QueueDomain DEF n
      <4>3. links[queue[i + 1]] = [prev |-> Nth(queue, i), next |-> Nth(queue, (i + 1) + 1)]
        <5>1. (i + 1) - 1 = i
          BY <3>0
        <5>2. links[queue[i + 1]] =
                [prev |-> Nth(queue, (i + 1) - 1), next |-> Nth(queue, (i + 1) + 1)]
          BY <4>1, <1>3, <1>4 DEF LevelLinked
        <5> QED
          BY <5>1, <5>2
      <4>4. Nth(left, i + 1) = Nth(queue, (i + 1) + 1)
        <5>1. ~(i + 1 < k)
          BY <3>2, <3>0, <1>3
        <5> QED
          BY <5>1, <3>0, <1>15
      <4>5. queue[i + 1] # p
        <5>1. CASE k = 1
          BY <5>1, <4>2, <1>4, <1>7
        <5>2. CASE k # 1
          <6>1. i + 1 # k - 1
            BY <3>2, <3>0, <1>3
          <6> QED
            BY <5>2, <6>1, <4>1, <1>6, <1>7
        <5> QED
          BY <5>1, <5>2
      <4>6. (IF queue[i + 1] = s THEN p ELSE Nth(queue, i)) = Nth(left, i - 1)
        <5>1. CASE i = k
          <6>1. k # n /\ i - 1 < k
            BY <5>1, <4>1, <1>3
          <6>2. queue[i + 1] = s
            BY <5>1, <6>1, <1>7
          <6>3. Nth(left, i - 1) = Nth(queue, i - 1)
            BY <6>1, <3>0, <1>15
          <6> QED
            BY <5>1, <6>2, <6>3, <1>2
        <5>2. CASE i # k
          <6>1. ~(i - 1 < k) /\ i + 1 # k + 1 /\ k # n /\ (i - 1) + 1 = i
            BY <5>2, <3>2, <4>1, <3>0, <1>3
          <6>2. queue[i + 1] # s
            BY <6>1, <4>1, <1>6, <1>7
          <6>3. Nth(left, i - 1) = Nth(queue, (i - 1) + 1)
            BY <6>1, <3>0, <1>15
          <6> QED
            BY <6>1, <6>2, <6>3
        <5> QED
          BY <5>1, <5>2
      <4>7. links'[queue[i + 1]] =
              [prev |-> IF queue[i + 1] = s THEN p ELSE links[queue[i + 1]].prev,
               next |-> IF queue[i + 1] = p THEN s ELSE links[queue[i + 1]].next]
        BY <4>2, <1>11
      <4>8. /\ links[queue[i + 1]].prev = Nth(queue, i)
            /\ links[queue[i + 1]].next = Nth(queue, (i + 1) + 1)
        BY <4>3
      <4>9. links'[queue[i + 1]] =
              [prev |-> IF queue[i + 1] = s THEN p ELSE Nth(queue, i),
               next |-> Nth(queue, (i + 1) + 1)]
        BY <4>5, <4>7, <4>8
      <4> QED
        BY <4>1, <4>4, <4>6, <4>9
    <3> QED
      BY <3>1, <3>2
  <2>5. ends'[l] = [head |-> Nth(left, 1), tail |-> Nth(left, Len(left))]
    BY <2>2, <2>3, <1>12, <1>15
  <2> QED
    BY <2>1, <2>4, <2>5 DEF LevelLinked
<1> DEFINE qs == [q EXCEPT ![l] = left]
           g == <<o>> \o f
<1>18. /\ qs \in [Levels -> Seq(Slots)] /\ qs[l] = left
       /\ \A m \in Levels \ {l} : qs[m] = q[m]
       /\ \A x : x \in UNION {Range(qs[m]) : m \in Levels} <=>
                   x \in Range(left) \/ \E m \in Levels \ {l} : x \in Range(q[m])
  BY <1>15, OneLevelChanges
<1>19. g \in Seq(Slots) /\ Range(g) = Range(f) \cup {o} /\ IsInjective(g)
  BY <1>1, <1>4, JoinFront
<1> HIDE DEF qs
<1>20. /\ {p, s} \cap Range(f) = {}
       /\ \A m \in Levels \ {l} : {p, s} \cap Range(q[m]) = {}
       /\ Range(f) \subseteq Slots /\ \A m \in Levels : Range(q[m]) \subseteq Slots
  <2>1. Range(f) \subseteq Slots /\ \A m \in Levels : Range(q[m]) \subseteq Slots
    BY RangeOfQueue
  <2>2. /\ Range(queue) \cap Range(f) = {}
        /\ \A m \in Levels \ {l} : Range(queue) \cap Range(q[m]) = {}
    BY <1>1, <1>2 DEF HoldEveryOrderOnce
  <2>3. p \in Range(queue) \cup {Null} /\ s \in Range(queue) \cup {Null}
    BY <1>7
  <2> QED
    BY <2>1, <2>2, <2>3, <1>4
<1>21. FreeListLinked(g)'
  <2>1. \A x \in Range(f) : links'[x] = links[x]
    BY <1>4, <1>14, <1>20
  <2> QED
    BY <2>1, <1>1, <1>4, <1>9, <1>11, Released
<1>22. ASSUME NEW m \in Levels
       PROVE  LevelLinked(m, qs[m])'
  <2>1. CASE m = l
    BY <2>1, <1>17, <1>18
  <2>2. CASE m # l
    <3>1. \A x \in Range(q[m]) : links'[x] = links[x]
      BY <2>2, <1>4, <1>14, <1>20
    <3>2. LevelLinked(m, q[m])'
      BY <2>2, <3>1, <1>1, <1>12, LevelKept
    <3> QED
      BY <2>2, <3>2, <1>18
  <2> QED
    BY <2>1, <2>2
<1> HIDE DEF g
<1>23. HoldEveryOrderOnce(g, qs)'
  <2> DEFINE rest == UNION {Range(q[m]) : m \in Levels}
             less == UNION {Range(qs[m]) : m \in Levels}
  <2>1. /\ 1 .. size = Range(f) \cup ({pending} \ {Null}) \cup rest
        /\ pending \notin Range(f)
        /\ \A m \in Levels :
             /\ IsInjective(q[m]) /\ Range(q[m]) \cap Range(f) = {}
             /\ pending \notin Range(q[m])
             /\ \A j \in Levels \ {m} : Range(q[m]) \cap Range(q[j]) = {}
    BY <1>1 DEF HoldEveryOrderOnce
  <2>2. \A x : x \in rest <=> \E m \in Levels : x \in Range(q[m])
    OBVIOUS
  <2>3. \A x : x \in less <=>
                 x \in Range(left) \/ \E m \in Levels \ {l} : x \in Range(q[m])
    BY <1>18
  <2> HIDE DEF rest, less
  <2>4. less = rest \ {o} /\ o \in rest
    BY <2>2, <2>3, <1>2, <1>4, <1>16
  <2>5. 1 .. size' = Range(g) \cup ({pending'} \ {Null}) \cup less
    BY <2>1, <2>4, <1>9, <1>19
  <2>6. /\ IsInjective(g) /\ pending' \notin Range(g)
        /\ \A m \in Levels : IsInjective(qs[m]) /\ pending' \notin Range(qs[m])
    <3>1. IsInjective(g) /\ pending' \notin Range(g)
      BY <2>1, <1>4, <1>9, <1>19
    <3>2. IsInjective(qs[l]) /\ pending' \notin Range(qs[l])
      BY <2>1, <1>2, <1>9, <1>15, <1>16, <1>18
    <3>3. ASSUME NEW m \in Levels \ {l}
          PROVE  IsInjective(qs[m]) /\ pending' \notin Range(qs[m])
      BY <2>1, <1>9, <1>18
    <3> QED
      BY <3>1, <3>2, <3>3
  <2>7. ASSUME NEW m \in Levels
        PROVE  /\ Range(qs[m]) \cap Range(g) = {}
               /\ \A j \in Levels \ {m} : Range(qs[m]) \cap Range(qs[j]) = {}
    <3>1. /\ Range(qs[l]) = Range(q[l]) \ {o}
          /\ \A j \in Levels \ {l} : Range(qs[j]) = Range(q[j])
      BY <1>2, <1>16, <1>18
    <3>2. Range(qs[m]) \subseteq Range(q[m]) /\ o \notin Range(qs[m])
      BY <3>1, <1>4
    <3>3. Range(qs[m]) \cap Range(g) = {}
      BY <2>1, <3>2, <1>19
    <3>4. ASSUME NEW j \in Levels \ {m}
          PROVE  Range(qs[m]) \cap Range(qs[j]) = {}
      <4>1. Range(qs[j]) \subseteq Range(q[j])
        BY <3>1
      <4> QED
        BY <2>1, <3>2, <4>1
    <3> QED
      BY <3>3, <3>4
  <2> QED
    BY <2>5, <2>6, <2>7 DEF HoldEveryOrderOnce, less
<1>24. LinksInv' /\ FreeList' = g /\ Queues' = qs
  BY <1>13, <1>18, <1>19, <1>21, <1>22, <1>23, ListsAfter DEF Linked
<1>25. Queues' = [Queues EXCEPT ![l] = RemoveAt(Queues[l], k)]
  BY <1>0, <1>2, <1>24 DEF qs, left
<1>26. AbstractFree' = AbstractFree \cup {Queues[l][k]}
  BY <1>0, <1>2, <1>9, <1>19, <1>24 DEF AbstractFree
<1> QED
  BY <1>24, <1>25, <1>26

LEMMA FillLinks ==
  ASSUME LinksInv, NEW l \in Levels, FillFront(l)
  PROVE  LinksInv' /\ Orders!Fill(l)
<1>1. PICK queue \in Seq(Slots) : queue = Queues[l] /\ LevelLinked(l, queue)
  BY ListsBefore
<1>2. ends[l].head = Nth(queue, 1) /\ ends[l].head # Null
  BY <1>1 DEF LevelLinked, FillFront
<1>3. 1 \in 1 .. Len(queue)
  BY <1>2, NthOutside
<1>4. ends[l].head = queue[1]
  BY <1>2, <1>3, QueueDomain
<1>5. /\ pending # Null /\ pending' = pending
      /\ RemoveAndRelease(l, Queues[l][1])
  BY <1>1, <1>4 DEF FillFront
<1>6. exhausted' = exhausted
  BY <1>5 DEF RemoveAndRelease
<1>7. /\ LinksInv'
      /\ Queues' = [Queues EXCEPT ![l] = RemoveAt(Queues[l], 1)]
      /\ AbstractFree' = AbstractFree \cup {Queues[l][1]}
  BY <1>1, <1>3, <1>5, RemovalLinks
<1>8. /\ Tail(Queues[l]) = RemoveAt(Queues[l], 1) /\ Head(Queues[l]) = Queues[l][1]
      /\ Queues[l] # <<>>
  BY <1>1, <1>3, TailIsRemoval
<1>9. Orders!Fill(l)
  BY <1>5, <1>6, <1>7, <1>8 DEF Orders!Fill, AbstractFree
<1> QED
  BY <1>7, <1>9

LEMMA CancelLinks ==
  ASSUME LinksInv, NEW l \in Levels, NEW i \in DOMAIN Queue(l), Cancel(l, Queue(l)[i])
  PROVE  LinksInv' /\ i \in DOMAIN Queues[l] /\ Orders!Cancel(l, i)
<1>1. Queue(l) = Queues[l] /\ Queues[l] \in Seq(Slots)
  BY ListsBefore
<1>2. i \in 1 .. Len(Queues[l])
  BY <1>1, QueueDomain
<1>3. /\ pending = Null /\ pending' = pending
      /\ RemoveAndRelease(l, Queues[l][i])
  BY <1>1 DEF Cancel
<1>4. exhausted' = exhausted
  BY <1>3 DEF RemoveAndRelease
<1>5. /\ LinksInv'
      /\ Queues' = [Queues EXCEPT ![l] = RemoveAt(Queues[l], i)]
      /\ AbstractFree' = AbstractFree \cup {Queues[l][i]}
  BY <1>2, <1>3, RemovalLinks
<1>6. RemoveAt(Queues[l], i) = Orders!RemoveAt(Queues[l], i)
  BY DEF RemoveAt, Orders!RemoveAt
<1>7. Orders!Cancel(l, i)
  BY <1>3, <1>4, <1>5, <1>6 DEF Orders!Cancel, AbstractFree
<1> QED
  BY <1>1, <1>5, <1>7

LEMMA StutterLinks ==
  ASSUME LinksInv, UNCHANGED vars
  PROVE  LinksInv' /\ UNCHANGED Orders!vars
<1>0. UNCHANGED <<links, free_head, size, ends, pending, exhausted>>
  BY DEF vars
<1>1. PICK f \in Seq(Slots), q \in [Levels -> Seq(Slots)] : f = FreeList /\ q = Queues
  BY ListsBefore
<1>2. /\ FreeListLinked(f) /\ HoldEveryOrderOnce(f, q)
      /\ \A l \in Levels : LevelLinked(l, q[l])
  BY <1>1, ListsBefore
<1>3. TypeOK'
  BY <1>0 DEF LinksInv, TypeOK
<1>4. FreeListLinked(f)' /\ HoldEveryOrderOnce(f, q)'
  BY <1>0, <1>2, FreeListKept DEF HoldEveryOrderOnce
<1>5. ASSUME NEW l \in Levels
      PROVE  LevelLinked(l, q[l])'
  BY <1>0, <1>2, LevelKept
<1>6. LinksInv' /\ FreeList' = f /\ Queues' = q
  BY <1>3, <1>4, <1>5, ListsAfter DEF Linked
<1> QED
  BY <1>0, <1>1, <1>6 DEF Orders!vars

-----------------------------------------------------------------------------
(* The theorems                                                            *)

LEMMA LinksStep ==
  ASSUME LinksInv, [Next]_vars
  PROVE  LinksInv' /\ [Orders!Next]_(Orders!vars)
<1>1. CASE Place
  BY <1>1, ReuseLinks, FreshLinks DEF Orders!Next
<1>2. CASE Refuse
  BY <1>2, RefuseLinks DEF Orders!Next
<1>3. CASE Discard
  BY <1>3, DiscardLinks DEF Orders!Next
<1>4. ASSUME NEW l \in Levels, Rest(l)
      PROVE  LinksInv' /\ [Orders!Next]_(Orders!vars)
  BY <1>4, RestLinks DEF Orders!Next
<1>5. ASSUME NEW l \in Levels, FillFront(l)
      PROVE  LinksInv' /\ [Orders!Next]_(Orders!vars)
  BY <1>5, FillLinks DEF Orders!Next
<1>6. ASSUME NEW l \in Levels, NEW i \in DOMAIN Queue(l), Cancel(l, Queue(l)[i])
      PROVE  LinksInv' /\ [Orders!Next]_(Orders!vars)
  BY <1>6, CancelLinks DEF Orders!Next
<1>7. CASE UNCHANGED vars
  BY <1>7, StutterLinks
<1> QED
  BY <1>1, <1>2, <1>3, <1>4, <1>5, <1>6, <1>7 DEF Next

(* The links form the free list and the queues of the levels after any     *)
(* number of calls, and each order handed out is in one of these or in the *)
(* hands of the book (OrderPool.h:19-41, PriceLevel.h:15-56).              *)
THEOREM LinksFormTheLists == Spec => []LinksInv
<1>1. Init => LinksInv
  BY InitLinks
<1>2. LinksInv /\ [Next]_vars => LinksInv'
  BY LinksStep
<1> QED
  BY <1>1, <1>2, PTL DEF Spec

(* Every link and end is null or an order of the pool (Order.h:9-22).      *)
THEOREM LinksWellTyped == Spec => []TypeOK
<1>1. LinksInv => TypeOK
  BY DEF LinksInv
<1> QED
  BY <1>1, LinksFormTheLists, PTL

(* Read from its tail, a level is its queue reversed, whichever orders     *)
(* left it and wherever they stood (PriceLevel.h:15-56).                   *)
THEOREM LevelsReadTheSameBothWays == Spec => []LevelsReadBothWays
<1>1. LinksInv => LevelsReadBothWays
  BY ListsRead DEF LinksInv, LevelsReadBothWays
<1> QED
  BY <1>1, LinksFormTheLists, PTL

(* No order leaks and none is in two places, though the free list and the  *)
(* levels thread the same link (OrderPool.h:19-41, PriceLevel.h:15-56).    *)
THEOREM OrdersInOnePlace == Spec => []EveryOrderInOnePlace
<1>1. LinksInv => EveryOrderInOnePlace
  BY DEF LinksInv, Linked, EveryOrderInOnePlace
<1> QED
  BY <1>1, LinksFormTheLists, PTL

(* The pool and the levels do with links what module OrderQueues does with *)
(* a set and with queues, for every capacity: the order of arrival         *)
(* survives every removal, and nullptr is returned only when all orders    *)
(* are in use (OrderPool.h:19-41, PriceLevel.h:15-56).                     *)
THEOREM LinksAreOrderQueues == Spec => ImplementsOrderQueues
<1>1. Init => Orders!Init
  <2>1. ASSUME Init
        PROVE  Orders!Init
    <3>1. /\ FreeList = <<>> /\ Queues = [l \in Levels |-> <<>>]
          /\ pending = Null /\ size = 0 /\ exhausted = FALSE
      BY <2>1, InitLinks DEF Init
    <3>2. Range(<<>>) = {}
      BY DEF Range
    <3>3. (Slots \ 1 .. size) \cup Range(FreeList) = Slots
      BY <3>1, <3>2
    <3> QED
      BY <3>1, <3>3 DEF Orders!Init
  <2> QED
    BY <2>1
<1>2. LinksInv /\ [Next]_vars => [Orders!Next]_(Orders!vars)
  BY LinksStep
<1> QED
  BY <1>1, <1>2, LinksFormTheLists, PTL DEF Spec, ImplementsOrderQueues, Orders!Spec

=============================================================================
