------------------------ MODULE FixedOrderMap_proofs ------------------------
(***************************************************************************)
(* The lookup map is a map for every capacity, every set of keys and every *)
(* hash function.                                                          *)
(*                                                                         *)
(* The table is a ring, and what makes it hard is that "before" and        *)
(* "after" have no meaning on a ring.  The invariant finds a place to cut  *)
(* it open: a bucket w such that no probe path leads past it.  Counted     *)
(* from w, the path of every entry runs straight from its home up to the   *)
(* entry.  Such a w always exists: an insert that fills the last vacant    *)
(* bucket makes the cut behind itself.                                     *)
(***************************************************************************)
EXTENDS FixedOrderMap, FiniteSetTheorems, WellFoundedInduction, TLAPS

-----------------------------------------------------------------------------
(* Counting round the table *)

LEMMA DistanceFacts ==
  ASSUME NEW w \in Buckets, NEW i \in Buckets
  PROVE  /\ ProbeDistance(w, i) \in Buckets
         /\ ProbeDistance(w, i) \in Nat /\ ProbeDistance(w, i) < Capacity
BY MapAssumption DEF ProbeDistance, Masked, Buckets

LEMMA DistancesDiffer ==
  ASSUME NEW w \in Buckets, NEW i \in Buckets, NEW j \in Buckets, i # j
  PROVE  ProbeDistance(w, i) # ProbeDistance(w, j)
BY MapAssumption DEF ProbeDistance, Masked, Buckets

(* The distance from h to i, when both are counted from w.                 *)
LEMMA DistanceBetween ==
  ASSUME NEW w \in Buckets, NEW h \in Buckets, NEW i \in Buckets
  PROVE  ProbeDistance(h, i) =
           IF ProbeDistance(w, h) <= ProbeDistance(w, i)
           THEN ProbeDistance(w, i) - ProbeDistance(w, h)
           ELSE ProbeDistance(w, i) - ProbeDistance(w, h) + Capacity
BY MapAssumption DEF ProbeDistance, Masked, Buckets

LEMMA NextFacts ==
  ASSUME NEW w \in Buckets, NEW i \in Buckets
  PROVE  /\ NextBucket(i) \in Buckets
         /\ ProbeDistance(w, NextBucket(i)) =
              IF ProbeDistance(w, i) = Capacity - 1
              THEN 0
              ELSE ProbeDistance(w, i) + 1
BY MapAssumption DEF NextBucket, ProbeDistance, Masked, Buckets

LEMMA ProbeFacts ==
  ASSUME home \in [Keys -> Buckets], NEW key \in Keys, NEW i \in Buckets
  PROVE  /\ home[key] \in Buckets
         /\ Probe(key, i) \in Buckets
         /\ ProbeDistance(home[key], Probe(key, i)) = i
         /\ Probe(key, ProbeDistance(home[key], i)) = i
<1>1. home[key] \in Buckets
  OBVIOUS
<1> QED
  BY <1>1, MapAssumption DEF Probe, ProbeDistance, Masked, Buckets

LEMMA MinFacts ==
  ASSUME NEW S \in SUBSET Nat, S # {}
  PROVE  Min(S) \in S /\ \A y \in S : Min(S) <= y
<1>1. PICK x \in S : \A y \in S : ~(<<y, x>> \in OpToRel(<, Nat))
  BY NatLessThanWellFounded, WFMin
<1>2. \A y \in S : ~(y < x)
  BY <1>1 DEF OpToRel
<1>3. \A y \in S : x <= y
  BY <1>2
<1> QED
  BY <1>3 DEF Min

LEMMA EntryTypes ==
  ASSUME TypeOK, NEW i \in Occupied
  PROVE  /\ i \in Buckets
         /\ entries[i].key \in Keys /\ entries[i].value \in Values
         /\ home[entries[i].key] \in Buckets
         /\ entries[i] = Entry(entries[i].key, entries[i].value)
<1>1. i \in Buckets /\ entries[i].occupied
  BY DEF Occupied
<1>2. entries[i] # Vacant
  BY <1>1 DEF Vacant
<1>3. PICK key \in Keys, value \in Values : entries[i] = Entry(key, value)
  BY <1>1, <1>2 DEF TypeOK
<1>4. entries[i].key = key /\ entries[i].value = value
  BY <1>3 DEF Entry
<1> QED
  BY <1>1, <1>3, <1>4 DEF TypeOK

-----------------------------------------------------------------------------
(* The invariant *)

HomeOf(i) == home[entries[i].key]

(* Counted from bucket w, every entry stands at or after its home, and the *)
(* buckets from there to the entry are occupied, but for the one erase has *)
(* vacated.                                                                *)
Straight(w) ==
  \A i \in Occupied :
    /\ ProbeDistance(w, HomeOf(i)) <= ProbeDistance(w, i)
    /\ \A b \in Buckets :
         /\ ProbeDistance(w, HomeOf(i)) <= ProbeDistance(w, b)
         /\ ProbeDistance(w, b) <= ProbeDistance(w, i)
         => entries[b].occupied \/ (erasing /\ b = hole)

(* The probe path of the entry in bucket i leads across the hole.          *)
Crosses(w, i) ==
  /\ ProbeDistance(w, HomeOf(i)) <= ProbeDistance(w, hole)
  /\ ProbeDistance(w, hole) < ProbeDistance(w, i)

(* Until the loop of erase has come round to w, the entries whose path the *)
(* hole interrupts are all still to be looked at; after that there are     *)
(* none.                                                                   *)
StillAhead(w) ==
  /\ ProbeDistance(w, hole) < ProbeDistance(w, scan)
  /\ examined < ProbeDistance(w, scan)
  /\ \A i \in Occupied :
       Crosses(w, i) => ProbeDistance(w, scan) <= ProbeDistance(w, i)

NoneCrosses(w) == \A i \in Occupied : ~Crosses(w, i)

HoleMends(w) ==
  erasing => ~entries[hole].occupied /\ (StillAhead(w) \/ NoneCrosses(w))

MapInv ==
  /\ TypeOK
  /\ KeysOnce
  /\ size = Cardinality(Occupied)
  /\ \E w \in Buckets : Straight(w) /\ HoleMends(w)

LEMMA StraightPaths ==
  ASSUME TypeOK, ~erasing, NEW w \in Buckets, Straight(w)
  PROVE  ProbePathsUnbroken
<1> SUFFICES ASSUME NEW i \in Occupied,
                    NEW p \in 0 .. ProbeDistance(HomeOf(i), i)
             PROVE  entries[Probe(entries[i].key, p)].occupied
  BY DEF ProbePathsUnbroken, HomeOf
<1> DEFINE h == HomeOf(i)
           b == Probe(entries[i].key, p)
<1>1. i \in Buckets /\ h \in Buckets /\ entries[i].key \in Keys
  BY EntryTypes DEF HomeOf
<1>2. ProbeDistance(h, i) \in Buckets
  BY <1>1, DistanceFacts
<1>3. p \in Buckets
  BY <1>2, MapAssumption DEF Buckets
<1>4. b \in Buckets /\ ProbeDistance(h, b) = p
  BY <1>1, <1>3, ProbeFacts DEF TypeOK, HomeOf
<1>5. ProbeDistance(w, h) <= ProbeDistance(w, i)
  BY DEF Straight
<1>6. p <= ProbeDistance(h, i)
  BY <1>2 DEF Buckets
<1> HIDE DEF h, b
<1>7. /\ ProbeDistance(w, h) \in Nat /\ ProbeDistance(w, i) \in Nat
      /\ ProbeDistance(w, b) \in Nat /\ ProbeDistance(w, i) < Capacity
      /\ ProbeDistance(w, h) < Capacity /\ ProbeDistance(w, b) < Capacity
  BY <1>1, <1>4, DistanceFacts
<1>8. ProbeDistance(h, i) = ProbeDistance(w, i) - ProbeDistance(w, h)
  BY <1>1, <1>5, DistanceBetween
<1>9. ProbeDistance(w, h) <= ProbeDistance(w, b)
      /\ ProbeDistance(w, b) <= ProbeDistance(w, i)
  <2>1. CASE ProbeDistance(w, h) <= ProbeDistance(w, b)
    <3>1. p = ProbeDistance(w, b) - ProbeDistance(w, h)
      BY <1>1, <1>4, <2>1, DistanceBetween
    <3> QED
      BY <1>6, <1>7, <1>8, <2>1, <3>1
  <2>2. CASE ~(ProbeDistance(w, h) <= ProbeDistance(w, b))
    <3>1. p = ProbeDistance(w, b) - ProbeDistance(w, h) + Capacity
      BY <1>1, <1>4, <2>2, DistanceBetween
    <3> QED
      BY <1>6, <1>7, <1>8, <2>2, <3>1, MapAssumption
  <2> QED
    BY <2>1, <2>2
<1> QED
  BY <1>4, <1>9 DEF Straight, h, b

-----------------------------------------------------------------------------
(* What a search finds *)


LEMMA FirstEnd ==
  ASSUME NEW key \in Keys, Ends(key) # {}
  PROVE  /\ Min(Ends(key)) \in Ends(key)
         /\ \A p \in Ends(key) : Min(Ends(key)) <= p
<1>1. Ends(key) \in SUBSET Nat
  BY DEF Ends, Buckets
<1> QED
  BY <1>1, MinFacts

(* A key that is in the table is found, where it is.                       *)
LEMMA FindHeld ==
  ASSUME TypeOK, KeysOnce, ProbePathsUnbroken, ~erasing, NEW i \in Occupied
  PROVE  /\ Ends(entries[i].key) # {}
         /\ EndOfSearch(entries[i].key) = i
         /\ Holds(i, entries[i].key)
         /\ FindIndex(entries[i].key) = i
<1> DEFINE key == entries[i].key
           d == ProbeDistance(home[key], i)
           m == Min(Ends(key))
<1>1. i \in Buckets /\ key \in Keys /\ home[key] \in Buckets /\ Holds(i, key)
  BY EntryTypes DEF Holds, Occupied
<1>2. d \in Buckets /\ Probe(key, d) = i
  BY <1>1, DistanceFacts, ProbeFacts DEF TypeOK
<1>3. d \in Ends(key)
  BY <1>1, <1>2 DEF Ends
<1>4. m \in Ends(key) /\ m <= d
  BY <1>1, <1>3, FirstEnd
<1>5. m \in Buckets /\ m \in 0 .. d
  BY <1>2, <1>4 DEF Ends, Buckets
<1>6. entries[Probe(key, m)].occupied
  BY <1>5 DEF ProbePathsUnbroken
<1>7. Holds(Probe(key, m), key)
  BY <1>4, <1>6 DEF Ends
<1>8. Probe(key, m) \in Buckets
  BY <1>1, <1>5, ProbeFacts DEF TypeOK
<1>9. Probe(key, m) = i
  BY <1>7, <1>8 DEF KeysOnce, Occupied, Holds
<1> QED
  BY <1>1, <1>3, <1>9 DEF EndOfSearch, FindIndex

(* The search for any other key ends at a vacant bucket, if there is one,  *)
(* and has passed occupied buckets only.                                   *)
LEMMA FindMissing ==
  ASSUME TypeOK, NEW key \in Keys, \A i \in Occupied : entries[i].key # key
  PROVE  /\ FindIndex(key) = Capacity
         /\ Ends(key) = {} => Occupied = Buckets
         /\ Ends(key) # {} =>
              /\ EndOfSearch(key) \in Buckets
              /\ ~entries[EndOfSearch(key)].occupied
              /\ ~Holds(EndOfSearch(key), key)
              /\ \A b \in Buckets :
                   ProbeDistance(home[key], b) < ProbeDistance(home[key], EndOfSearch(key))
                     => entries[b].occupied
<1>1. \A b \in Buckets : ~Holds(b, key)
  BY DEF Occupied, Holds
<1>2. \A b \in Buckets :
        /\ ProbeDistance(home[key], b) \in Buckets
        /\ Probe(key, ProbeDistance(home[key], b)) = b
  BY ProbeFacts, DistanceFacts DEF TypeOK
<1>3. \A b \in Buckets :
        ~entries[b].occupied => ProbeDistance(home[key], b) \in Ends(key)
  BY <1>2 DEF Ends
<1>4. ASSUME Ends(key) # {}
      PROVE  /\ EndOfSearch(key) \in Buckets
             /\ ~entries[EndOfSearch(key)].occupied
             /\ ~Holds(EndOfSearch(key), key)
             /\ \A b \in Buckets :
                  ProbeDistance(home[key], b) < ProbeDistance(home[key], EndOfSearch(key))
                    => entries[b].occupied
  <2> DEFINE m == Min(Ends(key))
  <2>1. m \in Ends(key) /\ \A p \in Ends(key) : m <= p
    BY <1>4, FirstEnd
  <2>2. m \in Buckets
    BY <2>1 DEF Ends
  <2>3. /\ EndOfSearch(key) = Probe(key, m) /\ EndOfSearch(key) \in Buckets
        /\ ProbeDistance(home[key], EndOfSearch(key)) = m
    BY <2>2, ProbeFacts DEF TypeOK, EndOfSearch
  <2>4. ~entries[EndOfSearch(key)].occupied
    BY <1>1, <2>1, <2>3 DEF Ends
  <2> HIDE DEF m
  <2>5. ASSUME NEW b \in Buckets, ProbeDistance(home[key], b) < m,
               ~entries[b].occupied
        PROVE  FALSE
    <3>1. m <= ProbeDistance(home[key], b)
      BY <1>3, <2>1, <2>5
    <3> QED
      BY <1>2, <2>2, <2>5, <3>1 DEF Buckets
  <2> QED
    BY <1>1, <2>3, <2>4, <2>5
<1>5. FindIndex(key) = Capacity
  BY <1>1, <1>4 DEF FindIndex
<1>6. Ends(key) = {} => Occupied = Buckets
  BY <1>3 DEF Occupied
<1> QED
  BY <1>4, <1>5, <1>6

-----------------------------------------------------------------------------
(* The steps *)

LEMMA PathsUnbroken == MapInv => ProbePathsUnbroken
<1> SUFFICES ASSUME MapInv, ~erasing
             PROVE  ProbePathsUnbroken
  BY DEF ProbePathsUnbroken
<1> QED
  BY StraightPaths DEF MapInv

LEMMA BucketsAreFinite ==
  ASSUME NEW S \in SUBSET Buckets
  PROVE  IsFiniteSet(S) /\ Cardinality(S) \in 0 .. Capacity
<1>1. IsFiniteSet(Buckets) /\ Cardinality(Buckets) = Capacity
  BY FS_Interval, MapAssumption DEF Buckets
<1> QED
  BY <1>1, FS_Subset, FS_CardinalityType, MapAssumption

LEMMA TableUnchanged ==
  ASSUME MapInv, UNCHANGED <<home, entries, size, loop>>
  PROVE  MapInv'
<1> USE DEF loop
<1>1. Occupied' = Occupied /\ \A i : HomeOf(i)' = HomeOf(i)
  BY DEF Occupied, Buckets, HomeOf
<1>2. TypeOK' /\ KeysOnce'
  BY <1>1 DEF MapInv, TypeOK, KeysOnce, Buckets
<1>3. PICK w \in Buckets : Straight(w) /\ HoleMends(w)
  BY DEF MapInv
<1>4. Straight(w)' /\ HoleMends(w)'
  BY <1>1, <1>3 DEF Straight, HoleMends, StillAhead, NoneCrosses, Crosses,
                    ProbeDistance, Masked, Buckets
<1> QED
  BY <1>1, <1>2, <1>3, <1>4 DEF MapInv, Buckets

(* An insert puts the cut behind the new entry.                            *)
LEMMA InsertedStraight ==
  ASSUME TypeOK, ~erasing, ~erasing', home' = home,
         NEW key \in Keys, NEW value \in Values, NEW e \in Buckets,
         ~entries[e].occupied,
         \A b \in Buckets :
           ProbeDistance(home[key], b) < ProbeDistance(home[key], e)
             => entries[b].occupied,
         entries' = [entries EXCEPT ![e] = Entry(key, value)],
         NEW w \in Buckets, Straight(w), NEW v \in Buckets, v = NextBucket(e)
  PROVE  Straight(v)'
<1> DEFINE D(i) == ProbeDistance(w, i)
           V(i) == ProbeDistance(v, i)
<1>1. v \in Buckets /\ D(v) = IF D(e) = Capacity - 1 THEN 0 ELSE D(e) + 1
  BY NextFacts
<1>2. \A i \in Buckets : D(i) \in Nat /\ D(i) < Capacity
                       /\ V(i) \in Nat /\ V(i) < Capacity
  BY <1>1, DistanceFacts
<1>3. \A i \in Buckets : D(i) = D(e) => i = e
  BY DistancesDiffer
<1>4. \A i \in Buckets : V(i) = IF D(v) <= D(i) THEN D(i) - D(v)
                              ELSE D(i) - D(v) + Capacity
  BY <1>1, DistanceBetween
<1> HIDE DEF D, V
<1>5. V(e) = Capacity - 1
  BY <1>1, <1>2, <1>4, MapAssumption
<1>6. entries'[e] = Entry(key, value) /\ \A i \in Buckets \ {e} : entries'[i] = entries[i]
  BY DEF TypeOK
<1>7. entries'[e].occupied /\ entries'[e].key = key
  BY <1>6 DEF Entry
<1>8. /\ \A i \in Buckets : entries[i].occupied => entries'[i].occupied
      /\ Occupied' = Occupied \cup {e} /\ e \notin Occupied
  BY <1>6, <1>7 DEF Occupied, Buckets
<1>9. ASSUME NEW i \in Occupied'
      PROVE  /\ V(HomeOf(i)') <= V(i)
             /\ \A b \in Buckets : V(HomeOf(i)') <= V(b) /\ V(b) <= V(i) => entries'[b].occupied
  <2>1. CASE i = e
    <3>1. HomeOf(i)' = home[key] /\ home[key] \in Buckets
      BY <1>7, <2>1 DEF HomeOf, TypeOK
    <3> DEFINE h == home[key]
    <3>2. V(h) \in Nat /\ V(h) < Capacity
      BY <1>2, <3>1
    <3>3. V(h) <= V(e)
      BY <1>5, <3>2, MapAssumption
    <3>4. ASSUME NEW b \in Buckets, V(h) <= V(b)
          PROVE  entries'[b].occupied
      <4>1. CASE b = e
        BY <1>7, <4>1
      <4>2. CASE b # e
        <5>1. /\ ProbeDistance(h, b) = V(b) - V(h)
              /\ ProbeDistance(h, e) = V(e) - V(h)
          BY <1>1, <3>1, <3>3, <3>4, DistanceBetween DEF V
        <5>2. V(b) # V(e) /\ V(b) \in Nat /\ V(b) < Capacity
          BY <1>1, <1>2, <4>2, DistancesDiffer DEF V
        <5>3. ProbeDistance(h, b) < ProbeDistance(h, e)
          BY <1>5, <3>2, <5>1, <5>2, MapAssumption
        <5> QED
          BY <1>8, <5>3
      <4> QED
        BY <4>1, <4>2
    <3> QED
      BY <2>1, <3>1, <3>3, <3>4
  <2>2. CASE i # e
    <3>1. i \in Occupied /\ i \in Buckets /\ HomeOf(i)' = HomeOf(i)
      BY <1>6, <1>8, <2>2 DEF Occupied, HomeOf
    <3> DEFINE h == HomeOf(i)
    <3>2. h \in Buckets
      BY <3>1, EntryTypes DEF HomeOf
    <3>3. /\ D(h) <= D(i)
          /\ \A b \in Buckets : D(h) <= D(b) /\ D(b) <= D(i) => entries[b].occupied
      BY <3>1 DEF Straight, D
    <3> HIDE DEF h
    <3>4. ~(D(h) <= D(e) /\ D(e) <= D(i)) /\ D(i) # D(e)
      BY <1>3, <2>2, <3>1, <3>3
    <3>5. /\ D(h) \in Nat /\ D(i) \in Nat /\ D(e) \in Nat
          /\ D(h) < Capacity /\ D(i) < Capacity /\ D(e) < Capacity
      BY <1>2, <3>1, <3>2
    <3>6. V(h) <= V(i)
      BY <1>1, <1>4, <3>1, <3>2, <3>3, <3>4, <3>5, MapAssumption
    <3>7. ASSUME NEW b \in Buckets, V(h) <= V(b), V(b) <= V(i)
          PROVE  entries'[b].occupied
      <4>1. D(b) \in Nat /\ D(b) < Capacity
        BY <1>2
      <4>2. /\ V(h) = IF D(v) <= D(h) THEN D(h) - D(v) ELSE D(h) - D(v) + Capacity
            /\ V(i) = IF D(v) <= D(i) THEN D(i) - D(v) ELSE D(i) - D(v) + Capacity
            /\ V(b) = IF D(v) <= D(b) THEN D(b) - D(v) ELSE D(b) - D(v) + Capacity
        BY <1>4, <3>1, <3>2
      <4>3. D(h) <= D(b) /\ D(b) <= D(i)
        BY <1>1, <3>3, <3>4, <3>5, <3>7, <4>1, <4>2, MapAssumption
      <4> QED
        BY <1>8, <3>3, <4>3
    <3> QED
      BY <3>1, <3>6, <3>7 DEF h
  <2> QED
    BY <2>1, <2>2
<1> QED
  BY <1>9 DEF Straight, V, ProbeDistance, Masked, Buckets

LEMMA InsertKeeps ==
  ASSUME MapInv, NEW key \in Keys, NEW value \in Values, Insert(key, value)
  PROVE  MapInv'
<1> DEFINE e == EndOfSearch(key)
<1>1. ~erasing /\ ~erasing' /\ home' = home /\ UNCHANGED loop
  BY DEF Insert, loop
<1>2. CASE Ends(key) = {} \/ Holds(e, key)
  BY <1>1, <1>2, TableUnchanged DEF Insert
<1>3. CASE Ends(key) # {} /\ ~Holds(e, key)
  <2>1. /\ entries' = [entries EXCEPT ![e] = Entry(key, value)]
        /\ size' = size + 1
    BY <1>3 DEF Insert
  <2>2. \A i \in Occupied : entries[i].key # key
    BY <1>1, <1>3, FindHeld, PathsUnbroken DEF MapInv
  <2>3. /\ e \in Buckets /\ ~entries[e].occupied
        /\ \A b \in Buckets :
             ProbeDistance(home[key], b) < ProbeDistance(home[key], e)
               => entries[b].occupied
    BY <1>3, <2>2, FindMissing DEF MapInv
  <2> HIDE DEF e
  <2>4. /\ entries' \in [Buckets ->
             {Vacant} \cup {Entry(k, v) : k \in Keys, v \in Values}]
        /\ entries'[e] = Entry(key, value)
        /\ \A i \in Buckets \ {e} : entries'[i] = entries[i]
    BY <2>1, <2>3 DEF MapInv, TypeOK
  <2>5. Occupied' = Occupied \cup {e} /\ e \notin Occupied /\ entries'[e].key = key
    BY <2>3, <2>4 DEF Occupied, Buckets, Entry
  <2>6. size' = Cardinality(Occupied') /\ size' \in 0 .. Capacity
    <3>1. Occupied \in SUBSET Buckets /\ Occupied' \in SUBSET Buckets
      BY <2>3, <2>5 DEF Occupied
    <3>2. Cardinality(Occupied') = Cardinality(Occupied) + 1
      BY <2>5, <3>1, BucketsAreFinite, FS_AddElement
    <3> QED
      BY <2>1, <3>1, <3>2, BucketsAreFinite DEF MapInv
  <2>7. TypeOK'
    BY <1>1, <2>4, <2>6 DEF MapInv, TypeOK, Buckets, loop
  <2>8. KeysOnce'
    <3>1. \A i \in Occupied : entries'[i] = entries[i]
      BY <2>4, <2>5 DEF Occupied
    <3> QED
      BY <2>2, <2>5, <3>1 DEF MapInv, KeysOnce
  <2>9. PICK w \in Buckets : Straight(w)
    BY DEF MapInv
  <2>10. PICK v \in Buckets : v = NextBucket(e)
    BY <2>3, NextFacts
  <2>11. Straight(v)'
    BY <1>1, <2>1, <2>3, <2>9, <2>10, InsertedStraight DEF MapInv
  <2>12. HoleMends(v)' /\ v \in Buckets'
    BY <1>1 DEF HoleMends, Buckets
  <2> QED
    BY <2>6, <2>7, <2>8, <2>11, <2>12 DEF MapInv
<1> QED
  BY <1>2, <1>3

(* The entries whose path led across the vacated bucket stand behind it.   *)
LEMMA EraseBeginsKeeps ==
  ASSUME MapInv, NEW key \in Keys, EraseBegins(key)
  PROVE  MapInv'
<1> DEFINE x == FindIndex(key)
<1>1. /\ ~erasing /\ erasing' /\ home' = home /\ x # Capacity
      /\ entries' = [entries EXCEPT ![x] = Vacant] /\ size' = size - 1
      /\ hole' = x /\ scan' = NextBucket(x) /\ examined' = 0
  BY DEF EraseBegins, TypeOK, MapInv
<1>2. x \in Occupied
  <2>1. PICK i \in Occupied : entries[i].key = key
    BY <1>1, FindMissing DEF MapInv
  <2> QED
    BY <1>1, <2>1, FindHeld, PathsUnbroken DEF MapInv
<1> HIDE DEF x
<1>3. x \in Buckets /\ NextBucket(x) \in Buckets /\ 0 \in Buckets
  BY <1>2, NextFacts, MapAssumption DEF Occupied, Buckets
<1>4. /\ entries' \in [Buckets ->
           {Vacant} \cup {Entry(k, v) : k \in Keys, v \in Values}]
      /\ entries'[x] = Vacant
      /\ \A i \in Buckets \ {x} : entries'[i] = entries[i]
  BY <1>1, <1>3 DEF MapInv, TypeOK
<1>5. Occupied' = Occupied \ {x} /\ ~entries'[x].occupied
  BY <1>3, <1>4 DEF Occupied, Buckets, Vacant
<1>6. size' = Cardinality(Occupied') /\ size' \in 0 .. Capacity
  <2>1. Occupied \in SUBSET Buckets /\ Occupied' \in SUBSET Buckets
    BY <1>5 DEF Occupied
  <2>2. Cardinality(Occupied') = Cardinality(Occupied) - 1
    BY <1>2, <1>5, <2>1, BucketsAreFinite, FS_RemoveElement
  <2> QED
    BY <1>1, <2>1, <2>2, BucketsAreFinite DEF MapInv
<1>7. \A i \in Occupied' : /\ i \in Occupied /\ i \in Buckets /\ i # x
                           /\ entries'[i] = entries[i] /\ HomeOf(i)' = HomeOf(i)
  BY <1>1, <1>4, <1>5 DEF Occupied, HomeOf
<1>8. TypeOK'
  BY <1>1, <1>3, <1>4, <1>6 DEF MapInv, TypeOK, Buckets
<1>9. KeysOnce'
  BY <1>7 DEF MapInv, KeysOnce
<1>10. PICK w \in Buckets : Straight(w)
  BY DEF MapInv
<1>11. Straight(w)'
  <2>1. \A b \in Buckets : entries[b].occupied => entries'[b].occupied \/ b = x
    BY <1>4
  <2>2. ASSUME NEW i \in Occupied'
        PROVE  /\ ProbeDistance(w, HomeOf(i)') <= ProbeDistance(w, i)
               /\ \A b \in Buckets :
                    /\ ProbeDistance(w, HomeOf(i)') <= ProbeDistance(w, b)
                    /\ ProbeDistance(w, b) <= ProbeDistance(w, i)
                    => entries'[b].occupied \/ b = x
    BY <1>1, <1>7, <1>10, <2>1, <2>2 DEF Straight
  <2> QED
    BY <1>1, <2>2 DEF Straight, ProbeDistance, Masked, Buckets
<1>12. HoleMends(w)'
  <2> DEFINE D(i) == ProbeDistance(w, i)
  <2>1. /\ D(x) \in Nat /\ D(x) < Capacity
        /\ D(NextBucket(x)) = IF D(x) = Capacity - 1 THEN 0 ELSE D(x) + 1
        /\ \A i \in Occupied' : D(i) \in Nat /\ D(i) < Capacity
    BY <1>3, <1>7, DistanceFacts, NextFacts
  <2>2. \A i : Crosses(w, i)' <=> D(HomeOf(i)') <= D(x) /\ D(x) < D(i)
    BY <1>1 DEF Crosses, ProbeDistance, Masked
  <2>3. StillAhead(w)' <=>
          /\ D(x) < D(NextBucket(x)) /\ 0 < D(NextBucket(x))
          /\ \A i \in Occupied' : Crosses(w, i)' => D(NextBucket(x)) <= D(i)
    BY <1>1 DEF StillAhead, ProbeDistance, Masked
  <2> HIDE DEF D
  <2>4. CASE D(x) = Capacity - 1
    <3>1. NoneCrosses(w)'
      BY <2>1, <2>2, <2>4, MapAssumption DEF NoneCrosses
    <3> QED
      BY <1>1, <1>5, <3>1 DEF HoleMends
  <2>5. CASE D(x) # Capacity - 1
    <3>1. StillAhead(w)'
      BY <2>1, <2>2, <2>3, <2>5
    <3> QED
      BY <1>1, <1>5, <3>1 DEF HoleMends
  <2> QED
    BY <2>4, <2>5
<1> QED
  BY <1>6, <1>8, <1>9, <1>11, <1>12 DEF MapInv, Buckets

(* When the loop ends, the hole interrupts no path: either it has come     *)
(* round, or the bucket that ends it would interrupt those paths as well.  *)
LEMMA EraseReturnsKeeps ==
  ASSUME MapInv, EraseReturns
  PROVE  MapInv'
<1>1. /\ erasing /\ ~erasing' /\ UNCHANGED <<home, entries, size>>
      /\ hole' = 0 /\ scan' = 0 /\ examined' = 0
  BY DEF EraseReturns, MapInv, TypeOK
<1>2. Occupied' = Occupied /\ \A i : HomeOf(i)' = HomeOf(i)
  BY <1>1 DEF Occupied, Buckets, HomeOf
<1>3. TypeOK' /\ KeysOnce'
  <2>1. 0 \in Buckets
    BY MapAssumption DEF Buckets
  <2>2. TypeOK'
    <3>1. /\ TypeOK
          /\ UNCHANGED <<home, entries, size>>
          /\ erasing' = FALSE /\ hole' = 0 /\ scan' = 0 /\ examined' = 0
      BY DEF EraseReturns, MapInv
    <3>2. {hole', scan', examined'} \subseteq Buckets /\ erasing' \in BOOLEAN
      BY <2>1, <3>1
    <3>3. /\ home' \in [Keys -> Buckets] /\ size' \in 0 .. Capacity
          /\ entries' \in [Buckets ->
               {Vacant} \cup {Entry(key, value) : key \in Keys, value \in Values}]
      BY <3>1 DEF TypeOK
    <3> QED
      BY <3>2, <3>3 DEF TypeOK, Buckets
  <2>3. KeysOnce'
    <3>1. \A i \in Occupied : entries'[i] = entries[i]
      BY <1>1
    <3> QED
      BY <1>2, <3>1 DEF MapInv, KeysOnce
  <2> QED
    BY <2>2, <2>3
<1>4. PICK w \in Buckets : Straight(w) /\ HoleMends(w)
  BY DEF MapInv
<1>5. NoneCrosses(w)
  <2> SUFFICES ASSUME StillAhead(w), NEW i \in Occupied, Crosses(w, i)
               PROVE  FALSE
    BY <1>1, <1>4 DEF HoleMends, NoneCrosses
  <2> DEFINE D(j) == ProbeDistance(w, j)
  <2>1. /\ scan \in Buckets /\ hole \in Buckets /\ i \in Buckets
        /\ HomeOf(i) \in Buckets /\ examined \in Buckets
    BY EntryTypes DEF MapInv, TypeOK, HomeOf
  <2>2. /\ D(scan) \in Nat /\ D(hole) \in Nat /\ D(i) \in Nat /\ D(HomeOf(i)) \in Nat
        /\ D(scan) < Capacity /\ D(hole) < D(scan) /\ examined < D(scan)
        /\ D(HomeOf(i)) <= D(hole) /\ D(scan) <= D(i)
    BY <2>1, DistanceFacts DEF StillAhead, Crosses
  <2> HIDE DEF D
  <2>3. examined # Capacity - 1
    BY <2>1, <2>2, MapAssumption DEF Buckets
  <2>4. ~entries[scan].occupied
    BY <2>3 DEF EraseReturns, LoopEnds
  <2>5. D(HomeOf(i)) <= D(scan) /\ scan # hole
    BY <2>2
  <2>6. entries[scan].occupied
    BY <1>4, <2>1, <2>2, <2>5 DEF Straight, D
  <2> QED
    BY <2>4, <2>6
<1>6. Straight(w)'
  <2>1. ASSUME NEW i \in Occupied, NEW b \in Buckets,
               ProbeDistance(w, HomeOf(i)) <= ProbeDistance(w, b),
               ProbeDistance(w, b) <= ProbeDistance(w, i)
        PROVE  entries[b].occupied
    <3>1. i \in Buckets /\ entries[i].occupied /\ ~entries[hole].occupied
      BY <1>1, <1>4 DEF Occupied, HoleMends
    <3>2. hole \in Buckets
      BY DEF MapInv, TypeOK
    <3>3. ProbeDistance(w, hole) # ProbeDistance(w, i)
      BY <3>1, <3>2, DistancesDiffer
    <3>4. ProbeDistance(w, i) \in Nat /\ ProbeDistance(w, hole) \in Nat
      BY <3>1, <3>2, DistanceFacts
    <3>5. b # hole
      BY <1>5, <2>1, <3>3, <3>4 DEF NoneCrosses, Crosses
    <3> QED
      BY <1>4, <2>1, <3>5 DEF Straight
  <2>2. \A i \in Occupied : ProbeDistance(w, HomeOf(i)) <= ProbeDistance(w, i)
    BY <1>4 DEF Straight
  <2> QED
    BY <1>1, <1>2, <2>1, <2>2 DEF Straight, ProbeDistance, Masked, Buckets
<1>7. HoleMends(w)'
  BY <1>1 DEF HoleMends
<1> QED
  BY <1>1, <1>2, <1>3, <1>6, <1>7 DEF MapInv, Buckets

(* An entry is moved into the hole exactly if its path leads across it, so *)
(* long as the loop has not come round to w.                               *)
LEMMA WhoMoves ==
  ASSUME TypeOK, erasing, NEW w \in Buckets, Straight(w), HoleMends(w),
         scan \in Occupied
  PROVE  /\ MovesBack <=> Crosses(w, scan)
         /\ Crosses(w, scan) => StillAhead(w)
<1> DEFINE D(i) == ProbeDistance(w, i)
           h == HomeOf(scan)
<1>1. h \in Buckets /\ hole \in Buckets /\ scan \in Buckets
  BY EntryTypes DEF HomeOf, TypeOK
<1>2. /\ D(h) \in Nat /\ D(hole) \in Nat /\ D(scan) \in Nat
      /\ D(h) < Capacity /\ D(hole) < Capacity /\ D(scan) < Capacity
  BY <1>1, DistanceFacts
<1>3. D(h) <= D(scan)
  BY DEF Straight
<1>4. hole # scan
  BY DEF HoleMends, Occupied
<1>5. D(hole) # D(scan)
  BY <1>1, <1>4, DistancesDiffer
<1>6. /\ ProbeDistance(h, scan) = D(scan) - D(h)
      /\ ProbeDistance(h, hole) = IF D(h) <= D(hole) THEN D(hole) - D(h)
                                  ELSE D(hole) - D(h) + Capacity
  BY <1>1, <1>3, DistanceBetween
<1>7. MovesBack <=> ProbeDistance(h, hole) < ProbeDistance(h, scan)
  BY DEF MovesBack, HomeOf
<1>8. Crosses(w, scan) <=> D(h) <= D(hole) /\ D(hole) < D(scan)
  BY DEF Crosses
<1> HIDE DEF D, h
<1>9. MovesBack <=> Crosses(w, scan)
  BY <1>2, <1>3, <1>5, <1>6, <1>7, <1>8, MapAssumption
<1> QED
  BY <1>9 DEF HoleMends, NoneCrosses

(* The bucket after the one looked at, seen from w.                        *)
LEMMA LoopAdvances ==
  ASSUME TypeOK, ~LoopEnds, NEW w \in Buckets
  PROVE  /\ scan \in Buckets /\ NextBucket(scan) \in Buckets
         /\ examined + 1 \in Buckets
         /\ ProbeDistance(w, scan) \in Nat /\ ProbeDistance(w, scan) < Capacity
         /\ ProbeDistance(w, NextBucket(scan)) =
              IF ProbeDistance(w, scan) = Capacity - 1 THEN 0
              ELSE ProbeDistance(w, scan) + 1
<1>1. scan \in Buckets /\ examined \in Buckets /\ examined # Capacity - 1
  BY DEF TypeOK, LoopEnds
<1>2. examined + 1 \in Buckets
  BY <1>1, MapAssumption DEF Buckets
<1> QED
  BY <1>1, <1>2, DistanceFacts, NextFacts

LEMMA ExaminePasses ==
  ASSUME MapInv, Examine, ~MovesBack
  PROVE  MapInv'
<1>1. /\ erasing /\ erasing' /\ ~LoopEnds /\ UNCHANGED <<home, entries, size, hole>>
      /\ scan' = NextBucket(scan) /\ examined' = examined + 1
  BY DEF Examine
<1>2. Occupied' = Occupied /\ \A i : HomeOf(i)' = HomeOf(i)
  BY <1>1 DEF Occupied, Buckets, HomeOf
<1>3. PICK w \in Buckets : Straight(w) /\ HoleMends(w)
  BY DEF MapInv
<1>4. /\ scan \in Buckets /\ NextBucket(scan) \in Buckets
      /\ examined + 1 \in Buckets /\ scan \in Occupied
  BY <1>1, LoopAdvances DEF MapInv, LoopEnds, Occupied
<1>5. TypeOK'
  BY <1>1, <1>4 DEF MapInv, TypeOK, Buckets
<1>6. KeysOnce'
  BY <1>1, <1>2 DEF MapInv, KeysOnce
<1>7. Straight(w)'
  BY <1>1, <1>2, <1>3 DEF Straight, ProbeDistance, Masked, Buckets
<1>8. HoleMends(w)'
  <2> DEFINE D(i) == ProbeDistance(w, i)
  <2>1. ~entries'[hole'].occupied
    BY <1>1, <1>3 DEF HoleMends
  <2>2. \A i : Crosses(w, i)' <=> Crosses(w, i)
    BY <1>1, <1>2 DEF Crosses, ProbeDistance, Masked
  <2>3. CASE NoneCrosses(w)
    <3>1. NoneCrosses(w)'
      BY <1>2, <2>2, <2>3 DEF NoneCrosses
    <3> QED
      BY <2>1, <3>1 DEF HoleMends
  <2>4. CASE StillAhead(w)
    <3>1. /\ D(hole) < D(scan) /\ examined < D(scan)
          /\ \A i \in Occupied : Crosses(w, i) => D(scan) <= D(i)
      BY <2>4 DEF StillAhead
    <3>2. ~Crosses(w, scan)
      BY <1>1, <1>3, <1>4, WhoMoves DEF MapInv
    <3>3. /\ D(scan) \in Nat /\ D(scan) < Capacity /\ D(hole) \in Nat
          /\ \A i \in Occupied : D(i) \in Nat /\ D(i) < Capacity
          /\ examined \in Nat
      BY <1>4, DistanceFacts DEF MapInv, TypeOK, Occupied, Buckets
    <3>4. \A i \in Occupied : i # scan => D(i) # D(scan)
      BY <1>4, DistancesDiffer DEF Occupied
    <3>5. D(NextBucket(scan)) = IF D(scan) = Capacity - 1 THEN 0 ELSE D(scan) + 1
      BY <1>4, NextFacts
    <3>6. StillAhead(w)' <=>
            /\ D(hole) < D(NextBucket(scan)) /\ examined + 1 < D(NextBucket(scan))
            /\ \A i \in Occupied : Crosses(w, i) => D(NextBucket(scan)) <= D(i)
      BY <1>1, <1>2, <2>2 DEF StillAhead, ProbeDistance, Masked
    <3> HIDE DEF D
    <3>7. \A i \in Occupied : Crosses(w, i) => D(scan) < D(i)
      BY <3>1, <3>2, <3>3, <3>4
    <3>8. CASE D(scan) = Capacity - 1
      <4>1. NoneCrosses(w)
        BY <3>3, <3>7, <3>8, MapAssumption DEF NoneCrosses
      <4> QED
        BY <2>3, <4>1
    <3>9. CASE D(scan) # Capacity - 1
      <4>1. StillAhead(w)'
        BY <3>1, <3>3, <3>5, <3>6, <3>7, <3>9
      <4> QED
        BY <2>1, <4>1 DEF HoleMends
    <3> QED
      BY <3>8, <3>9
  <2> QED
    BY <1>1, <1>3, <2>3, <2>4 DEF HoleMends
<1> QED
  BY <1>1, <1>2, <1>5, <1>6, <1>7, <1>8 DEF MapInv, Buckets

LEMMA ExamineMoves ==
  ASSUME MapInv, Examine, MovesBack
  PROVE  MapInv'
<1>1. /\ erasing /\ erasing' /\ ~LoopEnds /\ UNCHANGED <<home, size>>
      /\ entries' = [entries EXCEPT ![hole] = entries[scan], ![scan] = Vacant]
      /\ hole' = scan /\ scan' = NextBucket(scan) /\ examined' = examined + 1
  BY DEF Examine
<1>2. PICK w \in Buckets : Straight(w) /\ HoleMends(w)
  BY DEF MapInv
<1>3. /\ scan \in Buckets /\ NextBucket(scan) \in Buckets /\ hole \in Buckets
      /\ examined + 1 \in Buckets /\ scan \in Occupied
      /\ hole \notin Occupied /\ ~entries[hole].occupied /\ hole # scan
  BY <1>1, <1>2, LoopAdvances DEF MapInv, TypeOK, HoleMends, LoopEnds, Occupied
<1>4. /\ entries' \in [Buckets ->
           {Vacant} \cup {Entry(k, v) : k \in Keys, v \in Values}]
      /\ entries'[hole] = entries[scan] /\ entries'[scan] = Vacant
      /\ \A i \in Buckets \ {hole, scan} : entries'[i] = entries[i]
  <2> DEFINE Contents == {Vacant} \cup {Entry(k, v) : k \in Keys, v \in Values}
  <2>1. entries \in [Buckets -> Contents] /\ entries[scan] \in Contents
    BY <1>3 DEF MapInv, TypeOK
  <2>2. Vacant \in Contents
    OBVIOUS
  <2> HIDE DEF Contents
  <2>3. /\ entries' \in [Buckets -> Contents]
        /\ entries'[hole] = entries[scan] /\ entries'[scan] = Vacant
        /\ \A i \in Buckets \ {hole, scan} : entries'[i] = entries[i]
    BY <1>1, <1>3, <2>1, <2>2
  <2> QED
    BY <2>3 DEF Contents
<1>5. /\ Occupied' = (Occupied \ {scan}) \cup {hole}
      /\ ~entries'[scan].occupied /\ entries'[hole].occupied
  BY <1>3, <1>4 DEF Occupied, Buckets, Vacant
<1>6. /\ \A i : i = hole => HomeOf(i)' = HomeOf(scan)
      /\ \A i \in Occupied \ {scan} :
           i # hole /\ entries'[i] = entries[i] /\ HomeOf(i)' = HomeOf(i)
  <2>1. \A i : HomeOf(i)' = home[entries'[i].key]
    BY <1>1 DEF HomeOf
  <2>2. \A i \in Occupied \ {scan} : i \in Buckets \ {hole, scan}
    BY <1>3 DEF Occupied
  <2> QED
    BY <1>4, <2>1, <2>2 DEF HomeOf
<1>7. size' = Cardinality(Occupied') /\ size' \in 0 .. Capacity
  <2>1. /\ Occupied \in SUBSET Buckets /\ Occupied \ {scan} \in SUBSET Buckets
        /\ Occupied' \in SUBSET Buckets
    BY <1>3, <1>5 DEF Occupied
  <2>2. /\ Cardinality(Occupied \ {scan}) = Cardinality(Occupied) - 1
        /\ Cardinality(Occupied') = Cardinality(Occupied \ {scan}) + 1
    BY <1>3, <1>5, <2>1, BucketsAreFinite, FS_RemoveElement, FS_AddElement
  <2>3. Cardinality(Occupied) \in Nat /\ Cardinality(Occupied') \in 0 .. Capacity
    BY <2>1, BucketsAreFinite
  <2> QED
    BY <1>1, <2>2, <2>3 DEF MapInv
<1>8. TypeOK'
  <2>1. {hole', scan', examined'} \subseteq Buckets /\ erasing' \in BOOLEAN
    BY <1>1, <1>3
  <2>2. home' \in [Keys -> Buckets]
    BY <1>1 DEF MapInv, TypeOK
  <2> QED
    BY <1>4, <1>7, <2>1, <2>2 DEF TypeOK, Buckets
<1>9. KeysOnce'
  <2>1. ASSUME NEW i \in Occupied', NEW j \in Occupied',
               entries'[i].key = entries'[j].key
        PROVE  i = j
    <3>1. CASE i = hole /\ j = hole
      BY <3>1
    <3>2. CASE i = hole /\ j # hole
      BY <1>3, <1>4, <1>5, <1>6, <2>1, <3>2 DEF MapInv, KeysOnce
    <3>3. CASE i # hole /\ j = hole
      BY <1>3, <1>4, <1>5, <1>6, <2>1, <3>3 DEF MapInv, KeysOnce
    <3>4. CASE i # hole /\ j # hole
      BY <1>5, <1>6, <2>1, <3>4 DEF MapInv, KeysOnce
    <3> QED
      BY <3>1, <3>2, <3>3, <3>4
  <2> QED
    BY <2>1 DEF KeysOnce
<1> DEFINE D(i) == ProbeDistance(w, i)
<1>10. /\ D(HomeOf(scan)) <= D(hole) /\ D(hole) < D(scan) /\ examined < D(scan)
       /\ \A i \in Occupied : Crosses(w, i) => D(scan) <= D(i)
  BY <1>1, <1>2, <1>3, WhoMoves DEF MapInv, Crosses, StillAhead
<1>11. /\ D(HomeOf(scan)) \in Nat /\ examined \in Nat
       /\ \A i \in Buckets : D(i) \in Nat /\ D(i) < Capacity
       /\ \A i \in Buckets : i # scan => D(i) # D(scan)
  <2>1. HomeOf(scan) \in Buckets
    BY <1>3, EntryTypes DEF MapInv, HomeOf
  <2>2. examined \in Nat
    BY DEF MapInv, TypeOK, Buckets
  <2>3. \A i \in Buckets : D(i) \in Nat /\ D(i) < Capacity
    BY DistanceFacts
  <2>4. \A i \in Buckets : i # scan => D(i) # D(scan)
    BY <1>3, DistancesDiffer
  <2> QED
    BY <2>1, <2>2, <2>3, <2>4
<1>12. D(NextBucket(scan)) = IF D(scan) = Capacity - 1 THEN 0 ELSE D(scan) + 1
  BY <1>3, NextFacts
<1>13. Straight(w)'
  <2> HIDE DEF D
  <2>1. ASSUME NEW i \in Occupied'
        PROVE  /\ D(HomeOf(i)') <= D(i)
               /\ \A b \in Buckets : D(HomeOf(i)') <= D(b) /\ D(b) <= D(i)
                    => entries'[b].occupied \/ b = scan
    <3>1. CASE i = hole
      <4>1. HomeOf(i)' = HomeOf(scan)
        BY <1>6, <3>1
      <4>2. ASSUME NEW b \in Buckets, D(HomeOf(scan)) <= D(b), D(b) <= D(hole)
            PROVE  entries'[b].occupied \/ b = scan
        <5>1. D(b) <= D(scan)
          BY <1>3, <1>10, <1>11, <4>2
        <5>2. entries[b].occupied \/ b = hole
          BY <1>2, <1>3, <4>2, <5>1 DEF Straight, D
        <5> QED
          BY <1>3, <1>4, <1>5, <5>2
      <4> QED
        BY <1>10, <3>1, <4>1, <4>2
    <3>2. CASE i # hole
      <4>1. i \in Occupied /\ HomeOf(i)' = HomeOf(i)
        BY <1>5, <1>6, <3>2
      <4>2. /\ D(HomeOf(i)) <= D(i)
            /\ \A b \in Buckets : D(HomeOf(i)) <= D(b) /\ D(b) <= D(i)
                 => entries[b].occupied \/ b = hole
        BY <1>2, <4>1 DEF Straight, D
      <4>3. \A b \in Buckets :
              entries[b].occupied \/ b = hole => entries'[b].occupied \/ b = scan
        BY <1>4, <1>5
      <4> QED
        BY <4>1, <4>2, <4>3
    <3> QED
      BY <3>1, <3>2
  <2> QED
    BY <1>1, <2>1 DEF Straight, D, ProbeDistance, Masked, Buckets
<1>14. HoleMends(w)'
  <2>1. ~entries'[hole'].occupied
    BY <1>1, <1>5
  <2>2. \A i : Crosses(w, i)' <=> D(HomeOf(i)') <= D(scan) /\ D(scan) < D(i)
    BY <1>1 DEF Crosses, ProbeDistance, Masked
  <2>3. StillAhead(w)' <=>
          /\ D(scan) < D(NextBucket(scan)) /\ examined + 1 < D(NextBucket(scan))
          /\ \A i \in Occupied' : Crosses(w, i)' => D(NextBucket(scan)) <= D(i)
    BY <1>1 DEF StillAhead, ProbeDistance, Masked
  <2>4. \A i \in Occupied' : i \in Buckets
    BY <1>3, <1>5 DEF Occupied
  <2> HIDE DEF D
  <2>5. CASE D(scan) = Capacity - 1
    <3>1. NoneCrosses(w)'
      BY <1>11, <2>2, <2>4, <2>5, MapAssumption DEF NoneCrosses
    <3> QED
      BY <1>1, <2>1, <3>1 DEF HoleMends
  <2>6. CASE D(scan) # Capacity - 1
    <3>1. StillAhead(w)'
      BY <1>3, <1>10, <1>11, <1>12, <2>2, <2>3, <2>4, <2>6
    <3> QED
      BY <1>1, <2>1, <3>1 DEF HoleMends
  <2> QED
    BY <2>5, <2>6
<1> QED
  BY <1>7, <1>8, <1>9, <1>13, <1>14 DEF MapInv, Buckets

LEMMA MapInit == Init => MapInv
<1> SUFFICES ASSUME Init
             PROVE  MapInv
  OBVIOUS
<1>1. 0 \in Buckets /\ 0 \in 0 .. Capacity
  BY MapAssumption DEF Buckets
<1>2. Occupied = {}
  BY DEF Init, Occupied, Vacant
<1>3. TypeOK
  <2>1. entries \in [Buckets ->
          {Vacant} \cup {Entry(key, value) : key \in Keys, value \in Values}]
    BY DEF Init
  <2>2. {hole, scan, examined} \subseteq Buckets
    BY <1>1 DEF Init
  <2>3. home \in [Keys -> Buckets] /\ size \in 0 .. Capacity /\ erasing \in BOOLEAN
    BY <1>1 DEF Init
  <2> QED
    BY <2>1, <2>2, <2>3 DEF TypeOK
<1>4. KeysOnce /\ Straight(0) /\ HoleMends(0)
  BY <1>2 DEF Init, KeysOnce, Straight, HoleMends
<1> QED
  BY <1>1, <1>2, <1>3, <1>4, FS_EmptySet DEF Init, MapInv

LEMMA MapStep == MapInv /\ [Next]_vars => MapInv'
<1> SUFFICES ASSUME MapInv, [Next]_vars
             PROVE  MapInv'
  OBVIOUS
<1>1. ASSUME NEW key \in Keys, NEW value \in Values, Insert(key, value)
      PROVE  MapInv'
  BY <1>1, InsertKeeps
<1>2. ASSUME NEW key \in Keys, Find(key)
      PROVE  MapInv'
  BY <1>2, TableUnchanged DEF Find
<1>3. ASSUME NEW key \in Keys, EraseMissing(key)
      PROVE  MapInv'
  BY <1>3, TableUnchanged DEF EraseMissing
<1>4. ASSUME NEW key \in Keys, EraseBegins(key)
      PROVE  MapInv'
  BY <1>4, EraseBeginsKeeps
<1>5. CASE Examine
  BY <1>5, ExaminePasses, ExamineMoves
<1>6. CASE EraseReturns
  BY <1>6, EraseReturnsKeeps
<1>7. CASE UNCHANGED vars
  BY <1>7, TableUnchanged DEF vars
<1> QED
  BY <1>1, <1>2, <1>3, <1>4, <1>5, <1>6, <1>7 DEF Next

(* The table can be cut open somewhere in every reachable state, also in   *)
(* the middle of an erase (FixedOrderMap.h:39-110).                        *)
THEOREM MapInvariance == Spec => []MapInv
BY MapInit, MapStep, PTL DEF Spec

(* The table, its counter and the loop of erase keep within their bounds;  *)
(* the counter is the number of occupied buckets.                          *)
THEOREM MapTypesCorrect == Spec => []TypeOK
<1>1. MapInv => TypeOK
  BY DEF MapInv
<1> QED
  BY <1>1, MapInvariance, PTL

(* After any sequence of inserts and erases every key in the table can be  *)
(* reached from its home: the backward shift of erase misses no entry, nor *)
(* does its bound of capacity - 1 buckets (FixedOrderMap.h:91-107).        *)
THEOREM KeysStayReachable == Spec => []ProbePathsUnbroken
BY PathsUnbroken, MapInvariance, PTL

(* No key is ever in the table twice (FixedOrderMap.h:45-56, :101-102).    *)
THEOREM KeysStayUnique == Spec => []KeysOnce
<1>1. MapInv => KeysOnce
  BY DEF MapInv
<1> QED
  BY <1>1, MapInvariance, PTL

-----------------------------------------------------------------------------
(* The table implements the map *)

(* The map a table stands for, for any table.                              *)
In(t) == {i \in Buckets : t[i].occupied}
MapOf(t) ==
  [key \in {t[i].key : i \in In(t)} |->
     t[CHOOSE i \in In(t) : t[i].key = key].value]

LEMMA MapOfEntries ==
  [key \in {entries[i].key : i \in Occupied} |-> entries[BucketOf(key)].value]
    = MapOf(entries)
BY DEF MapOf, In, Occupied, BucketOf

LEMMA MapOfEntriesAfter ==
  [key \in {entries[i].key : i \in Occupied} |-> entries[BucketOf(key)].value]'
    = MapOf(entries')
BY DEF MapOf, In, Occupied, BucketOf, Buckets

LEMMA MapValues ==
  ASSUME NEW t, \A i, j \in In(t) : t[i].key = t[j].key => i = j
  PROVE  \A i \in In(t) : MapOf(t)[t[i].key] = t[i].value
<1> SUFFICES ASSUME NEW i \in In(t)
             PROVE  MapOf(t)[t[i].key] = t[i].value
  OBVIOUS
<1> DEFINE j == CHOOSE j \in In(t) : t[j].key = t[i].key
<1>1. j \in In(t) /\ t[j].key = t[i].key
  OBVIOUS
<1>2. j = i
  BY <1>1
<1>3. MapOf(t)[t[i].key] = t[j].value
  BY DEF MapOf
<1> QED
  BY <1>2, <1>3

(* Two tables that hold the same entries stand for the same map.           *)
LEMMA SameMap ==
  ASSUME NEW t, \A i, j \in In(t) : t[i].key = t[j].key => i = j,
         NEW f, NEW K, f = [key \in K |-> f[key]],
         \A key \in K : \E i \in In(t) : t[i].key = key,
         \A i \in In(t) : t[i].key \in K /\ t[i].value = f[t[i].key]
  PROVE  MapOf(t) = f
<1>1. {t[i].key : i \in In(t)} = K
  OBVIOUS
<1>2. \A key \in K : MapOf(t)[key] = f[key]
  BY MapValues
<1>3. MapOf(t) = [key \in K |-> MapOf(t)[key]]
  BY <1>1 DEF MapOf
<1> QED
  BY <1>2, <1>3

LEMMA KeysOfMap ==
  ASSUME MapInv
  PROVE  /\ In(entries) = Occupied
         /\ DOMAIN MapOf(entries) = {entries[i].key : i \in Occupied}
         /\ MapOf(entries) = [key \in DOMAIN MapOf(entries) |-> MapOf(entries)[key]]
         /\ \A i \in Occupied : MapOf(entries)[entries[i].key] = entries[i].value
<1>1. In(entries) = Occupied
  BY DEF In, Occupied
<1>2. \A i, j \in In(entries) : entries[i].key = entries[j].key => i = j
  BY <1>1 DEF MapInv, KeysOnce
<1>3. DOMAIN MapOf(entries) = {entries[i].key : i \in Occupied}
      /\ MapOf(entries) = [key \in DOMAIN MapOf(entries) |-> MapOf(entries)[key]]
  BY <1>1 DEF MapOf
<1>4. \A i \in In(entries) : MapOf(entries)[entries[i].key] = entries[i].value
  BY <1>2, MapValues
<1> QED
  BY <1>1, <1>3, <1>4

LEMMA KeysAfter ==
  ASSUME MapInv'
  PROVE  /\ In(entries') = Occupied'
         /\ \A i, j \in In(entries') : entries'[i].key = entries'[j].key => i = j
<1>1. In(entries') = Occupied'
  BY DEF In, Occupied, Buckets
<1> QED
  BY <1>1 DEF MapInv, KeysOnce

LEMMA InsertMaps ==
  ASSUME MapInv, MapInv', NEW key \in Keys, NEW value \in Values,
         Insert(key, value)
  PROVE  Lookup!Insert(key, value)
<1> DEFINE m == MapOf(entries)
           e == EndOfSearch(key)
<1>1. DOMAIN m = {entries[i].key : i \in Occupied}
  BY KeysOfMap
<1>2. ~erasing /\ TypeOK /\ KeysOnce /\ ProbePathsUnbroken
  BY PathsUnbroken DEF MapInv, Insert
<1>3. CASE key \in DOMAIN m
  <2>1. PICK i \in Occupied : entries[i].key = key
    BY <1>1, <1>3
  <2>2. Ends(key) # {} /\ Holds(e, key)
    BY <1>2, <2>1, FindHeld
  <2>3. answer' = "DuplicateKey" /\ UNCHANGED <<entries, size>>
    BY <2>2 DEF Insert
  <2> QED
    BY <1>3, <2>3, MapOfEntries, MapOfEntriesAfter DEF Lookup!Insert
<1>4. CASE key \notin DOMAIN m
  <2>1. \A i \in Occupied : entries[i].key # key
    BY <1>1, <1>4
  <2>2. CASE Ends(key) = {}
    <3>1. Occupied = Buckets
      BY <1>2, <2>1, <2>2, FindMissing
    <3>2. size = Capacity
      BY <3>1, FS_Interval, MapAssumption DEF MapInv, Buckets
    <3>3. answer' = "Full" /\ UNCHANGED <<entries, size>>
      BY <2>2 DEF Insert
    <3> QED
      BY <1>4, <3>2, <3>3, MapOfEntries, MapOfEntriesAfter DEF Lookup!Insert
  <2>3. CASE Ends(key) # {}
    <3>1. e \in Buckets /\ ~entries[e].occupied /\ ~Holds(e, key)
      BY <1>2, <2>1, <2>3, FindMissing
    <3>2. /\ answer' = "Inserted" /\ size' = size + 1
          /\ entries' = [entries EXCEPT ![e] = Entry(key, value)]
      BY <2>3, <3>1 DEF Insert
    <3>3. size # Capacity
      <4>1. Occupied \in SUBSET Buckets /\ Occupied # Buckets
        BY <3>1 DEF Occupied
      <4>2. IsFiniteSet(Buckets) /\ Cardinality(Buckets) = Capacity
        BY FS_Interval, MapAssumption DEF Buckets
      <4> QED
        BY <4>1, <4>2, FS_Subset DEF MapInv
    <3> HIDE DEF e
    <3>4. /\ entries'[e] = Entry(key, value)
          /\ \A i \in Buckets \ {e} : entries'[i] = entries[i]
      BY <1>2, <3>1, <3>2 DEF TypeOK
    <3>5. /\ In(entries') = Occupied \cup {e} /\ e \notin Occupied
          /\ entries'[e].key = key /\ entries'[e].value = value
          /\ \A i \in Occupied : entries'[i] = entries[i]
      BY <3>1, <3>4 DEF In, Occupied, Entry
    <3> DEFINE K == DOMAIN m \cup {key}
               f == [k \in K |-> IF k = key THEN value ELSE m[k]]
    <3>6. \A i \in Occupied : entries[i].key \in DOMAIN m /\ m[entries[i].key] = entries[i].value
      BY <1>1, KeysOfMap
    <3> HIDE DEF m
    <3>7. \A k \in K : \E i \in In(entries') : entries'[i].key = k
      BY <1>1, <3>5
    <3>8. \A i \in In(entries') :
            entries'[i].key \in K /\ entries'[i].value = f[entries'[i].key]
      BY <2>1, <3>5, <3>6
    <3>9. f = [k \in K |-> f[k]]
      OBVIOUS
    <3> HIDE DEF K, f
    <3>10. MapOf(entries') = f
      BY <3>7, <3>8, <3>9, KeysAfter, SameMap
    <3> QED
      BY <1>4, <3>2, <3>3, <3>10, MapOfEntries, MapOfEntriesAfter
         DEF Lookup!Insert, m, f, K
  <2> QED
    BY <2>2, <2>3
<1> QED
  BY <1>3, <1>4

LEMMA FindMaps ==
  ASSUME MapInv, NEW key \in Keys, Find(key)
  PROVE  Lookup!Find(key)
<1> DEFINE m == MapOf(entries)
<1>1. /\ DOMAIN m = {entries[i].key : i \in Occupied}
      /\ \A i \in Occupied : m[entries[i].key] = entries[i].value
  BY KeysOfMap
<1>2. ~erasing /\ TypeOK /\ KeysOnce /\ ProbePathsUnbroken /\ UNCHANGED <<entries, size>>
  BY PathsUnbroken DEF MapInv, Find
<1>3. answer' = IF key \in DOMAIN m THEN m[key] ELSE "NotFound"
  <2>1. CASE key \in DOMAIN m
    <3>1. PICK i \in Occupied : entries[i].key = key
      BY <1>1, <2>1
    <3>2. FindIndex(key) = i /\ i # Capacity
      BY <1>2, <3>1, FindHeld, MapAssumption DEF Occupied, Buckets
    <3> QED
      BY <1>1, <2>1, <3>1, <3>2 DEF Find
  <2>2. CASE key \notin DOMAIN m
    <3>1. FindIndex(key) = Capacity
      BY <1>1, <1>2, <2>2, FindMissing
    <3> QED
      BY <2>2, <3>1 DEF Find
  <2> QED
    BY <2>1, <2>2
<1> QED
  BY <1>2, <1>3, MapOfEntries, MapOfEntriesAfter DEF Lookup!Find

LEMMA EraseMissingMaps ==
  ASSUME MapInv, NEW key \in Keys, EraseMissing(key)
  PROVE  Lookup!Erase(key)
<1> DEFINE m == MapOf(entries)
<1>1. key \notin DOMAIN m
  <2> SUFFICES ASSUME key \in DOMAIN m PROVE FALSE
    OBVIOUS
  <2>1. PICK i \in Occupied : entries[i].key = key
    BY KeysOfMap
  <2>2. FindIndex(key) = i /\ i # Capacity
    BY <2>1, FindHeld, PathsUnbroken, MapAssumption
       DEF MapInv, EraseMissing, Occupied, Buckets
  <2> QED
    BY <2>2 DEF EraseMissing
<1> QED
  BY <1>1, MapOfEntries, MapOfEntriesAfter DEF EraseMissing, Lookup!Erase

LEMMA EraseBeginsMaps ==
  ASSUME MapInv, MapInv', NEW key \in Keys, EraseBegins(key)
  PROVE  Lookup!Erase(key)
<1> DEFINE m == MapOf(entries)
           x == FindIndex(key)
<1>1. x \in Occupied /\ entries[x].key = key
  <2>1. PICK i \in Occupied : entries[i].key = key
    BY FindMissing DEF MapInv, EraseBegins
  <2> QED
    BY <2>1, FindHeld, PathsUnbroken DEF MapInv, EraseBegins
<1>2. /\ answer' = "Erased" /\ size' = size - 1
      /\ entries' = [entries EXCEPT ![x] = Vacant]
  BY DEF EraseBegins
<1>3. /\ DOMAIN m = {entries[i].key : i \in Occupied}
      /\ \A i \in Occupied : m[entries[i].key] = entries[i].value
  BY KeysOfMap
<1> HIDE DEF x, m
<1>4. /\ entries'[x] = Vacant
      /\ \A i \in Buckets \ {x} : entries'[i] = entries[i]
  BY <1>1, <1>2 DEF MapInv, TypeOK, Occupied
<1>5. In(entries') = Occupied \ {x} /\ \A i \in Occupied \ {x} : entries'[i] = entries[i]
  BY <1>1, <1>4 DEF In, Occupied, Vacant
<1>6. \A i \in Occupied : entries[i].key = key => i = x
  BY <1>1 DEF MapInv, KeysOnce
<1> DEFINE K == DOMAIN m \ {key}
           f == [k \in K |-> m[k]]
<1>7. \A k \in K : \E i \in In(entries') : entries'[i].key = k
  BY <1>1, <1>3, <1>5
<1>8. \A i \in In(entries') :
        entries'[i].key \in K /\ entries'[i].value = f[entries'[i].key]
  BY <1>3, <1>5, <1>6
<1>9. f = [k \in K |-> f[k]]
  OBVIOUS
<1>10. key \in DOMAIN m
  BY <1>1, <1>3
<1> HIDE DEF K, f
<1>11. MapOf(entries') = f
  BY <1>7, <1>8, <1>9, KeysAfter, SameMap
<1> QED
  BY <1>2, <1>10, <1>11, MapOfEntries, MapOfEntriesAfter DEF Lookup!Erase, m, f, K

(* A turn of the loop moves an entry at most, and the map stays the same.  *)
LEMMA ExamineStutters ==
  ASSUME MapInv, MapInv', Examine
  PROVE  UNCHANGED Lookup!vars
<1> DEFINE m == MapOf(entries)
<1>1. size' = size /\ answer' = answer
  BY DEF Examine
<1>2. MapOf(entries') = m
  <2>1. CASE MovesBack
    <3>1. /\ scan \in Occupied /\ hole \in Buckets /\ scan \in Buckets
          /\ hole \notin Occupied /\ hole # scan
      BY DEF Examine, LoopEnds, MapInv, TypeOK, HoleMends, Occupied
    <3>2. entries' = [entries EXCEPT ![hole] = entries[scan], ![scan] = Vacant]
      BY <2>1 DEF Examine
    <3>3. /\ entries'[hole] = entries[scan] /\ entries'[scan] = Vacant
          /\ \A i \in Buckets \ {hole, scan} : entries'[i] = entries[i]
      <4>1. DOMAIN entries = Buckets
        BY DEF MapInv, TypeOK
      <4> QED
        BY <3>1, <3>2, <4>1
    <3>4. /\ In(entries') = (Occupied \ {scan}) \cup {hole}
          /\ \A i \in Occupied \ {scan} : entries'[i] = entries[i]
      BY <3>1, <3>3 DEF In, Occupied, Vacant
    <3>5. /\ DOMAIN m = {entries[i].key : i \in Occupied}
          /\ m = [k \in DOMAIN m |-> m[k]]
          /\ \A i \in Occupied : m[entries[i].key] = entries[i].value
      BY KeysOfMap
    <3> HIDE DEF m
    <3> DEFINE K == DOMAIN m
    <3>6. \A k \in K : \E i \in In(entries') : entries'[i].key = k
      BY <3>1, <3>3, <3>4, <3>5
    <3>7. \A i \in In(entries') :
            entries'[i].key \in K /\ entries'[i].value = m[entries'[i].key]
      BY <3>1, <3>3, <3>4, <3>5
    <3>8. m = [k \in K |-> m[k]]
      BY <3>5
    <3>9. \A i, j \in In(entries') : entries'[i].key = entries'[j].key => i = j
      BY KeysAfter
    <3> HIDE DEF K
    <3> QED
      BY <3>6, <3>7, <3>8, <3>9, SameMap
  <2>2. CASE ~MovesBack
    BY <2>2 DEF Examine
  <2> QED
    BY <2>1, <2>2
<1> QED
  BY <1>1, <1>2, MapOfEntries, MapOfEntriesAfter DEF Lookup!vars

LEMMA StartsEmpty == Init => Lookup!Init
<1> SUFFICES ASSUME Init PROVE Lookup!Init
  OBVIOUS
<1>1. In(entries) = {}
  BY DEF Init, In, Vacant
<1>2. MapOf(entries) = [k \in {} |-> k]
  BY <1>1 DEF MapOf
<1> QED
  BY <1>2, MapOfEntries DEF Init, Lookup!Init

(* The table is a map that refuses an insert only for a key it holds or    *)
(* when every bucket is occupied (FixedOrderMap.h:39-115).                 *)
THEOREM TableIsMap == Spec => ImplementsLookupMap
<1>1. MapInv /\ MapInv' /\ [Next]_vars => [Lookup!Next]_(Lookup!vars)
  <2> SUFFICES ASSUME MapInv, MapInv', [Next]_vars
               PROVE  [Lookup!Next]_(Lookup!vars)
    OBVIOUS
  <2>1. ASSUME NEW key \in Keys, NEW value \in Values, Insert(key, value)
        PROVE  Lookup!Next
    BY <2>1, InsertMaps DEF Lookup!Next
  <2>2. ASSUME NEW key \in Keys, Find(key)
        PROVE  Lookup!Next
    BY <2>2, FindMaps DEF Lookup!Next
  <2>3. ASSUME NEW key \in Keys, EraseMissing(key) \/ EraseBegins(key)
        PROVE  Lookup!Next
    BY <2>3, EraseMissingMaps, EraseBeginsMaps DEF Lookup!Next
  <2>4. CASE Examine
    BY <2>4, ExamineStutters
  <2>5. CASE EraseReturns \/ UNCHANGED vars
    <3>1. entries' = entries /\ size' = size /\ answer' = answer
      BY <2>5 DEF EraseReturns, vars
    <3> QED
      BY <3>1, MapOfEntries, MapOfEntriesAfter DEF Lookup!vars
  <2> QED
    BY <2>1, <2>2, <2>3, <2>4, <2>5 DEF Next
<1> QED
  BY StartsEmpty, MapInvariance, <1>1, PTL DEF Spec, ImplementsLookupMap, Lookup!Spec

=============================================================================
