--------------------------- MODULE FixedOrderMap ---------------------------
(***************************************************************************)
(* The map from order ids to orders (src/engine/FixedOrderMap.h): a table  *)
(* of Capacity buckets with linear probing, in which erasing moves later   *)
(* entries back instead of leaving a mark.                                 *)
(*                                                                         *)
(* The hash of a key is any function of the key: home is chosen once, in   *)
(* Init, among all assignments of buckets to keys.  A search is one step,  *)
(* and so is each turn of the loop in erase.                               *)
(***************************************************************************)
EXTENDS Integers, FiniteSetsExt

CONSTANTS
  Capacity,     \* a power of two: the constructor throws otherwise
  Keys, Values

ASSUME MapAssumption ==
  /\ Capacity \in Nat \ {0}
  /\ Values \cap {"Inserted", "DuplicateKey", "Full", "Erased", "NotFound"} = {}

VARIABLES
  home,      \* the bucket a key hashes to
  entries,   \* the buckets
  size,      \* the counter of occupied buckets
  answer,    \* what the last call returned, or erase is going to return
  erasing,   \* is erase in its loop?
  hole,      \* ... the vacated bucket,
  scan,      \* the bucket to look at next,
  examined   \* and the number of buckets looked at

loop == <<erasing, hole, scan, examined>>
vars == <<home, entries, size, answer, loop>>

-----------------------------------------------------------------------------

Buckets == 0 .. Capacity - 1
Vacant == [occupied |-> FALSE]
Entry(key, value) == [occupied |-> TRUE, key |-> key, value |-> value]

(* i & mask_, for an i that is less than twice the capacity; a difference  *)
(* that wraps differs from one with the capacity added by a multiple of it. *)
Masked(i) == IF i >= Capacity THEN i - Capacity ELSE i
NextBucket(i) == Masked(i + 1)
ProbeDistance(from, to) == Masked(to - from + Capacity)

(* The bucket of the p-th probe for key; the probes that end a search, at  *)
(* a vacant bucket or at the key; and where the first of them leads.       *)
Probe(key, p) == Masked(home[key] + p)
Holds(i, key) == entries[i].occupied /\ entries[i].key = key
(* Mutant: the search gives up one bucket early.                           *)
EndsEarly(key) ==
  {p \in 0 .. Capacity - 2 :
     Holds(Probe(key, p), key) \/ ~entries[Probe(key, p)].occupied}

Ends(key) ==
  {p \in Buckets : Holds(Probe(key, p), key) \/ ~entries[Probe(key, p)].occupied}
EndOfSearch(key) == Probe(key, Min(Ends(key)))

(* find_index: the bucket of the key, or Capacity.                         *)
FindIndex(key) ==
  IF Ends(key) # {} /\ Holds(EndOfSearch(key), key)
  THEN EndOfSearch(key)
  ELSE Capacity

Init ==
  /\ home \in [Keys -> Buckets]
  /\ entries = [i \in Buckets |-> Vacant]
  /\ size = 0
  /\ answer = "None"
  /\ erasing = FALSE /\ hole = 0 /\ scan = 0 /\ examined = 0

-----------------------------------------------------------------------------

(* Mutant: a duplicate is counted as well.                                 *)
InsertCounted(key, value) ==
  /\ ~erasing
  /\ UNCHANGED <<home, loop>>
  /\ IF Ends(key) = {}
     THEN answer' = "Full" /\ UNCHANGED <<entries, size>>
     ELSE IF Holds(EndOfSearch(key), key)
     THEN answer' = "DuplicateKey" /\ size' = size + 1 /\ UNCHANGED entries
     ELSE /\ answer' = "Inserted"
          /\ entries' = [entries EXCEPT ![EndOfSearch(key)] = Entry(key, value)]
          /\ size' = size + 1

Insert(key, value) ==
  /\ ~erasing
  /\ UNCHANGED <<home, loop>>
  /\ IF Ends(key) = {}
     THEN answer' = "Full" /\ UNCHANGED <<entries, size>>
     ELSE IF Holds(EndOfSearch(key), key)
     THEN answer' = "DuplicateKey" /\ UNCHANGED <<entries, size>>
     ELSE /\ answer' = "Inserted"
          /\ entries' = [entries EXCEPT ![EndOfSearch(key)] = Entry(key, value)]
          /\ size' = size + 1

Find(key) ==
  /\ ~erasing
  /\ answer' = IF FindIndex(key) = Capacity
               THEN "NotFound"
               ELSE entries[FindIndex(key)].value
  /\ UNCHANGED <<home, entries, size, loop>>

EraseMissing(key) ==
  /\ ~erasing
  /\ FindIndex(key) = Capacity
  /\ answer' = "NotFound"
  /\ UNCHANGED <<home, entries, size, loop>>

EraseBegins(key) ==
  /\ ~erasing
  /\ FindIndex(key) # Capacity
  /\ entries' = [entries EXCEPT ![FindIndex(key)] = Vacant]
  /\ size' = size - 1
  /\ answer' = "Erased"
  /\ erasing' = TRUE
  /\ hole' = FindIndex(key)
  /\ scan' = NextBucket(FindIndex(key))
  /\ examined' = 0
  /\ UNCHANGED home

(* Mutant: bucket numbers are compared, not distances round the table.     *)
MovesWithoutWrap ==
  home[entries[scan].key] <= hole /\ hole < scan

(* Does the entry being looked at move back into the hole?  Yes, if that   *)
(* brings it nearer to its home.                                           *)
MovesBack ==
  ProbeDistance(home[entries[scan].key], hole)
    < ProbeDistance(home[entries[scan].key], scan)

LoopEnds == examined = Capacity - 1 \/ ~entries[scan].occupied

(* Mutant: the moved entry is not cleared from its old bucket.             *)
ExamineCopying ==
  /\ erasing
  /\ ~LoopEnds
  /\ IF MovesBack
     THEN entries' = [entries EXCEPT ![hole] = entries[scan]] /\ hole' = scan
     ELSE UNCHANGED <<entries, hole>>
  /\ scan' = NextBucket(scan)
  /\ examined' = examined + 1
  /\ UNCHANGED <<home, size, answer, erasing>>

Examine ==
  /\ erasing
  /\ ~LoopEnds
  /\ IF MovesBack
     THEN /\ entries' = [entries EXCEPT ![hole] = entries[scan], ![scan] = Vacant]
          /\ hole' = scan
     ELSE UNCHANGED <<entries, hole>>
  /\ scan' = NextBucket(scan)
  /\ examined' = examined + 1
  /\ UNCHANGED <<home, size, answer, erasing>>

EraseReturns ==
  /\ erasing
  /\ LoopEnds
  /\ erasing' = FALSE /\ hole' = 0 /\ scan' = 0 /\ examined' = 0
  /\ UNCHANGED <<home, entries, size, answer>>

Next ==
  \/ \E key \in Keys :
       \/ \E value \in Values : Insert(key, value)
       \/ Find(key)
       \/ EraseMissing(key) \/ EraseBegins(key)
  \/ Examine \/ EraseReturns

Spec == Init /\ [][Next]_vars

-----------------------------------------------------------------------------

TypeOK ==
  /\ home \in [Keys -> Buckets]
  /\ entries \in [Buckets ->
       {Vacant} \cup {Entry(key, value) : key \in Keys, value \in Values}]
  /\ size \in 0 .. Capacity
  /\ erasing \in BOOLEAN
  /\ {hole, scan, examined} \subseteq Buckets

Occupied == {i \in Buckets : entries[i].occupied}

(* No erase ever cuts off a key: from the home of every key in the table   *)
(* to its bucket, round the end of the table if need be, every bucket is   *)
(* occupied (FixedOrderMap.h:93-107).                                      *)
ProbePathsUnbroken ==
  ~erasing => \A i \in Occupied :
    \A p \in 0 .. ProbeDistance(home[entries[i].key], i) :
      entries[Probe(entries[i].key, p)].occupied

(* No key stands in two buckets, so an erase leaves no second copy to be   *)
(* found later (FixedOrderMap.h:45-56, :101-102).                          *)
KeysOnce ==
  \A i, j \in Occupied : entries[i].key = entries[j].key => i = j

BucketOf(key) == CHOOSE i \in Occupied : entries[i].key = key

Lookup == INSTANCE LookupMap WITH
  map <- [key \in {entries[i].key : i \in Occupied} |->
            entries[BucketOf(key)].value]

(* Whatever keys collide, the table is a map: an insert is refused only    *)
(* for a key it holds or for want of any vacant bucket, a key is found     *)
(* exactly from its insert to its erase, with its value, and the counter   *)
(* is the number of keys (FixedOrderMap.h:39-115).                         *)
ImplementsLookupMap == Lookup!Spec

=============================================================================
