----------------------------- MODULE LookupMap -----------------------------
(***************************************************************************)
(* What the order lookup map promises: a map of at most Capacity keys.     *)
(* Modules OrderBook and MatchingEngine use the map as this partial        *)
(* function; module FixedOrderMap implements it.                           *)
(***************************************************************************)
EXTENDS Integers

CONSTANTS Keys, Values, Capacity

VARIABLES
  map,    \* the values, by key
  size,   \* the number of keys
  answer  \* what the last call returned

vars == <<map, size, answer>>

Init ==
  /\ map = [k \in {} |-> k]
  /\ size = 0
  /\ answer = "None"

Insert(key, value) ==
  IF key \in DOMAIN map
  THEN answer' = "DuplicateKey" /\ UNCHANGED <<map, size>>
  ELSE IF size = Capacity
  THEN answer' = "Full" /\ UNCHANGED <<map, size>>
  ELSE /\ answer' = "Inserted"
       /\ map' = [k \in DOMAIN map \cup {key} |->
                    IF k = key THEN value ELSE map[k]]
       /\ size' = size + 1

Find(key) ==
  /\ answer' = IF key \in DOMAIN map THEN map[key] ELSE "NotFound"
  /\ UNCHANGED <<map, size>>

Erase(key) ==
  IF key \in DOMAIN map
  THEN /\ answer' = "Erased"
       /\ map' = [k \in DOMAIN map \ {key} |-> map[k]]
       /\ size' = size - 1
  ELSE answer' = "NotFound" /\ UNCHANGED <<map, size>>

Next ==
  \E key \in Keys :
    \/ \E value \in Values : Insert(key, value)
    \/ Find(key)
    \/ Erase(key)

Spec == Init /\ [][Next]_vars

=============================================================================
