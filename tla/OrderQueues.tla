---------------------------- MODULE OrderQueues ----------------------------
(***************************************************************************)
(* What the pool and the price levels promise the book together: a set of  *)
(* slots to take orders from, and a first-in first-out queue per level out *)
(* of which any order can be removed.  Module OrderBook keeps its orders   *)
(* in exactly this form; module PriceLevel implements it with links.       *)
(***************************************************************************)
EXTENDS Sequences, SequencesExt

CONSTANTS Slots, NoSlot, Levels

VARIABLES
  free,      \* the slots no order is in
  pending,   \* the slot of the order being placed, or NoSlot
  queues,    \* per level, the slots of the resting orders, oldest first
  exhausted  \* did the last allocation fail?

vars == <<free, pending, queues, exhausted>>

Init ==
  /\ free = Slots
  /\ pending = NoSlot
  /\ queues = [l \in Levels |-> <<>>]
  /\ exhausted = FALSE

Place ==
  /\ pending = NoSlot
  /\ \E slot \in free : pending' = slot /\ free' = free \ {slot}
  /\ exhausted' = FALSE
  /\ UNCHANGED queues

Refuse ==
  /\ pending = NoSlot
  /\ free = {}
  /\ exhausted' = TRUE
  /\ UNCHANGED <<free, pending, queues>>

Discard ==
  /\ pending # NoSlot
  /\ free' = free \cup {pending}
  /\ pending' = NoSlot
  /\ UNCHANGED <<queues, exhausted>>

Rest(l) ==
  /\ pending # NoSlot
  /\ queues' = [queues EXCEPT ![l] = Append(@, pending)]
  /\ pending' = NoSlot
  /\ UNCHANGED <<free, exhausted>>

Fill(l) ==
  /\ pending # NoSlot
  /\ queues[l] # <<>>
  /\ queues' = [queues EXCEPT ![l] = Tail(@)]
  /\ free' = free \cup {Head(queues[l])}
  /\ UNCHANGED <<pending, exhausted>>

Cancel(l, i) ==
  /\ pending = NoSlot
  /\ queues' = [queues EXCEPT ![l] = RemoveAt(@, i)]
  /\ free' = free \cup {queues[l][i]}
  /\ UNCHANGED <<pending, exhausted>>

Next ==
  \/ Place \/ Refuse \/ Discard
  \/ \E l \in Levels : Rest(l) \/ Fill(l) \/ \E i \in DOMAIN queues[l] : Cancel(l, i)

Spec == Init /\ [][Next]_vars

=============================================================================
