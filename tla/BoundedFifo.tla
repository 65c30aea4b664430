---------------------------- MODULE BoundedFifo ----------------------------
(***************************************************************************)
(* What a ring between one producer and one consumer promises, without its *)
(* indices and cells: a first-in first-out queue of Capacity places.  News *)
(* travels late: the consumer learns of an item some time after it was     *)
(* put, the producer learns of a freed place some time after it was freed. *)
(* A push is refused exactly when, as far as the producer knows, no place  *)
(* is left; a pop finds nothing exactly when, as far as the consumer       *)
(* knows, there is no item.  Module SpscRing implements this.              *)
(***************************************************************************)
EXTENDS Naturals, Sequences

CONSTANTS Items, Capacity

VARIABLES
  queue,     \* the items put and not taken, oldest first
  arrived,   \* how many of them the consumer knows of
  held,      \* the item taken whose place is not yet free: <<>> or <<item>>
  unclaimed, \* the places freed that the producer does not know of
  pushed,    \* the answer to the last completed push
  popped     \* the answer to the last completed pop

vars == <<queue, arrived, held, unclaimed, pushed, popped>>

PlacesTaken == Len(queue) + Len(held) + unclaimed

Init ==
  /\ queue = <<>>
  /\ arrived = 0
  /\ held = <<>>
  /\ unclaimed = 0
  /\ pushed = TRUE
  /\ popped = TRUE

Put(item) ==
  /\ PlacesTaken < Capacity
  /\ queue' = Append(queue, item)
  /\ pushed' = TRUE
  /\ UNCHANGED <<arrived, held, unclaimed, popped>>

Refuse ==
  /\ PlacesTaken = Capacity
  /\ pushed' = FALSE
  /\ UNCHANGED <<queue, arrived, held, unclaimed, popped>>

ItemArrives ==
  /\ arrived < Len(queue)
  /\ arrived' = arrived + 1
  /\ UNCHANGED <<queue, held, unclaimed, pushed, popped>>

Take ==
  /\ held = <<>>
  /\ arrived > 0
  /\ held' = <<Head(queue)>>
  /\ queue' = Tail(queue)
  /\ arrived' = arrived - 1
  /\ UNCHANGED <<unclaimed, pushed, popped>>

GiveBack ==
  /\ held # <<>>
  /\ held' = <<>>
  /\ unclaimed' = unclaimed + 1
  /\ popped' = TRUE
  /\ UNCHANGED <<queue, arrived, pushed>>

FindNothing ==
  /\ held = <<>>
  /\ arrived = 0
  /\ popped' = FALSE
  /\ UNCHANGED <<queue, arrived, held, unclaimed, pushed>>

SpaceArrives ==
  /\ unclaimed > 0
  /\ unclaimed' = unclaimed - 1
  /\ UNCHANGED <<queue, arrived, held, pushed, popped>>

Next ==
  \/ \E item \in Items : Put(item)
  \/ Refuse
  \/ ItemArrives
  \/ Take
  \/ GiveBack
  \/ FindNothing
  \/ SpaceArrives

Spec == Init /\ [][Next]_vars

=============================================================================
