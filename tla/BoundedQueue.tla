---------------------------- MODULE BoundedQueue ----------------------------
(***************************************************************************)
(* What a bounded buffer promises: the values come out once each, in the   *)
(* order in which they were put, and at most Room of them are inside.      *)
(***************************************************************************)
EXTENDS Naturals, Sequences

CONSTANTS Values, Room

VARIABLE items

Init == items = << >>

Put(v) == Len(items) < Room /\ items' = Append(items, v)

Get == items # << >> /\ items' = Tail(items)

Next == Get \/ \E v \in Values : Put(v)

Spec == Init /\ [][Next]_items
=============================================================================
