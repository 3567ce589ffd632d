------------------------------ MODULE Mutexes ------------------------------
(***************************************************************************)
(* What a set of locks promises: each has at most one holder, and only an  *)
(* absent holder makes room for the next.                                  *)
(***************************************************************************)
CONSTANTS Locks, Contexts

VARIABLE holders \* lock -> the contexts inside its sections

Init == holders = [l \in Locks |-> {}]

Acquire(l) ==
  /\ holders[l] = {}
  /\ \E x \in Contexts : holders' = [holders EXCEPT ![l] = {x}]

Release(l) == holders[l] # {} /\ holders' = [holders EXCEPT ![l] = {}]

Next == \E l \in Locks : Acquire(l) \/ Release(l)

Spec == Init /\ [][Next]_holders
=============================================================================
