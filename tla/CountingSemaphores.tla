------------------------- MODULE CountingSemaphores -------------------------
(***************************************************************************)
(* What semaphores promise, whatever goes on underneath: down() takes a    *)
(* unit, or waits when there is none; up() gives its unit to the thread    *)
(* that has waited longest, or adds it when nobody waits. Each operation   *)
(* takes effect at one instant.                                            *)
(***************************************************************************)
EXTENDS Naturals, Sequences

CONSTANTS Sems,      \* the semaphores
          Users,     \* the threads
          StartWith  \* the units of each at the start

VARIABLES units,     \* per semaphore, the units that nobody has taken
          waiters    \* per semaphore, the threads in down(), first come first

TypeOK ==
  /\ units \in [Sems -> Nat]
  /\ waiters \in [Sems -> Seq(Users)]

Init == units = StartWith /\ waiters = [s \in Sems |-> << >>]

Take(s) ==
  units[s] > 0 /\ units' = [units EXCEPT ![s] = @ - 1] /\ UNCHANGED waiters

\* A thread is in one down() at a time.
Wait(t, s) ==
  /\ units[s] = 0
  /\ \A r \in Sems : \A i \in DOMAIN waiters[r] : waiters[r][i] # t
  /\ waiters' = [waiters EXCEPT ![s] = Append(@, t)]
  /\ UNCHANGED units

Add(s) ==
  waiters[s] = << >> /\ units' = [units EXCEPT ![s] = @ + 1] /\ UNCHANGED waiters

HandOver(s) ==
  waiters[s] # << >> /\ waiters' = [waiters EXCEPT ![s] = Tail(@)] /\ UNCHANGED units

Next == \E s \in Sems :
  Take(s) \/ Add(s) \/ HandOver(s) \/ \E t \in Users : Wait(t, s)

Spec == Init /\ [][Next]_<<units, waiters>>
=============================================================================
