---------------------------- MODULE MCSemaphores ----------------------------
(***************************************************************************)
(* Semaphores for TLC: two cores, the reaper, two or three workers, the    *)
(* heap lock and one more semaphore.                                       *)
(***************************************************************************)
EXTENDS Semaphores, TLC

\* The cores are interchangeable, and so are the workers but the main one.
Symmetry == Permutations(Cores) \cup Permutations(Workers \ {Main})
=============================================================================
