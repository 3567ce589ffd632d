----------------------------- MODULE MCThreads -----------------------------
(***************************************************************************)
(* Threads for TLC: two cores, the main thread, the reaper and one or two  *)
(* more TCBs, which thread() allocates again after they are deleted.       *)
(***************************************************************************)
EXTENDS Threads, TLC

\* The cores are interchangeable, and so are the TCBs of the workers other than
\* the one of the main thread.
Symmetry == Permutations(Cores) \cup Permutations(Workers \ {Main})
=============================================================================
