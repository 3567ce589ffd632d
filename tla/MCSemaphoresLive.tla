-------------------------- MODULE MCSemaphoresLive --------------------------
(***************************************************************************)
(* Semaphores for TLC, on one core, with programs for the workers that     *)
(* bring three threads to the heap lock at a time, so that one waits       *)
(* behind another: two workers which create threads, and the reaper, which *)
(* deletes one.                                                            *)
(***************************************************************************)
EXTENDS Semaphores

\* The workers that call thread(), again and again, and those that may stop. The
\* others run on. All yield, and are preempted, when they like.
CONSTANTS Creators, Stoppers

Live == {t \in alloc \cap Workers : job[t] # "stopped"}

\* Bound: thread() is called while there are one or two live workers.
Programs ==
  \A t \in Workers : job[t] = "work" =>
    /\ job'[t] = "reap" => t \in Creators /\ Cardinality(Live) <= 2
    /\ job'[t] = "stopped" => t \in Stoppers

\* Bound: the TCBs are taken in one order.
InOrder == \A t \in alloc' \ alloc : t = CHOOSE u \in Workers : u \notin alloc

LiveSpec == SemInit /\ [][SemNext /\ Programs /\ InOrder]_allVars /\ SemFairness
=============================================================================
