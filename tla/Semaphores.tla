----------------------------- MODULE Semaphores -----------------------------
(***************************************************************************)
(* The semaphores of the kernel (semaphore.h, semaphore.cc) over the       *)
(* thread switcher: down() goes through block() with its ISL lock taken    *)
(* and lets the handler, on the stack of the next thread, enqueue the      *)
(* caller and release that lock; up() hands the unit to the first thread   *)
(* that waits.                                                             *)
(*                                                                         *)
(* One semaphore is the lock of the kernel heap (a BlockingLock): thread() *)
(* takes it to build a TCB and the reaper to delete one (heap.cc malloc    *)
(* and free). The others are used by the workers in any order.             *)
(***************************************************************************)
EXTENDS Threads

CONSTANTS
  UserSems,   \* semaphores the workers use
  HeapLock,   \* theLock of heap.cc
  Initial,    \* the count a user semaphore starts with
  MaxCount    \* bound: up() is not called on a user semaphore beyond it

Sems == UserSems \cup {HeapLock}

ASSUME SemaphoresAssumption ==
  /\ HeapLock \notin UserSems /\ None \notin Sems
  /\ Initial \in Nat /\ MaxCount \in Nat /\ Initial <= MaxCount

VARIABLES
  count,    \* Semaphore::count
  taken,    \* the ISL of the semaphore
  waiting,  \* Queue<TCB> Semaphore::waiting
  sem,      \* per core: the semaphore (this) captured by the handler of down()
  then      \* what a thread does after the schedule() at the end of up()

semVars == <<count, taken, waiting, sem, then>>
allVars == <<vars, semVars>>

\* A BlockingLock is a Semaphore(1).
InitialCount(s) == IF s = HeapLock THEN 1 ELSE Initial

SemInit ==
  /\ Init
  /\ count = [s \in Sems |-> InitialCount(s)]
  /\ taken = [s \in Sems |-> FALSE]
  /\ waiting = [s \in Sems |-> << >>]
  /\ sem = [c \in Cores |-> None]
  /\ then = [t \in Threads |-> "work"]

-----------------------------------------------------------------------------
\* down() with a unit to take: under the lock from the test to the decrement.
\* `after' is what the thread does next.
DownFast(c, t, s, after) ==
  /\ ~taken[s] /\ count[s] > 0
  /\ count' = [count EXCEPT ![s] = @ - 1]
  /\ job' = [job EXCEPT ![t] = after]
  /\ UNCHANGED <<alloc, readyQ, zombies, noPreempt, held, coreVars,
                 taken, waiting, sem, then>>

\* Variant with a bug: the lock is taken without turning interrupts off.
DownInterruptible(c, t, s, after) ==
  /\ ~taken[s] /\ count[s] = 0
  /\ taken' = [taken EXCEPT ![s] = TRUE]
  /\ sem' = [sem EXCEPT ![c] = s]
  /\ job' = [job EXCEPT ![t] = after]
  /\ BlockProtect(c, "wait", intr[c])
  /\ UNCHANGED <<alloc, readyQ, zombies, held, count, waiting, then>>

\* down() with none: into block(), the lock taken and interrupts off.
DownBlock(c, t, s, after) ==
  /\ ~taken[s] /\ count[s] = 0
  /\ taken' = [taken EXCEPT ![s] = TRUE]
  /\ sem' = [sem EXCEPT ![c] = s]
  /\ job' = [job EXCEPT ![t] = after]
  /\ BlockProtect(c, "wait", FALSE)
  /\ UNCHANGED <<alloc, readyQ, zombies, held, count, waiting, then>>

Down(c, t, s, after) == DownFast(c, t, s, after) \/ DownBlock(c, t, s, after)

\* Variant with a bug: last come, first served.
HandlerWaitFront(c) ==
  /\ pc[c] = "handler" /\ handler[c] = "wait"
  /\ waiting' = [waiting EXCEPT ![sem[c]] = <<me[c]>> \o @]
  /\ taken' = [taken EXCEPT ![sem[c]] = FALSE]
  /\ sem' = [sem EXCEPT ![c] = None]
  /\ LeaveBlock(c)
  /\ UNCHANGED <<alloc, readyQ, zombies, active, running, noPreempt, job, held,
                 count, then>>

\* The handler of down(): enqueue the thread that left, release the lock, and
\* popf and ret into the target context.
HandlerWait(c) ==
  /\ pc[c] = "handler" /\ handler[c] = "wait"
  /\ waiting' = [waiting EXCEPT ![sem[c]] = Append(@, me[c])]
  /\ taken' = [taken EXCEPT ![sem[c]] = FALSE]
  /\ sem' = [sem EXCEPT ![c] = None]
  /\ LeaveBlock(c)
  /\ UNCHANGED <<alloc, readyQ, zombies, active, running, noPreempt, job, held,
                 count, then>>

\* up() with nobody waiting.
UpCount(c, t, s, after) ==
  /\ ~taken[s] /\ waiting[s] = << >>
  /\ count' = [count EXCEPT ![s] = @ + 1]
  /\ job' = [job EXCEPT ![t] = after]
  /\ UNCHANGED <<alloc, readyQ, zombies, noPreempt, held, coreVars,
                 taken, waiting, sem, then>>

\* Variants with a bug: the thread stays in the queue; the unit is added as well.
UpKeepsWaiter(c, t, s, after) ==
  /\ ~taken[s] /\ waiting[s] # << >>
  /\ held' = [held EXCEPT ![t] = Head(waiting[s])]
  /\ job' = [job EXCEPT ![t] = "wake"]
  /\ then' = [then EXCEPT ![t] = after]
  /\ UNCHANGED <<alloc, readyQ, zombies, noPreempt, coreVars, count, taken,
                 waiting, sem>>

UpWakeAndCount(c, t, s, after) ==
  /\ ~taken[s] /\ waiting[s] # << >>
  /\ held' = [held EXCEPT ![t] = Head(waiting[s])]
  /\ waiting' = [waiting EXCEPT ![s] = Tail(@)]
  /\ count' = [count EXCEPT ![s] = @ + 1]
  /\ job' = [job EXCEPT ![t] = "wake"]
  /\ then' = [then EXCEPT ![t] = after]
  /\ UNCHANGED <<alloc, readyQ, zombies, noPreempt, coreVars, taken, sem>>

\* up() with a thread that waits: removed under the lock ...
UpWake(c, t, s, after) ==
  /\ ~taken[s] /\ waiting[s] # << >>
  /\ held' = [held EXCEPT ![t] = Head(waiting[s])]
  /\ waiting' = [waiting EXCEPT ![s] = Tail(@)]
  /\ job' = [job EXCEPT ![t] = "wake"]
  /\ then' = [then EXCEPT ![t] = after]
  /\ UNCHANGED <<alloc, readyQ, zombies, noPreempt, coreVars, count, taken, sem>>

\* ... and scheduled after the lock is released and interrupts are back on.
Wake(c, t) ==
  /\ Executes(c, t, "wake")
  /\ readyQ' = Append(readyQ, held[t])
  /\ held' = [held EXCEPT ![t] = None]
  /\ job' = [job EXCEPT ![t] = then[t]]
  /\ then' = [then EXCEPT ![t] = "work"]
  /\ UNCHANGED <<alloc, zombies, noPreempt, coreVars, count, taken, waiting, sem>>

Up(c, t, s, after) == UpCount(c, t, s, after) \/ UpWake(c, t, s, after)

-----------------------------------------------------------------------------
(***************************************************************************)
(* The users of semaphores.                                                *)
(***************************************************************************)
\* malloc, for the new TCB: lock, take the block, unlock, then the TCB is ready.
MallocLock(c, t) == Executes(c, t, "create") /\ Down(c, t, HeapLock, "malloc")
MallocUnlock(c, t) == Executes(c, t, "malloc") /\ Up(c, t, HeapLock, "built")

CreateBuilt(c, t, child) ==
  /\ Executes(c, t, "built") /\ child \in Workers \ alloc
  /\ alloc' = alloc \cup {child}
  /\ noPreempt' = [noPreempt EXCEPT ![child] = FALSE]
  /\ readyQ' = Append(readyQ, child)
  /\ job' = [job EXCEPT ![t] = "work", ![child] = "work"]
  /\ UNCHANGED <<zombies, held, coreVars, semVars>>

\* free, for a zombie.
FreeLock(c, t) == Executes(c, t, "delete") /\ Down(c, t, HeapLock, "free")

Free(c, t) ==
  /\ Executes(c, t, "free")
  /\ alloc' = alloc \ {held[t]}
  /\ held' = [held EXCEPT ![t] = None]
  /\ job' = [job EXCEPT ![t] = "freed"]
  /\ UNCHANGED <<readyQ, zombies, noPreempt, coreVars, semVars>>

\* Variant with a bug: free returns without the unlock.
FreeKeepsLock(c, t) ==
  /\ Executes(c, t, "freed")
  /\ job' = [job EXCEPT ![t] = "reap"]
  /\ UNCHANGED <<alloc, readyQ, zombies, noPreempt, held, coreVars, semVars>>

FreeUnlock(c, t) == Executes(c, t, "freed") /\ Up(c, t, HeapLock, "reap")

\* A worker uses a semaphore.
UserDown(c, t, s) ==
  Executes(c, t, "work") /\ t # Reaper /\ Down(c, t, s, "work")
UserUp(c, t, s) ==
  /\ Executes(c, t, "work") /\ t # Reaper /\ count[s] < MaxCount
  /\ Up(c, t, s, "work")

\* The steps of Threads that stay as they are: all but delete and create.
PlainStep(c, t) ==
  /\ \/ Yield(c, t) \/ Stop(c, t) \/ CallThread(c, t)
     \/ ReapTake(c, t) \/ ReapDone(c, t)
  /\ UNCHANGED semVars

HeapStep(c, t) ==
  \/ MallocLock(c, t) \/ MallocUnlock(c, t)
  \/ FreeLock(c, t) \/ Free(c, t) \/ FreeUnlock(c, t)

SemThreadStep(c, t) ==
  \/ PlainStep(c, t) \/ HeapStep(c, t) \/ Wake(c, t)
  \/ \E child \in Workers : CreateBuilt(c, t, child)
  \/ \E s \in UserSems : UserDown(c, t, s) \/ UserUp(c, t, s)

SemCoreStep(c) ==
  \/ (BlockStep(c) \/ Tick(c) \/ IdleStop(c)) /\ UNCHANGED semVars
  \/ HandlerWait(c)

SemNext == \E c \in Cores :
  SemCoreStep(c) \/ \E t \in Threads : SemThreadStep(c, t)

SemSpec == SemInit /\ [][SemNext]_allVars
-----------------------------------------------------------------------------
(***************************************************************************)
(* Safety.                                                                 *)
(***************************************************************************)

\* ExclusiveOwner with the queues of the semaphores among the places: a thread
\* that waits is in no other queue and on no core, and is woken only once
\* (semaphore.cc down and up).
SemExclusiveOwner ==
  \A t \in Threads :
    Cardinality(Holders(t)
      \cup UNION {{<<"waits", s, i>> : i \in {i \in DOMAIN waiting[s] :
                                               waiting[s][i] = t}} : s \in Sems})
      = IF t \in alloc THEN 1 ELSE 0

\* The cores on which a thread is on its way into the queue of s.
Entering(s) == {c \in Cores : sem[c] = s}

\* No lost wake-up: while a thread waits for s, or is on its way there, s has no
\* unit that nobody would come for (semaphore.cc:16, "We have to block because we
\* don't check again").
NoIdleUnit ==
  \A s \in Sems : count[s] > 0 => waiting[s] = << >> /\ Entering(s) = {}

\* The ISL goes from the thread that blocks to the handler on another stack: all
\* that time it is taken, by one core only, and that core has its interrupts off,
\* so that no handler of its own can spin on it (semaphore.cc:21).
LockCrossesSwitch ==
  \A s \in Sems :
    /\ taken[s] <=> Entering(s) # {}
    /\ \A c, d \in Entering(s) : c = d
    /\ \A c \in Entering(s) : ~intr[c] /\ pc[c] # "work"

\* The threads that have the heap lock: past its down() and not at its up().
InHeap ==
  {t \in Threads :
     /\ job[t] \in {"malloc", "free", "freed"}
     /\ \A i \in DOMAIN waiting[HeapLock] : waiting[HeapLock][i] # t
     /\ \A c \in Entering(HeapLock) : me[c] # t}

\* The heap lock has one unit: one thread at most is in malloc or free, the one
\* that is woken included before it ever runs (heap.cc:148 and 196).
HeapUnit == count[HeapLock] + Cardinality(InHeap) = 1

\* The type of every variable.
SemTypeOK ==
  /\ TypeOK
  /\ count \in [Sems -> Nat]
  /\ taken \in [Sems -> BOOLEAN]
  /\ waiting \in [Sems -> Seq(Threads)]
  /\ sem \in [Cores -> Sems \cup {None}]
  /\ then \in [Threads -> Jobs]

\* No unit of a semaphore is lost or made up between down(), the handler that
\* enqueues and up(): none is idle while a thread waits, and the one unit of the
\* heap lock is in its count or with the thread in malloc or free
\* (semaphore.cc:4-41, heap.cc:148 and 196).
UnitsAccounted == SemTypeOK /\ NoIdleUnit /\ HeapUnit

\* Every semaphore is a counting semaphore: block(), the switch of stacks, the
\* lock that crosses it and the late schedule() cannot be told from operations
\* that happen at once.
Counting == INSTANCE CountingSemaphores WITH
  Users <- Threads, StartWith <- [s \in Sems |-> InitialCount(s)],
  units <- count, waiters <- waiting

IsCountingSemaphores == Counting!Spec

-----------------------------------------------------------------------------
(***************************************************************************)
(* Liveness. A processor executes what is in front of it: block() and the  *)
(* loop of stop() in an idle TCB, with interrupts off or in a thread that  *)
(* the timer leaves alone (weak fairness). The APIC timer is periodic. The *)
(* kernel's code in a thread gets somewhere between two ticks, which come  *)
(* once a millisecond, when it is executed again and again (strong         *)
(* fairness). Nothing is assumed of a worker's own code: it may run for    *)
(* ever, never yield, and never give a unit back.                          *)
(***************************************************************************)
KernelSteps(t) == \E c \in Cores :
  \/ t = Reaper /\ Yield(c, t) /\ UNCHANGED semVars
  \/ (ReapTake(c, t) \/ ReapDone(c, t)) /\ UNCHANGED semVars
  \/ HeapStep(c, t) \/ Wake(c, t)
  \/ \E child \in Workers : CreateBuilt(c, t, child)

SemFairness ==
  /\ \A c \in Cores :
       /\ WF_allVars((BlockStep(c) \/ IdleStop(c)) /\ UNCHANGED semVars)
       /\ WF_allVars(HandlerWait(c))
       /\ WF_allVars(Tick(c) /\ UNCHANGED semVars)
  /\ \A t \in Threads : SF_allVars(KernelSteps(t))

SemFairSpec == SemSpec /\ SemFairness

\* The thread t is in the ready queue, or an up() has just removed it from the
\* queue of a semaphore to put it there.
Ready(t) ==
  \/ \E i \in DOMAIN readyQ : readyQ[i] = t
  \/ \E u \in Threads : job[u] = "wake" /\ held[u] = t

Runs(t) == \E c \in Cores : running[c] = t /\ pc[c] = "work"

\* A yield() that finds the ready queue empty returns and leaves no_preempt set
\* (threads.h:105): the timer passes over that thread until it next blocks. Here
\* every core executes such a thread.
OutOfReach == \A c \in Cores :
  pc[c] = "work" /\ noPreempt[running[c]] /\ ~IsIdle(running[c])

\* Whatever the workers do, a thread that is ready eventually runs; the one thing
\* that can keep it from doing so is that every core executes for ever a thread
\* which such a yield() has made non-preemptible (threads.h block, pit.cc:146).
ReadyRunsOrOutOfReach ==
  \A t \in Threads : Ready(t) ~> (Runs(t) \/ []OutOfReach)

\* A thread that called stop() is eventually deleted, by the reaper or a caller of
\* thread(), through the heap lock, with the same exception (threads.cc:98,
\* delete_zombies, heap.cc free).
StoppedIsFreed ==
  \A t \in Workers :
    (t \in alloc /\ job[t] = "stopped") ~> (t \notin alloc \/ []OutOfReach)

\* A caller of malloc or free that waits for the heap lock gets it, with the same
\* exception: its holder gives it back, even out of reach of the timer, but when it
\* goes to another waiter who is only made ready, that one may never run again, and
\* those behind it in the queue wait for ever (semaphore.cc:29-41, threads.h:105,
\* heap.cc:148 and 196).
HeapLockIsGranted ==
  \A t \in Threads :
    (\E i \in DOMAIN waiting[HeapLock] : waiting[HeapLock][i] = t)
      ~> (t \in InHeap \/ []OutOfReach)
=============================================================================
