------------------------------ MODULE Threads ------------------------------
(***************************************************************************)
(* The thread switcher of the kernel: threads.h, threads.cc, context.s and *)
(* the timer interrupt handler of pit.cc.                                  *)
(*                                                                         *)
(* Every core runs on the kernel stack of one TCB.  A thread leaves its    *)
(* stack by calling block(option, f): it picks another TCB, records it in  *)
(* activeThreads, and gheith_contextSwitch moves the core to the other     *)
(* stack, where f(me) finally says what becomes of the thread that left    *)
(* (ready again, zombie, waiting).  One action below is one step of block  *)
(* that another core, or the timer interrupt of the same core, can get in  *)
(* front of; what runs under the lock of a Queue is one step.              *)
(***************************************************************************)
EXTENDS Naturals, Sequences, FiniteSets

CONSTANTS
  Cores,     \* the processors; the idle TCB of core c is written c itself
  Workers,   \* the TCBs that thread() may allocate
  Main,      \* the worker that kernelInit creates, which runs kernelMain
  Reaper,    \* the TCB of the reaper thread of threadsInit
  None       \* nullptr

ASSUME ThreadsAssumption ==
  /\ Cores # {} /\ Cores \cap (Workers \cup {Reaper, None}) = {}
  /\ Main \in Workers
  /\ Reaper \notin Workers /\ None \notin Workers \cup {Reaper}

VARIABLES
  alloc,      \* TCBs of threads that are allocated and not yet deleted
  readyQ,     \* Queue<TCB> readyQ
  zombies,    \* Queue<TCB> zombies
  active,     \* activeThreads
  running,    \* the TCB whose kernel stack the core executes on
  noPreempt,  \* saveArea.no_preempt of every TCB
  intr,       \* EFLAGS.IF of every core
  pc,         \* how far the core is in block(); "work" when it is not in it
  me, next, handler,  \* the variables of that call of block: me, next_tcb, f
  job,        \* what the thread does when its stack is executed
  held        \* the TCB that a local variable of the thread points to

coreVars == <<active, running, intr, pc, me, next, handler>>
vars == <<alloc, readyQ, zombies, noPreempt, job, held, coreVars>>

Threads == Workers \cup {Reaper}
TCB == Threads \cup Cores

\* The handlers passed to block: yield's, stop's and Semaphore::down's.
Handlers == {"schedule", "zombie", "wait"}
BlockPcs == {"remove", "mark", "activate", "switch", "handler"}
\* What a thread does: its own code; "reap" and "delete", in delete_zombies;
\* "create", in thread() past delete_zombies; "stopped", it has called stop().
\* The others are points of the semaphore operations, in module Semaphores.
Jobs == {"work", "reap", "delete", "create", "stopped",
         "malloc", "built", "free", "freed", "wake"}

TypeOK ==
  /\ alloc \subseteq Threads
  /\ readyQ \in Seq(Threads)
  /\ zombies \in Seq(Threads)
  /\ active \in [Cores -> TCB]
  /\ running \in [Cores -> TCB]
  /\ noPreempt \in [TCB -> BOOLEAN]
  /\ intr \in [Cores -> BOOLEAN]
  /\ pc \in [Cores -> BlockPcs \cup {"work"}]
  /\ me \in [Cores -> TCB \cup {None}]
  /\ next \in [Cores -> TCB \cup {None}]
  /\ handler \in [Cores -> Handlers \cup {None}]
  /\ job \in [Threads -> Jobs]
  /\ held \in [Threads -> Threads \cup {None}]

IsIdle(t) == t \in Cores

(***************************************************************************)
(* What kernelInit leaves when every core is about to call stop(): the     *)
(* idle TCBs are active, the reaper and the main thread are ready.         *)
(***************************************************************************)
Init ==
  /\ alloc = {Reaper, Main}
  /\ readyQ = <<Reaper, Main>>
  /\ zombies = << >>
  /\ active = [c \in Cores |-> c]
  /\ running = [c \in Cores |-> c]
  /\ noPreempt = [t \in TCB |-> FALSE]
  /\ intr = [c \in Cores |-> TRUE]
  /\ pc = [c \in Cores |-> "work"]
  /\ me = [c \in Cores |-> None]
  /\ next = [c \in Cores |-> None]
  /\ handler = [c \in Cores |-> None]
  /\ job = [t \in Threads |-> IF t = Reaper THEN "reap" ELSE "work"]
  /\ held = [t \in Threads |-> None]

-----------------------------------------------------------------------------
(***************************************************************************)
(* block(): from its first line to the context switch.                     *)
(***************************************************************************)

\* The protected prologue: me is what activeThreads says, and it may not be
\* preempted any more.  `on' is the interrupt flag the caller runs with.
BlockProtect(c, h, on) ==
  /\ pc' = [pc EXCEPT ![c] = "remove"]
  /\ me' = [me EXCEPT ![c] = active[c]]
  /\ next' = [next EXCEPT ![c] = None]
  /\ handler' = [handler EXCEPT ![c] = h]
  /\ noPreempt' = [noPreempt EXCEPT ![active[c]] = TRUE]
  /\ intr' = [intr EXCEPT ![c] = on]
  /\ UNCHANGED <<active, running>>

\* The call of block is over on core c: back in the code that was interrupted
\* or that called it, with interrupts on.
LeaveBlock(c) ==
  /\ pc' = [pc EXCEPT ![c] = "work"]
  /\ me' = [me EXCEPT ![c] = None]
  /\ next' = [next EXCEPT ![c] = None]
  /\ handler' = [handler EXCEPT ![c] = None]
  /\ intr' = [intr EXCEPT ![c] = TRUE]

\* readyQ.remove() finds a thread.
BlockTake(c) ==
  /\ pc[c] = "remove" /\ readyQ # << >>
  /\ next' = [next EXCEPT ![c] = Head(readyQ)]
  /\ readyQ' = Tail(readyQ)
  /\ pc' = [pc EXCEPT ![c] = "mark"]
  /\ UNCHANGED <<alloc, zombies, active, running, noPreempt, intr, me, handler,
                 job, held>>

\* readyQ.remove() finds nothing and the caller accepts to go on (yield). The
\* no_preempt flag that the prologue has set stays set.
BlockReturn(c) ==
  /\ pc[c] = "remove" /\ readyQ = << >> /\ handler[c] = "schedule"
  /\ LeaveBlock(c)
  /\ UNCHANGED <<alloc, readyQ, zombies, active, running, noPreempt, job, held>>

\* Variant with a bug: core_id is read before the thread stops being preemptible,
\* and is stale.
BlockToIdleStale(c) ==
  /\ pc[c] = "remove" /\ readyQ = << >> /\ handler[c] # "schedule"
  /\ ~IsIdle(me[c])
  /\ \E d \in Cores : next' = [next EXCEPT ![c] = d]
  /\ pc' = [pc EXCEPT ![c] = "mark"]
  /\ UNCHANGED <<alloc, readyQ, zombies, active, running, noPreempt, intr, me,
                 handler, job, held>>

\* readyQ.remove() finds nothing and the caller must block: to the idle TCB of
\* the core. (An idle TCB tries again instead: no step.)
BlockToIdle(c) ==
  /\ pc[c] = "remove" /\ readyQ = << >> /\ handler[c] # "schedule"
  /\ ~IsIdle(me[c])
  /\ next' = [next EXCEPT ![c] = c]
  /\ pc' = [pc EXCEPT ![c] = "mark"]
  /\ UNCHANGED <<alloc, readyQ, zombies, active, running, noPreempt, intr, me,
                 handler, job, held>>

\* The idle TCB spins in `goto again'.
BlockSpin(c) ==
  /\ pc[c] = "remove" /\ readyQ = << >> /\ handler[c] # "schedule"
  /\ IsIdle(me[c])
  /\ UNCHANGED vars

\* Variant with a bug: the flag of the target is not set.
BlockMarkMissing(c) ==
  /\ pc[c] = "mark"
  /\ pc' = [pc EXCEPT ![c] = "activate"]
  /\ UNCHANGED <<alloc, readyQ, zombies, active, running, noPreempt, intr, me,
                 next, handler, job, held>>

\* next_tcb->saveArea.no_preempt = 1
BlockMark(c) ==
  /\ pc[c] = "mark"
  /\ noPreempt' = [noPreempt EXCEPT ![next[c]] = TRUE]
  /\ pc' = [pc EXCEPT ![c] = "activate"]
  /\ UNCHANGED <<alloc, readyQ, zombies, active, running, intr, me, next,
                 handler, job, held>>

\* activeThreads[core_id] = next_tcb;  // Why is this safe?
BlockActivate(c) ==
  /\ pc[c] = "activate"
  /\ active' = [active EXCEPT ![c] = next[c]]
  /\ pc' = [pc EXCEPT ![c] = "switch"]
  /\ UNCHANGED <<alloc, readyQ, zombies, running, noPreempt, intr, me, next,
                 handler, job, held>>

\* gheith_contextSwitch up to the call of the handler: cli, both no_preempt
\* flags cleared, and the core is on the target stack.
ContextSwitch(c) ==
  /\ pc[c] = "switch"
  /\ intr' = [intr EXCEPT ![c] = FALSE]
  /\ noPreempt' = [noPreempt EXCEPT ![me[c]] = FALSE, ![next[c]] = FALSE]
  /\ running' = [running EXCEPT ![c] = next[c]]
  /\ pc' = [pc EXCEPT ![c] = "handler"]
  /\ UNCHANGED <<alloc, readyQ, zombies, active, me, next, handler, job, held>>

\* Variant with a bug: a thread that yields goes to the front of the queue.
HandlerScheduleFront(c) ==
  /\ pc[c] = "handler" /\ handler[c] = "schedule"
  /\ readyQ' = IF IsIdle(me[c]) THEN readyQ ELSE <<me[c]>> \o readyQ
  /\ LeaveBlock(c)
  /\ UNCHANGED <<alloc, zombies, active, running, noPreempt, job, held>>

\* The handler of yield, then popf and ret into the target context.
HandlerSchedule(c) ==
  /\ pc[c] = "handler" /\ handler[c] = "schedule"
  /\ readyQ' = IF IsIdle(me[c]) THEN readyQ ELSE Append(readyQ, me[c])
  /\ LeaveBlock(c)
  /\ UNCHANGED <<alloc, zombies, active, running, noPreempt, job, held>>

\* Variant with a bug: no test of isIdle.
HandlerZombieAny(c) ==
  /\ pc[c] = "handler" /\ handler[c] = "zombie"
  /\ zombies' = Append(zombies, me[c])
  /\ LeaveBlock(c)
  /\ UNCHANGED <<alloc, readyQ, active, running, noPreempt, job, held>>

\* The handler of stop, then popf and ret into the target context.
HandlerZombie(c) ==
  /\ pc[c] = "handler" /\ handler[c] = "zombie"
  /\ zombies' = IF IsIdle(me[c]) THEN zombies ELSE Append(zombies, me[c])
  /\ LeaveBlock(c)
  /\ UNCHANGED <<alloc, readyQ, active, running, noPreempt, job, held>>

BlockStep(c) ==
  \/ BlockTake(c) \/ BlockReturn(c) \/ BlockToIdle(c) \/ BlockSpin(c)
  \/ BlockMark(c) \/ BlockActivate(c) \/ ContextSwitch(c)
  \/ HandlerSchedule(c) \/ HandlerZombie(c)

-----------------------------------------------------------------------------
(***************************************************************************)
(* apitHandler: the timer interrupt, at any instruction where the core has *)
(* interrupts on.  A call of yield that would start inside block() takes   *)
(* the place of the interrupted call here; TimerSafe says there is none.   *)
(***************************************************************************)
Preemptible(c) == intr[c] /\ ~IsIdle(active[c]) /\ ~noPreempt[active[c]]

Tick(c) ==
  /\ Preemptible(c)
  /\ BlockProtect(c, "schedule", FALSE)
  /\ UNCHANGED <<alloc, readyQ, zombies, job, held>>

-----------------------------------------------------------------------------
(***************************************************************************)
(* The code of the threads, on whatever core runs their stack.             *)
(***************************************************************************)
Executes(c, t, j) ==
  pc[c] = "work" /\ running[c] = t /\ t \in Threads /\ job[t] = j

\* stop() called by, or looping in, the idle TCB of a core.
IdleStop(c) ==
  /\ pc[c] = "work" /\ IsIdle(running[c])
  /\ BlockProtect(c, "zombie", intr[c])
  /\ UNCHANGED <<alloc, readyQ, zombies, job, held>>

\* Variant with a bug: delete_zombies() is above the reaper's loop.
YieldOnly(c, t) ==
  /\ Executes(c, t, "work")
  /\ BlockProtect(c, "schedule", intr[c])
  /\ UNCHANGED <<alloc, readyQ, zombies, job, held>>

\* A thread calls yield(); the reaper does so at the end of its loop.
Yield(c, t) ==
  /\ Executes(c, t, "work")
  /\ BlockProtect(c, "schedule", intr[c])
  /\ job' = [job EXCEPT ![t] = IF t = Reaper THEN "reap" ELSE "work"]
  /\ UNCHANGED <<alloc, readyQ, zombies, held>>

\* Variants with a bug: the thread is a zombie before it is off its stack; it lets
\* block() return.
StopEarly(c, t) ==
  /\ Executes(c, t, "work") /\ t # Reaper
  /\ BlockProtect(c, "zombie", intr[c])
  /\ zombies' = Append(zombies, t)
  /\ job' = [job EXCEPT ![t] = "stopped"]
  /\ UNCHANGED <<alloc, readyQ, held>>

StopCanReturn(c, t) ==
  /\ Executes(c, t, "work") /\ t # Reaper
  /\ BlockProtect(c, "schedule", intr[c])
  /\ job' = [job EXCEPT ![t] = "stopped"]
  /\ UNCHANGED <<alloc, readyQ, zombies, held>>

\* A thread calls stop(), as entry() does when its work returns.
Stop(c, t) ==
  /\ Executes(c, t, "work") /\ t # Reaper
  /\ BlockProtect(c, "zombie", intr[c])
  /\ job' = [job EXCEPT ![t] = "stopped"]
  /\ UNCHANGED <<alloc, readyQ, zombies, held>>

\* Bound: Workers are enough TCBs for the live threads and the calls of thread()
\* in progress. (In the code the heap is the limit.)
TCBsLeft ==
  Cardinality(alloc \cap Workers)
    + Cardinality({t \in alloc \cap Workers : job[t] \notin {"work", "stopped"}})
  < Cardinality(Workers)

\* A thread calls thread(), which starts with delete_zombies().
CallThread(c, t) ==
  /\ Executes(c, t, "work") /\ t # Reaper /\ TCBsLeft
  /\ job' = [job EXCEPT ![t] = "reap"]
  /\ UNCHANGED <<alloc, readyQ, zombies, noPreempt, held, coreVars>>

\* delete_zombies: zombies.remove() finds one ...
ReapTake(c, t) ==
  /\ Executes(c, t, "reap") /\ zombies # << >>
  /\ held' = [held EXCEPT ![t] = Head(zombies)]
  /\ zombies' = Tail(zombies)
  /\ job' = [job EXCEPT ![t] = "delete"]
  /\ UNCHANGED <<alloc, readyQ, noPreempt, coreVars>>

\* ... which is deleted, with its stack ...
ReapDelete(c, t) ==
  /\ Executes(c, t, "delete")
  /\ alloc' = alloc \ {held[t]}
  /\ held' = [held EXCEPT ![t] = None]
  /\ job' = [job EXCEPT ![t] = "reap"]
  /\ UNCHANGED <<readyQ, zombies, noPreempt, coreVars>>

\* ... or finds none, and delete_zombies returns.
ReapDone(c, t) ==
  /\ Executes(c, t, "reap") /\ zombies = << >>
  /\ job' = [job EXCEPT ![t] = IF t = Reaper THEN "work" ELSE "create"]
  /\ UNCHANGED <<alloc, readyQ, zombies, noPreempt, held, coreVars>>

\* The rest of thread(): a new TCB, ready to run entry().
Create(c, t, child) ==
  /\ Executes(c, t, "create") /\ child \in Workers \ alloc
  /\ alloc' = alloc \cup {child}
  /\ noPreempt' = [noPreempt EXCEPT ![child] = FALSE]
  /\ readyQ' = Append(readyQ, child)
  /\ job' = [job EXCEPT ![t] = "work", ![child] = "work"]
  /\ UNCHANGED <<zombies, held, coreVars>>

ThreadStep(c, t) ==
  \/ Yield(c, t) \/ Stop(c, t) \/ CallThread(c, t)
  \/ ReapTake(c, t) \/ ReapDelete(c, t) \/ ReapDone(c, t)
  \/ \E child \in Workers : Create(c, t, child)

Next == \E c \in Cores :
  BlockStep(c) \/ Tick(c) \/ IdleStop(c) \/ \E t \in Threads : ThreadStep(c, t)

Spec == Init /\ [][Next]_vars
-----------------------------------------------------------------------------
(***************************************************************************)
(* Safety.                                                                 *)
(***************************************************************************)

\* Everything that can lead the kernel to the TCB t: a place in a queue, a core
\* that runs on its stack, a core in block() that has taken it from the ready
\* queue or has left its stack but not yet called the handler, or a local
\* variable of a thread.
Holders(t) ==
  {<<"ready", i>> : i \in {i \in DOMAIN readyQ : readyQ[i] = t}}
  \cup {<<"zombie", i>> : i \in {i \in DOMAIN zombies : zombies[i] = t}}
  \cup {<<"runs", c>> : c \in {c \in Cores : running[c] = t}}
  \cup {<<"next", c>> : c \in {c \in Cores :
          pc[c] \in {"mark", "activate", "switch"} /\ next[c] = t}}
  \cup {<<"left", c>> : c \in {c \in Cores : pc[c] = "handler" /\ me[c] = t}}
  \cup {<<"local", u>> : u \in {u \in Threads : held[u] = t}}

\* A TCB is in exactly one place while it is allocated, and nothing leads to it
\* once it is deleted: no thread runs on two cores, none is scheduled twice, and
\* the reaper frees no stack that a core still stands on (threads.h block,
\* threads.cc schedule, stop and delete_zombies, context.s).
ExclusiveOwner ==
  \A t \in Threads : Cardinality(Holders(t)) = IF t \in alloc THEN 1 ELSE 0

\* "Many students had problems with hopping idle threads" (threads.h:107): the
\* idle TCB of a core is never executed by, nor recorded for, another core.
NoHoppingIdle ==
  \A c \in Cores : running[c] \in {c} \cup Threads /\ active[c] \in {c} \cup Threads

\* The answer to "Why is this safe?" (threads.h:120): between the assignment of
\* activeThreads and the switch of stacks the two disagree, and all that time the
\* timer finds a TCB that it may not preempt. When it does preempt, the core runs
\* code of the very thread that activeThreads names, outside block().
TimerSafe ==
  \A c \in Cores : Preemptible(c) => pc[c] = "work" /\ running[c] = active[c]

\* stop() does not return to a thread: ASSERT(current()->isIdle) after the call
\* of block (threads.cc:125).
StoppedNeverResumes ==
  \A c \in Cores : pc[c] = "work" /\ running[c] \in Threads
                     => job[running[c]] # "stopped"

=============================================================================
