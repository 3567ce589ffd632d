-------------------------- MODULE SemaphoresProofs --------------------------
(***************************************************************************)
(* Proofs about Threads, for any number of cores and of TCBs; then about   *)
(* Semaphores, for any number of semaphores too. The core invariant of the *)
(* first part says where a thread is; those that are elsewhere are, in the *)
(* second part, the ones that wait for a semaphore.                        *)
(***************************************************************************)
EXTENDS Semaphores, FiniteSetTheorems, TLAPS

-----------------------------------------------------------------------------
(***************************************************************************)
(* Queues: what is in them, and that nothing is in them twice.             *)
(***************************************************************************)
In(t, q) == \E i \in 1..Len(q) : q[i] = t
NoDup(q) == \A i, j \in 1..Len(q) : q[i] = q[j] => i = j

\* The empty queue (queue.h, Queue()).
LEMMA EmptyQueue ==
  ASSUME NEW S
  PROVE  << >> \in Seq(S) /\ NoDup(<< >>) /\ \A t : ~In(t, << >>)
BY DEF In, NoDup

\* Queue::remove takes out the one occurrence of the first element.
LEMMA RemoveFirst ==
  ASSUME NEW S, NEW q \in Seq(S), q # << >>, NoDup(q)
  PROVE  /\ Head(q) \in S /\ In(Head(q), q)
         /\ Tail(q) \in Seq(S) /\ NoDup(Tail(q))
         /\ \A t : In(t, Tail(q)) <=> In(t, q) /\ t # Head(q)
<1>1. /\ Len(q) \in Nat /\ Len(q) >= 1
      /\ Head(q) = q[1] /\ Head(q) \in S
      /\ Tail(q) \in Seq(S) /\ Len(Tail(q)) = Len(q) - 1
      /\ \A i \in 1..Len(q)-1 : Tail(q)[i] = q[i+1]
  OBVIOUS
<1>2. In(Head(q), q)
  BY <1>1 DEF In
<1>3. NoDup(Tail(q))
  BY <1>1 DEF NoDup
<1>4. ASSUME NEW t, In(t, Tail(q))
      PROVE  In(t, q) /\ t # Head(q)
  BY <1>1, <1>4 DEF In, NoDup
<1>5. ASSUME NEW t, In(t, q), t # Head(q)
      PROVE  In(t, Tail(q))
  <2>1. PICK i \in 1..Len(q) : q[i] = t
    BY <1>5 DEF In
  <2>2. i - 1 \in 1..Len(q)-1 /\ Tail(q)[i-1] = t
    BY <2>1, <1>1, <1>5
  <2> QED
    BY <2>2, <1>1 DEF In
<1> QED
  BY <1>1, <1>2, <1>3, <1>4, <1>5

\* Queue::add of something new.
LEMMA AddLast ==
  ASSUME NEW S, NEW q \in Seq(S), NEW x \in S, NoDup(q), ~In(x, q)
  PROVE  /\ Append(q, x) \in Seq(S) /\ NoDup(Append(q, x))
         /\ \A t : In(t, Append(q, x)) <=> In(t, q) \/ t = x
<1>1. /\ Len(q) \in Nat /\ Len(Append(q, x)) = Len(q) + 1
      /\ \A i \in 1..Len(q) : Append(q, x)[i] = q[i]
      /\ Append(q, x)[Len(q)+1] = x
      /\ Append(q, x) \in Seq(S)
  OBVIOUS
<1>2. NoDup(Append(q, x))
  BY <1>1 DEF NoDup, In
<1>3. ASSUME NEW t
      PROVE  In(t, Append(q, x)) <=> In(t, q) \/ t = x
  BY <1>1 DEF In
<1> QED
  BY <1>1, <1>2, <1>3

\* The names of threads, idle TCBs and nullptr are apart.
LEMMA Apart ==
  /\ Threads \cap Cores = {} /\ None \notin TCB
  /\ TCB = Threads \cup Cores /\ Reaper \in Threads /\ Main \in Threads
  /\ Reaper # Main /\ Workers \subseteq Threads
BY ThreadsAssumption DEF TCB, Threads
-----------------------------------------------------------------------------
(***************************************************************************)
(* The inductive invariant. OwnInv is ExclusiveOwner in a form that a step *)
(* updates at one point: some table tells for every TCB the one place it   *)
(* is in (kind) and, for a place on a core or in a local variable, whose   *)
(* (at).  BlockInv says how far active, running, me, next and the          *)
(* no_preempt flags can be apart at each point of block().                 *)
(***************************************************************************)
Taken == {"mark", "activate", "switch"}

BlockInvOf(c) ==
  /\ running[c] \in {c} \cup Threads /\ active[c] \in {c} \cup Threads
  /\ pc[c] = "work" => running[c] = active[c]
  /\ pc[c] # "work" => /\ handler[c] \in Handlers
                       /\ me[c] \in {c} \cup Threads
  /\ pc[c] \in Taken \cup {"remove"} => me[c] = running[c]
  /\ pc[c] \in {"remove", "mark", "activate"} =>
       active[c] = me[c] /\ noPreempt[me[c]]
  /\ pc[c] \in Taken \cup {"handler"} => next[c] \in {c} \cup Threads
  /\ pc[c] \in {"activate", "switch"} => noPreempt[next[c]]
  /\ pc[c] \in {"switch", "handler"} => active[c] = next[c]
  /\ pc[c] = "handler" => running[c] = next[c] /\ ~intr[c]

BlockInv == \A c \in Cores : BlockInvOf(c)

Kinds == {"none", "ready", "zombie", "runs", "next", "left", "local", "waits"}

OwnedOf(kind, at, t) ==
  /\ t \in alloc <=> kind[t] # "none"
  /\ In(t, readyQ) <=> kind[t] = "ready"
  /\ In(t, zombies) <=> kind[t] = "zombie"
  /\ \A c \in Cores :
       /\ running[c] = t <=> kind[t] = "runs" /\ at[t] = c
       /\ pc[c] \in Taken /\ next[c] = t <=> kind[t] = "next" /\ at[t] = c
       /\ pc[c] = "handler" /\ me[c] = t <=> kind[t] = "left" /\ at[t] = c
  /\ \A u \in Threads : held[u] = t <=> kind[t] = "local" /\ at[t] = u
  /\ kind[t] \in {"runs", "next", "left"} => at[t] \in Cores
  /\ kind[t] = "local" => at[t] \in Threads

Owned(kind, at) == \A t \in Threads : OwnedOf(kind, at, t)

\* On its way out through stop(), or out.
Leaving(kind, at, t) ==
  \/ kind[t] \in {"none", "zombie"}
  \/ kind[t] = "local" /\ job[at[t]] # "wake"
  \/ kind[t] \in {"runs", "left"} /\ pc[at[t]] # "work" /\ handler[at[t]] = "zombie"
       /\ (kind[t] = "runs" => pc[at[t]] # "handler")

JobOf(kind, at, t) ==
  /\ held[t] # None <=> job[t] \in {"delete", "free", "wake"}
  /\ job[t] = "stopped" => Leaving(kind, at, t)
  /\ Leaving(kind, at, t) => job[t] \in {"stopped", "work"}

JobInv(kind, at) == \A t \in Threads : JobOf(kind, at, t)

OwnInv ==
  /\ NoDup(readyQ) /\ NoDup(zombies)
  /\ \E kind \in [Threads -> Kinds], at \in [Threads -> TCB] :
       Owned(kind, at) /\ JobInv(kind, at)

CoreInv == TypeOK /\ BlockInv /\ OwnInv
-----------------------------------------------------------------------------
\* The state that kernelInit leaves satisfies it (threads.cc threadsInit).
LEMMA InitCore == Init => CoreInv
<1> SUFFICES ASSUME Init PROVE CoreInv
  OBVIOUS
<1>1. TypeOK
  BY Apart, ThreadsAssumption
  DEF Init, TypeOK, Threads, TCB, BlockPcs, Jobs, Handlers
<1>2. BlockInv
  BY Apart DEF Init, BlockInv, BlockInvOf, Taken
<1>3. NoDup(readyQ) /\ NoDup(zombies)
      /\ \A t : (In(t, readyQ) <=> t \in {Reaper, Main}) /\ ~In(t, zombies)
  BY Apart DEF Init, NoDup, In
<1>4. OwnInv
  <2>1. PICK kind \in [Threads -> Kinds], at \in [Threads -> TCB] :
          /\ kind = [t \in Threads |-> IF t \in alloc THEN "ready" ELSE "none"]
          /\ at = [t \in Threads |-> t]
    BY Apart DEF Kinds
  <2>2. Owned(kind, at)
    BY <1>3, <2>1, Apart DEF Init, Owned, OwnedOf, Taken
  <2>3. JobInv(kind, at)
    BY <1>3, <2>1, Apart DEF Init, JobInv, JobOf, Leaving
  <2> QED
    BY <1>3, <2>2, <2>3 DEF OwnInv
<1> QED
  BY <1>1, <1>2, <1>4 DEF CoreInv

\* Every step keeps the types.
LEMMA TypeStep == CoreInv /\ [Next]_vars => TypeOK'
<1> SUFFICES ASSUME CoreInv, [Next]_vars PROVE TypeOK'
  OBVIOUS
<1> USE Apart DEF CoreInv, TypeOK, BlockPcs, Handlers, Jobs
<1>1. ASSUME NEW c \in Cores, BlockTake(c) PROVE TypeOK'
  BY <1>1, RemoveFirst DEF BlockTake, OwnInv
<1>2. ASSUME NEW c \in Cores, BlockReturn(c) PROVE TypeOK'
  BY <1>2 DEF BlockReturn, LeaveBlock
<1>3. ASSUME NEW c \in Cores, BlockToIdle(c) PROVE TypeOK'
  BY <1>3 DEF BlockToIdle
<1>4. ASSUME NEW c \in Cores, BlockSpin(c) PROVE TypeOK'
  BY <1>4 DEF BlockSpin, vars, coreVars
<1>5. ASSUME NEW c \in Cores, BlockMark(c) PROVE TypeOK'
  BY <1>5 DEF BlockMark
<1>6. ASSUME NEW c \in Cores, BlockActivate(c) PROVE TypeOK'
  BY <1>6 DEF BlockActivate, BlockInv, BlockInvOf, Taken
<1>7. ASSUME NEW c \in Cores, ContextSwitch(c) PROVE TypeOK'
  BY <1>7 DEF ContextSwitch, BlockInv, BlockInvOf, Taken
<1>8. ASSUME NEW c \in Cores, HandlerSchedule(c) PROVE TypeOK'
  <2>1. me[c] \in {c} \cup Threads
    BY <1>8 DEF HandlerSchedule, BlockInv, BlockInvOf
  <2>2. readyQ' \in Seq(Threads)
    BY <1>8, <2>1 DEF HandlerSchedule, IsIdle
  <2> QED
    BY <1>8, <2>2 DEF HandlerSchedule, LeaveBlock
<1>9. ASSUME NEW c \in Cores, HandlerZombie(c) PROVE TypeOK'
  <2>1. me[c] \in {c} \cup Threads
    BY <1>9 DEF HandlerZombie, BlockInv, BlockInvOf
  <2>2. zombies' \in Seq(Threads)
    BY <1>9, <2>1 DEF HandlerZombie, IsIdle
  <2> QED
    BY <1>9, <2>2 DEF HandlerZombie, LeaveBlock
<1>10. ASSUME NEW c \in Cores, Tick(c) PROVE TypeOK'
  BY <1>10 DEF Tick, BlockProtect
<1>11. ASSUME NEW c \in Cores, IdleStop(c) PROVE TypeOK'
  BY <1>11 DEF IdleStop, BlockProtect
<1>12. ASSUME NEW c \in Cores, NEW t \in Threads, Yield(c, t) PROVE TypeOK'
  BY <1>12 DEF Yield, BlockProtect
<1>13. ASSUME NEW c \in Cores, NEW t \in Threads, Stop(c, t) PROVE TypeOK'
  BY <1>13 DEF Stop, BlockProtect
<1>14. ASSUME NEW c \in Cores, NEW t \in Threads, CallThread(c, t) PROVE TypeOK'
  BY <1>14 DEF CallThread, coreVars
<1>15. ASSUME NEW c \in Cores, NEW t \in Threads, ReapTake(c, t) PROVE TypeOK'
  BY <1>15, RemoveFirst DEF ReapTake, coreVars, OwnInv
<1>16. ASSUME NEW c \in Cores, NEW t \in Threads, ReapDelete(c, t) PROVE TypeOK'
  BY <1>16 DEF ReapDelete, coreVars
<1>17. ASSUME NEW c \in Cores, NEW t \in Threads, ReapDone(c, t) PROVE TypeOK'
  BY <1>17 DEF ReapDone, coreVars
<1>18. ASSUME NEW c \in Cores, NEW t \in Threads, NEW child \in Workers,
              Create(c, t, child)
       PROVE  TypeOK'
  <2>1. child \in Threads /\ child \in TCB
    OBVIOUS
  <2>2. noPreempt' \in [TCB -> BOOLEAN] /\ job' \in [Threads -> Jobs]
    BY <1>18, <2>1 DEF Create
  <2>3. alloc' \subseteq Threads /\ readyQ' \in Seq(Threads)
    BY <1>18, <2>1 DEF Create
  <2> QED
    BY <1>18, <2>2, <2>3 DEF Create, coreVars
<1>19. CASE UNCHANGED vars
  BY <1>19 DEF vars, coreVars
<1> QED
  BY <1>1, <1>2, <1>3, <1>4, <1>5, <1>6, <1>7, <1>8, <1>9, <1>10, <1>11, <1>12,
     <1>13, <1>14, <1>15, <1>16, <1>17, <1>18, <1>19
  DEF Next, BlockStep, ThreadStep
-----------------------------------------------------------------------------
\* The TCBs a core stands on, is about to switch to or has just left.
Uses(c, t) ==
  \/ running[c] = t
  \/ pc[c] \in Taken /\ next[c] = t
  \/ pc[c] = "handler" /\ me[c] = t

\* No TCB is used by two cores, and those that are used are allocated.
LEMMA CoresApart ==
  ASSUME CoreInv, NEW c \in Cores, NEW t \in TCB, Uses(c, t)
  PROVE  /\ \A d \in Cores : Uses(d, t) => d = c
         /\ t \in Threads => t \in alloc
<1>1. CASE t \in Cores
  BY <1>1, Apart DEF CoreInv, BlockInv, BlockInvOf, Uses, Taken
<1>2. CASE t \in Threads
  <2>1. PICK kind \in [Threads -> Kinds], at \in [Threads -> TCB] : Owned(kind, at)
    BY DEF CoreInv, OwnInv
  <2>2. \A d \in Cores : Uses(d, t) => at[t] = d /\ kind[t] # "none"
    BY <1>2, <2>1 DEF Owned, OwnedOf, Uses
  <2> QED
    BY <1>2, <2>1, <2>2 DEF Owned, OwnedOf
<1> QED
  BY <1>1, <1>2, Apart

\* The step did nothing on core d.
Same(d) ==
  /\ running'[d] = running[d] /\ active'[d] = active[d] /\ pc'[d] = pc[d]
  /\ me'[d] = me[d] /\ next'[d] = next[d] /\ handler'[d] = handler[d]
  /\ intr'[d] = intr[d]

\* A core that did nothing keeps its part of BlockInv, as long as the flags of the
\* TCBs it uses are not cleared.
LEMMA OtherCores ==
  ASSUME CoreInv, NEW d \in Cores, Same(d),
         \A t \in TCB : Uses(d, t) /\ noPreempt[t] => noPreempt'[t]
  PROVE  BlockInvOf(d)'
<1>1. BlockInvOf(d)
  BY DEF CoreInv, BlockInv
<1>2. /\ pc[d] \in {"remove", "mark", "activate"} => Uses(d, me[d]) /\ me[d] \in TCB
      /\ pc[d] \in {"activate", "switch"} => Uses(d, next[d]) /\ next[d] \in TCB
  BY <1>1, Apart DEF BlockInvOf, Uses, Taken
<1> QED
  BY <1>1, <1>2 DEF BlockInvOf, Same, Taken

\* The timer never starts a yield() inside block().
LEMMA TickInWork ==
  ASSUME CoreInv, NEW c \in Cores, Preemptible(c)
  PROVE  pc[c] = "work" /\ active[c] \in Threads /\ running[c] = active[c]
<1>0. TypeOK /\ BlockInvOf(c)
  BY DEF CoreInv, BlockInv
<1>1. intr[c] /\ active[c] \in Threads /\ ~noPreempt[active[c]]
  BY <1>0, Apart DEF Preemptible, IsIdle, BlockInvOf
<1>2. pc[c] \in BlockPcs \cup {"work"} /\ pc[c] \notin BlockPcs
  BY <1>0, <1>1 DEF TypeOK, BlockInvOf, BlockPcs, Taken
<1> QED
  BY <1>0, <1>1, <1>2 DEF BlockInvOf

\* Every step keeps BlockInv: directly on the core that takes it, and on the others
\* because the flags it clears are of TCBs that they do not use.
LEMMA BlockStepInv == CoreInv /\ [Next]_vars => BlockInv'
<1> SUFFICES ASSUME CoreInv, [Next]_vars PROVE BlockInv'
  OBVIOUS
<1>0. TypeOK /\ \A c \in Cores : BlockInvOf(c)
  BY DEF CoreInv, BlockInv
<1> USE Apart DEF BlockInv, TypeOK
<1>1. ASSUME NEW c \in Cores, BlockTake(c) PROVE BlockInv'
  <2>1. BlockInvOf(c)'
    BY <1>0, <1>1 DEF BlockTake, BlockInvOf, Taken
  <2>2. ASSUME NEW d \in Cores \ {c} PROVE BlockInvOf(d)'
    <3>1. Same(d) /\ \A t \in TCB : noPreempt[t] => noPreempt'[t]
      BY <1>1 DEF BlockTake, Same
    <3> QED
      BY <3>1, OtherCores
  <2> QED
    BY <2>1, <2>2
<1>2. ASSUME NEW c \in Cores, BlockReturn(c) PROVE BlockInv'
  <2>1. BlockInvOf(c)'
    BY <1>0, <1>2 DEF BlockReturn, LeaveBlock, BlockInvOf, Taken
  <2>2. ASSUME NEW d \in Cores \ {c} PROVE BlockInvOf(d)'
    <3>1. Same(d) /\ \A t \in TCB : noPreempt[t] => noPreempt'[t]
      BY <1>2 DEF BlockReturn, LeaveBlock, Same
    <3> QED
      BY <3>1, OtherCores
  <2> QED
    BY <2>1, <2>2
<1>3. ASSUME NEW c \in Cores, BlockToIdle(c) PROVE BlockInv'
  <2>1. BlockInvOf(c)'
    BY <1>0, <1>3 DEF BlockToIdle, BlockInvOf, Taken
  <2>2. ASSUME NEW d \in Cores \ {c} PROVE BlockInvOf(d)'
    <3>1. Same(d) /\ \A t \in TCB : noPreempt[t] => noPreempt'[t]
      BY <1>3 DEF BlockToIdle, Same
    <3> QED
      BY <3>1, OtherCores
  <2> QED
    BY <2>1, <2>2
<1>4. ASSUME NEW c \in Cores, BlockMark(c) PROVE BlockInv'
  <2>1. BlockInvOf(c)'
    BY <1>0, <1>4 DEF BlockMark, BlockInvOf, Taken
  <2>2. ASSUME NEW d \in Cores \ {c} PROVE BlockInvOf(d)'
    <3>1. Same(d) /\ \A t \in TCB : noPreempt[t] => noPreempt'[t]
      BY <1>4 DEF BlockMark, Same
    <3> QED
      BY <3>1, OtherCores
  <2> QED
    BY <2>1, <2>2
<1>5. ASSUME NEW c \in Cores, BlockActivate(c) PROVE BlockInv'
  <2>1. BlockInvOf(c)'
    BY <1>0, <1>5 DEF BlockActivate, BlockInvOf, Taken
  <2>2. ASSUME NEW d \in Cores \ {c} PROVE BlockInvOf(d)'
    <3>1. Same(d) /\ \A t \in TCB : noPreempt[t] => noPreempt'[t]
      BY <1>5 DEF BlockActivate, Same
    <3> QED
      BY <3>1, OtherCores
  <2> QED
    BY <2>1, <2>2
<1>6. ASSUME NEW c \in Cores, ContextSwitch(c) PROVE BlockInv'
  <2>1. BlockInvOf(c)'
    BY <1>0, <1>6 DEF ContextSwitch, BlockInvOf, Taken
  <2>2. ASSUME NEW d \in Cores \ {c} PROVE BlockInvOf(d)'
    <3>1. Uses(c, me[c]) /\ Uses(c, next[c]) /\ me[c] \in TCB /\ next[c] \in TCB
      BY <1>0, <1>6 DEF ContextSwitch, BlockInvOf, Taken, Uses
    <3>2. ~Uses(d, me[c]) /\ ~Uses(d, next[c])
      BY <3>1, CoresApart
    <3>3. Same(d)
      BY <1>6 DEF ContextSwitch, Same
    <3>4. ASSUME NEW t \in TCB, Uses(d, t), noPreempt[t] PROVE noPreempt'[t]
      <4>1. t # me[c] /\ t # next[c]
        BY <3>2, <3>4
      <4>2. noPreempt'[t] = noPreempt[t]
        BY <4>1, <1>0, <1>6 DEF ContextSwitch
      <4> QED
        BY <4>2, <3>4
    <3> QED
      BY <3>3, <3>4, OtherCores
  <2> QED
    BY <2>1, <2>2
<1>7. ASSUME NEW c \in Cores, HandlerSchedule(c) PROVE BlockInv'
  <2>1. BlockInvOf(c)'
    BY <1>0, <1>7 DEF HandlerSchedule, LeaveBlock, BlockInvOf, Taken
  <2>2. ASSUME NEW d \in Cores \ {c} PROVE BlockInvOf(d)'
    <3>1. Same(d) /\ \A t \in TCB : noPreempt[t] => noPreempt'[t]
      BY <1>7 DEF HandlerSchedule, LeaveBlock, Same
    <3> QED
      BY <3>1, OtherCores
  <2> QED
    BY <2>1, <2>2
<1>8. ASSUME NEW c \in Cores, HandlerZombie(c) PROVE BlockInv'
  <2>1. BlockInvOf(c)'
    BY <1>0, <1>8 DEF HandlerZombie, LeaveBlock, BlockInvOf, Taken
  <2>2. ASSUME NEW d \in Cores \ {c} PROVE BlockInvOf(d)'
    <3>1. Same(d) /\ \A t \in TCB : noPreempt[t] => noPreempt'[t]
      BY <1>8 DEF HandlerZombie, LeaveBlock, Same
    <3> QED
      BY <3>1, OtherCores
  <2> QED
    BY <2>1, <2>2
<1>9. ASSUME NEW c \in Cores, Tick(c) PROVE BlockInv'
  <2>0. pc[c] = "work" /\ active[c] \in Threads /\ running[c] = active[c]
    BY <1>9, TickInWork DEF Tick
  <2>1. BlockInvOf(c)'
    BY <1>0, <2>0, <1>9 DEF Tick, BlockProtect, BlockInvOf, Taken, Handlers
  <2>2. ASSUME NEW d \in Cores \ {c} PROVE BlockInvOf(d)'
    <3>1. Same(d) /\ \A t \in TCB : noPreempt[t] => noPreempt'[t]
      BY <1>9 DEF Tick, BlockProtect, Same
    <3> QED
      BY <3>1, OtherCores
  <2> QED
    BY <2>1, <2>2
<1>10. ASSUME NEW c \in Cores, IdleStop(c) PROVE BlockInv'
  <2>1. BlockInvOf(c)'
    BY <1>0, <1>10 DEF IdleStop, BlockProtect, BlockInvOf, Taken, Handlers
  <2>2. ASSUME NEW d \in Cores \ {c} PROVE BlockInvOf(d)'
    <3>1. Same(d) /\ \A t \in TCB : noPreempt[t] => noPreempt'[t]
      BY <1>10 DEF IdleStop, BlockProtect, Same
    <3> QED
      BY <3>1, OtherCores
  <2> QED
    BY <2>1, <2>2
<1>11. ASSUME NEW c \in Cores, NEW t \in Threads, Yield(c, t) PROVE BlockInv'
  <2>1. BlockInvOf(c)'
    BY <1>0, <1>11 DEF Yield, BlockProtect, Executes, BlockInvOf, Taken, Handlers
  <2>2. ASSUME NEW d \in Cores \ {c} PROVE BlockInvOf(d)'
    <3>1. Same(d) /\ \A u \in TCB : noPreempt[u] => noPreempt'[u]
      BY <1>11 DEF Yield, BlockProtect, Executes, Same
    <3> QED
      BY <3>1, OtherCores
  <2> QED
    BY <2>1, <2>2
<1>12. ASSUME NEW c \in Cores, NEW t \in Threads, Stop(c, t) PROVE BlockInv'
  <2>1. BlockInvOf(c)'
    BY <1>0, <1>12 DEF Stop, BlockProtect, Executes, BlockInvOf, Taken, Handlers
  <2>2. ASSUME NEW d \in Cores \ {c} PROVE BlockInvOf(d)'
    <3>1. Same(d) /\ \A u \in TCB : noPreempt[u] => noPreempt'[u]
      BY <1>12 DEF Stop, BlockProtect, Executes, Same
    <3> QED
      BY <3>1, OtherCores
  <2> QED
    BY <2>1, <2>2
<1>13. ASSUME NEW c \in Cores, NEW t \in Threads, NEW child \in Workers,
              Create(c, t, child)
       PROVE  BlockInv'
  <2>1. ASSUME NEW d \in Cores PROVE BlockInvOf(d)'
    <3>1. child \in Threads /\ child \in TCB /\ ~Uses(d, child)
      BY <1>13, CoresApart DEF Create
    <3>2. Same(d) /\ \A u \in TCB : Uses(d, u) /\ noPreempt[u] => noPreempt'[u]
      BY <3>1, <1>13 DEF Create, Same, coreVars
    <3> QED
      BY <3>2, OtherCores
  <2> QED
    BY <2>1
<1>14. CASE UNCHANGED <<noPreempt, coreVars>>
  BY <1>14, <1>0, OtherCores DEF coreVars, Same
<1>15. ASSUME NEW c \in Cores, NEW t \in Threads,
              BlockSpin(c) \/ CallThread(c, t) \/ ReapTake(c, t) \/ ReapDelete(c, t)
                \/ ReapDone(c, t) \/ UNCHANGED vars
       PROVE  BlockInv'
  BY <1>15, <1>14
  DEF BlockSpin, CallThread, ReapTake, ReapDelete, ReapDone, vars
<1> QED
  BY <1>1, <1>2, <1>3, <1>4, <1>5, <1>6, <1>7, <1>8, <1>9, <1>10, <1>11, <1>12, <1>13, <1>14, <1>15
  DEF Next, BlockStep, ThreadStep
-----------------------------------------------------------------------------
\* A thread that is allocated, but in none of the places of this module: it waits
\* for a semaphore, which module Semaphores adds.
Elsewhere(t) ==
  /\ t \in alloc /\ ~In(t, readyQ) /\ ~In(t, zombies)
  /\ \A c \in Cores : ~Uses(c, t)
  /\ \A u \in Threads : held[u] # t

SameElsewhere == \A t \in Threads : Elsewhere(t)' <=> Elsewhere(t)

\* The table calls them "waits".
LEMMA ElsewhereWaits ==
  ASSUME NEW kind \in [Threads -> Kinds], NEW at \in [Threads -> TCB],
         NEW t \in Threads, OwnedOf(kind, at, t)
  PROVE  Elsewhere(t) <=> kind[t] = "waits"
<1>1. ASSUME kind[t] = "waits" PROVE Elsewhere(t)
  BY <1>1 DEF Elsewhere, OwnedOf, Uses
<1>2. ASSUME Elsewhere(t), kind[t] # "waits" PROVE FALSE
  <2>1. kind[t] \in {"runs", "next", "left", "local"}
    BY <1>2 DEF Elsewhere, OwnedOf, Kinds
  <2>2. /\ kind[t] = "local" => held[at[t]] = t /\ at[t] \in Threads
        /\ kind[t] # "local" => Uses(at[t], t) /\ at[t] \in Cores
    BY <2>1 DEF OwnedOf, Uses
  <2> QED
    BY <1>2, <2>2 DEF Elsewhere
<1> QED
  BY <1>1, <1>2

\* What a step has to show: the queues have no duplicates, and some table fits.
LEMMA SomeTable ==
  ASSUME NEW kind \in [Threads -> Kinds], NEW at \in [Threads -> TCB],
         NoDup(readyQ)', NoDup(zombies)',
         \A t \in Threads : OwnedOf(kind, at, t)' /\ JobOf(kind, at, t)'
  PROVE  OwnInv' /\ \A t \in Threads : Elsewhere(t)' <=> kind[t] = "waits"
<1>1. OwnInv'
  BY DEF OwnInv, Owned, JobInv
<1>2. ASSUME NEW t \in Threads PROVE Elsewhere(t)' <=> kind[t] = "waits"
  <2>1. ASSUME kind[t] = "waits" PROVE Elsewhere(t)'
    BY <2>1 DEF Elsewhere, OwnedOf, Uses
  <2>2. ASSUME Elsewhere(t)', kind[t] # "waits" PROVE FALSE
    <3>1. kind[t] \in {"runs", "next", "left", "local"}
      BY <2>2 DEF Elsewhere, OwnedOf, Kinds
    <3>2. /\ kind[t] = "local" => held'[at[t]] = t /\ at[t] \in Threads
          /\ kind[t] # "local" => Uses(at[t], t)' /\ at[t] \in Cores
      BY <3>1 DEF OwnedOf, Uses
    <3> QED
      BY <2>2, <3>2 DEF Elsewhere
  <2> QED
    BY <2>1, <2>2
<1> QED
  BY <1>1, <1>2

\* The same for a step in which nobody begins or ends to wait.
LEMMA NewTable ==
  ASSUME NEW kind \in [Threads -> Kinds], NEW at \in [Threads -> TCB],
         NEW kind2 \in [Threads -> Kinds], NEW at2 \in [Threads -> TCB],
         \A t \in Threads : OwnedOf(kind, at, t),
         NoDup(readyQ)', NoDup(zombies)',
         \A t \in Threads : OwnedOf(kind2, at2, t)' /\ JobOf(kind2, at2, t)',
         \A t \in Threads : kind2[t] = "waits" <=> kind[t] = "waits"
  PROVE  OwnInv' /\ SameElsewhere
BY SomeTable, ElsewhereWaits DEF SameElsewhere

\* Every step keeps OwnInv, and who is elsewhere.
LEMMA OwnStep == CoreInv /\ [Next]_vars => OwnInv' /\ SameElsewhere
<1> SUFFICES ASSUME CoreInv, [Next]_vars PROVE OwnInv' /\ SameElsewhere
  OBVIOUS
<1>0. /\ TypeOK /\ \A c \in Cores : BlockInvOf(c)
      /\ NoDup(readyQ) /\ NoDup(zombies)
  BY DEF CoreInv, BlockInv, OwnInv
<1>00. PICK kind \in [Threads -> Kinds], at \in [Threads -> TCB] :
        \A t \in Threads : OwnedOf(kind, at, t) /\ JobOf(kind, at, t)
  BY DEF CoreInv, OwnInv, Owned, JobInv
<1>01. \A t \in Threads : OwnedOf(kind, at, t)
  BY <1>00
<1> USE Apart DEF TypeOK
<1>1. ASSUME NEW c \in Cores, BlockTake(c) PROVE OwnInv' /\ SameElsewhere
  <2>1. PICK x \in Threads :
          /\ x = Head(readyQ) /\ In(x, readyQ) /\ NoDup(readyQ)'
          /\ \A t : In(t, readyQ)' <=> In(t, readyQ) /\ t # x
    BY <1>0, <1>00, <1>1, RemoveFirst DEF BlockTake
  <2>2. PICK kind2 \in [Threads -> Kinds], at2 \in [Threads -> TCB] :
          kind2 = [kind EXCEPT ![x] = "next"] /\ at2 = [at EXCEPT ![x] = c]
    BY DEF Kinds
  <2>3. ASSUME NEW t \in Threads PROVE OwnedOf(kind2, at2, t)'
    BY <1>0, <1>00, <1>1, <2>1, <2>2 DEF BlockTake, OwnedOf, Taken
  <2>4. ASSUME NEW t \in Threads PROVE JobOf(kind2, at2, t)'
    BY <1>0, <1>00, <1>1, <2>1, <2>2 DEF BlockTake, OwnedOf, JobOf, Leaving, Taken
  <2>5. \A t0 \in Threads : kind2[t0] = "waits" <=> kind[t0] = "waits"
    BY <1>00, <2>1, <2>2 DEF OwnedOf
  <2>9. NoDup(readyQ)' /\ NoDup(zombies)'
    BY <1>0, <1>1, <2>1 DEF BlockTake
  <2> QED
    BY <1>01, <2>3, <2>4, <2>5, <2>9, NewTable
<1>2. ASSUME NEW c \in Cores, BlockReturn(c) PROVE OwnInv' /\ SameElsewhere
  <2>1. ASSUME NEW t0 \in Threads PROVE OwnedOf(kind, at, t0)'
    BY <1>0, <1>00, <1>2 DEF BlockReturn, LeaveBlock, OwnedOf, BlockInvOf, Taken
  <2>2. ASSUME NEW t0 \in Threads PROVE JobOf(kind, at, t0)'
    BY <1>0, <1>00, <1>2 DEF BlockReturn, LeaveBlock, OwnedOf, JobOf, Leaving, BlockInvOf, Taken
  <2> QED
    BY <1>0, <1>00, <1>2, <2>1, <2>2, NewTable DEF BlockReturn, LeaveBlock
<1>3. ASSUME NEW c \in Cores, BlockToIdle(c) PROVE OwnInv' /\ SameElsewhere
  <2>1. ASSUME NEW t0 \in Threads PROVE OwnedOf(kind, at, t0)'
    BY <1>0, <1>00, <1>3 DEF BlockToIdle, OwnedOf, BlockInvOf, Taken
  <2>2. ASSUME NEW t0 \in Threads PROVE JobOf(kind, at, t0)'
    BY <1>0, <1>00, <1>3 DEF BlockToIdle, OwnedOf, JobOf, Leaving, BlockInvOf, Taken
  <2> QED
    BY <1>0, <1>00, <1>3, <2>1, <2>2, NewTable DEF BlockToIdle
<1>4. ASSUME NEW c \in Cores, BlockMark(c) PROVE OwnInv' /\ SameElsewhere
  <2>1. ASSUME NEW t0 \in Threads PROVE OwnedOf(kind, at, t0)'
    BY <1>0, <1>00, <1>4 DEF BlockMark, OwnedOf, BlockInvOf, Taken
  <2>2. ASSUME NEW t0 \in Threads PROVE JobOf(kind, at, t0)'
    BY <1>0, <1>00, <1>4 DEF BlockMark, OwnedOf, JobOf, Leaving, BlockInvOf, Taken
  <2> QED
    BY <1>0, <1>00, <1>4, <2>1, <2>2, NewTable DEF BlockMark
<1>5. ASSUME NEW c \in Cores, BlockActivate(c) PROVE OwnInv' /\ SameElsewhere
  <2>1. ASSUME NEW t0 \in Threads PROVE OwnedOf(kind, at, t0)'
    BY <1>0, <1>00, <1>5 DEF BlockActivate, OwnedOf, BlockInvOf, Taken
  <2>2. ASSUME NEW t0 \in Threads PROVE JobOf(kind, at, t0)'
    BY <1>0, <1>00, <1>5 DEF BlockActivate, OwnedOf, JobOf, Leaving, BlockInvOf, Taken
  <2> QED
    BY <1>0, <1>00, <1>5, <2>1, <2>2, NewTable DEF BlockActivate
<1>6. ASSUME NEW c \in Cores, Tick(c) PROVE OwnInv' /\ SameElsewhere
  <2>0. pc[c] = "work" /\ active[c] \in Threads /\ running[c] = active[c]
    BY <1>6, TickInWork DEF Tick
  <2>1. ASSUME NEW t0 \in Threads PROVE OwnedOf(kind, at, t0)'
    BY <1>0, <1>00, <1>6, <2>0 DEF Tick, BlockProtect, OwnedOf, Taken
  <2>2. ASSUME NEW t0 \in Threads PROVE JobOf(kind, at, t0)'
    BY <1>0, <1>00, <1>6, <2>0
    DEF Tick, BlockProtect, OwnedOf, JobOf, Leaving, Taken
  <2> QED
    BY <1>0, <1>00, <1>6, <2>1, <2>2, NewTable DEF Tick
<1>7. ASSUME NEW c \in Cores, IdleStop(c) PROVE OwnInv' /\ SameElsewhere
  <2>1. ASSUME NEW t0 \in Threads PROVE OwnedOf(kind, at, t0)'
    BY <1>0, <1>00, <1>7 DEF IdleStop, BlockProtect, IsIdle, OwnedOf, BlockInvOf, Taken
  <2>2. ASSUME NEW t0 \in Threads PROVE JobOf(kind, at, t0)'
    BY <1>0, <1>00, <1>7 DEF IdleStop, BlockProtect, IsIdle, OwnedOf, JobOf, Leaving, BlockInvOf, Taken
  <2> QED
    BY <1>0, <1>00, <1>7, <2>1, <2>2, NewTable DEF IdleStop, BlockProtect, IsIdle
<1>8. ASSUME NEW c \in Cores, NEW t \in Threads, Yield(c, t) PROVE OwnInv' /\ SameElsewhere
  <2>1. ASSUME NEW t0 \in Threads PROVE OwnedOf(kind, at, t0)'
    BY <1>0, <1>00, <1>8 DEF Yield, BlockProtect, Executes, OwnedOf, BlockInvOf, Taken
  <2>2. ASSUME NEW t0 \in Threads PROVE JobOf(kind, at, t0)'
    BY <1>0, <1>00, <1>8 DEF Yield, BlockProtect, Executes, OwnedOf, JobOf, Leaving, BlockInvOf, Taken
  <2> QED
    BY <1>0, <1>00, <1>8, <2>1, <2>2, NewTable DEF Yield, BlockProtect, Executes
<1>9. ASSUME NEW c \in Cores, NEW t \in Threads, Stop(c, t) PROVE OwnInv' /\ SameElsewhere
  <2>1. ASSUME NEW t0 \in Threads PROVE OwnedOf(kind, at, t0)'
    BY <1>0, <1>00, <1>9 DEF Stop, BlockProtect, Executes, OwnedOf, BlockInvOf, Taken
  <2>2. ASSUME NEW t0 \in Threads PROVE JobOf(kind, at, t0)'
    BY <1>0, <1>00, <1>9 DEF Stop, BlockProtect, Executes, OwnedOf, JobOf, Leaving, BlockInvOf, Taken
  <2> QED
    BY <1>0, <1>00, <1>9, <2>1, <2>2, NewTable DEF Stop, BlockProtect, Executes
<1>10. ASSUME NEW c \in Cores, NEW t \in Threads, CallThread(c, t) PROVE OwnInv' /\ SameElsewhere
  <2>1. ASSUME NEW t0 \in Threads PROVE OwnedOf(kind, at, t0)'
    BY <1>0, <1>00, <1>10 DEF CallThread, Executes, coreVars, OwnedOf, BlockInvOf, Taken
  <2>2. ASSUME NEW t0 \in Threads PROVE JobOf(kind, at, t0)'
    BY <1>0, <1>00, <1>10 DEF CallThread, Executes, coreVars, OwnedOf, JobOf, Leaving, BlockInvOf, Taken
  <2> QED
    BY <1>0, <1>00, <1>10, <2>1, <2>2, NewTable DEF CallThread, Executes, coreVars
<1>11. ASSUME NEW c \in Cores, NEW t \in Threads, ReapDone(c, t) PROVE OwnInv' /\ SameElsewhere
  <2>1. ASSUME NEW t0 \in Threads PROVE OwnedOf(kind, at, t0)'
    BY <1>0, <1>00, <1>11 DEF ReapDone, Executes, coreVars, OwnedOf, BlockInvOf, Taken
  <2>2. ASSUME NEW t0 \in Threads PROVE JobOf(kind, at, t0)'
    BY <1>0, <1>00, <1>11 DEF ReapDone, Executes, coreVars, OwnedOf, JobOf, Leaving, BlockInvOf, Taken
  <2> QED
    BY <1>0, <1>00, <1>11, <2>1, <2>2, NewTable DEF ReapDone, Executes, coreVars
<1>12. ASSUME NEW c \in Cores, BlockSpin(c) PROVE OwnInv' /\ SameElsewhere
  <2>1. ASSUME NEW t0 \in Threads PROVE OwnedOf(kind, at, t0)'
    BY <1>0, <1>00, <1>12 DEF BlockSpin, vars, coreVars, OwnedOf, BlockInvOf, Taken
  <2>2. ASSUME NEW t0 \in Threads PROVE JobOf(kind, at, t0)'
    BY <1>0, <1>00, <1>12 DEF BlockSpin, vars, coreVars, OwnedOf, JobOf, Leaving, BlockInvOf, Taken
  <2> QED
    BY <1>0, <1>00, <1>12, <2>1, <2>2, NewTable DEF BlockSpin, vars, coreVars
<1>13. ASSUME NEW c \in Cores, ContextSwitch(c) PROVE OwnInv' /\ SameElsewhere
  <2>1. PICK kind2 \in [Threads -> Kinds], at2 \in [Threads -> TCB] :
          /\ kind2 = [t \in Threads |-> IF t = me[c] THEN "left"
                                        ELSE IF t = next[c] THEN "runs" ELSE kind[t]]
          /\ at2 = [t \in Threads |-> IF t \in {me[c], next[c]} THEN c ELSE at[t]]
    BY DEF Kinds
  <2>2. me[c] = running[c] /\ me[c] \in {c} \cup Threads
        /\ next[c] \in {c} \cup Threads /\ (me[c] \in Threads => me[c] # next[c])
    BY <1>0, <1>00, <1>13 DEF ContextSwitch, OwnedOf, BlockInvOf, Taken
  <2>3. ASSUME NEW t0 \in Threads PROVE OwnedOf(kind2, at2, t0)'
    BY <1>0, <1>00, <1>13, <2>1, <2>2 DEF ContextSwitch, OwnedOf, BlockInvOf, Taken
  <2>4. ASSUME NEW t0 \in Threads PROVE JobOf(kind2, at2, t0)'
    BY <1>0, <1>00, <1>13, <2>1, <2>2
    DEF ContextSwitch, OwnedOf, JobOf, Leaving, BlockInvOf, Taken
  <2>5. \A t0 \in Threads : kind2[t0] = "waits" <=> kind[t0] = "waits"
    BY <1>00, <1>13, <2>1, <2>2 DEF ContextSwitch, OwnedOf, Taken
  <2> QED
    BY <1>0, <1>00, <1>13, <2>3, <2>4, <2>5, NewTable, SMTT(30) DEF ContextSwitch
<1>14. ASSUME NEW c \in Cores, HandlerSchedule(c) PROVE OwnInv' /\ SameElsewhere
  <2>1. CASE me[c] = c
    <3>1. readyQ' = readyQ
      BY <1>14, <2>1 DEF HandlerSchedule, IsIdle
    <3>2. ASSUME NEW t0 \in Threads PROVE OwnedOf(kind, at, t0)'
      BY <1>0, <1>00, <1>14, <2>1, <3>1 DEF HandlerSchedule, LeaveBlock, OwnedOf, Taken
    <3>3. ASSUME NEW t0 \in Threads PROVE JobOf(kind, at, t0)'
      BY <1>0, <1>00, <1>14, <2>1, <3>1
      DEF HandlerSchedule, LeaveBlock, OwnedOf, JobOf, Leaving, Taken
    <3> QED
      BY <1>0, <1>00, <1>14, <3>1, <3>2, <3>3, NewTable DEF HandlerSchedule
  <2>2. CASE me[c] \in Threads
    <3>1. PICK x \in Threads : x = me[c] /\ kind[x] = "left" /\ at[x] = c
      BY <1>00, <1>14, <2>2 DEF HandlerSchedule, OwnedOf
    <3>2. /\ NoDup(readyQ)'
          /\ \A t : In(t, readyQ)' <=> In(t, readyQ) \/ t = x
      BY <1>0, <1>00, <1>14, <3>1, AddLast DEF HandlerSchedule, IsIdle, OwnedOf
    <3>3. PICK kind2 \in [Threads -> Kinds] : kind2 = [kind EXCEPT ![x] = "ready"]
      BY DEF Kinds
    <3>4. ASSUME NEW t0 \in Threads PROVE OwnedOf(kind2, at, t0)'
      BY <1>0, <1>00, <1>14, <3>1, <3>2, <3>3
      DEF HandlerSchedule, LeaveBlock, OwnedOf, Taken
    <3>5. ASSUME NEW t0 \in Threads PROVE JobOf(kind2, at, t0)'
      BY <1>0, <1>00, <1>14, <3>1, <3>2, <3>3
      DEF HandlerSchedule, LeaveBlock, OwnedOf, JobOf, Leaving, Taken
    <3>6. \A t0 \in Threads : kind2[t0] = "waits" <=> kind[t0] = "waits"
      BY <3>1, <3>3
    <3>9. NoDup(readyQ)' /\ NoDup(zombies)'
      BY <1>0, <1>14, <3>2 DEF HandlerSchedule
    <3> QED
      BY <1>01, <3>4, <3>5, <3>6, <3>9, NewTable
  <2> QED
    BY <2>1, <2>2, <1>0, <1>14 DEF HandlerSchedule, BlockInvOf
<1>15. ASSUME NEW c \in Cores, HandlerZombie(c) PROVE OwnInv' /\ SameElsewhere
  <2>1. CASE me[c] = c
    <3>1. zombies' = zombies
      BY <1>15, <2>1 DEF HandlerZombie, IsIdle
    <3>2. ASSUME NEW t0 \in Threads PROVE OwnedOf(kind, at, t0)'
      BY <1>0, <1>00, <1>15, <2>1, <3>1 DEF HandlerZombie, LeaveBlock, OwnedOf, Taken
    <3>3. ASSUME NEW t0 \in Threads PROVE JobOf(kind, at, t0)'
      <4>1. at[t0] = c => kind[t0] # "left" /\ pc[c] = "handler"
        BY <1>00, <1>15, <2>1 DEF HandlerZombie, OwnedOf
      <4>2. Leaving(kind, at, t0)' <=> Leaving(kind, at, t0)
        <5>1. CASE at[t0] = c
          BY <1>0, <1>00, <1>15, <4>1, <5>1 DEF HandlerZombie, LeaveBlock, Leaving
        <5>2. CASE at[t0] \in Cores \ {c}
          <6>1. pc'[at[t0]] = pc[at[t0]] /\ handler'[at[t0]] = handler[at[t0]]
            BY <1>0, <1>00, <1>15, <5>2 DEF HandlerZombie, LeaveBlock
          <6> QED
            BY <1>15, <6>1 DEF HandlerZombie, Leaving
        <5>3. CASE at[t0] \notin Cores
          BY <1>00, <1>15, <5>3 DEF HandlerZombie, OwnedOf, Leaving
        <5> QED
          BY <5>1, <5>2, <5>3
      <4> QED
        BY <1>00, <1>15, <4>2 DEF HandlerZombie, JobOf, Leaving
    <3>4. NoDup(readyQ)' /\ NoDup(zombies)'
      BY <1>0, <1>00, <1>15, <3>1 DEF HandlerZombie
    <3> QED
      BY <1>00, <3>2, <3>3, <3>4, NewTable
  <2>2. CASE me[c] \in Threads
    <3>1. PICK x \in Threads : x = me[c] /\ kind[x] = "left" /\ at[x] = c
      BY <1>00, <1>15, <2>2 DEF HandlerZombie, OwnedOf
    <3>2. /\ NoDup(zombies)'
          /\ \A t : In(t, zombies)' <=> In(t, zombies) \/ t = x
      BY <1>0, <1>00, <1>15, <3>1, AddLast DEF HandlerZombie, IsIdle, OwnedOf
    <3>3. PICK kind2 \in [Threads -> Kinds] : kind2 = [kind EXCEPT ![x] = "zombie"]
      BY DEF Kinds
    <3>4. ASSUME NEW t0 \in Threads PROVE OwnedOf(kind2, at, t0)'
      BY <1>0, <1>00, <1>15, <3>1, <3>2, <3>3
      DEF HandlerZombie, LeaveBlock, OwnedOf, Taken
    <3>5. ASSUME NEW t0 \in Threads PROVE JobOf(kind2, at, t0)'
      BY <1>0, <1>00, <1>15, <3>1, <3>2, <3>3
      DEF HandlerZombie, LeaveBlock, OwnedOf, JobOf, Leaving, Taken
    <3>6. \A t0 \in Threads : kind2[t0] = "waits" <=> kind[t0] = "waits"
      BY <3>1, <3>3
    <3>9. NoDup(readyQ)' /\ NoDup(zombies)'
      BY <1>0, <1>15, <3>2 DEF HandlerZombie
    <3> QED
      BY <1>01, <3>4, <3>5, <3>6, <3>9, NewTable
  <2> QED
    BY <2>1, <2>2, <1>0, <1>15 DEF HandlerZombie, BlockInvOf
<1>16. ASSUME NEW c \in Cores, NEW t \in Threads, ReapTake(c, t) PROVE OwnInv' /\ SameElsewhere
  <2>1. PICK x \in Threads :
          /\ x = Head(zombies) /\ In(x, zombies) /\ NoDup(zombies)'
          /\ \A u : In(u, zombies)' <=> In(u, zombies) /\ u # x
    BY <1>0, <1>00, <1>16, RemoveFirst DEF ReapTake
  <2>2. PICK kind2 \in [Threads -> Kinds], at2 \in [Threads -> TCB] :
          kind2 = [kind EXCEPT ![x] = "local"] /\ at2 = [at EXCEPT ![x] = t]
    BY DEF Kinds
  <2>3. kind[x] = "zombie" /\ kind[t] = "runs" /\ x # t /\ held[t] = None
    BY <1>0, <1>00, <1>16, <2>1 DEF ReapTake, Executes, OwnedOf, JobOf
  <2>4. ASSUME NEW t0 \in Threads PROVE OwnedOf(kind2, at2, t0)'
    BY <1>0, <1>00, <1>16, <2>1, <2>2, <2>3 DEF ReapTake, OwnedOf, Taken, coreVars
  <2>5. ASSUME NEW t0 \in Threads PROVE JobOf(kind2, at2, t0)'
    BY <1>0, <1>00, <1>16, <2>1, <2>2, <2>3
    DEF ReapTake, Executes, OwnedOf, JobOf, Leaving, Taken, coreVars
  <2>6. \A t0 \in Threads : kind2[t0] = "waits" <=> kind[t0] = "waits"
    BY <2>2, <2>3
  <2>9. NoDup(readyQ)' /\ NoDup(zombies)'
    BY <1>0, <1>16, <2>1 DEF ReapTake
  <2> QED
    BY <1>01, <2>4, <2>5, <2>6, <2>9, NewTable
<1>17. ASSUME NEW c \in Cores, NEW t \in Threads, ReapDelete(c, t) PROVE OwnInv' /\ SameElsewhere
  <2>1. PICK x \in Threads : x = held[t] /\ kind[x] = "local" /\ at[x] = t
    BY <1>0, <1>00, <1>17 DEF ReapDelete, Executes, OwnedOf, JobOf
  <2>2. PICK kind2 \in [Threads -> Kinds] : kind2 = [kind EXCEPT ![x] = "none"]
    BY DEF Kinds
  <2>3. kind[t] = "runs" /\ x # t
    BY <1>00, <1>17, <2>1 DEF ReapDelete, Executes, OwnedOf
  <2>4. ASSUME NEW t0 \in Threads PROVE OwnedOf(kind2, at, t0)'
    BY <1>0, <1>00, <1>17, <2>1, <2>2, <2>3 DEF ReapDelete, OwnedOf, Taken, coreVars
  <2>5. ASSUME NEW t0 \in Threads PROVE JobOf(kind2, at, t0)'
    BY <1>0, <1>00, <1>17, <2>1, <2>2, <2>3
    DEF ReapDelete, Executes, OwnedOf, JobOf, Leaving, Taken, coreVars
  <2>6. \A t0 \in Threads : kind2[t0] = "waits" <=> kind[t0] = "waits"
    BY <2>1, <2>2
  <2>9. NoDup(readyQ)' /\ NoDup(zombies)'
    BY <1>0, <1>17 DEF ReapDelete
  <2> QED
    BY <1>01, <2>4, <2>5, <2>6, <2>9, NewTable
<1>18. ASSUME NEW c \in Cores, NEW t \in Threads, NEW child \in Workers,
              Create(c, t, child)
       PROVE  OwnInv' /\ SameElsewhere
  <2>1. child \in Threads /\ kind[child] = "none" /\ kind[t] = "runs" /\ child # t
    BY <1>00, <1>18 DEF Create, Executes, OwnedOf
  <2>2. NoDup(readyQ)' /\ \A u : In(u, readyQ)' <=> In(u, readyQ) \/ u = child
    BY <1>0, <1>00, <1>18, <2>1, AddLast DEF Create, OwnedOf
  <2>3. PICK kind2 \in [Threads -> Kinds] : kind2 = [kind EXCEPT ![child] = "ready"]
    BY DEF Kinds
  <2>4. ASSUME NEW t0 \in Threads PROVE OwnedOf(kind2, at, t0)'
    BY <1>0, <1>00, <1>18, <2>1, <2>2, <2>3 DEF Create, OwnedOf, Taken, coreVars
  <2>5. ASSUME NEW t0 \in Threads PROVE JobOf(kind2, at, t0)'
    <3>1. CASE t0 = child
      BY <1>0, <1>00, <1>18, <2>1, <2>3, <3>1
      DEF Create, JobOf, Leaving, coreVars
    <3>2. CASE t0 = t
      <4>1. at[t] = c /\ ~Leaving(kind, at, t) /\ job[t] = "create"
        BY <1>0, <1>00, <1>18, <2>1 DEF Create, Executes, OwnedOf, JobOf
      <4>2. job'[t] = "work" /\ held'[t] = held[t] /\ kind2[t] = kind[t]
        BY <1>0, <1>00, <1>18, <2>1, <2>3 DEF Create
      <4> QED
        BY <1>00, <1>18, <3>2, <4>1, <4>2 DEF Create, JobOf, Leaving, coreVars
    <3>3. CASE t0 \notin {t, child}
      <4>1. job'[t0] = job[t0] /\ held'[t0] = held[t0] /\ kind2[t0] = kind[t0]
        BY <1>0, <1>00, <1>18, <2>1, <2>3, <3>3 DEF Create
      <4>2. kind[t0] = "local" => job[at[t0]] \in {"delete", "free", "wake"}
        BY <1>00 DEF OwnedOf, JobOf
      <4>3. job[t] = "create" /\ job[child] \in {"stopped", "work"}
        BY <1>00, <1>18, <2>1 DEF Create, Executes, JobOf, Leaving
      <4>4. kind[t0] = "local" => at[t0] \in Threads /\ job'[at[t0]] = job[at[t0]]
        BY <1>0, <1>00, <1>18, <2>1, <4>2, <4>3 DEF Create, OwnedOf
      <4>5. Leaving(kind2, at, t0)' <=> Leaving(kind, at, t0)
        BY <1>18, <4>1, <4>4 DEF Create, Leaving, coreVars
      <4> QED
        BY <1>00, <1>18, <4>1, <4>5 DEF JobOf
    <3> QED
      BY <3>1, <3>2, <3>3
  <2>6. \A t0 \in Threads : kind2[t0] = "waits" <=> kind[t0] = "waits"
    BY <2>1, <2>3
  <2>9. NoDup(readyQ)' /\ NoDup(zombies)'
    BY <1>0, <1>18, <2>2 DEF Create
  <2> QED
    BY <1>01, <2>4, <2>5, <2>6, <2>9, NewTable
<1>19. CASE UNCHANGED vars
  <2>1. ASSUME NEW t0 \in Threads PROVE OwnedOf(kind, at, t0)'
    BY <1>00, <1>19 DEF vars, coreVars, OwnedOf
  <2>2. ASSUME NEW t0 \in Threads PROVE JobOf(kind, at, t0)'
    BY <1>00, <1>19 DEF vars, coreVars, JobOf, Leaving
  <2> QED
    BY <1>0, <1>00, <1>19, <2>1, <2>2, NewTable DEF vars
<1> QED
  BY <1>1, <1>2, <1>3, <1>4, <1>5, <1>6, <1>7, <1>8, <1>9, <1>10, <1>11, <1>12, <1>13, <1>14, <1>15, <1>16, <1>17, <1>18, <1>19
  DEF Next, BlockStep, ThreadStep
\* The three together.
LEMMA CoreStep == CoreInv /\ [Next]_vars => CoreInv' /\ SameElsewhere
BY TypeStep, BlockStepInv, OwnStep DEF CoreInv

\* The places of a thread: one if it is allocated, unless it is elsewhere.
LEMMA OnePlace ==
  ASSUME CoreInv, NEW t \in Threads
  PROVE  /\ t \in alloc /\ ~Elsewhere(t) => \E x : Holders(t) = {x}
         /\ t \notin alloc \/ Elsewhere(t) => Holders(t) = {}
<1>1. PICK kind \in [Threads -> Kinds], at \in [Threads -> TCB] :
        \A u \in Threads : OwnedOf(kind, at, u)
  BY DEF CoreInv, OwnInv, Owned
<1>2. /\ readyQ \in Seq(Threads) /\ DOMAIN readyQ = 1..Len(readyQ) /\ NoDup(readyQ)
      /\ zombies \in Seq(Threads) /\ DOMAIN zombies = 1..Len(zombies)
      /\ NoDup(zombies)
  BY DEF CoreInv, TypeOK, OwnInv
<1>3. \A x : x \in Holders(t) <=>
        \/ \E i \in DOMAIN readyQ : readyQ[i] = t /\ x = <<"ready", i>>
        \/ \E i \in DOMAIN zombies : zombies[i] = t /\ x = <<"zombie", i>>
        \/ \E c \in Cores : running[c] = t /\ x = <<"runs", c>>
        \/ \E c \in Cores : pc[c] \in Taken /\ next[c] = t /\ x = <<"next", c>>
        \/ \E c \in Cores : pc[c] = "handler" /\ me[c] = t /\ x = <<"left", c>>
        \/ \E u \in Threads : held[u] = t /\ x = <<"local", u>>
  BY DEF Holders, Taken
<1>4. /\ t \in alloc /\ kind[t] # "waits" => \E x : Holders(t) = {x}
      /\ t \notin alloc \/ kind[t] = "waits" => Holders(t) = {}
  <2>1. CASE kind[t] = "none"
    <3>1. t \notin alloc /\ \A x : x \notin Holders(t)
      BY <1>1, <1>2, <1>3, <2>1 DEF OwnedOf, In
    <3> QED
      BY <3>1
  <2>2. CASE kind[t] = "ready"
    <3>1. PICK i \in DOMAIN readyQ : readyQ[i] = t
      BY <1>1, <1>2, <2>2 DEF OwnedOf, In
    <3>2. \A x : x \in Holders(t) <=> x = <<"ready", i>>
      <4>1. /\ \A j \in DOMAIN readyQ : readyQ[j] = t => j = i
            /\ \A j \in DOMAIN zombies : zombies[j] # t
        BY <1>1, <1>2, <2>2, <3>1 DEF OwnedOf, In, NoDup
      <4>2. /\ \A c \in Cores : /\ running[c] # t
                                /\ ~(pc[c] \in Taken /\ next[c] = t)
                                /\ ~(pc[c] = "handler" /\ me[c] = t)
            /\ \A u \in Threads : held[u] # t
        BY <1>1, <2>2 DEF OwnedOf
      <4> QED
        BY <1>3, <3>1, <4>1, <4>2
    <3>3. Holders(t) = {<<"ready", i>>} /\ t \in alloc
      <4>1. t \in alloc
        BY <1>1, <2>2 DEF OwnedOf
      <4> QED
        BY <4>1, <3>2
    <3> QED
      BY <2>2, <3>3
  <2>3. CASE kind[t] = "zombie"
    <3>1. PICK i \in DOMAIN zombies : zombies[i] = t
      BY <1>1, <1>2, <2>3 DEF OwnedOf, In
    <3>2. \A x : x \in Holders(t) <=> x = <<"zombie", i>>
      <4>1. /\ \A j \in DOMAIN zombies : zombies[j] = t => j = i
            /\ \A j \in DOMAIN readyQ : readyQ[j] # t
        BY <1>1, <1>2, <2>3, <3>1 DEF OwnedOf, In, NoDup
      <4>2. /\ \A c \in Cores : /\ running[c] # t
                                /\ ~(pc[c] \in Taken /\ next[c] = t)
                                /\ ~(pc[c] = "handler" /\ me[c] = t)
            /\ \A u \in Threads : held[u] # t
        BY <1>1, <2>3 DEF OwnedOf
      <4> QED
        BY <1>3, <3>1, <4>1, <4>2
    <3>3. Holders(t) = {<<"zombie", i>>} /\ t \in alloc
      <4>1. t \in alloc
        BY <1>1, <2>3 DEF OwnedOf
      <4> QED
        BY <4>1, <3>2
    <3> QED
      BY <2>3, <3>3
  <2>4. CASE kind[t] \in {"runs", "next", "left", "local"}
    <3>1. \A x : x \in Holders(t) <=> x = <<kind[t], at[t]>>
      <4>1. /\ \A j \in DOMAIN readyQ : readyQ[j] # t
            /\ \A j \in DOMAIN zombies : zombies[j] # t
        BY <1>1, <1>2, <2>4 DEF OwnedOf, In
      <4>2. /\ kind[t] \in {"runs", "next", "left"} => at[t] \in Cores
            /\ kind[t] = "local" => at[t] \in Threads
            /\ \A c \in Cores :
                 /\ running[c] = t <=> kind[t] = "runs" /\ at[t] = c
                 /\ pc[c] \in Taken /\ next[c] = t <=> kind[t] = "next" /\ at[t] = c
                 /\ pc[c] = "handler" /\ me[c] = t <=> kind[t] = "left" /\ at[t] = c
            /\ \A u \in Threads : held[u] = t <=> kind[t] = "local" /\ at[t] = u
        BY <1>1 DEF OwnedOf
      <4>3. CASE kind[t] = "runs"
        BY <1>3, <4>1, <4>2, <4>3
      <4>4. CASE kind[t] = "next"
        BY <1>3, <4>1, <4>2, <4>4
      <4>5. CASE kind[t] = "left"
        BY <1>3, <4>1, <4>2, <4>5
      <4>6. CASE kind[t] = "local"
        BY <1>3, <4>1, <4>2, <4>6
      <4> QED
        BY <2>4, <4>3, <4>4, <4>5, <4>6
    <3>3. Holders(t) = {<<kind[t], at[t]>>} /\ t \in alloc
      <4>1. t \in alloc
        BY <1>1, <2>4 DEF OwnedOf
      <4> QED
        BY <4>1, <3>1
    <3> QED
      BY <2>4, <3>3
  <2>5. CASE kind[t] = "waits"
    <3>1. /\ \A j \in DOMAIN readyQ : readyQ[j] # t
          /\ \A j \in DOMAIN zombies : zombies[j] # t
      BY <1>1, <1>2, <2>5 DEF OwnedOf, In
    <3>2. \A x : x \notin Holders(t)
      BY <1>1, <1>3, <2>5, <3>1 DEF OwnedOf
    <3> QED
      BY <2>5, <3>2
  <2> QED
    BY <2>1, <2>2, <2>3, <2>4, <2>5 DEF Kinds
<1> QED
  BY <1>1, <1>4, ElsewhereWaits

-----------------------------------------------------------------------------
(***************************************************************************)
(* The theorems.                                                           *)
(***************************************************************************)

\* The inductive invariant of Threads: nobody is elsewhere.
IInv == CoreInv /\ \A t \in Threads : ~Elsewhere(t)

\* The state that kernelInit leaves satisfies it (threads.cc threadsInit).
LEMMA InitIInv == Init => IInv
<1> SUFFICES ASSUME Init PROVE IInv
  OBVIOUS
<1>1. \A t \in alloc : In(t, readyQ)
  BY DEF Init, In
<1> QED
  BY <1>1, InitCore DEF IInv, Elsewhere

\* IInv holds in every reachable state.
THEOREM Invariance == Spec => []IInv
<1>1. IInv /\ [Next]_vars => IInv'
  BY CoreStep DEF IInv, SameElsewhere
<1> QED
  BY InitIInv, <1>1, PTL DEF Spec

\* The variables of the thread switcher keep their types (threads.h, threads.cc).
THEOREM TypeCorrect == Spec => []TypeOK
<1>1. IInv => TypeOK
  BY DEF IInv, CoreInv
<1> QED
  BY Invariance, <1>1, PTL

\* The timer preempts only the thread that the core is executing, and outside
\* block(): the answer to "Why is this safe?" (threads.h:120, pit.cc apitHandler).
THEOREM TimerIsSafe == Spec => []TimerSafe
<1>1. IInv => TimerSafe
  BY TickInWork DEF IInv, TimerSafe
<1> QED
  BY Invariance, <1>1, PTL

\* No idle TCB is executed by, or recorded for, another core (threads.h:107).
THEOREM IdleStaysHome == Spec => []NoHoppingIdle
<1>1. IInv => NoHoppingIdle
  BY DEF IInv, CoreInv, BlockInv, BlockInvOf, NoHoppingIdle
<1> QED
  BY Invariance, <1>1, PTL

\* The block() in stop() never comes back to the thread (threads.cc:125).
THEOREM StopIsFinal == Spec => []StoppedNeverResumes
<1>1. IInv => StoppedNeverResumes
  <2> SUFFICES ASSUME IInv, NEW c \in Cores, pc[c] = "work", running[c] \in Threads
               PROVE  job[running[c]] # "stopped"
    BY DEF StoppedNeverResumes
  <2>1. PICK kind \in [Threads -> Kinds], at \in [Threads -> TCB] :
          \A t \in Threads : OwnedOf(kind, at, t) /\ JobOf(kind, at, t)
    BY DEF IInv, CoreInv, OwnInv, Owned, JobInv
  <2>2. kind[running[c]] = "runs" /\ at[running[c]] = c
    BY <2>1 DEF OwnedOf
  <2> QED
    BY <2>1, <2>2 DEF JobOf, Leaving
<1> QED
  BY Invariance, <1>1, PTL

\* A thread is in one place as long as it is allocated and nowhere afterwards: it
\* never runs on two cores, is never scheduled twice, and is never freed while a
\* core is on its stack or a queue leads to it (threads.h block, threads.cc).
THEOREM OneOwner == Spec => []ExclusiveOwner
<1>1. IInv => ExclusiveOwner
  <2> SUFFICES ASSUME IInv, NEW t \in Threads
               PROVE  Cardinality(Holders(t)) = IF t \in alloc THEN 1 ELSE 0
    BY DEF ExclusiveOwner
  <2>1. CASE t \in alloc
    <3>1. PICK x : Holders(t) = {x}
      BY <2>1, OnePlace DEF IInv
    <3> QED
      BY <3>1, <2>1, FS_Singleton
  <2>2. CASE t \notin alloc
    BY <2>2, OnePlace, FS_EmptySet DEF IInv
  <2> QED
    BY <2>1, <2>2
<1> QED
  BY Invariance, <1>1, PTL

-----------------------------------------------------------------------------
(***************************************************************************)
(* The inductive invariant, in four parts next to CoreInv.                 *)
(***************************************************************************)
\* The ISL of a semaphore is taken exactly while one core is between down() and
\* its handler; that core has interrupts off, and there is no unit to be had.
OnItsWay(c) ==
  /\ sem[c] # None <=> pc[c] # "work" /\ handler[c] = "wait"
  /\ sem[c] # None =>
       /\ taken[sem[c]] /\ count[sem[c]] = 0
       /\ ~intr[c] /\ me[c] \in Threads

LockInv ==
  /\ \A c \in Cores : OnItsWay(c)
  /\ \A s \in Sems : taken[s] => \E c \in Cores : sem[c] = s
  /\ \A c, d \in Cores : sem[c] # None /\ sem[c] = sem[d] => c = d

\* Exactly the threads that are elsewhere wait, each for one semaphore, which has
\* no unit.
WaitInv ==
  /\ \A s \in Sems : NoDup(waiting[s]) /\ (count[s] > 0 => waiting[s] = << >>)
  /\ \A t \in Threads : Elsewhere(t) <=> \E s \in Sems : In(t, waiting[s])
  /\ \A t \in Threads, r, s \in Sems :
       In(t, waiting[r]) /\ In(t, waiting[s]) => r = s

\* In down() of the heap lock: in its queue, or on the way there.
Queued(t) ==
  \/ In(t, waiting[HeapLock])
  \/ \E c \in Cores : sem[c] = HeapLock /\ me[c] = t

Inside(t) == job[t] \in {"malloc", "free", "freed"} /\ ~Queued(t)

\* The unit of the heap lock is in its count or with one thread.
HeapInv ==
  /\ \A t \in Threads : Queued(t) => job[t] \in {"malloc", "free"}
  /\ \/ count[HeapLock] = 1 /\ \A t \in Threads : ~Inside(t)
     \/ /\ count[HeapLock] = 0
        /\ \E x \in Threads : \A t \in Threads : Inside(t) <=> t = x

\* What a thread does after an up(): never a point where it would hold a TCB.
ThenInv == \A t \in Threads : then[t] \in {"work", "built", "reap"}

SemTypes ==
  /\ count \in [Sems -> Nat]
  /\ taken \in [Sems -> BOOLEAN]
  /\ waiting \in [Sems -> Seq(Threads)]
  /\ sem \in [Cores -> Sems \cup {None}]
  /\ then \in [Threads -> Jobs]

SemInv == CoreInv /\ SemTypes /\ LockInv /\ WaitInv /\ HeapInv /\ ThenInv
-----------------------------------------------------------------------------
\* No semaphore is taken and nobody waits at the start (semaphore.h, heap.cc).
LEMMA InitSem == SemInit => SemInv
<1> SUFFICES ASSUME SemInit PROVE SemInv
  OBVIOUS
<1>1. CoreInv /\ \A t \in Threads : ~Elsewhere(t)
  BY InitIInv DEF SemInit, IInv
<1>2. SemTypes
  BY SemaphoresAssumption DEF SemInit, SemTypes, InitialCount, Jobs
<1>3. LockInv
  BY DEF SemInit, Init, LockInv, OnItsWay
<1>4. WaitInv
  <2>1. \A s \in Sems : waiting[s] = << >>
    BY DEF SemInit
  <2> QED
    BY <2>1, <1>1, EmptyQueue DEF WaitInv
<1>5. HeapInv
  <2>1. HeapLock \in Sems /\ waiting[HeapLock] = << >> /\ count[HeapLock] = 1
    BY DEF SemInit, Sems, InitialCount
  <2>2. \A t \in Threads : job[t] \in {"reap", "work"} /\ ~Queued(t)
    BY <2>1, SemaphoresAssumption, EmptyQueue DEF SemInit, Init, Queued, Sems
  <2> QED
    BY <2>1, <2>2 DEF HeapInv, Inside
<1>6. ThenInv
  BY DEF SemInit, ThenInv
<1> QED
  BY <1>1, <1>2, <1>3, <1>4, <1>5, <1>6 DEF SemInv
-----------------------------------------------------------------------------
(***************************************************************************)
(* The steps of Threads, which leave the semaphores alone.                 *)
(***************************************************************************)
\* Such a step does not touch a core that is on its way into a queue, but for the
\* switch of its stack.
PlainNext ==
  \E c \in Cores :
    \/ BlockStep(c) \/ Tick(c) \/ IdleStop(c)
    \/ \E t \in Threads : Yield(c, t) \/ Stop(c, t) \/ CallThread(c, t)
                           \/ ReapTake(c, t) \/ ReapDone(c, t)

Unmoved(d) ==
  /\ pc'[d] # "work" <=> pc[d] # "work"
  /\ handler'[d] = handler[d] /\ me'[d] = me[d] /\ (~intr[d] => ~intr'[d])

\* On each core a step of Threads leaves block() from, or enters it with, another
\* handler than that of down(), or leaves alone what down() has set up.
LEMMA PlainCores ==
  ASSUME CoreInv, PlainNext, NEW d \in Cores
  PROVE  \/ Unmoved(d)
         \/ /\ ~(pc[d] # "work" /\ handler[d] = "wait")
            /\ ~(pc'[d] # "work" /\ handler'[d] = "wait")
<1> USE DEF CoreInv, TypeOK, Unmoved, BlockPcs
<1>1. ASSUME NEW c \in Cores,
             BlockTake(c) \/ BlockToIdle(c) \/ BlockMark(c) \/ BlockActivate(c)
               \/ ContextSwitch(c)
      PROVE  Unmoved(d)
  BY <1>1 DEF BlockTake, BlockToIdle, BlockMark, BlockActivate, ContextSwitch
<1>2. ASSUME NEW c \in Cores,
             BlockReturn(c) \/ HandlerSchedule(c) \/ HandlerZombie(c)
      PROVE  \/ Unmoved(d)
             \/ handler[d] # "wait" /\ pc'[d] = "work"
  BY <1>2 DEF BlockReturn, HandlerSchedule, HandlerZombie, LeaveBlock
<1>3. ASSUME NEW c \in Cores, BlockSpin(c) PROVE Unmoved(d)
  BY <1>3 DEF BlockSpin, vars, coreVars
<1>4. ASSUME NEW c \in Cores, Tick(c)
      PROVE  Unmoved(d) \/ (pc[d] = "work" /\ handler'[d] # "wait")
  BY <1>4, TickInWork DEF Tick, BlockProtect
<1>5. ASSUME NEW c \in Cores, IdleStop(c)
      PROVE  Unmoved(d) \/ (pc[d] = "work" /\ handler'[d] # "wait")
  BY <1>5 DEF IdleStop, BlockProtect
<1>6. ASSUME NEW c \in Cores, NEW t \in Threads, Yield(c, t) \/ Stop(c, t)
      PROVE  Unmoved(d) \/ (pc[d] = "work" /\ handler'[d] # "wait")
  BY <1>6 DEF Yield, Stop, Executes, BlockProtect
<1>7. ASSUME NEW c \in Cores, NEW t \in Threads,
             CallThread(c, t) \/ ReapTake(c, t) \/ ReapDone(c, t)
      PROVE  Unmoved(d)
  BY <1>7 DEF CallThread, ReapTake, ReapDone, coreVars
<1> QED
  BY <1>1, <1>2, <1>3, <1>4, <1>5, <1>6, <1>7 DEF PlainNext, BlockStep

\* It changes the job of a thread only from and to what is outside of the heap.
LEMMA PlainJobs ==
  ASSUME CoreInv, PlainNext, NEW t \in Threads
  PROVE  \/ job'[t] = job[t]
         \/ job[t] \in {"work", "reap"} /\ job'[t] \in {"work", "reap", "stopped", "delete", "create"}
<1> USE DEF CoreInv, TypeOK
<1>1. ASSUME NEW c \in Cores, BlockStep(c) \/ Tick(c) \/ IdleStop(c) PROVE job' = job
  BY <1>1 DEF BlockStep, BlockTake, BlockReturn, BlockToIdle, BlockSpin, BlockMark,
     BlockActivate, ContextSwitch, HandlerSchedule, HandlerZombie, Tick, IdleStop, vars
<1>2. ASSUME NEW c \in Cores, NEW u \in Threads,
             Yield(c, u) \/ Stop(c, u) \/ CallThread(c, u) \/ ReapTake(c, u) \/ ReapDone(c, u)
      PROVE  \/ job'[t] = job[t]
             \/ job[t] \in {"work", "reap"} /\ job'[t] \in {"work", "reap", "stopped", "delete", "create"}
  BY <1>2 DEF Yield, Stop, CallThread, ReapTake, ReapDone, Executes
<1> QED
  BY <1>1, <1>2 DEF PlainNext

\* A plain step is one of the switcher's.
LEMMA PlainNextIsNext == PlainNext => Next
BY DEF PlainNext, Next, ThreadStep

\* So it keeps the invariant.
LEMMA PlainKeeps == SemInv /\ PlainNext /\ UNCHANGED semVars => SemInv'
<1> SUFFICES ASSUME SemInv, PlainNext, UNCHANGED semVars PROVE SemInv'
  OBVIOUS
<1>0. UNCHANGED <<count, taken, waiting, sem, then>>
  BY DEF semVars
<1>1. CoreInv' /\ SameElsewhere
  BY CoreStep, PlainNextIsNext DEF SemInv
<1>2. SemTypes' /\ ThenInv'
  BY <1>0 DEF SemInv, SemTypes, ThenInv
<1>3. ASSUME NEW c \in Cores PROVE OnItsWay(c)' /\ (sem[c] # None => me'[c] = me[c])
  BY <1>0, <1>3, PlainCores DEF SemInv, LockInv, OnItsWay, Unmoved
<1>4. LockInv'
  BY <1>0, <1>3 DEF SemInv, LockInv
<1>5. WaitInv'
  BY <1>0, <1>1 DEF SemInv, WaitInv, SameElsewhere
<1>6. HeapInv'
  <2>1. ASSUME NEW t \in Threads PROVE Queued(t)' <=> Queued(t)
    BY <1>0, <1>3, SemaphoresAssumption DEF Queued, Sems
  <2>2. ASSUME NEW t \in Threads
        PROVE  /\ Inside(t)' <=> Inside(t)
               /\ Queued(t)' => job'[t] \in {"malloc", "free"}
    <3>1. CASE job'[t] = job[t]
      BY <2>1, <3>1 DEF Inside, SemInv, HeapInv
    <3>2. CASE job'[t] # job[t]
      BY <2>1, <3>2, PlainJobs DEF Inside, SemInv, HeapInv
    <3> QED
      BY <3>1, <3>2
  <2> QED
    BY <1>0, <2>2 DEF SemInv, HeapInv
<1> QED
  BY <1>1, <1>2, <1>4, <1>5, <1>6 DEF SemInv
-----------------------------------------------------------------------------
(***************************************************************************)
(* What the steps of semaphores do to the threads.                         *)
(***************************************************************************)
\* A thread that executes is nowhere else, and does not leave.
LEMMA Executing ==
  ASSUME CoreInv, NEW c \in Cores, NEW t \in Threads, NEW j, Executes(c, t, j),
         NEW kind \in [Threads -> Kinds], NEW at \in [Threads -> TCB],
         \A u \in Threads : OwnedOf(kind, at, u) /\ JobOf(kind, at, u)
  PROVE  /\ kind[t] = "runs" /\ at[t] = c /\ active[c] = t /\ job[t] = j
         /\ ~Leaving(kind, at, t) /\ j # "stopped"
         /\ \A u \in Threads : kind[u] = "local" /\ at[u] = t => j \in {"delete", "free", "wake"}
<1>1. BlockInvOf(c) /\ pc[c] = "work" /\ running[c] = t /\ job[t] = j
  BY DEF CoreInv, BlockInv, Executes
<1>2. kind[t] = "runs" /\ at[t] = c /\ active[c] = t
  BY <1>1 DEF OwnedOf, BlockInvOf
<1>3. ~Leaving(kind, at, t)
  BY <1>1, <1>2 DEF Leaving
<1>4. \A u \in Threads : kind[u] = "local" /\ at[u] = t => held[t] = u /\ held[t] # None
  BY Apart DEF OwnedOf
<1> QED
  BY <1>1, <1>2, <1>3, <1>4 DEF JobOf

\* A step that only changes what the executing thread does next.
LEMMA NextJob ==
  ASSUME CoreInv, NEW c \in Cores, NEW t \in Threads, NEW j, Executes(c, t, j),
         NEW k \in Jobs, job' = [job EXCEPT ![t] = k],
         j \notin {"wake"}, k \notin {"wake", "stopped"},
         j \in {"delete", "free"} <=> k \in {"delete", "free"},
         UNCHANGED <<alloc, readyQ, zombies, noPreempt, held, coreVars>>
  PROVE  CoreInv' /\ SameElsewhere
<1>0. TypeOK /\ NoDup(readyQ) /\ NoDup(zombies)
  BY DEF CoreInv, OwnInv
<1>1. PICK kind \in [Threads -> Kinds], at \in [Threads -> TCB] :
        \A u \in Threads : OwnedOf(kind, at, u) /\ JobOf(kind, at, u)
  BY DEF CoreInv, OwnInv, Owned, JobInv
<1>2. TypeOK'
  BY <1>0 DEF TypeOK, coreVars
<1>3. BlockInv'
  BY DEF CoreInv, BlockInv, BlockInvOf, coreVars
<1>4. ASSUME NEW u \in Threads PROVE OwnedOf(kind, at, u)'
  BY <1>1 DEF OwnedOf, coreVars
<1>5. /\ ~Leaving(kind, at, t) /\ job[t] = j /\ kind[t] = "runs"
      /\ \A u \in Threads : kind[u] = "local" /\ at[u] = t => j \in {"delete", "free"}
  BY <1>1, Executing
<1>6. ASSUME NEW u \in Threads PROVE JobOf(kind, at, u)'
  <2>1. Leaving(kind, at, u)' <=> Leaving(kind, at, u)
    <3>1. CASE kind[u] = "local"
      BY <1>0, <1>1, <1>5, <3>1 DEF Leaving, OwnedOf, TypeOK
    <3>2. CASE kind[u] # "local"
      BY <3>2 DEF Leaving, coreVars
    <3> QED
      BY <3>1, <3>2
  <2>2. CASE u = t
    BY <1>0, <1>1, <1>5, <2>1, <2>2 DEF JobOf, TypeOK
  <2>3. CASE u # t
    BY <1>0, <1>1, <2>1, <2>3 DEF JobOf, TypeOK
  <2> QED
    BY <2>2, <2>3
<1>7. \A u \in Threads : OwnedOf(kind, at, u)
  BY <1>1
<1>8. OwnInv' /\ SameElsewhere
  BY <1>0, <1>4, <1>6, <1>7, NewTable
<1> QED
  BY <1>2, <1>3, <1>8 DEF CoreInv

\* down() into block(): the thread is still in its place, on its way to another.
LEMMA BlockCore ==
  ASSUME CoreInv, NEW c \in Cores, NEW t \in Threads, NEW j, Executes(c, t, j),
         NEW k \in Jobs, job' = [job EXCEPT ![t] = k],
         j \notin {"wake"}, k \notin {"wake", "stopped"},
         j \in {"delete", "free"} <=> k \in {"delete", "free"},
         BlockProtect(c, "wait", FALSE),
         UNCHANGED <<alloc, readyQ, zombies, held>>
  PROVE  CoreInv' /\ SameElsewhere /\ me'[c] = t
<1>0. TypeOK /\ BlockInv /\ NoDup(readyQ) /\ NoDup(zombies)
  BY DEF CoreInv, OwnInv
<1>1. PICK kind \in [Threads -> Kinds], at \in [Threads -> TCB] :
        \A u \in Threads : OwnedOf(kind, at, u) /\ JobOf(kind, at, u)
  BY DEF CoreInv, OwnInv, Owned, JobInv
<1>5. /\ ~Leaving(kind, at, t) /\ job[t] = j /\ kind[t] = "runs" /\ at[t] = c /\ active[c] = t
      /\ \A u \in Threads : kind[u] = "local" /\ at[u] = t => j \in {"delete", "free"}
  BY <1>1, Executing
<1>2. TypeOK'
  BY <1>0, <1>5, Apart DEF TypeOK, BlockProtect, BlockPcs, Handlers
<1>3. BlockInv'
  <2>1. BlockInvOf(c)'
    BY <1>0, <1>5, Apart DEF TypeOK, BlockInv, Executes, BlockProtect, BlockInvOf, Taken, Handlers
  <2>2. ASSUME NEW d \in Cores \ {c} PROVE BlockInvOf(d)'
    <3>1. Same(d) /\ \A u \in TCB : noPreempt[u] => noPreempt'[u]
      BY <1>0 DEF TypeOK, BlockProtect, Same
    <3> QED
      BY <3>1, OtherCores
  <2> QED
    BY <2>1, <2>2 DEF BlockInv
<1>4. ASSUME NEW u \in Threads PROVE OwnedOf(kind, at, u)'
  BY <1>0, <1>1, <1>5 DEF TypeOK, BlockProtect, Executes, OwnedOf, Taken
<1>6. ASSUME NEW u \in Threads PROVE JobOf(kind, at, u)'
  <2>1. Leaving(kind, at, u)' <=> Leaving(kind, at, u)
    <3>1. CASE kind[u] = "local"
      BY <1>0, <1>1, <1>5, <3>1 DEF Leaving, OwnedOf, TypeOK
    <3>2. CASE kind[u] \in {"runs", "left"}
      BY <1>0, <1>1, <3>2 DEF Leaving, OwnedOf, TypeOK, BlockProtect, Executes
    <3>3. CASE kind[u] \notin {"runs", "left", "local"}
      BY <3>3 DEF Leaving
    <3> QED
      BY <3>1, <3>2, <3>3
  <2>2. CASE u = t
    BY <1>0, <1>1, <1>5, <2>1, <2>2 DEF JobOf, TypeOK
  <2>3. CASE u # t
    BY <1>0, <1>1, <2>1, <2>3 DEF JobOf, TypeOK
  <2> QED
    BY <2>2, <2>3
<1>7. \A u \in Threads : OwnedOf(kind, at, u)
  BY <1>1
<1>8. OwnInv' /\ SameElsewhere
  BY <1>0, <1>4, <1>6, <1>7, NewTable
<1>9. me'[c] = t
  BY <1>0, <1>5 DEF TypeOK, BlockProtect
<1> QED
  BY <1>2, <1>3, <1>8, <1>9 DEF CoreInv

\* The handler of down(): the thread that left its stack now waits.
LEMMA WaitCore ==
  ASSUME CoreInv, NEW c \in Cores, me[c] \in Threads, HandlerWait(c)
  PROVE  CoreInv' /\ \A u \in Threads : Elsewhere(u)' <=> Elsewhere(u) \/ u = me[c]
<1>0. TypeOK /\ BlockInv /\ NoDup(readyQ) /\ NoDup(zombies)
  BY DEF CoreInv, OwnInv
<1>1. PICK kind \in [Threads -> Kinds], at \in [Threads -> TCB] :
        \A u \in Threads : OwnedOf(kind, at, u) /\ JobOf(kind, at, u)
  BY DEF CoreInv, OwnInv, Owned, JobInv
<1>2. TypeOK'
  BY <1>0 DEF TypeOK, HandlerWait, LeaveBlock
<1>3. BlockInv'
  <2>1. BlockInvOf(c)'
    BY <1>0, Apart DEF TypeOK, BlockInv, HandlerWait, LeaveBlock, BlockInvOf, Taken
  <2>2. ASSUME NEW d \in Cores \ {c} PROVE BlockInvOf(d)'
    <3>1. Same(d) /\ \A u \in TCB : noPreempt[u] => noPreempt'[u]
      BY <1>0 DEF TypeOK, HandlerWait, LeaveBlock, Same
    <3> QED
      BY <3>1, OtherCores
  <2> QED
    BY <2>1, <2>2 DEF BlockInv
<1>4. PICK x \in Threads : x = me[c] /\ kind[x] = "left" /\ at[x] = c
  BY <1>1 DEF HandlerWait, OwnedOf
<1>5. PICK kind2 \in [Threads -> Kinds] : kind2 = [kind EXCEPT ![x] = "waits"]
  BY DEF Kinds
<1>6. ASSUME NEW u \in Threads PROVE OwnedOf(kind2, at, u)'
  BY <1>0, <1>1, <1>4, <1>5, Apart DEF TypeOK, HandlerWait, LeaveBlock, OwnedOf, Taken
<1>7. ASSUME NEW u \in Threads PROVE JobOf(kind2, at, u)'
  BY <1>0, <1>1, <1>4, <1>5, Apart
  DEF TypeOK, HandlerWait, LeaveBlock, OwnedOf, JobOf, Leaving, Taken
<1>8. NoDup(readyQ)' /\ NoDup(zombies)'
  BY <1>0 DEF HandlerWait
<1>9. OwnInv' /\ \A u \in Threads : Elsewhere(u)' <=> kind2[u] = "waits"
  BY <1>6, <1>7, <1>8, SomeTable
<1>10. \A u \in Threads : Elsewhere(u) <=> kind[u] = "waits"
  BY <1>1, ElsewhereWaits
<1> QED
  BY <1>2, <1>3, <1>4, <1>5, <1>9, <1>10 DEF CoreInv

\* up() with a thread that waits: it is now in a local variable of up().
LEMMA HeldCore ==
  ASSUME CoreInv, NEW c \in Cores, NEW t \in Threads, NEW j, Executes(c, t, j),
         j \notin {"delete", "free", "wake"}, NEW x \in Threads, Elsewhere(x),
         job' = [job EXCEPT ![t] = "wake"], held' = [held EXCEPT ![t] = x],
         UNCHANGED <<alloc, readyQ, zombies, noPreempt, coreVars>>
  PROVE  CoreInv' /\ \A u \in Threads : Elsewhere(u)' <=> Elsewhere(u) /\ u # x
<1>0. TypeOK /\ NoDup(readyQ) /\ NoDup(zombies)
  BY DEF CoreInv, OwnInv
<1>1. PICK kind \in [Threads -> Kinds], at \in [Threads -> TCB] :
        \A u \in Threads : OwnedOf(kind, at, u) /\ JobOf(kind, at, u)
  BY DEF CoreInv, OwnInv, Owned, JobInv
<1>2. TypeOK'
  BY <1>0 DEF TypeOK, coreVars, Jobs
<1>3. BlockInv'
  BY DEF CoreInv, BlockInv, BlockInvOf, coreVars
<1>4. /\ ~Leaving(kind, at, t) /\ job[t] = j /\ kind[t] = "runs"
      /\ held[t] = None /\ kind[x] = "waits"
      /\ \A u \in Threads : ~(kind[u] = "local" /\ at[u] = t)
  <2>1. kind[x] = "waits"
    BY <1>1, ElsewhereWaits
  <2> QED
    BY <2>1, <1>1, Executing DEF JobOf
<1>5. PICK kind2 \in [Threads -> Kinds], at2 \in [Threads -> TCB] :
        kind2 = [kind EXCEPT ![x] = "local"] /\ at2 = [at EXCEPT ![x] = t]
  BY Apart DEF Kinds
<1>6. ASSUME NEW u \in Threads PROVE OwnedOf(kind2, at2, u)'
  BY <1>0, <1>1, <1>4, <1>5, Apart DEF TypeOK, OwnedOf, coreVars
<1>7. ASSUME NEW u \in Threads PROVE JobOf(kind2, at2, u)'
  <2>1. CASE u = x
    BY <1>0, <1>1, <1>4, <1>5, <2>1, Apart DEF TypeOK, JobOf, Leaving
  <2>2. CASE u # x
    <3>1. kind2[u] = kind[u] /\ at2[u] = at[u]
      BY <1>5, <2>2
    <3>2. kind[u] = "local" => job'[at[u]] = job[at[u]]
      BY <1>0, <1>1, <1>4 DEF TypeOK, OwnedOf
    <3>3. Leaving(kind2, at2, u)' <=> Leaving(kind, at, u)
      BY <3>1, <3>2 DEF Leaving, coreVars
    <3>4. CASE u = t
      BY <1>0, <1>1, <1>4, <3>3, <3>4, Apart DEF TypeOK, JobOf
    <3>5. CASE u # t
      BY <1>0, <1>1, <3>3, <3>5 DEF TypeOK, JobOf
    <3> QED
      BY <3>4, <3>5
  <2> QED
    BY <2>1, <2>2
<1>8. NoDup(readyQ)' /\ NoDup(zombies)'
  BY <1>0
<1>9. OwnInv' /\ \A u \in Threads : Elsewhere(u)' <=> kind2[u] = "waits"
  BY <1>6, <1>7, <1>8, SomeTable
<1>10. \A u \in Threads : Elsewhere(u) <=> kind[u] = "waits"
  BY <1>1, ElsewhereWaits
<1> QED
  BY <1>2, <1>3, <1>4, <1>5, <1>9, <1>10 DEF CoreInv

\* The schedule() at the end of up(): the thread that was woken is ready.
LEMMA ScheduleCore ==
  ASSUME CoreInv, NEW c \in Cores, NEW t \in Threads, Wake(c, t),
         then[t] \in {"work", "built", "reap"}
  PROVE  CoreInv' /\ SameElsewhere
<1>0. TypeOK /\ NoDup(readyQ) /\ NoDup(zombies) /\ Executes(c, t, "wake")
  BY DEF CoreInv, OwnInv, Wake
<1>1. PICK kind \in [Threads -> Kinds], at \in [Threads -> TCB] :
        \A u \in Threads : OwnedOf(kind, at, u) /\ JobOf(kind, at, u)
  BY DEF CoreInv, OwnInv, Owned, JobInv
<1>2. /\ ~Leaving(kind, at, t) /\ job[t] = "wake" /\ kind[t] = "runs" /\ at[t] = c
      /\ held[t] \in Threads
  <2>1. ~Leaving(kind, at, t) /\ job[t] = "wake" /\ kind[t] = "runs" /\ at[t] = c
    BY <1>0, <1>1, Executing
  <2> QED
    BY <1>0, <1>1, <2>1 DEF JobOf, TypeOK
<1>3. PICK x \in Threads : x = held[t] /\ kind[x] = "local" /\ at[x] = t /\ x # t
  BY <1>1, <1>2 DEF OwnedOf
<1>4. PICK kind2 \in [Threads -> Kinds] : kind2 = [kind EXCEPT ![x] = "ready"]
  BY DEF Kinds
<1>5. /\ readyQ' = Append(readyQ, x) /\ readyQ' \in Seq(Threads) /\ NoDup(readyQ)'
      /\ \A u : In(u, readyQ)' <=> In(u, readyQ) \/ u = x
  <2>1. readyQ \in Seq(Threads) /\ ~In(x, readyQ) /\ readyQ' = Append(readyQ, x)
    BY <1>0, <1>1, <1>3 DEF TypeOK, OwnedOf, Wake
  <2> QED
    BY <1>0, <2>1, AddLast
<1>6. TypeOK'
  BY <1>0, <1>5 DEF TypeOK, Wake, coreVars, Jobs
<1>7. BlockInv'
  BY DEF CoreInv, BlockInv, BlockInvOf, Wake, coreVars
<1>8. ASSUME NEW u \in Threads PROVE OwnedOf(kind2, at, u)'
  BY <1>0, <1>1, <1>2, <1>3, <1>4, <1>5, Apart DEF TypeOK, Wake, OwnedOf, coreVars
<1>9. ASSUME NEW u \in Threads PROVE JobOf(kind2, at, u)'
  <2>1. CASE u = x
    <3>1. ~Leaving(kind, at, x) /\ JobOf(kind, at, x)
      BY <1>1, <1>2, <1>3 DEF Leaving
    <3>2. kind2[x] = "ready"
      BY <1>4
    <3>3. ~Leaving(kind2, at, x)'
      BY <3>2 DEF Leaving
    <3>4. job'[x] = job[x] /\ held'[x] = held[x]
      BY <1>0, <1>3 DEF TypeOK, Wake
    <3> QED
      BY <2>1, <3>1, <3>3, <3>4 DEF JobOf
  <2>2. CASE u # x
    <3>1. kind2[u] = kind[u] /\ (kind[u] = "local" => at[u] # t)
      BY <1>1, <1>3, <1>4, <2>2 DEF OwnedOf
    <3>2. kind[u] = "local" => job'[at[u]] = job[at[u]]
      BY <1>0, <1>1, <3>1 DEF TypeOK, OwnedOf, Wake
    <3>3. Leaving(kind2, at, u)' <=> Leaving(kind, at, u)
      BY <3>1, <3>2 DEF Leaving, Wake, coreVars
    <3>4. CASE u = t
      BY <1>0, <1>1, <1>2, <3>3, <3>4 DEF TypeOK, JobOf, Wake
    <3>5. CASE u # t
      BY <1>0, <1>1, <3>3, <3>5 DEF TypeOK, JobOf, Wake
    <3> QED
      BY <3>4, <3>5
  <2> QED
    BY <2>1, <2>2
<1>10. NoDup(readyQ)' /\ NoDup(zombies)'
  BY <1>0, <1>5 DEF Wake
<1>11. \A u \in Threads : kind2[u] = "waits" <=> kind[u] = "waits"
  BY <1>3, <1>4
<1>12. \A u \in Threads : OwnedOf(kind, at, u)
  BY <1>1
<1>13. OwnInv' /\ SameElsewhere
  BY <1>8, <1>9, <1>10, <1>11, <1>12, NewTable
<1> QED
  BY <1>6, <1>7, <1>13 DEF CoreInv

\* free() of a zombie: no other thread is affected.
LEMMA FreeCore ==
  ASSUME CoreInv, NEW c \in Cores, NEW t \in Threads, Free(c, t)
  PROVE  CoreInv' /\ SameElsewhere
<1>0. TypeOK /\ NoDup(readyQ) /\ NoDup(zombies) /\ Executes(c, t, "free")
  BY DEF CoreInv, OwnInv, Free
<1>1. PICK kind \in [Threads -> Kinds], at \in [Threads -> TCB] :
        \A u \in Threads : OwnedOf(kind, at, u) /\ JobOf(kind, at, u)
  BY DEF CoreInv, OwnInv, Owned, JobInv
<1>2. /\ ~Leaving(kind, at, t) /\ job[t] = "free" /\ kind[t] = "runs" /\ at[t] = c
      /\ held[t] \in Threads
  <2>1. ~Leaving(kind, at, t) /\ job[t] = "free" /\ kind[t] = "runs" /\ at[t] = c
    BY <1>0, <1>1, Executing
  <2> QED
    BY <1>0, <1>1, <2>1 DEF JobOf, TypeOK
<1>3. PICK x \in Threads : x = held[t] /\ kind[x] = "local" /\ at[x] = t /\ x # t
  BY <1>1, <1>2 DEF OwnedOf
<1>4. PICK kind2 \in [Threads -> Kinds] : kind2 = [kind EXCEPT ![x] = "none"]
  BY DEF Kinds
<1>6. TypeOK'
  BY <1>0, <1>3 DEF TypeOK, Free, coreVars, Jobs
<1>7. BlockInv'
  BY DEF CoreInv, BlockInv, BlockInvOf, Free, coreVars
<1>8. ASSUME NEW u \in Threads PROVE OwnedOf(kind2, at, u)'
  BY <1>0, <1>1, <1>2, <1>3, <1>4, Apart DEF TypeOK, Free, OwnedOf, coreVars
<1>9. ASSUME NEW u \in Threads PROVE JobOf(kind2, at, u)'
  <2>1. CASE u = x
    BY <1>0, <1>1, <1>2, <1>3, <1>4, <2>1 DEF TypeOK, Free, JobOf, Leaving
  <2>2. CASE u # x
    <3>1. kind2[u] = kind[u] /\ (kind[u] = "local" => at[u] # t)
      BY <1>1, <1>3, <1>4, <2>2 DEF OwnedOf
    <3>2. kind[u] = "local" => job'[at[u]] = job[at[u]]
      BY <1>0, <1>1, <3>1 DEF TypeOK, OwnedOf, Free
    <3>3. Leaving(kind2, at, u)' <=> Leaving(kind, at, u)
      BY <3>1, <3>2 DEF Leaving, Free, coreVars
    <3>4. CASE u = t
      BY <1>0, <1>1, <1>2, <3>3, <3>4 DEF TypeOK, JobOf, Free
    <3>5. CASE u # t
      BY <1>0, <1>1, <3>3, <3>5 DEF TypeOK, JobOf, Free
    <3> QED
      BY <3>4, <3>5
  <2> QED
    BY <2>1, <2>2
<1>10. NoDup(readyQ)' /\ NoDup(zombies)'
  BY <1>0 DEF Free
<1>11. \A u \in Threads : kind2[u] = "waits" <=> kind[u] = "waits"
  BY <1>3, <1>4
<1>12. \A u \in Threads : OwnedOf(kind, at, u)
  BY <1>1
<1>13. OwnInv' /\ SameElsewhere
  BY <1>8, <1>9, <1>10, <1>11, <1>12, NewTable
<1> QED
  BY <1>6, <1>7, <1>13 DEF CoreInv

\* The end of thread(): the new TCB is ready.
LEMMA BuiltCore ==
  ASSUME CoreInv, NEW c \in Cores, NEW t \in Threads, NEW x \in Workers,
         CreateBuilt(c, t, x)
  PROVE  /\ CoreInv' /\ SameElsewhere
         /\ x # t /\ job[t] = "built" /\ x \notin alloc /\ job[x] \in {"stopped", "work"}
<1>0. /\ TypeOK /\ NoDup(readyQ) /\ NoDup(zombies) /\ Executes(c, t, "built")
      /\ x \in Threads /\ x \in TCB /\ x \notin alloc
  BY Apart DEF CoreInv, OwnInv, CreateBuilt
<1>1. PICK kind \in [Threads -> Kinds], at \in [Threads -> TCB] :
        \A u \in Threads : OwnedOf(kind, at, u) /\ JobOf(kind, at, u)
  BY DEF CoreInv, OwnInv, Owned, JobInv
<1>2. /\ ~Leaving(kind, at, t) /\ job[t] = "built" /\ kind[t] = "runs" /\ at[t] = c
      /\ \A u \in Threads : ~(kind[u] = "local" /\ at[u] = t)
  BY <1>0, <1>1, Executing
<1>3. /\ kind[x] = "none" /\ x # t /\ job[x] \in {"stopped", "work"} /\ held[x] = None
      /\ \A u \in Threads : ~(kind[u] = "local" /\ at[u] = x)
  BY <1>0, <1>1, <1>2, Apart DEF OwnedOf, JobOf, Leaving
<1>4. PICK kind2 \in [Threads -> Kinds] : kind2 = [kind EXCEPT ![x] = "ready"]
  BY DEF Kinds
<1>5. /\ readyQ' \in Seq(Threads) /\ NoDup(readyQ)'
      /\ \A u : In(u, readyQ)' <=> In(u, readyQ) \/ u = x
  <2>1. readyQ \in Seq(Threads) /\ ~In(x, readyQ) /\ readyQ' = Append(readyQ, x)
    BY <1>0, <1>1, <1>3 DEF TypeOK, OwnedOf, CreateBuilt
  <2> QED
    BY <1>0, <2>1, AddLast
<1>6. TypeOK'
  BY <1>0, <1>5 DEF TypeOK, CreateBuilt, coreVars, Jobs
<1>7. BlockInv'
  <2>1. ASSUME NEW d \in Cores PROVE BlockInvOf(d)'
    <3>1. ~Uses(d, x)
      BY <1>0, CoresApart
    <3>2. Same(d) /\ \A u \in TCB : Uses(d, u) /\ noPreempt[u] => noPreempt'[u]
      BY <1>0, <3>1 DEF TypeOK, CreateBuilt, Same, coreVars
    <3> QED
      BY <3>2, OtherCores
  <2> QED
    BY <2>1 DEF BlockInv
<1>8. ASSUME NEW u \in Threads PROVE OwnedOf(kind2, at, u)'
  BY <1>0, <1>1, <1>2, <1>3, <1>4, <1>5, Apart DEF TypeOK, CreateBuilt, OwnedOf, coreVars
<1>9. ASSUME NEW u \in Threads PROVE JobOf(kind2, at, u)'
  <2>0. kind[u] = "local" => job'[at[u]] = job[at[u]]
    BY <1>0, <1>1, <1>2, <1>3 DEF TypeOK, OwnedOf, CreateBuilt
  <2>1. CASE u = x
    BY <1>0, <1>1, <1>2, <1>3, <1>4, <2>1 DEF TypeOK, CreateBuilt, JobOf, Leaving
  <2>2. CASE u # x
    <3>1. kind2[u] = kind[u]
      BY <1>4, <2>2
    <3>3. Leaving(kind2, at, u)' <=> Leaving(kind, at, u)
      BY <3>1, <2>0 DEF Leaving, CreateBuilt, coreVars
    <3>4. CASE u = t
      BY <1>0, <1>1, <1>2, <1>3, <3>3, <3>4 DEF TypeOK, JobOf, CreateBuilt
    <3>5. CASE u # t
      BY <1>0, <1>1, <2>2, <3>3, <3>5 DEF TypeOK, JobOf, CreateBuilt
    <3> QED
      BY <3>4, <3>5
  <2> QED
    BY <2>1, <2>2
<1>10. NoDup(readyQ)' /\ NoDup(zombies)'
  BY <1>0, <1>5 DEF CreateBuilt
<1>11. \A u \in Threads : kind2[u] = "waits" <=> kind[u] = "waits"
  BY <1>3, <1>4
<1>12. \A u \in Threads : OwnedOf(kind, at, u)
  BY <1>1
<1>13. OwnInv' /\ SameElsewhere
  BY <1>8, <1>9, <1>10, <1>11, <1>12, NewTable
<1> QED
  BY <1>0, <1>2, <1>3, <1>6, <1>7, <1>13 DEF CoreInv
-----------------------------------------------------------------------------
(***************************************************************************)
(* Every operation on a semaphore keeps the invariant.                     *)
(***************************************************************************)
\* A thread that executes waits nowhere and is not on its way into a queue; and a
\* semaphore whose lock is free has nobody on the way.
LEMMA NotQueued ==
  ASSUME SemInv, NEW c \in Cores, NEW t \in Threads, NEW j, Executes(c, t, j)
  PROVE  /\ \A s \in Sems : ~In(t, waiting[s])
         /\ \A d \in Cores : sem[d] # None => me[d] # t
         /\ ~Queued(t) /\ sem[c] = None
<1>0. pc[c] = "work" /\ running[c] = t /\ Uses(c, t) /\ t \in TCB
  BY Apart DEF Executes, Uses
<1>1. ~Elsewhere(t) /\ \A s \in Sems : ~In(t, waiting[s])
  BY <1>0 DEF SemInv, WaitInv, Elsewhere
<1>2. sem[c] = None
  BY <1>0 DEF SemInv, LockInv, OnItsWay
<1>3. ASSUME NEW d \in Cores, sem[d] # None, me[d] = t PROVE FALSE
  <2>1. pc[d] # "work" /\ BlockInvOf(d) /\ pc[d] \in BlockPcs
    BY <1>3 DEF SemInv, CoreInv, TypeOK, BlockInv, LockInv, OnItsWay
  <2>2. Uses(d, t)
    BY <1>3, <2>1 DEF BlockInvOf, Uses, Taken, BlockPcs
  <2> QED
    BY <1>0, <2>1, <2>2, CoresApart DEF SemInv
<1> QED
  BY <1>1, <1>2, <1>3, SemaphoresAssumption DEF Queued, Sems

\* No core is inside a section of a lock that is free.
LEMMA NobodyEnters ==
  ASSUME SemInv, NEW s \in Sems, ~taken[s]
  PROVE  \A d \in Cores : sem[d] # s
BY SemaphoresAssumption DEF SemInv, LockInv, OnItsWay, Sems

\* Nothing happens at the heap lock when its count stays and, for every thread,
\* whether it is queued and whether its job is one of those inside.
LEMMA HeapUntouched ==
  ASSUME SemInv, count'[HeapLock] = count[HeapLock],
         \A u \in Threads :
           /\ Queued(u)' <=> Queued(u)
           /\ \/ job'[u] = job[u]
              \/ ~Queued(u) /\ {job[u], job'[u]} \cap {"malloc", "free", "freed"} = {}
              \/ ~Queued(u) /\ {job[u], job'[u]} \subseteq {"malloc", "free", "freed"}
  PROVE  HeapInv'
<1>1. ASSUME NEW u \in Threads PROVE Inside(u)' <=> Inside(u)
  BY DEF Inside
<1>2. ASSUME NEW u \in Threads, Queued(u)' PROVE job'[u] \in {"malloc", "free"}
  BY <1>2 DEF SemInv, HeapInv
<1> QED
  BY <1>1, <1>2 DEF SemInv, HeapInv

\* Who calls down() and up(), on what, and what comes next.
DownUse(j, s, k) ==
  \/ s = HeapLock /\ j = "create" /\ k = "malloc"
  \/ s = HeapLock /\ j = "delete" /\ k = "free"
  \/ s \in UserSems /\ j = "work" /\ k = "work"

UpUse(j, s, k) ==
  \/ s = HeapLock /\ j = "malloc" /\ k = "built"
  \/ s = HeapLock /\ j = "freed" /\ k = "reap"
  \/ s \in UserSems /\ j = "work" /\ k = "work"

\* down() with a unit (semaphore.cc:9).
LEMMA FastKeeps ==
  ASSUME SemInv, NEW c \in Cores, NEW t \in Threads, NEW s \in Sems, NEW j, NEW k,
         Executes(c, t, j), DownUse(j, s, k), DownFast(c, t, s, k)
  PROVE  SemInv'
<1>0. /\ UNCHANGED <<pc, handler, me, intr, taken, waiting, sem, then>>
      /\ job' = [job EXCEPT ![t] = k] /\ count' = [count EXCEPT ![s] = @ - 1]
      /\ ~taken[s] /\ count[s] > 0
  BY DEF DownFast, coreVars
<1>1. CoreInv' /\ SameElsewhere
  BY NextJob DEF SemInv, DownFast, DownUse, Jobs
<1>2. SemTypes /\ SemTypes' /\ ThenInv'
  BY <1>0 DEF SemInv, SemTypes, ThenInv
<1>3. LockInv'
  <2>1. \A d \in Cores : sem[d] # s
    BY <1>0, NobodyEnters
  <2>2. ASSUME NEW d \in Cores PROVE OnItsWay(d)'
    BY <1>0, <1>2, <2>1 DEF SemInv, SemTypes, LockInv, OnItsWay
  <2> QED
    BY <1>0, <2>2 DEF SemInv, LockInv
<1>4. WaitInv'
  BY <1>0, <1>1, <1>2 DEF SemInv, SemTypes, WaitInv, SameElsewhere
<1>5. HeapInv'
  <2>0. /\ job[t] = j /\ job'[t] = k /\ ~Queued(t)
        /\ \A u \in Threads : (Queued(u)' <=> Queued(u)) /\ (u # t => job'[u] = job[u])
    BY <1>0, NotQueued DEF SemInv, CoreInv, TypeOK, Executes, Queued
  <2>1. CASE s = HeapLock
    <3>1. count[HeapLock] = 1 /\ count'[HeapLock] = 0
      BY <1>0, <1>2, <2>1 DEF SemInv, SemTypes, HeapInv
    <3>2. ASSUME NEW u \in Threads PROVE Inside(u)' <=> u = t
      BY <2>0, <2>1, <3>1, SemaphoresAssumption DEF SemInv, HeapInv, Inside, DownUse
    <3>3. ASSUME NEW u \in Threads, Queued(u)' PROVE job'[u] \in {"malloc", "free"}
      BY <2>0, <3>3 DEF SemInv, HeapInv
    <3> QED
      BY <3>1, <3>2, <3>3 DEF HeapInv
  <2>2. CASE s # HeapLock
    <3>1. count'[HeapLock] = count[HeapLock] /\ k = j
      BY <1>0, <1>2, <2>2 DEF SemTypes, Sems, DownUse
    <3> QED
      BY <2>0, <3>1, HeapUntouched
  <2> QED
    BY <2>1, <2>2
<1> QED
  BY <1>1, <1>2, <1>3, <1>4, <1>5 DEF SemInv

\* down() with none, into block() (semaphore.cc:15).
LEMMA BlockKeeps ==
  ASSUME SemInv, NEW c \in Cores, NEW t \in Threads, NEW s \in Sems, NEW j, NEW k,
         Executes(c, t, j), DownUse(j, s, k), DownBlock(c, t, s, k)
  PROVE  SemInv'
<1>0. /\ UNCHANGED <<count, waiting, then>> /\ ~taken[s] /\ count[s] = 0
      /\ job' = [job EXCEPT ![t] = k]
      /\ sem' = [sem EXCEPT ![c] = s] /\ taken' = [taken EXCEPT ![s] = TRUE]
  BY DEF DownBlock
<1>1. CoreInv' /\ SameElsewhere /\ me'[c] = t
  BY BlockCore DEF SemInv, DownBlock, DownUse, Jobs
<1>2. SemTypes /\ SemTypes' /\ ThenInv'
  BY <1>0 DEF SemInv, SemTypes, ThenInv
<1>3. /\ pc'[c] # "work" /\ handler'[c] = "wait" /\ ~intr'[c]
      /\ \A d \in Cores \ {c} : /\ pc'[d] = pc[d] /\ handler'[d] = handler[d]
                                /\ intr'[d] = intr[d] /\ me'[d] = me[d]
  BY DEF SemInv, CoreInv, TypeOK, DownBlock, BlockProtect
<1>4. /\ sem'[c] = s /\ s # None /\ sem[c] = None /\ taken'[s]
      /\ \A d \in Cores \ {c} : sem'[d] = sem[d] /\ sem[d] # s
      /\ \A r \in Sems : r # s => taken'[r] = taken[r]
  BY <1>0, <1>2, NobodyEnters, NotQueued, SemaphoresAssumption DEF SemTypes, Sems
<1>5. LockInv'
  <2>1. OnItsWay(c)'
    BY <1>0, <1>1, <1>3, <1>4 DEF OnItsWay
  <2>2. ASSUME NEW d \in Cores \ {c} PROVE OnItsWay(d)'
    <3>1. sem[d] # None => sem[d] \in Sems /\ taken'[sem[d]] = taken[sem[d]]
      BY <1>2, <1>4 DEF SemTypes
    <3>2. OnItsWay(d)
      BY DEF SemInv, LockInv
    <3> QED
      BY <1>0, <1>3, <1>4, <3>1, <3>2 DEF OnItsWay
  <2>3. \A r \in Sems : taken'[r] => \E d \in Cores : sem'[d] = r
    <3>1. \A r \in Sems : r # None /\ (taken[r] => \E d \in Cores : sem[d] = r)
      BY SemaphoresAssumption DEF SemInv, LockInv, Sems
    <3> QED
      BY <1>4, <3>1
  <2>4. \A d, e \in Cores : sem'[d] # None /\ sem'[d] = sem'[e] => d = e
    BY <1>4 DEF SemInv, LockInv
  <2> QED
    BY <2>1, <2>2, <2>3, <2>4 DEF LockInv
<1>6. WaitInv'
  BY <1>0, <1>1 DEF SemInv, WaitInv, SameElsewhere
<1>7. HeapInv'
  <2>0. /\ job[t] = j /\ job'[t] = k /\ ~Queued(t)
        /\ \A u \in Threads : u # t => job'[u] = job[u]
    BY <1>0, NotQueued DEF SemInv, CoreInv, TypeOK, Executes
  <2>1. ASSUME NEW u \in Threads
        PROVE  Queued(u)' <=> Queued(u) \/ (s = HeapLock /\ u = t)
    <3>1. sem[c] # HeapLock
      BY <1>4, SemaphoresAssumption DEF Sems
    <3> QED
      BY <1>0, <1>1, <1>3, <1>4, <3>1 DEF Queued
  <2>2. CASE s = HeapLock
    <3>1. ASSUME NEW u \in Threads
          PROVE  (Inside(u)' <=> Inside(u)) /\ (Queued(u)' => job'[u] \in {"malloc", "free"})
      BY <2>0, <2>1, <2>2, SemaphoresAssumption DEF SemInv, HeapInv, Inside, DownUse
    <3> QED
      BY <1>0, <3>1 DEF SemInv, HeapInv
  <2>3. CASE s # HeapLock
    <3>1. k = j
      BY <2>3 DEF DownUse
    <3> QED
      BY <1>0, <2>0, <2>1, <2>3, <3>1, HeapUntouched
  <2> QED
    BY <2>2, <2>3
<1> QED
  BY <1>1, <1>2, <1>5, <1>6, <1>7 DEF SemInv

\* The handler of down() (semaphore.cc:16).
LEMMA WaitKeeps ==
  ASSUME SemInv, NEW c \in Cores, HandlerWait(c)
  PROVE  /\ SemInv'
         /\ sem[c] \in Sems /\ me[c] \in Threads /\ count[sem[c]] = 0
         /\ \A r \in Sems : ~In(me[c], waiting[r])
<1>1. PICK x, s : x = me[c] /\ s = sem[c]
  OBVIOUS
<1>2. /\ SemTypes /\ s \in Sems /\ s # None /\ x \in Threads /\ count[s] = 0 /\ OnItsWay(c)
  BY <1>1, SemaphoresAssumption
  DEF SemInv, SemTypes, LockInv, OnItsWay, HandlerWait, Sems
<1>3. \A r \in Sems : ~In(x, waiting[r])
  <2>1. Uses(c, x)
    BY <1>1 DEF HandlerWait, Uses
  <2> QED
    BY <1>2, <2>1 DEF SemInv, WaitInv, Elsewhere
<1>4. CoreInv' /\ \A u \in Threads : Elsewhere(u)' <=> Elsewhere(u) \/ u = x
  BY <1>1, <1>2, WaitCore DEF SemInv
<1>5. /\ UNCHANGED <<count, job, then>> /\ waiting' = [waiting EXCEPT ![s] = Append(@, x)]
      /\ taken' = [taken EXCEPT ![s] = FALSE] /\ sem' = [sem EXCEPT ![c] = None]
      /\ pc'[c] = "work"
      /\ \A d \in Cores \ {c} : /\ pc'[d] = pc[d] /\ handler'[d] = handler[d]
                                /\ intr'[d] = intr[d] /\ me'[d] = me[d]
  BY <1>1 DEF SemInv, CoreInv, TypeOK, HandlerWait, LeaveBlock
<1>6. /\ waiting'[s] \in Seq(Threads) /\ NoDup(waiting'[s])
      /\ \A u : In(u, waiting'[s]) <=> In(u, waiting[s]) \/ u = x
      /\ \A r \in Sems : r # s => waiting'[r] = waiting[r] /\ taken'[r] = taken[r]
      /\ ~taken'[s] /\ sem'[c] = None
      /\ \A d \in Cores \ {c} : sem'[d] = sem[d] /\ sem[d] # s
  <2>1. NoDup(waiting[s])
    BY <1>2 DEF SemInv, WaitInv
  <2>2. waiting[s] \in Seq(Threads) /\ waiting'[s] = Append(waiting[s], x)
    BY <1>2, <1>5 DEF SemTypes
  <2>3. /\ waiting'[s] \in Seq(Threads) /\ NoDup(waiting'[s])
        /\ \A u : In(u, waiting'[s]) <=> In(u, waiting[s]) \/ u = x
    BY <1>2, <1>3, <2>1, <2>2, AddLast
  <2>4. \A d \in Cores \ {c} : sem[d] # s
    BY <1>1, <1>2 DEF SemInv, LockInv
  <2> QED
    BY <1>2, <1>5, <2>3, <2>4 DEF SemTypes
<1>7. SemTypes' /\ ThenInv'
  BY <1>2, <1>5, <1>6 DEF SemInv, SemTypes, ThenInv
<1>8. LockInv'
  <2>1. OnItsWay(c)'
    BY <1>5, <1>6 DEF OnItsWay
  <2>2. ASSUME NEW d \in Cores \ {c} PROVE OnItsWay(d)'
    <3>1. sem[d] # None => sem[d] \in Sems /\ taken'[sem[d]] = taken[sem[d]]
      BY <1>2, <1>6 DEF SemTypes
    <3>2. OnItsWay(d)
      BY DEF SemInv, LockInv
    <3> QED
      BY <1>5, <1>6, <3>1, <3>2 DEF OnItsWay
  <2>3. \A r \in Sems : taken'[r] => \E d \in Cores : sem'[d] = r
    <3>1. \A r \in Sems : taken[r] => \E d \in Cores : sem[d] = r
      BY DEF SemInv, LockInv
    <3> QED
      BY <1>1, <1>6, <3>1
  <2>4. \A d, e \in Cores : sem'[d] # None /\ sem'[d] = sem'[e] => d = e
    BY <1>6 DEF SemInv, LockInv
  <2> QED
    BY <2>1, <2>2, <2>3, <2>4 DEF LockInv
<1>9. WaitInv'
  <2>1. \A r \in Sems : NoDup(waiting'[r]) /\ (count'[r] > 0 => waiting'[r] = << >>)
    BY <1>2, <1>5, <1>6 DEF SemInv, WaitInv
  <2>2. \A u \in Threads, r \in Sems :
          In(u, waiting'[r]) <=> In(u, waiting[r]) \/ (u = x /\ r = s)
    BY <1>6
  <2>3. \A u \in Threads : Elsewhere(u)' <=> \E r \in Sems : In(u, waiting'[r])
    BY <1>2, <1>4, <2>2 DEF SemInv, WaitInv
  <2>4. \A u \in Threads, q, r \in Sems :
          In(u, waiting'[q]) /\ In(u, waiting'[r]) => q = r
    BY <1>3, <2>2 DEF SemInv, WaitInv
  <2> QED
    BY <2>1, <2>3, <2>4 DEF WaitInv
<1>10. HeapInv'
  <2>1. HeapLock \in Sems /\ HeapLock # None
    BY SemaphoresAssumption DEF Sems
  <2>2. ASSUME NEW u \in Threads PROVE Queued(u)' <=> Queued(u)
    <3>1. In(u, waiting'[HeapLock]) <=> In(u, waiting[HeapLock]) \/ (u = x /\ HeapLock = s)
      BY <1>6, <2>1
    <3>2. (\E d \in Cores : sem[d] = HeapLock /\ me[d] = u)
            <=> \/ u = x /\ HeapLock = s
                \/ \E d \in Cores : sem'[d] = HeapLock /\ me'[d] = u
      BY <1>1, <1>5, <1>6, <2>1
    <3> QED
      BY <3>1, <3>2 DEF Queued
  <2> QED
    BY <1>5, <2>2, HeapUntouched
<1> QED
  BY <1>1, <1>2, <1>3, <1>4, <1>7, <1>8, <1>9, <1>10 DEF SemInv

\* up() with nobody waiting (semaphore.cc:31).
LEMMA CountKeeps ==
  ASSUME SemInv, NEW c \in Cores, NEW t \in Threads, NEW s \in Sems, NEW j, NEW k,
         Executes(c, t, j), UpUse(j, s, k), UpCount(c, t, s, k)
  PROVE  SemInv'
<1>0. /\ UNCHANGED <<pc, handler, me, intr, taken, waiting, sem, then>>
      /\ job' = [job EXCEPT ![t] = k] /\ count' = [count EXCEPT ![s] = @ + 1]
      /\ ~taken[s] /\ waiting[s] = << >>
  BY DEF UpCount, coreVars
<1>1. CoreInv' /\ SameElsewhere
  BY NextJob DEF SemInv, UpCount, UpUse, Jobs
<1>2. SemTypes /\ SemTypes' /\ ThenInv'
  BY <1>0 DEF SemInv, SemTypes, ThenInv
<1>3. LockInv'
  <2>1. \A d \in Cores : sem[d] # s
    BY <1>0, NobodyEnters
  <2>2. ASSUME NEW d \in Cores PROVE OnItsWay(d)'
    BY <1>0, <1>2, <2>1 DEF SemInv, SemTypes, LockInv, OnItsWay
  <2> QED
    BY <1>0, <2>2 DEF SemInv, LockInv
<1>4. WaitInv'
  BY <1>0, <1>1, <1>2 DEF SemInv, SemTypes, WaitInv, SameElsewhere
<1>5. HeapInv'
  <2>0. /\ job[t] = j /\ job'[t] = k /\ ~Queued(t)
        /\ \A u \in Threads : (Queued(u)' <=> Queued(u)) /\ (u # t => job'[u] = job[u])
    BY <1>0, NotQueued DEF SemInv, CoreInv, TypeOK, Executes, Queued
  <2>1. CASE s = HeapLock
    <3>0. j \in {"malloc", "freed"} /\ k \in {"built", "reap"}
      BY <2>1, SemaphoresAssumption DEF UpUse
    <3>1. Inside(t) /\ count[HeapLock] = 0 /\ count'[HeapLock] = 1
      BY <1>0, <1>2, <2>0, <2>1, <3>0 DEF SemInv, SemTypes, HeapInv, Inside
    <3>2. ASSUME NEW u \in Threads PROVE ~Inside(u)'
      BY <2>0, <3>0, <3>1 DEF SemInv, HeapInv, Inside
    <3>3. ASSUME NEW u \in Threads, Queued(u)' PROVE job'[u] \in {"malloc", "free"}
      BY <2>0, <3>3 DEF SemInv, HeapInv
    <3> QED
      BY <3>1, <3>2, <3>3 DEF HeapInv
  <2>2. CASE s # HeapLock
    <3>1. count'[HeapLock] = count[HeapLock] /\ k = j
      BY <1>0, <1>2, <2>2 DEF SemTypes, Sems, UpUse
    <3> QED
      BY <2>0, <3>1, HeapUntouched
  <2> QED
    BY <2>1, <2>2
<1> QED
  BY <1>1, <1>2, <1>3, <1>4, <1>5 DEF SemInv

\* up() with a thread that waits: the first in the queue, and only that one, goes
\* on, and gets the unit (semaphore.cc:34).
LEMMA HandOverKeeps ==
  ASSUME SemInv, NEW c \in Cores, NEW t \in Threads, NEW s \in Sems, NEW j, NEW k,
         Executes(c, t, j), UpUse(j, s, k), UpWake(c, t, s, k)
  PROVE  SemInv'
<1>1. PICK x : x = Head(waiting[s])
  OBVIOUS
<1>2. /\ SemTypes /\ NoDup(waiting[s]) /\ waiting[s] # << >> /\ ~taken[s]
      /\ waiting[s] \in Seq(Threads)
  BY DEF SemInv, SemTypes, WaitInv, UpWake
<1>3. /\ UNCHANGED <<pc, handler, me, intr, count, taken, sem>>
      /\ job' = [job EXCEPT ![t] = "wake"] /\ held' = [held EXCEPT ![t] = x]
      /\ waiting' = [waiting EXCEPT ![s] = Tail(@)] /\ then' = [then EXCEPT ![t] = k]
  BY <1>1 DEF UpWake, coreVars
<1>4. /\ x \in Threads /\ In(x, waiting[s])
      /\ waiting'[s] \in Seq(Threads) /\ NoDup(waiting'[s])
      /\ \A u : In(u, waiting'[s]) <=> In(u, waiting[s]) /\ u # x
      /\ \A r \in Sems : r # s => waiting'[r] = waiting[r]
  <2>1. waiting'[s] = Tail(waiting[s]) /\ \A r \in Sems : r # s => waiting'[r] = waiting[r]
    BY <1>2, <1>3 DEF SemTypes
  <2> QED
    BY <1>1, <1>2, <2>1, RemoveFirst
<1>5. Elsewhere(x) /\ x # t
  BY <1>4, NotQueued DEF SemInv, WaitInv
<1>6. CoreInv' /\ \A u \in Threads : Elsewhere(u)' <=> Elsewhere(u) /\ u # x
  <2>1. j \notin {"delete", "free", "wake"}
    BY DEF UpUse
  <2> QED
    BY <1>3, <1>4, <1>5, <2>1, HeldCore DEF SemInv, UpWake
<1>7. SemTypes' /\ ThenInv'
  BY <1>2, <1>3, <1>4 DEF SemInv, SemTypes, ThenInv, UpUse, Jobs
<1>8. LockInv'
  BY <1>3 DEF SemInv, LockInv, OnItsWay
<1>9. WaitInv'
  <2>1. \A r \in Sems : NoDup(waiting'[r]) /\ (count'[r] > 0 => waiting'[r] = << >>)
    BY <1>2, <1>3, <1>4 DEF SemInv, WaitInv
  <2>2. \A u \in Threads, r \in Sems :
          In(u, waiting'[r]) <=> In(u, waiting[r]) /\ ~(u = x /\ r = s)
    BY <1>4
  <2>3. \A u \in Threads, q, r \in Sems :
          In(u, waiting[q]) /\ In(u, waiting[r]) => q = r
    BY DEF SemInv, WaitInv
  <2>4. \A u \in Threads : Elsewhere(u)' <=> \E r \in Sems : In(u, waiting'[r])
    BY <1>4, <1>6, <2>2, <2>3 DEF SemInv, WaitInv
  <2> QED
    BY <2>1, <2>2, <2>3, <2>4 DEF WaitInv
<1>10. HeapInv'
  <2>0. /\ job[t] = j /\ job'[t] = "wake" /\ ~Queued(t)
        /\ \A u \in Threads : u # t => job'[u] = job[u]
    BY <1>3, NotQueued DEF SemInv, CoreInv, TypeOK, Executes
  <2>1. CASE s = HeapLock
    <3>1. Inside(t) /\ count[HeapLock] = 0 /\ count'[HeapLock] = 0
      BY <1>3, <2>0, <2>1, SemaphoresAssumption DEF SemInv, HeapInv, Inside, UpUse
    <3>2. \A d \in Cores : sem[d] # HeapLock
      BY <1>2, <2>1, NobodyEnters
    <3>3. ASSUME NEW u \in Threads PROVE Queued(u)' <=> Queued(u) /\ u # x
      BY <1>3, <1>4, <2>1, <3>2 DEF Queued
    <3>4. Queued(x) /\ job[x] \in {"malloc", "free"}
      BY <1>4, <2>1 DEF SemInv, HeapInv, Queued
    <3>5. \A u \in Threads : Inside(u) <=> u = t
      BY <3>1 DEF SemInv, HeapInv
    <3>6. ASSUME NEW u \in Threads PROVE Inside(u)' <=> u = x
      BY <1>5, <2>0, <3>3, <3>4, <3>5 DEF Inside
    <3>7. ASSUME NEW u \in Threads, Queued(u)' PROVE job'[u] \in {"malloc", "free"}
      BY <2>0, <3>3, <3>7 DEF SemInv, HeapInv
    <3> QED
      BY <1>4, <3>1, <3>6, <3>7 DEF HeapInv
  <2>2. CASE s # HeapLock
    <3>1. j = "work" /\ waiting'[HeapLock] = waiting[HeapLock]
      BY <1>4, <2>2 DEF UpUse, Sems
    <3>2. \A u \in Threads : Queued(u)' <=> Queued(u)
      BY <1>3, <3>1 DEF Queued
    <3>3. count'[HeapLock] = count[HeapLock]
      BY <1>3
    <3> QED
      BY <2>0, <3>1, <3>2, <3>3, HeapUntouched
  <2> QED
    BY <2>1, <2>2
<1> QED
  BY <1>6, <1>7, <1>8, <1>9, <1>10 DEF SemInv

\* The rest: the schedule() of up(), free(), and the end of thread().
LEMMA OtherKeeps ==
  ASSUME SemInv, NEW c \in Cores, NEW t \in Threads,
         Wake(c, t) \/ Free(c, t) \/ \E x \in Workers : CreateBuilt(c, t, x)
  PROVE  SemInv'
<1>1. CoreInv' /\ SameElsewhere
  BY ScheduleCore, FreeCore, BuiltCore DEF SemInv, ThenInv
<1>2. UNCHANGED <<pc, handler, me, intr, count, taken, waiting, sem>>
  BY DEF Wake, Free, CreateBuilt, coreVars, semVars
<1>3. SemTypes' /\ ThenInv'
  BY <1>2 DEF SemInv, SemTypes, ThenInv, Wake, Free, CreateBuilt, semVars, Jobs
<1>4. LockInv'
  BY <1>2 DEF SemInv, LockInv, OnItsWay
<1>5. WaitInv'
  BY <1>1, <1>2 DEF SemInv, WaitInv, SameElsewhere
<1>6. HeapInv'
  <2>1. \A u \in Threads : Queued(u)' <=> Queued(u)
    BY <1>2 DEF Queued
  <2>2. ~Queued(t)
    BY NotQueued DEF Wake, Free, CreateBuilt
  <2>3. CASE Wake(c, t) \/ Free(c, t)
    BY <1>2, <2>1, <2>2, <2>3, HeapUntouched
    DEF SemInv, CoreInv, TypeOK, ThenInv, Wake, Free, Executes
  <2>4. ASSUME NEW x \in Workers, CreateBuilt(c, t, x) PROVE HeapInv'
    <3>1. x \in Threads /\ job[t] = "built" /\ job[x] \in {"stopped", "work"}
      BY <2>4, BuiltCore, Apart DEF SemInv
    <3>2. ~Queued(x)
      BY <3>1 DEF SemInv, HeapInv
    <3> QED
      BY <1>2, <2>1, <2>2, <2>4, <3>1, <3>2, HeapUntouched
      DEF SemInv, CoreInv, TypeOK, CreateBuilt
  <2> QED
    BY <2>3, <2>4
<1> QED
  BY <1>1, <1>3, <1>4, <1>5, <1>6 DEF SemInv

\* Every step keeps the invariant.
LEMMA SemStep == SemInv /\ [SemNext]_allVars => SemInv'
<1> SUFFICES ASSUME SemInv, [SemNext]_allVars PROVE SemInv'
  OBVIOUS
<1>1. HeapLock \in Sems /\ \A s \in UserSems : s \in Sems
  BY DEF Sems
<1>2. ASSUME NEW c \in Cores, NEW t \in Threads, NEW s \in Sems, NEW j, NEW k,
             Executes(c, t, j), DownUse(j, s, k), Down(c, t, s, k)
      PROVE  SemInv'
  BY <1>2, FastKeeps, BlockKeeps DEF Down
<1>3. ASSUME NEW c \in Cores, NEW t \in Threads, NEW s \in Sems, NEW j, NEW k,
             Executes(c, t, j), UpUse(j, s, k), Up(c, t, s, k)
      PROVE  SemInv'
  BY <1>3, CountKeeps, HandOverKeeps DEF Up
<1>4. ASSUME NEW c \in Cores, NEW t \in Threads, HeapStep(c, t) PROVE SemInv'
  <2>1. CASE MallocLock(c, t)
    BY <1>1, <1>2, <2>1 DEF MallocLock, DownUse
  <2>2. CASE MallocUnlock(c, t)
    BY <1>1, <1>3, <2>2 DEF MallocUnlock, UpUse
  <2>3. CASE FreeLock(c, t)
    BY <1>1, <1>2, <2>3 DEF FreeLock, DownUse
  <2>4. CASE FreeUnlock(c, t)
    BY <1>1, <1>3, <2>4 DEF FreeUnlock, UpUse
  <2>5. CASE Free(c, t)
    BY <2>5, OtherKeeps
  <2> QED
    BY <1>4, <2>1, <2>2, <2>3, <2>4, <2>5 DEF HeapStep
<1>5. ASSUME NEW c \in Cores, NEW t \in Threads, NEW s \in UserSems,
             UserDown(c, t, s) \/ UserUp(c, t, s)
      PROVE  SemInv'
  BY <1>1, <1>2, <1>3, <1>5 DEF UserDown, UserUp, DownUse, UpUse
<1>6. ASSUME NEW c \in Cores, NEW t \in Threads, PlainStep(c, t) PROVE SemInv'
  BY <1>6, PlainKeeps DEF PlainStep, PlainNext
<1>7. ASSUME NEW c \in Cores, SemCoreStep(c) PROVE SemInv'
  BY <1>7, PlainKeeps, WaitKeeps DEF SemCoreStep, PlainNext
<1>8. CASE UNCHANGED allVars
  <2>1. UNCHANGED vars /\ UNCHANGED semVars
    BY <1>8 DEF allVars
  <2>2. CoreInv' /\ SameElsewhere
    BY <2>1, CoreStep DEF SemInv
  <2> QED
    BY <2>1, <2>2 DEF vars, coreVars, semVars, SemInv, SemTypes, LockInv, OnItsWay,
       WaitInv, SameElsewhere, HeapInv, Inside, Queued, ThenInv
<1> QED
  BY <1>4, <1>5, <1>6, <1>7, <1>8, OtherKeeps DEF SemNext, SemThreadStep
-----------------------------------------------------------------------------
(***************************************************************************)
(* The theorems.                                                           *)
(***************************************************************************)
\* SemInv holds in every reachable state (semaphore.cc, threads.h, heap.cc).
THEOREM SemInvariance == SemSpec => []SemInv
BY InitSem, SemStep, PTL DEF SemSpec

\* A thread is in one place, the queues of the semaphores included, as long as it
\* is allocated: no up() wakes it twice, none loses it, and nobody frees it while
\* it waits (semaphore.cc down and up, threads.cc).
THEOREM OneOwnerWithWaiters == SemSpec => []SemExclusiveOwner
<1>1. SemInv => SemExclusiveOwner
  <2> SUFFICES ASSUME SemInv, NEW t \in Threads
      PROVE  Cardinality(Holders(t)
               \cup UNION {{<<"waits", s, i>> : i \in {i \in DOMAIN waiting[s] :
                                                        waiting[s][i] = t}} : s \in Sems})
               = IF t \in alloc THEN 1 ELSE 0
    BY DEF SemExclusiveOwner
  <2> DEFINE W == UNION {{<<"waits", s, i>> : i \in {i \in DOMAIN waiting[s] :
                                                waiting[s][i] = t}} : s \in Sems}
  <2>1. /\ \A s \in Sems : DOMAIN waiting[s] = 1..Len(waiting[s]) /\ NoDup(waiting[s])
        /\ Elsewhere(t) <=> \E s \in Sems : In(t, waiting[s])
        /\ \A r, s \in Sems : In(t, waiting[r]) /\ In(t, waiting[s]) => r = s
    BY DEF SemInv, SemTypes, WaitInv
  <2>2. \A w : w \in W <=> \E s \in Sems : \E i \in DOMAIN waiting[s] :
                             waiting[s][i] = t /\ w = <<"waits", s, i>>
    OBVIOUS
  <2>3. CASE Elsewhere(t)
    <3>1. PICK s \in Sems : In(t, waiting[s])
      BY <2>1, <2>3
    <3>2. PICK i \in DOMAIN waiting[s] : waiting[s][i] = t
      BY <2>1, <3>1 DEF In
    <3>3. \A w : w \in W <=> w = <<"waits", s, i>>
      <4>1. \A r \in Sems : \A k \in DOMAIN waiting[r] : waiting[r][k] = t => r = s /\ k = i
        BY <2>1, <3>1, <3>2 DEF In, NoDup
      <4> QED
        BY <2>2, <3>2, <4>1
    <3>4. Holders(t) = {} /\ t \in alloc
      BY <2>3, OnePlace DEF SemInv, Elsewhere
    <3>5. Holders(t) \cup W = {<<"waits", s, i>>}
      BY <3>3, <3>4
    <3> QED
      BY <3>4, <3>5, FS_Singleton
  <2>4. CASE ~Elsewhere(t)
    <3>1. W = {}
      BY <2>1, <2>2, <2>4 DEF In
    <3>2. CASE t \in alloc
      <4>1. PICK x : Holders(t) = {x}
        BY <2>4, <3>2, OnePlace DEF SemInv
      <4>2. Holders(t) \cup W = {x}
        BY <3>1, <4>1
      <4> QED
        BY <3>2, <4>2, FS_Singleton
    <3>3. CASE t \notin alloc
      <4>1. Holders(t) \cup W = {}
        BY <3>1, <3>3, OnePlace DEF SemInv
      <4> QED
        BY <3>3, <4>1, FS_EmptySet
    <3> QED
      BY <3>2, <3>3
  <2> QED
    BY <2>3, <2>4
<1> QED
  BY SemInvariance, <1>1, PTL

\* The ISL of a semaphore, taken in down(), is released by the handler on another
\* stack: meanwhile one core only has it, with interrupts off (semaphore.cc:21).
THEOREM LockIsHandedOver == SemSpec => []LockCrossesSwitch
<1>1. SemInv => LockCrossesSwitch
  <2> SUFFICES ASSUME SemInv, NEW s \in Sems
      PROVE  /\ taken[s] <=> Entering(s) # {}
             /\ \A c, d \in Entering(s) : c = d
             /\ \A c \in Entering(s) : ~intr[c] /\ pc[c] # "work"
    BY DEF LockCrossesSwitch
  <2>1. s # None
    BY SemaphoresAssumption DEF Sems
  <2> QED
    BY <2>1 DEF SemInv, LockInv, OnItsWay, Entering
<1> QED
  BY SemInvariance, <1>1, PTL

\* No unit is lost between down() and up(): none lies idle while a thread waits or
\* is about to, and the heap lock is free, or with the one thread that is in malloc
\* or free (semaphore.cc:4-41, heap.cc:148 and 196).
THEOREM UnitsAreAccounted == SemSpec => []UnitsAccounted
<1>1. SemInv => SemTypeOK
  BY DEF SemInv, CoreInv, SemTypes, SemTypeOK
<1>2. SemInv => NoIdleUnit
  <2> SUFFICES ASSUME SemInv, NEW s \in Sems, count[s] > 0
               PROVE  waiting[s] = << >> /\ Entering(s) = {}
    BY DEF NoIdleUnit
  <2>1. s # None
    BY SemaphoresAssumption DEF Sems
  <2> QED
    BY <2>1 DEF SemInv, WaitInv, LockInv, OnItsWay, Entering
<1>3. SemInv => HeapUnit
  <2> SUFFICES ASSUME SemInv PROVE count[HeapLock] + Cardinality(InHeap) = 1
    BY DEF HeapUnit
  <2>1. \A t \in Threads : t \in InHeap <=> Inside(t)
    BY DEF SemInv, SemTypes, Sems, InHeap, Inside, Queued, In, Entering
  <2>2. InHeap \subseteq Threads
    BY DEF InHeap
  <2>3. CASE count[HeapLock] = 1 /\ \A t \in Threads : ~Inside(t)
    <3>1. InHeap = {}
      BY <2>1, <2>2, <2>3
    <3> QED
      BY <2>3, <3>1, FS_EmptySet
  <2>4. CASE /\ count[HeapLock] = 0
             /\ \E x \in Threads : \A t \in Threads : Inside(t) <=> t = x
    <3>1. PICK x \in Threads : \A t \in Threads : Inside(t) <=> t = x
      BY <2>4
    <3>2. InHeap = {x}
      BY <2>1, <2>2, <3>1
    <3>3. Cardinality(InHeap) = 1
      BY <3>2, FS_Singleton
    <3> QED
      BY <2>4, <3>3
  <2> QED
    BY <2>3, <2>4 DEF SemInv, HeapInv
<1>4. SemInv => UnitsAccounted
  BY <1>1, <1>2, <1>3 DEF UnitsAccounted
<1> QED
  BY SemInvariance, <1>4, PTL

\* The semaphores implement counting semaphores whose operations happen at once:
\* down() with none takes effect when its handler enqueues the thread, all other
\* operations where they hold the lock (semaphore.h, semaphore.cc).
THEOREM AreCountingSemaphores == SemSpec => IsCountingSemaphores
<1>1. SemInit => Counting!Init
  BY DEF SemInit, Counting!Init
<1>2. ASSUME SemInv, [SemNext]_allVars
      PROVE  [Counting!Next]_<<count, waiting>>
  <2>1. HeapLock \in Sems /\ UserSems \subseteq Sems
    BY DEF Sems
  <2>2. ASSUME NEW c \in Cores, NEW t \in Threads, NEW s \in Sems, NEW k,
               Down(c, t, s, k) \/ Up(c, t, s, k)
        PROVE  [Counting!Next]_<<count, waiting>>
    <3>1. CASE DownFast(c, t, s, k)
      BY <3>1 DEF DownFast, Counting!Next, Counting!Take
    <3>2. CASE DownBlock(c, t, s, k)
      BY <3>2 DEF DownBlock
    <3>3. CASE UpCount(c, t, s, k)
      BY <3>3 DEF UpCount, Counting!Next, Counting!Add
    <3>4. CASE UpWake(c, t, s, k)
      BY <3>4 DEF UpWake, Counting!Next, Counting!HandOver
    <3> QED
      BY <2>2, <3>1, <3>2, <3>3, <3>4 DEF Down, Up
  <2>3. ASSUME NEW c \in Cores, HandlerWait(c)
        PROVE  [Counting!Next]_<<count, waiting>>
    <3>1. /\ sem[c] \in Sems /\ me[c] \in Threads /\ count[sem[c]] = 0
          /\ \A r \in Sems : ~In(me[c], waiting[r])
      BY <1>2, <2>3, WaitKeeps
    <3>2. \A r \in Sems : \A i \in DOMAIN waiting[r] : waiting[r][i] # me[c]
      BY <1>2, <3>1, SMTT(30) DEF SemInv, SemTypes, In
    <3>3. Counting!Wait(me[c], sem[c])
      BY <2>3, <3>1, <3>2 DEF HandlerWait, Counting!Wait
    <3> QED
      BY <3>1, <3>3 DEF Counting!Next
  <2>4. ASSUME NEW c \in Cores, NEW t \in Threads,
               HeapStep(c, t) \/ \E s \in UserSems : UserDown(c, t, s) \/ UserUp(c, t, s)
        PROVE  [Counting!Next]_<<count, waiting>>
    <3>1. CASE Free(c, t)
      BY <3>1 DEF Free, semVars
    <3>2. CASE ~Free(c, t)
      BY <2>1, <2>2, <2>4, <3>2
      DEF HeapStep, MallocLock, MallocUnlock, FreeLock, FreeUnlock, UserDown, UserUp
    <3> QED
      BY <3>1, <3>2
  <2>5. ASSUME \/ UNCHANGED semVars
               \/ \E c \in Cores, t \in Threads : Wake(c, t)
        PROVE  UNCHANGED <<count, waiting>>
    BY <2>5 DEF semVars, Wake
  <2> QED
    BY <1>2, <2>3, <2>4, <2>5
    DEF SemNext, SemCoreStep, SemThreadStep, PlainStep, CreateBuilt, allVars
<1> QED
  BY SemInvariance, <1>1, <1>2, PTL DEF SemSpec, IsCountingSemaphores, Counting!Spec
=============================================================================
