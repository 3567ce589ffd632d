-------------------------------- MODULE Sync --------------------------------
(***************************************************************************)
(* What the kernel builds from locks, semaphores and block(): condition    *)
(* variables (condition.h), barriers (barrier.h), futures (future.h,       *)
(* future.cc) with the counts of Shared (shared.h), and bounded buffers    *)
(* (bb.h). Threads run short programs of calls on one object of each kind. *)
(*                                                                         *)
(* A section under an InterruptSafeLock is one step (module Locks shows    *)
(* that the lock excludes), down() and up() are the operations of a        *)
(* counting semaphore (module Semaphores shows that they implement it),    *)
(* and the handler that block() runs after the switch is a step of its own.*)
(***************************************************************************)
EXTENDS Integers, Sequences, FiniteSets, SequencesExt

CONSTANTS Threads,
          Programs,  \* set of [Threads -> sequence of calls]
          Values,    \* what set() and put() hand on
          Room,      \* N of the BoundedBuffer
          Party      \* the count that both barriers are made with

Nothing == 0
Calls ==
  [call : {"set", "put"}, value : Values] \cup
  [call : {"sync", "await", "signal", "join", "get", "copy", "drop", "take"}, value : {Nothing}]
Uses(calls, c) == \E i \in DOMAIN calls : calls[i].call = c
\* Which of the last k calls are calls of c, counted from the end.
AmongLast(calls, k, c) == {i \in 1..k : calls[Len(calls) + 1 - i].call = c}
\* The Shareds of the future that a thread with these k calls left has to drop.
ToDrop(calls, k) ==
  Cardinality(AmongLast(calls, k, "drop")) - Cardinality(AmongLast(calls, k, "copy"))
FutureCalls == {"get", "set", "copy", "drop"}

\* A barrier is made for as many threads as come to it, a Barrier for one time
\* (its panic, barrier.h:22); a program has one kind of barrier.
ASSUME SyncAssumption ==
  /\ Room \in Nat \ {0} /\ Party \in Nat \ {0}
  /\ IsFiniteSet(Threads) /\ Nothing \notin Values
  /\ Programs \subseteq [Threads -> Seq(Calls)]
  /\ \A p \in Programs : \E c, d \in {"sync", "join"} :
       /\ c # d /\ \A t \in Threads : ~Uses(p[t], d)
       /\ Cardinality({t \in Threads : Uses(p[t], c)}) \in {0, Party}
       /\ c = "join" => \A t \in Threads : \A i, j \in DOMAIN p[t] :
                          p[t][i].call = c /\ p[t][j].call = c => i = j

\* A thread that will drop a Shared of the future starts with one, uses the
\* future only while it has one, and drops them all (~Shared, shared.h).
ASSUME SharedAssumption ==
  \A p \in Programs : \A t \in Threads :
    /\ ToDrop(p[t], Len(p[t])) = IF Uses(p[t], "drop") THEN 1 ELSE 0
    /\ \A k \in 1..Len(p[t]) :
         p[t][Len(p[t]) + 1 - k].call \in FutureCalls => ToDrop(p[t], k) > 0

VARIABLES todo, pc,                  \* thread -> calls left, and where it is in the first
          units, waiting,            \* semaphore -> its count, and who waits
          epoch, queue,              \* Condition: its epoch and its queue
          rcount, repoch, tokens,    \* ReusableBarrier, and a monitor's state
          bcount,                    \* Barrier
          isReady, result, refs, freed, \* Future and its Shared count
          head, n, data,             \* BoundedBuffer
          seen, round, val,          \* thread -> old_epoch, t, and a value in a local
          entered, left, notified    \* history: calls begun, ended; reached by a notifyAll

sems == <<units, waiting>>
cond == <<epoch, queue>>
monitor == <<rcount, repoch, tokens>>
fut == <<isReady, result, refs, freed>>
buf == <<head, n, data>>
local == <<seen, round, val>>
hist == <<entered, left>>
vars == <<todo, pc, sems, cond, monitor, bcount, fut, buf, local, hist, notified>>

Semaphores == {"barrier", "go", "nEmpty", "nFull", "lock"}

Init ==
  /\ todo \in Programs /\ pc = [t \in Threads |-> "call"]
  /\ units = [s \in Semaphores |-> CASE s = "nEmpty" -> Room [] s = "lock" -> 1 [] OTHER -> 0]
  /\ waiting = [s \in Semaphores |-> << >>]
  /\ epoch = 0 /\ queue = << >>
  /\ rcount = Party /\ repoch = 0 /\ tokens = 0 /\ bcount = Party
  /\ isReady = FALSE /\ result = Nothing /\ freed = FALSE
  /\ refs = Cardinality({t \in Threads : Uses(todo[t], "drop")})
  /\ head = 0 /\ n = 0 /\ data = [i \in 0..Room - 1 |-> Nothing]
  /\ seen = [t \in Threads |-> 0] /\ round = [t \in Threads |-> 0]
  /\ val = [t \in Threads |-> Nothing]
  /\ entered = [t \in Threads |-> 0] /\ left = [t \in Threads |-> 0]
  /\ notified = [t \in Threads |-> FALSE]

Blocked(t) ==
  \/ \E s \in Semaphores : Contains(waiting[s], t)
  \/ Contains(queue, t)
Call(t) == Head(todo[t]).call
\* t runs and is at this place of this call.
In(t, call, place) ==
  todo[t] # << >> /\ Call(t) = call /\ pc[t] = place /\ ~Blocked(t)

Goto(t, place) == pc' = [pc EXCEPT ![t] = place] /\ UNCHANGED <<todo, left>>
Return(t) ==
  /\ pc' = [pc EXCEPT ![t] = "call"] /\ todo' = [todo EXCEPT ![t] = Tail(@)]
  /\ left' = [left EXCEPT ![t] = IF Call(t) \in {"sync", "join"} THEN @ + 1 ELSE @]

Down(t, s) ==
  IF units[s] > 0 THEN units' = [units EXCEPT ![s] = @ - 1] /\ UNCHANGED waiting
                  ELSE waiting' = [waiting EXCEPT ![s] = Append(@, t)] /\ UNCHANGED units
Up(s) ==
  IF waiting[s] = << >> THEN units' = [units EXCEPT ![s] = @ + 1] /\ UNCHANGED waiting
                        ELSE waiting' = [waiting EXCEPT ![s] = Tail(@)] /\ UNCHANGED units
----------------------------------------------------------------------------
\* Condition. wait() up to the handler: remember the epoch, release the lock.
StartWait(t) ==
  /\ seen' = [seen EXCEPT ![t] = epoch] /\ notified' = [notified EXCEPT ![t] = FALSE]
  /\ Goto(t, "leaving")

\* Variant with a bug: the handler does not look at the epoch.
WaitHandlerBlind(t) ==
  /\ pc[t] = "leaving" /\ Goto(t, "woken")
  /\ queue' = Append(queue, t)
  /\ UNCHANGED <<sems, epoch, monitor, bcount, fut, buf, local, entered, notified>>

\* The handler of block(), off the stack of t: with the lock again, t waits
\* only if nobody has notified since; or else it is scheduled at once.
WaitHandler(t) ==
  /\ pc[t] = "leaving" /\ Goto(t, "woken")
  /\ queue' = IF epoch = seen[t] THEN Append(queue, t) ELSE queue
  /\ UNCHANGED <<sems, epoch, monitor, bcount, fut, buf, local, entered, notified>>

\* Variant with a bug: the epoch stays when nobody is in the queue.
NotifyIfQueued(limit) ==
  /\ epoch' = IF queue = << >> THEN epoch ELSE epoch + 1
  /\ queue' = SubSeq(queue, limit + 1, Len(queue))

\* notify(limit), by a thread that holds the lock.
Notify(limit) ==
  /\ epoch' = epoch + 1
  /\ queue' = SubSeq(queue, limit + 1, Len(queue))

notifyOne == Notify(1) /\ UNCHANGED notified
notifyAll ==
  /\ Notify(Len(queue))
  /\ notified' = [t \in Threads |-> notified[t] \/ pc[t] \in {"leaving", "woken"}]

\* ReusableBarrier::sync up to its first wait, or through it by the thread that
\* finds last left to come, which starts the next round.
ArriveWith(t, last, next) ==
  /\ In(t, "sync", "call")
  /\ entered' = [entered EXCEPT ![t] = @ + 1]
  /\ round' = [round EXCEPT ![t] = repoch]
  /\ IF rcount = last
     THEN rcount' = next /\ repoch' = repoch + 1 /\ notifyAll /\ Return(t) /\ UNCHANGED seen
     ELSE rcount' = rcount - 1 /\ StartWait(t) /\ UNCHANGED <<repoch, cond>>
  /\ UNCHANGED <<sems, tokens, bcount, fut, buf, val>>

\* Variant with a bug: the last but one opens the barrier.
ArriveEarly(t) == ArriveWith(t, 2, Party)

Arrive(t) == ArriveWith(t, 1, Party)

\* while (epoch <= t) wait().
Pass(t) ==
  /\ In(t, "sync", "woken")
  /\ IF repoch <= round[t] THEN StartWait(t) ELSE Return(t) /\ UNCHANGED <<seen, notified>>
  /\ UNCHANGED <<sems, cond, monitor, bcount, fut, buf, round, val, entered>>

\* A client of the condition: wait for a token and take it; or add one.
Await(t) ==
  /\ In(t, "await", "call") \/ In(t, "await", "woken")
  /\ IF tokens = 0 THEN StartWait(t) /\ UNCHANGED tokens
     ELSE tokens' = tokens - 1 /\ Return(t) /\ UNCHANGED <<seen, notified>>
  /\ UNCHANGED <<sems, cond, rcount, repoch, bcount, fut, buf, round, val, entered>>

Signal(t) ==
  /\ In(t, "signal", "call") /\ Return(t)
  /\ tokens' = tokens + 1 /\ notifyOne
  /\ UNCHANGED <<sems, rcount, repoch, bcount, fut, buf, local, entered>>
----------------------------------------------------------------------------
\* Barrier::sync: count.add_fetch(-1), then up, or down and up. It panics below 0.
BarrierCount(t) ==
  /\ In(t, "join", "call")
  /\ bcount' = bcount - 1 /\ entered' = [entered EXCEPT ![t] = @ + 1]
  /\ Goto(t, IF bcount' = 0 THEN "up" ELSE "down")
  /\ UNCHANGED <<sems, cond, monitor, fut, buf, local, notified>>

BarrierTurnstile(t) ==
  /\ \/ In(t, "join", "down") /\ Goto(t, "up") /\ Down(t, "barrier")
     \/ In(t, "join", "up") /\ Return(t) /\ Up("barrier")
  /\ UNCHANGED <<cond, monitor, bcount, fut, buf, local, entered, notified>>
----------------------------------------------------------------------------
\* Future::set: the value, then isReady, then up.
FutureSet(t) ==
  /\ \/ In(t, "set", "call") /\ result' = Head(todo[t]).value /\ Goto(t, "ready") /\ UNCHANGED <<isReady, sems>>
     \/ In(t, "set", "ready") /\ isReady' = TRUE /\ Goto(t, "up") /\ UNCHANGED <<result, sems>>
     \/ In(t, "set", "up") /\ Up("go") /\ Return(t) /\ UNCHANGED <<isReady, result>>
  /\ UNCHANGED <<refs, freed, cond, monitor, bcount, buf, local, entered, notified>>

\* Future::get: isReady, or down and up for the next one; then the value.
FutureGet(t) ==
  /\ \/ In(t, "get", "call") /\ Goto(t, IF isReady THEN "value" ELSE "down") /\ UNCHANGED <<val, sems>>
     \/ In(t, "get", "down") /\ Down(t, "go") /\ Goto(t, "up") /\ UNCHANGED val
     \/ In(t, "get", "up") /\ Up("go") /\ Goto(t, "value") /\ UNCHANGED val
     \/ In(t, "get", "value") /\ val' = [val EXCEPT ![t] = result] /\ Return(t) /\ UNCHANGED sems
  /\ UNCHANGED <<fut, cond, monitor, bcount, buf, seen, round, entered, notified>>

\* Shared: a copy adds one to the count ...
SharedCopy(t) ==
  /\ In(t, "copy", "call") /\ Return(t) /\ refs' = refs + 1
  /\ UNCHANGED <<isReady, result, freed, sems, cond, monitor, bcount, buf, local, entered, notified>>

\* Variant with a bug: the count is read again after it was lowered.
SharedDropTwice(t) ==
  /\ \/ In(t, "drop", "call") /\ refs' = refs - 1 /\ Goto(t, "test") /\ UNCHANGED freed
     \/ In(t, "drop", "test") /\ freed' = (freed \/ refs > 0) /\ Return(t) /\ UNCHANGED refs
  /\ UNCHANGED <<isReady, result, sems, cond, monitor, bcount, buf, local, entered, notified>>

\* ... and drop() takes one off; who finds nothing left deletes the object.
SharedDrop(t) ==
  /\ \/ In(t, "drop", "call") /\ refs' = refs - 1 /\ UNCHANGED freed
        /\ IF refs' = 0 THEN Goto(t, "delete") ELSE Return(t)
     \/ In(t, "drop", "delete") /\ freed' = TRUE /\ Return(t) /\ UNCHANGED refs
  /\ UNCHANGED <<isReady, result, sems, cond, monitor, bcount, buf, local, entered, notified>>
----------------------------------------------------------------------------
\* BoundedBuffer: what put() and get() wait for first, and what they give last.
Wanted(t) == IF Call(t) = "put" THEN "nEmpty" ELSE "nFull"
Given(t) == IF Call(t) = "put" THEN "nFull" ELSE "nEmpty"
InBuffer(t, place) == In(t, "put", place) \/ In(t, "take", place)

\* Variant with a bug: the lock is given back before the data is touched.
BufferSemsUnlocked(t) ==
  /\ \/ InBuffer(t, "call") /\ Down(t, Wanted(t)) /\ Goto(t, "lock")
     \/ InBuffer(t, "lock") /\ UNCHANGED sems /\ Goto(t, "find")
     \/ InBuffer(t, "unlock") /\ UNCHANGED sems /\ Goto(t, "give")
     \/ InBuffer(t, "give") /\ Up(Given(t)) /\ Return(t)
  /\ UNCHANGED <<buf, cond, monitor, bcount, fut, local, entered, notified>>

\* Their three semaphores, in the order of the code.
BufferSems(t) ==
  /\ \/ InBuffer(t, "call") /\ Down(t, Wanted(t)) /\ Goto(t, "lock")
     \/ InBuffer(t, "lock") /\ Down(t, "lock") /\ Goto(t, "find")
     \/ InBuffer(t, "unlock") /\ Up("lock") /\ Goto(t, "give")
     \/ InBuffer(t, "give") /\ Up(Given(t)) /\ Return(t)
  /\ UNCHANGED <<buf, cond, monitor, bcount, fut, local, entered, notified>>

\* Inside: a local has the slot to fill, or the value that comes out.
BufferPut(t) ==
  /\ \/ In(t, "put", "find") /\ Goto(t, "store") /\ UNCHANGED buf
        /\ val' = [val EXCEPT ![t] = (head + n) % Room]
     \/ In(t, "put", "store") /\ Goto(t, "unlock") /\ n' = n + 1
        /\ data' = [data EXCEPT ![val[t]] = Head(todo[t]).value] /\ UNCHANGED <<head, val>>
  /\ UNCHANGED <<sems, cond, monitor, bcount, fut, seen, round, entered, notified>>

BufferGet(t) ==
  /\ \/ In(t, "take", "find") /\ Goto(t, "store") /\ UNCHANGED buf
        /\ val' = [val EXCEPT ![t] = data[head]]
     \/ In(t, "take", "store") /\ Goto(t, "unlock")
        /\ head' = (head + 1) % Room /\ n' = n - 1 /\ UNCHANGED <<data, val>>
  /\ UNCHANGED <<sems, cond, monitor, bcount, fut, seen, round, entered, notified>>
----------------------------------------------------------------------------
Step(t) ==
  \/ WaitHandler(t) \/ Arrive(t) \/ Pass(t) \/ Await(t) \/ Signal(t)
  \/ BarrierCount(t) \/ BarrierTurnstile(t)
  \/ FutureSet(t) \/ FutureGet(t) \/ SharedCopy(t) \/ SharedDrop(t)
  \/ BufferSems(t) \/ BufferPut(t) \/ BufferGet(t)

Next == \E t \in Threads : Step(t)

Spec == Init /\ [][Next]_vars /\ \A t \in Threads : WF_vars(Step(t))
----------------------------------------------------------------------------
\* The type of every variable; both barriers count down from Party, and nobody
\* calls sync() once more than a Barrier was made for (its panic, barrier.h:22).
SyncTypeOK ==
  /\ units \in [Semaphores -> Nat]
  /\ \A s \in Semaphores : waiting[s] \in Seq(Threads)
  /\ epoch \in Nat /\ queue \in Seq(Threads) /\ repoch \in Nat /\ tokens \in Nat
  /\ rcount \in 1..Party /\ bcount \in 0..Party
  /\ isReady \in BOOLEAN /\ freed \in BOOLEAN /\ refs \in Int
  /\ head \in 0..Room - 1 /\ n \in 0..Room
  /\ seen \in [Threads -> Nat] /\ round \in [Threads -> Nat]
  /\ entered \in [Threads -> Nat] /\ left \in [Threads -> Nat]

\* "Guarantee: no missed signals" (condition.h:34): a thread that released the
\* lock in wait() before a notifyAll() is not in the queue after it, although
\* it may not have got there when the notify came.
NoMissedSignal == \A t \in Threads : notified[t] => ~Contains(queue, t)

\* Nobody passes a barrier for the k-th time before everyone has come to it
\* for the k-th time, even if some are still inside of the round before
\* (barrier.h:20-29, 48-67).
Members == {t \in Threads : entered[t] > 0 \/ (todo[t] # << >> /\ Call(t) \in {"sync", "join"})}
NobodyPassesEarly == SyncTypeOK /\ \A t, u \in Members : left[t] <= entered[u]

\* The future is deleted when the last Shared of it is gone, and not before:
\* no thread has anything left to do with it (shared.h:10-24; the task keeps
\* its own until the reaper deletes its TCB, future.cc:8). And a get() that is
\* through its wait, or that found isReady, has a value to return
\* (future.h:26-39). Nobody drops what nobody holds.
FutureSafe ==
  /\ refs >= 0
  /\ freed => /\ refs = 0
              /\ \A t \in Threads : todo[t] # << >> => Call(t) \notin FutureCalls
  /\ \A t \in Threads : In(t, "get", "value") => result # Nothing

\* The array of the buffer with head and n is a bounded queue.
Q == INSTANCE BoundedQueue WITH
       items <- [i \in 1..n |-> data[(head + i - 1) % Room]]
IsBoundedQueue == Q!Spec

\* Every program comes to its end: nobody waits for ever on a condition that
\* was notified, on a barrier that everyone reached, on a future that is set,
\* or on a buffer that has room; and a future nobody holds is deleted.
AllReturn ==
  <>(/\ \A t \in Threads : todo[t] = << >>
     /\ isReady => freed)
=============================================================================
