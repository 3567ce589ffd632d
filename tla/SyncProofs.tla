----------------------------- MODULE SyncProofs -----------------------------
(***************************************************************************)
(* Proofs about Sync.                                                      *)
(***************************************************************************)
EXTENDS Sync, FiniteSetTheorems, TLAPS

-----------------------------------------------------------------------------
(***************************************************************************)
(* The condition variable, for any threads and any programs. A thread on   *)
(* its way into the queue remembers an epoch that is not to come; if a     *)
(* notifyAll() has reached it, that epoch is past.                         *)
(***************************************************************************)
InQueue(t, q) == \E i \in 1..Len(q) : q[i] = t

CondTypes ==
  /\ epoch \in Nat /\ queue \in Seq(Threads)
  /\ seen \in [Threads -> Nat] /\ notified \in [Threads -> BOOLEAN]
  /\ DOMAIN pc = Threads /\ pc = [t \in Threads |-> pc[t]]

EpochInv(t) ==
  /\ seen[t] <= epoch
  /\ notified[t] => ~InQueue(t, queue) /\ (pc[t] = "leaving" => seen[t] < epoch)

CondInv == CondTypes /\ \A t \in Threads : EpochInv(t)

\* Contains is what InQueue says.
LEMMA QueueContains == ASSUME NEW q \in Seq(Threads), NEW t PROVE Contains(q, t) <=> InQueue(t, q)
BY DEF Contains, InQueue

\* Nobody is on the way at the start.
LEMMA InitCond == Init => CondInv
BY DEF Init, CondInv, CondTypes, EpochInv, InQueue

\* What a step does to the place of one thread.
Moves(t) ==
  \E place : pc' = [pc EXCEPT ![t] = place] /\ place # "leaving"

\* A step that puts the thread at a place of its own.
LEMMA PlaceMoves ==
  ASSUME NEW t, NEW place, pc' = [pc EXCEPT ![t] = place], place # "leaving"
  PROVE  Moves(t)
BY DEF Moves

\* Every step but those of wait().
LEMMA GotoMoves ==
  ASSUME NEW t, NEW place, Goto(t, place), place # "leaving"
  PROVE  Moves(t)
BY PlaceMoves DEF Goto

\* The end of a call, back to the program of the thread.
LEMMA ReturnMoves ==
  ASSUME NEW t, Return(t)
  PROVE  Moves(t)
<1>1. pc' = [pc EXCEPT ![t] = "call"] /\ "call" # "leaving"
  BY DEF Return
<1> QED
  BY <1>1, PlaceMoves

\* A step that neither waits nor notifies.
LEMMA MovesKeep ==
  ASSUME CondInv, NEW t \in Threads, Moves(t), UNCHANGED <<epoch, queue, seen, notified>>
  PROVE  CondInv'
<1>1. PICK place : pc' = [pc EXCEPT ![t] = place] /\ place # "leaving"
  BY DEF Moves
<1>2. CondTypes'
  BY <1>1 DEF CondInv, CondTypes
<1>3. ASSUME NEW u \in Threads PROVE EpochInv(u)'
  <2>1. pc'[u] = "leaving" => pc[u] = "leaving"
    BY <1>1 DEF CondInv, CondTypes
  <2> QED
    BY <2>1 DEF CondInv, EpochInv, InQueue
<1> QED
  BY <1>2, <1>3 DEF CondInv

\* wait() begins.
LEMMA StartWaitKeeps ==
  ASSUME CondInv, NEW t \in Threads, StartWait(t), UNCHANGED <<epoch, queue>>
  PROVE  CondInv'
<1>1. /\ seen' = [seen EXCEPT ![t] = epoch] /\ notified' = [notified EXCEPT ![t] = FALSE]
      /\ pc' = [pc EXCEPT ![t] = "leaving"]
  BY DEF StartWait, Goto
<1>2. CondTypes'
  BY <1>1 DEF CondInv, CondTypes
<1>3. ASSUME NEW u \in Threads PROVE EpochInv(u)'
  <2>1. CASE u = t
    BY <1>1, <2>1 DEF CondInv, CondTypes, EpochInv
  <2>2. CASE u # t
    <3>1. seen'[u] = seen[u] /\ notified'[u] = notified[u] /\ pc'[u] = pc[u]
      BY <1>1, <2>2 DEF CondInv, CondTypes
    <3> QED
      BY <3>1 DEF CondInv, EpochInv, InQueue
  <2> QED
    BY <2>1, <2>2
<1> QED
  BY <1>2, <1>3 DEF CondInv

\* The handler of block().
LEMMA HandlerKeeps ==
  ASSUME CondInv, NEW t \in Threads, WaitHandler(t)
  PROVE  CondInv'
<1>1. /\ pc[t] = "leaving" /\ pc' = [pc EXCEPT ![t] = "woken"]
      /\ queue' = IF epoch = seen[t] THEN Append(queue, t) ELSE queue
      /\ UNCHANGED <<epoch, seen, notified>>
  BY DEF WaitHandler, Goto, local
<1>2. queue \in Seq(Threads) /\ queue' \in Seq(Threads)
  BY <1>1 DEF CondInv, CondTypes
<1>3. CondTypes'
  BY <1>1, <1>2 DEF CondInv, CondTypes
<1>4. ASSUME NEW u \in Threads, InQueue(u, queue')
      PROVE  InQueue(u, queue) \/ (u = t /\ epoch = seen[t])
  <2>1. CASE epoch = seen[t]
    <3>1. PICK i \in 1..Len(Append(queue, t)) : Append(queue, t)[i] = u
      BY <1>1, <1>4, <2>1 DEF InQueue
    <3>2. Len(Append(queue, t)) = Len(queue) + 1 /\ Append(queue, t)[Len(Append(queue, t))] = t
      BY <1>2
    <3>3. CASE i \in 1..Len(queue)
      BY <1>2, <3>1, <3>3 DEF InQueue
    <3>4. CASE i = Len(Append(queue, t))
      BY <2>1, <3>1, <3>2, <3>4
    <3> QED
      BY <1>2, <3>1, <3>2, <3>3, <3>4
  <2>2. CASE epoch # seen[t]
    BY <1>1, <1>4, <2>2
  <2> QED
    BY <2>1, <2>2
<1>5. ASSUME NEW u \in Threads PROVE EpochInv(u)'
  <2>1. pc'[u] = "leaving" => pc[u] = "leaving"
    BY <1>1 DEF CondInv, CondTypes
  <2>2. EpochInv(u) /\ EpochInv(t) /\ epoch \in Nat
    BY DEF CondInv, CondTypes
  <2>3. notified[u] => ~InQueue(u, queue')
    BY <1>1, <1>4, <2>2 DEF EpochInv
  <2> QED
    BY <1>1, <2>1, <2>2, <2>3 DEF EpochInv, InQueue
<1> QED
  BY <1>3, <1>5 DEF CondInv

\* What notify(limit) leaves of the queue.
LEMMA NotifyQueue ==
  ASSUME CondTypes, NEW limit \in Nat, Notify(limit)
  PROVE  /\ epoch' = epoch + 1 /\ epoch' \in Nat /\ queue' \in Seq(Threads)
         /\ \A t : InQueue(t, queue') => InQueue(t, queue)
         /\ limit = Len(queue) => \A t : ~InQueue(t, queue')
<1> DEFINE q == SubSeq(queue, limit + 1, Len(queue))
<1>1. queue \in Seq(Threads) /\ epoch \in Nat /\ Len(queue) \in Nat
  BY DEF CondTypes
<1>2. /\ q \in Seq(Threads)
      /\ Len(q) = IF limit + 1 <= Len(queue) THEN Len(queue) - limit ELSE 0
      /\ \A i \in 1..Len(q) : q[i] = queue[limit + i]
  BY <1>1
<1>3. \A i \in 1..Len(q) : limit + i \in 1..Len(queue)
  BY <1>1, <1>2
<1>4. queue' = q /\ epoch' = epoch + 1
  BY DEF Notify
<1> HIDE DEF q
<1>5. ASSUME NEW t, InQueue(t, queue') PROVE InQueue(t, queue)
  BY <1>2, <1>3, <1>4, <1>5 DEF InQueue
<1>6. ASSUME limit = Len(queue), NEW t PROVE ~InQueue(t, queue')
  <2>1. Len(q) = 0
    BY <1>1, <1>2, <1>6
  <2> QED
    BY <1>4, <2>1 DEF InQueue
<1> QED
  BY <1>1, <1>2, <1>4, <1>5, <1>6

\* notify() of one, and a return.
LEMMA NotifyOneKeeps ==
  ASSUME CondInv, NEW t \in Threads, Moves(t), notifyOne, UNCHANGED seen
  PROVE  CondInv'
<1>1. /\ epoch' = epoch + 1 /\ epoch' \in Nat /\ queue' \in Seq(Threads)
      /\ \A u : InQueue(u, queue') => InQueue(u, queue)
  BY NotifyQueue DEF CondInv, notifyOne
<1>2. PICK place : pc' = [pc EXCEPT ![t] = place] /\ place # "leaving"
  BY DEF Moves
<1>3. UNCHANGED <<seen, notified>>
  BY DEF notifyOne
<1>4. CondTypes'
  BY <1>1, <1>2, <1>3 DEF CondInv, CondTypes
<1>5. ASSUME NEW u \in Threads PROVE EpochInv(u)'
  <2>1. EpochInv(u) /\ epoch \in Nat /\ seen[u] \in Nat
    BY DEF CondInv, CondTypes
  <2>2. seen'[u] < epoch'
    BY <1>1, <1>3, <2>1 DEF EpochInv
  <2>3. notified'[u] => ~InQueue(u, queue')
    BY <1>1, <1>3, <2>1 DEF EpochInv
  <2>4. seen'[u] <= epoch'
    BY <1>1, <1>3, <2>1, <2>2
  <2> QED
    BY <2>2, <2>3, <2>4 DEF EpochInv, InQueue
<1> QED
  BY <1>4, <1>5 DEF CondInv

\* notifyAll(), and a return: the queue is empty.
LEMMA NotifyAllKeeps ==
  ASSUME CondInv, NEW t \in Threads, Moves(t), notifyAll, UNCHANGED seen
  PROVE  CondInv'
<1>1. /\ epoch' = epoch + 1 /\ epoch' \in Nat /\ queue' \in Seq(Threads)
      /\ \A u : ~InQueue(u, queue')
  <2>1. Len(queue) \in Nat
    BY DEF CondInv, CondTypes
  <2> QED
    BY <2>1, NotifyQueue DEF CondInv, notifyAll
<1>2. PICK place : pc' = [pc EXCEPT ![t] = place] /\ place # "leaving"
  BY DEF Moves
<1>3. UNCHANGED seen /\ notified' \in [Threads -> BOOLEAN]
  <2>1. notified' = [u \in Threads |-> notified[u] \/ pc[u] \in {"leaving", "woken"}]
    BY DEF notifyAll
  <2>2. \A u \in Threads : (notified[u] \/ pc[u] \in {"leaving", "woken"}) \in BOOLEAN
    BY DEF CondInv, CondTypes
  <2> QED
    BY <2>1, <2>2
<1>4. CondTypes'
  BY <1>1, <1>2, <1>3 DEF CondInv, CondTypes
<1>5. ASSUME NEW u \in Threads PROVE EpochInv(u)'
  <2>1. EpochInv(u) /\ epoch \in Nat /\ seen[u] \in Nat
    BY DEF CondInv, CondTypes
  <2>2. seen'[u] < epoch' /\ seen'[u] <= epoch'
    BY <1>1, <1>3, <2>1 DEF EpochInv
  <2> QED
    BY <1>1, <2>2 DEF EpochInv, InQueue
<1> QED
  BY <1>4, <1>5 DEF CondInv

\* Any step.
LEMMA CondStep == CondInv /\ [Next]_vars => CondInv'
<1> SUFFICES ASSUME CondInv, [Next]_vars PROVE CondInv'
  OBVIOUS
<1>1. CASE UNCHANGED vars
  BY <1>1 DEF vars, cond, local, CondInv, CondTypes, EpochInv, InQueue
<1>2. ASSUME NEW t \in Threads, Step(t) PROVE CondInv'
  <2>1. CASE WaitHandler(t)
    BY <2>1, HandlerKeeps
  <2>2. CASE Arrive(t)
    <3>1. CASE rcount = 1
      <4>1. notifyAll /\ Return(t) /\ UNCHANGED seen
        BY <2>2, <3>1 DEF Arrive, ArriveWith
      <4>2. Moves(t)
        BY <4>1, ReturnMoves
      <4> QED
        BY <4>1, <4>2, NotifyAllKeeps
    <3>2. CASE rcount # 1
      <4>1. StartWait(t) /\ UNCHANGED <<epoch, queue>>
        BY <2>2, <3>2 DEF Arrive, ArriveWith, cond
      <4> QED
        BY <4>1, StartWaitKeeps
    <3> QED
      BY <3>1, <3>2
  <2>3. CASE Pass(t) \/ Await(t)
    <3>1. \/ StartWait(t) /\ UNCHANGED <<epoch, queue>>
          \/ Moves(t) /\ UNCHANGED <<epoch, queue, seen, notified>>
      BY <2>3, ReturnMoves DEF Pass, Await, cond
    <3> QED
      BY <3>1, StartWaitKeeps, MovesKeep
  <2>4. CASE Signal(t)
    <3>1. Moves(t) /\ notifyOne /\ UNCHANGED seen
      BY <2>4, ReturnMoves DEF Signal, local
    <3> QED
      BY <3>1, NotifyOneKeeps
  <2>5. CASE BarrierCount(t) \/ BarrierTurnstile(t)
    <3>1. UNCHANGED <<epoch, queue, seen, notified>>
      BY <2>5 DEF BarrierCount, BarrierTurnstile, cond, local
    <3>2. Moves(t)
      <4>1. \/ \E place \in {"up", "down"} : Goto(t, place)
            \/ Return(t)
        BY <2>5 DEF BarrierCount, BarrierTurnstile
      <4> QED
        BY <4>1, GotoMoves, ReturnMoves
    <3> QED
      BY <3>1, <3>2, MovesKeep
  <2>6. CASE FutureSet(t) \/ FutureGet(t) \/ SharedCopy(t) \/ SharedDrop(t)
    <3>1. UNCHANGED <<epoch, queue, seen, notified>>
      BY <2>6 DEF FutureSet, FutureGet, SharedCopy, SharedDrop, cond, local
    <3>2. Moves(t)
      <4>1. \/ \E place \in {"ready", "up", "down", "value", "delete"} : Goto(t, place)
            \/ Return(t)
        BY <2>6 DEF FutureSet, FutureGet, SharedCopy, SharedDrop
      <4> QED
        BY <4>1, GotoMoves, ReturnMoves
    <3> QED
      BY <3>1, <3>2, MovesKeep
  <2>7. CASE BufferSems(t) \/ BufferPut(t) \/ BufferGet(t)
    <3>1. UNCHANGED <<epoch, queue, seen, notified>>
      BY <2>7 DEF BufferSems, BufferPut, BufferGet, cond, local
    <3>2. Moves(t)
      <4>1. \/ \E place \in {"lock", "find", "give", "store", "unlock"} : Goto(t, place)
            \/ Return(t)
        BY <2>7 DEF BufferSems, BufferPut, BufferGet
      <4> QED
        BY <4>1, GotoMoves, ReturnMoves
    <3> QED
      BY <3>1, <3>2, MovesKeep
  <2> QED
    BY <1>2, <2>1, <2>2, <2>3, <2>4, <2>5, <2>6, <2>7 DEF Step
<1> QED
  BY <1>1, <1>2 DEF Next

\* CondInv holds in every reachable state (condition.h).
THEOREM CondInvariance == Spec => []CondInv
<1>1. CondInv /\ [Next]_vars => CondInv'
  BY CondStep
<1> QED
  BY InitCond, <1>1, PTL DEF Spec

\* "Guarantee: no missed signals" (condition.h:34): whoever left the lock in wait()
\* before a notifyAll() is not in the queue after it, however late it gets there.
THEOREM SignalsAreNotMissed == Spec => []NoMissedSignal
<1>1. CondInv => NoMissedSignal
  BY QueueContains DEF CondInv, CondTypes, EpochInv, NoMissedSignal
<1> QED
  BY CondInvariance, <1>1, PTL
-----------------------------------------------------------------------------
(***************************************************************************)
(* The programs and the semaphores, which all that follows is built on.    *)
(***************************************************************************)
NoDup(q) == \A i, j \in 1..Len(q) : q[i] = q[j] => i = j
Places == {"call", "leaving", "woken", "down", "up", "ready", "value", "delete",
           "lock", "find", "store", "unlock", "give"}

\* Where a thread is that waits for the semaphore.
Waits(t, s) ==
  /\ todo[t] # << >>
  /\ \/ s = "nEmpty" /\ Call(t) = "put" /\ pc[t] = "lock"
     \/ s = "nFull" /\ Call(t) = "take" /\ pc[t] = "lock"
     \/ s = "lock" /\ Call(t) \in {"put", "take"} /\ pc[t] = "find"
     \/ s = "barrier" /\ Call(t) = "join" /\ pc[t] = "up"
     \/ s = "go" /\ Call(t) = "get" /\ pc[t] = "up"

RunTypes ==
  /\ todo \in [Threads -> Seq(Calls)] /\ pc \in [Threads -> Places]
  /\ units \in [Semaphores -> Nat] /\ waiting \in [Semaphores -> Seq(Threads)]

WaitInv ==
  \A s \in Semaphores :
    NoDup(waiting[s]) /\ \A t \in Threads : InQueue(t, waiting[s]) => Waits(t, s)

RunInv == RunTypes /\ WaitInv

\* The first call of what is left.
LEMMA FirstCall ==
  ASSUME RunTypes, NEW t \in Threads, todo[t] # << >>
  PROVE  /\ Head(todo[t]) \in Calls /\ Tail(todo[t]) \in Seq(Calls)
         /\ Call(t) \in {"set", "put"} => Head(todo[t]).value \in Values
<1>1. todo[t] \in Seq(Calls)
  BY DEF RunTypes
<1>2. Head(todo[t]) \in Calls /\ Tail(todo[t]) \in Seq(Calls)
  BY <1>1
<1> QED
  BY <1>2 DEF Calls, Call

\* A thread that is not blocked is in no queue of a semaphore.
LEMMA NotQueued ==
  ASSUME RunTypes, NEW t \in Threads, ~Blocked(t)
  PROVE  \A s \in Semaphores : ~InQueue(t, waiting[s])
BY QueueContains DEF RunTypes, Blocked

\* A step of a thread in its program: it goes on in a call, or it ends it.
Advances(t) ==
  /\ \A u \in Threads : u # t => todo'[u] = todo[u] /\ pc'[u] = pc[u]
  /\ \/ todo'[t] = todo[t]
     \/ todo[t] # << >> /\ todo'[t] = Tail(todo[t]) /\ pc'[t] = "call"

\* Goto advances.
LEMMA GotoAdvances ==
  ASSUME RunTypes, NEW t \in Threads, NEW place \in Places, Goto(t, place)
  PROVE  /\ todo' \in [Threads -> Seq(Calls)] /\ pc' \in [Threads -> Places]
         /\ Advances(t) /\ todo' = todo /\ pc'[t] = place
BY DEF RunTypes, Goto, Advances

\* Return advances.
LEMMA ReturnAdvances ==
  ASSUME RunTypes, NEW t \in Threads, todo[t] # << >>, Return(t)
  PROVE  /\ todo' \in [Threads -> Seq(Calls)] /\ pc' \in [Threads -> Places]
         /\ Advances(t) /\ pc'[t] = "call" /\ todo'[t] = Tail(todo[t])
<1>1. Tail(todo[t]) \in Seq(Calls)
  BY FirstCall
<1>2. pc' = [pc EXCEPT ![t] = "call"] /\ todo' = [todo EXCEPT ![t] = Tail(todo[t])]
  BY DEF Return
<1>3. "call" \in Places
  BY DEF Places
<1> QED
  BY <1>1, <1>2, <1>3 DEF RunTypes, Advances

\* One more at the end of a queue.
LEMMA Enqueue ==
  ASSUME NEW q \in Seq(Threads), NEW x \in Threads, NoDup(q), ~InQueue(x, q)
  PROVE  /\ Append(q, x) \in Seq(Threads) /\ NoDup(Append(q, x))
         /\ \A t : InQueue(t, Append(q, x)) <=> InQueue(t, q) \/ t = x
<1>1. /\ Len(q) \in Nat /\ Len(Append(q, x)) = Len(q) + 1
      /\ \A i \in 1..Len(q) : Append(q, x)[i] = q[i]
      /\ Append(q, x)[Len(q)+1] = x
      /\ Append(q, x) \in Seq(Threads)
  OBVIOUS
<1>2. NoDup(Append(q, x))
  BY <1>1 DEF NoDup, InQueue
<1>3. ASSUME NEW t PROVE InQueue(t, Append(q, x)) <=> InQueue(t, q) \/ t = x
  BY <1>1 DEF InQueue
<1> QED
  BY <1>1, <1>2, <1>3

\* The first of a queue leaves it.
LEMMA Dequeue ==
  ASSUME NEW q \in Seq(Threads), q # << >>, NoDup(q)
  PROVE  /\ Head(q) \in Threads /\ InQueue(Head(q), q)
         /\ Tail(q) \in Seq(Threads) /\ NoDup(Tail(q))
         /\ \A t : InQueue(t, Tail(q)) <=> InQueue(t, q) /\ t # Head(q)
<1>1. /\ Len(q) \in Nat /\ Len(q) >= 1 /\ Head(q) = q[1] /\ Head(q) \in Threads
      /\ Tail(q) \in Seq(Threads) /\ Len(Tail(q)) = Len(q) - 1
      /\ \A i \in 1..Len(q)-1 : Tail(q)[i] = q[i+1]
  OBVIOUS
<1>2. InQueue(Head(q), q)
  BY <1>1 DEF InQueue
<1>3. NoDup(Tail(q))
  BY <1>1 DEF NoDup
<1>4. ASSUME NEW t, InQueue(t, Tail(q)) PROVE InQueue(t, q) /\ t # Head(q)
  BY <1>1, <1>4 DEF InQueue, NoDup
<1>5. ASSUME NEW t, InQueue(t, q), t # Head(q) PROVE InQueue(t, Tail(q))
  <2>1. PICK i \in 1..Len(q) : q[i] = t
    BY <1>5 DEF InQueue
  <2>2. i - 1 \in 1..Len(q)-1 /\ Tail(q)[i-1] = t
    BY <2>1, <1>1, <1>5
  <2> QED
    BY <2>2, <1>1 DEF InQueue
<1> QED
  BY <1>1, <1>2, <1>3, <1>4, <1>5

\* Who is in which queue after a step, and what the counts are.
Queued(t, s) == InQueue(t, waiting[s])
Same(s) == units'[s] = units[s] /\ \A u \in Threads : Queued(u, s)' <=> Queued(u, s)

\* down(): a unit, or a place in the queue.
LEMMA DownIs ==
  ASSUME RunInv, NEW t \in Threads, NEW s \in Semaphores, Down(t, s), ~Queued(t, s)
  PROVE  /\ units' \in [Semaphores -> Nat] /\ waiting' \in [Semaphores -> Seq(Threads)]
         /\ \A r \in Semaphores : NoDup(waiting'[r])
         /\ \A r \in Semaphores : r # s => Same(r)
         /\ \A u \in Threads : u # t => (Queued(u, s)' <=> Queued(u, s))
         /\ \/ units[s] > 0 /\ units'[s] = units[s] - 1 /\ ~Queued(t, s)'
            \/ units[s] = 0 /\ units'[s] = units[s] /\ Queued(t, s)'
<1>1. /\ units \in [Semaphores -> Nat] /\ waiting \in [Semaphores -> Seq(Threads)]
      /\ \A r \in Semaphores : NoDup(waiting[r])
  BY DEF RunInv, RunTypes, WaitInv
<1>2. CASE units[s] > 0
  <2>1. units' = [units EXCEPT ![s] = units[s] - 1] /\ waiting' = waiting
    BY <1>2 DEF Down
  <2>2. units[s] - 1 \in Nat
    BY <1>1, <1>2
  <2> QED
    BY <1>1, <1>2, <2>1, <2>2 DEF Same, Queued
<1>3. CASE ~(units[s] > 0)
  <2>1. waiting' = [waiting EXCEPT ![s] = Append(waiting[s], t)] /\ units' = units
    BY <1>3 DEF Down
  <2>2. units[s] = 0
    BY <1>1, <1>3
  <2>3. /\ Append(waiting[s], t) \in Seq(Threads) /\ NoDup(Append(waiting[s], t))
        /\ \A u : InQueue(u, Append(waiting[s], t)) <=> InQueue(u, waiting[s]) \/ u = t
    BY <1>1, Enqueue DEF Queued
  <2>4. waiting'[s] = Append(waiting[s], t) /\ \A r \in Semaphores : r # s => waiting'[r] = waiting[r]
    BY <1>1, <2>1
  <2>5. waiting' \in [Semaphores -> Seq(Threads)] /\ \A r \in Semaphores : NoDup(waiting'[r])
    BY <1>1, <2>1, <2>3, <2>4
  <2>6. \A r \in Semaphores : r # s => Same(r)
    BY <2>1, <2>4 DEF Same, Queued
  <2> QED
    BY <1>1, <2>1, <2>2, <2>3, <2>4, <2>5, <2>6 DEF Queued
<1> QED
  BY <1>2, <1>3

\* up(): a unit, or the first in the queue leaves it.
LEMMA UpIs ==
  ASSUME RunInv, NEW s \in Semaphores, Up(s)
  PROVE  /\ units' \in [Semaphores -> Nat] /\ waiting' \in [Semaphores -> Seq(Threads)]
         /\ \A r \in Semaphores : NoDup(waiting'[r])
         /\ \A r \in Semaphores : r # s => Same(r)
         /\ \/ /\ \A u \in Threads : Queued(u, s)' <=> Queued(u, s)
               /\ units'[s] = units[s] + 1
            \/ \E w \in Threads :
                 /\ Queued(w, s) /\ units'[s] = units[s]
                 /\ \A u \in Threads : Queued(u, s)' <=> Queued(u, s) /\ u # w
<1>1. /\ units \in [Semaphores -> Nat] /\ waiting \in [Semaphores -> Seq(Threads)]
      /\ \A r \in Semaphores : NoDup(waiting[r])
  BY DEF RunInv, RunTypes, WaitInv
<1>2. CASE waiting[s] = << >>
  <2>1. units' = [units EXCEPT ![s] = units[s] + 1] /\ waiting' = waiting
    BY <1>2 DEF Up
  <2> QED
    BY <1>1, <2>1 DEF Same, Queued
<1>3. CASE waiting[s] # << >>
  <2>1. waiting' = [waiting EXCEPT ![s] = Tail(waiting[s])] /\ units' = units
    BY <1>3 DEF Up
  <2>2. PICK w \in Threads :
          /\ InQueue(w, waiting[s])
          /\ Tail(waiting[s]) \in Seq(Threads) /\ NoDup(Tail(waiting[s]))
          /\ \A u : InQueue(u, Tail(waiting[s])) <=> InQueue(u, waiting[s]) /\ u # w
    BY <1>1, <1>3, Dequeue
  <2>3. waiting'[s] = Tail(waiting[s]) /\ \A r \in Semaphores : r # s => waiting'[r] = waiting[r]
    BY <1>1, <2>1
  <2>4. waiting' \in [Semaphores -> Seq(Threads)] /\ \A r \in Semaphores : NoDup(waiting'[r])
    BY <1>1, <2>1, <2>2, <2>3
  <2>5. \A r \in Semaphores : r # s => Same(r)
    BY <2>1, <2>3 DEF Same, Queued
  <2> QED
    BY <1>1, <2>1, <2>2, <2>3, <2>4, <2>5 DEF Queued
<1> QED
  BY <1>2, <1>3

\* A step keeps RunInv if who waits is where it should be.
LEMMA RunKeeps ==
  ASSUME RunInv, NEW t \in Threads, Advances(t),
         todo' \in [Threads -> Seq(Calls)], pc' \in [Threads -> Places],
         units' \in [Semaphores -> Nat], waiting' \in [Semaphores -> Seq(Threads)],
         \A r \in Semaphores : NoDup(waiting'[r]),
         \A r \in Semaphores, u \in Threads : u # t => (Queued(u, r)' => Queued(u, r)),
         \A r \in Semaphores : Queued(t, r)' => Waits(t, r)'
  PROVE  RunInv'
<1>1. ASSUME NEW r \in Semaphores, NEW u \in Threads, Queued(u, r)' PROVE Waits(u, r)'
  <2>1. CASE u = t
    BY <1>1, <2>1
  <2>2. CASE u # t
    <3>1. Waits(u, r)
      BY <1>1, <2>2 DEF RunInv, WaitInv, Queued
    <3>2. todo'[u] = todo[u] /\ pc'[u] = pc[u]
      BY <2>2 DEF Advances
    <3> QED
      BY <3>1, <3>2 DEF Waits, Call
  <2> QED
    BY <2>1, <2>2
<1> QED
  BY <1>1 DEF RunInv, RunTypes, WaitInv, Queued

\* A step that does nothing to the semaphores, by a thread that waits for none.
LEMMA AsideKeeps ==
  ASSUME RunInv, NEW t \in Threads, Advances(t),
         todo' \in [Threads -> Seq(Calls)], pc' \in [Threads -> Places],
         \A s \in Semaphores : ~Queued(t, s), UNCHANGED sems
  PROVE  RunInv' /\ \A s \in Semaphores : Same(s)
<1>1. units' = units /\ waiting' = waiting
  BY DEF sems
<1>2. \A s \in Semaphores, u \in Threads : Queued(u, s)' <=> Queued(u, s)
  BY <1>1 DEF Queued
<1>3. RunTypes /\ \A r \in Semaphores : NoDup(waiting[r])
  BY DEF RunInv, WaitInv
<1>4. RunInv'
  BY <1>1, <1>2, <1>3, RunKeeps DEF RunTypes
<1> QED
  BY <1>1, <1>2, <1>4 DEF Same
-----------------------------------------------------------------------------
(***************************************************************************)
(* The bounded buffer. A unit of nEmpty or nFull is in the count, or with  *)
(* one thread until that has given one of the other; the unit of the lock  *)
(* likewise. So whoever is inside has room, or something to take, and is   *)
(* alone: the slot that it found stays the one to fill.                    *)
(***************************************************************************)
Calls2 == {"put", "take"}
BufferSemaphores == {"nEmpty", "nFull", "lock"}

\* The thread has taken a unit of s and not given it, or what it became, back.
Has(t, s) ==
  /\ todo[t] # << >> /\ Call(t) \in Calls2 /\ ~Queued(t, s)
  /\ \/ s = "lock" /\ pc[t] \in {"find", "store", "unlock"}
     \/ s # "lock" /\ s = Wanted(t) /\ pc[t] \in {"lock", "find", "store"}
     \/ s # "lock" /\ s = Given(t) /\ pc[t] \in {"unlock", "give"}

Holders(s) == {t \in Threads : Has(t, s)}
Total(s) == IF s = "lock" THEN 1 ELSE IF s = "nFull" THEN n ELSE Room - n

CountInv == \A s \in BufferSemaphores : units[s] + Cardinality(Holders(s)) = Total(s)

SlotInv ==
  \A t \in Threads :
    todo[t] # << >> /\ Call(t) = "put" /\ pc[t] = "store" => val[t] = (head + n) % Room

RingTypes ==
  /\ head \in 0..Room - 1 /\ n \in Nat
  /\ data \in [0..Room - 1 -> Values \cup {Nothing}]
  /\ val = [t \in Threads |-> val[t]]

BufInv == RunInv /\ RingTypes /\ CountInv /\ SlotInv

\* What of sets of threads is counted when one of them joins or leaves.
LEMMA OneJoins ==
  ASSUME NEW S \in SUBSET Threads, NEW T \in SUBSET Threads, NEW t \in Threads,
         \A u \in Threads : u # t => (u \in S <=> u \in T)
  PROVE  /\ Cardinality(S) \in Nat /\ Cardinality(T) \in Nat
         /\ (t \in S <=> t \in T) => Cardinality(T) = Cardinality(S)
         /\ t \notin S /\ t \in T => Cardinality(T) = Cardinality(S) + 1
         /\ t \in S /\ t \notin T => Cardinality(T) = Cardinality(S) - 1
<1>1. IsFiniteSet(S) /\ IsFiniteSet(T)
  BY SyncAssumption, FS_Subset
<1>2. Cardinality(S) \in Nat /\ Cardinality(T) \in Nat
  BY <1>1, FS_CardinalityType
<1>3. ASSUME t \in S <=> t \in T PROVE Cardinality(T) = Cardinality(S)
  <2>1. S = T
    BY <1>3
  <2> QED
    BY <2>1
<1>4. ASSUME t \notin S, t \in T PROVE Cardinality(T) = Cardinality(S) + 1
  <2>1. T = S \cup {t}
    BY <1>4
  <2> QED
    BY <1>1, <1>4, <2>1, FS_AddElement
<1>5. ASSUME t \in S, t \notin T PROVE Cardinality(T) = Cardinality(S) - 1
  <2>1. T = S \ {t}
    BY <1>5
  <2> QED
    BY <1>1, <1>5, <2>1, FS_RemoveElement
<1> QED
  BY <1>2, <1>3, <1>4, <1>5

\* One takes the place of another.
LEMMA OneForAnother ==
  ASSUME NEW S \in SUBSET Threads, NEW T \in SUBSET Threads, NEW t \in Threads, NEW w \in Threads,
         \A u \in Threads : u # t /\ u # w => (u \in S <=> u \in T),
         t \in S, t \notin T, w \notin S, w \in T
  PROVE  Cardinality(T) = Cardinality(S)
<1>1. PICK M \in SUBSET Threads : M = S \ {t}
  OBVIOUS
<1>2. \A u \in Threads : u # t => (u \in S <=> u \in M)
  BY <1>1
<1>3. \A u \in Threads : u # w => (u \in M <=> u \in T)
  BY <1>1
<1>4. Cardinality(M) = Cardinality(S) - 1 /\ Cardinality(S) \in Nat
  BY <1>1, <1>2, OneJoins
<1>5. Cardinality(T) = Cardinality(M) + 1
  BY <1>1, <1>3, OneJoins
<1> QED
  BY <1>4, <1>5

\* Who holds what stays so for the threads that do not move, if their places in the
\* queue of the semaphore do.
LEMMA OthersHold ==
  ASSUME NEW t \in Threads, Advances(t), NEW s, NEW u \in Threads, u # t,
         Queued(u, s)' <=> Queued(u, s)
  PROVE  Has(u, s)' <=> Has(u, s)
<1>1. todo'[u] = todo[u] /\ pc'[u] = pc[u]
  BY DEF Advances
<1> QED
  BY <1>1 DEF Has, Call, Wanted, Given

\* The count of a semaphore of which nobody but t takes or gives a unit.
LEMMA OneHolds ==
  ASSUME RunInv, NEW t \in Threads, Advances(t), NEW s \in Semaphores,
         \A u \in Threads : u # t => (Queued(u, s)' <=> Queued(u, s))
  PROVE  /\ Cardinality(Holders(s)) \in Nat /\ Cardinality(Holders(s)') \in Nat
         /\ (Has(t, s)' <=> Has(t, s)) => Cardinality(Holders(s)') = Cardinality(Holders(s))
         /\ Has(t, s)' /\ ~Has(t, s) => Cardinality(Holders(s)') = Cardinality(Holders(s)) + 1
         /\ ~Has(t, s)' /\ Has(t, s) => Cardinality(Holders(s)') = Cardinality(Holders(s)) - 1
<1>1. \A u \in Threads : u # t => (Has(u, s)' <=> Has(u, s))
  BY OthersHold
<1>2. /\ Holders(s) \in SUBSET Threads /\ Holders(s)' \in SUBSET Threads
      /\ \A u \in Threads : (u \in Holders(s) <=> Has(u, s)) /\ (u \in Holders(s)' <=> Has(u, s)')
  BY DEF Holders
<1>3. \A u \in Threads : u # t => (u \in Holders(s) <=> u \in Holders(s)')
  BY <1>1, <1>2
<1> QED
  BY <1>2, <1>3, OneJoins

\* A thread that is through with s lets the first that waits for it have its unit.
LEMMA HandedOn ==
  ASSUME RunInv, NEW t \in Threads, Advances(t), NEW s \in Semaphores, NEW w \in Threads,
         Has(t, s), ~Has(t, s)', Queued(w, s), s \in BufferSemaphores,
         \A u \in Threads : Queued(u, s)' <=> Queued(u, s) /\ u # w
  PROVE  Cardinality(Holders(s)') = Cardinality(Holders(s))
<1>1. \A u \in Threads : u # t /\ u # w => (Has(u, s)' <=> Has(u, s))
  BY OthersHold
<1>2. w # t /\ ~Has(w, s)
  BY DEF Has
<1>3. Has(w, s)'
  <2>1. Waits(w, s)
    BY DEF RunInv, WaitInv, Queued
  <2>2. todo'[w] = todo[w] /\ pc'[w] = pc[w] /\ ~Queued(w, s)'
    BY <1>2 DEF Advances
  <2> QED
    BY <2>1, <2>2 DEF Waits, Has, Call, Wanted, Given, Calls2, BufferSemaphores
<1>4. /\ Holders(s) \in SUBSET Threads /\ Holders(s)' \in SUBSET Threads
      /\ \A u \in Threads : (u \in Holders(s) <=> Has(u, s)) /\ (u \in Holders(s)' <=> Has(u, s)')
  BY DEF Holders
<1>5. \A u \in Threads : u # t /\ u # w => (u \in Holders(s) <=> u \in Holders(s)')
  BY <1>1, <1>4
<1> QED
  BY <1>2, <1>3, <1>4, <1>5, OneForAnother

\* A step that has nothing to do with the buffer.
LEMMA OthersKeep ==
  ASSUME BufInv, NEW t \in Threads, Advances(t), RunInv', UNCHANGED buf,
         \A s \in BufferSemaphores : Same(s) /\ ~Has(t, s) /\ ~Has(t, s)',
         val' = [u \in Threads |-> val'[u]], \A u \in Threads : u # t => val'[u] = val[u],
         pc'[t] # "store"
  PROVE  BufInv'
<1>1. RunInv /\ RingTypes /\ CountInv /\ SlotInv
  BY DEF BufInv
<1>2. CountInv'
  <2> SUFFICES ASSUME NEW s \in BufferSemaphores
               PROVE  units'[s] + Cardinality(Holders(s)') = Total(s)'
    BY DEF CountInv
  <2>1. s \in Semaphores
    BY DEF BufferSemaphores, Semaphores
  <2>2. units'[s] = units[s] /\ \A u \in Threads : u # t => (Queued(u, s)' <=> Queued(u, s))
    BY DEF Same
  <2>3. Cardinality(Holders(s)') = Cardinality(Holders(s))
    BY <1>1, <2>1, <2>2, OneHolds
  <2>4. Total(s)' = Total(s)
    BY DEF Total, buf
  <2> QED
    BY <1>1, <2>2, <2>3, <2>4 DEF CountInv
<1>3. SlotInv'
  <2> SUFFICES ASSUME NEW u \in Threads, todo'[u] # << >>, Call(u)' = "put", pc'[u] = "store"
               PROVE  val'[u] = (head' + n') % Room
    BY DEF SlotInv
  <2>1. u # t
    OBVIOUS
  <2>2. todo'[u] = todo[u] /\ pc'[u] = pc[u] /\ val'[u] = val[u]
    BY <2>1 DEF Advances
  <2>3. head' = head /\ n' = n
    BY DEF buf
  <2> QED
    BY <1>1, <2>2, <2>3 DEF SlotInv, Call
<1> QED
  BY <1>1, <1>2, <1>3 DEF BufInv, RingTypes, buf

\* A thread at the place where it fills a slot or empties one has the lock, and a unit.
LEMMA InsideHas ==
  ASSUME BufInv, NEW t \in Threads, todo[t] # << >>, Call(t) \in Calls2, pc[t] = "store"
  PROVE  /\ Has(t, "lock") /\ Has(t, Wanted(t)) /\ ~Has(t, Given(t))
         /\ Call(t) = "put" => n < Room
         /\ Call(t) = "take" => n > 0
         /\ \A s \in Semaphores : ~Queued(t, s)
<1>1. \A s \in Semaphores : ~Queued(t, s)
  BY DEF BufInv, RunInv, WaitInv, Queued, Waits
<1>2. {"lock", "nEmpty", "nFull"} \subseteq Semaphores
  BY DEF Semaphores
<1>3. Has(t, "lock") /\ Has(t, Wanted(t)) /\ ~Has(t, Given(t))
  BY <1>1, <1>2 DEF Has, Wanted, Given, Calls2
<1>4. \A s \in BufferSemaphores : Has(t, s) => Cardinality(Holders(s)) \in Nat \ {0}
  <2> SUFFICES ASSUME NEW s \in BufferSemaphores, Has(t, s)
               PROVE  Cardinality(Holders(s)) \in Nat \ {0}
    OBVIOUS
  <2>1. t \in Holders(s) /\ Holders(s) \subseteq Threads
    BY DEF Holders
  <2>2. IsFiniteSet(Holders(s))
    BY <2>1, SyncAssumption, FS_Subset
  <2> QED
    BY <2>1, <2>2, FS_CardinalityType, FS_EmptySet
<1>5. \A s \in BufferSemaphores : units[s] \in Nat /\ units[s] + Cardinality(Holders(s)) = Total(s)
  BY DEF BufInv, RunInv, RunTypes, CountInv, BufferSemaphores, Semaphores
<1>6. n \in Nat /\ Room \in Nat
  BY SyncAssumption DEF BufInv, RingTypes
<1>7. ASSUME Call(t) = "put" PROVE n < Room
  <2>1. Has(t, "nEmpty") /\ "nEmpty" \in BufferSemaphores /\ Total("nEmpty") = Room - n
    BY <1>3, <1>7 DEF Wanted, BufferSemaphores, Total
  <2> QED
    BY <1>4, <1>5, <1>6, <2>1
<1>8. ASSUME Call(t) = "take" PROVE n > 0
  <2>1. Has(t, "nFull") /\ "nFull" \in BufferSemaphores /\ Total("nFull") = n
    BY <1>3, <1>8 DEF Wanted, BufferSemaphores, Total
  <2> QED
    BY <1>4, <1>5, <1>6, <2>1
<1> QED
  BY <1>1, <1>3, <1>7, <1>8

\* It is alone.
LEMMA InsideAlone ==
  ASSUME BufInv, NEW t \in Threads, NEW u \in Threads, Has(t, "lock"), Has(u, "lock")
  PROVE  t = u
<1>1. PICK H \in SUBSET Threads : H = Holders("lock")
  BY DEF Holders
<1>2. t \in H /\ u \in H /\ IsFiniteSet(H)
  BY <1>1, SyncAssumption, FS_Subset DEF Holders
<1>3. units["lock"] \in Nat /\ units["lock"] + Cardinality(H) = 1
  BY <1>1 DEF BufInv, RunInv, RunTypes, CountInv, BufferSemaphores, Semaphores, Total
<1>4. Cardinality(H) \in Nat /\ Cardinality(H) # 0
  BY <1>2, FS_CardinalityType, FS_EmptySet
<1>5. Cardinality(H) = 1
  BY <1>3, <1>4
<1>6. \E x : H = {x}
  BY <1>2, <1>5, FS_Singleton
<1> QED
  BY <1>2, <1>6

\* Room is not negative.
LEMMA RoomIs ==
  ASSUME BufInv PROVE n \in 0..Room /\ Room \in Nat \ {0} /\ head \in 0..Room - 1
<1>1. Holders("nEmpty") \in SUBSET Threads
  BY DEF Holders
<1>2. Cardinality(Holders("nEmpty")) \in Nat
  BY <1>1, SyncAssumption, FS_Subset, FS_CardinalityType
<1>3. units["nEmpty"] \in Nat /\ units["nEmpty"] + Cardinality(Holders("nEmpty")) = Room - n
  BY DEF BufInv, RunInv, RunTypes, CountInv, BufferSemaphores, Semaphores, Total
<1>4. n \in Nat /\ Room \in Nat \ {0} /\ head \in 0..Room - 1
  BY SyncAssumption DEF BufInv, RingTypes
<1> QED
  BY <1>2, <1>3, <1>4

\* down() of the buffer: the thread has the unit, or waits for it.
LEMMA BufferDown ==
  ASSUME BufInv, NEW t \in Threads, NEW s \in BufferSemaphores, NEW place \in {"lock", "find"},
         \/ s = Wanted(t) /\ pc[t] = "call" /\ place = "lock"
         \/ s = "lock" /\ pc[t] = "lock" /\ place = "find",
         todo[t] # << >>, Call(t) \in Calls2, \A r \in Semaphores : ~Queued(t, r),
         Down(t, s), Goto(t, place), UNCHANGED <<buf, val>>
  PROVE  BufInv'
<1>1. RunInv /\ RunTypes /\ RingTypes /\ CountInv /\ SlotInv
  BY DEF BufInv, RunInv
<1>2. s \in Semaphores /\ BufferSemaphores \subseteq Semaphores /\ place \in Places
  BY DEF BufferSemaphores, Semaphores, Places
<1>3. /\ todo' \in [Threads -> Seq(Calls)] /\ pc' \in [Threads -> Places]
      /\ Advances(t) /\ todo' = todo /\ pc'[t] = place
  BY <1>1, <1>2, GotoAdvances
<1>4. /\ units' \in [Semaphores -> Nat] /\ waiting' \in [Semaphores -> Seq(Threads)]
      /\ \A r \in Semaphores : NoDup(waiting'[r])
      /\ \A r \in Semaphores : r # s => Same(r)
      /\ \A u \in Threads : u # t => (Queued(u, s)' <=> Queued(u, s))
      /\ \/ units[s] > 0 /\ units'[s] = units[s] - 1 /\ ~Queued(t, s)'
         \/ units[s] = 0 /\ units'[s] = units[s] /\ Queued(t, s)'
  BY <1>1, <1>2, DownIs
<1>5. Call(t)' = Call(t) /\ Wanted(t)' = Wanted(t) /\ Given(t)' = Given(t)
  BY <1>3 DEF Call, Wanted, Given
<1>6. RunInv'
  <2>1. \A r \in Semaphores, u \in Threads : u # t => (Queued(u, r)' => Queued(u, r))
    BY <1>4 DEF Same
  <2>2. \A r \in Semaphores : Queued(t, r)' => Waits(t, r)'
    <3> SUFFICES ASSUME NEW r \in Semaphores, Queued(t, r)' PROVE Waits(t, r)'
      OBVIOUS
    <3>1. r = s
      BY <1>4 DEF Same
    <3> QED
      BY <1>3, <1>5, <3>1 DEF Waits, Calls2, Wanted
  <2> QED
    BY <1>1, <1>3, <1>4, <2>1, <2>2, RunKeeps
<1>7. CountInv'
  <2> SUFFICES ASSUME NEW r \in BufferSemaphores
               PROVE  units'[r] + Cardinality(Holders(r)') = Total(r)'
    BY DEF CountInv
  <2>1. r \in Semaphores /\ units[r] \in Nat /\ units[r] + Cardinality(Holders(r)) = Total(r)
    BY <1>1, <1>2 DEF RunTypes, CountInv
  <2>2. Total(r)' = Total(r)
    BY DEF Total, buf
  <2>3. \A u \in Threads : u # t => (Queued(u, r)' <=> Queued(u, r))
    BY <1>4, <2>1 DEF Same
  <2>4. /\ Cardinality(Holders(r)) \in Nat /\ Cardinality(Holders(r)') \in Nat
        /\ (Has(t, r)' <=> Has(t, r)) => Cardinality(Holders(r)') = Cardinality(Holders(r))
        /\ Has(t, r)' /\ ~Has(t, r) => Cardinality(Holders(r)') = Cardinality(Holders(r)) + 1
    BY <1>1, <1>3, <2>1, <2>3, OneHolds
  <2>5. CASE r = s
    <3>1. ~Has(t, r) /\ (Has(t, r)' <=> ~Queued(t, r)')
      BY <1>3, <1>5, <2>5 DEF Has, Wanted, Given, Calls2
    <3> QED
      <4>1. CASE units[s] > 0 /\ units'[s] = units[s] - 1 /\ ~Queued(t, s)'
        <5>1. Cardinality(Holders(r)') = Cardinality(Holders(r)) + 1 /\ units'[r] = units[r] - 1
          BY <2>4, <2>5, <3>1, <4>1
        <5> QED
          BY <2>1, <2>2, <2>4, <5>1
      <4>2. CASE units[s] = 0 /\ units'[s] = units[s] /\ Queued(t, s)'
        BY <2>1, <2>2, <2>4, <2>5, <3>1, <4>2
      <4> QED
        BY <1>4, <4>1, <4>2
  <2>6. CASE r # s
    <3>1. Same(r) /\ ~Queued(t, r)
      BY <1>4, <2>1, <2>6
    <3>2. ~Queued(t, r)' /\ units'[r] = units[r]
      BY <3>1 DEF Same
    <3>3. Has(t, r)' <=> Has(t, r)
      BY <1>3, <1>5, <2>6, <3>1, <3>2 DEF Has, Wanted, Given, Calls2
    <3> QED
      BY <2>1, <2>2, <2>4, <3>2, <3>3
  <2> QED
    BY <2>5, <2>6
<1>8. SlotInv'
  <2> SUFFICES ASSUME NEW u \in Threads, todo'[u] # << >>, Call(u)' = "put", pc'[u] = "store"
               PROVE  val'[u] = (head' + n') % Room
    BY DEF SlotInv
  <2>1. u # t
    BY <1>3
  <2>2. todo'[u] = todo[u] /\ pc'[u] = pc[u]
    BY <1>3, <2>1 DEF Advances
  <2>3. UNCHANGED <<head, n, val>>
    BY DEF buf
  <2> QED
    BY <1>1, <2>2, <2>3 DEF SlotInv, Call
<1> QED
  BY <1>1, <1>6, <1>7, <1>8 DEF BufInv, RingTypes, buf

\* up() of the buffer: the unit goes to the count, or to the first that waits.
LEMMA BufferUp ==
  ASSUME BufInv, NEW t \in Threads, NEW s \in BufferSemaphores,
         \/ s = "lock" /\ pc[t] = "unlock" /\ Goto(t, "give")
         \/ s = Given(t) /\ pc[t] = "give" /\ Return(t),
         todo[t] # << >>, Call(t) \in Calls2, \A r \in Semaphores : ~Queued(t, r),
         Up(s), UNCHANGED <<buf, val>>
  PROVE  BufInv'
<1>1. RunInv /\ RunTypes /\ RingTypes /\ CountInv /\ SlotInv
  BY DEF BufInv, RunInv
<1>2. s \in Semaphores /\ BufferSemaphores \subseteq Semaphores /\ "give" \in Places
  BY DEF BufferSemaphores, Semaphores, Places
<1>3. /\ todo' \in [Threads -> Seq(Calls)] /\ pc' \in [Threads -> Places] /\ Advances(t)
      /\ \/ s = "lock" /\ pc[t] = "unlock" /\ todo' = todo /\ pc'[t] = "give"
         \/ s = Given(t) /\ pc[t] = "give" /\ pc'[t] = "call"
  BY <1>1, <1>2, GotoAdvances, ReturnAdvances
<1>4. /\ units' \in [Semaphores -> Nat] /\ waiting' \in [Semaphores -> Seq(Threads)]
      /\ \A r \in Semaphores : NoDup(waiting'[r])
      /\ \A r \in Semaphores : r # s => Same(r)
      /\ \/ /\ \A u \in Threads : Queued(u, s)' <=> Queued(u, s)
            /\ units'[s] = units[s] + 1
         \/ \E w \in Threads :
              /\ Queued(w, s) /\ units'[s] = units[s]
              /\ \A u \in Threads : Queued(u, s)' <=> Queued(u, s) /\ u # w
  BY <1>1, <1>2, UpIs
<1>5. \A r \in Semaphores, u \in Threads : Queued(u, r)' => Queued(u, r)
  BY <1>4 DEF Same
<1>6. \A r \in Semaphores : ~Queued(t, r)'
  BY <1>5
<1>7. RunInv'
  BY <1>1, <1>3, <1>4, <1>5, <1>6, RunKeeps
<1>8. Has(t, s) /\ ~Has(t, s)' /\ \A r \in BufferSemaphores : r # s => (Has(t, r)' <=> Has(t, r))
  <2>1. CASE pc'[t] = "give"
    <3>1. todo' = todo /\ s = "lock" /\ pc[t] = "unlock"
      BY <1>3, <2>1
    <3>2. Call(t)' = Call(t) /\ Wanted(t)' = Wanted(t) /\ Given(t)' = Given(t)
      BY <3>1 DEF Call, Wanted, Given
    <3> QED
      <4>1. Has(t, s) /\ ~Has(t, s)'
        BY <1>2, <2>1, <3>1, <3>2 DEF Has
      <4>2. ASSUME NEW r \in BufferSemaphores, r # s PROVE Has(t, r)' <=> Has(t, r)
        <5>1. ~Queued(t, r) /\ ~Queued(t, r)' /\ r # "lock"
          BY <1>2, <1>6, <3>1, <4>2
        <5>2. Has(t, r) <=> r = Given(t)
          BY <3>1, <5>1 DEF Has
        <5>3. Has(t, r)' <=> r = Given(t)
          BY <2>1, <3>1, <3>2, <5>1 DEF Has
        <5> QED
          BY <5>2, <5>3
      <4> QED
        BY <4>1, <4>2
  <2>2. CASE pc'[t] = "call"
    <3>1. s = Given(t) /\ pc[t] = "give" /\ s # "lock"
      BY <1>3, <2>2 DEF Given
    <3> QED
      BY <1>2, <2>2, <3>1 DEF Has, Wanted, Given
  <2> QED
    BY <1>3, <2>1, <2>2
<1>9. CountInv'
  <2> SUFFICES ASSUME NEW r \in BufferSemaphores
               PROVE  units'[r] + Cardinality(Holders(r)') = Total(r)'
    BY DEF CountInv
  <2>1. r \in Semaphores /\ units[r] \in Nat /\ units[r] + Cardinality(Holders(r)) = Total(r)
    BY <1>1, <1>2 DEF RunTypes, CountInv
  <2>2. Total(r)' = Total(r)
    BY DEF Total, buf
  <2>3. ASSUME \A u \in Threads : u # t => (Queued(u, r)' <=> Queued(u, r))
        PROVE  /\ Cardinality(Holders(r)) \in Nat /\ Cardinality(Holders(r)') \in Nat
               /\ (Has(t, r)' <=> Has(t, r)) => Cardinality(Holders(r)') = Cardinality(Holders(r))
               /\ ~Has(t, r)' /\ Has(t, r) => Cardinality(Holders(r)') = Cardinality(Holders(r)) - 1
    BY <1>1, <1>3, <2>1, <2>3, OneHolds
  <2>4. CASE r = s /\ units'[s] = units[s] + 1 /\ \A u \in Threads : Queued(u, s)' <=> Queued(u, s)
    BY <1>8, <2>1, <2>2, <2>3, <2>4
  <2>5. CASE r = s /\ \E w \in Threads :
              /\ Queued(w, s) /\ units'[s] = units[s]
              /\ \A u \in Threads : Queued(u, s)' <=> Queued(u, s) /\ u # w
    <3>1. Cardinality(Holders(s)') = Cardinality(Holders(s))
      BY <1>1, <1>2, <1>3, <1>8, <2>5, HandedOn
    <3> QED
      BY <2>1, <2>2, <2>5, <3>1
  <2>6. CASE r # s
    <3>1. Same(r) /\ (Has(t, r)' <=> Has(t, r))
      BY <1>4, <1>8, <2>1, <2>6
    <3>2. units'[r] = units[r] /\ \A u \in Threads : u # t => (Queued(u, r)' <=> Queued(u, r))
      BY <3>1 DEF Same
    <3> QED
      BY <2>1, <2>2, <2>3, <3>1, <3>2
  <2> QED
    BY <1>4, <2>4, <2>5, <2>6
<1>10. SlotInv'
  <2> SUFFICES ASSUME NEW u \in Threads, todo'[u] # << >>, Call(u)' = "put", pc'[u] = "store"
               PROVE  val'[u] = (head' + n') % Room
    BY DEF SlotInv
  <2>1. u # t
    BY <1>3
  <2>2. todo'[u] = todo[u] /\ pc'[u] = pc[u]
    BY <1>3, <2>1 DEF Advances
  <2>3. UNCHANGED <<head, n, val>>
    BY DEF buf
  <2> QED
    BY <1>1, <2>2, <2>3 DEF SlotInv, Call
<1> QED
  BY <1>1, <1>7, <1>9, <1>10 DEF BufInv, RingTypes, buf

\* A step inside, which touches no semaphore.
LEMMA InsideStep ==
  ASSUME BufInv, NEW t \in Threads, NEW place \in {"store", "unlock"}, Goto(t, place),
         todo[t] # << >>, Call(t) \in Calls2, \A s \in Semaphores : ~Queued(t, s),
         pc[t] \in {"find", "store"}, UNCHANGED sems
  PROVE  /\ RunInv' /\ Advances(t) /\ todo' = todo /\ pc'[t] = place
         /\ \A s \in BufferSemaphores :
              /\ units'[s] = units[s] /\ units[s] \in Nat
              /\ units[s] + Cardinality(Holders(s)) = Total(s)
              /\ Cardinality(Holders(s)) \in Nat /\ Cardinality(Holders(s)') \in Nat
              /\ (Has(t, s)' <=> Has(t, s)) => Cardinality(Holders(s)') = Cardinality(Holders(s))
              /\ Has(t, s)' /\ ~Has(t, s) => Cardinality(Holders(s)') = Cardinality(Holders(s)) + 1
              /\ ~Has(t, s)' /\ Has(t, s) => Cardinality(Holders(s)') = Cardinality(Holders(s)) - 1
         /\ \A s \in BufferSemaphores : ~Queued(t, s)' /\ (s # "lock" =>
              (Has(t, s)' <=> IF place = "store" THEN s = Wanted(t) ELSE s = Given(t)))
         /\ Has(t, "lock") /\ Has(t, "lock")'
<1>1. RunInv /\ RunTypes /\ CountInv /\ place \in Places
  BY DEF BufInv, RunInv, Places
<1>2. /\ todo' \in [Threads -> Seq(Calls)] /\ pc' \in [Threads -> Places]
      /\ Advances(t) /\ todo' = todo /\ pc'[t] = place
  BY <1>1, GotoAdvances
<1>3. RunInv' /\ \A s \in Semaphores : Same(s)
  BY <1>1, <1>2, AsideKeeps
<1>4. BufferSemaphores \subseteq Semaphores /\ "lock" \in BufferSemaphores
  BY DEF BufferSemaphores, Semaphores
<1>5. ASSUME NEW s \in BufferSemaphores
      PROVE  /\ units'[s] = units[s] /\ units[s] \in Nat
             /\ units[s] + Cardinality(Holders(s)) = Total(s)
             /\ ~Queued(t, s)'
             /\ Cardinality(Holders(s)) \in Nat /\ Cardinality(Holders(s)') \in Nat
             /\ (Has(t, s)' <=> Has(t, s)) => Cardinality(Holders(s)') = Cardinality(Holders(s))
             /\ Has(t, s)' /\ ~Has(t, s) => Cardinality(Holders(s)') = Cardinality(Holders(s)) + 1
             /\ ~Has(t, s)' /\ Has(t, s) => Cardinality(Holders(s)') = Cardinality(Holders(s)) - 1
  <2>1. s \in Semaphores /\ units'[s] = units[s] /\ \A u \in Threads : Queued(u, s)' <=> Queued(u, s)
    BY <1>3, <1>4 DEF Same
  <2>2. units[s] \in Nat /\ units[s] + Cardinality(Holders(s)) = Total(s)
    BY <1>1, <2>1 DEF RunTypes, CountInv
  <2> QED
    BY <1>1, <1>2, <2>1, <2>2, OneHolds
<1>6. Call(t)' = Call(t) /\ Wanted(t)' = Wanted(t) /\ Given(t)' = Given(t) /\ Wanted(t) # Given(t)
  BY <1>2 DEF Call, Wanted, Given
<1>7. ASSUME NEW s \in BufferSemaphores, s # "lock"
      PROVE  Has(t, s)' <=> IF place = "store" THEN s = Wanted(t) ELSE s = Given(t)
  BY <1>2, <1>5, <1>6, <1>7 DEF Has
<1>8. Has(t, "lock") /\ Has(t, "lock")'
  <2>1. ~Queued(t, "lock") /\ ~Queued(t, "lock")'
    BY <1>4, <1>5
  <2> QED
    BY <1>2, <1>6, <2>1 DEF Has
<1> QED
  BY <1>2, <1>3, <1>5, <1>7, <1>8

\* Finding the slot, or what comes out.
LEMMA FindKeeps ==
  ASSUME BufInv, NEW t \in Threads, Goto(t, "store"), UNCHANGED <<sems, buf>>,
         todo[t] # << >>, Call(t) \in Calls2, \A s \in Semaphores : ~Queued(t, s), pc[t] = "find",
         NEW v, val' = [val EXCEPT ![t] = v], Call(t) = "put" => v = (head + n) % Room
  PROVE  BufInv'
<1>1. RingTypes /\ SlotInv
  BY DEF BufInv
<1>2. /\ RunInv' /\ Advances(t) /\ todo' = todo
      /\ \A s \in BufferSemaphores :
           /\ units'[s] = units[s] /\ units[s] + Cardinality(Holders(s)) = Total(s)
           /\ (Has(t, s)' <=> Has(t, s)) => Cardinality(Holders(s)') = Cardinality(Holders(s))
      /\ \A s \in BufferSemaphores : s # "lock" => (Has(t, s)' <=> s = Wanted(t))
      /\ Has(t, "lock") /\ Has(t, "lock")'
  <2>1. "store" \in {"store", "unlock"} /\ pc[t] \in {"find", "store"} /\ UNCHANGED sems
    OBVIOUS
  <2> QED
    BY <2>1, InsideStep
<1>3. CountInv'
  <2> SUFFICES ASSUME NEW s \in BufferSemaphores
               PROVE  units'[s] + Cardinality(Holders(s)') = Total(s)'
    BY DEF CountInv
  <2>1. Has(t, s)' <=> Has(t, s)
    <3>1. CASE s = "lock"
      BY <1>2, <3>1
    <3>2. CASE s # "lock"
      <4>1. Has(t, s) <=> s = Wanted(t)
        BY <3>2 DEF Has, BufferSemaphores, Semaphores
      <4> QED
        BY <1>2, <3>2, <4>1
    <3> QED
      BY <3>1, <3>2
  <2>2. Total(s)' = Total(s)
    BY DEF Total, buf
  <2> QED
    BY <1>2, <2>1, <2>2
<1>4. SlotInv'
  <2> SUFFICES ASSUME NEW u \in Threads, todo'[u] # << >>, Call(u)' = "put", pc'[u] = "store"
               PROVE  val'[u] = (head' + n') % Room
    BY DEF SlotInv
  <2>1. head' = head /\ n' = n
    BY DEF buf
  <2>2. CASE u = t
    BY <1>1, <1>2, <2>1, <2>2 DEF RingTypes, Call
  <2>3. CASE u # t
    <3>1. todo'[u] = todo[u] /\ pc'[u] = pc[u]
      BY <1>2, <2>3 DEF Advances
    <3>2. val'[u] = val[u]
      BY <1>1, <2>3 DEF RingTypes
    <3> QED
      BY <1>1, <2>1, <3>1, <3>2 DEF SlotInv, Call
  <2> QED
    BY <2>2, <2>3
<1>5. RingTypes'
  BY <1>1 DEF RingTypes, buf
<1> QED
  BY <1>2, <1>3, <1>4, <1>5 DEF BufInv

\* Filling the slot, or taking out the first: a unit of one semaphore becomes one of
\* the other.
LEMMA StoreKeeps ==
  ASSUME BufInv, NEW t \in Threads, Goto(t, "unlock"), UNCHANGED <<sems, val>>,
         todo[t] # << >>, Call(t) \in Calls2, \A s \in Semaphores : ~Queued(t, s), pc[t] = "store",
         n' = (IF Call(t) = "put" THEN n + 1 ELSE n - 1), head' \in 0..Room - 1,
         data' \in [0..Room - 1 -> Values \cup {Nothing}]
  PROVE  BufInv'
<1>1. RingTypes /\ SlotInv /\ n \in Nat /\ Room \in Nat
  BY SyncAssumption DEF BufInv, RingTypes
<1>2. /\ RunInv' /\ Advances(t) /\ todo' = todo /\ pc'[t] = "unlock"
      /\ \A s \in BufferSemaphores :
           /\ units'[s] = units[s] /\ units[s] \in Nat
           /\ units[s] + Cardinality(Holders(s)) = Total(s)
           /\ Cardinality(Holders(s)) \in Nat /\ Cardinality(Holders(s)') \in Nat
           /\ (Has(t, s)' <=> Has(t, s)) => Cardinality(Holders(s)') = Cardinality(Holders(s))
           /\ Has(t, s)' /\ ~Has(t, s) => Cardinality(Holders(s)') = Cardinality(Holders(s)) + 1
           /\ ~Has(t, s)' /\ Has(t, s) => Cardinality(Holders(s)') = Cardinality(Holders(s)) - 1
      /\ \A s \in BufferSemaphores : s # "lock" => (Has(t, s)' <=> s = Given(t))
      /\ Has(t, "lock") /\ Has(t, "lock")'
  <2>1. "unlock" \in {"store", "unlock"} /\ pc[t] \in {"find", "store"} /\ UNCHANGED sems
    OBVIOUS
  <2>2. "unlock" # "store"
    OBVIOUS
  <2> QED
    BY <2>1, <2>2, InsideStep
<1>3. /\ Has(t, Wanted(t)) /\ ~Has(t, Given(t)) /\ Wanted(t) # Given(t)
      /\ Call(t) = "take" => n > 0
      /\ Call(t) \in {"put", "take"}
      /\ \A s \in BufferSemaphores : s # "lock" => s = Wanted(t) \/ s = Given(t)
  BY InsideHas DEF Wanted, Given, BufferSemaphores, Calls2
<1>4. CountInv'
  <2> SUFFICES ASSUME NEW s \in BufferSemaphores
               PROVE  units'[s] + Cardinality(Holders(s)') = Total(s)'
    BY DEF CountInv
  <2>1. CASE s = "lock"
    <3>1. Total(s)' = Total(s)
      BY <2>1 DEF Total
    <3> QED
      BY <1>2, <2>1, <3>1
  <2>2. CASE s # "lock" /\ s = Given(t)
    <3>1. Cardinality(Holders(s)') = Cardinality(Holders(s)) + 1
      BY <1>2, <1>3, <2>2
    <3>2. Total(s)' = Total(s) + 1
      BY <1>1, <1>3, <2>2 DEF Total, Given
    <3> QED
      BY <1>2, <3>1, <3>2
  <2>3. CASE s # "lock" /\ s = Wanted(t)
    <3>1. Cardinality(Holders(s)') = Cardinality(Holders(s)) - 1
      BY <1>2, <1>3, <2>3
    <3>2. Total(s)' = Total(s) - 1
      BY <1>1, <1>3, <2>3 DEF Total, Wanted
    <3> QED
      BY <1>2, <3>1, <3>2
  <2> QED
    BY <1>3, <2>1, <2>2, <2>3
<1>5. SlotInv'
  <2> SUFFICES ASSUME NEW u \in Threads, todo'[u] # << >>, Call(u)' = "put", pc'[u] = "store"
               PROVE  FALSE
    BY DEF SlotInv
  <2>1. u # t
    BY <1>2
  <2>2. todo[u] # << >> /\ Call(u) = "put" /\ pc[u] = "store"
    BY <1>2, <2>1 DEF Advances, Call
  <2>3. Has(u, "lock")
    BY <2>2, InsideHas DEF Calls2
  <2> QED
    BY <1>2, <2>1, <2>3, InsideAlone
<1>6. RingTypes'
  <2>1. n' \in Nat
    BY <1>1, <1>3
  <2> QED
    BY <1>1, <2>1 DEF RingTypes
<1> QED
  BY <1>2, <1>4, <1>5, <1>6 DEF BufInv

\* The other calls: how they go on or end, and what they do to their semaphores.
Elsewhere(t) ==
  \/ /\ todo[t] # << >> /\ Call(t) \notin Calls2
     /\ \/ \E place \in Places \ {"store"} : Goto(t, place)
        \/ Return(t)
  \/ pc[t] = "leaving" /\ Goto(t, "woken")

SemaphoreStep(t) ==
  \/ UNCHANGED sems
  \/ Call(t) = "join" /\ Down(t, "barrier") /\ Goto(t, "up")
  \/ Call(t) = "get" /\ Down(t, "go") /\ Goto(t, "up")
  \/ Up("barrier") \/ Up("go")

\* A semaphore step of a thread that is not in a buffer keeps the running state.
LEMMA ElsewhereKeepsRun ==
  ASSUME RunInv, NEW t \in Threads, Elsewhere(t), SemaphoreStep(t),
         pc[t] # "leaving" => ~Blocked(t), pc[t] = "leaving" => UNCHANGED sems
  PROVE  RunInv' /\ Advances(t) /\ \A s \in BufferSemaphores : Same(s)
<1>1. RunTypes /\ \A s \in Semaphores : NoDup(waiting[s])
  BY DEF RunInv, WaitInv
<1>2. \A s \in Semaphores : ~Queued(t, s)
  <2>1. CASE pc[t] = "leaving"
    BY <2>1 DEF RunInv, WaitInv, Queued, Waits
  <2>2. CASE pc[t] # "leaving"
    BY <1>1, <2>2, NotQueued DEF Queued
  <2> QED
    BY <2>1, <2>2
<1>3. /\ todo' \in [Threads -> Seq(Calls)] /\ pc' \in [Threads -> Places] /\ Advances(t)
  <2>1. "woken" \in Places
    BY DEF Places
  <2> QED
    BY <1>1, <2>1, GotoAdvances, ReturnAdvances DEF Elsewhere
<1>4. /\ BufferSemaphores \subseteq Semaphores /\ "barrier" \in Semaphores /\ "go" \in Semaphores
      /\ \A s \in BufferSemaphores : s # "barrier" /\ s # "go"
  BY DEF BufferSemaphores, Semaphores
<1>5. CASE UNCHANGED sems
  BY <1>2, <1>3, <1>4, <1>5, AsideKeeps
<1>6. ASSUME NEW s \in {"barrier", "go"}, Down(t, s), Goto(t, "up"),
             s = "barrier" => Call(t) = "join", s = "go" => Call(t) = "get"
      PROVE  RunInv' /\ \A r \in BufferSemaphores : Same(r)
  <2>1. s \in Semaphores /\ ~Queued(t, s)
    BY <1>2, <1>4
  <2>2. /\ units' \in [Semaphores -> Nat] /\ waiting' \in [Semaphores -> Seq(Threads)]
        /\ \A r \in Semaphores : NoDup(waiting'[r])
        /\ \A r \in Semaphores : r # s => Same(r)
        /\ \A u \in Threads : u # t => (Queued(u, s)' <=> Queued(u, s))
    BY <1>6, <2>1, DownIs
  <2>3. todo' = todo /\ pc'[t] = "up"
    BY <1>1, <1>6, GotoAdvances DEF Places
  <2>4. todo[t] # << >> /\ Call(t)' = Call(t)
    <3>1. ~Goto(t, "woken")
      BY <1>1, <2>3, GotoAdvances DEF Places
    <3> QED
      BY <2>3, <3>1 DEF Elsewhere, Call
  <2>5. \A r \in Semaphores : Queued(t, r)' => Waits(t, r)'
    <3> SUFFICES ASSUME NEW r \in Semaphores, Queued(t, r)' PROVE Waits(t, r)'
      OBVIOUS
    <3>1. r = s
      BY <1>2, <2>2 DEF Same
    <3> QED
      BY <1>6, <2>3, <2>4, <3>1 DEF Waits
  <2>6. \A r \in Semaphores, u \in Threads : u # t => (Queued(u, r)' => Queued(u, r))
    BY <2>2 DEF Same
  <2>7. RunInv'
    BY <1>3, <2>2, <2>5, <2>6, RunKeeps
  <2> QED
    BY <1>4, <2>2, <2>7
<1>7. ASSUME NEW s \in {"barrier", "go"}, Up(s)
      PROVE  RunInv' /\ \A r \in BufferSemaphores : Same(r)
  <2>1. s \in Semaphores
    BY <1>4
  <2>2. /\ units' \in [Semaphores -> Nat] /\ waiting' \in [Semaphores -> Seq(Threads)]
        /\ \A r \in Semaphores : NoDup(waiting'[r])
        /\ \A r \in Semaphores : r # s => Same(r)
        /\ \A u \in Threads : Queued(u, s)' => Queued(u, s)
    BY <1>7, <2>1, UpIs
  <2>3. \A r \in Semaphores, u \in Threads : Queued(u, r)' => Queued(u, r)
    BY <2>2 DEF Same
  <2>4. \A r \in Semaphores : Queued(t, r)' => Waits(t, r)'
    BY <1>2, <2>3
  <2>5. RunInv'
    BY <1>3, <2>2, <2>3, <2>4, RunKeeps
  <2> QED
    BY <1>4, <2>2, <2>5
<1> QED
  BY <1>3, <1>5, <1>6, <1>7 DEF SemaphoreStep

\* The steps of the other calls are such steps, and leave the buffer alone.
LEMMA ElsewhereSteps ==
  ASSUME RunTypes, NEW t \in Threads,
         \/ WaitHandler(t) \/ Arrive(t) \/ Pass(t) \/ Await(t) \/ Signal(t)
         \/ BarrierCount(t) \/ BarrierTurnstile(t)
         \/ FutureSet(t) \/ FutureGet(t) \/ SharedCopy(t) \/ SharedDrop(t)
  PROVE  /\ Elsewhere(t) /\ SemaphoreStep(t) /\ UNCHANGED buf
         /\ (pc[t] # "leaving" => ~Blocked(t)) /\ (pc[t] = "leaving" => UNCHANGED sems)
         /\ val' = val \/ \E v : val' = [val EXCEPT ![t] = v]
<1>0. {"leaving", "woken", "up", "down", "ready", "value", "delete"} \subseteq Places \ {"store"}
  BY DEF Places
<1>1. CASE WaitHandler(t)
  BY <1>1 DEF WaitHandler, Elsewhere, SemaphoreStep, local
<1>2. CASE Arrive(t)
  BY <1>0, <1>2 DEF Arrive, ArriveWith, In, StartWait, Elsewhere, SemaphoreStep, local, Calls2
<1>3. CASE Pass(t) \/ Await(t)
  BY <1>0, <1>3 DEF Pass, Await, In, StartWait, Elsewhere, SemaphoreStep, local, Calls2
<1>4. CASE Signal(t) \/ SharedCopy(t) \/ SharedDrop(t)
  BY <1>0, <1>4 DEF Signal, SharedCopy, SharedDrop, In, Elsewhere, SemaphoreStep, local, Calls2
<1>5. CASE BarrierCount(t)
  BY <1>0, <1>5 DEF BarrierCount, In, Elsewhere, SemaphoreStep, local, Calls2
<1>6. CASE BarrierTurnstile(t)
  BY <1>0, <1>6 DEF BarrierTurnstile, In, Elsewhere, SemaphoreStep, local, Calls2
<1>7. CASE FutureSet(t)
  BY <1>0, <1>7 DEF FutureSet, In, Elsewhere, SemaphoreStep, local, Calls2
<1>8. CASE FutureGet(t)
  BY <1>0, <1>8 DEF FutureGet, In, Elsewhere, SemaphoreStep, local, Calls2
<1> QED
  BY <1>1, <1>2, <1>3, <1>4, <1>5, <1>6, <1>7, <1>8

\* They keep the invariant of the buffer.
LEMMA ElsewhereKeeps ==
  ASSUME BufInv, NEW t \in Threads, Elsewhere(t), SemaphoreStep(t), UNCHANGED buf,
         pc[t] # "leaving" => ~Blocked(t), pc[t] = "leaving" => UNCHANGED sems,
         val' = val \/ \E v : val' = [val EXCEPT ![t] = v]
  PROVE  BufInv'
<1>1. RunInv /\ RunTypes /\ RingTypes
  BY DEF BufInv, RunInv
<1>2. RunInv' /\ Advances(t) /\ \A s \in BufferSemaphores : Same(s)
  BY <1>1, ElsewhereKeepsRun
<1>3. ASSUME NEW s \in BufferSemaphores PROVE ~Has(t, s) /\ ~Has(t, s)'
  <2>1. CASE pc[t] = "leaving" /\ Goto(t, "woken")
    <3>1. pc'[t] = "woken"
      BY <1>1, <2>1, GotoAdvances DEF Places
    <3> QED
      BY <2>1, <3>1 DEF Has
  <2>2. CASE todo[t] # << >> /\ Call(t) \notin Calls2 /\ Return(t)
    <3>1. pc'[t] = "call"
      BY <1>1, <2>2, ReturnAdvances
    <3> QED
      BY <2>2, <3>1 DEF Has
  <2>3. CASE todo[t] # << >> /\ Call(t) \notin Calls2 /\ \E place \in Places \ {"store"} : Goto(t, place)
    <3>1. todo' = todo
      BY <2>3 DEF Goto
    <3> QED
      BY <2>3, <3>1 DEF Has, Call
  <2> QED
    BY <2>1, <2>2, <2>3 DEF Elsewhere
<1>4. pc'[t] # "store"
  BY <1>1, GotoAdvances, ReturnAdvances DEF Elsewhere, Places
<1>5. val' = [u \in Threads |-> val'[u]] /\ \A u \in Threads : u # t => val'[u] = val[u]
  BY <1>1 DEF RingTypes
<1> QED
  BY <1>2, <1>3, <1>4, <1>5, OthersKeep

\* An empty buffer, and nobody has begun.
LEMMA InitBuf == Init => BufInv
<1> SUFFICES ASSUME Init PROVE BufInv
  OBVIOUS
<1>1. /\ todo \in Programs /\ pc = [t \in Threads |-> "call"]
      /\ units = [s \in Semaphores |-> CASE s = "nEmpty" -> Room [] s = "lock" -> 1 [] OTHER -> 0]
      /\ waiting = [s \in Semaphores |-> << >>]
      /\ head = 0 /\ n = 0 /\ data = [i \in 0..Room - 1 |-> Nothing]
      /\ val = [t \in Threads |-> Nothing]
  BY DEF Init
<1>2. /\ Room \in Nat \ {0} /\ Programs \subseteq [Threads -> Seq(Calls)]
  BY SyncAssumption
<1>3. RunTypes
  <2>1. todo \in [Threads -> Seq(Calls)] /\ pc \in [Threads -> Places]
    BY <1>1, <1>2 DEF Places
  <2>2. \A s \in Semaphores :
          (CASE s = "nEmpty" -> Room [] s = "lock" -> 1 [] OTHER -> 0) \in Nat
    BY <1>2 DEF Semaphores
  <2>3. units \in [Semaphores -> Nat] /\ waiting \in [Semaphores -> Seq(Threads)]
    BY <1>1, <2>2
  <2> QED
    BY <2>1, <2>3 DEF RunTypes
<1>4. WaitInv
  BY <1>1 DEF WaitInv, NoDup, InQueue
<1>5. RingTypes
  BY <1>1, <1>2 DEF RingTypes
<1>6. CountInv
  <2> SUFFICES ASSUME NEW s \in BufferSemaphores
               PROVE  units[s] + Cardinality(Holders(s)) = Total(s)
    BY DEF CountInv
  <2>1. Holders(s) = {}
    BY <1>1 DEF Holders, Has
  <2>2. Cardinality(Holders(s)) = 0
    BY <2>1, FS_EmptySet
  <2>3. s \in Semaphores /\ (s = "nEmpty" \/ s = "nFull" \/ s = "lock")
    BY DEF BufferSemaphores, Semaphores
  <2>4. units[s] = Total(s)
    BY <1>1, <1>2, <2>3 DEF Total
  <2> QED
    BY <1>2, <1>1, <2>2, <2>3, <2>4 DEF Total
<1>7. SlotInv
  BY <1>1 DEF SlotInv
<1> QED
  BY <1>3, <1>4, <1>5, <1>6, <1>7 DEF BufInv, RunInv

\* The semaphores of put() and get().
LEMMA BufferSemsKeeps ==
  ASSUME BufInv, NEW t \in Threads, BufferSems(t)
  PROVE  BufInv' /\ UNCHANGED buf
<1>0. UNCHANGED <<buf, val>> /\ RunTypes
  BY DEF BufferSems, local, BufInv, RunInv
<1>1. ASSUME NEW place, InBuffer(t, place)
      PROVE  /\ todo[t] # << >> /\ Call(t) \in Calls2 /\ pc[t] = place
             /\ \A s \in Semaphores : ~Queued(t, s)
             /\ Wanted(t) \in BufferSemaphores /\ Given(t) \in BufferSemaphores
  BY <1>0, <1>1, NotQueued DEF InBuffer, In, Calls2, Queued, Wanted, Given, BufferSemaphores
<1>2. CASE InBuffer(t, "call") /\ Down(t, Wanted(t)) /\ Goto(t, "lock")
  <2>1. \E s \in BufferSemaphores : s = Wanted(t) /\ Down(t, s)
    BY <1>1, <1>2
  <2> QED
    BY <1>0, <1>1, <1>2, <2>1, BufferDown
<1>3. CASE InBuffer(t, "lock") /\ Down(t, "lock") /\ Goto(t, "find")
  <2>1. "lock" \in BufferSemaphores
    BY DEF BufferSemaphores
  <2> QED
    BY <1>0, <1>1, <1>3, <2>1, BufferDown
<1>4. CASE InBuffer(t, "unlock") /\ Up("lock") /\ Goto(t, "give")
  <2>1. "lock" \in BufferSemaphores
    BY DEF BufferSemaphores
  <2> QED
    BY <1>0, <1>1, <1>4, <2>1, BufferUp
<1>5. CASE InBuffer(t, "give") /\ Up(Given(t)) /\ Return(t)
  <2>1. \E s \in BufferSemaphores : s = Given(t) /\ Up(s)
    BY <1>1, <1>5
  <2> QED
    BY <1>0, <1>1, <1>5, <2>1, BufferUp
<1> QED
  BY <1>0, <1>2, <1>3, <1>4, <1>5 DEF BufferSems

\* What is in the buffer, or in an array with these contents.
Contents(h, m, d) == [i \in 1..m |-> d[(h + i - 1) % Room]]
Items == Contents(head, n, data)

Arrays(S) == [0..Room - 1 -> S]

\* e has v in the slot after the m from h, and else what d has.
Stores(h, m, d, v, e) ==
  e[(h + m) % Room] = v /\ \A j \in 0..Room - 1 : j # (h + m) % Room => e[j] = d[j]

\* x % m for an x that is less than two times m.
LEMMA Mod ==
  ASSUME NEW m \in Nat, m > 0, NEW x \in Nat, x < m + m
  PROVE  x % m = IF x < m THEN x ELSE x - m
<1>1. CASE x < m
  BY <1>1
<1>2. CASE ~(x < m)
  BY <1>2
<1> QED
  BY <1>1, <1>2

\* The slots of the buffer are apart; the first is head.
LEMMA SlotsApart ==
  ASSUME NEW h \in 0..Room - 1, Room \in Nat \ {0}
  PROVE  /\ \A i \in 0..Room : (h + i) % Room \in 0..Room - 1
         /\ \A i, j \in 0..Room - 1 : (h + i) % Room = (h + j) % Room => i = j
         /\ h % Room = h
         /\ \A i \in 0..Room - 1 : (((h + 1) % Room) + i) % Room = (h + (i + 1)) % Room
<1>1. \A i \in 0..Room : h + i \in Nat /\ h + i < Room + Room /\ Room > 0 /\ Room \in Nat
  OBVIOUS
<1>2. \A i \in 0..Room : (h + i) % Room = IF h + i < Room THEN h + i ELSE h + i - Room
  BY <1>1, Mod
<1>3. \A i \in 0..Room : (h + i) % Room \in 0..Room - 1
  BY <1>1, <1>2
<1>4. \A i, j \in 0..Room - 1 : (h + i) % Room = (h + j) % Room => i = j
  <2> SUFFICES ASSUME NEW i \in 0..Room - 1, NEW j \in 0..Room - 1, (h + i) % Room = (h + j) % Room
               PROVE  i = j
    OBVIOUS
  <2>1. /\ (h + i) % Room = IF h + i < Room THEN h + i ELSE h + i - Room
        /\ (h + j) % Room = IF h + j < Room THEN h + j ELSE h + j - Room
    BY <1>2
  <2> QED
    BY <2>1
<1>5. h % Room = h
  BY Mod
<1>6. ASSUME NEW i \in 0..Room - 1
      PROVE  (((h + 1) % Room) + i) % Room = (h + (i + 1)) % Room
  <2>1. PICK k \in 0..Room - 1 : k = (h + 1) % Room /\ k = IF h + 1 < Room THEN h + 1 ELSE h + 1 - Room
    BY <1>2, <1>3
  <2>2. (k + i) % Room = IF k + i < Room THEN k + i ELSE k + i - Room
    BY <2>1, Mod
  <2>3. (h + (i + 1)) % Room = IF h + (i + 1) < Room THEN h + (i + 1) ELSE h + (i + 1) - Room
    BY <1>2
  <2> QED
    BY <2>1, <2>2, <2>3
<1> QED
  BY <1>3, <1>4, <1>5, <1>6

\* A value goes in at the end.
LEMMA PutIs ==
  ASSUME NEW h \in 0..Room - 1, NEW m \in 0..Room - 1, Room \in Nat \ {0}, NEW S,
         NEW d \in Arrays(S), NEW v \in S, NEW e \in Arrays(S),
         Stores(h, m, d, v, e)
  PROVE  /\ Len(Contents(h, m, d)) = m
         /\ Contents(h, m + 1, e) = Append(Contents(h, m, d), v)
<1>1. /\ \A i \in 0..Room : (h + i) % Room \in 0..Room - 1
      /\ \A i, j \in 0..Room - 1 : (h + i) % Room = (h + j) % Room => i = j
  BY SlotsApart
<1>2. \A i \in 1..m + 1 : h + i - 1 = h + (i - 1) /\ i - 1 \in 0..Room - 1
  OBVIOUS
<1>3. /\ d \in [0..Room - 1 -> S] /\ e \in [0..Room - 1 -> S]
      /\ \E k \in 0..Room - 1 : k = (h + m) % Room
  BY <1>1 DEF Arrays
<1> PICK k \in 0..Room - 1 : k = (h + m) % Room
  BY <1>3
<1>4. e[k] = v /\ \A j \in 0..Room - 1 : j # k => e[j] = d[j]
  BY <1>3 DEF Stores
<1>5. \A i \in 1..m : (h + i - 1) % Room \in 0..Room - 1 /\ (h + i - 1) % Room # k
  <2> SUFFICES ASSUME NEW i \in 1..m
               PROVE  (h + (i - 1)) % Room \in 0..Room - 1 /\ (h + (i - 1)) % Room # k
    BY <1>2
  <2>1. i - 1 \in 0..Room - 1 /\ i - 1 # m
    OBVIOUS
  <2> QED
    BY <1>1, <1>3, <2>1
<1>6. \A i \in 1..m : e[(h + i - 1) % Room] = d[(h + i - 1) % Room] /\ d[(h + i - 1) % Room] \in S
  BY <1>3, <1>4, <1>5
<1>7. e[(h + (m + 1) - 1) % Room] = v
  <2>1. h + (m + 1) - 1 = h + m
    OBVIOUS
  <2> QED
    BY <1>3, <1>4, <2>1
<1>8. PICK f : f = [i \in 1..m |-> d[(h + i - 1) % Room]]
  OBVIOUS
<1>9. PICK g : g = [i \in 1..m + 1 |-> e[(h + i - 1) % Room]]
  OBVIOUS
<1>10. f \in Seq(S) /\ Len(f) = m /\ \A i \in 1..m : f[i] = d[(h + i - 1) % Room]
  BY <1>3, <1>6, <1>8
<1>11. g \in Seq(S) /\ Len(g) = m + 1 /\ g[m + 1] = v /\ \A i \in 1..m : g[i] = f[i]
  <2>1. \A i \in 1..m + 1 : e[(h + i - 1) % Room] \in S
    BY <1>3, <1>6, <1>7
  <2>2. m + 1 \in Nat /\ g \in Seq(S) /\ Len(g) = m + 1
    BY <1>9, <2>1
  <2>3. \A i \in 1..m + 1 : g[i] = e[(h + i - 1) % Room]
    BY <1>9
  <2>4. m + 1 \in 1..m + 1 /\ \A i \in 1..m : i \in 1..m + 1
    OBVIOUS
  <2>5. g[m + 1] = v
    BY <1>7, <2>3, <2>4
  <2>6. \A i \in 1..m : g[i] = f[i]
    BY <1>6, <1>10, <2>3, <2>4
  <2> QED
    BY <2>2, <2>5, <2>6
<1>12. g = Append(f, v)
  BY <1>10, <1>11
<1> QED
  BY <1>8, <1>9, <1>10, <1>12 DEF Contents

\* The first comes out.
LEMMA GetIs ==
  ASSUME NEW h \in 0..Room - 1, NEW m \in 1..Room, Room \in Nat \ {0}, NEW S,
         NEW d \in Arrays(S)
  PROVE  /\ (h + 1) % Room \in 0..Room - 1
         /\ Contents(h, m, d) # << >>
         /\ Contents((h + 1) % Room, m - 1, d) = Tail(Contents(h, m, d))
<1>1. /\ \A i \in 0..Room : (h + i) % Room \in 0..Room - 1
      /\ \A i \in 0..Room - 1 : (((h + 1) % Room) + i) % Room = (h + (i + 1)) % Room
  BY SlotsApart
<1>2. PICK k \in 0..Room - 1 : k = (h + 1) % Room
  BY <1>1
<1>3. \A i \in 1..m : d[(h + i - 1) % Room] \in S
  <2> SUFFICES ASSUME NEW i \in 1..m PROVE d[(h + (i - 1)) % Room] \in S
    OBVIOUS
  <2> QED
    BY <1>1 DEF Arrays
<1>4. PICK f : f = [i \in 1..m |-> d[(h + i - 1) % Room]]
  OBVIOUS
<1>5. PICK g : g = [i \in 1..m - 1 |-> d[(k + i - 1) % Room]]
  OBVIOUS
<1>6. f \in Seq(S) /\ Len(f) = m /\ \A i \in 1..m : f[i] = d[(h + i - 1) % Room]
  BY <1>3, <1>4
<1>7. \A i \in 1..m - 1 : g[i] = f[i + 1]
  <2> SUFFICES ASSUME NEW i \in 1..m - 1 PROVE g[i] = f[i + 1]
    OBVIOUS
  <2>1. k + i - 1 = k + (i - 1) /\ i - 1 \in 0..Room - 1 /\ h + (i + 1) - 1 = h + ((i - 1) + 1)
    OBVIOUS
  <2>2. (k + (i - 1)) % Room = (h + ((i - 1) + 1)) % Room
    BY <1>1, <1>2, <2>1
  <2>3. g[i] = d[(k + i - 1) % Room] /\ f[i + 1] = d[(h + (i + 1) - 1) % Room]
    BY <1>5, <1>6
  <2> QED
    BY <2>1, <2>2, <2>3
<1>8. g \in Seq(S) /\ Len(g) = m - 1
  <2>1. \A i \in 1..m - 1 : i + 1 \in 1..m /\ f[i + 1] \in S
    BY <1>3, <1>6
  <2>2. \A i \in 1..m - 1 : g[i] \in S
    BY <1>7, <2>1
  <2>3. g = [i \in 1..m - 1 |-> g[i]]
    BY <1>5
  <2> HIDE <1>5
  <2>4. g \in [1..m - 1 -> S]
    BY <2>2, <2>3
  <2>5. m - 1 \in Nat
    OBVIOUS
  <2> QED
    BY <2>4, <2>5
<1>9. g = Tail(f) /\ f # << >>
  BY <1>6, <1>7, <1>8
<1> QED
  BY <1>2, <1>4, <1>5, <1>9 DEF Contents

\* put() inside: the value goes in at the end.
LEMMA PutStep ==
  ASSUME BufInv, NEW t \in Threads, BufferPut(t)
  PROVE  /\ BufInv'
         /\ \/ UNCHANGED buf
            \/ \E v \in Values : Len(Items) < Room /\ Items' = Append(Items, v)
<1>1. RunTypes /\ RingTypes /\ SlotInv
  BY DEF BufInv, RunInv
<1>2. /\ todo[t] # << >> /\ Call(t) = "put" /\ Call(t) \in Calls2 /\ UNCHANGED sems
      /\ \A s \in Semaphores : ~Queued(t, s)
  BY <1>1, NotQueued DEF BufferPut, In, Calls2, Queued
<1>3. CASE pc[t] = "find"
  <2>1. /\ Goto(t, "store") /\ UNCHANGED buf
        /\ val' = [val EXCEPT ![t] = (head + n) % Room]
    BY <1>3 DEF BufferPut, In
  <2>2. PICK v : v = (head + n) % Room /\ val' = [val EXCEPT ![t] = v]
    BY <2>1
  <2>3. BufInv'
    BY <1>2, <1>3, <2>1, <2>2, FindKeeps
  <2> QED
    BY <2>1, <2>3
<1>4. CASE pc[t] # "find"
  <2>1. /\ pc[t] = "store" /\ Goto(t, "unlock") /\ n' = n + 1 /\ UNCHANGED <<head, val>>
        /\ data' = [data EXCEPT ![val[t]] = Head(todo[t]).value]
    BY <1>4 DEF BufferPut, In
  <2>2. PICK v \in Values : v = Head(todo[t]).value
    BY <1>1, <1>2, FirstCall
  <2>3. n \in 0..Room - 1 /\ head \in 0..Room - 1 /\ Room \in Nat \ {0}
    BY <1>2, <2>1, RoomIs, InsideHas
  <2>4. val[t] = (head + n) % Room
    BY <1>1, <1>2, <2>1 DEF SlotInv
  <2>5. data' = [data EXCEPT ![(head + n) % Room] = v]
    BY <2>1, <2>2, <2>4
  <2>6. /\ data \in [0..Room - 1 -> Values \cup {Nothing}] /\ v \in Values \cup {Nothing}
        /\ (head + n) % Room \in 0..Room - 1
    <3>1. data \in [0..Room - 1 -> Values \cup {Nothing}] /\ v \in Values \cup {Nothing}
      BY <1>1 DEF RingTypes
    <3>2. n \in 0..Room
      BY <2>3
    <3>3. \A i \in 0..Room : (head + i) % Room \in 0..Room - 1
      BY <2>3, SlotsApart
    <3> QED
      BY <3>1, <3>2, <3>3
  <2>7. /\ data' \in [0..Room - 1 -> Values \cup {Nothing}]
        /\ Len(Items) = n /\ Items' = Append(Items, v)
    <3>1. PICK S, h, m, d, e : S = Values \cup {Nothing} /\ h = head /\ m = n /\ d = data /\ e = data'
      OBVIOUS
    <3>2. /\ h \in 0..Room - 1 /\ m \in 0..Room - 1 /\ d \in Arrays(S) /\ v \in S
          /\ e \in Arrays(S) /\ Stores(h, m, d, v, e)
      BY <2>3, <2>5, <2>6, <3>1 DEF Stores, Arrays
    <3>3. /\ Len(Contents(h, m, d)) = m
          /\ Contents(h, m + 1, e) = Append(Contents(h, m, d), v)
      BY <2>3, <3>2, PutIs
    <3>4. Items = Contents(h, m, d)
      BY <3>1 DEF Items
    <3>5. Items' = Contents(h, m + 1, e)
      BY <2>1, <3>1 DEF Items, Contents
    <3> QED
      BY <3>1, <3>2, <3>3, <3>4, <3>5 DEF Arrays
  <2>8. BufInv'
    BY <1>2, <2>1, <2>3, <2>7, StoreKeeps
  <2> QED
    BY <2>3, <2>7, <2>8
<1> QED
  BY <1>3, <1>4

\* get() inside: the first value comes out.
LEMMA GetStep ==
  ASSUME BufInv, NEW t \in Threads, BufferGet(t)
  PROVE  /\ BufInv'
         /\ \/ UNCHANGED buf
            \/ Items # << >> /\ Items' = Tail(Items)
<1>1. RunTypes /\ RingTypes /\ SlotInv
  BY DEF BufInv, RunInv
<1>2. /\ todo[t] # << >> /\ Call(t) = "take" /\ Call(t) \in Calls2 /\ UNCHANGED sems
      /\ \A s \in Semaphores : ~Queued(t, s)
  BY <1>1, NotQueued DEF BufferGet, In, Calls2, Queued
<1>3. CASE pc[t] = "find"
  <2>1. Goto(t, "store") /\ UNCHANGED buf /\ val' = [val EXCEPT ![t] = data[head]]
    BY <1>3 DEF BufferGet, In
  <2>2. PICK v : v = data[head] /\ val' = [val EXCEPT ![t] = v]
    BY <2>1
  <2>3. BufInv'
    BY <1>2, <1>3, <2>1, <2>2, FindKeeps
  <2> QED
    BY <2>1, <2>3
<1>4. CASE pc[t] # "find"
  <2>1. /\ pc[t] = "store" /\ Goto(t, "unlock") /\ n' = n - 1 /\ head' = (head + 1) % Room
        /\ UNCHANGED <<data, val>>
    BY <1>4 DEF BufferGet, In
  <2>2. n \in 1..Room /\ head \in 0..Room - 1 /\ Room \in Nat \ {0}
    BY <1>2, <2>1, RoomIs, InsideHas
  <2>3. data \in [0..Room - 1 -> Values \cup {Nothing}]
    BY <1>1 DEF RingTypes
  <2>4. (head + 1) % Room \in 0..Room - 1 /\ Items # << >> /\ Items' = Tail(Items)
    <3>1. PICK S, h, m, d : S = Values \cup {Nothing} /\ h = head /\ m = n /\ d = data
      OBVIOUS
    <3>2. h \in 0..Room - 1 /\ m \in 1..Room /\ d \in Arrays(S)
      BY <2>2, <2>3, <3>1 DEF Arrays
    <3>3. /\ (h + 1) % Room \in 0..Room - 1 /\ Contents(h, m, d) # << >>
          /\ Contents((h + 1) % Room, m - 1, d) = Tail(Contents(h, m, d))
      BY <2>2, <3>2, GetIs
    <3>4. Items = Contents(h, m, d)
      BY <3>1 DEF Items
    <3>5. Items' = Contents((h + 1) % Room, m - 1, d)
      BY <2>1, <3>1 DEF Items, Contents
    <3> QED
      BY <3>1, <3>3, <3>4, <3>5
  <2>6. BufInv'
    BY <1>2, <2>1, <2>3, <2>4, StoreKeeps
  <2> QED
    BY <2>4, <2>6
<1> QED
  BY <1>3, <1>4

\* Any step: the invariant holds after it, and at most one value goes in or out.
LEMMA BufStep ==
  BufInv /\ [Next]_vars =>
    /\ BufInv'
    /\ \/ UNCHANGED Items
       \/ Items # << >> /\ Items' = Tail(Items)
       \/ \E v \in Values : Len(Items) < Room /\ Items' = Append(Items, v)
<1> SUFFICES ASSUME BufInv, [Next]_vars
    PROVE  /\ BufInv'
           /\ \/ UNCHANGED Items
              \/ Items # << >> /\ Items' = Tail(Items)
              \/ \E v \in Values : Len(Items) < Room /\ Items' = Append(Items, v)
  OBVIOUS
<1>0. ASSUME UNCHANGED buf PROVE UNCHANGED Items
  BY <1>0 DEF Items, Contents, buf
<1>1. CASE UNCHANGED vars
  <2>1. UNCHANGED <<todo, pc, units, waiting, head, n, data, val>>
    BY <1>1 DEF vars, sems, buf, local
  <2>2. RunInv'
    BY <2>1 DEF BufInv, RunInv, RunTypes, WaitInv, NoDup, InQueue, Waits, Call
  <2>3. \A s, t : Has(t, s)' <=> Has(t, s)
    BY <2>1 DEF Has, Call, Queued, InQueue, Wanted, Given
  <2>4. \A s : Holders(s)' = Holders(s) /\ Total(s)' = Total(s)
    BY <2>1, <2>3 DEF Holders, Total
  <2>5. CountInv'
    BY <2>1, <2>4 DEF BufInv, CountInv
  <2>6. RingTypes' /\ SlotInv'
    BY <2>1 DEF BufInv, RingTypes, SlotInv, Call
  <2> QED
    BY <2>1, <2>2, <2>5, <2>6 DEF BufInv, Items, Contents
<1>2. ASSUME NEW t \in Threads, Step(t)
      PROVE  /\ BufInv'
             /\ \/ UNCHANGED Items
                \/ Items # << >> /\ Items' = Tail(Items)
                \/ \E v \in Values : Len(Items) < Room /\ Items' = Append(Items, v)
  <2>1. CASE BufferSems(t)
    BY <1>0, <2>1, BufferSemsKeeps
  <2>2. CASE BufferPut(t)
    BY <1>0, <2>2, PutStep
  <2>3. CASE BufferGet(t)
    BY <1>0, <2>3, GetStep
  <2>4. CASE \/ WaitHandler(t) \/ Arrive(t) \/ Pass(t) \/ Await(t) \/ Signal(t)
             \/ BarrierCount(t) \/ BarrierTurnstile(t)
             \/ FutureSet(t) \/ FutureGet(t) \/ SharedCopy(t) \/ SharedDrop(t)
    <3>1. RunTypes
      BY DEF BufInv, RunInv
    <3>2. BufInv' /\ UNCHANGED buf
      BY <2>4, <3>1, ElsewhereSteps, ElsewhereKeeps
    <3> QED
      BY <1>0, <3>2
  <2> QED
    BY <1>2, <2>1, <2>2, <2>3, <2>4 DEF Step
<1> QED
  BY <1>1, <1>2 DEF Next

\* BufInv holds in every reachable state (bb.h, semaphore.h).
THEOREM BufInvariance == Spec => []BufInv
<1>1. BufInv /\ [Next]_vars => BufInv'
  BY BufStep
<1> QED
  BY InitBuf, <1>1, PTL DEF Spec

\* put() and get() of any number of threads make of the array with head and n a
\* first-in first-out queue that never holds more than there is room for (bb.h:25-44).
THEOREM BufferIsQueue == Spec => IsBoundedQueue
<1>1. Init => Q!Init
  <2> SUFFICES ASSUME Init PROVE Items = << >>
    BY DEF Q!Init, Items, Contents
  <2>1. n = 0
    BY DEF Init
  <2> QED
    BY <2>1 DEF Items, Contents
<1>2. BufInv /\ [Next]_vars => [Q!Next]_[i \in 1..n |-> data[(head + i - 1) % Room]]
  BY BufStep DEF Q!Next, Q!Get, Q!Put, Items, Contents
<1> QED
  BY BufInvariance, <1>1, <1>2, PTL DEF Spec, IsBoundedQueue, Q!Spec
-----------------------------------------------------------------------------
(***************************************************************************)
(* The barriers. Of those that come to a ReusableBarrier each has begun as *)
(* many rounds as there were, or one more, and ended no more than there    *)
(* were; the count tells how many have begun one more. A Barrier lets      *)
(* nobody through before the count is zero, and then everyone has come.    *)
(***************************************************************************)
Barriers == {"sync", "join"}
BarTypes ==
  /\ rcount \in 1..Party /\ repoch \in Nat /\ tokens \in Nat /\ bcount \in 0..Party
  /\ isReady \in BOOLEAN /\ freed \in BOOLEAN /\ refs \in Int
  /\ round \in [Threads -> Nat] /\ entered \in [Threads -> Nat] /\ left \in [Threads -> Nat]

Inside(t) == todo[t] # << >> /\ Call(t) \in Barriers /\ pc[t] # "call"
CountsInv == \A t \in Threads : entered[t] = left[t] + (IF Inside(t) THEN 1 ELSE 0)

\* Who has come to the barrier, or will.
Comes(t) == entered[t] > 0 \/ Uses(todo[t], "sync") \/ Uses(todo[t], "join")
Comers == {t \in Threads : Comes(t)}
Never(c) == \A t \in Threads : ~Uses(todo[t], c)

Arrived == {t \in Threads : entered[t] = repoch + 1}
RoundInv ==
  /\ Never("join") /\ bcount = Party
  /\ Cardinality(Arrived) = Party - rcount
  /\ \A t \in Comers : repoch <= entered[t] /\ entered[t] <= repoch + 1 /\ left[t] <= repoch
  /\ \A t \in Threads : Inside(t) => round[t] = left[t]

Come == {t \in Threads : entered[t] > 0}
Once(t) ==
  /\ entered[t] <= 1
  /\ \A i, j \in DOMAIN todo[t] : todo[t][i].call = "join" /\ todo[t][j].call = "join" => i = j
  /\ entered[t] = 1 =>
       \A i \in DOMAIN todo[t] : todo[t][i].call = "join" => i = 1 /\ pc[t] # "call"
Closed(t) == left[t] = 0 /\ (Inside(t) /\ pc[t] = "up" => Queued(t, "barrier"))
OnceInv ==
  /\ Never("sync") /\ rcount = Party
  /\ Cardinality(Come) = Party - bcount
  /\ \A t \in Threads : Once(t)
  /\ bcount > 0 => units["barrier"] = 0 /\ \A t \in Threads : Closed(t)

ComersInv == Cardinality(Comers) \in {0, Party}
BarInv == BarTypes /\ CountsInv /\ ComersInv /\ (RoundInv \/ OnceInv)

\* What a program uses when its first call is over.
LEMMA TailUses ==
  ASSUME NEW q \in Seq(Calls), q # << >>, NEW c
  PROVE  /\ Uses(Tail(q), c) => Uses(q, c)
         /\ Uses(q, c) => Head(q).call = c \/ Uses(Tail(q), c)
         /\ Head(q).call = c => Uses(q, c)
<1>1. /\ Len(q) \in Nat /\ Len(q) >= 1 /\ Head(q) = q[1] /\ DOMAIN q = 1..Len(q)
      /\ DOMAIN Tail(q) = 1..Len(q)-1
      /\ \A i \in 1..Len(q)-1 : Tail(q)[i] = q[i+1]
  OBVIOUS
<1>2. ASSUME Uses(Tail(q), c) PROVE Uses(q, c)
  BY <1>1, <1>2 DEF Uses
<1>3. ASSUME Uses(q, c), Head(q).call # c PROVE Uses(Tail(q), c)
  <2>1. PICK i \in 1..Len(q) : q[i].call = c
    BY <1>1, <1>3 DEF Uses
  <2>2. i - 1 \in 1..Len(q)-1 /\ Tail(q)[i-1] = q[i]
    BY <1>1, <1>3, <2>1
  <2> QED
    BY <1>1, <2>1, <2>2 DEF Uses
<1>4. Head(q).call = c => Uses(q, c)
  BY <1>1 DEF Uses
<1> QED
  BY <1>2, <1>3, <1>4

\* Programs only get shorter.
LEMMA NeverStays ==
  ASSUME RunTypes, NEW t \in Threads, Advances(t), NEW c, Never(c)
  PROVE  Never(c)'
<1> SUFFICES ASSUME NEW u \in Threads PROVE ~Uses(todo'[u], c)
  BY DEF Never
<1>1. todo'[u] = todo[u] \/ (todo[u] # << >> /\ todo'[u] = Tail(todo[u]))
  BY DEF Advances
<1>2. todo[u] \in Seq(Calls) /\ ~Uses(todo[u], c)
  BY DEF RunTypes, Never
<1> QED
  BY <1>1, <1>2, TailUses

\* Who will come stays the same, whoever comes or goes.
LEMMA ComersStay ==
  ASSUME RunTypes, BarTypes, NEW t \in Threads, Advances(t),
         \A u \in Threads : u # t => entered'[u] = entered[u],
         entered'[t] \in Nat, entered[t] > 0 => entered'[t] > 0,
         entered'[t] > 0 => entered[t] > 0 \/ (todo[t] # << >> /\ Call(t) \in Barriers),
         todo'[t] # todo[t] /\ Call(t) \in Barriers => entered'[t] > 0
  PROVE  Comers' = Comers
<1>1. ASSUME NEW u \in Threads PROVE Comes(u)' <=> Comes(u)
  <2>1. CASE u # t
    BY <2>1 DEF Advances, Comes
  <2>2. CASE u = t
    <3>1. todo[t] \in Seq(Calls)
      BY DEF RunTypes
    <3>2. todo[t] # << >> => (Call(t) \in Barriers => Uses(todo[t], "sync") \/ Uses(todo[t], "join"))
      BY <3>1, TailUses DEF Barriers, Call
    <3>3. CASE todo'[t] = todo[t]
      BY <2>2, <3>2, <3>3 DEF Comes
    <3>4. CASE todo'[t] # todo[t]
      <4>1. todo[t] # << >> /\ todo'[t] = Tail(todo[t])
        BY <3>4 DEF Advances
      <4>2. \A c : /\ Uses(todo'[t], c) => Uses(todo[t], c)
                   /\ Uses(todo[t], c) => Call(t) = c \/ Uses(todo'[t], c)
        BY <3>1, <4>1, TailUses DEF Call
      <4> QED
        BY <2>2, <3>2, <3>4, <4>1, <4>2 DEF Comes, Barriers
    <3> QED
      BY <3>3, <3>4
  <2> QED
    BY <2>1, <2>2
<1> QED
  BY <1>1 DEF Comers

\* A step that leaves the barriers alone.
Quiet(t) ==
  /\ UNCHANGED <<entered, left, round, rcount, repoch, bcount>> /\ Same("barrier")
  /\ \/ todo[t] # << >> /\ Call(t) \notin Barriers
     \/ todo' = todo /\ pc[t] # "call" /\ pc'[t] \notin {"call", "up"}

\* A step that leaves the barriers alone keeps what is known of them.
LEMMA QuietKeeps ==
  ASSUME RunTypes, RunTypes', BarInv, BarTypes', NEW t \in Threads, Advances(t), Quiet(t)
  PROVE  BarInv'
<1>1. BarTypes /\ CountsInv /\ ComersInv
  BY DEF BarInv
<1>2. /\ entered' = entered /\ left' = left /\ round' = round /\ rcount' = rcount
      /\ repoch' = repoch /\ bcount' = bcount
  BY DEF Quiet
<1>3. Comers' = Comers
  <2>1. entered[t] \in Nat
    BY <1>1 DEF BarTypes
  <2>2. todo'[t] # todo[t] => Call(t) \notin Barriers
    BY DEF Quiet
  <2> QED
    BY <1>1, <1>2, <2>1, <2>2, ComersStay
<1>4. \A u \in Threads : u # t => todo'[u] = todo[u] /\ pc'[u] = pc[u]
  BY DEF Advances
<1>5. ASSUME NEW u \in Threads PROVE Inside(u)' <=> Inside(u)
  <2>1. CASE u # t
    BY <1>4, <2>1 DEF Inside, Call
  <2>2. CASE u = t
    BY <2>2 DEF Quiet, Advances, Inside, Call
  <2> QED
    BY <2>1, <2>2
<1>6. CountsInv'
  BY <1>1, <1>2, <1>5 DEF CountsInv
<1>7. ASSUME RoundInv PROVE RoundInv'
  <2>1. Never("join")'
    BY <1>7, NeverStays DEF RoundInv
  <2>2. Arrived' = Arrived
    BY <1>2 DEF Arrived
  <2> QED
    BY <1>2, <1>3, <1>5, <1>7, <2>1, <2>2 DEF RoundInv
<1>8. ASSUME OnceInv PROVE OnceInv'
  <2>1. Never("sync")'
    BY <1>8, NeverStays DEF OnceInv
  <2>2. Come' = Come
    BY <1>2 DEF Come
  <2>3. ASSUME NEW u \in Threads PROVE Once(u)'
    <3>1. Once(u)
      BY <1>8 DEF OnceInv
    <3>2. CASE todo'[u] = todo[u] /\ (pc[u] = pc'[u] \/ pc'[u] # "call")
      BY <1>2, <3>1, <3>2 DEF Once
    <3>3. CASE u = t /\ todo[t] # << >> /\ Call(t) \notin Barriers
      <4>1. PICK q \in Seq(Calls) : q = todo[t]
        BY DEF RunTypes
      <4>2. q # << >> /\ q[1].call # "join"
        BY <3>3, <4>1 DEF Call, Barriers
      <4>3. /\ Len(q) \in Nat /\ DOMAIN q = 1..Len(q) /\ DOMAIN Tail(q) = 1..Len(q)-1
            /\ \A i \in 1..Len(q)-1 : Tail(q)[i] = q[i+1]
        BY <4>2
      <4>4. entered[t] = 1 => \A i \in DOMAIN q : q[i].call # "join"
        BY <3>1, <3>3, <4>1, <4>2 DEF Once
      <4>5. todo'[t] = q \/ todo'[t] = Tail(q)
        BY <4>1 DEF Advances
      <4>6. CASE todo'[t] = q
        BY <1>2, <3>1, <3>3, <4>1, <4>4, <4>6 DEF Once
      <4>7. CASE todo'[t] = Tail(q)
        <5>1. \A i, j \in DOMAIN q : q[i].call = "join" /\ q[j].call = "join" => i = j
          BY <3>1, <3>3, <4>1 DEF Once
        <5>2. \A i \in 1..Len(q)-1 : i + 1 \in 1..Len(q)
          BY <4>3
        <5>3. \A i, j \in 1..Len(q)-1 :
                Tail(q)[i].call = "join" /\ Tail(q)[j].call = "join" => i = j
          BY <4>3, <5>1, <5>2
        <5>4. entered[t] = 1 => \A i \in 1..Len(q)-1 : Tail(q)[i].call # "join"
          BY <4>3, <4>4, <5>2
        <5>5. entered'[u] <= 1 /\ entered'[u] = entered[t]
          BY <1>2, <3>1, <3>3 DEF Once
        <5>6. PICK r : r = Tail(q)
          OBVIOUS
        <5>7. todo'[u] = r /\ DOMAIN r = 1..Len(q)-1
          BY <3>3, <4>3, <4>7, <5>6
        <5>8. /\ \A i, j \in DOMAIN r : r[i].call = "join" /\ r[j].call = "join" => i = j
              /\ entered'[u] = 1 => \A i \in DOMAIN r : r[i].call # "join"
          BY <5>3, <5>4, <5>5, <5>6, <5>7
        <5> QED
          BY <5>5, <5>7, <5>8 DEF Once
      <4> QED
        BY <4>5, <4>6, <4>7
    <3> QED
      BY <1>4, <3>2, <3>3 DEF Quiet
  <2>4. ASSUME bcount > 0 PROVE units'["barrier"] = 0 /\ \A u \in Threads : Closed(u)'
    <3>1. units["barrier"] = 0 /\ \A u \in Threads : Closed(u)
      BY <1>8, <2>4 DEF OnceInv
    <3>2. /\ units'["barrier"] = units["barrier"]
          /\ \A u \in Threads : Queued(u, "barrier")' <=> Queued(u, "barrier")
      BY DEF Quiet, Same
    <3>3. ASSUME NEW u \in Threads, Inside(u)', pc'[u] = "up" PROVE pc[u] = "up"
      <4>1. Inside(u)
        BY <1>5, <3>3
      <4>2. u # t
        BY <3>3, <4>1 DEF Quiet, Inside
      <4> QED
        BY <1>4, <3>3, <4>2
    <3> QED
      BY <1>2, <1>5, <3>1, <3>2, <3>3 DEF Closed
  <2> QED
    BY <1>2, <1>8, <2>1, <2>2, <2>3, <2>4 DEF OnceInv
<1> QED
  BY <1>1, <1>3, <1>6, <1>7, <1>8 DEF BarInv, ComersInv

\* At the start nobody has come, and the programs are for one kind of barrier.
LEMMA InitBar == Init => BarInv
<1> SUFFICES ASSUME Init PROVE BarInv
  OBVIOUS
<1>1. /\ todo \in Programs /\ pc = [t \in Threads |-> "call"]
      /\ rcount = Party /\ repoch = 0 /\ tokens = 0 /\ bcount = Party
      /\ isReady = FALSE /\ freed = FALSE /\ round = [t \in Threads |-> 0]
      /\ entered = [t \in Threads |-> 0] /\ left = [t \in Threads |-> 0]
  BY DEF Init
<1>2. /\ Party \in Nat \ {0} /\ IsFiniteSet(Threads) /\ todo \in [Threads -> Seq(Calls)]
  BY <1>1, SyncAssumption
<1>3. refs \in Int
  <2>1. PICK S \in SUBSET Threads : refs = Cardinality(S)
    BY DEF Init
  <2>2. IsFiniteSet(S)
    BY <1>2, <2>1, FS_Subset
  <2> QED
    BY <2>1, <2>2, FS_CardinalityType
<1>4. BarTypes
  <2>1. rcount \in 1..Party /\ bcount \in 0..Party /\ repoch \in Nat /\ tokens \in Nat
    BY <1>1, <1>2
  <2>2. round \in [Threads -> Nat] /\ entered \in [Threads -> Nat] /\ left \in [Threads -> Nat]
    BY <1>1
  <2>3. isReady \in BOOLEAN /\ freed \in BOOLEAN
    BY <1>1
  <2> QED
    BY <1>3, <2>1, <2>2, <2>3 DEF BarTypes
<1>5. \A t \in Threads : ~Inside(t) /\ entered[t] = 0 /\ left[t] = 0
  BY <1>1 DEF Inside
<1>6. CountsInv
  BY <1>5 DEF CountsInv
<1>7. Arrived = {} /\ Come = {}
  BY <1>1, <1>5 DEF Arrived, Come
<1>8. Cardinality(Arrived) = Party - rcount /\ Cardinality(Come) = Party - bcount
  BY <1>1, <1>2, <1>7, FS_EmptySet
<1>9. PICK c \in Barriers, d \in Barriers :
        /\ c # d /\ \A t \in Threads : ~Uses(todo[t], d)
        /\ Cardinality({t \in Threads : Uses(todo[t], c)}) \in {0, Party}
        /\ c = "join" => \A t \in Threads : \A i, j \in DOMAIN todo[t] :
                           todo[t][i].call = c /\ todo[t][j].call = c => i = j
  BY <1>1, SyncAssumption DEF Barriers
<1>10. ComersInv
  <2>1. \A t \in Threads : Comes(t) <=> Uses(todo[t], c)
    BY <1>5, <1>9 DEF Comes, Barriers
  <2>2. Comers = {t \in Threads : Uses(todo[t], c)}
    BY <2>1 DEF Comers
  <2> QED
    BY <1>9, <2>2 DEF ComersInv
<1>11. CASE c = "sync"
  <2>1. Never("join")
    BY <1>9, <1>11 DEF Never, Barriers
  <2>2. \A t \in Comers : repoch <= entered[t] /\ entered[t] <= repoch + 1 /\ left[t] <= repoch
    BY <1>1, <1>5 DEF Comers
  <2>3. RoundInv
    BY <1>1, <1>5, <1>8, <2>1, <2>2 DEF RoundInv
  <2> QED
    BY <1>4, <1>6, <1>10, <2>3 DEF BarInv
<1>12. CASE c = "join"
  <2>1. Never("sync")
    BY <1>9, <1>12 DEF Never, Barriers
  <2>2. \A t \in Threads : Once(t)
    BY <1>5, <1>9, <1>12 DEF Once
  <2>3. units["barrier"] = 0
    BY DEF Init, Semaphores
  <2>4. OnceInv
    BY <1>1, <1>5, <1>8, <2>1, <2>2, <2>3 DEF OnceInv, Closed
  <2> QED
    BY <1>4, <1>6, <1>10, <2>4 DEF BarInv
<1> QED
  BY <1>11, <1>12 DEF Barriers

\* A step of one thread leaves the others inside, or outside.
LEMMA OthersInside ==
  ASSUME NEW t \in Threads, Advances(t), NEW u \in Threads, u # t
  PROVE  (Inside(u)' <=> Inside(u)) /\ todo'[u] = todo[u] /\ pc'[u] = pc[u]
BY DEF Advances, Inside, Call

\* Who comes to a barrier is not of a program without it.
LEMMA Coming ==
  ASSUME RunTypes, NEW t \in Threads, todo[t] # << >>
  PROVE  Uses(todo[t], Call(t))
<1>1. todo[t] \in Seq(Calls)
  BY DEF RunTypes
<1> QED
  BY <1>1, TailUses DEF Call

\* Those that come to a barrier are as many as it was made for, if there are any: when
\* as many have come, it is all of them.
LEMMA AllCame ==
  ASSUME BarInv, NEW S \in SUBSET Comers, NEW t \in Comers
  PROVE  /\ Cardinality(S) \in Nat /\ Cardinality(S) <= Party
         /\ Cardinality(S) = Party => S = Comers
<1>1. IsFiniteSet(Comers) /\ Party \in Nat \ {0}
  BY SyncAssumption, FS_Subset DEF Comers
<1>2. Cardinality(Comers) # 0
  BY <1>1, FS_EmptySet
<1>3. Cardinality(Comers) = Party
  BY <1>2 DEF BarInv, ComersInv
<1>4. IsFiniteSet(S) /\ Cardinality(S) <= Cardinality(Comers)
      /\ (Cardinality(S) = Cardinality(Comers) => S = Comers)
  BY <1>1, FS_Subset
<1>5. Cardinality(S) \in Nat
  BY <1>4, FS_CardinalityType
<1> QED
  BY <1>3, <1>4, <1>5

\* A thread that comes for the next round has ended all before.
LEMMA ComesNext ==
  ASSUME RunTypes, BarInv, NEW t \in Threads, In(t, "sync", "call")
  PROVE  /\ RoundInv /\ t \in Comers /\ ~Inside(t) /\ repoch \in Nat
         /\ entered[t] = repoch /\ left[t] = repoch
<1>1. todo[t] # << >> /\ Call(t) = "sync" /\ pc[t] = "call"
  BY DEF In
<1>2. Uses(todo[t], "sync")
  BY <1>1, Coming
<1>3. RoundInv /\ t \in Comers /\ ~Inside(t)
  BY <1>1, <1>2 DEF BarInv, OnceInv, Never, Comers, Comes, Inside
<1>4. entered[t] = left[t] + 0 /\ entered[t] \in Nat /\ left[t] \in Nat /\ repoch \in Nat
  BY <1>3 DEF BarInv, CountsInv, BarTypes
<1>5. repoch <= entered[t] /\ left[t] <= repoch
  BY <1>3 DEF RoundInv
<1> QED
  BY <1>3, <1>4, <1>5

\* It comes, and is not the last.
LEMMA ArriveNotLast ==
  ASSUME RunTypes, RunTypes', BarInv, BarTypes', NEW t \in Threads, Arrive(t), Advances(t),
         rcount # 1
  PROVE  BarInv'
<1>1. /\ RoundInv /\ t \in Comers /\ ~Inside(t) /\ repoch \in Nat
      /\ entered[t] = repoch /\ left[t] = repoch
  BY ComesNext DEF Arrive, ArriveWith
<1>2. /\ entered' = [entered EXCEPT ![t] = entered[t] + 1]
      /\ round' = [round EXCEPT ![t] = repoch] /\ rcount' = rcount - 1
      /\ repoch' = repoch /\ bcount' = bcount
      /\ todo' = todo /\ left' = left /\ pc' = [pc EXCEPT ![t] = "leaving"]
      /\ todo[t] # << >> /\ Call(t) = "sync"
  BY DEF Arrive, ArriveWith, StartWait, Goto, In
<1>3. /\ entered \in [Threads -> Nat] /\ round \in [Threads -> Nat] /\ pc \in [Threads -> Places]
      /\ rcount \in Nat /\ Party \in Nat
  <2>1. Party \in Nat /\ rcount \in 1..Party
    BY SyncAssumption DEF BarInv, BarTypes
  <2> QED
    BY <2>1 DEF BarInv, BarTypes, RunTypes
<1>4. entered'[t] = repoch + 1 /\ round'[t] = repoch /\ Inside(t)'
      /\ \A u \in Threads : u # t => entered'[u] = entered[u] /\ round'[u] = round[u]
  BY <1>1, <1>2, <1>3 DEF Inside, Call, Barriers
<1>5. Comers' = Comers
  BY <1>1, <1>2, <1>4, ComersStay DEF BarInv, Barriers
<1>6. CountsInv'
  BY <1>1, <1>2, <1>4, OthersInside DEF BarInv, CountsInv
<1>7. Cardinality(Arrived') = Cardinality(Arrived) + 1
  <2>1. Arrived \in SUBSET Threads /\ Arrived' \in SUBSET Threads
    BY DEF Arrived
  <2>2. \A u \in Threads : u # t => (u \in Arrived <=> u \in Arrived')
    BY <1>2, <1>4 DEF Arrived
  <2>3. t \notin Arrived /\ t \in Arrived'
    BY <1>1, <1>2, <1>4 DEF Arrived
  <2> QED
    BY <2>1, <2>2, <2>3, OneJoins
<1>8. Never("join")'
  BY <1>1, NeverStays DEF RoundInv
<1>9. RoundInv'
  <2>1. Cardinality(Arrived') = Party - rcount'
    BY <1>1, <1>2, <1>3, <1>7 DEF RoundInv
  <2>2. \A u \in Comers : repoch <= entered'[u] /\ entered'[u] <= repoch + 1 /\ left[u] <= repoch
    BY <1>1, <1>4 DEF RoundInv, Comers
  <2>3. \A u \in Threads : Inside(u)' => round'[u] = left[u]
    BY <1>1, <1>4, OthersInside DEF RoundInv
  <2> QED
    BY <1>1, <1>2, <1>5, <1>8, <2>1, <2>2, <2>3 DEF RoundInv
<1> QED
  BY <1>5, <1>6, <1>9 DEF BarInv, ComersInv

\* It is the last: all have come, and the next round begins.
LEMMA ArriveLast ==
  ASSUME RunTypes, RunTypes', BarInv, BarTypes', NEW t \in Threads, Arrive(t), Advances(t),
         rcount = 1
  PROVE  BarInv'
<1>1. /\ RoundInv /\ t \in Comers /\ ~Inside(t) /\ repoch \in Nat
      /\ entered[t] = repoch /\ left[t] = repoch
  BY ComesNext DEF Arrive, ArriveWith
<1>2. /\ entered' = [entered EXCEPT ![t] = entered[t] + 1]
      /\ round' = [round EXCEPT ![t] = repoch] /\ rcount' = Party
      /\ repoch' = repoch + 1 /\ bcount' = bcount
      /\ left' = [left EXCEPT ![t] = left[t] + 1] /\ pc' = [pc EXCEPT ![t] = "call"]
      /\ todo[t] # << >> /\ Call(t) = "sync"
  BY DEF Arrive, ArriveWith, Return, In
<1>3. /\ entered \in [Threads -> Nat] /\ round \in [Threads -> Nat] /\ left \in [Threads -> Nat]
      /\ pc \in [Threads -> Places] /\ Party \in Nat
  BY SyncAssumption DEF BarInv, BarTypes, RunTypes
<1>4. /\ entered'[t] = repoch + 1 /\ left'[t] = repoch + 1 /\ ~Inside(t)'
      /\ \A u \in Threads : u # t => /\ entered'[u] = entered[u] /\ round'[u] = round[u]
                                     /\ left'[u] = left[u]
  BY <1>1, <1>2, <1>3 DEF Inside
<1>5. Comers' = Comers
  BY <1>1, <1>2, <1>4, ComersStay DEF BarInv, Barriers
<1>6. CountsInv'
  BY <1>1, <1>2, <1>4, OthersInside DEF BarInv, CountsInv
<1>7. PICK S \in SUBSET Threads : S = Arrived \cup {t}
  BY DEF Arrived
<1>8. S = Comers
  <2>1. Arrived \in SUBSET Threads /\ t \notin Arrived /\ t \in S
        /\ \A u \in Threads : u # t => (u \in Arrived <=> u \in S)
    BY <1>1, <1>7 DEF Arrived
  <2>2. Cardinality(S) = Party
    BY <1>1, <1>3, <2>1, OneJoins DEF RoundInv
  <2>3. \A u \in Arrived : u \in Comers
    BY <1>1, <1>3 DEF Arrived, Comers, Comes
  <2>4. S \in SUBSET Comers
    BY <1>1, <1>7, <2>3
  <2> QED
    BY <1>1, <2>2, <2>4, AllCame
<1>9. \A u \in Comers : entered'[u] = repoch + 1
  BY <1>2, <1>4, <1>7, <1>8 DEF Arrived
<1>10. \A u \in Threads : entered'[u] # repoch + 2
  <2> SUFFICES ASSUME NEW u \in Threads PROVE entered'[u] # repoch + 2
    OBVIOUS
  <2>1. CASE u \in Comers
    BY <1>1, <1>9, <2>1
  <2>2. CASE u \notin Comers
    <3>1. u # t /\ ~(entered[u] > 0) /\ entered[u] \in Nat
      BY <1>1, <1>3, <2>2 DEF Comers, Comes
    <3> QED
      BY <1>1, <1>4, <3>1
  <2> QED
    BY <2>1, <2>2
<1>11. Cardinality(Arrived') = Party - rcount'
  <2>1. Arrived' = {}
    BY <1>1, <1>2, <1>10 DEF Arrived
  <2> QED
    BY <1>2, <1>3, <2>1, FS_EmptySet
<1>12. RoundInv'
  <2>1. Never("join")'
    BY <1>1, NeverStays DEF RoundInv
  <2>2. \A u \in Comers : left'[u] <= repoch'
    <3> SUFFICES ASSUME NEW u \in Comers PROVE left'[u] <= repoch'
      OBVIOUS
    <3>1. u \in Threads /\ left[u] <= repoch /\ left[u] \in Nat
      BY <1>1, <1>3 DEF RoundInv, Comers
    <3> QED
      BY <1>1, <1>2, <1>4, <3>1
  <2>3. \A u \in Comers : repoch' <= entered'[u] /\ entered'[u] <= repoch' + 1
    BY <1>1, <1>2, <1>9
  <2>4. \A u \in Threads : Inside(u)' => round'[u] = left'[u]
    BY <1>1, <1>4, OthersInside DEF RoundInv
  <2> QED
    BY <1>1, <1>2, <1>5, <1>11, <2>1, <2>2, <2>3, <2>4 DEF RoundInv
<1> QED
  BY <1>5, <1>6, <1>12 DEF BarInv, ComersInv

\* A thread passes that saw the round that it came in end.
LEMMA PassEnds ==
  ASSUME RunTypes, RunTypes', BarInv, BarTypes', NEW t \in Threads, In(t, "sync", "woken"),
         Advances(t), Return(t), ~(repoch <= round[t]),
         UNCHANGED <<entered, round, rcount, repoch, bcount>>
  PROVE  BarInv'
<1>1. /\ todo[t] # << >> /\ Call(t) = "sync" /\ pc[t] = "woken" /\ Inside(t)
      /\ left' = [left EXCEPT ![t] = left[t] + 1] /\ pc' = [pc EXCEPT ![t] = "call"]
      /\ entered' = entered /\ round' = round /\ rcount' = rcount /\ repoch' = repoch
      /\ bcount' = bcount
  BY DEF In, Return, Inside, Barriers
<1>2. RoundInv
  BY <1>1, Coming DEF BarInv, OnceInv, Never
<1>3. /\ entered \in [Threads -> Nat] /\ round \in [Threads -> Nat] /\ left \in [Threads -> Nat]
      /\ repoch \in Nat /\ pc \in [Threads -> Places]
  BY DEF BarInv, BarTypes, RunTypes
<1>4. round[t] = left[t] /\ entered[t] = left[t] + 1 /\ left[t] < repoch
  BY <1>1, <1>2, <1>3 DEF BarInv, RoundInv, CountsInv
<1>5. /\ left'[t] = left[t] + 1 /\ ~Inside(t)' /\ \A u \in Threads : u # t => left'[u] = left[u]
  BY <1>1, <1>3 DEF Inside
<1>6. Comers' = Comers
  BY <1>1, <1>3, <1>4, ComersStay DEF BarInv
<1>7. CountsInv'
  <2> SUFFICES ASSUME NEW u \in Threads
               PROVE  entered'[u] = left'[u] + (IF Inside(u)' THEN 1 ELSE 0)
    BY DEF CountsInv
  <2>1. CASE u = t
    BY <1>1, <1>3, <1>4, <1>5, <2>1
  <2>2. CASE u # t
    BY <1>1, <1>5, <2>2, OthersInside DEF BarInv, CountsInv
  <2> QED
    BY <2>1, <2>2
<1>8. RoundInv'
  <2>1. Never("join")'
    BY <1>2, NeverStays DEF RoundInv
  <2>2. Arrived' = Arrived
    BY <1>1 DEF Arrived
  <2>3. \A u \in Comers : left'[u] <= repoch
    BY <1>2, <1>3, <1>4, <1>5 DEF RoundInv, Comers
  <2>4. \A u \in Threads : Inside(u)' => round[u] = left'[u]
    BY <1>2, <1>5, OthersInside DEF RoundInv
  <2> QED
    BY <1>1, <1>2, <1>6, <2>1, <2>2, <2>3, <2>4 DEF RoundInv
<1> QED
  BY <1>6, <1>7, <1>8 DEF BarInv, ComersInv

\* A thread in a Barrier.
LEMMA InJoin ==
  ASSUME RunTypes, BarInv, NEW t \in Threads, todo[t] # << >>, Call(t) = "join"
  PROVE  /\ OnceInv /\ t \in Comers /\ Once(t)
         /\ 1 \in DOMAIN todo[t] /\ todo[t][1].call = "join"
         /\ \A i \in DOMAIN todo[t] : todo[t][i].call = "join" => i = 1
<1>1. Uses(todo[t], "join")
  BY Coming
<1>2. OnceInv /\ t \in Comers
  BY <1>1 DEF BarInv, RoundInv, Never, Comers, Comes
<1>3. Once(t)
  BY <1>2 DEF OnceInv
<1>4. todo[t] \in Seq(Calls)
  BY DEF RunTypes
<1>5. 1 \in DOMAIN todo[t] /\ todo[t][1].call = "join"
  BY <1>4 DEF Call
<1> QED
  BY <1>2, <1>3, <1>5 DEF Once

\* It has not come before, and there is a count left for it.
LEMMA ComesOnce ==
  ASSUME RunTypes, BarInv, NEW t \in Threads, In(t, "join", "call")
  PROVE  /\ entered[t] = 0 /\ left[t] = 0 /\ ~Inside(t) /\ bcount >= 1
<1>1. todo[t] # << >> /\ Call(t) = "join" /\ pc[t] = "call" /\ ~Inside(t)
  BY DEF In, Inside
<1>2. OnceInv /\ t \in Comers /\ Once(t) /\ 1 \in DOMAIN todo[t] /\ todo[t][1].call = "join"
  BY <1>1, InJoin
<1>3. entered[t] \in Nat /\ left[t] \in Nat /\ bcount \in 0..Party /\ Party \in Nat
  BY SyncAssumption DEF BarInv, BarTypes
<1>4. entered[t] = 0
  BY <1>1, <1>2, <1>3 DEF Once
<1>5. left[t] = 0
  BY <1>1, <1>3, <1>4 DEF BarInv, CountsInv
<1>6. Come \in SUBSET Comers /\ t \notin Come
  BY <1>4 DEF Come, Comers, Comes
<1>7. Cardinality(Come) # Party
  BY <1>2, <1>6, AllCame
<1>8. bcount >= 1
  BY <1>2, <1>3, <1>7 DEF OnceInv
<1> QED
  BY <1>1, <1>4, <1>5, <1>8

\* Others have come once as before.
LEMMA OthersOnce ==
  ASSUME NEW t \in Threads, Advances(t), NEW u \in Threads, u # t, entered'[u] = entered[u], Once(u)
  PROVE  Once(u)'
<1>1. todo'[u] = todo[u] /\ pc'[u] = pc[u]
  BY DEF Advances
<1> QED
  BY <1>1 DEF Once

\* count.add_fetch(-1).
LEMMA CountsDown ==
  ASSUME RunTypes, RunTypes', BarInv, BarTypes', NEW t \in Threads, BarrierCount(t), Advances(t),
         Same("barrier")
  PROVE  BarInv'
<1>1. /\ In(t, "join", "call") /\ todo[t] # << >> /\ Call(t) = "join"
      /\ bcount' = bcount - 1 /\ entered' = [entered EXCEPT ![t] = entered[t] + 1]
      /\ todo' = todo /\ left' = left /\ rcount' = rcount
      /\ pc' = [pc EXCEPT ![t] = IF bcount' = 0 THEN "up" ELSE "down"]
  BY DEF BarrierCount, Goto, In, monitor
<1>2. entered[t] = 0 /\ left[t] = 0 /\ ~Inside(t) /\ bcount >= 1
  BY <1>1, ComesOnce
<1>3. /\ OnceInv /\ Once(t) /\ \A i \in DOMAIN todo[t] : todo[t][i].call = "join" => i = 1
  BY <1>1, InJoin
<1>4. /\ entered \in [Threads -> Nat] /\ left \in [Threads -> Nat] /\ pc \in [Threads -> Places]
      /\ bcount \in Nat /\ Party \in Nat
  <2>1. Party \in Nat /\ bcount \in 0..Party
    BY SyncAssumption DEF BarInv, BarTypes
  <2> QED
    BY <2>1 DEF BarInv, BarTypes, RunTypes
<1>5. entered'[t] = 1 /\ \A u \in Threads : u # t => entered'[u] = entered[u]
  BY <1>1, <1>2, <1>4
<1>6. pc'[t] = IF bcount' = 0 THEN "up" ELSE "down"
  BY <1>1, <1>4
<1>7. Inside(t)'
  BY <1>1, <1>6 DEF Inside, Call, Barriers
<1>8. Comers' = Comers
  BY <1>1, <1>5, ComersStay DEF BarInv, Barriers
<1>9. CountsInv'
  <2> SUFFICES ASSUME NEW u \in Threads
               PROVE  entered'[u] = left'[u] + (IF Inside(u)' THEN 1 ELSE 0)
    BY DEF CountsInv
  <2>1. CASE u = t
    BY <1>1, <1>2, <1>5, <1>7, <2>1
  <2>2. CASE u # t
    BY <1>1, <1>5, <2>2, OthersInside DEF BarInv, CountsInv
  <2> QED
    BY <2>1, <2>2
<1>10. Cardinality(Come') = Party - bcount'
  <2>1. Come \in SUBSET Threads /\ Come' \in SUBSET Threads
    BY DEF Come
  <2>2. \A u \in Threads : u # t => (u \in Come <=> u \in Come')
    BY <1>5 DEF Come
  <2>3. t \notin Come /\ t \in Come'
    BY <1>2, <1>5 DEF Come
  <2>4. Cardinality(Come') = Cardinality(Come) + 1
    BY <2>1, <2>2, <2>3, OneJoins
  <2> QED
    BY <1>1, <1>3, <1>4, <2>4 DEF OnceInv
<1>11. ASSUME NEW u \in Threads PROVE Once(u)'
  <2>1. CASE u = t
    BY <1>1, <1>3, <1>5, <1>6, <2>1 DEF Once
  <2>2. CASE u # t
    BY <1>3, <1>5, <2>2, OthersOnce DEF OnceInv
  <2> QED
    BY <2>1, <2>2
<1>12. ASSUME bcount' > 0 PROVE units'["barrier"] = 0 /\ \A u \in Threads : Closed(u)'
  <2>1. units["barrier"] = 0 /\ \A u \in Threads : Closed(u)
    BY <1>2, <1>3, <1>4 DEF OnceInv
  <2>2. pc'[t] # "up"
    BY <1>6, <1>12
  <2>3. ASSUME NEW u \in Threads PROVE Closed(u)'
    <3>1. Closed(u) /\ left'[u] = left[u] /\ (Queued(u, "barrier")' <=> Queued(u, "barrier"))
      BY <1>1, <2>1 DEF Same
    <3>2. CASE u = t
      BY <2>2, <3>1, <3>2 DEF Closed
    <3>3. CASE u # t
      BY <3>1, <3>3, OthersInside DEF Closed
    <3> QED
      BY <3>2, <3>3
  <2> QED
    BY <2>1, <2>3 DEF Same
<1>13. OnceInv'
  <2>1. Never("sync")'
    BY <1>3, NeverStays DEF OnceInv
  <2> QED
    BY <1>1, <1>3, <1>10, <1>11, <1>12, <2>1 DEF OnceInv
<1> QED
  BY <1>8, <1>9, <1>13 DEF BarInv, ComersInv

\* down(), of those that are not the last: while the count is not zero, it waits.
LEMMA TurnsDown ==
  ASSUME RunTypes, RunTypes', BarInv, BarTypes', NEW t \in Threads, In(t, "join", "down"),
         Goto(t, "up"), Advances(t),
         UNCHANGED <<entered, round, rcount, repoch, bcount>>,
         \A u \in Threads : u # t => (Queued(u, "barrier")' <=> Queued(u, "barrier")),
         \/ units["barrier"] > 0 /\ units'["barrier"] = units["barrier"] - 1
         \/ units["barrier"] = 0 /\ units'["barrier"] = units["barrier"] /\ Queued(t, "barrier")'
  PROVE  BarInv'
<1>1. /\ todo[t] # << >> /\ Call(t) = "join" /\ pc[t] = "down"
      /\ todo' = todo /\ left' = left /\ pc' = [pc EXCEPT ![t] = "up"]
      /\ entered' = entered /\ round' = round /\ rcount' = rcount /\ repoch' = repoch
      /\ bcount' = bcount
  BY DEF In, Goto
<1>2. /\ OnceInv /\ Once(t) /\ \A i \in DOMAIN todo[t] : todo[t][i].call = "join" => i = 1
  BY <1>1, InJoin
<1>3. pc'[t] = "up" /\ \A u \in Threads : Inside(u)' <=> Inside(u)
  <2>1. pc'[t] = "up"
    BY <1>1 DEF RunTypes
  <2>2. Inside(t)' <=> Inside(t)
    BY <1>1, <2>1 DEF Inside, Call
  <2> QED
    BY <2>1, <2>2, OthersInside
<1>4. Comers' = Comers
  BY <1>1 DEF Comers, Comes
<1>5. CountsInv'
  BY <1>1, <1>3 DEF BarInv, CountsInv
<1>6. ASSUME NEW u \in Threads PROVE Once(u)'
  <2>1. CASE u = t
    BY <1>1, <1>2, <1>3, <2>1 DEF Once
  <2>2. CASE u # t
    BY <1>1, <1>2, <2>2, OthersOnce DEF OnceInv
  <2> QED
    BY <2>1, <2>2
<1>7. ASSUME bcount > 0 PROVE units'["barrier"] = 0 /\ \A u \in Threads : Closed(u)'
  <2>1. units["barrier"] = 0 /\ \A u \in Threads : Closed(u)
    BY <1>2, <1>7 DEF OnceInv
  <2>2. units'["barrier"] = 0 /\ Queued(t, "barrier")'
    BY <2>1
  <2>3. ASSUME NEW u \in Threads PROVE Closed(u)'
    <3>1. CASE u = t
      BY <1>1, <2>1, <2>2, <3>1 DEF Closed
    <3>2. CASE u # t
      BY <1>1, <2>1, <3>2, OthersInside DEF Closed
    <3> QED
      BY <3>1, <3>2
  <2> QED
    BY <2>2, <2>3
<1>8. OnceInv'
  <2>1. Never("sync")'
    BY <1>2, NeverStays DEF OnceInv
  <2>2. Come' = Come
    BY <1>1 DEF Come
  <2> QED
    BY <1>1, <1>2, <1>6, <1>7, <2>1, <2>2 DEF OnceInv
<1> QED
  BY <1>4, <1>5, <1>8 DEF BarInv, ComersInv

\* up(), by one that is not waiting: the count is zero.
LEMMA TurnsUp ==
  ASSUME RunTypes, RunTypes', BarInv, BarTypes', NEW t \in Threads, In(t, "join", "up"),
         Return(t), Advances(t), ~Queued(t, "barrier"),
         UNCHANGED <<entered, round, rcount, repoch, bcount>>
  PROVE  BarInv'
<1>1. /\ todo[t] # << >> /\ Call(t) = "join" /\ pc[t] = "up" /\ Inside(t)
      /\ todo'[t] = Tail(todo[t]) /\ left' = [left EXCEPT ![t] = left[t] + 1]
      /\ pc' = [pc EXCEPT ![t] = "call"]
      /\ entered' = entered /\ round' = round /\ rcount' = rcount /\ repoch' = repoch
      /\ bcount' = bcount
  BY DEF In, Return, Inside, Barriers, RunTypes
<1>2. /\ OnceInv /\ Once(t) /\ \A i \in DOMAIN todo[t] : todo[t][i].call = "join" => i = 1
  BY <1>1, InJoin
<1>3. /\ entered \in [Threads -> Nat] /\ left \in [Threads -> Nat] /\ pc \in [Threads -> Places]
      /\ bcount \in Nat
  BY DEF BarInv, BarTypes, RunTypes
<1>4. bcount = 0
  BY <1>1, <1>2, <1>3 DEF OnceInv, Closed
<1>5. entered[t] = left[t] + 1
  BY <1>1, <1>3 DEF BarInv, CountsInv
<1>6. left'[t] = left[t] + 1 /\ ~Inside(t)' /\ \A u \in Threads : u # t => left'[u] = left[u]
  BY <1>1, <1>3 DEF Inside
<1>7. Comers' = Comers
  BY <1>1, <1>3, <1>5, ComersStay DEF BarInv
<1>8. CountsInv'
  <2> SUFFICES ASSUME NEW u \in Threads
               PROVE  entered'[u] = left'[u] + (IF Inside(u)' THEN 1 ELSE 0)
    BY DEF CountsInv
  <2>1. CASE u = t
    BY <1>1, <1>3, <1>5, <1>6, <2>1
  <2>2. CASE u # t
    BY <1>1, <1>6, <2>2, OthersInside DEF BarInv, CountsInv
  <2> QED
    BY <2>1, <2>2
<1>9. ASSUME NEW u \in Threads PROVE Once(u)'
  <2>1. CASE u = t
    <3>1. PICK q \in Seq(Calls) : q = todo[t]
      BY DEF RunTypes
    <3>2. /\ Len(q) \in Nat /\ DOMAIN q = 1..Len(q) /\ DOMAIN Tail(q) = 1..Len(q)-1
          /\ \A i \in 1..Len(q)-1 : Tail(q)[i] = q[i+1]
      BY <1>1, <3>1
    <3>3. \A i \in 1..Len(q)-1 : Tail(q)[i].call # "join"
      BY <1>2, <3>1, <3>2
    <3> QED
      BY <1>1, <1>2, <2>1, <3>1, <3>2, <3>3 DEF Once
  <2>2. CASE u # t
    BY <1>1, <1>2, <2>2, OthersOnce DEF OnceInv
  <2> QED
    BY <2>1, <2>2
<1>10. OnceInv'
  <2>1. Never("sync")'
    BY <1>2, NeverStays DEF OnceInv
  <2>2. Come' = Come
    BY <1>1 DEF Come
  <2> QED
    BY <1>1, <1>2, <1>4, <1>9, <2>1, <2>2 DEF OnceInv
<1> QED
  BY <1>7, <1>8, <1>10 DEF BarInv, ComersInv

\* Every step of a thread moves it on in its program.
LEMMA StepAdvances ==
  ASSUME RunTypes, NEW t \in Threads, Step(t)
  PROVE  Advances(t)
<1>1. \/ \E place \in Places : Goto(t, place)
      \/ todo[t] # << >> /\ Return(t)
  <2>1. CASE BufferSems(t) \/ BufferPut(t) \/ BufferGet(t)
    BY <2>1 DEF BufferSems, BufferPut, BufferGet, InBuffer, In, Places
  <2>2. CASE ~(BufferSems(t) \/ BufferPut(t) \/ BufferGet(t))
    <3>1. Elsewhere(t)
      BY <2>2, ElsewhereSteps DEF Step
    <3>2. "woken" \in Places
      BY DEF Places
    <3> QED
      BY <3>1, <3>2 DEF Elsewhere
  <2> QED
    BY <2>1, <2>2
<1> QED
  BY <1>1, GotoAdvances, ReturnAdvances

\* A return counts if it is one from a barrier.
LEMMA ReturnCounts ==
  ASSUME BarTypes, NEW t \in Threads, Return(t)
  PROVE  left' \in [Threads -> Nat] /\ (Call(t) \notin Barriers => left' = left)
<1>1. left' = [left EXCEPT ![t] = IF Call(t) \in {"sync", "join"} THEN left[t] + 1 ELSE left[t]]
  BY DEF Return
<1> QED
  BY <1>1 DEF BarTypes, Barriers

\* The other semaphores.
LEMMA OtherSemaphores ==
  ASSUME RunInv, NEW t \in Threads, NEW s \in Semaphores \ {"barrier"}, ~Blocked(t),
         Down(t, s) \/ Up(s)
  PROVE  Same("barrier")
<1>1. ~Queued(t, s) /\ "barrier" \in Semaphores
  BY NotQueued DEF RunInv, Queued, Semaphores
<1> QED
  BY <1>1, DownIs, UpIs

\* No semaphore.
LEMMA NoSemaphore == ASSUME UNCHANGED sems PROVE Same("barrier")
BY DEF sems, Same, Queued, InQueue

\* The steps that are not of a barrier.
QuietSteps(t) ==
  \/ WaitHandler(t) \/ Await(t) \/ Signal(t)
  \/ FutureSet(t) \/ FutureGet(t) \/ SharedCopy(t) \/ SharedDrop(t)
  \/ BufferSems(t) \/ BufferPut(t) \/ BufferGet(t)

\* Every step outside a barrier leaves the barriers alone.
LEMMA QuietIs ==
  ASSUME RunInv, BarTypes, NEW t \in Threads, QuietSteps(t)
  PROVE  Quiet(t)
<1>1. {"go", "lock", "nEmpty", "nFull"} \subseteq Semaphores \ {"barrier"}
  BY DEF Semaphores
<1>2. RunTypes
  BY DEF RunInv
<1>3. CASE WaitHandler(t)
  <2>1. pc[t] = "leaving" /\ Goto(t, "woken") /\ UNCHANGED <<sems, entered, round, monitor, bcount>>
    BY <1>3 DEF WaitHandler, local
  <2>2. todo' = todo /\ left' = left /\ pc'[t] = "woken"
    BY <1>2, <2>1 DEF Goto, RunTypes
  <2> QED
    BY <2>1, <2>2, NoSemaphore DEF Quiet, monitor
<1>4. ASSUME todo[t] # << >>, Call(t) \notin Barriers,
             Return(t) \/ \E place : Goto(t, place),
             UNCHANGED <<entered, round, rcount, repoch, bcount>>, Same("barrier")
      PROVE  Quiet(t)
  BY <1>4, ReturnCounts DEF Quiet, Goto
<1>5. CASE Await(t) \/ Signal(t)
  <2>1. /\ todo[t] # << >> /\ Call(t) \notin Barriers
        /\ UNCHANGED <<entered, round, rcount, repoch, bcount, sems>>
    BY <1>5 DEF Await, Signal, In, Barriers, local
  <2>2. Return(t) \/ \E place : Goto(t, place)
    BY <1>5 DEF Await, Signal, StartWait
  <2> QED
    BY <1>4, <2>1, <2>2, NoSemaphore
<1>6. CASE FutureSet(t) \/ FutureGet(t)
  <2>1. /\ todo[t] # << >> /\ Call(t) \notin Barriers
        /\ UNCHANGED <<entered, round, rcount, repoch, bcount>>
        /\ ~Blocked(t)
    BY <1>6 DEF FutureSet, FutureGet, In, Barriers, local, monitor
  <2>2. Return(t) \/ \E place : Goto(t, place)
    BY <1>6 DEF FutureSet, FutureGet
  <2>3. UNCHANGED sems \/ Down(t, "go") \/ Up("go")
    BY <1>6 DEF FutureSet, FutureGet
  <2> QED
    BY <1>1, <1>4, <2>1, <2>2, <2>3, NoSemaphore, OtherSemaphores
<1>7. CASE SharedCopy(t) \/ SharedDrop(t)
  <2>1. /\ todo[t] # << >> /\ Call(t) \notin Barriers
        /\ UNCHANGED <<entered, round, rcount, repoch, bcount, sems>>
    BY <1>7 DEF SharedCopy, SharedDrop, In, Barriers, local, monitor
  <2>2. Return(t) \/ \E place : Goto(t, place)
    BY <1>7 DEF SharedCopy, SharedDrop
  <2> QED
    BY <1>4, <2>1, <2>2, NoSemaphore
<1>8. CASE BufferSems(t)
  <2>1. /\ todo[t] # << >> /\ Call(t) \notin Barriers
        /\ UNCHANGED <<entered, round, rcount, repoch, bcount>>
        /\ ~Blocked(t)
    BY <1>8 DEF BufferSems, InBuffer, In, Barriers, local, monitor
  <2>2. Return(t) \/ \E place : Goto(t, place)
    BY <1>8 DEF BufferSems
  <2>3. \/ Down(t, Wanted(t)) \/ Down(t, "lock") \/ Up("lock") \/ Up(Given(t))
    BY <1>8 DEF BufferSems
  <2>4. \E s \in Semaphores \ {"barrier"} : Down(t, s) \/ Up(s)
    BY <1>1, <2>3 DEF Wanted, Given
  <2> QED
    BY <1>4, <2>1, <2>2, <2>4, OtherSemaphores
<1>9. CASE BufferPut(t) \/ BufferGet(t)
  <2>1. /\ todo[t] # << >> /\ Call(t) \notin Barriers
        /\ UNCHANGED <<entered, round, rcount, repoch, bcount, sems>>
    BY <1>9 DEF BufferPut, BufferGet, In, Barriers, monitor
  <2>2. Return(t) \/ \E place : Goto(t, place)
    BY <1>9 DEF BufferPut, BufferGet
  <2> QED
    BY <1>4, <2>1, <2>2, NoSemaphore
<1> QED
  BY <1>3, <1>5, <1>6, <1>7, <1>8, <1>9 DEF QuietSteps

\* And what they do to the variables that are here only for their types.
LEMMA QuietTypes ==
  ASSUME BarTypes, NEW t \in Threads, QuietSteps(t), Quiet(t)
  PROVE  BarTypes'
<1>1. /\ entered' = entered /\ left' = left /\ round' = round /\ rcount' = rcount
      /\ repoch' = repoch /\ bcount' = bcount
  BY DEF Quiet
<1>2. tokens \in Nat /\ refs \in Int /\ isReady \in BOOLEAN /\ freed \in BOOLEAN
  BY DEF BarTypes
<1>3. tokens' \in Nat
  <2>1. tokens' = tokens \/ tokens' = tokens + 1 \/ (tokens # 0 /\ tokens' = tokens - 1)
    BY DEF QuietSteps, WaitHandler, Await, Signal, FutureSet, FutureGet, SharedCopy, SharedDrop,
           BufferSems, BufferPut, BufferGet, monitor
  <2> QED
    BY <1>2, <2>1
<1>4. refs' \in Int
  <2>1. refs' = refs \/ refs' = refs + 1 \/ refs' = refs - 1
    BY DEF QuietSteps, WaitHandler, Await, Signal, FutureSet, FutureGet, SharedCopy, SharedDrop,
           BufferSems, BufferPut, BufferGet, fut
  <2> QED
    BY <1>2, <2>1
<1>5. (isReady' = isReady \/ isReady' = TRUE) /\ (freed' = freed \/ freed' = TRUE)
  BY DEF QuietSteps, WaitHandler, Await, Signal, FutureSet, FutureGet, SharedCopy, SharedDrop,
         BufferSems, BufferPut, BufferGet, fut
<1>6. isReady' \in BOOLEAN /\ freed' \in BOOLEAN
  BY <1>2, <1>5
<1> QED
  BY <1>1, <1>3, <1>4, <1>6 DEF BarTypes

\* sync() of a ReusableBarrier.
LEMMA SyncKeeps ==
  ASSUME RunInv, RunTypes', BarInv, NEW t \in Threads, Arrive(t) \/ Pass(t), Advances(t)
  PROVE  BarInv'
<1>1. RunTypes /\ BarTypes
  BY DEF RunInv, BarInv
<1>2. /\ rcount \in 1..Party /\ Party \in Nat \ {0} /\ repoch \in Nat
      /\ round \in [Threads -> Nat] /\ entered \in [Threads -> Nat] /\ left \in [Threads -> Nat]
  BY <1>1, SyncAssumption DEF BarTypes
<1>3. CASE Arrive(t)
  <2>1. /\ entered' = [entered EXCEPT ![t] = entered[t] + 1]
        /\ round' = [round EXCEPT ![t] = repoch]
        /\ UNCHANGED <<tokens, bcount, isReady, freed, refs>>
    BY <1>3 DEF Arrive, ArriveWith, fut
  <2>2. entered' \in [Threads -> Nat] /\ round' \in [Threads -> Nat]
    BY <1>2, <2>1
  <2>3. CASE rcount = 1
    <3>1. rcount' = Party /\ repoch' = repoch + 1 /\ left' \in [Threads -> Nat]
      BY <1>1, <1>3, <2>3, ReturnCounts DEF Arrive, ArriveWith
    <3>2. BarTypes'
      BY <1>1, <1>2, <2>1, <2>2, <3>1 DEF BarTypes
    <3> QED
      BY <1>1, <1>3, <2>3, <3>2, ArriveLast
  <2>4. CASE rcount # 1
    <3>1. rcount' = rcount - 1 /\ repoch' = repoch /\ left' = left
      BY <1>3, <2>4 DEF Arrive, ArriveWith, StartWait, Goto
    <3>2. rcount' \in 1..Party
      BY <1>2, <2>4, <3>1
    <3>3. BarTypes'
      BY <1>1, <2>1, <2>2, <3>1, <3>2 DEF BarTypes
    <3> QED
      BY <1>1, <1>3, <2>4, <3>3, ArriveNotLast
  <2> QED
    BY <2>3, <2>4
<1>4. CASE Pass(t)
  <2>1. /\ In(t, "sync", "woken")
        /\ UNCHANGED <<sems, rcount, repoch, tokens, bcount, isReady, freed, refs, round, entered>>
    BY <1>4 DEF Pass, monitor, fut
  <2>2. CASE repoch <= round[t]
    <3>1. Goto(t, "leaving")
      BY <1>4, <2>2 DEF Pass, StartWait
    <3>2. todo' = todo /\ left' = left /\ pc'[t] = "leaving"
      BY <1>1, <3>1 DEF Goto, RunTypes
    <3>3. Quiet(t)
      BY <2>1, <3>2, NoSemaphore DEF Quiet, In
    <3>4. BarTypes'
      BY <1>1, <2>1, <3>2 DEF BarTypes
    <3> QED
      BY <1>1, <3>3, <3>4, QuietKeeps
  <2>3. CASE ~(repoch <= round[t])
    <3>1. Return(t)
      BY <1>4, <2>3 DEF Pass
    <3>2. BarTypes'
      BY <1>1, <2>1, <3>1, ReturnCounts DEF BarTypes
    <3> QED
      BY <1>1, <2>1, <2>3, <3>1, <3>2, PassEnds
  <2> QED
    BY <2>2, <2>3
<1> QED
  BY <1>3, <1>4

\* sync() of a Barrier.
LEMMA JoinKeeps ==
  ASSUME RunInv, RunTypes', BarInv, NEW t \in Threads, BarrierCount(t) \/ BarrierTurnstile(t),
         Advances(t)
  PROVE  BarInv'
<1>1. RunTypes /\ BarTypes /\ "barrier" \in Semaphores
  BY DEF RunInv, BarInv, Semaphores
<1>2. bcount \in 0..Party /\ Party \in Nat \ {0} /\ entered \in [Threads -> Nat]
  BY <1>1, SyncAssumption DEF BarTypes
<1>3. CASE BarrierCount(t)
  <2>1. /\ In(t, "join", "call") /\ bcount' = bcount - 1
        /\ entered' = [entered EXCEPT ![t] = entered[t] + 1] /\ left' = left
        /\ UNCHANGED <<sems, rcount, repoch, tokens, isReady, freed, refs, round>>
    BY <1>3 DEF BarrierCount, Goto, monitor, fut, local
  <2>2. bcount >= 1
    BY <1>1, <2>1, ComesOnce
  <2>3. bcount' \in 0..Party /\ entered' \in [Threads -> Nat]
    BY <1>2, <2>1, <2>2
  <2>4. BarTypes'
    BY <1>1, <2>1, <2>3 DEF BarTypes
  <2> QED
    BY <1>1, <1>3, <2>1, <2>4, NoSemaphore, CountsDown
<1>4. CASE BarrierTurnstile(t)
  <2>1. UNCHANGED <<entered, round, rcount, repoch, tokens, bcount, isReady, freed, refs>>
    BY <1>4 DEF BarrierTurnstile, monitor, fut, local
  <2>2. CASE In(t, "join", "down") /\ Goto(t, "up") /\ Down(t, "barrier")
    <3>1. ~Queued(t, "barrier") /\ left' = left
      BY <1>1, <2>2, NotQueued DEF In, Queued, Goto
    <3>2. BarTypes'
      BY <1>1, <2>1, <3>1 DEF BarTypes
    <3>3. /\ \A u \in Threads : u # t => (Queued(u, "barrier")' <=> Queued(u, "barrier"))
          /\ \/ units["barrier"] > 0 /\ units'["barrier"] = units["barrier"] - 1
             \/ /\ units["barrier"] = 0 /\ units'["barrier"] = units["barrier"]
                /\ Queued(t, "barrier")'
      BY <1>1, <2>2, <3>1, DownIs
    <3> QED
      BY <1>1, <2>1, <2>2, <3>2, <3>3, TurnsDown
  <2>3. CASE In(t, "join", "up") /\ Return(t) /\ Up("barrier")
    <3>1. ~Queued(t, "barrier")
      BY <1>1, <2>3, NotQueued DEF In, Queued
    <3>2. BarTypes'
      BY <1>1, <2>1, <2>3, ReturnCounts DEF BarTypes
    <3> QED
      BY <1>1, <2>1, <2>3, <3>1, <3>2, TurnsUp
  <2> QED
    BY <1>4, <2>2, <2>3 DEF BarrierTurnstile
<1> QED
  BY <1>3, <1>4

\* Any step.
LEMMA BarStep == BufInv /\ BufInv' /\ BarInv /\ [Next]_vars => BarInv'
<1> SUFFICES ASSUME BufInv, BufInv', BarInv, [Next]_vars PROVE BarInv'
  OBVIOUS
<1>1. RunInv /\ RunTypes /\ RunTypes' /\ BarTypes
  BY DEF BufInv, RunInv, BarInv
<1>2. CASE UNCHANGED vars
  <2>1. UNCHANGED <<todo, pc, units, waiting, rcount, repoch, tokens, bcount, isReady, refs,
                    freed, round, entered, left>>
    BY <1>2 DEF vars, sems, monitor, fut, local, hist
  <2>2. BarTypes' /\ Comers' = Comers /\ Arrived' = Arrived /\ Come' = Come
    BY <1>1, <2>1 DEF BarTypes, Comers, Comes, Arrived, Come
  <2>3. \A t \in Threads : /\ Inside(t)' <=> Inside(t)
                           /\ Once(t)' <=> Once(t)
                           /\ Closed(t)' <=> Closed(t)
    BY <2>1 DEF Inside, Call, Once, Closed, Queued, InQueue
  <2>4. \A c : Never(c)' <=> Never(c)
    BY <2>1 DEF Never
  <2>5. CountsInv'
    BY <2>1, <2>3 DEF BarInv, CountsInv
  <2>6. RoundInv => RoundInv'
    BY <2>1, <2>2, <2>3, <2>4 DEF RoundInv
  <2>7. OnceInv => OnceInv'
    BY <2>1, <2>2, <2>3, <2>4 DEF OnceInv
  <2> QED
    BY <2>2, <2>5, <2>6, <2>7 DEF BarInv, ComersInv
<1>3. ASSUME NEW t \in Threads, Step(t) PROVE BarInv'
  <2>1. Advances(t)
    BY <1>1, <1>3, StepAdvances
  <2>2. CASE Arrive(t) \/ Pass(t)
    BY <1>1, <2>1, <2>2, SyncKeeps
  <2>3. CASE BarrierCount(t) \/ BarrierTurnstile(t)
    BY <1>1, <2>1, <2>3, JoinKeeps
  <2>4. CASE QuietSteps(t)
    <3>1. Quiet(t)
      BY <1>1, <2>4, QuietIs
    <3>2. BarTypes'
      BY <1>1, <2>4, <3>1, QuietTypes
    <3> QED
      BY <1>1, <2>1, <3>1, <3>2, QuietKeeps
  <2> QED
    BY <1>3, <2>2, <2>3, <2>4 DEF Step, QuietSteps
<1> QED
  BY <1>2, <1>3 DEF Next

\* BarInv holds in every reachable state (barrier.h).
THEOREM BarInvariance == Spec => []BarInv
<1>1. BufInv /\ BufInv' /\ BarInv /\ [Next]_vars => BarInv'
  BY BarStep
<1> QED
  BY BufInvariance, InitBar, <1>1, PTL DEF Spec

\* Nobody passes a barrier for the k-th time before everyone has come to it for the
\* k-th time, in either kind of barrier (barrier.h:20-29, 48-67).
THEOREM NobodyIsEarly == Spec => []NobodyPassesEarly
<1>1. CondInv /\ BufInv /\ BarInv => NobodyPassesEarly
  <2> SUFFICES ASSUME CondInv, BufInv, BarInv PROVE NobodyPassesEarly
    OBVIOUS
  <2>1. SyncTypeOK
    <3>1. n \in 0..Room /\ head \in 0..Room - 1
      BY RoomIs
    <3>2. units \in [Semaphores -> Nat] /\ \A s \in Semaphores : waiting[s] \in Seq(Threads)
      BY DEF BufInv, RunInv, RunTypes
    <3>3. epoch \in Nat /\ queue \in Seq(Threads) /\ seen \in [Threads -> Nat]
      BY DEF CondInv, CondTypes
    <3> QED
      BY <3>1, <3>2, <3>3 DEF BarInv, BarTypes, SyncTypeOK
  <2>2. ASSUME NEW t \in Members, NEW u \in Members PROVE left[t] <= entered[u]
    <3>1. t \in Comers /\ u \in Comers
      <4>1. RunTypes
        BY DEF BufInv, RunInv
      <4> QED
        BY <4>1, Coming DEF Members, Comers, Comes
    <3>2. /\ t \in Threads /\ u \in Threads /\ left[t] \in Nat /\ entered[u] \in Nat
          /\ entered[t] \in Nat /\ repoch \in Nat /\ bcount \in Nat
      BY DEF Members, BarInv, BarTypes
    <3>3. CASE RoundInv
      BY <3>1, <3>2, <3>3 DEF RoundInv
    <3>4. CASE OnceInv /\ bcount > 0
      BY <3>2, <3>4 DEF OnceInv, Closed
    <3>5. CASE OnceInv /\ bcount = 0
      <4>1. Come \in SUBSET Comers /\ Party \in Nat
        BY SyncAssumption DEF Come, Comers, Comes
      <4>2. Come = Comers
        BY <3>1, <3>5, <4>1, AllCame DEF OnceInv
      <4>3. entered[u] > 0
        BY <3>1, <4>2 DEF Come
      <4>4. left[t] <= entered[t]
        BY <3>2 DEF BarInv, CountsInv
      <4>5. entered[t] <= 1
        BY <3>2, <3>5 DEF OnceInv, Once
      <4> QED
        BY <3>2, <4>3, <4>4, <4>5
    <3> QED
      BY <3>2, <3>3, <3>4, <3>5 DEF BarInv
  <2> QED
    BY <2>1, <2>2 DEF NobodyPassesEarly
<1> QED
  BY <1>1, CondInvariance, BufInvariance, BarInvariance, PTL
-----------------------------------------------------------------------------
(***************************************************************************)
(* The future. Each thread has as many Shareds of it as it has still to    *)
(* drop and not to make, and the count is the number of them all: when it  *)
(* is zero, nobody is left to touch the object, and one thread deletes it. *)
(* Until there is a value, the semaphore lets nobody through.              *)
(***************************************************************************)
AtDelete(t) == todo[t] # << >> /\ Call(t) = "drop" /\ pc[t] = "delete"
Net(t) == ToDrop(todo[t], Len(todo[t])) - (IF AtDelete(t) THEN 1 ELSE 0)
Shareds == {x \in Threads \X (Nat \ {0}) : x[2] <= Net(x[1])}

Enough(q) ==
  \A k \in 1..Len(q) : q[Len(q) + 1 - k].call \in FutureCalls => ToDrop(q, k) > 0
ProgInv == \A t \in Threads : Enough(todo[t])
RefInv == IsFiniteSet(Shareds) /\ refs = Cardinality(Shareds)
DeleteInv ==
  /\ \A t \in Threads : AtDelete(t) =>
       refs = 0 /\ ~freed /\ \A u \in Threads : AtDelete(u) => u = t
  /\ freed => refs = 0

\* Nobody is past the assignment of set(), or past the wait of get().
Unset(t) ==
  todo[t] # << >> =>
    /\ Call(t) = "set" => pc[t] \notin {"ready", "up"}
    /\ Call(t) = "get" => pc[t] # "value" /\ (pc[t] = "up" => Queued(t, "go"))
ResultInv ==
  result = Nothing => ~isReady /\ units["go"] = 0 /\ \A t \in Threads : Unset(t)

FutInv == ProgInv /\ RefInv /\ DeleteInv /\ ResultInv

\* Finitely many are among the last k calls.
LEMMA AmongLastIs ==
  ASSUME NEW q, NEW k \in Nat, NEW c
  PROVE  /\ IsFiniteSet(AmongLast(q, k, c)) /\ Cardinality(AmongLast(q, k, c)) \in Nat
         /\ AmongLast(q, k, c) \subseteq 1..k
<1>1. IsFiniteSet(1..k)
  BY FS_Interval
<1>2. AmongLast(q, k, c) \subseteq 1..k
  BY DEF AmongLast
<1> QED
  BY <1>1, <1>2, FS_Subset, FS_CardinalityType

\* Positions from the end.
LEMMA FromEnd ==
  ASSUME NEW l \in Nat \ {0}
  PROVE  /\ l \in 1..l /\ l - 1 \in Nat
         /\ \A i \in 1..l : i \in 1..l - 1 \/ i = l
         /\ \A i \in 1..l - 1 : i \in 1..l /\ i # l /\ i \in 0..l - 1
                              /\ (l - 1) + 1 - i \in 1..l - 1
                              /\ ((l - 1) + 1 - i) + 1 = l + 1 - i
         /\ \A k \in 0..l - 1 : k \in Nat /\ \A i \in 1..k : i \in 1..l - 1
OBVIOUS

\* What is among the last calls of a program stays so when its first call is over.
LEMMA AmongTail ==
  ASSUME NEW q \in Seq(Calls), q # << >>, NEW c
  PROVE  /\ Len(q) \in Nat \ {0} /\ Len(Tail(q)) = Len(q) - 1
         /\ \A k \in 0..Len(q) - 1 : AmongLast(Tail(q), k, c) = AmongLast(q, k, c)
         /\ Cardinality(AmongLast(q, Len(q), c)) =
              Cardinality(AmongLast(Tail(q), Len(Tail(q)), c)) + (IF Head(q).call = c THEN 1 ELSE 0)
<1>1. /\ Len(q) \in Nat \ {0} /\ Len(Tail(q)) = Len(q) - 1 /\ Head(q) = q[1]
      /\ \A i \in 1..Len(q) - 1 : Tail(q)[i] = q[i + 1]
  OBVIOUS
<1>2. ASSUME NEW k \in 0..Len(q) - 1 PROVE AmongLast(Tail(q), k, c) = AmongLast(q, k, c)
  <2>1. ASSUME NEW i \in 1..k PROVE Tail(q)[Len(Tail(q)) + 1 - i] = q[Len(q) + 1 - i]
    <3>1. PICK j \in 1..Len(q) - 1 : j = Len(Tail(q)) + 1 - i /\ j + 1 = Len(q) + 1 - i
      <4>1. PICK l \in Nat \ {0} : l = Len(q) /\ Len(Tail(q)) = l - 1
        BY <1>1
      <4>2. i \in 1..l - 1
        BY <4>1, FromEnd
      <4> QED
        BY <4>1, <4>2, FromEnd
    <3> QED
      BY <1>1, <3>1
  <2> QED
    BY <2>1 DEF AmongLast
<1>3. PICK S : S = AmongLast(q, Len(q) - 1, c)
  OBVIOUS
<1>4. IsFiniteSet(S) /\ Cardinality(S) \in Nat /\ Len(q) \notin S
  BY <1>1, <1>3, AmongLastIs
<1>5. AmongLast(q, Len(q), c) = IF Head(q).call = c THEN S \cup {Len(q)} ELSE S
  <2>1. \A i \in 1..Len(q) : i \in AmongLast(q, Len(q), c) <=> q[Len(q) + 1 - i].call = c
    BY DEF AmongLast
  <2>2. \A i \in 1..Len(q) - 1 : i \in S <=> q[Len(q) + 1 - i].call = c
    BY <1>3 DEF AmongLast
  <2>3. Len(q) \in AmongLast(q, Len(q), c) <=> Head(q).call = c
    BY <1>1, <2>1
  <2>4. AmongLast(q, Len(q), c) \subseteq 1..Len(q) /\ S \subseteq 1..Len(q) - 1
    BY <1>1, <1>3, AmongLastIs
  <2>5. PICK l \in Nat \ {0} : l = Len(q)
    BY <1>1
  <2>6. /\ \A i \in 1..l : i \in 1..l - 1 \/ i = l
        /\ \A i \in 1..l - 1 : i \in 1..l /\ i # l
    BY FromEnd
  <2>7. l \in 1..l
    BY FromEnd
  <2>8. ASSUME Head(q).call = c PROVE AmongLast(q, Len(q), c) = S \cup {Len(q)}
    BY <2>1, <2>2, <2>3, <2>4, <2>5, <2>6, <2>7, <2>8
  <2>9. ASSUME Head(q).call # c PROVE AmongLast(q, Len(q), c) = S
    BY <2>1, <2>2, <2>3, <2>4, <2>5, <2>6, <2>7, <2>9
  <2> QED
    BY <2>8, <2>9
<1>6. Cardinality(AmongLast(q, Len(q), c)) = Cardinality(S) + (IF Head(q).call = c THEN 1 ELSE 0)
  <2>1. Cardinality(S \cup {Len(q)}) = Cardinality(S) + 1
    BY <1>4, FS_AddElement
  <2> QED
    BY <1>4, <1>5, <2>1
<1>7. S = AmongLast(Tail(q), Len(Tail(q)), c)
  BY <1>1, <1>2, <1>3
<1> QED
  BY <1>1, <1>2, <1>6, <1>7

\* So what is to drop changes by its first call.
LEMMA ToDropTail ==
  ASSUME NEW q \in Seq(Calls), q # << >>
  PROVE  /\ ToDrop(q, Len(q)) \in Int /\ ToDrop(Tail(q), Len(Tail(q))) \in Int
         /\ Head(q).call = "drop" => ToDrop(Tail(q), Len(Tail(q))) = ToDrop(q, Len(q)) - 1
         /\ Head(q).call = "copy" => ToDrop(Tail(q), Len(Tail(q))) = ToDrop(q, Len(q)) + 1
         /\ Head(q).call \notin {"drop", "copy"} =>
              ToDrop(Tail(q), Len(Tail(q))) = ToDrop(q, Len(q))
         /\ Enough(q) => Enough(Tail(q))
<1>1. /\ Len(q) \in Nat \ {0} /\ Len(Tail(q)) = Len(q) - 1 /\ Len(Tail(q)) \in Nat
      /\ \A i \in 1..Len(q) - 1 : Tail(q)[i] = q[i + 1]
  OBVIOUS
<1>2. \A c : /\ \A k \in 0..Len(q) - 1 : AmongLast(Tail(q), k, c) = AmongLast(q, k, c)
             /\ Cardinality(AmongLast(q, Len(q), c)) =
                  Cardinality(AmongLast(Tail(q), Len(Tail(q)), c)) +
                    (IF Head(q).call = c THEN 1 ELSE 0)
  BY AmongTail
<1>3. PICK d, e, f, g :
        /\ d = Cardinality(AmongLast(q, Len(q), "drop"))
        /\ e = Cardinality(AmongLast(q, Len(q), "copy"))
        /\ f = Cardinality(AmongLast(Tail(q), Len(Tail(q)), "drop"))
        /\ g = Cardinality(AmongLast(Tail(q), Len(Tail(q)), "copy"))
  OBVIOUS
<1>4. d \in Nat /\ e \in Nat /\ f \in Nat /\ g \in Nat
  BY <1>1, <1>3, AmongLastIs
<1>5. ToDrop(q, Len(q)) = d - e /\ ToDrop(Tail(q), Len(Tail(q))) = f - g
  BY <1>3 DEF ToDrop
<1>6. /\ d = f + (IF Head(q).call = "drop" THEN 1 ELSE 0)
      /\ e = g + (IF Head(q).call = "copy" THEN 1 ELSE 0)
  BY <1>2, <1>3
<1>7. ASSUME Enough(q) PROVE Enough(Tail(q))
  <2> SUFFICES ASSUME NEW k \in 1..Len(Tail(q)),
                      Tail(q)[Len(Tail(q)) + 1 - k].call \in FutureCalls
               PROVE  ToDrop(Tail(q), k) > 0
    BY DEF Enough
  <2>1. k \in 1..Len(q) - 1 /\ k \in 1..Len(q) /\ k \in 0..Len(q) - 1
    BY <1>1, FromEnd
  <2>2. PICK j \in 1..Len(q) - 1 : j = Len(Tail(q)) + 1 - k /\ j + 1 = Len(q) + 1 - k
    <3>1. PICK l \in Nat \ {0} : l = Len(q) /\ Len(Tail(q)) = l - 1
      BY <1>1
    <3> QED
      BY <2>1, <3>1, FromEnd
  <2>3. Tail(q)[j] = q[j + 1]
    BY <1>1
  <2>4. ToDrop(q, k) > 0
    BY <1>7, <2>1, <2>2, <2>3 DEF Enough
  <2>5. ToDrop(Tail(q), k) = ToDrop(q, k)
    BY <1>2, <2>1 DEF ToDrop
  <2> QED
    BY <2>4, <2>5
<1> QED
  BY <1>4, <1>5, <1>6, <1>7

\* A thread that uses the future has a Shared of it.
LEMMA UserHolds ==
  ASSUME RunTypes, ProgInv, NEW t \in Threads, todo[t] # << >>, Call(t) \in FutureCalls
  PROVE  ToDrop(todo[t], Len(todo[t])) \in Int /\ ToDrop(todo[t], Len(todo[t])) > 0
<1>1. PICK q \in Seq(Calls) : q = todo[t]
  BY DEF RunTypes
<1>2. q # << >> /\ Len(q) \in 1..Len(q) /\ q[Len(q) + 1 - Len(q)] = Head(q)
  BY <1>1
<1>3. Enough(q)
  BY <1>1 DEF ProgInv
<1>4. ToDrop(q, Len(q)) > 0
  BY <1>1, <1>2, <1>3 DEF Enough, Call
<1> QED
  BY <1>1, <1>2, <1>4, ToDropTail

\* What the Shareds are when those of one thread change.
LEMMA SharedsChange ==
  ASSUME RefInv, NEW t \in Threads, Net(t) \in Int,
         \A u \in Threads : u # t => Net(u)' = Net(u)
  PROVE  /\ Cardinality(Shareds) \in Nat /\ (Net(t) > 0 => Cardinality(Shareds) > 0)
         /\ Net(t)' = Net(t) => Shareds' = Shareds
         /\ Net(t)' = Net(t) + 1 /\ Net(t) > 0 =>
              IsFiniteSet(Shareds') /\ Cardinality(Shareds') = Cardinality(Shareds) + 1
         /\ Net(t)' = Net(t) - 1 /\ Net(t) > 0 =>
              IsFiniteSet(Shareds') /\ Cardinality(Shareds') = Cardinality(Shareds) - 1
<1>1. IsFiniteSet(Shareds) /\ Cardinality(Shareds) \in Nat
  BY FS_CardinalityType DEF RefInv
<1>2. PICK m \in Int : m = Net(t)
  OBVIOUS
<1>3. ASSUME NEW u \in Threads, NEW k \in Nat \ {0}
      PROVE  /\ <<u, k>> \in Shareds <=> k <= Net(u)
             /\ <<u, k>> \in Shareds' <=> k <= Net(u)'
  BY DEF Shareds
<1>4. /\ Shareds \subseteq Threads \X (Nat \ {0}) /\ Shareds' \subseteq Threads \X (Nat \ {0})
      /\ \A x \in Threads \X (Nat \ {0}) : \E u \in Threads, k \in Nat \ {0} : x = <<u, k>>
  BY DEF Shareds
<1>5. ASSUME m > 0 PROVE <<t, m>> \in Shareds
  BY <1>2, <1>3, <1>5
<1>6. ASSUME m > 0 PROVE Cardinality(Shareds) > 0
  BY <1>1, <1>5, <1>6, FS_EmptySet
<1>7. ASSUME NEW u \in Threads, NEW k \in Nat \ {0}, u # t
      PROVE  <<u, k>> \in Shareds' <=> <<u, k>> \in Shareds
  BY <1>3, <1>7
<1>8. ASSUME Net(t)' = m PROVE Shareds' = Shareds
  <2>1. ASSUME NEW u \in Threads, NEW k \in Nat \ {0}
        PROVE  <<u, k>> \in Shareds' <=> <<u, k>> \in Shareds
    BY <1>2, <1>3, <1>7, <1>8
  <2> QED
    BY <1>4, <2>1
<1>9. ASSUME Net(t)' = m + 1, m > 0
      PROVE  IsFiniteSet(Shareds') /\ Cardinality(Shareds') = Cardinality(Shareds) + 1
  <2>1. PICK x : x = <<t, m + 1>>
    OBVIOUS
  <2>2. ASSUME NEW u \in Threads, NEW k \in Nat \ {0}
        PROVE  <<u, k>> \in Shareds' <=> <<u, k>> \in Shareds \/ <<u, k>> = x
    <3>1. CASE u = t
      <4>1. k <= m + 1 <=> k <= m \/ k = m + 1
        OBVIOUS
      <4> QED
        BY <1>2, <1>3, <1>9, <2>1, <3>1, <4>1
    <3>2. CASE u # t
      BY <1>7, <2>1, <3>2
    <3> QED
      BY <3>1, <3>2
  <2>3. x \in Threads \X (Nat \ {0}) /\ x \notin Shareds
    BY <1>2, <1>3, <1>9, <2>1
  <2>4. Shareds' = Shareds \cup {x}
    BY <1>4, <2>2, <2>3
  <2> QED
    BY <1>1, <2>3, <2>4, FS_AddElement
<1>10. ASSUME Net(t)' = m - 1, m > 0
       PROVE  IsFiniteSet(Shareds') /\ Cardinality(Shareds') = Cardinality(Shareds) - 1
  <2>1. PICK x : x = <<t, m>>
    OBVIOUS
  <2>2. ASSUME NEW u \in Threads, NEW k \in Nat \ {0}
        PROVE  <<u, k>> \in Shareds' <=> <<u, k>> \in Shareds /\ <<u, k>> # x
    <3>1. CASE u = t
      <4>1. k <= m - 1 <=> k <= m /\ k # m
        OBVIOUS
      <4> QED
        BY <1>2, <1>3, <1>10, <2>1, <3>1, <4>1
    <3>2. CASE u # t
      BY <1>7, <2>1, <3>2
    <3> QED
      BY <3>1, <3>2
  <2>3. x \in Shareds
    BY <1>5, <1>10, <2>1
  <2>4. Shareds' = Shareds \ {x}
    BY <1>4, <2>2, <2>3
  <2> QED
    BY <1>1, <2>3, <2>4, FS_RemoveElement
<1> QED
  BY <1>1, <1>2, <1>6, <1>8, <1>9, <1>10

\* The Shareds of the threads that do not move.
LEMMA OthersNet ==
  ASSUME NEW t \in Threads, Advances(t), NEW u \in Threads, u # t
  PROVE  Net(u)' = Net(u) /\ (AtDelete(u)' <=> AtDelete(u))
<1>1. todo'[u] = todo[u] /\ pc'[u] = pc[u]
  BY DEF Advances
<1> QED
  BY <1>1 DEF Net, AtDelete, Call

\* Programs only get shorter.
LEMMA EnoughStays ==
  ASSUME RunTypes, ProgInv, NEW t \in Threads, Advances(t)
  PROVE  ProgInv'
<1> SUFFICES ASSUME NEW u \in Threads PROVE Enough(todo'[u])
  BY DEF ProgInv
<1>1. todo[u] \in Seq(Calls) /\ Enough(todo[u])
  BY DEF RunTypes, ProgInv
<1>2. todo'[u] = todo[u] \/ (todo[u] # << >> /\ todo'[u] = Tail(todo[u]))
  BY DEF Advances
<1> QED
  BY <1>1, <1>2, ToDropTail

\* A step that makes and drops no Shared.
LEMMA NetStays ==
  ASSUME RunTypes, FutInv, NEW t \in Threads, Advances(t), ~AtDelete(t), ~AtDelete(t)',
         todo'[t] # todo[t] => Call(t) \notin {"copy", "drop"}, UNCHANGED <<refs, freed>>,
         ResultInv'
  PROVE  FutInv'
<1>1. \A u \in Threads : u # t => Net(u)' = Net(u)
  BY OthersNet
<1>2. todo[t] \in Seq(Calls)
  BY DEF RunTypes
<1>3. Net(t) \in Int /\ Net(t)' = Net(t)
  <2>1. CASE todo'[t] = todo[t] /\ todo[t] # << >>
    BY <1>2, <2>1, ToDropTail DEF Net
  <2>2. CASE todo'[t] = todo[t] /\ todo[t] = << >>
    <3>1. Len(todo[t]) = 0
      BY <2>2
    <3>2. \A c : Cardinality(AmongLast(todo[t], 0, c)) \in Nat
      BY AmongLastIs
    <3>3. ToDrop(todo[t], Len(todo[t])) \in Int
      BY <3>1, <3>2 DEF ToDrop
    <3> QED
      BY <2>2, <3>3 DEF Net
  <2>3. CASE todo'[t] # todo[t]
    <3>1. todo[t] # << >> /\ todo'[t] = Tail(todo[t]) /\ Head(todo[t]).call \notin {"copy", "drop"}
      BY <2>3 DEF Advances, Call
    <3> QED
      BY <1>2, <3>1, ToDropTail DEF Net
  <2> QED
    BY <2>1, <2>2, <2>3
<1>4. Shareds' = Shareds
  BY <1>1, <1>3, SharedsChange DEF FutInv
<1>5. RefInv'
  BY <1>4 DEF FutInv, RefInv
<1>6. DeleteInv'
  <2>1. \A u \in Threads : AtDelete(u)' => AtDelete(u)
    BY OthersNet
  <2> QED
    BY <2>1 DEF FutInv, DeleteInv
<1>7. ProgInv'
  BY EnoughStays DEF FutInv
<1> QED
  BY <1>5, <1>6, <1>7 DEF FutInv

\* The steps that are not of the future, and keep its semaphore as it is.
LEMMA NotOfFuture ==
  ASSUME RunTypes, RunTypes', FutInv, NEW t \in Threads, Advances(t), UNCHANGED fut, Same("go"),
         \/ todo[t] # << >> /\ Call(t) \notin FutureCalls
         \/ todo' = todo /\ pc[t] = "leaving" /\ pc'[t] = "woken"
  PROVE  FutInv'
<1>1. isReady' = isReady /\ result' = result /\ refs' = refs /\ freed' = freed
  BY DEF fut
<1>2. CASE todo[t] # << >> /\ Call(t) \notin FutureCalls
  <2>1. ~AtDelete(t) /\ ~AtDelete(t)' /\ Call(t) \notin {"copy", "drop"}
    BY <1>2 DEF AtDelete, Advances, FutureCalls, Call
  <2>2. ASSUME NEW u \in Threads, Unset(u) PROVE Unset(u)'
    <3>1. CASE u = t
      BY <1>2, <3>1 DEF Unset, Advances, FutureCalls, Call
    <3>2. CASE u # t
      BY <2>2, <3>2 DEF Unset, Advances, Same, Call
    <3> QED
      BY <3>1, <3>2
  <2>3. ResultInv'
    BY <1>1, <2>2 DEF FutInv, ResultInv, Same
  <2> QED
    BY <1>1, <2>1, <2>3, NetStays
<1>3. CASE todo' = todo /\ pc[t] = "leaving" /\ pc'[t] = "woken"
  <2>1. ~AtDelete(t) /\ ~AtDelete(t)'
    BY <1>3 DEF AtDelete
  <2>2. ASSUME NEW u \in Threads, Unset(u) PROVE Unset(u)'
    <3>1. CASE u = t
      BY <1>3, <3>1 DEF Unset
    <3>2. CASE u # t
      BY <2>2, <3>2 DEF Unset, Advances, Same, Call
    <3> QED
      BY <3>1, <3>2
  <2>3. ResultInv'
    BY <1>1, <2>2 DEF FutInv, ResultInv, Same
  <2> QED
    BY <1>1, <1>3, <2>1, <2>3, NetStays
<1> QED
  BY <1>2, <1>3

\* set(): there is a value before anybody is told.
LEMMA SetKeeps ==
  ASSUME RunTypes, FutInv, NEW t \in Threads, FutureSet(t), Advances(t)
  PROVE  FutInv'
<1>1. /\ todo[t] # << >> /\ Call(t) = "set" /\ refs' = refs /\ freed' = freed
      /\ \/ pc[t] = "call" /\ result' = Head(todo[t]).value
         \/ pc[t] \in {"ready", "up"} /\ result' = result
  BY DEF FutureSet, In
<1>2. ~AtDelete(t) /\ ~AtDelete(t)'
  BY <1>1 DEF AtDelete, Advances, Call
<1>3. ResultInv'
  <2>1. CASE pc[t] = "call" /\ result' = Head(todo[t]).value
    BY <1>1, <2>1, FirstCall, SyncAssumption DEF ResultInv
  <2>2. CASE pc[t] \in {"ready", "up"} /\ result' = result
    <3>1. result # Nothing
      BY <1>1, <2>2 DEF FutInv, ResultInv, Unset
    <3> QED
      BY <2>2, <3>1 DEF ResultInv
  <2> QED
    BY <1>1, <2>1, <2>2
<1> QED
  BY <1>1, <1>2, <1>3, NetStays

\* get(): without a value it stays in the queue.
LEMMA GetKeeps ==
  ASSUME RunInv, FutInv, NEW t \in Threads, FutureGet(t), Advances(t)
  PROVE  FutInv'
<1>0. RunTypes /\ "go" \in Semaphores
  BY DEF RunInv, Semaphores
<1>1. /\ todo[t] # << >> /\ Call(t) = "get" /\ UNCHANGED fut /\ ~Blocked(t)
      /\ isReady' = isReady /\ result' = result /\ refs' = refs /\ freed' = freed
  BY DEF FutureGet, In, fut
<1>2. ~AtDelete(t) /\ ~AtDelete(t)' /\ ~Queued(t, "go")
  BY <1>0, <1>1, NotQueued DEF AtDelete, Advances, Call, Queued
<1>3. ASSUME result = Nothing
      PROVE  ~isReady /\ units'["go"] = 0 /\ \A u \in Threads : Unset(u)'
  <2>1. ~isReady /\ units["go"] = 0 /\ \A u \in Threads : Unset(u)
    BY <1>3 DEF FutInv, ResultInv
  <2>2. pc[t] # "up" /\ pc[t] # "value"
    BY <1>1, <1>2, <2>1 DEF Unset
  <2>3. \/ Goto(t, "down") /\ UNCHANGED sems
        \/ Goto(t, "up") /\ Down(t, "go")
    BY <2>1, <2>2 DEF FutureGet, In
  <2>4. CASE Goto(t, "down") /\ UNCHANGED sems
    <3>1. pc'[t] = "down" /\ todo' = todo
      BY <1>0, <2>4, GotoAdvances DEF Places
    <3>2. units' = units /\ \A u \in Threads : Queued(u, "go")' <=> Queued(u, "go")
      BY <2>4 DEF sems, Queued, InQueue
    <3>3. ASSUME NEW u \in Threads PROVE Unset(u)'
      <4>1. CASE u = t
        BY <1>1, <3>1, <4>1 DEF Unset, Call
      <4>2. CASE u # t
        BY <2>1, <3>2, <4>2 DEF Unset, Advances, Call
      <4> QED
        BY <4>1, <4>2
    <3> QED
      BY <2>1, <3>2, <3>3
  <2>5. CASE Goto(t, "up") /\ Down(t, "go")
    <3>1. pc'[t] = "up" /\ todo' = todo
      BY <1>0, <2>5, GotoAdvances DEF Places
    <3>2. /\ units'["go"] = 0 /\ Queued(t, "go")'
          /\ \A u \in Threads : u # t => (Queued(u, "go")' <=> Queued(u, "go"))
      BY <1>0, <1>2, <2>1, <2>5, DownIs
    <3>3. ASSUME NEW u \in Threads PROVE Unset(u)'
      <4>1. CASE u = t
        BY <1>1, <3>1, <3>2, <4>1 DEF Unset, Call
      <4>2. CASE u # t
        BY <2>1, <3>2, <4>2 DEF Unset, Advances, Call
      <4> QED
        BY <4>1, <4>2
    <3> QED
      BY <2>1, <3>2, <3>3
  <2> QED
    BY <2>3, <2>4, <2>5
<1>4. ResultInv'
  BY <1>1, <1>3 DEF ResultInv
<1> QED
  BY <1>0, <1>1, <1>2, <1>4, NetStays

\* A step that touches no value and no semaphore, by a thread in another call.
LEMMA ResultStays ==
  ASSUME FutInv, NEW t \in Threads, Advances(t), UNCHANGED <<sems, isReady, result>>,
         todo[t] # << >>, Call(t) \in {"copy", "drop"}
  PROVE  ResultInv'
<1>1. units' = units /\ \A u \in Threads : Queued(u, "go")' <=> Queued(u, "go")
  BY DEF sems, Queued, InQueue
<1>2. ASSUME NEW u \in Threads, Unset(u) PROVE Unset(u)'
  <2>1. CASE u = t
    BY <2>1 DEF Unset, Advances, Call
  <2>2. CASE u # t
    BY <1>1, <1>2, <2>2 DEF Unset, Advances, Call
  <2> QED
    BY <2>1, <2>2
<1> QED
  BY <1>1, <1>2 DEF FutInv, ResultInv

\* A thread in copy or drop that has not done it yet.
LEMMA HasOne ==
  ASSUME RunTypes, FutInv, NEW t \in Threads, todo[t] # << >>, Call(t) \in {"copy", "drop"},
         ~AtDelete(t)
  PROVE  /\ todo[t] \in Seq(Calls) /\ Net(t) = ToDrop(todo[t], Len(todo[t]))
         /\ Net(t) \in Int /\ Net(t) > 0 /\ refs \in Nat /\ refs > 0 /\ ~freed
         /\ \A u \in Threads : ~AtDelete(u)
<1>1. todo[t] \in Seq(Calls) /\ Net(t) = ToDrop(todo[t], Len(todo[t])) - 0
  BY DEF RunTypes, Net
<1>2. Net(t) \in Int /\ Net(t) > 0 /\ Net(t) = ToDrop(todo[t], Len(todo[t]))
  BY <1>1, UserHolds DEF FutInv, FutureCalls
<1>3. <<t, Net(t)>> \in Shareds
  BY <1>2 DEF Shareds
<1>4. IsFiniteSet(Shareds) /\ refs = Cardinality(Shareds)
  BY DEF FutInv, RefInv
<1>5. refs \in Nat /\ refs > 0
  BY <1>3, <1>4, FS_CardinalityType, FS_EmptySet
<1> QED
  BY <1>1, <1>2, <1>5 DEF FutInv, DeleteInv

\* A copy of a Shared.
LEMMA CopyKeeps ==
  ASSUME RunTypes, FutInv, NEW t \in Threads, SharedCopy(t), Advances(t)
  PROVE  FutInv'
<1>1. /\ todo[t] # << >> /\ Call(t) = "copy" /\ refs' = refs + 1 /\ freed' = freed /\ Return(t)
      /\ UNCHANGED <<sems, isReady, result>> /\ ~AtDelete(t)
  BY DEF SharedCopy, In, AtDelete
<1>2. /\ todo[t] \in Seq(Calls) /\ Net(t) = ToDrop(todo[t], Len(todo[t]))
      /\ Net(t) \in Int /\ Net(t) > 0 /\ ~freed /\ \A u \in Threads : ~AtDelete(u)
  BY <1>1, HasOne
<1>3. todo'[t] = Tail(todo[t]) /\ pc'[t] = "call"
  BY <1>1, ReturnAdvances
<1>4. ~AtDelete(t)' /\ Net(t)' = Net(t) + 1
  <2>1. ~AtDelete(t)'
    BY <1>3 DEF AtDelete
  <2>2. ToDrop(todo'[t], Len(todo'[t])) = Net(t) + 1
    BY <1>1, <1>2, <1>3, ToDropTail DEF Call
  <2> QED
    BY <1>2, <2>1, <2>2 DEF Net
<1>5. \A u \in Threads : ~AtDelete(u)' /\ (u # t => Net(u)' = Net(u))
  BY <1>2, <1>4, OthersNet
<1>6. IsFiniteSet(Shareds') /\ Cardinality(Shareds') = Cardinality(Shareds) + 1
  BY <1>2, <1>4, <1>5, SharedsChange DEF FutInv
<1>7. RefInv'
  BY <1>1, <1>6 DEF FutInv, RefInv
<1>8. DeleteInv'
  BY <1>1, <1>2, <1>5 DEF DeleteInv
<1>9. ProgInv' /\ ResultInv'
  BY <1>1, EnoughStays, ResultStays DEF FutInv
<1> QED
  BY <1>7, <1>8, <1>9 DEF FutInv

\* drop(): the decrement, of the last or of another; and the delete.
LEMMA DropKeeps ==
  ASSUME RunTypes, FutInv, NEW t \in Threads, SharedDrop(t), Advances(t)
  PROVE  FutInv'
<1>1. /\ todo[t] # << >> /\ Call(t) = "drop" /\ UNCHANGED <<sems, isReady, result>>
      /\ \/ pc[t] = "call" /\ refs' = refs - 1 /\ freed' = freed
            /\ IF refs' = 0 THEN Goto(t, "delete") ELSE Return(t)
         \/ pc[t] = "delete" /\ freed' = TRUE /\ Return(t) /\ refs' = refs
  BY DEF SharedDrop, In
<1>2. ProgInv' /\ ResultInv'
  BY <1>1, EnoughStays, ResultStays DEF FutInv
<1>3. CASE /\ pc[t] = "call" /\ refs' = refs - 1 /\ freed' = freed
           /\ IF refs' = 0 THEN Goto(t, "delete") ELSE Return(t)
  <2>1. ~AtDelete(t)
    BY <1>3 DEF AtDelete
  <2>2. /\ todo[t] \in Seq(Calls) /\ Net(t) = ToDrop(todo[t], Len(todo[t]))
        /\ Net(t) \in Int /\ Net(t) > 0 /\ ~freed /\ \A u \in Threads : ~AtDelete(u)
    BY <1>1, <2>1, HasOne
  <2>3. Net(t)' = Net(t) - 1 /\ (AtDelete(t)' => refs' = 0)
    <3>1. CASE refs' = 0
      <4>1. pc'[t] = "delete" /\ todo' = todo
        BY <1>3, <3>1, GotoAdvances DEF Places
      <4>2. AtDelete(t)'
        BY <1>1, <4>1 DEF AtDelete, Call
      <4> QED
        BY <2>2, <3>1, <4>1, <4>2 DEF Net
    <3>2. CASE refs' # 0
      <4>1. todo'[t] = Tail(todo[t]) /\ pc'[t] = "call"
        BY <1>1, <1>3, <3>2, ReturnAdvances
      <4>2. ~AtDelete(t)'
        BY <4>1 DEF AtDelete
      <4>3. ToDrop(todo'[t], Len(todo'[t])) = Net(t) - 1
        BY <1>1, <2>2, <4>1, ToDropTail DEF Call
      <4> QED
        BY <2>2, <4>2, <4>3 DEF Net
    <3> QED
      BY <3>1, <3>2
  <2>4. \A u \in Threads : u # t => ~AtDelete(u)' /\ Net(u)' = Net(u)
    BY <2>2, OthersNet
  <2>5. IsFiniteSet(Shareds') /\ Cardinality(Shareds') = Cardinality(Shareds) - 1
    BY <2>2, <2>3, <2>4, SharedsChange DEF FutInv
  <2>6. RefInv'
    BY <1>3, <2>5 DEF FutInv, RefInv
  <2>7. DeleteInv'
    BY <1>3, <2>2, <2>3, <2>4 DEF DeleteInv
  <2> QED
    BY <1>2, <2>6, <2>7 DEF FutInv
<1>4. CASE pc[t] = "delete" /\ freed' = TRUE /\ Return(t) /\ refs' = refs
  <2>1. AtDelete(t) /\ refs = 0 /\ \A u \in Threads : u # t => ~AtDelete(u)
    BY <1>1, <1>4 DEF AtDelete, FutInv, DeleteInv
  <2>2. todo[t] \in Seq(Calls) /\ todo'[t] = Tail(todo[t]) /\ pc'[t] = "call"
    BY <1>1, <1>4, ReturnAdvances DEF RunTypes
  <2>3. ~AtDelete(t)'
    BY <2>2 DEF AtDelete
  <2>4. Net(t) \in Int /\ Net(t)' = Net(t)
    <3>1. /\ ToDrop(todo[t], Len(todo[t])) \in Int
          /\ ToDrop(todo'[t], Len(todo'[t])) = ToDrop(todo[t], Len(todo[t])) - 1
      BY <1>1, <2>2, ToDropTail DEF Call
    <3> QED
      BY <2>1, <2>3, <3>1 DEF Net
  <2>5. \A u \in Threads : ~AtDelete(u)' /\ (u # t => Net(u)' = Net(u))
    BY <2>1, <2>3, OthersNet
  <2>6. Shareds' = Shareds
    BY <2>4, <2>5, SharedsChange DEF FutInv
  <2>7. RefInv'
    BY <1>4, <2>6 DEF FutInv, RefInv
  <2>8. DeleteInv'
    BY <1>4, <2>1, <2>5 DEF DeleteInv
  <2> QED
    BY <1>2, <2>7, <2>8 DEF FutInv
<1> QED
  BY <1>1, <1>3, <1>4

\* At the start those that are to drop a Shared have one each, and there is no value.
LEMMA InitFut == Init => FutInv
<1> SUFFICES ASSUME Init PROVE FutInv
  OBVIOUS
<1>1. /\ todo \in Programs /\ pc = [t \in Threads |-> "call"] /\ isReady = FALSE /\ freed = FALSE
      /\ todo \in [Threads -> Seq(Calls)]
  BY SyncAssumption DEF Init
<1>2. \A t \in Threads : ~AtDelete(t) /\ Unset(t)
  BY <1>1 DEF AtDelete, Unset
<1>3. ProgInv
  BY <1>1, SharedAssumption DEF ProgInv, Enough
<1>4. PICK S \in SUBSET Threads : S = {t \in Threads : Uses(todo[t], "drop")}
  OBVIOUS
<1>5. IsFiniteSet(S) /\ refs = Cardinality(S) /\ Cardinality(S) \in Nat
  <2>1. IsFiniteSet(S)
    BY SyncAssumption, FS_Subset
  <2> QED
    BY <1>4, <2>1, FS_CardinalityType DEF Init
<1>6. Shareds = S \X {1}
  <2>1. ASSUME NEW t \in Threads PROVE Net(t) = IF t \in S THEN 1 ELSE 0
    BY <1>1, <1>2, <1>4, SharedAssumption DEF Net
  <2>2. ASSUME NEW t \in Threads, NEW k \in Nat \ {0} PROVE k <= Net(t) <=> t \in S /\ k = 1
    BY <2>1
  <2>3. Shareds = {x \in Threads \X (Nat \ {0}) : x[1] \in S /\ x[2] = 1}
    BY <2>2 DEF Shareds
  <2> QED
    BY <2>3
<1>7. IsFiniteSet({1}) /\ Cardinality({1}) = 1
  BY FS_Singleton
<1>8. IsFiniteSet(Shareds) /\ Cardinality(Shareds) = Cardinality(S)
  BY <1>5, <1>6, <1>7, FS_Product
<1>9. units["go"] = 0
  BY DEF Init, Semaphores
<1> QED
  BY <1>1, <1>2, <1>3, <1>5, <1>8, <1>9 DEF FutInv, RefInv, DeleteInv, ResultInv

\* The steps of the other calls leave the future and its semaphore alone.
LEMMA ElsewhereFuture ==
  ASSUME RunInv, NEW t \in Threads,
         \/ WaitHandler(t) \/ Arrive(t) \/ Pass(t) \/ Await(t) \/ Signal(t)
         \/ BarrierCount(t) \/ BarrierTurnstile(t)
         \/ BufferSems(t) \/ BufferPut(t) \/ BufferGet(t)
  PROVE  /\ UNCHANGED fut /\ Same("go")
         /\ \/ todo[t] # << >> /\ Call(t) \notin FutureCalls
            \/ todo' = todo /\ pc[t] = "leaving" /\ pc'[t] = "woken"
<1>1. RunTypes /\ {"barrier", "lock", "nEmpty", "nFull"} \subseteq Semaphores \ {"go"}
      /\ "go" \in Semaphores
  BY DEF RunInv, Semaphores
<1>2. ASSUME UNCHANGED sems PROVE Same("go")
  BY <1>2 DEF sems, Same, Queued, InQueue
<1>3. ASSUME NEW s \in Semaphores \ {"go"}, ~Blocked(t), Down(t, s) \/ Up(s) PROVE Same("go")
  <2>1. ~Queued(t, s)
    BY <1>1, <1>3, NotQueued DEF Queued
  <2> QED
    BY <1>1, <1>3, <2>1, DownIs, UpIs
<1>4. CASE WaitHandler(t)
  <2>1. pc[t] = "leaving" /\ Goto(t, "woken") /\ UNCHANGED sems /\ UNCHANGED fut
    BY <1>4 DEF WaitHandler
  <2> QED
    BY <1>1, <1>2, <2>1, GotoAdvances DEF Places
<1>5. CASE Arrive(t) \/ Pass(t) \/ Await(t) \/ Signal(t) \/ BarrierCount(t)
  <2>1. /\ todo[t] # << >> /\ Call(t) \in {"sync", "await", "signal", "join"}
        /\ UNCHANGED sems /\ UNCHANGED fut
    BY <1>5 DEF Arrive, ArriveWith, Pass, Await, Signal, BarrierCount, In
  <2> QED
    BY <1>2, <2>1 DEF FutureCalls
<1>6. CASE BarrierTurnstile(t)
  <2>1. /\ todo[t] # << >> /\ Call(t) = "join" /\ UNCHANGED fut /\ ~Blocked(t)
        /\ Down(t, "barrier") \/ Up("barrier")
    BY <1>6 DEF BarrierTurnstile, In
  <2> QED
    BY <1>1, <1>3, <2>1 DEF FutureCalls
<1>7. CASE BufferSems(t)
  <2>1. /\ todo[t] # << >> /\ Call(t) \in {"put", "take"} /\ UNCHANGED fut /\ ~Blocked(t)
        /\ \/ Down(t, Wanted(t)) \/ Down(t, "lock") \/ Up("lock") \/ Up(Given(t))
    BY <1>7 DEF BufferSems, InBuffer, In
  <2>2. Wanted(t) \in Semaphores \ {"go"} /\ Given(t) \in Semaphores \ {"go"}
    BY <1>1 DEF Wanted, Given
  <2>3. \E s \in Semaphores \ {"go"} : Down(t, s) \/ Up(s)
    BY <1>1, <2>1, <2>2
  <2> QED
    BY <1>3, <2>1, <2>3 DEF FutureCalls
<1>8. CASE BufferPut(t) \/ BufferGet(t)
  <2>1. /\ todo[t] # << >> /\ Call(t) \in {"put", "take"} /\ UNCHANGED fut /\ UNCHANGED sems
    BY <1>8 DEF BufferPut, BufferGet, In
  <2> QED
    BY <1>2, <2>1 DEF FutureCalls
<1> QED
  BY <1>4, <1>5, <1>6, <1>7, <1>8

\* Any step.
LEMMA FutStep == BufInv /\ BufInv' /\ FutInv /\ [Next]_vars => FutInv'
<1> SUFFICES ASSUME BufInv, BufInv', FutInv, [Next]_vars PROVE FutInv'
  OBVIOUS
<1>1. RunInv /\ RunTypes /\ RunTypes'
  BY DEF BufInv, RunInv
<1>2. CASE UNCHANGED vars
  <2>1. UNCHANGED <<todo, pc, units, waiting, isReady, result, refs, freed>>
    BY <1>2 DEF vars, sems, fut
  <2>2. \A t \in Threads : /\ AtDelete(t)' <=> AtDelete(t)
                           /\ Net(t)' = Net(t)
                           /\ Unset(t)' <=> Unset(t)
    BY <2>1 DEF AtDelete, Net, Unset, Call, Queued, InQueue
  <2>3. Shareds' = Shareds
    BY <2>2 DEF Shareds
  <2> QED
    BY <2>1, <2>2, <2>3 DEF FutInv, ProgInv, RefInv, DeleteInv, ResultInv
<1>3. ASSUME NEW t \in Threads, Step(t) PROVE FutInv'
  <2>1. Advances(t)
    BY <1>1, <1>3, StepAdvances
  <2>2. CASE FutureSet(t)
    BY <1>1, <2>1, <2>2, SetKeeps
  <2>3. CASE FutureGet(t)
    BY <1>1, <2>1, <2>3, GetKeeps
  <2>4. CASE SharedCopy(t)
    BY <1>1, <2>1, <2>4, CopyKeeps
  <2>5. CASE SharedDrop(t)
    BY <1>1, <2>1, <2>5, DropKeeps
  <2>6. CASE \/ WaitHandler(t) \/ Arrive(t) \/ Pass(t) \/ Await(t) \/ Signal(t)
             \/ BarrierCount(t) \/ BarrierTurnstile(t)
             \/ BufferSems(t) \/ BufferPut(t) \/ BufferGet(t)
    BY <1>1, <2>1, <2>6, ElsewhereFuture, NotOfFuture
  <2> QED
    BY <1>3, <2>2, <2>3, <2>4, <2>5, <2>6 DEF Step
<1> QED
  BY <1>2, <1>3 DEF Next

\* FutInv holds in every reachable state (future.h, shared.h).
THEOREM FutInvariance == Spec => []FutInv
<1>1. BufInv /\ BufInv' /\ FutInv /\ [Next]_vars => FutInv'
  BY FutStep
<1> QED
  BY BufInvariance, InitFut, <1>1, PTL DEF Spec

\* The future is deleted once its last Shared is gone and nobody has anything left to
\* do with it (shared.h:10-24), and a get() that is through has a value (future.h:33-39).
THEOREM FutureIsSafe == Spec => []FutureSafe
<1>1. BufInv /\ FutInv => FutureSafe
  <2> SUFFICES ASSUME BufInv, FutInv PROVE FutureSafe
    OBVIOUS
  <2>1. RunTypes /\ ProgInv /\ RefInv /\ DeleteInv /\ ResultInv
    BY DEF BufInv, RunInv, FutInv
  <2>2. IsFiniteSet(Shareds) /\ refs = Cardinality(Shareds) /\ refs \in Nat
    BY <2>1, FS_CardinalityType DEF RefInv
  <2>3. ASSUME freed, NEW t \in Threads, todo[t] # << >>, Call(t) \in FutureCalls PROVE FALSE
    <3>1. refs = 0 /\ ~AtDelete(t)
      BY <2>1, <2>3 DEF DeleteInv
    <3>2. Net(t) \in Int /\ Net(t) > 0
      BY <2>1, <2>3, <3>1, UserHolds DEF Net
    <3>3. <<t, Net(t)>> \in Shareds
      BY <3>2 DEF Shareds
    <3> QED
      BY <2>2, <3>1, <3>3, FS_EmptySet
  <2>4. freed => refs = 0
    BY <2>1 DEF DeleteInv
  <2>5. \A t \in Threads : In(t, "get", "value") => result # Nothing
    BY <2>1 DEF ResultInv, Unset, In
  <2> QED
    BY <2>2, <2>3, <2>4, <2>5 DEF FutureSafe
<1> QED
  BY <1>1, BufInvariance, FutInvariance, PTL
=============================================================================
