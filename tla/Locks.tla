------------------------------- MODULE Locks -------------------------------
(***************************************************************************)
(* The locks of atomic.h and the interrupt flag they save and restore.     *)
(* Every core runs a main context and, on top of it, at most one interrupt *)
(* handler; both take locks and nest them in the order of Rank. A lock is  *)
(* of one of three kinds:                                                  *)
(*   "keeps"   InterruptSafeLock, which keeps the saved flag in the lock   *)
(*   "returns" ISL, which gives the saved flag to its caller               *)
(*   "none"    no lock at all: Interrupts::protect                         *)
(* One step is one access to the flag or to a lock, the exchange included. *)
(* SpinLock, which no code of the kernel uses, is left out.                *)
(***************************************************************************)
EXTENDS Integers, Sequences, SequencesExt

CONSTANTS Cores, Locks,
          Kind, \* lock -> "keeps", "returns" or "none"
          Rank  \* lock -> Nat: sections nest in the order of the ranks

ASSUME LocksAssumption ==
  /\ Kind \in [Locks -> {"keeps", "returns", "none"}]
  /\ Rank \in [Locks -> Nat]

VARIABLES intr,  \* core -> the interrupt flag of the core
          taken, \* lock -> Atomic<bool> taken
          was,   \* lock -> the flag that an InterruptSafeLock keeps
          stack  \* core -> the main context and the handler on top of it

vars == <<intr, taken, was, stack>>

\* A context: where it is, the lock it is busy with, the wasDisabled it has in
\* a local, the sections it is in, with the flag that ISL::lock returned, and
\* the smallest rank it has left to take: its code is finite.
Fresh(r) == [pc |-> "run", lock |-> "-", disabled |-> FALSE, held |-> << >>, floor |-> r]

Init ==
  /\ intr = [c \in Cores |-> TRUE]
  /\ taken = [l \in Locks |-> FALSE]
  /\ was = [l \in Locks |-> FALSE]
  /\ stack = [c \in Cores |-> <<Fresh(0)>>]

Top(c) == Last(stack[c])
SetTop(c, ctx) == stack' = [stack EXCEPT ![c] = Append(Front(@), ctx)]
At(c, pc) == Top(c).pc = pc
Holding(ctx, l) == \E i \in DOMAIN ctx.held : ctx.held[i].lock = l

\* The last thing lock() does: the section begins.
Enter(ctx) ==
  [ctx EXCEPT !.pc = "run", !.lock = "-", !.disabled = FALSE,
              !.held = Append(@, [lock |-> ctx.lock, disabled |-> ctx.disabled])]

\* A call of lock() or protect(), outside of every section or inside those of
\* a smaller rank.
Begin(c, l) ==
  LET ctx == Top(c) IN
  /\ At(c, "run")
  /\ Rank[l] >= ctx.floor
  /\ SetTop(c, [ctx EXCEPT !.pc = "test", !.lock = l, !.floor = Rank[l] + 1])
  /\ UNCHANGED <<intr, taken, was>>

\* disable(): isDisabled() reads the flag ...
IsDisabled(c) ==
  /\ At(c, "test")
  /\ SetTop(c, [Top(c) EXCEPT !.disabled = ~intr[c], !.pc = "cli"])
  /\ UNCHANGED <<intr, taken, was>>

\* Variant with a bug: interrupts are not disabled.
CliForgotten(c) ==
  /\ At(c, "cli")
  /\ SetTop(c, IF Kind[Top(c).lock] = "none" THEN Enter(Top(c))
               ELSE [Top(c) EXCEPT !.pc = "exchange"])
  /\ UNCHANGED <<intr, taken, was>>

\* ... and cli() clears it unless it was.
Cli(c) ==
  LET ctx == Top(c) IN
  /\ At(c, "cli")
  /\ intr' = [intr EXCEPT ![c] = IF ctx.disabled THEN @ ELSE FALSE]
  /\ SetTop(c, IF Kind[ctx.lock] = "none" THEN Enter(ctx) ELSE [ctx EXCEPT !.pc = "exchange"])
  /\ UNCHANGED <<taken, was>>

\* Variant with a bug: the exchange is a test and a later store.
ExchangeInTwo(c) ==
  LET ctx == Top(c) IN
  /\ UNCHANGED <<intr, was>>
  /\ \/ At(c, "exchange") /\ UNCHANGED taken
        /\ SetTop(c, [ctx EXCEPT !.pc = IF taken[ctx.lock] THEN "retry" ELSE "store"])
     \/ At(c, "store") /\ taken' = [taken EXCEPT ![ctx.lock] = TRUE]
        /\ SetTop(c, IF Kind[ctx.lock] = "keeps" THEN [ctx EXCEPT !.pc = "keep"] ELSE Enter(ctx))

\* taken.exchange(true).
Exchange(c) ==
  LET ctx == Top(c) IN
  /\ At(c, "exchange")
  /\ taken' = [taken EXCEPT ![ctx.lock] = TRUE]
  /\ SetTop(c, IF taken[ctx.lock] THEN [ctx EXCEPT !.pc = "retry"]
               ELSE IF Kind[ctx.lock] = "keeps" THEN [ctx EXCEPT !.pc = "keep"]
               ELSE Enter(ctx))
  /\ UNCHANGED <<intr, was>>

\* was = wasDisabled, by the new holder.
Keep(c) ==
  LET ctx == Top(c) IN
  /\ At(c, "keep")
  /\ was' = [was EXCEPT ![ctx.lock] = ctx.disabled]
  /\ SetTop(c, Enter(ctx))
  /\ UNCHANGED <<intr, taken>>

\* Variant with a bug: the flag stays cleared while the core spins.
RetryDisabled(c) ==
  /\ At(c, "retry")
  /\ SetTop(c, [Top(c) EXCEPT !.pc = "exchange"])
  /\ UNCHANGED <<intr, taken, was>>

\* The lock was taken: restore the flag and start over.
Retry(c) ==
  LET ctx == Top(c) IN
  /\ At(c, "retry")
  /\ intr' = [intr EXCEPT ![c] = IF ctx.disabled THEN @ ELSE TRUE]
  /\ SetTop(c, [ctx EXCEPT !.pc = "test"])
  /\ UNCHANGED <<taken, was>>

\* unlock() of the innermost section: find the flag to restore; an
\* InterruptSafeLock reads it from the lock before it frees it.
Leave(c) ==
  LET ctx == Top(c)
      s == Last(ctx.held) IN
  /\ At(c, "run") /\ ctx.held # << >>
  /\ SetTop(c, [ctx EXCEPT
       !.lock = s.lock,
       !.disabled = IF Kind[s.lock] = "keeps" THEN was[s.lock] ELSE s.disabled,
       !.pc = IF Kind[s.lock] = "none" THEN "restore" ELSE "free",
       !.held = IF Kind[s.lock] = "none" THEN Front(@) ELSE @])
  /\ UNCHANGED <<intr, taken, was>>

\* taken.set(false).
Free(c) ==
  LET ctx == Top(c) IN
  /\ At(c, "free")
  /\ taken' = [taken EXCEPT ![ctx.lock] = FALSE]
  /\ SetTop(c, [ctx EXCEPT !.pc = "restore", !.held = Front(@)])
  /\ UNCHANGED <<intr, was>>

\* The main context starts over when it is out of every section.
Restored(c) ==
  [Top(c) EXCEPT !.pc = "run", !.lock = "-", !.disabled = FALSE,
                 !.floor = IF Len(stack[c]) = 1 /\ Top(c).held = << >> THEN 0 ELSE @]

\* Variant with a bug: an InterruptSafeLock looks up the flag after it is free.
RestoreFromLock(c) ==
  LET ctx == Top(c) IN
  /\ At(c, "restore")
  /\ intr' = [intr EXCEPT ![c] =
                IF Kind[ctx.lock] = "keeps" THEN ~was[ctx.lock] ELSE ~ctx.disabled]
  /\ SetTop(c, Restored(c))
  /\ UNCHANGED <<taken, was>>

\* Restore the flag: ISL clears or sets it, the others set it or leave it.
Restore(c) ==
  LET ctx == Top(c) IN
  /\ At(c, "restore")
  /\ intr' = [intr EXCEPT ![c] =
                IF ~ctx.disabled THEN TRUE ELSE IF Kind[ctx.lock] = "returns" THEN FALSE ELSE @]
  /\ SetTop(c, Restored(c))
  /\ UNCHANGED <<taken, was>>

\* An interrupt gate clears the flag; iret brings it back.
Interrupt(c) ==
  /\ intr[c] /\ Len(stack[c]) = 1
  /\ intr' = [intr EXCEPT ![c] = FALSE]
  /\ stack' = [stack EXCEPT ![c] = Append(@, Fresh(0))]
  /\ UNCHANGED <<taken, was>>

Iret(c) ==
  /\ Len(stack[c]) = 2 /\ At(c, "run") /\ Top(c).held = << >>
  /\ intr' = [intr EXCEPT ![c] = TRUE]
  /\ stack' = [stack EXCEPT ![c] = Front(@)]
  /\ UNCHANGED <<taken, was>>

\* The rest of a lock(), an unlock() or a protect() that has begun.
Step(c) ==
  IsDisabled(c) \/ Cli(c) \/ Exchange(c) \/ Keep(c) \/ Retry(c) \/ Free(c) \/ Restore(c)

Next ==
  \E c \in Cores :
    \/ \E l \in Locks : Begin(c, l)
    \/ Step(c) \/ Leave(c) \/ Interrupt(c) \/ Iret(c)

\* Sections and handlers end, and interrupts do not come so fast that the
\* interrupted code never runs.
Fairness ==
  \A c \in Cores :
    /\ WF_vars(Step(c)) /\ WF_vars(Iret(c))
    /\ SF_vars(Len(stack[c]) = 1 /\ Step(c))
    /\ SF_vars(Leave(c))

Spec == Init /\ [][Next]_vars /\ Fairness
----------------------------------------------------------------------------
Contexts == Cores \X {1, 2}
Context(x) == stack[x[1]][x[2]]
Present(x) == x[2] \in DOMAIN stack[x[1]]
\* Between the exchange that took the lock and the store that frees it.
Owns(x, l) ==
  LET ctx == Context(x) IN
  Present(x) /\ (Holding(ctx, l) \/ (ctx.pc = "keep" /\ ctx.lock = l))

\* The type of every variable; a core has a main context and maybe a handler.
LockTypeOK ==
  /\ intr \in [Cores -> BOOLEAN]
  /\ taken \in [Locks -> BOOLEAN] /\ was \in [Locks -> BOOLEAN]
  /\ \A c \in Cores : Len(stack[c]) \in 1..2 /\ \A i \in DOMAIN stack[c] :
       /\ stack[c][i].pc \in {"run", "test", "cli", "exchange", "keep", "retry", "free", "restore"}
       /\ stack[c][i].lock \in Locks \union {"-"} /\ stack[c][i].disabled \in BOOLEAN
       /\ Len(stack[c][i].held) \in 0..stack[c][i].floor

\* The two kinds of lock exclude each other's holders on all cores and in
\* handlers (atomic.h:200-232, 250-269), as module Mutexes says of locks.
RealLocks == {l \in Locks : Kind[l] # "none"}
M == INSTANCE Mutexes WITH
       Locks <- RealLocks,
       holders <- [l \in RealLocks |-> {x \in Contexts : Owns(x, l)}]
AreMutexes == M!Spec

\* A context outside of all sections has the flag it started with, however
\* its sections nested and whoever had the lock in between (atomic.h:227-231:
\* was is read before the lock is free and is the holder's own).
FlagRestored ==
  /\ LockTypeOK
  /\ \A c \in Cores :
       At(c, "run") /\ Top(c).held = << >> => intr[c] = (Len(stack[c]) = 1)

\* The handler of a core never finds its own core's main context inside a
\* section: it would spin for ever on a lock that the code below it holds
\* (the reason for cli in lock(), atomic.h:214-225).
NeverInterruptedInside ==
  \A c \in Cores, l \in RealLocks : Len(stack[c]) = 2 => ~Owns(<<c, 1>>, l)

\* A core that waits for its first lock goes on taking interrupts even if it
\* never gets the lock, which nothing guarantees (the restore of atomic.h:222).
WaiterTakesInterrupts ==
  \A c \in Cores :
    Len(stack[c]) = 1 /\ At(c, "exchange") /\ Top(c).held = << >>
      ~> intr[c] \/ Top(c).held # << >>
=============================================================================
