----------------------------- MODULE LocksProofs -----------------------------
(***************************************************************************)
(* Proofs about Locks, for any number of cores and of locks of each kind.  *)
(***************************************************************************)
EXTENDS Locks, TLAPS

-----------------------------------------------------------------------------
(***************************************************************************)
(* Sequences: the innermost section, and the context on top of a core.     *)
(***************************************************************************)
\* Front takes off what Last is.
LEMMA FrontLast ==
  ASSUME NEW S, NEW q \in Seq(S), q # << >>
  PROVE  /\ Len(q) \in Nat \ {0} /\ Last(q) = q[Len(q)] /\ Last(q) \in S
         /\ Front(q) \in Seq(S) /\ Len(Front(q)) = Len(q) - 1
         /\ \A i \in 1..Len(q)-1 : Front(q)[i] = q[i]
<1>1. Len(q) \in Nat \ {0} /\ \A i \in 1..Len(q) : q[i] \in S
  OBVIOUS
<1>2. Last(q) = q[Len(q)] /\ Last(q) \in S
  BY <1>1 DEF Last
<1>3. Front(q) = [i \in 1..Len(q)-1 |-> q[i]]
  BY <1>1 DEF Front, SubSeq
<1>4. Front(q) \in Seq(S) /\ Len(Front(q)) = Len(q) - 1
  BY <1>1, <1>3
<1> QED
  BY <1>1, <1>2, <1>3, <1>4

\* SetTop replaces the last.
LEMMA ReplaceLast ==
  ASSUME NEW S, NEW q \in Seq(S), q # << >>, NEW x \in S
  PROVE  /\ Append(Front(q), x) \in Seq(S)
         /\ Len(Append(Front(q), x)) = Len(q)
         /\ Append(Front(q), x)[Len(q)] = x
         /\ \A i \in 1..Len(q)-1 : Append(Front(q), x)[i] = q[i]
<1>1. /\ Len(q) \in Nat \ {0}
      /\ Front(q) \in Seq(S) /\ Len(Front(q)) = Len(q) - 1
      /\ \A i \in 1..Len(q)-1 : Front(q)[i] = q[i]
  BY FrontLast
<1> QED
  BY <1>1
-----------------------------------------------------------------------------
(***************************************************************************)
(* The inductive invariant.                                                *)
(***************************************************************************)
Pcs == {"run", "test", "cli", "exchange", "keep", "retry", "free", "restore"}
Section == [lock : Locks, disabled : BOOLEAN]
Ctx == [pc : Pcs, lock : Locks \cup {"-"}, disabled : BOOLEAN,
        held : Seq(Section), floor : Nat]

\* The main context (i = 1) starts with the flag set, a handler (i = 2) with the
\* flag cleared. Sections nest by rank; each knows the flag from before it, and so
\* does the lock() or unlock() under way.
Known(ctx, i) == ctx.disabled <=> ctx.held # << >> \/ i # 1

HeldInv(ctx, i) ==
  /\ Len(ctx.held) <= ctx.floor
  /\ \A k \in 1..Len(ctx.held) :
       /\ (ctx.held[k].disabled <=> k > 1 \/ i # 1)
       /\ Rank[ctx.held[k].lock] < ctx.floor
  /\ \A j, k \in 1..Len(ctx.held) :
       j < k => Rank[ctx.held[j].lock] < Rank[ctx.held[k].lock]

LockPcs == {"test", "cli", "exchange", "keep", "retry"}

PcInv(ctx, i) ==
  /\ ctx.pc \in LockPcs =>
       /\ ctx.lock \in Locks /\ ctx.floor = Rank[ctx.lock] + 1
       /\ Len(ctx.held) <= Rank[ctx.lock]
       /\ \A k \in 1..Len(ctx.held) : Rank[ctx.held[k].lock] < Rank[ctx.lock]
  /\ ctx.pc \in {"cli", "exchange", "keep", "retry", "restore"} => Known(ctx, i)
  /\ ctx.pc \in {"exchange", "retry"} => Kind[ctx.lock] # "none"
  /\ ctx.pc = "keep" => Kind[ctx.lock] = "keeps"
  /\ ctx.pc = "free" =>
       /\ ctx.held # << >> /\ ctx.lock = ctx.held[Len(ctx.held)].lock
       /\ ctx.disabled = ctx.held[Len(ctx.held)].disabled
       /\ Kind[ctx.lock] # "none"
  /\ ctx.pc = "restore" => ctx.lock \in Locks

CtxInv(ctx, i) == HeldInv(ctx, i) /\ PcInv(ctx, i)

\* The flag of a core that executes the context.
Flag(ctx, i) == i = 1 /\ ctx.held = << >> /\ ctx.pc \in {"run", "test", "cli"}

TypeInv ==
  /\ intr \in [Cores -> BOOLEAN]
  /\ taken \in [Locks -> BOOLEAN] /\ was \in [Locks -> BOOLEAN]
  /\ stack \in [Cores -> Seq(Ctx)]
  /\ \A c \in Cores : Len(stack[c]) \in 1..2

\* A core executes its top context; the one below was interrupted with the flag set.
StackInv ==
  \A c \in Cores :
    /\ \A i \in 1..Len(stack[c]) : CtxInv(stack[c][i], i)
    /\ intr[c] <=> Flag(stack[c][Len(stack[c])], Len(stack[c]))
    /\ Len(stack[c]) = 2 => Flag(stack[c][1], 1)

OwnsIn(ctx, l) ==
  (\E k \in 1..Len(ctx.held) : ctx.held[k].lock = l) \/ (ctx.pc = "keep" /\ ctx.lock = l)
Owner(c, i, l) == i \in 1..Len(stack[c]) /\ OwnsIn(stack[c][i], l)

\* A lock is taken while one context owns it.
OwnerInv ==
  \A l \in RealLocks :
    /\ taken[l] <=> \E c \in Cores, i \in {1, 2} : Owner(c, i, l)
    /\ \A c, d \in Cores, i, j \in {1, 2} :
         Owner(c, i, l) /\ Owner(d, j, l) => c = d /\ i = j

\* The flags that the sections of a context know are also in those locks that keep it.
WasOf(ctx, w) ==
  \A k \in 1..Len(ctx.held) :
    Kind[ctx.held[k].lock] = "keeps" => (w[ctx.held[k].lock] <=> ctx.held[k].disabled)

WasInv == \A c \in Cores : \A i \in 1..Len(stack[c]) : WasOf(stack[c][i], was)

IInv == TypeInv /\ StackInv /\ OwnerInv /\ WasInv
-----------------------------------------------------------------------------
\* Every core starts outside of all sections, with interrupts on.
LEMMA InitIInv == Init => IInv
<1> SUFFICES ASSUME Init PROVE IInv
  OBVIOUS
<1>1. Fresh(0) \in Ctx /\ Fresh(0).held = << >> /\ Fresh(0).pc = "run"
  BY DEF Fresh, Ctx, Pcs
<1>2. \A c \in Cores : /\ stack[c] \in Seq(Ctx) /\ Len(stack[c]) = 1
                       /\ stack[c][1] = Fresh(0)
  BY <1>1 DEF Init
<1>3. TypeInv
  <2>1. stack \in [Cores -> Seq(Ctx)]
    BY <1>1 DEF Init
  <2> QED
    BY <1>2, <2>1 DEF Init, TypeInv
<1>4. CtxInv(Fresh(0), 1) /\ Flag(Fresh(0), 1)
  BY <1>1 DEF CtxInv, HeldInv, PcInv, LockPcs, Flag, Fresh
<1>5. StackInv
  <2>1. \A c \in Cores : intr[c] = TRUE
    BY DEF Init
  <2>2. ASSUME NEW c \in Cores
        PROVE  /\ \A i \in 1..Len(stack[c]) : CtxInv(stack[c][i], i)
               /\ intr[c] <=> Flag(stack[c][Len(stack[c])], Len(stack[c]))
               /\ Len(stack[c]) # 2
    <3>0. Len(stack[c]) = 1
      BY <1>2
    <3>1. \A i \in 1..Len(stack[c]) : i = 1
      BY <3>0
    <3> QED
      BY <1>2, <1>4, <2>1, <3>1
  <2> QED
    BY <2>2 DEF StackInv
<1>6. OwnerInv
  BY <1>1, <1>2 DEF Init, OwnerInv, Owner, OwnsIn, RealLocks
<1>7. WasInv
  BY <1>1, <1>2 DEF WasInv, WasOf
<1> QED
  BY <1>3, <1>5, <1>6, <1>7 DEF IInv
-----------------------------------------------------------------------------
(***************************************************************************)
(* What a step of the top context of a core does to the rest.              *)
(***************************************************************************)
\* The top context is in the invariant.
LEMMA TopInv ==
  ASSUME IInv, NEW c \in Cores
  PROVE  /\ Top(c) \in Ctx /\ CtxInv(Top(c), Len(stack[c]))
         /\ intr[c] <=> Flag(Top(c), Len(stack[c]))
         /\ Top(c) = stack[c][Len(stack[c])] /\ Len(stack[c]) \in {1, 2} /\ stack[c] # << >>
<1>0. stack[c] \in Seq(Ctx) /\ Len(stack[c]) \in 1..2
  BY DEF IInv, TypeInv
<1>1. stack[c] \in Seq(Ctx) /\ Len(stack[c]) \in 1..2 /\ stack[c] # << >>
  BY <1>0
<1>2. Top(c) = stack[c][Len(stack[c])] /\ Top(c) \in Ctx
  BY <1>1, FrontLast DEF Top
<1>3. CtxInv(Top(c), Len(stack[c])) /\ (intr[c] <=> Flag(Top(c), Len(stack[c])))
  BY <1>1, <1>2 DEF IInv, StackInv
<1> QED
  BY <1>1, <1>2, <1>3

\* All contexts but the top one of c are what they were.
OnlyTop(c, n) ==
  /\ stack' \in [Cores -> Seq(Ctx)]
  /\ \A d \in Cores : Len(stack'[d]) = Len(stack[d])
  /\ stack'[c][Len(stack[c])] = n
  /\ \A d \in Cores, i \in {1, 2} :
       (d # c \/ i # Len(stack[c])) /\ i \in 1..Len(stack[d]) => stack'[d][i] = stack[d][i]

\* A step that replaces the top of a core by one that is as it should be.
LEMMA TopStep ==
  ASSUME IInv, NEW c \in Cores, NEW n \in Ctx, SetTop(c, n),
         CtxInv(n, Len(stack[c])), intr'[c] <=> Flag(n, Len(stack[c])),
         \A d \in Cores : d # c => intr'[d] = intr[d]
  PROVE  OnlyTop(c, n) /\ StackInv'
<1>0. /\ stack[c] \in Seq(Ctx) /\ stack[c] # << >> /\ Len(stack[c]) \in {1, 2}
      /\ stack \in [Cores -> Seq(Ctx)] /\ \A d \in Cores : Len(stack[d]) \in 1..2
  BY TopInv DEF IInv, TypeInv
<1>1. PICK q : q = Append(Front(stack[c]), n) /\ stack' = [stack EXCEPT ![c] = q]
  BY DEF SetTop
<1>2. /\ q \in Seq(Ctx) /\ Len(q) = Len(stack[c]) /\ q[Len(stack[c])] = n
      /\ \A i \in 1..Len(stack[c])-1 : q[i] = stack[c][i]
  BY <1>0, <1>1, ReplaceLast
<1>3. OnlyTop(c, n)
  BY <1>0, <1>1, <1>2 DEF OnlyTop
<1>5. StackInv'
  <2> SUFFICES ASSUME NEW d \in Cores
      PROVE  /\ \A i \in 1..Len(stack'[d]) : CtxInv(stack'[d][i], i)
             /\ intr'[d] <=> Flag(stack'[d][Len(stack'[d])], Len(stack'[d]))
             /\ Len(stack'[d]) = 2 => Flag(stack'[d][1], 1)
    BY DEF StackInv, CtxInv, HeldInv, PcInv, Known, Flag
  <2>1. CASE d = c
    <3>1. ASSUME NEW i \in 1..Len(stack'[c]) PROVE CtxInv(stack'[c][i], i)
      <4>1. CASE i = Len(stack[c])
        BY <1>0, <1>3, <4>1 DEF OnlyTop
      <4>2. CASE i # Len(stack[c])
        BY <1>0, <1>3, <3>1, <4>2 DEF OnlyTop, IInv, StackInv
      <4> QED
        BY <4>1, <4>2
    <3>2. intr'[c] <=> Flag(stack'[c][Len(stack'[c])], Len(stack'[c]))
      BY <1>0, <1>3 DEF OnlyTop
    <3>3. Len(stack'[c]) = 2 => Flag(stack'[c][1], 1)
      <4>1. CASE Len(stack[c]) = 2
        <5>1. stack'[c][1] = stack[c][1]
          BY <1>3, <4>1 DEF OnlyTop
        <5>2. Flag(stack[c][1], 1)
          BY <4>1 DEF IInv, StackInv
        <5> QED
          BY <5>1, <5>2
      <4>2. CASE Len(stack[c]) # 2
        BY <1>3, <4>2 DEF OnlyTop
      <4> QED
        BY <4>1, <4>2
    <3> QED
      BY <2>1, <3>1, <3>2, <3>3
  <2>2. CASE d # c
    <3>1. stack'[d] = stack[d] /\ intr'[d] = intr[d]
      BY <1>0, <1>1, <2>2
    <3> QED
      BY <3>1 DEF IInv, StackInv
  <2> QED
    BY <2>1, <2>2
<1> QED
  BY <1>3, <1>5

\* Such a step changes no owners, if the context owns what it did.
SameOwners == \A d \in Cores, i \in {1, 2}, l \in RealLocks : Owner(d, i, l)' <=> Owner(d, i, l)

\* A step of the top context that owns what it did.
LEMMA OwnersStay ==
  ASSUME IInv, NEW c \in Cores, NEW n \in Ctx, OnlyTop(c, n),
         \A l \in RealLocks : OwnsIn(n, l) <=> OwnsIn(Top(c), l)
  PROVE  SameOwners
<1> SUFFICES ASSUME NEW d \in Cores, NEW i \in {1, 2}, NEW l \in RealLocks
             PROVE  Owner(d, i, l)' <=> Owner(d, i, l)
  BY DEF SameOwners
<1>1. Owner(d, i, l)' <=> i \in 1..Len(stack'[d]) /\ OwnsIn(stack'[d][i], l)
  BY DEF Owner, OwnsIn
<1>2. Top(c) = stack[c][Len(stack[c])] /\ Len(stack[c]) \in {1, 2}
  BY TopInv
<1>3. CASE d = c /\ i = Len(stack[c])
  BY <1>1, <1>2, <1>3 DEF OnlyTop, Owner
<1>4. CASE ~(d = c /\ i = Len(stack[c]))
  BY <1>1, <1>2, <1>4 DEF OnlyTop, Owner
<1> QED
  BY <1>3, <1>4

\* The flags in the locks of all other contexts stay known.
LEMMA WasStays ==
  ASSUME IInv, NEW c \in Cores, NEW n \in Ctx, OnlyTop(c, n), WasOf(n, was'),
         \A d \in Cores, i \in {1, 2}, l \in RealLocks :
           (d # c \/ i # Len(stack[c])) /\ Owner(d, i, l) => was'[l] = was[l]
  PROVE  WasInv'
<1> SUFFICES ASSUME NEW d \in Cores, NEW i \in 1..Len(stack'[d])
             PROVE  WasOf(stack'[d][i], was')
  BY DEF WasInv, WasOf
<1>0. stack \in [Cores -> Seq(Ctx)]
  BY DEF IInv, TypeInv
<1>1. Len(stack[c]) \in {1, 2} /\ i \in {1, 2} /\ i \in 1..Len(stack[d])
  BY TopInv DEF OnlyTop
<1>2. CASE d = c /\ i = Len(stack[c])
  BY <1>2 DEF OnlyTop
<1>3. CASE ~(d = c /\ i = Len(stack[c]))
  <2>1. stack'[d][i] = stack[d][i] /\ stack[d][i] \in Ctx /\ WasOf(stack[d][i], was)
    <3>1. stack'[d][i] = stack[d][i]
      BY <1>1, <1>3 DEF OnlyTop
    <3>2. WasOf(stack[d][i], was)
      BY <1>1 DEF IInv, WasInv
    <3>3. stack[d][i] \in Ctx
      BY <1>0, <1>1
    <3> QED
      BY <3>1, <3>2, <3>3
  <2>2. ASSUME NEW k \in 1..Len(stack[d][i].held),
               Kind[stack[d][i].held[k].lock] = "keeps"
        PROVE  was'[stack[d][i].held[k].lock] = was[stack[d][i].held[k].lock]
    <3>1. stack[d][i].held[k].lock \in Locks
      <4>1. stack[d][i].held \in Seq(Section)
        BY <2>1 DEF Ctx
      <4>2. stack[d][i].held[k] \in Section
        BY <2>2, <4>1
      <4> QED
        BY <4>2 DEF Section
    <3>2. stack[d][i].held[k].lock \in RealLocks
      BY <2>2, <3>1 DEF RealLocks
    <3>3. Owner(d, i, stack[d][i].held[k].lock)
      BY <1>1, <2>2 DEF Owner, OwnsIn
    <3> QED
      BY <1>1, <1>3, <3>2, <3>3
  <2> QED
    BY <2>1, <2>2 DEF WasOf
<1> QED
  BY <1>2, <1>3

\* The usual step: only the flag of the core and its top context change.
LEMMA PlainStep ==
  ASSUME IInv, NEW c \in Cores, NEW n \in Ctx, SetTop(c, n),
         CtxInv(n, Len(stack[c])), intr' \in [Cores -> BOOLEAN],
         intr'[c] <=> Flag(n, Len(stack[c])),
         \A d \in Cores : d # c => intr'[d] = intr[d],
         \A l \in RealLocks : OwnsIn(n, l) <=> OwnsIn(Top(c), l),
         WasOf(n, was), UNCHANGED <<taken, was>>
  PROVE  IInv' /\ SameOwners
<1>1. OnlyTop(c, n) /\ StackInv'
  BY TopStep
<1>2. SameOwners
  BY <1>1, OwnersStay
<1>3. WasInv'
  BY <1>1, WasStays
<1>4. TypeInv'
  BY <1>1 DEF IInv, TypeInv, OnlyTop
<1>5. OwnerInv'
  BY <1>2 DEF IInv, OwnerInv, SameOwners
<1> QED
  BY <1>1, <1>2, <1>3, <1>4, <1>5 DEF IInv
-----------------------------------------------------------------------------
(***************************************************************************)
(* Each step keeps the invariant, and says who owns what after it.         *)
(***************************************************************************)
\* The steps that neither take nor free a lock.
LEMMA BeginKeeps ==
  ASSUME IInv, NEW c \in Cores, NEW l \in Locks, Begin(c, l)
  PROVE  IInv' /\ SameOwners
<1> DEFINE x == Top(c)
           i == Len(stack[c])
<1>1. PICK n : n = [x EXCEPT !.pc = "test", !.lock = l, !.floor = Rank[l] + 1]
  OBVIOUS
<1>2. /\ x \in Ctx /\ CtxInv(x, i) /\ (intr[c] <=> Flag(x, i))
      /\ x.held \in Seq(Section) /\ Len(x.held) \in Nat /\ x.floor \in Nat /\ Rank[l] \in Nat
      /\ WasOf(x, was)
  BY TopInv, LocksAssumption DEF Ctx, IInv, WasInv
<1>3. /\ n \in Ctx /\ n.pc = "test" /\ n.lock = l /\ n.floor = Rank[l] + 1
      /\ n.held = x.held /\ x.pc = "run" /\ Rank[l] >= x.floor
  <2>1. x.pc = "run" /\ Rank[l] >= x.floor
    BY DEF Begin, At
  <2>2. Rank[l] + 1 \in Nat /\ l \in Locks \cup {"-"} /\ "test" \in Pcs
    BY <1>2 DEF Pcs
  <2> QED
    BY <1>1, <1>2, <2>1, <2>2 DEF Ctx
<1>4. CtxInv(n, i)
  <2>1. \A k \in 1..Len(x.held) : Rank[x.held[k].lock] \in Nat
    <3>1. \A k \in 1..Len(x.held) : x.held[k] \in Section
      BY <1>2
    <3> QED
      BY <3>1, LocksAssumption DEF Section
  <2> QED
    BY <1>2, <1>3, <2>1 DEF CtxInv, HeldInv, PcInv, LockPcs
<1>5. intr' = intr /\ (intr[c] <=> Flag(n, i)) /\ UNCHANGED <<taken, was>>
  BY <1>2, <1>3 DEF Flag, Begin
<1>6. /\ \A r \in RealLocks : OwnsIn(n, r) <=> OwnsIn(x, r)
      /\ WasOf(n, was)
  BY <1>2, <1>3 DEF OwnsIn, WasOf
<1>7. SetTop(c, n)
  BY <1>1 DEF Begin
<1> QED
  BY <1>3, <1>4, <1>5, <1>6, <1>7, PlainStep DEF IInv, TypeInv

\* disable(): isDisabled() reads the flag.
LEMMA TestKeeps ==
  ASSUME IInv, NEW c \in Cores, IsDisabled(c)
  PROVE  IInv' /\ SameOwners
<1> DEFINE x == Top(c)
           i == Len(stack[c])
<1>1. PICK n : n = [x EXCEPT !.disabled = ~intr[c], !.pc = "cli"]
  OBVIOUS
<1>2. /\ x \in Ctx /\ CtxInv(x, i) /\ (intr[c] <=> Flag(x, i)) /\ intr[c] \in BOOLEAN
      /\ i \in {1, 2} /\ WasOf(x, was)
  BY TopInv DEF IInv, TypeInv, WasInv
<1>3. /\ n \in Ctx /\ n.pc = "cli" /\ n.lock = x.lock /\ n.floor = x.floor
      /\ n.held = x.held /\ x.pc = "test" /\ (n.disabled <=> ~intr[c])
  BY <1>1, <1>2 DEF Ctx, Pcs, IsDisabled, At
<1>4. CtxInv(n, i)
  BY <1>2, <1>3 DEF CtxInv, HeldInv, PcInv, LockPcs, Known, Flag
<1>5. intr' = intr /\ (intr[c] <=> Flag(n, i)) /\ UNCHANGED <<taken, was>>
  BY <1>2, <1>3 DEF Flag, IsDisabled
<1>6. /\ \A r \in RealLocks : OwnsIn(n, r) <=> OwnsIn(x, r)
      /\ WasOf(n, was)
  BY <1>2, <1>3 DEF OwnsIn, WasOf
<1>7. SetTop(c, n)
  BY <1>1 DEF IsDisabled
<1> QED
  BY <1>3, <1>4, <1>5, <1>6, <1>7, PlainStep DEF IInv, TypeInv

\* Enter adds one section to those a context is in.
LEMMA Entered ==
  ASSUME NEW x \in Ctx, NEW i \in {1, 2}, CtxInv(x, i),
         x.pc \in {"cli", "exchange", "keep"}
  PROVE  /\ Enter(x) \in Ctx /\ CtxInv(Enter(x), i) /\ ~Flag(Enter(x), i)
         /\ Enter(x).pc = "run" /\ Enter(x).held # << >>
         /\ \A l \in Locks : OwnsIn(Enter(x), l) <=>
              l = x.lock \/ \E k \in 1..Len(x.held) : x.held[k].lock = l
         /\ \A w : WasOf(x, w) /\ (Kind[x.lock] = "keeps" => (w[x.lock] <=> x.disabled))
              => WasOf(Enter(x), w)
<1> DEFINE s == [lock |-> x.lock, disabled |-> x.disabled]
           n == Enter(x)
<1>1. /\ x.held \in Seq(Section) /\ Len(x.held) \in Nat /\ x.floor \in Nat
      /\ s \in Section /\ s.lock = x.lock /\ s.disabled = x.disabled
      /\ x.lock \in Locks /\ x.floor = Rank[x.lock] + 1 /\ Rank[x.lock] \in Nat
      /\ Len(x.held) <= Rank[x.lock] /\ (x.disabled <=> x.held # << >> \/ i # 1)
  BY LocksAssumption DEF Ctx, Section, CtxInv, PcInv, LockPcs, Known
<1>2. /\ n \in Ctx /\ n.pc = "run" /\ n.lock = "-" /\ n.floor = x.floor
      /\ n.held = Append(x.held, s)
  <2>1. Append(x.held, s) \in Seq(Section) /\ "run" \in Pcs
    BY <1>1 DEF Pcs
  <2>2. n = [x EXCEPT !.pc = "run", !.lock = "-", !.disabled = FALSE,
                      !.held = Append(x.held, s)]
    BY DEF Enter, Ctx
  <2> QED
    BY <2>1, <2>2 DEF Ctx
<1>3. /\ Len(n.held) = Len(x.held) + 1 /\ n.held # << >> /\ n.held[Len(x.held) + 1] = s
      /\ \A k \in 1..Len(x.held) : n.held[k] = x.held[k]
  BY <1>1, <1>2
<1>4. \A k \in 1..Len(x.held) : Rank[x.held[k].lock] < Rank[x.lock]
  BY DEF CtxInv, PcInv, LockPcs
<1>5. HeldInv(n, i)
  <2>1. HeldInv(x, i) /\ (Len(x.held) = 0 <=> x.held = << >>)
    BY <1>1 DEF CtxInv
  <2>2. Len(n.held) <= n.floor
    BY <1>1, <1>2, <1>3
  <2>3. ASSUME NEW k \in 1..Len(n.held)
        PROVE  /\ n.held[k].disabled <=> k > 1 \/ i # 1
               /\ Rank[n.held[k].lock] < n.floor
    <3>1. CASE k \in 1..Len(x.held)
      BY <1>2, <1>3, <2>1, <3>1 DEF HeldInv
    <3>2. CASE k = Len(x.held) + 1
      BY <1>1, <1>2, <1>3, <2>1, <3>2
    <3> QED
      BY <1>1, <1>3, <3>1, <3>2
  <2>4. ASSUME NEW j \in 1..Len(n.held), NEW k \in 1..Len(n.held), j < k
        PROVE  Rank[n.held[j].lock] < Rank[n.held[k].lock]
    <3>1. j \in 1..Len(x.held) /\ (k \in 1..Len(x.held) \/ k = Len(x.held) + 1)
      BY <1>1, <1>3, <2>4
    <3> QED
      BY <1>1, <1>3, <1>4, <2>1, <2>4, <3>1 DEF HeldInv
  <2> QED
    BY <2>2, <2>3, <2>4 DEF HeldInv
<1>6. CtxInv(n, i) /\ ~Flag(n, i)
  BY <1>2, <1>3, <1>5 DEF CtxInv, PcInv, LockPcs, Flag
<1>7. ASSUME NEW l \in Locks
      PROVE  OwnsIn(n, l) <=> l = x.lock \/ \E k \in 1..Len(x.held) : x.held[k].lock = l
  BY <1>1, <1>2, <1>3 DEF OwnsIn
<1>8. ASSUME NEW w, WasOf(x, w), Kind[x.lock] = "keeps" => (w[x.lock] <=> x.disabled)
      PROVE  WasOf(n, w)
  <2>1. ASSUME NEW k \in 1..Len(n.held), Kind[n.held[k].lock] = "keeps"
        PROVE  w[n.held[k].lock] <=> n.held[k].disabled
    <3>1. CASE k \in 1..Len(x.held)
      BY <1>3, <1>8, <2>1, <3>1 DEF WasOf
    <3>2. CASE k = Len(x.held) + 1
      BY <1>1, <1>3, <1>8, <2>1, <3>2
    <3> QED
      BY <1>1, <1>3, <3>1, <3>2
  <2> QED
    BY <2>1 DEF WasOf
<1> QED
  BY <1>2, <1>3, <1>6, <1>7, <1>8

\* disable(): cli() clears the flag unless it was clear.
LEMMA CliKeeps ==
  ASSUME IInv, NEW c \in Cores, Cli(c)
  PROVE  IInv' /\ SameOwners
<1> DEFINE x == Top(c)
           i == Len(stack[c])
<1>1. /\ x \in Ctx /\ CtxInv(x, i) /\ (intr[c] <=> Flag(x, i)) /\ intr \in [Cores -> BOOLEAN]
      /\ i \in {1, 2} /\ WasOf(x, was) /\ x.pc = "cli" /\ x.lock \in Locks
      /\ (x.disabled <=> x.held # << >> \/ i # 1)
  BY TopInv DEF IInv, TypeInv, WasInv, Cli, At, CtxInv, PcInv, LockPcs, Known
<1>2. /\ intr' \in [Cores -> BOOLEAN] /\ ~intr'[c]
      /\ \A d \in Cores : d # c => intr'[d] = intr[d]
      /\ UNCHANGED <<taken, was>>
  <2>1. x.disabled => ~intr[c]
    BY <1>1 DEF Flag
  <2>2. intr' = [intr EXCEPT ![c] = IF x.disabled THEN intr[c] ELSE FALSE]
        /\ UNCHANGED <<taken, was>>
    BY DEF Cli
  <2> QED
    BY <1>1, <2>1, <2>2
<1>3. CASE Kind[x.lock] = "none"
  <2>1. SetTop(c, Enter(x))
    BY <1>3 DEF Cli
  <2>2. /\ Enter(x) \in Ctx /\ CtxInv(Enter(x), i) /\ ~Flag(Enter(x), i)
        /\ \A l \in Locks : OwnsIn(Enter(x), l) <=>
             l = x.lock \/ \E k \in 1..Len(x.held) : x.held[k].lock = l
        /\ WasOf(Enter(x), was)
    BY <1>1, <1>3, Entered
  <2>3. \A l \in RealLocks : OwnsIn(Enter(x), l) <=> OwnsIn(x, l)
    BY <1>1, <1>3, <2>2 DEF RealLocks, OwnsIn
  <2> QED
    BY <1>2, <2>1, <2>2, <2>3, PlainStep
<1>4. CASE Kind[x.lock] # "none"
  <2>1. PICK n : n = [x EXCEPT !.pc = "exchange"]
    OBVIOUS
  <2>2. SetTop(c, n)
    BY <1>4, <2>1 DEF Cli
  <2>3. /\ n \in Ctx /\ n.pc = "exchange" /\ n.lock = x.lock /\ n.floor = x.floor
        /\ n.held = x.held /\ n.disabled = x.disabled
    BY <1>1, <2>1 DEF Ctx, Pcs
  <2>4. CtxInv(n, i) /\ ~Flag(n, i)
    BY <1>1, <1>4, <2>3 DEF CtxInv, HeldInv, PcInv, LockPcs, Known, Flag
  <2>5. (\A l \in RealLocks : OwnsIn(n, l) <=> OwnsIn(x, l)) /\ WasOf(n, was)
    BY <1>1, <2>3 DEF OwnsIn, WasOf
  <2> QED
    BY <1>2, <2>2, <2>3, <2>4, <2>5, PlainStep
<1> QED
  BY <1>3, <1>4

\* taken.exchange(true) finds the lock taken.
LEMMA SpinKeeps ==
  ASSUME IInv, NEW c \in Cores, Exchange(c), taken[Top(c).lock]
  PROVE  IInv' /\ SameOwners
<1> DEFINE x == Top(c)
           i == Len(stack[c])
<1>1. /\ x \in Ctx /\ CtxInv(x, i) /\ (intr[c] <=> Flag(x, i)) /\ intr \in [Cores -> BOOLEAN]
      /\ i \in {1, 2} /\ WasOf(x, was) /\ x.pc = "exchange" /\ x.lock \in Locks
      /\ taken \in [Locks -> BOOLEAN]
  <2>1. x.pc = "exchange"
    BY DEF Exchange, At
  <2>2. x \in Ctx /\ CtxInv(x, i) /\ (intr[c] <=> Flag(x, i)) /\ i \in {1, 2}
    BY TopInv
  <2> QED
    BY <2>1, <2>2, TopInv DEF IInv, TypeInv, WasInv, CtxInv, PcInv, LockPcs
<1>2. UNCHANGED <<intr, taken, was>>
  BY <1>1 DEF Exchange
<1>3. PICK n : n = [x EXCEPT !.pc = "retry"]
  OBVIOUS
<1>4. SetTop(c, n)
  BY <1>3 DEF Exchange
<1>5. /\ n \in Ctx /\ n.pc = "retry" /\ n.lock = x.lock /\ n.floor = x.floor
      /\ n.held = x.held /\ n.disabled = x.disabled
  BY <1>1, <1>3 DEF Ctx, Pcs
<1>6. CtxInv(n, i) /\ ~Flag(n, i) /\ ~intr[c]
  BY <1>1, <1>5 DEF CtxInv, HeldInv, PcInv, LockPcs, Known, Flag
<1>7. (\A l \in RealLocks : OwnsIn(n, l) <=> OwnsIn(x, l)) /\ WasOf(n, was)
  BY <1>1, <1>5 DEF OwnsIn, WasOf
<1> QED
  BY <1>1, <1>2, <1>4, <1>5, <1>6, <1>7, PlainStep

\* The lock was taken: the flag is restored and lock() starts over.
LEMMA RetryKeeps ==
  ASSUME IInv, NEW c \in Cores, Retry(c)
  PROVE  IInv' /\ SameOwners
<1> DEFINE x == Top(c)
           i == Len(stack[c])
<1>1. /\ x \in Ctx /\ CtxInv(x, i) /\ (intr[c] <=> Flag(x, i)) /\ intr \in [Cores -> BOOLEAN]
      /\ i \in {1, 2} /\ WasOf(x, was) /\ x.pc = "retry" /\ x.lock \in Locks
      /\ (x.disabled <=> x.held # << >> \/ i # 1)
  BY TopInv, SMTT(30) DEF IInv, TypeInv, WasInv, Retry, At, CtxInv, PcInv, LockPcs, Known
<1>2. /\ intr' \in [Cores -> BOOLEAN] /\ (intr'[c] <=> ~x.disabled)
      /\ \A d \in Cores : d # c => intr'[d] = intr[d]
      /\ UNCHANGED <<taken, was>>
  <2>1. ~intr[c]
    BY <1>1 DEF Flag
  <2>2. intr' = [intr EXCEPT ![c] = IF x.disabled THEN intr[c] ELSE TRUE]
        /\ UNCHANGED <<taken, was>>
    BY DEF Retry
  <2> QED
    BY <1>1, <2>1, <2>2
<1>3. PICK n : n = [x EXCEPT !.pc = "test"]
  OBVIOUS
<1>4. SetTop(c, n)
  BY <1>3 DEF Retry
<1>5. /\ n \in Ctx /\ n.pc = "test" /\ n.lock = x.lock /\ n.floor = x.floor
      /\ n.held = x.held /\ n.disabled = x.disabled
  BY <1>1, <1>3 DEF Ctx, Pcs
<1>6. CtxInv(n, i) /\ (intr'[c] <=> Flag(n, i))
  BY <1>1, <1>2, <1>5 DEF CtxInv, HeldInv, PcInv, LockPcs, Flag
<1>7. (\A l \in RealLocks : OwnsIn(n, l) <=> OwnsIn(x, l)) /\ WasOf(n, was)
  BY <1>1, <1>5 DEF OwnsIn, WasOf
<1> QED
  BY <1>2, <1>4, <1>5, <1>6, <1>7, PlainStep

\* unlock() ends: the flag is what it was before the section.
LEMMA RestoreKeeps ==
  ASSUME IInv, NEW c \in Cores, Restore(c)
  PROVE  IInv' /\ SameOwners
<1> DEFINE x == Top(c)
           i == Len(stack[c])
<1>1. /\ x \in Ctx /\ CtxInv(x, i) /\ (intr[c] <=> Flag(x, i)) /\ intr \in [Cores -> BOOLEAN]
      /\ i \in {1, 2} /\ WasOf(x, was) /\ x.pc = "restore"
      /\ (x.disabled <=> x.held # << >> \/ i # 1)
      /\ x.held \in Seq(Section)
  <2>1. x.pc = "restore"
    BY DEF Restore, At
  <2>2. x \in Ctx /\ CtxInv(x, i) /\ (intr[c] <=> Flag(x, i)) /\ i \in {1, 2}
    BY TopInv
  <2>3. x.held \in Seq(Section) /\ (x.disabled <=> x.held # << >> \/ i # 1)
    BY <2>1, <2>2 DEF Ctx, CtxInv, PcInv, Known
  <2> QED
    BY <2>1, <2>2, <2>3, TopInv DEF IInv, TypeInv, WasInv
<1>2. /\ intr' \in [Cores -> BOOLEAN] /\ (intr'[c] <=> ~x.disabled)
      /\ \A d \in Cores : d # c => intr'[d] = intr[d]
      /\ UNCHANGED <<taken, was>>
  <2>1. ~intr[c]
    BY <1>1 DEF Flag
  <2>2. intr' = [intr EXCEPT ![c] =
                   IF ~x.disabled THEN TRUE
                   ELSE IF Kind[x.lock] = "returns" THEN FALSE ELSE intr[c]]
        /\ UNCHANGED <<taken, was>>
    BY DEF Restore
  <2> QED
    BY <1>1, <2>1, <2>2
<1>3. PICK n : n = Restored(c)
  OBVIOUS
<1>4. SetTop(c, n)
  BY <1>3 DEF Restore
<1>5. /\ n \in Ctx /\ n.pc = "run" /\ n.held = x.held
      /\ n.floor = x.floor \/ (n.floor = 0 /\ x.held = << >>)
  BY <1>1, <1>3 DEF Ctx, Pcs, Restored
<1>6. CtxInv(n, i) /\ (intr'[c] <=> Flag(n, i))
  BY <1>1, <1>2, <1>5 DEF CtxInv, HeldInv, PcInv, LockPcs, Flag
<1>7. (\A l \in RealLocks : OwnsIn(n, l) <=> OwnsIn(x, l)) /\ WasOf(n, was)
  BY <1>1, <1>5 DEF OwnsIn, WasOf
<1> QED
  BY <1>2, <1>4, <1>5, <1>6, <1>7, PlainStep

\* The holder of an InterruptSafeLock notes the flag in the lock: nobody else owns
\* it, so that nobody else's flag is lost.
LEMMA KeepKeeps ==
  ASSUME IInv, NEW c \in Cores, Keep(c)
  PROVE  IInv' /\ SameOwners
<1> DEFINE x == Top(c)
           i == Len(stack[c])
           n == Enter(x)
<1>1. /\ x \in Ctx /\ CtxInv(x, i) /\ (intr[c] <=> Flag(x, i)) /\ i \in {1, 2}
      /\ WasOf(x, was) /\ x.pc = "keep" /\ x = stack[c][i]
  <2>1. x.pc = "keep"
    BY DEF Keep, At
  <2> QED
    BY <2>1, TopInv DEF IInv, WasInv
<1>2. x.lock \in Locks /\ x.lock \in RealLocks /\ Kind[x.lock] = "keeps"
  BY <1>1 DEF CtxInv, PcInv, LockPcs, RealLocks
<1>3. /\ intr' = intr /\ taken' = taken /\ SetTop(c, n)
      /\ was' \in [Locks -> BOOLEAN] /\ (was'[x.lock] <=> x.disabled)
      /\ \A l \in Locks : l # x.lock => was'[l] = was[l]
  <2>1. was' = [was EXCEPT ![x.lock] = x.disabled] /\ UNCHANGED <<intr, taken>> /\ SetTop(c, n)
    BY DEF Keep
  <2>2. x.disabled \in BOOLEAN
    BY <1>1 DEF Ctx
  <2> QED
    BY <1>2, <2>1, <2>2 DEF IInv, TypeInv
<1>4. WasOf(x, was')
  <2>1. ASSUME NEW k \in 1..Len(x.held) PROVE x.held[k].lock \in Locks \ {x.lock}
    <3>1. Rank[x.held[k].lock] < Rank[x.lock]
      BY <1>1 DEF CtxInv, PcInv, LockPcs
    <3>2. x.held \in Seq(Section)
      BY <1>1 DEF Ctx
    <3>3. x.held[k] \in Section
      BY <3>2
    <3> QED
      BY <1>2, <3>1, <3>3, LocksAssumption DEF Section
  <2> QED
    BY <1>1, <1>3, <2>1 DEF WasOf
<1>5. /\ n \in Ctx /\ CtxInv(n, i) /\ ~Flag(n, i)
      /\ \A l \in Locks : OwnsIn(n, l) <=>
           l = x.lock \/ \E k \in 1..Len(x.held) : x.held[k].lock = l
      /\ WasOf(n, was')
  BY <1>1, <1>3, <1>4, Entered
<1>6. \A l \in RealLocks : OwnsIn(n, l) <=> OwnsIn(x, l)
  BY <1>1, <1>5 DEF RealLocks, OwnsIn
<1>7. OnlyTop(c, n) /\ StackInv'
  <2>1. ~intr'[c] /\ \A d \in Cores : d # c => intr'[d] = intr[d]
    BY <1>1, <1>3 DEF Flag
  <2> QED
    BY <1>3, <1>5, <2>1, TopStep
<1>8. SameOwners
  BY <1>5, <1>6, <1>7, OwnersStay
<1>9. WasInv'
  <2>1. ASSUME NEW d \in Cores, NEW j \in {1, 2}, NEW l \in RealLocks,
               d # c \/ j # Len(stack[c]), Owner(d, j, l)
        PROVE  was'[l] = was[l]
    <3>1. Owner(c, i, x.lock)
      <4>1. OwnsIn(x, x.lock) /\ i \in 1..Len(stack[c])
        BY <1>1 DEF OwnsIn
      <4>2. x = stack[c][i]
        BY <1>1
      <4> QED
        BY <4>1, <4>2 DEF Owner
    <3>2. l # x.lock
      BY <1>1, <1>2, <2>1, <3>1, SMTT(30) DEF IInv, OwnerInv
    <3> QED
      BY <1>3, <3>2 DEF RealLocks
  <2> QED
    BY <1>5, <1>7, <2>1, WasStays
<1>10. TypeInv' /\ OwnerInv'
  BY <1>3, <1>7, <1>8 DEF IInv, TypeInv, OnlyTop, OwnerInv, SameOwners
<1> QED
  BY <1>7, <1>8, <1>9, <1>10 DEF IInv

\* The empty sequence has length 0.
LEMMA EmptyLen ==
  ASSUME NEW S, NEW q \in Seq(S)
  PROVE  q = << >> <=> Len(q) = 0
OBVIOUS

\* What a handler on top of a main context looks like.
LEMMA Pushed ==
  ASSUME NEW S, NEW q \in Seq(S), Len(q) = 1, NEW x \in S
  PROVE  /\ Append(q, x) \in Seq(S) /\ Len(Append(q, x)) = 2
         /\ Append(q, x)[1] = q[1] /\ Append(q, x)[2] = x
<1>1. Append(q, x) \in Seq(S) /\ Len(Append(q, x)) = Len(q) + 1
  OBVIOUS
<1>2. \A k \in 1..Len(q) : Append(q, x)[k] = q[k]
  OBVIOUS
<1>3. Append(q, x)[Len(Append(q, x))] = x
  BY <1>1
<1> QED
  BY <1>1, <1>2, <1>3

\* Depths: the main context is 1, a handler 2.
LEMMA Depths ==
  /\ \A i \in {1, 2} : i \in 1..i
  /\ \A i \in 1..2 : i = 1 \/ i = 2
  /\ \A i \in 1..1 : i = 1
OBVIOUS

\* What Front leaves of the sections of a context.
LEMMA Left ==
  ASSUME NEW x \in Ctx, NEW i \in {1, 2}, HeldInv(x, i), x.held # << >>,
         NEW n \in Ctx, n.held = Front(x.held), n.floor = x.floor
  PROVE  /\ HeldInv(n, i) /\ Last(x.held) = x.held[Len(x.held)] /\ Last(x.held).lock \in Locks
         /\ Last(x.held).disabled <=> n.held # << >> \/ i # 1
         /\ \A k \in 1..Len(x.held) :
              \/ k \in 1..Len(n.held) /\ n.held[k] = x.held[k] /\ x.held[k].lock # Last(x.held).lock
              \/ k = Len(x.held)
         /\ \A k \in 1..Len(n.held) : k \in 1..Len(x.held) /\ n.held[k] = x.held[k]
<1>1. /\ x.held \in Seq(Section) /\ n.held \in Seq(Section)
      /\ Len(x.held) \in Nat \ {0} /\ Len(n.held) = Len(x.held) - 1
      /\ Last(x.held) = x.held[Len(x.held)] /\ Last(x.held) \in Section
      /\ \A k \in 1..Len(x.held)-1 : n.held[k] = x.held[k]
      /\ x.floor \in Nat
  BY FrontLast, SMTT(30) DEF Ctx
<1>2. \A k \in 1..Len(x.held) : x.held[k] \in Section /\ Rank[x.held[k].lock] \in Nat
  <2>1. \A k \in 1..Len(x.held) : x.held[k] \in Section
    BY <1>1
  <2> QED
    BY <2>1, LocksAssumption DEF Section
<1>3. HeldInv(n, i)
  <2>1. Len(n.held) <= n.floor
    BY <1>1 DEF HeldInv
  <2>2. ASSUME NEW k \in 1..Len(n.held)
        PROVE  k \in 1..Len(x.held) /\ n.held[k] = x.held[k]
    BY <1>1
  <2> QED
    BY <2>1, <2>2 DEF HeldInv
<1>4. Last(x.held).disabled <=> n.held # << >> \/ i # 1
  <2>1. Last(x.held).disabled <=> Len(x.held) > 1 \/ i # 1
    BY <1>1 DEF HeldInv
  <2>2. n.held # << >> <=> Len(n.held) # 0
    BY <1>1, EmptyLen
  <2> QED
    BY <1>1, <2>1, <2>2
<1>5. ASSUME NEW k \in 1..Len(x.held), k # Len(x.held)
      PROVE  /\ k \in 1..Len(n.held) /\ n.held[k] = x.held[k]
             /\ x.held[k].lock # Last(x.held).lock
  <2>1. Rank[x.held[k].lock] < Rank[Last(x.held).lock]
    BY <1>1, <1>5 DEF HeldInv
  <2> QED
    BY <1>1, <1>2, <1>5, <2>1
<1>6. \A k \in 1..Len(n.held) : k \in 1..Len(x.held) /\ n.held[k] = x.held[k]
  BY <1>1
<1> QED
  BY <1>1, <1>3, <1>4, <1>5, <1>6 DEF Section

\* unlock() begins: the flag to restore is the one from before the section.
LEMMA LeaveKeeps ==
  ASSUME IInv, NEW c \in Cores, Leave(c)
  PROVE  IInv' /\ SameOwners
<1> DEFINE x == Top(c)
           i == Len(stack[c])
           s == Last(x.held)
<1>1. /\ x \in Ctx /\ CtxInv(x, i) /\ (intr[c] <=> Flag(x, i)) /\ i \in {1, 2}
      /\ WasOf(x, was) /\ x = stack[c][i]
  BY TopInv DEF IInv, WasInv
<1>2. /\ x.pc = "run" /\ x.held # << >> /\ ~intr[c]
      /\ UNCHANGED <<intr, taken, was>>
  BY <1>1 DEF Leave, At, Flag
<1>3. /\ HeldInv(x, i) /\ x.held \in Seq(Section) /\ Len(x.held) \in 1..Len(x.held)
      /\ s = x.held[Len(x.held)] /\ s \in Section
  <2>1. HeldInv(x, i) /\ x.held \in Seq(Section)
    BY <1>1 DEF CtxInv, Ctx
  <2>2. Len(x.held) \in Nat \ {0} /\ s = x.held[Len(x.held)] /\ s \in Section
    BY <1>2, <2>1, FrontLast
  <2> QED
    BY <2>1, <2>2
<1>4. CASE Kind[s.lock] = "none"
  <2>1. PICK n : n = [x EXCEPT !.lock = s.lock, !.disabled = s.disabled,
                               !.pc = "restore", !.held = Front(x.held)]
    OBVIOUS
  <2>2. SetTop(c, n)
    BY <1>1, <1>4, <2>1 DEF Leave, Ctx
  <2>3. /\ n \in Ctx /\ n.pc = "restore" /\ n.lock = s.lock /\ n.floor = x.floor
        /\ n.held = Front(x.held) /\ n.disabled = s.disabled
    <3>1. Front(x.held) \in Seq(Section) /\ s.lock \in Locks /\ s.disabled \in BOOLEAN
      BY <1>2, <1>3, FrontLast DEF Section
    <3> QED
      BY <1>1, <2>1, <3>1 DEF Ctx, Pcs
  <2>4. /\ HeldInv(n, i) /\ s.lock \in Locks
        /\ s.disabled <=> n.held # << >> \/ i # 1
        /\ \A k \in 1..Len(x.held) :
             (k \in 1..Len(n.held) /\ n.held[k] = x.held[k]) \/ k = Len(x.held)
        /\ \A k \in 1..Len(n.held) : k \in 1..Len(x.held) /\ n.held[k] = x.held[k]
    <3>1. HeldInv(x, i) /\ n \in Ctx /\ n.held = Front(x.held) /\ n.floor = x.floor
      BY <1>3, <2>3
    <3>2. x.held # << >> /\ x \in Ctx /\ i \in {1, 2}
      BY <1>1, <1>2
    <3> HIDE DEF x, i
    <3>3. /\ HeldInv(n, i) /\ Last(x.held).lock \in Locks
          /\ Last(x.held).disabled <=> n.held # << >> \/ i # 1
      BY <3>1, <3>2, Left
    <3>4. /\ \A k \in 1..Len(x.held) :
               (k \in 1..Len(n.held) /\ n.held[k] = x.held[k]) \/ k = Len(x.held)
          /\ \A k \in 1..Len(n.held) : k \in 1..Len(x.held) /\ n.held[k] = x.held[k]
      BY <3>1, <3>2, Left
    <3> QED
      BY <3>3, <3>4
  <2>5. CtxInv(n, i) /\ ~Flag(n, i)
    BY <2>3, <2>4 DEF CtxInv, PcInv, LockPcs, Known, Flag
  <2>6. ASSUME NEW l \in RealLocks PROVE OwnsIn(n, l) <=> OwnsIn(x, l)
    BY <1>2, <1>3, <1>4, <2>3, <2>4 DEF OwnsIn, RealLocks
  <2>7. WasOf(n, was)
    BY <1>1, <2>4 DEF WasOf
  <2> QED
    BY <1>2, <2>2, <2>3, <2>5, <2>6, <2>7, PlainStep DEF IInv, TypeInv
<1>5. CASE Kind[s.lock] # "none"
  <2>0. PICK f : f = IF Kind[s.lock] = "keeps" THEN was[s.lock] ELSE s.disabled
    OBVIOUS
  <2>1. PICK n : n = [x EXCEPT !.lock = s.lock, !.disabled = f, !.pc = "free"]
    OBVIOUS
  <2>2. SetTop(c, n)
    BY <1>1, <1>5, <2>0, <2>1 DEF Leave, Ctx
  <2>3. f \in BOOLEAN /\ (f <=> s.disabled)
    <3>1. Kind[s.lock] = "keeps" => (was[s.lock] <=> s.disabled)
      BY <1>1, <1>3 DEF WasOf
    <3>2. was[s.lock] \in BOOLEAN /\ s.disabled \in BOOLEAN
      BY <1>3 DEF IInv, TypeInv, Section
    <3> QED
      BY <2>0, <3>1, <3>2
  <2>4. /\ n \in Ctx /\ n.pc = "free" /\ n.lock = s.lock /\ n.floor = x.floor
        /\ n.held = x.held /\ n.disabled = f
    BY <1>1, <1>3, <2>1, <2>3 DEF Ctx, Pcs, Section
  <2>5. CtxInv(n, i) /\ ~Flag(n, i)
    <3>1. n.disabled = n.held[Len(n.held)].disabled
      BY <1>3, <2>3, <2>4 DEF Section
    <3> QED
      BY <1>2, <1>3, <1>5, <2>4, <3>1 DEF CtxInv, HeldInv, PcInv, LockPcs, Flag
  <2>6. (\A l \in RealLocks : OwnsIn(n, l) <=> OwnsIn(x, l)) /\ WasOf(n, was)
    BY <1>1, <1>2, <2>4 DEF OwnsIn, WasOf
  <2> QED
    BY <1>2, <2>2, <2>4, <2>5, <2>6, PlainStep DEF IInv, TypeInv
<1> QED
  BY <1>4, <1>5

\* The two steps that change owners: a lock that nobody owns is gained, or the
\* owner loses it.
Gains(c, l) ==
  /\ \A d \in Cores, i \in {1, 2} : ~Owner(d, i, l)
  /\ \A d \in Cores, i \in {1, 2}, r \in RealLocks :
       Owner(d, i, r)' <=> Owner(d, i, r) \/ (d = c /\ i = Len(stack[c]) /\ r = l)

Loses(c, l) ==
  /\ Owner(c, Len(stack[c]), l)
  /\ \A d \in Cores, i \in {1, 2}, r \in RealLocks :
       Owner(d, i, r)' <=> Owner(d, i, r) /\ r # l

\* taken.exchange(true) finds the lock free.
LEMMA AcquireKeeps ==
  ASSUME IInv, NEW c \in Cores, Exchange(c), ~taken[Top(c).lock]
  PROVE  IInv' /\ Top(c).lock \in RealLocks /\ Gains(c, Top(c).lock)
<1> DEFINE x == Top(c)
           i == Len(stack[c])
           l == x.lock
<1>1. /\ x \in Ctx /\ CtxInv(x, i) /\ (intr[c] <=> Flag(x, i)) /\ i \in {1, 2}
      /\ WasOf(x, was) /\ x.pc = "exchange" /\ x = stack[c][i]
  <2>1. x.pc = "exchange"
    BY DEF Exchange, At
  <2> QED
    BY <2>1, TopInv DEF IInv, WasInv
<1>2. l \in Locks /\ l \in RealLocks /\ ~intr[c]
  BY <1>1 DEF CtxInv, PcInv, LockPcs, RealLocks, Flag
<1>3. /\ UNCHANGED <<intr, was>> /\ taken' = [taken EXCEPT ![l] = TRUE]
      /\ taken' \in [Locks -> BOOLEAN]
  BY DEF Exchange, IInv, TypeInv
<1>4. PICK n \in Ctx : /\ SetTop(c, n) /\ CtxInv(n, i) /\ ~Flag(n, i) /\ WasOf(n, was)
                       /\ \A r \in RealLocks : OwnsIn(n, r) <=> OwnsIn(x, r) \/ r = l
  <2>1. CASE Kind[l] = "keeps"
    <3>1. PICK n : n = [x EXCEPT !.pc = "keep"]
      OBVIOUS
    <3>2. SetTop(c, n)
      BY <2>1, <3>1 DEF Exchange
    <3>3. /\ n \in Ctx /\ n.pc = "keep" /\ n.lock = l /\ n.floor = x.floor
          /\ n.held = x.held /\ n.disabled = x.disabled
      BY <1>1, <3>1 DEF Ctx, Pcs
    <3>4. CtxInv(n, i) /\ ~Flag(n, i)
      BY <1>1, <2>1, <3>3 DEF CtxInv, HeldInv, PcInv, LockPcs, Known, Flag
    <3>5. WasOf(n, was) /\ \A r \in RealLocks : OwnsIn(n, r) <=> OwnsIn(x, r) \/ r = l
      BY <1>1, <3>3 DEF WasOf, OwnsIn
    <3> QED
      BY <3>2, <3>3, <3>4, <3>5
  <2>2. CASE Kind[l] # "keeps"
    <3>1. SetTop(c, Enter(x))
      BY <2>2 DEF Exchange
    <3>2. /\ Enter(x) \in Ctx /\ CtxInv(Enter(x), i) /\ ~Flag(Enter(x), i)
          /\ \A r \in Locks : OwnsIn(Enter(x), r) <=>
               r = l \/ \E k \in 1..Len(x.held) : x.held[k].lock = r
          /\ WasOf(Enter(x), was)
      BY <1>1, <2>2, Entered
    <3>3. \A r \in RealLocks : OwnsIn(Enter(x), r) <=> OwnsIn(x, r) \/ r = l
      BY <1>1, <3>2 DEF RealLocks, OwnsIn
    <3> QED
      BY <3>1, <3>2, <3>3
  <2> QED
    BY <2>1, <2>2
<1>5. OnlyTop(c, n) /\ StackInv'
  BY <1>2, <1>3, <1>4, TopStep
<1>6. \A d \in Cores, j \in {1, 2} : ~Owner(d, j, l)
  BY <1>2 DEF IInv, OwnerInv
<1>7. ASSUME NEW d \in Cores, NEW j \in {1, 2}, NEW r \in RealLocks
      PROVE  Owner(d, j, r)' <=> Owner(d, j, r) \/ (d = c /\ j = i /\ r = l)
  <2>1. Owner(d, j, r)' <=> j \in 1..Len(stack'[d]) /\ OwnsIn(stack'[d][j], r)
    BY DEF Owner, OwnsIn
  <2>2. CASE d = c /\ j = i
    <3>1. OwnsIn(n, r) <=> OwnsIn(x, r) \/ r = l
      BY <1>4
    <3>2. stack'[c][i] = n /\ i \in 1..Len(stack'[c]) /\ i \in 1..Len(stack[c])
      <4>1. stack'[c][Len(stack[c])] = n /\ Len(stack'[c]) = Len(stack[c])
        BY <1>5 DEF OnlyTop
      <4>2. i \in 1..i
        BY <1>1, Depths
      <4> QED
        BY <4>1, <4>2
    <3>3. Owner(d, j, r) <=> OwnsIn(x, r)
      BY <1>1, <2>2, <3>2 DEF Owner
    <3>4. Owner(d, j, r)' <=> OwnsIn(n, r)
      BY <2>1, <2>2, <3>2
    <3> QED
      BY <2>2, <3>1, <3>3, <3>4
  <2>3. CASE ~(d = c /\ j = i)
    BY <1>1, <1>5, <2>1, <2>3 DEF OnlyTop, Owner
  <2> QED
    BY <2>2, <2>3
<1>8. WasInv'
  BY <1>3, <1>4, <1>5, WasStays
<1>9. OwnerInv'
  <2>1. \A r \in RealLocks : r \in Locks /\ (r # l => taken'[r] = taken[r]) /\ taken'[l]
    BY <1>2, <1>3 DEF RealLocks, IInv, TypeInv
  <2>2. \A r \in RealLocks : taken'[r] <=> \E d \in Cores, j \in {1, 2} : Owner(d, j, r)'
    BY <1>1, <1>7, <2>1 DEF IInv, OwnerInv
  <2>3. \A r \in RealLocks : \A d, e \in Cores, j, k \in {1, 2} :
          Owner(d, j, r)' /\ Owner(e, k, r)' => d = e /\ j = k
    BY <1>6, <1>7 DEF IInv, OwnerInv
  <2> QED
    BY <2>2, <2>3 DEF OwnerInv, Owner, OwnsIn
<1>10. TypeInv'
  BY <1>3, <1>5 DEF IInv, TypeInv, OnlyTop
<1> QED
  BY <1>2, <1>5, <1>6, <1>7, <1>8, <1>9, <1>10 DEF IInv, Gains, Owner, OwnsIn

\* taken.set(false), by the owner.
LEMMA FreeKeeps ==
  ASSUME IInv, NEW c \in Cores, Free(c)
  PROVE  IInv' /\ Top(c).lock \in RealLocks /\ Loses(c, Top(c).lock)
<1> DEFINE x == Top(c)
           i == Len(stack[c])
           l == x.lock
<1>1. /\ x \in Ctx /\ CtxInv(x, i) /\ (intr[c] <=> Flag(x, i)) /\ i \in {1, 2}
      /\ WasOf(x, was) /\ x.pc = "free" /\ x = stack[c][i]
  <2>1. x.pc = "free"
    BY DEF Free, At
  <2> QED
    BY <2>1, TopInv DEF IInv, WasInv
<1>2. /\ x.held # << >> /\ HeldInv(x, i) /\ Kind[l] # "none"
      /\ l = x.held[Len(x.held)].lock /\ x.disabled = x.held[Len(x.held)].disabled
      /\ ~intr[c]
  BY <1>1 DEF CtxInv, PcInv, Flag
<1>3. /\ UNCHANGED <<intr, was>> /\ taken' = [taken EXCEPT ![l] = FALSE]
      /\ taken' \in [Locks -> BOOLEAN]
  BY DEF Free, IInv, TypeInv
<1>4. PICK n : n = [x EXCEPT !.pc = "restore", !.held = Front(x.held)]
  OBVIOUS
<1>5. SetTop(c, n)
  BY <1>1, <1>4 DEF Free, Ctx
<1>6. /\ n \in Ctx /\ n.pc = "restore" /\ n.lock = l /\ n.floor = x.floor
      /\ n.held = Front(x.held) /\ n.disabled = x.disabled
  <2>1. Front(x.held) \in Seq(Section) /\ "restore" \in Pcs
    BY <1>1, <1>2, FrontLast DEF Ctx, Pcs
  <2> QED
    BY <1>1, <1>4, <2>1 DEF Ctx
<1>7. /\ HeldInv(n, i) /\ l \in Locks /\ (x.disabled <=> n.held # << >> \/ i # 1)
      /\ Len(x.held) \in 1..Len(x.held)
      /\ \A k \in 1..Len(x.held) :
           (k \in 1..Len(n.held) /\ n.held[k] = x.held[k] /\ x.held[k].lock # l) \/ k = Len(x.held)
      /\ \A k \in 1..Len(n.held) :
           k \in 1..Len(x.held) /\ n.held[k] = x.held[k] /\ k # Len(x.held)
  <2>1. Len(x.held) \in Nat \ {0} /\ Len(n.held) = Len(x.held) - 1
    BY <1>1, <1>2, <1>6, FrontLast DEF Ctx
  <2>2. x \in Ctx /\ i \in {1, 2}
    BY <1>1
  <2> HIDE DEF x, i
  <2>3. /\ HeldInv(n, i) /\ Last(x.held) = x.held[Len(x.held)] /\ Last(x.held).lock \in Locks
        /\ Last(x.held).disabled <=> n.held # << >> \/ i # 1
    BY <1>2, <1>6, <2>2, Left
  <2>4. /\ \A k \in 1..Len(x.held) :
             \/ k \in 1..Len(n.held) /\ n.held[k] = x.held[k] /\ x.held[k].lock # Last(x.held).lock
             \/ k = Len(x.held)
        /\ \A k \in 1..Len(n.held) : k \in 1..Len(x.held) /\ n.held[k] = x.held[k]
    BY <1>2, <1>6, <2>2, Left
  <2> QED
    BY <1>2, <2>1, <2>3, <2>4
<1>8. l \in RealLocks
  BY <1>2, <1>7 DEF RealLocks
<1>9. CtxInv(n, i) /\ ~Flag(n, i)
  BY <1>6, <1>7 DEF CtxInv, PcInv, LockPcs, Known, Flag
<1>10. \A r \in RealLocks : OwnsIn(n, r) <=> OwnsIn(x, r) /\ r # l
  BY <1>1, <1>2, <1>6, <1>7, ZenonT(30) DEF OwnsIn
<1>11. WasOf(n, was)
  BY <1>1, <1>7 DEF WasOf
<1>12. OnlyTop(c, n) /\ StackInv'
  BY <1>2, <1>3, <1>5, <1>6, <1>9, TopStep
<1>13. Owner(c, i, l)
  <2>1. OwnsIn(x, l)
    BY <1>2, <1>7 DEF OwnsIn
  <2> QED
    BY <1>1, <2>1 DEF Owner
<1>14. ASSUME NEW d \in Cores, NEW j \in {1, 2}, NEW r \in RealLocks
       PROVE  Owner(d, j, r)' <=> Owner(d, j, r) /\ r # l
  <2>1. Owner(d, j, r)' <=> j \in 1..Len(stack'[d]) /\ OwnsIn(stack'[d][j], r)
    BY DEF Owner, OwnsIn
  <2>2. CASE d = c /\ j = i
    BY <1>1, <1>10, <1>12, <2>1, <2>2 DEF OnlyTop, Owner
  <2>3. CASE ~(d = c /\ j = i)
    <3>1. ~Owner(d, j, l)
      <4>1. \A e \in Cores, k \in {1, 2} : Owner(c, i, l) /\ Owner(e, k, l) => e = c /\ k = i
        <5>1. i \in {1, 2} /\ OwnerInv
          BY <1>1 DEF IInv
        <5> HIDE DEF i, l
        <5> QED
          BY <1>8, <5>1 DEF OwnerInv
      <4> HIDE DEF i, l
      <4> QED
        BY <1>13, <2>3, <4>1
    <3>2. Owner(d, j, r)' <=> Owner(d, j, r)
      BY <1>1, <1>12, <2>1, <2>3 DEF OnlyTop, Owner
    <3> QED
      BY <3>1, <3>2
  <2> QED
    BY <2>2, <2>3
<1>15. WasInv'
  BY <1>3, <1>6, <1>11, <1>12, WasStays
<1>16. OwnerInv'
  <2>1. \A r \in RealLocks : r \in Locks /\ (r # l => taken'[r] = taken[r]) /\ ~taken'[l]
    BY <1>3, <1>7 DEF RealLocks, IInv, TypeInv
  <2>2. \A r \in RealLocks : taken'[r] <=> \E d \in Cores, j \in {1, 2} : Owner(d, j, r)'
    BY <1>14, <2>1 DEF IInv, OwnerInv
  <2>3. \A r \in RealLocks : \A d, e \in Cores, j, k \in {1, 2} :
          Owner(d, j, r)' /\ Owner(e, k, r)' => d = e /\ j = k
    BY <1>14 DEF IInv, OwnerInv
  <2> QED
    BY <2>2, <2>3 DEF OwnerInv, Owner, OwnsIn
<1>17. TypeInv'
  BY <1>3, <1>12 DEF IInv, TypeInv, OnlyTop
<1> QED
  BY <1>8, <1>12, <1>13, <1>14, <1>15, <1>16, <1>17 DEF IInv, Loses, Owner, OwnsIn

\* An interrupt starts a handler above a main context that is outside of all
\* sections; iret ends it outside of all of its own.
LEMMA InterruptKeeps ==
  ASSUME IInv, NEW c \in Cores, Interrupt(c)
  PROVE  IInv' /\ SameOwners
<1> DEFINE h == Fresh(0)
<1>1. /\ stack \in [Cores -> Seq(Ctx)] /\ Len(stack[c]) = 1
      /\ \A d \in Cores : Len(stack[d]) \in 1..2
      /\ stack' = [stack EXCEPT ![c] = Append(stack[c], h)]
      /\ intr \in [Cores -> BOOLEAN] /\ intr[c] /\ intr' = [intr EXCEPT ![c] = FALSE]
      /\ UNCHANGED <<taken, was>>
  BY DEF Interrupt, IInv, TypeInv
<1>2. h \in Ctx /\ h.held = << >> /\ h.pc = "run"
  BY DEF Fresh, Ctx, Pcs
<1>3. CtxInv(h, 2) /\ ~Flag(h, 2) /\ WasOf(h, was) /\ \A l : ~OwnsIn(h, l)
  BY <1>2 DEF CtxInv, HeldInv, PcInv, LockPcs, Flag, WasOf, OwnsIn, Fresh
<1>4. CtxInv(stack[c][1], 1) /\ Flag(stack[c][1], 1) /\ WasOf(stack[c][1], was)
  BY <1>1 DEF IInv, StackInv, WasInv
<1>5. /\ stack' \in [Cores -> Seq(Ctx)] /\ Len(stack'[c]) = 2
      /\ stack'[c][1] = stack[c][1] /\ stack'[c][2] = h
      /\ \A d \in Cores : d # c => stack'[d] = stack[d] /\ intr'[d] = intr[d]
      /\ ~intr'[c]
  <2>1. stack[c] \in Seq(Ctx)
    BY <1>1
  <2>2. /\ Append(stack[c], h) \in Seq(Ctx) /\ Len(Append(stack[c], h)) = 2
        /\ Append(stack[c], h)[1] = stack[c][1] /\ Append(stack[c], h)[2] = h
    BY <1>1, <1>2, <2>1, Pushed
  <2> QED
    BY <1>1, <2>2
<1>6. StackInv'
  <2>1. ASSUME NEW d \in Cores
        PROVE  /\ \A i \in 1..Len(stack'[d]) : CtxInv(stack'[d][i], i)
               /\ intr'[d] <=> Flag(stack'[d][Len(stack'[d])], Len(stack'[d]))
               /\ Len(stack'[d]) = 2 => Flag(stack'[d][1], 1)
    <3>1. CASE d = c
      BY <1>3, <1>4, <1>5, <3>1, Depths
    <3>2. CASE d # c
      BY <1>5, <3>2 DEF IInv, StackInv
    <3> QED
      BY <3>1, <3>2
  <2> QED
    BY <2>1 DEF StackInv, CtxInv, HeldInv, PcInv, Known, Flag
<1>7. TypeInv'
  BY <1>1, <1>5 DEF TypeInv, IInv
<1>8. WasInv'
  <2>1. ASSUME NEW d \in Cores, NEW i \in 1..Len(stack'[d]) PROVE WasOf(stack'[d][i], was)
    <3>1. CASE d = c
      <4>1. i = 1 \/ i = 2
        BY <1>5, <2>1, <3>1, Depths
      <4> QED
        BY <1>3, <1>4, <1>5, <3>1, <4>1
    <3>2. CASE d # c
      BY <1>5, <2>1, <3>2 DEF IInv, WasInv
    <3> QED
      BY <3>1, <3>2
  <2> QED
    BY <1>1, <2>1 DEF WasInv, WasOf
<1>9. SameOwners
  <2> SUFFICES ASSUME NEW d \in Cores, NEW i \in {1, 2}, NEW l \in RealLocks
               PROVE  Owner(d, i, l)' <=> Owner(d, i, l)
    BY DEF SameOwners
  <2>1. Owner(d, i, l)' <=> i \in 1..Len(stack'[d]) /\ OwnsIn(stack'[d][i], l)
    BY DEF Owner, OwnsIn
  <2>2. CASE d = c
    <3>0. 1 \in 1..1 /\ 1 \in 1..2 /\ 2 \notin 1..1
      OBVIOUS
    <3>1. CASE i = 1
      BY <1>1, <1>3, <2>1, <2>2, <3>0, <3>1 DEF Owner
    <3>2. CASE i = 2
      <4>1. ~Owner(c, i, l)
        <5>1. Len(stack[c]) = 1 /\ i \notin 1..1
          BY <1>1, <3>0, <3>2
        <5> QED
          BY <5>1 DEF Owner
      <4>2. ~Owner(d, i, l)'
        <5>1. stack'[d][i] = h
          BY <1>5, <2>2, <3>2
        <5> QED
          BY <1>3, <2>1, <5>1
      <4> QED
        BY <2>2, <4>1, <4>2
    <3> QED
      BY <3>1, <3>2
  <2>3. CASE d # c
    BY <1>5, <2>1, <2>3 DEF Owner
  <2> QED
    BY <2>2, <2>3
<1> QED
  BY <1>1, <1>6, <1>7, <1>8, <1>9 DEF IInv, OwnerInv, SameOwners

\* A handler ends: the main context below it goes on with the flag set.
LEMMA IretKeeps ==
  ASSUME IInv, NEW c \in Cores, Iret(c)
  PROVE  IInv' /\ SameOwners
<1>1. /\ stack \in [Cores -> Seq(Ctx)] /\ Len(stack[c]) = 2
      /\ \A d \in Cores : Len(stack[d]) \in 1..2
      /\ stack' = [stack EXCEPT ![c] = Front(stack[c])]
      /\ intr \in [Cores -> BOOLEAN] /\ intr' = [intr EXCEPT ![c] = TRUE]
      /\ UNCHANGED <<taken, was>>
  BY DEF Iret, IInv, TypeInv
<1>2. /\ Front(stack[c]) \in Seq(Ctx) /\ Len(Front(stack[c])) = 1
      /\ Front(stack[c])[1] = stack[c][1]
  <2>1. stack[c] \in Seq(Ctx) /\ stack[c] # << >>
    <3>1. stack[c] \in Seq(Ctx) /\ Len(stack[c]) # 0
      BY <1>1
    <3> QED
      BY <3>1, EmptyLen
  <2>2. /\ Front(stack[c]) \in Seq(Ctx) /\ Len(Front(stack[c])) = 2 - 1
        /\ \A k \in 1..2-1 : Front(stack[c])[k] = stack[c][k]
    BY <1>1, <2>1, FrontLast
  <2> QED
    BY <2>2
<1>3. /\ stack' \in [Cores -> Seq(Ctx)] /\ Len(stack'[c]) = 1
      /\ stack'[c][1] = stack[c][1]
      /\ \A d \in Cores : d # c => stack'[d] = stack[d] /\ intr'[d] = intr[d]
      /\ intr'[c]
  BY <1>1, <1>2
<1>4. CtxInv(stack[c][1], 1) /\ Flag(stack[c][1], 1) /\ WasOf(stack[c][1], was)
  BY <1>1 DEF IInv, StackInv, WasInv
<1>5. \A l : ~OwnsIn(stack[c][2], l)
  <2>1. stack[c][2] \in Ctx /\ stack[c][2].held = << >> /\ stack[c][2].pc = "run"
    <3>1. Top(c).pc = "run" /\ Top(c).held = << >>
      BY DEF Iret, At
    <3>2. Top(c) = stack[c][2] /\ Top(c) \in Ctx
      BY <1>1, TopInv
    <3> QED
      BY <3>1, <3>2
  <2> QED
    BY <2>1 DEF OwnsIn
<1>6. StackInv'
  <2>1. ASSUME NEW d \in Cores
        PROVE  /\ \A i \in 1..Len(stack'[d]) : CtxInv(stack'[d][i], i)
               /\ intr'[d] <=> Flag(stack'[d][Len(stack'[d])], Len(stack'[d]))
               /\ Len(stack'[d]) = 2 => Flag(stack'[d][1], 1)
    <3>1. CASE d = c
      BY <1>3, <1>4, <3>1, Depths
    <3>2. CASE d # c
      BY <1>3, <3>2 DEF IInv, StackInv
    <3> QED
      BY <3>1, <3>2
  <2> QED
    BY <2>1 DEF StackInv, CtxInv, HeldInv, PcInv, Known, Flag
<1>7. TypeInv'
  BY <1>1, <1>3 DEF TypeInv, IInv
<1>8. WasInv'
  <2>1. ASSUME NEW d \in Cores, NEW i \in 1..Len(stack'[d]) PROVE WasOf(stack'[d][i], was)
    <3>1. CASE d = c
      <4>1. i = 1
        BY <1>3, <2>1, <3>1, Depths
      <4> QED
        BY <1>3, <1>4, <3>1, <4>1
    <3>2. CASE d # c
      BY <1>3, <2>1, <3>2 DEF IInv, WasInv
    <3> QED
      BY <3>1, <3>2
  <2> QED
    BY <1>1, <2>1 DEF WasInv, WasOf
<1>9. SameOwners
  <2> SUFFICES ASSUME NEW d \in Cores, NEW i \in {1, 2}, NEW l \in RealLocks
               PROVE  Owner(d, i, l)' <=> Owner(d, i, l)
    BY DEF SameOwners
  <2>1. Owner(d, i, l)' <=> i \in 1..Len(stack'[d]) /\ OwnsIn(stack'[d][i], l)
    BY DEF Owner, OwnsIn
  <2>2. CASE d = c
    <3>0. 1 \in 1..1 /\ 1 \in 1..2 /\ 2 \notin 1..1
      OBVIOUS
    <3>1. CASE i = 1
      BY <1>1, <1>3, <2>1, <2>2, <3>0, <3>1 DEF Owner
    <3>2. CASE i = 2
      <4>1. ~Owner(c, i, l)
        BY <1>5, <3>2 DEF Owner
      <4>2. ~Owner(d, i, l)'
        BY <1>3, <2>1, <2>2, <3>0, <3>2
      <4> QED
        BY <2>2, <4>1, <4>2
    <3> QED
      BY <3>1, <3>2
  <2>3. CASE d # c
    BY <1>3, <2>1, <2>3 DEF Owner
  <2> QED
    BY <2>2, <2>3
<1> QED
  BY <1>1, <1>6, <1>7, <1>8, <1>9 DEF IInv, OwnerInv, SameOwners

\* Any step: the invariant holds after it, and at most one lock has changed hands.
LEMMA StepKeeps ==
  IInv /\ [Next]_vars =>
    /\ IInv'
    /\ \/ SameOwners
       \/ \E c \in Cores, l \in RealLocks : Gains(c, l) \/ Loses(c, l)
<1> SUFFICES ASSUME IInv, [Next]_vars
    PROVE  /\ IInv'
           /\ \/ SameOwners
              \/ \E c \in Cores, l \in RealLocks : Gains(c, l) \/ Loses(c, l)
  OBVIOUS
<1>1. CASE UNCHANGED vars
  <2>1. stack' = stack /\ intr' = intr /\ taken' = taken /\ was' = was
    BY <1>1 DEF vars
  <2>2. TypeInv' /\ WasInv'
    BY <2>1 DEF IInv, TypeInv, WasInv, WasOf
  <2>3. StackInv'
    BY <2>1 DEF IInv, StackInv
  <2>4. \A c \in Cores, i \in {1, 2}, l \in RealLocks : Owner(c, i, l)' <=> Owner(c, i, l)
    BY <2>1 DEF Owner, OwnsIn
  <2>5. OwnerInv'
    BY <2>1, <2>4 DEF IInv, OwnerInv
  <2> QED
    BY <2>2, <2>3, <2>4, <2>5 DEF IInv, SameOwners
<1>2. ASSUME NEW c \in Cores, Step(c)
      PROVE  IInv' /\ (SameOwners \/ \E l \in RealLocks : Gains(c, l) \/ Loses(c, l))
  BY <1>2, TestKeeps, CliKeeps, SpinKeeps, AcquireKeeps, KeepKeeps, RetryKeeps,
     FreeKeeps, RestoreKeeps DEF Step
<1> QED
  BY <1>1, <1>2, BeginKeeps, LeaveKeeps, InterruptKeeps, IretKeeps DEF Next
-----------------------------------------------------------------------------
(***************************************************************************)
(* The theorems.                                                           *)
(***************************************************************************)
\* IInv holds in every reachable state (atomic.h).
THEOREM LockInvariance == Spec => []IInv
<1>1. IInv /\ [Next]_vars => IInv'
  BY StepKeeps
<1> QED
  BY InitIInv, <1>1, PTL DEF Spec

\* What the source calls the holder of a lock.
OwnersHold ==
  \A c \in Cores, i \in {1, 2}, l \in RealLocks : Owns(<<c, i>>, l) <=> Owner(c, i, l)

\* Locks and the invariant speak of the same owners.
LEMMA OwnsIsOwner == IInv => OwnersHold
<1> SUFFICES ASSUME IInv, NEW c \in Cores, NEW i \in {1, 2}, NEW l \in RealLocks
             PROVE  Owns(<<c, i>>, l) <=> Owner(c, i, l)
  BY DEF OwnersHold
<1>1. CASE i \in 1..Len(stack[c])
  <2>1. stack[c] \in Seq(Ctx) /\ stack[c][i] \in Ctx /\ i \in DOMAIN stack[c]
    BY <1>1 DEF IInv, TypeInv
  <2>2. DOMAIN stack[c][i].held = 1..Len(stack[c][i].held)
    BY <2>1 DEF Ctx
  <2> QED
    BY <1>1, <2>1, <2>2 DEF Owns, Owner, OwnsIn, Context, Present, Holding
<1>2. CASE i \notin 1..Len(stack[c])
  <2>1. stack[c] \in Seq(Ctx) /\ i \notin DOMAIN stack[c]
    BY <1>2 DEF IInv, TypeInv
  <2> QED
    BY <1>2, <2>1 DEF Owns, Owner, Present
<1> QED
  BY <1>1, <1>2

\* A context that is outside of all sections has the flag it started with, and
\* sections nest no deeper than the ranks of their locks (atomic.h:227-231).
THEOREM FlagIsRestored == Spec => []FlagRestored
<1>1. IInv => LockTypeOK
  <2> SUFFICES ASSUME IInv PROVE LockTypeOK
    OBVIOUS
  <2>1. ASSUME NEW c \in Cores
        PROVE  /\ Len(stack[c]) \in 1..2
               /\ \A i \in DOMAIN stack[c] :
                    stack[c][i] \in Ctx /\ Len(stack[c][i].held) \in 0..stack[c][i].floor
    <3>1. /\ Len(stack[c]) \in 1..2 /\ stack[c] \in Seq(Ctx)
          /\ DOMAIN stack[c] = 1..Len(stack[c])
      BY DEF IInv, TypeInv
    <3>2. ASSUME NEW i \in 1..Len(stack[c])
          PROVE  stack[c][i] \in Ctx /\ Len(stack[c][i].held) \in 0..stack[c][i].floor
      <4>1. stack[c][i] \in Ctx /\ HeldInv(stack[c][i], i)
        BY <3>1, <3>2 DEF IInv, StackInv, CtxInv
      <4>2. Len(stack[c][i].held) \in Nat /\ stack[c][i].floor \in Nat
        BY <4>1 DEF Ctx
      <4> QED
        BY <4>1, <4>2 DEF HeldInv
    <3> QED
      BY <3>1, <3>2
  <2> QED
    BY <2>1 DEF LockTypeOK, IInv, TypeInv, Ctx, Pcs
<1>2. IInv => FlagRestored
  <2> SUFFICES ASSUME IInv, NEW c \in Cores, At(c, "run"), Top(c).held = << >>
               PROVE  intr[c] = (Len(stack[c]) = 1)
    BY <1>1 DEF FlagRestored
  <2>1. intr[c] <=> Len(stack[c]) = 1
    BY TopInv DEF At, Flag
  <2>2. intr[c] \in BOOLEAN
    BY DEF IInv, TypeInv
  <2> QED
    BY <2>1, <2>2
<1> QED
  BY LockInvariance, <1>2, PTL

\* A handler never runs on top of a main context that is inside a section: it
\* would wait for ever for the lock below it (atomic.h:214-225).
THEOREM HandlersFindNoLock == Spec => []NeverInterruptedInside
<1>1. IInv => NeverInterruptedInside
  <2> SUFFICES ASSUME IInv, NEW c \in Cores, NEW l \in RealLocks, Len(stack[c]) = 2
               PROVE  ~Owns(<<c, 1>>, l)
    BY DEF NeverInterruptedInside
  <2>1. Flag(stack[c][1], 1)
    BY DEF IInv, StackInv
  <2>2. ~Owner(c, 1, l)
    BY <2>1 DEF Owner, OwnsIn, Flag
  <2> QED
    BY <2>2, OwnsIsOwner DEF OwnersHold
<1> QED
  BY LockInvariance, <1>1, PTL

\* How deep a core can be.
LEMMA DepthOf == ASSUME TypeInv, NEW c \in Cores PROVE Len(stack[c]) \in {1, 2}
<1>1. Len(stack[c]) \in 1..2
  BY DEF TypeInv
<1> QED
  BY <1>1

\* No lock is held at the start.
LEMMA InitMutexes == Init => M!Init
<1> SUFFICES ASSUME Init, NEW l \in RealLocks, NEW x \in Contexts
             PROVE  ~Owns(x, l)
  BY DEF M!Init
<1>1. PICK c \in Cores, i \in {1, 2} : x = <<c, i>>
  BY DEF Contexts
<1>2. stack[c] = <<Fresh(0)>>
  BY DEF Init
<1>3. ~Owner(c, i, l)
  BY <1>2 DEF Fresh, Owner, OwnsIn
<1> QED
  BY <1>1, <1>3, InitIInv, OwnsIsOwner DEF OwnersHold

\* A lock changes hands as Mutexes allows.
LEMMA StepMutexes ==
  ASSUME TypeInv, OwnersHold, OwnersHold',
         SameOwners \/ \E c \in Cores, l \in RealLocks : Gains(c, l) \/ Loses(c, l),
         OwnerInv
  PROVE  [M!Next]_[l \in RealLocks |-> {x \in Contexts : Owns(x, l)}]
<1> DEFINE In(l) == {x \in Contexts : Owns(x, l)}
           H == [l \in RealLocks |-> In(l)]
<1>0. \A x \in Contexts : \E c \in Cores, i \in {1, 2} : x = <<c, i>>
  BY DEF Contexts
<1>1. \A c \in Cores, i \in {1, 2} : <<c, i>> \in Contexts
  BY DEF Contexts
<1>2. \A l \in RealLocks, c \in Cores, i \in {1, 2} :
        /\ <<c, i>> \in In(l) <=> Owner(c, i, l)
        /\ <<c, i>> \in In(l)' <=> Owner(c, i, l)'
  BY <1>1 DEF OwnersHold
<1>3. /\ H = [l \in RealLocks |-> In(l)] /\ H' = [l \in RealLocks |-> In(l)']
      /\ \A l \in RealLocks : In(l) \subseteq Contexts /\ In(l)' \subseteq Contexts
  BY DEF RealLocks
<1>4. CASE SameOwners
  <2>1. \A l \in RealLocks : In(l)' = In(l)
    <3> SUFFICES ASSUME NEW l \in RealLocks, NEW x \in Contexts
                 PROVE  x \in In(l)' <=> x \in In(l)
      BY <1>3
    <3>1. PICK c \in Cores, i \in {1, 2} : x = <<c, i>>
      BY <1>0
    <3>2. Owner(c, i, l)' <=> Owner(c, i, l)
      BY <1>4 DEF SameOwners
    <3> HIDE DEF In
    <3> QED
      BY <1>2, <3>1, <3>2
  <2> QED
    BY <1>3, <2>1
<1>5. ASSUME NEW c \in Cores, NEW l \in RealLocks, Gains(c, l)
      PROVE  M!Acquire(l)
  <2> DEFINE i == Len(stack[c])
  <2>1. i \in {1, 2} /\ <<c, i>> \in Contexts
    <3>1. i \in {1, 2}
      BY DepthOf
    <3> QED
      BY <1>1, <3>1
  <2>2. In(l) = {}
    <3> SUFFICES ASSUME NEW x \in Contexts PROVE x \notin In(l)
      BY <1>3
    <3>1. PICK d \in Cores, j \in {1, 2} : x = <<d, j>>
      BY <1>0
    <3>2. ~Owner(d, j, l)
      BY <1>5 DEF Gains
    <3> QED
      BY <1>2, <3>1, <3>2
  <2> HIDE DEF i
  <2>3. \A d \in Cores, j \in {1, 2}, r \in RealLocks :
          <<d, j>> \in In(r)' <=> <<d, j>> \in In(r) \/ (d = c /\ j = i /\ r = l)
    BY <1>2, <1>5 DEF Gains, i
  <2>4. In(l)' = {<<c, i>>}
    <3> SUFFICES ASSUME NEW x \in Contexts PROVE x \in In(l)' <=> x = <<c, i>>
      BY <1>3, <2>1
    <3>1. PICK d \in Cores, j \in {1, 2} : x = <<d, j>>
      BY <1>0
    <3> QED
      BY <2>2, <2>3, <3>1
  <2>5. ASSUME NEW r \in RealLocks, r # l PROVE In(r)' = In(r)
    <3> SUFFICES ASSUME NEW x \in Contexts PROVE x \in In(r)' <=> x \in In(r)
      BY <1>3
    <3>1. PICK d \in Cores, j \in {1, 2} : x = <<d, j>>
      BY <1>0
    <3> QED
      BY <2>3, <2>5, <3>1
  <2> HIDE DEF In
  <2>6. H' = [H EXCEPT ![l] = {<<c, i>>}] /\ H[l] = {}
    BY <1>3, <2>2, <2>4, <2>5
  <2> QED
    BY <2>1, <2>6 DEF M!Acquire, In
<1>6. ASSUME NEW c \in Cores, NEW l \in RealLocks, Loses(c, l)
      PROVE  M!Release(l)
  <2> DEFINE i == Len(stack[c])
  <2>1. i \in {1, 2}
    BY DepthOf
  <2>2. In(l) # {}
    <3>1. Owner(c, i, l)
      BY <1>6 DEF Loses
    <3> QED
      BY <1>2, <2>1, <3>1
  <2>3. \A d \in Cores, j \in {1, 2}, r \in RealLocks :
          <<d, j>> \in In(r)' <=> <<d, j>> \in In(r) /\ r # l
    BY <1>2, <1>6 DEF Loses
  <2>4. In(l)' = {}
    <3> SUFFICES ASSUME NEW x \in Contexts PROVE x \notin In(l)'
      BY <1>3
    <3>1. PICK d \in Cores, j \in {1, 2} : x = <<d, j>>
      BY <1>0
    <3> QED
      BY <2>3, <3>1
  <2>5. ASSUME NEW r \in RealLocks, r # l PROVE In(r)' = In(r)
    <3> SUFFICES ASSUME NEW x \in Contexts PROVE x \in In(r)' <=> x \in In(r)
      BY <1>3
    <3>1. PICK d \in Cores, j \in {1, 2} : x = <<d, j>>
      BY <1>0
    <3> QED
      BY <2>3, <2>5, <3>1
  <2> HIDE DEF In
  <2>6. H' = [H EXCEPT ![l] = {}] /\ H[l] # {}
    BY <1>3, <2>2, <2>4, <2>5
  <2> QED
    BY <2>6 DEF M!Release, In
<1> QED
  BY <1>4, <1>5, <1>6 DEF M!Next

\* Both kinds of lock exclude each other's holders, on all cores and in handlers
\* (atomic.h:200-232, 250-269).
THEOREM LocksAreMutexes == Spec => AreMutexes
<1>1. IInv /\ IInv' /\ [Next]_vars
        => [M!Next]_[l \in RealLocks |-> {x \in Contexts : Owns(x, l)}]
  <2> SUFFICES ASSUME IInv, IInv', [Next]_vars
               PROVE  [M!Next]_[l \in RealLocks |-> {x \in Contexts : Owns(x, l)}]
    OBVIOUS
  <2>1. OwnersHold /\ OwnersHold'
    BY OwnsIsOwner, PTL
  <2> QED
    BY <2>1, StepKeeps, StepMutexes DEF IInv
<1> QED
  BY InitMutexes, LockInvariance, <1>1, PTL DEF Spec, AreMutexes, M!Spec
=============================================================================
