-------------------------------- MODULE Heap --------------------------------
(***************************************************************************)
(* The kernel heap (heap.cc): an array of words cut into blocks. A block   *)
(* of n words has n in its first and last word when it is available, -n    *)
(* when it is taken; the second and third word of an available block link  *)
(* it into the list `avail'. Index 0 is the null of that list: block 0 is  *)
(* a taken block of two words, and so is the last one.                     *)
(*                                                                         *)
(* Callers of malloc and free hold the heap lock throughout (see           *)
(* UnitsAccounted in module Semaphores), so that each call is one step.    *)
(***************************************************************************)
EXTENDS Integers, Sequences, FiniteSets

CONSTANTS
  len,         \* words of the heap
  Requests,    \* bytes that callers ask for
  CountDown,   \* fitting blocks that malloc compares (20)
  Data         \* what a caller stores in every word of its block

ASSUME HeapAssumption ==
  /\ len \in Nat /\ len >= 8 /\ CountDown \in Nat /\ CountDown > 0
  /\ Requests \subseteq Nat \ {0} /\ Data \in Int

VARIABLES
  array, avail,
  live         \* history: the index of each block in use and its words

heapVars == <<array, avail, live>>

-----------------------------------------------------------------------------
(***************************************************************************)
(* The helpers, on a heap h = [a |-> array, av |-> avail].                 *)
(***************************************************************************)
size(h, i) == IF h.a[i] < 0 THEN -h.a[i] ELSE h.a[i]
left(h, i) == i - size(h, i - 1)
right(h, i) == i + size(h, i)
isAvail(h, i) == h.a[i] > 0

\* remove: out of the list.
remove(h, i) ==
  LET prev == h.a[i + 2]  next == h.a[i + 1]
      a1 == IF prev = 0 THEN h.a ELSE [h.a EXCEPT ![prev + 1] = next]
      a2 == IF next = 0 THEN a1 ELSE [a1 EXCEPT ![next + 2] = prev]
  IN  [a |-> a2, av |-> IF prev = 0 THEN next ELSE h.av]

\* makeAvail: tags, and first in the list.
makeAvail(h, i, n) ==
  LET a1 == [h.a EXCEPT ![i] = n, ![i + n - 1] = n, ![i + 1] = h.av, ![i + 2] = 0]
  IN  [a |-> IF h.av = 0 THEN a1 ELSE [a1 EXCEPT ![h.av + 2] = i], av |-> i]

makeTaken(h, i, n) == [h EXCEPT !.a = [@ EXCEPT ![i] = -n, ![i + n - 1] = -n]]

\* The list from its first block, as the loop of malloc follows it; it is no longer
\* than the smallest blocks allow.
Chain(h) ==
  LET Follow(i) == IF i = 0 THEN 0 ELSE h.a[i + 1]
      at[k \in 0..(len \div 4)] == IF k = 0 THEN h.av ELSE Follow(at[k - 1])
  IN  [k \in 1..Cardinality({k \in DOMAIN at : at[k] # 0}) |-> at[k - 1]]

heap == [a |-> array, av |-> avail]

\* heapInit.
Init ==
  LET h0 == [a |-> [i \in 0..(len - 1) |-> 0], av |-> 0]
      h == makeTaken(makeAvail(makeTaken(h0, 0, 2), 2, len - 4), len - 2, 2)
  IN  array = h.a /\ avail = h.av /\ live = {}

-----------------------------------------------------------------------------
\* Words of a block for so many bytes: the two tags, and room for the links.
Ints(bytes) ==
  LET n == (bytes + 3) \div 4 + 2 IN IF n < 4 THEN 4 ELSE n

\* Where in the list the first CountDown blocks are that are large enough, and the
\* first of the smallest of them.
Fits(h, ints) ==
  LET c == Chain(h)  Large(k) == size(h, c[k]) >= ints
  IN  {k \in DOMAIN c : Large(k) /\ Cardinality({j \in 1..(k - 1) : Large(j)}) < CountDown}

Best(h, ints) ==
  LET c == Chain(h)  fits == Fits(h, ints)
  IN  c[CHOOSE k \in fits : \A j \in fits :
           /\ size(h, c[k]) <= size(h, c[j])
           /\ size(h, c[k]) = size(h, c[j]) => k <= j]

\* Take `ints' words of the block: the rest becomes a block if it is large enough.
Take(h, it, ints) ==
  LET extra == size(h, it) - ints  out == remove(h, it)
  IN  IF extra >= 4 THEN makeAvail(makeTaken(out, it, ints), it + ints, extra)
      ELSE makeTaken(out, it, size(h, it))

\* malloc(bytes), and the caller writes on all it asked for. (Without a block
\* that fits it returns 0, and operator new panics: no step.)
Malloc(bytes) ==
  LET ints == Ints(bytes)  it == Best(heap, ints)  h == Take(heap, it, ints)
  IN  /\ Fits(heap, ints) # {}
      /\ array' = [i \in DOMAIN h.a |->
                     IF i \in (it + 1)..(it + (bytes + 3) \div 4) THEN Data
                     ELSE h.a[i]]
      /\ avail' = h.av
      /\ live' = live \cup {[at |-> it, words |-> size(h, it)]}

\* Variant with a bug: the block on the right is joined, but stays in the list.
FreeKeepsRight(i) ==
  LET l == left(heap, i)  r == right(heap, i)
      h == IF isAvail(heap, l) THEN remove(heap, l) ELSE heap
      at == IF isAvail(heap, l) THEN l ELSE i
      n == size(heap, i) + (IF isAvail(heap, l) THEN size(heap, l) ELSE 0)
                         + (IF isAvail(heap, r) THEN size(heap, r) ELSE 0)
      done == makeAvail(h, at, n)
  IN  /\ array' = done.a /\ avail' = done.av
      /\ live' = {b \in live : b.at # i}

\* free of the block at i: joined with the blocks on either side.
Free(i) ==
  LET l == left(heap, i)  r == right(heap, i)
      h1 == IF isAvail(heap, l) THEN remove(heap, l) ELSE heap
      h2 == IF isAvail(h1, r) THEN remove(h1, r) ELSE h1
      at == IF isAvail(heap, l) THEN l ELSE i
      n == size(heap, i) + (IF isAvail(heap, l) THEN size(heap, l) ELSE 0)
                         + (IF isAvail(heap, r) THEN size(heap, r) ELSE 0)
      h == makeAvail(h2, at, n)
  IN  /\ array' = h.a /\ avail' = h.av
      /\ live' = {b \in live : b.at # i}

HeapNext == (\E n \in Requests : Malloc(n)) \/ \E b \in live : Free(b.at)

HeapSpec == Init /\ [][HeapNext]_heapVars
-----------------------------------------------------------------------------
(***************************************************************************)
(* Properties.                                                             *)
(***************************************************************************)

\* Where the blocks start, going right from block 0.
Starts ==
  LET Follow(i) == IF i >= len \/ array[i] = 0 THEN len ELSE right(heap, i)
      at[k \in 0..(len \div 4 + 2)] == IF k = 0 THEN 0 ELSE Follow(at[k - 1])
  IN  {at[k] : k \in DOMAIN at} \ {len}

AvailBlocks == {i \in Starts : isAvail(heap, i)}
Taken == {i \in Starts : ~isAvail(heap, i)} \ {0, len - 2}

\* The blocks tile the array and have their size at both ends, so that neither
\* sanity() nor the search for a left neighbour ever reads a caller's data
\* (heap.cc:37-67).
Tiled ==
  \A i \in Starts : right(heap, i) <= len /\ array[right(heap, i) - 1] = array[i]

\* The list holds the available blocks, each once, linked both ways.
ListIsAvail ==
  LET c == Chain(heap)
  IN  /\ {c[k] : k \in DOMAIN c} = AvailBlocks /\ Len(c) = Cardinality(AvailBlocks)
      /\ \A k \in DOMAIN c : array[c[k] + 2] = IF k = 1 THEN 0 ELSE c[k - 1]

\* No caller's block is part of another, or is ever on offer: the blocks in use are
\* the taken ones, at the size they were handed out.
InUseIsTaken ==
  live = {[at |-> i, words |-> size(heap, i)] : i \in Taken}

\* Two blocks that are available never lie side by side: in any order of calls to
\* free, all memory that is not in use can be had in the largest pieces there are,
\* and when everything is freed the heap is one block again (heap.cc:205-223).
Coalesced ==
  /\ LET blocks == AvailBlocks IN \A i \in blocks : right(heap, i) \notin blocks
  /\ live = {} => AvailBlocks = {2} /\ size(heap, 2) = len - 4

\* The type of every variable.
HeapTypeOK ==
  /\ array \in [0..(len - 1) -> Int]
  /\ avail \in 0..(len - 1)
  /\ live \subseteq [at : 2..(len - 3), words : 4..len]

\* The heap is a heap after every sequence of malloc and free: its tags, its list
\* and what the callers have agree, and free memory is joined (heap.cc:126-223).
HeapConsistent == HeapTypeOK /\ Tiled /\ ListIsAvail /\ InUseIsTaken /\ Coalesced
=============================================================================
