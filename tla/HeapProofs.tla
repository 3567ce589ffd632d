----------------------------- MODULE HeapProofs -----------------------------
(***************************************************************************)
(* Proofs about Heap, for any number of words and any requests: the blocks *)
(* tile the array, the list holds the available ones, and no two of those  *)
(* are neighbours, after every sequence of malloc and free.                *)
(***************************************************************************)
EXTENDS Heap, FiniteSetTheorems, WellFoundedInduction, TLAPS

-----------------------------------------------------------------------------
(***************************************************************************)
(* The inductive invariant: there are a set S of blocks that tiles the     *)
(* array and an order c in which the list goes through the available ones. *)
(***************************************************************************)
Words == 0..(len - 1)
Ends == {0, len - 2}
Width(a, i) == IF a[i] < 0 THEN -a[i] ELSE a[i]

\* The blocks of S follow each other without a gap from the first word to the last,
\* the tags of each are the same, and only the two ends are smaller than 4.
Block(a, S, i) ==
  /\ a[i] \in Int /\ (i \in Ends => a[i] = -2) /\ (i \notin Ends => Width(a, i) >= 4)
  /\ i + Width(a, i) \in S \cup {len} /\ a[i + Width(a, i) - 1] = a[i]
After(a, S, i) == \E j \in S : j + Width(a, j) = i
Ordered(a, S) == \A i, j \in S : i < j => i + Width(a, i) <= j
Tiling(a, S) ==
  /\ a \in [Words -> Int] /\ S \subseteq 0..(len - 2) /\ Ends \subseteq S
  /\ \A i \in S : Block(a, S, i)
  /\ \A i \in S \ {0} : After(a, S, i)
  /\ Ordered(a, S)

AvailIn(a, S) == {i \in S : a[i] > 0}
InUse(a, S) == {i \in S : a[i] < 0} \ Ends

\* c is the list from av through the n blocks of A, linked both ways.
Next(n, c, k) == IF k < n THEN c[k + 1] ELSE 0
Prev(c, k) == IF k > 1 THEN c[k - 1] ELSE 0
Order(A, n, c) ==
  /\ n \in Nat /\ c \in [1..n -> A]
  /\ \A i \in A : \E k \in 1..n : c[k] = i
  /\ \A j, k \in 1..n : c[j] = c[k] => j = k
Links(a, n, c, k) == a[c[k] + 1] = Next(n, c, k) /\ a[c[k] + 2] = Prev(c, k)
Linked(a, av, A, n, c) ==
  /\ Order(A, n, c)
  /\ av = IF n = 0 THEN 0 ELSE c[1]
  /\ \A k \in 1..n : Links(a, n, c, k)
List(a, av, A) == \E n, c : Linked(a, av, A, n, c)

\* What the callers have, and that the free blocks are joined.
Held(a, S) == {[at |-> i, words |-> -a[i]] : i \in InUse(a, S)}
Joined(a, S) == \A i \in AvailIn(a, S) : i + a[i] \notin AvailIn(a, S)

Good(a, av, lv, S) ==
  Tiling(a, S) /\ List(a, av, AvailIn(a, S)) /\ lv = Held(a, S) /\ Joined(a, S)
HeapInv == \E S \in SUBSET Words : Good(array, avail, live, S)

-----------------------------------------------------------------------------
(***************************************************************************)
(* Blocks that tile the array.                                             *)
(***************************************************************************)
\* Where a block is, and what is at its ends.
LEMMA BlockIs ==
  ASSUME NEW a, NEW S, Tiling(a, S), NEW i \in S
  PROVE  /\ i \in Words /\ i \in Int /\ i <= len - 2 /\ a[i] \in Int
         /\ Width(a, i) \in Int /\ Width(a, i) >= 2 /\ i + Width(a, i) <= len
         /\ i + Width(a, i) - 1 \in Words /\ a[i + Width(a, i) - 1] = a[i]
         /\ i # 0 => i >= 2
<1>1. i \in 0..(len - 2) /\ Block(a, S, i) /\ 0 \in S /\ Block(a, S, 0) /\ len \in Int
  BY HeapAssumption DEF Tiling, Ends
<1>2. Width(a, i) \in Int /\ Width(a, i) >= 2
  BY <1>1 DEF Block, Width
<1>3. Width(a, 0) = 2
  BY <1>1 DEF Block, Width, Ends
<1>4. i + Width(a, i) <= len
  <2>1. S \subseteq 0..(len - 2) /\ i + Width(a, i) \in S \cup {len}
    BY <1>1 DEF Block, Tiling
  <2>2. i + Width(a, i) \in 0..(len - 2) \/ i + Width(a, i) = len
    BY <2>1
  <2> QED
    BY <2>2, <1>1
<1>5. i # 0 => i >= 2
  <2>1. 0 < i => 0 + Width(a, 0) <= i
    BY <1>1 DEF Tiling, Ordered
  <2> QED
    BY <2>1, <1>1, <1>3
<1> QED
  BY <1>1, <1>2, <1>4, <1>5 DEF Block, Words

\* Where a block is that is not at an end.
LEMMA InnerIs ==
  ASSUME NEW a, NEW S, Tiling(a, S), NEW i \in S, i \notin Ends
  PROVE  /\ i \in Int /\ i >= 2 /\ Width(a, i) >= 4 /\ a[i] # 0
         /\ i + Width(a, i) \in S /\ i + Width(a, i) <= len - 2 /\ i <= len - 6
         /\ i + Width(a, i) # 0 /\ Width(a, i) \in Int
<1>1. Block(a, S, i) /\ len - 2 \in S
  BY DEF Tiling, Ends
<1>2. i \in Int /\ i >= 2 /\ i <= len - 2 /\ len \in Int /\ i # len - 2
  BY BlockIs, HeapAssumption DEF Ends
<1>3. Width(a, i) >= 4 /\ a[i] # 0 /\ Width(a, i) \in Int
  BY <1>1 DEF Block, Width
<1>4. i + Width(a, i) <= len - 2
  <2>1. i < len - 2 => i + Width(a, i) <= len - 2
    BY <1>1 DEF Tiling, Ordered
  <2> QED
    BY <2>1, <1>2
<1>5. i + Width(a, i) \in S
  BY <1>1, <1>2, <1>3, <1>4 DEF Block
<1> QED
  BY <1>2, <1>3, <1>4, <1>5

\* No block starts inside another.
LEMMA Inside ==
  ASSUME NEW a, NEW S, Tiling(a, S), NEW i \in S, NEW j \in S, i <= j, j < i + Width(a, i)
  PROVE  j = i
<1>1. i \in Int /\ j \in Int /\ Width(a, i) \in Int
  BY BlockIs
<1>2. i < j => i + Width(a, i) <= j
  BY DEF Tiling, Ordered
<1> QED
  BY <1>1, <1>2

\* Only one block ends where another starts.
LEMMA OneBefore ==
  ASSUME NEW a, NEW S, Tiling(a, S), NEW i \in S, NEW j \in S,
         i + Width(a, i) = j + Width(a, j)
  PROVE  i = j
<1>1. i \in Int /\ j \in Int /\ Width(a, i) \in Int /\ Width(a, j) \in Int
      /\ Width(a, i) >= 2 /\ Width(a, j) >= 2
  BY BlockIs
<1>2. (i < j => i + Width(a, i) <= j) /\ (j < i => j + Width(a, j) <= i)
  BY DEF Tiling, Ordered
<1> QED
  BY <1>1, <1>2

\* a and b differ in words lo to hi - 1, and in the links of the blocks of A.
Free2(A, j) == \A p \in A : j # p + 1 /\ j # p + 2
Changed(a, b, A, lo, hi) ==
  b \in [Words -> Int] /\ \A j \in Words : j \notin lo..(hi - 1) /\ Free2(A, j) => b[j] = a[j]

\* The tags of a block are no links.
LEMMA TagsNotLinks ==
  ASSUME NEW a, NEW S, Tiling(a, S), NEW A \in SUBSET (S \ Ends), NEW i \in S
  PROVE  Free2(A, i) /\ Free2(A, i + Width(a, i) - 1)
<1> SUFFICES ASSUME NEW p \in A
             PROVE  /\ i # p + 1 /\ i # p + 2
                    /\ i + Width(a, i) - 1 # p + 1 /\ i + Width(a, i) - 1 # p + 2
  BY DEF Free2
<1>1. p \in S /\ p \in Int /\ Width(a, p) \in Int /\ Width(a, p) >= 4
  BY InnerIs
<1>2. i \in Int /\ Width(a, i) \in Int /\ Width(a, i) >= 2
  BY BlockIs
<1>3. (i < p => i + Width(a, i) <= p) /\ (p < i => p + Width(a, p) <= i)
  BY <1>1 DEF Tiling, Ordered
<1> QED
  BY <1>1, <1>2, <1>3

\* Blocks outside of what changes keep their tags.
LEMMA SameTags ==
  ASSUME NEW a, NEW S, Tiling(a, S), NEW A \in SUBSET (S \ Ends), NEW b, NEW lo \in S, NEW hi \in S,
         Changed(a, b, A, lo, hi), NEW i \in S, i \notin lo..(hi - 1)
  PROVE  /\ b[i] = a[i] /\ Width(b, i) = Width(a, i)
         /\ b[i + Width(a, i) - 1] = a[i + Width(a, i) - 1]
<1>1. i \in Int /\ Width(a, i) \in Int /\ i + Width(a, i) - 1 \in Words /\ i \in Words
      /\ Width(a, i) >= 2
  BY BlockIs
<1>2. lo \in Int /\ hi \in Int
  BY BlockIs
<1>3. i + Width(a, i) - 1 \notin lo..(hi - 1)
  <2>1. i < lo => i + Width(a, i) <= lo
    BY DEF Tiling, Ordered
  <2> QED
    BY <2>1, <1>1, <1>2
<1>4. Free2(A, i) /\ Free2(A, i + Width(a, i) - 1)
  BY TagsNotLinks
<1>5. b[i] = a[i] /\ b[i + Width(a, i) - 1] = a[i + Width(a, i) - 1]
  BY <1>1, <1>3, <1>4 DEF Changed
<1> QED
  BY <1>5 DEF Width

\* The blocks of T fill words lo to hi - 1.
Piece(b, T, lo, hi) ==
  /\ T \subseteq lo..(hi - 1) /\ lo \in T
  /\ \A i \in T : /\ b[i] \in Int /\ Width(b, i) >= 4 /\ i + Width(b, i) \in T \cup {hi}
                  /\ b[i + Width(b, i) - 1] = b[i]
  /\ \A i \in T \ {lo} : After(b, T, i)
  /\ After(b, T, hi) /\ Ordered(b, T)
Rest(S, lo, hi) == {i \in S : i \notin lo..(hi - 1)}

\* Words lo to hi - 1 become the blocks of T.
LEMMA Retile ==
  ASSUME NEW a, NEW S, Tiling(a, S), NEW A \in SUBSET (S \ Ends), NEW b,
         NEW lo \in S, NEW hi \in S, lo # 0, lo < hi, Changed(a, b, A, lo, hi),
         NEW T, Piece(b, T, lo, hi)
  PROVE  Tiling(b, Rest(S, lo, hi) \cup T)
<1> DEFINE R == Rest(S, lo, hi)
           N == R \cup T
<1>1. lo \in Int /\ hi \in Int /\ lo >= 2 /\ hi <= len - 2 /\ len \in Int
  BY BlockIs, HeapAssumption
<1>2. b \in [Words -> Int] /\ R \subseteq S /\ T \subseteq lo..(hi - 1) /\ lo \in T
  BY DEF Changed, Piece, Rest
<1>3. N \subseteq 0..(len - 2)
  <2>1. T \subseteq 0..(len - 2)
    BY <1>1, <1>2
  <2> QED
    BY <1>2, <2>1 DEF Tiling
<1>4. Ends \subseteq R /\ \A i \in T : i \notin Ends
  <2>1. Ends \subseteq S
    BY DEF Tiling
  <2> QED
    BY <1>1, <1>2, <2>1 DEF Rest, Ends
<1>5. \A i \in R : b[i] = a[i] /\ Width(b, i) = Width(a, i)
                   /\ b[i + Width(a, i) - 1] = a[i + Width(a, i) - 1]
  BY SameTags DEF Rest
<1>6. hi \in R
  BY <1>1 DEF Rest
<1>7. \A i \in R : i + Width(a, i) \in N \cup {len} /\ (i < lo => i + Width(a, i) <= lo)
                   /\ i \in Int /\ Width(a, i) \in Int /\ (i < lo \/ i >= hi)
  <2> SUFFICES ASSUME NEW i \in R
               PROVE  /\ i + Width(a, i) \in N \cup {len} /\ (i < lo => i + Width(a, i) <= lo)
                      /\ i \in Int /\ Width(a, i) \in Int /\ (i < lo \/ i >= hi)
    OBVIOUS
  <2>1. i \in S /\ i \in Int /\ Width(a, i) \in Int /\ Width(a, i) >= 2 /\ (i < lo \/ i >= hi)
    BY <1>1, <1>2, BlockIs DEF Rest
  <2>2. i < lo => i + Width(a, i) <= lo
    BY <2>1 DEF Tiling, Ordered
  <2>3. i + Width(a, i) \in S \cup {len}
    BY <2>1 DEF Tiling, Block
  <2>4. CASE i + Width(a, i) \in lo..(hi - 1)
    <3>1. i + Width(a, i) = lo
      BY <1>1, <2>1, <2>2, <2>4
    <3> QED
      BY <3>1, <1>2, <2>1, <2>2
  <2>5. CASE i + Width(a, i) \notin lo..(hi - 1)
    BY <2>1, <2>2, <2>3, <2>5 DEF Rest
  <2> QED
    BY <2>4, <2>5
<1>8. ASSUME NEW i \in N PROVE Block(b, N, i)
  <2>1. CASE i \in R
    <3>1. Block(a, S, i)
      BY <2>1, <1>2 DEF Tiling
    <3>2. b[i] = a[i] /\ Width(b, i) = Width(a, i)
          /\ b[i + Width(a, i) - 1] = a[i + Width(a, i) - 1]
      BY <2>1, <1>5
    <3>3. i + Width(a, i) \in N \cup {len}
      BY <2>1, <1>7
    <3> HIDE DEF R, N
    <3> QED
      BY <3>1, <3>2, <3>3 DEF Block
  <2>2. CASE i \in T
    <3>1. b[i] \in Int /\ Width(b, i) >= 4 /\ i + Width(b, i) \in T \cup {hi}
          /\ b[i + Width(b, i) - 1] = b[i]
      BY <2>2 DEF Piece
    <3>2. i \notin Ends
      BY <2>2, <1>4
    <3> QED
      BY <3>1, <3>2, <1>6 DEF Block
  <2> QED
    BY <2>1, <2>2
<1>9. ASSUME NEW i \in N \ {0} PROVE After(b, N, i)
  <2>1. CASE i \in T \ {lo} \/ i = hi
    <3>1. After(b, T, i)
      BY <2>1 DEF Piece
    <3> QED
      BY <3>1 DEF After
  <2>2. CASE i \in R \cup {lo} /\ i # hi
    <3>1. i \in S /\ i # 0
      BY <2>2, <1>2
    <3>2. PICK j \in S : j + Width(a, j) = i
      BY <3>1 DEF Tiling, After
    <3>3. j \in Int /\ Width(a, j) \in Int /\ Width(a, j) >= 2
      BY BlockIs
    <3>4. j < hi => j + Width(a, j) <= hi
      BY DEF Tiling, Ordered
    <3>5. j \notin lo..(hi - 1)
      <4>1. CASE i = lo
        BY <4>1, <3>2, <3>3, <1>1
      <4>2. CASE i \in R
        <5>1. i < lo \/ i >= hi
          BY <4>2, <1>7
        <5>2. i \in Int
          BY <4>2, <1>7
        <5> HIDE DEF R, N
        <5> QED
          BY <5>1, <5>2, <2>2, <3>2, <3>3, <3>4, <1>1
      <4> QED
        BY <4>1, <4>2, <2>2
    <3>6. j \in R
      BY <3>5 DEF Rest
    <3>7. Width(b, j) = Width(a, j)
      BY <3>6, <1>5
    <3> QED
      BY <3>2, <3>6, <3>7 DEF After
  <2> QED
    BY <2>1, <2>2
<1>10. Ordered(b, N)
  <2> SUFFICES ASSUME NEW i \in N, NEW j \in N, i < j PROVE i + Width(b, i) <= j
    BY DEF Ordered
  <2>1. CASE i \in R /\ j \in R
    <3>1. i + Width(a, i) <= j
      BY <2>1, <1>2 DEF Tiling, Ordered
    <3> QED
      BY <3>1, <2>1, <1>5
  <2>2. CASE i \in T /\ j \in T
    BY <2>2 DEF Piece, Ordered
  <2>3. CASE i \in R /\ j \in T
    <3>1. i < lo /\ i + Width(a, i) <= lo /\ j >= lo /\ j \in Int /\ Width(b, i) = Width(a, i)
          /\ i \in Int /\ Width(a, i) \in Int
      <4>1. i \in Int /\ (i < lo \/ i >= hi) /\ (i < lo => i + Width(a, i) <= lo) /\ Width(a, i) \in Int
            /\ Width(b, i) = Width(a, i)
        BY <2>3, <1>7, <1>5
      <4>2. j \in lo..(hi - 1)
        BY <2>3, <1>2
      <4> HIDE DEF R, N
      <4> QED
        BY <4>1, <4>2, <1>1
    <3> QED
      BY <3>1, <1>1
  <2>4. CASE i \in T /\ j \in R
    <3>1. j >= hi /\ j \in Int
      <4>1. j \in Int /\ (j < lo \/ j >= hi)
        BY <2>4, <1>7
      <4>2. i \in lo..(hi - 1)
        BY <2>4, <1>2
      <4> HIDE DEF R, N
      <4> QED
        BY <4>1, <4>2, <1>1
    <3>2. i + Width(b, i) \in T \cup {hi}
      BY <2>4 DEF Piece
    <3>3. i + Width(b, i) \in lo..(hi - 1) \/ i + Width(b, i) = hi
      BY <3>2, <1>2
    <3> QED
      BY <3>1, <3>3, <1>1
  <2> QED
    BY <2>1, <2>2, <2>3, <2>4
<1> QED
  <2>1. Ends \subseteq N
    BY <1>4
  <2> HIDE DEF R, N
  <2>2. Tiling(b, N)
    BY <1>2, <1>3, <1>8, <1>9, <1>10, <2>1 DEF Tiling
  <2> QED
    BY <2>2 DEF N, R

\* The blocks of a new piece that are available, or in use, and the others.
LEMMA RetiledSets ==
  ASSUME NEW a, NEW S, Tiling(a, S), NEW A \in SUBSET (S \ Ends), NEW b,
         NEW lo \in S, NEW hi \in S, lo # 0, lo < hi, Changed(a, b, A, lo, hi),
         NEW T, Piece(b, T, lo, hi)
  PROVE  /\ AvailIn(b, Rest(S, lo, hi) \cup T)
              = Rest(AvailIn(a, S), lo, hi) \cup {i \in T : b[i] > 0}
         /\ InUse(b, Rest(S, lo, hi) \cup T)
              = Rest(InUse(a, S), lo, hi) \cup {i \in T : b[i] < 0}
         /\ \A i \in Rest(S, lo, hi) : b[i] = a[i]
<1>1. \A i \in Rest(S, lo, hi) : b[i] = a[i]
  BY SameTags DEF Rest
<1>2. lo \in Int /\ hi \in Int /\ lo >= 2 /\ hi <= len - 2 /\ len \in Int
  BY BlockIs, HeapAssumption
<1>3. \A i \in T : i \notin Ends
  BY <1>2 DEF Piece, Ends
<1> QED
  BY <1>1, <1>3 DEF AvailIn, InUse, Rest

-----------------------------------------------------------------------------
(***************************************************************************)
(* The list.                                                               *)
(***************************************************************************)
Apart(A) == (\A i \in A : i \in 2..(len - 6)) /\ \A i, j \in A : i < j => i + 4 <= j

\* Blocks that are available are far enough from each other for their links.
LEMMA AvailApart ==
  ASSUME NEW a, NEW S, Tiling(a, S)
  PROVE  AvailIn(a, S) \subseteq S \ Ends /\ Apart(AvailIn(a, S))
<1>1. ASSUME NEW i \in AvailIn(a, S) PROVE i \in S \ Ends
  <2>1. i \in S /\ Block(a, S, i) /\ a[i] > 0
    BY DEF AvailIn, Tiling
  <2> QED
    BY <2>1 DEF Block
<1>2. ASSUME NEW i \in AvailIn(a, S)
      PROVE  i \in 2..(len - 6) /\ i \in Int /\ Width(a, i) \in Int /\ Width(a, i) >= 4
  BY <1>1, InnerIs, HeapAssumption
<1>3. ASSUME NEW i \in AvailIn(a, S), NEW j \in AvailIn(a, S), i < j PROVE i + 4 <= j
  <2>1. i + Width(a, i) <= j
    BY <1>3, <1>1 DEF Tiling, Ordered
  <2> QED
    BY <2>1, <1>2
<1> QED
  BY <1>1, <1>2, <1>3 DEF Apart

\* What does not touch the links leaves the list as it is.
LEMMA ListFrame ==
  ASSUME NEW a, NEW b, NEW av, NEW A, NEW n, NEW c, Linked(a, av, A, n, c),
         \A p \in A : b[p + 1] = a[p + 1] /\ b[p + 2] = a[p + 2]
  PROVE  Linked(b, av, A, n, c)
<1>1. \A k \in 1..n : c[k] \in A
  BY DEF Linked, Order
<1> QED
  BY <1>1 DEF Linked, Links

\* The places in the list, and the neighbours there.
LEMMA Neighbours ==
  ASSUME NEW a, NEW av, NEW A, NEW n, NEW c, Linked(a, av, A, n, c), Apart(A), NEW k \in 1..n
  PROVE  /\ n \in Nat /\ k \in Int /\ c[k] \in A /\ c[k] \in 2..(len - 6) /\ c[k] \in Int
         /\ a[c[k] + 1] = Next(n, c, k) /\ a[c[k] + 2] = Prev(c, k)
         /\ Next(n, c, k) = 0 <=> k = n
         /\ Prev(c, k) = 0 <=> k = 1
         /\ k < n => k + 1 \in 1..n /\ c[k + 1] \in A /\ Next(n, c, k) = c[k + 1]
         /\ k > 1 => k - 1 \in 1..n /\ c[k - 1] \in A /\ Prev(c, k) = c[k - 1]
<1>1. n \in Nat /\ \A m \in 1..n : c[m] \in A
  BY DEF Linked, Order
<1>2. \A i \in A : i \in 2..(len - 6) /\ i # 0 /\ i \in Int
  BY HeapAssumption DEF Apart
<1>3. a[c[k] + 1] = Next(n, c, k) /\ a[c[k] + 2] = Prev(c, k)
  BY DEF Linked, Links
<1> QED
  BY <1>1, <1>2, <1>3 DEF Next, Prev

\* The words of links are all different.
LEMMA LinkWords ==
  ASSUME NEW A, Apart(A), NEW p \in A, NEW q \in A
  PROVE  /\ p \in Int /\ q \in Int /\ p + 1 # q + 2 /\ p + 2 # q + 1
         /\ p + 1 = q + 1 => p = q
         /\ p + 1 \in Words /\ p + 2 \in Words
<1>1. p \in 2..(len - 6) /\ q \in 2..(len - 6) /\ len \in Int
  BY HeapAssumption DEF Apart
<1>2. (p < q => p + 4 <= q) /\ (q < p => q + 4 <= p)
  BY DEF Apart
<1> QED
  BY <1>1, <1>2 DEF Words

\* The list without its k-th block.
Without(n, c, k) == [m \in 1..(n - 1) |-> IF m < k THEN c[m] ELSE c[m + 1]]

IsRemoved(a, av, A, n, c, k, r) ==
  /\ r.a \in [Words -> Int] /\ r = [a |-> r.a, av |-> r.av]
  /\ r.av = IF k = 1 THEN Next(n, c, k) ELSE av
  /\ \A p \in A : /\ r.a[p + 1] = IF k > 1 /\ p = c[k - 1] THEN Next(n, c, k) ELSE a[p + 1]
                  /\ r.a[p + 2] = IF k < n /\ p = c[k + 1] THEN Prev(c, k) ELSE a[p + 2]
  /\ Changed(a, r.a, A \ {c[k]}, 0, 0)
\* remove writes the links of the two neighbours, or avail (heap.cc:110-124).
LEMMA RemoveIs ==
  ASSUME NEW a \in [Words -> Int], NEW av, NEW A, NEW n, NEW c, Linked(a, av, A, n, c), Apart(A),
         NEW k \in 1..n, NEW r, r = remove([a |-> a, av |-> av], c[k])
  PROVE  IsRemoved(a, av, A, n, c, k, r)
<1> DEFINE i == c[k]
           prev == Prev(c, k)
           next == Next(n, c, k)
           a1 == IF k = 1 THEN a ELSE [a EXCEPT ![prev + 1] = next]
           a2 == IF k = n THEN a1 ELSE [a1 EXCEPT ![next + 2] = prev]
<1>1. /\ n \in Nat /\ k \in Int /\ i \in A /\ i \in Int
      /\ a[i + 1] = next /\ a[i + 2] = prev
      /\ (next = 0 <=> k = n) /\ (prev = 0 <=> k = 1)
      /\ (k < n => c[k + 1] \in A /\ next = c[k + 1] /\ k + 1 \in 1..n)
      /\ (k > 1 => c[k - 1] \in A /\ prev = c[k - 1] /\ k - 1 \in 1..n)
  BY Neighbours
<1>2. r = [a |-> a2, av |-> IF k = 1 THEN next ELSE av]
  <2> HIDE DEF prev, next
  <2> QED
    BY <1>1 DEF remove
<1>3. prev \in Int /\ next \in Int
  BY <1>1, LinkWords DEF Prev, Next
<1>4. k # 1 => prev \in A \ {i} /\ prev + 1 \in Words
  <2>1. k # 1 => k > 1
    BY <1>1
  <2>2. k > 1 => c[k - 1] # c[k]
    BY <1>1 DEF Linked, Order
  <2> QED
    BY <1>1, <2>1, <2>2, LinkWords
<1>5. k # n => next \in A \ {i} /\ next + 2 \in Words
  <2>1. k # n => k < n
    BY <1>1
  <2>2. k < n => c[k + 1] # c[k]
    BY <1>1 DEF Linked, Order
  <2> QED
    BY <1>1, <2>1, <2>2, LinkWords
<1>6. a1 \in [Words -> Int] /\ a2 \in [Words -> Int]
  <2> HIDE DEF prev, next
  <2> QED
    BY <1>3
<1>7. ASSUME NEW j \in Words, (k = 1 \/ j # prev + 1), (k = n \/ j # next + 2) PROVE a2[j] = a[j]
  <2> HIDE DEF prev, next
  <2> QED
    BY <1>7, <1>6
<1>8. ASSUME NEW p \in A
      PROVE  /\ a2[p + 1] = IF k # 1 /\ p = prev THEN next ELSE a[p + 1]
             /\ a2[p + 2] = IF k # n /\ p = next THEN prev ELSE a[p + 2]
  <2>1. p + 1 \in Words /\ p + 2 \in Words /\ p \in Int
    BY LinkWords
  <2>2. (k # 1 => p + 2 # prev + 1 /\ (p + 1 = prev + 1 => p = prev))
    BY <1>4, LinkWords
  <2>3. (k # n => p + 1 # next + 2)
    BY <1>5, LinkWords
  <2>4. p + 2 = next + 2 => p = next
    <3> HIDE DEF next
    <3> QED
      BY <2>1, <1>3
  <2> HIDE DEF prev, next
  <2>5. a2[p + 1] = IF k # 1 /\ p = prev THEN next ELSE a[p + 1]
    BY <2>1, <2>2, <2>3, <1>6, <1>4
  <2>6. a2[p + 2] = IF k # n /\ p = next THEN prev ELSE a[p + 2]
    BY <2>1, <2>2, <2>4, <1>6, <1>5
  <2> QED
    BY <2>5, <2>6
<1>9. Changed(a, a2, A \ {i}, 0, 0)
  <2> SUFFICES ASSUME NEW j \in Words, Free2(A \ {i}, j) PROVE a2[j] = a[j]
    BY <1>6 DEF Changed
  <2>1. (k # 1 => j # prev + 1) /\ (k # n => j # next + 2)
    BY <1>4, <1>5 DEF Free2
  <2> HIDE DEF prev, next, a2
  <2> QED
    BY <2>1, <1>7
<1>10. (k # 1 <=> k > 1) /\ (k # n <=> k < n)
  BY <1>1
<1>11. /\ \A p \in A : (k # 1 /\ p = prev) <=> (k > 1 /\ p = c[k - 1])
       /\ \A p \in A : (k # n /\ p = next) <=> (k < n /\ p = c[k + 1])
  BY <1>1, <1>10
<1> HIDE DEF a2, prev, next
<1>12. r.a = a2 /\ r.av = IF k = 1 THEN next ELSE av
  BY <1>2
<1> QED
  BY <1>12, <1>2, <1>6, <1>8, <1>9, <1>11 DEF prev, next, IsRemoved

\* What is left is an order of the other blocks.
LEMMA WithoutOrder ==
  ASSUME NEW A, NEW n, NEW c, Order(A, n, c), NEW k \in 1..n
  PROVE  Order(A \ {c[k]}, n - 1, Without(n, c, k))
<1> DEFINE d == Without(n, c, k)
           B == A \ {c[k]}
<1>1. n \in Nat /\ k \in Int /\ n - 1 \in Nat /\ c \in [1..n -> A]
      /\ \A j, m \in 1..n : c[j] = c[m] => j = m
  BY DEF Order
<1>2. ASSUME NEW m \in 1..(n - 1)
      PROVE  /\ m < k => d[m] = c[m] /\ m \in 1..n /\ m # k
             /\ ~(m < k) => d[m] = c[m + 1] /\ m + 1 \in 1..n /\ m + 1 # k
  BY <1>1 DEF Without
<1>3. d \in [1..(n - 1) -> B]
  <2>1. \A m \in 1..(n - 1) : d[m] \in B
    BY <1>1, <1>2
  <2>2. d = [m \in 1..(n - 1) |-> d[m]]
    BY DEF Without
  <2> HIDE DEF d, B
  <2> QED
    BY <2>1, <2>2
<1>4. ASSUME NEW i \in B PROVE \E m \in 1..(n - 1) : d[m] = i
  <2>1. PICK j \in 1..n : c[j] = i
    BY DEF Order
  <2>2. j # k /\ j \in Int
    BY <2>1, <1>1
  <2>3. CASE j < k
    <3>1. j \in 1..(n - 1)
      BY <2>3, <2>2, <1>1
    <3> QED
      BY <3>1, <2>1, <2>3, <1>2
  <2>4. CASE j > k
    <3>1. j - 1 \in 1..(n - 1) /\ ~(j - 1 < k) /\ (j - 1) + 1 = j
      BY <2>4, <2>2, <1>1
    <3> QED
      BY <3>1, <2>1, <1>2
  <2> QED
    BY <2>2, <2>3, <2>4, <1>1
<1>5. ASSUME NEW j \in 1..(n - 1), NEW m \in 1..(n - 1), d[j] = d[m] PROVE j = m
  <2>1. j \in Int /\ m \in Int
    OBVIOUS
  <2> HIDE DEF d
  <2>2. CASE j < k /\ m < k
    BY <2>2, <1>5, <1>1, <1>2
  <2>3. CASE ~(j < k) /\ ~(m < k)
    <3>1. j + 1 = m + 1
      BY <2>3, <1>5, <1>1, <1>2
    <3> QED
      BY <3>1, <2>1
  <2>4. CASE j < k /\ ~(m < k)
    <3>1. j = m + 1
      BY <2>4, <1>5, <1>1, <1>2
    <3> QED
      BY <3>1, <2>1, <2>4, <1>1
  <2>5. CASE ~(j < k) /\ m < k
    <3>1. j + 1 = m
      BY <2>5, <1>5, <1>1, <1>2
    <3> QED
      BY <3>1, <2>1, <2>5, <1>1
  <2> QED
    BY <2>2, <2>3, <2>4, <2>5
<1> HIDE DEF d, B
<1>6. Order(B, n - 1, d)
  BY <1>1, <1>3, <1>4, <1>5 DEF Order
<1> QED
  BY <1>6 DEF B, d

\* remove takes the block out of the list.
LEMMA RemoveLinked ==
  ASSUME NEW a \in [Words -> Int], NEW av, NEW A, NEW n, NEW c, Linked(a, av, A, n, c), Apart(A),
         NEW k \in 1..n, NEW r, r = remove([a |-> a, av |-> av], c[k])
  PROVE  Linked(r.a, r.av, A \ {c[k]}, n - 1, Without(n, c, k))
<1> DEFINE d == Without(n, c, k)
           b == r.a
<1>1. n \in Nat /\ k \in Int /\ Order(A, n, c) /\ av = IF n = 0 THEN 0 ELSE c[1]
  BY DEF Linked, Order
<1>2. /\ r.av = IF k = 1 THEN Next(n, c, k) ELSE av
      /\ \A p \in A : /\ b[p + 1] = IF k > 1 /\ p = c[k - 1] THEN Next(n, c, k) ELSE a[p + 1]
                      /\ b[p + 2] = IF k < n /\ p = c[k + 1] THEN Prev(c, k) ELSE a[p + 2]
  <2>1. IsRemoved(a, av, A, n, c, k, r)
    BY RemoveIs
  <2> QED
    BY <2>1 DEF IsRemoved
<1>3. \A j, m \in 1..n : c[j] = c[m] => j = m
  BY <1>1 DEF Order
<1>4. \A m \in 1..n : c[m] \in A /\ a[c[m] + 1] = Next(n, c, m) /\ a[c[m] + 2] = Prev(c, m)
  BY Neighbours
<1>5. ASSUME NEW m \in 1..n
      PROVE  /\ b[c[m] + 1] = IF k > 1 /\ m = k - 1 THEN Next(n, c, k) ELSE Next(n, c, m)
             /\ b[c[m] + 2] = IF k < n /\ m = k + 1 THEN Prev(c, k) ELSE Prev(c, m)
  <2>1. k > 1 => (c[m] = c[k - 1] <=> m = k - 1)
    <3>1. k > 1 => k - 1 \in 1..n
      BY <1>1
    <3> QED
      BY <3>1, <1>3
  <2>2. k < n => (c[m] = c[k + 1] <=> m = k + 1)
    <3>1. k < n => k + 1 \in 1..n
      BY <1>1
    <3> QED
      BY <3>1, <1>3
  <2> HIDE DEF b
  <2> QED
    BY <2>1, <2>2, <1>2, <1>4
<1>6. r.av = IF n - 1 = 0 THEN 0 ELSE d[1]
  BY <1>1, <1>2 DEF Next, Without
<1>7. ASSUME NEW m \in 1..(n - 1) PROVE Links(b, n - 1, d, m)
  <2>1. CASE m < k
    <3>1. d[m] = c[m] /\ m \in 1..n /\ m # k + 1
      BY <2>1, <1>1 DEF Without
    <3>2. Next(n - 1, d, m) = IF k > 1 /\ m = k - 1 THEN Next(n, c, k) ELSE Next(n, c, m)
      BY <2>1, <1>1 DEF Next, Without
    <3>3. Prev(d, m) = Prev(c, m)
      BY <2>1, <1>1 DEF Prev, Without
    <3> HIDE DEF b, d
    <3> QED
      BY <3>1, <3>2, <3>3, <1>5 DEF Links
  <2>2. CASE ~(m < k)
    <3>1. d[m] = c[m + 1] /\ m + 1 \in 1..n /\ m + 1 # k - 1
      BY <2>2, <1>1 DEF Without
    <3>2. Next(n - 1, d, m) = Next(n, c, m + 1)
      BY <2>2, <1>1 DEF Next, Without
    <3>3. Prev(d, m) = IF k < n /\ m + 1 = k + 1 THEN Prev(c, k) ELSE Prev(c, m + 1)
      BY <2>2, <1>1 DEF Prev, Without
    <3> HIDE DEF b, d
    <3> QED
      BY <3>1, <3>2, <3>3, <1>5 DEF Links
  <2> QED
    BY <2>1, <2>2
<1>8. Order(A \ {c[k]}, n - 1, d)
  BY <1>1, WithoutOrder
<1> HIDE DEF b, d
<1>9. Linked(b, r.av, A \ {c[k]}, n - 1, d)
  BY <1>6, <1>7, <1>8 DEF Linked
<1> QED
  BY <1>9 DEF b, d

WasRemoved(a, A, i, r) ==
  /\ List(r.a, r.av, A \ {i}) /\ Changed(a, r.a, A \ {i}, 0, 0)
  /\ r.a \in [Words -> Int] /\ r = [a |-> r.a, av |-> r.av]
\* remove on any block of the list.
LEMMA Removed ==
  ASSUME NEW a \in [Words -> Int], NEW av, NEW A, List(a, av, A), Apart(A), NEW i \in A,
         NEW r, r = remove([a |-> a, av |-> av], i)
  PROVE  WasRemoved(a, A, i, r)
<1>1. PICK n, c : Linked(a, av, A, n, c)
  BY DEF List
<1>2. PICK k \in 1..n : c[k] = i
  BY <1>1 DEF Linked, Order
<1>3. Linked(r.a, r.av, A \ {i}, n - 1, Without(n, c, k))
  BY <1>1, <1>2, RemoveLinked
<1>4. IsRemoved(a, av, A, n, c, k, r)
  BY <1>1, <1>2, RemoveIs
<1> QED
  BY <1>2, <1>3, <1>4 DEF List, IsRemoved, WasRemoved

\* The list with one more block in front.
With(n, c, i) == [m \in 1..(n + 1) |-> IF m = 1 THEN i ELSE c[m - 1]]
\* It is an order of those blocks and the new one.
LEMMA WithOrder ==
  ASSUME NEW A, NEW n, NEW c, Order(A, n, c), NEW i, i \notin A
  PROVE  Order(A \cup {i}, n + 1, With(n, c, i))
<1> DEFINE d == With(n, c, i)
           B == A \cup {i}
<1>1. n \in Nat /\ n + 1 \in Nat /\ c \in [1..n -> A] /\ \A j, m \in 1..n : c[j] = c[m] => j = m
  BY DEF Order
<1>2. ASSUME NEW m \in 1..(n + 1)
      PROVE  /\ m = 1 => d[m] = i
             /\ m # 1 => d[m] = c[m - 1] /\ m - 1 \in 1..n /\ d[m] \in A
  BY <1>1 DEF With
<1>3. d \in [1..(n + 1) -> B]
  <2>1. \A m \in 1..(n + 1) : d[m] \in B
    BY <1>1, <1>2
  <2>2. d = [m \in 1..(n + 1) |-> d[m]]
    BY DEF With
  <2> HIDE DEF d, B
  <2> QED
    BY <2>1, <2>2
<1>4. ASSUME NEW p \in B PROVE \E m \in 1..(n + 1) : d[m] = p
  <2>1. CASE p = i
    BY <2>1, <1>1, <1>2
  <2>2. CASE p \in A
    <3>1. PICK j \in 1..n : c[j] = p
      BY <2>2 DEF Order
    <3>2. j + 1 \in 1..(n + 1) /\ j + 1 # 1 /\ (j + 1) - 1 = j
      BY <1>1
    <3> HIDE DEF d
    <3>3. d[j + 1] = c[(j + 1) - 1]
      BY <3>2, <1>2
    <3> QED
      BY <3>1, <3>2, <3>3
  <2> QED
    BY <2>1, <2>2
<1>5. ASSUME NEW j \in 1..(n + 1), NEW m \in 1..(n + 1), d[j] = d[m] PROVE j = m
  <2> HIDE DEF d
  <2>1. j \in Int /\ m \in Int
    OBVIOUS
  <2>2. CASE j = 1 \/ m = 1
    BY <2>2, <1>5, <1>2
  <2>3. CASE j # 1 /\ m # 1
    <3>1. j - 1 = m - 1
      BY <2>3, <1>5, <1>1, <1>2
    <3> QED
      BY <3>1, <2>1
  <2> QED
    BY <2>2, <2>3
<1> HIDE DEF d, B
<1>6. Order(B, n + 1, d)
  BY <1>1, <1>3, <1>4, <1>5 DEF Order
<1> QED
  BY <1>6 DEF B, d

\* makeAvail writes the tags of the block, its links and the link back to it.
IsInserted(a, av, A, i, w, r) ==
  /\ r.a \in [Words -> Int] /\ r = [a |-> r.a, av |-> r.av] /\ r.av = i
  /\ r.a[i] = w /\ r.a[i + w - 1] = w /\ r.a[i + 1] = av /\ r.a[i + 2] = 0
  /\ \A p \in A : /\ r.a[p + 1] = a[p + 1]
                  /\ r.a[p + 2] = IF p = av THEN i ELSE a[p + 2]
  /\ Changed(a, r.a, A, i, i + w)
Beside(A, i, w) == \A p \in A : p + 4 <= i \/ i + w <= p

\* As makeAvail does (heap.cc:86-99).
LEMMA InsertIs ==
  ASSUME NEW a \in [Words -> Int], NEW av, NEW A, av \in A \/ av = 0, Apart(A), NEW i \in 2..(len - 6),
         NEW w \in Int, w >= 4, i + w <= len - 2, Beside(A, i, w),
         NEW r, r = makeAvail([a |-> a, av |-> av], i, w)
  PROVE  IsInserted(a, av, A, i, w, r)
<1> DEFINE a1 == [a EXCEPT ![i] = w, ![i + w - 1] = w, ![i + 1] = av, ![i + 2] = 0]
           a2 == IF av = 0 THEN a1 ELSE [a1 EXCEPT ![av + 2] = i]
<1>1. r = [a |-> a2, av |-> i]
  BY DEF makeAvail
<1>2. i \in Int /\ len \in Int /\ i >= 2 /\ i <= len - 6
  BY HeapAssumption
<1>3. i \in Words /\ i + w - 1 \in Words /\ i + 1 \in Words /\ i + 2 \in Words
  BY <1>2 DEF Words
<1>4. ASSUME NEW p \in A
      PROVE  /\ p \in Int /\ p \in 2..(len - 6) /\ p + 1 \in Words /\ p + 2 \in Words
             /\ p + 1 \notin {i, i + w - 1, i + 1, i + 2} /\ p + 2 \notin {i, i + w - 1, i + 1, i + 2}
  <2>1. p \in 2..(len - 6) /\ p + 1 \in Words /\ p + 2 \in Words /\ p \in Int
    BY LinkWords DEF Apart
  <2>2. p + 4 <= i \/ i + w <= p
    BY DEF Beside
  <2> QED
    BY <2>1, <2>2, <1>2
<1>5. av \in Int /\ (av # 0 => av \in A)
  BY <1>4
<1>6. a1 \in [Words -> Int]
  BY <1>2, <1>3, <1>5
<1>7. a1[i] = w /\ a1[i + w - 1] = w /\ a1[i + 1] = av /\ a1[i + 2] = 0
  BY <1>2, <1>3
<1>8. \A j \in Words : j \notin {i, i + w - 1, i + 1, i + 2} => a1[j] = a[j]
  OBVIOUS
<1> HIDE DEF a1
<1>9. a2 \in [Words -> Int] /\ \A j \in Words : (av = 0 \/ j # av + 2) => a2[j] = a1[j]
  BY <1>2, <1>5, <1>6
<1>10. av # 0 => a2[av + 2] = i
  BY <1>4, <1>5, <1>6
<1>11. \A j \in {i, i + w - 1, i + 1, i + 2} : j \in Words /\ (av # 0 => j # av + 2)
  BY <1>3, <1>4, <1>5
<1>12. ASSUME NEW p \in A
       PROVE  a2[p + 1] = a[p + 1] /\ a2[p + 2] = IF p = av THEN i ELSE a[p + 2]
  <2>1. a1[p + 1] = a[p + 1] /\ a1[p + 2] = a[p + 2]
    BY <1>4, <1>8
  <2>2. av # 0 => p + 1 # av + 2 /\ p + 1 \in Words /\ p + 2 \in Words
    BY <1>5, LinkWords
  <2>3. p # 0 /\ p \in Int
    BY <1>4, <1>2
  <2>4. p + 2 = av + 2 => p = av
    BY <2>3, <1>5
  <2> HIDE DEF a2
  <2> QED
    BY <2>1, <2>2, <2>3, <2>4, <1>4, <1>9, <1>10
<1> HIDE DEF a2
<1>13. Changed(a, a2, A, i, i + w)
  <2> SUFFICES ASSUME NEW j \in Words, j \notin i..(i + w - 1), Free2(A, j) PROVE a2[j] = a[j]
    BY <1>2, <1>9 DEF Changed
  <2>1. j \notin {i, i + w - 1, i + 1, i + 2}
    BY <1>2
  <2>2. av # 0 => j # av + 2
    BY <1>5 DEF Free2
  <2> QED
    BY <2>1, <2>2, <1>8, <1>9
<1>14. a2[i] = w /\ a2[i + w - 1] = w /\ a2[i + 1] = av /\ a2[i + 2] = 0
  BY <1>7, <1>9, <1>11
<1>15. r.a = a2 /\ r.av = i
  BY <1>1
<1> QED
  BY <1>1, <1>9, <1>12, <1>13, <1>14, <1>15 DEF IsInserted

WasInserted(a, A, i, w, r) ==
  /\ List(r.a, r.av, A \cup {i}) /\ Changed(a, r.a, A, i, i + w)
  /\ r.a \in [Words -> Int] /\ r = [a |-> r.a, av |-> r.av]
  /\ r.a[i] = w /\ r.a[i + w - 1] = w
\* makeAvail puts the block in front of the list.
LEMMA Inserted ==
  ASSUME NEW a \in [Words -> Int], NEW av, NEW A, List(a, av, A), Apart(A), NEW i \in 2..(len - 6),
         NEW w \in Int, w >= 4, i + w <= len - 2, Beside(A, i, w),
         NEW r, r = makeAvail([a |-> a, av |-> av], i, w)
  PROVE  WasInserted(a, A, i, w, r)
<1>1. PICK n, c : Linked(a, av, A, n, c)
  BY DEF List
<1> DEFINE d == With(n, c, i)
           b == r.a
<1>2. /\ n \in Nat /\ Order(A, n, c) /\ c \in [1..n -> A] /\ av = IF n = 0 THEN 0 ELSE c[1]
      /\ \A j, m \in 1..n : c[j] = c[m] => j = m
  BY <1>1 DEF Linked, Order
<1>3. av \in A \/ av = 0
  BY <1>2
<1>4. IsInserted(a, av, A, i, w, r)
  BY <1>3, InsertIs
<1>5. \A p \in A : p \in Int /\ p # i /\ p # 0
  BY HeapAssumption DEF Apart, Beside
<1>6. Order(A \cup {i}, n + 1, d)
  BY <1>2, <1>5, WithOrder
<1>7. ASSUME NEW m \in 1..(n + 1) PROVE Links(b, n + 1, d, m)
  <2>1. CASE m = 1
    <3>1. d[m] = i
      BY <2>1, <1>2 DEF With
    <3>2. Prev(d, m) = 0
      BY <2>1 DEF Prev
    <3>3. Next(n + 1, d, m) = av
      BY <2>1, <1>2 DEF Next, With
    <3> HIDE DEF b, d
    <3> QED
      BY <3>1, <3>2, <3>3, <1>4 DEF Links, IsInserted, b
  <2>2. CASE m # 1
    <3> DEFINE k == m - 1
    <3>1. k \in 1..n /\ d[m] = c[k] /\ c[k] \in A
      BY <2>2, <1>2 DEF With
    <3>2. a[c[k] + 1] = Next(n, c, k) /\ a[c[k] + 2] = Prev(c, k)
      BY <3>1, <1>1 DEF Linked, Links
    <3>3. Next(n + 1, d, m) = Next(n, c, k)
      BY <2>2, <1>2 DEF Next, With
    <3>4. Prev(d, m) = IF k = 1 THEN i ELSE Prev(c, k)
      BY <2>2, <1>2 DEF Prev, With
    <3>5. c[k] = av <=> k = 1
      <4> HIDE DEF k
      <4> QED
        BY <3>1, <1>2
    <3>6. b[c[k] + 1] = a[c[k] + 1] /\ b[c[k] + 2] = IF c[k] = av THEN i ELSE a[c[k] + 2]
      BY <3>1, <1>4 DEF IsInserted
    <3> HIDE DEF b, d, k
    <3> QED
      BY <3>1, <3>2, <3>3, <3>4, <3>5, <3>6 DEF Links
  <2> QED
    BY <2>1, <2>2
<1>8. r.av = IF n + 1 = 0 THEN 0 ELSE d[1]
  <2>1. r.av = i
    BY <1>4 DEF IsInserted
  <2>2. d[1] = i /\ n + 1 # 0
    BY <1>2 DEF With
  <2> QED
    BY <2>1, <2>2
<1> HIDE DEF b, d
<1>9. Linked(b, r.av, A \cup {i}, n + 1, d)
  BY <1>6, <1>7, <1>8 DEF Linked
<1> QED
  BY <1>4, <1>9 DEF IsInserted, WasInserted, List, b

-----------------------------------------------------------------------------
(***************************************************************************)
(* Induction over the natural numbers, as the least element of a set of    *)
(* them, and as a set that every number is in.                             *)
(***************************************************************************)
LessNat == {ss \in Nat \X Nat : ss[1] < ss[2]}
\* Less than is well-founded.
LEMMA LessNatWF == IsWellFoundedOn(LessNat, Nat)
  BY NatLessThanWellFounded, Zenon DEF LessNat, OpToRel
\* A set of natural numbers has a least element.
LEMMA LeastElement ==
  ASSUME NEW S \in SUBSET Nat, S # {}
  PROVE  \E n \in S : \A k \in S : n <= k
<1>1. PICK n \in S : \A k \in S : <<k, n>> \notin LessNat
  BY LessNatWF, WFMin, Zenon
<1>2. ASSUME NEW k \in S, k < n PROVE FALSE
  <2>1. <<k, n>> \in LessNat
    BY <1>2 DEF LessNat
  <2> QED
    BY <1>1, <2>1
<1> QED
  BY <1>2

\* A set with zero, and with the next of every number in it, has them all.
LEMMA SetInduction ==
  ASSUME NEW S, 0 \in S, \A n \in Nat : n \in S => n + 1 \in S
  PROVE  Nat \subseteq S
<1> SUFFICES ASSUME Nat \ S # {} PROVE FALSE
  OBVIOUS
<1>1. PICK n \in Nat \ S : \A k \in Nat \ S : n <= k
  BY LeastElement
<1>2. n # 0 /\ n - 1 \in Nat /\ n - 1 \notin Nat \ S
  BY <1>1
<1> QED
  BY <1>2

\* f takes n steps from t, one after the other.
Runs(f, T, t, step, n) ==
  f \in [0..n -> T] /\ f[0] = t /\ \A i \in 1..n : f[i] = step[f[i - 1]]
Can(T, t, step, n) == \E f \in [0..n -> T] : Runs(f, T, t, step, n)
\* A function that is defined step by step exists.
LEMMA Iteration ==
  ASSUME NEW T, NEW t \in T, NEW m \in Nat, NEW step \in [T -> T]
  PROVE  \E f \in [0..m -> T] : Runs(f, T, t, step, m)
<1> DEFINE Ns == {n \in Nat : Can(T, t, step, n)}
<1>1. Can(T, t, step, 0)
  <2> DEFINE g == [i \in 0..0 |-> t]
  <2>1. g \in [0..0 -> T] /\ Runs(g, T, t, step, 0)
    BY DEF Runs
  <2> QED
    BY <2>1 DEF Can
<1>2. ASSUME NEW n \in Nat, Can(T, t, step, n) PROVE Can(T, t, step, n + 1)
  <2>1. PICK f \in [0..n -> T] : Runs(f, T, t, step, n)
    BY <1>2 DEF Can
  <2> DEFINE g == [i \in 0..(n + 1) |-> IF i = n + 1 THEN step[f[n]] ELSE f[i]]
  <2>2. g \in [0..(n + 1) -> T]
    OBVIOUS
  <2>3. g[0] = t /\ g[n] = f[n] /\ g[n + 1] = step[f[n]]
    BY <2>1 DEF Runs
  <2>4. \A i \in 1..n : g[i] = f[i] /\ g[i - 1] = f[i - 1]
    OBVIOUS
  <2>5. Runs(g, T, t, step, n + 1)
    <3> HIDE DEF g
    <3>1. ASSUME NEW i \in 1..(n + 1) PROVE g[i] = step[g[i - 1]]
      <4>1. CASE i = n + 1
        BY <4>1, <2>3
      <4>2. CASE i \in 1..n
        BY <4>2, <2>4, <2>1 DEF Runs
      <4> QED
        BY <4>1, <4>2
    <3> QED
      BY <2>2, <2>3, <3>1 DEF Runs
  <2> QED
    BY <2>2, <2>5 DEF Can
<1>3. m \in Ns
  <2>1. 0 \in Ns /\ \A n \in Nat : n \in Ns => n + 1 \in Ns
    BY <1>1, <1>2
  <2> HIDE DEF Ns
  <2> QED
    BY <2>1, SetInduction
<1> QED
  BY <1>3 DEF Can

-----------------------------------------------------------------------------
(***************************************************************************)
(* What Chain and Starts read out of the array.                            *)
(***************************************************************************)
\* The list is no longer than Chain looks.
LEMMA ListIsShort ==
  ASSUME NEW A, Apart(A), NEW n, NEW c, Order(A, n, c)
  PROVE  n \in Nat /\ n <= len \div 4
<1> DEFINE q == len \div 4
           f == [k \in 1..n |-> c[k] \div 4]
<1>1. len \in Nat /\ len >= 8 /\ q \in Nat /\ q >= 2 /\ len < 4 * q + 4
  BY HeapAssumption
<1>2. n \in Nat /\ c \in [1..n -> A]
  BY DEF Order
<1>3. ASSUME NEW k \in 1..n PROVE c[k] \in 2..(len - 6) /\ c[k] \div 4 \in 0..(q - 1)
  <2>1. c[k] \in 2..(len - 6)
    BY <1>2 DEF Apart
  <2>2. PICK x \in Int : x = c[k]
    BY <2>1
  <2> HIDE DEF q
  <2>3. x \div 4 \in 0..(q - 1)
    BY <1>1, <2>1, <2>2
  <2> QED
    BY <2>1, <2>2, <2>3
<1>4. ASSUME n > q PROVE FALSE
  <2>1. IsFiniteSet(1..n) /\ Cardinality(1..n) = n
    BY <1>2, <1>4, <1>1, FS_Interval
  <2>2. IsFiniteSet(0..(q - 1)) /\ Cardinality(0..(q - 1)) = q
    BY <1>1, FS_Interval
  <2>3. f \in [1..n -> 0..(q - 1)]
    BY <1>3
  <2> HIDE DEF f, q
  <2>4. PICK j, k \in 1..n : j # k /\ f[j] = f[k]
    <3>1. Cardinality(0..(q - 1)) < Cardinality(1..n)
      BY <2>1, <2>2, <1>4, <1>1, <1>2
    <3> QED
      BY ONLY <2>1, <2>2, <2>3, <3>1, FS_PigeonHole
  <2>5. c[j] # c[k] /\ c[j] \in A /\ c[k] \in A /\ c[j] \div 4 = c[k] \div 4
    BY <2>4, <1>2 DEF Order, f
  <2>6. PICK x \in Int, y \in Int : x = c[j] /\ y = c[k]
    BY <1>3
  <2>7. (x < y => x + 4 <= y) /\ (y < x => y + 4 <= x)
    BY <2>5, <2>6 DEF Apart
  <2> QED
    BY <2>5, <2>6, <2>7
<1> QED
  BY <1>1, <1>2, <1>4

\* The equation of the loop of Chain.
Follows(g, a, av) ==
  g = [k \in 0..(len \div 4) |->
         IF k = 0 THEN av ELSE IF g[k - 1] = 0 THEN 0 ELSE a[g[k - 1] + 1]]
\* Its solution.
Goes(n, c) == [k \in 0..(len \div 4) |-> IF k < n THEN c[k + 1] ELSE 0]

\* Chain reads the list.
LEMMA ChainIs ==
  ASSUME NEW a, NEW av, NEW A, NEW n, NEW c, Linked(a, av, A, n, c), Apart(A)
  PROVE  Chain([a |-> a, av |-> av]) = c
<1> DEFINE q == len \div 4
           h == [a |-> a, av |-> av]
           g0 == Goes(n, c)
           Walk(g, k) == IF k = 0 THEN av ELSE IF g[k - 1] = 0 THEN 0 ELSE a[g[k - 1] + 1]
<1>1. /\ n \in Nat /\ n <= q /\ q \in Nat /\ c \in [1..n -> A]
      /\ av = IF n = 0 THEN 0 ELSE c[1]
  <2>1. Order(A, n, c) /\ av = IF n = 0 THEN 0 ELSE c[1]
    BY DEF Linked
  <2>2. n \in Nat /\ n <= len \div 4
    BY <2>1, ListIsShort
  <2>3. q \in Nat
    BY HeapAssumption
  <2> QED
    BY <2>1, <2>2, <2>3 DEF Order
<1>2. ASSUME NEW k \in 1..n PROVE c[k] # 0 /\ a[c[k] + 1] = IF k < n THEN c[k + 1] ELSE 0
  <2>1. a[c[k] + 1] = Next(n, c, k) /\ c[k] \in 2..(len - 6)
    BY Neighbours
  <2> QED
    BY <2>1, HeapAssumption DEF Next
<1>3. ASSUME NEW k \in 0..q PROVE g0[k] = IF k < n THEN c[k + 1] ELSE 0
  BY DEF Goes
<1>4. ASSUME NEW k \in 0..q, k # 0, NEW g, g[k - 1] = g0[k - 1] PROVE Walk(g, k) = g0[k]
  <2>1. k - 1 \in 0..q /\ k \in 1..q
    BY <1>4, <1>1
  <2>2. CASE k - 1 < n
    <3>1. k \in 1..n /\ g0[k - 1] = c[k]
      BY <2>1, <2>2, <1>1, <1>3
    <3> HIDE DEF g0
    <3> QED
      BY <3>1, <1>2, <1>3, <1>4
  <2>3. CASE ~(k - 1 < n)
    <3>1. g0[k - 1] = 0 /\ g0[k] = 0
      BY <2>1, <2>3, <1>1, <1>3
    <3> HIDE DEF g0
    <3> QED
      BY <3>1, <1>4
  <2> QED
    BY <2>2, <2>3
<1>5. g0[0] = av
  BY <1>1, <1>3
<1>6. Follows(g0, a, av)
  <2>1. ASSUME NEW k \in 0..q PROVE g0[k] = Walk(g0, k)
    <3> HIDE DEF g0
    <3> QED
      BY <1>4, <1>5
  <2>2. g0 = [k \in 0..q |-> g0[k]]
    BY DEF Goes
  <2> HIDE DEF g0
  <2>3. g0 = [k \in 0..q |-> Walk(g0, k)]
    BY <2>1, <2>2
  <2> QED
    BY <2>3 DEF Follows
<1>7. ASSUME NEW g, Follows(g, a, av) PROVE g = g0
  <2>1. DOMAIN g = 0..q /\ \A k \in 0..q : g[k] = Walk(g, k)
    BY <1>7 DEF Follows
  <2>2. g = [k \in 0..q |-> g[k]]
    BY <1>7 DEF Follows
  <2> DEFINE Ns == {k \in Nat : k <= q => g[k] = g0[k]}
  <2>3. 0 \in Ns
    BY <2>1, <1>5, <1>1
  <2>4. ASSUME NEW k \in Nat, k \in Ns PROVE k + 1 \in Ns
    <3>1. CASE k + 1 <= q
      <4>1. k + 1 \in 0..q /\ k + 1 # 0 /\ (k + 1) - 1 = k /\ g[k] = g0[k]
        BY <2>4, <3>1, <1>1
      <4> HIDE DEF g0, Walk
      <4>2. Walk(g, k + 1) = g0[k + 1]
        BY <4>1, <1>4
      <4> QED
        BY <4>1, <4>2, <2>1
    <3> QED
      BY <3>1
  <2>5. ASSUME NEW k \in 0..q PROVE g[k] = g0[k]
    <3>1. Nat \subseteq Ns
      <4> HIDE DEF Ns
      <4> QED
        BY <2>3, <2>4, SetInduction
    <3> QED
      BY <3>1, <1>1
  <2>6. g0 = [k \in 0..q |-> g0[k]]
    BY DEF Goes
  <2> HIDE DEF g0
  <2> QED
    BY <2>2, <2>5, <2>6
<1>8. Chain(h) = [k \in 1..Cardinality({k \in DOMAIN g0 : g0[k] # 0}) |-> g0[k - 1]]
  <2> DEFINE at == CHOOSE g : Follows(g, a, av)
  <2>1. at = g0
    BY <1>6, <1>7
  <2> HIDE DEF g0
  <2>2. Chain(h) = [k \in 1..Cardinality({k \in DOMAIN at : at[k] # 0}) |-> at[k - 1]]
    BY DEF Chain, Follows
  <2> HIDE DEF at
  <2> QED
    BY <2>1, <2>2
<1>9. {k \in DOMAIN g0 : g0[k] # 0} = 0..(n - 1)
  <2>1. DOMAIN g0 = 0..q
    BY DEF Goes
  <2>2. \A k \in 0..q : g0[k] # 0 <=> k < n
    <3> SUFFICES ASSUME NEW k \in 0..q PROVE g0[k] # 0 <=> k < n
      OBVIOUS
    <3>1. k < n => k + 1 \in 1..n
      BY <1>1
    <3> HIDE DEF g0
    <3> QED
      BY <3>1, <1>2, <1>3
  <2> HIDE DEF g0
  <2> QED
    BY <2>1, <2>2, <1>1
<1>10. Cardinality(0..(n - 1)) = n
  BY <1>1, FS_Interval
<1>11. Chain(h) = [k \in 1..n |-> g0[k - 1]]
  <2> HIDE DEF g0
  <2> QED
    BY <1>8, <1>9, <1>10
<1>12. ASSUME NEW k \in 1..n PROVE g0[k - 1] = c[k]
  BY <1>1, <1>3
<1> HIDE DEF g0
<1> QED
  BY <1>1, <1>11, <1>12

\* The equation of the loop of Starts.
Onward(i) == IF i >= len \/ array[i] = 0 THEN len ELSE right(heap, i)
Strides(g) ==
  g = [k \in 0..(len \div 4 + 2) |-> IF k = 0 THEN 0 ELSE Onward(g[k - 1])]

\* What the helpers of the heap say of a block.
LEMMA SizeIs ==
  \A i : /\ size(heap, i) = Width(array, i) /\ right(heap, i) = i + Width(array, i)
         /\ isAvail(heap, i) <=> array[i] > 0
BY DEF size, right, isAvail, heap, Width

\* From a block to the next one.
LEMMA OnwardIs ==
  ASSUME NEW S, Tiling(array, S)
  PROVE  /\ \A i \in S : Onward(i) = i + Width(array, i) /\ Onward(i) \in S \cup {len}
         /\ Onward(len) = len
<1>1. len \in Int
  BY HeapAssumption
<1>2. ASSUME NEW i \in S PROVE Onward(i) = i + Width(array, i) /\ Onward(i) \in S \cup {len}
  <2>1. i \in Int /\ i <= len - 2 /\ Width(array, i) >= 2 /\ Block(array, S, i)
    BY BlockIs DEF Tiling
  <2>2. ~(i >= len) /\ array[i] # 0
    BY <2>1, <1>1 DEF Width
  <2>3. Onward(i) = right(heap, i)
    BY <2>2 DEF Onward
  <2> QED
    BY <2>1, <2>3, SizeIs DEF Block
<1> QED
  BY <1>1, <1>2 DEF Onward

\* Starts are the blocks.
LEMMA StartsAre ==
  ASSUME NEW S, Tiling(array, S)
  PROVE  Starts = S
<1> DEFINE m == len \div 4 + 2
           T == S \cup {len}
           step == [i \in T |-> Onward(i)]
<1>1. len \in Nat /\ len >= 8 /\ m \in Nat /\ len - 2 < 4 * m - 4 /\ 0 \in S
  BY HeapAssumption DEF Tiling, Ends
<1>2. step \in [T -> T]
  BY OnwardIs
<1>3. \E g : Strides(g)
  <2>1. PICK f \in [0..m -> T] : Runs(f, T, 0, step, m)
    <3>1. 0 \in T /\ m \in Nat
      BY <1>1
    <3> HIDE DEF T, m, step
    <3> QED
      BY <1>2, <3>1, Iteration
  <2>2. ASSUME NEW k \in 0..m PROVE f[k] = IF k = 0 THEN 0 ELSE Onward(f[k - 1])
    <3>1. CASE k = 0
      BY <2>1, <3>1 DEF Runs
    <3>2. CASE k # 0
      <4>1. k \in 1..m /\ k - 1 \in 0..m
        BY <1>1, <3>2
      <4>2. f[k] = step[f[k - 1]] /\ f[k - 1] \in T
        <5> HIDE DEF step, T, m
        <5> QED
          BY <2>1, <4>1 DEF Runs
      <4> QED
        BY <4>2, <3>2
    <3> QED
      BY <3>1, <3>2
  <2>3. Strides(f)
    BY <2>1, <2>2 DEF Strides
  <2> QED
    BY <2>3
<1>4. PICK g : Strides(g) /\ Starts = {g[k] : k \in DOMAIN g} \ {len}
  <2> DEFINE at == CHOOSE g : Strides(g)
  <2>1. Strides(at)
    BY <1>3
  <2>2. Starts = {at[k] : k \in DOMAIN at} \ {len}
    BY DEF Starts, Strides, Onward
  <2> QED
    BY <2>1, <2>2
<1>5. DOMAIN g = 0..m /\ \A k \in 0..m : g[k] = IF k = 0 THEN 0 ELSE Onward(g[k - 1])
  BY <1>4 DEF Strides
<1> HIDE DEF T, step
<1>6. \A k \in 0..m : g[k] \in T /\ (g[k] # len => g[k] >= 4 * k - 2)
  <2> DEFINE Ns == {k \in Nat : k <= m => g[k] \in T /\ (g[k] # len => g[k] >= 4 * k - 2)}
  <2>1. 0 \in Ns
    <3>1. g[0] = 0
      BY <1>5, <1>1
    <3> QED
      BY <3>1, <1>1 DEF T
  <2>2. ASSUME NEW k \in Nat, k \in Ns PROVE k + 1 \in Ns
    <3> SUFFICES ASSUME k + 1 <= m
                 PROVE  g[k + 1] \in T /\ (g[k + 1] # len => g[k + 1] >= 4 * (k + 1) - 2)
      OBVIOUS
    <3>1. k + 1 \in 0..m /\ k + 1 # 0 /\ (k + 1) - 1 = k
      BY <1>1
    <3>2. g[k + 1] = Onward(g[k]) /\ g[k] \in T /\ (g[k] # len => g[k] >= 4 * k - 2)
      BY <2>2, <3>1, <1>5, <1>1
    <3>3. CASE g[k] = len
      BY <3>2, <3>3, OnwardIs DEF T
    <3>4. CASE g[k] # len
      <4> DEFINE i == g[k]
      <4>1. i \in S /\ i \in Int /\ i >= 4 * k - 2 /\ Onward(i) = i + Width(array, i) /\ Onward(i) \in T
            /\ Width(array, i) \in Int /\ Width(array, i) >= 2
        BY <3>2, <3>4, OnwardIs, BlockIs DEF T
      <4>2. CASE i \notin Ends
        <5>1. Width(array, i) >= 4
          BY <4>1, <4>2, InnerIs
        <5> HIDE DEF i
        <5> QED
          BY <5>1, <4>1, <3>2 DEF i
      <4>3. CASE i = 0
        <5>1. k = 0
          <6> HIDE DEF i
          <6> QED
            BY <4>1, <4>3
        <5> HIDE DEF i
        <5> QED
          BY <5>1, <4>1, <4>3, <3>2 DEF i
      <4>4. CASE i = len - 2
        <5>1. Onward(i) = len
          <6>1. Block(array, S, i)
            BY <4>1 DEF Tiling
          <6>2. Width(array, i) = 2
            BY <6>1, <4>4 DEF Block, Ends, Width
          <6> HIDE DEF i
          <6> QED
            BY <6>2, <4>1, <4>4, <1>1
        <5> QED
          BY <5>1, <4>1, <3>2
      <4> QED
        BY <4>2, <4>3, <4>4 DEF Ends
    <3> QED
      BY <3>3, <3>4
  <2>3. Nat \subseteq Ns
    <3> HIDE DEF Ns
    <3> QED
      BY <2>1, <2>2, SetInduction
  <2> QED
    BY <2>3, <1>1
<1>7. Starts \subseteq S
  BY <1>4, <1>5, <1>6 DEF T
<1>8. S \subseteq Starts
  <2> DEFINE B == S \ Starts
  <2> SUFFICES ASSUME B # {} PROVE FALSE
    OBVIOUS
  <2>1. B \subseteq Nat
    <3>1. S \subseteq 0..(len - 2)
      BY DEF Tiling
    <3>2. \A i \in S : i \in Nat
      BY <3>1, HeapAssumption
    <3> QED
      BY <3>2
  <2>2. PICK i \in B : \A j \in B : i <= j
    <3> HIDE DEF B
    <3> QED
      BY <2>1, LeastElement
  <2>3. \A k \in 0..m : g[k] \in S => g[k] \in Starts
    <3>1. \A j \in S : j # len
      BY BlockIs, <1>1
    <3> QED
      BY <3>1, <1>4, <1>5
  <2>4. i # 0
    <3>1. g[0] = 0 /\ 0 \in 0..m
      BY <1>5, <1>1
    <3> QED
      BY <3>1, <2>3, <1>1
  <2>5. PICK j \in S : j + Width(array, j) = i
    BY <2>4 DEF Tiling, After
  <2>6. j \in Int /\ Width(array, j) \in Int /\ Width(array, j) >= 2 /\ i \in Int /\ i <= len - 2
    BY <2>5, BlockIs
  <2>7. j \in Starts
    BY <2>2, <2>5, <2>6
  <2>8. PICK k \in 0..m : g[k] = j
    BY <2>7, <1>4, <1>5
  <2>9. g[k] # len /\ g[k] >= 4 * k - 2
    BY <2>6, <2>5, <2>8, <1>6, <1>1
  <2>10. k < m
    BY <2>9, <2>8, <2>6, <2>5, <1>1
  <2>11. k + 1 \in 0..m /\ k + 1 # 0 /\ (k + 1) - 1 = k
    BY <2>10, <1>1
  <2>12. g[k + 1] = i
    BY <2>11, <2>8, <2>5, <1>5, OnwardIs
  <2> QED
    BY <2>11, <2>12, <2>3
<1> QED
  BY <1>7, <1>8

-----------------------------------------------------------------------------
(***************************************************************************)
(* A call of malloc or free lays out the words of one block, or of a few   *)
(* neighbours, anew.                                                       *)
(***************************************************************************)
\* Words lo to hi - 1 become T, of which the last block may be available.
Settles(a, S, b, bv, lo, hi, T) ==
  /\ lo \in S /\ hi \in S /\ lo # 0 /\ lo < hi /\ hi \notin AvailIn(a, S)
  /\ Changed(a, b, AvailIn(a, S), lo, hi) /\ Piece(b, T, lo, hi)
  /\ b[lo] > 0 => \A i \in AvailIn(a, S) : i + a[i] # lo
  /\ \A i \in T : b[i] > 0 => i + b[i] = hi
  /\ List(b, bv, Rest(AvailIn(a, S), lo, hi) \cup {i \in T : b[i] > 0})

\* The heap is a heap again.
LEMMA Settled ==
  ASSUME NEW a, NEW S, Tiling(a, S), Joined(a, S), NEW b, NEW bv, NEW lo, NEW hi, NEW T,
         Settles(a, S, b, bv, lo, hi, T)
  PROVE  \E N \in SUBSET Words :
           /\ Tiling(b, N) /\ List(b, bv, AvailIn(b, N)) /\ Joined(b, N)
           /\ InUse(b, N) = Rest(InUse(a, S), lo, hi) \cup {i \in T : b[i] < 0}
           /\ \A i \in Rest(S, lo, hi) : b[i] = a[i]
<1> DEFINE N == Rest(S, lo, hi) \cup T
           A == AvailIn(a, S)
           P == {i \in T : b[i] > 0}
<1>1. /\ lo \in S /\ hi \in S /\ lo # 0 /\ lo < hi /\ hi \notin A
      /\ Changed(a, b, A, lo, hi) /\ Piece(b, T, lo, hi)
      /\ (b[lo] > 0 => \A i \in A : i + a[i] # lo)
      /\ (\A i \in T : b[i] > 0 => i + b[i] = hi)
      /\ List(b, bv, Rest(A, lo, hi) \cup P)
  BY DEF Settles
<1>2. A \in SUBSET (S \ Ends)
  BY AvailApart
<1>3. Tiling(b, N)
  <2> HIDE DEF A
  <2> QED
    BY <1>1, <1>2, Retile
<1>4. /\ AvailIn(b, N) = Rest(A, lo, hi) \cup P
      /\ InUse(b, N) = Rest(InUse(a, S), lo, hi) \cup {i \in T : b[i] < 0}
      /\ \A i \in Rest(S, lo, hi) : b[i] = a[i]
  BY <1>1, <1>2, RetiledSets
<1>5. lo \in Int /\ hi \in Int /\ T \subseteq lo..(hi - 1)
  BY <1>1, BlockIs DEF Piece
<1>6. ASSUME NEW i \in AvailIn(b, N) PROVE i + b[i] \notin AvailIn(b, N)
  <2>1. CASE i \in P
    <3>1. i + b[i] = hi
      BY <2>1, <1>1
    <3>2. hi \notin P /\ hi \notin Rest(A, lo, hi)
      BY <1>1, <1>5 DEF Rest
    <3> HIDE DEF P, A, N
    <3> QED
      BY <3>1, <3>2, <1>4
  <2>2. CASE i \in Rest(A, lo, hi)
    <3>1. i \in A /\ i \notin lo..(hi - 1) /\ i \in S /\ i \notin Ends /\ b[i] = a[i] /\ a[i] > 0
      BY <2>2, <1>2, <1>4 DEF Rest, AvailIn
    <3>2. i + a[i] \notin A
      BY <3>1 DEF Joined
    <3>3. i \in Int /\ a[i] \in Int /\ Width(a, i) = a[i]
      BY <3>1, BlockIs DEF Width
    <3>4. i < lo => i + a[i] <= lo
      BY <3>1, <3>3, <1>1 DEF Tiling, Ordered
    <3>5. i + a[i] \notin lo..(hi - 1) \/ i + a[i] = lo
      BY <3>1, <3>3, <3>4, <1>5
    <3>6. i + a[i] \notin P
      BY <3>1, <3>5, <1>1, <1>5
    <3>7. i + a[i] \notin Rest(A, lo, hi)
      BY <3>2 DEF Rest
    <3> HIDE DEF P, A, N
    <3> QED
      BY <3>1, <3>6, <3>7, <1>4
  <2> HIDE DEF P, A, N
  <2> QED
    BY <2>1, <2>2, <1>4
<1>7. N \in SUBSET Words
  BY <1>3, HeapAssumption DEF Tiling, Words
<1>8. Joined(b, N)
  BY <1>6 DEF Joined
<1>9. List(b, bv, AvailIn(b, N))
  BY <1>1, <1>4
<1> HIDE DEF N, P, A
<1> QED
  BY <1>3, <1>4, <1>7, <1>8, <1>9

\* The words of a request.
LEMMA IntsIs ==
  ASSUME NEW bytes \in Requests
  PROVE  /\ Ints(bytes) \in Int /\ Ints(bytes) >= 4
         /\ (bytes + 3) \div 4 \in Int /\ (bytes + 3) \div 4 <= Ints(bytes) - 2
<1>1. bytes \in Nat
  BY HeapAssumption
<1>2. (bytes + 3) \div 4 \in Int
  BY <1>1
<1> QED
  BY <1>2 DEF Ints

\* The block that malloc chooses is in the list, and large enough.
LEMMA BestIs ==
  ASSUME NEW a, NEW av, NEW S, Tiling(a, S), List(a, av, AvailIn(a, S)), NEW ints,
         Fits([a |-> a, av |-> av], ints) # {}, NEW it, it = Best([a |-> a, av |-> av], ints)
  PROVE  it \in AvailIn(a, S) /\ a[it] >= ints
<1> DEFINE h == [a |-> a, av |-> av]
           A == AvailIn(a, S)
           fits == Fits(h, ints)
           Smaller(c, k, j) == size(h, c[k]) <= size(h, c[j])
                               /\ (size(h, c[k]) = size(h, c[j]) => k <= j)
<1>1. PICK n, c : Linked(a, av, A, n, c)
  BY DEF List
<1>2. Chain(h) = c /\ n \in Nat /\ c \in [1..n -> A]
  BY <1>1, AvailApart, ChainIs DEF Linked, Order
<1>3. fits \subseteq 1..n /\ \A k \in fits : size(h, c[k]) >= ints
  BY <1>2 DEF Fits
<1>4. ASSUME NEW i \in A PROVE size(h, i) = a[i] /\ a[i] \in Nat
  <2>1. i \in S /\ a[i] > 0 /\ a[i] \in Int
    BY BlockIs DEF AvailIn
  <2> QED
    BY <2>1 DEF size
<1>5. \E k \in fits : \A j \in fits : Smaller(c, k, j)
  <2> DEFINE sizes == {size(h, c[k]) : k \in fits}
  <2>1. \A k \in fits : k \in Nat /\ size(h, c[k]) \in Nat
    BY <1>2, <1>3, <1>4
  <2>2. PICK s \in sizes : \A x \in sizes : s <= x
    <3>1. sizes \in SUBSET Nat /\ sizes # {}
      BY <2>1
    <3> HIDE DEF sizes
    <3> QED
      BY <3>1, LeastElement
  <2> DEFINE least == {k \in fits : size(h, c[k]) = s}
  <2>3. PICK k \in least : \A j \in least : k <= j
    <3>1. least \in SUBSET Nat /\ least # {}
      BY <2>1, <2>2
    <3> HIDE DEF least
    <3> QED
      BY <3>1, LeastElement
  <2> HIDE DEF h, fits
  <2>4. \A j \in fits : s <= size(h, c[j]) /\ (s = size(h, c[j]) => j \in least)
    BY <2>2
  <2> QED
    BY <2>3, <2>4
<1>6. it = c[CHOOSE k \in fits : \A j \in fits : Smaller(c, k, j)]
  BY <1>2 DEF Best
<1>7. PICK k \in fits : it = c[k]
  <2> HIDE DEF Smaller, fits
  <2> QED
    BY <1>5, <1>6
<1>8. it \in A /\ size(h, it) >= ints
  BY <1>2, <1>3, <1>7
<1> QED
  BY <1>4, <1>8

\* Outside of one block are all the others.
LEMMA RestOfBlock ==
  ASSUME NEW a, NEW S, Tiling(a, S), NEW lo \in S, NEW X \in SUBSET S, NEW hi, hi = lo + Width(a, lo)
  PROVE  Rest(X, lo, hi) = X \ {lo}
<1>1. lo \in Int /\ Width(a, lo) \in Int /\ Width(a, lo) >= 2
  BY BlockIs
<1>2. ASSUME NEW i \in X PROVE i \in lo..(hi - 1) <=> i = lo
  <2>1. i \in S /\ i \in Int
    BY BlockIs
  <2>2. lo <= i /\ i < lo + Width(a, lo) => i = lo
    BY <2>1, Inside
  <2> QED
    BY <2>1, <2>2, <1>1
<1> QED
  BY <1>2 DEF Rest

\* Blocks of the list lie on either side of a block that is not among them.
LEMMA BesideBlock ==
  ASSUME NEW a, NEW S, Tiling(a, S), NEW A \in SUBSET (S \ Ends), NEW lo \in S, NEW hi \in S,
         NEW i \in Int, NEW w \in Int, lo <= i, i + w <= hi
  PROVE  Beside(Rest(A, lo, hi), i, w)
<1> SUFFICES ASSUME NEW p \in Rest(A, lo, hi) PROVE p + 4 <= i \/ i + w <= p
  BY DEF Beside
<1>1. p \in S /\ p \in Int /\ Width(a, p) \in Int /\ Width(a, p) >= 4 /\ p \notin lo..(hi - 1)
  BY InnerIs DEF Rest
<1>2. lo \in Int /\ hi \in Int /\ (p < lo => p + Width(a, p) <= lo)
  BY <1>1, BlockIs DEF Tiling, Ordered
<1> QED
  BY <1>1, <1>2

\* The links of the other blocks are outside of words lo to hi - 1.
LEMMA LinksOutside ==
  ASSUME NEW a, NEW S, Tiling(a, S), NEW A \in SUBSET (S \ Ends), NEW lo \in S, NEW hi \in S,
         NEW p \in Rest(A, lo, hi)
  PROVE  p + 1 \in Words /\ p + 2 \in Words /\ p + 1 \notin lo..(hi - 1) /\ p + 2 \notin lo..(hi - 1)
<1>1. /\ p \in S /\ p \in Int /\ Width(a, p) \in Int /\ Width(a, p) >= 4 /\ p \notin lo..(hi - 1)
      /\ p >= 2 /\ p <= len - 6
  BY InnerIs DEF Rest
<1>2. lo \in Int /\ hi \in Int /\ (p < lo => p + Width(a, p) <= lo)
  BY <1>1, BlockIs DEF Tiling, Ordered
<1>3. len \in Int
  BY HeapAssumption
<1> QED
  BY <1>1, <1>2, <1>3 DEF Words

WasTaken(a, av, i, w, r) ==
  /\ r.a \in [Words -> Int] /\ r.av = av /\ r = [a |-> r.a, av |-> r.av]
  /\ r.a[i] = -w /\ r.a[i + w - 1] = -w
  /\ \A j \in Words : j # i /\ j # i + w - 1 => r.a[j] = a[j]
\* makeTaken writes the two tags.
LEMMA TakenIs ==
  ASSUME NEW a \in [Words -> Int], NEW av, NEW i \in Words, NEW w \in Int, i + w - 1 \in Words,
         NEW r, r = makeTaken([a |-> a, av |-> av], i, w)
  PROVE  WasTaken(a, av, i, w, r)
<1> DEFINE t == [a EXCEPT ![i] = -w, ![i + w - 1] = -w]
<1>1. r = [a |-> t, av |-> av]
  BY DEF makeTaken
<1>2. i \in Int /\ i + w - 1 \in Int
  BY DEF Words
<1>3. t \in [Words -> Int] /\ t[i] = -w /\ t[i + w - 1] = -w
  BY <1>2
<1>4. \A j \in Words : j # i /\ j # i + w - 1 => t[j] = a[j]
  OBVIOUS
<1> HIDE DEF t
<1> QED
  BY <1>1, <1>3, <1>4 DEF WasTaken

\* What malloc leaves, when the caller has written on its words.
Hands(a, S, it, ints, h, b) ==
  /\ b \in [Words -> Int]
  /\ \A j \in Words : j \notin (it + 1)..(it + ints - 2) => b[j] = h.a[j]
Given(a, S, it, h, b, T) ==
  /\ Settles(a, S, b, h.av, it, it + a[it], T)
  /\ b[it] < 0 /\ size(h, it) = -b[it] /\ {i \in T : b[i] < 0} = {it}

\* All of the block is taken (heap.cc:166-189).
LEMMA TakeAll ==
  ASSUME NEW a, NEW av, NEW S, Tiling(a, S), List(a, av, AvailIn(a, S)), Joined(a, S),
         NEW it \in AvailIn(a, S), NEW ints \in Int, ints >= 4, ints <= a[it], a[it] - ints < 4,
         NEW h, h = Take([a |-> a, av |-> av], it, ints), NEW b, Hands(a, S, it, ints, h, b)
  PROVE  Given(a, S, it, h, b, {it})
<1> DEFINE A == AvailIn(a, S)
           w == a[it]
           hi == it + w
<1>1. /\ A \in SUBSET (S \ Ends) /\ Apart(A) /\ a \in [Words -> Int] /\ it \in S /\ it \notin Ends
      /\ it \in A /\ List(a, av, A)
  BY AvailApart DEF Tiling
<1>2. w \in Int /\ w > 0 /\ Width(a, it) = w /\ it \in Words /\ it \in Int
  BY <1>1, BlockIs DEF AvailIn, Width
<1>3. w >= 4 /\ it >= 2 /\ hi \in S /\ hi <= len - 2 /\ len \in Int /\ it # 0
  BY <1>1, <1>2, InnerIs, HeapAssumption
<1>4. hi \notin A
  BY DEF Joined
<1>5. Rest(A, it, hi) = A \ {it}
  BY <1>1, <1>2, RestOfBlock
<1>6. PICK out : out = remove([a |-> a, av |-> av], it)
  OBVIOUS
<1>7. List(out.a, out.av, A \ {it}) /\ Changed(a, out.a, A \ {it}, 0, 0)
      /\ out.a \in [Words -> Int] /\ out = [a |-> out.a, av |-> out.av]
  <2> HIDE DEF A
  <2>1. WasRemoved(a, A, it, out)
    BY <1>1, <1>6, Removed
  <2> QED
    BY <2>1 DEF WasRemoved
<1>8. h = makeTaken(out, it, w)
  <2>1. size([a |-> a, av |-> av], it) = w
    BY <1>2 DEF size
  <2>2. ~(w - ints >= 4)
    BY <1>2
  <2> HIDE DEF w
  <2> QED
    BY <2>1, <2>2, <1>6 DEF Take
<1>9. hi - 1 \in Words
  BY <1>2, <1>3 DEF Words
<1> HIDE DEF A, w
<1>10. /\ h.a \in [Words -> Int] /\ h.av = out.av /\ h.a[it] = -w /\ h.a[hi - 1] = -w
       /\ \A j \in Words : j # it /\ j # hi - 1 => h.a[j] = out.a[j]
  <2>1. h = makeTaken([a |-> out.a, av |-> out.av], it, w)
    BY <1>7, <1>8
  <2>2. WasTaken(out.a, out.av, it, w, h)
    BY <2>1, <1>2, <1>7, <1>9, TakenIs
  <2> QED
    BY <2>2, <1>2 DEF WasTaken
<1>11. b \in [Words -> Int] /\ b[it] = -w /\ b[hi - 1] = -w
       /\ \A j \in Words : j \notin it..(hi - 1) => b[j] = out.a[j]
  <2>1. /\ b \in [Words -> Int]
        /\ \A j \in Words : j \notin (it + 1)..(it + ints - 2) => b[j] = h.a[j]
    BY DEF Hands
  <2>2. it \notin (it + 1)..(it + ints - 2) /\ hi - 1 \notin (it + 1)..(it + ints - 2)
        /\ \A j \in Words : j \notin it..(hi - 1) =>
             j \notin (it + 1)..(it + ints - 2) /\ j # it /\ j # hi - 1
    BY <1>2, <1>3 DEF w, Words
  <2> QED
    BY <2>1, <2>2, <1>2, <1>9, <1>10
<1>12. Changed(a, b, A, it, hi)
  <2> SUFFICES ASSUME NEW j \in Words, j \notin it..(hi - 1), Free2(A, j) PROVE b[j] = a[j]
    BY <1>11 DEF Changed
  <2>1. Free2(A \ {it}, j) /\ j \notin 0..(0 - 1)
    BY DEF Free2
  <2>2. out.a[j] = a[j]
    BY <2>1, <1>7 DEF Changed
  <2> QED
    BY <2>2, <1>11
<1>13. Piece(b, {it}, it, hi)
  <2>1. Width(b, it) = w
    BY <1>2, <1>11 DEF Width
  <2>2. it \in it..(hi - 1)
    BY <1>2
  <2> QED
    BY <2>1, <2>2, <1>2, <1>3, <1>11 DEF Piece, After, Ordered
<1>14. List(b, out.av, A \ {it})
  <2>1. PICK n, c : Linked(out.a, out.av, A \ {it}, n, c)
    BY <1>7 DEF List
  <2>2. \A p \in A \ {it} : b[p + 1] = out.a[p + 1] /\ b[p + 2] = out.a[p + 2]
    BY <1>1, <1>3, <1>5, <1>11, LinksOutside
  <2> QED
    BY <2>1, <2>2, ListFrame DEF List
<1>15. {i \in {it} : b[i] > 0} = {} /\ {i \in {it} : b[i] < 0} = {it} /\ b[it] < 0
  BY <1>2, <1>11
<1>16. Settles(a, S, b, h.av, it, hi, {it})
  <2>1. Rest(A, it, hi) \cup {i \in {it} : b[i] > 0} = A \ {it}
    BY <1>5, <1>15
  <2>2. it < hi
    BY <1>2
  <2> QED
    BY <2>1, <2>2, <1>1, <1>3, <1>4, <1>10, <1>12, <1>13, <1>14, <1>15, <1>2 DEF Settles, A
<1>17. size(h, it) = -b[it]
  BY <1>2, <1>10, <1>11 DEF size
<1> QED
  BY <1>15, <1>16, <1>17 DEF Given, w

\* Part of the block is taken, and the rest is in the list (heap.cc:166-189).
LEMMA TakeSome ==
  ASSUME NEW a, NEW av, NEW S, Tiling(a, S), List(a, av, AvailIn(a, S)), Joined(a, S),
         NEW it \in AvailIn(a, S), NEW ints \in Int, ints >= 4, a[it] - ints >= 4,
         NEW h, h = Take([a |-> a, av |-> av], it, ints), NEW b, Hands(a, S, it, ints, h, b)
  PROVE  Given(a, S, it, h, b, {it, it + ints})
<1> DEFINE A == AvailIn(a, S)
           B == A \ {it}
           w == a[it]
           hi == it + w
           mid == it + ints
           extra == w - ints
<1>1. /\ A \in SUBSET (S \ Ends) /\ Apart(A) /\ a \in [Words -> Int] /\ it \in S /\ it \notin Ends
      /\ it \in A /\ List(a, av, A)
  BY AvailApart DEF Tiling
<1>2. w \in Int /\ w > 0 /\ Width(a, it) = w /\ it \in Words /\ it \in Int
  BY <1>1, BlockIs DEF AvailIn, Width
<1>3. w >= 4 /\ it >= 2 /\ hi \in S /\ hi <= len - 2 /\ len \in Int /\ it # 0 /\ hi \in Int
  BY <1>1, <1>2, InnerIs, HeapAssumption
<1>4. hi \notin A
  BY DEF Joined
<1>5. Rest(A, it, hi) = B
  BY <1>1, <1>2, RestOfBlock
<1>6. PICK out : out = remove([a |-> a, av |-> av], it)
  OBVIOUS
<1>7. List(out.a, out.av, B) /\ Changed(a, out.a, B, 0, 0)
      /\ out.a \in [Words -> Int] /\ out = [a |-> out.a, av |-> out.av]
  <2> HIDE DEF A
  <2>1. WasRemoved(a, A, it, out)
    BY <1>1, <1>6, Removed
  <2> QED
    BY <2>1 DEF WasRemoved
<1>8. PICK some : some = makeTaken(out, it, ints)
  OBVIOUS
<1>9. h = makeAvail(some, mid, extra)
  <2>1. size([a |-> a, av |-> av], it) = w
    BY <1>2 DEF size
  <2>2. extra >= 4
    BY <1>2
  <2> HIDE DEF w
  <2> QED
    BY <2>1, <2>2, <1>6, <1>8 DEF Take
<1>10. /\ mid \in Words /\ mid \in 2..(len - 6) /\ mid - 1 \in Words /\ hi - 1 \in Words
       /\ extra \in Int /\ extra >= 4 /\ mid + extra = hi /\ mid \in Int /\ mid < hi
  BY <1>2, <1>3 DEF Words
<1> HIDE DEF A, B, w
<1>11. Apart(B) /\ \A p \in B : /\ p + 1 \in Words /\ p + 2 \in Words
                                /\ p + 1 \notin it..(hi - 1) /\ p + 2 \notin it..(hi - 1)
  BY <1>1, <1>3, <1>5, LinksOutside DEF Apart, B
<1>12. \A j \in it..(hi - 1) : Free2(B, j)
  BY <1>11 DEF Free2
<1>13. /\ some.a \in [Words -> Int] /\ some = [a |-> some.a, av |-> some.av] /\ some.av = out.av
       /\ some.a[it] = -ints /\ some.a[mid - 1] = -ints
       /\ \A j \in Words : j # it /\ j # mid - 1 => some.a[j] = out.a[j]
  <2>1. some = makeTaken([a |-> out.a, av |-> out.av], it, ints)
    BY <1>7, <1>8
  <2>2. WasTaken(out.a, out.av, it, ints, some)
    BY <2>1, <1>2, <1>7, <1>10, TakenIs
  <2> QED
    BY <2>2, <1>2, <1>10 DEF WasTaken
<1>14. List(some.a, some.av, B)
  <2>1. PICK n, c : Linked(out.a, out.av, B, n, c)
    BY <1>7 DEF List
  <2>2. it \in it..(hi - 1) /\ mid - 1 \in it..(hi - 1)
    BY <1>2, <1>3, <1>10
  <2>3. \A p \in B : some.a[p + 1] = out.a[p + 1] /\ some.a[p + 2] = out.a[p + 2]
    BY <2>2, <1>11, <1>13
  <2> QED
    BY <2>1, <2>3, <1>13, ListFrame DEF List
<1>15. /\ List(h.a, h.av, B \cup {mid}) /\ Changed(some.a, h.a, B, mid, hi)
       /\ h.a \in [Words -> Int] /\ h.a[mid] = extra /\ h.a[hi - 1] = extra
  <2>1. Beside(B, mid, extra)
    <3>1. it <= mid /\ mid + extra <= hi
      BY <1>2, <1>10
    <3> HIDE DEF mid, extra, hi
    <3>2. Beside(Rest(A, it, hi), mid, extra)
      BY <3>1, <1>1, <1>3, <1>10, BesideBlock
    <3> QED
      BY <3>2, <1>5
  <2>2. mid + extra <= len - 2
    BY <1>3, <1>10
  <2> HIDE DEF mid, extra, hi
  <2>3. h = makeAvail([a |-> some.a, av |-> some.av], mid, extra)
    BY <1>9, <1>13
  <2>4. WasInserted(some.a, B, mid, extra, h)
    BY <2>1, <2>2, <2>3, <1>10, <1>11, <1>13, <1>14, Inserted
  <2> QED
    BY <2>4, <1>10 DEF WasInserted
<1>16. h.a[it] = -ints /\ h.a[mid - 1] = -ints
  <2>1. it \in it..(hi - 1) /\ mid - 1 \in it..(hi - 1) /\ it \notin mid..(hi - 1) /\ mid - 1 \notin mid..(hi - 1)
    BY <1>2, <1>3, <1>10
  <2> HIDE DEF mid, hi
  <2> QED
    BY <2>1, <1>2, <1>10, <1>12, <1>13, <1>15 DEF Changed
<1>17. /\ b \in [Words -> Int]
       /\ \A j \in Words : j \notin (it + 1)..(mid - 2) => b[j] = h.a[j]
  BY <1>2, <1>10 DEF Hands
<1>18. b[it] = -ints /\ b[mid - 1] = -ints /\ b[mid] = extra /\ b[hi - 1] = extra
       /\ \A j \in Words : j \notin it..(hi - 1) => b[j] = h.a[j]
  <2>1. /\ it \notin (it + 1)..(mid - 2) /\ mid - 1 \notin (it + 1)..(mid - 2)
        /\ mid \notin (it + 1)..(mid - 2) /\ hi - 1 \notin (it + 1)..(mid - 2)
    BY <1>2, <1>3, <1>10
  <2>2. \A j \in Words : j \notin it..(hi - 1) => j \notin (it + 1)..(mid - 2)
    BY <1>2, <1>3, <1>10
  <2> HIDE DEF mid, hi, extra
  <2> QED
    BY <2>1, <2>2, <1>2, <1>10, <1>15, <1>16, <1>17
<1>19. Changed(a, b, A, it, hi)
  <2> SUFFICES ASSUME NEW j \in Words, j \notin it..(hi - 1), Free2(A, j) PROVE b[j] = a[j]
    BY <1>17 DEF Changed
  <2>1. Free2(B, j) /\ j \notin 0..(0 - 1)
    BY DEF Free2, B
  <2>2. j \notin mid..(hi - 1) /\ j # it /\ j # mid - 1
    BY <1>2, <1>3, <1>10
  <2> HIDE DEF mid, hi
  <2>3. out.a[j] = a[j] /\ h.a[j] = some.a[j]
    BY <2>1, <2>2, <1>7, <1>15 DEF Changed
  <2> QED
    BY <2>2, <2>3, <1>13, <1>18
<1>20. Piece(b, {it, mid}, it, hi)
  <2>1. Width(b, it) = ints /\ Width(b, mid) = extra
    BY <1>10, <1>18 DEF Width
  <2>2. it \in it..(hi - 1) /\ mid \in it..(hi - 1) /\ it < mid /\ it + ints = mid
    BY <1>2, <1>3, <1>10
  <2>3. b[it] \in Int /\ b[mid] \in Int
    BY <1>10, <1>18
  <2> HIDE DEF mid, hi, extra
  <2>4. After(b, {it, mid}, mid) /\ After(b, {it, mid}, hi) /\ Ordered(b, {it, mid})
    BY <2>1, <2>2, <1>2, <1>10 DEF After, Ordered
  <2> QED
    BY <2>1, <2>2, <2>3, <2>4, <1>10, <1>18 DEF Piece
<1>21. List(b, h.av, B \cup {mid})
  <2>1. PICK n, c : Linked(h.a, h.av, B \cup {mid}, n, c)
    BY <1>15 DEF List
  <2>2. \A p \in B : b[p + 1] = h.a[p + 1] /\ b[p + 2] = h.a[p + 2]
    BY <1>11, <1>18
  <2>3. b[mid + 1] = h.a[mid + 1] /\ b[mid + 2] = h.a[mid + 2]
    <3>1. /\ mid + 1 \in Words /\ mid + 2 \in Words
          /\ mid + 1 \notin (it + 1)..(mid - 2) /\ mid + 2 \notin (it + 1)..(mid - 2)
      BY <1>2, <1>3, <1>10 DEF Words
    <3> HIDE DEF mid
    <3> QED
      BY <3>1, <1>17
  <2> QED
    BY <2>1, <2>2, <2>3, ListFrame DEF List
<1>22. {i \in {it, mid} : b[i] > 0} = {mid} /\ {i \in {it, mid} : b[i] < 0} = {it} /\ b[it] < 0
  <2>1. ~(b[it] > 0) /\ b[it] < 0 /\ b[mid] > 0 /\ ~(b[mid] < 0)
    BY <1>10, <1>18
  <2> QED
    BY <2>1
<1>23. Settles(a, S, b, h.av, it, hi, {it, mid})
  <2>1. Rest(A, it, hi) \cup {i \in {it, mid} : b[i] > 0} = B \cup {mid}
    BY <1>5, <1>22
  <2>2. it < hi /\ ~(b[it] > 0)
    BY <1>2, <1>18
  <2>3. \A i \in {it, mid} : b[i] > 0 => i + b[i] = hi
    BY <2>2, <1>10, <1>18
  <2> HIDE DEF mid, hi
  <2> QED
    BY <2>1, <2>2, <2>3, <1>1, <1>3, <1>4, <1>19, <1>20, <1>21 DEF Settles, A
<1>24. size(h, it) = -b[it]
  BY <1>2, <1>16, <1>18 DEF size
<1> QED
  BY <1>22, <1>23, <1>24 DEF Given, w

\* Take leaves an array of as many words.
LEMMA TakeIsArray ==
  ASSUME NEW a, NEW av, NEW S, Tiling(a, S), List(a, av, AvailIn(a, S)),
         NEW it \in AvailIn(a, S), NEW ints \in Int, ints >= 4, ints <= a[it],
         NEW h, h = Take([a |-> a, av |-> av], it, ints)
  PROVE  h.a \in [Words -> Int]
<1> DEFINE A == AvailIn(a, S)
           w == a[it]
           extra == w - ints
           mid == it + ints
<1>1. A \subseteq S \ Ends /\ Apart(A) /\ a \in [Words -> Int] /\ it \in A /\ List(a, av, A)
  BY AvailApart DEF Tiling
<1>2. PICK out : out = remove([a |-> a, av |-> av], it)
  OBVIOUS
<1>3. List(out.a, out.av, A \ {it}) /\ out.a \in [Words -> Int] /\ out = [a |-> out.a, av |-> out.av]
  <2> HIDE DEF A
  <2>1. WasRemoved(a, A, it, out)
    BY <1>1, <1>2, Removed
  <2> QED
    BY <2>1 DEF WasRemoved
<1>4. out.av \in A \/ out.av = 0
  <2>1. PICK n, c : Linked(out.a, out.av, A \ {it}, n, c)
    BY <1>3 DEF List
  <2> QED
    BY <2>1 DEF Linked, Order
<1>5. w \in Int /\ w > 0 /\ it \in S /\ it \in Int /\ Width(a, it) = w
  BY <1>1, BlockIs DEF AvailIn, Width
<1>6. it >= 2 /\ it + w <= len - 2 /\ len \in Int
  BY <1>1, <1>5, InnerIs, HeapAssumption
<1>7. size([a |-> a, av |-> av], it) = w
  BY <1>5 DEF size
<1> HIDE DEF A, w
<1>8. it \in Words /\ it + w - 1 \in Words /\ it + ints - 1 \in Words
  BY <1>5, <1>6 DEF Words, w
<1>9. PICK all : all = makeTaken(out, it, w)
  OBVIOUS
<1>10. all.a \in [Words -> Int]
  <2>1. all = makeTaken([a |-> out.a, av |-> out.av], it, w)
    BY <1>3, <1>9
  <2>2. WasTaken(out.a, out.av, it, w, all)
    BY <2>1, <1>3, <1>5, <1>8, TakenIs
  <2> QED
    BY <2>2 DEF WasTaken
<1>11. PICK t : t = makeTaken(out, it, ints)
  OBVIOUS
<1>12. t.a \in [Words -> Int] /\ t.av = out.av /\ t = [a |-> t.a, av |-> t.av]
  <2>1. t = makeTaken([a |-> out.a, av |-> out.av], it, ints)
    BY <1>3, <1>11
  <2>2. WasTaken(out.a, out.av, it, ints, t)
    BY <2>1, <1>3, <1>8, TakenIs
  <2> QED
    BY <2>2 DEF WasTaken
<1>13. CASE extra >= 4
  <2> DEFINE a1 == [t.a EXCEPT ![mid] = extra, ![mid + extra - 1] = extra,
                               ![mid + 1] = t.av, ![mid + 2] = 0]
             a2 == IF t.av = 0 THEN a1 ELSE [a1 EXCEPT ![t.av + 2] = mid]
  <2>1. /\ mid \in Int /\ mid \in Words /\ mid + extra - 1 \in Words /\ mid + 1 \in Words
        /\ mid + 2 \in Words /\ extra \in Int
    BY <1>13, <1>5, <1>6 DEF Words
  <2>2. t.av \in Int /\ (t.av # 0 => t.av + 2 \in Words)
    BY <1>1, <1>4, <1>12, LinkWords
  <2>3. h = makeAvail(t, mid, extra)
    <3> HIDE DEF w
    <3> QED
      BY <1>2, <1>7, <1>11, <1>13 DEF Take
  <2>4. h = [a |-> a2, av |-> mid]
    BY <2>3 DEF makeAvail
  <2> HIDE DEF mid, extra
  <2>5. a1 \in [Words -> Int]
    BY <2>1, <2>2, <1>12
  <2> HIDE DEF a1
  <2>6. a2 \in [Words -> Int]
    BY <2>1, <2>2, <2>5
  <2> HIDE DEF a2
  <2> QED
    BY <2>4, <2>6
<1>14. CASE ~(extra >= 4)
  <2>1. h = all
    <3> HIDE DEF w
    <3> QED
      BY <1>2, <1>7, <1>9, <1>14 DEF Take
  <2> QED
    BY <2>1, <1>10
<1> QED
  BY <1>13, <1>14

\* A call of malloc.
LEMMA MallocKeeps ==
  ASSUME NEW S, Good(array, avail, live, S), NEW bytes \in Requests, Malloc(bytes)
  PROVE  \E N \in SUBSET Words : Good(array', avail', live', N)
<1> DEFINE A == AvailIn(array, S)
<1>1. PICK ints : ints = Ints(bytes)
  OBVIOUS
<1>2. PICK x : x = (bytes + 3) \div 4
  OBVIOUS
<1>3. ints \in Int /\ ints >= 4 /\ x \in Int /\ x <= ints - 2
  BY <1>1, <1>2, IntsIs
<1>4. PICK it : it = Best(heap, ints)
  OBVIOUS
<1>5. PICK h : h = Take(heap, it, ints)
  OBVIOUS
<1>6. /\ Fits(heap, ints) # {} /\ avail' = h.av
      /\ array' = [i \in DOMAIN h.a |-> IF i \in (it + 1)..(it + x) THEN Data ELSE h.a[i]]
      /\ live' = live \cup {[at |-> it, words |-> size(h, it)]}
  BY <1>1, <1>2, <1>4, <1>5 DEF Malloc
<1>7. Tiling(array, S) /\ List(array, avail, A) /\ live = Held(array, S) /\ Joined(array, S)
  BY DEF Good
<1>8. it \in A /\ array[it] >= ints
  BY <1>4, <1>6, <1>7, BestIs DEF heap
<1>9. h.a \in [Words -> Int]
  BY <1>3, <1>5, <1>7, <1>8, TakeIsArray DEF heap
<1>10. it \in S /\ it \in Int /\ array[it] \in Int /\ it \notin Ends /\ Width(array, it) = array[it]
  <2>1. it \in S /\ array[it] > 0
    BY <1>8 DEF AvailIn
  <2>2. it \notin Ends
    BY <1>7, <1>8, AvailApart
  <2>3. it \in Int /\ array[it] \in Int
    BY <2>1, <1>7, BlockIs
  <2> QED
    BY <2>1, <2>2, <2>3 DEF Width
<1>11. Hands(array, S, it, ints, h, array')
  <2>1. array' \in [Words -> Int]
    BY <1>6, <1>9, HeapAssumption
  <2>2. \A j \in Words : j \notin (it + 1)..(it + ints - 2) => j \notin (it + 1)..(it + x)
    BY <1>3, <1>10 DEF Words
  <2> QED
    BY <2>1, <2>2, <1>6, <1>9 DEF Hands
<1>12. PICK T : Given(array, S, it, h, array', T)
  <2>1. CASE array[it] - ints < 4
    <3>1. Given(array, S, it, h, array', {it})
      BY <2>1, <1>3, <1>5, <1>7, <1>8, <1>11, TakeAll DEF heap
    <3> QED
      BY <3>1
  <2>2. CASE array[it] - ints >= 4
    <3>1. Given(array, S, it, h, array', {it, it + ints})
      BY <2>2, <1>3, <1>5, <1>7, <1>8, <1>11, TakeSome DEF heap
    <3> QED
      BY <3>1
  <2> QED
    BY <2>1, <2>2, <1>3, <1>10
<1>13. /\ Settles(array, S, array', h.av, it, it + array[it], T)
       /\ size(h, it) = -array'[it] /\ {i \in T : array'[i] < 0} = {it}
  BY <1>12 DEF Given
<1>14. PICK N \in SUBSET Words :
         /\ Tiling(array', N) /\ List(array', h.av, AvailIn(array', N)) /\ Joined(array', N)
         /\ InUse(array', N) = Rest(InUse(array, S), it, it + array[it]) \cup {i \in T : array'[i] < 0}
         /\ \A i \in Rest(S, it, it + array[it]) : array'[i] = array[i]
  BY <1>7, <1>13, Settled
<1>15. \A X \in SUBSET S : Rest(X, it, it + array[it]) = X \ {it}
  <2>1. PICK hi : hi = it + Width(array, it)
    OBVIOUS
  <2>2. Tiling(array, S) /\ it \in S
    BY <1>7, <1>10
  <2>3. ASSUME NEW X \in SUBSET S PROVE Rest(X, it, hi) = X \ {it}
    BY <2>1, <2>2, RestOfBlock
  <2> QED
    BY <2>1, <2>3, <1>10
<1>16. InUse(array, S) \subseteq S /\ it \notin InUse(array, S)
  BY <1>8, <1>10 DEF InUse, AvailIn
<1>17. InUse(array', N) = InUse(array, S) \cup {it}
       /\ \A i \in InUse(array, S) : array'[i] = array[i]
  BY <1>13, <1>14, <1>15, <1>16
<1>18. live' = Held(array', N)
  <2>1. live' = {[at |-> i, words |-> -array[i]] : i \in InUse(array, S)}
                \cup {[at |-> it, words |-> -array'[it]]}
    BY <1>6, <1>7, <1>13 DEF Held
  <2> QED
    BY <2>1, <1>17 DEF Held
<1> QED
  BY <1>6, <1>14, <1>18 DEF Good

\* A neighbour leaves the list if it was in it.
LEMMA MaybeRemoved ==
  ASSUME NEW a \in [Words -> Int], NEW av, NEW A, List(a, av, A), Apart(A), NEW j,
         NEW r, r = IF j \in A THEN remove([a |-> a, av |-> av], j) ELSE [a |-> a, av |-> av]
  PROVE  WasRemoved(a, A, j, r)
<1>1. CASE j \in A
  BY <1>1, Removed
<1>2. CASE j \notin A
  <2>1. A \ {j} = A /\ r = [a |-> a, av |-> av]
    BY <1>2
  <2>2. Changed(a, a, A, 0, 0)
    BY DEF Changed
  <2>3. r.a = a /\ r.av = av
    BY <2>1
  <2> QED
    BY <2>1, <2>2, <2>3 DEF WasRemoved
<1> QED
  BY <1>1, <1>2

\* The neighbours of a block in use, and where the block that they form begins and ends.
Around(a, S, i, l, r, lo, hi) ==
  /\ l \in S /\ l + Width(a, l) = i /\ r \in S /\ r = i + Width(a, i)
  /\ lo = IF l \in AvailIn(a, S) THEN l ELSE i
  /\ hi = IF r \in AvailIn(a, S) THEN r + Width(a, r) ELSE r

\* The block that they form, among the others.
LEMMA AroundIs ==
  ASSUME NEW a, NEW S, Tiling(a, S), Joined(a, S), NEW i \in InUse(a, S), NEW l, NEW r, NEW lo, NEW hi,
         Around(a, S, i, l, r, lo, hi)
  PROVE  /\ lo \in S /\ hi \in S /\ lo \in 2..(len - 6) /\ lo \in Int /\ hi \in Int /\ hi <= len - 2
         /\ lo + 4 <= hi /\ r # l
         /\ hi \notin AvailIn(a, S) /\ \A p \in AvailIn(a, S) : p + a[p] # lo
         /\ Rest(AvailIn(a, S), lo, hi) = (AvailIn(a, S) \ {l}) \ {r}
         /\ Rest(InUse(a, S), lo, hi) = InUse(a, S) \ {i}
<1> DEFINE A == AvailIn(a, S)
<1>1. /\ l \in S /\ l + Width(a, l) = i /\ r \in S /\ r = i + Width(a, i)
      /\ lo = (IF l \in A THEN l ELSE i) /\ hi = IF r \in A THEN r + Width(a, r) ELSE r
  BY DEF Around
<1>2. i \in S /\ i \notin Ends /\ i \notin A /\ A \subseteq S \ Ends
  <2>1. i \in S /\ a[i] < 0 /\ i \notin Ends
    BY DEF InUse
  <2>2. a[i] \in Int
    BY <2>1, BlockIs
  <2>3. i \notin A
    BY <2>1, <2>2 DEF AvailIn
  <2>4. A \subseteq S \ Ends
    BY AvailApart
  <2> QED
    BY <2>1, <2>3, <2>4
<1>3. \A p \in S : p \in Int /\ Width(a, p) \in Int /\ Width(a, p) >= 2 /\ p <= len - 2
  BY BlockIs
<1>4. \A p \in S \ Ends : Width(a, p) >= 4 /\ p >= 2 /\ p <= len - 6 /\ p + Width(a, p) \in S
  BY InnerIs
<1>5. \A p \in A : Width(a, p) = a[p]
  <2> SUFFICES ASSUME NEW p \in A PROVE Width(a, p) = a[p]
    OBVIOUS
  <2>1. p \in S /\ a[p] > 0 /\ a[p] \in Int
    BY BlockIs DEF AvailIn
  <2> QED
    BY <2>1 DEF Width
<1>6. len \in Int
  BY HeapAssumption
<1> HIDE DEF A
<1>7. lo \in S /\ hi \in S /\ lo \notin Ends
  BY <1>1, <1>2, <1>4
<1>8. lo \in 2..(len - 6) /\ lo \in Int /\ hi \in Int /\ hi <= len - 2
  BY <1>3, <1>4, <1>6, <1>7
<1>9. lo + 4 <= hi /\ r # l
  BY <1>1, <1>2, <1>3, <1>4
<1>10. hi \notin A
  <2>1. CASE r \in A
    <3>1. r + a[r] \notin A
      BY <2>1 DEF Joined, A
    <3> QED
      BY <2>1, <3>1, <1>1, <1>5
  <2>2. CASE r \notin A
    BY <2>2, <1>1
  <2> QED
    BY <2>1, <2>2
<1>11. ASSUME NEW p \in A PROVE p + a[p] # lo
  <2>1. p + a[p] \notin A
    BY DEF Joined, A
  <2>2. p + a[p] = i => p = l
    <3>1. p \in S /\ p + Width(a, p) = p + a[p]
      BY <1>2, <1>5
    <3> QED
      BY <3>1, <1>1, OneBefore
  <2> QED
    BY <2>1, <2>2, <1>1
<1>12. ASSUME NEW p \in S
       PROVE  p \in lo..(hi - 1) <=> p = i \/ (l \in A /\ p = l) \/ (r \in A /\ p = r)
  <2>1. /\ (l <= p /\ p < l + Width(a, l) => p = l)
        /\ (i <= p /\ p < i + Width(a, i) => p = i)
        /\ (r <= p /\ p < r + Width(a, r) => p = r)
    BY <1>1, <1>2, Inside
  <2>2. /\ l \in Int /\ i \in Int /\ r \in Int /\ p \in Int /\ Width(a, l) \in Int /\ Width(a, i) \in Int
        /\ Width(a, r) \in Int /\ Width(a, l) >= 2 /\ Width(a, i) >= 2 /\ Width(a, r) >= 2
    BY <1>1, <1>2, <1>3
  <2>3. CASE l \in A /\ r \in A
    BY <2>1, <2>2, <2>3, <1>1
  <2>4. CASE l \in A /\ r \notin A
    BY <2>1, <2>2, <2>4, <1>1
  <2>5. CASE l \notin A /\ r \in A
    BY <2>1, <2>2, <2>5, <1>1
  <2>6. CASE l \notin A /\ r \notin A
    BY <2>1, <2>2, <2>6, <1>1
  <2> QED
    BY <2>3, <2>4, <2>5, <2>6
<1>13. Rest(A, lo, hi) = (A \ {l}) \ {r}
  <2>1. \A p \in A : p \in lo..(hi - 1) <=> p = l \/ p = r
    BY <1>2, <1>12
  <2> QED
    BY <2>1 DEF Rest
<1>14. Rest(InUse(a, S), lo, hi) = InUse(a, S) \ {i}
  <2>1. \A p \in InUse(a, S) : p \in S /\ p \notin A
    <3> SUFFICES ASSUME NEW p \in InUse(a, S) PROVE p \in S /\ p \notin A
      OBVIOUS
    <3>1. p \in S /\ a[p] < 0
      BY DEF InUse
    <3>2. a[p] \in Int
      BY <3>1, BlockIs
    <3> QED
      BY <3>1, <3>2 DEF AvailIn, A
  <2>2. \A p \in InUse(a, S) : p \in lo..(hi - 1) <=> p = i
    BY <2>1, <1>12
  <2> QED
    BY <2>2 DEF Rest
<1> QED
  BY <1>7, <1>8, <1>9, <1>10, <1>11, <1>13, <1>14 DEF A

\* A call of free.
LEMMA FreeKeeps ==
  ASSUME NEW S, Good(array, avail, live, S), NEW i \in InUse(array, S), Free(i)
  PROVE  \E N \in SUBSET Words : Good(array', avail', live', N)
<1> DEFINE A == AvailIn(array, S)
<1>1. /\ Tiling(array, S) /\ List(array, avail, A) /\ live = Held(array, S) /\ Joined(array, S)
      /\ array \in [Words -> Int] /\ A \in SUBSET (S \ Ends) /\ Apart(A)
  BY AvailApart DEF Good, Tiling
<1>2. i \in S /\ array[i] < 0 /\ i \notin Ends
  BY DEF InUse
<1>3. PICK l \in S : l + Width(array, l) = i
  <2>1. i \in S \ {0}
    BY <1>2 DEF Ends
  <2> QED
    BY <1>1, <2>1 DEF Tiling, After
<1>4. left(heap, i) = l
  <2>1. l \in Int /\ Width(array, l) \in Int /\ array[l + Width(array, l) - 1] = array[l]
    BY <1>1, BlockIs
  <2>2. array[i - 1] = array[l]
    BY <2>1, <1>3
  <2>3. size(heap, i - 1) = Width(array, l)
    BY <2>2, SizeIs DEF Width
  <2> QED
    BY <2>1, <2>3, <1>3 DEF left
<1>5. PICK r \in S : r = i + Width(array, i)
  BY <1>1, <1>2, InnerIs
<1>6. right(heap, i) = r
  BY <1>5, SizeIs
<1>7. PICK lo, hi : /\ lo = IF l \in A THEN l ELSE i
                    /\ hi = IF r \in A THEN r + Width(array, r) ELSE r
  OBVIOUS
<1>8. Around(array, S, i, l, r, lo, hi)
  BY <1>3, <1>5, <1>7 DEF Around
<1>9. /\ lo \in S /\ hi \in S /\ lo \in 2..(len - 6) /\ lo \in Int /\ hi \in Int /\ hi <= len - 2
      /\ lo + 4 <= hi /\ r # l
      /\ hi \notin A /\ \A p \in A : p + array[p] # lo
      /\ Rest(A, lo, hi) = (A \ {l}) \ {r}
      /\ Rest(InUse(array, S), lo, hi) = InUse(array, S) \ {i}
  BY <1>1, <1>8, AroundIs
<1> DEFINE A1 == A \ {l}
           A2 == A1 \ {r}
           n == hi - lo
<1>10. PICK h1 : h1 = IF isAvail(heap, l) THEN remove(heap, l) ELSE heap
  OBVIOUS
<1>11. PICK h2 : h2 = IF isAvail(h1, r) THEN remove(h1, r) ELSE h1
  OBVIOUS
<1>12. PICK h : h = makeAvail(h2, lo, n)
  OBVIOUS
<1>13. \A p \in S : isAvail(heap, p) <=> p \in A
  BY SizeIs DEF AvailIn
<1>14. heap = [a |-> array, av |-> avail]
  BY DEF heap
<1> HIDE DEF A
<1>15. WasRemoved(array, A, l, h1)
  BY <1>1, <1>3, <1>10, <1>13, <1>14, MaybeRemoved
<1>16. List(h1.a, h1.av, A1) /\ Changed(array, h1.a, A1, 0, 0)
       /\ h1.a \in [Words -> Int] /\ h1 = [a |-> h1.a, av |-> h1.av]
  BY <1>15 DEF WasRemoved
<1>17. isAvail(h1, r) <=> r \in A1
  <2>1. A1 \in SUBSET (S \ Ends) /\ r \in Words
    BY <1>1, BlockIs
  <2>2. Free2(A1, r) /\ r \notin 0..(0 - 1)
    <3> HIDE DEF A1
    <3>1. Free2(A1, r)
      BY <2>1, <1>1, TagsNotLinks
    <3> QED
      BY <3>1
  <2>3. h1.a[r] = array[r]
    BY <2>1, <2>2, <1>16 DEF Changed
  <2>4. array[r] > 0 <=> r \in A
    BY DEF A, AvailIn
  <2> QED
    BY <2>3, <2>4, <1>9 DEF isAvail
<1>18. WasRemoved(h1.a, A1, r, h2)
  <2>1. Apart(A1)
    BY <1>1 DEF Apart
  <2> HIDE DEF A1
  <2> QED
    BY <2>1, <1>11, <1>16, <1>17, MaybeRemoved
<1>19. List(h2.a, h2.av, A2) /\ Changed(h1.a, h2.a, A2, 0, 0)
       /\ h2.a \in [Words -> Int] /\ h2 = [a |-> h2.a, av |-> h2.av]
  BY <1>18 DEF WasRemoved
<1>20. WasInserted(h2.a, A2, lo, n, h)
  <2>1. Apart(A2) /\ n \in Int /\ n >= 4 /\ lo + n <= len - 2 /\ lo + n = hi
    BY <1>1, <1>9 DEF Apart
  <2>2. Beside(A2, lo, n)
    <3>1. lo <= lo /\ lo + n <= hi
      BY <1>9
    <3> HIDE DEF n
    <3>2. Beside(Rest(A, lo, hi), lo, n)
      BY <3>1, <2>1, <1>1, <1>9, BesideBlock
    <3> QED
      BY <3>2, <1>9
  <2>3. h = makeAvail([a |-> h2.a, av |-> h2.av], lo, n)
    BY <1>12, <1>19
  <2> HIDE DEF A2, n
  <2> QED
    BY <2>1, <2>2, <2>3, <1>9, <1>19, Inserted
<1>21. /\ List(h.a, h.av, A2 \cup {lo}) /\ Changed(h2.a, h.a, A2, lo, hi)
       /\ h.a \in [Words -> Int] /\ h.a[lo] = n /\ h.a[hi - 1] = n
  <2>1. lo + n = hi /\ lo \in Int /\ hi \in Int /\ n \in Int
    BY <1>9
  <2> HIDE DEF A2, n
  <2>2. /\ List(h.a, h.av, A2 \cup {lo}) /\ Changed(h2.a, h.a, A2, lo, lo + n)
        /\ h.a \in [Words -> Int] /\ h.a[lo] = n /\ h.a[lo + n - 1] = n
    BY <1>20, Zenon DEF WasInserted
  <2> QED
    BY <2>1, <2>2
<1>22. Changed(array, h.a, A, lo, hi)
  <2> SUFFICES ASSUME NEW j \in Words, j \notin lo..(hi - 1), Free2(A, j) PROVE h.a[j] = array[j]
    BY <1>21 DEF Changed
  <2>1. Free2(A1, j) /\ Free2(A2, j) /\ j \notin 0..(0 - 1)
    BY DEF Free2
  <2> HIDE DEF A1, A2
  <2> QED
    BY <2>1, <1>16, <1>19, <1>21 DEF Changed
<1>23. Piece(h.a, {lo}, lo, hi)
  <2>1. n \in Int /\ n >= 4 /\ lo + n = hi /\ lo \in lo..(hi - 1)
    BY <1>9
  <2> HIDE DEF n
  <2>2. Width(h.a, lo) = n
    BY <2>1, <1>21 DEF Width
  <2> QED
    BY <2>1, <2>2, <1>9, <1>21 DEF Piece, After, Ordered
<1>24. {p \in {lo} : h.a[p] > 0} = {lo} /\ {p \in {lo} : h.a[p] < 0} = {}
  BY <1>9, <1>21
<1>25. Settles(array, S, h.a, h.av, lo, hi, {lo})
  <2>1. lo # 0 /\ lo < hi /\ lo + h.a[lo] = hi
    BY <1>9, <1>21
  <2>2. Rest(A, lo, hi) \cup {p \in {lo} : h.a[p] > 0} = A2 \cup {lo}
    BY <1>9, <1>24
  <2> HIDE DEF A1, A2, n
  <2> QED
    BY <2>1, <2>2, <1>9, <1>21, <1>22, <1>23 DEF Settles, A
<1>26. PICK N \in SUBSET Words :
         /\ Tiling(h.a, N) /\ List(h.a, h.av, AvailIn(h.a, N)) /\ Joined(h.a, N)
         /\ InUse(h.a, N) = Rest(InUse(array, S), lo, hi) \cup {p \in {lo} : h.a[p] < 0}
         /\ \A p \in Rest(S, lo, hi) : h.a[p] = array[p]
  BY <1>1, <1>25, Settled
<1>27. InUse(h.a, N) = InUse(array, S) \ {i} /\ \A p \in InUse(h.a, N) : h.a[p] = array[p]
  <2>1. InUse(h.a, N) = Rest(InUse(array, S), lo, hi)
    BY <1>24, <1>26
  <2>2. InUse(array, S) \subseteq S
    BY DEF InUse
  <2> QED
    BY <2>1, <2>2, <1>9, <1>26 DEF Rest
<1>28. /\ array' = h.a /\ avail' = h.av /\ live' = {b \in live : b.at # i}
  <2> DEFINE m == size(heap, i) + (IF isAvail(heap, l) THEN size(heap, l) ELSE 0)
                                + (IF isAvail(heap, r) THEN size(heap, r) ELSE 0)
  <2>1. (isAvail(heap, l) <=> l \in A) /\ (isAvail(heap, r) <=> r \in A)
    BY <1>13
  <2>2. m = n
    <3>1. /\ i \in Int /\ l \in Int /\ r \in Int /\ Width(array, i) \in Int
          /\ Width(array, l) \in Int /\ Width(array, r) \in Int
      BY <1>1, <1>2, BlockIs
    <3>2. size(heap, i) = Width(array, i) /\ size(heap, l) = Width(array, l)
          /\ size(heap, r) = Width(array, r)
      BY SizeIs
    <3> QED
      BY <3>1, <3>2, <2>1, <1>3, <1>5, <1>7
  <2>3. lo = IF isAvail(heap, l) THEN l ELSE i
    BY <2>1, <1>7
  <2> HIDE DEF n
  <2> QED
    BY <2>2, <2>3, <1>4, <1>6, <1>10, <1>11, <1>12 DEF Free
<1>29. live' = Held(h.a, N)
  <2>1. live' = {[at |-> p, words |-> -array[p]] : p \in InUse(array, S) \ {i}}
    BY <1>1, <1>28 DEF Held
  <2> QED
    BY <2>1, <1>27 DEF Held
<1> QED
  BY <1>26, <1>28, <1>29 DEF Good

-----------------------------------------------------------------------------
(***************************************************************************)
(* heapInit, and what the invariant says.                                  *)
(***************************************************************************)
\* The heap that heapInit makes: one available block between the two ends.
LEMMA InitIs ==
  ASSUME Init
  PROVE  /\ array \in [Words -> Int] /\ avail = 2 /\ live = {}
         /\ array[0] = -2 /\ array[1] = -2 /\ array[2] = len - 4 /\ array[3] = 0 /\ array[4] = 0
         /\ array[len - 3] = len - 4 /\ array[len - 2] = -2 /\ array[len - 1] = -2
<1>1. len \in Int /\ len >= 8 /\ 0 \in Words /\ 1 \in Words /\ 2 \in Words /\ 3 \in Words /\ 4 \in Words
      /\ len - 3 \in Words /\ len - 2 \in Words /\ len - 1 \in Words
  BY HeapAssumption DEF Words
<1> DEFINE z == [i \in Words |-> 0]
           t1 == [z EXCEPT ![0] = -2, ![0 + 2 - 1] = -2]
           t2 == [t1 EXCEPT ![2] = len - 4, ![2 + (len - 4) - 1] = len - 4, ![2 + 1] = 0, ![2 + 2] = 0]
           t3 == [t2 EXCEPT ![len - 2] = -2, ![(len - 2) + 2 - 1] = -2]
<1>2. array = t3 /\ avail = 2 /\ live = {}
  BY DEF Init, makeTaken, makeAvail, Words
<1>3. z \in [Words -> Int]
  OBVIOUS
<1> HIDE DEF z
<1>4. t1 \in [Words -> Int] /\ t1[0] = -2 /\ t1[1] = -2
  BY <1>1, <1>3
<1> HIDE DEF t1
<1>5. /\ t2 \in [Words -> Int] /\ t2[0] = -2 /\ t2[1] = -2 /\ t2[2] = len - 4 /\ t2[3] = 0 /\ t2[4] = 0
      /\ t2[len - 3] = len - 4
  BY <1>1, <1>4
<1> HIDE DEF t2
<1>6. /\ t3 \in [Words -> Int] /\ t3[0] = -2 /\ t3[1] = -2 /\ t3[2] = len - 4 /\ t3[3] = 0 /\ t3[4] = 0
      /\ t3[len - 3] = len - 4 /\ t3[len - 2] = -2 /\ t3[len - 1] = -2
  BY <1>1, <1>5
<1> HIDE DEF t3
<1> QED
  BY <1>2, <1>6

\* It is as the invariant says.
LEMMA InitGood ==
  ASSUME Init
  PROVE  \E S \in SUBSET Words : Good(array, avail, live, S)
<1> DEFINE S == {0, 2, len - 2}
           c == [k \in 1..1 |-> 2]
<1>1. len \in Int /\ len >= 8
  BY HeapAssumption
<1>2. /\ array \in [Words -> Int] /\ avail = 2 /\ live = {}
      /\ array[0] = -2 /\ array[1] = -2 /\ array[2] = len - 4 /\ array[3] = 0 /\ array[4] = 0
      /\ array[len - 3] = len - 4 /\ array[len - 2] = -2 /\ array[len - 1] = -2
  BY InitIs
<1>3. Width(array, 0) = 2 /\ Width(array, 2) = len - 4 /\ Width(array, len - 2) = 2
  <2>0. \A x \in Int : x + 2 = 0 => x < 0 /\ -x = 2
    OBVIOUS
  <2>1. Width(array, 0) = 2
    <3>0. array[0] \in Int /\ array[0] + 2 = 0
      BY <1>2
    <3>1. array[0] < 0 /\ -array[0] = 2
      BY <2>0, <3>0
    <3> QED
      BY <3>1 DEF Width
  <2>2. Width(array, 2) = len - 4
    BY <1>1, <1>2 DEF Width
  <2>3. Width(array, len - 2) = 2
    <3>0. array[len - 2] \in Int /\ array[len - 2] + 2 = 0
      BY <1>2
    <3>1. array[len - 2] < 0 /\ -array[len - 2] = 2
      BY <2>0, <3>0
    <3> QED
      BY <3>1 DEF Width
  <2> QED
    BY <2>1, <2>2, <2>3
<1>4. Block(array, S, 0) /\ Block(array, S, 2) /\ Block(array, S, len - 2)
  BY <1>1, <1>2, <1>3 DEF Block, Ends
<1>5. After(array, S, 2) /\ After(array, S, len - 2)
  BY <1>1, <1>3 DEF After
<1>6. Ordered(array, S)
  BY <1>1, <1>3 DEF Ordered
<1>7. Tiling(array, S)
  <2>1. S \subseteq 0..(len - 2) /\ Ends \subseteq S
    BY <1>1 DEF Ends
  <2>2. \A i \in S : Block(array, S, i)
    BY <1>4
  <2>3. \A i \in S \ {0} : After(array, S, i)
    BY <1>5
  <2> HIDE DEF S
  <2> QED
    BY <2>1, <2>2, <2>3, <1>2, <1>6 DEF Tiling
<1>8. AvailIn(array, S) = {2} /\ InUse(array, S) = {}
  BY <1>1, <1>2 DEF AvailIn, InUse, Ends
<1>9. Linked(array, avail, {2}, 1, c)
  BY <1>1, <1>2 DEF Linked, Order, Links, Next, Prev
<1>10. Joined(array, S)
  <2>1. 2 + array[2] \notin {2}
    BY <1>1, <1>2
  <2> HIDE DEF S
  <2> QED
    BY <2>1, <1>8 DEF Joined
<1>11. S \in SUBSET Words
  BY <1>1 DEF Words
<1> HIDE DEF S
<1> QED
  BY <1>2, <1>7, <1>8, <1>9, <1>10, <1>11 DEF Good, List, Held

\* The invariant holds at all times (heap.cc).
THEOREM HeapInvariance == HeapSpec => []HeapInv
<1>1. Init => HeapInv
  BY InitGood DEF HeapInv
<1>2. HeapInv /\ [HeapNext]_heapVars => HeapInv'
  <2> SUFFICES ASSUME HeapInv, [HeapNext]_heapVars PROVE HeapInv'
    OBVIOUS
  <2>1. PICK S \in SUBSET Words : Good(array, avail, live, S)
    BY DEF HeapInv
  <2>2. CASE UNCHANGED heapVars
    BY <2>1, <2>2 DEF HeapInv, heapVars
  <2>3. ASSUME NEW n \in Requests, Malloc(n) PROVE HeapInv'
    BY <2>1, <2>3, MallocKeeps DEF HeapInv
  <2>4. ASSUME NEW b \in live, Free(b.at) PROVE HeapInv'
    <3>1. PICK i \in InUse(array, S) : b = [at |-> i, words |-> -array[i]]
      BY <2>1 DEF Good, Held
    <3>2. b.at = i
      BY <3>1
    <3> QED
      BY <2>1, <2>4, <3>1, <3>2, FreeKeeps DEF HeapInv
  <2> QED
    BY <2>2, <2>3, <2>4 DEF HeapNext
<1> QED
  BY <1>1, <1>2, PTL DEF HeapSpec

\* The list as the runs check it.
LEMMA GoodListIsAvail ==
  ASSUME NEW S, Good(array, avail, live, S), Starts = S, AvailBlocks = AvailIn(array, S)
  PROVE  ListIsAvail /\ avail \in 0..(len - 1)
<1> DEFINE A == AvailIn(array, S)
<1>1. PICK n, c : Linked(array, avail, A, n, c)
  BY DEF Good, List
<1>2. Apart(A)
  BY AvailApart DEF Good
<1>3. Chain(heap) = c
  <2>1. heap = [a |-> array, av |-> avail]
    BY DEF heap
  <2> HIDE DEF A
  <2> QED
    BY <2>1, <1>1, <1>2, ChainIs
<1>4. /\ n \in Nat /\ c \in [1..n -> A] /\ avail = IF n = 0 THEN 0 ELSE c[1]
      /\ \A i \in A : \E k \in 1..n : c[k] = i
      /\ \A j, k \in 1..n : c[j] = c[k] => j = k
      /\ \A k \in 1..n : array[c[k] + 2] = Prev(c, k)
  BY <1>1 DEF Linked, Order, Links
<1> HIDE DEF A
<1>5. {c[k] : k \in DOMAIN c} = A /\ DOMAIN c = 1..n
  BY <1>4
<1>6. Len(c) = n
  <2>1. c \in Seq(A)
    BY <1>4
  <2> QED
    BY <2>1, <1>4
<1>7. Cardinality(A) = n
  <2>1. IsFiniteSet(1..n) /\ Cardinality(1..n) = n
    BY <1>4, FS_Interval
  <2>2. c \in Bijection(1..n, A)
    BY <1>4 DEF Bijection, Injection, Surjection, IsInjective
  <2>3. ExistsBijection(1..n, A)
    BY <2>2 DEF ExistsBijection
  <2> QED
    BY <2>1, <2>3, FS_Bijection
<1>8. \A k \in DOMAIN c : array[c[k] + 2] = IF k = 1 THEN 0 ELSE c[k - 1]
  BY <1>4, <1>5 DEF Prev
<1>9. avail \in 0..(len - 1)
  BY <1>2, <1>4, HeapAssumption DEF Apart
<1> QED
  BY <1>3, <1>5, <1>6, <1>7, <1>8, <1>9 DEF ListIsAvail, A

\* What the runs check follows.
LEMMA GoodIsConsistent ==
  ASSUME NEW S, Good(array, avail, live, S)
  PROVE  HeapConsistent
<1> DEFINE A == AvailIn(array, S)
<1>1. /\ Tiling(array, S) /\ live = Held(array, S) /\ Joined(array, S)
      /\ array \in [Words -> Int] /\ A \subseteq S \ Ends
  BY AvailApart DEF Good, Tiling
<1>2. Starts = S
  BY <1>1, StartsAre
<1>3. AvailBlocks = A
  BY <1>2, SizeIs DEF AvailBlocks, AvailIn
<1>4. \A i \in S : /\ array[i] \in Int /\ (i \notin Ends => array[i] # 0)
                   /\ i + Width(array, i) <= len /\ array[i + Width(array, i) - 1] = array[i]
  BY <1>1, BlockIs, InnerIs
<1>5. Tiled
  <2>1. ASSUME NEW i \in S PROVE right(heap, i) <= len /\ array[right(heap, i) - 1] = array[i]
    <3>1. PICK e : e = i + Width(array, i)
      OBVIOUS
    <3>2. right(heap, i) = e
      BY <3>1, SizeIs
    <3>3. e <= len /\ array[e - 1] = array[i]
      BY <3>1, <1>1, BlockIs
    <3> QED
      BY <3>2, <3>3
  <2> QED
    BY <2>1, <1>2 DEF Tiled
<1>6. Taken = InUse(array, S)
  <2>1. \A i \in S \ Ends : ~isAvail(heap, i) <=> array[i] < 0
    BY <1>4, SizeIs
  <2> QED
    BY <2>1, <1>2 DEF Taken, InUse, Ends
<1>7. InUseIsTaken
  <2>1. \A i \in InUse(array, S) : size(heap, i) = -array[i]
    BY SizeIs DEF InUse, Width
  <2> QED
    BY <2>1, <1>1, <1>6 DEF InUseIsTaken, Held
<1>8. HeapTypeOK
  <2>1. ASSUME NEW i \in InUse(array, S)
        PROVE  [at |-> i, words |-> -array[i]] \in [at : 2..(len - 3), words : 4..len]
    <3>1. i \in S /\ i \notin Ends /\ array[i] < 0
      BY DEF InUse
    <3>2. i \in Int /\ i >= 2 /\ Width(array, i) >= 4 /\ i <= len - 6 /\ i + Width(array, i) <= len - 2
          /\ Width(array, i) \in Int /\ len \in Int
      BY <3>1, <1>1, InnerIs, HeapAssumption
    <3>3. Width(array, i) = -array[i]
      BY <3>1 DEF Width
    <3> QED
      BY <3>2, <3>3
  <2>2. live \subseteq [at : 2..(len - 3), words : 4..len]
    BY <2>1, <1>1 DEF Held
  <2>3. avail \in 0..(len - 1)
    BY <1>2, <1>3, GoodListIsAvail
  <2> QED
    BY <2>2, <2>3, <1>1 DEF HeapTypeOK, Words
<1>9. Coalesced
  <2>1. \A i \in A : right(heap, i) = i + array[i]
    <3> SUFFICES ASSUME NEW i \in A PROVE right(heap, i) = i + array[i]
      OBVIOUS
    <3>1. i \in S /\ array[i] > 0 /\ array[i] \in Int
      BY <1>4 DEF AvailIn
    <3> QED
      BY <3>1, SizeIs DEF Width
  <2>2. \A i \in A : right(heap, i) \notin A
    BY <2>1, <1>1 DEF Joined
  <2>3. ASSUME live = {} PROVE A = {2} /\ size(heap, 2) = len - 4
    <3>1. InUse(array, S) = {}
      BY <2>3, <1>1 DEF Held
    <3>2. \A i \in S \ Ends : i \in A /\ array[i] > 0
      BY <3>1, <1>4 DEF InUse, AvailIn
    <3>3. len \in Int /\ len >= 8 /\ 0 \in S /\ 0 \in Ends /\ 2 \notin Ends
      BY <1>1, HeapAssumption DEF Tiling, Ends
    <3>4. 2 \in S
      <4>1. Block(array, S, 0)
        BY <1>1, <3>3 DEF Tiling
      <4>2. Width(array, 0) = 2
        <5>1. array[0] = -2
          BY <4>1, <3>3 DEF Block
        <5>2. array[0] + 2 = 0 /\ array[0] \in Int
          BY <5>1
        <5> QED
          BY <5>2 DEF Width
      <4> QED
        BY <4>1, <4>2, <3>3 DEF Block
    <3>5. 2 \in A /\ Width(array, 2) \in Int /\ 2 + Width(array, 2) \in S /\ 2 + Width(array, 2) # 0
      BY <3>2, <3>3, <3>4, <1>1, InnerIs
    <3>6. 2 + Width(array, 2) \notin A
      BY <3>5, <2>2, SizeIs
    <3>7. 2 + Width(array, 2) = len - 2
      BY <3>2, <3>5, <3>6 DEF Ends
    <3>8. Width(array, 2) = len - 4
      BY <3>3, <3>5, <3>7
    <3>9. ASSUME NEW i \in A PROVE i = 2
      <4>1. i \in S /\ i \in Int /\ i >= 2 /\ i <= len - 6
        BY <1>1, InnerIs
      <4> QED
        BY <4>1, <3>3, <3>4, <3>7, <1>1, Inside
    <3> QED
      BY <3>5, <3>8, <3>9, SizeIs
  <2> HIDE DEF A
  <2> QED
    BY <2>2, <2>3, <1>3 DEF Coalesced
<1> QED
  BY <1>2, <1>3, <1>5, <1>7, <1>8, <1>9, GoodListIsAvail DEF HeapConsistent

\* The heap is a heap after every sequence of malloc and free: its tags, its list and
\* what the callers have agree, and free memory is joined (heap.cc:126-223).
THEOREM HeapIsConsistent == HeapSpec => []HeapConsistent
<1>1. HeapInv => HeapConsistent
  BY GoodIsConsistent DEF HeapInv
<1> QED
  BY <1>1, HeapInvariance, PTL
=============================================================================
