--------------------------- MODULE ProcessesProofs ---------------------------
(***************************************************************************)
(* Proofs about Processes, for any number of processes, semaphores,        *)
(* descriptors, frames and regions, and whatever the counts of a new PCB   *)
(* held. First the descriptor tables, then induction over the loops of     *)
(* vmm.cc, then each operation of module Memory, and last what the         *)
(* processes find in their memory.                                         *)
(***************************************************************************)
EXTENDS Processes, FiniteSetTheorems, WellFoundedInduction, TLAPS

Kinds == {"none", "file", "sem", "child"}
Descriptors == [kind : Kinds, id : Sems \cup Files \cup Procs \cup {0}, off : Nat]
First(t) == CASE t = "file" -> 0 [] t = "sem" -> D [] t = "child" -> 2 * D

\* The types of what the properties depend on.
TableTypes ==
  /\ dt \in [Procs -> [Index -> Descriptors]]
  /\ count \in [Procs -> [{"file", "sem", "child"} -> Nat]]
  /\ disorder \in [Procs -> SUBSET Kinds]
  /\ where \in [Procs -> {"none", "user", "forking", "zombie", "deleted"}]
  /\ refs \in [Sems -> Int] /\ waiting \in [Sems -> Seq(Procs)]
  /\ wild \in BOOLEAN

\* A descriptor is in the part of the table for its type; what is not yet a process
\* has the table that a PCB begins with.
Regions ==
  \A p \in Procs, i \in Index :
    /\ dt[p][i].kind # "none" =>
         First(dt[p][i].kind) <= i /\ i < First(dt[p][i].kind) + D
    /\ dt[p][i].kind = "sem" => dt[p][i].id \in Sems
    /\ where[p] = "none" => dt[p][i] = Known(i)

\* The descriptors that name a semaphore are not more than its Shared count, which
\* stays when a descriptor is lost.
Names(p, i, s) == dt[p][i].kind = "sem" /\ dt[p][i].id = s
Named(s) == {x \in Procs \X Index : Names(x[1], x[2], s)}
RefInv == \A s \in Sems : Cardinality(Named(s)) <= refs[s]

\* Whoever waits keeps the descriptor that it called down() with.
WaitInv ==
  \A s \in Sems, p \in Procs :
    Contains(waiting[s], p) => where[p] = "user" /\ \E i \in Index : Names(p, i, s)

\* While the descriptors of a type are in order, the next index is a free one.
OrderInv ==
  ~wild => \A p \in Procs, i \in Index :
    where[p] # "none" /\ dt[p][i].kind \notin {"none"} \cup disorder[p] =>
      i < First(dt[p][i].kind) + count[p][dt[p][i].kind]

\* And so is the one that fork() has reserved.
ForkInv ==
  \A p \in Procs : where[p] = "forking" =>
    \/ fork[p].slot = OutOfTable
    \/ /\ fork[p].slot \in First("child")..(First("child") + D - 1)
       /\ fork[p].slot < First("child") + count[p]["child"]
       /\ "child" \notin disorder[p] => dt[p][fork[p].slot].kind = "none"

ForkTypes ==
  /\ fork \in [Procs -> [slot : Nat, child : Procs \cup {0}]]
  /\ \A p \in Procs : where[p] = "forking" => fork[p].child \in Procs

ProcInv ==
  /\ TableTypes /\ ForkTypes /\ Regions /\ RefInv /\ WaitInv /\ OrderInv /\ ForkInv

-----------------------------------------------------------------------------
\* Where the descriptors of each type begin.
LEMMA BaseIs ==
  /\ Range(Types) = {"file", "sem", "child"}
  /\ \A t \in {"file", "sem", "child"} : Base(t) = First(t)
  /\ First("file") = 0 /\ First("sem") = D /\ First("child") = 2 * D
  /\ D \in Nat /\ Index = 0..(3 * D - 1)
<1>1. D \in Nat
  BY ProcessesAssumption
<1>2. First("file") = 0 /\ First("sem") = D /\ First("child") = 2 * D
  BY DEF First
<1>3. Range(Types) = {"file", "sem", "child"}
  <2>1. DOMAIN Types = {1, 2, 3}
    BY DEF Types
  <2>2. Types[1] = "file" /\ Types[2] = "sem" /\ Types[3] = "child"
    BY DEF Types
  <2> QED
    BY <2>1, <2>2 DEF Range
<1>4. \A t \in {"file", "sem", "child"} : Base(t) = First(t)
  <2>1. DOMAIN Types = {1, 2, 3}
    BY DEF Types
  <2>2. Types[1] = "file" /\ Types[2] = "sem" /\ Types[3] = "child"
    BY DEF Types
  <2> DEFINE At(t) == CHOOSE i \in DOMAIN Types : Types[i] = t
  <2>3. \A t \in {"file", "sem", "child"} : Base(t) = D * (At(t) - 1)
    BY DEF Base
  <2>4. At("file") = 1 /\ At("sem") = 2 /\ At("child") = 3
    BY <2>1, <2>2
  <2> HIDE DEF At
  <2>5. D * (1 - 1) = 0 /\ D * (2 - 1) = D /\ D * (3 - 1) = 2 * D
    BY <1>1
  <2>6. Base("file") = 0 /\ Base("sem") = D /\ Base("child") = 2 * D
    BY <2>3, <2>4, <2>5
  <2> QED
    BY <1>2, <2>6
<1> QED
  BY <1>1, <1>2, <1>3, <1>4 DEF Index

\* The descriptors that name a semaphore are finite in number.
LEMMA NamedFinite ==
  ASSUME NEW s
  PROVE  /\ IsFiniteSet(Named(s)) /\ Cardinality(Named(s)) \in Nat
         /\ IsFiniteSet(Named(s)') /\ Cardinality(Named(s)') \in Nat
<1>1. IsFiniteSet(Index)
  <2>1. 0 \in Int /\ 3 * D - 1 \in Int
    BY BaseIs
  <2> QED
    BY <2>1, BaseIs, FS_Interval
<1>2. IsFiniteSet(Procs \X Index)
  BY <1>1, ProcessesAssumption, FS_Product
<1>3. IsFiniteSet(Named(s)) /\ IsFiniteSet(Named(s)')
  BY <1>2, FS_Subset DEF Named
<1> QED
  BY <1>3, FS_CardinalityType

\* One entry of one table changes, and is in the right part of the table.
LEMMA RegionsStay ==
  ASSUME TableTypes, Regions, NEW p \in Procs, NEW i \in Index, NEW d \in Descriptors,
         dt' = [dt EXCEPT ![p][i] = d],
         d.kind # "none" => First(d.kind) <= i /\ i < First(d.kind) + D,
         d.kind = "sem" => d.id \in Sems,
         \A q \in Procs : where'[q] = "none" => where[q] = "none" /\ q # p
  PROVE  Regions'
<1>0. /\ dt'[p][i] = d
      /\ \A q \in Procs, j \in Index : q # p \/ j # i => dt'[q][j] = dt[q][j]
  <2>1. dt \in [Procs -> [Index -> Descriptors]]
    BY DEF TableTypes
  <2> QED
    BY <2>1
<1>1. ASSUME NEW q \in Procs, NEW j \in Index
      PROVE  /\ dt'[q][j].kind # "none" =>
                  First(dt'[q][j].kind) <= j /\ j < First(dt'[q][j].kind) + D
             /\ dt'[q][j].kind = "sem" => dt'[q][j].id \in Sems
             /\ where'[q] = "none" => dt'[q][j] = Known(j)
  <2>1. CASE q = p /\ j = i
    BY <1>0, <1>1, <2>1
  <2>2. CASE q # p \/ j # i
    BY <1>0, <1>1, <2>2 DEF Regions
  <2> QED
    BY <2>1, <2>2
<1> QED
  BY <1>1 DEF Regions

\* It changes who names a semaphore by no more than this entry.
LEMMA NamedChange ==
  ASSUME TableTypes, NEW p \in Procs, NEW i \in Index, NEW d \in Descriptors,
         dt' = [dt EXCEPT ![p][i] = d], NEW s \in Sems
  PROVE  /\ d.kind # "sem" \/ d.id # s => Cardinality(Named(s)') <= Cardinality(Named(s))
         /\ Cardinality(Named(s)) = 0 => Cardinality(Named(s)') <= 1
         /\ d.kind # "sem" /\ Names(p, i, s) => Cardinality(Named(s)') = Cardinality(Named(s)) - 1
<1>1. /\ dt'[p][i] = d
      /\ \A q \in Procs, j \in Index : q # p \/ j # i => dt'[q][j] = dt[q][j]
  <2>1. dt \in [Procs -> [Index -> Descriptors]]
    BY DEF TableTypes
  <2> QED
    BY <2>1
<1>2. /\ IsFiniteSet(Named(s)) /\ Cardinality(Named(s)) \in Nat
      /\ IsFiniteSet(Named(s)') /\ Cardinality(Named(s)') \in Nat
  BY NamedFinite
<1>3. /\ \A q \in Procs, j \in Index : q # p \/ j # i => (Names(q, j, s)' <=> Names(q, j, s))
      /\ Names(p, i, s)' <=> d.kind = "sem" /\ d.id = s
  BY <1>1 DEF Names
<1>4. \A x : x \in Named(s) <=> x \in Procs \X Index /\ Names(x[1], x[2], s)
  BY DEF Named
<1>5. \A x : x \in Named(s)' <=> x \in Procs \X Index /\ Names(x[1], x[2], s)'
  BY DEF Named, Names
<1>6. \A x \in Procs \X Index : x = <<x[1], x[2]>> /\ x[1] \in Procs /\ x[2] \in Index
  OBVIOUS
<1>7. ASSUME d.kind # "sem" \/ d.id # s PROVE Cardinality(Named(s)') <= Cardinality(Named(s))
  <2>1. Named(s)' \subseteq Named(s)
    BY <1>3, <1>4, <1>5, <1>6, <1>7
  <2> QED
    BY <1>2, <2>1, FS_Subset
<1>8. ASSUME Cardinality(Named(s)) = 0 PROVE Cardinality(Named(s)') <= 1
  <2>1. Named(s) = {}
    BY <1>2, <1>8, FS_EmptySet
  <2>2. Named(s)' \subseteq {<<p, i>>}
    BY <1>3, <1>4, <1>5, <1>6, <2>1
  <2>3. IsFiniteSet({<<p, i>>}) /\ Cardinality({<<p, i>>}) = 1
    BY FS_Singleton
  <2> QED
    BY <1>2, <2>2, <2>3, FS_Subset
<1>9. ASSUME d.kind # "sem", Names(p, i, s)
      PROVE  Cardinality(Named(s)') = Cardinality(Named(s)) - 1
  <2>1. Named(s)' = Named(s) \ {<<p, i>>}
    BY <1>3, <1>4, <1>5, <1>6, <1>9
  <2>2. <<p, i>> \in Named(s)
    BY <1>4, <1>9
  <2> QED
    BY <1>2, <2>1, <2>2, FS_RemoveElement
<1> QED
  BY <1>7, <1>8, <1>9

\* Whoever waits is left alone.
LEMMA WaitersStay ==
  ASSUME WaitInv,
         \A s \in Sems, q \in Procs : Contains(waiting'[s], q) =>
           /\ Contains(waiting[s], q) /\ where'[q] = where[q] /\ dt'[q] = dt[q]
  PROVE  WaitInv'
BY DEF WaitInv, Names

-----------------------------------------------------------------------------
\* What may become of a descriptor in a step.
Kept ==
  \A p \in Procs, i \in Index :
    Running(p) /\ dt[p][i].kind \notin {"none"} \union disorder[p] =>
      \/ dt'[p][i] = Empty
      \/ dt'[p][i].kind = dt[p][i].kind /\ dt'[p][i].id = dt[p][i].id

Steady == UNCHANGED <<dt, count, disorder, refs, wild, fork>>

\* A call that changes no table, no count and no Shared.
LEMMA TablesStay ==
  ASSUME ProcInv, Steady,
         where' \in [Procs -> {"none", "user", "forking", "zombie", "deleted"}],
         waiting' \in [Sems -> Seq(Procs)], WaitInv',
         \A p \in Procs : where'[p] = where[p] \/ (where[p] # "none" /\ where'[p] \in {"zombie", "deleted"})
  PROVE  ProcInv' /\ Kept
<1>1. /\ dt' = dt /\ count' = count /\ disorder' = disorder /\ refs' = refs /\ wild' = wild
      /\ fork' = fork
  BY DEF Steady
<1>2. TableTypes' /\ ForkTypes'
  BY <1>1 DEF ProcInv, TableTypes, ForkTypes
<1>3. Regions'
  BY <1>1 DEF ProcInv, Regions
<1>4. RefInv'
  BY <1>1 DEF ProcInv, RefInv, Named, Names
<1>5. OrderInv'
  BY <1>1 DEF ProcInv, OrderInv
<1>6. ForkInv'
  BY <1>1 DEF ProcInv, ForkInv
<1>7. Kept
  BY <1>1 DEF Kept
<1> QED
  BY <1>2, <1>3, <1>4, <1>5, <1>6, <1>7 DEF ProcInv

\* add_descriptor, for open() and sem(): the count gives a free index if the type
\* is in order.
LEMMA AddKeeps ==
  ASSUME ProcInv, ~wild, NEW p \in Procs, where[p] = "user",
         \A s \in Sems : ~Contains(waiting[s], p),
         NEW d \in Descriptors, d.kind \in {"file", "sem"}, Add(p, d),
         d.kind = "sem" =>
           d.id \in Sems /\ refs[d.id] = 0 /\ refs' = [refs EXCEPT ![d.id] = 1],
         d.kind = "file" => refs' = refs,
         UNCHANGED <<where, fork, waiting>>
  PROVE  ProcInv' /\ Kept
<1> DEFINE n == count[p][d.kind]
           i == First(d.kind) + n
<1>1. TableTypes /\ Regions /\ n \in Nat
  BY DEF ProcInv, TableTypes
<1>2. Base(d.kind) = First(d.kind) /\ First(d.kind) \in Nat /\ First(d.kind) <= D
  BY BaseIs
<1>3. disorder' = disorder
  BY DEF Add
<1>4. refs' \in [Sems -> Int]
  BY <1>1 DEF TableTypes
<1>5. ASSUME NEW s \in Sems PROVE Cardinality(Named(s)) <= refs[s] /\ Cardinality(Named(s)) \in Nat
  BY NamedFinite DEF ProcInv, RefInv
<1>6. CASE n >= D
  <2>1. wild' /\ dt' = dt /\ count' = count
    BY <1>6 DEF Add
  <2>2. TableTypes' /\ ForkTypes' /\ Regions' /\ WaitInv' /\ OrderInv' /\ ForkInv' /\ Kept
    <3>1. TableTypes' /\ ForkTypes'
      BY <1>1, <1>3, <1>4, <2>1 DEF ProcInv, TableTypes, ForkTypes
    <3>2. Regions'
      BY <1>1, <2>1 DEF Regions
    <3>3. WaitInv'
      BY <2>1, WaitersStay DEF ProcInv
    <3>4. OrderInv' /\ ForkInv' /\ Kept
      BY <1>3, <2>1 DEF ProcInv, OrderInv, ForkInv, Kept
    <3> QED
      BY <3>1, <3>2, <3>3, <3>4
  <2>3. RefInv'
    <3> SUFFICES ASSUME NEW s \in Sems PROVE Cardinality(Named(s)') <= refs'[s]
      BY DEF RefInv
    <3>1. Named(s)' = Named(s)
      BY <2>1 DEF Named, Names
    <3>2. refs'[s] = refs[s] \/ (refs[s] = 0 /\ refs'[s] = 1)
      BY <1>1 DEF TableTypes
    <3>3. refs[s] \in Int
      BY <1>1 DEF TableTypes
    <3> QED
      BY <1>5, <3>1, <3>2, <3>3
  <2> QED
    BY <2>2, <2>3 DEF ProcInv
<1>7. CASE n < D
  <2>1. /\ dt' = [dt EXCEPT ![p][i] = d]
        /\ count' = [count EXCEPT ![p][d.kind] = @ + 1] /\ wild' = wild
    <3>1. ~(count[p][d.kind] >= D)
      BY <1>1, <1>7, BaseIs
    <3>2. dt' = [dt EXCEPT ![p][Base(d.kind) + count[p][d.kind]] = d]
      BY <3>1 DEF Add
    <3>3. count' = [count EXCEPT ![p][d.kind] = @ + 1] /\ wild' = wild
      BY <3>1 DEF Add
    <3> QED
      BY <1>2, <3>2, <3>3
  <2>2. i \in Index /\ First(d.kind) <= i /\ i < First(d.kind) + D
    BY <1>1, <1>2, <1>7, BaseIs
  <2>3. count' = [count EXCEPT ![p] = [count[p] EXCEPT ![d.kind] = n + 1]]
    BY <2>1
  <2> HIDE DEF i
  <2>4. /\ dt' \in [Procs -> [Index -> Descriptors]] /\ dt'[p][i] = d
        /\ \A q \in Procs, j \in Index : q # p \/ j # i => dt'[q][j] = dt[q][j]
        /\ \A q \in Procs : q # p => dt'[q] = dt[q]
    <3>1. dt \in [Procs -> [Index -> Descriptors]]
      BY <1>1 DEF TableTypes
    <3> QED
      BY <2>1, <2>2, <3>1
  <2>5. /\ count' \in [Procs -> [{"file", "sem", "child"} -> Nat]]
        /\ \A q \in Procs, t \in {"file", "sem", "child"} : count[q][t] <= count'[q][t]
        /\ count'[p][d.kind] = n + 1
    BY <1>1, <2>3 DEF TableTypes
  <2>6. TableTypes' /\ ForkTypes'
    BY <1>1, <1>3, <1>4, <2>1, <2>4, <2>5 DEF ProcInv, TableTypes, ForkTypes
  <2>7. Regions'
    <3>1. \A q \in Procs : where'[q] = "none" => where[q] = "none" /\ q # p
      OBVIOUS
    <3>2. d.kind = "sem" => d.id \in Sems
      OBVIOUS
    <3> QED
      BY <1>1, <2>1, <2>2, <3>1, <3>2, RegionsStay
  <2>8. WaitInv'
    BY <2>4, WaitersStay DEF ProcInv
  <2>9. RefInv'
    <3> SUFFICES ASSUME NEW s \in Sems PROVE Cardinality(Named(s)') <= refs'[s]
      BY DEF RefInv
    <3>1. /\ d.kind # "sem" \/ d.id # s => Cardinality(Named(s)') <= Cardinality(Named(s))
          /\ Cardinality(Named(s)) = 0 => Cardinality(Named(s)') <= 1
      BY <1>1, <2>1, <2>2, NamedChange
    <3>2. refs[s] \in Int /\ Cardinality(Named(s)') \in Int
      BY <1>1, NamedFinite DEF TableTypes
    <3>3. CASE d.kind = "sem" /\ d.id = s
      <4>1. refs[s] = 0 /\ refs'[s] = 1
        BY <1>1, <3>3 DEF TableTypes
      <4> QED
        BY <1>5, <3>1, <4>1
    <3>4. CASE d.kind # "sem" \/ d.id # s
      <4>1. refs'[s] = refs[s]
        BY <1>1, <3>4 DEF TableTypes
      <4> QED
        BY <1>5, <3>1, <3>2, <3>4, <4>1
    <3> QED
      BY <3>3, <3>4
  <2>10. ASSUME dt[p][i].kind \notin {"none"} \cup disorder[p] PROVE FALSE
    <3>1. dt[p][i].kind \in {"file", "sem", "child"}
      BY <1>1, <2>2, <2>10 DEF TableTypes, Descriptors, Kinds
    <3>2. First(dt[p][i].kind) <= i /\ i < First(dt[p][i].kind) + D
      BY <1>1, <2>2, <2>10 DEF Regions
    <3>3. dt[p][i].kind = d.kind
      BY <2>2, <3>1, <3>2, BaseIs
    <3>4. i < First(d.kind) + n
      BY <2>2, <2>10, <3>3 DEF ProcInv, OrderInv
    <3> QED
      BY <1>1, <1>2, <3>4 DEF i
  <2>11. OrderInv'
    <3> SUFFICES ASSUME NEW q \in Procs, NEW j \in Index, where[q] # "none",
                        dt'[q][j].kind \notin {"none"} \cup disorder[q]
        PROVE  j < First(dt'[q][j].kind) + count'[q][dt'[q][j].kind]
      BY <1>3 DEF OrderInv
    <3>1. CASE q = p /\ j = i
      BY <1>1, <1>2, <2>4, <2>5, <3>1 DEF i
    <3>2. CASE q # p \/ j # i
      <4>1. dt'[q][j] = dt[q][j]
        BY <2>4, <3>2
      <4>2. dt[q][j].kind \in {"file", "sem", "child"}
        BY <1>1, <4>1 DEF TableTypes, Descriptors, Kinds
      <4>3. j < First(dt[q][j].kind) + count[q][dt[q][j].kind]
        BY <4>1 DEF ProcInv, OrderInv
      <4>4. /\ count[q][dt[q][j].kind] \in Nat /\ count'[q][dt[q][j].kind] \in Nat
            /\ count[q][dt[q][j].kind] <= count'[q][dt[q][j].kind]
        BY <1>1, <2>5, <4>2, SMTT(30) DEF TableTypes
      <4>5. First(dt[q][j].kind) \in Nat /\ j \in Int
        BY <4>2, BaseIs
      <4> QED
        BY <4>1, <4>3, <4>4, <4>5
    <3> QED
      BY <3>1, <3>2
  <2>12. ForkInv'
    <3> SUFFICES ASSUME NEW q \in Procs, where[q] = "forking", fork[q].slot # OutOfTable
        PROVE  /\ fork[q].slot \in First("child")..(First("child") + D - 1)
               /\ fork[q].slot < First("child") + count'[q]["child"]
               /\ "child" \notin disorder[q] => dt'[q][fork[q].slot].kind = "none"
      BY <1>3 DEF ForkInv
    <3>1. q # p
      OBVIOUS
    <3>2. dt'[q] = dt[q]
      BY <2>4, <3>1
    <3>3. count'[q] = count[q]
      <4>1. count \in [Procs -> [{"file", "sem", "child"} -> Nat]]
        BY <1>1 DEF TableTypes
      <4> QED
        BY <2>3, <3>1, <4>1
    <3> QED
      BY <3>2, <3>3 DEF ProcInv, ForkInv
  <2>13. Kept
    <3> SUFFICES ASSUME NEW q \in Procs, NEW j \in Index,
                        dt[q][j].kind \notin {"none"} \cup disorder[q]
        PROVE  dt'[q][j] = dt[q][j]
      BY DEF Kept
    <3> QED
      BY <2>4, <2>10
  <2> QED
    BY <2>6, <2>7, <2>8, <2>9, <2>11, <2>12, <2>13 DEF ProcInv
<1> QED
  BY <1>1, <1>2, <1>6, <1>7, BaseIs

\* open(), of any file.
LEMMA OpenKeeps == ASSUME ProcInv, NEW p \in Procs, Open(p) PROVE ProcInv' /\ Kept
<1>1. /\ ~wild /\ where[p] = "user" /\ \A s \in Sems : ~Contains(waiting[s], p)
      /\ UNCHANGED <<where, fork, waiting>> /\ refs' = refs
  BY DEF Open, Calls, semaphores
<1>2. PICK f \in Files : Add(p, NewFile(f))
  BY DEF Open
<1>3. NewFile(f) \in Descriptors /\ NewFile(f).kind = "file"
  BY DEF NewFile, Descriptors, Kinds
<1> QED
  BY <1>1, <1>2, <1>3, AddKeeps

\* sem(): the Shared count of a new semaphore is the one of its descriptor.
LEMMA SemKeeps == ASSUME ProcInv, NEW p \in Procs, Sem(p) PROVE ProcInv' /\ Kept
<1>1. /\ ~wild /\ where[p] = "user" /\ \A s \in Sems : ~Contains(waiting[s], p)
      /\ UNCHANGED <<where, fork, waiting>>
  BY DEF Sem, Calls
<1>2. PICK s \in Sems : /\ refs[s] = 0 /\ refs' = [refs EXCEPT ![s] = 1]
                        /\ Add(p, [kind |-> "sem", id |-> s, off |-> 0])
  BY DEF Sem
<1> DEFINE d == [kind |-> "sem", id |-> s, off |-> 0]
<1>3. d \in Descriptors /\ d.kind = "sem" /\ d.id = s
  BY DEF Descriptors, Kinds
<1> HIDE DEF d
<1>4. Add(p, d)
  BY <1>2 DEF d
<1>5. d.id \in Sems /\ refs[d.id] = 0 /\ refs' = [refs EXCEPT ![d.id] = 1]
  BY <1>2, <1>3
<1> QED
  BY <1>1, <1>3, <1>4, <1>5, AddKeeps

\* up(): the first who waits goes on, and the others wait as before.
LEMMA UpKeeps ==
  ASSUME ProcInv, NEW p \in Procs, NEW i \in Index, Up(p, i) PROVE ProcInv' /\ Kept
<1> DEFINE s == dt[p][i].id
<1>1. /\ Steady /\ where' = where /\ dt' = dt
      /\ waiting' = waiting \/ (waiting[s] # << >> /\ waiting' = [waiting EXCEPT ![s] = Tail(@)])
  BY DEF Up, Calls, Steady, pcb
<1>2. waiting \in [Sems -> Seq(Procs)]
  BY DEF ProcInv, TableTypes
<1>3. s \in Sems
  BY DEF ProcInv, Regions, Up
<1> HIDE DEF s
<1>4. waiting' \in [Sems -> Seq(Procs)]
  <2>1. CASE waiting[s] # << >> /\ waiting' = [waiting EXCEPT ![s] = Tail(@)]
    <3>1. Tail(waiting[s]) \in Seq(Procs)
      BY <1>2, <1>3, <2>1
    <3> QED
      BY <1>2, <2>1, <3>1
  <2> QED
    BY <1>1, <1>2, <2>1
<1>5. ASSUME NEW z \in Sems, NEW q \in Procs, Contains(waiting'[z], q) PROVE Contains(waiting[z], q)
  <2>1. CASE waiting'[z] = waiting[z]
    BY <1>5, <2>1
  <2>2. CASE z = s /\ waiting[s] # << >> /\ waiting'[z] = Tail(waiting[z])
    <3>1. PICK k \in 1..Len(Tail(waiting[z])) : Tail(waiting[z])[k] = q
      BY <1>5, <2>2 DEF Contains
    <3>2. waiting[z] \in Seq(Procs) /\ waiting[z] # << >>
      BY <1>2, <2>2
    <3>3. k + 1 \in 1..Len(waiting[z]) /\ waiting[z][k + 1] = q
      BY <3>1, <3>2
    <3> QED
      BY <3>3 DEF Contains
  <2> QED
    BY <1>1, <1>2, <1>3, <2>1, <2>2
<1>6. WaitInv'
  BY <1>1, <1>5, WaitersStay DEF ProcInv
<1>7. where' \in [Procs -> {"none", "user", "forking", "zombie", "deleted"}]
  BY <1>1 DEF ProcInv, TableTypes
<1> QED
  BY <1>1, <1>4, <1>6, <1>7, TablesStay

\* down(): who waits has the descriptor that it names.
LEMMA DownKeeps ==
  ASSUME ProcInv, NEW p \in Procs, NEW i \in Index, Down(p, i) PROVE ProcInv' /\ Kept
<1>0. dt[p][i].id \in Sems
  BY DEF ProcInv, Regions, Down
<1> PICK s \in Sems : s = dt[p][i].id
  BY <1>0
<1>1. /\ Steady /\ where' = where /\ dt' = dt /\ where[p] = "user" /\ dt[p][i].kind = "sem"
      /\ waiting' = waiting \/ waiting' = [waiting EXCEPT ![s] = Append(@, p)]
  BY DEF Down, Calls, Steady, pcb
<1>2. waiting \in [Sems -> Seq(Procs)]
  BY DEF ProcInv, TableTypes
<1>3. s \in Sems /\ Names(p, i, s)
  BY <1>1 DEF Names
<1>4. waiting' \in [Sems -> Seq(Procs)]
  <2>1. Append(waiting[s], p) \in Seq(Procs)
    BY <1>2
  <2> QED
    BY <1>1, <1>2, <2>1
<1>5. ASSUME NEW z \in Sems, NEW q \in Procs, Contains(waiting'[z], q)
      PROVE Contains(waiting[z], q) \/ (z = s /\ q = p)
  <2>1. CASE waiting'[z] = waiting[z]
    BY <1>5, <2>1
  <2>2. CASE z = s /\ waiting'[z] = Append(waiting[z], p)
    <3>1. PICK k \in 1..Len(Append(waiting[z], p)) : Append(waiting[z], p)[k] = q
      BY <1>5, <2>2 DEF Contains
    <3>2. waiting[z] \in Seq(Procs)
      BY <1>2
    <3>3. (k \in 1..Len(waiting[z]) /\ waiting[z][k] = q) \/ q = p
      BY <3>1, <3>2
    <3> QED
      BY <2>2, <3>3 DEF Contains
  <2> QED
    BY <1>1, <1>2, <1>3, <2>1, <2>2
<1>6. WaitInv'
  BY <1>1, <1>3, <1>5 DEF ProcInv, WaitInv, Names
<1>7. where' \in [Procs -> {"none", "user", "forking", "zombie", "deleted"}]
  BY <1>1 DEF ProcInv, TableTypes
<1> QED
  BY <1>1, <1>4, <1>6, <1>7, TablesStay

\* exit() and delete_zombies: the PCB stays as it is.
LEMMA EndKeeps ==
  ASSUME ProcInv, NEW p \in Procs, Exit(p) \/ Reap(p) PROVE ProcInv' /\ Kept
<1>1. /\ Steady /\ dt' = dt /\ waiting' = waiting
      /\ \A s \in Sems : ~Contains(waiting[s], p)
      /\ \E w \in {"zombie", "deleted"} : where' = [where EXCEPT ![p] = w]
      /\ where[p] \in {"user", "zombie"}
  <2>1. CASE Exit(p)
    BY <2>1 DEF Exit, Calls, Steady, semaphores
  <2>2. CASE Reap(p)
    <3>1. \A s \in Sems : ~Contains(waiting[s], p)
      BY <2>2 DEF Reap, ProcInv, WaitInv
    <3> QED
      BY <2>2, <3>1 DEF Reap, Steady, pcb, semaphores
  <2> QED
    BY <2>1, <2>2
<1>2. where \in [Procs -> {"none", "user", "forking", "zombie", "deleted"}]
      /\ waiting' \in [Sems -> Seq(Procs)]
  BY <1>1 DEF ProcInv, TableTypes
<1>3. /\ where' \in [Procs -> {"none", "user", "forking", "zombie", "deleted"}]
      /\ where'[p] \in {"zombie", "deleted"} /\ \A q \in Procs : q # p => where'[q] = where[q]
  BY <1>1, <1>2
<1>4. WaitInv'
  BY <1>1, <1>3, WaitersStay DEF ProcInv
<1> QED
  BY <1>1, <1>2, <1>3, <1>4, TablesStay

\* The calls that concern the memory or only return something.
LEMMA QuietKeeps ==
  ASSUME ProcInv, UNCHANGED <<where, fork, pcb, semaphores, wild>> PROVE ProcInv' /\ Kept
<1>1. Steady /\ where' = where /\ dt' = dt /\ waiting' = waiting
  BY DEF Steady, pcb, semaphores
<1>2. where' \in [Procs -> {"none", "user", "forking", "zombie", "deleted"}]
      /\ waiting' \in [Sems -> Seq(Procs)]
  BY <1>1 DEF ProcInv, TableTypes
<1>3. WaitInv'
  BY <1>1, WaitersStay DEF ProcInv
<1> QED
  BY <1>1, <1>2, <1>3, TablesStay

\* FileDescriptor::read and seek change the offset.
LEMMA OffsetKeeps ==
  ASSUME ProcInv, NEW p \in Procs, NEW i \in Index, where[p] = "user",
         \A s \in Sems : ~Contains(waiting[s], p),
         dt[p][i].kind = "file", NEW d \in Descriptors, dt' = [dt EXCEPT ![p][i] = d],
         d.kind = "file", d.id = dt[p][i].id,
         UNCHANGED <<where, fork, count, disorder, waiting, refs, wild>>
  PROVE  ProcInv' /\ Kept
<1>1. TableTypes /\ Regions
  BY DEF ProcInv
<1>4. /\ dt' \in [Procs -> [Index -> Descriptors]] /\ dt'[p][i] = d
      /\ \A q \in Procs, j \in Index : q # p \/ j # i => dt'[q][j] = dt[q][j]
      /\ \A q \in Procs : q # p => dt'[q] = dt[q]
  <2>1. dt \in [Procs -> [Index -> Descriptors]]
    BY <1>1 DEF TableTypes
  <2> QED
    BY <2>1
<1>5. \A q \in Procs, j \in Index : dt'[q][j].kind = dt[q][j].kind /\ dt'[q][j].id = dt[q][j].id
  BY <1>4
<1>6. TableTypes' /\ ForkTypes'
  BY <1>4 DEF ProcInv, TableTypes, ForkTypes
<1>7. Regions'
  <2>1. First(d.kind) <= i /\ i < First(d.kind) + D
    BY <1>1 DEF Regions
  <2>2. d.kind # "sem"
    OBVIOUS
  <2>3. \A q \in Procs : where'[q] = "none" => where[q] = "none" /\ q # p
    OBVIOUS
  <2> QED
    BY <1>1, <2>1, <2>2, <2>3, RegionsStay
<1>8. RefInv'
  <2> SUFFICES ASSUME NEW s \in Sems PROVE Cardinality(Named(s)') <= refs'[s]
    BY DEF RefInv
  <2>1. Named(s)' = Named(s)
    <3>1. \A x \in Procs \X Index : Names(x[1], x[2], s)' <=> Names(x[1], x[2], s)
      BY <1>5 DEF Names
    <3> QED
      BY <3>1 DEF Named
  <2> QED
    BY <2>1 DEF ProcInv, RefInv
<1>9. WaitInv'
  BY <1>4, WaitersStay DEF ProcInv
<1>10. OrderInv' /\ Kept
  BY <1>5 DEF ProcInv, OrderInv, Kept
<1>11. ForkInv'
  <2>1. \A q \in Procs : where[q] = "forking" => dt'[q] = dt[q]
    BY <1>4
  <2> QED
    BY <2>1 DEF ProcInv, ForkInv
<1> QED
  BY <1>6, <1>7, <1>8, <1>9, <1>10, <1>11 DEF ProcInv

\* A read or a seek of a file.
LEMMA FileKeeps ==
  ASSUME ProcInv, NEW p \in Procs, NEW i \in Index, ReadFile(p, i) \/ Seek(p, i)
  PROVE  ProcInv' /\ Kept
<1>1. /\ where[p] = "user" /\ dt[p][i].kind = "file" /\ \A s \in Sems : ~Contains(waiting[s], p)
      /\ UNCHANGED <<where, fork, count, disorder, waiting, refs, wild>>
  BY DEF ReadFile, Seek, Calls, semaphores
<1>2. dt[p][i] \in Descriptors
  BY DEF ProcInv, TableTypes
<1>3. PICK o \in Nat : dt' = [dt EXCEPT ![p][i].off = o]
  <2>1. CASE Seek(p, i)
    <3>1. PICK o \in 0..Size + 1 : dt' = [dt EXCEPT ![p][i].off = o]
      BY <2>1 DEF Seek
    <3>2. o \in Nat
      BY <3>1, ProcessesAssumption
    <3> QED
      BY <3>1, <3>2
  <2>2. CASE ReadFile(p, i)
    <3>1. PICK n \in 1..Size :
            dt' = [dt EXCEPT ![p][i].off =
                     IF @ > Size THEN @ - 1 ELSE IF @ + n > Size THEN Size ELSE @ + n]
      BY <2>2 DEF ReadFile
    <3> DEFINE f == dt[p][i].off
               o == IF f > Size THEN f - 1 ELSE IF f + n > Size THEN Size ELSE f + n
    <3>2. dt' = [dt EXCEPT ![p][i].off = o]
      BY <3>1
    <3>3. o \in Nat
      <4>1. f \in Nat /\ n \in Nat /\ Size \in Nat
        BY <1>2, <3>1, ProcessesAssumption DEF Descriptors
      <4> QED
        BY <4>1
    <3> QED
      BY <3>2, <3>3
  <2> QED
    BY <2>1, <2>2
<1>4. PICK d \in Descriptors : d.kind = "file" /\ d.id = dt[p][i].id /\ [dt[p][i] EXCEPT !.off = o] = d
  <2>1. [dt[p][i] EXCEPT !.off = o] = [kind |-> dt[p][i].kind, id |-> dt[p][i].id, off |-> o]
    BY <1>2 DEF Descriptors
  <2> QED
    <3>1. dt[p][i].kind \in Kinds /\ dt[p][i].id \in Sems \cup Files \cup Procs \cup {0}
      BY <1>2 DEF Descriptors
    <3> DEFINE r == [kind |-> dt[p][i].kind, id |-> dt[p][i].id, off |-> o]
    <3>2. r \in Descriptors /\ r.kind = "file" /\ r.id = dt[p][i].id
      BY <1>1, <3>1 DEF Descriptors
    <3>3. [dt[p][i] EXCEPT !.off = o] = r
      BY <2>1
    <3> HIDE DEF r
    <3> QED
      BY <3>2, <3>3
<1>5. dt' = [dt EXCEPT ![p][i] = d]
  BY <1>3, <1>4
<1>6. d.kind = "file" /\ d.id = dt[p][i].id
  BY <1>4
<1> QED
  BY <1>1, <1>5, <1>6, OffsetKeeps

\* close(): the Shared goes with the descriptor. The type is in order afterwards
\* only if this was the last of it.
LEMMA CloseKeeps ==
  ASSUME ProcInv, NEW p \in Procs, NEW i \in Index, Close(p, i) PROVE ProcInv' /\ Kept
<1>1. TableTypes /\ Regions /\ D \in Nat /\ i \in Int
  BY BaseIs DEF ProcInv
<1>2. PICK k \in {"file", "sem", "child"} : k = dt[p][i].kind
  BY <1>1 DEF Close, TableTypes, Descriptors, Kinds
<1>3. PICK n \in Nat : n = count[p][k]
  BY <1>1, <1>2 DEF TableTypes
<1>4. First(k) \in Nat /\ Base(k) = First(k) /\ First(k) <= i /\ i < First(k) + n
  <2>1. First(k) \in Nat /\ Base(k) = First(k) /\ First(k) <= i
    BY <1>1, <1>2, BaseIs DEF Regions
  <2>2. i - Base(k) < n
    BY <1>2, <1>3 DEF Close
  <2> QED
    BY <1>1, <2>1, <2>2
<1>5. /\ ~wild /\ where[p] = "user" /\ \A s \in Sems : ~Contains(waiting[s], p)
      /\ where' = where /\ fork' = fork /\ waiting' = waiting /\ wild' = wild
      /\ dt' = [dt EXCEPT ![p][i] = Empty]
  BY DEF Close, Calls
<1>6. count' = [count EXCEPT ![p] = [count[p] EXCEPT ![k] = n - 1]]
  BY <1>2, <1>3 DEF Close
<1>7. /\ \A q \in Procs : disorder[q] \subseteq disorder'[q]
      /\ i # First(k) + n - 1 => k \in disorder'[p]
      /\ disorder' \in [Procs -> SUBSET Kinds]
  <2>1. CASE i = First(k) + n - 1
    <3>1. disorder' = [disorder EXCEPT ![p] = disorder[p]]
      BY <1>2, <1>3, <1>4, <2>1 DEF Close
    <3> QED
      BY <1>1, <2>1, <3>1 DEF TableTypes
  <2>2. CASE i # First(k) + n - 1
    <3>1. disorder' = [disorder EXCEPT ![p] = disorder[p] \union {k}]
      BY <1>2, <1>3, <1>4, <2>2 DEF Close
    <3>2. k \in Kinds
      BY DEF Kinds
    <3> QED
      BY <1>1, <3>1, <3>2 DEF TableTypes
  <2> QED
    BY <2>1, <2>2
<1>8. Empty \in Descriptors /\ Empty.kind = "none"
  BY DEF Empty, Descriptors, Kinds
<1>9. /\ dt' \in [Procs -> [Index -> Descriptors]] /\ dt'[p][i] = Empty
      /\ \A q \in Procs, j \in Index : q # p \/ j # i => dt'[q][j] = dt[q][j]
      /\ \A q \in Procs : q # p => dt'[q] = dt[q]
  <2>1. dt \in [Procs -> [Index -> Descriptors]]
    BY <1>1 DEF TableTypes
  <2> QED
    BY <1>5, <1>8, <2>1
<1>10. /\ count' \in [Procs -> [{"file", "sem", "child"} -> Nat]]
       /\ \A q \in Procs : q # p => count'[q] = count[q]
       /\ count'[p][k] = n - 1
       /\ \A t \in {"file", "sem", "child"} : t # k => count'[p][t] = count[p][t]
  <2>1. n - 1 \in Nat
    BY <1>1, <1>4
  <2> QED
    BY <1>1, <1>6, <2>1 DEF TableTypes
<1>11. refs' = (IF k = "sem" THEN [refs EXCEPT ![dt[p][i].id] = refs[dt[p][i].id] - 1] ELSE refs)
  BY <1>2 DEF Close
<1>12. TableTypes' /\ ForkTypes'
  <2>1. refs' \in [Sems -> Int]
    BY <1>1, <1>2, <1>11 DEF TableTypes, Regions
  <2> QED
    BY <1>1, <1>5, <1>7, <1>9, <1>10, <2>1 DEF ProcInv, TableTypes, ForkTypes
<1>13. Regions'
  <2>1. \A q \in Procs : where'[q] = "none" => where[q] = "none" /\ q # p
    BY <1>5
  <2> QED
    BY <1>1, <1>5, <1>8, <2>1, RegionsStay
<1>14. RefInv'
  <2> SUFFICES ASSUME NEW s \in Sems PROVE Cardinality(Named(s)') <= refs'[s]
    BY DEF RefInv
  <2>1. /\ Empty.kind # "sem" \/ Empty.id # s => Cardinality(Named(s)') <= Cardinality(Named(s))
        /\ Empty.kind # "sem" /\ Names(p, i, s) => Cardinality(Named(s)') = Cardinality(Named(s)) - 1
    BY <1>1, <1>5, <1>8, NamedChange
  <2>2. /\ Cardinality(Named(s)) <= refs[s] /\ refs[s] \in Int
        /\ Cardinality(Named(s)) \in Nat /\ Cardinality(Named(s)') \in Nat
    BY <1>1, NamedFinite DEF ProcInv, RefInv, TableTypes
  <2>3. CASE Names(p, i, s)
    <3>1. refs'[s] = refs[s] - 1
      BY <1>1, <1>2, <1>11, <2>3 DEF Names, TableTypes
    <3> QED
      BY <1>8, <2>1, <2>2, <2>3, <3>1
  <2>4. CASE ~Names(p, i, s)
    <3>1. refs'[s] = refs[s]
      BY <1>1, <1>2, <1>11, <2>4 DEF Names, TableTypes, Regions
    <3> QED
      BY <1>8, <2>1, <2>2, <3>1
  <2> QED
    BY <2>3, <2>4
<1>15. WaitInv'
  BY <1>5, <1>9, WaitersStay DEF ProcInv
<1>16. OrderInv'
  <2> SUFFICES ASSUME NEW q \in Procs, NEW j \in Index, where[q] # "none",
                      dt'[q][j].kind \notin {"none"} \cup disorder'[q]
      PROVE  j < First(dt'[q][j].kind) + count'[q][dt'[q][j].kind]
    BY <1>5 DEF OrderInv
  <2>1. q # p \/ j # i
    BY <1>8, <1>9
  <2>2. dt'[q][j] = dt[q][j]
    BY <1>9, <2>1
  <2>3. PICK t \in {"file", "sem", "child"} : t = dt[q][j].kind
    BY <1>1, <2>2 DEF TableTypes, Descriptors, Kinds
  <2>4. j < First(t) + count[q][t]
    BY <1>5, <1>7, <2>2, <2>3 DEF ProcInv, OrderInv
  <2>5. CASE q = p /\ t = k
    <3>1. i = First(k) + n - 1
      BY <1>7, <2>2, <2>3, <2>5
    <3>2. j # i /\ j < First(k) + n /\ j \in Int
      BY <1>3, <2>1, <2>4, <2>5, BaseIs
    <3> QED
      BY <1>4, <1>10, <2>2, <2>3, <2>5, <3>1, <3>2
  <2>6. CASE q # p \/ t # k
    <3>1. count'[q][t] = count[q][t]
      BY <1>10, <2>6
    <3> QED
      BY <2>2, <2>3, <2>4, <3>1
  <2> QED
    BY <2>5, <2>6
<1>17. ForkInv'
  <2> SUFFICES ASSUME NEW q \in Procs, where[q] = "forking", fork[q].slot # OutOfTable
      PROVE  /\ fork[q].slot \in First("child")..(First("child") + D - 1)
             /\ fork[q].slot < First("child") + count'[q]["child"]
             /\ "child" \notin disorder'[q] => dt'[q][fork[q].slot].kind = "none"
    BY <1>5 DEF ForkInv
  <2>1. q # p
    BY <1>5
  <2> QED
    BY <1>7, <1>9, <1>10, <2>1 DEF ProcInv, ForkInv
<1>18. Kept
  BY <1>9 DEF Kept
<1> QED
  BY <1>12, <1>13, <1>14, <1>15, <1>16, <1>17, <1>18 DEF ProcInv

\* The end of fork(): the descriptor of the child goes where its place was reserved.
LEMMA ForkReturnKeeps ==
  ASSUME ProcInv, NEW p \in Procs, ForkReturn(p) PROVE ProcInv' /\ Kept
<1>1. TableTypes /\ ForkTypes /\ Regions /\ D \in Nat
  BY BaseIs DEF ProcInv
<1>2. /\ ~wild /\ where[p] = "forking" /\ wild' \in BOOLEAN
      /\ where' = [where EXCEPT ![p] = "user"] /\ fork' = [fork EXCEPT ![p] = NoFork]
      /\ UNCHANGED <<count, disorder, refs, waiting>>
  BY DEF ForkReturn, semaphores
<1>3. \A s \in Sems : ~Contains(waiting[s], p)
  BY <1>2 DEF ProcInv, WaitInv
<1>4. /\ where' \in [Procs -> {"none", "user", "forking", "zombie", "deleted"}]
      /\ where'[p] = "user" /\ \A q \in Procs : q # p => where'[q] = where[q]
      /\ \A q \in Procs : q # p => fork'[q] = fork[q]
      /\ fork' \in [Procs -> [slot : Nat, child : Procs \cup {0}]]
  <2>1. NoFork \in [slot : Nat, child : Procs \cup {0}]
    BY DEF NoFork
  <2> QED
    BY <1>1, <1>2, <2>1 DEF TableTypes, ForkTypes
<1>5. ForkTypes'
  BY <1>4, <1>2, <1>1 DEF ForkTypes
<1>6. CASE fork[p].slot = OutOfTable
  <2>1. dt' = dt
    BY <1>6 DEF ForkReturn
  <2>2. TableTypes'
    BY <1>1, <1>2, <1>4, <2>1 DEF TableTypes
  <2>3. Regions'
    BY <1>1, <1>4, <2>1 DEF Regions
  <2>4. RefInv'
    BY <1>2, <2>1 DEF ProcInv, RefInv, Named, Names
  <2>5. WaitInv'
    BY <1>2, <1>3, <1>4, <2>1, WaitersStay DEF ProcInv
  <2>6. OrderInv'
    <3>1. \A q \in Procs : where'[q] # "none" => where[q] # "none"
      BY <1>2, <1>4
    <3> QED
      BY <1>2, <2>1, <3>1 DEF ProcInv, OrderInv
  <2>7. ForkInv'
    <3>1. \A q \in Procs : where'[q] = "forking" => q # p
      BY <1>4
    <3> QED
      BY <1>2, <1>4, <2>1, <3>1 DEF ProcInv, ForkInv
  <2>8. Kept
    BY <2>1 DEF Kept
  <2> QED
    BY <1>5, <2>2, <2>3, <2>4, <2>5, <2>6, <2>7, <2>8 DEF ProcInv
<1>7. CASE fork[p].slot # OutOfTable
  <2>1. PICK i \in Index : i = fork[p].slot
    BY <1>1, <1>2, <1>7, BaseIs DEF ProcInv, ForkInv
  <2>2. PICK d \in Descriptors : d = [kind |-> "child", id |-> fork[p].child, off |-> 0]
    BY <1>1, <1>2 DEF ForkTypes, Descriptors, Kinds
  <2>3. dt' = [dt EXCEPT ![p][i] = d]
    BY <1>7, <2>1, <2>2 DEF ForkReturn
  <2>4. d.kind = "child"
    BY <2>2
  <2>5. /\ dt' \in [Procs -> [Index -> Descriptors]] /\ dt'[p][i] = d
        /\ \A q \in Procs, j \in Index : q # p \/ j # i => dt'[q][j] = dt[q][j]
        /\ \A q \in Procs : q # p => dt'[q] = dt[q]
    <3>1. dt \in [Procs -> [Index -> Descriptors]]
      BY <1>1 DEF TableTypes
    <3> QED
      BY <2>3, <3>1
  <2>6. /\ First("child") <= i /\ i < First("child") + D /\ i < First("child") + count[p]["child"]
        /\ "child" \notin disorder[p] => dt[p][i].kind = "none"
    BY <1>1, <1>2, <1>7, <2>1, BaseIs DEF ProcInv, ForkInv
  <2>7. TableTypes'
    BY <1>1, <1>2, <1>4, <2>5 DEF TableTypes
  <2>8. Regions'
    <3>1. \A q \in Procs : where'[q] = "none" => where[q] = "none" /\ q # p
      BY <1>4
    <3>2. First(d.kind) <= i /\ i < First(d.kind) + D /\ d.kind # "sem"
      BY <2>4, <2>6
    <3> QED
      BY <1>1, <2>3, <3>1, <3>2, RegionsStay
  <2>9. RefInv'
    <3> SUFFICES ASSUME NEW s \in Sems PROVE Cardinality(Named(s)') <= refs'[s]
      BY DEF RefInv
    <3>1. Cardinality(Named(s)') <= Cardinality(Named(s))
      BY <1>1, <2>3, <2>4, NamedChange
    <3>2. /\ Cardinality(Named(s)) <= refs[s] /\ refs[s] \in Int
          /\ Cardinality(Named(s)) \in Nat /\ Cardinality(Named(s)') \in Nat
      BY <1>1, NamedFinite DEF ProcInv, RefInv, TableTypes
    <3> QED
      BY <1>2, <3>1, <3>2
  <2>10. WaitInv'
    BY <1>2, <1>3, <1>4, <2>5, WaitersStay DEF ProcInv
  <2>11. OrderInv'
    <3> SUFFICES ASSUME NEW q \in Procs, NEW j \in Index, where'[q] # "none",
                        dt'[q][j].kind \notin {"none"} \cup disorder[q]
        PROVE  j < First(dt'[q][j].kind) + count[q][dt'[q][j].kind]
      BY <1>2 DEF OrderInv
    <3>1. CASE q = p /\ j = i
      BY <2>4, <2>5, <2>6, <3>1
    <3>2. CASE q # p \/ j # i
      <4>1. dt'[q][j] = dt[q][j] /\ where[q] # "none"
        BY <1>2, <1>4, <2>5, <3>2
      <4> QED
        BY <1>2, <4>1 DEF ProcInv, OrderInv
    <3> QED
      BY <3>1, <3>2
  <2>12. ForkInv'
    <3>1. \A q \in Procs : where'[q] = "forking" => q # p
      BY <1>4
    <3> QED
      BY <1>2, <1>4, <2>5, <3>1 DEF ProcInv, ForkInv
  <2>13. Kept
    <3> SUFFICES ASSUME NEW q \in Procs, NEW j \in Index,
                        dt[q][j].kind \notin {"none"} \cup disorder[q]
        PROVE  dt'[q][j] = dt[q][j]
      BY DEF Kept
    <3>1. CASE q = p /\ j = i
      <4>1. dt[p][i].kind \in {"file", "sem", "child"}
        BY <1>1, <3>1 DEF TableTypes, Descriptors, Kinds
      <4>2. First(dt[p][i].kind) <= i /\ i < First(dt[p][i].kind) + D
        BY <1>1, <3>1 DEF Regions
      <4>3. dt[p][i].kind = "child"
        BY <2>6, <4>1, <4>2, BaseIs
      <4> QED
        BY <2>6, <3>1, <4>3
    <3>2. CASE q # p \/ j # i
      BY <2>5, <3>2
    <3> QED
      BY <3>1, <3>2
  <2> QED
    BY <1>5, <2>7, <2>8, <2>9, <2>10, <2>11, <2>12, <2>13 DEF ProcInv
<1> QED
  BY <1>6, <1>7

\* A child names a semaphore as often as its parent does.
LEMMA ChildNames ==
  ASSUME TableTypes, NEW p \in Procs, NEW c \in Procs, c # p, NEW s,
         \A i \in Index : ~Names(c, i, s) /\ (Names(c, i, s)' <=> Names(p, i, s)),
         \A q \in Procs : q # c => dt'[q] = dt[q]
  PROVE  LET T == {i \in Index : dt[p][i].kind = "sem" /\ dt[p][i].id = s} IN
         /\ Cardinality(T) \in Nat
         /\ Cardinality(Named(s)') <= Cardinality(Named(s)) + Cardinality(T)
<1> DEFINE T == {i \in Index : Names(p, i, s)}
           N == {<<c, i>> : i \in T}
<1>1. {i \in Index : dt[p][i].kind = "sem" /\ dt[p][i].id = s} = T
  BY DEF Names
<1>2. IsFiniteSet(T)
  <2>1. 0 \in Int /\ 3 * D - 1 \in Int
    BY BaseIs
  <2>2. IsFiniteSet(Index)
    BY <2>1, BaseIs, FS_Interval
  <2> QED
    BY <2>2, FS_Subset
<1>3. IsFiniteSet(N) /\ Cardinality(N) <= Cardinality(T)
  <2> DEFINE f == [i \in T |-> <<c, i>>]
  <2>1. f \in Surjection(T, N)
    BY DEF Surjection
  <2> HIDE DEF f, T, N
  <2> QED
    BY <1>2, <2>1, FS_Surjection
<1>4. Named(s)' \subseteq Named(s) \cup N
  <2> SUFFICES ASSUME NEW q \in Procs, NEW i \in Index, Names(q, i, s)'
      PROVE  <<q, i>> \in Named(s) \cup N
    BY DEF Named, Names
  <2>1. CASE q = c
    BY <2>1
  <2>2. CASE q # c
    BY <2>2 DEF Named, Names
  <2> QED
    BY <2>1, <2>2
<1>5. /\ IsFiniteSet(Named(s)) /\ Cardinality(Named(s)) \in Nat
      /\ Cardinality(Named(s)') \in Nat
  BY NamedFinite
<1>6. Cardinality(T) \in Nat /\ Cardinality(N) \in Nat
  BY <1>2, <1>3, FS_CardinalityType
<1>7. /\ IsFiniteSet(Named(s) \cup N) /\ Cardinality(Named(s) \cap N) \in Nat
      /\ Cardinality(Named(s) \cup N)
           = Cardinality(Named(s)) + Cardinality(N) - Cardinality(Named(s) \cap N)
  <2>1. IsFiniteSet(Named(s) \cap N)
    BY <1>5, FS_Subset
  <2> HIDE DEF N
  <2> QED
    BY <1>3, <1>5, <2>1, FS_Union, FS_CardinalityType
<1>8. Cardinality(Named(s)') <= Cardinality(Named(s) \cup N)
  BY <1>4, <1>7, FS_Subset
<1> HIDE DEF T, N
<1>9. Cardinality(Named(s)') <= Cardinality(Named(s)) + Cardinality(T)
  BY <1>3, <1>5, <1>6, <1>7, <1>8
<1> QED
  BY <1>1, <1>6, <1>9

\* What fork() has changed when the child may run.
ForkEffect(p, c, full, old) ==
  /\ fork' = [fork EXCEPT ![p] =
       [slot |-> IF full THEN OutOfTable ELSE First("child") + count[p]["child"], child |-> c]]
  /\ wild' = (old["file"] # 0)
  /\ count' \in [Procs -> [{"file", "sem", "child"} -> Nat]]
  /\ \A q \in Procs : q # p /\ q # c => count'[q] = count[q]
  /\ \A t \in {"file", "sem", "child"} : count[p][t] <= count'[p][t]
  /\ ~full => count'[p]["child"] = count[p]["child"] + 1
  /\ count'[c]["file"] = old["file"] + Std

\* The counts of the parent and of the child.
LEMMA ForkCounts ==
  ASSUME TableTypes, NEW p \in Procs, NEW c \in Procs, c # p, ForkChild(p, c)
  PROVE  \E old \in Stale : ForkEffect(p, c, count[p]["child"] >= D, old)
<1> DEFINE full == count[p]["child"] >= D
<1>1. PICK old \in Stale :
        /\ wild' = (old["file"] # 0)
        /\ count' = [count EXCEPT
             ![p]["child"] = IF full THEN @ ELSE @ + 1,
             ![c] = [t \in Range(Types) |-> old[t] + (IF t = "file" THEN Std ELSE 0)]]
  BY DEF ForkChild
<1>2. fork' = [fork EXCEPT ![p] =
        [slot |-> IF full THEN OutOfTable ELSE First("child") + count[p]["child"], child |-> c]]
  <2>1. Base("child") = First("child")
    BY BaseIs
  <2> QED
    BY <2>1 DEF ForkChild
<1>3. old \in [{"file", "sem", "child"} -> Nat] /\ Std \in Nat
  BY <1>1, BaseIs, ProcessesAssumption
<1>4. PICK new \in [{"file", "sem", "child"} -> Nat] :
        /\ new = [t \in Range(Types) |-> old[t] + (IF t = "file" THEN Std ELSE 0)]
        /\ new["file"] = old["file"] + Std
  <2> DEFINE new == [t \in {"file", "sem", "child"} |-> old[t] + (IF t = "file" THEN Std ELSE 0)]
  <2>1. new \in [{"file", "sem", "child"} -> Nat] /\ new["file"] = old["file"] + Std
    BY <1>3
  <2>2. new = [t \in Range(Types) |-> old[t] + (IF t = "file" THEN Std ELSE 0)]
    BY BaseIs
  <2> QED
    BY <2>1, <2>2
<1>5. count \in [Procs -> [{"file", "sem", "child"} -> Nat]]
  BY DEF TableTypes
<1>6. PICK kid \in Nat : kid = (IF full THEN count[p]["child"] ELSE count[p]["child"] + 1)
  BY <1>5
<1>7. count' = [[count EXCEPT ![p] = [count[p] EXCEPT !["child"] = kid]] EXCEPT ![c] = new]
  BY <1>1, <1>4, <1>5, <1>6
<1>8. /\ count' \in [Procs -> [{"file", "sem", "child"} -> Nat]]
      /\ \A q \in Procs : q # p /\ q # c => count'[q] = count[q]
      /\ count'[p] = [count[p] EXCEPT !["child"] = kid] /\ count'[c] = new
  BY <1>5, <1>7
<1>9. /\ \A t \in {"file", "sem", "child"} : count[p][t] <= count'[p][t]
      /\ ~full => count'[p]["child"] = count[p]["child"] + 1
  BY <1>5, <1>6, <1>8
<1> QED
  BY <1>1, <1>2, <1>4, <1>8, <1>9 DEF ForkEffect

\* fork(): the child has copies of what its parent has, each of which is counted,
\* and its counts say nothing of them; the parent has reserved a free index.
LEMMA ForkChildKeeps ==
  ASSUME ProcInv, NEW p \in Procs, NEW c \in Procs, ForkChild(p, c) PROVE ProcInv' /\ Kept
<1>1. TableTypes /\ ForkTypes /\ Regions /\ D \in Nat
  BY BaseIs DEF ProcInv
<1>2. /\ ~wild /\ where[p] = "user" /\ where[c] = "none" /\ waiting' = waiting
      /\ where' = [where EXCEPT ![p] = "forking", ![c] = "user"]
      /\ \A s \in Sems : ~Contains(waiting[s], p)
  BY DEF ForkChild, Calls
<1>3. c # p
  BY <1>2
<1> DEFINE full == count[p]["child"] >= D
           copies == [i \in Index |-> IF dt[p][i].kind = "none" THEN Known(i) ELSE Copy(dt[p][i])]
<1>4. PICK old \in Stale : ForkEffect(p, c, full, old)
  BY <1>1, <1>3, ForkCounts
<1>5. dt' = [dt EXCEPT ![c] = copies]
  BY DEF ForkChild
<1>6. dt[c] = [i \in Index |-> Known(i)]
  BY <1>1, <1>2 DEF Regions, TableTypes
<1>7. \A i \in Index :
        /\ copies[i] \in Descriptors
        /\ copies[i] = Known(i) \/ copies[i] = Empty \/ (copies[i] = dt[p][i] /\ dt[p][i].kind # "child")
        /\ copies[i].kind = "sem" => copies[i] = dt[p][i]
        /\ dt[p][i].kind = "sem" => copies[i] = dt[p][i]
        /\ Known(i).kind \in {"none", "file"} /\ (Known(i).kind = "file" => i < Std)
        /\ Known(i) \in Descriptors /\ Empty \in Descriptors /\ Empty.kind = "none"
  <2> SUFFICES ASSUME NEW i \in Index
      PROVE  /\ copies[i] \in Descriptors
             /\ copies[i] = Known(i) \/ copies[i] = Empty \/ (copies[i] = dt[p][i] /\ dt[p][i].kind # "child")
             /\ copies[i].kind = "sem" => copies[i] = dt[p][i]
             /\ dt[p][i].kind = "sem" => copies[i] = dt[p][i]
             /\ Known(i).kind \in {"none", "file"} /\ (Known(i).kind = "file" => i < Std)
             /\ Known(i) \in Descriptors /\ Empty \in Descriptors /\ Empty.kind = "none"
    OBVIOUS
  <2>1. Empty \in Descriptors /\ Empty.kind = "none"
    BY DEF Empty, Descriptors, Kinds
  <2>2. /\ Known(i).kind \in {"none", "file"} /\ (Known(i).kind = "file" => i < Std)
        /\ Known(i) \in Descriptors
    <3>1. StdFile \in Descriptors /\ StdFile.kind = "file"
      BY DEF StdFile, NewFile, Descriptors, Kinds
    <3> QED
      BY <2>1, <3>1 DEF Known
  <2>3. dt[p][i] \in Descriptors
    BY <1>1 DEF TableTypes
  <2>4. copies[i] = IF dt[p][i].kind = "none" THEN Known(i)
                    ELSE IF dt[p][i].kind = "child" THEN Empty ELSE dt[p][i]
    BY DEF Copy
  <2> HIDE DEF copies
  <2> QED
    BY <2>1, <2>2, <2>3, <2>4
<1>8. /\ dt' \in [Procs -> [Index -> Descriptors]] /\ dt'[c] = copies
      /\ \A q \in Procs : q # c => dt'[q] = dt[q]
  <2>1. copies \in [Index -> Descriptors]
    BY <1>7
  <2> HIDE DEF copies
  <2> QED
    BY <1>1, <1>5, <2>1 DEF TableTypes
<1>9. /\ \A q \in Procs : q # c => disorder'[q] = disorder[q]
      /\ disorder'[c] = {copies[i].kind : i \in {j \in Index : copies[j] # Known(j)}}
      /\ disorder' \in [Procs -> SUBSET Kinds]
  <2>1. disorder' = [disorder EXCEPT ![c] =
           {dt'[c][i].kind : i \in {j \in Index : dt'[c][j] # Known(j)}}]
    BY DEF ForkChild
  <2>2. {copies[i].kind : i \in {j \in Index : copies[j] # Known(j)}} \subseteq Kinds
    BY <1>7 DEF Descriptors
  <2> HIDE DEF copies
  <2> QED
    BY <1>1, <1>8, <2>1, <2>2 DEF TableTypes
<1> HIDE DEF copies
<1>10. /\ where' \in [Procs -> {"none", "user", "forking", "zombie", "deleted"}]
       /\ where'[p] = "forking" /\ where'[c] = "user"
       /\ \A q \in Procs : q # p /\ q # c => where'[q] = where[q]
  BY <1>1, <1>2, <1>3 DEF TableTypes
<1>11. TableTypes'
  <2>1. refs' \in [Sems -> Int]
    <3>1. \A s \in Sems : Cardinality({i \in Index : dt[p][i].kind = "sem" /\ dt[p][i].id = s}) \in Int
      <4>1. 0 \in Int /\ 3 * D - 1 \in Int
        BY BaseIs
      <4>2. IsFiniteSet(Index)
        BY <4>1, BaseIs, FS_Interval
      <4> QED
        BY <4>2, FS_Subset, FS_CardinalityType
    <3> QED
      <4>1. refs' = [s \in Sems |-> refs[s]
               + Cardinality({i \in Index : dt[p][i].kind = "sem" /\ dt[p][i].id = s})]
        BY DEF ForkChild, CopyRefs
      <4>2. \A s \in Sems : refs[s] \in Int
        BY <1>1 DEF TableTypes
      <4> DEFINE m(s) == Cardinality({i \in Index : dt[p][i].kind = "sem" /\ dt[p][i].id = s})
      <4>3. refs' = [s \in Sems |-> refs[s] + m(s)] /\ \A s \in Sems : m(s) \in Int
        BY <3>1, <4>1
      <4> HIDE DEF m
      <4> QED
        BY <4>2, <4>3
  <2>2. wild' \in BOOLEAN
    BY <1>4 DEF ForkEffect
  <2> QED
    BY <1>1, <1>2, <1>4, <1>8, <1>9, <1>10, <2>1, <2>2 DEF TableTypes, ForkEffect
<1>12. PICK slot \in Nat : /\ slot = (IF full THEN OutOfTable ELSE First("child") + count[p]["child"])
                           /\ ~full => First("child") <= slot /\ slot < First("child") + D
  <2>1. count[p]["child"] \in Nat
    BY <1>1 DEF TableTypes
  <2> QED
    BY <1>1, <2>1, BaseIs DEF OutOfTable
<1>13. /\ fork' \in [Procs -> [slot : Nat, child : Procs \cup {0}]]
       /\ fork'[p].slot = slot /\ fork'[p].child = c
       /\ \A q \in Procs : q # p => fork'[q] = fork[q]
  <2>1. fork' = [fork EXCEPT ![p] = [slot |-> slot, child |-> c]]
    BY <1>4, <1>12 DEF ForkEffect
  <2> QED
    BY <1>1, <2>1 DEF ForkTypes
<1>14. ForkTypes'
  BY <1>1, <1>10, <1>13 DEF ForkTypes
<1>15. Regions'
  <2> SUFFICES ASSUME NEW q \in Procs, NEW i \in Index
      PROVE  /\ dt'[q][i].kind # "none" =>
                  First(dt'[q][i].kind) <= i /\ i < First(dt'[q][i].kind) + D
             /\ dt'[q][i].kind = "sem" => dt'[q][i].id \in Sems
             /\ where'[q] = "none" => dt'[q][i] = Known(i)
    BY DEF Regions
  <2>1. CASE q # c
    BY <1>1, <1>8, <1>10, <2>1 DEF Regions
  <2>2. CASE q = c
    <3>1. copies[i] = Known(i) \/ copies[i] = Empty \/ copies[i] = dt[p][i]
      BY <1>7
    <3>2. First("file") = 0 /\ Std \in 0..D /\ i \in Nat
      BY BaseIs, ProcessesAssumption
    <3>3. CASE copies[i] = dt[p][i]
      BY <1>1, <1>8, <1>10, <2>2, <3>3 DEF Regions
    <3>4. CASE copies[i] = Known(i) \/ copies[i] = Empty
      <4>1. copies[i].kind \in {"none", "file"} /\ (copies[i].kind = "file" => i < Std)
        BY <1>7, <3>4
      <4>2. dt'[q][i] = copies[i] /\ where'[q] = "user"
        BY <1>8, <1>10, <2>2
      <4>3. copies[i].kind = "file" => First(copies[i].kind) <= i /\ i < First(copies[i].kind) + D
        BY <1>1, <3>2, <4>1
      <4> QED
        BY <4>1, <4>2, <4>3
    <3> QED
      BY <3>1, <3>3, <3>4
  <2> QED
    BY <2>1, <2>2
<1>16. RefInv'
  <2> SUFFICES ASSUME NEW s \in Sems PROVE Cardinality(Named(s)') <= refs'[s]
    BY DEF RefInv
  <2> DEFINE T == {i \in Index : dt[p][i].kind = "sem" /\ dt[p][i].id = s}
  <2>1. \A i \in Index : ~Names(c, i, s) /\ (Names(c, i, s)' <=> Names(p, i, s))
    BY <1>6, <1>7, <1>8 DEF Names
  <2>2. /\ Cardinality(T) \in Nat
        /\ Cardinality(Named(s)') <= Cardinality(Named(s)) + Cardinality(T)
    BY <1>1, <1>3, <1>8, <2>1, ChildNames
  <2>3. refs'[s] = refs[s] + Cardinality(T)
    BY <1>1 DEF ForkChild, CopyRefs, TableTypes
  <2>4. /\ Cardinality(Named(s)) <= refs[s] /\ refs[s] \in Int
        /\ Cardinality(Named(s)) \in Nat /\ Cardinality(Named(s)') \in Nat
    BY <1>1, NamedFinite DEF ProcInv, RefInv, TableTypes
  <2> HIDE DEF T
  <2> QED
    BY <2>2, <2>3, <2>4
<1>17. WaitInv'
  <2>1. \A s \in Sems, q \in Procs : Contains(waiting[s], q) => q # p /\ q # c
    BY <1>2 DEF ProcInv, WaitInv
  <2> QED
    BY <1>2, <1>8, <1>10, <2>1, WaitersStay DEF ProcInv
<1>18. OrderInv'
  <2> SUFFICES ASSUME ~wild', NEW q \in Procs, NEW i \in Index, where'[q] # "none",
                      dt'[q][i].kind \notin {"none"} \cup disorder'[q]
      PROVE  i < First(dt'[q][i].kind) + count'[q][dt'[q][i].kind]
    BY DEF OrderInv
  <2>1. CASE q = c
    <3>1. copies[i] = Known(i)
      BY <1>8, <1>9, <2>1
    <3>2. dt'[q][i].kind = "file" /\ i < Std
      BY <1>7, <1>8, <2>1, <3>1
    <3>3. old["file"] = 0 /\ count'[c]["file"] = old["file"] + Std
      BY <1>4 DEF ForkEffect
    <3>4. Std \in Nat /\ i \in Nat /\ First("file") = 0
      BY BaseIs, ProcessesAssumption
    <3> QED
      BY <2>1, <3>2, <3>3, <3>4
  <2>2. CASE q # c
    <3>1. PICK t \in {"file", "sem", "child"} : t = dt[q][i].kind
      BY <1>1, <1>8, <2>2 DEF TableTypes, Descriptors, Kinds
    <3>2. i < First(t) + count[q][t]
      BY <1>2, <1>8, <1>9, <1>10, <2>2, <3>1 DEF ProcInv, OrderInv
    <3>3. count[q][t] <= count'[q][t]
      <4>1. count[q][t] \in Nat
        BY <1>1 DEF TableTypes
      <4> QED
        BY <1>4, <2>2, <4>1 DEF ForkEffect
    <3>4. First(t) \in Nat /\ i \in Nat /\ count[q][t] \in Nat /\ count'[q][t] \in Nat
      <4>1. First(t) \in Nat /\ i \in Nat
        BY <3>1, BaseIs
      <4> QED
        BY <1>1, <1>11, <4>1, SMTT(30) DEF TableTypes
    <3> QED
      BY <1>8, <2>2, <3>1, <3>2, <3>3, <3>4
  <2> QED
    BY <2>1, <2>2
<1>19. ForkInv'
  <2> SUFFICES ASSUME NEW q \in Procs, where'[q] = "forking", fork'[q].slot # OutOfTable
      PROVE  /\ fork'[q].slot \in First("child")..(First("child") + D - 1)
             /\ fork'[q].slot < First("child") + count'[q]["child"]
             /\ "child" \notin disorder'[q] => dt'[q][fork'[q].slot].kind = "none"
    BY DEF ForkInv
  <2>1. q # c
    BY <1>10
  <2>2. CASE q = p
    <3>1. /\ ~full /\ slot = First("child") + count[p]["child"]
          /\ First("child") <= slot /\ slot < First("child") + D
      BY <1>12, <1>13, <2>2
    <3>2. count'[p]["child"] = count[p]["child"] + 1
      BY <1>4, <3>1 DEF ForkEffect
    <3>3. count[p]["child"] \in Nat /\ First("child") \in Nat /\ slot \in Index
      BY <1>1, <3>1, BaseIs, SMTT(30) DEF TableTypes
    <3>4. ASSUME "child" \notin disorder[p] PROVE dt[p][slot].kind = "none"
      <4> SUFFICES ASSUME dt[p][slot].kind # "none" PROVE FALSE
        OBVIOUS
      <4>1. PICK t \in {"file", "sem", "child"} : t = dt[p][slot].kind
        BY <1>1, <3>3 DEF TableTypes, Descriptors, Kinds
      <4>2. First(t) <= slot /\ slot < First(t) + D
        BY <1>1, <3>3, <4>1 DEF Regions
      <4>3. t = "child"
        BY <3>1, <4>2, BaseIs
      <4>4. slot < First("child") + count[p]["child"]
        BY <1>2, <3>3, <3>4, <4>1, <4>3 DEF ProcInv, OrderInv
      <4> QED
        BY <3>1, <3>3, <4>4
    <3>5. fork'[p].slot = slot
      BY <1>13
    <3>6. dt'[p] = dt[p] /\ disorder'[p] = disorder[p]
      BY <1>3, <1>8, <1>9
    <3>7. slot \in First("child")..(First("child") + D - 1) /\ slot < First("child") + count'[p]["child"]
      BY <1>1, <3>1, <3>2, <3>3
    <3> QED
      BY <2>2, <3>4, <3>5, <3>6, <3>7
  <2>3. CASE q # p
    <3>1. where[q] = "forking" /\ fork'[q] = fork[q] /\ count'[q] = count[q]
      BY <1>4, <1>10, <1>13, <2>1, <2>3 DEF ForkEffect
    <3> QED
      BY <1>8, <1>9, <2>1, <3>1 DEF ProcInv, ForkInv
  <2> QED
    BY <2>2, <2>3
<1>20. Kept
  <2>1. \A q \in Procs : Running(q) => q # c
    BY <1>2 DEF Running
  <2> QED
    BY <1>8, <2>1 DEF Kept
<1> QED
  BY <1>11, <1>14, <1>15, <1>16, <1>17, <1>18, <1>19, <1>20 DEF ProcInv

-----------------------------------------------------------------------------
\* What is in the place of a descriptor that a PCB begins with.
LEMMA KnownIs ==
  ASSUME NEW i \in Index
  PROVE  /\ Known(i) \in Descriptors /\ Known(i).kind \in {"none", "file"}
         /\ Known(i).kind = "file" => i < Std /\ First("file") <= i /\ i < First("file") + D
<1>1. StdFile \in Descriptors /\ StdFile.kind = "file"
  BY DEF StdFile, NewFile, Descriptors, Kinds
<1>2. Empty \in Descriptors /\ Empty.kind = "none"
  BY DEF Empty, Descriptors, Kinds
<1>3. Std \in 0..D /\ D \in Nat /\ i \in Nat /\ First("file") = 0
  BY BaseIs, ProcessesAssumption
<1> QED
  BY <1>1, <1>2, <1>3 DEF Known

\* The first process has what thread() gives it, and there is no semaphore.
LEMMA ProcStart == Init => ProcInv
<1> SUFFICES ASSUME Init PROVE ProcInv
  OBVIOUS
<1>1. /\ dt = [p \in Procs |-> [i \in Index |-> Known(i)]]
      /\ fork = [p \in Procs |-> NoFork]
      /\ disorder = [p \in Procs |-> {}]
      /\ refs = [s \in Sems |-> 0] /\ waiting = [s \in Sems |-> << >>]
      /\ wild = FALSE
      /\ where \in [Procs -> {"none", "user", "forking", "zombie", "deleted"}]
      /\ \A p \in Procs : where[p] # "forking"
  BY DEF Init
<1>2. count = [p \in Procs |-> [t \in {"file", "sem", "child"} |-> IF t = "file" THEN Std ELSE 0]]
  BY BaseIs DEF Init
<1>3. Std \in Nat
  BY ProcessesAssumption
<1>4. TableTypes
  <2>1. dt \in [Procs -> [Index -> Descriptors]]
    BY <1>1, KnownIs
  <2>2. << >> \in Seq(Procs)
    OBVIOUS
  <2>3. /\ count \in [Procs -> [{"file", "sem", "child"} -> Nat]]
        /\ disorder \in [Procs -> SUBSET Kinds]
        /\ refs \in [Sems -> Int] /\ wild \in BOOLEAN
    <3>1. \A t \in {"file", "sem", "child"} : (IF t = "file" THEN Std ELSE 0) \in Nat
      BY <1>3
    <3>2. count \in [Procs -> [{"file", "sem", "child"} -> Nat]]
      BY <1>2, <3>1
    <3>3. disorder \in [Procs -> SUBSET Kinds]
      <4>1. disorder = [p \in Procs |-> {}] /\ {} \in SUBSET Kinds
        BY <1>1
      <4> QED
        BY <4>1
    <3>4. refs \in [Sems -> Int] /\ wild \in BOOLEAN
      <4>1. refs = [s \in Sems |-> 0] /\ wild = FALSE
        BY <1>1
      <4>2. refs \in [Sems -> Int]
        BY <4>1
      <4>3. wild \in BOOLEAN
        BY <4>1
      <4> QED
        BY <4>2, <4>3
    <3> QED
      BY <3>2, <3>3, <3>4
  <2>4. waiting \in [Sems -> Seq(Procs)]
    BY <1>1, <2>2
  <2> QED
    BY <1>1, <2>1, <2>3, <2>4 DEF TableTypes
<1>5. ForkTypes
  BY <1>1 DEF ForkTypes, NoFork
<1>6. \A p \in Procs, i \in Index : dt[p][i] = Known(i)
  BY <1>1
<1>7. Regions
  <2> SUFFICES ASSUME NEW p \in Procs, NEW i \in Index
      PROVE  /\ dt[p][i].kind # "none" =>
                  First(dt[p][i].kind) <= i /\ i < First(dt[p][i].kind) + D
             /\ dt[p][i].kind = "sem" => dt[p][i].id \in Sems
             /\ where[p] = "none" => dt[p][i] = Known(i)
    BY DEF Regions
  <2> QED
    BY <1>6, KnownIs
<1>8. RefInv
  <2> SUFFICES ASSUME NEW s \in Sems PROVE Cardinality(Named(s)) <= refs[s]
    BY DEF RefInv
  <2>1. \A p \in Procs, i \in Index : ~Names(p, i, s)
    BY <1>6, KnownIs DEF Names
  <2>2. Named(s) = {}
    BY <2>1 DEF Named
  <2> QED
    BY <1>1, <2>2, FS_EmptySet
<1>9. WaitInv
  BY <1>1 DEF WaitInv, Contains
<1>10. OrderInv
  <2> SUFFICES ASSUME NEW p \in Procs, NEW i \in Index, dt[p][i].kind # "none"
      PROVE  i < First(dt[p][i].kind) + count[p][dt[p][i].kind]
    BY DEF OrderInv
  <2>1. dt[p][i].kind = "file" /\ i < Std
    BY <1>6, KnownIs
  <2>2. First("file") = 0 /\ count[p]["file"] = Std /\ i \in Nat
    BY <1>2, BaseIs
  <2> QED
    BY <1>3, <2>1, <2>2
<1>11. ForkInv
  BY <1>1 DEF ForkInv
<1> QED
  BY <1>4, <1>5, <1>7, <1>8, <1>9, <1>10, <1>11 DEF ProcInv

\* Every call of a process keeps the invariant, and its descriptors.
LEMMA ProcStep == ProcInv /\ [Next]_vars => ProcInv' /\ Kept
<1> SUFFICES ASSUME ProcInv, [Next]_vars PROVE ProcInv' /\ Kept
  OBVIOUS
<1>1. CASE UNCHANGED vars
  BY <1>1, QuietKeeps DEF vars
<1>2. CASE Next
  <2>1. PICK p \in Procs :
          \/ Open(p) \/ Sem(p) \/ ForkReturn(p) \/ Exit(p) \/ Reap(p) \/ Access(p) \/ Exec(p)
          \/ \E c \in Procs : ForkChild(p, c)
          \/ \E i \in Index :
               Up(p, i) \/ Down(p, i) \/ ReadFile(p, i) \/ Seek(p, i) \/ Close(p, i) \/ Wait(p, i)
    BY <1>2 DEF Next
  <2>2. CASE Open(p)
    BY <2>2, OpenKeeps
  <2>3. CASE Sem(p)
    BY <2>3, SemKeeps
  <2>4. CASE ForkReturn(p)
    BY <2>4, ForkReturnKeeps
  <2>5. CASE Exit(p) \/ Reap(p)
    BY <2>5, EndKeeps
  <2>6. CASE Access(p) \/ Exec(p)
    BY <2>6, QuietKeeps DEF Access, Exec
  <2>7. CASE \E c \in Procs : ForkChild(p, c)
    BY <2>7, ForkChildKeeps
  <2>8. ASSUME NEW i \in Index,
               Up(p, i) \/ Down(p, i) \/ ReadFile(p, i) \/ Seek(p, i) \/ Close(p, i) \/ Wait(p, i)
        PROVE  ProcInv' /\ Kept
    <3>1. CASE Up(p, i)
      BY <3>1, UpKeeps
    <3>2. CASE Down(p, i)
      BY <3>2, DownKeeps
    <3>3. CASE ReadFile(p, i) \/ Seek(p, i)
      BY <3>3, FileKeeps
    <3>4. CASE Close(p, i)
      BY <3>4, CloseKeeps
    <3>5. CASE Wait(p, i)
      BY <3>5, QuietKeeps DEF Wait
    <3> QED
      BY <2>8, <3>1, <3>2, <3>3, <3>4, <3>5
  <2> QED
    BY <2>1, <2>2, <2>3, <2>4, <2>5, <2>6, <2>7, <2>8
<1> QED
  BY <1>1, <1>2

\* The tables, the counts and the Shareds agree as ProcInv says, in every run.
THEOREM ProcInvariance == Spec => []ProcInv
<1>1. ProcInv /\ [Next]_vars => ProcInv'
  BY ProcStep
<1> QED
  BY <1>1, ProcStart, PTL DEF Spec

\* A semaphore that a process can name or waits on has not been deleted
\* (SemaphoreDescriptor and its Shared).
THEOREM SemaphoresOutlive == Spec => []SemaphoreOutlivesUsers
<1>1. ProcInv => SemaphoreOutlivesUsers
  <2> SUFFICES ASSUME ProcInv, NEW s \in Sems, NEW p \in Procs,
                      Contains(waiting[s], p) \/ \E i \in Index : Names(p, i, s)
      PROVE  refs[s] > 0
    BY DEF SemaphoreOutlivesUsers, Names
  <2>1. PICK i \in Index : Names(p, i, s)
    BY DEF ProcInv, WaitInv
  <2>2. <<p, i>> \in Named(s)
    BY <2>1 DEF Named
  <2>3. Cardinality(Named(s)) # 0 /\ Cardinality(Named(s)) \in Nat
    BY <2>2, NamedFinite, FS_EmptySet
  <2>4. Cardinality(Named(s)) <= refs[s] /\ refs[s] \in Int
    BY DEF ProcInv, RefInv, TableTypes
  <2> QED
    BY <2>3, <2>4
<1> QED
  BY <1>1, ProcInvariance, PTL

\* No open(), sem() or fork() puts a descriptor in the place of another, as long as
\* those of the type were closed last first and none was inherited (next_dti).
THEOREM DescriptorsStay == Spec => DescriptorsKept
<1>1. ProcInv /\ [Next]_vars => Kept
  BY ProcStep
<1>2. Kept <=>
        \A p \in Procs, i \in Index :
          Running(p) /\ dt[p][i].kind \notin {"none"} \union disorder[p] =>
            \/ dt'[p][i] = Empty
            \/ dt'[p][i].kind = dt[p][i].kind /\ dt'[p][i].id = dt[p][i].id
  BY DEF Kept
<1> QED
  BY <1>1, <1>2, ProcInvariance, PTL DEF Spec, DescriptorsKept

-----------------------------------------------------------------------------
LessNat == {ss \in Nat \X Nat : ss[1] < ss[2]}
\* Induction over the natural numbers, as the least element of a set of them, and as
\* a set that every number is in.
LEMMA LessNatWF == IsWellFoundedOn(LessNat, Nat)
  BY NatLessThanWellFounded, Zenon DEF LessNat, OpToRel
\* A set of natural numbers has a least element.
LEMMA LeastElement ==
  ASSUME NEW S \in SUBSET Nat, S # {}
  PROVE  \E n \in S : \A k \in S : n <= k
<1>1. PICK n \in S : \A k \in S : <<k, n>> \notin LessNat
  BY LessNatWF, WFMin, Zenon
<1>2. ASSUME NEW k \in S, k < n PROVE FALSE
  <2>1. <<k, n>> \in LessNat
    BY <1>2 DEF LessNat
  <2> QED BY <1>1, <2>1
<1> QED BY <1>2

\* A set with zero, and with the next of every number in it, has them all.
LEMMA SetInduction ==
  ASSUME NEW S, 0 \in S, \A n \in Nat : n \in S => n + 1 \in S
  PROVE  Nat \subseteq S
<1> SUFFICES ASSUME Nat \ S # {} PROVE FALSE
  OBVIOUS
<1>1. PICK n \in Nat \ S : \A k \in Nat \ S : n <= k
  BY LeastElement
<1>2. n # 0 /\ n - 1 \in Nat /\ n - 1 \notin Nat \ S
  BY <1>1
<1> QED BY <1>2

\* f takes n steps from t, one after the other.
Runs(f, T, t, step, n) ==
  f \in [0..n -> T] /\ f[0] = t /\ \A i \in 1..n : f[i] = step[<<i, f[i - 1]>>]
Can(T, t, step, n) == \E f \in [0..n -> T] : Runs(f, T, t, step, n)
\* A function that is defined step by step exists.
LEMMA Iteration ==
  ASSUME NEW T, NEW t \in T, NEW m \in Nat, NEW step \in [(1..m) \X T -> T]
  PROVE  \E f \in [0..m -> T] : Runs(f, T, t, step, m)
<1> DEFINE Ns == {n \in Nat : n <= m => Can(T, t, step, n)}
<1>1. Can(T, t, step, 0)
  <2> DEFINE g == [i \in 0..0 |-> t]
  <2>1. g \in [0..0 -> T] /\ Runs(g, T, t, step, 0)
    BY DEF Runs
  <2> QED BY <2>1 DEF Can
<1>2. ASSUME NEW n \in Nat, n + 1 <= m, Can(T, t, step, n) PROVE Can(T, t, step, n + 1)
  <2>1. PICK f \in [0..n -> T] : Runs(f, T, t, step, n)
    BY <1>2 DEF Can
  <2>2. PICK v \in T : v = step[<<n + 1, f[n]>>]
    BY <1>2, <2>1
  <2> DEFINE g == [i \in 0..(n + 1) |-> IF i = n + 1 THEN v ELSE f[i]]
  <2>3. g \in [0..(n + 1) -> T]
    OBVIOUS
  <2>4. g[0] = t /\ g[n] = f[n] /\ g[n + 1] = v
    BY <2>1 DEF Runs
  <2>5. \A i \in 1..n : g[i] = f[i] /\ g[i - 1] = f[i - 1]
    OBVIOUS
  <2>6. Runs(g, T, t, step, n + 1)
    <3> HIDE DEF g
    <3>1. ASSUME NEW i \in 1..(n + 1) PROVE g[i] = step[<<i, g[i - 1]>>]
      <4>1. CASE i = n + 1
        BY <4>1, <2>4, <2>2
      <4>2. CASE i \in 1..n
        BY <4>2, <2>5, <2>1 DEF Runs
      <4> QED BY <4>1, <4>2
    <3> QED BY <2>3, <2>4, <3>1 DEF Runs
  <2> QED BY <2>3, <2>6 DEF Can
<1>3. 0 \in Ns /\ \A n \in Nat : n \in Ns => n + 1 \in Ns
  BY <1>1, <1>2
<1>4. m \in Ns
  <2> HIDE DEF Ns
  <2> QED BY <1>3, SetInduction
<1> QED BY <1>4 DEF Can

-----------------------------------------------------------------------------
\* The equation of the loop of InOrder, which has a solution.
Loop(g, order, slots) ==
  g = [i \in 0..Len(order) |->
         IF i = 0 THEN << >>
         ELSE IF order[i] \in slots THEN Append(g[i - 1], order[i]) ELSE g[i - 1]]

\* InOrder is the end of such a solution.
LEMMA LoopEnds ==
  ASSUME NEW S, NEW order \in Seq(S), NEW slots
  PROVE  \E g \in [0..Len(order) -> Seq(S)] : Loop(g, order, slots) /\ InOrder(order, slots) = g[Len(order)]
<1> DEFINE n == Len(order)
           step == [x \in (1..n) \X Seq(S) |->
                      IF order[x[1]] \in slots THEN Append(x[2], order[x[1]]) ELSE x[2]]
<1>1. n \in Nat /\ << >> \in Seq(S) /\ \A i \in 1..n : order[i] \in S
  OBVIOUS
<1>2. step \in [(1..n) \X Seq(S) -> Seq(S)]
  BY <1>1
<1>3. PICK f \in [0..n -> Seq(S)] : Runs(f, Seq(S), << >>, step, n)
  <2> HIDE DEF n, step
  <2> QED BY <1>1, <1>2, Iteration
<1>4. ASSUME NEW i \in 0..n
      PROVE  f[i] = IF i = 0 THEN << >>
                    ELSE IF order[i] \in slots THEN Append(f[i - 1], order[i]) ELSE f[i - 1]
  <2>1. CASE i = 0
    BY <2>1, <1>3 DEF Runs
  <2>2. CASE i \in 1..n
    <3>1. i - 1 \in 0..n /\ i # 0
      BY <2>2, <1>1
    <3>2. f[i - 1] \in Seq(S)
      BY <3>1, <1>3
    <3>3. f[i] = step[<<i, f[i - 1]>>]
      <4> HIDE DEF step, n
      <4> QED BY <2>2, <1>3 DEF Runs
    <3> QED BY <3>1, <3>2, <3>3, <2>2
  <2> QED BY <2>1, <2>2
<1>5. Loop(f, order, slots)
  BY <1>4 DEF Loop
<1>6. PICK g : Loop(g, order, slots) /\ InOrder(order, slots) = g[n]
  <2> DEFINE h == CHOOSE g : Loop(g, order, slots)
  <2>1. Loop(h, order, slots)
    BY <1>5
  <2>2. InOrder(order, slots) = h[n]
    BY DEF InOrder, Loop
  <2> QED BY <2>1, <2>2
<1>7. ASSUME NEW i \in 1..n
      PROVE  g[i] = IF order[i] \in slots THEN Append(g[i - 1], order[i]) ELSE g[i - 1]
  <2>1. i \in 0..n /\ i # 0
    BY <1>1
  <2> QED BY <2>1, <1>6 DEF Loop
<1>8. g[0] = << >> /\ DOMAIN g = 0..n /\ g = [i \in 0..n |-> g[i]]
  BY <1>6, <1>1 DEF Loop
<1>9. ASSUME NEW i \in Nat PROVE i <= n => g[i] \in Seq(S)
  <2> DEFINE Ns == {k \in Nat : k <= n => g[k] \in Seq(S)}
  <2>1. 0 \in Ns
    BY <1>8, <1>1
  <2>2. ASSUME NEW k \in Nat, k \in Ns PROVE k + 1 \in Ns
    <3>1. CASE k + 1 <= n
      <4>1. g[k] \in Seq(S) /\ order[k + 1] \in S
        BY <2>2, <3>1, <1>1
      <4>2. g[k + 1] = IF order[k + 1] \in slots THEN Append(g[k], order[k + 1]) ELSE g[k]
        <5>1. k + 1 \in 0..n /\ k + 1 \in 1..n /\ (k + 1) - 1 = k
          BY <3>1, <1>1
        <5> QED BY <1>7, <5>1
      <4>3. Append(g[k], order[k + 1]) \in Seq(S)
        BY <4>1
      <4>4. g[k + 1] \in Seq(S)
        BY <4>1, <4>2, <4>3, Zenon
      <4> QED BY <4>4
    <3> QED BY <3>1, <1>1
  <2> HIDE DEF Ns
  <2>3. Nat \subseteq Ns
    BY <2>1, <2>2, SetInduction
  <2> QED BY <2>3 DEF Ns
<1>10. g \in [0..n -> Seq(S)]
  BY <1>8, <1>9, <1>1
<1> QED BY <1>6, <1>10

\* Nothing is twice in q.
Once(q) == \A i, j \in 1..Len(q) : q[i] = q[j] => i = j

\* Each of the slots is in q.
Covers(q, slots) == \A s \in slots : \E i \in 1..Len(q) : q[i] = s

\* InOrder lists each of the slots that are in the order, once.
LEMMA InOrderLists ==
  ASSUME NEW S, NEW order, order \in Seq(S), Once(order), NEW slots, Covers(order, slots)
  PROVE  /\ InOrder(order, slots) \in Seq(slots) /\ Once(InOrder(order, slots))
         /\ Covers(InOrder(order, slots), slots)
<1> DEFINE n == Len(order)
<1>0. n \in Nat
  OBVIOUS
<1>1. PICK g \in [0..n -> Seq(S)] : Loop(g, order, slots) /\ InOrder(order, slots) = g[n]
  BY LoopEnds
<1> DEFINE Upto(q, k) ==
             /\ q \in Seq(slots) /\ Once(q)
             /\ \A i \in 1..Len(q) : \E j \in 1..k : q[i] = order[j]
             /\ \A j \in 1..k : order[j] \in slots => \E i \in 1..Len(q) : q[i] = order[j]
           Ns == {k \in Nat : k <= n => Upto(g[k], k)}
<1>2. 0 \in Ns
  <2>1. g[0] = << >>
    BY <1>1, <1>0 DEF Loop
  <2>2. Upto(<< >>, 0)
    BY DEF Once
  <2> QED BY <2>1, <2>2
<1>3. ASSUME NEW k \in Nat, k + 1 <= n, Upto(g[k], k)
      PROVE  Upto(g[k + 1], k + 1)
  <2>1. k + 1 \in 0..n /\ k + 1 \in 1..n /\ (k + 1) - 1 = k /\ k + 1 # 0
    BY <1>3, <1>0
  <2>2. g[k + 1] = IF order[k + 1] \in slots THEN Append(g[k], order[k + 1]) ELSE g[k]
    BY <2>1, <1>1 DEF Loop
  <2>3. PICK q : q = g[k]
    OBVIOUS
  <2>4. PICK v : v = order[k + 1]
    OBVIOUS
  <2>5. Upto(q, k)
    BY <1>3, <2>3
  <2>6. \A i \in 1..Len(q) : q[i] # v
    BY <2>5, <2>4, <2>1 DEF Once
  <2>7. CASE v \in slots
    <3> DEFINE r == Append(q, v)
    <3>1. /\ r \in Seq(slots) /\ Len(r) = Len(q) + 1 /\ r[Len(q) + 1] = v
          /\ \A i \in 1..Len(q) : r[i] = q[i]
      BY <2>5, <2>7
    <3>2. Len(q) \in Nat
      BY <2>5
    <3> HIDE DEF r
    <3>a. PICK l \in Nat : l = Len(q)
      BY <3>2
    <3>b. \A i \in 1..Len(r) : i = l + 1 \/ i \in 1..l
      BY <3>a, <3>1
    <3>3. Once(r)
      <4>1. \A i, j \in 1..l : q[i] = q[j] => i = j
        BY <3>a, <2>5 DEF Once
      <4>2. \A i \in 1..l : r[i] = q[i] /\ q[i] # v
        BY <3>a, <3>1, <2>6
      <4>3. r[l + 1] = v
        BY <3>a, <3>1
      <4> HIDE DEF Upto
      <4> QED BY <3>b, <4>1, <4>2, <4>3 DEF Once
    <3>4. ASSUME NEW i \in 1..Len(r) PROVE \E j \in 1..(k + 1) : r[i] = order[j]
      <4>1. CASE i = l + 1
        BY <4>1, <3>a, <3>1, <2>4, <2>1
      <4>2. CASE i \in 1..l
        <5>1. PICK j \in 1..k : q[i] = order[j]
          BY <4>2, <3>a, <2>5
        <5>2. j \in 1..(k + 1) /\ r[i] = q[i]
          BY <4>2, <3>a, <3>1
        <5> QED BY <5>1, <5>2
      <4> QED BY <4>1, <4>2, <3>b
    <3>5. ASSUME NEW j \in 1..(k + 1), order[j] \in slots PROVE \E i \in 1..Len(r) : r[i] = order[j]
      <4>1. CASE j = k + 1
        BY <4>1, <3>1, <3>2, <2>4
      <4>2. CASE j \in 1..k
        BY <4>2, <3>1, <3>2, <3>5, <2>5
      <4> QED BY <4>1, <4>2
    <3>6. g[k + 1] = r
      BY <2>2, <2>3, <2>4, <2>7 DEF r
    <3> QED BY <3>1, <3>3, <3>4, <3>5, <3>6
  <2>8. CASE v \notin slots
    <3>1. g[k + 1] = q
      BY <2>2, <2>3, <2>4, <2>8
    <3>2. Upto(q, k + 1)
      <4>1. \A j \in 1..(k + 1) : order[j] \in slots => j \in 1..k
        BY <2>8, <2>4
      <4>2. \A j \in 1..k : j \in 1..(k + 1)
        OBVIOUS
      <4> QED BY <2>5, <4>1, <4>2
    <3> QED BY <3>1, <3>2
  <2> QED BY <2>7, <2>8
<1>4. n \in Ns
  <2>1. ASSUME NEW k \in Nat, k \in Ns PROVE k + 1 \in Ns
    <3>1. k <= n => Upto(g[k], k)
      <4> HIDE DEF Upto
      <4> QED BY <2>1
    <3>2. ASSUME k + 1 <= n PROVE Upto(g[k + 1], k + 1)
      <4>1. k <= n
        BY <3>2, <1>0
      <4> HIDE DEF Upto
      <4> QED BY <3>1, <3>2, <4>1, <1>3
    <3>3. k + 1 \in Nat
      OBVIOUS
    <3> HIDE DEF Upto
    <3> QED BY <3>2, <3>3
  <2> HIDE DEF Ns
  <2> QED BY <1>2, <2>1, <1>0, SetInduction
<1>5. Upto(g[n], n)
  BY <1>4, <1>0
<1>6. Covers(g[n], slots)
  <2> SUFFICES ASSUME NEW s \in slots PROVE \E i \in 1..Len(g[n]) : g[n][i] = s
    BY DEF Covers
  <2>1. PICK j \in 1..n : order[j] = s
    BY DEF Covers
  <2> QED BY <2>1, <1>5
<1>7. g[n] \in Seq(slots) /\ Once(g[n])
  BY <1>5
<1> QED BY <1>1, <1>6, <1>7

-----------------------------------------------------------------------------
\* What alloc_frame takes k times from the free list and then from the frames
\* that were never used, and what it leaves.
Fresh(avail) == [i \in 1..MaxFrame + 1 - avail |-> avail + i - 1]
Got(free, avail, k) == SubSeq(free \o Fresh(avail), 1, k)
Rest(free, k) == SubSeq(free, k + 1, Len(free))
Further(free, avail, k) == avail + (IF k > Len(free) THEN k - Len(free) ELSE 0)

\* The frames that were never used.
LEMMA FreshIs ==
  ASSUME NEW avail \in 1..MaxFrame + 1
  PROVE  Fresh(avail) \in Seq(Frames) /\ Len(Fresh(avail)) = MaxFrame + 1 - avail
BY MemoryAssumption DEF Frames, Fresh

\* No frame is lost or taken twice.
Divided(free, avail, k, got, rest, next) ==
  /\ got \in Seq(Frames) /\ Len(got) = k /\ Once(got)
  /\ rest \in Seq(Frames) /\ Once(rest) /\ next \in 1..MaxFrame + 1
  /\ \A i \in 1..Len(rest) : rest[i] < next
  /\ \A f \in Frames :
       /\ Contains(free, f) \/ f >= avail <=> Contains(got, f) \/ Contains(rest, f) \/ f >= next
       /\ ~ (Contains(got, f) /\ (Contains(rest, f) \/ f >= next))

\* What alloc_frame takes and what it leaves is what there was, divided.
LEMMA SupplyIs ==
  ASSUME NEW free \in Seq(Frames), Once(free), NEW avail \in 1..MaxFrame + 1,
         \A i \in 1..Len(free) : free[i] < avail,
         NEW k \in Nat, k <= Len(free) + (MaxFrame + 1 - avail)
  PROVE  Divided(free, avail, k, Got(free, avail, k), Rest(free, k), Further(free, avail, k))
<1> DEFINE fresh == [i \in 1..MaxFrame + 1 - avail |-> avail + i - 1]
           supply == free \o fresh
           got == SubSeq(supply, 1, k)
           rest == SubSeq(free, k + 1, Len(free))
           next == avail + (IF k > Len(free) THEN k - Len(free) ELSE 0)
<1>0. MaxFrame \in Nat /\ Frames = 1..MaxFrame
  BY MemoryAssumption DEF Frames
<1>1. PICK l \in Nat : l = Len(free)
  OBVIOUS
<1>2. fresh \in Seq(Frames) /\ Len(fresh) = MaxFrame + 1 - avail
  BY FreshIs DEF Fresh
<1>3. /\ supply \in Seq(Frames) /\ Len(supply) = l + (MaxFrame + 1 - avail)
      /\ \A i \in 1..l : supply[i] = free[i]
      /\ \A i \in (l + 1)..(l + (MaxFrame + 1 - avail)) : supply[i] = avail + (i - l) - 1
  <2>1. /\ supply \in Seq(Frames) /\ Len(supply) = l + (MaxFrame + 1 - avail)
        /\ \A i \in 1..l : supply[i] = free[i]
    <3> HIDE DEF fresh
    <3>1. supply \in Seq(Frames)
      BY <1>2
    <3>2. Len(supply) = Len(free) + Len(fresh)
      BY <1>2
    <3>3. \A i \in 1..Len(free) : supply[i] = free[i]
      BY <1>2
    <3> QED BY <3>1, <3>2, <3>3, <1>1, <1>2
  <2>2. ASSUME NEW i \in (l + 1)..(l + (MaxFrame + 1 - avail)) PROVE supply[i] = avail + (i - l) - 1
    <3>1. supply[i] = fresh[i - l] /\ i - l \in 1..(MaxFrame + 1 - avail)
      <4> HIDE DEF fresh
      <4> QED BY <1>1, <1>2, <1>0
    <3> QED BY <3>1, <1>0
  <2> QED BY <2>1, <2>2
<1>4. /\ got \in Seq(Frames) /\ Len(got) = k
      /\ \A i \in 1..k : got[i] = supply[i] /\ i \in 1..(l + (MaxFrame + 1 - avail))
  <2> HIDE DEF supply
  <2> QED BY <1>1, <1>3, <1>0
<1>5. \A i \in 1..k : \/ i \in 1..l /\ got[i] = free[i]
                      \/ i \in (l + 1)..k /\ got[i] = avail + (i - l) - 1
  <2> SUFFICES ASSUME NEW i \in 1..k PROVE \/ i \in 1..l /\ got[i] = free[i]
                                           \/ i \in (l + 1)..k /\ got[i] = avail + (i - l) - 1
    OBVIOUS
  <2> HIDE DEF supply, got
  <2>1. got[i] = supply[i] /\ i \in 1..(l + (MaxFrame + 1 - avail))
    BY <1>4
  <2>2. i \in 1..l \/ (i \in (l + 1)..k /\ i \in (l + 1)..(l + (MaxFrame + 1 - avail)))
    <3>1. avail \in Int /\ i \in Int /\ i >= 1 /\ i <= k /\ i <= l + (MaxFrame + 1 - avail)
      BY <2>1, <1>0
    <3>2. CASE i <= l
      <4>1. i \in 1..l
        BY <3>1, <3>2
      <4> QED BY <4>1
    <3>3. CASE ~ (i <= l)
      <4>1. i >= l + 1 /\ l + 1 \in Int /\ k \in Int
        BY <3>1, <3>3
      <4>2. i \in (l + 1)..k
        BY <3>1, <4>1
      <4>3. i \in (l + 1)..(l + (MaxFrame + 1 - avail))
        BY <3>1, <4>1, <1>0
      <4> QED BY <4>2, <4>3
    <3> QED BY <3>2, <3>3
  <2> QED BY <2>1, <2>2, <1>3
<1>6. /\ rest \in Seq(Frames) /\ Len(rest) = (IF k < l THEN l - k ELSE 0)
      /\ \A i \in 1..Len(rest) : rest[i] = free[i + k] /\ i + k \in 1..l
  <2>1. rest \in Seq(Frames)
    BY <1>1
  <2>2. Len(rest) = IF k + 1 <= l THEN l - (k + 1) + 1 ELSE 0
    BY <1>1
  <2>3. \A i \in 1..Len(rest) : rest[i] = free[(k + 1) + i - 1]
    BY <1>1, <2>2
  <2> HIDE DEF rest
  <2>4. \A i \in 1..Len(rest) : (k + 1) + i - 1 = i + k /\ i + k \in 1..l
    BY <2>2
  <2> QED BY <2>1, <2>2, <2>3, <2>4
<1>7. next = avail + (IF k > l THEN k - l ELSE 0)
  BY <1>1
<1>8. \A i, j \in 1..l : free[i] = free[j] => i = j
  BY <1>1 DEF Once
<1>9. \A i \in 1..l : free[i] < avail /\ free[i] \in Frames
  BY <1>1
<1> HIDE DEF got, rest, next
<1>10. Once(got)
  <2> SUFFICES ASSUME NEW i \in 1..k, NEW j \in 1..k, got[i] = got[j] PROVE i = j
    BY <1>4 DEF Once
  <2>1. CASE i \in 1..l /\ j \in 1..l
    <3>1. got[i] = free[i] /\ got[j] = free[j]
      BY <2>1, <1>5
    <3> QED BY <2>1, <3>1, <1>8
  <2>2. CASE i \in 1..l /\ j \in (l + 1)..k
    <3>1. got[i] = free[i] /\ got[j] = avail + (j - l) - 1
      BY <2>2, <1>5
    <3>2. free[i] < avail /\ free[i] \in Int
      BY <2>2, <1>9, <1>0
    <3>3. avail + (j - l) - 1 >= avail
      BY <2>2, <1>0
    <3>4. free[i] = avail + (j - l) - 1
      BY <3>1
    <3> QED BY <3>2, <3>3, <3>4
  <2>3. CASE i \in (l + 1)..k /\ j \in 1..l
    <3>1. got[j] = free[j] /\ got[i] = avail + (i - l) - 1
      BY <2>3, <1>5
    <3>2. free[j] < avail /\ free[j] \in Int
      BY <2>3, <1>9, <1>0
    <3> QED BY <2>3, <3>1, <3>2, <1>0
  <2>4. CASE i \in (l + 1)..k /\ j \in (l + 1)..k
    <3>1. got[i] = avail + (i - l) - 1 /\ got[j] = avail + (j - l) - 1
      BY <2>4, <1>5
    <3>2. avail + (i - l) - 1 = avail + (j - l) - 1
      BY <3>1
    <3> QED BY <2>4, <3>2, <1>0
  <2>5. \A x \in 1..k : x \in 1..l \/ x \in (l + 1)..k
    OBVIOUS
  <2> QED BY <2>1, <2>2, <2>3, <2>4, <2>5
<1>11. Once(rest)
  BY <1>6, <1>8, <1>0 DEF Once
<1>12. next \in 1..MaxFrame + 1 /\ \A i \in 1..Len(rest) : rest[i] < next
  BY <1>6, <1>7, <1>9, <1>1, <1>0
<1>13. ASSUME NEW f \in Frames
       PROVE  /\ Contains(free, f) \/ f >= avail <=> Contains(got, f) \/ Contains(rest, f) \/ f >= next
              /\ ~ (Contains(got, f) /\ (Contains(rest, f) \/ f >= next))
  <2>1. ASSUME Contains(free, f) PROVE Contains(got, f) \/ Contains(rest, f)
    <3>1. PICK i \in 1..l : free[i] = f
      BY <2>1, <1>1 DEF Contains
    <3>2. CASE i <= k
      <4>1. i \in 1..k /\ got[i] = f
        BY <3>1, <3>2, <1>5
      <4> QED BY <4>1, <1>4 DEF Contains
    <3>3. CASE k < i
      <4>1. i - k \in 1..Len(rest) /\ (i - k) + k = i
        BY <3>1, <3>3, <1>6
      <4> QED BY <4>1, <3>1, <1>6 DEF Contains
    <3> QED BY <3>2, <3>3
  <2>2. ASSUME f >= avail, f < next PROVE Contains(got, f)
    <3>1. f - avail + 1 + l \in 1..k /\ f - avail + 1 + l > l
      BY <2>2, <1>7, <1>0
    <3>2. got[f - avail + 1 + l] = avail + ((f - avail + 1 + l) - l) - 1
      BY <3>1, <1>5
    <3>3. avail + ((f - avail + 1 + l) - l) - 1 = f
      BY <1>0
    <3> QED BY <3>1, <3>2, <3>3, <1>4 DEF Contains
  <2>3. ASSUME Contains(got, f) PROVE /\ Contains(free, f) \/ f >= avail
                                      /\ ~ Contains(rest, f) /\ f < next
    <3>1. PICK i \in 1..k : got[i] = f
      BY <2>3, <1>4 DEF Contains
    <3>2. CASE i \in 1..l /\ f = free[i]
      <4>1. f < avail /\ avail <= next
        BY <3>2, <1>9, <1>7, <1>0
      <4>2. Contains(free, f)
        BY <3>2, <1>1 DEF Contains
      <4>3. \A j \in 1..Len(rest) : rest[j] # f
        BY <3>1, <3>2, <1>6, <1>8
      <4> QED BY <4>1, <4>2, <4>3, <1>12, <1>0 DEF Contains
    <3>3. CASE i \in (l + 1)..k /\ f = avail + (i - l) - 1
      <4>1. f >= avail /\ f < next
        BY <3>3, <1>7, <1>0
      <4>2. \A j \in 1..Len(rest) : rest[j] # f
        <5> SUFFICES ASSUME NEW j \in 1..Len(rest) PROVE rest[j] # f
          OBVIOUS
        <5>1. rest[j] = free[j + k] /\ j + k \in 1..l
          BY <1>6
        <5>2. rest[j] < avail /\ rest[j] \in Int
          BY <5>1, <1>9, <1>0
        <5> QED BY <4>1, <5>2, <1>0
      <4> QED BY <4>1, <4>2 DEF Contains
    <3> QED BY <3>1, <3>2, <3>3, <1>5
  <2>4. ASSUME Contains(rest, f) PROVE Contains(free, f)
    <3>1. PICK i \in 1..Len(rest) : rest[i] = f
      BY <2>4 DEF Contains
    <3> QED BY <3>1, <1>6, <1>1 DEF Contains
  <2>5. avail <= next
    BY <1>7, <1>0
  <2>6. next \in Int /\ avail \in Int /\ f \in Int
    BY <1>12, <1>0
  <2> QED BY <2>1, <2>2, <2>3, <2>4, <2>5, <2>6
<1>14. Divided(free, avail, k, got, rest, next)
  BY <1>4, <1>6, <1>10, <1>11, <1>12, <1>13 DEF Divided
<1> QED BY <1>14 DEF got, rest, next, Got, Rest, Further, Fresh

-----------------------------------------------------------------------------
\* The type of the memory.
Memories ==
  [avail : 1..MaxFrame + 1, free : Seq(Frames), panic : BOOLEAN,
   at : [Procs -> [Slots -> 0..MaxFrame]], data : [Frames -> Bytes]]

\* A frame that is in a slot, and what is on the page of a slot.
Used(m, f) == \E p \in Procs, s \in Slots : m.at[p][s] = f
Content(m, p, s) == IF m.at[p][s] = 0 THEN 0 ELSE m.data[m.at[p][s]]

\* A frame is in one slot, and those that were given out are in a slot or free.
OneSlot(m) ==
  \A p, q \in Procs, s, t \in Slots : m.at[p][s] # 0 /\ m.at[p][s] = m.at[q][t] => p = q /\ s = t
FreeOnce(m) == Once(m.free) /\ \A i \in 1..Len(m.free) : m.free[i] < m.avail
UsedOrFree(m) ==
  \A f \in Frames :
    /\ f < m.avail <=> Contains(m.free, f) \/ Used(m, f)
    /\ ~ (Contains(m.free, f) /\ Used(m, f))
Account(m) == OneSlot(m) /\ FreeOnce(m) /\ UsedOrFree(m)

\* The record that alloc_frame leaves.
AllocRecord(m, p, slots, got) ==
  [avail |-> Further(m.free, m.avail, Len(slots)), free |-> Rest(m.free, Len(slots)), panic |-> m.panic,
   at |-> [m.at EXCEPT ![p] =
            [s \in Slots |-> IF Contains(slots, s) THEN got[Place(slots, s)] ELSE m.at[p][s]]],
   data |-> [f \in Frames |-> IF Contains(got, f) THEN 0 ELSE m.data[f]]]

\* A panic, or that record.
LEMMA AllocIs ==
  ASSUME NEW m \in Memories, NEW p \in Procs, NEW slots, NEW n, n = Alloc(m, p, slots)
  PROVE  \/ n = [m EXCEPT !.panic = TRUE]
         \/ /\ ~ (Len(slots) > Len(m.free \o Fresh(m.avail)))
            /\ n = AllocRecord(m, p, slots, Got(m.free, m.avail, Len(slots)))
BY DEF Alloc, Memories, AllocRecord, Got, Rest, Further, Fresh

\* The place of a slot in a list that has it.
LEMMA PlaceIs ==
  ASSUME NEW slots, Len(slots) \in Nat, DOMAIN slots = 1..Len(slots), NEW s, Contains(slots, s)
  PROVE  Place(slots, s) \in 1..Len(slots) /\ slots[Place(slots, s)] = s
BY DEF Place, Contains

\* What alloc_frame keeps: the accounts, and what every process finds on its pages.
LEMMA AllocGives ==
  ASSUME NEW m \in Memories, Account(m), NEW p \in Procs, NEW slots \in Seq(Slots), Once(slots),
         \A s \in Slots : Contains(slots, s) => m.at[p][s] = 0,
         NEW n, n = Alloc(m, p, slots)
  PROVE  /\ n \in Memories /\ Account(n) /\ (m.panic => n.panic)
         /\ \A q \in Procs, s \in Slots : Content(n, q, s) = Content(m, q, s)
         /\ \A q \in Procs, s \in Slots : q # p \/ ~ Contains(slots, s) => n.at[q][s] = m.at[q][s]
         /\ ~ n.panic => \A s \in Slots : Contains(slots, s) => n.at[p][s] # 0
<1>0. MaxFrame \in Nat /\ Frames = 1..MaxFrame /\ 0 \in Bytes
  BY MemoryAssumption DEF Frames
<1>1. CASE n = [m EXCEPT !.panic = TRUE]
  <2>1. n \in Memories /\ n.panic /\ n.at = m.at /\ n.data = m.data /\ n.free = m.free /\ n.avail = m.avail
    BY <1>1 DEF Memories
  <2>2. Account(n)
    BY <2>1 DEF Account, OneSlot, FreeOnce, UsedOrFree, Used
  <2> QED BY <2>1, <2>2 DEF Content
<1>2. CASE n # [m EXCEPT !.panic = TRUE]
  <2> DEFINE k == Len(slots)
  <2>0. /\ m.avail \in 1..MaxFrame + 1 /\ m.free \in Seq(Frames) /\ m.panic \in BOOLEAN
        /\ m.at \in [Procs -> [Slots -> 0..MaxFrame]] /\ m.data \in [Frames -> Bytes]
    BY DEF Memories
  <2>1. k \in Nat /\ DOMAIN slots = 1..k
    OBVIOUS
  <2>2. PICK got : got = Got(m.free, m.avail, k)
    OBVIOUS
  <2>3. PICK rest : rest = Rest(m.free, k)
    OBVIOUS
  <2>4. PICK next : next = Further(m.free, m.avail, k)
    OBVIOUS
  <2>5. ~ (k > Len(m.free \o Fresh(m.avail))) /\ n = AllocRecord(m, p, slots, got)
    BY <1>2, AllocIs, <2>2
  <2>6. k <= Len(m.free) + (MaxFrame + 1 - m.avail)
    <3>1. PICK w : w = Fresh(m.avail)
      OBVIOUS
    <3>2. w \in Seq(Frames) /\ Len(w) = MaxFrame + 1 - m.avail
      BY <2>0, <3>1, FreshIs
    <3>3. Len(m.free \o w) = Len(m.free) + Len(w) /\ Len(m.free) \in Nat
      <4>1. PICK free : free = m.free
        OBVIOUS
      <4>2. free \in Seq(Frames)
        BY <4>1, <2>0
      <4>3. Len(free \o w) = Len(free) + Len(w) /\ Len(free) \in Nat
        BY ONLY <4>2, <3>2
      <4> QED BY <4>1, <4>3
    <3> HIDE DEF k
    <3> QED BY <2>5, <3>1, <3>2, <3>3, <2>1, <2>0, <1>0
  <2>7. Once(m.free) /\ \A i \in 1..Len(m.free) : m.free[i] < m.avail
    BY DEF Account, FreeOnce
  <2>8. Divided(m.free, m.avail, k, got, rest, next)
    <3> HIDE DEF k
    <3> QED BY <2>0, <2>1, <2>6, <2>7, SupplyIs, <2>2, <2>3, <2>4
  <2>8a. /\ got \in Seq(Frames) /\ Len(got) = k /\ Once(got)
         /\ rest \in Seq(Frames) /\ Once(rest) /\ next \in 1..MaxFrame + 1
         /\ \A i \in 1..Len(rest) : rest[i] < next
    BY <2>8 DEF Divided
  <2>8b. \A f \in Frames :
           /\ Contains(m.free, f) \/ f >= m.avail <=> Contains(got, f) \/ Contains(rest, f) \/ f >= next
           /\ ~ (Contains(got, f) /\ (Contains(rest, f) \/ f >= next))
    BY <2>8 DEF Divided
  <2> HIDE DEF k
  <2>9. /\ n.avail = next /\ n.free = rest /\ n.panic = m.panic
        /\ n.at = [m.at EXCEPT ![p] =
                     [s \in Slots |-> IF Contains(slots, s) THEN got[Place(slots, s)] ELSE m.at[p][s]]]
        /\ n.data = [f \in Frames |-> IF Contains(got, f) THEN 0 ELSE m.data[f]]
    BY <2>5, <2>3, <2>4 DEF AllocRecord, k
  <2>10. \A q \in Procs, s \in Slots : q # p \/ ~ Contains(slots, s) => n.at[q][s] = m.at[q][s]
    BY <2>9, <2>0
  <2>11. ASSUME NEW s \in Slots, Contains(slots, s)
         PROVE  /\ n.at[p][s] = got[Place(slots, s)] /\ n.at[p][s] \in Frames
                /\ Place(slots, s) \in 1..k /\ slots[Place(slots, s)] = s /\ Contains(got, n.at[p][s])
    <3>1. Place(slots, s) \in 1..k /\ slots[Place(slots, s)] = s
      BY <2>1, <2>11, PlaceIs DEF k
    <3>2. n.at[p][s] = got[Place(slots, s)]
      BY <2>9, <2>0, <2>11
    <3>3. got[Place(slots, s)] \in Frames
      BY <2>8a, <3>1
    <3> QED BY <3>1, <3>2, <3>3, <2>8a DEF Contains
  <2>12. n \in Memories
    <3>1. n.at \in [Procs -> [Slots -> 0..MaxFrame]]
      <4>0. /\ n.at = [q \in Procs |-> n.at[q]]
            /\ \A q \in Procs : q # p => n.at[q] = m.at[q]
            /\ n.at[p] = [s \in Slots |-> IF Contains(slots, s) THEN got[Place(slots, s)] ELSE m.at[p][s]]
        BY <2>9, <2>0
      <4>1. ASSUME NEW q \in Procs, NEW s \in Slots PROVE n.at[q][s] \in 0..MaxFrame
        <5>1. CASE q = p /\ Contains(slots, s)
          BY <5>1, <2>11, <1>0
        <5>2. CASE ~ (q = p /\ Contains(slots, s))
          BY <5>2, <2>10, <2>0
        <5> QED BY <5>1, <5>2
      <4>2. ASSUME NEW q \in Procs PROVE n.at[q] \in [Slots -> 0..MaxFrame]
        <5>1. CASE q = p
          <6>1. n.at[q] = [s \in Slots |-> n.at[q][s]]
            BY <4>0, <5>1
          <6> QED BY <6>1, <4>1
        <5>2. CASE q # p
          BY <5>2, <4>0, <2>0
        <5> QED BY <5>1, <5>2
      <4> QED BY <4>0, <4>2
    <3>2. n.data \in [Frames -> Bytes]
      BY <2>9, <2>0, <1>0
    <3>3. n = [avail |-> n.avail, free |-> n.free, panic |-> n.panic, at |-> n.at, data |-> n.data]
      BY <2>5 DEF AllocRecord
    <3> QED BY <3>1, <3>2, <3>3, <2>8a, <2>9, <2>0 DEF Memories
  \* The frames that were taken were in no slot.
  <2>13. \A f \in Frames : Contains(got, f) => ~ Used(m, f)
    <3>1. ASSUME NEW f \in Frames, Contains(got, f) PROVE ~ Used(m, f)
      <4>1. Contains(m.free, f) \/ f >= m.avail
        BY <3>1, <2>8b
      <4>2. UsedOrFree(m)
        BY DEF Account
      <4> QED BY <4>1, <4>2, <1>0, <2>0 DEF UsedOrFree
    <3> QED BY <3>1
  <2>14. \A f \in Frames : Used(n, f) <=> Used(m, f) \/ Contains(got, f)
    <3>1. ASSUME NEW f \in Frames, Used(n, f) PROVE Used(m, f) \/ Contains(got, f)
      <4>1. PICK q \in Procs, s \in Slots : n.at[q][s] = f
        BY <3>1 DEF Used
      <4>2. CASE q = p /\ Contains(slots, s)
        BY <4>1, <4>2, <2>11
      <4>3. CASE ~ (q = p /\ Contains(slots, s))
        BY <4>1, <4>3, <2>10 DEF Used
      <4> QED BY <4>2, <4>3
    <3>2. ASSUME NEW f \in Frames, Used(m, f) PROVE Used(n, f)
      <4>1. PICK q \in Procs, s \in Slots : m.at[q][s] = f
        BY <3>2 DEF Used
      <4>2. f # 0
        BY <1>0
      <4>3. ~ (q = p /\ Contains(slots, s))
        BY <4>1, <4>2
      <4> QED BY <4>1, <4>3, <2>10 DEF Used
    <3>3. ASSUME NEW f \in Frames, Contains(got, f) PROVE Used(n, f)
      <4>1. PICK i \in 1..k : got[i] = f
        BY <3>3, <2>8a DEF Contains
      <4>2. slots[i] \in Slots /\ Contains(slots, slots[i])
        BY <4>1, <2>1 DEF Contains, k
      <4>3. Place(slots, slots[i]) = i
        BY <4>1, <4>2, <2>11 DEF Once, k
      <4> QED BY <4>1, <4>2, <4>3, <2>11 DEF Used
    <3> QED BY <3>1, <3>2, <3>3
  <2>15. OneSlot(n)
    <3> SUFFICES ASSUME NEW q \in Procs, NEW r \in Procs, NEW s \in Slots, NEW t \in Slots,
                        n.at[q][s] # 0, n.at[q][s] = n.at[r][t]
                 PROVE  q = r /\ s = t
      BY DEF OneSlot
    <3>0. n.at[q][s] \in Frames /\ n.at[r][t] \in Frames
      <4>1. n.at \in [Procs -> [Slots -> 0..MaxFrame]]
        BY <2>12 DEF Memories
      <4>2. n.at[q][s] \in 0..MaxFrame /\ n.at[r][t] \in 0..MaxFrame /\ n.at[r][t] # 0
        BY <4>1
      <4> QED BY <4>2, <1>0
    <3>1. CASE (q = p /\ Contains(slots, s)) /\ (r = p /\ Contains(slots, t))
      <4>1. got[Place(slots, s)] = got[Place(slots, t)]
        BY <3>1, <2>11
      <4>2. Place(slots, s) = Place(slots, t)
        BY <4>1, <3>1, <2>8a, <2>11 DEF Once
      <4> QED BY <4>2, <3>1, <2>11
    <3>2. CASE (q = p /\ Contains(slots, s)) /\ ~ (r = p /\ Contains(slots, t))
      <4>1. Contains(got, n.at[q][s])
        BY <3>2, <2>11
      <4>2. Used(m, n.at[r][t])
        BY <3>2, <2>10 DEF Used
      <4> QED BY <4>1, <4>2, <3>0, <2>13
    <3>3. CASE ~ (q = p /\ Contains(slots, s)) /\ (r = p /\ Contains(slots, t))
      <4>1. Contains(got, n.at[r][t])
        BY <3>3, <2>11
      <4>2. Used(m, n.at[q][s])
        BY <3>3, <2>10 DEF Used
      <4> QED BY <4>1, <4>2, <3>0, <2>13
    <3>4. CASE ~ (q = p /\ Contains(slots, s)) /\ ~ (r = p /\ Contains(slots, t))
      <4>1. n.at[q][s] = m.at[q][s] /\ n.at[r][t] = m.at[r][t]
        BY <3>4, <2>10
      <4>2. OneSlot(m) /\ m.at[q][s] # 0 /\ m.at[q][s] = m.at[r][t]
        BY <4>1 DEF Account
      <4> QED BY <4>2 DEF OneSlot
    <3> QED BY <3>1, <3>2, <3>3, <3>4
  <2>16. FreeOnce(n)
    BY <2>8a, <2>9 DEF FreeOnce
  <2>17. UsedOrFree(n)
    <3> SUFFICES ASSUME NEW f \in Frames
                 PROVE  /\ f < next <=> Contains(rest, f) \/ Used(n, f)
                        /\ ~ (Contains(rest, f) /\ Used(n, f))
      BY <2>9 DEF UsedOrFree
    <3>1. /\ f < m.avail <=> Contains(m.free, f) \/ Used(m, f)
          /\ ~ (Contains(m.free, f) /\ Used(m, f))
      BY DEF Account, UsedOrFree
    <3>2. Used(n, f) <=> Used(m, f) \/ Contains(got, f)
      BY <2>14
    <3>3. /\ Contains(m.free, f) \/ f >= m.avail <=> Contains(got, f) \/ Contains(rest, f) \/ f >= next
          /\ ~ (Contains(got, f) /\ (Contains(rest, f) \/ f >= next))
      BY <2>8b
    <3>4. (f < m.avail <=> ~ (f >= m.avail)) /\ (f < next <=> ~ (f >= next))
      BY <1>0, <2>0, <2>8a
    <3>5. Contains(rest, f) => f < next
      BY <2>8a DEF Contains
    <3> QED BY <3>1, <3>2, <3>3, <3>4, <3>5
  <2>18. ASSUME NEW q \in Procs, NEW s \in Slots PROVE Content(n, q, s) = Content(m, q, s)
    <3>1. CASE q = p /\ Contains(slots, s)
      <4>1. m.at[q][s] = 0 /\ n.at[q][s] # 0 /\ n.data[n.at[q][s]] = 0
        BY <3>1, <2>11, <2>9, <1>0
      <4> QED BY <4>1 DEF Content
    <3>2. CASE ~ (q = p /\ Contains(slots, s))
      <4>1. n.at[q][s] = m.at[q][s]
        BY <3>2, <2>10
      <4>2. m.at[q][s] # 0 => /\ m.at[q][s] \in Frames /\ ~ Contains(got, m.at[q][s])
        BY <2>0, <2>13, <1>0 DEF Used
      <4>3. m.at[q][s] # 0 => n.data[m.at[q][s]] = m.data[m.at[q][s]]
        BY <4>2, <2>9
      <4> QED BY <4>1, <4>3 DEF Content
    <3> QED BY <3>1, <3>2
  <2>19. ~ n.panic => \A s \in Slots : Contains(slots, s) => n.at[p][s] # 0
    BY <2>11, <1>0
  <2> QED BY <2>9, <2>10, <2>12, <2>15, <2>16, <2>17, <2>18, <2>19 DEF Account
<1> QED BY <1>1, <1>2

-----------------------------------------------------------------------------
\* Two lists without a common element, one after the other.
LEMMA JoinIs ==
  ASSUME NEW S, NEW a \in Seq(S), NEW b \in Seq(S), Once(a), Once(b),
         \A x \in S : ~ (Contains(a, x) /\ Contains(b, x))
  PROVE  a \o b \in Seq(S) /\ Once(a \o b) /\ \A x : Contains(a \o b, x) <=> Contains(a, x) \/ Contains(b, x)
<1>1. PICK l \in Nat, k \in Nat : l = Len(a) /\ k = Len(b)
  OBVIOUS
<1>2. PICK c : c = a \o b
  OBVIOUS
<1>3. c \in Seq(S) /\ Len(c) = l + k /\ \A i \in 1..l : c[i] = a[i]
  BY <1>1, <1>2
<1>4. \A i \in (l + 1)..(l + k) : c[i] = b[i - l] /\ i - l \in 1..k
  BY <1>1, <1>2
<1>5. \A i \in 1..(l + k) : i \in 1..l \/ i \in (l + 1)..(l + k)
  OBVIOUS
<1>6. \A j \in 1..k : l + j \in (l + 1)..(l + k) /\ l + j \in 1..(l + k) /\ c[l + j] = b[j]
  <2>1. \A j \in 1..k : l + j \in (l + 1)..(l + k) /\ l + j \in 1..(l + k) /\ (l + j) - l = j
    OBVIOUS
  <2> QED BY <2>1, <1>4
<1>7. \A i \in 1..l : i \in 1..(l + k)
  OBVIOUS
<1>8. ASSUME NEW x PROVE Contains(c, x) <=> Contains(a, x) \/ Contains(b, x)
  <2>1. ASSUME Contains(c, x) PROVE Contains(a, x) \/ Contains(b, x)
    <3>1. PICK i \in 1..(l + k) : c[i] = x
      BY <2>1, <1>3 DEF Contains
    <3>2. CASE i \in 1..l
      BY <3>1, <3>2, <1>3, <1>1 DEF Contains
    <3>3. CASE i \in (l + 1)..(l + k)
      BY <3>1, <3>3, <1>4, <1>1 DEF Contains
    <3> QED BY <3>2, <3>3, <1>5
  <2>2. ASSUME Contains(a, x) PROVE Contains(c, x)
    BY <2>2, <1>1, <1>3, <1>7 DEF Contains
  <2>3. ASSUME Contains(b, x) PROVE Contains(c, x)
    <3>1. PICK j \in 1..k : b[j] = x
      BY <2>3, <1>1 DEF Contains
    <3>2. l + j \in 1..(l + k) /\ c[l + j] = x
      BY <3>1, <1>6
    <3> QED BY <3>2, <1>3 DEF Contains
  <2> QED BY <2>1, <2>2, <2>3
<1>9. ASSUME NEW i \in 1..(l + k), NEW j \in 1..(l + k), c[i] = c[j] PROVE i = j
  <2>0. /\ \A x, y \in 1..l : a[x] = a[y] => x = y
        /\ \A x, y \in 1..k : b[x] = b[y] => x = y
        /\ \A x \in 1..l, y \in 1..k : a[x] # b[y]
    <3>1. \A x, y \in 1..l : a[x] = a[y] => x = y
      BY <1>1 DEF Once
    <3>2. \A x, y \in 1..k : b[x] = b[y] => x = y
      BY <1>1 DEF Once
    <3>3. \A x \in 1..l, y \in 1..k : a[x] # b[y]
      <4>1. \A x \in 1..l : a[x] \in S /\ Contains(a, a[x])
        BY <1>1 DEF Contains
      <4>2. \A y \in 1..k : b[y] \in S /\ Contains(b, b[y])
        BY <1>1 DEF Contains
      <4> QED BY <4>1, <4>2
    <3> QED BY <3>1, <3>2, <3>3
  <2>1. CASE i \in 1..l /\ j \in 1..l
    BY <2>1, <2>0, <1>3, <1>9
  <2>2. CASE i \in 1..l /\ j \in (l + 1)..(l + k)
    BY <2>2, <2>0, <1>3, <1>4, <1>9
  <2>3. CASE i \in (l + 1)..(l + k) /\ j \in 1..l
    BY <2>3, <2>0, <1>3, <1>4, <1>9
  <2>4. CASE i \in (l + 1)..(l + k) /\ j \in (l + 1)..(l + k)
    <3>1. b[i - l] = b[j - l] /\ i - l \in 1..k /\ j - l \in 1..k
      BY <2>4, <1>4, <1>9
    <3>2. i - l = j - l
      BY <3>1, <2>0
    <3> QED BY <3>2
  <2> QED BY <2>1, <2>2, <2>3, <2>4, <1>5
<1>10. Once(c)
  BY <1>9, <1>3 DEF Once
<1> QED BY <1>2, <1>3, <1>8, <1>10

\* The frames of these slots, in the reverse order.
Given(m, p, slots) == Reverse([i \in DOMAIN slots |-> m.at[p][slots[i]]])

\* They are the frames that were there, each once.
LEMMA GivenIs ==
  ASSUME NEW m \in Memories, OneSlot(m), NEW p \in Procs, NEW slots \in Seq(Slots), Once(slots),
         \A s \in Slots : Contains(slots, s) => m.at[p][s] # 0
  PROVE  /\ Given(m, p, slots) \in Seq(Frames) /\ Once(Given(m, p, slots))
         /\ \A f : Contains(Given(m, p, slots), f) <=>
                     \E s \in Slots : Contains(slots, s) /\ m.at[p][s] = f
<1>0. MaxFrame \in Nat /\ Frames = 1..MaxFrame
  BY MemoryAssumption DEF Frames
<1>1. PICK k \in Nat : k = Len(slots)
  OBVIOUS
<1>2. \A i \in 1..k : slots[i] \in Slots /\ Contains(slots, slots[i])
  BY <1>1 DEF Contains
<1>3. \A s \in Slots : m.at[p][s] \in 0..MaxFrame
  BY DEF Memories
<1>4. \A i \in 1..k : m.at[p][slots[i]] \in Frames
  BY <1>0, <1>2, <1>3
<1>5. PICK g : g = Given(m, p, slots)
  OBVIOUS
<1>6. g = [i \in 1..k |-> m.at[p][slots[(k - i) + 1]]]
  <2> DEFINE h == [i \in DOMAIN slots |-> m.at[p][slots[i]]]
  <2>1. DOMAIN slots = 1..k
    BY <1>1
  <2>2. h = [i \in 1..k |-> m.at[p][slots[i]]]
    BY <2>1
  <2>3. h \in Seq(Frames) /\ Len(h) = k
    BY <2>2, <1>4
  <2>4. g = [i \in 1..Len(h) |-> h[(Len(h) - i) + 1]]
    BY <1>5 DEF Given, Reverse
  <2> HIDE DEF h
  <2>5. \A i \in 1..k : (k - i) + 1 \in 1..k
    OBVIOUS
  <2>6. \A i \in 1..k : h[(k - i) + 1] = m.at[p][slots[(k - i) + 1]]
    BY <2>2, <2>5
  <2> QED BY <2>4, <2>3, <2>6
<1>7. \A i \in 1..k : (k - i) + 1 \in 1..k
  OBVIOUS
<1>8. g \in Seq(Frames) /\ Len(g) = k /\ \A i \in 1..k : g[i] = m.at[p][slots[(k - i) + 1]]
  BY <1>6, <1>4, <1>7
<1>9. ASSUME NEW i \in 1..k, NEW j \in 1..k, g[i] = g[j] PROVE i = j
  <2>1. PICK x \in 1..k, y \in 1..k : x = (k - i) + 1 /\ y = (k - j) + 1
    BY <1>7
  <2>2. m.at[p][slots[x]] = m.at[p][slots[y]] /\ m.at[p][slots[x]] # 0
    <3>1. g[i] = m.at[p][slots[x]] /\ g[j] = m.at[p][slots[y]]
      BY <2>1, <1>8
    <3>2. m.at[p][slots[x]] \in Frames
      BY <1>4
    <3> QED BY <3>1, <3>2, <1>9, <1>0
  <2>3. slots[x] = slots[y]
    BY <2>2, <1>2 DEF OneSlot
  <2>4. x = y
    BY <2>3, <1>1 DEF Once
  <2> QED BY <2>1, <2>4
<1>10. Once(g)
  BY <1>9, <1>8 DEF Once
<1>11. ASSUME NEW f PROVE Contains(g, f) <=> \E s \in Slots : Contains(slots, s) /\ m.at[p][s] = f
  <2>1. ASSUME Contains(g, f) PROVE \E s \in Slots : Contains(slots, s) /\ m.at[p][s] = f
    <3>1. PICK i \in 1..k : g[i] = f
      BY <2>1, <1>8 DEF Contains
    <3>2. (k - i) + 1 \in 1..k /\ m.at[p][slots[(k - i) + 1]] = f
      BY <3>1, <1>7, <1>8
    <3> QED BY <3>2, <1>2
  <2>2. ASSUME NEW s \in Slots, Contains(slots, s), m.at[p][s] = f PROVE Contains(g, f)
    <3>1. PICK j \in 1..k : slots[j] = s
      BY <2>2, <1>1 DEF Contains
    <3>2. (k - j) + 1 \in 1..k /\ (k - ((k - j) + 1)) + 1 = j
      OBVIOUS
    <3>3. g[(k - j) + 1] = m.at[p][slots[j]]
      BY <3>2, <1>8
    <3> QED BY <3>1, <3>2, <3>3, <2>2, <1>8 DEF Contains
  <2> QED BY <2>1, <2>2
<1> QED BY <1>5, <1>8, <1>10, <1>11

\* What dealloc_frame keeps.
LEMMA DeallocGives ==
  ASSUME NEW m \in Memories, Account(m), NEW p \in Procs, NEW slots \in Seq(Slots), Once(slots),
         \A s \in Slots : Contains(slots, s) => m.at[p][s] # 0,
         NEW n, n = Dealloc(m, p, slots)
  PROVE  /\ n \in Memories /\ Account(n) /\ n.panic = m.panic
         /\ \A q \in Procs, s \in Slots :
              n.at[q][s] = IF q = p /\ Contains(slots, s) THEN 0 ELSE m.at[q][s]
         /\ \A q \in Procs, s \in Slots :
              Content(n, q, s) = IF q = p /\ Contains(slots, s) THEN 0 ELSE Content(m, q, s)
<1>0. MaxFrame \in Nat /\ Frames = 1..MaxFrame
  BY MemoryAssumption DEF Frames
<1>1. /\ m.avail \in 1..MaxFrame + 1 /\ m.free \in Seq(Frames) /\ m.panic \in BOOLEAN
      /\ m.at \in [Procs -> [Slots -> 0..MaxFrame]] /\ m.data \in [Frames -> Bytes]
  BY DEF Memories
<1>2. PICK g : g = Given(m, p, slots)
  OBVIOUS
<1>3. OneSlot(m) /\ FreeOnce(m) /\ UsedOrFree(m)
  BY DEF Account
<1>4. /\ g \in Seq(Frames) /\ Once(g)
      /\ \A f : Contains(g, f) <=> \E s \in Slots : Contains(slots, s) /\ m.at[p][s] = f
  BY <1>2, <1>3, GivenIs
<1>5. /\ n.avail = m.avail /\ n.panic = m.panic /\ n.data = m.data /\ n.free = g \o m.free
      /\ n.at = [m.at EXCEPT ![p] = [s \in Slots |-> IF Contains(slots, s) THEN 0 ELSE m.at[p][s]]]
      /\ n = [avail |-> n.avail, free |-> n.free, panic |-> n.panic, at |-> n.at, data |-> n.data]
  BY <1>2 DEF Dealloc, Memories, Given
<1>6. \A q \in Procs, s \in Slots : n.at[q][s] = IF q = p /\ Contains(slots, s) THEN 0 ELSE m.at[q][s]
  BY <1>5, <1>1
<1>7. \A f \in Frames : ~ (Contains(g, f) /\ Contains(m.free, f))
  <2> SUFFICES ASSUME NEW f \in Frames, Contains(g, f) PROVE ~ Contains(m.free, f)
    OBVIOUS
  <2>1. Used(m, f)
    BY <1>4 DEF Used
  <2> QED BY <2>1, <1>3 DEF UsedOrFree
<1>8. /\ n.free \in Seq(Frames) /\ Once(n.free)
      /\ \A f : Contains(n.free, f) <=> Contains(g, f) \/ Contains(m.free, f)
  <2>1. Once(m.free)
    BY <1>3 DEF FreeOnce
  <2>2. PICK free : free = m.free
    OBVIOUS
  <2>3. /\ g \o free \in Seq(Frames) /\ Once(g \o free)
        /\ \A f : Contains(g \o free, f) <=> Contains(g, f) \/ Contains(free, f)
    BY <1>1, <1>4, <1>7, <2>1, <2>2, JoinIs
  <2> QED BY <2>2, <2>3, <1>5
<1>9. n \in Memories
  <2>1. n.at \in [Procs -> [Slots -> 0..MaxFrame]]
    <3>1. [s \in Slots |-> IF Contains(slots, s) THEN 0 ELSE m.at[p][s]] \in [Slots -> 0..MaxFrame]
      BY <1>1, <1>0
    <3> QED BY <3>1, <1>5, <1>1
  <2> QED BY <2>1, <1>5, <1>8, <1>1 DEF Memories
<1>10. OneSlot(n)
  <2> SUFFICES ASSUME NEW q \in Procs, NEW r \in Procs, NEW s \in Slots, NEW t \in Slots,
                      n.at[q][s] # 0, n.at[q][s] = n.at[r][t]
               PROVE  q = r /\ s = t
    BY DEF OneSlot
  <2>1. m.at[q][s] # 0 /\ m.at[q][s] = m.at[r][t]
    BY <1>6
  <2> QED BY <2>1, <1>3 DEF OneSlot
<1>11. \A f \in Frames : Used(n, f) <=> Used(m, f) /\ ~ Contains(g, f)
  <2> SUFFICES ASSUME NEW f \in Frames PROVE Used(n, f) <=> Used(m, f) /\ ~ Contains(g, f)
    OBVIOUS
  <2>0. f # 0
    BY <1>0
  <2>1. ASSUME Used(n, f) PROVE Used(m, f) /\ ~ Contains(g, f)
    <3>1. PICK q \in Procs, s \in Slots : n.at[q][s] = f
      BY <2>1 DEF Used
    <3>2. m.at[q][s] = f /\ ~ (q = p /\ Contains(slots, s))
      BY <3>1, <2>0, <1>6
    <3>3. ASSUME Contains(g, f) PROVE FALSE
      <4>1. PICK t \in Slots : Contains(slots, t) /\ m.at[p][t] = f
        BY <3>3, <1>4
      <4>2. p = q /\ s = t
        BY <4>1, <3>2, <2>0, <1>3 DEF OneSlot
      <4> QED BY <4>1, <4>2, <3>2
    <3> QED BY <3>2, <3>3 DEF Used
  <2>2. ASSUME Used(m, f), ~ Contains(g, f) PROVE Used(n, f)
    <3>1. PICK q \in Procs, s \in Slots : m.at[q][s] = f
      BY <2>2 DEF Used
    <3>2. ~ (q = p /\ Contains(slots, s))
      BY <3>1, <2>2, <1>4
    <3> QED BY <3>1, <3>2, <1>6 DEF Used
  <2> QED BY <2>1, <2>2
<1>12. UsedOrFree(n)
  <2> SUFFICES ASSUME NEW f \in Frames
               PROVE  /\ f < n.avail <=> Contains(n.free, f) \/ Used(n, f)
                      /\ ~ (Contains(n.free, f) /\ Used(n, f))
    BY DEF UsedOrFree
  <2>1. /\ f < n.avail <=> Contains(m.free, f) \/ Used(m, f)
        /\ ~ (Contains(m.free, f) /\ Used(m, f))
    BY <1>3, <1>5 DEF UsedOrFree
  <2>2. Contains(g, f) => Used(m, f)
    BY <1>4 DEF Used
  <2> QED BY <2>1, <2>2, <1>8, <1>11
<1>13. FreeOnce(n)
  <2>1. ASSUME NEW i \in 1..Len(n.free) PROVE n.free[i] < n.avail
    <3>1. n.free[i] \in Frames /\ Contains(n.free, n.free[i])
      BY <1>8 DEF Contains
    <3> QED BY <3>1, <1>12 DEF UsedOrFree
  <2> QED BY <2>1, <1>8 DEF FreeOnce
<1>14. ASSUME NEW q \in Procs, NEW s \in Slots
       PROVE  Content(n, q, s) = IF q = p /\ Contains(slots, s) THEN 0 ELSE Content(m, q, s)
  BY <1>5, <1>6 DEF Content
<1> QED BY <1>5, <1>6, <1>9, <1>10, <1>12, <1>13, <1>14 DEF Account

-----------------------------------------------------------------------------
\* The lists of slots that the operations of vmm.cc go through.
LEMMA OrdersAre ==
  /\ CopyOrder \in Seq(Tables \union Pages) /\ DeleteOrder \in Seq(Tables \union Pages)
  /\ Once(CopyOrder) /\ Once(DeleteOrder)
  /\ \A s \in Tables \union Pages :
       /\ \E i \in 1..Len(CopyOrder) : CopyOrder[i] = s
       /\ \E i \in 1..Len(DeleteOrder) : DeleteOrder[i] = s
  /\ Apic \in Tables /\ "dir" \notin Tables \union Pages /\ Tables \intersect Pages = {}
  /\ Slots = {"dir"} \union Tables \union Pages
<1>1. ASSUME NEW q \in {CopyOrder, DeleteOrder}
      PROVE  /\ q \in Seq(Tables \union Pages) /\ Once(q)
             /\ \A s \in Tables \union Pages : \E i \in 1..Len(q) : q[i] = s
  <2>1. q \in Seq(Tables \union Pages) /\ IsInjective(q) /\ Range(q) = Tables \union Pages
    BY MemoryAssumption
  <2>2. DOMAIN q = 1..Len(q)
    BY <2>1
  <2> QED BY <2>1, <2>2 DEF Once, IsInjective, Range
<1> QED BY <1>1, MemoryAssumption DEF Slots

\* A loop of vmm.cc meets each of the slots that it wants, once.
LEMMA ListIs ==
  ASSUME NEW order \in {CopyOrder, DeleteOrder}, NEW slots \in SUBSET (Tables \union Pages)
  PROVE  /\ InOrder(order, slots) \in Seq(Slots) /\ Once(InOrder(order, slots))
         /\ \A s : Contains(InOrder(order, slots), s) <=> s \in slots
<1>1. order \in Seq(Tables \union Pages) /\ Once(order) /\ \A s \in slots : \E i \in 1..Len(order) : order[i] = s
  BY OrdersAre
<1>2. PICK q : q = InOrder(order, slots)
  OBVIOUS
<1>3. q \in Seq(slots) /\ Once(q) /\ \A s \in slots : \E k \in 1..Len(q) : q[k] = s
  <2>1. PICK S : S = Tables \union Pages
    OBVIOUS
  <2>2. order \in Seq(S) /\ Once(order) /\ Covers(order, slots)
    BY <1>1, <2>1 DEF Covers
  <2>3. /\ InOrder(order, slots) \in Seq(slots) /\ Once(InOrder(order, slots))
        /\ Covers(InOrder(order, slots), slots)
    BY <2>2, InOrderLists
  <2> QED BY <2>3, <1>2 DEF Covers
<1>4. q \in Seq(Slots)
  <2>1. slots \subseteq Slots
    BY OrdersAre
  <2>2. \A i \in 1..Len(q) : q[i] \in slots
    BY <1>3
  <2>3. q = [i \in 1..Len(q) |-> q[i]] /\ Len(q) \in Nat
    BY <1>3
  <2> QED BY <2>1, <2>2, <2>3
<1>5. \A s : Contains(q, s) <=> s \in slots
  BY <1>3 DEF Contains
<1> QED BY <1>2, <1>3, <1>4, <1>5

\* The table of a page is a table.
LEMMA TableOfIs ==
  ASSUME NEW v \in Pages
  PROVE  TableOf(v) \in Tables
<1>1. PICK r \in DOMAIN Layout : v \in Range(Layout[r].pages)
  BY DEF Pages
<1>2. \E x \in Range(Layout) : v \in Range(x.pages)
  BY <1>1 DEF Range
<1>3. PICK x \in Range(Layout) : TableOf(v) = x.table
  BY <1>2 DEF TableOf
<1> QED BY <1>3 DEF Tables, Range

\* What an operation on the memory of p keeps when only some slots of p change.
Others(m, n, p) ==
  /\ n \in Memories /\ Account(n) /\ (m.panic => n.panic)
  /\ \A q \in Procs \ {p}, s \in Slots : n.at[q][s] = m.at[q][s] /\ Content(n, q, s) = Content(m, q, s)

\* The lists of one and of two slots.
LEMMA ContainsPair ==
  ASSUME NEW S, NEW a \in S, NEW b \in S, a # b
  PROVE  /\ <<a, b>> \in Seq(S) /\ Once(<<a, b>>) /\ \A s : Contains(<<a, b>>, s) <=> s \in {a, b}
<1>1. <<a, b>> \in Seq(S) /\ Len(<<a, b>>) = 2 /\ <<a, b>>[1] = a /\ <<a, b>>[2] = b
  OBVIOUS
<1>2. 1..2 = {1, 2}
  OBVIOUS
<1> QED BY <1>1, <1>2 DEF Once, Contains

\* And of one.
LEMMA ContainsOne ==
  ASSUME NEW S, NEW a \in S
  PROVE  <<a>> \in Seq(S) /\ Once(<<a>>) /\ \A s : Contains(<<a>>, s) <=> s = a
<1>1. <<a>> \in Seq(S) /\ Len(<<a>>) = 1 /\ <<a>>[1] = a
  OBVIOUS
<1>2. 1..1 = {1}
  OBVIOUS
<1> QED BY <1>1, <1>2 DEF Once, Contains

\* make_pd, for a process that has nothing yet.
LEMMA MakePdGives ==
  ASSUME NEW m \in Memories, Account(m), NEW p \in Procs, \A s \in Slots : m.at[p][s] = 0,
         NEW n, n = MakePd(m, p)
  PROVE  /\ Others(m, n, p)
         /\ \A s \in Slots : Content(n, p, s) = 0
         /\ \A s \in Slots \ {"dir", Apic} : n.at[p][s] = 0
         /\ ~ n.panic => n.at[p]["dir"] # 0
<1>1. "dir" \in Slots /\ Apic \in Slots /\ "dir" # Apic
  BY OrdersAre
<1>2. PICK q : q = <<"dir", Apic>>
  OBVIOUS
<1>3. q \in Seq(Slots) /\ Once(q) /\ \A s : Contains(q, s) <=> s \in {"dir", Apic}
  BY <1>1, <1>2, ContainsPair
<1>4. n = Alloc(m, p, q)
  BY <1>2 DEF MakePd
<1>5. /\ n \in Memories /\ Account(n) /\ (m.panic => n.panic)
      /\ \A r \in Procs, s \in Slots : Content(n, r, s) = Content(m, r, s)
      /\ \A r \in Procs, s \in Slots : r # p \/ ~ Contains(q, s) => n.at[r][s] = m.at[r][s]
      /\ ~ n.panic => \A s \in Slots : Contains(q, s) => n.at[p][s] # 0
  BY <1>3, <1>4, AllocGives
<1>6. \A s \in Slots : Content(m, p, s) = 0
  BY DEF Content
<1> QED BY <1>1, <1>3, <1>5, <1>6 DEF Others

\* A page fault maps a page that reads as zero, and changes no other page.
LEMMA MapNewGives ==
  ASSUME NEW m \in Memories, Account(m), NEW p \in Procs, NEW v \in Pages, m.at[p][v] = 0,
         NEW n, n = MapNew(m, p, v)
  PROVE  /\ Others(m, n, p)
         /\ \A s \in Slots : Content(n, p, s) = Content(m, p, s)
         /\ \A s \in Slots : m.at[p][s] # 0 => n.at[p][s] # 0
         /\ \A s \in Slots \ {v, TableOf(v)} : n.at[p][s] = m.at[p][s]
         /\ ~ n.panic => n.at[p][v] # 0
<1>1. TableOf(v) \in Tables /\ v \in Slots /\ TableOf(v) \in Slots /\ v # TableOf(v)
  BY OrdersAre, TableOfIs
<1>2. PICK q : q = IF m.at[p][TableOf(v)] = 0 THEN <<v, TableOf(v)>> ELSE <<v>>
  OBVIOUS
<1>3. /\ q \in Seq(Slots) /\ Once(q) /\ Contains(q, v)
      /\ \A s : Contains(q, s) => s \in {v, TableOf(v)}
      /\ \A s \in Slots : Contains(q, s) => m.at[p][s] = 0
  <2>1. CASE m.at[p][TableOf(v)] = 0
    <3>1. q = <<v, TableOf(v)>>
      BY <2>1, <1>2
    <3>2. q \in Seq(Slots) /\ Once(q) /\ \A s : Contains(q, s) <=> s \in {v, TableOf(v)}
      BY <3>1, <1>1, ContainsPair
    <3> QED BY <3>2, <2>1
  <2>2. CASE m.at[p][TableOf(v)] # 0
    <3>1. q = <<v>>
      BY <2>2, <1>2
    <3>2. q \in Seq(Slots) /\ Once(q) /\ \A s : Contains(q, s) <=> s = v
      BY <3>1, <1>1, ContainsOne
    <3> QED BY <3>2
  <2> QED BY <2>1, <2>2
<1>4. n = Alloc(m, p, q)
  BY <1>2 DEF MapNew
<1>5. /\ n \in Memories /\ Account(n) /\ (m.panic => n.panic)
      /\ \A r \in Procs, s \in Slots : Content(n, r, s) = Content(m, r, s)
      /\ \A r \in Procs, s \in Slots : r # p \/ ~ Contains(q, s) => n.at[r][s] = m.at[r][s]
      /\ ~ n.panic => \A s \in Slots : Contains(q, s) => n.at[p][s] # 0
  BY <1>3, <1>4, AllocGives
<1>6. \A s \in Slots : m.at[p][s] # 0 => n.at[p][s] # 0
  BY <1>3, <1>5
<1> QED BY <1>1, <1>3, <1>5, <1>6 DEF Others

\* A page that is there is left alone, and any other is mapped.
LEMMA TouchGives ==
  ASSUME NEW m \in Memories, Account(m), NEW p \in Procs, NEW v \in Pages,
         NEW n, n = Touch(m, p, v)
  PROVE  /\ Others(m, n, p)
         /\ \A s \in Slots : Content(n, p, s) = Content(m, p, s)
         /\ \A s \in Slots : m.at[p][s] # 0 => n.at[p][s] # 0
         /\ \A s \in Slots \ {v, TableOf(v)} : n.at[p][s] = m.at[p][s]
         /\ ~ n.panic => n.at[p][v] # 0
<1>1. CASE m.at[p][v] = 0
  BY <1>1, MapNewGives DEF Touch
<1>2. CASE m.at[p][v] # 0
  BY <1>2 DEF Touch, Others
<1> QED BY <1>1, <1>2

\* A store changes one page of one process.
LEMMA StoreGives ==
  ASSUME NEW m \in Memories, Account(m), NEW p \in Procs, NEW v \in Pages, NEW b \in Bytes,
         ~ m.panic => m.at[p][v] # 0,
         NEW n, n = Store(m, p, v, b)
  PROVE  /\ Others(m, n, p) /\ n.at = m.at /\ n.panic = m.panic
         /\ ~ n.panic => \A s \in Slots : Content(n, p, s) = IF s = v THEN b ELSE Content(m, p, s)
<1>0. MaxFrame \in Nat /\ Frames = 1..MaxFrame
  BY MemoryAssumption DEF Frames
<1>1. CASE m.panic
  BY <1>1 DEF Store, Others
<1>2. CASE ~ m.panic
  <2>1. /\ n.avail = m.avail /\ n.free = m.free /\ n.at = m.at /\ n.panic = m.panic
        /\ n.data = [m.data EXCEPT ![m.at[p][v]] = b]
        /\ n = [avail |-> n.avail, free |-> n.free, panic |-> n.panic, at |-> n.at, data |-> n.data]
    BY <1>2 DEF Store, Memories
  <2>2. v \in Slots /\ m.at[p][v] \in Frames
    <3>1. v \in Slots
      BY OrdersAre
    <3>2. m.at[p][v] \in 0..MaxFrame
      BY <3>1 DEF Memories
    <3> QED BY <3>1, <3>2, <1>2, <1>0
  <2>3. n \in Memories
    BY <2>1 DEF Memories
  <2>4. Account(n)
    BY <2>1 DEF Account, OneSlot, FreeOnce, UsedOrFree, Used
  <2>5. ASSUME NEW q \in Procs, NEW s \in Slots
        PROVE  Content(n, q, s) = IF q = p /\ s = v THEN b ELSE Content(m, q, s)
    <3>1. m.at[q][s] \in 0..MaxFrame /\ m.data \in [Frames -> Bytes]
      BY DEF Memories
    <3>2. CASE q = p /\ s = v
      BY <3>1, <3>2, <2>1, <2>2, <1>0 DEF Content
    <3>3. CASE ~ (q = p /\ s = v)
      <4>1. m.at[q][s] # 0 => m.at[q][s] # m.at[p][v]
        BY <3>3, <2>2 DEF Account, OneSlot
      <4> QED BY <4>1, <3>1, <3>3, <2>1, <2>2, <1>0 DEF Content
    <3> QED BY <3>2, <3>3
  <2> QED BY <2>1, <2>3, <2>4, <2>5 DEF Others
<1> QED BY <1>1, <1>2

\* deep_copy_mem: the copy has a page wherever the parent has one, with the same
\* on it, and nothing else changes.
LEMMA DeepCopyGives ==
  ASSUME NEW m \in Memories, Account(m), NEW from \in Procs, NEW to \in Procs, from # to,
         \A s \in Slots \ {"dir", Apic} : m.at[to][s] = 0,
         NEW n, n = DeepCopy(m, from, to)
  PROVE  /\ Others(m, n, to)
         /\ ~ n.panic => n.at[to]["dir"] = m.at[to]["dir"]
         /\ ~ n.panic => \A v \in Pages : Content(n, to, v) = Content(m, from, v)
<1>0. /\ MaxFrame \in Nat /\ Frames = 1..MaxFrame
      /\ "dir" \in Slots /\ Apic \in Tables /\ Tables \intersect Pages = {}
      /\ Tables \subseteq Slots /\ Pages \subseteq Slots /\ "dir" \notin Tables \union Pages
  BY MemoryAssumption, OrdersAre DEF Frames
<1>1. PICK slots : slots = Mapped(m, from, Tables \union Pages) \ {Apic}
  OBVIOUS
<1>2. PICK q : q = InOrder(CopyOrder, slots)
  OBVIOUS
<1>3. slots \in SUBSET (Tables \union Pages)
  BY <1>1 DEF Mapped
<1>4. q \in Seq(Slots) /\ Once(q) /\ \A s : Contains(q, s) <=> s \in slots
  BY <1>2, <1>3, ListIs
<1>5. PICK m1 : m1 = Alloc(m, to, q)
  OBVIOUS
<1>6. n = IF m1.panic THEN m1
          ELSE [m1 EXCEPT !.data = [f \in Frames |->
                 IF \E v \in Mapped(m, from, Pages) : m1.at[to][v] = f
                 THEN m.data[m.at[from][CHOOSE v \in Mapped(m, from, Pages) : m1.at[to][v] = f]]
                 ELSE @[f]]]
  BY <1>1, <1>2, <1>5 DEF DeepCopy
<1>7. \A s \in Slots : Contains(q, s) => m.at[to][s] = 0
  BY <1>0, <1>3, <1>4, <1>1
<1>8. /\ m1 \in Memories /\ Account(m1) /\ (m.panic => m1.panic)
      /\ \A r \in Procs, s \in Slots : Content(m1, r, s) = Content(m, r, s)
      /\ \A r \in Procs, s \in Slots : r # to \/ ~ Contains(q, s) => m1.at[r][s] = m.at[r][s]
      /\ ~ m1.panic => \A s \in Slots : Contains(q, s) => m1.at[to][s] # 0
  BY <1>4, <1>5, <1>7, AllocGives
<1>9. CASE m1.panic
  BY <1>6, <1>8, <1>9 DEF Others
<1>10. CASE ~ m1.panic
  <2> DEFINE Copies(f) == \E v \in Mapped(m, from, Pages) : m1.at[to][v] = f
             Source(f) == CHOOSE v \in Mapped(m, from, Pages) : m1.at[to][v] = f
  <2>1. /\ m1.at \in [Procs -> [Slots -> 0..MaxFrame]] /\ m1.data \in [Frames -> Bytes]
        /\ m.at \in [Procs -> [Slots -> 0..MaxFrame]] /\ m.data \in [Frames -> Bytes]
    BY <1>8 DEF Memories
  <2>2. /\ n.avail = m1.avail /\ n.free = m1.free /\ n.at = m1.at /\ n.panic = m1.panic
        /\ n.data = [f \in Frames |-> IF Copies(f) THEN m.data[m.at[from][Source(f)]] ELSE m1.data[f]]
        /\ n = [avail |-> n.avail, free |-> n.free, panic |-> n.panic, at |-> n.at, data |-> n.data]
    BY <1>6, <1>8, <1>10 DEF Memories
  <2>3. \A v \in Mapped(m, from, Pages) :
          v \in Pages /\ v \in Slots /\ v \in slots /\ m.at[from][v] \in Frames /\ m1.at[to][v] \in Frames
    <3> SUFFICES ASSUME NEW v \in Mapped(m, from, Pages)
                 PROVE  v \in Pages /\ v \in Slots /\ v \in slots /\ m.at[from][v] \in Frames /\ m1.at[to][v] \in Frames
      OBVIOUS
    <3>1. v \in Pages /\ m.at[from][v] # 0
      BY DEF Mapped
    <3>2. v \in Slots /\ v \in slots
      BY <3>1, <1>0, <1>1 DEF Mapped
    <3>3. m1.at[to][v] # 0
      BY <3>2, <1>4, <1>8, <1>10
    <3> QED BY <3>1, <3>2, <3>3, <2>1, <1>0
  <2>4. OneSlot(m1)
    BY <1>8 DEF Account
  \* A frame of the copy has one source.
  <2>5. ASSUME NEW v \in Mapped(m, from, Pages) PROVE Copies(m1.at[to][v]) /\ Source(m1.at[to][v]) = v
    <3> DEFINE f == m1.at[to][v]
    <3>1. Copies(f)
      OBVIOUS
    <3>2. Source(f) \in Mapped(m, from, Pages) /\ m1.at[to][Source(f)] = f
      OBVIOUS
    <3>3. f # 0 /\ v \in Slots /\ Source(f) \in Slots
      BY <2>3, <3>2, <1>0
    <3> HIDE DEF Source
    <3>4. v = Source(f)
      BY <3>2, <3>3, <2>4 DEF OneSlot
    <3> QED BY <3>1, <3>4
  <2>6. ASSUME NEW f \in Frames, Copies(f) PROVE m.at[from][Source(f)] \in Frames
    <3>1. Source(f) \in Mapped(m, from, Pages)
      BY <2>6
    <3> HIDE DEF Source
    <3> QED BY <3>1, <2>3
  <2> HIDE DEF Copies, Source
  <2>7. n \in Memories
    <3>1. n.data \in [Frames -> Bytes]
      BY <2>2, <2>1, <2>6
    <3> QED BY <3>1, <2>2, <1>8 DEF Memories
  <2>8. Account(n)
    BY <2>2, <1>8 DEF Account, OneSlot, FreeOnce, UsedOrFree, Used
  \* What was there is on other frames.
  <2>9. ASSUME NEW r \in Procs \ {to}, NEW s \in Slots PROVE Content(n, r, s) = Content(m, r, s)
    <3>1. Content(m, r, s) = Content(m1, r, s) /\ n.at[r][s] = m1.at[r][s]
      BY <1>8, <2>2
    <3>2. CASE m1.at[r][s] = 0
      BY <3>1, <3>2 DEF Content
    <3>3. CASE m1.at[r][s] # 0
      <4>1. m1.at[r][s] \in Frames
        <5>1. m1.at[r][s] \in 0..MaxFrame
          BY <2>1
        <5> QED BY <5>1, <3>3, <1>0
      <4>2. ~ Copies(m1.at[r][s])
        <5>1. ASSUME NEW v \in Mapped(m, from, Pages), m1.at[to][v] = m1.at[r][s] PROVE FALSE
          BY <5>1, <2>3, <3>3, <2>4 DEF OneSlot
        <5> QED BY <5>1 DEF Copies
      <4>3. n.data[m1.at[r][s]] = m1.data[m1.at[r][s]]
        BY <4>1, <4>2, <2>2
      <4> QED BY <4>3, <3>1, <3>3 DEF Content
    <3> QED BY <3>2, <3>3
  <2>10. ASSUME NEW v \in Pages PROVE Content(n, to, v) = Content(m, from, v)
    <3>1. v \in Slots /\ v \notin {"dir", Apic}
      BY <1>0
    <3>2. CASE m.at[from][v] = 0
      <4>1. ~ Contains(q, v)
        BY <3>2, <1>1, <1>4 DEF Mapped
      <4>2. n.at[to][v] = 0
        BY <4>1, <3>1, <1>8, <2>2
      <4> QED BY <3>2, <4>2 DEF Content
    <3>3. CASE m.at[from][v] # 0
      <4>1. v \in Mapped(m, from, Pages)
        BY <3>3 DEF Mapped
      <4>2. m1.at[to][v] \in Frames /\ Copies(m1.at[to][v]) /\ Source(m1.at[to][v]) = v
        BY <4>1, <2>3, <2>5
      <4>3. n.at[to][v] = m1.at[to][v] /\ n.at[to][v] # 0 /\ n.data[m1.at[to][v]] = m.data[m.at[from][v]]
        BY <4>2, <2>2, <1>0
      <4> QED BY <4>3, <3>3 DEF Content
    <3> QED BY <3>2, <3>3
  <2>11. n.at[to]["dir"] = m.at[to]["dir"]
    <3>1. ~ Contains(q, "dir")
      BY <1>0, <1>3, <1>4
    <3> QED BY <3>1, <1>0, <1>8, <2>2
  <2>12. \A r \in Procs \ {to}, s \in Slots : n.at[r][s] = m.at[r][s]
    BY <1>8, <2>2
  <2> QED BY <2>2, <2>7, <2>8, <2>9, <2>10, <2>11, <2>12, <1>8, <1>10 DEF Others
<1> QED BY <1>9, <1>10

\* delete_user_mem: no page is left, and only the table of the APICs.
LEMMA DeleteUserMemGives ==
  ASSUME NEW m \in Memories, Account(m), NEW p \in Procs, NEW n, n = DeleteUserMem(m, p)
  PROVE  /\ Others(m, n, p) /\ n.panic = m.panic
         /\ n.at[p]["dir"] = m.at[p]["dir"]
         /\ \A v \in Pages : n.at[p][v] = 0
<1>1. PICK slots : slots = Mapped(m, p, Tables \union Pages) \ {Apic}
  OBVIOUS
<1>2. PICK q : q = InOrder(DeleteOrder, slots)
  OBVIOUS
<1>3. slots \in SUBSET (Tables \union Pages) /\ \A s \in slots : m.at[p][s] # 0
  BY <1>1 DEF Mapped
<1>4. q \in Seq(Slots) /\ Once(q) /\ \A s : Contains(q, s) <=> s \in slots
  BY <1>2, <1>3, ListIs
<1>5. n = Dealloc(m, p, q)
  BY <1>1, <1>2 DEF DeleteUserMem
<1>6. /\ n \in Memories /\ Account(n) /\ n.panic = m.panic
      /\ \A r \in Procs, s \in Slots : n.at[r][s] = IF r = p /\ Contains(q, s) THEN 0 ELSE m.at[r][s]
      /\ \A r \in Procs, s \in Slots : Content(n, r, s) = IF r = p /\ Contains(q, s) THEN 0 ELSE Content(m, r, s)
  BY <1>3, <1>4, <1>5, DeallocGives
<1>7. "dir" \in Slots /\ "dir" \notin slots
  BY <1>3, OrdersAre
<1>8. ASSUME NEW v \in Pages PROVE n.at[p][v] = 0
  <2>1. v \in Slots /\ v # Apic
    BY OrdersAre
  <2>2. m.at[p][v] # 0 => v \in slots
    BY <2>1, <1>1 DEF Mapped
  <2> QED BY <2>1, <2>2, <1>4, <1>6
<1> QED BY <1>4, <1>6, <1>7, <1>8 DEF Others

\* delete_pd: no table and no directory is left.
LEMMA DeletePdGives ==
  ASSUME NEW m \in Memories, Account(m), NEW p \in Procs, m.at[p]["dir"] # 0,
         NEW n, n = DeletePd(m, p)
  PROVE  /\ Others(m, n, p) /\ n.panic = m.panic
         /\ \A s \in Slots \ Pages : n.at[p][s] = 0
<1>1. PICK slots : slots = Mapped(m, p, Tables)
  OBVIOUS
<1>2. PICK q : q = InOrder(CopyOrder, slots)
  OBVIOUS
<1>3. slots \in SUBSET (Tables \union Pages) /\ \A s \in slots : m.at[p][s] # 0
  BY <1>1 DEF Mapped
<1>4. q \in Seq(Slots) /\ Once(q) /\ \A s : Contains(q, s) <=> s \in slots
  BY <1>2, <1>3, ListIs
<1>5. PICK m1 : m1 = Dealloc(m, p, q)
  OBVIOUS
<1>6. /\ m1 \in Memories /\ Account(m1) /\ m1.panic = m.panic
      /\ \A r \in Procs, s \in Slots : m1.at[r][s] = IF r = p /\ Contains(q, s) THEN 0 ELSE m.at[r][s]
      /\ \A r \in Procs, s \in Slots : Content(m1, r, s) = IF r = p /\ Contains(q, s) THEN 0 ELSE Content(m, r, s)
  BY <1>3, <1>4, <1>5, DeallocGives
<1>7. "dir" \in Slots /\ "dir" \notin slots
  BY <1>3, OrdersAre
<1>8. PICK d : d = <<"dir">>
  OBVIOUS
<1>9. d \in Seq(Slots) /\ Once(d) /\ \A s : Contains(d, s) <=> s = "dir"
  BY <1>7, <1>8, ContainsOne
<1>10. m1.at[p]["dir"] # 0
  BY <1>4, <1>6, <1>7
<1>11. n = Dealloc(m1, p, d)
  BY <1>1, <1>2, <1>5, <1>8 DEF DeletePd
<1>12. /\ n \in Memories /\ Account(n) /\ n.panic = m1.panic
       /\ \A r \in Procs, s \in Slots : n.at[r][s] = IF r = p /\ Contains(d, s) THEN 0 ELSE m1.at[r][s]
       /\ \A r \in Procs, s \in Slots : Content(n, r, s) = IF r = p /\ Contains(d, s) THEN 0 ELSE Content(m1, r, s)
  BY <1>6, <1>9, <1>10, <1>11, DeallocGives
<1>13. ASSUME NEW s \in Slots \ Pages PROVE n.at[p][s] = 0
  <2>1. s = "dir" \/ s \in Tables
    BY OrdersAre
  <2>2. CASE s = "dir"
    BY <2>2, <1>9, <1>12
  <2>3. CASE s \in Tables
    <3>1. m.at[p][s] # 0 => s \in slots
      BY <2>3, <1>1 DEF Mapped
    <3> QED BY <3>1, <1>4, <1>6, <1>12
  <2> QED BY <2>1, <2>2, <2>3
<1> QED BY <1>6, <1>12, <1>13 DEF Others

-----------------------------------------------------------------------------
\* The state of the memory goes with the state of the process: nothing before
\* thread() makes an address space, a directory until ~TCB, no table after it.
HasMemory(p) ==
  /\ where[p] = "none" => \A s \in Slots : phys.at[p][s] = 0
  /\ where[p] \in {"user", "forking", "zombie"} => phys.at[p]["dir"] # 0
  /\ where[p] = "deleted" => \A s \in Slots \ Pages : phys.at[p][s] = 0

Finds(p) == Running(p) => \A v \in Pages : view[p][v] = Content(phys, p, v)

MemInv ==
  /\ phys \in Memories /\ Account(phys)
  /\ view \in [Procs -> [Pages -> Bytes]]
  /\ ~phys.panic => \A p \in Procs : HasMemory(p) /\ Finds(p)

\* A step that changes the memory of one process.
LEMMA OneProcess ==
  ASSUME MemInv, NEW p \in Procs, Others(phys, phys', p),
         view' \in [Procs -> [Pages -> Bytes]],
         \A q \in Procs \ {p} :
           /\ view'[q] = view[q]
           /\ where'[q] = where[q] \/ {where[q], where'[q]} \subseteq {"user", "forking"},
         ~phys'.panic => HasMemory(p)' /\ Finds(p)'
  PROVE  MemInv'
<1>1. phys' \in Memories /\ Account(phys') /\ (phys.panic => phys'.panic)
  BY DEF Others
<1>2. ASSUME ~phys'.panic, NEW q \in Procs \ {p} PROVE HasMemory(q)' /\ Finds(q)'
  <2>1. HasMemory(q) /\ Finds(q)
    BY <1>1, <1>2 DEF MemInv
  <2>2. \A s \in Slots : phys'.at[q][s] = phys.at[q][s] /\ Content(phys', q, s) = Content(phys, q, s)
    BY DEF Others
  <2>3. view'[q] = view[q] /\ (where'[q] = where[q] \/ {where[q], where'[q]} \subseteq {"user", "forking"})
    OBVIOUS
  <2>4. "dir" \in Slots /\ Pages \subseteq Slots
    BY OrdersAre
  <2>5. HasMemory(q)'
    BY <2>1, <2>2, <2>3, <2>4 DEF HasMemory
  <2>6. Finds(q)'
    BY <2>1, <2>2, <2>3, <2>4 DEF Finds, Running
  <2> QED BY <2>5, <2>6
<1>3. MemInv' <=> /\ phys' \in Memories /\ Account(phys') /\ view' \in [Procs -> [Pages -> Bytes]]
                  /\ ~phys'.panic => \A q \in Procs : HasMemory(q)' /\ Finds(q)'
  BY DEF MemInv
<1> QED BY <1>1, <1>2, <1>3

\* A step that leaves the memory alone.
LEMMA NoMemoryChanged ==
  ASSUME MemInv, phys' = phys, view' = view,
         \A q \in Procs :
           \/ where'[q] = where[q]
           \/ {where[q], where'[q]} \subseteq {"user", "forking"}
           \/ where[q] = "user" /\ where'[q] = "zombie"
  PROVE  MemInv'
<1>1. ASSUME ~phys.panic, NEW q \in Procs PROVE HasMemory(q)' /\ Finds(q)'
  <2>1. HasMemory(q) /\ Finds(q)
    BY <1>1 DEF MemInv
  <2>2. HasMemory(q)'
    BY <2>1 DEF HasMemory
  <2>3. Finds(q)'
    BY <2>1 DEF Finds, Running, Content
  <2> QED BY <2>2, <2>3
<1>2. Account(phys') /\ phys' \in Memories
  BY DEF MemInv
<1>3. MemInv' <=> /\ phys' \in Memories /\ Account(phys') /\ view' \in [Procs -> [Pages -> Bytes]]
                  /\ ~phys'.panic => \A q \in Procs : HasMemory(q)' /\ Finds(q)'
  BY DEF MemInv
<1> QED BY <1>1, <1>2, <1>3 DEF MemInv

\* thread() makes an address space and deep_copy_mem fills it.
LEMMA ForkMemory ==
  ASSUME MemInv, TableTypes, NEW p \in Procs, NEW c \in Procs, ForkChild(p, c)
  PROVE  MemInv'
<1>1. /\ ~phys.panic /\ where[p] = "user" /\ where[c] = "none" /\ p # c
      /\ phys' = DeepCopy(MakePd(phys, c), p, c) /\ view' = [view EXCEPT ![c] = view[p]]
      /\ where' = [where EXCEPT ![p] = "forking", ![c] = "user"]
  BY DEF ForkChild, Calls
<1>2. /\ phys \in Memories /\ Account(phys) /\ view \in [Procs -> [Pages -> Bytes]]
      /\ HasMemory(c) /\ HasMemory(p) /\ Finds(p)
  BY <1>1 DEF MemInv
<1>3. \A s \in Slots : phys.at[c][s] = 0
  BY <1>1, <1>2 DEF HasMemory
<1>4. PICK m1 : m1 = MakePd(phys, c)
  OBVIOUS
<1>5. /\ Others(phys, m1, c)
      /\ \A s \in Slots \ {"dir", Apic} : m1.at[c][s] = 0
      /\ ~ m1.panic => m1.at[c]["dir"] # 0
  BY <1>2, <1>3, <1>4, MakePdGives
<1>6. m1 \in Memories /\ Account(m1)
  BY <1>5 DEF Others
<1>7. phys' = DeepCopy(m1, p, c)
  BY <1>1, <1>4
<1>8. /\ Others(m1, phys', c)
      /\ ~ phys'.panic => phys'.at[c]["dir"] = m1.at[c]["dir"]
      /\ ~ phys'.panic => \A v \in Pages : Content(phys', c, v) = Content(m1, p, v)
  BY <1>1, <1>5, <1>6, <1>7, DeepCopyGives
<1>9. Others(phys, phys', c)
  BY <1>5, <1>8 DEF Others
<1>10. where'[c] = "user" /\ where'[p] = "forking" /\ \A q \in Procs \ {p, c} : where'[q] = where[q]
  BY <1>1 DEF TableTypes
<1>11. view' \in [Procs -> [Pages -> Bytes]] /\ view'[c] = view[p] /\ \A q \in Procs \ {c} : view'[q] = view[q]
  BY <1>1, <1>2
<1>12. ASSUME ~ phys'.panic PROVE HasMemory(c)' /\ Finds(c)'
  <2>1. ~ m1.panic
    BY <1>8, <1>12 DEF Others
  <2>2. HasMemory(c)'
    BY <2>1, <1>5, <1>8, <1>10, <1>12 DEF HasMemory
  <2>3. ASSUME NEW v \in Pages PROVE view'[c][v] = Content(phys', c, v)
    <3>1. view[p][v] = Content(phys, p, v)
      BY <1>1, <1>2 DEF Finds, Running
    <3>2. v \in Slots
      BY OrdersAre
    <3>3. Content(m1, p, v) = Content(phys, p, v)
      BY <3>2, <1>1, <1>5 DEF Others
    <3> QED BY <3>1, <3>3, <1>8, <1>11, <1>12
  <2>4. Finds(c)'
    BY <2>3 DEF Finds
  <2> QED BY <2>2, <2>4
<1> QED BY <1>1, <1>9, <1>10, <1>11, <1>12, OneProcess

\* ~TCB gives back the tables and the directory.
LEMMA ReapMemory ==
  ASSUME MemInv, TableTypes, NEW p \in Procs, Reap(p)
  PROVE  MemInv'
<1>1. /\ ~phys.panic /\ where[p] = "zombie" /\ phys' = DeletePd(phys, p) /\ view' = view
      /\ where' = [where EXCEPT ![p] = "deleted"]
  BY DEF Reap
<1>2. phys \in Memories /\ Account(phys) /\ HasMemory(p) /\ view \in [Procs -> [Pages -> Bytes]]
  BY <1>1 DEF MemInv
<1>3. Others(phys, phys', p) /\ \A s \in Slots \ Pages : phys'.at[p][s] = 0
  BY <1>1, <1>2, DeletePdGives DEF HasMemory
<1>4. where'[p] = "deleted" /\ \A q \in Procs \ {p} : where'[q] = where[q]
  BY <1>1 DEF TableTypes
<1>5. HasMemory(p)' /\ Finds(p)'
  BY <1>3, <1>4 DEF HasMemory, Finds, Running
<1> QED BY <1>1, <1>2, <1>3, <1>4, <1>5, OneProcess

-----------------------------------------------------------------------------
\* A step of the program or of exec() on the memory of p, from one that has a
\* directory to one that has what the program should find.
LEMMA UserMemory ==
  ASSUME MemInv, NEW p \in Procs, where[p] = "user", where' = where, Others(phys, phys', p),
         NEW found \in [Pages -> Bytes], view' = [view EXCEPT ![p] = found],
         ~ phys'.panic => phys'.at[p]["dir"] # 0 /\ \A v \in Pages : found[v] = Content(phys', p, v)
  PROVE  MemInv'
<1>1. view \in [Procs -> [Pages -> Bytes]]
  BY DEF MemInv
<1>2. /\ view' \in [Procs -> [Pages -> Bytes]] /\ view'[p] = found
      /\ \A q \in Procs \ {p} : view'[q] = view[q]
  BY <1>1
<1>3. ASSUME ~ phys'.panic PROVE HasMemory(p)' /\ Finds(p)'
  BY <1>2, <1>3 DEF HasMemory, Finds
<1> QED BY <1>2, <1>3, OneProcess

\* A page fault, and then the store that caused it.
LEMMA TouchStoreGives ==
  ASSUME NEW m \in Memories, Account(m), NEW p \in Procs, NEW v \in Pages, NEW b \in Bytes,
         NEW n, n = Store(Touch(m, p, v), p, v, b)
  PROVE  /\ Others(m, n, p)
         /\ \A s \in Slots \ {v, TableOf(v)} : n.at[p][s] = m.at[p][s]
         /\ m.at[p]["dir"] # 0 => n.at[p]["dir"] # 0
         /\ ~ n.panic => \A s \in Slots : Content(n, p, s) = IF s = v THEN b ELSE Content(m, p, s)
<1>1. PICK m1 : m1 = Touch(m, p, v)
  OBVIOUS
<1>2. /\ Others(m, m1, p)
      /\ \A s \in Slots : Content(m1, p, s) = Content(m, p, s)
      /\ \A s \in Slots : m.at[p][s] # 0 => m1.at[p][s] # 0
      /\ \A s \in Slots \ {v, TableOf(v)} : m1.at[p][s] = m.at[p][s]
      /\ ~ m1.panic => m1.at[p][v] # 0
  BY <1>1, TouchGives
<1>3. m1 \in Memories /\ Account(m1)
  BY <1>2 DEF Others
<1>4. n = Store(m1, p, v, b)
  BY <1>1
<1>5. /\ Others(m1, n, p) /\ n.at = m1.at /\ n.panic = m1.panic
      /\ ~ n.panic => \A s \in Slots : Content(n, p, s) = IF s = v THEN b ELSE Content(m1, p, s)
  BY <1>2, <1>3, <1>4, StoreGives
<1>6. Others(m, n, p)
  BY <1>2, <1>5 DEF Others
<1>7. "dir" \in Slots
  BY OrdersAre
<1> QED BY <1>2, <1>5, <1>6, <1>7

\* The program reads or writes one of its pages.
LEMMA AccessMemory ==
  ASSUME MemInv, NEW p \in Procs, Access(p)
  PROVE  MemInv'
<1>1. ~phys.panic /\ where[p] = "user" /\ where' = where
  BY DEF Access, Calls
<1>2. /\ phys \in Memories /\ Account(phys) /\ view \in [Procs -> [Pages -> Bytes]]
      /\ HasMemory(p) /\ Finds(p)
  BY <1>1 DEF MemInv
<1>3. phys.at[p]["dir"] # 0 /\ \A v \in Pages : view[p][v] = Content(phys, p, v)
  BY <1>1, <1>2 DEF HasMemory, Finds, Running
<1>4. "dir" \in Slots /\ Pages \subseteq Slots
  BY OrdersAre
<1>5. PICK v \in Pages :
        \/ phys' = Touch(phys, p, v) /\ UNCHANGED view
        \/ \E b \in Bytes \ {0} : phys' = Store(Touch(phys, p, v), p, v, b) /\ view' = [view EXCEPT ![p][v] = b]
  BY DEF Access
<1>6. CASE phys' = Touch(phys, p, v) /\ view' = view
  <2>1. PICK n : n = phys'
    OBVIOUS
  <2>2. /\ Others(phys, n, p)
        /\ \A s \in Slots : Content(n, p, s) = Content(phys, p, s)
        /\ \A s \in Slots : phys.at[p][s] # 0 => n.at[p][s] # 0
    BY <2>1, <1>2, <1>6, TouchGives
  <2>3. n.at[p]["dir"] # 0 /\ \A u \in Pages : view[p][u] = Content(n, p, u)
    BY <2>2, <1>3, <1>4
  <2>4. PICK found \in [Pages -> Bytes] : found = view[p]
    BY <1>2
  <2>5. view' = [view EXCEPT ![p] = found]
    BY <2>4, <1>6, <1>2
  <2> QED BY <2>1, <2>2, <2>3, <2>4, <2>5, <1>1, UserMemory
<1>7. ASSUME NEW b \in Bytes \ {0}, phys' = Store(Touch(phys, p, v), p, v, b), view' = [view EXCEPT ![p][v] = b]
      PROVE  MemInv'
  <2>1. PICK n : n = phys'
    OBVIOUS
  <2>2. /\ Others(phys, n, p)
        /\ phys.at[p]["dir"] # 0 => n.at[p]["dir"] # 0
        /\ ~ n.panic => \A s \in Slots : Content(n, p, s) = IF s = v THEN b ELSE Content(phys, p, s)
    BY <2>1, <1>2, <1>7, TouchStoreGives
  <2>3. PICK found \in [Pages -> Bytes] : found = [view[p] EXCEPT ![v] = b]
    BY <1>2
  <2>4. view' = [view EXCEPT ![p] = found]
    BY <2>3, <1>7, <1>2
  <2>5. ~ n.panic => n.at[p]["dir"] # 0 /\ \A u \in Pages : found[u] = Content(n, p, u)
    <3>1. \A u \in Pages : found[u] = IF u = v THEN b ELSE view[p][u]
      BY <2>3, <1>2
    <3> QED BY <3>1, <2>2, <1>3, <1>4
  <2> QED BY <2>1, <2>2, <2>4, <2>5, <1>1, UserMemory
<1> QED BY <1>5, <1>6, <1>7

\* What exec() has of its memory when it has wiped it, when it has loaded the
\* program, and when it has set up the stack.
LEMMA WipedIs ==
  ASSUME NEW m \in Memories, Account(m), NEW p \in Procs, m.at[p]["dir"] # 0, ~ m.panic,
         NEW n, n = DeleteUserMem(m, p)
  PROVE  /\ Others(m, n, p) /\ n.at[p]["dir"] # 0
         /\ \A v \in Pages : n.at[p][v] = 0 /\ Content(n, p, v) = 0
BY DeleteUserMemGives DEF Content

\* The program is where it was loaded, and the page of its stack is still free.
LEMMA LoadedIs ==
  ASSUME NEW m \in Memories, Account(m), NEW p \in Procs, m.at[p]["dir"] # 0,
         \A v \in Pages : m.at[p][v] = 0 /\ Content(m, p, v) = 0,
         NEW n, n = Load(m, p)
  PROVE  /\ Others(m, n, p) /\ n.at[p]["dir"] # 0 /\ n.at[p][StackPage] = 0
         /\ ~ n.panic => \A v \in Pages : Content(n, p, v) = IF v = CodePage THEN 1 ELSE 0
<1>1. /\ CodePage \in Pages /\ StackPage \in Pages /\ CodePage # StackPage /\ 1 \in Bytes
      /\ Pages \subseteq Slots /\ TableOf(CodePage) \in Tables /\ Tables \intersect Pages = {}
  BY ProcessesAssumption, MemoryAssumption, OrdersAre, TableOfIs
<1>2. n = Store(Touch(m, p, CodePage), p, CodePage, 1)
  BY DEF Load
<1>3. /\ Others(m, n, p)
      /\ \A s \in Slots \ {CodePage, TableOf(CodePage)} : n.at[p][s] = m.at[p][s]
      /\ m.at[p]["dir"] # 0 => n.at[p]["dir"] # 0
      /\ ~ n.panic => \A s \in Slots : Content(n, p, s) = IF s = CodePage THEN 1 ELSE Content(m, p, s)
  BY <1>1, <1>2, TouchStoreGives
<1>4. StackPage \in Slots \ {CodePage, TableOf(CodePage)}
  BY <1>1
<1>5. n.at[p][StackPage] = 0
  BY <1>1, <1>3, <1>4
<1> QED BY <1>1, <1>3, <1>5

\* The arguments are on the stack, and the program is still there.
LEMMA StackIs ==
  ASSUME NEW m \in Memories, Account(m), NEW p \in Procs, m.at[p]["dir"] # 0, m.at[p][StackPage] = 0,
         ~ m.panic => \A v \in Pages : Content(m, p, v) = IF v = CodePage THEN 1 ELSE 0,
         NEW n, n = SetupStack(m, p)
  PROVE  /\ Others(m, n, p) /\ n.at[p]["dir"] # 0
         /\ ~ n.panic => \A v \in Pages : Content(n, p, v) = IF v \in {CodePage, StackPage} THEN 1 ELSE 0
<1>1. StackPage \in Pages /\ 1 \in Bytes /\ Pages \subseteq Slots /\ "dir" \in Slots
  BY ProcessesAssumption, MemoryAssumption, OrdersAre
<1>2. PICK m1 : m1 = MapNew(m, p, StackPage)
  OBVIOUS
<1>3. /\ Others(m, m1, p)
      /\ \A s \in Slots : Content(m1, p, s) = Content(m, p, s)
      /\ \A s \in Slots : m.at[p][s] # 0 => m1.at[p][s] # 0
      /\ ~ m1.panic => m1.at[p][StackPage] # 0
  BY <1>1, <1>2, MapNewGives
<1>4. m1 \in Memories /\ Account(m1) /\ (m.panic => m1.panic)
  BY <1>3 DEF Others
<1>5. n = Store(m1, p, StackPage, 1)
  BY <1>2 DEF SetupStack
<1>6. /\ Others(m1, n, p) /\ n.at = m1.at /\ n.panic = m1.panic
      /\ ~ n.panic => \A s \in Slots : Content(n, p, s) = IF s = StackPage THEN 1 ELSE Content(m1, p, s)
  BY <1>1, <1>3, <1>4, <1>5, StoreGives
<1>7. Others(m, n, p)
  BY <1>3, <1>6 DEF Others
<1>8. n.at[p]["dir"] # 0
  BY <1>1, <1>3, <1>6
<1>9. ASSUME ~ n.panic, NEW v \in Pages
      PROVE  Content(n, p, v) = IF v \in {CodePage, StackPage} THEN 1 ELSE 0
  <2>1. ~ m.panic /\ v \in Slots
    BY <1>1, <1>4, <1>6, <1>9
  <2>2. Content(n, p, v) = IF v = StackPage THEN 1 ELSE Content(m, p, v)
    BY <2>1, <1>3, <1>6, <1>9
  <2> QED BY <2>1, <2>2
<1> QED BY <1>7, <1>8, <1>9

\* exec() wipes what there was, and leaves what it wrote itself.
LEMMA ExecMemory ==
  ASSUME MemInv, NEW p \in Procs, Exec(p)
  PROVE  MemInv'
<1>1. ~phys.panic /\ where[p] = "user" /\ where' = where
  BY DEF Exec, Calls
<1>2. phys \in Memories /\ Account(phys) /\ HasMemory(p)
  BY <1>1 DEF MemInv
<1>3. phys.at[p]["dir"] # 0
  BY <1>1, <1>2 DEF HasMemory
<1>4. PICK wiped : wiped = DeleteUserMem(phys, p)
  OBVIOUS
<1>5. /\ Others(phys, wiped, p) /\ wiped.at[p]["dir"] # 0
      /\ \A v \in Pages : wiped.at[p][v] = 0 /\ Content(wiped, p, v) = 0
  BY <1>1, <1>2, <1>3, <1>4, WipedIs
<1>6. wiped \in Memories /\ Account(wiped)
  BY <1>5 DEF Others
<1>7. PICK loaded : loaded = Load(wiped, p)
  OBVIOUS
<1>8. /\ Others(wiped, loaded, p) /\ loaded.at[p]["dir"] # 0 /\ loaded.at[p][StackPage] = 0
      /\ ~ loaded.panic => \A v \in Pages : Content(loaded, p, v) = IF v = CodePage THEN 1 ELSE 0
  BY <1>5, <1>6, <1>7, LoadedIs
<1>9. loaded \in Memories /\ Account(loaded)
  BY <1>8 DEF Others
<1>10. PICK stack : stack = SetupStack(loaded, p)
  OBVIOUS
<1>11. /\ Others(loaded, stack, p) /\ stack.at[p]["dir"] # 0
       /\ ~ stack.panic => \A v \in Pages : Content(stack, p, v) = IF v \in {CodePage, StackPage} THEN 1 ELSE 0
  BY <1>8, <1>9, <1>10, StackIs
<1>12. Others(phys, loaded, p) /\ Others(phys, stack, p)
  BY <1>5, <1>8, <1>11 DEF Others
<1>13. \A vs \in SUBSET Pages :
         Holds(vs) \in [Pages -> Bytes] /\ \A v \in Pages : Holds(vs)[v] = IF v \in vs THEN 1 ELSE 0
  BY MemoryAssumption DEF Holds
<1>14. \/ phys' = wiped /\ view' = [view EXCEPT ![p] = Holds({})]
       \/ phys' = loaded /\ view' = [view EXCEPT ![p] = Holds({CodePage})]
       \/ phys' = stack /\ view' = [view EXCEPT ![p] = Holds({CodePage, StackPage})]
  BY <1>4, <1>7, <1>10 DEF Exec
<1>15. {} \in SUBSET Pages /\ {CodePage} \in SUBSET Pages /\ {CodePage, StackPage} \in SUBSET Pages
  BY ProcessesAssumption
<1>16. CASE phys' = wiped /\ view' = [view EXCEPT ![p] = Holds({})]
  <2>1. PICK found \in [Pages -> Bytes] : found = Holds({}) /\ \A v \in Pages : found[v] = 0
    BY <1>13, <1>15
  <2>2. view' = [view EXCEPT ![p] = found]
    BY <2>1, <1>16
  <2>3. \A v \in Pages : found[v] = Content(phys', p, v)
    BY <2>1, <1>5, <1>16
  <2> QED BY <2>2, <2>3, <1>1, <1>5, <1>16, UserMemory
<1>17. CASE phys' = loaded /\ view' = [view EXCEPT ![p] = Holds({CodePage})]
  <2>1. PICK found \in [Pages -> Bytes] :
          found = Holds({CodePage}) /\ \A v \in Pages : found[v] = IF v = CodePage THEN 1 ELSE 0
    BY <1>13, <1>15
  <2>2. view' = [view EXCEPT ![p] = found]
    BY <2>1, <1>17
  <2>3. ~ loaded.panic => \A v \in Pages : found[v] = Content(phys', p, v)
    BY <2>1, <1>8, <1>17
  <2> QED BY <2>2, <2>3, <1>1, <1>8, <1>12, <1>17, UserMemory
<1>18. CASE phys' = stack /\ view' = [view EXCEPT ![p] = Holds({CodePage, StackPage})]
  <2>1. PICK found \in [Pages -> Bytes] :
          /\ found = Holds({CodePage, StackPage})
          /\ \A v \in Pages : found[v] = IF v \in {CodePage, StackPage} THEN 1 ELSE 0
    BY <1>13, <1>15
  <2>2. view' = [view EXCEPT ![p] = found]
    BY <2>1, <1>18
  <2>3. ~ stack.panic => \A v \in Pages : found[v] = Content(phys', p, v)
    BY <2>1, <1>11, <1>18
  <2> QED BY <2>2, <2>3, <1>1, <1>11, <1>12, <1>18, UserMemory
<1> QED BY <1>14, <1>16, <1>17, <1>18

-----------------------------------------------------------------------------
\* The first process has an address space and nothing in it.
LEMMA MemStart == Init => MemInv
<1> SUFFICES ASSUME Init PROVE MemInv
  OBVIOUS
<1>1. PICK p0 \in Procs :
        /\ phys = MakePd(NoMemory, p0)
        /\ view = [p \in Procs |-> [v \in Pages |-> 0]]
        /\ where = [p \in Procs |-> IF p = p0 THEN "user" ELSE "none"]
  BY DEF Init
<1>2. MaxFrame \in Nat /\ Frames = 1..MaxFrame /\ 0 \in Bytes
  BY MemoryAssumption DEF Frames
<1>3. PICK m : m = NoMemory
  OBVIOUS
<1>4. /\ m.avail = 1 /\ m.free = << >> /\ m.panic = FALSE
      /\ m.at = [p \in Procs |-> [s \in Slots |-> 0]] /\ m.data = [f \in Frames |-> 0]
      /\ m = [avail |-> m.avail, free |-> m.free, panic |-> m.panic, at |-> m.at, data |-> m.data]
  BY <1>3 DEF NoMemory
<1>5. m \in Memories
  <2>1. m.avail \in 1..MaxFrame + 1 /\ m.panic \in BOOLEAN
    <3>1. m.avail = 1 /\ m.panic = FALSE
      BY <1>4
    <3>2. 1 \in 1..MaxFrame + 1 /\ FALSE \in BOOLEAN
      BY <1>2
    <3> QED BY ONLY <3>1, <3>2
  <2>2. m.free \in Seq(Frames)
    BY <1>4
  <2>3. m.at \in [Procs -> [Slots -> 0..MaxFrame]]
    <3>1. 0 \in 0..MaxFrame
      BY <1>2
    <3>2. m.at = [p \in Procs |-> [s \in Slots |-> 0]]
      BY <1>4
    <3> QED BY ONLY <3>1, <3>2
  <2>4. m.data \in [Frames -> Bytes]
    BY <1>2, <1>4
  <2> QED BY <1>4, <2>1, <2>2, <2>3, <2>4 DEF Memories
<1>6. Account(m)
  <2>1. OneSlot(m)
    BY <1>4 DEF OneSlot
  <2>2. Len(m.free) = 0
    BY <1>4
  <2>3. FreeOnce(m)
    BY <2>2 DEF FreeOnce, Once
  <2>4. \A f : ~ Contains(m.free, f)
    BY <2>2 DEF Contains
  <2>5. \A f \in Frames : ~ Used(m, f) /\ ~ (f < m.avail)
    BY <1>2, <1>4 DEF Used
  <2> QED BY <2>1, <2>3, <2>4, <2>5 DEF Account, UsedOrFree
<1>7. \A s \in Slots : m.at[p0][s] = 0
  BY <1>4
<1>8. /\ Others(m, phys, p0)
      /\ \A s \in Slots : Content(phys, p0, s) = 0
      /\ ~ phys.panic => phys.at[p0]["dir"] # 0
  BY <1>1, <1>3, <1>5, <1>6, <1>7, MakePdGives
<1>9. view \in [Procs -> [Pages -> Bytes]]
  BY <1>1, <1>2
<1>10. ASSUME ~ phys.panic, NEW p \in Procs PROVE HasMemory(p) /\ Finds(p)
  <2>1. CASE p = p0
    <3>1. where[p] = "user" /\ \A v \in Pages : view[p][v] = 0
      BY <1>1, <2>1
    <3>2. Pages \subseteq Slots
      BY OrdersAre
    <3> QED BY <3>1, <3>2, <2>1, <1>8, <1>10 DEF HasMemory, Finds
  <2>2. CASE p # p0
    <3>1. where[p] = "none"
      BY <1>1, <2>2
    <3>2. \A s \in Slots : phys.at[p][s] = 0
      BY <1>4, <1>8, <2>2 DEF Others
    <3> QED BY <3>1, <3>2 DEF HasMemory, Finds, Running
  <2> QED BY <2>1, <2>2
<1> QED BY <1>8, <1>9, <1>10 DEF MemInv, Others

\* Every call keeps the accounts and the contents.
LEMMA MemStep == ProcInv /\ MemInv /\ [Next]_vars => MemInv'
<1> SUFFICES ASSUME ProcInv, MemInv, [Next]_vars PROVE MemInv'
  OBVIOUS
<1>0. TableTypes
  BY DEF ProcInv
<1>1. CASE UNCHANGED vars
  BY <1>1, NoMemoryChanged DEF vars
<1>2. CASE Next
  <2>1. PICK p \in Procs :
          \/ Open(p) \/ Sem(p) \/ ForkReturn(p) \/ Exit(p) \/ Reap(p) \/ Access(p) \/ Exec(p)
          \/ \E c \in Procs : ForkChild(p, c)
          \/ \E i \in Index :
               Up(p, i) \/ Down(p, i) \/ ReadFile(p, i) \/ Seek(p, i) \/ Close(p, i) \/ Wait(p, i)
    BY <1>2 DEF Next
  <2>2. CASE Open(p) \/ Sem(p)
    BY <2>2, NoMemoryChanged DEF Open, Sem
  <2>3. CASE ForkReturn(p)
    <3>1. /\ phys' = phys /\ view' = view /\ where[p] = "forking"
          /\ where' = [where EXCEPT ![p] = "user"]
      BY <2>3 DEF ForkReturn
    <3>2. \A q \in Procs : where'[q] = where[q] \/ {where[q], where'[q]} \subseteq {"user", "forking"}
      BY <1>0, <3>1 DEF TableTypes
    <3> QED BY <3>1, <3>2, NoMemoryChanged
  <2>4. CASE Exit(p)
    <3>1. /\ phys' = phys /\ view' = view /\ where[p] = "user"
          /\ where' = [where EXCEPT ![p] = "zombie"]
      BY <2>4 DEF Exit, Calls
    <3>2. \A q \in Procs : where'[q] = where[q] \/ (where[q] = "user" /\ where'[q] = "zombie")
      BY <1>0, <3>1 DEF TableTypes
    <3> QED BY <3>1, <3>2, NoMemoryChanged
  <2>5. CASE Reap(p)
    BY <2>5, <1>0, ReapMemory
  <2>6. CASE Access(p)
    BY <2>6, AccessMemory
  <2>7. CASE Exec(p)
    BY <2>7, ExecMemory
  <2>8. CASE \E c \in Procs : ForkChild(p, c)
    BY <2>8, <1>0, ForkMemory
  <2>9. ASSUME NEW i \in Index,
               Up(p, i) \/ Down(p, i) \/ ReadFile(p, i) \/ Seek(p, i) \/ Close(p, i) \/ Wait(p, i)
        PROVE  MemInv'
    <3>1. phys' = phys /\ view' = view /\ where' = where
      BY <2>9 DEF Up, Down, ReadFile, Seek, Close, Wait
    <3> QED BY <3>1, NoMemoryChanged
  <2> QED
    BY <2>1, <2>2, <2>3, <2>4, <2>5, <2>6, <2>7, <2>8, <2>9
<1> QED
  BY <1>1, <1>2

\* The frames are accounted for, and a process finds on its pages what it should,
\* in every run.
THEOREM MemInvariance == Spec => []MemInv
<1>1. ProcInv /\ MemInv /\ [Next]_vars => MemInv'
  BY MemStep
<1> QED
  BY <1>1, MemStart, ProcInvariance, PTL DEF Spec

\* Memory is private (deep_copy_mem, vmm_pageFault, delete_user_mem): no store, fork,
\* exec or end of a process changes what another finds on its pages.
THEOREM MemoryStaysPrivate == Spec => []MemoryIsPrivate
<1>1. MemInv => MemoryIsPrivate
  <2> SUFFICES ASSUME MemInv, NEW p \in Procs, Running(p), ~phys.panic, NEW v \in Pages
               PROVE  view[p][v] = Content(phys, p, v)
    BY DEF MemoryIsPrivate, Content
  <2> QED BY DEF MemInv, Finds
<1> QED
  BY <1>1, MemInvariance, PTL

\* The free list is as long as there are frames in it.
LEMMA OnceLength ==
  ASSUME NEW S, NEW q \in Seq(S), Once(q)
  PROVE  Len(q) = Cardinality(Range(q))
<1>1. PICK k \in Nat : k = Len(q)
  OBVIOUS
<1>2. DOMAIN q = 1..k
  BY <1>1
<1>3. q \in [1..k -> Range(q)]
  BY <1>1, <1>2 DEF Range
<1>4. q \in Bijection(1..k, Range(q))
  <2>1. \A i, j \in 1..k : q[i] = q[j] => i = j
    BY <1>1 DEF Once
  <2>2. \A x \in Range(q) : \E i \in 1..k : q[i] = x
    BY <1>2 DEF Range
  <2> QED BY <1>3, <2>1, <2>2 DEF Bijection, Injection, Surjection, IsInjective
<1>5. IsFiniteSet(1..k) /\ Cardinality(1..k) = k
  <2>1. 1 \in Int /\ k \in Int
    OBVIOUS
  <2>2. IsFiniteSet(1..k) /\ Cardinality(1..k) = (IF 1 > k THEN 0 ELSE k - 1 + 1)
    BY <2>1, FS_Interval
  <2> QED BY <2>2
<1>6. ExistsBijection(1..k, Range(q))
  BY <1>4 DEF ExistsBijection
<1> QED BY <1>1, <1>5, <1>6, FS_Bijection

\* Every frame is in one place: free, or a directory, a table or a page of one
\* process, and only pages of the dead are lost (physmem.cc, vmm.cc).
THEOREM FramesAreAccounted == Spec => []FramesAccounted
<1>1. ASSUME ProcInv, MemInv PROVE FramesAccounted
  <2>0. MaxFrame \in Nat /\ Frames = 1..MaxFrame
    BY MemoryAssumption DEF Frames
  <2>1. /\ phys.avail \in 1..MaxFrame + 1 /\ phys.free \in Seq(Frames) /\ phys.panic \in BOOLEAN
        /\ phys.at \in [Procs -> [Slots -> 0..MaxFrame]] /\ phys.data \in [Frames -> Bytes]
        /\ view \in [Procs -> [Pages -> Bytes]]
    BY <1>1 DEF MemInv, Memories
  <2>2. OneSlot(phys) /\ FreeOnce(phys) /\ UsedOrFree(phys)
    BY <1>1 DEF MemInv, Account
  <2>3. ProcTypeOK
    <3>1. \A p \in Procs, i \in Index : dt[p][i].kind \in {"none", "file", "sem", "child"}
      BY <1>1 DEF ProcInv, TableTypes, Descriptors, Kinds
    <3>2. \A p \in Procs, t \in Range(Types) : count[p][t] \in Nat
      BY <1>1, BaseIs DEF ProcInv, TableTypes
    <3>3. refs \in [Sems -> Nat]
      <4>1. ASSUME NEW s \in Sems PROVE refs[s] \in Nat
        <5>1. Cardinality(Named(s)) \in Nat /\ Cardinality(Named(s)) <= refs[s] /\ refs[s] \in Int
          BY <1>1, NamedFinite DEF ProcInv, RefInv, TableTypes
        <5> QED BY <5>1
      <4>2. refs \in [Sems -> Int]
        BY <1>1 DEF ProcInv, TableTypes
      <4> QED BY <4>1, <4>2
    <3>4. /\ where \in [Procs -> {"none", "user", "forking", "zombie", "deleted"}]
          /\ wild \in BOOLEAN
      BY <1>1 DEF ProcInv, TableTypes
    <3> QED BY <2>1, <3>1, <3>2, <3>3, <3>4 DEF ProcTypeOK
  <2>4. PICK free \in Seq(Frames) : free = phys.free
    BY <2>1
  <2>5. \A x : x \in Range(free) <=> Contains(free, x)
    <3>1. DOMAIN free = 1..Len(free)
      OBVIOUS
    <3> QED BY <3>1 DEF Range, Contains
  <2>6. Len(free) = Cardinality(Range(free))
    BY <2>2, <2>4, OnceLength DEF FreeOnce
  <2>7. \A f \in Frames : f \in InUse(phys) <=> Used(phys, f)
    <3>1. ASSUME NEW f \in Frames PROVE f \in 1..phys.avail - 1 <=> f < phys.avail
      BY <2>0, <2>1
    <3> QED BY <3>1, <2>2, <2>4, <2>5 DEF InUse, UsedOrFree
  <2>8. InUse(phys) \subseteq Frames
    BY <2>0, <2>1 DEF InUse
  <2>9. \A x : x \in {FrameOf(phys, h) : h \in Held(phys)} <=> x \in Frames /\ Used(phys, x)
    <3>1. ASSUME NEW h \in Held(phys) PROVE FrameOf(phys, h) \in Frames /\ Used(phys, FrameOf(phys, h))
      <4>1. h[1] \in Procs /\ h[2] \in Slots /\ phys.at[h[1]][h[2]] # 0
        BY DEF Held
      <4>2. phys.at[h[1]][h[2]] \in 0..MaxFrame
        BY <4>1, <2>1
      <4> QED BY <4>1, <4>2, <2>0 DEF FrameOf, Used
    <3>2. ASSUME NEW x \in Frames, Used(phys, x) PROVE \E h \in Held(phys) : FrameOf(phys, h) = x
      <4>1. PICK p \in Procs, s \in Slots : phys.at[p][s] = x
        BY <3>2 DEF Used
      <4>2. <<p, s>> \in Held(phys) /\ FrameOf(phys, <<p, s>>) = x
        BY <4>1, <2>0 DEF Held, FrameOf
      <4> QED BY <4>2
    <3> QED BY <3>1, <3>2
  <2>10. InUse(phys) = {FrameOf(phys, h) : h \in Held(phys)}
    BY <2>7, <2>8, <2>9
  <2>11. \A g, h \in Held(phys) : FrameOf(phys, g) = FrameOf(phys, h) => g = h
    <3> SUFFICES ASSUME NEW g \in Held(phys), NEW h \in Held(phys), FrameOf(phys, g) = FrameOf(phys, h)
                 PROVE  g = h
      OBVIOUS
    <3>1. /\ g[1] \in Procs /\ g[2] \in Slots /\ phys.at[g[1]][g[2]] # 0 /\ g = <<g[1], g[2]>>
          /\ h[1] \in Procs /\ h[2] \in Slots /\ h = <<h[1], h[2]>>
      BY DEF Held
    <3>2. phys.at[g[1]][g[2]] = phys.at[h[1]][h[2]]
      BY DEF FrameOf
    <3>3. g[1] = h[1] /\ g[2] = h[2]
      BY <3>1, <3>2, <2>2 DEF OneSlot
    <3> QED BY <3>1, <3>3
  <2>12. ASSUME ~phys.panic, NEW h \in Held(phys), where[h[1]] = "deleted" PROVE h[2] \in Pages
    <3>1. h[1] \in Procs /\ h[2] \in Slots /\ phys.at[h[1]][h[2]] # 0
      BY DEF Held
    <3>2. HasMemory(h[1])
      BY <1>1, <2>12, <3>1 DEF MemInv
    <3> QED BY <3>1, <3>2, <2>12 DEF HasMemory
  <2>13. FrameInOnePlace
    BY <2>4, <2>6, <2>10, <2>11 DEF FrameInOnePlace
  <2>14. OnlyPagesAreLost
    BY <2>10, <2>12 DEF OnlyPagesAreLost
  <2> QED BY <2>3, <2>13, <2>14 DEF FramesAccounted
<1> QED
  BY <1>1, ProcInvariance, MemInvariance, PTL
=============================================================================
