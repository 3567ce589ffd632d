------------------------------- MODULE MCBoot -------------------------------
(***************************************************************************)
(* The start of the kernel; and, as initial states of their own, in which  *)
(* all cores have stopped, the disks and the programs that it may read.    *)
(***************************************************************************)
EXTENDS Boot, Ext2, TLC

Cpu(i) == Processor(i)
IoApic == [type |-> 1, id |-> 0]
Other == [type |-> 2, id |-> 0]
MCTables == {
  [entries |-> <<Cpu(0), Cpu(1), IoApic, Cpu(2)>>, after |-> Other],
  [entries |-> <<Cpu(0), Cpu(1), Other>>, after |-> Cpu(3)]}

\* The superblock in a block of its own, or in the first block with the boot sector.
MCGeometries == {
  [sector |-> 4, block |-> 8, super |-> 8, direct |-> 3, perGroup |-> 3, nodeSize |-> 7],
  [sector |-> 4, block |-> 16, super |-> 8, direct |-> 1, perGroup |-> 2, nodeSize |-> 5]}

A == <<1>>
AB == <<1, 2>>
B == <<2>>
E(i, name, pad) == [inode |-> i, name |-> name, pad |-> pad]
Long == FileOf([i \in 1..26 |-> 20 + i])
\* Sixteen zeros first, of which a block is not on the disk.
Holey == FileWith([i \in 1..20 |-> IF i <= 16 THEN 0 ELSE i], {0})
\* In some a name is in an entry out of use too: before the one in use, or behind.
MCTrees == {
  <<FileOf(<< >>), DirOf(<<x, y, E(5, B, 0)>> \o z), DirOf(sub), FileOf(<<11, 12, 13>>), Long, Holey>> :
    x \in {E(3, A, 0), E(0, AB, 2)}, y \in {E(4, AB, 1), E(0, A, 2)},
    z \in {<< >>, <<E(0, A, 1)>>}, sub \in {<< >>, <<E(4, A, 1), E(2, AB, 0)>>}}
MCPaths == UNION {[1..k -> {A, AB, B, << >>}] : k \in 0..2} \union {<<A, AB, A>>, <<A, AB, B>>, <<B, A, A>>}

\* Segments of type 1 (load) and 2, with no more in the file than in memory.
Headers == {<<type, 18 + o, v, f, m>> : type \in {1, 2}, o \in {0, 1}, v \in {0, 2},
                                        f \in {0, 2}, m \in {2, 3}}
MCPrograms == {<<h, k>> : h \in Headers, k \in Headers}

Up ==
  /\ \E t \in Tables : table = t /\ totalProcs = 3 /\ ~(t.after.type = 0)
  /\ apitCounter = 2 /\ at = [c \in Cores |-> [phase |-> "stop", step |-> 0]]
  /\ starting = 3 /\ running = 3 /\ howManyAreHere = 3 /\ index = 2
  /\ entry = <<Register(9, 0), Register(0, 0)>> /\ re = [c \in Cores |-> Unknown]
  /\ main = 1 /\ overlap = FALSE
  /\ step = Len(Script) + 1 /\ dual = TRUE /\ response = Byte("FA") /\ inb = Nothing
  /\ outb = Byte("00") /\ wants = "" /\ config = {0, 1, 6} /\ owed = [s \in Sources |-> << >>]
  /\ mouse = TRUE /\ scanning = TRUE /\ lost = FALSE

MCInit == (Init /\ input = NoInput) \/ (Up /\ input \in Inputs)
MCSpec == MCInit /\ [][Next /\ UNCHANGED input]_<<bootVars, input>> /\ Fairness
=============================================================================
