-------------------------------- MODULE Ext2 --------------------------------
(***************************************************************************)
(* Reading the disk: the sectors that the IDE driver asks for (ide.cc),    *)
(* BlockIO::read and read_all (block_io.cc), the i-nodes, directories and  *)
(* paths of ext2 (ext2.h, ext2.cc), and ELF::load (elf.cc). Nothing of it  *)
(* keeps a state, so these are operators, from the cells of a disk.        *)
(*                                                                         *)
(* A cell is what the code reads at a time: a byte of a file or of a name, *)
(* or one field of a structure. A geometry has the sizes that ext2 or the  *)
(* code fixes, in cells:                                                   *)
(*   [sector, block, super, direct, perGroup, nodeSize]                    *)
(* sector_size, blockSize, the place of the superblock (1024), the number  *)
(* of direct blocks (12), inodes_per_group and inode_size.                 *)
(***************************************************************************)
EXTENDS Integers, Sequences, FiniteSets, SequencesExt

CONSTANTS OffsetRange, \* 2^32: offsets and the numbers of blocks are uint32_t
          Geometries,
          Trees,   \* file systems: i-number -> [type, data, holes, entries], 2 is the root
          Paths,   \* sequences of names, some of them empty: "a//b"
          Programs \* the program headers of executable files

\* What there is to read: a disk, a program, or nothing. It never changes.
VARIABLE input
NoInput == [kind |-> "none"]
Inputs == [kind : {"disk"}, g : Geometries, t : Trees] \union [kind : {"program"}, hs : Programs]
ReadSpec == input \in Inputs \union {NoInput} /\ [][FALSE]_input

Dir == 4
Regular == 8
Null == 0      \* Shared<Node>{}, and the i-number of no entry
Panic == -1    \* an ASSERT that fails, or panic
Error == <<-1>> \* the result -1 instead of bytes
Panicked == <<-2>> \* no result: the read panics
U32(n) == n % OffsetRange

Least(a, b) == IF a < b THEN a ELSE b
Ceil(a, b) == (a + b - 1) \div b
LastIn(S) == CHOOSE i \in S : \A j \in S : j <= i
Piece(cells, from, n) == SubSeq(cells, from + 1, from + n)
\* The same sequence, which TLC then evaluates once and not at every access.
Whole(cells) == SubSeq(cells, 1, Len(cells))
----------------------------------------------------------------------------
\* Something to read from: its size, its block size, its blocks.
BlockIO(size, block, blocks) == [size |-> size, block |-> block, blocks |-> Whole(blocks)]

\* read_block: the driver has no more blocks than the disk, and a Node panics.
BlockAt(io, b) == IF b \in DOMAIN io.blocks THEN io.blocks[b] ELSE Panicked

\* BlockIO::read: up to the end of the block.
Read(io, offset, n) ==
  LET inBlock == offset % io.block
      block == BlockAt(io, offset \div io.block + 1) IN
  IF offset > io.size THEN Error
  ELSE IF offset = io.size THEN << >>
  ELSE IF block = Panicked THEN Panicked
  ELSE Piece(block, inBlock, Least(io.block - inBlock, Least(n, io.size - offset)))

\* BlockIO::read_all: read() until nothing is left to read.
ReadAll(io, offset, n) ==
  LET from[done \in 0..n] ==
        IF done = n THEN << >>
        ELSE LET got == Read(io, offset + done, n - done) IN
             IF got \in {Error, << >>, Panicked} THEN got
             ELSE LET rest == from[done + Len(got)] IN
                  IF rest = Panicked THEN Panicked ELSE got \o rest
  IN from[0]

\* read(offset, thing) and ASSERT(cnt == n): all n cells, or a panic.
Got(cells, n) == cells \notin {Error, Panicked} /\ Len(cells) = n
Thing(io, offset, n) ==
  LET cells == ReadAll(io, offset, n) IN
  IF Got(cells, n) THEN cells ELSE [i \in 1..n |-> Panic]
Cell(io, offset) == Thing(io, offset, 1)[1]
----------------------------------------------------------------------------
\* Ide::read_block sends the number of the sector in four registers.
SectorRegisters(s) == <<s % 256, (s \div 256) % 256, (s \div 65536) % 256, (s \div 16777216) % 16>>
SectorNumbers == 268435456 \* 2^28
SectorAsked(r) == r[1] + 256 * r[2] + 65536 * r[3] + 16777216 * r[4]

\* The driver claims 2^32 - 1 bytes whatever the disk has.
Ide(g, disk) ==
  BlockIO(OffsetRange - 1, g.sector, [s \in 1..Len(disk) \div g.sector |->
            Piece(disk, SectorAsked(SectorRegisters(s - 1)) * g.sector, g.sector)])

\* Ext2::Ext2: the superblock, then the group table in the block after it.
Mount(g, disk) ==
  LET ide == Ide(g, disk)
      sb == Thing(ide, g.super, 6)
      block == sb[5]
      nGroups == Ceil(sb[2], sb[3])
      groupTable == g.super \div block + 1
  IN [ide |-> ide, direct |-> g.direct, numberOfNodes |-> sb[1], numberOfBlocks |-> sb[2],
      iNodesPerGroup |-> sb[4], blockSize |-> block, iNodeSize |-> sb[6], nGroups |-> nGroups,
      iNodeTables |-> Thing(ide, U32(groupTable * block), nGroups)]

\* Variant with a bug: the direct blocks are counted in the indirect block too.
BlockIndexUnshifted(fs, node, index) ==
  IF index < fs.direct THEN node[4 + index]
  ELSE IF index >= fs.direct + fs.blockSize THEN Panic
  ELSE Cell(fs.ide, U32(node[4 + fs.direct] * fs.blockSize + index))

\* Node::read_block: a direct block, or one of the first indirect block. It
\* panics beyond those.
BlockIndex(fs, node, index) ==
  IF index < fs.direct THEN node[4 + index]
  ELSE IF index >= fs.direct + fs.blockSize THEN Panic
  ELSE Cell(fs.ide, U32(node[4 + fs.direct] * fs.blockSize + (index - fs.direct)))

\* It panics for a block that is not below the number of sectors too. Nothing
\* tells a hole, whose number is 0, from block 0 of the disk.
ReadBlock(fs, node, index) ==
  LET number == BlockIndex(fs, node, index)
      cells == ReadAll(fs.ide, U32(number * fs.blockSize), fs.blockSize)
      sectors == fs.blockSize \div fs.ide.block
  IN IF index < node[3] \div sectors /\ number # Panic /\ Got(cells, fs.blockSize)
     THEN cells ELSE Panicked

\* Ext2::get_node, with its ASSERTs. The cells of an i-node: its type, its size,
\* the number of its sectors, the direct blocks and the indirect one.
NoNode == [type |-> Panic, io |-> BlockIO(1, 1, <<Panicked>>)]
GetNode(fs, number) ==
  LET index == number - 1
      group == index \div fs.iNodesPerGroup
      table == fs.iNodeTables[group + 1]
      at == U32(table * fs.blockSize + (index % fs.iNodesPerGroup) * fs.iNodeSize)
      node == Thing(fs.ide, at, 4 + fs.direct)
  IN IF /\ number \in 1..fs.numberOfNodes /\ group < fs.nGroups
        /\ table \in 0..fs.numberOfBlocks /\ node[1] # Panic
     THEN [type |-> node[1],
           io |-> BlockIO(node[2], fs.blockSize, [b \in 1..Ceil(node[2], fs.blockSize) |->
                    ReadBlock(fs, node, b - 1)])]
     ELSE NoNode

\* An entry of a directory: i-number, total size, length of the name, name.
Entry(io, offset) ==
  LET inode == Cell(io, offset)
      total == Cell(io, offset + 1)
      length == Cell(io, offset + 2)
      name == IF length = Panic THEN Panicked ELSE ReadAll(io, offset + 3, length)
  IN [inode |-> inode, name |-> name,
      next |-> IF Panic \in {inode, total, length} \/ ~Got(name, length) THEN Panic
               ELSE U32(offset + total)]

\* Node::find goes through all entries(), which follow each other up to the end of
\* the directory; the last of the name counts. It panics, or never ends, when no
\* number of entries leads to the end.
NextEntry(io, offset) ==
  IF offset \notin 0..io.size - 1 THEN offset ELSE Entry(io, offset).next
IsNamed(io, offset, name) == offset < io.size /\ Entry(io, offset).name = name
FindEntry(io, name) ==
  LET at[k \in 0..io.size] == IF k = 0 THEN 0 ELSE NextEntry(io, at[k - 1]) \* after k entries
      named == {k \in 0..io.size : IsNamed(io, at[k], name)}
  IN IF at[io.size] < io.size THEN Panic
     ELSE IF named = {} THEN Null ELSE Entry(io, at[LastIn(named)]).inode

\* Ext2::find: slashes are skipped, and the walk ends at the end of the path or
\* at null. entries() panics where the path goes on after what is no directory.
Find(fs, path) ==
  LET walk[k \in 0..Len(path)] == \* the i-number that k names lead to
        IF k = 0 THEN 2
        ELSE IF walk[k - 1] \in {Null, Panic} \/ path[k] = << >> THEN walk[k - 1]
        ELSE LET node == GetNode(fs, walk[k - 1]) IN
             IF node.type # Dir THEN Panic ELSE FindEntry(node.io, path[k])
  IN walk[Len(path)]
----------------------------------------------------------------------------
\* Variant with a bug: what the file has no bytes for keeps what was there.
LoadSegmentDirty(io, h, mem) ==
  LET got == ReadAll(io, h[2], h[4]) IN
  [a \in DOMAIN mem |-> IF a - h[3] \in 0..Len(got) - 1 THEN got[a - h[3] + 1] ELSE mem[a]]

\* One program header <<type, offset, vaddr, filesz, memsz>>: copy, then zero.
LoadSegment(io, h, mem) ==
  LET got == ReadAll(io, h[2], h[4]) IN
  [a \in DOMAIN mem |->
     IF a - h[3] \in h[4]..h[5] - 1 THEN 0
     ELSE IF got \notin {Error, Panicked} /\ a - h[3] \in 0..Len(got) - 1 THEN got[a - h[3] + 1]
     ELSE mem[a]]

\* ELF::load: [entry, mem]. The header is <<magic, phoff, phentsize, phnum, entry>>.
Magic == 127
ElfLoad(io, mem) ==
  LET hdr == ReadAll(io, 0, 5)
      after[i \in 0..hdr[4]] ==
        IF i = 0 THEN mem
        ELSE LET h == ReadAll(io, hdr[2] + (i - 1) * hdr[3], 5) IN
             IF h[1] = 1 THEN LoadSegment(io, h, after[i - 1]) ELSE after[i - 1]
  IN IF hdr[1] # Magic THEN [entry |-> 0, mem |-> mem]
     ELSE [entry |-> hdr[5], mem |-> after[hdr[4]]]
----------------------------------------------------------------------------
\* mke2fs: the disk of a tree, with the blocks of all files interleaved, and
\* each block of refs behind them. Blocks of zeros, the holes, are not allocated:
\* their number is 0, and they are not among the sectors of the file. Pieces are
\* [at, cells].
Blocks(g) == g.direct + g.block
TableBlocks(g) == Ceil(g.perGroup * g.nodeSize, g.block)
Groups(g, t) == Ceil(Len(t), g.perGroup)
GroupTable(g) == g.super \div g.block + 1
FirstTable(g, t) == GroupTable(g) + Ceil(Groups(g, t), g.block)
TableBlock(g, t, k) == FirstTable(g, t) + k * TableBlocks(g)
DataBlock(g, t, i, b) == TableBlock(g, t, Groups(g, t)) + b * Len(t) + i - 1
PerGroup(g, t) == Ceil(DataBlock(g, t, 1, Blocks(g) + 1), Groups(g, t))
DiskSize(g, t) == PerGroup(g, t) * Groups(g, t)

Superblock(g, t) ==
  [at |-> g.super, cells |-> <<Len(t), DiskSize(g, t), PerGroup(g, t), g.perGroup, g.block, g.nodeSize>>]
GroupsPiece(g, t) ==
  [at |-> GroupTable(g) * g.block, cells |-> [k \in 1..Groups(g, t) |-> TableBlock(g, t, k - 1)]]
Used(g, t, i) == {b \in 0..Blocks(g) - 1 : b * g.block < Len(t[i].data)}
Allocated(g, t, i) == Used(g, t, i) \ t[i].holes
Indirect(g, t, i) == \E b \in Allocated(g, t, i) : b >= g.direct
Pointer(g, t, i, b) == IF b \in Allocated(g, t, i) THEN DataBlock(g, t, i, b) ELSE 0
IndirectPointer(g, t, i) == IF Indirect(g, t, i) THEN DataBlock(g, t, i, Blocks(g)) ELSE 0
BlockCount(g, t, i) ==
  Cardinality(Allocated(g, t, i)) + (IF Indirect(g, t, i) THEN 1 ELSE 0)
NodePiece(g, t, i) ==
  [at |-> TableBlock(g, t, (i - 1) \div g.perGroup) * g.block + ((i - 1) % g.perGroup) * g.nodeSize,
   cells |-> <<t[i].type, Len(t[i].data), BlockCount(g, t, i) * (g.block \div g.sector)>>
             \o [b \in 1..g.direct |-> Pointer(g, t, i, b - 1)] \o <<IndirectPointer(g, t, i)>>]
DataPiece(g, t, i, b) ==
  [at |-> DataBlock(g, t, i, b) * g.block,
   cells |-> Piece(t[i].data, b * g.block, Least(g.block, Len(t[i].data) - b * g.block))]
IndirectPiece(g, t, i) ==
  [at |-> DataBlock(g, t, i, Blocks(g)) * g.block,
   cells |-> [b \in 1..g.block |-> Pointer(g, t, i, g.direct + b - 1)]]
Pieces(g, t) ==
  {Superblock(g, t), GroupsPiece(g, t)}
  \union {NodePiece(g, t, i) : i \in DOMAIN t}
  \union {IndirectPiece(g, t, i) : i \in {j \in DOMAIN t : Indirect(g, t, j)}}
  \union (UNION {{DataPiece(g, t, i, b) : b \in Allocated(g, t, i)} : i \in DOMAIN t})

Disk(g, t) ==
  LET pieces == Pieces(g, t) IN
  Whole([a \in 1..DiskSize(g, t) * g.block |->
     LET p == {q \in pieces : a - 1 - q.at \in 0..Len(q.cells) - 1} IN
     IF p = {} THEN 0 ELSE LET q == CHOOSE q \in p : TRUE IN q.cells[a - q.at]])

\* A directory holds entries [inode, name, pad].
DirOf(entries) ==
  [type |-> Dir,
   data |-> FlattenSeq([i \in DOMAIN entries |-> LET e == entries[i] IN
              <<e.inode, 3 + Len(e.name) + e.pad, Len(e.name)>> \o e.name \o [j \in 1..e.pad |-> 9]]),
   holes |-> {}, entries |-> entries]
FileWith(data, holes) == [type |-> Regular, data |-> data, holes |-> holes, entries |-> << >>]
FileOf(data) == FileWith(data, {})
----------------------------------------------------------------------------
\* What is read from an i-node, through sectors, blocks, direct and indirect
\* blocks, is what the file holds from the offset on, as much as was asked for or
\* is there; -1 is for offsets beyond the end (block_io.h:49-56, ext2.cc:138-158).
ReadsBack(fs, t, i) ==
  LET data == t[i].data
      io == GetNode(fs, i).io IN
  \A offset \in 0..Len(data) + 1, n \in {1, 2, 7, Len(data), Len(data) + 1} \ {0} :
    ReadAll(io, offset, n) =
      IF offset > Len(data) THEN Error
      ELSE SubSeq(data, offset + 1, Least(offset + n, Len(data)))

\* A path leads where the names in the tree lead: to null where a directory has
\* no entry of the name that is in use, whose i-number is not 0. The walk panics
\* where a name follows a file (ext2.h:270-275).
InUse(entries) == {e \in DOMAIN entries : entries[e].inode # 0}
Follow(entries, name) ==
  LET named == {e \in InUse(entries) : entries[e].name = name} IN
  IF named = {} THEN Null ELSE entries[CHOOSE e \in named : TRUE].inode
Resolve(t, names) ==
  LET to[k \in 0..Len(names)] == \* the i-number that k names lead to
        IF k = 0 THEN 2
        ELSE IF to[k - 1] \in {Null, Panic} \/ names[k] = << >> THEN to[k - 1]
        ELSE IF t[to[k - 1]].type # Dir THEN Panic
        ELSE Follow(t[to[k - 1]].entries, names[k])
  IN to[Len(names)]
Resolves(fs, t) == \A path \in Paths : Find(fs, path) = Resolve(t, path)

\* An entry out of use may keep a name, and it hides the entry before it that has
\* taken the name over.
NothingHidden(t) ==
  \A i \in DOMAIN t : LET entries == t[i].entries IN
    \A e \in InUse(entries), u \in DOMAIN entries \ InUse(entries) :
      entries[e].name = entries[u].name => u < e

\* A file system is read from its disk as it was written: the data of every
\* file without holes, and the way along every path where no name is hidden. A
\* file with a hole is not: the check of the index panics for its last blocks
\* (ext2.cc:139), and a block of the hole is read as block 0.
TreeIsRead ==
  input.kind = "disk" =>
    LET t == input.t
        fs == Mount(input.g, Disk(input.g, t)) IN
    /\ \A i \in DOMAIN t : t[i].holes = {} => ReadsBack(fs, t, i)
    /\ NothingHidden(t) => Resolves(fs, t)

\* load() builds the memory that the program headers describe: each cell comes
\* from the last segment that covers it, from the file or zero, and what no
\* segment covers is left alone (elf.cc:17-30).
ProgramCells(hs) ==
  <<Magic, 6, 6, Len(hs), 77, 0>> \o FlattenSeq([i \in DOMAIN hs |-> Append(hs[i], 0)]) \o <<21, 22, 23>>
ProgramFile(hs) ==
  LET cells == ProgramCells(hs) IN
  BlockIO(Len(cells), 4, [b \in 1..Ceil(Len(cells), 4) |->
            Piece(cells, 4 * b - 4, Least(4, Len(cells) - (4 * b - 4)))])
Covers(hs, a, n) == {i \in 1..n : hs[i][1] = 1 /\ a - hs[i][3] \in 0..hs[i][5] - 1}
ProgramIsLoaded ==
  input.kind = "program" =>
    LET io == ProgramFile(input.hs)
        mem == [a \in 0..6 |-> 99]
    IN \A a \in DOMAIN mem :
         LET covers == Covers(input.hs, a, Len(input.hs))
             h == input.hs[LastIn(covers)] IN
         ElfLoad(io, mem).mem[a] =
           IF covers = {} THEN mem[a] ELSE IF a - h[3] < h[4] THEN Cell(io, h[2] + (a - h[3])) ELSE 0

\* Geometries and trees that mke2fs takes: blocks of whole sectors with room for
\* the superblock, i-nodes with room for the numbers of their blocks, files that
\* one indirect block is enough for (the code panics beyond it), blocks of zeros
\* for holes, directories of entries with different names in use, and disks whose
\* offsets fit into 32 bits (the code reads the wrong place beyond 4 GB).
IsGeometry(g) ==
  /\ g.sector \in Nat \ {0} /\ g.block \in Nat \ {0} /\ g.block % g.sector = 0
  /\ g.super \in Nat /\ (g.super % g.block) + 6 <= g.block
  /\ g.direct \in Nat /\ g.perGroup \in Nat \ {0}
  /\ g.nodeSize \in Nat /\ g.nodeSize >= 4 + g.direct
  /\ OffsetRange <= SectorNumbers * g.sector
TreeEntries == [inode : Nat, name : Seq(Nat), pad : Nat]
IsFile(g, t, i) ==
  /\ Len(t[i].data) <= Blocks(g) * g.block
  /\ t[i].holes \subseteq Used(g, t, i)
  /\ \A b \in t[i].holes : \A a \in b * g.block + 1..(b + 1) * g.block :
       a \in DOMAIN t[i].data => t[i].data[a] = 0
IsDirectory(t, i) ==
  LET entries == t[i].entries IN
  /\ t[i].data = DirOf(entries).data /\ t[i].holes = {}
  /\ \A e \in DOMAIN entries : entries[e].inode <= Len(t)
  /\ \A e, f \in InUse(entries) : entries[e].name = entries[f].name => e = f
IsTree(g, t) ==
  /\ t \in Seq([type : {Dir, Regular}, data : Seq(Nat), holes : SUBSET Nat, entries : Seq(TreeEntries)])
  /\ Len(t) >= 2
  /\ \A i \in DOMAIN t :
       IsFile(g, t, i) /\ (IF t[i].type = Dir THEN IsDirectory(t, i) ELSE t[i].entries = << >>)
  /\ DiskSize(g, t) * g.block < OffsetRange
DisksAssumption ==
  /\ OffsetRange \in Nat
  /\ \A g \in Geometries : IsGeometry(g) /\ \A t \in Trees : IsTree(g, t)
  /\ Paths \subseteq Seq(Seq(Nat))
ASSUME DisksAssumption

\* Executable files, as a linker makes them: the bytes of every segment are in
\* the file and there are no more of them than it has in memory. load() relies on
\* it; with more it would write behind the segment.
ProgramsAssumption ==
  \A hs \in Programs :
    /\ hs \in Seq([1..5 -> Nat])
    /\ \A i \in DOMAIN hs : hs[i][4] <= hs[i][5] /\ hs[i][2] + hs[i][4] <= ProgramFile(hs).size
ASSUME ProgramsAssumption
=============================================================================
