------------------------------- MODULE Memory -------------------------------
(***************************************************************************)
(* Page frames and address spaces: physmem.cc and vmm.cc. The state of the *)
(* memory is one record, and every function of the code is an operator     *)
(* from such a record to the next, so that system calls can put them in a  *)
(* row. The user half of an address space is a few regions of one page     *)
(* table each; one of them also maps the two APIC pages.                   *)
(*                                                                         *)
(* Slots of an address space, each 0 or a frame: "dir" (the page           *)
(* directory), the page table of every region, and the user pages.         *)
(***************************************************************************)
EXTENDS Integers, Sequences, FiniteSets, SequencesExt

CONSTANTS Procs,
          Layout,   \* the regions by address, each [table |-> slot, pages |-> sequence of slots]
          Apic,     \* the page table that maps the two APIC pages
          MaxFrame, \* frames 1..MaxFrame are between start and limit
          Bytes     \* what a page may hold; 0 is a page of zeroes

Tables == {Layout[r].table : r \in DOMAIN Layout}
Pages == UNION {Range(Layout[r].pages) : r \in DOMAIN Layout}
Slots == {"dir"} \union Tables \union Pages
TableOf(v) == (CHOOSE r \in Range(Layout) : v \in Range(r.pages)).table
Frames == 1..MaxFrame

\* The order in which the loops meet the slots: those that make tables find a
\* table before its pages, the one that deletes them is through with the pages
\* first.
CopyOrder == FlattenSeq([r \in DOMAIN Layout |-> <<Layout[r].table>> \o Layout[r].pages])
DeleteOrder == FlattenSeq([r \in DOMAIN Layout |-> Append(Layout[r].pages, Layout[r].table)])

\* No page or table is twice in the layout.
ASSUME MemoryAssumption ==
  /\ MaxFrame \in Nat /\ {0, 1} \subseteq Bytes
  /\ Apic \in Tables /\ "dir" \notin Tables \union Pages /\ Tables \intersect Pages = {}
  /\ \A order \in {CopyOrder, DeleteOrder} :
       /\ order \in Seq(Tables \union Pages)
       /\ IsInjective(order) /\ Range(order) = Tables \union Pages

\* Before any process: no frame given out. panic is "no more frames".
NoMemory ==
  [avail |-> 1, free |-> << >>, panic |-> FALSE,
   at |-> [p \in Procs |-> [s \in Slots |-> 0]],
   data |-> [f \in Frames |-> 0]]

\* The slots that a loop over all of them finds.
InOrder(order, slots) ==
  LET found[i \in 0..Len(order)] ==
        IF i = 0 THEN << >>
        ELSE IF order[i] \in slots THEN Append(found[i - 1], order[i]) ELSE found[i - 1]
  IN found[Len(order)]
Place(slots, s) == CHOOSE i \in DOMAIN slots : slots[i] = s
Mapped(m, p, slots) == {s \in slots : m.at[p][s] # 0}

\* alloc_frame for each of these slots of p: from the free list, else the next
\* one that was never used; zeroed.
Alloc(m, p, slots) ==
  LET k == Len(slots)
      supply == m.free \o [i \in 1..MaxFrame + 1 - m.avail |-> m.avail + i - 1]
      got == SubSeq(supply, 1, k) IN
  IF k > Len(supply) THEN [m EXCEPT !.panic = TRUE]
  ELSE [m EXCEPT
    !.free = SubSeq(@, k + 1, Len(@)),
    !.avail = @ + (IF k > Len(m.free) THEN k - Len(m.free) ELSE 0),
    !.data = [f \in Frames |-> IF Contains(got, f) THEN 0 ELSE @[f]],
    !.at[p] = [s \in Slots |-> IF Contains(slots, s) THEN got[Place(slots, s)] ELSE @[s]]]

\* dealloc_frame for each of these slots, which are cleared.
Dealloc(m, p, slots) ==
  [m EXCEPT !.free = Reverse([i \in DOMAIN slots |-> m.at[p][slots[i]]]) \o @,
            !.at[p] = [s \in Slots |-> IF Contains(slots, s) THEN 0 ELSE @[s]]]

\* make_pd: a directory with the shared part, and the table of the APIC pages.
MakePd(m, p) == Alloc(m, p, <<"dir", Apic>>)

\* vmm_pageFault: a frame for the page, and in map() one for its table if there
\* is none. The kernel's stack set-up maps like this too, over what was there.
MapNew(m, p, v) ==
  Alloc(m, p, IF m.at[p][TableOf(v)] = 0 THEN <<v, TableOf(v)>> ELSE <<v>>)

Touch(m, p, v) == IF m.at[p][v] = 0 THEN MapNew(m, p, v) ELSE m

\* A byte written to a page that is mapped.
Store(m, p, v, b) ==
  IF m.panic THEN m ELSE [m EXCEPT !.data[m.at[p][v]] = b]

\* Variant with a bug: the child shares the pages of the parent.
CopyShared(m, from, to) ==
  LET m1 == Alloc(m, to, InOrder(CopyOrder, Mapped(m, from, Tables) \ {Apic})) IN
  IF m1.panic THEN m1
  ELSE [m1 EXCEPT !.at[to] = [s \in Slots |-> IF s \in Pages THEN m.at[from][s] ELSE @[s]]]

\* deep_copy_mem into a new address space: a table for every table but that of
\* the APICs, and a copy of every page.
DeepCopy(m, from, to) ==
  LET m1 == Alloc(m, to, InOrder(CopyOrder, Mapped(m, from, Tables \union Pages) \ {Apic})) IN
  IF m1.panic THEN m1
  ELSE [m1 EXCEPT !.data = [f \in Frames |->
          IF \E v \in Mapped(m, from, Pages) : m1.at[to][v] = f
          THEN m.data[m.at[from][CHOOSE v \in Mapped(m, from, Pages) : m1.at[to][v] = f]]
          ELSE @[f]]]

\* Variant with a bug: the entries of the pages that were freed stay.
DeleteUserMemOnly(m, p) ==
  LET m1 == Dealloc(m, p, InOrder(DeleteOrder, Mapped(m, p, Pages))) IN [m1 EXCEPT !.at = m.at]

\* delete_user_mem: every page, and every table but that of the APICs, after the
\* pages in it.
DeleteUserMem(m, p) ==
  Dealloc(m, p, InOrder(DeleteOrder, Mapped(m, p, Tables \union Pages) \ {Apic}))

\* delete_pd: the tables and the directory, not the pages: they are lost with
\* it, and stay recorded here as what the dead process had.
DeletePd(m, p) ==
  Dealloc(Dealloc(m, p, InOrder(CopyOrder, Mapped(m, p, Tables))), p, <<"dir">>)
----------------------------------------------------------------------------
\* The frames that were given out and not given back.
InUse(m) == (1..m.avail - 1) \ Range(m.free)
Held(m) == {h \in Procs \X Slots : m.at[h[1]][h[2]] # 0}
FrameOf(m, h) == m.at[h[1]][h[2]]
=============================================================================
