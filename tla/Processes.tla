----------------------------- MODULE Processes -----------------------------
(***************************************************************************)
(* Processes and their system calls: the descriptor table of processes.h,  *)
(* the handlers of sys.cc, thread() with a parent (threads.h), and the     *)
(* memory of each process (module Memory). A handler is one step, except   *)
(* fork, which schedules the child before it has the child's descriptor,   *)
(* and down(), which may block.                                            *)
(*                                                                         *)
(* Once the code reads or writes outside of a descriptor table or inside a *)
(* TCB that was deleted, anything may happen: wild records it, and the     *)
(* model stops there, as it does when there are no more frames.            *)
(***************************************************************************)
EXTENDS Memory

CONSTANTS Sems, Files,
          D,          \* NUM_DESCRIPTORS: of each type
          Std,        \* the files that a PCB begins with
          Size,       \* the length of every file
          Stale,      \* what the counts of a new PCB may hold before it is built
          CodePage, StackPage, \* where exec() loads the program, and puts its arguments
          Menus       \* sets of calls, each with a bound: a run explores one of them

Types == <<"file", "sem", "child">>
\* The counts are unsigned, and so is what the heap held in their place.
ASSUME ProcessesAssumption ==
  /\ IsFiniteSet(Procs) /\ D \in Nat /\ Std \in 0..D /\ Size \in Nat
  /\ Stale \subseteq [Range(Types) -> Nat]
  /\ {CodePage, StackPage} \subseteq Pages /\ CodePage # StackPage

Base(t) == D * ((CHOOSE i \in DOMAIN Types : Types[i] = t) - 1)
Index == 0..3 * D - 1
OutOfTable == 3 * D
Empty == [kind |-> "none", id |-> 0, off |-> 0]
NewFile(f) == [kind |-> "file", id |-> f, off |-> 0]
StdFile == NewFile(0)  \* a FileDescriptor without a file

VARIABLES phys,     \* the memory, see module Memory
          view,     \* history: process -> page -> what the process should find there
          where,    \* process -> "none", "user", "forking", "zombie" or "deleted"
          fork,     \* process -> [slot, child] of the fork() it is in
          dt, count, status,   \* the PCB of each process
          disorder, \* history: process -> types closed out of order or inherited
          units, waiting, refs, \* semaphores: count, who waits, Shared count
          wild, menu, calls

pcb == <<dt, count, status, disorder>>
semaphores == <<units, waiting, refs>>
vars == <<phys, view, where, fork, pcb, semaphores, wild, menu, calls>>

NoFork == [slot |-> 0, child |-> 0]
Known(i) == IF i < Std THEN StdFile ELSE Empty

\* The first process has what thread() without a parent gives it.
Init ==
  \E p0 \in Procs :
    /\ p0 = CHOOSE p \in Procs : TRUE
    /\ phys = MakePd(NoMemory, p0)
    /\ view = [p \in Procs |-> [v \in Pages |-> 0]]
    /\ where = [p \in Procs |-> IF p = p0 THEN "user" ELSE "none"]
    /\ fork = [p \in Procs |-> NoFork]
    /\ dt = [p \in Procs |-> [i \in Index |-> Known(i)]]
    /\ count = [p \in Procs |-> [t \in Range(Types) |-> IF t = "file" THEN Std ELSE 0]]
    /\ status = [p \in Procs |-> "none"]
    /\ disorder = [p \in Procs |-> {}]
    /\ units = [s \in Sems |-> 0] /\ refs = [s \in Sems |-> 0]
    /\ waiting = [s \in Sems |-> << >>]
    /\ wild = FALSE /\ menu \in Menus /\ calls = 0

\* p is in user mode and makes this call.
Calls(p, call) ==
  /\ ~wild /\ ~phys.panic
  /\ where[p] = "user" /\ \A s \in Sems : ~Contains(waiting[s], p)
  /\ call \in menu.set /\ calls < menu.bound /\ calls' = calls + 1
  /\ UNCHANGED menu
----------------------------------------------------------------------------
\* Variant with a bug: the count stays.
AddUncounted(p, d) ==
  LET i == Base(d.kind) + count[p][d.kind] IN
  /\ dt' = [dt EXCEPT ![p][i] = d]
  /\ UNCHANGED <<count, status, disorder, wild>>

\* add_descriptor: next_dti gives the count of the type as the next index, or -1
\* as an unsigned number, which passes for an index.
Add(p, d) ==
  LET i == Base(d.kind) + count[p][d.kind] IN
  /\ UNCHANGED <<status, disorder>>
  /\ IF count[p][d.kind] >= D THEN wild' = TRUE /\ UNCHANGED <<dt, count>>
     ELSE /\ dt' = [dt EXCEPT ![p][i] = d]
          /\ count' = [count EXCEPT ![p][d.kind] = @ + 1] /\ UNCHANGED wild

\* open(), of a file that exists.
Open(p) ==
  /\ Calls(p, "open") /\ \E f \in Files : Add(p, NewFile(f))
  /\ UNCHANGED <<phys, view, where, fork, semaphores>>

\* sem(): the descriptor has the only Shared of the new semaphore.
Sem(p) ==
  /\ Calls(p, "sem") /\ \E s \in Sems, n \in {0, 1} :
       /\ \A r \in Sems : refs[r] = 0 /\ waiting[r] = << >> => s <= r
       /\ refs[s] = 0 /\ waiting[s] = << >>
       /\ refs' = [refs EXCEPT ![s] = 1] /\ units' = [units EXCEPT ![s] = n]
       /\ Add(p, [kind |-> "sem", id |-> s, off |-> 0])
  /\ UNCHANGED <<phys, view, where, fork, waiting>>

\* up() and down() of a descriptor; other types return -1 and change nothing.
Up(p, i) ==
  LET s == dt[p][i].id IN
  /\ Calls(p, "up") /\ dt[p][i].kind = "sem"
  /\ IF waiting[s] = << >> THEN units' = [units EXCEPT ![s] = @ + 1] /\ UNCHANGED waiting
     ELSE waiting' = [waiting EXCEPT ![s] = Tail(@)] /\ UNCHANGED units
  /\ UNCHANGED <<phys, view, where, fork, pcb, refs, wild>>

Down(p, i) ==
  LET s == dt[p][i].id IN
  /\ Calls(p, "down") /\ dt[p][i].kind = "sem"
  /\ IF units[s] > 0 THEN units' = [units EXCEPT ![s] = @ - 1] /\ UNCHANGED waiting
     ELSE waiting' = [waiting EXCEPT ![s] = Append(@, p)] /\ UNCHANGED units
  /\ UNCHANGED <<phys, view, where, fork, pcb, refs, wild>>

\* FileDescriptor::read: the offset moves on by what was read, and back by one
\* if it is beyond the end, where read_all fails with -1.
ReadFile(p, i) ==
  LET d == dt[p][i] IN
  /\ Calls(p, "read") /\ d.kind = "file" /\ d.id # 0
  /\ \E n \in 1..Size :
       dt' = [dt EXCEPT ![p][i].off =
                IF @ > Size THEN @ - 1 ELSE IF @ + n > Size THEN Size ELSE @ + n]
  /\ UNCHANGED <<phys, view, where, fork, count, status, disorder, semaphores, wild>>

\* FileDescriptor::seek, to any place.
Seek(p, i) ==
  /\ Calls(p, "seek") /\ dt[p][i].kind = "file" /\ dt[p][i].id # 0
  /\ \E o \in 0..Size + 1 : dt' = [dt EXCEPT ![p][i].off = o]
  /\ UNCHANGED <<phys, view, where, fork, count, status, disorder, semaphores, wild>>

\* close(): if the index is below the count of its type, the descriptor is
\* deleted, with its Shared, and the count lowered; otherwise -1.
Close(p, i) ==
  LET d == dt[p][i] IN
  /\ Calls(p, "close") /\ d.kind # "none" /\ i - Base(d.kind) < count[p][d.kind]
  /\ dt' = [dt EXCEPT ![p][i] = Empty]
  /\ count' = [count EXCEPT ![p][d.kind] = @ - 1]
  /\ disorder' = [disorder EXCEPT ![p] =
       IF i = Base(d.kind) + count[p][d.kind] - 1 THEN @ ELSE @ \union {d.kind}]
  /\ refs' = IF d.kind = "sem" THEN [refs EXCEPT ![d.id] = @ - 1] ELSE refs
  /\ UNCHANGED <<phys, view, where, fork, status, units, waiting, wild>>
----------------------------------------------------------------------------
\* Descriptor::copy: a child descriptor becomes an empty one.
Copy(d) == IF d.kind = "child" THEN Empty ELSE d

\* Variant with a bug: a copy of a semaphore descriptor is not counted.
CopyRefsNone(p) == refs

\* The Shared counts when every descriptor of p has been copied.
CopyRefs(p) ==
  [s \in Sems |-> refs[s] + Cardinality({i \in Index : dt[p][i].kind = "sem" /\ dt[p][i].id = s})]

\* fork() up to schedule(): reserve an index, which may be -1; make a TCB with
\* an address space and a PCB, whose counts start from what the heap held; copy
\* the memory and the descriptors, but not the counts. delete_zombies() comes
\* first: that is Reap, as a stopped process may not be in its queue yet.
ForkChild(p, c) ==
  /\ Calls(p, "fork") /\ where[c] = "none"
  /\ c = CHOOSE q \in Procs : where[q] = "none"
  /\ LET full == count[p]["child"] >= D IN
     /\ fork' = [fork EXCEPT ![p] =
          [slot |-> IF full THEN OutOfTable ELSE Base("child") + count[p]["child"], child |-> c]]
     /\ \E old \in Stale :
          /\ wild' = (old["file"] # 0)
          /\ count' = [count EXCEPT
               ![p]["child"] = IF full THEN @ ELSE @ + 1,
               ![c] = [t \in Range(Types) |-> old[t] + (IF t = "file" THEN Std ELSE 0)]]
  /\ phys' = DeepCopy(MakePd(phys, c), p, c)
  /\ view' = [view EXCEPT ![c] = view[p]]
  /\ dt' = [dt EXCEPT ![c] = [i \in Index |->
              IF dt[p][i].kind = "none" THEN Known(i) ELSE Copy(dt[p][i])]]
  /\ disorder' = [disorder EXCEPT ![c] =
       {dt'[c][i].kind : i \in {j \in Index : dt'[c][j] # Known(j)}}]
  /\ refs' = CopyRefs(p)
  /\ where' = [where EXCEPT ![p] = "forking", ![c] = "user"]
  /\ UNCHANGED <<status, units, waiting>>

\* The rest of fork(): the PCB is looked up in the TCB of the child, which may
\* have run, ended and been deleted in the meantime; then the child gets its
\* descriptor, at the index that was reserved.
ForkReturn(p) ==
  LET d == [kind |-> "child", id |-> fork[p].child, off |-> 0] IN
  /\ ~wild /\ ~phys.panic /\ where[p] = "forking"
  /\ wild' \in {where[fork[p].child] = "deleted", fork[p].slot = OutOfTable}
  /\ fork[p].slot = OutOfTable => wild'
  /\ where' = [where EXCEPT ![p] = "user"] /\ fork' = [fork EXCEPT ![p] = NoFork]
  /\ IF fork[p].slot = OutOfTable THEN UNCHANGED dt
     ELSE dt' = [dt EXCEPT ![p][fork[p].slot] = d]
  /\ UNCHANGED <<phys, view, count, status, disorder, semaphores, menu, calls>>

\* wait(): the status of the child, once it has one. It gives nothing up.
Wait(p, i) ==
  /\ Calls(p, "wait") /\ dt[p][i].kind = "child" /\ status[dt[p][i].id] # "none"
  /\ UNCHANGED <<phys, view, where, fork, pcb, semaphores, wild>>

\* exit(): the status, then stop(). It never returns to drop its Shared of the
\* PCB, so the PCB and what its descriptors refer to are never deleted.
Exit(p) ==
  /\ Calls(p, "exit")
  /\ status' = [status EXCEPT ![p] = "set"] /\ where' = [where EXCEPT ![p] = "zombie"]
  /\ UNCHANGED <<phys, view, fork, dt, count, disorder, semaphores, wild>>

\* delete_zombies, by the reaper or by whoever calls thread(): ~TCB.
Reap(p) ==
  /\ ~wild /\ ~phys.panic /\ where[p] = "zombie"
  /\ where' = [where EXCEPT ![p] = "deleted"]
  /\ phys' = DeletePd(phys, p)
  /\ UNCHANGED <<view, fork, pcb, semaphores, wild, menu, calls>>
----------------------------------------------------------------------------
\* The program reads one of its pages, or writes to it; a page fault maps it first.
Access(p) ==
  /\ Calls(p, "access")
  /\ \E v \in Pages :
       \/ phys' = Touch(phys, p, v) /\ UNCHANGED view
       \/ \E b \in Bytes \ {0} : /\ phys' = Store(Touch(phys, p, v), p, v, b)
                               /\ view' = [view EXCEPT ![p][v] = b]
  /\ UNCHANGED <<where, fork, pcb, semaphores, wild>>

\* ELF::load, one segment: page faults map what it writes. See module Ext2.
Load(m, p) == Store(Touch(m, p, CodePage), p, CodePage, 1)
\* setup_exec_stack maps a new page, then writes the arguments.
SetupStack(m, p) == Store(MapNew(m, p, StackPage), p, StackPage, 1)
Holds(vs) == [v \in Pages |-> IF v \in vs THEN 1 ELSE 0]

\* exec(): the memory is wiped first, before the file is found. It fails with
\* no file or no ELF file, or with an entry below user space once it is loaded.
Exec(p) ==
  LET wiped == DeleteUserMem(phys, p) IN
  /\ Calls(p, "exec")
  /\ \/ phys' = wiped /\ view' = [view EXCEPT ![p] = Holds({})]
     \/ phys' = Load(wiped, p) /\ view' = [view EXCEPT ![p] = Holds({CodePage})]
     \/ phys' = SetupStack(Load(wiped, p), p)
        /\ view' = [view EXCEPT ![p] = Holds({CodePage, StackPage})]
  /\ UNCHANGED <<where, fork, pcb, semaphores, wild>>

Next ==
  \E p \in Procs :
    \/ Open(p) \/ Sem(p) \/ ForkReturn(p) \/ Exit(p) \/ Reap(p) \/ Access(p) \/ Exec(p)
    \/ \E c \in Procs : ForkChild(p, c)
    \/ \E i \in Index :
         Up(p, i) \/ Down(p, i) \/ ReadFile(p, i) \/ Seek(p, i) \/ Close(p, i) \/ Wait(p, i)

Spec == Init /\ [][Next]_vars
----------------------------------------------------------------------------
Running(p) == where[p] \in {"user", "forking"}

\* The type of every variable.
ProcTypeOK ==
  /\ phys.avail \in 1..MaxFrame + 1 /\ phys.panic \in BOOLEAN
  /\ phys.at \in [Procs -> [Slots -> 0..MaxFrame]]
  /\ phys.data \in [Frames -> Bytes] /\ view \in [Procs -> [Pages -> Bytes]]
  /\ where \in [Procs -> {"none", "user", "forking", "zombie", "deleted"}]
  /\ \A p \in Procs, i \in Index : dt[p][i].kind \in {"none", "file", "sem", "child"}
  /\ \A p \in Procs, t \in Range(Types) : count[p][t] \in Nat
  /\ refs \in [Sems -> Nat] /\ wild \in BOOLEAN

\* A descriptor stays the file, semaphore or child that it is until it is closed:
\* no open(), sem() or fork() puts another in its place. Only a process that closed
\* some descriptor of the type before a later one, or that inherited some of the
\* type, can lose one, because the next index is the count (processes.h:265-275,
\* 316; processes.cc:23-27).
DescriptorsKept ==
  [][\A p \in Procs, i \in Index :
       Running(p) /\ dt[p][i].kind \notin {"none"} \union disorder[p] =>
         \/ dt'[p][i] = Empty
         \/ dt'[p][i].kind = dt[p][i].kind /\ dt'[p][i].id = dt[p][i].id]_vars

\* A semaphore lives as long as a process can name it or waits on it, whoever
\* forked, closed or ended in the meantime (processes.h:172-182).
SemaphoreOutlivesUsers ==
  \A s \in Sems :
    (\E p \in Procs : Contains(waiting[s], p) \/ \E i \in Index : dt[p][i].kind = "sem" /\ dt[p][i].id = s)
      => refs[s] > 0

\* A frame is in one place: free, or one directory, one table or one page of one
\* process. No operation gives away what is in use, or gives back twice.
FrameInOnePlace ==
  ~phys.panic =>
    /\ \A g, h \in Held(phys) : FrameOf(phys, g) = FrameOf(phys, h) => g = h
    /\ {FrameOf(phys, h) : h \in Held(phys)} \subseteq InUse(phys)
    /\ Len(phys.free) = Cardinality(Range(phys.free))

\* A frame that is given out and nowhere is never a directory or a table: what
\* delete_pd leaves behind are the pages of a process that ended
\* (vmm.cc:63-69). exec() loses none: it maps its stack where it wiped.
OnlyPagesAreLost ==
  ~phys.panic =>
    /\ InUse(phys) = {FrameOf(phys, h) : h \in Held(phys)}
    /\ \A h \in Held(phys) : where[h[1]] = "deleted" => h[2] \in Pages

\* Every frame is accounted for, through forks, page faults, exec and the reaper
\* (physmem.cc, vmm.cc:19-134, 162-176).
FramesAccounted == ProcTypeOK /\ FrameInOnePlace /\ OnlyPagesAreLost

\* Memory is private: each process finds on every page what it wrote there last,
\* or what its parent had there when it was forked, or zeroes.
MemoryIsPrivate ==
  \A p \in Procs : Running(p) /\ ~phys.panic =>
    \A v \in Pages : view[p][v] = IF phys.at[p][v] = 0 THEN 0 ELSE phys.data[phys.at[p][v]]
=============================================================================
