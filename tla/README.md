# Basic-Tetris: a verification project

`src/` is a small multi-core kernel for the PC, derived from a teaching kernel, whose main
program is a game of Tetris. This directory holds TLA+ models of its parts, the TLC
configurations that check them, and TLAPS proofs about eight of them. Paths below are
relative to `src/kernel/` unless they say otherwise.

Run a check with `tlc -config X.cfg M` and the proofs of a module with `tlapm XProofs.tla`.

## 1. The system

| Part | State | Operations | Interacts through |
|---|---|---|---|
| Thread switcher (`threads.h`, `threads.cc`, `queue.h`, `context.s`) | `readyQ`, `zombies`, `activeThreads`, `idleThreads`, per TCB `saveArea` with `no_preempt` | `block`, `gheith_contextSwitch`, `yield`, `stop`, `thread`, `delete_zombies`, the reaper | everything that waits calls `block`; the timer calls `yield`; TCBs come from the heap |
| Semaphores (`semaphore.*`, `blocking_lock.h`) | `count`, `lock`, `waiting` | `down`, `up` | `block` and `schedule`; used by the heap lock, barriers, futures, buffers, processes |
| Locks (`atomic.h`) | `taken`, `was` | `SpinLock`, `InterruptSafeLock`, `ISL`: `lock`, `unlock` | interrupt flag of the core |
| Condition variables (`condition.h`) | `epoch`, `queue` | `wait`, `notify` | an `InterruptSafeLock`, `block` |
| Barriers, futures, buffers (`barrier.h`, `future.*`, `bb.h`) | counts, `isReady`, a ring | `sync`, `set`, `get`, `put` | semaphores and conditions |
| Shared pointers (`shared.h`) | `ref_count` of the object | copy, move, drop | everything that is shared between threads |
| Heap (`heap.cc`) | `array`, `avail` | `malloc`, `free` | `theLock`, a `BlockingLock` |
| Frames and page tables (`physmem.cc`, `vmm.cc`) | `firstFree`, `avail`, the page directories | `alloc_frame`, `dealloc_frame`, `map`, page fault, `deep_copy_mem`, `delete_user_mem`, `delete_pd` | an `InterruptSafeLock`; fork and exec |
| Processes and system calls (`processes.*`, `sys.cc`) | descriptor table `dt` and `count`, `status` | `fork`, `exec`, `wait`, `exit`, `open`, `close`, `sem`, `up`, `down`, ... | threads, futures, semaphores, the file system |
| Boot (`init.cc`, `smp.cc`, `config.cc`, `idt.cc`) | `SMP::running`, `howManyAreHere` | `kernelInit` on each core | inter-processor interrupts; ends in `stop()` and the main thread |
| Timer (`pit.*`) | `jiffies` | `calibrate`, `init`, `apitHandler`, `sleep` | preempts every core; paces the game |
| Keyboard and PS/2 controller (`keyboard.*`, `scancode.h`) | `head`, `tail`, `kb_queue`, `keys`, `shift`, `ctrl`, `caps` | `handle_interrupt`, `last_press`; the controller's start-up | interrupt on the bootstrap core; the game on any core |
| Game (`tetris.h`, `shapes.*`, `graphics.cc`, `random.h`) | `curr_shape`, `double_buffer`, `time_drop` | `move`, `clear_down`, `next_shape`, `play_game` | `Keyboard::last_press`, `Pit::jiffies`, the screen |
| Disk, file system, loader (`ide.cc`, `block_io.cc`, `ext2.*`, `elf.cc`) | the disk, read only | `read_block`, `read`, `read_all`, `find`, `load` | a `BlockingLock`; exec and open |
| Output (`graphics.cc`, `fonts.cc`, `snprintf.cc`, `debug.cc`, `u8250.cc`, `libk.cc`) | screen memory, serial port | formatting and drawing | everybody |
| User programs (`src/tetris.dir/sbin`) | their own heap | a C library, a printf, an empty shell and init | system calls; `kernelMain` starts none of them |

What is hard in this code, and where:

* **Concurrency.** Several cores, each preempted by a timer, share one ready queue. `block()`
  (`threads.h:90`) runs with interrupts *on* between its prologue and the context switch; its
  safety rests on the order of four assignments. `threads.h:120` asks "Why is this safe?".
* **Stacks.** What becomes of a thread that leaves a core is decided by a handler that runs on
  the stack of the *next* thread, so that no other core can resume or free a stack in use.
* **Locks across a switch.** `Semaphore::down` takes its lock on one stack and the handler
  releases it on another.
* **No locks.** The ring of the keyboard is written by an interrupt and read by the game,
  possibly on another core.
* **Wrap-around.** `jiffies` is compared with `>=` in one place and `!=` in another, after
  additions modulo 2^32; `keys[]` counts in 8 bits; offsets on the disk have 32 bits.
* **State in pixels.** The game keeps no grid: it reads back one pixel of what it has drawn. The buffer is linear, and
  neither the moves to the sides nor `plot` check anything.

Nothing is written to disk and nothing restarts, so there is no crash recovery. Per part, what makes
it correct: a TCB is in one place at a time (switcher); a semaphore behaves as a counter with a
first-come queue (semaphores); mutual exclusion and the right interrupt flag (locks); no missed signal
(conditions); no overwritten or leaked descriptor or frame (processes, memory); a queue of characters
(keyboard); tiles, tags and list agree (heap); the buffer shows the game (game). `PROJECT.json` lists
the hazards one by one, with the line where each bites.

## 2. What is modelled

| Module | Models | Built on |
|---|---|---|
| `Threads` | the thread switcher with the timer interrupt | |
| `CountingSemaphores` | what semaphores promise (abstract) | |
| `Semaphores` | semaphores, the heap lock, and the threads that use them | `Threads` (EXTENDS), `CountingSemaphores` (refined) |
| `KeyQueue` | what the ring of the keyboard promises (abstract) | |
| `Keyboard` | keyboard interrupt, device and `last_press` | `KeyQueue` (refined) |
| `Clock` | `jiffies`, the pace of `play_game`, `sleep` | |
| `Tetris` | the game on its double buffer | takes the fairness of its drops from `Clock` |
| `Heap` | the kernel heap | takes its atomicity from `UnitsAccounted` of `Semaphores` |
| `Mutexes` | what locks promise (abstract) | |
| `Locks` | `InterruptSafeLock`, `ISL`, `protect` and the interrupt flag | `Mutexes` (refined) |
| `BoundedQueue` | what a bounded buffer promises (abstract) | |
| `Sync` | condition variables, barriers, futures, shared counts, bounded buffers | takes its locks from `Locks`, its semaphores from `Semaphores`; `BoundedQueue` (refined) |
| `Memory` | frames and address spaces, as operators on a record | |
| `Processes` | descriptors, system calls, fork, exec, the reaper | `Memory` (EXTENDS) |
| `PS2` | the constructor of the PS/2 controller, and the controller | |
| `Boot` | the start of all cores, the IO-APIC, the timer | `PS2` (EXTENDS) |
| `Ext2` | disk, block I/O, ext2 and the ELF loader, as operators | |
| `SemaphoresProofs` | proofs about `Threads`, and about `Semaphores` on top of them (section 5) | `Semaphores`, TLAPS |
| `GameProofs` | proofs about `Clock` and `Tetris` | both, TLAPS |
| `BootProofs` | proofs about `Boot`, `PS2` and `Ext2` | `Boot`, `Ext2`, TLAPS |
| `LocksProofs`, `SyncProofs`, `KeyboardProofs`, `HeapProofs`, `ProcessesProofs` | proofs about the module of that name, the last about `Memory` too | that module, TLAPS |
| `MC*` | instances for TLC | the module of the same name; `MCSemaphoresLive` is a second one for `Semaphores`, `MCProcesses` checks `Memory` too, `MCBoot` checks `PS2` and `Ext2` |

An operator whose comment starts with "Variant with a bug" is no part of a specification: it is what
its neighbour would be after a plausible mistake, and serves to show that a property can fail.

### Threads

A core executes on the kernel stack of one TCB, `running[c]`, which the code has no name for (it is
the stack pointer); `active` is `activeThreads`. The local variables of the call of `block()` in
progress are per core (`me`, `next`, `handler`, `pc`), because at most one call is in progress on a
core: `TimerSafe` shows that the timer never starts a second. The steps of `block()` are:

| Action | Code |
|---|---|
| `BlockProtect` | `threads.h:95-99`, with interrupts off |
| `BlockTake`, `BlockReturn`, `BlockSpin`, `BlockToIdle` | `threads.h:101-116` by the outcome of `readyQ.remove()` |
| `BlockMark`, `BlockActivate` | `threads.h:118` and `120` |
| `ContextSwitch` | `context.s` up to the call of the handler, with interrupts off |
| `HandlerSchedule`, `HandlerZombie` (and `HandlerWait`) | the handler on the target stack, then `popf` and `ret` |
| `Tick` | `apitHandler` where it calls `yield` |

Between any two of them another core or the timer may act. A section under the lock of a `Queue` is one
step. The TCB is a name; the idle TCB of a core is the core's own name. `thread()`
is split into its `delete_zombies`, one step per zombie, and the creation. `TCBsLeft` bounds the number of
TCBs, which in the code only the heap limits. The page directory, `esp0` and `cr2`/`cr3` follow the TCB and
are left out. A tick that finds an idle or non-preemptible TCB changes nothing here (the counter is
in `Clock`).

### Semaphores

`down()` is `DownFast` or `DownBlock`; the latter takes the lock (`taken`), turns interrupts off and
enters `block()`; `HandlerWait` enqueues the thread and releases the lock. `up()` is `UpCount`, or
`UpWake` followed, outside the lock, by `Wake`. The heap lock is one of the semaphores: `thread()` takes it for the new TCB
(`MallocLock`, `MallocUnlock`, `CreateBuilt`) and whoever deletes a zombie takes it too (`FreeLock`, `Free`,
`FreeUnlock`). One malloc stands for those of a TCB, one free for those of its destructor. Workers use the
other semaphores in any order.

### Keyboard

A scan code is a key and a direction, a character is a key and a table (lower, upper). `Press`, `Repeat` and `Release` are the
device followed by the interrupt handler; for a key with a character the handler is two steps,
the store and `head = nhead` (`Publish`), because the reader may be on another core. `last_press` is
three steps. The repeat filter (10) and the range of a count (256) are the constants `Filter` and `KeyWrap`. What `display_` draws is left out.

### Clock

`jiffies`, `time_drop` and `end` are modulo `Wrap` (2^32). `sinceDrop` and `left` are history: real time,
which the code does not have. `Due` and `Rearm` are the test and the assignment of `play_game`, between
which other things are done; `Sleep` and `Wake` are `sleep()`.

### Tetris

The buffer is linear, as in the code: `At` is `offset()` of a block's top left pixel, and a pixel that is off one side of a line is one of the
next line or the last (`graphics.cc:13-22`). Blocks are 4 pixels wide and begin at multiples of 4, so a line is `Width` units of four pixels, of which
`buffer` holds the first: the checks read the top left pixel of a block and no other. `fill_block` paints five pixels across on each line of a block, so that `Painted` contains the first pixel of the unit to the right as
well. `MoveLeft`, `MoveRight` and `Rotate` check nothing, as in the code; steps to the sides are bounded by `MaxAside`, far enough to leave the buffer at either end.
`Inside` says that the piece was drawn in the buffer. What a write outside it destroys is undefined: there the model stops, and every action has `Inside` as a guard. The check of `clear_down` may read outside the buffer before that;
what it reads may be black or not (`ClearDown`, `NotClearDown`).
`Garbage` stands for what `new` leaves in the buffer, which nothing clears. `next_shape` may choose any kind, whatever the
random generator. `clear_left`, `clear_right` and `clear_rotate` are called by nobody and left out.

### Heap

The array is modelled word by word: sizes in the first and last word of a block, negative when taken, and the
links in the second and third. `Data` is what callers write, chosen to look like a size. malloc compares the first `CountDown` blocks that fit.
A call that finds no room is no step (the code returns 0 and `operator new` panics).

### Locks

A core has a stack of one or two contexts, its main code and an interrupt handler; each is a record with the place
it is at, the local `wasDisabled` and the sections it is in. One action is one access: `IsDisabled` and `Cli` are `Interrupts::disable()`,
`Exchange`, `Keep`, `Retry` the rest of `lock()`; `Leave`, `Free`, `Restore` are `unlock()`. The kind of a lock says where it
keeps the flag. Sections nest by rank, as those of the kernel do (`semaphore.cc:16`, `threads.h:95` and `103`: `protect` and the lock of a queue inside that of a semaphore).
`SpinLock` is used by nobody and left out.

### Sync

Each thread runs a program of calls (`Programs`, given by the MC module): three rounds of a `ReusableBarrier`, a `Barrier`,
a monitor with waiting and signalling threads, a task with its future and four holders of it, producers and
consumers. `SyncAssumption` says what the proofs need of a program, and `SharedAssumption` that a thread uses the future while it has
a Shared of it and drops all it has. A section under an `InterruptSafeLock` is a step, because `Locks` shows that the lock excludes; `down` and `up`
are those of `CountingSemaphores`. What happens outside of sections is split as the code is: `StartWait` ends where the lock is
released, `WaitHandler` is the handler on the other stack, and the thread comes back ("woken") when it can take the lock again.
`SharedDrop` is the decrement, then the delete; `FutureSet` three steps and `FutureGet` up to four.

### Memory and Processes

`Memory` has no variables: a memory is a record (free list, high-water mark, address spaces, contents), and `Alloc`,
`Dealloc`, `MakePd`, `MapNew`, `Touch`, `DeepCopy`, `DeleteUserMem`, `DeletePd` take one to the next, in the order in which the
loops of `vmm.cc` meet pages and tables. The user half of an address space is three regions of one table each, one of which
also maps the APICs. `Processes` has one action per system call. `fork()` is two, `ForkChild` and `ForkReturn`, because the child is
ready in between; a blocking `down()` leaves the process in the queue. `Stale` is what the counts of a new PCB may start from, which nobody
initialises. The index of a full table is -1 as an unsigned number: what is written there may destroy anything, as may a look into
a TCB that was deleted, so `wild` records it and nothing follows. `view` is history: what each process should find in its memory.

### PS2 and Boot

`Script` is the constructor as a list of port accesses, in the order of the source; one step takes one access, if it may go on. The
controller and its devices are external: they take commands, answer when they like, and obey the configuration. `lost` records
a command that was written too early. `Boot` has one action per phase of `kernelInit`; the read-change-write of the keyboard's redirection entry
is eight accesses (`Access`), because two cores may interleave there, and `overlap` records that they did. `Examined` are the
entries of the processor table that the loop of `configInit` looks at.

### Ext2

Nothing here has a state, so everything is an operator on the cells of a disk: `Read` and `ReadAll` (`block_io.cc`) over the sectors of `Ide` or the
blocks of an i-node, `Mount`, `GetNode`, `BlockIndex`, `FindEntry`, `Find` (`ext2.*`), `ElfLoad` (`elf.cc`). The disks are
made by `Disk`, an external model of `mke2fs`, from a tree of files. A field of a structure is one cell, so that an i-node takes
six or seven cells instead of 128 bytes; sizes and offsets are computed as the code computes them, modulo `OffsetRange` (2^32) where it uses `uint32_t` (`U32`).
The failing `ASSERT`s and panics of the reading functions are results: `Panic` instead of a cell, `Panicked` instead of a block, `NoNode`. An i-node has the number of its sectors, which `ReadBlock`
compares with the index as `ext2.cc:139` does. A file may have holes: blocks of zeros which are not allocated, whose number is 0 and which do not count among its sectors.

## 3. What the runs check

| Run | Instance | Shows |
|---|---|---|
| `threads_safety` | 2 cores, main + 2 workers + reaper | `ExclusiveOwner`: a TCB is in exactly one place while allocated, in none afterwards. `TimerSafe`: the answer to `threads.h:120`. `NoHoppingIdle`, `StoppedNeverResumes` |
| `semaphores_safety` | the same, heap lock + 1 semaphore | `IsCountingSemaphores`: refinement. `UnitsAccounted`: no lost wake-up, and at most one thread in malloc or free. `LockCrossesSwitch`: the lock is held by one core, with interrupts off, until the handler. `SemExclusiveOwner` |
| `semaphores_live` | 1 core, 5 workers + reaper, heap lock; who creates and who stops is bounded so that three can be at the lock at once | `ReadyRunsOrOutOfReach`: exactly when a ready thread can starve. `StoppedIsFreed`: the same for zombies. `HeapLockIsGranted`: a caller of malloc or free gets the lock, with the same exception, as the unit may have gone to a thread that is then never run |
| `keyboard` | a ring of 3, one letter and four modifiers, 2 keys down | `RingIsQueue`: refinement of `KeyQueue`. `KeysAreFollowed`: the flags of shift and ctrl agree with the keys that are down, and the repeat filter swallows no press |
| `clock` | a 3-bit counter, drops every 3, sleeps up to 6 jiffies, every start | `SleepIsLongEnough`, `DropsKeepComing`; `EarlyOnlyBeforeWrap`: the only case in which a drop is early |
| `tetris` | the I and the L shape, black or not, 4 rows, a screen of 6 columns and 13 lines, 7 steps to either side, 2 pieces, one dirty block | `BufferIsGame`: no trail is left and nothing is drawn but the game, across the ends of lines too. `OnlySidewaysOut`: a piece that is on the screen is drawn in the buffer, however it was rotated at the bottom. `PiecesSettle` |
| `tetris_down` | the I shape, 9 rows | violated: a piece moves down into another (see findings) |
| `heap` | 26 words, requests of 8 and 48 bytes | `HeapConsistent`: the tags tile the array, the list is what is free, what callers have is taken, free blocks are joined |
| `locks` | 2 cores with handlers, one lock of each kind | `AreMutexes`: refinement. `FlagRestored`: a context outside of sections has the flag it started with. `NeverInterruptedInside`: no handler finds its own core in a section. `WaiterTakesInterrupts` |
| `sync` | 4 threads, 6 programs, a buffer of 2, barriers of 3 | `NoMissedSignal`, `NobodyPassesEarly`, `FutureSafe` (value before ready, deleted once and last), `IsBoundedQueue`: refinement, `AllReturn`: nobody waits for ever |
| `processes` | 3 processes, 2 descriptors of a type, 16 frames, 2 semaphores; up to 7 calls of six menus | `DescriptorsKept`: who can lose a descriptor. `SemaphoreOutlivesUsers`. `FramesAccounted`: every frame in one place, only pages of dead processes are lost. `MemoryIsPrivate` |
| `boot` | 3 cores, 2 processor tables, with and without a mouse; 32 disks of two geometries, 1024 programs of two segments | `BootEnds`, `MainIsLast`, `KeyboardListens`, `ControllerReady`: the kernel comes up, and in what cases it may not. `TreeIsRead`, `ProgramIsLoaded`: files without holes, paths on which no name is hidden, and programs, against what was written |

**Why the bounds are enough.** Two cores suffice for every interaction of `block()`: its steps involve the
core's own variables, the ready queue and at most one other core that holds or wants the same TCB. Three workers
let a TCB be deleted and allocated again while two others run, wait and reap, and put two threads in one queue.
The queues never grow beyond the TCBs. `MaxCount` 1 lets units be present, absent and in transit. Symmetry is used
in safety runs only, over the cores and over the workers but `Main`, which `Init` singles out. Liveness is checked on one core, where
there is the least to go round and starvation shows first; the interleavings of cores are
in the safety runs. A ring of three fills, empties, wraps and
overruns; a count that wraps at 4 with a filter of 2 has the four ranges of the original (0, ignored, at the filter, wrapped). A counter of
three bits is longer than the waits, as 2^32 is. The heap has room for five of the smallest blocks, so that a
block can have both, one or no free neighbour, and `CountDown` 2 stops before the end of the list. Two pieces are enough
for one to meet another, and 4 rows for the rotation at the bottom. The screen of the game is only as wide as a piece and two columns, so that seven steps
to a side cross the ends of lines and leave the buffer at the top, on the left, and at the bottom, on the right; the I and the L have the blocks of all shapes that reach farthest down, and the theorems
are about all seven. In `semaphores_live` two of five workers call `thread()`, which takes
a TCB each, and a third stops: so one thread can be inside the heap lock while two more, the reaper among them, wait for it, the first of them can be made ready and never run, and a TCB is deleted and
allocated again and again. With three workers only two threads can meet at that lock. The semaphores that workers share are in the safety run. The theorems of section 5 do without bounds.

Two cores with a handler each are four contexts for two locks, so that a lock can be held by a context, wanted by the handler of another
core, and handed to a third. Four threads of `sync` exceed the party of three and the room of two; the programs are the
shapes in which the objects are used, and every interleaving of each is explored. A table of two descriptors per type can be empty, partly used, full and closed in
the wrong order; three processes give a grandchild, and one that forks while another ends. A run explores one menu of calls at a time,
because calls that share no state need not be interleaved; the bound of a menu is its number of calls. Sixteen frames are
never used up by four calls. Three cores are the least at which a core that was just started meets another in the
IO-APIC while a third is still to come; one table lists a processor in the first entry and one is followed by what looks like a
processor. The disks have two groups of i-nodes, files that end in a direct block, at the end of one and in the indirect block, an empty
file, a file with a hole, nested directories, unused entries before and after the one in use, and padding.

`CHECK_DEADLOCK` is on except in the runs of `Tetris` (a write outside the buffer, and the number of pieces), `sync` (programs end), `processes` (calls are bounded) and `boot` (all cores stop).

**Fairness.** Threads: the processor executes what is in front of it (weak fairness of the steps of
`block()` and of the idle loop); the APIC timer is periodic (weak fairness of `Tick`); the kernel's own
code in a thread (the reaper, `delete_zombies`, malloc, free, the end of `up()`) advances between two ticks, a millisecond
apart, if it is executed again and again (strong fairness: a preemption disables it for a while). Nothing
is assumed of a worker's own code. Clock: the timer is periodic; the loop of `play_game` sees `jiffies >= time_drop` if that is so again and again;
nothing is assumed of `sleep`. Tetris: the time to drop comes again and again, which is
`DropsKeepComing`. Locks: a core that is in `lock()` or `unlock()` goes on (weak fairness of `Step`, strong for the main context, which
interrupts delay; interrupts do not come so fast that it never runs); sections end; a lock itself is not assumed to be
granted to anyone in particular. Sync: threads that can run do, which `ReadyRunsOrOutOfReach` makes good for threads that block. Boot: cores run,
and the controller and the devices that exist answer in the end. Processes has no liveness.

## 4. Findings

* **tetris_down.** `fill_block` paints from `x` to `x + 4`, five pixels. Clearing a piece that slides down
  beside another blackens the column that the check of `clear_down` reads, and a later piece moves into the settled one. The
  same property also fails with `Blacks` containing TRUE: `next_shape` avoids Black, but the constructors of the shapes ignore
  the color they are given (`shapes.h:71` takes `jiffies % 256`), and a black piece is invisible to the check.

Further observations, which the models contain and no run of their own is spent on:

* `move()` says "collision check, if valid, move shape" (`tetris.h:219`), but the moves to the sides and the rotation are under `if (true)`, and
  `offset()` and `plot()` check nothing. Pressed often enough, left or right takes a piece through the lines of the linear buffer and out of its 64000 bytes.
  `OnlySidewaysOut` shows that it takes moves to a side: the two rows below the container are enough for every rotation.
* `Node::read_block` asserts `index < n_sectors / (block_size / 512)` (`ext2.cc:139`). `n_sectors` counts the allocated blocks, and `mkfs.ext2 -d`, which makes
  the disks (`src/Makefile:182`), does not allocate blocks of zeros: the last blocks of such a file panic, though `block_io.h:46` promises
  `min(n,size_in_bytes - offset)` bytes. A block of the hole itself is read from block 0 of the disk. That `mkfs.ext2 -d` leaves blocks of zeros out is taken from its behaviour, not from this repository.
  `TreeIsRead` leaves the data of files with holes out; the disks of `boot` have one.
* `Node::find` takes unused directory entries, with i-number 0, for entries, and the last entry of a name counts (`ext2.cc:160-170`): `find` returns null
  for a name that is in the directory, against `ext2.h:270-275`, if an unused entry behind it has the same name. `TreeIsRead` leaves out trees with such entries, and only those.
* `keyboard.cc:74` says "overwrite buffer if full". On a full ring `head = nhead` makes `head` equal to `tail`, which means
  empty: all characters are lost, the new one included. `KeyQueue` has that as its step `Overrun`.
* `tetris.h:256` promises a drop "between every GT number of jiffies". When `time_drop` wraps before `jiffies` does, the piece drops at
  every turn of the loop until `jiffies` wraps too. `EarlyOnlyBeforeWrap` shows there is no other case.
* `close()` lowers the count of a type and `next_dti` uses the count as the next index (`processes.h:265-275`, `316`): after closing any
  but the last descriptor the next one overwrites one in use, and the last one can no longer be closed. A child inherits descriptors but not counts (`processes.cc:23`), with the
  same effect; and the counts start from whatever the heap held (`processes.h:212`). `DescriptorsKept` shows that these are the only cases.
* `next_dti` returns -1 as a `uint32_t`, so `dti >= 0` and `child_pid < 0` are what they are for every value: a full table is written outside its
  bounds, and `fork()` with a full table makes the child all the same.
* `fork()` reads the PCB from the child's TCB after it has scheduled the child (`threads.h:204`).
* `exit()` never drops its reference to the PCB (`sys.cc:22-25`): PCBs and what they refer to are never deleted, and nor does `~PCB` run, which
  would use `delete[]` on single objects. The pages of a process that ends are not given back (`vmm.cc:63-69`).
* `exec()` wipes the memory of the program before it looks for the file, and returns -1 into it.
* A `read()` beyond the end of a file returns -1 as an unsigned number, which is not `< 0`: the offset goes back by one.
* `configInit` skips the first entry of the processor table and looks at one beyond the end (`config.cc:149-156`).
* The boot waits for an answer of a second PS/2 device even if there is none (`keyboard.h:156`), and reads one byte too few from a mouse.
* `SMP::init` and `openIRQ` of different cores can be in the IO-APIC at once, without a lock (`config.cc:177-216`).
* Offsets on a disk are `uint32_t` (`ext2.cc:105`, `149`, `156`): beyond 4 GB the wrong place is read. The disks here have 10 MB; `DisksAssumption` leaves larger ones than 4 GB out.
* `read_all` beyond the end gives 0 and not -1 if nothing was asked for (`block_io.cc:35-47`); the contract is in `block_io.h:46-52`.
* `unmap`, `SpinLock`, `get_symbol` and `fake_keyboard_input` are called by nobody; `find` does not follow symbolic links; `setMask` also clears bits
  24 to 31 (`config.h:58`), which are reserved.

And: `yield()` that finds nobody to
switch to returns with `no_preempt` set (`threads.h:105`), so that the timer leaves that thread alone until it
next blocks; `ReadyRunsOrOutOfReach` says that this is the only source of starvation. It reaches further than the one core: with five threads
the heap lock can be handed to a thread that is only made ready and then never runs, and whoever waits behind it waits for ever (`HeapLockIsGranted`). `sleep` waits for
`jiffies != end` to fail: a thread that is preempted for that whole jiffy sleeps for 2^32 more. No row is ever
completed (the code for it is commented out).

## 5. What is proved

Each theorem is about `Spec` of its module, for every value of the constants that satisfies the module's assumption: any number of
cores, threads, semaphores, locks, keys, processes and processors, any size of a buffer, any width of a counter, any programs.

| Module | Theorem | Says of `Spec` |
|---|---|---|
| `SemaphoresProofs`, threads | `Invariance` | `[]IInv`, the inductive invariant |
| | `TypeCorrect`, `TimerIsSafe`, `IdleStaysHome`, `OneOwner` | `[]TypeOK`, `[]TimerSafe`, `[]NoHoppingIdle`, `[]ExclusiveOwner` |
| | `StopIsFinal` | `StoppedNeverResumes`, an action property |
| `SemaphoresProofs`, semaphores | `SemInvariance` | `[]SemInv` |
| | `OneOwnerWithWaiters`, `LockIsHandedOver`, `UnitsAreAccounted` | `[]SemExclusiveOwner`, `[]LockCrossesSwitch`, `[]UnitsAccounted` |
| | `AreCountingSemaphores` | `IsCountingSemaphores`: it implements `CountingSemaphores` |
| `LocksProofs` | `LockInvariance` | `[]IInv` |
| | `FlagIsRestored`, `HandlersFindNoLock` | `[]FlagRestored`, `[]NeverInterruptedInside` |
| | `LocksAreMutexes` | `AreMutexes`: it implements `Mutexes` |
| `SyncProofs` | `CondInvariance`, `SignalsAreNotMissed` | `[]CondInv`, `[]NoMissedSignal` |
| | `BufInvariance`, `BufferIsQueue` | `[]BufInv`; `IsBoundedQueue`: it implements `BoundedQueue` |
| | `BarInvariance`, `NobodyIsEarly` | `[]BarInv`, `[]NobodyPassesEarly` |
| | `FutInvariance`, `FutureIsSafe` | `[]FutInv`, `[]FutureSafe` |
| `KeyboardProofs` | `KeyboardInvariance` | `[]KbInv` |
| | `HandlerFollowsKeys` | `[]KeysAreFollowed` |
| | `TheRingIsAQueue` | `RingIsQueue`: it implements `KeyQueue` |
| `GameProofs` | `ClockInvariance`, `SleepsAreLongEnough`, `DropsAreEarlyOnlyBeforeWrap` | `[]ClockInv`, `SleepIsLongEnough`, `EarlyOnlyBeforeWrap` |
| | `TetrisInvariance`, `BufferShowsGame`, `OutOnlySideways` | `[]TetrisInv`, `[]BufferIsGame`, `[]OnlySidewaysOut` |
| `HeapProofs` | `HeapInvariance`, `HeapIsConsistent` | `[]HeapInv`, `[]HeapConsistent` |
| `BootProofs` | `BootInvariance`, `MainIsTheLast`, `KeyboardIsListening` | `[]BootInv`, `[]MainIsLast`, `[]KeyboardListens` |
| | `PS2Invariance`, `ControllerIsReady` | `[]PS2Inv`, `[]ControllerReady` |
| | `ProgramsAreLoaded`, `TreesAreRead` | `[]ProgramIsLoaded`, `[]TreeIsRead`, of `ReadSpec`: the input does not change |
| `ProcessesProofs` | `ProcInvariance`, `SemaphoresOutlive` | `[]ProcInv`, `[]SemaphoreOutlivesUsers` |
| | `DescriptorsStay` | `DescriptorsKept`, an action property |
| | `MemInvariance`, `FramesAreAccounted`, `MemoryStaysPrivate` | `[]MemInv`, `[]FramesAccounted`, `[]MemoryIsPrivate` |

**Assumptions.** They are the `ASSUME`s of the modules, which TLC evaluates in every run. Threads, Semaphores: names are different things,
there is a core, `Main` is a worker, a semaphore starts with at most what bounds it. Locks: each lock is of one kind and has a rank. Keyboard: a ring of
at least two (of one it could hold nothing), a filter between 1 and the wrap of the counts (`Filter` 10, `KeyWrap` 256 in the code), modifiers are no letters, and the mark
of "no character" is none. Clock: waits are shorter than the range of the counter; a `sleep()` so long that it wraps is another computation (`pit.cc:150`). Boot: ids of
processors are numbers, the bootstrap core is 0, and no processor that the table lists has an id above the number of the others, because the loop starts them by number. Processes: finitely many processes, counts that are not negative (they are `uint32_t`), and code and stack of a new program on different pages. Memory: no page and no page table is twice in the layout. Tetris: the shapes are some of the
seven, the container has a second row, the screen holds the first position of a piece and more than two rows of blocks below the container (as in the code: ten lines), and the garbage of the buffer is in the buffer. What a write outside the buffer destroys is outside the theorems, as the model stops there. Heap: at least 8 words, and requests and `CountDown` are positive. Ext2: the program headers are numbers, and a segment has no more bytes
in the file than in memory, nor more than there are (a linker sees to that; `load()` would write behind the segment). The geometries and trees are those that `mke2fs` makes a disk of (`DisksAssumption`): a block is a number of whole sectors and has room for the superblock where that is, an i-node has
room for the numbers of its blocks, a file is not longer than its direct blocks and one indirect block reach (`read_block` panics beyond them), a directory consists of its entries, whose i-numbers exist or are 0, names in use are different, there is a root, holes are blocks of zeros, the disk ends below 2^32 bytes, and no sector has a number of more than 28 bits, which is what the four registers hold. Sync: see below.

**Threads.** `IInv` is `TypeOK`, `BlockInv` and a table. `BlockInv` tells, for each point of `block()`, how `active`,
`running`, `me`, `next` and the flags are related; `TimerSafe` needs all of it, because the flags that keep the timer away at one
point were set two steps before. `ExclusiveOwner` counts places, and a count is awkward to carry through a
step; `OwnInv` says instead that there is a *table*, `kind` and `at`, that gives the one place of each TCB, and that the
queues have no duplicates. A step moves one TCB and changes one entry of the table (`NewTable`).
`JobInv`, over the same table, says that a thread that has called `stop()` is on its way to `zombies` or beyond;
without it a stopped thread could be in the ready queue. `OneOwner` then computes the cardinality from the table.
The lemmas on queues (`RemoveFirst`, `AddLast`) are about `queue.h`. The proof is written for a core with a kind of place more than
`Threads` has, "waits", which is empty there (`CoreInv`), so that `Semaphores` reuses its lemmas and not only its result.

**Semaphores.** `SemInv` adds to `CoreInv`: `LockInv` (a lock is taken exactly while a core carries it through `block()` in `sem[c]`, and one core does),
`WaitInv` (what the table calls waiting is in exactly one waiting queue, and that semaphore has no unit), `HeapInv` (the unit of the heap lock is in its count or
with one thread that is inside), `ThenInv`. The refinement follows step by step: the steps of `block()` stutter, `DownFast`, `HandlerWait`, `UpCount` and `UpWake` are the four steps of the abstract semaphores.

**Locks.** `StackInv`: a core executes its top context, the context below was interrupted with the flag set, hence is in no section that turned it off. `OwnerInv`: a lock is taken exactly if one context
owns it, which it does from the exchange to the store. `WasInv`: the flag that an `InterruptSafeLock` keeps is still the one of the section that stored it, which holds because nobody stores there without owning.

**Sync.** `CondInv` is the argument of `condition.h` made explicit: a thread on its way into the queue remembers an epoch that is not
to come, and if a `notifyAll` reached it, one that is past. `BufInv`: a unit of `nEmpty` or `nFull` is in the count or with one thread until that has given one of the other
kind, the unit of `lock` likewise (`CountInv`); so whoever is inside has room and is alone, and the slot that it found stays the one to fill (`SlotInv`). From there the array
modulo `Room` is shown to be a sequence that grows and shrinks at its ends. `BarInv`: of those that come to a `ReusableBarrier` each has begun as many rounds as there were or one more, and ended no more than
there were, and `rcount` tells how many began one more (`RoundInv`); a `Barrier` lets nobody through before its count is zero (`OnceInv`); everything else turns on the fact that as many come as the barrier was made for.
`FutInv`: the Shareds are made a set of pairs of a thread and a number, `ToDrop` per thread, because the count is then its cardinality and each copy or drop adds or removes one pair; a sum over threads could not be carried along.
`SyncAssumption` restricts programs to what the code asks of its callers: one kind of barrier per program, as many threads at it as it was made for (`barrier.h:22` panics otherwise), at a `Barrier` once;
and `Nothing` is none of the values. `SharedAssumption` is what constructor and destructor of `Shared` do for a variable in C++: a thread has a Shared while it uses the object, and drops each once.

**Keyboard.** `RingInv` relates the two indices, the character that is stored but not counted yet, and the point of `last_press()` at which the game is. Everything in it is conditional on "not overrun since", as `KeyQueue` allows.

**Clock.** `time_drop` and `end` are the jiffy that the waiter is still waiting for, modulo `Wrap`, until the wait is over.

**Boot.** `PhaseInv`: core 0 is in its loop while the others are started one by one, so that those that are active are below `starting`. `CountInv`: `howManyAreHere` is the number of cores that stopped. `IoInv`: as long as no two cores were in the IO-APIC
at once, what each step of a core has in registers and locals.

**Processes.** `RefInv` says that no more descriptors name a semaphore than its count of Shareds; equality fails, because a lost descriptor keeps its Shared. `OrderInv` and `ForkInv` say that the next index of a type, and the one that a `fork()` in progress
has reserved, are free unless descriptors of the type were closed out of order (`disorder`); `DescriptorsKept` follows from them.

**Memory.** `MemInv`: each frame below the high-water mark is in one slot of one address space, once on the free list, or a page of a process that ended (`Account`, over slots and not over frames, so that a step changes one entry);
and each process that runs has a directory, and finds on each of its pages what `view` says, a zero page where there is none yet (`HasMemory`, `Finds`). The loops over pages and tables (`Touch`, `DeepCopy`, `DeletePd`) are folds over `CopyOrder` and `DeleteOrder`:
each keeps a relation between the memory before and after, shown for one slot and carried over the sequence by induction.

**Heap.** `HeapInv`: there is a set of blocks that tiles the array (`Tiling`) and an order of the available ones that the list follows both ways (`Order`). Both are witnesses of an existential, because a split or a join changes one block of the set and one or two places of the order,
while a definition by walking along the array would change everywhere. `free()` has four cases, by which neighbours are available, and `malloc()` two, with and without a rest.

**Tetris.** `TetrisInv`: a piece is drawn exactly where it is, or black; everything in the buffer is garbage or painted by a piece; and a piece is at most so low that the rotations that nobody checks stay in the buffer (`PlaceInv`), which turns on the fact that each of the seven shapes, in each orientation,
has a block below its first row. Nothing in it is about columns: the arguments are about sets of units, and hold where a piece is in two lines at once. `OutOnlySideways` adds that a piece on the screen that is not too low is in the buffer.

**PS/2.** `PS2Inv` has a row for each of the 28 accesses of the constructor: what is under way, in the controller and in both devices, when it comes to that access.

**Reading.** What a recursive function computes is proved in two steps: the intended result, as a function, satisfies the recursive equation, so that the function that `CHOOSE` takes does so too; and two solutions agree, by induction (`Alike`). That is how `ReadAllGives` shows that `read_all` gives what the
blocks hold (`Stores`), wherever it begins and ends in them, and `Loads` that `load()` after n headers has built `MemoryAfter(n)`. `Flattened` says where in a file the sequences are that it is made of.

**Disks.** `Owner` computes, from the number of a cell, the one piece of the layout that the cell can belong to: by the block, then by the group or the i-node, with the quotients and remainders of the five sizes. Each piece lies in the disk and owns its cells (`PiecesLie`, from `GroupsLie`, `NodesLie`, `BlockOwner`), so no two pieces overlap, and
the disk has the cells of every piece where that is (`DiskIs`). The sectors are the disk again, because no number of a sector is cut off (`IdeStores`). `Mounted`, `BlockFound` and `NodeGot` follow the code from the superblock to the group table, the i-node and its direct and indirect blocks; they end with `Stores`, of an i-node and the data of its file,
so that `ReadAllGives` applies a second time (`FilesReadBack`). On the way every assertion of `get_node` and `read_block` is shown to hold: `SectorsSuffice` is about `n_sectors`, which counts the blocks of a file without holes and the indirect one. No offset wraps, because every piece ends before the disk does (`PieceFits`).
In a directory the next entry begins where `Flattened` says that the one before ends (`EntriesFollow`), so that `find` sees all entries and takes the last of the name (`FindEntryIs`), which is the one in use unless it is hidden (`InDirFollows`); `PathResolves` then goes along a path, name by name.

**Induction.** The induction theorems of the library take an operator as a parameter and cannot be cited. `LeastElement` (a set of numbers that is not empty has a least one) follows from the well-foundedness of the numbers, of which the library has a form about relations; `SetInduction` and `Alike` follow from it.

**Only model-checked**, and why:

* Liveness (`BootEnds`, `AllReturn`, `HeapLockIsGranted`, `ReadyRunsOrOutOfReach`, `StoppedIsFreed`, `WaiterTakesInterrupts`, `DropsKeepComing`, `PiecesSettle`): fairness and ENABLED are out of reach of the prover.

## 6. Plan, and what is not modelled

All modules of the plan are written, and every safety property that a passing run checks is proved.

Left out of the models, and therefore of what is shown: scan codes of keys that are pressed while the PS/2 controller is set up, which the constructor would take for answers (`keyboard.h:118`);
processors that the table lists as disabled, which `configInit` counts like the others; the accesses to the IO-APIC of two cores between each other's two steps (`overlap`), after which nothing is claimed of the keyboard's entry; what a write outside
the buffer of the game destroys; and what is read of a file with holes, of which nothing is claimed (section 4).

Not modelled: the boot sector, the search for the ACPI tables, descriptor tables and start-up code (sequential hardware set-up); the
status polling of the IDE driver, which panics or waits and keeps no state; fonts, formatted output and the serial port (no state anybody reads
back); the identity map of `VMM::global_init` and the TLB; `len`, `write` and `shutdown`, which change nothing of a process; how
`setup_exec_stack` lays out arguments; the user programs, which the kernel does not start, and whose library is pure functions.
