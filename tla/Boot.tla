-------------------------------- MODULE Boot --------------------------------
(***************************************************************************)
(* The start of all cores: kernelInit (init.cc) with configInit and the    *)
(* IO-APIC accesses of config.cc, SMP::init, and the timer of pit.cc. The  *)
(* first core sets everything up, then starts the others one at a time.    *)
(* Every core then masks the keyboard's redirection entry in SMP::init and *)
(* opens it at the end: a read, a change and a write back of two registers *)
(* through one shared index register, without a lock.                      *)
(*                                                                         *)
(* Memory, paging and thread set-up come before another core runs and are  *)
(* one step, Prepare; the modules Memory and Threads begin where it ends.  *)
(***************************************************************************)
EXTENDS PS2

CONSTANTS Cores,   \* the cores there are: 0, the first one, to the last
          Tables,  \* MADTs: sequences of [type, id], and what follows in memory
          Speeds,  \* what the calibration of the APIT may count in a second
          Hz

ASSUME BootAssumption == 0 \in Cores /\ Hz \in Nat \ {0} /\ Speeds \subseteq Nat

VARIABLES table,              \* the MADT of this machine
          totalProcs, apitCounter,
          at,                 \* core -> [phase, step] of kernelInit
          starting,           \* the id of the loop that starts the others
          running, howManyAreHere,
          index, entry,       \* IOREGSEL; registers 0x12 and 0x13
          re,                 \* core -> its RedirectionEntry, <<lower, upper>>
          main,               \* how often the main thread was created
          overlap             \* history: two cores were in the IO-APIC at once

ioapic == <<index, entry, re, overlap>>
bootVars == <<ps2Vars, table, totalProcs, apitCounter, at, starting, running, howManyAreHere,
              ioapic, main>>

Processor(id) == [type |-> 0, id |-> id]
\* The two fields of a register that matter.
Register(vector, mask) == [vector |-> vector, mask |-> mask]
Unknown == <<Register(0, 0), Register(0, 0)>>

Init ==
  /\ PS2Init
  /\ table \in Tables /\ totalProcs = 0 /\ apitCounter = 0
  /\ at = [c \in Cores |-> [phase |-> IF c = 0 THEN "prepare" ELSE "off", step |-> 0]]
  /\ starting = 0 /\ running = 0 /\ howManyAreHere = 0
  /\ index = 0 /\ entry = <<Register(0, 1), Register(0, 0)>>
  /\ re = [c \in Cores |-> Unknown]
  /\ main = 0 /\ overlap = FALSE

In(c, phase) == at[c].phase = phase
Goto(c, phase) == at' = [at EXCEPT ![c] = [phase |-> phase, step |-> 0]]
----------------------------------------------------------------------------
\* configInit: the loop moves on before it looks, so that it skips the first
\* entry and examines what follows the last one.
Examined(t) == Append(Tail(t.entries), t.after)
OtherProcs(t) == {i \in DOMAIN Examined(t) : Examined(t)[i].type = 0 /\ Examined(t)[i].id # 0}

\* All of kernelInit up to SMP::init.
Prepare(c) ==
  /\ In(c, "prepare") /\ Goto(c, "mask")
  /\ totalProcs' = Cardinality(OtherProcs(table)) + 1
  /\ UNCHANGED <<ps2Vars, table, apitCounter, starting, running, howManyAreHere, ioapic, main>>

\* The accesses of getRedirectionEntry and writeRedirectionEntry in a row: the
\* even steps select a register, the odd ones read or write it.
Accessing(c) == In(c, "mask") \/ In(c, "open")
Inside(c) == Accessing(c) /\ at[c].step > 0
\* What SMP::init and openIRQ make of the lower register.
Changed(c, r) == IF In(c, "mask") THEN Register(9, 1) ELSE [r EXCEPT !.mask = 0]

\* Once two cores were inside at once, the registers may hold anything.
Registers(c, s, half) ==
  \/ overlap' /\ index' = 0 /\ entry' = Unknown /\ re' = [d \in Cores |-> Unknown]
  \/ ~overlap' /\ s \in {0, 2, 4, 6} /\ index' = half /\ UNCHANGED <<entry, re>>
  \/ ~overlap' /\ s \in {1, 3} /\ re' = [re EXCEPT ![c][half] = entry[index]]
     /\ UNCHANGED <<index, entry>>
  \/ ~overlap' /\ s \in {5, 7} /\ UNCHANGED index
     /\ entry' = [entry EXCEPT ![index] = IF s = 5 THEN Changed(c, re[c][1]) ELSE re[c][2]]
     /\ re' = IF s = 5 THEN re ELSE [re EXCEPT ![c] = Unknown]

Access(c, after) ==
  LET s == at[c].step IN
  /\ overlap' = (overlap \/ \E d \in Cores \ {c} : Inside(d))
  /\ IF s = 7 THEN Goto(c, after) ELSE at' = [at EXCEPT ![c].step = s + 1]
  /\ Registers(c, s, IF s \in {0, 1, 4, 5} THEN 1 ELSE 2)

\* SMP::init, then for the first core the PS/2 controller.
MaskKeyboard(c) ==
  /\ In(c, "mask") /\ Access(c, IF c = 0 THEN "ps2" ELSE "timer")
  /\ UNCHANGED <<ps2Vars, table, totalProcs, apitCounter, starting, running, howManyAreHere, main>>

\* new PS2Controller(), with closeIRQ(1) for an entry that is closed.
Keyboard(c) ==
  /\ In(c, "ps2")
  /\ IF Constructed THEN Goto(c, "calibrate") /\ UNCHANGED ps2Vars ELSE Construct /\ UNCHANGED at
  /\ UNCHANGED <<table, totalProcs, apitCounter, starting, running, howManyAreHere, ioapic, main>>

\* Pit::calibrate, and the first core counts itself.
Calibrate(c) ==
  /\ In(c, "calibrate") /\ Goto(c, "start")
  /\ \E diff \in Speeds : apitCounter' = diff \div Hz
  /\ running' = running + 1 /\ starting' = 1
  /\ UNCHANGED <<ps2Vars, table, totalProcs, howManyAreHere, ioapic, main>>

\* The loop that starts the others: two IPIs, then wait for running.
StartAndWait(c, more) ==
  /\ In(c, "start")
  /\ UNCHANGED <<ps2Vars, table, totalProcs, apitCounter, running, howManyAreHere, ioapic, main>>
  /\ IF starting >= totalProcs THEN Goto(c, "timer") /\ UNCHANGED starting
     ELSE \/ at[c].step = 0 /\ UNCHANGED starting
             /\ at' = [d \in Cores |-> IF d = starting THEN [phase |-> "arrive", step |-> 0]
                                       ELSE IF d = c THEN [at[c] EXCEPT !.step = 1] ELSE at[d]]
          \/ at[c].step = 1 /\ running > starting + more
             /\ starting' = starting + 1 /\ Goto(c, "start")

\* Variant with a bug: the wait is for one core too many.
StartNextOffByOne(c) == StartAndWait(c, 1)

StartNext(c) == StartAndWait(c, 0)

\* A started core counts itself first, and then initialises.
Arrive(c) ==
  /\ In(c, "arrive") /\ Goto(c, "mask") /\ running' = running + 1
  /\ UNCHANGED <<ps2Vars, table, totalProcs, apitCounter, starting, howManyAreHere, ioapic, main>>

\* VMM::per_core_init, Pit::init, which panics without a calibration, and sti.
StartTimer(c) ==
  /\ In(c, "timer") /\ Goto(c, IF apitCounter = 0 THEN "panic" ELSE "open")
  /\ UNCHANGED <<ps2Vars, table, totalProcs, apitCounter, starting, running, howManyAreHere, ioapic, main>>

\* Variant with a bug: only the first core opens the interrupt.
OpenKeyboardOnce(c) ==
  /\ In(c, "open")
  /\ IF c = 0 THEN Access(c, "count") ELSE Goto(c, "count") /\ UNCHANGED ioapic
  /\ UNCHANGED <<ps2Vars, table, totalProcs, apitCounter, starting, running, howManyAreHere, main>>

\* openIRQ(1).
OpenKeyboard(c) ==
  /\ In(c, "open") /\ Access(c, "count")
  /\ UNCHANGED <<ps2Vars, table, totalProcs, apitCounter, starting, running, howManyAreHere, main>>

\* Variant with a bug: the count is read again after it was raised.
CountHereTwice(c) ==
  /\ \/ In(c, "count") /\ howManyAreHere' = howManyAreHere + 1 /\ Goto(c, "compare") /\ UNCHANGED main
     \/ In(c, "compare") /\ Goto(c, "stop") /\ UNCHANGED howManyAreHere
        /\ main' = IF howManyAreHere = totalProcs THEN main + 1 ELSE main
  /\ UNCHANGED <<ps2Vars, table, totalProcs, apitCounter, starting, running, ioapic>>

\* add_fetch: the last one creates the main thread. Then stop().
CountHere(c) ==
  /\ In(c, "count") /\ Goto(c, "stop")
  /\ howManyAreHere' = howManyAreHere + 1
  /\ main' = IF howManyAreHere' = totalProcs THEN main + 1 ELSE main
  /\ UNCHANGED <<ps2Vars, table, totalProcs, apitCounter, starting, running, ioapic>>

\* After a command that was lost anything may happen, and the model stops.
Core(c) ==
  /\ ~lost
  /\ \/ Prepare(c) \/ MaskKeyboard(c) \/ Keyboard(c) \/ Calibrate(c) \/ StartNext(c)
     \/ Arrive(c) \/ StartTimer(c) \/ OpenKeyboard(c) \/ CountHere(c)

External ==
  ~lost /\ Device /\ UNCHANGED <<table, totalProcs, apitCounter, at, starting, running, howManyAreHere,
                        ioapic, main>>

Next == External \/ \E c \in Cores : Core(c)

\* Cores run, and the controller and its devices answer in the end.
Fairness == WF_bootVars(External) /\ \A c \in Cores : WF_bootVars(Core(c))

Spec == Init /\ [][Next]_bootVars /\ Fairness
----------------------------------------------------------------------------
\* The processors that the table lists, in any place.
Listed(t) == {t.entries[i].id : i \in {j \in DOMAIN t.entries : t.entries[j].type = 0}}

\* Processors have the ids from 0 on, which index the arrays of the kernel; the
\* one that the loop skips is the first.
ASSUME TablesAssumption ==
  \A t \in Tables :
    /\ t.entries \in Seq([type : Nat, id : Nat]) /\ t.entries # << >>
    /\ t.after \in [type : Nat, id : Nat]
    /\ Listed(t) \subseteq 0..Cardinality(OtherProcs(t))

\* What follows the table in memory looks like a processor.
Phantom == table.after.type = 0 /\ table.after.id # 0

\* The main thread is created once, by the last core, when every processor that
\* the table lists is through its initialisation (init.cc:162-169).
MainIsLast ==
  main > 0 => main = 1 /\ \A c \in Listed(table) : In(c, "stop")

\* "keyboard now listening" (init.cc:162): when all cores are through, the
\* entry of the keyboard is open with its vector, whatever the order in which the
\* cores masked and opened it, unless two of them were in the IO-APIC at the same
\* time, between the select of a register and its use (config.cc:177-216).
KeyboardListens ==
  main > 0 /\ ~overlap => entry = <<Register(9, 0), Register(0, 0)>>

\* The kernel comes up, unless a command was lost on the PS/2 controller, there is
\* no second PS/2 device, whose answer the constructor awaits in any case
\* (keyboard.h:156-164), the timer counts too slowly (pit.cc:120-122), or what follows
\* the table looks like one more processor (config.cc:149-156).
BootEnds == <>(main = 1 \/ lost \/ ~mouse \/ (apitCounter = 0 /\ running > 0) \/ Phantom)
=============================================================================
