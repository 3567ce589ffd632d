------------------------------ MODULE Keyboard ------------------------------
(***************************************************************************)
(* The keyboard driver (keyboard.h, keyboard.cc): the interrupt handler    *)
(* turns scan codes into characters and puts them in a ring, from which    *)
(* the game takes them with last_press(), on the same core or on another   *)
(* one. No lock protects the ring.                                         *)
(*                                                                         *)
(* A scan code is the key it belongs to; the character of a key is the     *)
(* pair of the key and of the table it is looked up in. What display_()    *)
(* shows of all this on the screen is left out.                            *)
(***************************************************************************)
EXTENDS Naturals, Sequences, FiniteSets

CONSTANTS
  Letters,                     \* keys that have a character
  LSHIFT, RSHIFT, CTRL, CAPS,  \* keys that have none
  BUFF_LEN,                    \* length of the ring (128)
  Filter, KeyWrap,             \* 10, and 2^8: the range of an element of keys[]
  MaxDown,                     \* bound: keys that are down at a time
  NONE                         \* the 0 that last_press returns on an empty ring

Keys == Letters \cup {LSHIFT, RSHIFT, CTRL, CAPS}
Shifts == {LSHIFT, RSHIFT}
Chars == Letters \X BOOLEAN
Slots == 0..(BUFF_LEN - 1)

ASSUME KeyboardAssumption ==
  /\ BUFF_LEN \in Nat /\ BUFF_LEN > 1
  /\ Filter \in Nat /\ KeyWrap \in Nat /\ 1 < Filter /\ Filter < KeyWrap
  /\ MaxDown \in Nat
  /\ Letters \cap {LSHIFT, RSHIFT, CTRL, CAPS} = {} /\ NONE \notin Chars \cup Keys

VARIABLES
  head, tail, kb_queue,  \* the ring
  keys,                  \* how often the code of a key came since it went down
  shift, ctrl, caps,     \* Keyboard::shift as the set of its bits, ctrl and caps
  writes,                \* the character handle_interrupt has stored, but head
                         \* does not count yet; NONE otherwise
  reads,                 \* how far the game is in last_press()
  c_tail,                \* its local variable
  down, repeats,         \* the keys that are down, the one that repeats or NONE
  overrun                \* history: a character was stored in a full ring

ring == <<head, tail, kb_queue>>
modifiers == <<shift, ctrl, caps>>
reader == <<reads, c_tail>>
kbVars == <<ring, keys, modifiers, writes, reader, down, repeats, overrun>>

KbTypeOK ==
  /\ head \in Slots /\ tail \in Slots /\ c_tail \in Slots
  /\ kb_queue \in [Slots -> Chars \cup {NONE}]
  /\ keys \in [Keys -> 0..(KeyWrap - 1)]
  /\ shift \in SUBSET Shifts /\ ctrl \in BOOLEAN /\ caps \in BOOLEAN
  /\ writes \in Chars \cup {NONE}
  /\ reads \in {"out", "tested", "moved"}
  /\ down \in SUBSET Keys /\ repeats \in down \cup {NONE}
  /\ overrun \in BOOLEAN

Init ==
  /\ head = 0 /\ tail = 0 /\ c_tail = 0
  /\ kb_queue = [i \in Slots |-> NONE]
  /\ keys = [k \in Keys |-> 0]
  /\ shift = {} /\ ctrl = FALSE /\ caps = FALSE
  /\ writes = NONE /\ reads = "out"
  /\ down = {} /\ repeats = NONE
  /\ overrun = FALSE

\* The index of the next slot.
After(i) == (i + 1) % BUFF_LEN

-----------------------------------------------------------------------------
(***************************************************************************)
(* handle_interrupt(). The last two lines of a key that has a character    *)
(* store it and then move head: last_press() on another core can run in    *)
(* between. Until the handler ends with the EOI no other code comes.       *)
(***************************************************************************)
Ignored(k) == 0 < keys[k] /\ keys[k] < Filter
Counted(k) == keys' = [keys EXCEPT ![k] = (@ + 1) % KeyWrap]

\* The upper table: shift or caps lock, but not both.
Upper == (shift # {}) # caps

\* The code of a key that is known to be down.
MakeIgnored(k) ==
  Ignored(k) /\ Counted(k) /\ UNCHANGED <<ring, modifiers, writes, overrun>>

MakeModifier(k) ==
  /\ ~Ignored(k) /\ k \notin Letters /\ Counted(k)
  /\ shift' = shift \cup ({k} \cap Shifts)
  /\ ctrl' = (ctrl \/ k = CTRL)
  /\ caps' = (caps # (k = CAPS))
  /\ UNCHANGED <<ring, writes, overrun>>

MakeLetter(k) ==
  /\ ~Ignored(k) /\ k \in Letters /\ Counted(k)
  /\ kb_queue' = [kb_queue EXCEPT ![head] = <<k, Upper>>]
  /\ writes' = <<k, Upper>>
  /\ overrun' = (overrun \/ After(head) = tail)
  /\ UNCHANGED <<head, tail, modifiers>>

Make(k) == MakeIgnored(k) \/ MakeModifier(k) \/ MakeLetter(k)

\* head = nhead. On a full ring this makes it look empty.
Publish ==
  /\ writes # NONE
  /\ head' = After(head)
  /\ writes' = NONE
  /\ UNCHANGED <<tail, kb_queue, keys, modifiers, reader, down, repeats, overrun>>

\* Variant with a bug: a shift key that is released clears both.
BreakBothShifts(k) ==
  /\ shift' = IF k \in Shifts THEN {} ELSE shift
  /\ ctrl' = (ctrl /\ k # CTRL)
  /\ keys' = [keys EXCEPT ![k] = 0]
  /\ UNCHANGED <<ring, caps, writes, overrun>>

\* The code of a key that is released.
Break(k) ==
  /\ shift' = shift \ {k}
  /\ ctrl' = (ctrl /\ k # CTRL)
  /\ keys' = [keys EXCEPT ![k] = 0]
  /\ UNCHANGED <<ring, caps, writes, overrun>>

-----------------------------------------------------------------------------
(***************************************************************************)
(* The device: a key goes down, the last one that did repeats its code for *)
(* as long as it is down, a key goes up.                                   *)
(***************************************************************************)
Press(k) ==
  /\ writes = NONE /\ k \in Keys \ down /\ Cardinality(down) < MaxDown
  /\ down' = down \cup {k} /\ repeats' = k
  /\ Make(k) /\ UNCHANGED reader

Repeat(k) ==
  writes = NONE /\ repeats = k /\ Make(k) /\ UNCHANGED <<reader, down, repeats>>

Release(k) ==
  /\ writes = NONE /\ k \in down
  /\ down' = down \ {k}
  /\ repeats' = IF repeats = k THEN NONE ELSE repeats
  /\ Break(k) /\ UNCHANGED reader

(***************************************************************************)
(* last_press(): the test, the two lines that move tail, and the read of   *)
(* the slot. (On an empty ring it returns 0 and nothing changes.)          *)
(***************************************************************************)
\* Variant with a bug: no test.
LastPressUntested ==
  /\ reads = "out"
  /\ reads' = "tested"
  /\ UNCHANGED <<ring, keys, modifiers, writes, c_tail, down, repeats, overrun>>

LastPressTest ==
  /\ reads = "out" /\ tail # head
  /\ reads' = "tested"
  /\ UNCHANGED <<ring, keys, modifiers, writes, c_tail, down, repeats, overrun>>

LastPressMove ==
  /\ reads = "tested"
  /\ c_tail' = tail /\ tail' = After(tail)
  /\ reads' = "moved"
  /\ UNCHANGED <<head, kb_queue, keys, modifiers, writes, down, repeats, overrun>>

\* return kb_queue[c_tail]
LastPressReturn ==
  /\ reads = "moved"
  /\ reads' = "out" /\ c_tail' = 0
  /\ UNCHANGED <<ring, keys, modifiers, writes, down, repeats, overrun>>

Next ==
  \/ \E k \in Keys : Press(k) \/ Repeat(k) \/ Release(k)
  \/ Publish \/ LastPressTest \/ LastPressMove \/ LastPressReturn

KbSpec == Init /\ [][Next]_kbVars
-----------------------------------------------------------------------------
(***************************************************************************)
(* Properties.                                                             *)
(***************************************************************************)

\* shift and ctrl say which keys are down, whatever order the two shifts are
\* pressed, repeated and released in (keyboard.cc:79-96 and 105-113); and every
\* index and count stays in its range.
ModifiersFollowKeys ==
  KbTypeOK /\ shift = down \cap Shifts /\ (ctrl <=> CTRL \in down)

\* The repeat filter only ever swallows repeats: a key that is up has no count
\* left from before, so that its next press is never ignored (keyboard.cc:98).
PressIsNeverIgnored == \A k \in Keys \ down : keys[k] = 0

\* After any presses, repeats and releases, in any order, what the handler remembers
\* of the keys agrees with the keys themselves (keyboard.cc:73-138).
KeysAreFollowed == ModifiersFollowKeys /\ PressIsNeverIgnored

\* The ring is a queue as long as it is not overrun, even though head and tail
\* are moved without a lock (keyboard.cc last_press and handle_interrupt).
Kept == (head + BUFF_LEN - tail) % BUFF_LEN
Contents == [i \in 1..Kept |-> kb_queue[(tail + i - 1) % BUFF_LEN]]

Ring == INSTANCE KeyQueue WITH
  Room <- BUFF_LEN - 1, Nothing <- NONE,
  pending <- IF overrun THEN << >> ELSE Contents,
  taken <- IF overrun \/ reads # "moved" THEN NONE ELSE kb_queue[c_tail],
  overrun <- overrun

RingIsQueue == Ring!Spec
=============================================================================
