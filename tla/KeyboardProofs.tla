--------------------------- MODULE KeyboardProofs ---------------------------
(***************************************************************************)
(* Proofs about Keyboard, for any set of keys, any length of the ring and  *)
(* any range of the counts.                                                *)
(***************************************************************************)
EXTENDS Keyboard, TLAPS

-----------------------------------------------------------------------------
(***************************************************************************)
(* Indices of the ring: h is a head, t a tail.                             *)
(***************************************************************************)
Full(h, t) == After(h) = t
InRing(h, t) == (h + BUFF_LEN - t) % BUFF_LEN
SlotOf(t, i) == (t + i - 1) % BUFF_LEN

\* x % n for an x that is less than two times n.
LEMMA Mod ==
  ASSUME NEW n \in Nat, n > 0, NEW x \in Nat, x < n + n
  PROVE  x % n = IF x < n THEN x ELSE x - n
<1>1. CASE x < n
  BY <1>1
<1>2. CASE ~(x < n)
  BY <1>2
<1> QED
  BY <1>1, <1>2

\* The slot after the last is the first.
LEMMA AfterIs ==
  ASSUME NEW h \in Slots
  PROVE  After(h) = IF h = BUFF_LEN - 1 THEN 0 ELSE h + 1
<1>1. h + 1 \in Nat /\ h + 1 < BUFF_LEN + BUFF_LEN /\ BUFF_LEN \in Nat /\ BUFF_LEN > 0
  BY KeyboardAssumption DEF Slots
<1>2. After(h) = IF h + 1 < BUFF_LEN THEN h + 1 ELSE h + 1 - BUFF_LEN
  BY <1>1, Mod DEF After, Slots
<1> QED
  BY <1>1, <1>2 DEF Slots

\* How many characters the ring keeps.
LEMMA InRingIs ==
  ASSUME NEW h \in Slots, NEW t \in Slots
  PROVE  InRing(h, t) = IF t <= h THEN h - t ELSE h + BUFF_LEN - t
<1>1. h + BUFF_LEN - t \in Nat /\ h + BUFF_LEN - t < BUFF_LEN + BUFF_LEN /\ BUFF_LEN \in Nat /\ BUFF_LEN > 0
  BY KeyboardAssumption DEF Slots
<1>2. InRing(h, t) = IF h + BUFF_LEN - t < BUFF_LEN THEN h + BUFF_LEN - t
                     ELSE h + BUFF_LEN - t - BUFF_LEN
  BY <1>1, Mod DEF InRing, Slots
<1> QED
  BY <1>1, <1>2 DEF Slots

\* Where the i-th of them is.
LEMMA SlotIs ==
  ASSUME NEW t \in Slots, NEW i \in 1..BUFF_LEN
  PROVE  SlotOf(t, i) = IF t + i - 1 < BUFF_LEN THEN t + i - 1 ELSE t + i - 1 - BUFF_LEN
<1>1. t + i - 1 \in Nat /\ t + i - 1 < BUFF_LEN + BUFF_LEN /\ BUFF_LEN \in Nat /\ BUFF_LEN > 0
  BY KeyboardAssumption DEF Slots
<1> QED
  BY <1>1, Mod DEF SlotOf, Slots

\* The indices stay inside the ring.
LEMMA InSlots ==
  /\ \A h \in Slots : After(h) \in Slots
  /\ \A h, t \in Slots : InRing(h, t) \in 0..(BUFF_LEN - 1)
  /\ \A t \in Slots : \A i \in 1..BUFF_LEN : SlotOf(t, i) \in Slots
<1>0. BUFF_LEN \in Nat /\ BUFF_LEN > 1
  BY KeyboardAssumption
<1>1. ASSUME NEW h \in Slots PROVE After(h) \in Slots
  BY <1>0, AfterIs DEF Slots
<1>2. ASSUME NEW h \in Slots, NEW t \in Slots PROVE InRing(h, t) \in 0..(BUFF_LEN - 1)
  <2>1. InRing(h, t) = IF t <= h THEN h - t ELSE h + BUFF_LEN - t
    BY InRingIs
  <2> QED
    BY <1>0, <2>1 DEF Slots
<1>3. ASSUME NEW t \in Slots, NEW i \in 1..BUFF_LEN PROVE SlotOf(t, i) \in Slots
  BY <1>0, SlotIs DEF Slots
<1> QED
  BY <1>1, <1>2, <1>3

\* Two slots are followed by two.
LEMMA AfterOnce ==
  ASSUME NEW h \in Slots, NEW t \in Slots, After(h) = After(t)
  PROVE  h = t
BY KeyboardAssumption, AfterIs DEF Slots

\* One more character: it is in the slot that head was on, which was not in use.
LEMMA RingGrows ==
  ASSUME NEW h \in Slots, NEW t \in Slots, ~Full(h, t)
  PROVE  /\ InRing(h, t) + 1 \in 1..(BUFF_LEN - 1)
         /\ InRing(After(h), t) = InRing(h, t) + 1
         /\ SlotOf(t, InRing(h, t) + 1) = h
<1>1. After(h) \in Slots /\ InRing(h, t) \in 0..(BUFF_LEN - 1)
  BY InSlots
<1>2. InRing(h, t) = IF t <= h THEN h - t ELSE h + BUFF_LEN - t
  BY InRingIs
<1>3. After(h) = IF h = BUFF_LEN - 1 THEN 0 ELSE h + 1
  BY AfterIs
<1>4. InRing(After(h), t) = IF t <= After(h) THEN After(h) - t ELSE After(h) + BUFF_LEN - t
  BY <1>1, InRingIs
<1>5. InRing(h, t) + 1 \in 1..(BUFF_LEN - 1)
  BY <1>1, <1>2, <1>3, KeyboardAssumption DEF Slots, Full
<1>6. InRing(After(h), t) = InRing(h, t) + 1
  BY <1>1, <1>2, <1>3, <1>4, KeyboardAssumption DEF Slots, Full
<1>7. InRing(h, t) + 1 \in 1..BUFF_LEN
  BY <1>5, KeyboardAssumption
<1>8. SlotOf(t, InRing(h, t) + 1) = h
  <2>1. SlotOf(t, InRing(h, t) + 1) =
          IF t + (InRing(h, t) + 1) - 1 < BUFF_LEN THEN t + (InRing(h, t) + 1) - 1
          ELSE t + (InRing(h, t) + 1) - 1 - BUFF_LEN
    BY <1>7, SlotIs
  <2> QED
    BY <1>1, <1>2, <2>1, KeyboardAssumption DEF Slots
<1> QED
  BY <1>5, <1>6, <1>8

\* The slot that head is on keeps nothing.
LEMMA HeadIsFree ==
  ASSUME NEW h \in Slots, NEW t \in Slots, NEW i \in 1..InRing(h, t)
  PROVE  i \in 1..BUFF_LEN /\ SlotOf(t, i) # h /\ SlotOf(t, i) \in Slots
<1>1. InRing(h, t) \in 0..(BUFF_LEN - 1)
  BY InSlots
<1>2. i \in 1..BUFF_LEN
  BY <1>1, KeyboardAssumption
<1>3. InRing(h, t) = IF t <= h THEN h - t ELSE h + BUFF_LEN - t
  BY InRingIs
<1>4. SlotOf(t, i) = IF t + i - 1 < BUFF_LEN THEN t + i - 1 ELSE t + i - 1 - BUFF_LEN
  BY <1>2, SlotIs
<1> QED
  BY <1>1, <1>2, <1>3, <1>4, InSlots, KeyboardAssumption DEF Slots

\* One less: the others follow.
LEMMA RingShrinks ==
  ASSUME NEW h \in Slots, NEW t \in Slots, h # t
  PROVE  /\ InRing(h, t) \in 1..(BUFF_LEN - 1)
         /\ InRing(h, After(t)) = InRing(h, t) - 1
         /\ SlotOf(t, 1) = t
         /\ \A i \in 1..(InRing(h, t) - 1) : SlotOf(After(t), i) = SlotOf(t, i + 1)
<1>1. /\ After(t) \in Slots /\ BUFF_LEN \in Nat /\ BUFF_LEN > 1
      /\ InRing(h, t) \in 0..(BUFF_LEN - 1)
  BY InSlots, KeyboardAssumption
<1>2. InRing(h, t) = IF t <= h THEN h - t ELSE h + BUFF_LEN - t
  BY InRingIs
<1>3. After(t) = IF t = BUFF_LEN - 1 THEN 0 ELSE t + 1
  BY AfterIs
<1>4. InRing(h, After(t)) = IF After(t) <= h THEN h - After(t) ELSE h + BUFF_LEN - After(t)
  BY <1>1, InRingIs
<1>5. InRing(h, t) \in 1..(BUFF_LEN - 1)
  BY <1>1, <1>2 DEF Slots
<1>6. InRing(h, After(t)) = InRing(h, t) - 1
  BY <1>1, <1>2, <1>3, <1>4 DEF Slots
<1>7. SlotOf(t, 1) = t
  <2>1. 1 \in 1..BUFF_LEN
    BY <1>1
  <2>2. SlotOf(t, 1) = IF t + 1 - 1 < BUFF_LEN THEN t + 1 - 1 ELSE t + 1 - 1 - BUFF_LEN
    BY <2>1, SlotIs
  <2> QED
    BY <1>1, <2>2 DEF Slots
<1>8. ASSUME NEW i \in 1..(InRing(h, t) - 1)
      PROVE  SlotOf(After(t), i) = SlotOf(t, i + 1)
  <2>1. i \in 1..BUFF_LEN /\ i + 1 \in 1..BUFF_LEN
    BY <1>1, <1>5
  <2>2. SlotOf(After(t), i) = IF After(t) + i - 1 < BUFF_LEN THEN After(t) + i - 1
                              ELSE After(t) + i - 1 - BUFF_LEN
    BY <1>1, <2>1, SlotIs
  <2>3. SlotOf(t, i + 1) = IF t + (i + 1) - 1 < BUFF_LEN THEN t + (i + 1) - 1
                           ELSE t + (i + 1) - 1 - BUFF_LEN
    BY <2>1, SlotIs
  <2> QED
    BY <1>1, <1>3, <1>5, <2>1, <2>2, <2>3 DEF Slots
<1> QED
  BY <1>5, <1>6, <1>7, <1>8

\* Empty and full.
LEMMA RingEnds ==
  ASSUME NEW h \in Slots
  PROVE  /\ InRing(h, h) = 0
         /\ InRing(h, After(h)) = BUFF_LEN - 1
<1>1. After(h) \in Slots /\ h \in Slots
  BY InSlots
<1>2. After(h) = IF h = BUFF_LEN - 1 THEN 0 ELSE h + 1
  BY AfterIs
<1>3. InRing(h, h) = IF h <= h THEN h - h ELSE h + BUFF_LEN - h
  BY InRingIs
<1>4. InRing(h, After(h)) = IF After(h) <= h THEN h - After(h) ELSE h + BUFF_LEN - After(h)
  BY <1>1, InRingIs
<1> QED
  BY <1>1, <1>2, <1>3, <1>4, KeyboardAssumption DEF Slots
-----------------------------------------------------------------------------
(***************************************************************************)
(* The inductive invariant.                                                *)
(***************************************************************************)
\* Until it is overrun: what the ring keeps are characters; the one that is being
\* stored has a slot that is free and not the last one; the game has found a
\* character, and the slot it is about to read is the one that tail left.
RingInv ==
  ~overrun =>
    /\ \A i \in 1..InRing(head, tail) : kb_queue[SlotOf(tail, i)] \in Chars
    /\ writes # NONE => kb_queue[head] = writes /\ ~Full(head, tail)
    /\ reads = "tested" => head # tail
    /\ reads = "moved" => After(c_tail) = tail /\ kb_queue[c_tail] \in Chars

KbInv == ModifiersFollowKeys /\ PressIsNeverIgnored /\ RingInv

\* No key is down and the ring is empty at the start.
LEMMA InitKbInv == Init => KbInv
<1> SUFFICES ASSUME Init PROVE KbInv
  OBVIOUS
<1>1. KbTypeOK
  <2>1. 0 \in Slots /\ 0 \in 0..(KeyWrap - 1)
    BY KeyboardAssumption DEF Slots
  <2> QED
    BY <2>1 DEF Init, KbTypeOK
<1>2. InRing(head, tail) = 0
  <2>1. 0 \in Slots /\ head = 0 /\ tail = 0
    BY KeyboardAssumption DEF Init, Slots
  <2> QED
    BY <2>1, RingEnds
<1> QED
  BY <1>1, <1>2 DEF Init, KbInv, ModifiersFollowKeys, PressIsNeverIgnored, RingInv

\* The handler's part in a code of a key that is down: it counts, the modifiers
\* follow, and a ring that is full is noted.
LEMMA MakeKeeps ==
  ASSUME KbInv, NEW k \in Keys, writes = NONE, Make(k), UNCHANGED reader,
         keys[k] = 0 \/ k \in down,
         down' = down \cup {k}, repeats' \in down' \cup {NONE}
  PROVE  KbInv'
<1>0. /\ KbTypeOK /\ RingInv /\ BUFF_LEN \in Nat /\ KeyWrap \in Nat /\ KeyWrap > 0
      /\ NONE \notin Chars /\ Letters \cap {LSHIFT, RSHIFT, CTRL, CAPS} = {}
  BY KeyboardAssumption DEF KbInv, ModifiersFollowKeys
<1>1. /\ keys' \in [Keys -> 0..(KeyWrap - 1)]
      /\ \A r \in Keys : r # k => keys'[r] = keys[r]
      /\ head' = head /\ tail' = tail
  <2>1. keys' = [keys EXCEPT ![k] = (keys[k] + 1) % KeyWrap]
    BY DEF Make, MakeIgnored, MakeModifier, MakeLetter, Counted
  <2>2. (keys[k] + 1) % KeyWrap \in 0..(KeyWrap - 1)
    BY <1>0 DEF KbTypeOK
  <2> QED
    BY <1>0, <2>1, <2>2 DEF Make, MakeIgnored, MakeModifier, MakeLetter, KbTypeOK, ring
<1>2. PressIsNeverIgnored'
  BY <1>1 DEF KbInv, PressIsNeverIgnored
<1>3. CASE MakeIgnored(k)
  <2>1. k \in down /\ UNCHANGED <<ring, modifiers, writes, overrun, down>>
    BY <1>0, <1>3 DEF MakeIgnored, Ignored, KbTypeOK
  <2>2. UNCHANGED <<head, tail, kb_queue, shift, ctrl, caps, writes, overrun, down, reads, c_tail>>
    BY <2>1 DEF ring, modifiers, reader
  <2>3. ModifiersFollowKeys'
    BY <1>0, <1>1, <2>2 DEF ModifiersFollowKeys, KbInv, KbTypeOK
  <2>4. RingInv'
    BY <1>0, <2>2 DEF RingInv
  <2> QED
    BY <1>2, <2>3, <2>4 DEF KbInv
<1>4. CASE MakeModifier(k)
  <2>1. /\ UNCHANGED <<head, tail, kb_queue, writes, overrun, reads, c_tail>>
        /\ shift' = shift \cup ({k} \cap Shifts) /\ ctrl' = (ctrl \/ k = CTRL)
        /\ caps' = (caps # (k = CAPS))
    BY <1>4 DEF MakeModifier, ring, reader
  <2>2. KbTypeOK'
    <3>1. shift' \in SUBSET Shifts /\ ctrl' \in BOOLEAN /\ caps' \in BOOLEAN
      BY <1>0, <2>1 DEF KbTypeOK
    <3> QED
      BY <1>0, <1>1, <2>1, <3>1 DEF KbTypeOK
  <2>3. shift' = down' \cap Shifts
    BY <2>1 DEF KbInv, ModifiersFollowKeys
  <2>4. ctrl' <=> CTRL \in down'
    BY <2>1 DEF KbInv, ModifiersFollowKeys
  <2>5. RingInv'
    BY <1>0, <2>1 DEF RingInv
  <2> QED
    BY <1>2, <2>2, <2>3, <2>4, <2>5 DEF KbInv, ModifiersFollowKeys
<1>5. CASE MakeLetter(k)
  <2> DEFINE ch == <<k, Upper>>
  <2>1. /\ UNCHANGED <<head, tail, shift, ctrl, caps, reads, c_tail>>
        /\ kb_queue' = [kb_queue EXCEPT ![head] = ch] /\ writes' = ch
        /\ overrun' = (overrun \/ Full(head, tail))
        /\ ch \in Chars /\ k \in Letters
    BY <1>5 DEF MakeLetter, modifiers, reader, Chars, Upper, Full
  <2> HIDE DEF ch
  <2>2. KbTypeOK'
    <3>1. kb_queue' \in [Slots -> Chars \cup {NONE}] /\ overrun' \in BOOLEAN
      BY <1>0, <2>1 DEF KbTypeOK
    <3> QED
      BY <1>0, <1>1, <2>1, <3>1 DEF KbTypeOK
  <2>3. shift' = down' \cap Shifts /\ (ctrl' <=> CTRL \in down')
    BY <1>0, <2>1 DEF KbInv, ModifiersFollowKeys, Shifts
  <2>4. RingInv'
    <3> SUFFICES ASSUME ~overrun, ~Full(head, tail)
                 PROVE  RingInv'
      BY <2>1 DEF RingInv
    <3>1. /\ head \in Slots /\ tail \in Slots /\ c_tail \in Slots
          /\ kb_queue \in [Slots -> Chars \cup {NONE}]
      BY <1>0 DEF KbTypeOK
    <3>2. ASSUME NEW i \in 1..InRing(head, tail)
          PROVE  kb_queue'[SlotOf(tail, i)] \in Chars
      <4>1. SlotOf(tail, i) # head /\ SlotOf(tail, i) \in Slots
        BY <3>1, HeadIsFree
      <4> QED
        BY <1>0, <2>1, <3>1, <4>1 DEF RingInv
    <3>3. kb_queue'[head] = writes'
      BY <2>1, <3>1
    <3>4. ASSUME reads = "moved"
          PROVE  After(c_tail) = tail /\ kb_queue'[c_tail] \in Chars
      <4>1. After(c_tail) = tail /\ kb_queue[c_tail] \in Chars
        BY <1>0, <3>4 DEF RingInv
      <4>2. c_tail # head
        BY <4>1 DEF Full
      <4> QED
        BY <2>1, <3>1, <4>1, <4>2
    <3> QED
      BY <1>0, <2>1, <3>2, <3>3, <3>4 DEF RingInv, InRing, SlotOf, Full, After
  <2> QED
    BY <1>2, <2>2, <2>3, <2>4 DEF KbInv, ModifiersFollowKeys
<1> QED
  BY <1>3, <1>4, <1>5 DEF Make

\* The handler's part in the code of a key that is released.
LEMMA ReleaseKeeps ==
  ASSUME KbInv, NEW k \in Keys, Release(k)
  PROVE  KbInv' /\ UNCHANGED <<head, tail, kb_queue, overrun, reads, c_tail>>
<1>1. /\ KbTypeOK /\ RingInv /\ KeyWrap \in Nat /\ KeyWrap > 0
  BY KeyboardAssumption DEF KbInv, ModifiersFollowKeys
<1>2. /\ UNCHANGED <<head, tail, kb_queue, writes, overrun, reads, c_tail, caps>>
      /\ shift' = shift \ {k} /\ ctrl' = (ctrl /\ k # CTRL)
      /\ keys' = [keys EXCEPT ![k] = 0]
      /\ down' = down \ {k} /\ repeats' = IF repeats = k THEN NONE ELSE repeats
  BY DEF Release, Break, ring, reader
<1>3. KbTypeOK'
  <2>1. keys' \in [Keys -> 0..(KeyWrap - 1)]
    <3>1. 0 \in 0..(KeyWrap - 1)
      BY <1>1
    <3> QED
      BY <1>1, <1>2, <3>1 DEF KbTypeOK
  <2>2. ctrl' \in BOOLEAN /\ shift' \in SUBSET Shifts
    BY <1>1, <1>2 DEF KbTypeOK
  <2>3. down' \in SUBSET Keys /\ repeats' \in down' \cup {NONE}
    BY <1>1, <1>2 DEF KbTypeOK
  <2> QED
    BY <1>1, <1>2, <2>1, <2>2, <2>3 DEF KbTypeOK
<1>4. shift' = down' \cap Shifts /\ (ctrl' <=> CTRL \in down')
  BY <1>2 DEF KbInv, ModifiersFollowKeys
<1>5. PressIsNeverIgnored'
  BY <1>1, <1>2 DEF KbInv, PressIsNeverIgnored, KbTypeOK
<1>6. RingInv'
  BY <1>1, <1>2 DEF RingInv
<1> QED
  BY <1>2, <1>3, <1>4, <1>5, <1>6 DEF KbInv, ModifiersFollowKeys

\* The steps that only move head or tail, and the return of last_press.
LEMMA RingOnly ==
  ASSUME KbInv, KbTypeOK', UNCHANGED <<keys, modifiers, down>>, RingInv'
  PROVE  KbInv'
BY DEF KbInv, ModifiersFollowKeys, PressIsNeverIgnored, modifiers

\* head = nhead.
LEMMA PublishKeeps ==
  ASSUME KbInv, Publish
  PROVE  KbInv'
<1>1. KbTypeOK /\ RingInv
  BY DEF KbInv, ModifiersFollowKeys
<1>2. /\ head \in Slots /\ tail \in Slots /\ After(head) \in Slots
  BY <1>1, InSlots DEF KbTypeOK
<1>3. /\ head' = After(head) /\ writes # NONE /\ writes' = NONE
      /\ UNCHANGED <<tail, kb_queue, keys, modifiers, reads, c_tail, down, repeats, overrun>>
  BY DEF Publish, reader
<1>4. KbTypeOK'
  BY <1>1, <1>2, <1>3 DEF KbTypeOK, modifiers
<1>5. RingInv'
  <2> SUFFICES ASSUME ~overrun PROVE RingInv'
    BY <1>3 DEF RingInv
  <2>1. kb_queue[head] = writes /\ ~Full(head, tail)
    BY <1>1, <1>3 DEF RingInv
  <2>2. InRing(head', tail') = InRing(head, tail) + 1 /\ InRing(head, tail) \in 0..(BUFF_LEN - 1)
    BY <1>2, <1>3, <2>1, RingGrows, InSlots
  <2>3. ASSUME NEW i \in 1..InRing(head', tail')
        PROVE  kb_queue'[SlotOf(tail', i)] \in Chars
    <3>1. CASE i \in 1..InRing(head, tail)
      BY <1>1, <1>3, <3>1 DEF RingInv
    <3>2. CASE i = InRing(head, tail) + 1
      <4>1. SlotOf(tail, i) = head
        BY <1>2, <2>1, <3>2, RingGrows
      <4> QED
        BY <1>1, <1>3, <2>1, <4>1 DEF KbTypeOK
    <3> QED
      BY <2>2, <2>3, <3>1, <3>2
  <2>4. head' # tail'
    BY <1>3, <2>1 DEF Full
  <2>5. reads' = "moved" => After(c_tail') = tail' /\ kb_queue'[c_tail'] \in Chars
    BY <1>1, <1>3 DEF RingInv
  <2> QED
    BY <1>3, <2>3, <2>4, <2>5 DEF RingInv, InRing, SlotOf, Full, After
<1> QED
  BY <1>3, <1>4, <1>5, RingOnly

\* last_press finds that the ring is not empty.
LEMMA FoundKeeps ==
  ASSUME KbInv, LastPressTest
  PROVE  KbInv'
<1>1. KbTypeOK /\ RingInv
  BY DEF KbInv, ModifiersFollowKeys
<1>2. /\ reads' = "tested" /\ tail # head
      /\ UNCHANGED <<head, tail, kb_queue, keys, modifiers, writes, c_tail, down, repeats, overrun>>
  BY DEF LastPressTest, ring
<1>3. KbTypeOK'
  BY <1>1, <1>2 DEF KbTypeOK, modifiers
<1>4. RingInv'
  BY <1>1, <1>2 DEF RingInv
<1> QED
  BY <1>2, <1>3, <1>4, RingOnly

\* c_tail = tail, and tail moves on.
LEMMA MoveKeeps ==
  ASSUME KbInv, LastPressMove
  PROVE  KbInv'
<1>1. KbTypeOK /\ RingInv
  BY DEF KbInv, ModifiersFollowKeys
<1>2. /\ reads = "tested" /\ reads' = "moved" /\ c_tail' = tail /\ tail' = After(tail)
      /\ UNCHANGED <<head, kb_queue, keys, modifiers, writes, down, repeats, overrun>>
  BY DEF LastPressMove
<1>3. head \in Slots /\ tail \in Slots /\ After(tail) \in Slots
  BY <1>1, InSlots DEF KbTypeOK
<1>4. KbTypeOK'
  BY <1>1, <1>2, <1>3 DEF KbTypeOK, modifiers
<1>5. RingInv'
  <2> SUFFICES ASSUME ~overrun PROVE RingInv'
    BY <1>2 DEF RingInv
  <2>1. head # tail
    BY <1>1, <1>2 DEF RingInv
  <2>2. /\ InRing(head, tail) \in 1..(BUFF_LEN - 1)
        /\ InRing(head', tail') = InRing(head, tail) - 1
        /\ SlotOf(tail, 1) = tail
        /\ \A i \in 1..(InRing(head, tail) - 1) : SlotOf(tail', i) = SlotOf(tail, i + 1)
    BY <1>2, <1>3, <2>1, RingShrinks
  <2>3. ASSUME NEW i \in 1..InRing(head', tail')
        PROVE  kb_queue'[SlotOf(tail', i)] \in Chars
    <3>1. i \in 1..(InRing(head, tail) - 1) /\ i + 1 \in 1..InRing(head, tail)
      BY <2>2, <2>3
    <3>2. SlotOf(tail', i) = SlotOf(tail, i + 1)
      BY <2>2, <3>1
    <3> QED
      BY <1>1, <1>2, <3>1, <3>2 DEF RingInv
  <2>4. kb_queue[tail] \in Chars
    <3>1. 1 \in 1..InRing(head, tail)
      BY <2>2
    <3> QED
      BY <1>1, <2>2, <3>1 DEF RingInv
  <2>5. ~Full(head, tail')
    BY <1>2, <1>3, <2>1, AfterOnce DEF Full
  <2>6. writes # NONE => kb_queue[head] = writes
    BY <1>1 DEF RingInv
  <2> QED
    BY <1>2, <2>3, <2>4, <2>5, <2>6 DEF RingInv, InRing, SlotOf, Full, After
<1> QED
  BY <1>2, <1>4, <1>5, RingOnly

\* return kb_queue[c_tail].
LEMMA ReturnKeeps ==
  ASSUME KbInv, LastPressReturn
  PROVE  KbInv'
<1>1. KbTypeOK /\ RingInv
  BY DEF KbInv, ModifiersFollowKeys
<1>2. /\ reads' = "out" /\ c_tail' = 0
      /\ UNCHANGED <<head, tail, kb_queue, keys, modifiers, writes, down, repeats, overrun>>
  BY DEF LastPressReturn, ring
<1>3. KbTypeOK'
  <2>1. 0 \in Slots
    BY KeyboardAssumption DEF Slots
  <2> QED
    BY <1>1, <1>2, <2>1 DEF KbTypeOK, modifiers
<1>4. RingInv'
  BY <1>1, <1>2 DEF RingInv
<1> QED
  BY <1>2, <1>3, <1>4, RingOnly

\* Any step.
LEMMA KbStep == KbInv /\ [Next]_kbVars => KbInv'
<1> SUFFICES ASSUME KbInv, [Next]_kbVars PROVE KbInv'
  OBVIOUS
<1>1. CASE UNCHANGED kbVars
  <2>1. UNCHANGED <<head, tail, kb_queue, keys, shift, ctrl, caps, writes, reads, c_tail,
                    down, repeats, overrun>>
    BY <1>1 DEF kbVars, ring, modifiers, reader
  <2> QED
    BY <2>1 DEF KbInv, ModifiersFollowKeys, PressIsNeverIgnored, KbTypeOK, RingInv
<1>2. ASSUME NEW k \in Keys, Press(k) PROVE KbInv'
  <2>1. /\ writes = NONE /\ Make(k) /\ UNCHANGED reader /\ down' = down \cup {k}
        /\ repeats' \in down' \cup {NONE} /\ k \notin down
    BY <1>2 DEF Press
  <2>2. keys[k] = 0
    BY <2>1 DEF KbInv, PressIsNeverIgnored
  <2> QED
    BY <2>1, <2>2, MakeKeeps
<1>3. ASSUME NEW k \in Keys, Repeat(k) PROVE KbInv'
  <2>1. /\ writes = NONE /\ Make(k) /\ UNCHANGED reader /\ repeats = k
        /\ down' = down /\ repeats' = repeats
    BY <1>3 DEF Repeat
  <2>2. repeats \in down \cup {NONE} /\ k # NONE
    BY KeyboardAssumption DEF KbInv, ModifiersFollowKeys, KbTypeOK
  <2>3. k \in down /\ down' = down \cup {k} /\ repeats' \in down' \cup {NONE}
    BY <2>1, <2>2
  <2> QED
    BY <2>1, <2>3, MakeKeeps
<1> QED
  BY <1>1, <1>2, <1>3, ReleaseKeeps, PublishKeeps, FoundKeeps, MoveKeeps, ReturnKeeps DEF Next

-----------------------------------------------------------------------------
(***************************************************************************)
(* The theorems.                                                           *)
(***************************************************************************)
\* KbInv holds in every reachable state (keyboard.cc:73-138).
THEOREM KeyboardInvariance == KbSpec => []KbInv
BY InitKbInv, KbStep, PTL DEF KbSpec

\* shift and ctrl always say which keys are down, and the filter of repeats never
\* swallows a press (keyboard.cc:79-113).
THEOREM HandlerFollowsKeys == KbSpec => []KeysAreFollowed
BY KeyboardInvariance, PTL DEF KbInv, KeysAreFollowed
-----------------------------------------------------------------------------
(***************************************************************************)
(* The ring is a queue.                                                    *)
(***************************************************************************)
\* The characters of the ring as a sequence: one more at the end ...
LEMMA Longer ==
  ASSUME NEW S, NEW n \in Nat, NEW p \in [1..n -> S], NEW q \in [1..(n + 1) -> S],
         \A i \in 1..n : q[i] = p[i]
  PROVE  p \in Seq(S) /\ Len(p) = n /\ q = Append(p, q[n + 1])
<1>1. p \in Seq(S) /\ q \in Seq(S) /\ n + 1 \in 1..(n + 1)
  OBVIOUS
<1>2. Len(p) = n /\ Len(q) = n + 1
  BY <1>1
<1>3. q[n + 1] \in S
  BY <1>1
<1>4. /\ Append(p, q[n + 1]) \in Seq(S) /\ Len(Append(p, q[n + 1])) = n + 1
      /\ \A i \in 1..n : Append(p, q[n + 1])[i] = p[i]
      /\ Append(p, q[n + 1])[Len(Append(p, q[n + 1]))] = q[n + 1]
  BY <1>1, <1>2, <1>3
<1>5. ASSUME NEW i \in 1..(n + 1) PROVE q[i] = Append(p, q[n + 1])[i]
  BY <1>4
<1> QED
  BY <1>1, <1>2, <1>4, <1>5

\* ... or one less at the front.
LEMMA Shorter ==
  ASSUME NEW S, NEW n \in Nat, NEW p \in [1..(n + 1) -> S], NEW q \in [1..n -> S],
         \A i \in 1..n : q[i] = p[i + 1]
  PROVE  p # << >> /\ Head(p) = p[1] /\ q = Tail(p)
<1>1. p \in Seq(S) /\ q \in Seq(S)
  OBVIOUS
<1>2. Len(p) = n + 1 /\ Len(q) = n /\ p # << >>
  BY <1>1
<1>3. /\ Tail(p) \in Seq(S) /\ Len(Tail(p)) = n
      /\ \A i \in 1..n : Tail(p)[i] = p[i + 1]
  BY <1>1, <1>2
<1> QED
  BY <1>1, <1>2, <1>3

\* Contents has the length of the ring and its characters.
LEMMA ContentsAre ==
  ASSUME KbInv, ~overrun
  PROVE  /\ InRing(head, tail) \in 0..(BUFF_LEN - 1) /\ BUFF_LEN \in Nat
         /\ Contents \in [1..InRing(head, tail) -> Chars]
         /\ \A i \in 1..InRing(head, tail) : Contents[i] = kb_queue[SlotOf(tail, i)]
<1>1. InRing(head, tail) \in 0..(BUFF_LEN - 1) /\ BUFF_LEN \in Nat
  BY InSlots, KeyboardAssumption DEF KbInv, ModifiersFollowKeys, KbTypeOK
<1>2. Contents = [i \in 1..InRing(head, tail) |-> kb_queue[SlotOf(tail, i)]]
  BY DEF Contents, Kept, InRing, SlotOf
<1>3. \A i \in 1..InRing(head, tail) : kb_queue[SlotOf(tail, i)] \in Chars
  BY DEF KbInv, RingInv
<1> QED
  BY <1>1, <1>2, <1>3

\* What the queue has, and what the game is about to get.
Pending == IF overrun THEN << >> ELSE Contents
Taken == IF overrun \/ reads # "moved" THEN NONE ELSE kb_queue[c_tail]

\* An overrun ring promises nothing more.
LEMMA Overrun ==
  ASSUME overrun, overrun'
  PROVE  UNCHANGED <<Pending, Taken, overrun>>
BY DEF Pending, Taken

\* The steps that touch neither the ring nor the reader.
LEMMA SameRing ==
  ASSUME UNCHANGED <<head, tail, kb_queue, reads, c_tail, overrun>>
  PROVE  UNCHANGED <<Pending, Taken, overrun>>
BY DEF Pending, Taken, Contents, Kept

\* A character is stored: nothing happens to the queue, unless it is full.
LEMMA StoreIsQueue ==
  ASSUME KbInv, KbInv', NEW k \in Keys, writes = NONE, MakeLetter(k), UNCHANGED reader
  PROVE  UNCHANGED <<Pending, Taken, overrun>> \/ Ring!Overrun
<1>1. /\ head \in Slots /\ tail \in Slots /\ kb_queue \in [Slots -> Chars \cup {NONE}]
      /\ c_tail \in Slots /\ overrun \in BOOLEAN
  BY DEF KbInv, ModifiersFollowKeys, KbTypeOK
<1>2. /\ kb_queue' = [kb_queue EXCEPT ![head] = <<k, Upper>>]
      /\ overrun' = (overrun \/ Full(head, tail))
      /\ UNCHANGED <<head, tail, reads, c_tail>>
  BY DEF MakeLetter, Full, reader
<1>3. CASE overrun
  BY <1>2, <1>3, Overrun
<1>4. CASE ~overrun /\ Full(head, tail)
  <2>1. InRing(head, tail) = BUFF_LEN - 1
    BY <1>1, <1>4, RingEnds DEF Full
  <2>2. Contents \in [1..(BUFF_LEN - 1) -> Chars] /\ BUFF_LEN - 1 \in Nat
    BY <1>4, <2>1, ContentsAre, KeyboardAssumption
  <2>3. Len(Contents) = BUFF_LEN - 1
    BY <2>2
  <2>4. ~overrun /\ Pending = Contents /\ Pending' = << >> /\ Taken' = NONE /\ overrun'
    BY <1>2, <1>4 DEF Pending, Taken
  <2> QED
    BY <1>1, <1>2, <1>4, <2>3, <2>4 DEF Ring!Overrun, Pending, Taken
<1>5. CASE ~overrun /\ ~Full(head, tail)
  <2>1. ~overrun'
    BY <1>2, <1>5
  <2>2. ASSUME NEW i \in 1..InRing(head, tail)
        PROVE  kb_queue'[SlotOf(tail, i)] = kb_queue[SlotOf(tail, i)]
    <3>1. SlotOf(tail, i) # head
      BY <1>1, HeadIsFree
    <3>2. SlotOf(tail, i) \in Slots
      BY <1>1, HeadIsFree
    <3> QED
      BY <1>1, <1>2, <3>1, <3>2
  <2>3. Contents' = Contents
    <3>1. Contents = [i \in 1..InRing(head, tail) |-> kb_queue[SlotOf(tail, i)]]
      BY DEF Contents, Kept, InRing, SlotOf
    <3>2. Contents' = [i \in 1..InRing(head, tail) |-> kb_queue'[SlotOf(tail, i)]]
      BY <1>2 DEF Contents, Kept, InRing, SlotOf
    <3> QED
      BY <2>2, <3>1, <3>2
  <2>4. reads = "moved" => kb_queue'[c_tail] = kb_queue[c_tail]
    <3> SUFFICES ASSUME reads = "moved" PROVE kb_queue'[c_tail] = kb_queue[c_tail]
      OBVIOUS
    <3>1. After(c_tail) = tail
      BY <1>5 DEF KbInv, RingInv
    <3>2. c_tail # head
      BY <1>5, <3>1 DEF Full
    <3> QED
      BY <1>1, <1>2, <3>2
  <2> QED
    BY <1>1, <1>2, <1>5, <2>1, <2>3, <2>4 DEF Pending, Taken
<1> QED
  BY <1>3, <1>4, <1>5

\* head moves: the character is in the queue.
LEMMA PublishIsQueue ==
  ASSUME KbInv, KbInv', Publish
  PROVE  \/ UNCHANGED <<Pending, Taken, overrun>>
         \/ \E ch \in Chars : Ring!Type(ch)
<1>1. /\ head \in Slots /\ tail \in Slots /\ KbTypeOK
      /\ head' = After(head) /\ writes # NONE
      /\ UNCHANGED <<tail, kb_queue, reads, c_tail, overrun>>
  BY DEF KbInv, ModifiersFollowKeys, KbTypeOK, Publish, reader
<1>2. CASE overrun
  BY <1>1, <1>2, Overrun
<1>3. CASE ~overrun
  <2> DEFINE n == InRing(head, tail)
  <2>1. kb_queue[head] = writes /\ ~Full(head, tail) /\ writes \in Chars
    BY <1>1, <1>3 DEF KbInv, RingInv, KbTypeOK
  <2>2. /\ n \in Nat /\ n + 1 \in 1..(BUFF_LEN - 1)
        /\ InRing(head', tail') = n + 1 /\ SlotOf(tail, n + 1) = head
    <3>1. /\ n \in 0..(BUFF_LEN - 1) /\ n + 1 \in 1..(BUFF_LEN - 1)
          /\ InRing(head', tail') = n + 1 /\ SlotOf(tail, n + 1) = head
      BY <1>1, <2>1, RingGrows, InSlots
    <3> QED
      BY <3>1
  <2>3. /\ Contents \in [1..n -> Chars] /\ BUFF_LEN \in Nat
        /\ \A i \in 1..n : Contents[i] = kb_queue[SlotOf(tail, i)]
    BY <1>3, ContentsAre
  <2>4. /\ Contents' \in [1..(n + 1) -> Chars]
        /\ \A i \in 1..(n + 1) : Contents'[i] = kb_queue[SlotOf(tail, i)]
    <3>1. Contents' = [i \in 1..InRing(head', tail') |-> kb_queue'[SlotOf(tail', i)]]
      BY DEF Contents, Kept, InRing, SlotOf
    <3>2. Contents' = [i \in 1..(n + 1) |-> kb_queue[SlotOf(tail, i)]]
      BY <1>1, <2>2, <3>1
    <3>3. \A i \in 1..(n + 1) : kb_queue[SlotOf(tail, i)] \in Chars
      <4>1. ASSUME NEW i \in 1..(n + 1) PROVE kb_queue[SlotOf(tail, i)] \in Chars
        <5>1. CASE i \in 1..n
          BY <2>3, <5>1
        <5>2. CASE i = n + 1
          BY <2>1, <2>2, <5>2
        <5> QED
          BY <2>2, <5>1, <5>2
      <4> QED
        BY <4>1
    <3> QED
      BY <3>2, <3>3
  <2> HIDE DEF n
  <2>5. /\ Len(Contents) = n /\ Contents' = Append(Contents, Contents'[n + 1])
        /\ Contents'[n + 1] = writes
    <3>1. \A i \in 1..n : Contents'[i] = Contents[i]
      BY <2>2, <2>3, <2>4
    <3>2. Contents'[n + 1] = writes
      BY <2>1, <2>2, <2>4
    <3> QED
      BY <2>2, <2>3, <2>4, <3>1, <3>2, Longer
  <2>6. Len(Contents) < BUFF_LEN - 1
    BY <2>2, <2>3, <2>5
  <2>7. Pending = Contents /\ Pending' = Contents' /\ Taken' = Taken
    BY <1>1, <1>3 DEF Pending, Taken
  <2>8. Ring!Type(writes)
    BY <1>1, <1>3, <2>5, <2>6, <2>7 DEF Ring!Type, Pending, Taken
  <2> QED
    BY <2>1, <2>8
<1> QED
  BY <1>2, <1>3

\* tail moves: the oldest character is the game's.
LEMMA MoveIsQueue ==
  ASSUME KbInv, KbInv', LastPressMove
  PROVE  UNCHANGED <<Pending, Taken, overrun>> \/ Ring!Take
<1>1. /\ head \in Slots /\ tail \in Slots
      /\ reads = "tested" /\ reads' = "moved" /\ c_tail' = tail /\ tail' = After(tail)
      /\ UNCHANGED <<head, kb_queue, overrun>>
  BY DEF KbInv, ModifiersFollowKeys, KbTypeOK, LastPressMove
<1>2. CASE overrun
  BY <1>1, <1>2, Overrun
<1>3. CASE ~overrun
  <2> DEFINE n == InRing(head, tail) - 1
  <2>1. head # tail
    BY <1>1, <1>3 DEF KbInv, RingInv
  <2>2. /\ n \in Nat /\ InRing(head, tail) = n + 1 /\ InRing(head', tail') = n
        /\ SlotOf(tail, 1) = tail
        /\ \A i \in 1..n : SlotOf(tail', i) = SlotOf(tail, i + 1)
    <3>1. /\ InRing(head, tail) \in 1..(BUFF_LEN - 1)
          /\ InRing(head', tail') = n
          /\ SlotOf(tail, 1) = tail
          /\ \A i \in 1..n : SlotOf(tail', i) = SlotOf(tail, i + 1)
      BY <1>1, <2>1, RingShrinks
    <3> QED
      BY <3>1
  <2> HIDE DEF n
  <2>3. /\ Contents \in [1..(n + 1) -> Chars]
        /\ \A i \in 1..(n + 1) : Contents[i] = kb_queue[SlotOf(tail, i)]
    BY <1>3, <2>2, ContentsAre
  <2>4. Contents' \in [1..n -> Chars] /\ \A i \in 1..n : Contents'[i] = Contents[i + 1]
    <3>1. Contents' = [i \in 1..InRing(head', tail') |-> kb_queue'[SlotOf(tail', i)]]
      BY DEF Contents, Kept, InRing, SlotOf
    <3>2. Contents' = [i \in 1..n |-> kb_queue[SlotOf(tail, i + 1)]]
      BY <1>1, <2>2, <3>1
    <3>3. \A i \in 1..n : i + 1 \in 1..(n + 1)
      BY <2>2
    <3> QED
      BY <2>3, <3>2, <3>3
  <2>5. /\ Contents # << >> /\ Head(Contents) = Contents[1]
        /\ Contents' = Tail(Contents)
    BY <2>2, <2>3, <2>4, Shorter
  <2>6. Contents[1] = kb_queue[tail]
    <3>1. 1 \in 1..(n + 1)
      BY <2>2
    <3> QED
      BY <2>2, <2>3, <3>1
  <2>7. /\ Pending = Contents /\ Pending' = Contents'
        /\ Taken = NONE /\ Taken' = kb_queue[tail]
    BY <1>1, <1>3 DEF Pending, Taken
  <2> QED
    BY <1>1, <1>3, <2>5, <2>6, <2>7 DEF Ring!Take, Pending, Taken
<1> QED
  BY <1>2, <1>3

\* last_press returns: the game has the character.
LEMMA ReturnIsQueue ==
  ASSUME KbInv, LastPressReturn
  PROVE  UNCHANGED <<Pending, Taken, overrun>> \/ Ring!Give
<1>1. /\ reads = "moved" /\ reads' = "out"
      /\ UNCHANGED <<head, tail, kb_queue, overrun>>
  BY DEF LastPressReturn, ring
<1>2. CASE overrun
  BY <1>1, <1>2, Overrun
<1>3. CASE ~overrun
  <2>1. Taken = kb_queue[c_tail] /\ Taken \in Chars /\ NONE \notin Chars
    BY <1>1, <1>3, KeyboardAssumption DEF KbInv, RingInv, Taken
  <2>2. Taken' = NONE /\ Pending' = Pending
    BY <1>1 DEF Taken, Pending, Contents, Kept
  <2> QED
    BY <1>1, <2>1, <2>2 DEF Ring!Give, Pending, Taken
<1> QED
  BY <1>2, <1>3

\* Every step of the driver and of the game is a step of the queue or none.
LEMMA QueueStep == KbInv /\ KbInv' /\ [Next]_kbVars => [Ring!Next]_<<Pending, Taken, overrun>>
<1> SUFFICES ASSUME KbInv, KbInv', [Next]_kbVars
             PROVE  Ring!Next \/ UNCHANGED <<Pending, Taken, overrun>>
  OBVIOUS
<1>1. CASE UNCHANGED kbVars
  BY <1>1, SameRing DEF kbVars, ring, reader
<1>2. ASSUME NEW k \in Keys, writes = NONE, Make(k), UNCHANGED reader
      PROVE  Ring!Next \/ UNCHANGED <<Pending, Taken, overrun>>
  <2>1. CASE MakeLetter(k)
    BY <1>2, <2>1, StoreIsQueue DEF Ring!Next
  <2>2. CASE MakeIgnored(k) \/ MakeModifier(k)
    BY <1>2, <2>2, SameRing DEF MakeIgnored, MakeModifier, ring, reader
  <2> QED
    BY <1>2, <2>1, <2>2 DEF Make
<1>3. ASSUME NEW k \in Keys, Press(k) \/ Repeat(k)
      PROVE  Ring!Next \/ UNCHANGED <<Pending, Taken, overrun>>
  <2>1. writes = NONE /\ Make(k) /\ UNCHANGED reader
    BY <1>3 DEF Press, Repeat
  <2> QED
    BY <1>2, <2>1
<1>4. CASE LastPressTest
  <2>1. UNCHANGED <<head, tail, kb_queue, overrun>> /\ reads = "out" /\ reads' = "tested"
    BY <1>4 DEF LastPressTest, ring
  <2> QED
    BY <2>1 DEF Pending, Taken, Contents, Kept
<1> QED
  BY <1>1, <1>3, <1>4, ReleaseKeeps, SameRing, PublishIsQueue, MoveIsQueue, ReturnIsQueue
  DEF Next, Ring!Next

\* An empty ring is an empty queue.
LEMMA InitQueue == Init => Ring!Init
<1> SUFFICES ASSUME Init PROVE Ring!Init
  OBVIOUS
<1>1. KbInv /\ ~overrun /\ overrun = FALSE /\ head = 0 /\ tail = 0 /\ reads = "out"
  BY InitKbInv DEF Init
<1>2. InRing(head, tail) = 0
  <2>1. 0 \in Slots
    BY KeyboardAssumption DEF Slots
  <2> QED
    BY <1>1, <2>1, RingEnds
<1>3. Contents \in [1..0 -> Chars]
  BY <1>1, <1>2, ContentsAre
<1>4. Contents = << >>
  BY <1>3
<1> QED
  BY <1>1, <1>4 DEF Ring!Init

\* Until it overruns, the ring without a lock is a queue: every character comes
\* out once, in the order typed (last_press() and keyboard.cc:133-135).
THEOREM TheRingIsAQueue == KbSpec => RingIsQueue
<1>1. KbInv /\ KbInv' /\ [Next]_kbVars => [Ring!Next]_Ring!KeyVars
  BY QueueStep DEF Ring!KeyVars, Pending, Taken
<1> QED
  BY InitQueue, KeyboardInvariance, <1>1, PTL DEF KbSpec, RingIsQueue, Ring!Spec
=============================================================================
