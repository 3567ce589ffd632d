----------------------------- MODULE BootProofs -----------------------------
(***************************************************************************)
(* Proofs about Boot, for any number of cores and any table whose ids are  *)
(* those of the processors it lists; about the PS/2 controller, which the  *)
(* first core sets up on the way; and about what is read from the disk     *)
(* (module Ext2), for any files.                                           *)
(***************************************************************************)
EXTENDS Boot, Ext2, FiniteSetTheorems, WellFoundedInduction, TLAPS

Phases == {"off", "prepare", "mask", "ps2", "calibrate", "start", "arrive", "timer", "panic",
           "open", "count", "stop"}
Place == [phase : Phases, step : 0..7]

Active == {c \in Cores : at[c].phase # "off"}
Stopped == {c \in Cores : at[c].phase = "stop"}
Total == Cardinality(OtherProcs(table)) + 1

BootTypes ==
  /\ at \in [Cores -> Place] /\ table \in Tables
  /\ totalProcs \in Nat /\ starting \in Nat /\ howManyAreHere \in Nat /\ main \in {0, 1}

-----------------------------------------------------------------------------
(***************************************************************************)
(* Who runs: the first core alone until it starts the others, one after    *)
(* the other, up to the number that it has counted.                        *)
(***************************************************************************)
Alone == {"mask", "ps2", "calibrate"}

PhaseInv ==
  /\ \A c \in Cores : at[c].phase \in {"prepare", "ps2", "calibrate", "start"} => c = 0
  /\ at[0].phase \notin {"off", "arrive"}
  /\ at[0].phase = "prepare" => totalProcs = 0 /\ Active = {0}
  /\ at[0].phase # "prepare" => totalProcs = Total /\ Active \subseteq 0..(totalProcs - 1)
  /\ at[0].phase \in Alone => Active = {0}
  /\ at[0].phase = "start" =>
       /\ starting \in 1..totalProcs
       /\ at[0].step = 0 => Active \subseteq 0..(starting - 1)
       /\ at[0].step # 0 => starting < totalProcs /\ Active \subseteq 0..starting

\* Each core that has stopped is counted once, and the last makes the main thread.
CountInv ==
  /\ howManyAreHere = Cardinality(Stopped)
  /\ main = IF totalProcs > 0 /\ howManyAreHere = totalProcs THEN 1 ELSE 0

\* The number of processors.
LEMMA TotalIs ==
  ASSUME NEW t \in Tables
  PROVE  IsFiniteSet(OtherProcs(t)) /\ Cardinality(OtherProcs(t)) + 1 \in Nat \ {0}
<1> DEFINE AnEntry == [type : Nat, id : Nat]
<1>1. t.entries \in Seq(AnEntry) /\ t.entries # << >> /\ t.after \in AnEntry
  BY TablesAssumption
<1>2. Examined(t) \in Seq(AnEntry)
  BY <1>1 DEF Examined
<1>3. DOMAIN Examined(t) = 1..Len(Examined(t)) /\ Len(Examined(t)) \in Nat
  BY <1>2
<1>4. IsFiniteSet(1..Len(Examined(t)))
  BY <1>3, FS_Interval
<1>5. IsFiniteSet(OtherProcs(t))
  BY <1>3, <1>4, FS_Subset DEF OtherProcs
<1> QED
  BY <1>5, FS_CardinalityType

\* The cores that run are not more than the processors.
LEMMA Few ==
  ASSUME BootTypes, PhaseInv
  PROVE  /\ IsFiniteSet(Active) /\ IsFiniteSet(Stopped) /\ Stopped \subseteq Active
         /\ Cardinality(Stopped) \in Nat
<1>1. Active \subseteq 0..(IF at[0].phase = "prepare" THEN 0 ELSE totalProcs - 1)
  BY DEF PhaseInv
<1>2. IsFiniteSet(0..0) /\ IsFiniteSet(0..(totalProcs - 1))
  <2>1. 0 \in Int /\ totalProcs - 1 \in Int
    BY DEF BootTypes
  <2> QED
    BY <2>1, FS_Interval
<1>3. IsFiniteSet(Active)
  BY <1>1, <1>2, FS_Subset
<1>4. Stopped \subseteq Active
  BY DEF Stopped, Active
<1>5. IsFiniteSet(Stopped)
  BY <1>3, <1>4, FS_Subset
<1> QED
  BY <1>3, <1>4, <1>5, FS_CardinalityType

\* One core goes on, and nobody starts.
LEMMA Moving ==
  ASSUME BootTypes, PhaseInv, NEW c \in Cores, NEW n \in Place,
         at' = [at EXCEPT ![c] = n], UNCHANGED <<table, totalProcs, starting>>,
         at[c].phase \notin {"off", "prepare"}, n.phase \notin {"off", "prepare", "arrive", "start"},
         n.phase \in {"ps2", "calibrate"} => c = 0,
         c = 0 /\ n.phase \in Alone => at[0].phase \in Alone
  PROVE  PhaseInv' /\ Active' = Active
<1>1. at \in [Cores -> Place] /\ 0 \in Cores
  BY BootAssumption DEF BootTypes
<1>2. at'[c] = n /\ \A d \in Cores : d # c => at'[d] = at[d]
  BY <1>1
<1>3. Active' = Active
  BY <1>2 DEF Active
<1>4. Total' = Total
  BY DEF Total
<1>5. CASE c = 0
  BY <1>1, <1>2, <1>3, <1>4, <1>5 DEF PhaseInv, Alone
<1>6. CASE c # 0
  <2>1. at'[0] = at[0]
    BY <1>1, <1>2, <1>6
  <2> QED
    BY <1>1, <1>2, <1>3, <1>4, <1>6, <2>1 DEF PhaseInv, Alone
<1> QED
  BY <1>3, <1>5, <1>6

\* Nothing happens to the counts unless a core stops.
LEMMA Counted ==
  ASSUME CountInv, Stopped' = Stopped, UNCHANGED <<howManyAreHere, totalProcs, main>>
  PROVE  CountInv'
BY DEF CountInv

-----------------------------------------------------------------------------
(***************************************************************************)
(* The IO-APIC, as long as no two cores were in it at once. A core inside  *)
(* has selected the register it is about to use, and has read what is      *)
(* there; the entry has the vector once a core has masked it, and is open  *)
(* unless a core is still to open it.                                      *)
(***************************************************************************)
Masked(c) ==
  \/ at[c].phase \in {"ps2", "calibrate", "start", "timer", "panic", "open", "count", "stop"}
  \/ at[c].phase = "mask" /\ at[c].step >= 6
Past(c) == at[c].phase \in {"count", "stop"} \/ (at[c].phase = "open" /\ at[c].step >= 6)

AccessInv(c) ==
  Inside(c) =>
    /\ at[c].step \in {1, 5} => index = 1
    /\ at[c].step \in {3, 7} => index = 2
    /\ at[c].step \in 2..5 => re[c][1] = entry[1]
    /\ at[c].step \in 4..7 => re[c][2] = entry[2]

EntryInv ==
  /\ entry = <<entry[1], entry[2]>> /\ entry[2] = Register(0, 0)
  /\ entry[1] \in {Register(0, 1), Register(9, 1), Register(9, 0)}
  /\ (\E c \in Cores : Masked(c)) => entry[1] # Register(0, 1)
  /\ (\A c \in Active : Past(c)) => entry[1] = Register(9, 0)

ReTypes == re \in [Cores -> {<<a, b>> : a, b \in [vector : Nat, mask : Nat]}]

IoInv ==
  /\ ReTypes
  /\ overlap \in BOOLEAN
  /\ ~overlap =>
       /\ \A c, d \in Cores : Inside(c) /\ Inside(d) => c = d
       /\ \A c \in Cores : AccessInv(c)
       /\ EntryInv

\* A step outside of the IO-APIC, which takes no core past its mask or its open.
LEMMA IoStays ==
  ASSUME IoInv, UNCHANGED ioapic,
         \A c \in Cores : Inside(c)' => at'[c] = at[c],
         \A c \in Cores : Masked(c)' => Masked(c),
         \A c \in Active : Past(c) \/ \E d \in Active' : ~Past(d)'
  PROVE  IoInv'
<1>1. UNCHANGED <<index, entry, re, overlap>>
  BY DEF ioapic
<1>2. ReTypes' /\ overlap' \in BOOLEAN
  BY <1>1 DEF IoInv, ReTypes
<1>3. ASSUME ~overlap', NEW c \in Cores, Inside(c)' PROVE Inside(c) /\ at'[c] = at[c]
  BY <1>3 DEF Inside, Accessing, In
<1>4. ASSUME ~overlap' PROVE \A c, d \in Cores : Inside(c)' /\ Inside(d)' => c = d
  BY <1>1, <1>3, <1>4 DEF IoInv
<1>5. ASSUME ~overlap', NEW c \in Cores PROVE AccessInv(c)'
  BY <1>1, <1>3, <1>5 DEF IoInv, AccessInv
<1>6. ASSUME ~overlap' PROVE EntryInv'
  <2>1. EntryInv
    BY <1>1, <1>6 DEF IoInv
  <2>2. (\A c \in Active' : Past(c)') => (\A c \in Active : Past(c))
    OBVIOUS
  <2>3. (\E c \in Cores : Masked(c)') => (\E c \in Cores : Masked(c))
    OBVIOUS
  <2> HIDE DEF Register
  <2> QED
    BY <1>1, <2>1, <2>2, <2>3 DEF EntryInv
<1> QED
  BY <1>2, <1>4, <1>5, <1>6 DEF IoInv

\* What an access does to the core.
LEMMA AccessMoves ==
  ASSUME BootTypes, NEW c \in Cores, Accessing(c),
         NEW after \in {"ps2", "timer", "count"}, Access(c, after)
  PROVE  /\ at[c].step \in 0..7
         /\ at' = [at EXCEPT ![c] = IF at[c].step = 7 THEN [phase |-> after, step |-> 0]
                                    ELSE [phase |-> at[c].phase, step |-> at[c].step + 1]]
         /\ at'[c] \in Place
         /\ at'[c].step = (IF at[c].step = 7 THEN 0 ELSE at[c].step + 1)
         /\ at'[c].phase = (IF at[c].step = 7 THEN after ELSE at[c].phase)
         /\ \A d \in Cores : d # c => at'[d] = at[d]
<1>1. at \in [Cores -> Place] /\ at[c] \in Place
  BY DEF BootTypes
<1>2. at[c].step \in 0..7 /\ at[c].phase \in Phases /\ after \in Phases
  BY <1>1 DEF Place, Phases
<1>3. CASE at[c].step = 7
  <2>1. at' = [at EXCEPT ![c] = [phase |-> after, step |-> 0]]
    BY <1>3 DEF Access, Goto
  <2> QED
    BY <1>1, <1>2, <1>3, <2>1 DEF Place
<1>4. CASE at[c].step # 7
  <2>1. at' = [at EXCEPT ![c].step = at[c].step + 1]
    BY <1>4 DEF Access
  <2>2. at' = [at EXCEPT ![c] = [phase |-> at[c].phase, step |-> at[c].step + 1]]
    <3>1. [at[c] EXCEPT !.step = at[c].step + 1]
            = [phase |-> at[c].phase, step |-> at[c].step + 1]
      BY <1>1 DEF Place
    <3> QED
      BY <2>1, <3>1
  <2>3. at[c].step + 1 \in 0..7
    BY <1>2, <1>4
  <2> QED
    BY <1>1, <1>2, <1>4, <2>2, <2>3 DEF Place
<1> QED
  BY <1>3, <1>4

\* What it does to the registers when nobody else is there.
LEMMA AccessRegisters ==
  ASSUME IoInv, BootTypes, NEW c \in Cores, Accessing(c),
         NEW after \in {"ps2", "timer", "count"}, Access(c, after), ~overlap'
  PROVE  LET s == at[c].step IN
         /\ ~overlap /\ \A d \in Cores : d # c => ~Inside(d)
         /\ s \in {0, 2, 4, 6} =>
              index' = (IF s \in {0, 4} THEN 1 ELSE 2) /\ UNCHANGED <<entry, re>>
         /\ s \in {1, 3} =>
              /\ re' = [re EXCEPT ![c][IF s = 1 THEN 1 ELSE 2] = entry[index]]
              /\ UNCHANGED <<index, entry>>
         /\ s = 5 => /\ entry' = [entry EXCEPT ![index] = Changed(c, re[c][1])]
                     /\ UNCHANGED <<index, re>>
         /\ s = 7 => /\ entry' = [entry EXCEPT ![index] = re[c][2]]
                     /\ re' = [re EXCEPT ![c] = Unknown] /\ UNCHANGED index
<1>1. overlap' = (overlap \/ \E d \in Cores \ {c} : Inside(d))
  BY DEF Access
<1>2. ~overlap /\ \A d \in Cores : d # c => ~Inside(d)
  BY <1>1
<1>3. at[c].step \in 0..7
  BY AccessMoves
<1>4. Registers(c, at[c].step, IF at[c].step \in {0, 1, 4, 5} THEN 1 ELSE 2)
  BY DEF Access
<1> QED
  BY <1>2, <1>3, <1>4 DEF Registers

\* The types of the registers.
LEMMA AccessTypes ==
  ASSUME IoInv, BootTypes, NEW c \in Cores, Accessing(c),
         NEW after \in {"ps2", "timer", "count"}, Access(c, after)
  PROVE  ReTypes' /\ overlap' \in BOOLEAN
<1> DEFINE Half == [vector : Nat, mask : Nat]
           Pairs == {<<a, b>> : a, b \in Half}
<1>0. overlap' \in BOOLEAN
  BY DEF Access
<1>1. Unknown \in Pairs /\ Register(9, 1) \in Half /\ Register(9, 0) \in Half
      /\ Register(0, 1) \in Half /\ Register(0, 0) \in Half
  <2>1. /\ Register(9, 1) \in Half /\ Register(9, 0) \in Half
        /\ Register(0, 1) \in Half /\ Register(0, 0) \in Half
    BY DEF Register
  <2> HIDE DEF Half
  <2> QED
    BY <2>1 DEF Unknown
<1>2. CASE overlap'
  <2>1. CASE re' = [d \in Cores |-> Unknown]
    BY <1>0, <1>1, <2>1 DEF ReTypes
  <2> QED
    BY <1>2, <2>1 DEF Access, Registers
<1>3. CASE ~overlap'
  <2>1. ~overlap /\ EntryInv
    BY <1>3, AccessRegisters DEF IoInv
  <2>2. entry[1] \in Half /\ entry[2] \in Half
    BY <1>1, <2>1 DEF EntryInv
  <2>3. PICK a, b \in Half : re[c] = <<a, b>>
    BY DEF IoInv, ReTypes
  <2>4. CASE at[c].step \in {1, 3}
    <3> DEFINE h == IF at[c].step = 1 THEN 1 ELSE 2
    <3>1. re' = [re EXCEPT ![c][h] = entry[index]] /\ h \in {1, 2}
      BY <1>3, <2>4, AccessRegisters
    <3>2. index \in {1, 2}
      BY <2>1, <2>4 DEF IoInv, AccessInv, Inside
    <3>3. re'[c] = [re[c] EXCEPT ![h] = entry[index]] /\ \A d \in Cores : d # c => re'[d] = re[d]
      BY <3>1 DEF IoInv, ReTypes
    <3> HIDE DEF h
    <3>4. re'[c] \in Pairs
      <4>1. CASE h = 1
        BY <2>2, <2>3, <3>2, <3>3, <4>1
      <4>2. CASE h = 2
        BY <2>2, <2>3, <3>2, <3>3, <4>2
      <4> QED
        BY <3>1, <4>1, <4>2
    <3> QED
      BY <1>0, <3>1, <3>3, <3>4 DEF IoInv, ReTypes
  <2>5. CASE at[c].step = 7
    BY <1>0, <1>1, <1>3, <2>5, AccessRegisters DEF IoInv, ReTypes
  <2>6. CASE at[c].step \notin {1, 3, 7}
    <3>1. at[c].step \in {0, 2, 4, 5, 6}
      BY <2>6, AccessMoves
    <3> QED
      BY <1>0, <1>3, <3>1, AccessRegisters DEF IoInv, ReTypes
  <2> QED
    BY <2>4, <2>5, <2>6
<1> QED
  BY <1>2, <1>3

\* An access by a core that has the IO-APIC to itself leaves it as it should be.
LEMMA AccessKeeps ==
  ASSUME IoInv, BootTypes, PhaseInv, NEW c \in Cores, Accessing(c),
         NEW after \in {"ps2", "timer", "count"}, Access(c, after),
         after = "count" <=> at[c].phase = "open",
         Active' = Active
  PROVE  IoInv'
<1> DEFINE s == at[c].step
           s1 == at'[c].step
<1>1. ReTypes' /\ overlap' \in BOOLEAN
  BY AccessTypes
<1> SUFFICES ASSUME ~overlap'
    PROVE  /\ \A d, e \in Cores : Inside(d)' /\ Inside(e)' => d = e
           /\ \A d \in Cores : AccessInv(d)'
           /\ EntryInv'
  BY <1>1 DEF IoInv
<1>2. /\ s \in 0..7 /\ s1 = (IF s = 7 THEN 0 ELSE s + 1)
      /\ at'[c].phase = (IF s = 7 THEN after ELSE at[c].phase)
      /\ \A d \in Cores : d # c => at'[d] = at[d]
      /\ at[c].phase \in {"mask", "open"}
  BY AccessMoves DEF Accessing, In
<1>3. /\ ~overlap /\ \A d \in Cores : d # c => ~Inside(d)
      /\ s \in {0, 2, 4, 6} => index' = (IF s \in {0, 4} THEN 1 ELSE 2) /\ UNCHANGED <<entry, re>>
      /\ s \in {1, 3} => /\ re' = [re EXCEPT ![c][IF s = 1 THEN 1 ELSE 2] = entry[index]]
                         /\ UNCHANGED <<index, entry>>
      /\ s = 5 => entry' = [entry EXCEPT ![index] = Changed(c, re[c][1])] /\ UNCHANGED <<index, re>>
      /\ s = 7 => /\ entry' = [entry EXCEPT ![index] = re[c][2]]
                  /\ re' = [re EXCEPT ![c] = Unknown] /\ UNCHANGED index
  BY AccessRegisters
<1>4. EntryInv /\ AccessInv(c)
  BY <1>3 DEF IoInv
<1>5. PICK a, b \in [vector : Nat, mask : Nat] : re[c] = <<a, b>>
  BY DEF IoInv, ReTypes
<1>6. /\ s \in {1, 5} => index = 1
      /\ s \in {3, 7} => index = 2
      /\ s \in 2..5 => a = entry[1]
      /\ s \in 4..7 => b = entry[2]
  BY <1>4, <1>5 DEF AccessInv, Inside
<1>7. \A d \in Cores : d # c => ~Inside(d)'
  BY <1>2, <1>3 DEF Inside, Accessing, In
<1> HIDE DEF s, s1
<1>8. /\ re'[c] = <<IF s = 1 THEN entry[1] ELSE a, IF s = 3 THEN entry[2] ELSE b>> \/ s = 7
      /\ entry'[2] = entry[2] /\ entry' = <<entry'[1], entry'[2]>>
      /\ s # 5 => entry'[1] = entry[1]
      /\ s = 5 => entry'[1] = Changed(c, entry[1])
  <2>1. CASE s \in {0, 2, 4, 6}
    BY <1>3, <1>4, <1>5, <2>1 DEF EntryInv
  <2>2. CASE s = 1
    <3>1. re' = [re EXCEPT ![c][1] = entry[1]] /\ entry' = entry
      BY <1>3, <1>6, <2>2
    <3>2. re'[c] = [re[c] EXCEPT ![1] = entry[1]]
      BY <3>1 DEF IoInv, ReTypes
    <3> QED
      BY <1>4, <1>5, <2>2, <3>1, <3>2 DEF EntryInv
  <2>3. CASE s = 3
    <3>1. re' = [re EXCEPT ![c][2] = entry[2]] /\ entry' = entry
      BY <1>3, <1>6, <2>3
    <3>2. re'[c] = [re[c] EXCEPT ![2] = entry[2]]
      BY <3>1 DEF IoInv, ReTypes
    <3> QED
      BY <1>4, <1>5, <2>3, <3>1, <3>2 DEF EntryInv
  <2>4. CASE s = 5
    <3>1. entry' = [entry EXCEPT ![1] = Changed(c, entry[1])] /\ re' = re
      BY <1>3, <1>5, <1>6, <2>4
    <3> QED
      BY <1>4, <1>5, <2>4, <3>1 DEF EntryInv
  <2>5. CASE s = 7
    <3>1. entry' = [entry EXCEPT ![2] = entry[2]]
      BY <1>3, <1>5, <1>6, <2>5
    <3> QED
      BY <1>4, <2>5, <3>1 DEF EntryInv
  <2> QED
    BY <1>2, <2>1, <2>2, <2>3, <2>4, <2>5
<1>9. AccessInv(c)'
  <2> SUFFICES ASSUME Inside(c)'
      PROVE  /\ s1 \in {1, 5} => index' = 1
             /\ s1 \in {3, 7} => index' = 2
             /\ s1 \in 2..5 => re'[c][1] = entry'[1]
             /\ s1 \in 4..7 => re'[c][2] = entry'[2]
    BY DEF AccessInv, s1
  <2>1. s \in 0..6 /\ s1 = s + 1
    BY <1>2 DEF Inside, s1
  <2>2. s1 \in {1, 5} => index' = 1
    BY <1>3, <2>1
  <2>3. s1 \in {3, 7} => index' = 2
    BY <1>3, <2>1
  <2>4. s1 \in 2..5 => re'[c][1] = entry'[1]
    BY <1>6, <1>8, <2>1
  <2>5. s1 \in 4..7 => re'[c][2] = entry'[2]
    BY <1>6, <1>8, <2>1
  <2> QED
    BY <2>2, <2>3, <2>4, <2>5
<1>10. EntryInv'
  <2>1. \A d \in Cores : d # c => (Masked(d)' <=> Masked(d)) /\ (Past(d)' <=> Past(d))
    BY <1>2 DEF Masked, Past
  <2>2. c \in Active
    BY <1>2 DEF Active
  <2>3. CASE s = 5 /\ at[c].phase = "mask"
    <3>1. entry'[1] = Register(9, 1)
      BY <1>8, <2>3 DEF Changed, In
    <3>2. ~Past(c)'
      BY <1>2, <2>3 DEF Past
    <3>3. Register(9, 1) # Register(0, 1)
      BY DEF Register
    <3> QED
      BY <1>4, <1>8, <2>2, <3>1, <3>2, <3>3 DEF EntryInv
  <2>4. CASE s = 5 /\ at[c].phase = "open"
    <3>1. Masked(c)
      BY <2>4 DEF Masked
    <3>2. entry[1] \in {Register(9, 1), Register(9, 0)}
      BY <1>4, <3>1 DEF EntryInv
    <3>3. entry'[1] = Register(9, 0)
      BY <1>8, <2>4, <3>2 DEF Changed, In, Register
    <3>4. Register(9, 0) # Register(0, 1)
      BY DEF Register
    <3> QED
      BY <1>4, <1>8, <3>3, <3>4 DEF EntryInv
  <2>5. CASE s # 5
    <3>1. entry'[1] = entry[1]
      BY <1>8, <2>5
    <3>2. (Masked(c)' <=> Masked(c)) /\ (Past(c)' <=> Past(c))
      <4>1. s1 = 0 \/ s1 = s + 1
        BY <1>2
      <4>2. s1 \in 0..7 /\ s1 # 6 /\ (s >= 6 <=> (s1 = 7 \/ s = 7))
        BY <1>2, <2>5
      <4>3. CASE s = 7
        <5>1. at'[c].phase = after /\ s >= 6 /\ at[c].step = s
          BY <1>2, <4>3 DEF s
        <5> QED
          BY <1>2, <5>1 DEF Masked, Past
      <4>4. CASE s # 7
        <5>1. at'[c].phase = at[c].phase /\ (s >= 6 <=> s1 >= 6) /\ at[c].step = s /\ at'[c].step = s1
          BY <1>2, <2>5, <4>4 DEF s, s1
        <5> QED
          BY <5>1 DEF Masked, Past
      <4> QED
        BY <4>3, <4>4
    <3>3. (\E d \in Cores : Masked(d)') => (\E d \in Cores : Masked(d))
      BY <2>1, <3>2
    <3>4. (\A d \in Active' : Past(d)') => (\A d \in Active : Past(d))
      BY <2>1, <3>2 DEF Active
    <3> HIDE DEF Register
    <3> QED
      BY <1>4, <1>8, <3>1, <3>3, <3>4 DEF EntryInv
  <2> QED
    BY <1>2, <2>3, <2>4, <2>5
<1> QED
  BY <1>7, <1>9, <1>10 DEF AccessInv
-----------------------------------------------------------------------------
(***************************************************************************)
(* The invariant, and what each action does to it.                         *)
(***************************************************************************)
BootInv == BootTypes /\ PhaseInv /\ CountInv /\ IoInv

\* A core goes to its next phase outside of the IO-APIC; nobody starts or stops.
LEMMA Plain ==
  ASSUME BootInv, NEW c \in Cores, NEW p \in {"mask", "calibrate", "timer", "panic", "open"},
         Goto(c, p), at[c].phase \in {"ps2", "start", "timer", "arrive"},
         p = "mask" <=> at[c].phase = "arrive", p = "calibrate" => at[c].phase = "ps2",
         UNCHANGED <<table, totalProcs, starting, howManyAreHere, main, ioapic>>
  PROVE  BootInv'
<1> DEFINE n == [phase |-> p, step |-> 0]
<1>1. n \in Place /\ n.phase = p /\ n.step = 0
  BY DEF Place, Phases
<1>2. at' = [at EXCEPT ![c] = n] /\ at \in [Cores -> Place]
  BY DEF Goto, BootInv, BootTypes
<1> HIDE DEF n
<1>3. at'[c] = n /\ \A d \in Cores : d # c => at'[d] = at[d]
  BY <1>2
<1>4. c = 0 /\ n.phase \in Alone => at[0].phase \in Alone
  BY <1>1 DEF BootInv, PhaseInv, Alone
<1>5. n.phase \in {"ps2", "calibrate"} => c = 0
  BY <1>1 DEF BootInv, PhaseInv
<1>6. PhaseInv' /\ Active' = Active
  <2>1. at[c].phase \notin {"off", "prepare"}
        /\ n.phase \notin {"off", "prepare", "arrive", "start"}
    BY <1>1
  <2> QED
    BY <1>1, <1>2, <1>4, <1>5, <2>1, Moving DEF BootInv
<1>7. BootTypes'
  BY <1>1, <1>2 DEF BootInv, BootTypes
<1>8. CountInv'
  <2>1. Stopped' = Stopped
    BY <1>1, <1>3 DEF Stopped
  <2> QED
    BY <2>1, Counted DEF BootInv
<1>9. IoInv'
  <2>1. \A d \in Cores : Inside(d)' => at'[d] = at[d]
    BY <1>1, <1>3 DEF Inside
  <2>2. \A d \in Cores : Masked(d)' => Masked(d)
    BY <1>1, <1>3 DEF Masked
  <2>3. c \in Active' /\ ~Past(c)'
    BY <1>1, <1>3 DEF Active, Past
  <2> QED
    BY <2>1, <2>2, <2>3, IoStays DEF BootInv
<1> QED
  BY <1>6, <1>7, <1>8, <1>9 DEF BootInv

\* What kernelInit does before SMP::init: the first core, alone, learns how many
\* processors there are.
LEMMA PrepareKeeps == ASSUME BootInv, NEW c \in Cores, Prepare(c) PROVE BootInv'
<1> DEFINE n == [phase |-> "mask", step |-> 0]
<1>1. n \in Place
  BY DEF Place, Phases
<1>2. /\ at' = [at EXCEPT ![c] = n] /\ at \in [Cores -> Place] /\ at[c].phase = "prepare"
      /\ totalProcs' = Total
      /\ UNCHANGED <<table, starting, howManyAreHere, main, ioapic>>
  BY DEF Prepare, In, Goto, BootInv, BootTypes, Total
<1>3. c = 0 /\ Active = {0} /\ totalProcs = 0
  BY <1>2 DEF BootInv, PhaseInv
<1>4. at'[c] = n /\ \A d \in Cores : d # c => at'[d] = at[d]
  BY <1>2
<1>5. Active' = {0}
  BY <1>2, <1>3, <1>4 DEF Active
<1>6. Total' = Total /\ Total \in Nat \ {0}
  BY <1>2, TotalIs DEF Total, BootInv, BootTypes
<1>7. BootTypes'
  BY <1>1, <1>2, <1>6 DEF BootInv, BootTypes
<1>8. PhaseInv'
  <2>1. 0 \in 0..(totalProcs' - 1)
    BY <1>2, <1>6
  <2> QED
    BY <1>2, <1>3, <1>4, <1>5, <1>6, <2>1 DEF BootInv, PhaseInv, Alone
<1>9. CountInv'
  <2>1. Stopped' = Stopped
    BY <1>2, <1>4 DEF Stopped
  <2>2. Stopped = {}
    BY <1>2, <1>3 DEF Stopped, Active
  <2>3. howManyAreHere = 0 /\ main = 0
    BY <1>3, <2>2, FS_EmptySet DEF BootInv, CountInv
  <2> QED
    BY <1>2, <1>6, <2>1, <2>2, <2>3, FS_EmptySet DEF CountInv
<1>10. IoInv'
  <2>1. \A d \in Cores : Inside(d)' => at'[d] = at[d]
    BY <1>4 DEF Inside
  <2>2. \A d \in Cores : Masked(d)' => Masked(d)
    BY <1>4 DEF Masked
  <2>3. c \in Active' /\ ~Past(c)'
    BY <1>3, <1>4, <1>5 DEF Past
  <2> QED
    BY <1>2, <2>1, <2>2, <2>3, IoStays DEF BootInv
<1> QED
  BY <1>7, <1>8, <1>9, <1>10 DEF BootInv

\* SMP::init's closing and the last openIRQ: one access of eight each.
LEMMA AccessStep ==
  ASSUME BootInv, NEW c \in Cores, Accessing(c), NEW after \in {"ps2", "timer", "count"},
         Access(c, after), after = "count" <=> at[c].phase = "open", after = "ps2" => c = 0,
         UNCHANGED <<table, totalProcs, starting, howManyAreHere, main>>
  PROVE  BootInv'
<1> DEFINE n == at'[c]
<1>1. BootTypes
  BY DEF BootInv
<1>2. /\ at[c].step \in 0..7 /\ n \in Place
      /\ n.phase = (IF at[c].step = 7 THEN after ELSE at[c].phase)
      /\ \A d \in Cores : d # c => at'[d] = at[d]
      /\ at[c].phase \in {"mask", "open"}
  BY <1>1, AccessMoves DEF Accessing, In
<1>3. at' = [at EXCEPT ![c] = n]
  <2>1. at' = [at EXCEPT ![c] = IF at[c].step = 7 THEN [phase |-> after, step |-> 0]
                                ELSE [phase |-> at[c].phase, step |-> at[c].step + 1]]
    BY <1>1, AccessMoves
  <2>2. at \in [Cores -> Place]
    BY <1>1 DEF BootTypes
  <2> QED
    BY <2>1, <2>2
<1> HIDE DEF n
<1>4. PhaseInv' /\ Active' = Active
  <2>1. c = 0 /\ n.phase \in Alone => at[0].phase \in Alone
    BY <1>2 DEF Alone
  <2>2. /\ n.phase \in {"ps2", "calibrate"} => c = 0
        /\ at[c].phase \notin {"off", "prepare"}
        /\ n.phase \notin {"off", "prepare", "arrive", "start"}
    BY <1>2
  <2> QED
    BY <1>1, <1>2, <1>3, <2>1, <2>2, Moving DEF BootInv
<1>5. BootTypes'
  BY <1>1, <1>2, <1>3 DEF BootTypes
<1>6. CountInv'
  <2>1. at'[c].phase # "stop"
    BY <1>2 DEF n
  <2>2. Stopped' = Stopped
    BY <1>2, <2>1 DEF Stopped
  <2> QED
    BY <2>2, Counted DEF BootInv
<1>7. IoInv'
  BY <1>1, <1>4, AccessKeeps DEF BootInv
<1> QED
  BY <1>4, <1>5, <1>6, <1>7 DEF BootInv

\* Pit::calibrate: the first core, still alone, is about to start the others.
LEMMA CalibrateKeeps == ASSUME BootInv, NEW c \in Cores, Calibrate(c) PROVE BootInv'
<1> DEFINE n == [phase |-> "start", step |-> 0]
<1>1. n \in Place
  BY DEF Place, Phases
<1>2. /\ at' = [at EXCEPT ![c] = n] /\ at \in [Cores -> Place] /\ at[c].phase = "calibrate"
      /\ starting' = 1
      /\ UNCHANGED <<table, totalProcs, howManyAreHere, main, ioapic>>
  BY DEF Calibrate, In, Goto, BootInv, BootTypes
<1>3. c = 0 /\ Active = {0} /\ totalProcs = Total /\ Active \subseteq 0..(totalProcs - 1)
  BY <1>2 DEF BootInv, PhaseInv, Alone
<1>4. at'[c] = n /\ \A d \in Cores : d # c => at'[d] = at[d]
  BY <1>2
<1>5. Active' = {0}
  BY <1>2, <1>3, <1>4 DEF Active
<1>6. Total' = Total /\ Total \in Nat \ {0}
  BY <1>2, TotalIs DEF Total, BootInv, BootTypes
<1>7. BootTypes'
  BY <1>1, <1>2 DEF BootInv, BootTypes
<1>8. PhaseInv'
  <2>1. starting' \in 1..totalProcs' /\ Active' \subseteq 0..(starting' - 1)
    BY <1>2, <1>3, <1>5, <1>6
  <2> QED
    BY <1>2, <1>3, <1>4, <1>5, <1>6, <2>1 DEF BootInv, PhaseInv, Alone
<1>9. CountInv'
  <2>1. Stopped' = Stopped
    BY <1>2, <1>4 DEF Stopped
  <2> QED
    BY <1>2, <2>1, Counted DEF BootInv
<1>10. IoInv'
  <2>1. \A d \in Cores : Inside(d)' => at'[d] = at[d]
    BY <1>4 DEF Inside
  <2>2. \A d \in Cores : Masked(d)' => Masked(d)
    BY <1>2, <1>4 DEF Masked
  <2>3. c \in Active' /\ ~Past(c)'
    BY <1>3, <1>4, <1>5 DEF Past
  <2> QED
    BY <1>2, <2>1, <2>2, <2>3, IoStays DEF BootInv
<1> QED
  BY <1>7, <1>8, <1>9, <1>10 DEF BootInv

\* The loop over the ids: a core is started only after the one before it has
\* arrived, and no core is that the loop has not come to.
LEMMA StartNextKeeps == ASSUME BootInv, NEW c \in Cores, StartNext(c) PROVE BootInv'
<1>1. /\ at \in [Cores -> Place] /\ at[c].phase = "start" /\ at[c].step \in Nat
      /\ UNCHANGED <<table, totalProcs, howManyAreHere, main, ioapic>>
  BY DEF StartNext, StartAndWait, In, BootInv, BootTypes, Place
<1>2. /\ c = 0 /\ totalProcs = Total /\ Active \subseteq 0..(totalProcs - 1)
      /\ starting \in 1..totalProcs /\ totalProcs \in Nat
      /\ at[c].step = 0 => Active \subseteq 0..(starting - 1)
      /\ at[c].step # 0 => starting < totalProcs /\ Active \subseteq 0..starting
  BY <1>1 DEF BootInv, PhaseInv, BootTypes
<1>3. CASE starting >= totalProcs
  BY <1>1, <1>3, Plain DEF StartNext, StartAndWait
<1>4. CASE starting < totalProcs /\ at[c].step = 0
  <2> DEFINE n == [phase |-> "arrive", step |-> 0]
             m == [phase |-> "start", step |-> 1]
  <2>1. n \in Place /\ m \in Place
    BY DEF Place, Phases
  <2>2. [at[c] EXCEPT !.step = 1] = m
    BY <1>1 DEF Place
  <2>3. /\ at' = [d \in Cores |-> IF d = starting THEN n ELSE IF d = c THEN m ELSE at[d]]
        /\ starting' = starting
    BY <1>2, <1>4, <2>2 DEF StartNext, StartAndWait
  <2>4. c # starting
    BY <1>2
  <2>5. /\ at'[c] = m /\ \A d \in Cores : d # c /\ d # starting => at'[d] = at[d]
        /\ starting \in Cores => at'[starting] = n /\ at[starting].phase = "off"
    <3>1. starting \in Cores => at[starting].phase = "off"
      BY <1>2, <1>4 DEF Active
    <3> QED
      BY <2>3, <2>4, <3>1
  <2>6. BootTypes'
    BY <1>1, <1>2, <2>1, <2>3 DEF BootInv, BootTypes
  <2>7. Active' \subseteq 0..starting
    <3>1. Active' \subseteq Active \cup {starting}
      BY <1>1, <2>5 DEF Active
    <3> QED
      BY <1>2, <1>4, <3>1
  <2>8. PhaseInv'
    <3>1. Active' \subseteq 0..(totalProcs' - 1)
      BY <1>1, <1>2, <1>4, <2>7
    <3>2. Total' = Total
      BY <1>1 DEF Total
    <3>3. \A d \in Cores : at'[d].phase \in {"prepare", "ps2", "calibrate", "start"} => d = 0
      <4> SUFFICES ASSUME NEW d \in Cores, d # c,
                          at'[d].phase \in {"prepare", "ps2", "calibrate", "start"}
          PROVE  FALSE
        BY <1>2
      <4>1. CASE d = starting
        BY <2>5, <4>1
      <4>2. CASE d # starting
        BY <1>2, <2>5, <4>2 DEF BootInv, PhaseInv
      <4> QED
        BY <4>1, <4>2
    <3>4. at'[0].phase = "start" /\ at'[0].step = 1
      BY <1>2, <2>5
    <3> QED
      BY <1>1, <1>2, <1>4, <2>3, <2>7, <3>1, <3>2, <3>3, <3>4 DEF PhaseInv, Alone
  <2>9. CountInv'
    <3>1. Stopped' = Stopped
      BY <1>1, <2>5 DEF Stopped
    <3> QED
      BY <1>1, <3>1, Counted DEF BootInv
  <2>10. IoInv'
    <3>1. \A d \in Cores : Inside(d)' => at'[d] = at[d]
      BY <2>5 DEF Inside, Accessing, In
    <3>2. \A d \in Cores : Masked(d)' => Masked(d)
      BY <1>1, <2>5 DEF Masked
    <3>3. c \in Active' /\ ~Past(c)'
      BY <2>5 DEF Active, Past
    <3> QED
      BY <1>1, <3>1, <3>2, <3>3, IoStays DEF BootInv
  <2> QED
    BY <2>6, <2>8, <2>9, <2>10 DEF BootInv
<1>5. CASE starting < totalProcs /\ at[c].step = 1 /\ starting' = starting + 1 /\ Goto(c, "start")
  <2> DEFINE n == [phase |-> "start", step |-> 0]
  <2>1. n \in Place
    BY DEF Place, Phases
  <2>2. at' = [at EXCEPT ![c] = n]
    BY <1>5 DEF Goto
  <2>3. at'[c] = n /\ \A d \in Cores : d # c => at'[d] = at[d]
    BY <1>1, <2>2
  <2>4. Active' = Active
    BY <1>1, <2>3 DEF Active
  <2>5. BootTypes'
    BY <1>1, <1>2, <1>5, <2>1, <2>2 DEF BootInv, BootTypes
  <2>6. PhaseInv'
    <3>1. starting' \in 1..totalProcs' /\ Active' \subseteq 0..(starting' - 1)
      BY <1>1, <1>2, <1>5, <2>4
    <3>2. Total' = Total
      BY <1>1 DEF Total
    <3>3. at'[0].phase = "start" /\ at'[0].step = 0
      BY <1>2, <2>3
    <3>4. \A d \in Cores : at'[d].phase \in {"prepare", "ps2", "calibrate", "start"} => d = 0
      BY <1>2, <2>3 DEF BootInv, PhaseInv
    <3>5. totalProcs' = Total' /\ Active' \subseteq 0..(totalProcs' - 1)
      BY <1>1, <1>2, <2>4, <3>2
    <3> QED
      BY <3>1, <3>3, <3>4, <3>5 DEF PhaseInv, Alone
  <2>7. CountInv'
    <3>1. Stopped' = Stopped
      BY <1>1, <2>3 DEF Stopped
    <3> QED
      BY <1>1, <3>1, Counted DEF BootInv
  <2>8. IoInv'
    <3>1. \A d \in Cores : Inside(d)' => at'[d] = at[d]
      BY <2>3 DEF Inside
    <3>2. \A d \in Cores : Masked(d)' => Masked(d)
      BY <1>1, <2>3 DEF Masked
    <3>3. c \in Active' /\ ~Past(c)'
      BY <2>3 DEF Active, Past
    <3> QED
      BY <1>1, <3>1, <3>2, <3>3, IoStays DEF BootInv
  <2> QED
    BY <2>5, <2>6, <2>7, <2>8 DEF BootInv
<1> QED
  BY <1>2, <1>3, <1>4, <1>5 DEF StartNext, StartAndWait

\* add_fetch on howManyAreHere: the core that finds the number of processors is
\* the last, because no more cores run than there are processors.
LEMMA CountHereKeeps == ASSUME BootInv, NEW c \in Cores, CountHere(c) PROVE BootInv'
<1> DEFINE n == [phase |-> "stop", step |-> 0]
<1>1. n \in Place
  BY DEF Place, Phases
<1>2. /\ at' = [at EXCEPT ![c] = n] /\ at \in [Cores -> Place] /\ at[c].phase = "count"
      /\ howManyAreHere' = howManyAreHere + 1
      /\ main' = IF howManyAreHere' = totalProcs THEN main + 1 ELSE main
      /\ UNCHANGED <<table, totalProcs, starting, ioapic>>
  BY DEF CountHere, In, Goto, BootInv, BootTypes
<1>3. at'[c] = n /\ \A d \in Cores : d # c => at'[d] = at[d]
  BY <1>2
<1>4. PhaseInv' /\ Active' = Active
  <2>1. c = 0 /\ n.phase \in Alone => at[0].phase \in Alone
    BY DEF Alone
  <2> QED
    BY <1>1, <1>2, <2>1, Moving DEF BootInv
<1>5. at[0].phase # "prepare" /\ c \in Active
  BY <1>2 DEF BootInv, PhaseInv, Active
<1>6. Active \subseteq 0..(totalProcs - 1) /\ totalProcs \in Nat \ {0}
  <2>1. totalProcs = Total /\ Active \subseteq 0..(totalProcs - 1)
    BY <1>5 DEF BootInv, PhaseInv
  <2> QED
    BY <2>1, TotalIs DEF Total, BootInv, BootTypes
<1>7. /\ IsFiniteSet(Stopped) /\ Stopped \subseteq Active /\ c \notin Stopped
      /\ Cardinality(Stopped) \in Nat
  BY <1>2, Few DEF BootInv, Stopped
<1>8. Stopped' = Stopped \cup {c}
  BY <1>3 DEF Stopped
<1>9. Cardinality(Stopped') = Cardinality(Stopped) + 1
  BY <1>7, <1>8, FS_AddElement
<1>10. Cardinality(Stopped') <= totalProcs
  <2>1. Stopped' \subseteq 0..(totalProcs - 1)
    BY <1>5, <1>6, <1>7, <1>8
  <2>2. 0 \in Int /\ totalProcs - 1 \in Int /\ 0 <= totalProcs - 1
    BY <1>6
  <2>3. IsFiniteSet(0..(totalProcs - 1)) /\ Cardinality(0..(totalProcs - 1)) = totalProcs
    BY <1>6, <2>2, FS_Interval
  <2> QED
    BY <2>1, <2>3, FS_Subset
<1>11. howManyAreHere < totalProcs /\ main = 0 /\ howManyAreHere \in Nat
  BY <1>6, <1>7, <1>9, <1>10 DEF BootInv, CountInv
<1>12. CountInv'
  BY <1>2, <1>6, <1>7, <1>9, <1>11 DEF BootInv, CountInv
<1>13. BootTypes'
  BY <1>1, <1>2, <1>11 DEF BootInv, BootTypes
<1>14. IoInv'
  <2>1. \A d \in Cores : Inside(d)' => at'[d] = at[d]
    BY <1>3 DEF Inside
  <2>2. \A d \in Cores : Masked(d)' => Masked(d)
    BY <1>2, <1>3 DEF Masked
  <2>3. \A d \in Active : Past(d) \/ Past(d)' = Past(d)
    BY <1>2, <1>3 DEF Past, Active
  <2>4. \A d \in Active : Past(d) \/ \E e \in Active' : ~Past(e)'
    BY <1>4, <2>3
  <2> QED
    BY <1>2, <2>1, <2>2, <2>4, IoStays DEF BootInv
<1> QED
  BY <1>4, <1>12, <1>13, <1>14 DEF BootInv

-----------------------------------------------------------------------------
\* What the properties read apart from the PS/2 controller.
others == <<table, totalProcs, at, starting, howManyAreHere, main, ioapic>>

\* Nothing of the invariant is about the PS/2 controller.
LEMMA Apart == ASSUME BootInv, UNCHANGED others PROVE BootInv'
<1>1. /\ table' = table /\ totalProcs' = totalProcs /\ at' = at /\ starting' = starting
      /\ howManyAreHere' = howManyAreHere /\ main' = main /\ ioapic' = ioapic
  BY DEF others
<1>2. Active' = Active /\ Stopped' = Stopped /\ Total' = Total
  BY <1>1 DEF Active, Stopped, Total
<1>3. BootTypes' /\ PhaseInv' /\ CountInv'
  BY <1>1, <1>2 DEF BootInv, BootTypes, PhaseInv, CountInv
<1>4. \A d \in Cores : Masked(d)' = Masked(d) /\ Past(d)' = Past(d)
  BY <1>1 DEF Masked, Past
<1>5. \A d \in Active : Past(d) \/ \E e \in Active' : ~Past(e)'
  BY <1>2, <1>4 DEF Active
<1>6. IoInv'
  BY <1>1, <1>4, <1>5, IoStays DEF BootInv
<1> QED
  BY <1>3, <1>6 DEF BootInv

\* Every step of a core or of the PS/2 device keeps the invariant.
LEMMA BootStep == BootInv /\ [Next]_bootVars => BootInv'
<1> SUFFICES ASSUME BootInv, [Next]_bootVars PROVE BootInv'
  OBVIOUS
<1>1. CASE UNCHANGED bootVars
  BY <1>1, Apart DEF bootVars, others
<1>2. CASE External
  BY <1>2, Apart DEF External, others
<1>3. ASSUME NEW c \in Cores, Core(c) PROVE BootInv'
  <2>1. CASE Prepare(c)
    BY <2>1, PrepareKeeps
  <2>2. CASE MaskKeyboard(c)
    <3> DEFINE after == IF c = 0 THEN "ps2" ELSE "timer"
    <3>1. /\ Accessing(c) /\ at[c].phase = "mask" /\ Access(c, after)
          /\ UNCHANGED <<table, totalProcs, starting, howManyAreHere, main>>
      BY <2>2 DEF MaskKeyboard, Accessing, In
    <3>2. after \in {"ps2", "timer", "count"} /\ after # "count" /\ (after = "ps2" => c = 0)
      OBVIOUS
    <3> HIDE DEF after
    <3> QED
      BY <3>1, <3>2, AccessStep
  <2>3. CASE Keyboard(c)
    <3>1. CASE Constructed
      BY <2>3, <3>1, Plain DEF Keyboard, In
    <3>2. CASE ~Constructed
      BY <2>3, <3>2, Apart DEF Keyboard, others
    <3> QED
      BY <3>1, <3>2
  <2>4. CASE Calibrate(c)
    BY <2>4, CalibrateKeeps
  <2>5. CASE StartNext(c)
    BY <2>5, StartNextKeeps
  <2>6. CASE Arrive(c)
    BY <2>6, Plain DEF Arrive, In
  <2>7. CASE StartTimer(c)
    BY <2>7, Plain DEF StartTimer, In
  <2>8. CASE OpenKeyboard(c)
    <3>1. /\ Accessing(c) /\ at[c].phase = "open" /\ Access(c, "count")
          /\ UNCHANGED <<table, totalProcs, starting, howManyAreHere, main>>
      BY <2>8 DEF OpenKeyboard, Accessing, In
    <3> QED
      BY <3>1, AccessStep
  <2>9. CASE CountHere(c)
    BY <2>9, CountHereKeeps
  <2> QED
    BY <1>3, <2>1, <2>2, <2>3, <2>4, <2>5, <2>6, <2>7, <2>8, <2>9 DEF Core
<1> QED
  BY <1>1, <1>2, <1>3 DEF Next

\* When the machine starts, the first core is at kernelInit and the others are off.
LEMMA BootStart == Init => BootInv
<1> SUFFICES ASSUME Init PROVE BootInv
  OBVIOUS
<1>1. 0 \in Cores
  BY BootAssumption
<1>2. /\ \A c \in Cores : at[c] = [phase |-> IF c = 0 THEN "prepare" ELSE "off", step |-> 0]
      /\ \A c \in Cores : at[c].phase = (IF c = 0 THEN "prepare" ELSE "off")
  BY DEF Init
<1>3. at \in [Cores -> Place]
  <2>1. \A c \in Cores : at[c] \in Place
    <3> SUFFICES ASSUME NEW c \in Cores PROVE at[c] \in Place
      OBVIOUS
    <3>1. CASE c = 0
      <4>1. at[c] = [phase |-> "prepare", step |-> 0]
        BY <3>1 DEF Init
      <4> QED
        BY <4>1 DEF Place, Phases
    <3>2. CASE c # 0
      <4>1. at[c] = [phase |-> "off", step |-> 0]
        BY <3>2 DEF Init
      <4> QED
        BY <4>1 DEF Place, Phases
    <3> QED
      BY <3>1, <3>2
  <2> QED
    BY <2>1 DEF Init
<1>4. Active = {0} /\ Stopped = {}
  BY <1>1, <1>2 DEF Active, Stopped
<1>5. BootTypes
  BY <1>3 DEF Init, BootTypes
<1>6. PhaseInv
  BY <1>1, <1>2, <1>4 DEF Init, PhaseInv, Alone
<1>7. CountInv
  BY <1>4, FS_EmptySet DEF Init, CountInv
<1>8. IoInv
  <2>1. \A c \in Cores : ~Inside(c) /\ ~Masked(c) /\ ~Past(c)
    BY <1>2 DEF Inside, Accessing, In, Masked, Past
  <2>2. entry = <<Register(0, 1), Register(0, 0)>>
    BY DEF Init
  <2>3. EntryInv
    <3>1. entry[1] = Register(0, 1) /\ entry[2] = Register(0, 0) /\ entry = <<entry[1], entry[2]>>
      BY <2>2
    <3> HIDE DEF Register
    <3> QED
      BY <1>1, <1>4, <2>1, <3>1 DEF EntryInv
  <2>4. ReTypes
    <3>1. Register(0, 0) \in [vector : Nat, mask : Nat]
      BY DEF Register
    <3>2. Unknown \in {<<a, b>> : a, b \in [vector : Nat, mask : Nat]}
      BY <3>1 DEF Unknown
    <3> QED
      BY <3>2 DEF Init, ReTypes
  <2> QED
    BY <2>1, <2>3, <2>4 DEF Init, IoInv, AccessInv
<1> QED
  BY <1>5, <1>6, <1>7, <1>8 DEF BootInv

\* The invariant holds from the first core's first instruction on.
THEOREM BootInvariance == Spec => []BootInv
<1> QED
  BY BootStart, BootStep, PTL DEF Spec

\* The main thread is created once, when every processor of the table has stopped
\* (the comparison with totalProcs in init.cc).
THEOREM MainIsTheLast == Spec => []MainIsLast
<1>1. BootInv => MainIsLast
  <2> SUFFICES ASSUME BootInv, main > 0
      PROVE  main = 1 /\ \A c \in Listed(table) : In(c, "stop")
    BY DEF MainIsLast
  <2>1. main = 1 /\ totalProcs > 0 /\ Cardinality(Stopped) = totalProcs /\ totalProcs \in Nat
    BY DEF BootInv, BootTypes, CountInv
  <2>2. at[0].phase # "prepare"
    BY <2>1 DEF BootInv, PhaseInv
  <2>3. totalProcs = Total /\ Active \subseteq 0..(totalProcs - 1)
    BY <2>2 DEF BootInv, PhaseInv
  <2>4. Stopped \subseteq 0..(totalProcs - 1)
    BY <2>3, Few DEF BootInv
  <2>5. IsFiniteSet(0..(totalProcs - 1)) /\ Cardinality(0..(totalProcs - 1)) = totalProcs
    <3>1. 0 \in Int /\ totalProcs - 1 \in Int /\ 0 <= totalProcs - 1
      BY <2>1
    <3> QED
      BY <2>1, <3>1, FS_Interval
  <2>6. Stopped = 0..(totalProcs - 1)
    BY <2>1, <2>4, <2>5, FS_Subset
  <2>7. Listed(table) \subseteq 0..Cardinality(OtherProcs(table))
    BY TablesAssumption DEF BootInv, BootTypes
  <2>8. Cardinality(OtherProcs(table)) = totalProcs - 1
    <3>1. Cardinality(OtherProcs(table)) + 1 \in Nat
      BY TotalIs DEF BootInv, BootTypes
    <3>2. IsFiniteSet(OtherProcs(table))
      BY TotalIs DEF BootInv, BootTypes
    <3> QED
      BY <2>1, <2>3, <3>1, <3>2, FS_CardinalityType DEF Total
  <2> QED
    BY <2>1, <2>6, <2>7, <2>8 DEF Stopped, In
<1> QED
  BY <1>1, BootInvariance, PTL

\* When the main thread is created the keyboard's entry is open with its vector,
\* unless two cores were in the IO-APIC at once (closeIRQ, openIRQ).
THEOREM KeyboardIsListening == Spec => []KeyboardListens
<1>1. BootInv => KeyboardListens
  <2> SUFFICES ASSUME BootInv, main > 0, ~overlap
      PROVE  entry = <<Register(9, 0), Register(0, 0)>>
    BY DEF KeyboardListens
  <2>1. Active = Stopped
    <3>1. Cardinality(Stopped) = totalProcs /\ totalProcs > 0 /\ totalProcs \in Nat
      BY DEF BootInv, BootTypes, CountInv
    <3>2. at[0].phase # "prepare"
      BY <3>1 DEF BootInv, PhaseInv
    <3>3. Active \subseteq 0..(totalProcs - 1)
      BY <3>2 DEF BootInv, PhaseInv
    <3>4. IsFiniteSet(0..(totalProcs - 1)) /\ Cardinality(0..(totalProcs - 1)) = totalProcs
      <4>1. 0 \in Int /\ totalProcs - 1 \in Int /\ 0 <= totalProcs - 1
        BY <3>1
      <4> QED
        BY <3>1, <4>1, FS_Interval
    <3>5. Stopped \subseteq Active
      BY Few DEF BootInv
    <3> QED
      BY <3>1, <3>3, <3>4, <3>5, FS_Subset
  <2>2. \A c \in Active : Past(c)
    BY <2>1 DEF Stopped, Past
  <2> QED
    BY <2>2 DEF BootInv, IoInv, EntryInv
<1> QED
  BY <1>1, BootInvariance, PTL

-----------------------------------------------------------------------------
(***************************************************************************)
(* The PS/2 controller. As long as no command was lost, the constructor    *)
(* and the controller are never more than one byte apart: Row(k) says, for *)
(* each step of Script, what was sent last, and what the controller is     *)
(* like before and after it takes that.                                    *)
(***************************************************************************)
Cmd(b) == [is |-> b, bits |-> {}, port |-> "command"]
Dat(d) == [is |-> d.is, bits |-> d.bits, port |-> "data"]

\* No command waits for a byte; an access that has none.
None == ""

\* The controller; seq is what source src has still to answer, of which the first
\* may be in the output buffer.
Owes(src, seq) == [s \in Sources |-> IF s = src THEN seq ELSE << >>]
Holds(w, c, sc, src, seq) ==
  /\ wants = w /\ config = c /\ scanning = sc
  /\ \/ outb = Nothing /\ owed = Owes(src, seq)
     \/ seq # << >> /\ outb = Head(seq) /\ outb # Nothing /\ owed = Owes(src, Tail(seq))
Quiet(w, c) == Holds(w, c, FALSE, "controller", << >>)
Answers(c, b) == Holds(None, c, FALSE, "controller", <<b>>)
Still(w, c) == inb = Nothing /\ Quiet(w, c)

\* At the end two devices have a byte to deliver.
Both == [s \in Sources |-> CASE s = "mouse" -> <<Byte("00")>> [] s = "keyboard" -> <<Byte("FA")>>
                             [] OTHER -> << >>]
Two(c) ==
  /\ wants = "" /\ config = c /\ scanning = TRUE
  /\ \/ outb = Nothing /\ owed = Both
     \/ outb = Byte("00") /\ owed = Owes("keyboard", <<Byte("FA")>>)
     \/ outb = Byte("FA") /\ owed = Owes("mouse", <<Byte("00")>>)

Sent(b, before, after) == (inb = b /\ before) \/ (inb = Nothing /\ after)

\* The number of ports.
Ports(n) == n \in {1, 2} /\ mouse \in BOOLEAN /\ (mouse <=> n = 2)

\* The configuration with both ports disabled, with nothing else, with the first
\* port enabled, and at the end.
Second(n) == IF n = 2 THEN {5} ELSE {}
Off(n) == {0, 4, 6} \union Second(n)
Silent(n) == {4} \union Second(n)
On(n) == {0, 6} \union (IF n = 2 THEN {1} ELSE {})

\* What the devices had sent before anyone listened is still there, or flushed.
Full(c) ==
  /\ wants = "" /\ config = c /\ scanning = FALSE
  /\ outb \in {Nothing, Junk} /\ owed = Owes("controller", << >>)
FlushRow(k, n) ==
  /\ k = 1 => inb = Nothing /\ Full({0, 6})
  /\ k = 2 => Sent(Cmd("AD"), Full({0, 6}), Full({0, 4, 6}))
  /\ k = 3 => Sent(Cmd("A7"), Full({0, 4, 6}), Full(Off(n)))
Keys(c, seq) == Holds(None, c, FALSE, "keyboard", seq)
Mouse(c, seq) == Holds(None, c, FALSE, "mouse", seq)
Keyed(c) == Holds(None, c, TRUE, "keyboard", <<Byte("FA")>>)
Left(c) == Holds(None, c, TRUE, "mouse", <<Byte("00")>>)
TestRow(k, n) ==
  /\ k = 4 => Sent(Cmd("A7"), Quiet(None, {0, 4, 6}), Quiet(None, Off(n)))
  /\ k = 5 => Sent(Cmd("20"), Quiet(None, Off(n)), Answers(Off(n), Config(Off(n))))
  /\ k = 6 => response = Config(Off(n)) /\ Still(None, Off(n))
  /\ k = 7 => response = Config(Off(n)) /\ Sent(Cmd("60"), Quiet(None, Off(n)), Quiet("60", Off(n)))
  /\ k = 8 => Sent(Dat(Config(Silent(n))), Quiet("60", Off(n)), Quiet(None, Silent(n)))
  /\ k = 9 => Sent(Cmd("AA"), Quiet(None, Silent(n)), Answers(Silent(n), Byte("55")))
  /\ k = 11 => Sent(Cmd("AB"), Quiet(None, Silent(n)), Answers(Silent(n), Byte("00")))
  /\ k = 13 /\ n = 2 => Sent(Cmd("A9"), Quiet(None, Silent(n)), Answers(Silent(n), Byte("00")))
  /\ k \in {10, 12, 14} \/ (k = 13 /\ n = 1) => Still(None, Silent(n))
EnableRow(k, n) ==
  /\ k = 15 \/ (k = 16 /\ n = 1) => Sent(Cmd("AE"), Quiet(None, Silent(n)), Quiet(None, Second(n)))
  /\ k = 16 /\ n = 2 => Sent(Cmd("A8"), Quiet(None, Second(n)), Quiet(None, {}))
  /\ k = 17 => Sent(Cmd("20"), Quiet(None, {}), Answers({}, Config({})))
  /\ k = 18 => response = Config({}) /\ Still(None, {})
  /\ k = 19 => response = Config({}) /\ Sent(Cmd("60"), Quiet(None, {}), Quiet("60", {}))
  /\ k = 20 => Sent(Dat(Config(On(n))), Quiet("60", {}), Quiet(None, On(n)))
ResetRow(k, n) ==
  /\ k = 21 => Sent(Dat(Byte("FF")), Quiet(None, On(n)), Keys(On(n), <<Byte("FA"), Byte("AA")>>))
  /\ k = 22 => inb = Nothing /\ Keys(On(n), <<Byte("AA")>>)
  /\ k = 23 => Still(None, On(n))
  /\ k = 24 => Sent(Cmd("D4"), Quiet(None, On(n)), Quiet("D4", On(n)))
  /\ k = 25 /\ n = 2 =>
       Sent(Dat(Byte("FF")), Quiet("D4", On(n)), Mouse(On(n), <<Byte("FA"), Byte("AA"), Byte("00")>>))
  /\ k = 25 /\ n = 1 => Sent(Dat(Byte("FF")), Quiet("D4", On(n)), Quiet(None, On(n)))
  /\ k > 25 => n = 2
  /\ k = 26 => inb = Nothing /\ Mouse(On(n), <<Byte("AA"), Byte("00")>>)
  /\ k = 27 => inb = Nothing /\ Mouse(On(n), <<Byte("00")>>)
  /\ k = 28 => Sent(Dat(Byte("F4")), Mouse(On(n), <<Byte("00")>>), Two(On(n)))
  /\ k = 29 =>
       Sent(Dat(Byte("F4")), Quiet(None, On(n)), Keyed(On(n))) \/ (inb = Nothing /\ Left(On(n)))

Rows(k, n) == FlushRow(k, n) /\ TestRow(k, n) /\ EnableRow(k, n) /\ ResetRow(k, n)

Row(k) == \E n \in {1, 2} : Ports(n) /\ k \in 1..29 /\ (k > 5 => dual = mouse) /\ Rows(k, n)
PS2Inv == lost \/ Row(step)

(***************************************************************************)
(* Lemmas about one step.                                                  *)
(***************************************************************************)
At(k, op, byte) == Script[k].op = op /\ Script[k].byte = byte /\ Script[k].ifDual = FALSE
AtTwo(k, op, byte) == Script[k].op = op /\ Script[k].byte = byte /\ Script[k].ifDual = TRUE

\* The constructor, step by step.
LEMMA ScriptIs ==
  /\ Len(Script) = 28
  /\ At(1, "command", "AD") /\ At(2, "command", "A7") /\ At(3, "flush", None)
  /\ At(4, "command", "20") /\ At(5, "dual", None) /\ At(6, "command", "60")
  /\ At(7, "write", "quiet") /\ At(8, "command", "AA") /\ At(9, "reply", None)
  /\ At(10, "command", "AB") /\ At(11, "reply", None)
  /\ AtTwo(12, "command", "A9") /\ AtTwo(13, "reply", None)
  /\ At(14, "command", "AE") /\ AtTwo(15, "command", "A8")
  /\ At(16, "command", "20") /\ At(17, "reply", None)
  /\ At(18, "command", "60") /\ At(19, "write", "enabled")
  /\ At(20, "write", "FF") /\ At(21, "reply", None) /\ At(22, "reply", None)
  /\ At(23, "command", "D4") /\ At(24, "write", "FF")
  /\ At(25, "reply", None) /\ At(26, "reply", None)
  /\ At(27, "write", "F4") /\ At(28, "reply", None)
  BY DEF Script, At, AtTwo, Op, Command, IfDual, Flush, Reply, Dual, Write, None

\* Each step of Script is one kind of access.
LEMMA StepIs ==
  ASSUME NEW k \in 1..28, step = k, NEW op, NEW byte, Construct
  PROVE  /\ At(k, op, byte) \/ AtTwo(k, op, byte) =>
              \/ op = "flush" /\ FlushOutput
              \/ AtTwo(k, op, byte) /\ ~dual /\ step' = k + 1 /\ Skip
              \/ /\ AtTwo(k, op, byte) => dual
                 /\ \/ op = "command" /\ step' = k + 1 /\ SendCommand /\ inb' = Cmd(byte)
                    \/ op = "write" /\ step' = k + 1 /\ SendData
                    \/ op \in {"reply", "dual"} /\ step' = k + 1 /\ Receive
         /\ At(k, op, byte) => ~AtTwo(k, op, byte)
<1>0. Len(Script) = 28
  BY ScriptIs
<1>1. Now = Script[k] /\ ~Constructed
  BY <1>0 DEF Now, Constructed
<1>2. CASE At(k, op, byte)
  <2>1. Now.op = op /\ Now.byte = byte /\ Now.ifDual = FALSE
    BY <1>1, <1>2 DEF At
  <2>2. ~AtTwo(k, op, byte)
    BY <1>2 DEF At, AtTwo
  <2> HIDE DEF Now, Constructed
  <2> QED
    BY <1>1, <2>1, <2>2 DEF Construct, Skip, SendCommand, SendData, Receive, FlushOutput, Does, Cmd
<1>3. CASE AtTwo(k, op, byte)
  <2>1. Now.op = op /\ Now.byte = byte /\ Now.ifDual = TRUE
    BY <1>1, <1>3 DEF AtTwo
  <2>2. ~At(k, op, byte)
    BY <1>3 DEF At, AtTwo
  <2> HIDE DEF Now, Constructed
  <2>3. CASE Skip
    BY <1>1, <1>3, <2>2, <2>3 DEF Skip
  <2>4. CASE SendCommand
    BY <1>1, <2>1, <2>2, <2>4 DEF SendCommand, Does, Cmd
  <2>5. CASE SendData
    BY <1>1, <2>1, <2>2, <2>5 DEF SendData, Does
  <2>6. CASE Receive
    BY <1>1, <2>1, <2>2, <2>6 DEF Receive, Does
  <2>7. CASE FlushOutput
    BY <1>1, <2>1, <2>2, <2>7 DEF FlushOutput, Does
  <2> QED
    BY <2>3, <2>4, <2>5, <2>6, <2>7 DEF Construct
<1> QED
  BY <1>2, <1>3

\* What the buffers hold is something.
LEMMA Somethings ==
  /\ \A b : Cmd(b) # Nothing
  /\ \A d : Dat(d) # Nothing
  /\ \A c : Config(c) # Nothing
  /\ Junk # Nothing /\ Byte("55") # Nothing /\ Byte("00") # Nothing
  /\ Byte("FA") # Nothing /\ Byte("AA") # Nothing
  BY DEF Cmd, Dat, Config, Junk, Byte, Nothing

\* Takes of bytes and answers leave the rest of Holds alone.
LEMMA HoldsStill ==
  ASSUME NEW w, NEW c, NEW sc, NEW src, NEW seq, Holds(w, c, sc, src, seq),
         UNCHANGED <<outb, controller>>
  PROVE  Holds(w, c, sc, src, seq)'
  BY DEF Holds, controller

\* The same for what nobody listened to.
LEMMA FullStill ==
  ASSUME NEW c, Full(c), UNCHANGED <<outb, controller>>
  PROVE  Full(c)'
  BY DEF Full, controller

Good(seq) == seq \in Seq({Junk, Byte("55"), Byte("00"), Byte("FA"), Byte("AA")}
                           \union {Config(c) : c \in SUBSET (0..6)})

\* What is owed is something.
LEMMA GoodIs ==
  ASSUME NEW seq, Good(seq), seq # << >>
  PROVE  Head(seq) # Nothing /\ Good(Tail(seq))
<1> DEFINE S == {Junk, Byte("55"), Byte("00"), Byte("FA"), Byte("AA")}
                  \union {Config(c) : c \in SUBSET (0..6)}
<1>1. seq \in Seq(S) /\ (Good(Tail(seq)) <=> Tail(seq) \in Seq(S))
  BY DEF Good
<1>2. \A x \in S : x # Nothing
  BY Somethings
<1> HIDE DEF S
<1>3. Head(seq) \in S /\ Tail(seq) \in Seq(S)
  BY <1>1
<1> QED
  BY <1>1, <1>2, <1>3

\* A source delivers the next byte, if there is one.
LEMMA DeliverKeeps ==
  ASSUME NEW w, NEW c, NEW sc, NEW src \in Sources, NEW seq, Good(seq), Holds(w, c, sc, src, seq),
         NEW s \in Sources, Deliver(s)
  PROVE  Holds(w, c, sc, src, seq)'
<1>1. CASE outb = Nothing /\ owed = Owes(src, seq)
  <2>1. s = src /\ seq # << >> /\ owed[s] = seq
    BY <1>1 DEF Deliver, Owes
  <2>2. Head(seq) # Nothing
    BY <2>1, GoodIs
  <2>3. owed' = Owes(src, Tail(seq))
    BY <1>1, <2>1 DEF Deliver, Owes
  <2> QED
    BY <1>1, <2>1, <2>2, <2>3 DEF Deliver, Holds
<1>2. CASE seq # << >> /\ outb = Head(seq) /\ outb # Nothing
  BY <1>2 DEF Deliver
<1> QED
  BY <1>1, <1>2 DEF Holds

\* Nobody else delivers anything.
LEMMA FullDelivers ==
  ASSUME NEW c, Full(c), NEW s \in Sources, Deliver(s)
  PROVE  FALSE
  BY DEF Full, Deliver, Owes

\* The constructor reads the byte that is next.
LEMMA ReceiveIs ==
  ASSUME NEW w, NEW c, NEW sc, NEW src, NEW seq, Holds(w, c, sc, src, seq), Receive
  PROVE  seq # << >> /\ response' = Head(seq) /\ Holds(w, c, sc, src, Tail(seq))'
  BY DEF Holds, Receive, controller

\* With nothing owed it waits.
LEMMA ReceiveNone ==
  ASSUME NEW w, NEW c, NEW sc, NEW src, Holds(w, c, sc, src, << >>), Receive
  PROVE  FALSE
  BY ReceiveIs

\* One byte is read, and none is left.
LEMMA ReceiveOne ==
  ASSUME NEW c, NEW b, Answers(c, b), Receive
  PROVE  response' = b /\ Quiet(None, c)'
<1>1. Head(<<b>>) = b /\ Tail(<<b>>) = << >>
  OBVIOUS
<1> QED
  BY <1>1, ReceiveIs DEF Answers, Quiet

\* An answer is added to what is owed, when nothing is.
LEMMA AnswerIs ==
  ASSUME NEW w, NEW c, NEW sc, NEW src, Holds(w, c, sc, src, << >>)
  PROVE  /\ outb = Nothing /\ \A s \in Sources : owed = Owes(s, << >>)
         /\ \A s \in Sources : \A b : Answer(s, <<b>>) => owed' = Owes(s, <<b>>)
         /\ \A s \in Sources : \A a, b : Answer(s, <<a, b>>) => owed' = Owes(s, <<a, b>>)
         /\ \A s \in Sources : \A a, b, d : Answer(s, <<a, b, d>>) => owed' = Owes(s, <<a, b, d>>)
<1>1. outb = Nothing /\ owed = [s \in Sources |-> << >>]
  BY DEF Holds, Owes
<1>2. /\ \A b : << >> \o <<b>> = <<b>>
      /\ \A a, b : << >> \o <<a, b>> = <<a, b>>
      /\ \A a, b, d : << >> \o <<a, b, d>> = <<a, b, d>>
  OBVIOUS
<1>3. \A s \in Sources : \A r : Answer(s, r) => owed' = Owes(s, << >> \o r)
  BY <1>1 DEF Owes, Answer
<1>4. \A s \in Sources : owed = Owes(s, << >>)
  BY <1>1 DEF Owes
<1>5. \A s \in Sources : \A b : Answer(s, <<b>>) => owed' = Owes(s, <<b>>)
  BY ONLY <1>2, <1>3
<1>6. \A s \in Sources : \A a, b : Answer(s, <<a, b>>) => owed' = Owes(s, <<a, b>>)
  BY ONLY <1>2, <1>3
<1>7. \A s \in Sources : \A a, b, d : Answer(s, <<a, b, d>>) => owed' = Owes(s, <<a, b, d>>)
  BY ONLY <1>2, <1>3
<1> QED
  BY <1>1, <1>4, <1>5, <1>6, <1>7

\* The bit of a command in the configuration.
Turned(b, c, n) ==
  CASE b = "AD" -> c \union {4} [] b = "AE" -> c \ {4}
    [] b = "A7" /\ n = 2 -> c \union {5} [] b = "A8" /\ n = 2 -> c \ {5} [] OTHER -> c
PortCommands == {"AD", "AE", "A7", "A8"}

\* What a command to the controller does, with nothing owed.
LEMMA CommandIs ==
  ASSUME NEW n \in {1, 2}, Ports(n), NEW b, inb = Cmd(b), TakeCommand, NEW c, Quiet(None, c)
  PROVE  /\ inb' = Nothing
         /\ b \in PortCommands => Quiet(None, Turned(b, c, n))'
         /\ b \in {"60", "D4"} => Quiet(b, c)'
         /\ b = "20" => Answers(c, Config(c))'
         /\ b = "AA" => Answers(c, Byte("55"))'
         /\ b = "AB" \/ (b = "A9" /\ n = 2) => Answers(c, Byte("00"))'
<1>1. inb.is = b /\ inb' = Nothing /\ outb' = outb /\ scanning' = scanning
  BY DEF TakeCommand, Cmd, None
<1>2. wants = "" /\ config = c /\ scanning = FALSE /\ outb = Nothing
  BY AnswerIs DEF Quiet, Holds, None
<1>3. owed = Owes("controller", << >>) /\ "controller" \in Sources
  BY AnswerIs DEF Quiet, Sources
<1>4. wants' = IF b \in {"60", "D4"} THEN b ELSE ""
  BY <1>1 DEF TakeCommand, None
<1>5. b \in PortCommands => config' = Turned(b, c, n) /\ owed' = owed
  BY <1>1, <1>2 DEF TakeCommand, Turned, PortCommands, None, Ports
<1>6. b \in {"60", "D4"} => config' = c /\ owed' = owed
  BY <1>1, <1>2 DEF TakeCommand, None
<1>7. b \in {"20", "AA", "AB", "A9"} => config' = c
  BY <1>1, <1>2 DEF TakeCommand, None
<1>8. b = "20" => owed' = Owes("controller", <<Config(c)>>)
  <2>1. b = "20" => Answer("controller", <<Config(c)>>)
    BY <1>1, <1>2 DEF TakeCommand, None
  <2> QED
    BY <2>1, <1>3, AnswerIs DEF Quiet
<1>9. b = "AA" => owed' = Owes("controller", <<Byte("55")>>)
  <2>1. b = "AA" => Answer("controller", <<Byte("55")>>)
    BY <1>1, <1>2 DEF TakeCommand, None
  <2> QED
    BY <2>1, <1>3, AnswerIs DEF Quiet
<1>10. b = "AB" \/ (b = "A9" /\ n = 2) => owed' = Owes("controller", <<Byte("00")>>)
  <2>1. b = "AB" \/ (b = "A9" /\ n = 2) => Answer("controller", <<Byte("00")>>)
    BY <1>1, <1>2 DEF TakeCommand, None, Ports
  <2> QED
    BY <2>1, <1>3, AnswerIs DEF Quiet
<1>11. b \in PortCommands => Quiet(None, Turned(b, c, n))'
  BY <1>1, <1>2, <1>3, <1>4, <1>5 DEF Quiet, Holds, PortCommands, None
<1>12. b \in {"60", "D4"} => Quiet(b, c)'
  BY <1>1, <1>2, <1>3, <1>4, <1>6 DEF Quiet, Holds, None
<1>13. b = "20" => Answers(c, Config(c))'
  BY <1>1, <1>2, <1>4, <1>7, <1>8 DEF Answers, Holds, None
<1>14. b = "AA" => Answers(c, Byte("55"))'
  BY <1>1, <1>2, <1>4, <1>7, <1>9 DEF Answers, Holds, None
<1>15. b = "AB" \/ (b = "A9" /\ n = 2) => Answers(c, Byte("00"))'
  BY <1>1, <1>2, <1>4, <1>7, <1>10 DEF Answers, Holds, None
<1> QED
  BY <1>1, <1>11, <1>12, <1>13, <1>14, <1>15

\* The first two commands find what nobody listened to.
LEMMA FullCommand ==
  ASSUME NEW n \in {1, 2}, Ports(n), NEW b \in PortCommands, inb = Cmd(b), TakeCommand, NEW c, Full(c)
  PROVE  inb' = Nothing /\ Full(Turned(b, c, n))'
<1>1. inb.is = b /\ inb' = Nothing /\ outb' = outb /\ scanning' = scanning
  BY DEF TakeCommand, Cmd, None
<1>2. wants' = "" /\ config' = Turned(b, c, n) /\ owed' = owed
  BY <1>1 DEF TakeCommand, Full, Turned, PortCommands, None, Ports
<1> QED
  BY <1>1, <1>2 DEF Full

\* What a data byte does.
LEMMA DataIs ==
  ASSUME NEW n \in {1, 2}, Ports(n), NEW d, inb = Dat(d), TakeData,
         NEW w, NEW c, Quiet(w, c)
  PROVE  /\ inb' = Nothing
         /\ w = "60" => Quiet(None, d.bits)'
         /\ w = None /\ d.is = "FF" => Holds(None, c, FALSE, "keyboard", <<Byte("FA"), Byte("AA")>>)'
         /\ w = None /\ d.is = "F4" => Holds(None, c, TRUE, "keyboard", <<Byte("FA")>>)'
         /\ w = "D4" /\ n = 2 =>
              Holds(None, c, FALSE, "mouse", <<Byte("FA"), Byte("AA"), Byte("00")>>)'
         /\ w = "D4" /\ n = 1 => Quiet(None, c)'
<1>1. inb.is = d.is /\ inb.bits = d.bits /\ inb' = Nothing /\ outb' = outb /\ wants' = ""
  BY DEF TakeData, Dat, None
<1>2. wants = w /\ config = c /\ scanning = FALSE /\ outb = Nothing
  BY AnswerIs DEF Quiet, Holds, None
<1>3. owed = Owes("controller", << >>) /\ "keyboard" \in Sources /\ "mouse" \in Sources
  BY AnswerIs DEF Quiet, Sources
<1>4. w = "60" => config' = d.bits /\ scanning' = FALSE /\ owed' = owed
  BY <1>1, <1>2 DEF TakeData, None
<1>5. w = None /\ d.is = "FF" => config' = c /\ scanning' = FALSE
  BY <1>1, <1>2 DEF TakeData, None
<1>6. w = None /\ d.is = "FF" => owed' = Owes("keyboard", <<Byte("FA"), Byte("AA")>>)
  <2>1. w = None /\ d.is = "FF" => Answer("keyboard", <<Byte("FA"), Byte("AA")>>)
    BY <1>1, <1>2 DEF TakeData, None
  <2> QED
    BY <2>1, <1>3, AnswerIs DEF Quiet
<1>7. w = None /\ d.is = "F4" => config' = c /\ scanning' = TRUE
  BY <1>1, <1>2 DEF TakeData, None
<1>8. w = None /\ d.is = "F4" => owed' = Owes("keyboard", <<Byte("FA")>>)
  <2>1. w = None /\ d.is = "F4" => Answer("keyboard", <<Byte("FA")>>)
    BY <1>1, <1>2 DEF TakeData, None
  <2> QED
    BY <2>1, <1>3, AnswerIs DEF Quiet
<1>9. w = "D4" => config' = c /\ scanning' = FALSE
  BY <1>1, <1>2 DEF TakeData, None
<1>10. w = "D4" /\ n = 2 => owed' = Owes("mouse", <<Byte("FA"), Byte("AA"), Byte("00")>>)
  <2>1. w = "D4" /\ n = 2 => Answer("mouse", <<Byte("FA"), Byte("AA"), Byte("00")>>)
    BY <1>1, <1>2 DEF TakeData, None, Ports
  <2> QED
    BY <2>1, <1>3, AnswerIs DEF Quiet
<1>11. w = "D4" /\ n = 1 => owed' = owed
  <2>1. n = 1 => ~mouse
    BY DEF Ports
  <2> QED
    BY <1>1, <1>2, <2>1 DEF TakeData
<1>12. w = "60" => Quiet(None, d.bits)'
  BY <1>1, <1>2, <1>3, <1>4 DEF Quiet, Holds, None
<1>13. w = None /\ d.is = "FF" => Holds(None, c, FALSE, "keyboard", <<Byte("FA"), Byte("AA")>>)'
  BY <1>1, <1>2, <1>5, <1>6 DEF Holds, None
<1>14. w = None /\ d.is = "F4" => Holds(None, c, TRUE, "keyboard", <<Byte("FA")>>)'
  BY <1>1, <1>2, <1>7, <1>8 DEF Holds, None
<1>15. w = "D4" /\ n = 2 =>
         Holds(None, c, FALSE, "mouse", <<Byte("FA"), Byte("AA"), Byte("00")>>)'
  BY <1>1, <1>2, <1>9, <1>10 DEF Holds, None
<1>16. w = "D4" /\ n = 1 => Quiet(None, c)'
  BY <1>1, <1>2, <1>3, <1>9, <1>11 DEF Quiet, Holds, None
<1> QED
  BY <1>1, <1>12, <1>13, <1>14, <1>15, <1>16

\* The devices take what was sent, or deliver.
LEMMA DeviceIs ==
  ASSUME Device
  PROVE  \/ /\ inb # Nothing /\ inb' = Nothing /\ UNCHANGED <<constructor, mouse, lost>>
            /\ \/ TakeCommand /\ \A d : inb # Dat(d)
               \/ TakeData /\ \A b : inb # Cmd(b)
         \/ UNCHANGED <<inb, constructor, mouse, lost>> /\ \E s \in Sources : Deliver(s)
<1>0. (\A d : Dat(d).port = "data") /\ (\A b : Cmd(b).port = "command")
  BY DEF Dat, Cmd
<1>1. CASE TakeCommand
  <2>1. inb.port = "command" /\ inb # Nothing /\ inb' = Nothing
    BY <1>1 DEF TakeCommand, None
  <2>2. UNCHANGED <<constructor, mouse, lost>>
    BY <1>1 DEF TakeCommand, None
  <2> QED
    BY <1>0, <1>1, <2>1, <2>2
<1>2. CASE TakeData
  <2>1. inb.port = "data" /\ inb # Nothing /\ inb' = Nothing
    BY <1>2 DEF TakeData, None
  <2>2. UNCHANGED <<constructor, mouse, lost>>
    BY <1>2 DEF TakeData, None
  <2> QED
    BY <1>0, <1>2, <2>1, <2>2
<1>3. CASE \E s \in Sources : Deliver(s)
  BY <1>3 DEF Deliver
<1> QED
  BY <1>1, <1>2, <1>3 DEF Device

\* A source delivers, whoever owes.
LEMMA DeliverHolds ==
  ASSUME NEW w, NEW c, NEW sc, NEW src \in Sources, NEW seq, Good(seq), Holds(w, c, sc, src, seq),
         \E s \in Sources : Deliver(s)
  PROVE  Holds(w, c, sc, src, seq)'
  BY DeliverKeeps

\* Nothing is owed: nothing is delivered.
LEMMA DeliverQuiet ==
  ASSUME NEW w, NEW c, Quiet(w, c), \E s \in Sources : Deliver(s)
  PROVE  Quiet(w, c)'
<1>1. Good(<< >>) /\ "controller" \in Sources
  BY DEF Good, Sources
<1> QED
  BY <1>1, DeliverHolds DEF Quiet

\* One answer of the controller.
LEMMA DeliverAnswer ==
  ASSUME NEW c, NEW b, Good(<<b>>), Answers(c, b), \E s \in Sources : Deliver(s)
  PROVE  Answers(c, b)'
<1>1. "controller" \in Sources
  BY DEF Sources
<1> QED
  BY <1>1, DeliverHolds DEF Answers

\* A port is enabled or disabled.
LEMMA SentPlain ==
  ASSUME NEW n \in {1, 2}, Ports(n), NEW b \in PortCommands, NEW c,
         Sent(Cmd(b), Quiet(None, c), Quiet(None, Turned(b, c, n))), Device
  PROVE  Sent(Cmd(b), Quiet(None, c), Quiet(None, Turned(b, c, n)))'
<1>1. CASE \E s \in Sources : Deliver(s)
  BY <1>1, DeliverQuiet DEF Sent, Deliver
<1>2. CASE TakeCommand /\ inb # Nothing
  <2>1. inb = Cmd(b) /\ Quiet(None, c)
    BY <1>2 DEF Sent
  <2> QED
    BY <1>2, <2>1, CommandIs DEF Sent
<1> QED
  BY <1>1, <1>2, DeviceIs, Somethings DEF Sent

\* The same before anyone listened.
LEMMA SentFull ==
  ASSUME NEW n \in {1, 2}, Ports(n), NEW b \in PortCommands, NEW c,
         Sent(Cmd(b), Full(c), Full(Turned(b, c, n))), Device
  PROVE  Sent(Cmd(b), Full(c), Full(Turned(b, c, n)))'
<1>1. CASE \E s \in Sources : Deliver(s)
  BY <1>1, FullDelivers DEF Sent
<1>2. CASE TakeCommand /\ inb # Nothing
  <2>1. inb = Cmd(b) /\ Full(c)
    BY <1>2 DEF Sent
  <2> QED
    BY <1>2, <2>1, FullCommand DEF Sent
<1> QED
  BY <1>1, <1>2, DeviceIs, Somethings DEF Sent

\* A command that waits for its byte.
LEMMA SentPrefix ==
  ASSUME NEW n \in {1, 2}, Ports(n), NEW b \in {"60", "D4"}, NEW c,
         Sent(Cmd(b), Quiet(None, c), Quiet(b, c)), Device
  PROVE  Sent(Cmd(b), Quiet(None, c), Quiet(b, c))'
<1>1. CASE \E s \in Sources : Deliver(s)
  BY <1>1, DeliverQuiet DEF Sent, Deliver
<1>2. CASE TakeCommand /\ inb # Nothing
  <2>1. inb = Cmd(b) /\ Quiet(None, c)
    BY <1>2 DEF Sent
  <2> QED
    BY <1>2, <2>1, CommandIs DEF Sent
<1> QED
  BY <1>1, <1>2, DeviceIs, Somethings DEF Sent

\* A question with its answer.
Asks(b, c, a, n) ==
  \/ (b = "20" /\ a = Config(c)) \/ (b = "AA" /\ a = Byte("55"))
  \/ (b = "AB" \/ (b = "A9" /\ n = 2)) /\ a = Byte("00")

\* While the question is on its way nothing else happens; then its answer is owed.
LEMMA SentQuestion ==
  ASSUME NEW n \in {1, 2}, Ports(n), NEW b, NEW c, NEW a, Asks(b, c, a, n), Good(<<a>>),
         Sent(Cmd(b), Quiet(None, c), Answers(c, a)), Device
  PROVE  Sent(Cmd(b), Quiet(None, c), Answers(c, a))'
<1>1. CASE \E s \in Sources : Deliver(s)
  BY <1>1, DeliverQuiet, DeliverAnswer DEF Sent, Deliver
<1>2. CASE TakeCommand /\ inb # Nothing
  <2>1. inb = Cmd(b) /\ Quiet(None, c)
    BY <1>2 DEF Sent
  <2>2. inb' = Nothing /\ Answers(c, a)'
    BY <1>2, <2>1, CommandIs DEF Asks
  <2> QED
    BY <2>2 DEF Sent
<1> QED
  BY <1>1, <1>2, DeviceIs, Somethings DEF Sent

\* A byte of data and what comes of it.
Brings(w, d, c, w2, c2, sc, src, seq, n) ==
  /\ w2 = None /\ Good(seq) /\ src \in Sources
  /\ \/ w = "60" /\ c2 = d.bits /\ sc = FALSE /\ src = "controller" /\ seq = << >>
     \/ c2 = c /\ w = None /\ d.is = "FF" /\ sc = FALSE /\ src = "keyboard"
        /\ seq = <<Byte("FA"), Byte("AA")>>
     \/ c2 = c /\ w = None /\ d.is = "F4" /\ sc = TRUE /\ src = "keyboard" /\ seq = <<Byte("FA")>>
     \/ c2 = c /\ w = "D4" /\ n = 2 /\ sc = FALSE /\ src = "mouse"
        /\ seq = <<Byte("FA"), Byte("AA"), Byte("00")>>
     \/ c2 = c /\ w = "D4" /\ n = 1 /\ sc = FALSE /\ src = "controller" /\ seq = << >>

\* While the byte is on its way nothing else happens; then what it brings is owed.
LEMMA SentData ==
  ASSUME NEW n \in {1, 2}, Ports(n), NEW d, NEW w, NEW c, NEW w2, NEW c2, NEW sc, NEW src, NEW seq,
         Brings(w, d, c, w2, c2, sc, src, seq, n),
         Sent(Dat(d), Quiet(w, c), Holds(w2, c2, sc, src, seq)), Device
  PROVE  Sent(Dat(d), Quiet(w, c), Holds(w2, c2, sc, src, seq))'
<1>0. Good(seq) /\ src \in Sources
  BY DEF Brings, None
<1>1. CASE \E s \in Sources : Deliver(s)
  BY <1>0, <1>1, DeliverQuiet, DeliverHolds DEF Sent, Deliver
<1>2. CASE TakeData /\ inb # Nothing
  <2>1. inb = Dat(d) /\ Quiet(w, c)
    BY <1>2 DEF Sent
  <2>2. inb' = Nothing
    BY <1>2, <2>1, DataIs
  <2>3. Holds(w2, c2, sc, src, seq)'
    <3>1. CASE w = "60" /\ c2 = d.bits /\ sc = FALSE /\ src = "controller" /\ seq = << >>
      BY <1>2, <2>1, <3>1, DataIs DEF Brings, Quiet, None
    <3>2. CASE w = None /\ d.is \in {"FF", "F4"}
      BY <1>2, <2>1, <3>2, DataIs DEF Brings, None
    <3>3. CASE w = "D4"
      <4>0. w # None /\ w # "60"
        BY <3>3 DEF None
      <4>1. CASE n = 2
        <5>1. /\ c2 = c /\ w2 = None /\ sc = FALSE /\ src = "mouse"
              /\ seq = <<Byte("FA"), Byte("AA"), Byte("00")>>
          BY <3>3, <4>0, <4>1 DEF Brings
        <5>2. Holds(None, c, FALSE, "mouse", <<Byte("FA"), Byte("AA"), Byte("00")>>)'
          BY <1>2, <2>1, <3>3, <4>1, DataIs
        <5> QED
          BY <5>1, <5>2 DEF Holds
      <4>2. CASE n = 1
        <5>1. Quiet(None, c)'
          BY <1>2, <2>1, <3>3, <4>2, DataIs
        <5> QED
          <6>1. c2 = c /\ w2 = None /\ sc = FALSE /\ src = "controller" /\ seq = << >>
            BY <3>3, <4>0, <4>2 DEF Brings
          <6> QED
            BY <5>1, <6>1 DEF Quiet, Holds
      <4> QED
        BY <4>1, <4>2
    <3> QED
      BY <3>1, <3>2, <3>3 DEF Brings, None
  <2> QED
    BY <2>2, <2>3 DEF Sent
<1> QED
  BY <1>1, <1>2, DeviceIs, Somethings DEF Sent

\* Short sequences.
LEMMA Tuples ==
  /\ \A S : /\ << >> \in Seq(S) /\ \A a \in S : <<a>> \in Seq(S)
            /\ \A a \in S, b \in S : <<a, b>> \in Seq(S)
            /\ \A a \in S, b \in S, d \in S : <<a, b, d>> \in Seq(S)
  /\ \A a : Head(<<a>>) = a /\ Tail(<<a>>) = << >> /\ << >> \o <<a>> = <<a>>
  /\ \A a, b : Head(<<a, b>>) = a /\ Tail(<<a, b>>) = <<b>>
  /\ \A a, b, d : Head(<<a, b, d>>) = a /\ Tail(<<a, b, d>>) = <<b, d>>
<1>1. \A S : << >> \in Seq(S) /\ \A a \in S : <<a>> \in Seq(S)
  OBVIOUS
<1>2. \A S : \A a \in S, b \in S : <<a, b>> \in Seq(S)
  OBVIOUS
<1>3. \A S : \A a \in S, b \in S, d \in S : <<a, b, d>> \in Seq(S)
  OBVIOUS
<1>4. \A a : Head(<<a>>) = a /\ Tail(<<a>>) = << >> /\ << >> \o <<a>> = <<a>>
  OBVIOUS
<1>5. \A a, b : Head(<<a, b>>) = a /\ Tail(<<a, b>>) = <<b>>
  OBVIOUS
<1>6. \A a, b, d : Head(<<a, b, d>>) = a /\ Tail(<<a, b, d>>) = <<b, d>>
  OBVIOUS
<1> QED
  BY <1>1, <1>2, <1>3, <1>4, <1>5, <1>6

\* What the controller owes at any time.
LEMMA Goods ==
  /\ \A c \in SUBSET (0..6) : Good(<<Config(c)>>)
  /\ Good(<< >>) /\ Good(<<Byte("55")>>) /\ Good(<<Byte("00")>>) /\ Good(<<Byte("FA")>>)
  /\ Good(<<Byte("AA")>>) /\ Good(<<Byte("FA"), Byte("AA")>>) /\ Good(<<Byte("AA"), Byte("00")>>)
  /\ Good(<<Byte("FA"), Byte("AA"), Byte("00")>>)
<1> DEFINE S == {Junk, Byte("55"), Byte("00"), Byte("FA"), Byte("AA")}
                  \union {Config(c) : c \in SUBSET (0..6)}
<1>1. /\ Byte("55") \in S /\ Byte("00") \in S /\ Byte("FA") \in S /\ Byte("AA") \in S
      /\ \A c \in SUBSET (0..6) : Config(c) \in S
  OBVIOUS
<1>2. \A seq : Good(seq) <=> seq \in Seq(S)
  BY DEF Good
<1> HIDE DEF S
<1> QED
  BY <1>1, <1>2, Tuples

\* The keyboard, too, has something to say when it was told to scan.
LEMMA TwoDevice ==
  ASSUME NEW c, Sent(Dat(Byte("F4")), Mouse(c, <<Byte("00")>>), Two(c)), Device
  PROVE  Sent(Dat(Byte("F4")), Mouse(c, <<Byte("00")>>), Two(c))'
<1> DEFINE d == Byte("F4")
           seq == <<Byte("00")>>
<1>0. Good(seq) /\ "mouse" \in Sources /\ "keyboard" \in Sources
  BY Goods DEF Sources
<1>1. CASE TakeData /\ inb = Dat(d) /\ Mouse(c, seq)
  <2>1. inb.is = "F4" /\ wants = "" /\ config = c
    BY <1>1 DEF Dat, Byte, Mouse, Holds, None
  <2>2. inb' = Nothing /\ wants' = "" /\ config' = c /\ scanning' = TRUE /\ outb' = outb
    BY <1>1, <2>1 DEF TakeData, None
  <2>3. owed' = [owed EXCEPT !["keyboard"] = @ \o <<Byte("FA")>>]
    BY <1>1, <2>1 DEF TakeData, Answer, None
  <2>4. << >> \o <<Byte("FA")>> = <<Byte("FA")>> /\ Head(seq) = Byte("00") /\ Tail(seq) = << >>
    BY Tuples
  <2>5. CASE outb = Nothing /\ owed = Owes("mouse", seq)
    <3>1. owed' = Both
      BY <2>3, <2>4, <2>5 DEF Owes, Both, Sources
    <3> QED
      BY <2>2, <2>5, <3>1 DEF Sent, Two, None
  <2>6. CASE outb = Byte("00") /\ owed = Owes("mouse", << >>)
    <3>1. owed' = Owes("keyboard", <<Byte("FA")>>)
      BY <2>3, <2>4, <2>6 DEF Owes, Sources
    <3> QED
      BY <2>2, <2>6, <3>1 DEF Sent, Two, None
  <2> QED
    BY <1>1, <2>4, <2>5, <2>6 DEF Mouse, Holds, None
<1>2. CASE (\E s \in Sources : Deliver(s)) /\ inb = Dat(d) /\ Mouse(c, seq)
  BY <1>0, <1>2, DeliverHolds DEF Mouse, Sent, Deliver
<1>3. CASE (\E s \in Sources : Deliver(s)) /\ inb = Nothing /\ Two(c)
  <2>1. PICK s \in Sources : Deliver(s)
    BY <1>3
  <2>2. outb = Nothing /\ owed = Both /\ wants = "" /\ config = c /\ scanning = TRUE
    BY <1>3, <2>1, Somethings DEF Two, Deliver, None
  <2>3. UNCHANGED <<inb, wants, config, scanning>> /\ owed[s] # << >>
    BY <2>1 DEF Deliver
  <2>4. s = "mouse" \/ s = "keyboard"
    BY <2>2, <2>3 DEF Both, Sources
  <2>5. CASE s = "mouse"
    <3>1. Head(Both["mouse"]) = Byte("00") /\ Tail(Both["mouse"]) = << >>
      BY Tuples DEF Both, Sources
    <3>2. [Both EXCEPT !["mouse"] = << >>] = Owes("keyboard", <<Byte("FA")>>)
      BY DEF Both, Owes, Sources
    <3> QED
      BY <1>3, <2>1, <2>2, <2>3, <2>5, <3>1, <3>2 DEF Deliver, Two, Sent, None
  <2>6. CASE s = "keyboard"
    <3>1. Head(Both["keyboard"]) = Byte("FA") /\ Tail(Both["keyboard"]) = << >>
      BY Tuples DEF Both, Sources
    <3>2. [Both EXCEPT !["keyboard"] = << >>] = Owes("mouse", <<Byte("00")>>)
      BY DEF Both, Owes, Sources
    <3> QED
      BY <1>3, <2>1, <2>2, <2>3, <2>6, <3>1, <3>2 DEF Deliver, Two, Sent, None
  <2> QED
    BY <2>4, <2>5, <2>6
<1> QED
  BY <1>1, <1>2, <1>3, DeviceIs, Somethings DEF Sent

\* One of the two bytes is read, and the other is left.
LEMMA TwoReceive ==
  ASSUME NEW c, Two(c), Receive
  PROVE  Keyed(c)' \/ Left(c)'
  BY DEF Two, Receive, Holds, Keyed, Left, controller, None

\* The configurations.
LEMMA Bits ==
  ASSUME NEW n \in {1, 2}
  PROVE  /\ Turned("AD", {0, 6}, n) = {0, 4, 6} /\ Turned("A7", {0, 4, 6}, n) = Off(n)
         /\ Turned("AE", Silent(n), n) = Second(n) /\ (n = 2 => Turned("A8", Second(n), n) = {})
         /\ (n = 1 => Second(n) = {}) /\ Off(n) \ {0, 1, 6} = Silent(n)
         /\ {} \union {0, 6} \union (IF n = 2 THEN {1} ELSE {}) = On(n)
         /\ (5 \in Off(n) <=> n = 2)
         /\ Off(n) \in SUBSET (0..6) /\ Silent(n) \in SUBSET (0..6) /\ On(n) \in SUBSET (0..6)
         /\ {} \in SUBSET (0..6)
         /\ {0, 6} \subseteq On(n) /\ 4 \notin On(n) /\ 5 \notin On(n) /\ (n = 2 => 1 \in On(n))
  BY DEF Turned, Off, Silent, Second, On

\* The devices keep to the row.
LEMMA RowDevice ==
  ASSUME NEW n \in {1, 2}, Ports(n), NEW k \in 1..29, Rows(k, n), Device
  PROVE  Rows(k, n)'
<1> USE Goods, Bits DEF Rows, Ports
<1>1. UNCHANGED constructor /\ UNCHANGED response
  BY DeviceIs DEF constructor
<1>2. \A c \in SUBSET (0..6) : Still(None, c) => Still(None, c)'
  BY DeviceIs, DeliverQuiet DEF Still
<1>3. inb = Nothing => inb' = Nothing /\ \E s \in Sources : Deliver(s)
  BY DeviceIs
<1>4. FlushRow(k, n)'
  <2>1. "AD" \in PortCommands /\ "A7" \in PortCommands
    BY DEF PortCommands
  <2>2. CASE k = 1
    BY <2>2, <1>3, FullDelivers DEF FlushRow
  <2>3. CASE k = 2
    <3>1. Sent(Cmd("AD"), Full({0, 6}), Full({0, 4, 6}))'
      BY <2>1, <2>3, SentFull DEF FlushRow
    <3> QED
      BY <2>3, <3>1 DEF FlushRow
  <2>4. CASE k = 3
    <3>1. Sent(Cmd("A7"), Full({0, 4, 6}), Full(Off(n)))'
      BY <2>1, <2>4, SentFull DEF FlushRow
    <3> QED
      BY <2>4, <3>1 DEF FlushRow
  <2> QED
    BY <2>2, <2>3, <2>4 DEF FlushRow
<1>5. TestRow(k, n)'
  <2>1. CASE k \in {4, 5, 6, 7}
    <3>1. CASE k = 4
      <4>1. "A7" \in PortCommands
        BY DEF PortCommands
      <4>2. Sent(Cmd("A7"), Quiet(None, {0, 4, 6}), Quiet(None, Off(n)))'
        BY <3>1, <4>1, SentPlain DEF TestRow
      <4> QED
        BY <3>1, <4>2 DEF TestRow
    <3>2. CASE k = 5
      <4>1. Sent(Cmd("20"), Quiet(None, Off(n)), Answers(Off(n), Config(Off(n))))'
        BY <3>2, SentQuestion DEF TestRow, Asks
      <4> QED
        BY <3>2, <4>1 DEF TestRow
    <3>3. CASE k = 6
      BY <1>1, <1>2, <3>3 DEF TestRow
    <3>4. CASE k = 7
      <4>1. Sent(Cmd("60"), Quiet(None, Off(n)), Quiet("60", Off(n)))'
        BY <3>4, SentPrefix DEF TestRow
      <4> QED
        BY <1>1, <3>4, <4>1 DEF TestRow
    <3> QED
      BY <2>1, <3>1, <3>2, <3>3, <3>4
  <2>2. CASE k = 8
    <3>1. Brings("60", Config(Silent(n)), Off(n), None, Silent(n), FALSE, "controller", << >>, n)
      BY DEF Brings, Config, Sources, None
    <3>2. Sent(Dat(Config(Silent(n))), Quiet("60", Off(n)), Quiet(None, Silent(n)))'
      BY <2>2, <3>1, SentData DEF TestRow, Quiet
    <3> QED
      BY <2>2, <3>2 DEF TestRow
  <2>3. CASE k = 9
    <3>1. Sent(Cmd("AA"), Quiet(None, Silent(n)), Answers(Silent(n), Byte("55")))'
      BY <2>3, SentQuestion DEF TestRow, Asks
    <3> QED
      BY <2>3, <3>1 DEF TestRow
  <2>4. CASE k = 11
    <3>1. Sent(Cmd("AB"), Quiet(None, Silent(n)), Answers(Silent(n), Byte("00")))'
      BY <2>4, SentQuestion DEF TestRow, Asks
    <3> QED
      BY <2>4, <3>1 DEF TestRow
  <2>5. CASE k = 13 /\ n = 2
    <3>1. Sent(Cmd("A9"), Quiet(None, Silent(n)), Answers(Silent(n), Byte("00")))'
      BY <2>5, SentQuestion DEF TestRow, Asks
    <3> QED
      BY <2>5, <3>1 DEF TestRow
  <2>6. CASE k \in {10, 12, 14} \/ (k = 13 /\ n = 1)
    BY <1>2, <2>6 DEF TestRow
  <2>7. CASE k \in {1, 2, 3} \/ k > 14
    BY <2>7 DEF TestRow
  <2> QED
    BY <2>1, <2>2, <2>3, <2>4, <2>5, <2>6, <2>7
<1>6. EnableRow(k, n)'
  <2>1. CASE k = 15 \/ (k = 16 /\ n = 1)
    <3>1. "AE" \in PortCommands
      BY DEF PortCommands
    <3>2. Sent(Cmd("AE"), Quiet(None, Silent(n)), Quiet(None, Second(n)))'
      BY <2>1, <3>1, SentPlain DEF EnableRow
    <3> QED
      BY <2>1, <3>2 DEF EnableRow
  <2>2. CASE k = 16 /\ n = 2
    <3>1. "A8" \in PortCommands
      BY DEF PortCommands
    <3>2. Sent(Cmd("A8"), Quiet(None, Second(n)), Quiet(None, {}))'
      BY <2>2, <3>1, SentPlain DEF EnableRow
    <3> QED
      BY <2>2, <3>2 DEF EnableRow
  <2>3. CASE k = 17
    <3>1. Sent(Cmd("20"), Quiet(None, {}), Answers({}, Config({})))'
      BY <2>3, SentQuestion DEF EnableRow, Asks
    <3> QED
      BY <2>3, <3>1 DEF EnableRow
  <2>4. CASE k = 18
    BY <1>1, <1>2, <2>4 DEF EnableRow
  <2>5. CASE k = 19
    <3>1. Sent(Cmd("60"), Quiet(None, {}), Quiet("60", {}))'
      BY <2>5, SentPrefix DEF EnableRow
    <3> QED
      BY <1>1, <2>5, <3>1 DEF EnableRow
  <2>6. CASE k = 20
    <3>1. Brings("60", Config(On(n)), {}, None, On(n), FALSE, "controller", << >>, n)
      BY DEF Brings, Config, Sources, None
    <3>2. Sent(Dat(Config(On(n))), Quiet("60", {}), Quiet(None, On(n)))'
      BY <2>6, <3>1, SentData DEF EnableRow, Quiet
    <3> QED
      BY <2>6, <3>2 DEF EnableRow
  <2>7. CASE k < 15 \/ k > 20
    BY <2>7 DEF EnableRow
  <2> QED
    BY <2>1, <2>2, <2>3, <2>4, <2>5, <2>6, <2>7
<1>7. ResetRow(k, n)'
  <2> DEFINE FF == Byte("FF")
  <2>1. FF.is = "FF" /\ Byte("F4").is = "F4" /\ "keyboard" \in Sources /\ "mouse" \in Sources
        /\ "controller" \in Sources
    BY DEF Byte, Sources
  <2>2. \A seq : Good(seq) /\ Mouse(On(n), seq) /\ inb = Nothing => Mouse(On(n), seq)' /\ inb' = Nothing
    BY <1>3, <2>1, DeliverHolds DEF Mouse
  <2>3. CASE k = 21
    <3>1. Brings(None, FF, On(n), None, On(n), FALSE, "keyboard", <<Byte("FA"), Byte("AA")>>, n)
      BY <2>1 DEF Brings, None
    <3>2. Sent(Dat(FF), Quiet(None, On(n)), Keys(On(n), <<Byte("FA"), Byte("AA")>>))'
      BY <2>3, <3>1, SentData DEF ResetRow, Keys, Mouse
    <3> QED
      BY <2>3, <3>2 DEF ResetRow
  <2>4. CASE k = 22
    <3>1. Keys(On(n), <<Byte("AA")>>)' /\ inb' = Nothing
      BY <1>3, <2>1, <2>4, DeliverHolds DEF ResetRow, Keys
    <3> QED
      BY <2>4, <3>1 DEF ResetRow
  <2>5. CASE k = 23
    BY <1>2, <2>5 DEF ResetRow
  <2>6. CASE k = 24
    <3>1. Sent(Cmd("D4"), Quiet(None, On(n)), Quiet("D4", On(n)))'
      BY <2>6, SentPrefix DEF ResetRow
    <3> QED
      BY <2>6, <3>1 DEF ResetRow
  <2>7. CASE k = 25 /\ n = 2
    <3> DEFINE seq == <<Byte("FA"), Byte("AA"), Byte("00")>>
    <3>1. Brings("D4", FF, On(n), None, On(n), FALSE, "mouse", seq, n)
      BY <2>1, <2>7 DEF Brings, None
    <3>2. Sent(Dat(FF), Quiet("D4", On(n)), Mouse(On(n), seq))'
      BY <2>7, <3>1, SentData DEF ResetRow, Keys, Mouse
    <3> QED
      BY <2>7, <3>2 DEF ResetRow
  <2>8. CASE k = 25 /\ n = 1
    <3>1. Brings("D4", FF, On(n), None, On(n), FALSE, "controller", << >>, n)
      BY <2>1, <2>8 DEF Brings, None
    <3>2. Sent(Dat(FF), Quiet("D4", On(n)), Quiet(None, On(n)))'
      BY <2>8, <3>1, SentData DEF ResetRow, Keys, Mouse, Quiet
    <3> QED
      BY <2>8, <3>2 DEF ResetRow
  <2>9. CASE k \in {26, 27}
    BY <2>2, <2>9 DEF ResetRow
  <2>10. CASE k = 28
    BY <2>10, TwoDevice DEF ResetRow
  <2>11. CASE k = 29
    <3>1. CASE Sent(Dat(Byte("F4")), Quiet(None, On(n)), Keyed(On(n)))
      <4>1. Brings(None, Byte("F4"), On(n), None, On(n), TRUE, "keyboard", <<Byte("FA")>>, n)
        BY <2>1 DEF Brings, None
      <4>2. Sent(Dat(Byte("F4")), Quiet(None, On(n)), Keyed(On(n)))'
        BY <3>1, <4>1, SentData DEF Keyed
      <4> QED
        BY <2>11, <4>2 DEF ResetRow
    <3>2. CASE inb = Nothing /\ Left(On(n))
      <4>1. inb' = Nothing /\ Left(On(n))'
        BY <1>3, <2>1, <3>2, DeliverHolds DEF Left
      <4> QED
        BY <2>11, <4>1 DEF ResetRow
    <3> QED
      BY <2>11, <3>1, <3>2 DEF ResetRow
  <2>12. CASE k < 21
    BY <2>12 DEF ResetRow
  <2> QED
    BY <2>3, <2>4, <2>5, <2>6, <2>7, <2>8, <2>9, <2>10, <2>11, <2>12
<1> QED
  BY <1>4, <1>5, <1>6, <1>7

\* What a step of the constructor leaves alone, and what it does, by its kind.
LEMMA CommandStep ==
  ASSUME NEW k \in 1..28, step = k, NEW byte, At(k, "command", byte), Construct
  PROVE  /\ step' = k + 1 /\ UNCHANGED <<dual, response, outb, controller, mouse>>
         /\ inb' = Cmd(byte) /\ (inb = Nothing \/ lost')
<1>1. step' = k + 1 /\ SendCommand /\ inb' = Cmd(byte)
  BY StepIs
<1> QED
  BY <1>1 DEF SendCommand, controller

\* The same, if it is for two channels.
LEMMA CommandStepTwo ==
  ASSUME NEW k \in 1..28, step = k, NEW byte, AtTwo(k, "command", byte), Construct
  PROVE  /\ step' = k + 1 /\ UNCHANGED <<dual, response, outb, controller, mouse>>
         /\ ~dual => UNCHANGED inb
         /\ dual => inb' = Cmd(byte) /\ (inb = Nothing \/ lost')
<1>1. CASE ~dual /\ step' = k + 1 /\ Skip
  BY <1>1 DEF Skip, controller
<1>2. CASE dual /\ step' = k + 1 /\ SendCommand /\ inb' = Cmd(byte)
  BY <1>2 DEF SendCommand, controller
<1> QED
  BY <1>1, <1>2, StepIs

\* A byte is written when the last one was taken.
LEMMA WriteStep ==
  ASSUME NEW k \in 1..28, step = k, NEW byte, At(k, "write", byte), Construct
  PROVE  /\ step' = k + 1 /\ inb = Nothing /\ inb' = Dat(Data(byte))
         /\ UNCHANGED <<dual, response, outb, controller, mouse>>
<1>1. step' = k + 1 /\ SendData
  BY StepIs
<1>2. Now.byte = byte
  BY DEF Now, At
<1> QED
  BY <1>1, <1>2 DEF SendData, Dat, controller

\* An answer is read when it is there.
LEMMA ReplyStep ==
  ASSUME NEW k \in 1..28, step = k, At(k, "reply", None), Construct
  PROVE  step' = k + 1 /\ UNCHANGED <<dual, inb, mouse>> /\ Receive
<1>1. step' = k + 1 /\ Receive
  BY StepIs
<1>2. Now.op = "reply"
  BY DEF Now, At
<1> QED
  BY <1>1, <1>2 DEF Receive, controller

\* The same, if it is for two channels.
LEMMA ReplyStepTwo ==
  ASSUME NEW k \in 1..28, step = k, AtTwo(k, "reply", None), Construct
  PROVE  /\ step' = k + 1 /\ UNCHANGED <<dual, inb, mouse>>
         /\ ~dual => UNCHANGED <<outb, controller>>
         /\ dual => Receive
<1>1. CASE ~dual /\ step' = k + 1 /\ Skip
  BY <1>1 DEF Skip, controller
<1>2. CASE dual /\ step' = k + 1 /\ Receive
  <2>1. Now.op = "reply"
    BY DEF Now, AtTwo
  <2> QED
    BY <1>2, <2>1 DEF Receive, controller
<1> QED
  BY <1>1, <1>2, StepIs

\* The row that a step ends in.
Reaches(j, n) == step = j /\ (j > 5 => dual = mouse) /\ Rows(j, n)

\* Nobody owes anything, whoever is meant.
LEMMA OwesNone ==
  ASSUME NEW c, NEW src, Holds(None, c, FALSE, src, << >>)'
  PROVE  Quiet(None, c)'
<1>1. Owes(src, << >>) = Owes("controller", << >>)
  BY DEF Owes
<1> QED
  BY <1>1 DEF Quiet, Holds

\* Nothing moves in the controller.
LEMMA QuietStill ==
  ASSUME NEW w, NEW c, Quiet(w, c), UNCHANGED <<outb, controller>>
  PROVE  Quiet(w, c)'
  BY HoldsStill DEF Quiet

\* An answer is read: the question was taken, and the answer is the one expected.
LEMMA Answered ==
  ASSUME NEW b, NEW c, NEW a, Sent(b, Quiet(None, c), Answers(c, a)), Receive
  PROVE  inb = Nothing /\ response' = a /\ Quiet(None, c)'
<1>1. ~Quiet(None, c)
  BY ReceiveNone DEF Quiet
<1> QED
  BY <1>1, ReceiveOne DEF Sent

\* What nobody listened to is read away.
LEMMA FlushedIs ==
  ASSUME NEW c, Full(c), FlushOutput
  PROVE  (step' = step /\ Full(c)') \/ (step' = step + 1 /\ Quiet(None, c)')
  BY DEF FlushOutput, Does, Full, Quiet, Holds, controller, None

\* Up to the first answer.
LEMMA RowsFlush ==
  ASSUME NEW n \in {1, 2}, Ports(n), step \in {1, 2, 3}, Rows(step, n), Construct
  PROVE  lost' \/ \E j \in 1..29 : Reaches(j, n)'
<1>1. CASE step = 1
  <2>1. step' = 2 /\ inb' = Cmd("AD") /\ UNCHANGED <<outb, controller>>
    <3>1. At(1, "command", "AD")
      BY ScriptIs
    <3>2. 1 \in 1..28
      OBVIOUS
    <3> QED
      BY <1>1, <3>1, <3>2, CommandStep
  <2>2. Full({0, 6})'
    BY <1>1, <2>1, FullStill DEF Rows, FlushRow
  <2>3. Sent(Cmd("AD"), Full({0, 6}), Full({0, 4, 6}))'
    BY <2>1, <2>2 DEF Sent
  <2>4. Rows(2, n)'
    BY <2>3 DEF Rows, FlushRow, TestRow, EnableRow, ResetRow
  <2> QED
    BY <2>1, <2>4 DEF Reaches
<1>2. CASE step = 2
  <2>1. At(2, "command", "A7") /\ 2 \in 1..28
    BY ScriptIs
  <2>2. step' = 3 /\ inb' = Cmd("A7") /\ UNCHANGED <<outb, controller>> /\ (inb = Nothing \/ lost')
    BY <1>2, <2>1, CommandStep
  <2>3. CASE inb = Nothing
    <3>1. Full({0, 4, 6})'
      BY <1>2, <2>2, <2>3, FullStill, Somethings DEF Rows, FlushRow, Sent
    <3>2. Sent(Cmd("A7"), Full({0, 4, 6}), Full(Off(n)))'
      BY <2>2, <3>1 DEF Sent
    <3>3. Rows(3, n)'
      BY <3>2 DEF Rows, FlushRow, TestRow, EnableRow, ResetRow
    <3> QED
      BY <2>2, <3>3 DEF Reaches
  <2> QED
    BY <2>2, <2>3
<1>3. CASE step = 3
  <2>1. At(3, "flush", None) /\ 3 \in 1..28
    BY ScriptIs
  <2>2. FlushOutput
    BY <1>3, <2>1, StepIs
  <2>3. \A c : Full(c) => (step' = 3 /\ Full(c)') \/ (step' = 4 /\ Quiet(None, c)')
    BY <1>3, <2>2, FlushedIs
  <2>4. inb' = inb /\ Sent(Cmd("A7"), Full({0, 4, 6}), Full(Off(n)))
    BY <1>3, <2>2 DEF FlushOutput, Rows, FlushRow
  <2>5. \/ step' = 3 /\ Sent(Cmd("A7"), Full({0, 4, 6}), Full(Off(n)))'
        \/ step' = 4 /\ Sent(Cmd("A7"), Quiet(None, {0, 4, 6}), Quiet(None, Off(n)))'
    BY <2>3, <2>4 DEF Sent
  <2>6. CASE step' = 3 /\ Sent(Cmd("A7"), Full({0, 4, 6}), Full(Off(n)))'
    <3>1. Rows(3, n)'
      BY <2>6 DEF Rows, FlushRow, TestRow, EnableRow, ResetRow
    <3> QED
      BY <2>6, <3>1 DEF Reaches
  <2>7. CASE step' = 4 /\ Sent(Cmd("A7"), Quiet(None, {0, 4, 6}), Quiet(None, Off(n)))'
    <3>1. Rows(4, n)'
      BY <2>7 DEF Rows, FlushRow, TestRow, EnableRow, ResetRow
    <3> QED
      BY <2>7, <3>1 DEF Reaches
  <2> QED
    BY <2>5, <2>6, <2>7
<1> QED
  BY <1>1, <1>2, <1>3

\* The first answer: the configuration. It tells whether there are two ports.
LEMMA RowsRead ==
  ASSUME NEW n \in {1, 2}, Ports(n), step \in {4, 5, 6, 7}, step > 5 => dual = mouse,
         Rows(step, n), Construct
  PROVE  lost' \/ \E j \in 1..29 : Reaches(j, n)'
<1>1. CASE step = 4
  <2>1. At(4, "command", "20") /\ 4 \in 1..28
    BY ScriptIs
  <2>2. step' = 5 /\ inb' = Cmd("20") /\ UNCHANGED <<outb, controller>> /\ (inb = Nothing \/ lost')
    BY <1>1, <2>1, CommandStep
  <2>3. CASE inb = Nothing
    <3>1. Quiet(None, Off(n))'
      BY <1>1, <2>2, <2>3, QuietStill, Somethings DEF Rows, TestRow, Sent
    <3>2. Sent(Cmd("20"), Quiet(None, Off(n)), Answers(Off(n), Config(Off(n))))'
      BY <2>2, <3>1 DEF Sent
    <3>3. Rows(5, n)'
      BY <3>2 DEF Rows, FlushRow, TestRow, EnableRow, ResetRow
    <3> QED
      BY <2>2, <3>3 DEF Reaches
  <2> QED
    BY <2>2, <2>3
<1>2. CASE step = 5
  <2>1. At(5, "dual", None) /\ 5 \in 1..28
    BY ScriptIs
  <2>2. step' = 6 /\ Receive
    BY <1>2, <2>1, StepIs
  <2>3. Now.op = "dual"
    BY <1>2, <2>1 DEF Now, At
  <2>4. response' = outb /\ dual' = (5 \in outb.bits) /\ inb' = inb /\ mouse' = mouse
    BY <2>2, <2>3 DEF Receive, controller
  <2>5. Sent(Cmd("20"), Quiet(None, Off(n)), Answers(Off(n), Config(Off(n))))
    BY <1>2 DEF Rows, TestRow
  <2>6. inb = Nothing /\ response' = Config(Off(n)) /\ Quiet(None, Off(n))'
    BY <2>2, <2>5, Answered
  <2>7. dual' = (5 \in Off(n))
    BY <2>4, <2>6 DEF Config
  <2>8. dual' = mouse'
    BY <2>4, <2>7, Bits DEF Ports
  <2>9. response' = Config(Off(n)) /\ Still(None, Off(n))'
    BY <2>4, <2>6 DEF Still
  <2>10. Rows(6, n)'
    BY <2>9 DEF Rows, FlushRow, TestRow, EnableRow, ResetRow
  <2> QED
    BY <2>2, <2>8, <2>10 DEF Reaches
<1>3. CASE step = 6
  <2>1. At(6, "command", "60") /\ 6 \in 1..28
    BY ScriptIs
  <2>2. /\ step' = 7 /\ inb' = Cmd("60") /\ UNCHANGED <<dual, response, outb, controller, mouse>>
        /\ (inb = Nothing \/ lost')
    BY <1>3, <2>1, CommandStep
  <2>3. response = Config(Off(n)) /\ Quiet(None, Off(n))
    BY <1>3 DEF Rows, TestRow, Still
  <2>4. Quiet(None, Off(n))'
    BY <2>2, <2>3, QuietStill
  <2>5. response' = Config(Off(n)) /\ Sent(Cmd("60"), Quiet(None, Off(n)), Quiet("60", Off(n)))'
    BY <2>2, <2>3, <2>4 DEF Sent
  <2>6. Rows(7, n)'
    BY <2>5 DEF Rows, FlushRow, TestRow, EnableRow, ResetRow
  <2> QED
    BY <1>3, <2>2, <2>6 DEF Reaches
<1>4. CASE step = 7
  <2>1. At(7, "write", "quiet") /\ 7 \in 1..28
    BY ScriptIs
  <2>2. /\ step' = 8 /\ inb = Nothing /\ inb' = Dat(Data("quiet"))
        /\ UNCHANGED <<dual, outb, controller, mouse>>
    BY <1>4, <2>1, WriteStep
  <2>3. response = Config(Off(n)) /\ Sent(Cmd("60"), Quiet(None, Off(n)), Quiet("60", Off(n)))
    BY <1>4 DEF Rows, TestRow
  <2>4. Data("quiet") = Config(Silent(n))
    BY <2>3, Bits DEF Data, Config
  <2>5. Quiet("60", Off(n))'
    BY <2>2, <2>3, QuietStill, Somethings DEF Sent
  <2>6. Sent(Dat(Config(Silent(n))), Quiet("60", Off(n)), Quiet(None, Silent(n)))'
    BY <2>2, <2>4, <2>5 DEF Sent
  <2>7. Rows(8, n)'
    BY <2>6 DEF Rows, FlushRow, TestRow, EnableRow, ResetRow
  <2> QED
    BY <1>4, <2>2, <2>7 DEF Reaches
<1> QED
  BY <1>1, <1>2, <1>3, <1>4

\* The self-tests.
LEMMA RowsTest ==
  ASSUME NEW n \in {1, 2}, Ports(n), step \in {8, 9, 10, 11, 12, 13}, dual = mouse,
         Rows(step, n), Construct
  PROVE  lost' \/ \E j \in 1..29 : Reaches(j, n)'
<1>1. CASE step = 8
  <2>1. At(8, "command", "AA") /\ 8 \in 1..28
    BY ScriptIs
  <2>2. /\ step' = 9 /\ inb' = Cmd("AA") /\ UNCHANGED <<dual, response, outb, controller, mouse>>
        /\ (inb = Nothing \/ lost')
    BY <1>1, <2>1, CommandStep
  <2>3. CASE inb = Nothing
    <3>1. Quiet(None, Silent(n))
      BY <1>1, <2>3, Somethings, Bits DEF Rows, TestRow, Sent, Still
    <3>2. Quiet(None, Silent(n))'
      BY <2>2, <3>1, QuietStill
    <3>3. Sent(Cmd("AA"), Quiet(None, Silent(n)), Answers(Silent(n), Byte("55")))'
      BY <2>2, <3>2 DEF Sent
    <3>4. Rows(9, n)'
      BY <3>3 DEF Rows, FlushRow, TestRow, EnableRow, ResetRow
    <3> QED
      BY <1>1, <2>2, <3>4 DEF Reaches
  <2> QED
    BY <2>2, <2>3
<1>2. CASE step = 9
  <2>1. At(9, "reply", None) /\ 9 \in 1..28
    BY ScriptIs
  <2>2. step' = 10 /\ UNCHANGED <<dual, inb, mouse>> /\ Receive
    BY <1>2, <2>1, ReplyStep
  <2>3. Sent(Cmd("AA"), Quiet(None, Silent(n)), Answers(Silent(n), Byte("55")))
    BY <1>2 DEF Rows, TestRow
  <2>4. inb = Nothing /\ response' = Byte("55") /\ Quiet(None, Silent(n))'
    BY <2>2, <2>3, Answered
  <2>5. response' = Byte("55") /\ Still(None, Silent(n))'
    BY <2>2, <2>4 DEF Still
  <2>6. Rows(10, n)'
    BY <2>5 DEF Rows, FlushRow, TestRow, EnableRow, ResetRow
  <2> QED
    BY <1>2, <2>2, <2>6 DEF Reaches
<1>3. CASE step = 10
  <2>1. At(10, "command", "AB") /\ 10 \in 1..28
    BY ScriptIs
  <2>2. /\ step' = 11 /\ inb' = Cmd("AB") /\ UNCHANGED <<dual, response, outb, controller, mouse>>
        /\ (inb = Nothing \/ lost')
    BY <1>3, <2>1, CommandStep
  <2>3. CASE inb = Nothing
    <3>1. Quiet(None, Silent(n))
      BY <1>3, <2>3, Somethings, Bits DEF Rows, TestRow, Sent, Still
    <3>2. Quiet(None, Silent(n))'
      BY <2>2, <3>1, QuietStill
    <3>3. Sent(Cmd("AB"), Quiet(None, Silent(n)), Answers(Silent(n), Byte("00")))'
      BY <2>2, <3>2 DEF Sent
    <3>4. Rows(11, n)'
      BY <3>3 DEF Rows, FlushRow, TestRow, EnableRow, ResetRow
    <3> QED
      BY <1>3, <2>2, <3>4 DEF Reaches
  <2> QED
    BY <2>2, <2>3
<1>4. CASE step = 11
  <2>1. At(11, "reply", None) /\ 11 \in 1..28
    BY ScriptIs
  <2>2. step' = 12 /\ UNCHANGED <<dual, inb, mouse>> /\ Receive
    BY <1>4, <2>1, ReplyStep
  <2>3. Sent(Cmd("AB"), Quiet(None, Silent(n)), Answers(Silent(n), Byte("00")))
    BY <1>4 DEF Rows, TestRow
  <2>4. inb = Nothing /\ response' = Byte("00") /\ Quiet(None, Silent(n))'
    BY <2>2, <2>3, Answered
  <2>5. response' = Byte("00") /\ Still(None, Silent(n))'
    BY <2>2, <2>4 DEF Still
  <2>6. Rows(12, n)'
    BY <2>5 DEF Rows, FlushRow, TestRow, EnableRow, ResetRow
  <2> QED
    BY <1>4, <2>2, <2>6 DEF Reaches
<1>5. CASE step = 12
  <2>1. AtTwo(12, "command", "A9") /\ 12 \in 1..28
    BY ScriptIs
  <2>2. /\ step' = 13 /\ UNCHANGED <<dual, response, outb, controller, mouse>>
        /\ ~dual => UNCHANGED inb
        /\ dual => inb' = Cmd("A9")
    BY <1>5, <2>1, CommandStepTwo
  <2>3. inb = Nothing /\ Quiet(None, Silent(n))
    BY <1>5 DEF Rows, TestRow, Still
  <2>4. Quiet(None, Silent(n))'
    BY <2>2, <2>3, QuietStill
  <2>5. n = 1 => Still(None, Silent(n))'
    BY <2>2, <2>3, <2>4 DEF Still, Ports
  <2>6. n = 2 => Sent(Cmd("A9"), Quiet(None, Silent(n)), Answers(Silent(n), Byte("00")))'
    BY <2>2, <2>4 DEF Sent, Ports
  <2>7. Rows(13, n)'
    BY <2>5, <2>6 DEF Rows, FlushRow, TestRow, EnableRow, ResetRow
  <2> QED
    BY <1>5, <2>2, <2>7 DEF Reaches
<1>6. CASE step = 13
  <2>1. AtTwo(13, "reply", None) /\ 13 \in 1..28
    BY ScriptIs
  <2>2. /\ step' = 14 /\ UNCHANGED <<dual, inb, mouse>>
        /\ ~dual => UNCHANGED <<outb, controller>>
        /\ dual => Receive
    BY <1>6, <2>1, ReplyStepTwo
  <2>3. ASSUME n = 1 PROVE Still(None, Silent(n))'
    <3>1. inb = Nothing /\ Quiet(None, Silent(n)) /\ ~dual
      BY <1>6, <2>3 DEF Rows, TestRow, Still, Ports
    <3> QED
      BY <2>2, <3>1, QuietStill DEF Still
  <2>4. ASSUME n = 2 PROVE Still(None, Silent(n))'
    <3>1. Sent(Cmd("A9"), Quiet(None, Silent(n)), Answers(Silent(n), Byte("00"))) /\ dual
      BY <1>6, <2>4 DEF Rows, TestRow, Ports
    <3>2. inb = Nothing /\ Quiet(None, Silent(n))'
      BY <2>2, <3>1, Answered
    <3> QED
      BY <2>2, <3>2 DEF Still
  <2>5. Still(None, Silent(n))'
    BY <2>3, <2>4
  <2>6. Rows(14, n)'
    BY <2>5 DEF Rows, FlushRow, TestRow, EnableRow, ResetRow
  <2> QED
    BY <1>6, <2>2, <2>6 DEF Reaches
<1> QED
  BY <1>1, <1>2, <1>3, <1>4, <1>5, <1>6

\* The ports are enabled, and the configuration is written once more.
LEMMA RowsEnable ==
  ASSUME NEW n \in {1, 2}, Ports(n), step \in {14, 15, 16, 17, 18, 19}, dual = mouse,
         Rows(step, n), Construct
  PROVE  lost' \/ \E j \in 1..29 : Reaches(j, n)'
<1>1. CASE step = 14
  <2>1. At(14, "command", "AE") /\ 14 \in 1..28
    BY ScriptIs
  <2>2. /\ step' = 15 /\ inb' = Cmd("AE") /\ UNCHANGED <<dual, response, outb, controller, mouse>>
        /\ (inb = Nothing \/ lost')
    BY <1>1, <2>1, CommandStep
  <2>3. CASE inb = Nothing
    <3>1. Quiet(None, Silent(n))
      BY <1>1, <2>3, Somethings, Bits DEF Rows, TestRow, Sent, Still
    <3>2. Quiet(None, Silent(n))'
      BY <2>2, <3>1, QuietStill
    <3>3. Sent(Cmd("AE"), Quiet(None, Silent(n)), Quiet(None, Second(n)))'
      BY <2>2, <3>2 DEF Sent
    <3>4. Rows(15, n)'
      BY <3>3 DEF Rows, FlushRow, TestRow, EnableRow, ResetRow
    <3> QED
      BY <1>1, <2>2, <3>4 DEF Reaches
  <2> QED
    BY <2>2, <2>3
<1>2. CASE step = 15
  <2>1. AtTwo(15, "command", "A8") /\ 15 \in 1..28
    BY ScriptIs
  <2>2. /\ step' = 16 /\ UNCHANGED <<dual, response, outb, controller, mouse>>
        /\ ~dual => UNCHANGED inb
        /\ dual => inb' = Cmd("A8") /\ (inb = Nothing \/ lost')
    BY <1>2, <2>1, CommandStepTwo
  <2>3. Sent(Cmd("AE"), Quiet(None, Silent(n)), Quiet(None, Second(n)))
    BY <1>2 DEF Rows, EnableRow
  <2>4. n = 1 => Sent(Cmd("AE"), Quiet(None, Silent(n)), Quiet(None, Second(n)))'
    BY <2>2, <2>3, QuietStill DEF Sent, Ports
  <2>5. n = 2 => lost' \/ Sent(Cmd("A8"), Quiet(None, Second(n)), Quiet(None, {}))'
    <3>1. n = 2 => inb' = Cmd("A8") /\ (inb = Nothing \/ lost')
      BY <2>2 DEF Ports
    <3>2. inb = Nothing => Quiet(None, Second(n))'
      BY <2>2, <2>3, QuietStill, Somethings DEF Sent
    <3> QED
      BY <3>1, <3>2 DEF Sent
  <2>6. lost' \/ Rows(16, n)'
    BY <2>4, <2>5 DEF Rows, FlushRow, TestRow, EnableRow, ResetRow
  <2> QED
    BY <1>2, <2>2, <2>6 DEF Reaches
<1>3. CASE step = 16
  <2>1. At(16, "command", "20") /\ 16 \in 1..28
    BY ScriptIs
  <2>2. /\ step' = 17 /\ inb' = Cmd("20") /\ UNCHANGED <<dual, response, outb, controller, mouse>>
        /\ (inb = Nothing \/ lost')
    BY <1>3, <2>1, CommandStep
  <2>3. CASE inb = Nothing
    <3>1. Quiet(None, {})
      BY <1>3, <2>3, Somethings, Bits DEF Rows, EnableRow, Sent, Still
    <3>2. Quiet(None, {})'
      BY <2>2, <3>1, QuietStill
    <3>3. Sent(Cmd("20"), Quiet(None, {}), Answers({}, Config({})))'
      BY <2>2, <3>2 DEF Sent
    <3>4. Rows(17, n)'
      BY <3>3 DEF Rows, FlushRow, TestRow, EnableRow, ResetRow
    <3> QED
      BY <1>3, <2>2, <3>4 DEF Reaches
  <2> QED
    BY <2>2, <2>3
<1>4. CASE step = 17
  <2>1. At(17, "reply", None) /\ 17 \in 1..28
    BY ScriptIs
  <2>2. step' = 18 /\ UNCHANGED <<dual, inb, mouse>> /\ Receive
    BY <1>4, <2>1, ReplyStep
  <2>3. Sent(Cmd("20"), Quiet(None, {}), Answers({}, Config({})))
    BY <1>4 DEF Rows, EnableRow
  <2>4. inb = Nothing /\ response' = Config({}) /\ Quiet(None, {})'
    BY <2>2, <2>3, Answered
  <2>5. response' = Config({}) /\ Still(None, {})'
    BY <2>2, <2>4 DEF Still
  <2>6. Rows(18, n)'
    BY <2>5 DEF Rows, FlushRow, TestRow, EnableRow, ResetRow
  <2> QED
    BY <1>4, <2>2, <2>6 DEF Reaches
<1>5. CASE step = 18
  <2>1. At(18, "command", "60") /\ 18 \in 1..28
    BY ScriptIs
  <2>2. step' = 19 /\ inb' = Cmd("60") /\ UNCHANGED <<dual, response, outb, controller, mouse>>
    BY <1>5, <2>1, CommandStep
  <2>3. response = Config({}) /\ Quiet(None, {})
    BY <1>5 DEF Rows, EnableRow, Still
  <2>4. Quiet(None, {})'
    BY <2>2, <2>3, QuietStill
  <2>5. response' = Config({}) /\ Sent(Cmd("60"), Quiet(None, {}), Quiet("60", {}))'
    BY <2>2, <2>3, <2>4 DEF Sent
  <2>6. Rows(19, n)'
    BY <2>5 DEF Rows, FlushRow, TestRow, EnableRow, ResetRow
  <2> QED
    BY <1>5, <2>2, <2>6 DEF Reaches
<1>6. CASE step = 19
  <2>1. At(19, "write", "enabled") /\ 19 \in 1..28
    BY ScriptIs
  <2>2. /\ step' = 20 /\ inb = Nothing /\ inb' = Dat(Data("enabled"))
        /\ UNCHANGED <<dual, response, outb, controller, mouse>>
    BY <1>6, <2>1, WriteStep
  <2>3. Data("enabled") = Config(On(n))
    BY <1>6, Bits DEF Rows, EnableRow, Data, Config, Ports
  <2>4. Quiet("60", {})
    BY <1>6, <2>2, Somethings DEF Rows, EnableRow, Sent
  <2>5. Quiet("60", {})'
    BY <2>2, <2>4, QuietStill
  <2>6. inb' = Dat(Config(On(n)))
    BY <2>2, <2>3
  <2>7. Sent(Dat(Config(On(n))), Quiet("60", {}), Quiet(None, On(n)))'
    BY <2>5, <2>6 DEF Sent
  <2>8. Rows(20, n)'
    BY <2>7 DEF Rows, FlushRow, TestRow, EnableRow, ResetRow
  <2> QED
    BY <1>6, <2>2, <2>8 DEF Reaches
<1> QED
  BY <1>1, <1>2, <1>3, <1>4, <1>5, <1>6

\* The devices are reset, and the keyboard scans.
LEMMA RowsReset ==
  ASSUME NEW n \in {1, 2}, Ports(n), step \in {20, 21, 22, 23, 24}, dual = mouse,
         Rows(step, n), Construct
  PROVE  lost' \/ \E j \in 1..29 : Reaches(j, n)'
<1>1. CASE step = 20
  <2>1. At(20, "write", "FF") /\ 20 \in 1..28
    BY ScriptIs
  <2>2. /\ step' = 21 /\ inb = Nothing /\ inb' = Dat(Data("FF"))
        /\ UNCHANGED <<dual, response, outb, controller, mouse>>
    BY <1>1, <2>1, WriteStep
  <2>3. Data("FF") = Byte("FF")
    BY DEF Data
  <2>4. Quiet(None, On(n))
    BY <1>1, <2>2, Somethings DEF Rows, EnableRow, Sent
  <2>5. Quiet(None, On(n))'
    BY <2>2, <2>4, QuietStill
  <2>6. inb' = Dat(Byte("FF"))
    BY <2>2, <2>3
  <2>7. Sent(Dat(Byte("FF")), Quiet(None, On(n)), Keys(On(n), <<Byte("FA"), Byte("AA")>>))'
    BY <2>5, <2>6 DEF Sent
  <2>8. Rows(21, n)'
    BY <2>7 DEF Rows, FlushRow, TestRow, EnableRow, ResetRow
  <2> QED
    BY <1>1, <2>2, <2>8 DEF Reaches
<1>2. CASE step = 21
  <2>1. At(21, "reply", None) /\ 21 \in 1..28
    BY ScriptIs
  <2>2. step' = 22 /\ UNCHANGED <<dual, inb, mouse>> /\ Receive
    BY <1>2, <2>1, ReplyStep
  <2>3. Sent(Dat(Byte("FF")), Quiet(None, On(n)), Keys(On(n), <<Byte("FA"), Byte("AA")>>))
    BY <1>2 DEF Rows, ResetRow
  <2>4. ~Quiet(None, On(n))
    BY <2>2, ReceiveNone DEF Quiet
  <2>5. inb = Nothing /\ Keys(On(n), <<Byte("FA"), Byte("AA")>>)
    BY <2>3, <2>4 DEF Sent
  <2>6. Keys(On(n), <<Byte("AA")>>)'
    <3> DEFINE seq == <<Byte("FA"), Byte("AA")>>
    <3>1. Tail(seq) = <<Byte("AA")>>
      BY Tuples
    <3> HIDE DEF seq
    <3>2. Holds(None, On(n), FALSE, "keyboard", seq)
      BY <2>5 DEF Keys, seq
    <3>3. Holds(None, On(n), FALSE, "keyboard", Tail(seq))'
      BY <2>2, <3>2, ReceiveIs
    <3> QED
      BY <3>1, <3>3 DEF Keys
  <2>7. Rows(22, n)'
    BY <2>2, <2>5, <2>6 DEF Rows, FlushRow, TestRow, EnableRow, ResetRow
  <2> QED
    BY <1>2, <2>2, <2>7 DEF Reaches
<1>3. CASE step = 22
  <2>1. At(22, "reply", None) /\ 22 \in 1..28
    BY ScriptIs
  <2>2. step' = 23 /\ UNCHANGED <<dual, inb, mouse>> /\ Receive
    BY <1>3, <2>1, ReplyStep
  <2>3. inb = Nothing /\ Keys(On(n), <<Byte("AA")>>)
    BY <1>3 DEF Rows, ResetRow
  <2>4. Keys(On(n), << >>)'
    <3> DEFINE seq == <<Byte("AA")>>
    <3>1. Tail(seq) = << >>
      BY Tuples
    <3> HIDE DEF seq
    <3>2. Holds(None, On(n), FALSE, "keyboard", seq)
      BY <2>3 DEF Keys, seq
    <3>3. Holds(None, On(n), FALSE, "keyboard", Tail(seq))'
      BY <2>2, <3>2, ReceiveIs
    <3> QED
      BY <3>1, <3>3 DEF Keys
  <2>5. Still(None, On(n))'
    BY <2>2, <2>3, <2>4, OwesNone DEF Keys, Still
  <2>6. Rows(23, n)'
    BY <2>5 DEF Rows, FlushRow, TestRow, EnableRow, ResetRow
  <2> QED
    BY <1>3, <2>2, <2>6 DEF Reaches
<1>4. CASE step = 23
  <2>1. At(23, "command", "D4") /\ 23 \in 1..28
    BY ScriptIs
  <2>2. /\ step' = 24 /\ inb' = Cmd("D4") /\ UNCHANGED <<dual, response, outb, controller, mouse>>
        /\ (inb = Nothing \/ lost')
    BY <1>4, <2>1, CommandStep
  <2>3. CASE inb = Nothing
    <3>1. Quiet(None, On(n))
      BY <1>4, <2>3, Somethings, Bits DEF Rows, ResetRow, Sent, Still
    <3>2. Quiet(None, On(n))'
      BY <2>2, <3>1, QuietStill
    <3>3. Sent(Cmd("D4"), Quiet(None, On(n)), Quiet("D4", On(n)))'
      BY <2>2, <3>2 DEF Sent
    <3>4. Rows(24, n)'
      BY <3>3 DEF Rows, FlushRow, TestRow, EnableRow, ResetRow
    <3> QED
      BY <1>4, <2>2, <3>4 DEF Reaches
  <2> QED
    BY <2>2, <2>3
<1>5. CASE step = 24
  <2>1. At(24, "write", "FF") /\ 24 \in 1..28
    BY ScriptIs
  <2>2. /\ step' = 25 /\ inb = Nothing /\ inb' = Dat(Data("FF"))
        /\ UNCHANGED <<dual, response, outb, controller, mouse>>
    BY <1>5, <2>1, WriteStep
  <2>3. Data("FF") = Byte("FF")
    BY DEF Data
  <2>4. Quiet("D4", On(n))
    BY <1>5, <2>2, Somethings DEF Rows, ResetRow, Sent
  <2>5. Quiet("D4", On(n))'
    BY <2>2, <2>4, QuietStill
  <2>6. inb' = Dat(Byte("FF"))
    BY <2>2, <2>3
  <2> DEFINE seq == <<Byte("FA"), Byte("AA"), Byte("00")>>
  <2>7. /\ Sent(Dat(Byte("FF")), Quiet("D4", On(n)), Mouse(On(n), seq))'
        /\ Sent(Dat(Byte("FF")), Quiet("D4", On(n)), Quiet(None, On(n)))'
    BY <2>5, <2>6 DEF Sent
  <2>8. Rows(25, n)'
    BY <2>7 DEF Rows, FlushRow, TestRow, EnableRow, ResetRow
  <2> QED
    BY <1>5, <2>2, <2>8 DEF Reaches
<1> QED
  BY <1>1, <1>2, <1>3, <1>4, <1>5

\* The second device answers, if there is one: its third byte is left.
LEMMA RowsMouse ==
  ASSUME NEW n \in {1, 2}, Ports(n), step \in {25, 26, 27, 28}, dual = mouse,
         Rows(step, n), Construct
  PROVE  lost' \/ \E j \in 1..29 : Reaches(j, n)'
<1>1. CASE step = 25
  <2>1. At(25, "reply", None) /\ 25 \in 1..28
    BY ScriptIs
  <2>2. step' = 26 /\ UNCHANGED <<dual, inb, mouse>> /\ Receive
    BY <1>1, <2>1, ReplyStep
  <2>3. ~Quiet("D4", On(n)) /\ ~Quiet(None, On(n))
    BY <2>2, ReceiveNone DEF Quiet
  <2>4. n = 2 /\ inb = Nothing /\ Mouse(On(n), <<Byte("FA"), Byte("AA"), Byte("00")>>)
    BY <1>1, <2>3 DEF Rows, ResetRow, Sent
  <2>5. Mouse(On(n), <<Byte("AA"), Byte("00")>>)'
    <3> DEFINE seq == <<Byte("FA"), Byte("AA"), Byte("00")>>
    <3>1. Tail(seq) = <<Byte("AA"), Byte("00")>>
      BY Tuples
    <3> HIDE DEF seq
    <3>2. Holds(None, On(n), FALSE, "mouse", seq)
      BY <2>4 DEF Mouse, seq
    <3>3. Holds(None, On(n), FALSE, "mouse", Tail(seq))'
      BY <2>2, <3>2, ReceiveIs
    <3> QED
      BY <3>1, <3>3 DEF Mouse
  <2>6. Rows(26, n)'
    BY <2>2, <2>4, <2>5 DEF Rows, FlushRow, TestRow, EnableRow, ResetRow
  <2> QED
    BY <1>1, <2>2, <2>6 DEF Reaches
<1>2. CASE step = 26
  <2>1. At(26, "reply", None) /\ 26 \in 1..28
    BY ScriptIs
  <2>2. step' = 27 /\ UNCHANGED <<dual, inb, mouse>> /\ Receive
    BY <1>2, <2>1, ReplyStep
  <2>3. n = 2 /\ inb = Nothing /\ Mouse(On(n), <<Byte("AA"), Byte("00")>>)
    BY <1>2 DEF Rows, ResetRow
  <2>4. Mouse(On(n), <<Byte("00")>>)'
    <3> DEFINE seq == <<Byte("AA"), Byte("00")>>
    <3>1. Tail(seq) = <<Byte("00")>>
      BY Tuples
    <3> HIDE DEF seq
    <3>2. Holds(None, On(n), FALSE, "mouse", seq)
      BY <2>3 DEF Mouse, seq
    <3>3. Holds(None, On(n), FALSE, "mouse", Tail(seq))'
      BY <2>2, <3>2, ReceiveIs
    <3> QED
      BY <3>1, <3>3 DEF Mouse
  <2>5. Rows(27, n)'
    BY <2>2, <2>3, <2>4 DEF Rows, FlushRow, TestRow, EnableRow, ResetRow
  <2> QED
    BY <1>2, <2>2, <2>5 DEF Reaches
<1>3. CASE step = 27
  <2>1. At(27, "write", "F4") /\ 27 \in 1..28
    BY ScriptIs
  <2>2. /\ step' = 28 /\ inb = Nothing /\ inb' = Dat(Data("F4"))
        /\ UNCHANGED <<dual, response, outb, controller, mouse>>
    BY <1>3, <2>1, WriteStep
  <2>3. Data("F4") = Byte("F4")
    BY DEF Data
  <2>4. n = 2 /\ Mouse(On(n), <<Byte("00")>>)
    BY <1>3 DEF Rows, ResetRow
  <2>5. Mouse(On(n), <<Byte("00")>>)'
    BY <2>2, <2>4, HoldsStill DEF Mouse
  <2>6. Sent(Dat(Byte("F4")), Mouse(On(n), <<Byte("00")>>), Two(On(n)))'
    BY <2>2, <2>3, <2>5 DEF Sent
  <2>7. Rows(28, n)'
    BY <2>4, <2>6 DEF Rows, FlushRow, TestRow, EnableRow, ResetRow
  <2> QED
    BY <1>3, <2>2, <2>7 DEF Reaches
<1>4. CASE step = 28
  <2>1. At(28, "reply", None) /\ 28 \in 1..28
    BY ScriptIs
  <2>2. step' = 29 /\ UNCHANGED <<dual, inb, mouse>> /\ Receive
    BY <1>4, <2>1, ReplyStep
  <2>3. n = 2 /\ Sent(Dat(Byte("F4")), Mouse(On(n), <<Byte("00")>>), Two(On(n)))
    BY <1>4 DEF Rows, ResetRow
  <2>4. CASE inb = Dat(Byte("F4")) /\ Mouse(On(n), <<Byte("00")>>)
    <3>1. Mouse(On(n), << >>)'
      BY <2>2, <2>4, ReceiveIs, Tuples DEF Mouse
    <3>2. Sent(Dat(Byte("F4")), Quiet(None, On(n)), Keyed(On(n)))'
      BY <2>2, <2>4, <3>1, OwesNone DEF Mouse, Sent
    <3>3. Rows(29, n)'
      BY <2>3, <3>2 DEF Rows, FlushRow, TestRow, EnableRow, ResetRow
    <3> QED
      BY <1>4, <2>2, <3>3 DEF Reaches
  <2>5. CASE inb = Nothing /\ Two(On(n))
    <3>1. Sent(Dat(Byte("F4")), Quiet(None, On(n)), Keyed(On(n)))' \/ (inb' = Nothing /\ Left(On(n))')
      BY <2>2, <2>5, TwoReceive DEF Sent
    <3>2. Rows(29, n)'
      BY <2>3, <3>1 DEF Rows, FlushRow, TestRow, EnableRow, ResetRow
    <3> QED
      BY <1>4, <2>2, <3>2 DEF Reaches
  <2> QED
    BY <2>3, <2>4, <2>5 DEF Sent
<1> QED
  BY <1>1, <1>2, <1>3, <1>4

\* What one step of the constructor does to the row.
LEMMA RowConstruct ==
  ASSUME NEW n \in {1, 2}, Ports(n), step \in 1..29, step > 5 => dual = mouse, Rows(step, n),
         Construct
  PROVE  lost' \/ \E j \in 1..29 : Reaches(j, n)'
<1>1. step \in 1..28
  <2>1. Len(Script) = 28
    BY ScriptIs
  <2>2. ~Constructed
    BY DEF Construct, Skip, SendCommand, SendData, Receive, FlushOutput, Does
  <2> QED
    BY <2>1, <2>2 DEF Constructed
<1>2. CASE step \in {1, 2, 3}
  BY <1>2, RowsFlush
<1>3. CASE step \in {4, 5, 6, 7}
  BY <1>3, RowsRead
<1>4. CASE step \in {8, 9, 10, 11, 12, 13}
  BY <1>4, RowsTest
<1>5. CASE step \in {14, 15, 16, 17, 18, 19}
  BY <1>5, RowsEnable
<1>6. CASE step \in {20, 21, 22, 23, 24}
  BY <1>6, RowsReset
<1>7. CASE step \in {25, 26, 27, 28}
  BY <1>7, RowsMouse
<1> QED
  BY <1>1, <1>2, <1>3, <1>4, <1>5, <1>6, <1>7

\* Nobody changes the machine.
LEMMA PortsStill ==
  ASSUME NEW n \in {1, 2}, Ports(n), mouse' = mouse
  PROVE  Ports(n)'
  BY DEF Ports

\* A step on the PS/2 controller keeps the row, unless a command is lost.
LEMMA PS2Step ==
  ASSUME PS2Inv, ~lost, Construct \/ Device
  PROVE  PS2Inv'
<1>1. PICK n \in {1, 2} : Ports(n) /\ step \in 1..29 /\ (step > 5 => dual = mouse) /\ Rows(step, n)
  BY DEF PS2Inv, Row
<1>2. CASE Device
  <2>1. UNCHANGED <<step, dual, mouse>>
    BY <1>2, DeviceIs DEF constructor
  <2>2. Rows(step, n)'
    <3>1. PICK k \in 1..29 : k = step
      BY <1>1
    <3>2. Rows(k, n)'
      BY <1>1, <1>2, <3>1, RowDevice
    <3>3. step' = k
      BY <2>1, <3>1
    <3> QED
      BY <3>2, <3>3
  <2> QED
    BY <1>1, <2>1, <2>2, PortsStill DEF PS2Inv, Row
<1>3. CASE Construct
  <2>1. CASE lost'
    BY <2>1 DEF PS2Inv
  <2>2. CASE \E j \in 1..29 : Reaches(j, n)'
    <3>1. PICK j \in 1..29 : Reaches(j, n)'
      BY <2>2
    <3>2. mouse' = mouse
      BY <1>3 DEF Construct, Skip, SendCommand, SendData, Receive, FlushOutput, controller
    <3>3. step' = j /\ (j > 5 => dual' = mouse') /\ Rows(j, n)'
      BY <3>1 DEF Reaches
    <3>4. Ports(n)'
      BY <1>1, <3>2, PortsStill
    <3>5. Rows(step, n)'
      BY <3>3
    <3> QED
      BY <3>3, <3>4, <3>5 DEF PS2Inv, Row
  <2> QED
    BY <1>1, <1>3, <2>1, <2>2, RowConstruct
<1> QED
  BY <1>2, <1>3

\* The first row.
LEMMA PS2Start ==
  ASSUME PS2Init
  PROVE  PS2Inv
<1>1. PICK n \in {1, 2} : Ports(n)
  <2>1. mouse \in BOOLEAN
    BY DEF PS2Init
  <2>2. CASE mouse
    BY <2>1, <2>2 DEF Ports
  <2>3. CASE ~mouse
    BY <2>1, <2>3 DEF Ports
  <2> QED
    BY <2>2, <2>3
<1>2. inb = Nothing /\ Full({0, 6}) /\ step = 1
  BY DEF PS2Init, Full, Owes
<1>3. Rows(1, n)
  BY <1>2 DEF Rows, FlushRow, TestRow, EnableRow, ResetRow
<1> QED
  BY <1>1, <1>2, <1>3 DEF PS2Inv, Row

\* When one source owes bytes and the buffer is empty, or the last one is there, one is left.
LEMMA OneUnread ==
  ASSUME NEW c, Keyed(c) \/ Left(c)
  PROVE  Unread = 1 /\ scanning = TRUE /\ config = c
<1> DEFINE Debtors == {s \in Sources : owed[s] # << >>}
<1>1. PICK src \in {"keyboard", "mouse"}, b \in {Byte("FA"), Byte("00")} :
        Holds(None, c, TRUE, src, <<b>>)
  BY DEF Keyed, Left
<1>2. Tail(<<b>>) = << >> /\ src \in Sources /\ <<b>> # << >>
  BY Tuples DEF Sources
<1>0. Unread = Cardinality(Debtors) + (IF outb = Nothing THEN 0 ELSE 1)
  BY DEF Unread
<1>3. CASE outb = Nothing /\ owed = Owes(src, <<b>>)
  <2>1. Debtors = {src}
    BY <1>2, <1>3 DEF Owes
  <2>2. Cardinality({src}) = 1
    BY FS_Singleton
  <2> HIDE DEF Debtors
  <2> QED
    BY <1>0, <1>1, <1>3, <2>1, <2>2 DEF Holds
<1>4. CASE outb # Nothing /\ owed = Owes(src, << >>)
  <2>1. Debtors = {}
    BY <1>4 DEF Owes
  <2>2. Cardinality({}) = 0
    BY FS_EmptySet
  <2> HIDE DEF Debtors
  <2> QED
    BY <1>0, <1>1, <1>4, <2>1, <2>2 DEF Holds
<1> QED
  BY <1>1, <1>2, <1>3, <1>4 DEF Holds

\* The last row is what the constructor was for.
LEMMA ReadyAtEnd ==
  ASSUME PS2Inv
  PROVE  ControllerReady
<1> SUFFICES ASSUME Constructed, ~lost, inb = Nothing
             PROVE  /\ scanning /\ {0, 6} \subseteq config /\ 4 \notin config
                    /\ dual /\ 1 \in config /\ 5 \notin config
                    /\ Unread = 1
  BY DEF ControllerReady
<1>1. PICK n \in {1, 2} : Ports(n) /\ step \in 1..29 /\ (step > 5 => dual = mouse) /\ Rows(step, n)
  BY DEF PS2Inv, Row
<1>2. step = 29
  <2>1. Len(Script) = 28
    BY ScriptIs
  <2> QED
    BY <1>1, <2>1 DEF Constructed
<1>3. n = 2 /\ (Keyed(On(n)) \/ Left(On(n)))
  BY <1>1, <1>2, Somethings DEF Rows, ResetRow, Sent
<1>4. Unread = 1 /\ scanning = TRUE /\ config = On(n)
  BY <1>3, OneUnread
<1>5. dual = mouse /\ mouse
  BY <1>1, <1>2, <1>3 DEF Ports
<1> QED
  BY <1>3, <1>4, <1>5, Bits

\* Nobody touches the PS/2 controller.
LEMMA PS2Still ==
  ASSUME PS2Inv, UNCHANGED ps2Vars
  PROVE  PS2Inv'
<1>1. /\ step' = step /\ dual' = dual /\ response' = response /\ inb' = inb /\ outb' = outb
      /\ mouse' = mouse /\ lost' = lost /\ UNCHANGED controller
  BY DEF ps2Vars, constructor, controller
<1>2. CASE lost
  BY <1>1, <1>2 DEF PS2Inv
<1>3. CASE ~lost
  <2>1. PICK n \in {1, 2} : Ports(n) /\ step \in 1..29 /\ (step > 5 => dual = mouse) /\ Rows(step, n)
    BY <1>3 DEF PS2Inv, Row
  <2>2. PICK k \in 1..29 : k = step
    BY <2>1
  <2>3. /\ \A w, c : Quiet(w, c) => Quiet(w, c)'
        /\ \A c : Full(c) => Full(c)'
        /\ \A c, b : Answers(c, b) => Answers(c, b)'
    BY <1>1, QuietStill, FullStill, HoldsStill DEF Answers
  <2>4. /\ \A c, seq : Keys(c, seq) => Keys(c, seq)'
        /\ \A c, seq : Mouse(c, seq) => Mouse(c, seq)'
        /\ \A c : (Keyed(c) => Keyed(c)') /\ (Left(c) => Left(c)')
    BY <1>1, HoldsStill DEF Keys, Mouse, Keyed, Left
  <2>5. \A c : Two(c) => Two(c)'
    BY <1>1 DEF Two, controller
  <2>6. FlushRow(k, n)'
    BY <1>1, <2>1, <2>2, <2>3 DEF Rows, FlushRow, Sent
  <2>7. TestRow(k, n)'
    BY <1>1, <2>1, <2>2, <2>3 DEF Rows, TestRow, Sent, Still
  <2>8. EnableRow(k, n)'
    BY <1>1, <2>1, <2>2, <2>3 DEF Rows, EnableRow, Sent, Still
  <2>9. ResetRow(k, n)'
    BY <1>1, <2>1, <2>2, <2>3, <2>4, <2>5 DEF Rows, ResetRow, Sent, Still
  <2>10. Rows(step, n)'
    <3>1. Rows(k, n)' /\ step' = k
      BY <1>1, <2>2, <2>6, <2>7, <2>8, <2>9 DEF Rows
    <3> QED
      BY <3>1
  <2>11. Ports(n)'
    BY <1>1, <2>1, PortsStill
  <2> QED
    BY <1>1, <2>1, <2>10, <2>11 DEF PS2Inv, Row
<1> QED
  BY <1>2, <1>3

\* Only the first core and the devices touch the PS/2 controller, as long as no
\* command was lost.
LEMMA PS2InBoot == PS2Inv /\ [Next]_bootVars => PS2Inv'
<1> SUFFICES ASSUME PS2Inv, [Next]_bootVars PROVE PS2Inv'
  OBVIOUS
<1>1. CASE UNCHANGED bootVars
  BY <1>1, PS2Still DEF bootVars
<1>2. CASE External
  BY <1>2, PS2Step DEF External
<1>3. ASSUME NEW c \in Cores, Core(c) PROVE PS2Inv'
  <2>1. CASE Keyboard(c)
    <3>1. UNCHANGED ps2Vars \/ Construct
      BY <2>1 DEF Keyboard
    <3> QED
      BY <1>3, <3>1, PS2Still, PS2Step DEF Core
  <2>2. CASE ~Keyboard(c)
    <3>1. UNCHANGED ps2Vars
      BY <1>3, <2>2 DEF Core, Prepare, MaskKeyboard, Calibrate, StartNext, StartAndWait, Arrive,
                        StartTimer, OpenKeyboard, CountHere
    <3> QED
      BY <3>1, PS2Still
  <2> QED
    BY <2>1, <2>2
<1> QED
  BY <1>1, <1>2, <1>3 DEF Next

\* As long as no command is lost, the constructor and the controller go through
\* the rows together, whatever the cores and the devices do in between (the
\* constructor in keyboard.h).
THEOREM PS2Invariance == Spec => []PS2Inv
<1>1. Init => PS2Inv
  BY PS2Start DEF Init
<1> QED
  BY <1>1, PS2InBoot, PTL DEF Spec

\* When the constructor is through, the ports are enabled and the keyboard scans, and
\* exactly one byte is left unread (keyboard.h:156-171, 212-219).
THEOREM ControllerIsReady == Spec => []ControllerReady
<1> QED
  BY PS2Invariance, ReadyAtEnd, PTL

-----------------------------------------------------------------------------
(***************************************************************************)
(* Induction over the natural numbers, as the least element of a set of    *)
(* them, and as a set that every number is in.                             *)
(***************************************************************************)
\* The order of the natural numbers.
LessNat == {ss \in Nat \X Nat : ss[1] < ss[2]}
\* It is well-founded.
LEMMA LessNatWF == IsWellFoundedOn(LessNat, Nat)
  BY NatLessThanWellFounded, Zenon DEF LessNat, OpToRel
\* A set of natural numbers has a least element.
LEMMA LeastElement ==
  ASSUME NEW S \in SUBSET Nat, S # {}
  PROVE  \E n \in S : \A k \in S : n <= k
<1>1. PICK n \in S : \A k \in S : <<k, n>> \notin LessNat
  BY LessNatWF, WFMin, Zenon
<1>2. ASSUME NEW k \in S, k < n PROVE FALSE
  <2>1. <<k, n>> \in LessNat
    BY <1>2 DEF LessNat
  <2> QED
    BY <1>1, <2>1
<1> QED
  BY <1>2

\* A set with m that has the next of each of its numbers up to n.
LEMMA SetInduction ==
  ASSUME NEW m \in Nat, NEW n \in Nat, NEW S, m \in S,
         \A k \in m..n : k > m /\ k - 1 \in S => k \in S
  PROVE  \A k \in m..n : k \in S
<1> SUFFICES ASSUME NEW k \in m..n, k \notin S PROVE FALSE
  OBVIOUS
<1>1. PICK T : T = (m..n) \ S
  OBVIOUS
<1>2. T \in SUBSET Nat /\ T # {}
  BY <1>1
<1>3. PICK l \in T : \A j \in T : l <= j
  BY <1>2, LeastElement
<1>4. l \in m..n /\ l \notin S /\ l # m
  BY <1>1
<1>5. l > m /\ l - 1 \in m..n /\ ~(l <= l - 1)
  BY <1>4
<1>6. l - 1 \in S
  BY <1>1, <1>3, <1>5
<1> QED
  BY <1>4, <1>5, <1>6

\* Two functions are alike from m to n if they are step by step.
StaysAlike(f, g, m, n) == \A k \in m..n : (k > m => f[k - 1] = g[k - 1]) => f[k] = g[k]
\* Then their values are the same.
LEMMA Alike ==
  ASSUME NEW m \in Nat, NEW n \in Nat, NEW f, NEW g, StaysAlike(f, g, m, n)
  PROVE  \A k \in m..n : f[k] = g[k]
<1> SUFFICES ASSUME m <= n PROVE \A k \in m..n : f[k] = g[k]
  OBVIOUS
<1>1. PICK S : S = {k \in m..n : f[k] = g[k]}
  OBVIOUS
<1>2. m \in S
  <2>1. m \in m..n /\ ~(m > m)
    OBVIOUS
  <2> QED
    BY <1>1, <2>1 DEF StaysAlike
<1>3. \A k \in m..n : k > m /\ k - 1 \in S => k \in S
  BY <1>1 DEF StaysAlike
<1>4. \A k \in m..n : k \in S
  BY <1>2, <1>3, SetInduction
<1> QED
  BY <1>1, <1>4

\* So are their last ones.
LEMMA AlikeAtEnd ==
  ASSUME NEW n \in Nat, NEW f, NEW g, StaysAlike(f, g, 0, n)
  PROVE  f[n] = g[n]
<1>1. PICK z : z = 0
  OBVIOUS
<1>2. z \in Nat /\ StaysAlike(f, g, z, n) /\ n \in z..n
  BY <1>1
<1>3. \A k \in z..n : f[k] = g[k]
  BY <1>2, Alike
<1> QED
  BY <1>2, <1>3

\* f takes n steps from t.
Iterates(f, t, advance, n) == f[0] = t /\ \A k \in 1..n : f[k] = advance[k][f[k - 1]]
\* A function that is defined step by step exists.
LEMMA Iteration ==
  ASSUME NEW T, NEW t \in T, NEW n \in Nat, NEW advance \in [1..n -> [T -> T]]
  PROVE  \E f \in [0..n -> T] : Iterates(f, t, advance, n)
<1>1. PICK S : S = {m \in 0..n : \E f \in [0..m -> T] : Iterates(f, t, advance, m)}
  OBVIOUS
<1>2. 0 \in S
  <2>1. PICK f : f = [k \in 0..0 |-> t]
    OBVIOUS
  <2>2. f \in [0..0 -> T] /\ Iterates(f, t, advance, 0)
    BY <2>1 DEF Iterates
  <2> QED
    BY <1>1, <2>2
<1>3. ASSUME NEW m \in 0..n, m > 0, m - 1 \in S PROVE m \in S
  <2>1. PICK l : l = m - 1
    OBVIOUS
  <2>2. l \in Nat /\ m = l + 1 /\ m \in 1..n
    BY <1>3, <2>1
  <2>3. PICK f \in [0..l -> T] : Iterates(f, t, advance, l)
    BY <1>1, <1>3, <2>1
  <2>4. advance[m] \in [T -> T] /\ f[l] \in T
    BY <2>2
  <2>5. PICK g : g = [k \in 0..m |-> IF k = m THEN advance[m][f[l]] ELSE f[k]]
    OBVIOUS
  <2>6. g \in [0..m -> T]
    <3>1. ASSUME NEW k \in 0..m PROVE (IF k = m THEN advance[m][f[l]] ELSE f[k]) \in T
      <4>1. k # m => k \in 0..l
        BY <2>2
      <4> QED
        BY <4>1, <2>4
    <3> QED
      BY <2>5, <3>1
  <2>7. \A k \in 0..l : g[k] = f[k]
    BY <2>2, <2>5
  <2>8. g[m] = advance[m][f[l]]
    BY <2>2, <2>5
  <2>9. Iterates(g, t, advance, m)
    <3>1. g[0] = t
      BY <2>2, <2>3, <2>7 DEF Iterates
    <3>2. ASSUME NEW k \in 1..m PROVE g[k] = advance[k][g[k - 1]]
      <4>1. CASE k = m
        BY <4>1, <2>1, <2>2, <2>7, <2>8
      <4>2. CASE k # m
        <5>1. k \in 1..l /\ k \in 0..l /\ k - 1 \in 0..l
          BY <4>2, <2>2
        <5> QED
          BY <5>1, <2>3, <2>7 DEF Iterates
      <4> QED
        BY <4>1, <4>2
    <3> QED
      BY <3>1, <3>2 DEF Iterates
  <2> QED
    BY <1>1, <2>6, <2>9
<1>4. \A k \in 0..n : k \in S
  BY <1>2, <1>3, SetInduction
<1> QED
  BY <1>1, <1>4

-----------------------------------------------------------------------------
(***************************************************************************)
(* Reading: read_all gives what the blocks hold, whatever their size and   *)
(* wherever it begins and ends.                                            *)
(***************************************************************************)
\* n cells after the first o.
Taken(data, o, n, got) ==
  got \in Seq(Nat) /\ Len(got) = n /\ \A i \in 1..n : got[i] = data[o + i]
\* The part of a sequence after o elements, n elements long.
LEMMA Part ==
  ASSUME NEW data \in Seq(Nat), NEW o \in Nat, NEW n \in Nat, o + n <= Len(data),
         NEW got, got = SubSeq(data, o + 1, o + n)
  PROVE  Taken(data, o, n, got)
<1>1. got \in Seq(Nat) /\ Len(got) = n
  OBVIOUS
<1>2. ASSUME NEW i \in 1..n PROVE got[i] = data[o + i]
  <2>1. i \in 1..((o + n) - (o + 1) + 1) /\ (o + 1) + i - 1 = o + i
    OBVIOUS
  <2>2. SubSeq(data, o + 1, o + n)[i] = data[(o + 1) + i - 1]
    BY <2>1
  <2> QED
    BY <2>1, <2>2
<1> QED
  BY <1>1, <1>2 DEF Taken

\* Sequences are the same if their elements are.
LEMMA SameSeq ==
  ASSUME NEW S, NEW s \in Seq(S), NEW t \in Seq(S), Len(s) = Len(t), \A i \in 1..Len(s) : s[i] = t[i]
  PROVE  s = t
OBVIOUS

\* Two parts side by side are one.
LEMMA Parts ==
  ASSUME NEW S, NEW s \in Seq(S), NEW a \in Nat, NEW b \in Nat, NEW c \in Nat, a <= b, b <= c, c <= Len(s)
  PROVE  SubSeq(s, a + 1, b) \o SubSeq(s, b + 1, c) = SubSeq(s, a + 1, c)
<1>1. PICK x : x = SubSeq(s, a + 1, b)
  OBVIOUS
<1>2. PICK y : y = SubSeq(s, b + 1, c)
  OBVIOUS
<1>3. PICK z : z = SubSeq(s, a + 1, c)
  OBVIOUS
<1>4. x \in Seq(S) /\ Len(x) = b - a /\ \A i \in 1..(b - a) : x[i] = s[a + i]
  BY <1>1
<1>5. y \in Seq(S) /\ Len(y) = c - b /\ \A i \in 1..(c - b) : y[i] = s[b + i]
  BY <1>2
<1>6. z \in Seq(S) /\ Len(z) = c - a /\ \A i \in 1..(c - a) : z[i] = s[a + i]
  BY <1>3
<1>7. PICK w : w = x \o y
  OBVIOUS
<1>8. w \in Seq(S) /\ Len(w) = c - a
  <2>1. x \in Seq(S) /\ y \in Seq(S)
    BY <1>4, <1>5
  <2>2. w \in Seq(S) /\ Len(w) = Len(x) + Len(y)
    BY <2>1, <1>7
  <2> QED
    BY <2>2, <1>4, <1>5
<1>9. ASSUME NEW i \in 1..(c - a) PROVE w[i] = z[i]
  <2>1. CASE i <= b - a
    BY <2>1, <1>4, <1>5, <1>6, <1>7
  <2>2. CASE ~(i <= b - a)
    <3>1. w[i] = y[i - (b - a)] /\ i - (b - a) \in 1..(c - b)
      BY <2>2, <1>4, <1>5, <1>7
    <3>2. y[i - (b - a)] = s[b + (i - (b - a))]
      BY <3>1, <1>5
    <3> QED
      BY <3>1, <3>2, <1>6
  <2> QED
    BY <2>1, <2>2
<1>10. w = z
  BY <1>6, <1>8, <1>9, SameSeq
<1> QED
  BY <1>1, <1>2, <1>3, <1>7, <1>10

\* Cells that are read are neither the error nor a panic.
LEMMA NoError == ASSUME NEW s \in Seq(Nat) PROVE s # Error /\ s # Panicked
<1>1. ASSUME s = Error \/ s = Panicked PROVE FALSE
  <2>1. Len(s) = 1 /\ (s[1] = -1 \/ s[1] = -2)
    BY <1>1 DEF Error, Panicked
  <2>2. 1 \in 1..Len(s)
    BY <2>1
  <2>3. s[1] \in Nat
    BY <2>2
  <2>4. s[1] + 1 = 0 \/ s[1] + 2 = 0
    BY <2>1
  <2> QED
    BY <2>3, <2>4
<1> QED
  BY <1>1

\* io has the cells of data in its blocks, and perhaps more behind them.
Room(io, data, b) == Least(io.block, Len(data) - io.block * (b - 1))
Shows(io, data) ==
  /\ data \in Seq(Nat) /\ io.size \in Nat /\ Len(data) <= io.size /\ io.block \in Nat \ {0}
  /\ \A b \in 1..Ceil(Len(data), io.block) :
       /\ b \in DOMAIN io.blocks
       /\ io.blocks[b] \in Seq(Nat) /\ Len(io.blocks[b]) >= Room(io, data, b)
       /\ \A j \in 1..Room(io, data, b) : io.blocks[b][j] = data[io.block * (b - 1) + j]
\* Nothing behind them.
Stores(io, data) == Shows(io, data) /\ io.size = Len(data)
\* What is read at o is of these cells.
Within(io, data, o, n) == o + n <= Len(data) \/ io.size = Len(data)

\* A place in a block.
LEMMA Division ==
  ASSUME NEW a \in Nat, NEW b \in Nat, b > 0
  PROVE  /\ b * (a \div b) + (a % b) = a /\ a % b \in Nat /\ a % b < b /\ a \div b \in Nat
         /\ \A n \in Nat : a < n => (a \div b) + 1 <= Ceil(n, b)
<1>1. PICK q, r : q = a \div b /\ r = a % b
  OBVIOUS
<1>2. q \in Nat /\ r \in Nat /\ r < b /\ b * q + r = a
  BY <1>1
<1>3. ASSUME NEW n \in Nat, a < n PROVE q + 1 <= Ceil(n, b)
  <2>1. PICK c : c = (n + b - 1) \div b
    OBVIOUS
  <2>2. c \in Int /\ n + b - 1 < b * c + b
    BY <2>1
  <2>3. ASSUME c <= q PROVE FALSE
    <3>1. b * c <= b * q
      BY <1>2, <2>2, <2>3
    <3> QED
      BY <3>1, <2>2, <1>2, <1>3
  <2> QED
    BY <1>2, <2>1, <2>2, <2>3 DEF Ceil
<1> QED
  BY <1>1, <1>2, <1>3

\* BlockIO::read gives at least one cell if there is one.
ReadGives(data, o, n, got) ==
  /\ o > Len(data) => got = Error
  /\ o = Len(data) => got = << >>
  /\ o < Len(data) => \E m \in 1..n : o + m <= Len(data) /\ got = SubSeq(data, o + 1, o + m)
\* What BlockIO::read gives.
LEMMA ReadIs ==
  ASSUME NEW io, NEW data, Shows(io, data), NEW o \in Nat, NEW n \in Nat \ {0}, Within(io, data, o, n)
  PROVE  ReadGives(data, o, n, Read(io, o, n))
<1>1. /\ data \in Seq(Nat) /\ Len(data) \in Nat /\ io.size \in Nat /\ Len(data) <= io.size
      /\ (o + n <= Len(data) \/ io.size = Len(data)) /\ io.block \in Nat /\ io.block > 0
  BY DEF Shows, Within
<1>2. ASSUME o < Len(data)
      PROVE  \E m \in 1..n : o + m <= Len(data) /\ Read(io, o, n) = SubSeq(data, o + 1, o + m)
  <2>1. PICK B, L : B = io.block /\ L = Len(data)
    OBVIOUS
  <2>2. PICK q, r : q = o \div B /\ r = o % B
    OBVIOUS
  <2>3. q \in Nat /\ r \in Nat /\ r < B /\ B * q + r = o /\ q + 1 \in 1..Ceil(L, B) /\ B \in Nat /\ L \in Nat
        /\ B * q \in Nat
    <3>1. B \in Nat /\ B > 0 /\ L \in Nat /\ o < L
      BY <1>1, <1>2, <2>1
    <3>2. /\ B * (o \div B) + (o % B) = o /\ o % B \in Nat /\ o % B < B /\ o \div B \in Nat
          /\ (o \div B) + 1 <= Ceil(L, B)
      BY <3>1, Division
    <3>3. q + 1 <= Ceil(L, B) /\ q \in Nat /\ Ceil(L, B) \in Int
      BY <2>2, <3>1, <3>2 DEF Ceil
    <3> QED
      BY <2>2, <3>1, <3>2, <3>3
  <2>4. PICK cells : cells = io.blocks[q + 1]
    OBVIOUS
  <2>5. PICK room : room = Least(B, L - B * q)
    OBVIOUS
  <2>6. /\ cells \in Seq(Nat) /\ Len(cells) >= room
        /\ \A j \in 1..room : cells[j] = data[B * q + j]
        /\ BlockAt(io, q + 1) = cells
    <3>1. Room(io, data, q + 1) = room
      <4>1. (q + 1) - 1 = q
        BY <2>3
      <4> QED
        BY <4>1, <2>1, <2>5 DEF Room
    <3>2. \A b \in 1..Ceil(L, B) :
            /\ io.blocks[b] \in Seq(Nat) /\ Len(io.blocks[b]) >= Room(io, data, b)
            /\ \A j \in 1..Room(io, data, b) : io.blocks[b][j] = data[B * (b - 1) + j]
            /\ b \in DOMAIN io.blocks
      BY <2>1 DEF Shows
    <3>3. (q + 1) - 1 = q
      BY <2>3
    <3>4. BlockAt(io, q + 1) = cells
      BY <3>2, <2>3, <2>4 DEF BlockAt
    <3> QED
      BY <3>1, <3>2, <3>3, <3>4, <2>3, <2>4
  <2>7. PICK m : m = Least(B - r, Least(n, L - o))
    OBVIOUS
  <2>8. m \in 1..n /\ o + m <= L /\ r + m <= room /\ room \in Nat
    <3>1. PICK k : k = Least(n, L - o)
      OBVIOUS
    <3>2. k \in 1..n /\ o + k <= L
      BY <1>2, <2>1, <2>3, <3>1 DEF Least
    <3>3. m \in 1..k /\ m <= B - r
      BY <2>3, <2>7, <3>1, <3>2 DEF Least
    <3>4. PICK d : d = B * q
      OBVIOUS
    <3>5. d + r = o /\ d \in Nat /\ (room = B \/ room = L - d) /\ room \in Nat
      <4>1. d + r = o /\ d \in Nat
        BY <2>3, <3>4
      <4>2. room = IF B < L - d THEN B ELSE L - d
        BY <2>5, <3>4 DEF Least
      <4> QED
        BY <4>1, <4>2, <2>3, <3>2
    <3> QED
      BY <2>3, <3>2, <3>3, <3>5
  <2>9. Read(io, o, n) = SubSeq(cells, r + 1, r + m)
    <3>1. ~(o > io.size) /\ o # io.size
      BY <1>1, <1>2
    <3>2. Least(n, io.size - o) = Least(n, L - o)
      BY <1>1, <1>2, <2>1 DEF Least
    <3>3. cells # Panicked
      BY <2>6, NoError
    <3>4. Read(io, o, n) = Piece(cells, r, m)
      BY <3>1, <3>2, <3>3, <2>1, <2>2, <2>6, <2>7, Zenon DEF Read
    <3> QED
      BY <3>4 DEF Piece
  <2>10. PICK x, y : x = SubSeq(cells, r + 1, r + m) /\ y = SubSeq(data, o + 1, o + m)
    OBVIOUS
  <2>11. x \in Seq(Nat) /\ Len(x) = m /\ \A i \in 1..m : x[i] = cells[r + i]
    <3>1. m \in Nat /\ r + m <= Len(cells)
      <4>1. m \in Nat /\ r + m <= room /\ room \in Nat /\ r \in Nat
        BY <2>3, <2>8
      <4>2. room <= Len(cells) /\ Len(cells) \in Nat
        BY <2>6, <4>1
      <4> QED
        BY <4>1, <4>2
    <3>2. cells \in Seq(Nat) /\ r \in Nat
      BY <2>3, <2>6
    <3>3. Taken(cells, r, m, x)
      BY <3>1, <3>2, <2>10, Part
    <3> QED
      BY <3>3 DEF Taken
  <2>12. y \in Seq(Nat) /\ Len(y) = m /\ \A i \in 1..m : y[i] = data[o + i]
    <3>1. m \in Nat /\ o + m <= Len(data)
      BY <2>8, <2>1
    <3>2. Taken(data, o, m, y)
      BY <3>1, <1>1, <2>10, Part
    <3> QED
      BY <3>2 DEF Taken
  <2>13. ASSUME NEW i \in 1..m PROVE x[i] = y[i]
    <3>1. r + i \in 1..room /\ B * q + (r + i) = o + i
      BY <2>3, <2>8
    <3> QED
      BY <3>1, <2>6, <2>11, <2>12
  <2>14. x = y
    BY <2>11, <2>12, <2>13, SameSeq
  <2> QED
    BY <2>1, <2>8, <2>9, <2>10, <2>14
<1>3. o > Len(data) => Read(io, o, n) = Error
  BY <1>1 DEF Read
<1>4. o = Len(data) => Read(io, o, n) = << >>
  BY <1>1 DEF Read
<1> QED
  BY <1>2, <1>3, <1>4 DEF ReadGives
\* What read_all has left to give when it has read done cells, if there is anything.
LeftToRead(data, o, n, done) ==
  IF done = n THEN << >>
  ELSE IF o + done > Len(data) THEN Error
  ELSE SubSeq(data, o + done + 1, Least(o + n, Len(data)))

\* One read() in read_all, and the rest.
ReadContinues(data, o, n, done, got) ==
  \/ got \in {Error, << >>} /\ got = LeftToRead(data, o, n, done)
  \/ /\ got \notin {Error, << >>, Panicked} /\ Len(got) \in 1..(n - done)
     /\ LeftToRead(data, o, n, done + Len(got)) # Panicked
     /\ got \o LeftToRead(data, o, n, done + Len(got)) = LeftToRead(data, o, n, done)
\* read_all goes on after a read() where it ended.
LEMMA ReadStep ==
  ASSUME NEW io, NEW data, Shows(io, data), NEW o \in Nat, NEW n \in Nat, Within(io, data, o, n),
         NEW done \in 0..n, done # n,
         NEW got, got = Read(io, o + done, n - done)
  PROVE  ReadContinues(data, o, n, done, got)
<1>1. PICK L, p, k : L = Len(data) /\ p = o + done /\ k = n - done
  OBVIOUS
<1>2. L \in Nat /\ p \in Nat /\ k \in Nat \ {0} /\ data \in Seq(Nat) /\ p + k = o + n /\ done \in Nat
      /\ done + k = n /\ Within(io, data, p, k)
  BY <1>1 DEF Shows, Within
<1>3. /\ p > L => got = Error
      /\ p = L => got = << >>
      /\ p < L => \E m \in 1..k : p + m <= L /\ got = SubSeq(data, p + 1, p + m)
  <2>1. ReadGives(data, p, k, Read(io, p, k))
    BY <1>2, ReadIs
  <2>2. got = Read(io, p, k)
    BY <1>1
  <2> QED
    BY <2>1, <2>2, <1>1, Zenon DEF ReadGives
<1>4. LeftToRead(data, o, n, done) = IF p > L THEN Error ELSE SubSeq(data, p + 1, Least(p + k, L))
  BY <1>1, <1>2 DEF LeftToRead
<1>5. CASE p > L
  BY <1>3, <1>4, <1>5 DEF ReadContinues
<1>6. CASE p = L
  <2>1. Least(p + k, L) = p
    BY <1>2, <1>6 DEF Least
  <2>2. SubSeq(data, p + 1, p) = << >>
    BY <1>2
  <2> QED
    BY <1>2, <1>3, <1>4, <1>6, <2>1, <2>2 DEF ReadContinues
<1>7. CASE p < L
  <2>1. PICK m \in 1..k : p + m <= L /\ got = SubSeq(data, p + 1, p + m)
    BY <1>3, <1>7
  <2>2. got \in Seq(Nat) /\ Len(got) = m
    <3>1. m \in Nat /\ p + m <= Len(data)
      BY <1>1, <2>1, <1>2
    <3> QED
      <4>1. Taken(data, p, m, got)
        BY <1>2, <2>1, <3>1, Part
      <4> QED
        BY <4>1 DEF Taken
  <2>3. got \notin {Error, << >>, Panicked}
    <3>1. got # << >>
      BY <2>1, <2>2
    <3>2. got # Error /\ got # Panicked
      BY <2>2, NoError
    <3> QED
      BY <3>1, <3>2
  <2>4. PICK e : e = Least(p + k, L)
    OBVIOUS
  <2>5. e \in Nat /\ p + m <= e /\ e <= L /\ (m = k => e = p + m)
    BY <1>2, <1>7, <2>1, <2>4 DEF Least
  <2>6. LeftToRead(data, o, n, done + m) = SubSeq(data, p + m + 1, e)
    <3>1. CASE m = k
      <4>1. LeftToRead(data, o, n, done + m) = << >>
        BY <3>1, <1>2 DEF LeftToRead
      <4>2. SubSeq(data, p + m + 1, p + m) = << >>
        BY <1>2, <2>1
      <4> QED
        BY <3>1, <2>5, <4>1, <4>2
    <3>2. CASE m # k
      <4>1. done + m # n /\ ~(o + (done + m) > L) /\ o + (done + m) + 1 = p + m + 1 /\ o + n = p + k
        BY <3>2, <1>1, <1>2, <2>1
      <4> QED
        BY <4>1, <2>4, <1>1 DEF LeftToRead
    <3> QED
      BY <3>1, <3>2
  <2>7. SubSeq(data, p + 1, p + m) \o SubSeq(data, p + m + 1, e) = SubSeq(data, p + 1, e)
    <3>1. p + m \in Nat /\ p <= p + m /\ e <= Len(data)
      BY <1>1, <1>2, <2>1, <2>5
    <3> QED
      BY <3>1, <1>2, <2>5, Parts
  <2>8. got \o LeftToRead(data, o, n, done + Len(got)) = LeftToRead(data, o, n, done)
    <3>1. LeftToRead(data, o, n, done) = SubSeq(data, p + 1, e)
      <4>1. ~(p > L)
        BY <1>2, <1>7
      <4> QED
        BY <4>1, <1>4, <2>4, Zenon
    <3> QED
      BY <3>1, <2>1, <2>2, <2>6, <2>7, Zenon
  <2>9. LeftToRead(data, o, n, done + Len(got)) # Panicked
    <3>1. SubSeq(data, p + m + 1, e) \in Seq(Nat)
      BY <1>1, <1>2, <2>1, <2>5
    <3> QED
      BY <3>1, <2>2, <2>6, NoError
  <2> QED
    BY <1>1, <2>1, <2>2, <2>3, <2>8, <2>9 DEF ReadContinues
<1> QED
  BY <1>2, <1>5, <1>6, <1>7

\* What BlockIO::read_all gives.
LEMMA ReadAllGives ==
  ASSUME NEW io, NEW data, Shows(io, data), NEW o \in Nat, NEW n \in Nat, Within(io, data, o, n)
  PROVE  ReadAll(io, o, n) = LeftToRead(data, o, n, 0)
<1> DEFINE H == [done \in 0..n |-> LeftToRead(data, o, n, done)]
           Body(g, done) ==
             IF done = n THEN << >>
             ELSE LET got == Read(io, o + done, n - done) IN
                  IF got \in {Error, << >>, Panicked} THEN got
                  ELSE LET rest == g[done + Len(got)] IN
                       IF rest = Panicked THEN Panicked ELSE got \o rest
           F(g) == [done \in 0..n |-> Body(g, done)]
           f == CHOOSE g : g = F(g)
<1>1. ReadAll(io, o, n) = f[0]
  BY DEF ReadAll
<1>2. ASSUME NEW g, NEW done \in 0..n,
             \A d \in 0..n : d > done => g[d] = LeftToRead(data, o, n, d)
      PROVE  Body(g, done) = LeftToRead(data, o, n, done)
  <2>1. CASE done = n
    BY <2>1 DEF LeftToRead
  <2>2. CASE done # n
    <3>1. PICK got : got = Read(io, o + done, n - done)
      OBVIOUS
    <3>2. Body(g, done) = IF got \in {Error, << >>, Panicked} THEN got
                          ELSE IF g[done + Len(got)] = Panicked THEN Panicked
                          ELSE got \o g[done + Len(got)]
      BY <2>2, <3>1
    <3> HIDE DEF Body
    <3>3. \/ got \in {Error, << >>} /\ got = LeftToRead(data, o, n, done)
          \/ /\ got \notin {Error, << >>, Panicked} /\ Len(got) \in 1..(n - done)
             /\ LeftToRead(data, o, n, done + Len(got)) # Panicked
             /\ got \o LeftToRead(data, o, n, done + Len(got)) = LeftToRead(data, o, n, done)
      <4>1. n \in Nat
        OBVIOUS
      <4>2. ReadContinues(data, o, n, done, got)
        BY <4>1, <2>2, <3>1, ReadStep
      <4> QED
        BY <4>2, Zenon DEF ReadContinues
    <3>4. CASE got \in {Error, << >>}
      BY <3>2, <3>3, <3>4
    <3>5. CASE got \notin {Error, << >>}
      <4>1. done + Len(got) \in 0..n /\ done + Len(got) > done
        BY <3>3, <3>5
      <4>2. g[done + Len(got)] = LeftToRead(data, o, n, done + Len(got))
        BY <1>2, <4>1
      <4> QED
        BY <3>2, <3>3, <3>5, <4>2
    <3> QED
      BY <3>4, <3>5
  <2> QED
    BY <2>1, <2>2
<1> HIDE DEF Body
<1>3. H = F(H)
  <2>1. ASSUME NEW done \in 0..n PROVE Body(H, done) = LeftToRead(data, o, n, done)
    <3>1. \A d \in 0..n : d > done => H[d] = LeftToRead(data, o, n, d)
      OBVIOUS
    <3> HIDE DEF H
    <3> QED
      BY <3>1, <1>2
  <2> QED
    BY <2>1
<1>4. f = F(f)
  <2> HIDE DEF H, F
  <2> QED
    BY <1>3
<1> HIDE DEF f
<1> DEFINE Bad == {k \in Nat : k <= n /\ f[n - k] # LeftToRead(data, o, n, n - k)}
<1>5. Bad = {}
  <2> SUFFICES ASSUME Bad # {} PROVE FALSE
    OBVIOUS
  <2>1. PICK k \in Bad : \A j \in Bad : k <= j
    <3>1. Bad \in SUBSET Nat
      OBVIOUS
    <3> HIDE DEF Bad
    <3> QED
      BY <3>1, LeastElement
  <2>2. n - k \in 0..n /\ k \in Nat /\ k <= n
    OBVIOUS
  <2>3. ASSUME NEW d \in 0..n, d > n - k PROVE f[d] = LeftToRead(data, o, n, d)
    <3>1. n - d \in Nat /\ n - d <= n /\ ~(k <= n - d) /\ n - (n - d) = d
      BY <2>2, <2>3
    <3>2. n - d \notin Bad
      BY <2>1, <3>1
    <3> QED
      BY <3>1, <3>2
  <2>4. Body(f, n - k) = LeftToRead(data, o, n, n - k)
    BY <1>2, <2>2, <2>3
  <2>5. f[n - k] = Body(f, n - k)
    BY <1>4, <2>2
  <2> QED
    BY <2>1, <2>4, <2>5
<1>6. f[0] = LeftToRead(data, o, n, 0)
  <2>1. n \in Nat /\ n - n = 0 /\ n \notin Bad
    BY <1>5
  <2> QED
    BY <2>1
<1> QED
  BY <1>1, <1>6

\* As much as there is, or an error.
LEMMA ReadAllIs ==
  ASSUME NEW io, NEW data, Stores(io, data), NEW o \in Nat, NEW n \in Nat \ {0}
  PROVE  ReadAll(io, o, n) =
           IF o > Len(data) THEN Error ELSE SubSeq(data, o + 1, Least(o + n, Len(data)))
<1>1. ReadAll(io, o, n) = LeftToRead(data, o, n, 0)
  BY ReadAllGives DEF Stores, Within
<1>2. 0 # n /\ o + 0 = o
  OBVIOUS
<1> QED
  BY <1>1, <1>2, Zenon DEF LeftToRead

\* All of it, if it is there.
LEMMA ReadAllHas ==
  ASSUME NEW io, NEW data, Shows(io, data), NEW o \in Nat, NEW n \in Nat, o + n <= Len(data)
  PROVE  Taken(data, o, n, ReadAll(io, o, n))
<1>1. data \in Seq(Nat) /\ Len(data) \in Nat /\ Within(io, data, o, n)
  BY DEF Shows, Within
<1>2. ReadAll(io, o, n) = SubSeq(data, o + 1, o + n)
  <2>1. CASE n = 0
    <3>1. ReadAll(io, o, n) = << >>
      BY <1>1, <2>1, ReadAllGives DEF LeftToRead
    <3> QED
      <4>1. SubSeq(data, o + 1, o) = << >> /\ o + n = o
        BY <1>1, <2>1
      <4> QED
        BY <3>1, <4>1
  <2>2. CASE n # 0
    <3>1. Least(o + n, Len(data)) = o + n /\ ~(o > Len(data))
      BY <1>1 DEF Least
    <3>2. LeftToRead(data, o, n, 0) = SubSeq(data, o + 1, o + n)
      <4>1. 0 # n /\ o + 0 = o
        BY <2>2
      <4> QED
        BY <3>1, <4>1, Zenon DEF LeftToRead
    <3> QED
      BY <3>2, <1>1, ReadAllGives
  <2> QED
    BY <2>1, <2>2
<1> QED
  BY <1>1, <1>2, Part

\* A structure that is there is read without a panic.
LEMMA ThingIs ==
  ASSUME NEW io, NEW data, Shows(io, data), NEW o \in Nat, NEW n \in Nat, o + n <= Len(data)
  PROVE  /\ Taken(data, o, n, Thing(io, o, n))
         /\ Got(ReadAll(io, o, n), n) /\ Thing(io, o, n) = ReadAll(io, o, n)
<1>1. PICK got : got = ReadAll(io, o, n)
  OBVIOUS
<1>2. Taken(data, o, n, got)
  BY <1>1, ReadAllHas
<1>3. got \in Seq(Nat) /\ Len(got) = n
  BY <1>2 DEF Taken
<1>4. Got(got, n)
  BY <1>3, NoError DEF Got
<1>5. Thing(io, o, n) = got
  BY <1>1, <1>4, Zenon DEF Thing
<1> QED
  BY <1>1, <1>2, <1>4, <1>5

\* One cell.
LEMMA CellIs ==
  ASSUME NEW io, NEW data, Shows(io, data), NEW o \in Nat, o + 1 <= Len(data)
  PROVE  Cell(io, o) = data[o + 1]
<1>1. PICK n, got : n = 1 /\ got = Thing(io, o, n)
  OBVIOUS
<1>2. n \in Nat /\ o + n <= Len(data)
  BY <1>1
<1>3. Taken(data, o, n, got)
  BY <1>1, <1>2, ThingIs
<1>4. \A i \in 1..n : got[i] = data[o + i]
  BY <1>3, Zenon DEF Taken
<1>5. got[1] = data[o + 1]
  BY <1>1, <1>4
<1> QED
  BY <1>1, <1>5 DEF Cell

-----------------------------------------------------------------------------
(***************************************************************************)
(* Sequences behind each other.                                            *)
(***************************************************************************)
\* r is s with t behind it.
IsBehind(S, s, t, r) ==
  /\ r \in Seq(S) /\ Len(r) = Len(s) + Len(t)
  /\ \A j \in 1..Len(s) : r[j] = s[j]
  /\ \A j \in 1..Len(t) : r[Len(s) + j] = t[j]
\* One sequence behind another.
LEMMA Behind ==
  ASSUME NEW S, NEW s \in Seq(S), NEW t \in Seq(S), NEW r, r = s \o t
  PROVE  IsBehind(S, s, t, r)
<1>1. r \in Seq(S) /\ Len(r) = Len(s) + Len(t)
  OBVIOUS
<1>2. \A j \in 1..Len(s) : r[j] = s[j]
  OBVIOUS
<1>3. \A j \in 1..Len(t) : r[Len(s) + j] = t[j]
  OBVIOUS
<1> QED
  BY <1>1, <1>2, <1>3 DEF IsBehind

\* f is cut into the n sequences of s, of which the k-th ends after off[k].
IsCut(s, n, f, off) ==
  /\ f \in Seq(Nat) /\ off \in [0..n -> Nat] /\ off[0] = 0 /\ Len(f) = off[n]
  /\ \A k \in 1..n : off[k] = off[k - 1] + Len(s[k]) /\ off[k] <= off[n]
  /\ \A k \in 1..n : \A j \in 1..Len(s[k]) : f[off[k - 1] + j] = s[k][j]

\* FlattenSeq puts the sequences behind each other.
LEMMA Flattened ==
  ASSUME NEW s \in Seq(Seq(Nat)), NEW n, n = Len(s)
  PROVE  \E off : IsCut(s, n, FlattenSeq(s), off)
<1>0. n \in Nat /\ \A k \in 1..n : s[k] \in Seq(Nat)
  OBVIOUS
<1>1. CASE n = 0
  <2>1. s = << >> /\ FlattenSeq(s) = s
    <3>1. Len(s) = 0
      BY <1>1
    <3>2. FlattenSeq(s) = s
      BY <3>1, Zenon DEF FlattenSeq
    <3> QED
      BY <3>1, <3>2
  <2>2. PICK off : off = [k \in 0..0 |-> 0]
    OBVIOUS
  <2>3. << >> \in Seq(Nat) /\ Len(<< >>) = 0 /\ off \in [0..0 -> Nat] /\ off[0] = 0
    BY <2>2
  <2>4. IsCut(s, n, << >>, off)
    BY <1>1, <2>3 DEF IsCut
  <2> QED
    BY <2>1, <2>4
<1>2. CASE n # 0
  <2> DEFINE advance == [k \in 1..n |-> [x \in Seq(Nat) |-> x \o s[k]]]
             Body(g, i) == IF i = 1 THEN s[i] ELSE g[i - 1] \o s[i]
             F(g) == [i \in 1..n |-> Body(g, i)]
             f == CHOOSE g : g = F(g)
  <2>1. FlattenSeq(s) = f[n]
    BY <1>2 DEF FlattenSeq
  <2>2. PICK g \in [0..n -> Seq(Nat)] : Iterates(g, << >>, advance, n)
    <3>1. advance \in [1..n -> [Seq(Nat) -> Seq(Nat)]]
      <4>1. ASSUME NEW k \in 1..n PROVE [x \in Seq(Nat) |-> x \o s[k]] \in [Seq(Nat) -> Seq(Nat)]
        <5>1. ASSUME NEW x \in Seq(Nat) PROVE x \o s[k] \in Seq(Nat)
          BY <1>0
        <5> QED
          BY <5>1
      <4> QED
        BY <4>1
    <3>2. << >> \in Seq(Nat)
      OBVIOUS
    <3> HIDE DEF advance
    <3> QED
      BY <1>0, <3>1, <3>2, Iteration
  <2>3. g[0] = << >> /\ \A k \in 1..n : g[k] = g[k - 1] \o s[k] /\ g[k - 1] \in Seq(Nat)
    <3>1. ASSUME NEW k \in 1..n PROVE g[k - 1] \in Seq(Nat)
      <4>1. k - 1 \in 0..n
        BY <1>0
      <4> QED
        BY <4>1
    <3>2. ASSUME NEW k \in 1..n PROVE g[k] = g[k - 1] \o s[k]
      <4>1. g[k] = advance[k][g[k - 1]]
        BY <2>2 DEF Iterates
      <4> QED
        BY <4>1, <3>1
    <3> QED
      BY <2>2, <3>1, <3>2 DEF Iterates
  <2> HIDE DEF advance
  <2>4. f[n] = g[n]
    <3>1. ASSUME NEW h, NEW k \in 1..n, k > 1 => h[k - 1] = g[k - 1] PROVE Body(h, k) = g[k]
      <4>1. CASE k = 1
        <5>1. g[k] = << >> \o s[k] /\ s[k] \in Seq(Nat)
          <6>1. k - 1 = 0 /\ k \in 1..n
            BY <4>1
          <6>2. g[k] = g[k - 1] \o s[k]
            BY <2>3
          <6> QED
            BY <1>0, <2>3, <6>1, <6>2
        <5>2. g[k] = s[k]
          BY <5>1
        <5> QED
          BY <4>1, <5>2
      <4>2. CASE k # 1
        <5>1. h[k - 1] = g[k - 1]
          BY <3>1, <4>2
        <5> QED
          BY <4>2, <5>1, <2>3
      <4> QED
        BY <4>1, <4>2
    <3> HIDE DEF Body
    <3>2. PICK h : h = [k \in 1..n |-> g[k]]
      OBVIOUS
    <3>3. h = F(h)
      <4>1. ASSUME NEW k \in 1..n PROVE h[k] = Body(h, k)
        <5>1. k > 1 => h[k - 1] = g[k - 1]
          <6>1. k > 1 => k - 1 \in 1..n
            BY <1>0
          <6> QED
            BY <3>2, <6>1
        <5> QED
          BY <5>1, <3>1, <3>2
      <4> QED
        BY <4>1, <3>2
    <3>4. f = F(f)
      <4> HIDE DEF F
      <4> QED
        BY <3>3
    <3> HIDE DEF f
    <3>5. StaysAlike(f, g, 1, n)
      BY <3>1, <3>4 DEF StaysAlike
    <3>6. \A k \in 1..n : f[k] = g[k]
      <4>1. PICK m : m = 1
        OBVIOUS
      <4>2. m \in Nat /\ StaysAlike(f, g, m, n)
        BY <3>5, <4>1
      <4>3. \A k \in m..n : f[k] = g[k]
        BY <1>0, <4>2, Alike
      <4> QED
        BY <4>1, <4>3
    <3>7. n \in 1..n
      BY <1>0, <1>2
    <3> QED
      BY <3>6, <3>7
  <2> HIDE DEF f
  <2> DEFINE P(m, k) == /\ Len(g[k - 1]) + Len(s[k]) <= Len(g[m])
                        /\ \A j \in 1..Len(s[k]) : g[m][Len(g[k - 1]) + j] = s[k][j]
  <2>5. \A m \in 0..n : \A k \in 1..m : P(m, k)
    <3>1. PICK S : S = {m \in 0..n : \A k \in 1..m : P(m, k)}
      OBVIOUS
    <3>2. 0 \in S
      <4>1. 0 \in 0..n /\ 1..0 = {}
        BY <1>0
      <4> QED
        BY <3>1, <4>1
    <3>3. ASSUME NEW m \in 0..n, m > 0, m - 1 \in S PROVE m \in S
      <4>1. PICK l : l = m - 1
        OBVIOUS
      <4>2. l \in 0..n /\ m \in 1..n /\ m = l + 1
        BY <3>3, <4>1, <1>0
      <4>3. \A k \in 1..l : P(l, k)
        BY <3>1, <3>3, <4>1
      <4>4. PICK x, y, r : x = g[l] /\ y = s[m] /\ r = g[m]
        OBVIOUS
      <4>5. IsBehind(Nat, x, y, r) /\ x \in Seq(Nat) /\ y \in Seq(Nat)
        <5>1. x \in Seq(Nat) /\ y \in Seq(Nat) /\ r = x \o y
          BY <1>0, <2>3, <4>1, <4>2, <4>4
        <5> QED
          BY <5>1, Behind
      <4>6. Len(r) = Len(x) + Len(y) /\ Len(x) \in Nat /\ Len(y) \in Nat
            /\ (\A j \in 1..Len(x) : r[j] = x[j]) /\ \A j \in 1..Len(y) : r[Len(x) + j] = y[j]
        BY <4>5 DEF IsBehind
      <4>7. ASSUME NEW k \in 1..m PROVE P(m, k)
        <5>1. CASE k = m
          <6>1. g[k - 1] = x /\ s[k] = y
            BY <5>1, <4>1, <4>4
          <6>2. Len(x) + Len(y) <= Len(r)
            BY <4>6
          <6> QED
            BY <6>1, <6>2, <4>4, <4>6
        <5>2. CASE k # m
          <6>1. k \in 1..l /\ k \in 1..n /\ k - 1 \in 0..n
            BY <5>2, <4>2, <1>0
          <6>2. PICK a, z : a = Len(g[k - 1]) /\ z = s[k]
            OBVIOUS
          <6>3. a \in Nat /\ z \in Seq(Nat) /\ Len(z) \in Nat
            BY <6>1, <6>2, <1>0
          <6>4. a + Len(z) <= Len(x) /\ \A j \in 1..Len(z) : x[a + j] = z[j]
            BY <4>3, <4>4, <6>1, <6>2
          <6>5. ASSUME NEW j \in 1..Len(z) PROVE r[a + j] = z[j]
            <7>1. a + j \in 1..Len(x)
              BY <4>6, <6>3, <6>4
            <7> QED
              BY <7>1, <4>6, <6>4
          <6>6. a + Len(z) <= Len(r)
            BY <4>6, <6>3, <6>4
          <6> QED
            BY <4>4, <6>2, <6>5, <6>6
        <5> QED
          BY <5>1, <5>2
      <4> QED
        BY <3>1, <4>7
    <3> HIDE DEF P
    <3>4. \A m \in 0..n : m \in S
      BY <1>0, <3>2, <3>3, SetInduction
    <3> QED
      BY <3>1, <3>4
  <2>6. PICK off : off = [k \in 0..n |-> Len(g[k])]
    OBVIOUS
  <2>7. off \in [0..n -> Nat] /\ off[0] = 0 /\ off[n] = Len(g[n]) /\ g[n] \in Seq(Nat)
    <3>1. 0 \in 0..n /\ n \in 0..n
      BY <1>0
    <3>2. Len(g[0]) = 0
      BY <2>3
    <3> QED
      BY <3>1, <3>2, <2>6
  <2>8. ASSUME NEW k \in 1..n
        PROVE  /\ off[k] = off[k - 1] + Len(s[k]) /\ off[k] <= off[n]
               /\ \A j \in 1..Len(s[k]) : g[n][off[k - 1] + j] = s[k][j]
    <3>1. k \in 0..n /\ k - 1 \in 0..n /\ n \in 0..n
      BY <1>0
    <3>2. off[k] = Len(g[k]) /\ off[k - 1] = Len(g[k - 1])
      BY <3>1, <2>6
    <3>3. P(n, k)
      BY <2>5, <3>1
    <3>4. Len(g[k]) = Len(g[k - 1]) + Len(s[k])
      <4>1. g[k - 1] \in Seq(Nat) /\ s[k] \in Seq(Nat) /\ g[k] = g[k - 1] \o s[k]
        BY <1>0, <2>3
      <4> QED
        BY <4>1
    <3> QED
      BY <3>2, <3>3, <3>4, <2>7
  <2>9. IsCut(s, n, g[n], off)
    BY <2>7, <2>8 DEF IsCut
  <2> QED
    BY <2>1, <2>4, <2>9
<1> QED
  BY <1>1, <1>2

\* The k-th piece ends after k times w cells.
AreEven(off, n, w) == \A k \in 0..n : off[k] = w * k
\* Where sequences of one length are.
LEMMA CutEvenly ==
  ASSUME NEW s, NEW n \in Nat, NEW f, NEW off, IsCut(s, n, f, off), NEW w \in Nat,
         \A k \in 1..n : Len(s[k]) = w
  PROVE  AreEven(off, n, w)
<1>1. PICK g : g = [k \in 0..n |-> w * k]
  OBVIOUS
<1>2. ASSUME NEW k \in 0..n, k > 0 => off[k - 1] = g[k - 1] PROVE off[k] = g[k]
  <2>1. CASE k = 0
    BY <2>1, <1>1 DEF IsCut
  <2>2. CASE k # 0
    <3>1. k \in 1..n /\ k - 1 \in 0..n
      BY <2>2
    <3>2. off[k] = off[k - 1] + w
      BY <3>1 DEF IsCut
    <3>3. off[k - 1] = w * (k - 1) /\ g[k] = w * k
      BY <3>1, <1>1, <1>2
    <3>4. w * (k - 1) + w = w * k
      OBVIOUS
    <3> QED
      BY <3>2, <3>3, <3>4
  <2> QED
    BY <2>1, <2>2
<1>3. \A k \in 0..n : off[k] = g[k]
  <2>1. StaysAlike(off, g, 0, n) /\ 0 \in Nat
    BY <1>2 DEF StaysAlike
  <2> QED
    BY <2>1, Alike
<1> QED
  BY <1>1, <1>3 DEF AreEven

-----------------------------------------------------------------------------
(***************************************************************************)
(* ELF::load.                                                              *)
(***************************************************************************)
\* A function from 1..n is a sequence.
LEMMA IsASeq ==
  ASSUME NEW S, NEW n \in Nat, NEW f \in [1..n -> S]
  PROVE  f \in Seq(S) /\ Len(f) = n
OBVIOUS
\* A header is a sequence of five.
LEMMA IsAHeader ==
  ASSUME NEW f \in [1..5 -> Nat]
  PROVE  f \in Seq(Nat) /\ Len(f) = 5
<1>1. PICK n : n = 5
  OBVIOUS
<1>2. n \in Nat /\ f \in [1..n -> Nat]
  BY <1>1
<1>3. f \in Seq(Nat) /\ Len(f) = n
  BY <1>2, IsASeq
<1> QED
  BY <1>1, <1>3
\* With one more element.
LEMMA OneMore ==
  ASSUME NEW S, NEW s \in Seq(S), NEW x \in S, NEW t, t = Append(s, x)
  PROVE  t \in Seq(S) /\ Len(t) = Len(s) + 1 /\ \A j \in 1..Len(s) : t[j] = s[j]
OBVIOUS
\* A file as a linker makes it.
Linked(hs) ==
  /\ hs \in Seq([1..5 -> Nat])
  /\ \A i \in DOMAIN hs : hs[i][4] <= hs[i][5] /\ hs[i][2] + hs[i][4] <= ProgramFile(hs).size

\* Where the headers are in the file.
HasHeaders(hs, cells) ==
  /\ cells \in Seq(Nat) /\ Len(cells) = 6 * Len(hs) + 9
  /\ cells[1] = Magic /\ cells[2] = 6 /\ cells[3] = 6 /\ cells[4] = Len(hs)
  /\ \A i \in 1..Len(hs) : \A j \in 1..5 : cells[6 * i + j] = hs[i][j]
\* The headers are behind each other, after the first of the file.
LEMMA CellsAre ==
  ASSUME NEW hs \in Seq([1..5 -> Nat])
  PROVE  HasHeaders(hs, ProgramCells(hs))
<1>1. PICK n, s : n = Len(hs) /\ s = [i \in DOMAIN hs |-> Append(hs[i], 0)]
  OBVIOUS
<1>2. n \in Nat /\ DOMAIN hs = 1..n /\ \A i \in 1..n : hs[i] \in [1..5 -> Nat]
  BY <1>1
<1>3. ASSUME NEW i \in 1..n
      PROVE  s[i] \in Seq(Nat) /\ Len(s[i]) = 6 /\ \A j \in 1..5 : s[i][j] = hs[i][j]
  <2>1. hs[i] \in Seq(Nat) /\ Len(hs[i]) = 5
    <3>1. PICK x : x = hs[i]
      OBVIOUS
    <3>2. x \in [1..5 -> Nat]
      BY <1>2, <3>1
    <3>3. x \in Seq(Nat) /\ Len(x) = 5
      BY <3>2, IsAHeader
    <3> QED
      BY <3>1, <3>3
  <2>2. s[i] = Append(hs[i], 0)
    BY <1>1, <1>2
  <2>4. s[i] \in Seq(Nat) /\ Len(s[i]) = Len(hs[i]) + 1 /\ \A j \in 1..Len(hs[i]) : s[i][j] = hs[i][j]
    <3>1. PICK x, t : x = hs[i] /\ t = s[i]
      OBVIOUS
    <3>2. x \in Seq(Nat) /\ t = Append(x, 0) /\ 0 \in Nat
      BY <2>1, <2>2, <3>1
    <3>3. t \in Seq(Nat) /\ Len(t) = Len(x) + 1 /\ \A j \in 1..Len(x) : t[j] = x[j]
      BY <3>2, OneMore
    <3> QED
      BY <3>1, <3>3
  <2> QED
    BY <2>1, <2>4
<1>4. s \in Seq(Seq(Nat)) /\ Len(s) = n
  <2>1. s \in [1..n -> Seq(Nat)]
    <3>1. s = [i \in 1..n |-> s[i]]
      BY <1>1, <1>2
    <3> QED
      BY <3>1, <1>3
  <2> QED
    <3>1. PICK S : S = Seq(Nat)
      OBVIOUS
    <3>2. s \in [1..n -> S] /\ n \in Nat
      BY <3>1, <2>1, <1>2
    <3>3. s \in Seq(S) /\ Len(s) = n
      BY <3>2, IsASeq
    <3> QED
      BY <3>1, <3>3
<1>5. PICK f : f = FlattenSeq(s)
  OBVIOUS
<1>6. PICK off : IsCut(s, n, f, off)
  BY <1>4, <1>5, Flattened
<1>7. f \in Seq(Nat) /\ Len(f) = 6 * n /\ \A i \in 1..n : off[i - 1] = 6 * (i - 1)
  <2>1. \A k \in 0..n : off[k] = 6 * k
    <3>1. PICK w : w = 6
      OBVIOUS
    <3>2. w \in Nat /\ \A k \in 1..n : Len(s[k]) = w
      BY <1>3, <3>1
    <3>3. AreEven(off, n, w)
      BY <1>2, <1>6, <3>2, CutEvenly
    <3> QED
      BY <3>1, <3>3 DEF AreEven
  <2>2. n \in 0..n /\ \A i \in 1..n : i - 1 \in 0..n
    BY <1>2
  <2> QED
    BY <2>1, <2>2, <1>6 DEF IsCut
<1>8. PICK h, e : h = <<Magic, 6, 6, n, 77, 0>> /\ e = <<21, 22, 23>>
  OBVIOUS
<1>9. h \in Seq(Nat) /\ Len(h) = 6 /\ e \in Seq(Nat) /\ Len(e) = 3
  BY <1>2, <1>8 DEF Magic
<1>10. PICK u : u = h \o f
  OBVIOUS
<1>11. IsBehind(Nat, h, f, u)
  BY <1>7, <1>9, <1>10, Behind
<1>12. PICK w : w = u \o e
  OBVIOUS
<1>13. IsBehind(Nat, u, e, w)
  <2>1. u \in Seq(Nat)
    BY <1>11 DEF IsBehind
  <2> QED
    BY <2>1, <1>9, <1>12, Behind
<1>14. ProgramCells(hs) = w
  BY <1>1, <1>5, <1>8, <1>10, <1>12, Zenon DEF ProgramCells
<1>15. w \in Seq(Nat) /\ Len(u) = 6 * n + 6 /\ Len(w) = 6 * n + 9 /\ \A k \in 1..(6 * n + 6) : w[k] = u[k]
  BY <1>2, <1>7, <1>9, <1>11, <1>13 DEF IsBehind
<1>16. ASSUME NEW k \in 1..6 PROVE w[k] = h[k]
  <2>1. k \in 1..Len(h) /\ k \in 1..(6 * n + 6)
    BY <1>2, <1>9
  <2>2. u[k] = h[k]
    BY <2>1, <1>11 DEF IsBehind
  <2> QED
    BY <2>1, <2>2, <1>15
<1>17. ASSUME NEW i \in 1..n, NEW j \in 1..5 PROVE w[6 * i + j] = hs[i][j]
  <2>1. PICK k : k = 6 * (i - 1) + j
    OBVIOUS
  <2>2. k \in 1..Len(f) /\ 6 + k = 6 * i + j /\ 6 + k \in 1..(6 * n + 6) /\ j \in 1..6
    <3>1. k \in 1..(6 * n) /\ 6 + k = 6 * i + j /\ j \in 1..6
      BY <2>1, <1>2
    <3>2. 6 + k \in 1..(6 * n + 6)
      BY <3>1, <1>2
    <3> QED
      BY <3>1, <3>2, <1>7
  <2>3. u[6 + k] = f[k]
    BY <2>2, <1>9, <1>11 DEF IsBehind
  <2>4. f[k] = s[i][j]
    <3>1. f[off[i - 1] + j] = s[i][j]
      BY <2>2, <1>3, <1>6 DEF IsCut
    <3> QED
      BY <3>1, <2>1, <1>7
  <2>5. s[i][j] = hs[i][j]
    BY <1>3
  <2> QED
    BY <2>2, <2>3, <2>4, <2>5, <1>15
<1>18. w[1] = Magic /\ w[2] = 6 /\ w[3] = 6 /\ w[4] = n
  <2>1. h[1] = Magic /\ h[2] = 6 /\ h[3] = 6 /\ h[4] = n
    BY <1>8
  <2> QED
    BY <2>1, <1>16
<1> QED
  BY <1>1, <1>14, <1>15, <1>17, <1>18 DEF HasHeaders

\* A file in blocks has its cells.
LEMMA FileStores ==
  ASSUME NEW hs \in Seq([1..5 -> Nat])
  PROVE  Stores(ProgramFile(hs), ProgramCells(hs)) /\ ProgramFile(hs).size = Len(ProgramCells(hs))
<1>1. PICK cells, L : cells = ProgramCells(hs) /\ L = Len(cells)
  OBVIOUS
<1>2. cells \in Seq(Nat) /\ L \in Nat
  BY <1>1, CellsAre DEF HasHeaders
<1>3. PICK n : n = Ceil(L, 4)
  OBVIOUS
<1>4. n \in Nat /\ \A b \in 1..n : 4 * b - 4 < L
  BY <1>2, <1>3 DEF Ceil
<1>5. PICK bs : bs = [b \in 1..n |-> Piece(cells, 4 * b - 4, Least(4, L - (4 * b - 4)))]
  OBVIOUS
<1>6. ASSUME NEW b \in 1..n
      PROVE  /\ bs[b] \in Seq(Nat) /\ Len(bs[b]) = Least(4, L - 4 * (b - 1))
             /\ \A j \in 1..Least(4, L - 4 * (b - 1)) : bs[b][j] = cells[4 * (b - 1) + j]
  <2>1. PICK from, m : from = 4 * b - 4 /\ m = Least(4, L - from)
    OBVIOUS
  <2>2. from \in Nat /\ m \in Nat /\ from + m <= L
    BY <1>2, <1>4, <2>1 DEF Least
  <2>3. bs[b] = SubSeq(cells, from + 1, from + m)
    BY <1>5, <2>1 DEF Piece
  <2>4. bs[b] \in Seq(Nat) /\ Len(bs[b]) = m /\ \A j \in 1..m : bs[b][j] = cells[from + j]
    <3>1. from + m <= Len(cells)
      BY <1>1, <2>2
    <3>2. Taken(cells, from, m, bs[b])
      BY <1>2, <2>2, <2>3, <3>1, Part
    <3> QED
      BY <3>2 DEF Taken
  <2>5. 4 * (b - 1) = from
    BY <2>1, <1>4
  <2> QED
    BY <2>1, <2>4, <2>5
<1>7. bs \in Seq(Seq(Nat)) /\ Len(bs) = n
  <2>1. bs \in [1..n -> Seq(Nat)]
    <3>1. bs = [b \in 1..n |-> bs[b]]
      BY <1>5
    <3> QED
      BY <3>1, <1>6
  <2> QED
    BY <2>1, <1>4
<1>8. SubSeq(bs, 1, Len(bs)) = bs
  BY <1>4, <1>7
<1>9. ProgramFile(hs) = [size |-> L, block |-> 4, blocks |-> bs]
  BY <1>1, <1>3, <1>5, <1>8, Zenon DEF ProgramFile, BlockIO, Whole
<1>10. PICK io : io = ProgramFile(hs)
  OBVIOUS
<1>11. io.size = L /\ io.block = 4 /\ io.blocks = bs
  BY <1>9, <1>10
<1>12. ASSUME NEW b \in 1..n
       PROVE  /\ b \in DOMAIN io.blocks
              /\ io.blocks[b] \in Seq(Nat) /\ Len(io.blocks[b]) >= Room(io, cells, b)
              /\ \A j \in 1..Room(io, cells, b) : io.blocks[b][j] = cells[io.block * (b - 1) + j]
  <2>0. b \in DOMAIN io.blocks
    BY <1>5, <1>11
  <2>1. PICK r : r = Room(io, cells, b)
    OBVIOUS
  <2>2. r = Least(4, L - 4 * (b - 1))
    BY <2>1, <1>1, <1>11 DEF Room
  <2>3. Len(bs[b]) = r /\ r \in Int
    BY <2>2, <1>6, <1>2 DEF Least
  <2>4. Len(bs[b]) >= r
    BY <2>3
  <2> QED
    BY <2>0, <2>1, <2>2, <2>4, <1>6, <1>11, Zenon
<1>13. Stores(io, cells)
  <2>1. io.block \in Nat \ {0} /\ Ceil(Len(cells), io.block) = n
    BY <1>1, <1>3, <1>11
  <2>2. io.size \in Nat /\ Len(cells) <= io.size /\ io.size = Len(cells)
    BY <1>1, <1>2, <1>11
  <2> QED
    BY <2>1, <2>2, <1>2, <1>12, Zenon DEF Stores, Shows
<1> QED
  BY <1>1, <1>10, <1>11, <1>13

\* What a cell of memory holds that is covered by a segment, or by none.
Loaded(hs, cells, mem, covers, a) ==
  LET h == hs[LastIn(covers)]
  IN IF covers = {} THEN mem[a] ELSE IF a - h[3] < h[4] THEN cells[h[2] + (a - h[3]) + 1] ELSE 0
\* Memory after the first n segments.
MemoryAfter(hs, cells, mem, n) == [a \in DOMAIN mem |-> Loaded(hs, cells, mem, Covers(hs, a, n), a)]
\* One header more.
After(io, h, mem) == IF h[1] = 1 THEN LoadSegment(io, h, mem) ELSE mem

\* The last of a set of numbers, if it is the number above.
LEMMA LastIs ==
  ASSUME NEW S \in SUBSET Int, NEW n \in S, \A i \in S : i <= n
  PROVE  LastIn(S) = n
<1> DEFINE c == LastIn(S)
<1>1. c \in S /\ \A j \in S : j <= c
  BY DEF LastIn
<1>2. c <= n /\ n <= c /\ c \in Int /\ n \in Int
  BY <1>1
<1> HIDE DEF c
<1>3. c = n
  BY <1>2
<1> QED
  BY <1>3 DEF c

\* What a segment brings is what the last header says.
LEMMA SegmentLoads ==
  ASSUME NEW hs \in Seq([1..5 -> Nat]), Linked(hs), NEW cells, cells = ProgramCells(hs),
         NEW io, io = ProgramFile(hs), NEW mem, DOMAIN mem \subseteq Int,
         NEW n \in 1..Len(hs)
  PROVE  After(io, hs[n], MemoryAfter(hs, cells, mem, n - 1)) = MemoryAfter(hs, cells, mem, n)
<1>1. PICK h, M, N : h = hs[n] /\ M = MemoryAfter(hs, cells, mem, n - 1) /\ N = MemoryAfter(hs, cells, mem, n)
  OBVIOUS
<1>2. n \in Nat /\ n >= 1 /\ h \in [1..5 -> Nat] /\ h[4] <= h[5] /\ h[2] + h[4] <= Len(cells)
  <2>1. n \in DOMAIN hs /\ n \in Nat /\ n >= 1
    OBVIOUS
  <2>2. hs[n] \in [1..5 -> Nat]
    BY <2>1
  <2>3. ProgramFile(hs).size = Len(cells)
    BY FileStores
  <2> QED
    BY <1>1, <2>1, <2>2, <2>3 DEF Linked
<1>3. h[1] \in Nat /\ h[2] \in Nat /\ h[3] \in Nat /\ h[4] \in Nat /\ h[5] \in Nat
  BY <1>2
<1>4. Stores(io, cells)
  BY FileStores
<1>5. PICK got : got = ReadAll(io, h[2], h[4])
  OBVIOUS
<1>6. got \in Seq(Nat) /\ Len(got) = h[4] /\ \A k \in 1..h[4] : got[k] = cells[h[2] + k]
  <2>1. Taken(cells, h[2], h[4], got)
    BY <1>2, <1>3, <1>4, <1>5, ReadAllHas DEF Stores
  <2> QED
    BY <2>1 DEF Taken
<1>7. got \notin {Error, Panicked}
  BY <1>6, NoError
<1>8. DOMAIN M = DOMAIN mem /\ DOMAIN N = DOMAIN mem
  BY <1>1 DEF MemoryAfter
<1>9. ASSUME NEW a \in DOMAIN mem
      PROVE  After(io, h, M)[a] = N[a]
  <2>1. a \in Int
    OBVIOUS
  <2>2. PICK C, D : C = Covers(hs, a, n - 1) /\ D = Covers(hs, a, n)
    OBVIOUS
  <2>3. PICK off : off = a - h[3]
    OBVIOUS
  <2>4. off \in Int
    BY <2>1, <2>3, <1>3
  <2>5. n \in D <=> h[1] = 1 /\ off \in 0..(h[5] - 1)
    BY <1>1, <1>2, <2>2, <2>3 DEF Covers
  <2>6. \A i \in Int : i # n => (i \in C <=> i \in D)
    <3>1. ASSUME NEW i \in Int, i # n PROVE i \in 1..(n - 1) <=> i \in 1..n
      <4>1. n \in Nat /\ i \in Int /\ i # n
        BY <3>1, <1>2
      <4> QED
        BY <4>1
    <3> QED
      BY <3>1, <2>2, Zenon DEF Covers
  <2>7. n \notin C /\ C \subseteq Int /\ D \subseteq 1..n
    <3>1. C \subseteq 1..(n - 1) /\ D \subseteq 1..n
      BY <2>2 DEF Covers
    <3> QED
      BY <3>1, <1>2
  <2>8. M[a] = Loaded(hs, cells, mem, C, a) /\ N[a] = Loaded(hs, cells, mem, D, a)
    BY <1>1, <2>2 DEF MemoryAfter
  <2>9. CASE n \notin D
    <3>1. C = D
      <4>1. ASSUME NEW i PROVE i \in C <=> i \in D
        <5>1. i \in C => i \in Int /\ i # n
          BY <2>7
        <5>2. i \in D => i \in Int /\ i # n
          BY <2>7, <2>9
        <5> QED
          BY <5>1, <5>2, <2>6
      <4> QED
        BY <4>1
    <3>2. N[a] = M[a]
      BY <3>1, <2>8
    <3>3. CASE h[1] # 1
      BY <3>2, <3>3 DEF After
    <3>4. CASE h[1] = 1
      <4>1. ~(off \in h[4]..(h[5] - 1)) /\ ~(off \in 0..(Len(got) - 1))
        <5>1. ~(off \in 0..(h[5] - 1))
          BY <2>5, <2>9, <3>4
        <5>2. PICK f, m : f = h[4] /\ m = h[5]
          OBVIOUS
        <5>3. f \in Nat /\ m \in Nat /\ f <= m /\ ~(off \in 0..(m - 1)) /\ off \in Int /\ Len(got) = f
          BY <5>1, <5>2, <1>2, <1>3, <1>6, <2>4
        <5>4. off < 0 \/ off >= m
          BY <5>3
        <5>5. ~(off \in f..(m - 1))
          BY <5>3, <5>4
        <5>6. ~(off \in 0..(f - 1))
          BY <5>3, <5>4
        <5> QED
          BY <5>2, <5>3, <5>5, <5>6
      <4>2. LoadSegment(io, h, M)[a] = M[a]
        BY <4>1, <1>5, <1>8, <2>3 DEF LoadSegment
      <4> QED
        BY <4>2, <3>2, <3>4 DEF After
    <3> QED
      BY <3>3, <3>4
  <2>10. CASE n \in D
    <3>1. h[1] = 1 /\ off \in 0..(h[5] - 1) /\ D # {}
      BY <2>5, <2>10
    <3>2. LastIn(D) = n
      <4>1. D \in SUBSET Int /\ \A i \in D : i <= n
        BY <1>2, <2>7
      <4> HIDE <2>10
      <4> QED
        BY <4>1, <2>10, LastIs
    <3>3. N[a] = IF off < h[4] THEN cells[h[2] + off + 1] ELSE 0
      <4>1. hs[LastIn(D)] = h
        BY <1>1, <3>2
      <4>2. Loaded(hs, cells, mem, D, a) =
              IF a - h[3] < h[4] THEN cells[h[2] + (a - h[3]) + 1] ELSE 0
        BY <4>1, <3>1, Zenon DEF Loaded
      <4> QED
        BY <4>2, <2>3, <2>8, Zenon
    <3>4. After(io, h, M) = LoadSegment(io, h, M)
      BY <3>1 DEF After
    <3>5. LoadSegment(io, h, M)[a] =
            IF off \in h[4]..(h[5] - 1) THEN 0
            ELSE IF got \notin {Error, Panicked} /\ off \in 0..(Len(got) - 1) THEN got[off + 1] ELSE M[a]
      BY <1>5, <1>8, <2>3, Zenon DEF LoadSegment
    <3>6. CASE off < h[4]
      <4>1. ~(off \in h[4]..(h[5] - 1)) /\ off \in 0..(Len(got) - 1) /\ off + 1 \in 1..h[4]
        <5>1. PICK f, m : f = h[4] /\ m = h[5]
          OBVIOUS
        <5>2. f \in Nat /\ m \in Nat /\ off \in 0..(m - 1) /\ off < f /\ Len(got) = f
          BY <5>1, <1>3, <1>6, <3>1, <3>6
        <5>3. ~(off \in f..(m - 1)) /\ off \in 0..(f - 1) /\ off + 1 \in 1..f
          BY <5>2
        <5> QED
          BY <5>1, <5>2, <5>3
      <4>2. LoadSegment(io, h, M)[a] = got[off + 1]
        BY <4>1, <3>5, <1>7
      <4>3. got[off + 1] = cells[h[2] + (off + 1)] /\ h[2] + (off + 1) = h[2] + off + 1
        <5>1. got[off + 1] = cells[h[2] + (off + 1)]
          BY <4>1, <1>6
        <5>2. PICK o : o = h[2]
          OBVIOUS
        <5>3. off \in Int /\ o \in Int
          <6>1. o \in Nat
            BY <5>2, <1>3
          <6> QED
            BY <6>1, <2>4
        <5>4. o + (off + 1) = o + off + 1
          BY <5>3
        <5> QED
          BY <5>1, <5>2, <5>4
      <4> QED
        BY <4>2, <4>3, <3>3, <3>4, <3>6
    <3>7. CASE ~(off < h[4])
      <4>1. off \in h[4]..(h[5] - 1)
        <5>1. PICK f, m : f = h[4] /\ m = h[5]
          OBVIOUS
        <5>2. f \in Nat /\ m \in Nat /\ off \in 0..(m - 1) /\ ~(off < f)
          BY <5>1, <1>3, <3>1, <3>7
        <5>3. off \in f..(m - 1)
          BY <5>2
        <5> QED
          BY <5>1, <5>3
      <4> QED
        BY <4>1, <3>3, <3>4, <3>5, <3>7
    <3> QED
      BY <3>6, <3>7
  <2> QED
    BY <2>9, <2>10
<1>10. After(io, h, M) = [a \in DOMAIN mem |-> After(io, h, M)[a]]
  <2>1. CASE h[1] = 1
    BY <2>1, <1>8 DEF After, LoadSegment
  <2>2. CASE h[1] # 1
    BY <2>2, <1>1 DEF After, MemoryAfter
  <2> QED
    BY <2>1, <2>2
<1>11. N = [a \in DOMAIN mem |-> N[a]]
  BY <1>1 DEF MemoryAfter
<1>12. After(io, h, M) = N
  BY <1>9, <1>10, <1>11
<1> QED
  BY <1>1, <1>12

\* What load() makes of the header and of the program headers.
LEMMA Headers ==
  ASSUME NEW hs \in Seq([1..5 -> Nat]), NEW cells, cells = ProgramCells(hs), NEW io, io = ProgramFile(hs)
  PROVE  /\ ReadAll(io, 0, 5)[1] = Magic /\ ReadAll(io, 0, 5)[2] = 6 /\ ReadAll(io, 0, 5)[3] = 6
         /\ ReadAll(io, 0, 5)[4] = Len(hs)
         /\ \A i \in 1..Len(hs) : ReadAll(io, 6 + (i - 1) * 6, 5) = hs[i]
<1>1. Stores(io, cells) /\ HasHeaders(hs, cells)
  BY FileStores, CellsAre
<1>2. PICK n, got : n = Len(hs) /\ got = ReadAll(io, 0, 5)
  OBVIOUS
<1>3. n \in Nat /\ Len(cells) = 6 * n + 9
  BY <1>1, <1>2 DEF HasHeaders
<1>4. Taken(cells, 0, 5, got)
  <2>1. 0 + 5 <= Len(cells) /\ 0 \in Nat /\ 5 \in Nat
    BY <1>3
  <2> QED
    BY <2>1, <1>1, <1>2, ReadAllHas DEF Stores
<1>5. got[1] = cells[1] /\ got[2] = cells[2] /\ got[3] = cells[3] /\ got[4] = cells[4]
  BY <1>4 DEF Taken
<1>6. ASSUME NEW i \in 1..n PROVE ReadAll(io, 6 + (i - 1) * 6, 5) = hs[i]
  <2>1. PICK r, o : r = ReadAll(io, o, 5) /\ o = 6 + (i - 1) * 6
    OBVIOUS
  <2>2. o = 6 * i /\ o \in Nat /\ o + 5 <= Len(cells) /\ 5 \in Nat
    BY <2>1, <1>3
  <2>3. Taken(cells, o, 5, r)
    BY <2>1, <2>2, <1>1, ReadAllHas DEF Stores
  <2>4. PICK h : h = hs[i]
    OBVIOUS
  <2>5. h \in [1..5 -> Nat]
    BY <2>4, <1>2
  <2>6. h \in Seq(Nat) /\ Len(h) = 5
    BY <2>5, IsAHeader
  <2>7. r \in Seq(Nat) /\ Len(r) = 5
    BY <2>3 DEF Taken
  <2>8. \A j \in 1..5 : r[j] = h[j]
    BY <2>2, <2>3, <2>4, <1>1, <1>2 DEF Taken, HasHeaders
  <2>9. r = h
    BY <2>6, <2>7, <2>8, SameSeq
  <2> QED
    BY <2>1, <2>4, <2>9
<1> QED
  BY <1>1, <1>2, <1>5, <1>6 DEF HasHeaders

\* load() goes through the headers in their order.
LEMMA Loads ==
  ASSUME NEW hs \in Seq([1..5 -> Nat]), Linked(hs), NEW cells, cells = ProgramCells(hs),
         NEW io, io = ProgramFile(hs),
         NEW mem, DOMAIN mem \subseteq Int, mem = [a \in DOMAIN mem |-> mem[a]]
  PROVE  ElfLoad(io, mem).mem = MemoryAfter(hs, cells, mem, Len(hs))
<1> DEFINE hdr == ReadAll(io, 0, 5)
           n == Len(hs)
           M(i) == MemoryAfter(hs, cells, mem, i)
           H == [i \in 0..n |-> M(i)]
           Body(g, i) ==
             IF i = 0 THEN mem
             ELSE LET h == ReadAll(io, hdr[2] + (i - 1) * hdr[3], 5) IN
                  IF h[1] = 1 THEN LoadSegment(io, h, g[i - 1]) ELSE g[i - 1]
           F(g) == [i \in 0..hdr[4] |-> Body(g, i)]
           f == CHOOSE g : g = F(g)
<1>1. hdr[1] = Magic /\ hdr[2] = 6 /\ hdr[3] = 6 /\ hdr[4] = n
      /\ \A i \in 1..n : ReadAll(io, 6 + (i - 1) * 6, 5) = hs[i]
  BY Headers
<1>2. ElfLoad(io, mem).mem = f[hdr[4]]
  <2>1. ElfLoad(io, mem) = [entry |-> hdr[5], mem |-> f[hdr[4]]]
    BY <1>1 DEF ElfLoad
  <2> HIDE DEF f, hdr
  <2> QED
    BY <2>1
<1>3. n \in Nat
  OBVIOUS
<1>4. ASSUME NEW g, NEW i \in 0..n, i > 0 => g[i - 1] = M(i - 1)
      PROVE  Body(g, i) = M(i)
  <2>1. CASE i = 0
    <3>1. Body(g, i) = mem
      BY <2>1
    <3>2. ASSUME NEW a \in DOMAIN mem PROVE Loaded(hs, cells, mem, Covers(hs, a, 0), a) = mem[a]
      <4>1. Covers(hs, a, 0) = {}
        BY DEF Covers
      <4> QED
        BY <4>1 DEF Loaded
    <3>3. M(0) = mem
      BY <3>2 DEF MemoryAfter
    <3> QED
      BY <2>1, <3>1, <3>3
  <2>2. CASE i # 0
    <3>1. i \in 1..n
      BY <2>2
    <3>2. ReadAll(io, hdr[2] + (i - 1) * hdr[3], 5) = hs[i]
      BY <3>1, <1>1
    <3> HIDE DEF hdr
    <3>3. Body(g, i) = After(io, hs[i], g[i - 1])
      BY <3>2, <2>2, Zenon DEF After
    <3> HIDE DEF Body
    <3>4. g[i - 1] = M(i - 1)
      BY <1>4, <3>1
    <3>5. After(io, hs[i], M(i - 1)) = M(i)
      BY <3>1, SegmentLoads
    <3> QED
      BY <3>3, <3>4, <3>5
  <2> QED
    BY <2>1, <2>2
<1> HIDE DEF Body, M, hdr
<1>5. H = F(H)
  <2>1. ASSUME NEW i \in 0..n PROVE H[i] = Body(H, i)
    <3>1. H[i] = M(i) /\ (i > 0 => H[i - 1] = M(i - 1))
      <4> PICK m : m = n
        OBVIOUS
      <4> HIDE DEF n
      <4>1. m \in Nat /\ i \in 0..m
        BY <1>3
      <4>2. i > 0 => i - 1 \in 0..m
        BY <4>1
      <4>3. H[i] = M(i)
        OBVIOUS
      <4>4. \A j \in 0..n : H[j] = M(j)
        OBVIOUS
      <4> HIDE DEF H
      <4> QED
        BY <4>2, <4>3, <4>4
    <3> HIDE DEF H
    <3> QED
      BY <3>1, <1>4
  <2> QED
    BY <2>1, <1>1
<1>6. f = F(f)
  <2> HIDE DEF H, F
  <2> QED
    BY <1>5
<1> HIDE DEF f
<1>7. ASSUME NEW k \in 0..n, k > 0 => f[k - 1] = H[k - 1] PROVE f[k] = H[k]
  <2>1. k > 0 => k - 1 \in 0..n
    <3>1. PICK m : m = n
      OBVIOUS
    <3>2. m \in Nat /\ k \in 0..m
      BY <3>1, <1>3
    <3> HIDE DEF H, n
    <3>3. k > 0 => k - 1 \in 0..m
      BY <3>2
    <3> QED
      BY <3>1, <3>3
  <2>2. H[k] = M(k) /\ (k > 0 => H[k - 1] = M(k - 1))
    BY <2>1
  <2> HIDE DEF H
  <2>3. Body(f, k) = M(k)
    BY <2>2, <1>4, <1>7
  <2>4. f[k] = Body(f, k)
    BY <1>1, <1>6
  <2> QED
    BY <2>2, <2>3, <2>4
<1>8. f[n] = M(n)
  <2>1. n \in 0..n
    BY <1>3
  <2>2. H[n] = M(n)
    BY <2>1
  <2>3. StaysAlike(f, H, 0, n)
    BY <1>7, Zenon DEF StaysAlike
  <2> HIDE DEF H, n
  <2>4. f[n] = H[n]
    BY <2>3, <1>3, AlikeAtEnd
  <2> QED
    BY <2>2, <2>4
<1> QED
  BY <1>1, <1>2, <1>8 DEF M

\* A set of numbers up to n has a last one.
LEMMA HasLast ==
  ASSUME NEW n \in Nat, NEW S \in SUBSET (1..n), S # {}
  PROVE  LastIn(S) \in S /\ \A i \in S : i <= LastIn(S)
<1>1. PICK T : T = {n - i : i \in S}
  OBVIOUS
<1>2. T \in SUBSET Nat /\ T # {}
  <2>1. ASSUME NEW i \in S PROVE n - i \in Nat
    OBVIOUS
  <2> QED
    BY <1>1, <2>1
<1>3. PICK k \in T : \A j \in T : k <= j
  BY <1>2, LeastElement
<1>4. PICK m \in S : k = n - m
  BY <1>1, <1>3
<1>5. ASSUME NEW i \in S PROVE i <= m
  <2>1. n - i \in T
    BY <1>1
  <2>2. n - m <= n - i /\ i \in Nat /\ m \in Nat
    BY <2>1, <1>3, <1>4
  <2> QED
    BY <2>2
<1>6. LastIn(S) = m
  <2>1. S \in SUBSET Int
    OBVIOUS
  <2> QED
    BY <2>1, <1>5, LastIs
<1> QED
  BY <1>5, <1>6

\* Every program is loaded as its headers say.
LEMMA ProgramLoads ==
  ASSUME NEW hs \in Programs, input.kind = "program", input.hs = hs
  PROVE  ProgramIsLoaded
<1>1. hs \in Seq([1..5 -> Nat]) /\ Linked(hs)
  BY ProgramsAssumption DEF ProgramsAssumption, Linked
<1>2. PICK cells, io, mem : cells = ProgramCells(hs) /\ io = ProgramFile(hs) /\ mem = [a \in 0..6 |-> 99]
  OBVIOUS
<1>3. DOMAIN mem \subseteq Int /\ DOMAIN mem = 0..6 /\ mem = [a \in DOMAIN mem |-> mem[a]]
  BY <1>2
<1>4. ElfLoad(io, mem).mem = MemoryAfter(hs, cells, mem, Len(hs))
  BY <1>1, <1>2, <1>3, Loads
<1>5. PICK n : n = Len(hs)
  OBVIOUS
<1>6. n \in Nat /\ DOMAIN hs = 1..n
  BY <1>1, <1>5
<1>7. ASSUME NEW a \in DOMAIN mem, NEW C, C = Covers(hs, a, n), NEW h, h = hs[LastIn(C)]
      PROVE  ElfLoad(io, mem).mem[a] =
               IF C = {} THEN mem[a] ELSE IF a - h[3] < h[4] THEN Cell(io, h[2] + (a - h[3])) ELSE 0
  <2>1. ElfLoad(io, mem).mem[a] = Loaded(hs, cells, mem, C, a)
    BY <1>4, <1>5, <1>7 DEF MemoryAfter
  <2>2. Loaded(hs, cells, mem, C, a) =
          IF C = {} THEN mem[a] ELSE IF a - h[3] < h[4] THEN cells[h[2] + (a - h[3]) + 1] ELSE 0
    BY <1>7, Zenon DEF Loaded
  <2>3. ASSUME C # {}, a - h[3] < h[4]
        PROVE  Cell(io, h[2] + (a - h[3])) = cells[h[2] + (a - h[3]) + 1]
    <3>1. C \in SUBSET (1..n)
      BY <1>7 DEF Covers
    <3>2. LastIn(C) \in C
      BY <3>1, <2>3, <1>6, HasLast
    <3>3. a - h[3] \in 0..(h[5] - 1)
      BY <3>2, <1>7 DEF Covers
    <3>4. h \in [1..5 -> Nat] /\ h[2] + h[4] <= Len(cells)
      <4>1. LastIn(C) \in 1..n
        BY <3>1, <3>2
      <4>2. h \in [1..5 -> Nat]
        BY <4>1, <1>1, <1>5, <1>7
      <4>3. ProgramFile(hs).size = Len(cells)
        BY <1>1, <1>2, FileStores
      <4> QED
        BY <4>1, <4>2, <4>3, <1>1, <1>6, <1>7 DEF Linked
    <3>5. PICK o : o = h[2] + (a - h[3])
      OBVIOUS
    <3>6. h[2] \in Nat /\ h[4] \in Nat
      BY <3>4
    <3>7. Stores(io, cells) /\ Len(cells) \in Nat
      <4>1. Stores(ProgramFile(hs), ProgramCells(hs))
        BY <1>1, FileStores
      <4> QED
        BY <4>1, <1>2 DEF Stores
    <3>8. o \in Nat /\ o + 1 <= Len(cells)
      <4>1. PICK from, n4, n5, v : from = h[2] /\ n4 = h[4] /\ n5 = h[5] /\ v = a - h[3]
        OBVIOUS
      <4>2. from \in Nat /\ n4 \in Nat /\ v \in 0..(n5 - 1) /\ v < n4 /\ from + n4 <= Len(cells) /\ o = from + v
        BY <4>1, <2>3, <3>3, <3>4, <3>5, <3>6
      <4>3. v \in Nat
        BY <4>2
      <4> QED
        BY <4>2, <4>3, <3>7
    <3>9. Cell(io, o) = cells[o + 1]
      BY <3>7, <3>8, CellIs DEF Stores
    <3> QED
      BY <3>5, <3>9
  <2> QED
    BY <2>1, <2>2, <2>3
<1> QED
  <2>1. ASSUME NEW a \in DOMAIN mem
        PROVE  LET covers == Covers(hs, a, Len(hs))
                   h == hs[LastIn(covers)] IN
               ElfLoad(io, mem).mem[a] =
                 IF covers = {} THEN mem[a] ELSE IF a - h[3] < h[4] THEN Cell(io, h[2] + (a - h[3])) ELSE 0
    BY <1>5, <1>7
  <2> QED
    BY <1>2, <2>1, Zenon DEF ProgramIsLoaded

\* load() builds the memory that the program headers describe, for any headers of
\* any executable file (elf.cc:17-30).
THEOREM ProgramsAreLoaded == ReadSpec => []ProgramIsLoaded
<1>1. ASSUME input \in Inputs \union {NoInput} PROVE ProgramIsLoaded
  <2>1. CASE input.kind # "program"
    BY <2>1 DEF ProgramIsLoaded
  <2>2. CASE input.kind = "program"
    <3>1. input \in [kind : {"program"}, hs : Programs]
      BY <1>1, <2>2 DEF Inputs, NoInput
    <3>2. input.hs \in Programs
      BY <3>1
    <3> QED
      BY <2>2, <3>2, ProgramLoads
  <2> QED
    BY <2>1, <2>2
<1> DEFINE Given == input \in Inputs \union {NoInput}
<1>2. Given /\ [FALSE]_input => Given'
  OBVIOUS
<1>3. Given => ProgramIsLoaded
  BY <1>1
<1> HIDE DEF Given
<1>4. ReadSpec => Given /\ [][FALSE]_input
  BY DEF ReadSpec, Given
<1> QED
  BY <1>2, <1>3, <1>4, PTL

-----------------------------------------------------------------------------
(***************************************************************************)
(* The layout of a disk: which piece a cell belongs to.                    *)
(***************************************************************************)
\* Products in order.
LEMMA Times ==
  ASSUME NEW a \in Nat, NEW b \in Nat, NEW c \in Nat
  PROVE  /\ a * b \in Nat /\ a * b = b * a
         /\ b <= c => a * b <= a * c
         /\ b < c => a * b + a <= a * c
<1>1. a * b \in Nat /\ a * b = b * a
  OBVIOUS
<1>2. ASSUME b <= c PROVE a * b <= a * c
  <2>1. PICK d : d = c - b
    OBVIOUS
  <2>2. d \in Nat /\ c = b + d
    BY <1>2, <2>1
  <2>3. a * c = a * b + a * d /\ a * d \in Nat
    BY <2>2
  <2> QED
    BY <2>3
<1>3. ASSUME b < c PROVE a * b + a <= a * c
  <2>1. PICK d : d = c - b - 1
    OBVIOUS
  <2>2. d \in Nat /\ c = b + d + 1
    BY <1>3, <2>1
  <2>3. a * c = a * b + a * d + a /\ a * d \in Nat
    BY <2>2
  <2> QED
    BY <2>3
<1> QED
  BY <1>1, <1>2, <1>3

\* A number of blocks and less than one more.
LEMMA Quotient ==
  ASSUME NEW b \in Nat, NEW q \in Nat, NEW r \in Nat, r < b, NEW a, a = b * q + r
  PROVE  a \div b = q /\ a % b = r
<1>1. PICK c, d : c = a \div b /\ d = a % b
  OBVIOUS
<1>2. a \in Nat /\ b > 0 /\ b * q \in Nat
  BY Times
<1>3. c \in Nat /\ d \in Nat /\ d < b /\ b * c + d = a
  BY <1>1, <1>2, Division
<1>4. ~(c < q)
  <2> SUFFICES ASSUME c < q PROVE FALSE
    OBVIOUS
  <2>1. b * c + b <= b * q /\ b * c \in Nat
    BY <1>3, Times
  <2> QED
    BY <2>1, <1>2, <1>3
<1>5. ~(q < c)
  <2> SUFFICES ASSUME q < c PROVE FALSE
    OBVIOUS
  <2>1. b * q + b <= b * c /\ b * c \in Nat
    BY <1>3, Times
  <2> QED
    BY <2>1, <1>2, <1>3
<1>6. c = q
  BY <1>3, <1>4, <1>5
<1> QED
  BY <1>1, <1>2, <1>3, <1>6

\* The block of a cell lies between those of the ends.
LEMMA Between ==
  ASSUME NEW b \in Nat, b > 0, NEW m \in Nat, NEW n \in Nat, NEW a \in Nat, b * m <= a, a < b * n
  PROVE  a \div b \in Nat /\ m <= a \div b /\ a \div b < n
<1>1. PICK c, d : c = a \div b /\ d = a % b
  OBVIOUS
<1>2. c \in Nat /\ d \in Nat /\ d < b /\ b * c + d = a /\ b * c \in Nat /\ b * m \in Nat /\ b * n \in Nat
  BY <1>1, Division, Times
<1>3. ~(c < m)
  <2> SUFFICES ASSUME c < m PROVE FALSE
    OBVIOUS
  <2>1. b * c + b <= b * m
    BY <1>2, Times
  <2> QED
    BY <2>1, <1>2
<1>4. ~(n <= c)
  <2> SUFFICES ASSUME n <= c PROVE FALSE
    OBVIOUS
  <2>1. b * n <= b * c
    BY <1>2, Times
  <2> QED
    BY <2>1, <1>2
<1> QED
  BY <1>1, <1>2, <1>3, <1>4

\* Enough blocks for a cells, and not one too many.
LEMMA CeilIs ==
  ASSUME NEW a \in Nat, NEW b \in Nat, b > 0
  PROVE  /\ Ceil(a, b) \in Nat /\ a <= b * Ceil(a, b) /\ b * Ceil(a, b) < a + b
         /\ a > 0 => Ceil(a, b) >= 1
<1>1. PICK e, c, d : e = a + b - 1 /\ c = e \div b /\ d = e % b
  OBVIOUS
<1>2. e \in Nat /\ c \in Nat /\ d \in Nat /\ d < b /\ b * c + d = e /\ b * c \in Nat
  <2>1. e \in Nat
    BY <1>1
  <2> QED
    BY <1>1, <2>1, Division, Times
<1>3. Ceil(a, b) = c
  BY <1>1 DEF Ceil
<1>4. a <= b * c /\ b * c < a + b
  BY <1>1, <1>2
<1>5. a > 0 => c >= 1
  <2> SUFFICES ASSUME a > 0, c = 0 PROVE FALSE
    BY <1>2
  <2>1. b * c = 0
    BY <1>2
  <2> QED
    BY <2>1, <1>4
<1> QED
  BY <1>2, <1>3, <1>4, <1>5

\* The numbers of blocks that a disk is laid out with.
Sizes(g, t) ==
  /\ g.block \in Nat \ {0} /\ g.direct \in Nat /\ Len(t) \in Nat \ {0}
  /\ g.perGroup \in Nat \ {0} /\ g.nodeSize \in Nat /\ 4 + g.direct <= g.nodeSize
  /\ g.sector \in Nat \ {0} /\ g.block % g.sector = 0
  /\ Groups(g, t) \in Nat \ {0} /\ Len(t) <= g.perGroup * Groups(g, t)
  /\ GroupTable(g) \in Nat \ {0} /\ FirstTable(g, t) \in Nat
  /\ GroupTable(g) * g.block + Groups(g, t) <= g.block * FirstTable(g, t)
  /\ TableBlocks(g) \in Nat \ {0} /\ g.perGroup * g.nodeSize <= g.block * TableBlocks(g)
\* What follows from the geometry and the tree.
LEMMA SizesAre ==
  ASSUME NEW g, NEW t, IsGeometry(g), IsTree(g, t)
  PROVE  Sizes(g, t)
<1>1. PICK B, P, N, n, D : B = g.block /\ P = g.perGroup /\ N = g.nodeSize /\ n = Len(t) /\ D = g.direct
  OBVIOUS
<1>2. B \in Nat \ {0} /\ P \in Nat \ {0} /\ N \in Nat /\ D \in Nat /\ 4 + D <= N /\ g.super \in Nat
      /\ g.sector \in Nat \ {0} /\ B % g.sector = 0
  BY <1>1 DEF IsGeometry
<1>3. n \in Nat \ {0}
  <2>1. PICK S : S = [type : {Dir, Regular}, data : Seq(Nat), holes : SUBSET Nat, entries : Seq(TreeEntries)]
    OBVIOUS
  <2>2. t \in Seq(S) /\ Len(t) >= 2
    BY <2>1 DEF IsTree
  <2>3. Len(t) \in Nat
    BY <2>2
  <2> QED
    BY <1>1, <2>2, <2>3
<1>4. PICK G : G = Groups(g, t)
  OBVIOUS
<1>5. G \in Nat \ {0} /\ n <= P * G
  <2>1. G = Ceil(n, P)
    BY <1>1, <1>4 DEF Groups
  <2> QED
    BY <2>1, <1>2, <1>3, CeilIs
<1>6. PICK GT, FT : GT = GroupTable(g) /\ FT = FirstTable(g, t)
  OBVIOUS
<1>7. GT \in Nat \ {0}
  <2>1. g.super \div B \in Nat
    BY <1>2, Division
  <2> QED
    BY <2>1, <1>1, <1>6 DEF GroupTable
<1>8. FT \in Nat /\ GT * B + G <= B * FT
  <2>1. PICK c : c = Ceil(G, B)
    OBVIOUS
  <2>2. c \in Nat /\ G <= B * c
    BY <2>1, <1>2, <1>5, CeilIs
  <2>3. FT = GT + c
    BY <2>1, <1>1, <1>4, <1>6 DEF FirstTable
  <2>4. B * FT = GT * B + B * c
    BY <2>2, <2>3, <1>2, <1>7
  <2>5. B * c \in Nat /\ GT * B \in Nat
    BY <2>2, <1>2, <1>7, Times
  <2> QED
    BY <2>2, <2>3, <2>4, <2>5, <1>5, <1>7
<1>9. PICK TB : TB = TableBlocks(g)
  OBVIOUS
<1>10. TB \in Nat \ {0} /\ P * N <= B * TB
  <2>1. P * N \in Nat /\ P * N > 0
    <3>1. N \in Nat \ {0}
      BY <1>2
    <3> QED
      BY <3>1, <1>2
  <2>2. TB = Ceil(P * N, B)
    BY <1>1, <1>9 DEF TableBlocks
  <2> QED
    BY <2>1, <2>2, <1>2, CeilIs
<1> QED
  BY <1>1, <1>2, <1>3, <1>4, <1>5, <1>6, <1>7, <1>8, <1>9, <1>10 DEF Sizes

\* The numbers of data blocks.
DataBlocksFit(g, t) ==
  /\ TableBlock(g, t, Groups(g, t)) \in Nat
  /\ Blocks(g) \in Nat
  /\ PerGroup(g, t) \in Nat \ {0} /\ DiskSize(g, t) \in Nat
  /\ DiskSize(g, t) = PerGroup(g, t) * Groups(g, t)
  /\ TableBlock(g, t, Groups(g, t)) <= DiskSize(g, t)
  /\ \A b \in 0..Blocks(g), i \in 1..Len(t) :
       DataBlock(g, t, i, b) \in Nat /\ DataBlock(g, t, i, b) + 1 <= DiskSize(g, t)
\* There is a block for every block of a file.
LEMMA DataBlocksAre ==
  ASSUME NEW g, NEW t, Sizes(g, t)
  PROVE  DataBlocksFit(g, t)
<1>1. PICK B, n, D, G, FT, TB :
        B = g.block /\ n = Len(t) /\ D = g.direct /\ G = Groups(g, t) /\ FT = FirstTable(g, t) /\ TB = TableBlocks(g)
  OBVIOUS
<1>2. B \in Nat \ {0} /\ D \in Nat /\ n \in Nat \ {0} /\ G \in Nat \ {0} /\ FT \in Nat /\ TB \in Nat \ {0}
  BY <1>1 DEF Sizes
<1>3. PICK Q, DS : Q = Blocks(g) /\ DS = TableBlock(g, t, G)
  OBVIOUS
<1>4. Q \in Nat \ {0}
  BY <1>1, <1>2, <1>3 DEF Blocks
<1>5. DS \in Nat
  <2>1. DS = FT + G * TB
    BY <1>1, <1>3 DEF TableBlock
  <2>2. G * TB \in Nat
    BY <1>2, Times
  <2> QED
    BY <2>1, <2>2, <1>2
<1>6. \A b, i : DataBlock(g, t, i, b) = DS + b * n + i - 1
  BY <1>1, <1>3 DEF DataBlock
<1>7. PICK need, PG, size : need = DataBlock(g, t, 1, Q + 1) /\ PG = PerGroup(g, t) /\ size = DiskSize(g, t)
  OBVIOUS
<1>8. need = DS + (Q + 1) * n /\ need \in Nat /\ need > 0
  <2>1. (Q + 1) * n \in Nat /\ (Q + 1) * n > 0
    <3>1. Q + 1 \in Nat \ {0}
      BY <1>4
    <3> QED
      BY <3>1, <1>2
  <2>2. need = DS + (Q + 1) * n + 1 - 1
    BY <1>6, <1>7
  <2> QED
    BY <2>1, <2>2, <1>5
<1>9. PG \in Nat \ {0} /\ need <= G * PG
  <2>1. PG = Ceil(need, G)
    BY <1>1, <1>3, <1>7 DEF PerGroup
  <2> QED
    BY <2>1, <1>2, <1>8, CeilIs
<1>10. size = PG * G /\ size \in Nat /\ need <= size
  <2>1. size = PG * G
    BY <1>1, <1>7 DEF DiskSize
  <2>2. PG * G \in Nat /\ PG * G = G * PG
    BY <1>2, <1>9, Times
  <2> QED
    BY <2>1, <2>2, <1>9
<1>11. DS <= size
  <2>1. (Q + 1) * n \in Nat
    BY <1>2, <1>4, Times
  <2> QED
    BY <2>1, <1>5, <1>8, <1>10
<1>12. ASSUME NEW b \in 0..Q, NEW i \in 1..n
       PROVE  DataBlock(g, t, i, b) \in Nat /\ DataBlock(g, t, i, b) + 1 <= size
  <2>1. PICK e : e = b * n
    OBVIOUS
  <2>2. e \in Nat /\ e + n <= (Q + 1) * n
    <3>1. b \in Nat /\ Q + 1 \in Nat /\ b < Q + 1
      BY <1>4
    <3>2. n * b \in Nat /\ n * b = b * n /\ n * b + n <= n * (Q + 1) /\ n * (Q + 1) = (Q + 1) * n
      BY <3>1, <1>2, Times
    <3> QED
      BY <2>1, <3>2
  <2>3. DataBlock(g, t, i, b) = DS + e + i - 1
    BY <1>6, <2>1
  <2>4. PICK f : f = (Q + 1) * n
    OBVIOUS
  <2>5. f \in Int /\ need = DS + f /\ e + n <= f
    BY <2>2, <2>4, <1>2, <1>4, <1>8
  <2> QED
    BY <2>2, <2>3, <2>5, <1>2, <1>5, <1>10
<1> QED
  BY <1>1, <1>3, <1>4, <1>5, <1>7, <1>9, <1>10, <1>11, <1>12 DEF DataBlocksFit

\* The piece that a cell belongs to, if to any.
Owner(g, t, x) ==
  LET X == x \div g.block
      first == FirstTable(g, t)
      data == TableBlock(g, t, Groups(g, t))
      k == (X - first) \div TableBlocks(g)
      r == (x - TableBlock(g, t, k) * g.block) \div g.nodeSize
      b == (X - data) \div Len(t)
      i == ((X - data) % Len(t)) + 1
  IN IF X < GroupTable(g) THEN Superblock(g, t)
     ELSE IF X < first THEN GroupsPiece(g, t)
     ELSE IF X < data THEN NodePiece(g, t, g.perGroup * k + r + 1)
     ELSE IF b = Blocks(g) THEN IndirectPiece(g, t, i) ELSE DataPiece(g, t, i, b)

\* A piece that is on the disk and has its cells for itself.
Lies(g, t, q) ==
  /\ q.at \in Nat /\ q.cells \in Seq(Nat) /\ q.at + Len(q.cells) <= g.block * DiskSize(g, t)
  /\ \A j \in 0..(Len(q.cells) - 1) : Owner(g, t, q.at + j) = q

\* The superblock is in one block.
LEMMA SuperblockLies ==
  ASSUME NEW g, NEW t, IsGeometry(g), IsTree(g, t), Sizes(g, t), DataBlocksFit(g, t)
  PROVE  Lies(g, t, Superblock(g, t)) /\ Len(Superblock(g, t).cells) = 6
<1>1. PICK q : q = Superblock(g, t)
  OBVIOUS
<1>2. q.at = g.super /\ q.cells = <<Len(t), DiskSize(g, t), PerGroup(g, t), g.perGroup, g.block, g.nodeSize>>
  BY <1>1 DEF Superblock
<1>3. /\ Len(t) \in Nat /\ DiskSize(g, t) \in Nat /\ PerGroup(g, t) \in Nat /\ g.perGroup \in Nat
      /\ g.block \in Nat /\ g.nodeSize \in Nat
  BY DEF Sizes, DataBlocksFit
<1>4. q.cells \in Seq(Nat) /\ Len(q.cells) = 6
  BY <1>2, <1>3
<1>5. PICK B, o, r, GT, size :
        B = g.block /\ o = g.super \div B /\ r = g.super % B /\ GT = GroupTable(g) /\ size = DiskSize(g, t)
  OBVIOUS
<1>6. B \in Nat \ {0} /\ o \in Nat /\ r \in Nat /\ r + 6 <= B /\ g.super = B * o + r /\ GT = o + 1
  <2>1. B \in Nat \ {0} /\ g.super \in Nat /\ r + 6 <= B
    BY <1>5 DEF IsGeometry
  <2>2. B * o + r = g.super /\ r \in Nat /\ o \in Nat
    <3>1. PICK s : s = g.super
      OBVIOUS
    <3>2. s \in Nat /\ o = s \div B /\ r = s % B /\ B \in Nat /\ B > 0
      BY <2>1, <3>1, <1>5
    <3>3. B * o + r = s /\ r \in Nat /\ o \in Nat
      BY <3>2, Division
    <3> QED
      BY <3>1, <3>3
  <2> QED
    BY <2>1, <2>2, <1>5 DEF GroupTable
<1>7. ASSUME NEW j \in 0..5 PROVE Owner(g, t, q.at + j) = q
  <2>1. PICK x, c : x = q.at + j /\ c = r + j
    OBVIOUS
  <2>2. c \in Nat /\ c < B /\ x = B * o + c
    <3>1. PICK m : m = B * o
      OBVIOUS
    <3>2. m \in Nat
      BY <3>1, <1>6, Times
    <3>3. x = (m + r) + j /\ r \in Nat /\ r + 6 <= B /\ B \in Nat
      BY <3>1, <2>1, <1>2, <1>6
    <3>4. c \in Nat /\ c < B /\ x = m + c
      BY <3>2, <3>3, <2>1
    <3> QED
      BY <3>1, <3>4
  <2>3. x \div B = o
    BY <2>2, <1>6, Quotient
  <2>4. x \div g.block < GroupTable(g)
    BY <2>3, <1>5, <1>6
  <2>5. Owner(g, t, x) = q
    BY <2>4, <1>1, Zenon DEF Owner
  <2> QED
    BY <2>1, <2>5
<1>8. q.at + 6 <= B * size
  <2>1. PICK FT, DS, G : FT = FirstTable(g, t) /\ DS = TableBlock(g, t, Groups(g, t)) /\ G = Groups(g, t)
    OBVIOUS
  <2>2. FT \in Nat /\ GT * B + G <= B * FT /\ G \in Nat
    BY <2>1, <1>5 DEF Sizes
  <2>3. DS \in Nat /\ DS <= size /\ size \in Nat
    BY <2>1, <1>5 DEF DataBlocksFit
  <2>4. FT <= DS
    <3>1. DS = FT + G * TableBlocks(g) /\ TableBlocks(g) \in Nat
      BY <2>1 DEF TableBlock, Sizes
    <3>2. G * TableBlocks(g) \in Nat
      BY <3>1, <2>2, Times
    <3> QED
      BY <3>1, <3>2, <2>2
  <2>5. B * FT <= B * size
    BY <2>2, <2>3, <2>4, <1>6, Times
  <2>6. GT * B = B * o + B
    BY <1>6
  <2>7. B * o \in Nat /\ B * size \in Nat /\ B * FT \in Nat
    BY <1>6, <2>2, <2>3, Times
  <2>8. q.at = B * o + r
    BY <1>2, <1>6
  <2> QED
    BY <2>2, <2>5, <2>6, <2>7, <2>8, <1>6
<1> QED
  <2>1. q.at \in Nat
    BY <1>2 DEF IsGeometry
  <2>2. q.at + Len(q.cells) <= g.block * DiskSize(g, t)
    BY <1>4, <1>5, <1>8
  <2>3. \A j \in 0..(Len(q.cells) - 1) : Owner(g, t, q.at + j) = q
    BY <1>4, <1>7
  <2> QED
    BY <2>1, <2>2, <2>3, <1>1, <1>4, Zenon DEF Lies

\* Where the tables of i-nodes begin.
LEMMA TablesAre ==
  ASSUME NEW g, NEW t, Sizes(g, t), NEW k \in Nat
  PROVE  /\ TableBlock(g, t, k) = FirstTable(g, t) + k * TableBlocks(g)
         /\ TableBlock(g, t, k) \in Nat /\ FirstTable(g, t) <= TableBlock(g, t, k)
         /\ k < Groups(g, t) => TableBlock(g, t, k) + TableBlocks(g) <= TableBlock(g, t, Groups(g, t))
<1>1. PICK FT, TB, G : FT = FirstTable(g, t) /\ TB = TableBlocks(g) /\ G = Groups(g, t)
  OBVIOUS
<1>2. FT \in Nat /\ TB \in Nat /\ G \in Nat
  BY <1>1 DEF Sizes
<1>3. TableBlock(g, t, k) = FT + k * TB /\ TableBlock(g, t, G) = FT + G * TB
  BY <1>1 DEF TableBlock
<1>4. /\ k * TB \in Nat /\ G * TB \in Nat
      /\ k < G => k * TB + TB <= G * TB
  <2>1. /\ TB * k \in Nat /\ TB * k = k * TB /\ TB * G = G * TB /\ TB * G \in Nat
        /\ k < G => TB * k + TB <= TB * G
    BY <1>2, Times
  <2> QED
    BY <2>1
<1> QED
  BY <1>1, <1>2, <1>3, <1>4

\* The table of groups ends before the first table of i-nodes.
LEMMA GroupsLie ==
  ASSUME NEW g, NEW t, Sizes(g, t), DataBlocksFit(g, t)
  PROVE  Lies(g, t, GroupsPiece(g, t)) /\ Len(GroupsPiece(g, t).cells) = Groups(g, t)
<1>1. PICK q : q = GroupsPiece(g, t)
  OBVIOUS
<1>2. PICK B, GT, FT, G, DS, size :
        /\ B = g.block /\ GT = GroupTable(g) /\ FT = FirstTable(g, t) /\ G = Groups(g, t)
        /\ DS = TableBlock(g, t, Groups(g, t)) /\ size = DiskSize(g, t)
  OBVIOUS
<1>3. B \in Nat \ {0} /\ GT \in Nat /\ FT \in Nat /\ G \in Nat /\ GT * B + G <= B * FT
  BY <1>2 DEF Sizes
<1>4. q.at = GT * B /\ q.cells = [k \in 1..G |-> TableBlock(g, t, k - 1)]
  BY <1>1, <1>2 DEF GroupsPiece
<1>5. q.cells \in Seq(Nat) /\ Len(q.cells) = G
  <2>1. q.cells \in [1..G -> Nat]
    <3>1. ASSUME NEW k \in 1..G PROVE TableBlock(g, t, k - 1) \in Nat
      <4>1. k - 1 \in Nat
        BY <1>3
      <4> QED
        BY <4>1, TablesAre
    <3> QED
      BY <3>1, <1>4
  <2> QED
    BY <2>1, <1>3, IsASeq
<1>6. GT * B = B * GT /\ GT * B \in Nat /\ B * FT \in Nat
  BY <1>3, Times
<1>7. ASSUME NEW j \in 0..(G - 1) PROVE Owner(g, t, q.at + j) = q
  <2>1. PICK x : x = q.at + j
    OBVIOUS
  <2>2. x \in Nat /\ B * GT <= x /\ x < B * FT
    BY <2>1, <1>3, <1>4, <1>6
  <2>3. x \div B \in Nat /\ GT <= x \div B /\ x \div B < FT
    BY <2>2, <1>3, Between
  <2>4. ~(x \div g.block < GroupTable(g)) /\ x \div g.block < FirstTable(g, t)
    BY <2>3, <1>2, <1>3
  <2>5. Owner(g, t, x) = q
    BY <2>4, <1>1, Zenon DEF Owner
  <2> QED
    BY <2>1, <2>5
<1>8. q.at + G <= B * size
  <2>1. FT <= DS /\ DS <= size /\ DS \in Nat /\ size \in Nat
    <3>1. FT <= DS
      BY <1>2, <1>3, TablesAre
    <3> QED
      BY <3>1, <1>2 DEF DataBlocksFit
  <2>2. B * FT <= B * size /\ B * size \in Nat
    <3>1. FT <= size
      BY <2>1, <1>3
    <3> QED
      BY <3>1, <2>1, <1>3, Times
  <2> QED
    BY <2>2, <1>3, <1>4, <1>6
<1> QED
  <2>1. q.at \in Nat
    BY <1>4, <1>6
  <2>2. q.at + Len(q.cells) <= g.block * DiskSize(g, t)
    BY <1>2, <1>5, <1>8
  <2>3. \A j \in 0..(Len(q.cells) - 1) : Owner(g, t, q.at + j) = q
    BY <1>5, <1>7
  <2> QED
    BY <2>1, <2>2, <2>3, <1>1, <1>2, <1>5, Zenon DEF Lies

\* The cells of an i-node.
NodeCells(g, t, i, cells) ==
  /\ cells \in Seq(Nat) /\ Len(cells) = 4 + g.direct
  /\ cells[1] = t[i].type /\ cells[2] = Len(t[i].data)
  /\ cells[3] = BlockCount(g, t, i) * (g.block \div g.sector)
  /\ \A b \in 1..g.direct : cells[3 + b] = Pointer(g, t, i, b - 1)
  /\ cells[4 + g.direct] = IndirectPointer(g, t, i)
\* What there is of an i-number.
IsNode(g, t, i) ==
  /\ t[i].type \in {Dir, Regular} /\ t[i].data \in Seq(Nat) /\ t[i].entries \in Seq(TreeEntries)
  /\ Len(t[i].data) <= Blocks(g) * g.block
  /\ t[i].type = Dir => IsDirectory(t, i)
\* Every i-number has it.
LEMMA NodesAre ==
  ASSUME NEW g, NEW t, IsTree(g, t), NEW i \in 1..Len(t)
  PROVE  IsNode(g, t, i)
<1>2. i \in DOMAIN t
      /\ t[i] \in [type : {Dir, Regular}, data : Seq(Nat), holes : SUBSET Nat, entries : Seq(TreeEntries)]
  <2>1. PICK S : S = [type : {Dir, Regular}, data : Seq(Nat), holes : SUBSET Nat, entries : Seq(TreeEntries)]
    OBVIOUS
  <2>2. t \in Seq(S)
    BY <2>1 DEF IsTree
  <2>3. i \in DOMAIN t /\ t[i] \in S
    BY <2>2
  <2> QED
    BY <2>1, <2>3
<1>3. IsFile(g, t, i) /\ (t[i].type = Dir => IsDirectory(t, i))
  BY <1>2, Zenon DEF IsTree
<1>4. Len(t[i].data) <= Blocks(g) * g.block
  BY <1>3 DEF IsFile
<1>5. t[i].type \in {Dir, Regular} /\ t[i].data \in Seq(Nat) /\ t[i].entries \in Seq(TreeEntries)
  BY <1>2
<1> QED
  BY <1>3, <1>4, <1>5, Zenon DEF IsNode

\* Pointers and the number of blocks are numbers.
CountsAre(g, t, i) ==
  /\ BlockCount(g, t, i) \in Nat /\ BlockCount(g, t, i) * (g.block \div g.sector) \in Nat
  /\ \A b \in 0..Blocks(g) : Pointer(g, t, i, b) \in Nat
  /\ IndirectPointer(g, t, i) \in Nat
  /\ Cardinality(Allocated(g, t, i)) <= BlockCount(g, t, i)
\* An i-node has them.
LEMMA CountsFit ==
  ASSUME NEW g, NEW t, Sizes(g, t), DataBlocksFit(g, t), NEW i \in 1..Len(t)
  PROVE  CountsAre(g, t, i)
<1>1. PICK S, Q : S = Allocated(g, t, i) /\ Q = Blocks(g)
  OBVIOUS
<1>2. Q \in Nat /\ S \subseteq 0..(Q - 1)
  BY <1>1 DEF Allocated, Used, DataBlocksFit
<1>3. IsFiniteSet(S) /\ Cardinality(S) \in Nat
  <2>1. IsFiniteSet(0..(Q - 1))
    BY <1>2, FS_Interval
  <2>2. IsFiniteSet(S)
    BY <1>2, <2>1, FS_Subset
  <2> QED
    BY <2>2, FS_CardinalityType
<1>4. PICK n : n = BlockCount(g, t, i)
  OBVIOUS
<1>5. n \in Nat /\ Cardinality(S) <= n
  BY <1>1, <1>3, <1>4 DEF BlockCount
<1>6. n * (g.block \div g.sector) \in Nat
  <2>1. PICK B, s, q : B = g.block /\ s = g.sector /\ q = B \div s
    OBVIOUS
  <2>2. B \in Nat \ {0} /\ s \in Nat \ {0}
    BY <2>1 DEF Sizes
  <2>3. q \in Nat
    BY <2>1, <2>2
  <2>4. n * q \in Nat
    BY <2>3, <1>5, Times
  <2> QED
    BY <2>1, <2>4
<1>7. ASSUME NEW b \in 0..Q PROVE DataBlock(g, t, i, b) \in Nat
  BY <1>1 DEF DataBlocksFit
<1>8. \A b \in 0..Q : Pointer(g, t, i, b) \in Nat
  BY <1>7 DEF Pointer
<1>9. IndirectPointer(g, t, i) \in Nat
  <2>1. Q \in 0..Q
    BY <1>2
  <2> QED
    BY <2>1, <1>1, <1>7 DEF IndirectPointer
<1> QED
  BY <1>1, <1>4, <1>5, <1>6, <1>8, <1>9, Zenon DEF CountsAre

\* The cells of a piece of an i-node.
LEMMA NodeCellsAre ==
  ASSUME NEW g, NEW t, Sizes(g, t), DataBlocksFit(g, t), NEW i \in 1..Len(t), IsNode(g, t, i)
  PROVE  NodeCells(g, t, i, NodePiece(g, t, i).cells)
<1>1. PICK D, Q, c, x, y, z :
        /\ D = g.direct /\ Q = Blocks(g) /\ c = BlockCount(g, t, i) * (g.block \div g.sector)
        /\ x = <<t[i].type, Len(t[i].data), c>>
        /\ y = [b \in 1..D |-> Pointer(g, t, i, b - 1)]
        /\ z = <<IndirectPointer(g, t, i)>>
  OBVIOUS
<1>2. D \in Nat /\ Q \in Nat /\ D <= Q
  <2>1. D \in Nat /\ g.block \in Nat
    BY <1>1 DEF Sizes
  <2>2. Q = D + g.block
    BY <1>1 DEF Blocks
  <2> QED
    BY <2>1, <2>2
<1>3. c \in Nat /\ IndirectPointer(g, t, i) \in Nat /\ \A b \in 0..Q : Pointer(g, t, i, b) \in Nat
  BY <1>1, CountsFit DEF CountsAre
<1>4. x \in Seq(Nat) /\ Len(x) = 3 /\ x[1] = t[i].type /\ x[2] = Len(t[i].data) /\ x[3] = c
  <2>1. t[i].type \in Nat /\ Len(t[i].data) \in Nat
    BY DEF IsNode, Dir, Regular
  <2> QED
    BY <1>1, <1>3, <2>1
<1>5. y \in Seq(Nat) /\ Len(y) = D
  <2>1. y \in [1..D -> Nat]
    <3>1. \A b \in 1..D : Pointer(g, t, i, b - 1) \in Nat
      BY <1>2, <1>3
    <3> QED
      BY <3>1, <1>1
  <2> QED
    BY <2>1, <1>2, IsASeq
<1>6. z \in Seq(Nat) /\ Len(z) = 1 /\ z[1] = IndirectPointer(g, t, i)
  BY <1>1, <1>3
<1>7. PICK u, v : u = x \o y /\ v = u \o z
  OBVIOUS
<1>8. /\ u \in Seq(Nat) /\ Len(u) = 3 + D /\ u[1] = x[1] /\ u[2] = x[2] /\ u[3] = x[3]
      /\ \A b \in 1..D : u[3 + b] = y[b]
  <2>1. IsBehind(Nat, x, y, u)
    BY <1>4, <1>5, <1>7, Behind
  <2>2. u \in Seq(Nat) /\ Len(u) = 3 + D
    BY <2>1, <1>4, <1>5, Zenon DEF IsBehind
  <2>3. \A j \in 1..3 : u[j] = x[j]
    BY <2>1, <1>4, Zenon DEF IsBehind
  <2>4. \A b \in 1..D : u[3 + b] = y[b]
    BY <2>1, <1>4, <1>5, Zenon DEF IsBehind
  <2> QED
    BY <2>2, <2>3, <2>4
<1>9. /\ v \in Seq(Nat) /\ Len(v) = 4 + D /\ v[4 + D] = z[1]
      /\ \A j \in 1..(3 + D) : v[j] = u[j]
  <2>1. IsBehind(Nat, u, z, v)
    BY <1>6, <1>7, <1>8, Behind
  <2>2. v \in Seq(Nat) /\ Len(v) = 3 + D + 1
    BY <2>1, <1>6, <1>8, Zenon DEF IsBehind
  <2>3. \A j \in 1..(3 + D) : v[j] = u[j]
    BY <2>1, <1>8, Zenon DEF IsBehind
  <2>4. \A j \in 1..1 : v[3 + D + j] = z[j]
    BY <2>1, <1>6, <1>8, Zenon DEF IsBehind
  <2>5. 1 \in 1..1 /\ 3 + D + 1 = 4 + D
    BY <1>2
  <2>6. v[3 + D + 1] = z[1]
    BY <2>4, <2>5
  <2> QED
    BY <2>2, <2>3, <2>5, <2>6
<1>10. NodePiece(g, t, i).cells = v
  BY <1>1, <1>7 DEF NodePiece
<1>11. /\ v[1] = t[i].type /\ v[2] = Len(t[i].data) /\ v[3] = c
       /\ \A b \in 1..D : v[3 + b] = Pointer(g, t, i, b - 1)
  <2>1. /\ 1 \in 1..(3 + D) /\ 2 \in 1..(3 + D) /\ 3 \in 1..(3 + D)
        /\ \A b \in 1..D : 3 + b \in 1..(3 + D)
    BY <1>2
  <2>2. v[1] = t[i].type /\ v[2] = Len(t[i].data) /\ v[3] = c
    BY <2>1, <1>4, <1>8, <1>9
  <2>3. ASSUME NEW b \in 1..D PROVE v[3 + b] = Pointer(g, t, i, b - 1)
    BY <2>1, <1>1, <1>8, <1>9
  <2> QED
    BY <2>2, <2>3
<1> QED
  <2>1. v[4 + D] = IndirectPointer(g, t, i)
    BY <1>6, <1>9
  <2> QED
    BY <2>1, <1>1, <1>9, <1>10, <1>11, Zenon DEF NodeCells

\* An i-node is in the table of its group.
LEMMA NodesLie ==
  ASSUME NEW g, NEW t, Sizes(g, t), DataBlocksFit(g, t), NEW i \in 1..Len(t), IsNode(g, t, i)
  PROVE  Lies(g, t, NodePiece(g, t, i))
<1>1. PICK q : q = NodePiece(g, t, i)
  OBVIOUS
<1>2. PICK B, N, P, G, FT, TB, DS, size :
        /\ B = g.block /\ N = g.nodeSize /\ P = g.perGroup /\ G = Groups(g, t) /\ FT = FirstTable(g, t)
        /\ TB = TableBlocks(g) /\ DS = TableBlock(g, t, Groups(g, t)) /\ size = DiskSize(g, t)
  OBVIOUS
<1>3. PICK k, r, T : k = (i - 1) \div P /\ r = (i - 1) % P /\ T = TableBlock(g, t, k)
  OBVIOUS
<1>4. /\ B \in Nat \ {0} /\ N \in Nat /\ P \in Nat \ {0} /\ G \in Nat \ {0} /\ FT \in Nat /\ TB \in Nat \ {0}
      /\ P * N <= B * TB /\ Len(t) <= P * G /\ Len(t) \in Nat /\ 4 + g.direct <= N /\ g.direct \in Nat
  BY <1>2 DEF Sizes
<1>5. /\ k \in Nat /\ r \in Nat /\ r < P /\ P * k + r + 1 = i /\ k < G
  <2>1. PICK e : e = i - 1
    OBVIOUS
  <2>2. e \in Nat /\ e < P * G /\ i = e + 1
    <3>1. PICK m, l : m = P * G /\ l = Len(t)
      OBVIOUS
    <3>2. m \in Nat /\ l \in Nat /\ l <= m /\ i \in 1..l
      BY <3>1, <1>4, Times
    <3> QED
      BY <2>1, <3>1, <3>2
  <2>3. P * k + r = e /\ k \in Nat /\ r \in Nat /\ r < P
    <3>1. k = e \div P /\ r = e % P /\ P \in Nat /\ P > 0
      BY <1>3, <1>4, <2>1
    <3> QED
      BY <3>1, <2>2, Division
  <2>4. ~(G <= k)
    <3> SUFFICES ASSUME G <= k PROVE FALSE
      OBVIOUS
    <3>1. P * G <= P * k /\ P * G \in Nat /\ P * k \in Nat
      BY <1>4, <2>3, Times
    <3> QED
      BY <3>1, <2>2, <2>3
  <2> QED
    BY <2>2, <2>3, <2>4, <1>4
<1>6. /\ T = FT + k * TB /\ T \in Nat /\ FT <= T /\ T + TB <= DS /\ DS \in Nat /\ DS <= size /\ size \in Nat
  <2>1. T = FT + k * TB /\ T \in Nat /\ FT <= T /\ T + TB <= DS
    BY <1>2, <1>3, <1>5, TablesAre
  <2> QED
    BY <2>1, <1>2 DEF DataBlocksFit
<1>7. PICK w : w = 4 + g.direct
  OBVIOUS
<1>8. q.cells \in Seq(Nat) /\ Len(q.cells) = w /\ w \in Nat /\ w <= N
  <2>1. NodeCells(g, t, i, q.cells)
    BY <1>1, NodeCellsAre
  <2>2. q.cells \in Seq(Nat) /\ Len(q.cells) = w
    BY <2>1, <1>7 DEF NodeCells
  <2> QED
    BY <2>2, <1>4, <1>7
<1>9. q.at = T * B + r * N
  BY <1>1, <1>2, <1>3 DEF NodePiece
<1>10. PICK a, c : a = B * T /\ c = N * r
  OBVIOUS
<1>11. a \in Nat /\ c \in Nat /\ q.at = a + c /\ c + N <= B * TB
  <2>1. a \in Nat /\ T * B = a /\ c \in Nat /\ r * N = c
    BY <1>10, <1>4, <1>5, <1>6, Times
  <2>2. c + N <= N * P /\ N * P = P * N /\ N * P \in Nat
    BY <1>10, <1>4, <1>5, Times
  <2>3. B * TB \in Nat
    BY <1>4, Times
  <2> QED
    BY <2>1, <2>2, <2>3, <1>4, <1>9
<1>12. PICK d, e : d = B * (T + TB) /\ e = B * DS
  OBVIOUS
<1>13. d \in Nat /\ e \in Nat /\ a + B * TB = d /\ d <= e /\ e <= B * size /\ B * size \in Nat
  <2>1. T + TB \in Nat
    BY <1>4, <1>6
  <2>2. d \in Nat /\ e \in Nat /\ d <= e
    BY <2>1, <1>4, <1>6, <1>12, Times
  <2>3. e <= B * size /\ B * size \in Nat
    BY <1>4, <1>6, <1>12, Times
  <2>4. a + B * TB = d
    BY <1>4, <1>6, <1>10, <1>12
  <2> QED
    BY <2>2, <2>3, <2>4
<1>14. PICK m : m = B * TB
  OBVIOUS
<1>15. m \in Nat /\ c + N <= m /\ a + m = d
  BY <1>4, <1>11, <1>13, <1>14, Times
<1>16. ASSUME NEW j \in 0..(w - 1) PROVE Owner(g, t, q.at + j) = q
  <2>1. PICK x : x = q.at + j
    OBVIOUS
  <2>2. x \in Nat /\ x = a + (c + j) /\ c + j \in Nat /\ a <= x /\ x < d /\ j \in Nat /\ j < N
    BY <2>1, <1>4, <1>8, <1>11, <1>15
  <2>3. PICK X : X = x \div B
    OBVIOUS
  <2>4. X \in Nat /\ T <= X /\ X < T + TB
    <3>1. T + TB \in Nat /\ B * T <= x /\ x < B * (T + TB)
      <4>1. T + TB \in Nat
        BY <1>4, <1>6
      <4> QED
        BY <4>1, <2>2, <1>10, <1>12
    <3>2. PICK E : E = T + TB
      OBVIOUS
    <3>3. B \in Nat /\ B > 0 /\ T \in Nat /\ E \in Nat /\ x \in Nat /\ B * T <= x /\ x < B * E
      BY <3>1, <3>2, <2>2, <1>4, <1>6
    <3>4. x \div B \in Nat /\ T <= x \div B /\ x \div B < E
      BY <3>3, Between
    <3> QED
      BY <3>2, <3>4, <2>3
  <2>5. (X - FT) \div TB = k
    <3>1. PICK y, z : y = X - FT /\ z = X - T
      OBVIOUS
    <3>2. z \in Nat /\ z < TB /\ y = TB * k + z
      <4>1. PICK p : p = TB * k
        OBVIOUS
      <4>2. p \in Nat /\ k * TB = p
        BY <4>1, <1>4, <1>5, Times
      <4>3. T = FT + p
        BY <4>2, <1>6
      <4>4. z \in Nat /\ z < TB /\ y = p + z
        BY <4>2, <4>3, <3>1, <2>4, <1>4, <1>6
      <4> QED
        BY <4>1, <4>4
    <3> QED
      BY <3>1, <3>2, <1>4, <1>5, Quotient
  <2>6. (x - T * B) \div N = r
    <3>1. x - T * B = N * r + j
      <4>1. T * B = a
        BY <1>4, <1>6, <1>10, Times
      <4>2. x - a = c + j
        BY <2>2, <1>11
      <4> QED
        BY <4>1, <4>2, <1>10
    <3>2. PICK y : y = x - T * B
      OBVIOUS
    <3>3. y \div N = r
      BY <3>1, <3>2, <2>2, <1>4, <1>5, Quotient
    <3> QED
      BY <3>2, <3>3
  <2>7. ~(x \div g.block < GroupTable(g)) /\ ~(x \div g.block < FirstTable(g, t))
        /\ x \div g.block < TableBlock(g, t, Groups(g, t))
    <3>1. PICK GT : GT = GroupTable(g)
      OBVIOUS
    <3>2. GT \in Nat /\ GT <= FT
      <4>1. GT \in Nat /\ GT * B + G <= B * FT
        BY <3>1, <1>2 DEF Sizes
      <4>2. ~(FT < GT)
        <5> SUFFICES ASSUME FT < GT PROVE FALSE
          OBVIOUS
        <5>1. B * FT <= B * GT /\ B * GT = GT * B /\ B * GT \in Nat /\ B * FT \in Nat
          BY <4>1, <1>4, Times
        <5> QED
          BY <5>1, <4>1, <1>4
      <4> QED
        BY <4>1, <4>2, <1>4
    <3>3. ~(X < GT) /\ ~(X < FT) /\ X < DS
      BY <3>2, <2>4, <1>4, <1>6
    <3> QED
      BY <3>1, <3>3, <2>3, <1>2
  <2>8. Owner(g, t, x) = NodePiece(g, t, P * k + r + 1)
    <3>1. (x \div g.block - FirstTable(g, t)) \div TableBlocks(g) = k
      BY <2>3, <2>5, <1>2
    <3>2. (x - TableBlock(g, t, k) * g.block) \div g.nodeSize = r
      BY <2>6, <1>2, <1>3
    <3> QED
      BY <3>1, <3>2, <2>7, <1>2, Zenon DEF Owner
  <2> QED
    BY <2>1, <2>8, <1>1, <1>5
<1> QED
  <2>1. q.at \in Nat
    BY <1>11
  <2>2. q.at + Len(q.cells) <= g.block * DiskSize(g, t)
    <3>1. q.at + w <= B * size
      BY <1>4, <1>8, <1>11, <1>13, <1>15
    <3> QED
      BY <3>1, <1>2, <1>8
  <2>3. \A j \in 0..(Len(q.cells) - 1) : Owner(g, t, q.at + j) = q
    BY <1>8, <1>16
  <2> QED
    BY <2>1, <2>2, <2>3, <1>1, <1>8, Zenon DEF Lies

\* A block of a file belongs to it.
LEMMA BlockOwner ==
  ASSUME NEW g, NEW t, Sizes(g, t), DataBlocksFit(g, t), NEW i \in 1..Len(t), NEW b \in 0..Blocks(g),
         NEW j \in 0..(g.block - 1)
  PROVE  Owner(g, t, DataBlock(g, t, i, b) * g.block + j) =
           IF b = Blocks(g) THEN IndirectPiece(g, t, i) ELSE DataPiece(g, t, i, b)
<1>1. PICK B, n, FT, DS, X, x, GT :
        /\ B = g.block /\ n = Len(t) /\ FT = FirstTable(g, t) /\ DS = TableBlock(g, t, Groups(g, t))
        /\ X = DataBlock(g, t, i, b) /\ x = X * B + j /\ GT = GroupTable(g)
  OBVIOUS
<1>2. B \in Nat \ {0} /\ n \in Nat \ {0} /\ FT \in Nat /\ GT \in Nat /\ GT * B + Groups(g, t) <= B * FT
      /\ Groups(g, t) \in Nat
  BY <1>1 DEF Sizes
<1>3. DS \in Nat /\ FT <= DS
  BY <1>1, <1>2, TablesAre
<1>4. X \in Nat /\ Blocks(g) \in Nat
  BY <1>1 DEF DataBlocksFit
<1>5. PICK m, o : m = n * b /\ o = i - 1
  OBVIOUS
<1>6. m \in Nat /\ o \in Nat /\ o < n /\ X = DS + (m + o) /\ b \in Nat
  <2>1. b \in Nat
    BY <1>4
  <2>2. m \in Nat /\ b * n = m
    BY <2>1, <1>2, <1>5, Times
  <2>3. X = DS + b * n + i - 1
    BY <1>1 DEF DataBlock
  <2>4. o \in Nat /\ o < n /\ i = o + 1
    BY <1>1, <1>2, <1>5
  <2>5. X = DS + m + i - 1
    BY <2>2, <2>3
  <2>6. X = DS + (m + o)
    BY <2>2, <2>4, <2>5, <1>3
  <2> QED
    BY <2>1, <2>2, <2>4, <2>6
<1>7. x \div B = X
  <2>1. x = B * X + j /\ j \in Nat /\ j < B
    <3>1. j \in Nat /\ j < B
      BY <1>1, <1>2
    <3>2. X * B = B * X /\ x = X * B + j
      BY <1>1, <1>2, <1>4, Times
    <3> QED
      BY <3>1, <3>2
  <2> QED
    BY <2>1, <1>2, <1>4, Quotient
<1>8. (X - DS) \div n = b /\ (X - DS) % n = o
  <2>1. PICK y : y = X - DS
    OBVIOUS
  <2>2. y = m + o
    BY <2>1, <1>3, <1>6
  <2>3. y = n * b + o
    BY <2>2, <1>5
  <2>4. n \in Nat /\ b \in Nat /\ o \in Nat /\ o < n
    BY <1>2, <1>6
  <2>5. y \div n = b /\ y % n = o
    BY <2>3, <2>4, Quotient
  <2> QED
    BY <2>1, <2>5
<1>9. ~(X < GT) /\ ~(X < FT) /\ ~(X < DS)
  <2>1. ~(FT < GT)
    <3> SUFFICES ASSUME FT < GT PROVE FALSE
      OBVIOUS
    <3>1. B * FT + B <= B * GT /\ B * GT = GT * B /\ B * GT \in Nat /\ B * FT \in Nat
      BY <1>2, Times
    <3> QED
      BY <3>1, <1>2
  <2> QED
    BY <2>1, <1>2, <1>3, <1>6
<1>10. o + 1 = i
  BY <1>1, <1>2, <1>5
<1>11. Owner(g, t, x) = IF b = Blocks(g) THEN IndirectPiece(g, t, i) ELSE DataPiece(g, t, i, b)
  <2>1. /\ ~(x \div g.block < GroupTable(g)) /\ ~(x \div g.block < FirstTable(g, t))
        /\ ~(x \div g.block < TableBlock(g, t, Groups(g, t)))
    BY <1>1, <1>7, <1>9
  <2>2. (x \div g.block - TableBlock(g, t, Groups(g, t))) \div Len(t) = b
    BY <1>1, <1>7, <1>8
  <2>3. ((x \div g.block - TableBlock(g, t, Groups(g, t))) % Len(t)) + 1 = i
    BY <1>1, <1>7, <1>8, <1>10
  <2> QED
    BY <2>1, <2>2, <2>3, Zenon DEF Owner
<1> QED
  BY <1>1, <1>11

\* A piece that is at most a block long.
LEMMA BlockLies ==
  ASSUME NEW g, NEW t, Sizes(g, t), DataBlocksFit(g, t), NEW i \in 1..Len(t), NEW b \in 0..Blocks(g),
         NEW q, q = IF b = Blocks(g) THEN IndirectPiece(g, t, i) ELSE DataPiece(g, t, i, b),
         q.cells \in Seq(Nat), Len(q.cells) <= g.block
  PROVE  Lies(g, t, q)
<1>1. PICK B, X, w, size : B = g.block /\ X = DataBlock(g, t, i, b) /\ w = Len(q.cells) /\ size = DiskSize(g, t)
  OBVIOUS
<1>2. B \in Nat \ {0} /\ w \in Nat /\ w <= B
  <2>1. B \in Nat \ {0}
    BY <1>1 DEF Sizes
  <2>2. w \in Nat /\ w <= B
    BY <1>1
  <2> QED
    BY <2>1, <2>2
<1>3. X \in Nat /\ X + 1 <= size /\ size \in Nat
  BY <1>1 DEF DataBlocksFit
<1>4. q.at = X * B
  <2>1. IndirectPiece(g, t, i).at = DataBlock(g, t, i, Blocks(g)) * B
    BY <1>1 DEF IndirectPiece
  <2>2. DataPiece(g, t, i, b).at = DataBlock(g, t, i, b) * B
    BY <1>1 DEF DataPiece
  <2>3. CASE b = Blocks(g)
    BY <2>1, <2>3, <1>1
  <2>4. CASE b # Blocks(g)
    BY <2>2, <2>4, <1>1
  <2> QED
    BY <2>3, <2>4
<1>5. X * B \in Nat /\ X * B + B <= B * size
  <2>1. B * X \in Nat /\ B * X = X * B /\ B * X + B <= B * size
    <3>1. X < size
      BY <1>3
    <3> QED
      BY <3>1, <1>2, <1>3, Times
  <2> QED
    BY <2>1
<1>6. q.at \in Nat
  BY <1>4, <1>5
<1>7. q.at + w <= B * size
  <2>1. PICK m, e : m = X * B /\ e = B * size
    OBVIOUS
  <2>2. m \in Nat /\ e \in Nat /\ m + B <= e
    BY <2>1, <1>2, <1>3, <1>5, Times
  <2>3. m + w <= e
    BY <2>2, <1>2
  <2> QED
    BY <2>1, <2>3, <1>4
<1>8. ASSUME NEW j \in 0..(w - 1) PROVE Owner(g, t, q.at + j) = q
  <2>1. j \in 0..(g.block - 1)
    BY <1>1, <1>2
  <2>2. Owner(g, t, X * B + j) = q
    BY <2>1, <1>1, BlockOwner
  <2> QED
    BY <2>2, <1>4
<1> QED
  BY <1>1, <1>6, <1>7, <1>8 DEF Lies

\* The cells of the indirect block.
IndirectCells(g, t, i, cells) ==
  /\ cells \in Seq(Nat) /\ Len(cells) = g.block
  /\ \A b \in 1..g.block : cells[b] = Pointer(g, t, i, g.direct + b - 1)
\* The indirect block lies on the disk.
LEMMA IndirectsLie ==
  ASSUME NEW g, NEW t, Sizes(g, t), DataBlocksFit(g, t), NEW i \in 1..Len(t)
  PROVE  Lies(g, t, IndirectPiece(g, t, i)) /\ IndirectCells(g, t, i, IndirectPiece(g, t, i).cells)
<1>1. PICK q, B, D : q = IndirectPiece(g, t, i) /\ B = g.block /\ D = g.direct
  OBVIOUS
<1>2. B \in Nat /\ D \in Nat /\ Blocks(g) = D + B
  BY <1>1 DEF Sizes, Blocks
<1>3. q.cells = [b \in 1..B |-> Pointer(g, t, i, D + b - 1)]
  BY <1>1 DEF IndirectPiece
<1>4. q.cells \in Seq(Nat) /\ Len(q.cells) = B
  <2>1. \A b \in 0..Blocks(g) : Pointer(g, t, i, b) \in Nat
    BY CountsFit DEF CountsAre
  <2>2. \A b \in 1..B : Pointer(g, t, i, D + b - 1) \in Nat
    BY <2>1, <1>2
  <2>3. q.cells \in [1..B -> Nat]
    BY <2>2, <1>3
  <2> QED
    BY <2>3, <1>2, IsASeq
<1>5. IndirectCells(g, t, i, q.cells)
  BY <1>1, <1>3, <1>4 DEF IndirectCells
<1>6. Lies(g, t, q)
  <2>1. PICK b : b = Blocks(g)
    OBVIOUS
  <2>2. b \in 0..Blocks(g) /\ Len(q.cells) <= g.block
    BY <2>1, <1>1, <1>2, <1>4
  <2> QED
    BY <2>1, <2>2, <1>1, <1>4, BlockLies
<1> QED
  BY <1>1, <1>5, <1>6

\* The cells of a block of data.
DataCells(g, t, i, b, cells) ==
  LET data == t[i].data
      m == Least(g.block, Len(data) - b * g.block)
  IN m \in Nat /\ b * g.block + m <= Len(data) /\ Taken(data, b * g.block, m, cells)
\* A block of data lies on the disk.
LEMMA DataLie ==
  ASSUME NEW g, NEW t, Sizes(g, t), DataBlocksFit(g, t), NEW i \in 1..Len(t), IsNode(g, t, i),
         NEW b \in Used(g, t, i)
  PROVE  Lies(g, t, DataPiece(g, t, i, b)) /\ DataCells(g, t, i, b, DataPiece(g, t, i, b).cells)
<1>1. PICK q, B, data, L, o : q = DataPiece(g, t, i, b) /\ B = g.block /\ data = t[i].data /\ L = Len(data) /\ o = b * B
  OBVIOUS
<1>2. B \in Nat \ {0} /\ data \in Seq(Nat) /\ L \in Nat /\ Blocks(g) \in Nat
  <2>1. data \in Seq(Nat)
    BY <1>1 DEF IsNode
  <2>2. L \in Nat
    BY <2>1, <1>1
  <2>3. B \in Nat \ {0} /\ Blocks(g) \in Nat
    BY <1>1 DEF Sizes, DataBlocksFit
  <2> QED
    BY <2>1, <2>2, <2>3
<1>3. b \in 0..(Blocks(g) - 1) /\ b \in Nat /\ o < L
  <2>1. b \in 0..(Blocks(g) - 1) /\ o < L
    BY <1>1 DEF Used
  <2> QED
    BY <2>1, <1>2
<1>4. o \in Nat
  BY <1>1, <1>2, <1>3, Times
<1>5. PICK m : m = Least(B, L - o)
  OBVIOUS
<1>6. m \in Nat /\ m <= B /\ o + m <= L
  BY <1>2, <1>3, <1>4, <1>5 DEF Least
<1>7. Taken(data, o, m, q.cells)
  <2>1. q.cells = SubSeq(data, o + 1, o + m)
    BY <1>1, <1>5 DEF DataPiece, Piece
  <2>2. o + m <= Len(data)
    BY <1>1, <1>6
  <2> QED
    BY <2>1, <2>2, <1>2, <1>4, <1>6, Part
<1>8. DataCells(g, t, i, b, q.cells)
  BY <1>1, <1>5, <1>6, <1>7, Zenon DEF DataCells
<1>9. Lies(g, t, q)
  <2>1. q.cells \in Seq(Nat) /\ Len(q.cells) = m
    BY <1>7, Zenon DEF Taken
  <2>2. b \in 0..Blocks(g) /\ b # Blocks(g)
    BY <1>2, <1>3
  <2>3. Len(q.cells) <= g.block
    BY <2>1, <1>1, <1>6
  <2> QED
    BY <2>1, <2>2, <2>3, <1>1, BlockLies
<1> QED
  BY <1>1, <1>8, <1>9

\* The i-numbers.
LEMMA Numbers == ASSUME NEW g, NEW t, IsTree(g, t) PROVE DOMAIN t = 1..Len(t)
<1>1. PICK S : S = [type : {Dir, Regular}, data : Seq(Nat), holes : SUBSET Nat, entries : Seq(TreeEntries)]
  OBVIOUS
<1>2. t \in Seq(S)
  BY <1>1 DEF IsTree
<1> QED
  BY <1>2

\* Every piece lies on the disk.
LEMMA PiecesLie ==
  ASSUME NEW g, NEW t, IsGeometry(g), IsTree(g, t), NEW q \in Pieces(g, t)
  PROVE  Lies(g, t, q)
<1>1. Sizes(g, t) /\ DataBlocksFit(g, t)
  BY SizesAre, DataBlocksAre
<1>2. DOMAIN t = 1..Len(t)
  BY Numbers
<1>3. Lies(g, t, Superblock(g, t)) /\ Lies(g, t, GroupsPiece(g, t))
  BY <1>1, SuperblockLies, GroupsLie
<1>4. ASSUME NEW i \in DOMAIN t
      PROVE  /\ Lies(g, t, NodePiece(g, t, i)) /\ Lies(g, t, IndirectPiece(g, t, i))
             /\ \A b \in Used(g, t, i) : Lies(g, t, DataPiece(g, t, i, b))
  <2>1. i \in 1..Len(t)
    BY <1>2
  <2>2. IsNode(g, t, i)
    BY <2>1, NodesAre
  <2> QED
    BY <1>1, <2>1, <2>2, NodesLie, IndirectsLie, DataLie
<1>5. \/ q = Superblock(g, t) \/ q = GroupsPiece(g, t)
      \/ \E i \in DOMAIN t : \/ q = NodePiece(g, t, i) \/ q = IndirectPiece(g, t, i)
                             \/ \E b \in Used(g, t, i) : q = DataPiece(g, t, i, b)
  <2> DEFINE a == {Superblock(g, t), GroupsPiece(g, t)}
             b == {NodePiece(g, t, i) : i \in DOMAIN t}
             d == {IndirectPiece(g, t, i) : i \in {j \in DOMAIN t : Indirect(g, t, j)}}
             c == {{DataPiece(g, t, i, k) : k \in Allocated(g, t, i)} : i \in DOMAIN t}
  <2>1. q \in a \/ q \in b \/ q \in d \/ q \in UNION c
    <3>1. Pieces(g, t) = a \union b \union d \union (UNION c)
      BY DEF Pieces
    <3>2. q \in Pieces(g, t)
      OBVIOUS
    <3> HIDE DEF a, b, c, d
    <3>3. q \in ((a \union b) \union d) \union (UNION c)
      BY <3>1, <3>2, Zenon
    <3> QED
      BY <3>3, Zenon
  <2>2. CASE q \in a
    BY <2>2
  <2>3. CASE q \in b \/ q \in d
    BY <2>3, Zenon
  <2>4. CASE q \in UNION c
    <3>1. PICK s \in c : q \in s
      BY <2>4
    <3>2. PICK i \in DOMAIN t : s = {DataPiece(g, t, i, k) : k \in Allocated(g, t, i)}
      BY <3>1
    <3>3. Allocated(g, t, i) \subseteq Used(g, t, i)
      BY DEF Allocated
    <3> QED
      BY <3>1, <3>2, <3>3
  <2> QED
    BY <2>1, <2>2, <2>3, <2>4
<1> QED
  BY <1>3, <1>4, <1>5, Zenon

\* A disk has the cells of all pieces.
HasPieces(g, t, disk) ==
  /\ disk \in Seq(Nat) /\ Len(disk) = g.block * DiskSize(g, t)
  /\ \A q \in Pieces(g, t) : \A j \in 1..Len(q.cells) : disk[q.at + j] = q.cells[j]
\* No piece is written over by another.
LEMMA DiskIs ==
  ASSUME NEW g, NEW t, IsGeometry(g), IsTree(g, t)
  PROVE  HasPieces(g, t, Disk(g, t))
<1>1. Sizes(g, t) /\ DataBlocksFit(g, t)
  BY SizesAre, DataBlocksAre
<1>2. PICK size : size = DiskSize(g, t) * g.block
  OBVIOUS
<1>3. size \in Nat /\ size = g.block * DiskSize(g, t)
  <2>1. g.block \in Nat /\ DiskSize(g, t) \in Nat
    BY <1>1 DEF Sizes, DataBlocksFit
  <2> QED
    BY <2>1, <1>2, Times
<1>4. PICK S : S = Pieces(g, t)
  OBVIOUS
<1>5. \A q \in S : Lies(g, t, q)
  BY <1>4, PiecesLie
<1> DEFINE Covering(a) == {q \in S : a - 1 - q.at \in 0..Len(q.cells) - 1}
           Value(a) == IF Covering(a) = {} THEN 0 ELSE (CHOOSE q \in Covering(a) : TRUE).cells[a - (CHOOSE q \in Covering(a) : TRUE).at]
           f == [a \in 1..size |-> Value(a)]
<1>6. Disk(g, t) = Whole(f)
  <2>1. Disk(g, t) = Whole([a \in 1..DiskSize(g, t) * g.block |->
          LET p == {q \in Pieces(g, t) : a - 1 - q.at \in 0..Len(q.cells) - 1} IN
          IF p = {} THEN 0 ELSE LET q == CHOOSE q \in p : TRUE IN q.cells[a - q.at]])
    BY DEF Disk
  <2> QED
    BY <2>1, <1>2, <1>4
<1>7. ASSUME NEW q \in S, NEW j \in 0..(Len(q.cells) - 1)
      PROVE  q.at \in Nat /\ q.cells \in Seq(Nat) /\ q.at + j + 1 \in 1..size /\ Owner(g, t, q.at + j) = q
  <2>1. Lies(g, t, q)
    BY <1>5
  <2>2. /\ q.at \in Nat /\ q.cells \in Seq(Nat) /\ q.at + Len(q.cells) <= size
        /\ Owner(g, t, q.at + j) = q
    BY <2>1, <1>3, Zenon DEF Lies
  <2>3. Len(q.cells) \in Nat
    BY <2>2
  <2> QED
    BY <2>2, <2>3, <1>3
<1>8. ASSUME NEW a \in Int, NEW q \in Covering(a)
      PROVE  /\ q \in S /\ a - q.at \in 1..Len(q.cells) /\ q.cells \in Seq(Nat)
             /\ q = Owner(g, t, a - 1)
  <2>1. q \in S /\ a - 1 - q.at \in 0..(Len(q.cells) - 1)
    OBVIOUS
  <2>2. PICK j : j = a - 1 - q.at
    OBVIOUS
  <2>3. q.at \in Nat /\ q.cells \in Seq(Nat) /\ Owner(g, t, q.at + j) = q
    BY <2>1, <2>2, <1>7
  <2>4. Len(q.cells) \in Nat
    BY <2>3
  <2>5. q.at + j = a - 1 /\ a - q.at \in 1..Len(q.cells)
    BY <2>1, <2>2, <2>3, <2>4
  <2> QED
    BY <2>1, <2>3, <2>5
<1>9. ASSUME NEW a \in 1..size PROVE Value(a) \in Nat
  <2>1. CASE Covering(a) = {}
    BY <2>1
  <2>2. CASE Covering(a) # {}
    <3>1. PICK q : q = (CHOOSE r \in Covering(a) : TRUE)
      OBVIOUS
    <3>2. q \in Covering(a)
      BY <2>2, <3>1
    <3>3. a \in Int
      BY <1>3
    <3>4. a - q.at \in 1..Len(q.cells) /\ q.cells \in Seq(Nat)
      BY <3>2, <3>3, <1>8
    <3>5. q.cells[a - q.at] \in Nat
      BY <3>4
    <3> HIDE DEF Covering
    <3> QED
      BY <2>2, <3>1, <3>5
  <2> QED
    BY <2>1, <2>2
<1>10. ASSUME NEW q \in S, NEW j \in 1..Len(q.cells) PROVE f[q.at + j] = q.cells[j]
  <2>1. Lies(g, t, q)
    BY <1>5
  <2>2. q.at \in Nat /\ q.cells \in Seq(Nat)
    BY <2>1 DEF Lies
  <2>3. Len(q.cells) \in Nat /\ j \in Nat
    BY <2>2
  <2>4. PICK a : a = q.at + j
    OBVIOUS
  <2>5. a \in Int /\ a - 1 - q.at \in 0..(Len(q.cells) - 1) /\ a - q.at = j /\ j - 1 \in 0..(Len(q.cells) - 1)
    <3>1. PICK from, w : from = q.at /\ w = Len(q.cells)
      OBVIOUS
    <3>2. from \in Nat /\ w \in Nat /\ j \in 1..w /\ a = from + j
      BY <3>1, <2>2, <2>3, <2>4
    <3>3. a \in Int /\ a - 1 - from \in 0..(w - 1) /\ a - from = j /\ j - 1 \in 0..(w - 1)
      BY <3>2
    <3> QED
      BY <3>1, <3>3
  <2>6. a \in 1..size
    <3>1. q.at + (j - 1) + 1 \in 1..size
      BY <2>5, <1>7
    <3> QED
      BY <3>1, <2>2, <2>3, <2>4
  <2>7. q \in Covering(a)
    BY <2>5
  <2>8. PICK r : r = (CHOOSE p \in Covering(a) : TRUE)
    OBVIOUS
  <2>9. r \in Covering(a)
    BY <2>7, <2>8
  <2>10. r = q
    <3>1. r = Owner(g, t, a - 1) /\ q = Owner(g, t, a - 1)
      BY <2>5, <2>7, <2>9, <1>8
    <3> QED
      BY <3>1
  <2>11. Covering(a) # {}
    BY <2>7
  <2> HIDE DEF Covering
  <2>12. Value(a) = q.cells[a - q.at]
    BY <2>8, <2>10, <2>11
  <2>13. f[a] = Value(a)
    BY <2>6
  <2> HIDE DEF f, Value
  <2> QED
    BY <2>4, <2>5, <2>12, <2>13
<1>11. f \in [1..size -> Nat]
  BY <1>9
<1> HIDE DEF f, Covering
<1>12. f \in Seq(Nat) /\ Len(f) = size
  BY <1>3, <1>11, IsASeq
<1>13. Disk(g, t) = f
  BY <1>3, <1>6, <1>12 DEF Whole
<1> QED
  BY <1>3, <1>4, <1>10, <1>12, <1>13 DEF HasPieces

\* The registers hold the number of a sector.
LEMMA SectorFits ==
  ASSUME NEW s \in Nat, s < SectorNumbers
  PROVE  SectorAsked(SectorRegisters(s)) = s
<1>1. PICK a, b, c, d : a = s % 256 /\ b = (s \div 256) % 256 /\ c = (s \div 65536) % 256 /\ d = (s \div 16777216) % 16
  BY SMT
<1>2. a + 256 * b + 65536 * c + 16777216 * d = s
  BY <1>1, SMT DEF SectorNumbers
<1>3. SectorRegisters(s) = <<a, b, c, d>>
  BY <1>1, SMT DEF SectorRegisters
<1>4. SectorAsked(<<a, b, c, d>>) = a + 256 * b + 65536 * c + 16777216 * d
  BY SMT DEF SectorAsked
<1> QED
  BY <1>2, <1>3, <1>4, SMT

\* The sectors hold the disk.
LEMMA IdeStores ==
  ASSUME NEW g, NEW disk \in Seq(Nat), g.sector \in Nat \ {0}, NEW n \in Nat, Len(disk) = g.sector * n,
         n <= SectorNumbers, OffsetRange \in Nat, Len(disk) < OffsetRange
  PROVE  Shows(Ide(g, disk), disk) /\ Ide(g, disk).block = g.sector
<1>1. PICK S, L : S = g.sector /\ L = Len(disk)
  OBVIOUS
<1>2. S \in Nat \ {0} /\ L = S * n /\ L \in Nat
  BY <1>1
<1>3. L \div S = n /\ Ceil(L, S) = n
  <2>1. L \div S = n
    <3>1. PICK z : z = 0
      OBVIOUS
    <3>2. z \in Nat /\ z < S /\ L = S * n + z
      BY <3>1, <1>2
    <3> QED
      BY <3>2, <1>2, Quotient
  <2>2. Ceil(L, S) = n
    <3>1. PICK z, e : z = S - 1 /\ e = L + S - 1
      OBVIOUS
    <3>2. z \in Nat /\ z < S /\ e = S * n + z
      BY <3>1, <1>2
    <3>3. e \div S = n
      BY <3>2, <1>2, Quotient
    <3> QED
      BY <3>1, <3>3 DEF Ceil
  <2> QED
    BY <2>1, <2>2
<1>4. PICK bs : bs = [s \in 1..n |-> Piece(disk, SectorAsked(SectorRegisters(s - 1)) * S, S)]
  OBVIOUS
<1>5. ASSUME NEW b \in 1..n
      PROVE  Taken(disk, S * (b - 1), S, bs[b]) /\ Least(S, L - S * (b - 1)) = S
  <2>1. PICK s, o : s = b - 1 /\ o = S * s
    OBVIOUS
  <2>2. s \in Nat /\ s < n /\ s < SectorNumbers
    <3>1. PICK m : m = SectorNumbers
      OBVIOUS
    <3>2. m \in Nat
      BY <3>1, SMT DEF SectorNumbers
    <3> QED
      BY <3>1, <3>2, <2>1
  <2>3. o \in Nat /\ o + S <= L /\ s * S = o
    BY <2>1, <2>2, <1>2, Times
  <2>4. bs[b] = SubSeq(disk, o + 1, o + S)
    <3>1. SectorAsked(SectorRegisters(s)) = s
      BY <2>2, SectorFits
    <3>2. bs[b] = Piece(disk, SectorAsked(SectorRegisters(s)) * S, S)
      BY <2>1, <1>4
    <3> QED
      BY <3>1, <3>2, <2>3 DEF Piece
  <2>5. Taken(disk, o, S, bs[b])
    BY <2>3, <2>4, <1>1, <1>2, Part
  <2>6. Least(S, L - o) = S
    BY <2>3, <1>2 DEF Least
  <2> QED
    BY <2>1, <2>5, <2>6
<1>6. bs \in Seq(Seq(Nat)) /\ Len(bs) = n
  <2>1. \A b \in 1..n : bs[b] \in Seq(Nat)
    BY <1>5 DEF Taken
  <2>2. bs = [b \in 1..n |-> bs[b]]
    BY <1>4
  <2>3. bs \in [1..n -> Seq(Nat)]
    BY <2>1, <2>2
  <2> QED
    BY <2>3, IsASeq
<1>7. SubSeq(bs, 1, Len(bs)) = bs
  BY <1>6
<1>8. PICK io : io = Ide(g, disk)
  OBVIOUS
<1>9. io.size = OffsetRange - 1 /\ io.block = S /\ io.blocks = bs
  <2>1. io = BlockIO(OffsetRange - 1, S, bs)
    BY <1>1, <1>3, <1>4, <1>8 DEF Ide
  <2>2. io = [size |-> OffsetRange - 1, block |-> S, blocks |-> bs]
    BY <2>1, <1>7, Zenon DEF BlockIO, Whole
  <2> QED
    BY <2>2
<1>10. ASSUME NEW b \in 1..n
       PROVE  /\ b \in DOMAIN io.blocks
              /\ io.blocks[b] \in Seq(Nat) /\ Len(io.blocks[b]) >= Room(io, disk, b)
              /\ \A j \in 1..Room(io, disk, b) : io.blocks[b][j] = disk[io.block * (b - 1) + j]
  <2>0. b \in DOMAIN io.blocks
    BY <1>4, <1>9
  <2>1. Room(io, disk, b) = S
    BY <1>1, <1>5, <1>9 DEF Room
  <2>2. bs[b] \in Seq(Nat) /\ Len(bs[b]) = S /\ \A j \in 1..S : bs[b][j] = disk[S * (b - 1) + j]
    BY <1>5 DEF Taken
  <2>3. Len(bs[b]) >= S
    BY <2>2, <1>2
  <2> QED
    BY <2>0, <2>1, <2>2, <2>3, <1>9, Zenon
<1>11. Shows(io, disk)
  <2>1. io.block \in Nat \ {0} /\ Ceil(Len(disk), io.block) = n
    BY <1>1, <1>2, <1>3, <1>9
  <2>2. io.size \in Nat /\ Len(disk) <= io.size
    BY <1>1, <1>2, <1>9
  <2> QED
    BY <2>1, <2>2, <1>10, Zenon DEF Shows
<1> QED
  BY <1>1, <1>8, <1>9, <1>11

-----------------------------------------------------------------------------
(***************************************************************************)
(* What is read of a disk: the superblock, the i-nodes, the files.         *)
(***************************************************************************)
\* Offsets on a disk below 4 GB are what they are.
LEMMA Fits == ASSUME OffsetRange \in Nat, NEW n \in Nat, n < OffsetRange PROVE U32(n) = n
  BY DEF U32

\* What is read where a piece is.
LEMMA PieceRead ==
  ASSUME NEW g, NEW t, NEW disk, HasPieces(g, t, disk), NEW io, Shows(io, disk),
         NEW q \in Pieces(g, t), Lies(g, t, q), NEW o \in Nat, NEW n \in Nat, o + n <= Len(q.cells)
  PROVE  Taken(q.cells, o, n, Thing(io, q.at + o, n))
<1>1. PICK begin, cells : begin = q.at /\ cells = q.cells
  OBVIOUS
<1>2. begin \in Nat /\ cells \in Seq(Nat) /\ begin + Len(cells) <= g.block * DiskSize(g, t)
  BY <1>1 DEF Lies
<1>3. /\ disk \in Seq(Nat) /\ Len(disk) = g.block * DiskSize(g, t)
      /\ \A j \in 1..Len(cells) : disk[begin + j] = cells[j]
  BY <1>1 DEF HasPieces
<1>4. PICK a, L, m : a = begin + o /\ L = Len(cells) /\ m = Len(disk)
  OBVIOUS
<1>5. a \in Nat /\ L \in Nat /\ m \in Nat /\ begin + L <= m /\ o + n <= L
  BY <1>1, <1>2, <1>3, <1>4
<1>6. a + n <= m
  BY <1>4, <1>5, <1>2
<1>7. Taken(disk, a, n, Thing(io, a, n))
  BY <1>4, <1>5, <1>6, ThingIs
<1>8. PICK got : got = Thing(io, a, n)
  OBVIOUS
<1>9. got \in Seq(Nat) /\ Len(got) = n /\ \A i \in 1..n : got[i] = disk[a + i]
  BY <1>7, <1>8 DEF Taken
<1>10. ASSUME NEW i \in 1..n PROVE got[i] = cells[o + i]
  <2>1. o + i \in 1..L /\ begin + (o + i) = a + i
    BY <1>2, <1>4, <1>5
  <2> QED
    BY <2>1, <1>3, <1>4, <1>9
<1> QED
  BY <1>1, <1>4, <1>8, <1>9, <1>10 DEF Taken

\* All of a piece.
LEMMA PieceIs ==
  ASSUME NEW g, NEW t, NEW disk, HasPieces(g, t, disk), NEW io, Shows(io, disk),
         NEW q \in Pieces(g, t), Lies(g, t, q), NEW n, n = Len(q.cells)
  PROVE  Thing(io, q.at, n) = q.cells
<1>1. q.cells \in Seq(Nat) /\ q.at \in Nat
  BY DEF Lies
<1>2. n \in Nat
  BY <1>1
<1>3. PICK z : z = 0
  OBVIOUS
<1>4. z \in Nat /\ z + n <= Len(q.cells) /\ q.at + z = q.at
  BY <1>1, <1>2, <1>3
<1>5. Taken(q.cells, z, n, Thing(io, q.at + z, n))
  BY <1>2, <1>4, PieceRead
<1>6. PICK got : got = Thing(io, q.at, n)
  OBVIOUS
<1>7. got \in Seq(Nat) /\ Len(got) = n /\ \A i \in 1..n : got[i] = q.cells[z + i]
  BY <1>4, <1>5, <1>6, Zenon DEF Taken
<1>8. \A i \in 1..Len(got) : got[i] = q.cells[i]
  BY <1>3, <1>7
<1>9. got = q.cells
  BY <1>1, <1>7, <1>8, SameSeq
<1> QED
  BY <1>6, <1>9

\* What Ext2::Ext2 finds out.
IsMounted(g, t, fs) ==
  /\ Shows(fs.ide, Disk(g, t)) /\ fs.ide.block = g.sector
  /\ fs.direct = g.direct /\ fs.iNodeSize = g.nodeSize /\ fs.iNodesPerGroup = g.perGroup
  /\ fs.blockSize = g.block
  /\ fs.numberOfNodes = Len(t) /\ fs.numberOfBlocks = DiskSize(g, t) /\ fs.nGroups = Groups(g, t)
  /\ \A k \in 0..(Groups(g, t) - 1) : fs.iNodeTables[k + 1] = TableBlock(g, t, k)
\* The disk is below 4 GB.
IsSmall(g, t) ==
  OffsetRange \in Nat /\ g.block * DiskSize(g, t) \in Nat /\ g.block * DiskSize(g, t) < OffsetRange
\* The disk of a tree is.
LEMMA TreeIsSmall ==
  ASSUME OffsetRange \in Nat, NEW g, NEW t, IsGeometry(g), IsTree(g, t)
  PROVE  IsSmall(g, t)
<1>1. Sizes(g, t) /\ DataBlocksFit(g, t)
  BY SizesAre, DataBlocksAre
<1>2. g.block \in Nat /\ DiskSize(g, t) \in Nat
  BY <1>1 DEF Sizes, DataBlocksFit
<1>3. DiskSize(g, t) * g.block < OffsetRange
  BY DEF IsTree
<1>4. DiskSize(g, t) * g.block = g.block * DiskSize(g, t) /\ g.block * DiskSize(g, t) \in Nat
  BY <1>2, Times
<1> QED
  BY <1>3, <1>4 DEF IsSmall

\* An offset in a piece is what it is.
LEMMA PieceFits ==
  ASSUME NEW g, NEW t, IsSmall(g, t), NEW q, Lies(g, t, q), NEW o \in Nat, o <= Len(q.cells)
  PROVE  U32(q.at + o) = q.at + o /\ U32(q.at) = q.at
<1>1. PICK m, a, l : m = g.block * DiskSize(g, t) /\ a = q.at /\ l = Len(q.cells)
  OBVIOUS
<1>2. a \in Nat /\ l \in Nat /\ a + l <= m /\ m \in Nat /\ m < OffsetRange /\ OffsetRange \in Nat /\ o <= l
  BY <1>1 DEF Lies, IsSmall
<1>3. a + o \in Nat /\ a + o < OffsetRange /\ a < OffsetRange
  BY <1>2
<1> QED
  BY <1>1, <1>2, <1>3, Fits

\* The file system is mounted as it was made.
LEMMA Mounted ==
  ASSUME OffsetRange \in Nat, NEW g, NEW t, IsGeometry(g), IsTree(g, t)
  PROVE  IsMounted(g, t, Mount(g, Disk(g, t)))
<1>1. Sizes(g, t) /\ DataBlocksFit(g, t) /\ IsSmall(g, t)
  BY SizesAre, DataBlocksAre, TreeIsSmall
<1>2. PICK disk, ide : disk = Disk(g, t) /\ ide = Ide(g, disk)
  OBVIOUS
<1>3. HasPieces(g, t, disk)
  BY <1>2, DiskIs
<1>4. Shows(ide, disk) /\ ide.block = g.sector
  <2>1. PICK B, S, D, m, L :
          B = g.block /\ S = g.sector /\ D = DiskSize(g, t) /\ m = B \div S /\ L = Len(disk)
    OBVIOUS
  <2>2. B \in Nat \ {0} /\ S \in Nat \ {0} /\ B % S = 0 /\ D \in Nat /\ disk \in Seq(Nat) /\ L = B * D
    BY <1>1, <1>3, <2>1 DEF IsGeometry, DataBlocksFit, HasPieces
  <2>3. m \in Nat /\ B = S * m
    <3>1. S * (B \div S) + (B % S) = B /\ B \div S \in Nat
      BY <2>2, Division
    <3>2. S * m \in Nat
      BY <2>1, <2>2, <3>1, Times
    <3> QED
      BY <2>1, <2>2, <3>1, <3>2
  <2>4. PICK n : n = m * D
    OBVIOUS
  <2>5. n \in Nat /\ L = S * n
    <3>1. n \in Nat
      BY <2>2, <2>3, <2>4, Times
    <3>2. (S * m) * D = S * (m * D)
      BY <2>2, <2>3
    <3> QED
      BY <3>1, <3>2, <2>2, <2>3, <2>4
  <2>6. n <= SectorNumbers
    <3>1. PICK M : M = SectorNumbers
      OBVIOUS
    <3>2. M \in Nat
      BY <3>1, SMT DEF SectorNumbers
    <3>3. L < OffsetRange /\ OffsetRange <= M * S
      BY <2>1, <2>2, <3>1, <1>1 DEF IsGeometry, IsSmall
    <3>4. L = S * n /\ M * S = S * M
      BY <2>2, <2>5, <3>2, Times
    <3>5. ~(M < n)
      <4> SUFFICES ASSUME M < n PROVE FALSE
        OBVIOUS
      <4>1. S * M + S <= S * n /\ S * M \in Nat /\ S * n \in Nat
        BY <2>2, <2>5, <3>2, Times
      <4>2. PICK a, c : a = S * M /\ c = S * n
        OBVIOUS
      <4>3. a + S <= c /\ a \in Nat /\ c \in Nat /\ c < OffsetRange /\ OffsetRange <= a /\ OffsetRange \in Nat
        BY <4>1, <4>2, <3>3, <3>4
      <4> QED
        BY <4>3, <2>2
    <3> QED
      BY <3>1, <3>2, <3>5, <2>5
  <2>7. L < OffsetRange
    BY <2>1, <2>2, <1>1 DEF IsSmall
  <2> QED
    BY <1>2, <2>1, <2>2, <2>5, <2>6, <2>7, IdeStores
<1>5. PICK sb : sb = Thing(ide, g.super, 6)
  OBVIOUS
<1>6. sb = <<Len(t), DiskSize(g, t), PerGroup(g, t), g.perGroup, g.block, g.nodeSize>>
  <2>1. PICK q, n : q = Superblock(g, t) /\ n = 6
    OBVIOUS
  <2>2. Lies(g, t, q) /\ Len(q.cells) = n
    BY <1>1, <2>1, SuperblockLies
  <2>3. q \in Pieces(g, t)
    BY <2>1 DEF Pieces
  <2>4. Thing(ide, q.at, n) = q.cells
    BY <2>2, <2>3, <1>3, <1>4, PieceIs
  <2>5. q.at = g.super /\ q.cells = <<Len(t), DiskSize(g, t), PerGroup(g, t), g.perGroup, g.block, g.nodeSize>>
    BY <2>1 DEF Superblock
  <2> QED
    BY <2>1, <2>4, <2>5, <1>5
<1>7. sb[1] = Len(t) /\ sb[2] = DiskSize(g, t) /\ sb[3] = PerGroup(g, t) /\ sb[4] = g.perGroup /\ sb[5] = g.block /\ sb[6] = g.nodeSize
  BY <1>6
<1>8. PICK G : G = Groups(g, t)
  OBVIOUS
<1>9. Ceil(sb[2], sb[3]) = G
  <2>1. PICK p, z, e : p = PerGroup(g, t) /\ z = p - 1 /\ e = DiskSize(g, t) + p - 1
    OBVIOUS
  <2>2. p \in Nat \ {0} /\ G \in Nat /\ DiskSize(g, t) = p * G /\ p * G \in Nat
    BY <1>1, <1>8, <2>1, Times DEF Sizes, DataBlocksFit
  <2>3. z \in Nat /\ z < p /\ e = p * G + z
    BY <2>1, <2>2
  <2>4. e \div p = G
    BY <2>2, <2>3, Quotient
  <2> QED
    BY <2>1, <2>4, <1>7 DEF Ceil
<1>10. PICK tables : tables = Thing(ide, U32(GroupTable(g) * g.block), G)
  OBVIOUS
<1>11. \A k \in 0..(G - 1) : tables[k + 1] = TableBlock(g, t, k)
  <2>1. PICK q : q = GroupsPiece(g, t)
    OBVIOUS
  <2>2. Lies(g, t, q) /\ Len(q.cells) = G
    BY <1>1, <1>8, <2>1, GroupsLie
  <2>3. q \in Pieces(g, t)
    BY <2>1 DEF Pieces
  <2>4. Thing(ide, q.at, G) = q.cells
    BY <2>2, <2>3, <1>3, <1>4, PieceIs
  <2>5. q.at = GroupTable(g) * g.block /\ q.cells = [k \in 1..G |-> TableBlock(g, t, k - 1)]
    BY <2>1, <1>8 DEF GroupsPiece
  <2>6. tables = [k \in 1..G |-> TableBlock(g, t, k - 1)]
    <3>1. PICK z : z = 0
      OBVIOUS
    <3>2. z \in Nat /\ z <= Len(q.cells)
      BY <3>1, <2>2, <1>1, <1>8 DEF Sizes
    <3>3. U32(q.at) = q.at
      BY <3>2, <2>2, <1>1, PieceFits
    <3> QED
      BY <3>3, <2>4, <2>5, <1>10
  <2>7. ASSUME NEW k \in 0..(G - 1) PROVE tables[k + 1] = TableBlock(g, t, k)
    <3>1. G \in Nat
      BY <1>1, <1>8 DEF Sizes
    <3>2. k + 1 \in 1..G /\ (k + 1) - 1 = k
      BY <3>1
    <3> QED
      BY <3>2, <2>6
  <2> QED
    BY <2>7
<1>12. PICK fs : fs = Mount(g, disk)
  OBVIOUS
<1>13. fs = [ide |-> ide, direct |-> g.direct, numberOfNodes |-> Len(t), numberOfBlocks |-> DiskSize(g, t),
             iNodesPerGroup |-> g.perGroup, blockSize |-> g.block, iNodeSize |-> g.nodeSize,
             nGroups |-> G, iNodeTables |-> tables]
  <2>1. fs = [ide |-> ide, direct |-> g.direct, numberOfNodes |-> sb[1], numberOfBlocks |-> sb[2],
              iNodesPerGroup |-> sb[4], blockSize |-> sb[5], iNodeSize |-> sb[6],
              nGroups |-> Ceil(sb[2], sb[3]),
              iNodeTables |-> Thing(ide, U32((g.super \div sb[5] + 1) * sb[5]), Ceil(sb[2], sb[3]))]
    BY <1>2, <1>5, <1>12, Zenon DEF Mount
  <2>2. g.super \div g.block + 1 = GroupTable(g)
    BY DEF GroupTable
  <2> QED
    BY <2>1, <2>2, <1>7, <1>9, <1>10, Zenon
<1>14. /\ fs.ide = ide /\ fs.direct = g.direct /\ fs.iNodeSize = g.nodeSize /\ fs.iNodesPerGroup = g.perGroup
       /\ fs.blockSize = g.block /\ fs.iNodeTables = tables
       /\ fs.numberOfNodes = Len(t) /\ fs.numberOfBlocks = DiskSize(g, t) /\ fs.nGroups = G
  BY <1>13
<1> QED
  BY <1>2, <1>4, <1>8, <1>11, <1>12, <1>14 DEF IsMounted

\* The pieces that a file is made of.
LEMMA FilePieces ==
  ASSUME NEW g, NEW t, IsGeometry(g), IsTree(g, t), NEW i \in 1..Len(t)
  PROVE  /\ NodePiece(g, t, i) \in Pieces(g, t)
         /\ Indirect(g, t, i) => IndirectPiece(g, t, i) \in Pieces(g, t)
         /\ \A b \in Allocated(g, t, i) : DataPiece(g, t, i, b) \in Pieces(g, t)
<1>1. i \in DOMAIN t
  BY Numbers
<1> DEFINE a == {Superblock(g, t), GroupsPiece(g, t)}
           b == {NodePiece(g, t, k) : k \in DOMAIN t}
           v == {IndirectPiece(g, t, k) : k \in {j \in DOMAIN t : Indirect(g, t, j)}}
           c == {{DataPiece(g, t, k, d) : d \in Allocated(g, t, k)} : k \in DOMAIN t}
<1>2. Pieces(g, t) = a \union b \union v \union (UNION c)
  BY DEF Pieces
<1>4. NodePiece(g, t, i) \in b /\ (Indirect(g, t, i) => IndirectPiece(g, t, i) \in v)
  BY <1>1
<1>5. PICK u : u = {DataPiece(g, t, i, d) : d \in Allocated(g, t, i)}
  OBVIOUS
<1>6. u \in c
  BY <1>1, <1>5
<1> HIDE DEF a, b, c, v
<1>7. b \subseteq Pieces(g, t) /\ v \subseteq Pieces(g, t) /\ u \subseteq Pieces(g, t)
  <2>1. u \subseteq UNION c
    BY <1>6
  <2> QED
    BY <2>1, <1>2
<1>9. \A d \in Allocated(g, t, i) : DataPiece(g, t, i, d) \in u
  BY <1>5
<1> QED
  BY <1>4, <1>7, <1>9

\* What Ext2::get_node reads.
LEMMA NodeRead ==
  ASSUME NEW g, NEW t, IsGeometry(g), IsTree(g, t), IsSmall(g, t), NEW fs, IsMounted(g, t, fs),
         NEW i \in 1..Len(t)
  PROVE  /\ Thing(fs.ide, U32(fs.iNodeTables[(i - 1) \div fs.iNodesPerGroup + 1] * fs.blockSize
                              + ((i - 1) % fs.iNodesPerGroup) * fs.iNodeSize), 4 + fs.direct)
              = NodePiece(g, t, i).cells
         /\ (i - 1) \div fs.iNodesPerGroup < fs.nGroups
         /\ fs.iNodeTables[(i - 1) \div fs.iNodesPerGroup + 1] \in 0..fs.numberOfBlocks
<1>1. Sizes(g, t) /\ DataBlocksFit(g, t)
  BY SizesAre, DataBlocksAre
<1>2. IsNode(g, t, i)
  BY NodesAre
<1>3. /\ Shows(fs.ide, Disk(g, t)) /\ fs.direct = g.direct /\ fs.iNodeSize = g.nodeSize
      /\ fs.iNodesPerGroup = g.perGroup /\ fs.blockSize = g.block
      /\ fs.nGroups = Groups(g, t) /\ fs.numberOfBlocks = DiskSize(g, t)
      /\ \A k \in 0..(Groups(g, t) - 1) : fs.iNodeTables[k + 1] = TableBlock(g, t, k)
  BY DEF IsMounted
<1>4. PICK k, P, G, n, e : k = (i - 1) \div P /\ P = g.perGroup /\ G = Groups(g, t) /\ n = Len(t) /\ e = i - 1
  <2>1. PICK P : P = g.perGroup
    OBVIOUS
  <2> QED
    BY <2>1
<1>5. P \in Nat \ {0} /\ G \in Nat \ {0} /\ n \in Nat \ {0} /\ n <= P * G
  BY <1>1, <1>4 DEF Sizes
<1>6. k \in 0..(G - 1)
  <2>1. e \in Nat /\ e < n
    BY <1>4, <1>5
  <2>2. PICK z : z = 0
    OBVIOUS
  <2>3. z \in Nat /\ P * z <= e /\ e < P * G
    <3>1. PICK m : m = P * G
      OBVIOUS
    <3>2. m \in Nat
      BY <3>1, <1>5, Times
    <3> QED
      BY <2>1, <2>2, <3>1, <3>2, <1>5
  <2>4. e \div P \in Nat /\ e \div P < G
    BY <2>1, <2>3, <1>5, Between
  <2> QED
    BY <2>4, <1>4, <1>5
<1>7. PICK q, w : q = NodePiece(g, t, i) /\ w = 4 + g.direct
  OBVIOUS
<1>8. fs.iNodeTables[(i - 1) \div fs.iNodesPerGroup + 1] = TableBlock(g, t, (i - 1) \div g.perGroup)
  BY <1>3, <1>4, <1>6
<1>9. q.at = TableBlock(g, t, (i - 1) \div g.perGroup) * g.block + ((i - 1) % g.perGroup) * g.nodeSize
  BY <1>7 DEF NodePiece
<1>10. Thing(fs.ide, q.at, w) = q.cells /\ U32(q.at) = q.at
  <2>1. q \in Pieces(g, t)
    BY <1>7, FilePieces
  <2>2. Lies(g, t, q)
    BY <1>1, <1>2, <1>7, NodesLie
  <2>3. w = Len(q.cells)
    <3>1. NodeCells(g, t, i, q.cells)
      BY <1>1, <1>2, <1>7, NodeCellsAre
    <3> QED
      BY <3>1, <1>7 DEF NodeCells
  <2>4. HasPieces(g, t, Disk(g, t))
    BY DiskIs
  <2>5. PICK z : z = 0
    OBVIOUS
  <2>6. z \in Nat /\ z <= Len(q.cells)
    <3>1. g.direct \in Nat
      BY <1>1 DEF Sizes
    <3>2. PICK d, l : d = g.direct /\ l = Len(q.cells)
      OBVIOUS
    <3>3. d \in Nat /\ l = 4 + d
      BY <3>1, <3>2, <2>3, <1>7
    <3> QED
      BY <3>2, <3>3, <2>5
  <2>7. U32(q.at) = q.at
    BY <2>2, <2>6, PieceFits
  <2> QED
    BY <2>1, <2>2, <2>3, <2>4, <2>7, <1>3, PieceIs
<1>11. TableBlock(g, t, k) \in 0..DiskSize(g, t)
  <2>1. PICK T, E, s : T = TableBlock(g, t, k) /\ E = TableBlock(g, t, G) /\ s = DiskSize(g, t)
    OBVIOUS
  <2>2. T \in Nat /\ T + TableBlocks(g) <= E /\ TableBlocks(g) \in Nat
    <3>1. k \in Nat /\ k < G
      BY <1>5, <1>6
    <3> QED
      BY <3>1, <2>1, <1>1, <1>4, TablesAre DEF Sizes
  <2>3. E \in Nat /\ E <= s /\ s \in Nat
    BY <2>1, <1>1, <1>4 DEF DataBlocksFit
  <2>4. T \in 0..s
    BY <2>2, <2>3
  <2> QED
    BY <2>1, <2>4
<1>12. (i - 1) \div fs.iNodesPerGroup = k
  BY <1>3, <1>4
<1>13. k < G
  BY <1>5, <1>6
<1> QED
  BY <1>3, <1>4, <1>7, <1>8, <1>9, <1>10, <1>11, <1>12, <1>13

\* Where Node::read_block finds a block.
LEMMA BlockFound ==
  ASSUME NEW g, NEW t, IsGeometry(g), IsTree(g, t), IsSmall(g, t), NEW fs, IsMounted(g, t, fs),
         NEW i \in 1..Len(t), NEW node, NodeCells(g, t, i, node), NEW b \in Allocated(g, t, i)
  PROVE  BlockIndex(fs, node, b) = DataBlock(g, t, i, b)
<1>1. Sizes(g, t) /\ DataBlocksFit(g, t)
  BY SizesAre, DataBlocksAre
<1>2. PICK D, B, Q : D = g.direct /\ B = g.block /\ Q = Blocks(g)
  OBVIOUS
<1>3. D \in Nat /\ B \in Nat \ {0} /\ Q = D + B /\ Q \in Nat
  <2>1. D \in Nat /\ B \in Nat \ {0}
    BY <1>1, <1>2 DEF Sizes
  <2> QED
    BY <2>1, <1>2 DEF Blocks
<1>4. fs.direct = D /\ fs.blockSize = B /\ Shows(fs.ide, Disk(g, t))
  BY <1>2 DEF IsMounted
<1>5. /\ \A k \in 1..D : node[3 + k] = Pointer(g, t, i, k - 1)
      /\ node[4 + D] = IndirectPointer(g, t, i)
  BY <1>2 DEF NodeCells
<1>6. b \in 0..(Q - 1) /\ Pointer(g, t, i, b) = DataBlock(g, t, i, b)
  BY <1>2 DEF Allocated, Used, Pointer
<1>7. CASE b < D
  <2>1. PICK k : k = b + 1
    OBVIOUS
  <2>2. k \in 1..D /\ k - 1 = b /\ 3 + k = 4 + b
    BY <2>1, <1>3, <1>6, <1>7
  <2>3. node[4 + b] = DataBlock(g, t, i, b)
    BY <2>2, <1>5, <1>6
  <2> QED
    BY <2>3, <1>4, <1>7 DEF BlockIndex
<1>8. CASE ~(b < D)
  <2>1. PICK q, o : q = IndirectPiece(g, t, i) /\ o = b - D
    OBVIOUS
  <2>2. o \in Nat /\ o + 1 <= B /\ o + 1 \in 1..B /\ D + (o + 1) - 1 = b
    BY <2>1, <1>3, <1>6, <1>8
  <2>3. Lies(g, t, q) /\ IndirectCells(g, t, i, q.cells)
    BY <1>1, <2>1, IndirectsLie
  <2>4. Len(q.cells) = B /\ \A k \in 1..B : q.cells[k] = Pointer(g, t, i, D + k - 1)
    BY <2>3, <1>2 DEF IndirectCells
  <2>5. q \in Pieces(g, t) /\ IndirectPointer(g, t, i) = DataBlock(g, t, i, Q)
    <3>1. Indirect(g, t, i)
      <4>1. b >= g.direct
        BY <1>2, <1>3, <1>6, <1>8
      <4> QED
        BY <4>1 DEF Indirect
    <3> QED
      BY <3>1, <2>1, <1>2, FilePieces DEF IndirectPointer
  <2>6. PICK n : n = 1
    OBVIOUS
  <2>7. Taken(q.cells, o, n, Thing(fs.ide, q.at + o, n))
    <3>1. HasPieces(g, t, Disk(g, t))
      BY DiskIs
    <3>2. n \in Nat /\ o + n <= Len(q.cells)
      BY <2>2, <2>4, <2>6
    <3> QED
      BY <3>1, <3>2, <2>2, <2>3, <2>5, <1>4, PieceRead
  <2>8. Cell(fs.ide, q.at + o) = q.cells[o + 1]
    <3>1. PICK got : got = Thing(fs.ide, q.at + o, n)
      OBVIOUS
    <3>2. \A j \in 1..n : got[j] = q.cells[o + j]
      BY <2>7, <3>1, Zenon DEF Taken
    <3>3. got[1] = q.cells[o + 1]
      BY <3>2, <2>6
    <3> QED
      BY <3>1, <3>3, <2>6 DEF Cell
  <2>9. q.at = DataBlock(g, t, i, Q) * B
    BY <2>1, <1>2 DEF IndirectPiece
  <2>10. q.cells[o + 1] = DataBlock(g, t, i, b)
    BY <2>2, <2>4, <1>6
  <2>11. BlockIndex(fs, node, b) = Cell(fs.ide, U32(node[4 + D] * B + (b - D)))
    <3>1. ~(b >= D + B)
      BY <1>3, <1>6
    <3> QED
      BY <3>1, <1>4, <1>8 DEF BlockIndex
  <2>12. U32(q.at + o) = q.at + o
    <3>1. o <= Len(q.cells)
      BY <2>2, <2>4, <1>3
    <3> QED
      BY <3>1, <2>2, <2>3, PieceFits
  <2> QED
    BY <2>1, <2>5, <2>8, <2>9, <2>10, <2>11, <2>12, <1>5
<1> QED
  BY <1>7, <1>8

\* get_node's ASSERTs hold.
LEMMA NodePasses ==
  ASSUME NEW g, NEW t, IsGeometry(g), IsTree(g, t), IsSmall(g, t), NEW fs, IsMounted(g, t, fs),
         NEW i \in 1..Len(t), NEW node, node = NodePiece(g, t, i).cells
  PROVE  /\ NodeCells(g, t, i, node)
         /\ GetNode(fs, i) =
              [type |-> node[1],
               io |-> BlockIO(node[2], fs.blockSize, [b \in 1..Ceil(node[2], fs.blockSize) |->
                        ReadBlock(fs, node, b - 1)])]
<1>1. Sizes(g, t) /\ DataBlocksFit(g, t) /\ IsNode(g, t, i)
  BY SizesAre, DataBlocksAre, NodesAre
<1>2. NodeCells(g, t, i, node)
  BY <1>1, NodeCellsAre
<1>3. node[1] # Panic
  <2>1. node[1] \in {4, 8}
    BY <1>1, <1>2 DEF NodeCells, IsNode, Dir, Regular
  <2> QED
    BY <2>1 DEF Panic
<1>4. i \in 1..fs.numberOfNodes
  BY DEF IsMounted
<1>5. PICK group, first, place, got :
        /\ group = (i - 1) \div fs.iNodesPerGroup
        /\ first = fs.iNodeTables[group + 1]
        /\ place = U32(first * fs.blockSize + ((i - 1) % fs.iNodesPerGroup) * fs.iNodeSize)
        /\ got = Thing(fs.ide, place, 4 + fs.direct)
  <2>1. PICK group : group = (i - 1) \div fs.iNodesPerGroup
    OBVIOUS
  <2>2. PICK first : first = fs.iNodeTables[group + 1]
    OBVIOUS
  <2>3. PICK place : place = U32(first * fs.blockSize + ((i - 1) % fs.iNodesPerGroup) * fs.iNodeSize)
    OBVIOUS
  <2> QED
    BY <2>1, <2>2, <2>3
<1>6. got = node /\ group < fs.nGroups /\ first \in 0..fs.numberOfBlocks
  BY <1>5, NodeRead
<1>7. GetNode(fs, i) =
        IF /\ i \in 1..fs.numberOfNodes /\ group < fs.nGroups
           /\ first \in 0..fs.numberOfBlocks /\ got[1] # Panic
        THEN [type |-> got[1],
              io |-> BlockIO(got[2], fs.blockSize, [b \in 1..Ceil(got[2], fs.blockSize) |->
                       ReadBlock(fs, got, b - 1)])]
        ELSE NoNode
  BY <1>5, Zenon DEF GetNode
<1> QED
  BY <1>2, <1>3, <1>4, <1>6, <1>7, Zenon

\* The number of a block of a file without holes is below the number of its blocks.
CountSuffices(g, t, i) ==
  LET k == g.block \div g.sector
      c == (BlockCount(g, t, i) * k) \div k
  IN \A b \in Used(g, t, i) : b < c
\* So that read_block does not panic for it.
LEMMA SectorsSuffice ==
  ASSUME NEW g, NEW t, Sizes(g, t), DataBlocksFit(g, t), NEW i \in 1..Len(t), IsNode(g, t, i),
         t[i].holes = {}
  PROVE  CountSuffices(g, t, i)
<1>1. PICK B, L, Q, U, k, c :
        /\ B = g.block /\ L = Len(t[i].data) /\ Q = Blocks(g) /\ U = Used(g, t, i)
        /\ k = g.block \div g.sector /\ c = BlockCount(g, t, i)
  OBVIOUS
<1>2. B \in Nat \ {0} /\ Q \in Nat /\ L \in Nat /\ c \in Nat /\ Cardinality(U) <= c
  <2>1. B \in Nat \ {0} /\ Q \in Nat
    BY <1>1 DEF Sizes, DataBlocksFit
  <2>2. L \in Nat
    BY <1>1 DEF IsNode
  <2>3. Allocated(g, t, i) = U
    BY <1>1 DEF Allocated
  <2>4. c \in Nat /\ Cardinality(U) <= c
    BY <2>3, <1>1, CountsFit DEF CountsAre
  <2> QED
    BY <2>1, <2>2, <2>4
<1>3. k \in Nat \ {0}
  <2>1. PICK S : S = g.sector
    OBVIOUS
  <2>2. S \in Nat \ {0} /\ B % S = 0 /\ k = B \div S
    BY <2>1, <1>1 DEF Sizes
  <2>3. S * k + (B % S) = B /\ k \in Nat
    BY <2>2, <1>2, Division
  <2>4. k # 0
    <3> SUFFICES ASSUME k = 0 PROVE FALSE
      OBVIOUS
    <3>1. S * k = 0
      BY <2>2
    <3> QED
      BY <3>1, <2>2, <2>3, <1>2
  <2> QED
    BY <2>3, <2>4
<1>4. (c * k) \div k = c
  <2>1. PICK z, e : z = 0 /\ e = c * k
    OBVIOUS
  <2>2. e = k * c + z /\ z \in Nat /\ z < k
    <3>1. k * c = c * k /\ k * c \in Nat
      BY <1>2, <1>3, Times
    <3> QED
      BY <2>1, <3>1, <1>3
  <2>3. e \div k = c
    BY <2>2, <1>2, <1>3, Quotient
  <2> QED
    BY <2>1, <2>3
<1>5. ASSUME NEW b \in U PROVE b < c
  <2>1. b \in Nat /\ b * B < L /\ b < Q
    BY <1>1, <1>2 DEF Used
  <2>2. 0..b \subseteq U
    <3>1. ASSUME NEW a \in 0..b PROVE a \in U
      <4>1. a \in Nat /\ a <= b /\ a \in 0..(Q - 1)
        BY <2>1, <1>2
      <4>2. B * a <= B * b /\ B * a = a * B /\ B * b = b * B /\ B * a \in Nat /\ B * b \in Nat
        BY <4>1, <2>1, <1>2, Times
      <4>3. a * B < L
        BY <4>2, <2>1, <1>2
      <4> QED
        BY <4>1, <4>3, <1>1 DEF Used
    <3> QED
      BY <3>1
  <2>3. PICK z : z = 0
    OBVIOUS
  <2>4. IsFiniteSet(z..b) /\ Cardinality(z..b) = b + 1
    <3>1. z \in Int /\ b \in Int /\ ~(z > b) /\ b - z + 1 = b + 1
      BY <2>1, <2>3
    <3> QED
      BY <3>1, FS_Interval
  <2>5. IsFiniteSet(U)
    <3>1. PICK e : e = Q - 1
      OBVIOUS
    <3>2. U \subseteq z..e /\ z \in Int /\ e \in Int
      BY <3>1, <2>3, <1>1, <1>2 DEF Used
    <3>3. IsFiniteSet(z..e)
      BY <3>2, FS_Interval
    <3> QED
      BY <3>2, <3>3, FS_Subset
  <2>6. Cardinality(z..b) <= Cardinality(U)
    BY <2>2, <2>3, <2>5, FS_Subset
  <2>7. Cardinality(U) \in Nat
    BY <2>5, FS_CardinalityType
  <2> QED
    BY <2>1, <2>4, <2>6, <2>7, <1>2
<1> QED
  BY <1>1, <1>4, <1>5, Zenon DEF CountSuffices

\* What get_node gives: a node of the type, and without holes one that has the data.
GotNode(t, i, node) ==
  /\ node.type = t[i].type
  /\ t[i].holes = {} => Stores(node.io, t[i].data) /\ node.io.size = Len(t[i].data)
\* The blocks of a file without holes hold its data.
LEMMA FileGot ==
  ASSUME NEW g, NEW t, IsGeometry(g), IsTree(g, t), IsSmall(g, t), NEW fs, IsMounted(g, t, fs),
         NEW i \in 1..Len(t), t[i].holes = {}
  PROVE  GotNode(t, i, GetNode(fs, i))
<1>1. Sizes(g, t) /\ DataBlocksFit(g, t) /\ IsNode(g, t, i)
  BY SizesAre, DataBlocksAre, NodesAre
<1>2. PICK data, L, B, Q, ide : data = t[i].data /\ L = Len(data) /\ B = g.block /\ Q = Blocks(g) /\ ide = fs.ide
  OBVIOUS
<1>3. data \in Seq(Nat) /\ L \in Nat /\ B \in Nat \ {0} /\ Q \in Nat /\ L <= Q * B
  <2>1. data \in Seq(Nat) /\ L <= Q * B
    BY <1>1, <1>2 DEF IsNode
  <2>2. L \in Nat
    BY <2>1, <1>2
  <2>3. B \in Nat \ {0}
    BY <1>1, <1>2 DEF Sizes
  <2>4. Q \in Nat
    BY <1>1, <1>2 DEF DataBlocksFit
  <2> QED
    BY <2>1, <2>2, <2>3, <2>4
<1>4. Shows(ide, Disk(g, t)) /\ fs.blockSize = B /\ HasPieces(g, t, Disk(g, t)) /\ ide.block = g.sector
  BY <1>2, DiskIs DEF IsMounted
<1>5. PICK node : node = NodePiece(g, t, i).cells
  OBVIOUS
<1>6. NodeCells(g, t, i, node)
  BY <1>1, <1>5, NodeCellsAre
<1>7. node[1] = t[i].type /\ node[2] = L /\ node[3] = BlockCount(g, t, i) * (g.block \div g.sector)
  BY <1>2, <1>6 DEF NodeCells
<1>8. PICK n, bs : n = Ceil(L, B) /\ bs = [b \in 1..n |-> ReadBlock(fs, node, b - 1)]
  OBVIOUS
<1>9. n \in Nat /\ \A b \in 1..n : b - 1 \in 0..(Q - 1) /\ (b - 1) * B < L /\ (b - 1) * B \in Nat
  <2>1. n \in Nat /\ B * n < L + B
    <3>1. n = Ceil(L, B) /\ B > 0
      BY <1>3, <1>8, SMT
    <3>2. Ceil(L, B) \in Nat /\ B * Ceil(L, B) < L + B
      BY <3>1, <1>3, CeilIs
    <3> QED
      BY <3>1, <3>2
  <2>2. ASSUME NEW b \in 1..n PROVE b - 1 \in 0..(Q - 1) /\ (b - 1) * B < L /\ (b - 1) * B \in Nat
    <3>1. PICK a : a = b - 1
      OBVIOUS
    <3>2. a \in Nat /\ a < n
      BY <2>1, <3>1
    <3>3. B * a + B <= B * n /\ B * a \in Nat /\ B * n \in Nat /\ a * B = B * a
      BY <2>1, <3>2, <1>3, Times
    <3>4. B * a < L
      BY <2>1, <3>3, <1>3
    <3>5. a < Q
      <4> SUFFICES ASSUME Q <= a PROVE FALSE
        BY <1>3, <3>2
      <4>1. B * Q <= B * a /\ B * Q = Q * B /\ B * Q \in Nat
        BY <3>2, <1>3, Times
      <4> QED
        BY <4>1, <3>3, <3>4, <1>3
    <3> QED
      BY <3>1, <3>2, <3>3, <3>4, <3>5, <1>3
  <2> QED
    BY <2>1, <2>2
<1>10. ASSUME NEW b \in 1..n
       PROVE  /\ bs[b] \in Seq(Nat) /\ Len(bs[b]) >= Least(B, L - B * (b - 1))
              /\ \A j \in 1..Least(B, L - B * (b - 1)) : bs[b][j] = data[B * (b - 1) + j]
  <2>1. PICK a, o, x, m : a = b - 1 /\ o = a * B /\ x = DataBlock(g, t, i, a) /\ m = Least(B, L - o)
    OBVIOUS
  <2>2. a \in 0..(Q - 1) /\ o < L /\ o \in Nat /\ B * (b - 1) = o
    <3>1. a \in 0..(Q - 1) /\ o < L /\ o \in Nat
      BY <2>1, <1>9
    <3>2. a \in Nat
      BY <3>1
    <3>3. a * B = B * a
      BY <3>2, <1>3, Times
    <3> QED
      BY <2>1, <3>1, <3>3
  <2>3. a \in Used(g, t, i) /\ a \in Allocated(g, t, i)
    BY <2>1, <2>2, <1>2 DEF Used, Allocated
  <2>4. x \in Nat /\ x + 1 <= DiskSize(g, t) /\ DiskSize(g, t) \in Nat
    <3>1. a \in 0..Q
      BY <2>2, <1>3
    <3> QED
      BY <2>1, <3>1, <1>1, <1>2 DEF DataBlocksFit
  <2>5. PICK disk : disk = Disk(g, t)
    OBVIOUS
  <2>6. Taken(disk, x * B, B, bs[b])
    <3>1. x * B \in Nat /\ x * B + B <= B * DiskSize(g, t)
      <4>1. x < DiskSize(g, t)
        BY <2>4
      <4>2. B * x + B <= B * DiskSize(g, t) /\ B * x = x * B /\ B * x \in Nat
        BY <4>1, <2>4, <1>3, Times
      <4> QED
        BY <4>2
    <3>2. Len(disk) = B * DiskSize(g, t)
      BY <2>5, <1>2, <1>4 DEF HasPieces
    <3>3. x * B + B <= Len(disk)
      BY <3>1, <3>2
    <3>4. Taken(disk, x * B, B, ReadAll(ide, x * B, B)) /\ Got(ReadAll(ide, x * B, B), B)
      BY <2>5, <3>1, <3>3, <1>3, <1>4, ReadAllHas, ThingIs
    <3>5. U32(x * B) = x * B
      <4>1. PICK e, w : e = x * B /\ w = B * DiskSize(g, t)
        OBVIOUS
      <4>2. e \in Nat /\ w \in Nat /\ e + B <= w /\ w < OffsetRange /\ OffsetRange \in Nat
        BY <4>1, <3>1, <1>2 DEF IsSmall
      <4>3. e < OffsetRange
        BY <4>2, <1>3
      <4> QED
        BY <4>1, <4>2, <4>3, Fits
    <3>6. BlockIndex(fs, node, a) = x
      BY <2>1, <2>3, <1>6, BlockFound
    <3>7. x # Panic
      BY <2>4 DEF Panic
    <3>8. a < node[3] \div (fs.blockSize \div fs.ide.block)
      <4>1. CountSuffices(g, t, i)
        BY <1>1, SectorsSuffice
      <4>2. a < (BlockCount(g, t, i) * (g.block \div g.sector)) \div (g.block \div g.sector)
        BY <4>1, <2>3, Zenon DEF CountSuffices
      <4> QED
        BY <4>2, <1>2, <1>4, <1>7
    <3>9. ReadBlock(fs, node, a) = ReadAll(ide, x * B, B)
      BY <3>4, <3>5, <3>6, <3>7, <3>8, <1>2, <1>4, Zenon DEF ReadBlock
    <3> QED
      BY <3>4, <3>9, <2>1, <1>8
  <2>7. bs[b] \in Seq(Nat) /\ Len(bs[b]) = B /\ \A j \in 1..B : bs[b][j] = disk[x * B + j]
    BY <2>6 DEF Taken
  <2>8. PICK q : q = DataPiece(g, t, i, a)
    OBVIOUS
  <2>10. q \in Pieces(g, t) /\ DataCells(g, t, i, a, q.cells) /\ q.at = x * B
    <3>1. q \in Pieces(g, t)
      BY <2>3, <2>8, FilePieces
    <3>2. DataCells(g, t, i, a, q.cells)
      BY <2>3, <2>8, <1>1, DataLie
    <3>3. q.at = x * B
      BY <2>1, <2>8, <1>2 DEF DataPiece
    <3> QED
      BY <3>1, <3>2, <3>3
  <2>11. m \in Nat /\ Taken(data, o, m, q.cells)
    BY <2>1, <2>10, <1>2, Zenon DEF DataCells
  <2>12. Len(q.cells) = m /\ \A j \in 1..m : q.cells[j] = data[o + j]
    BY <2>11, Zenon DEF Taken
  <2>13. \A j \in 1..m : disk[x * B + j] = q.cells[j]
    BY <2>5, <2>10, <2>12, <1>4, Zenon DEF HasPieces
  <2>14. m <= B
    BY <2>1, <2>2, <1>3 DEF Least
  <2>15. \A j \in 1..m : bs[b][j] = data[o + j]
    <3>1. \A j \in 1..m : j \in 1..B
      BY <2>11, <2>14, <1>3
    <3> QED
      BY <3>1, <2>7, <2>12, <2>13
  <2>16. Len(bs[b]) >= m
    BY <2>7, <2>11, <2>14, <1>3
  <2> QED
    BY <2>1, <2>2, <2>7, <2>15, <2>16
<1>11. bs \in Seq(Seq(Nat)) /\ Len(bs) = n
  <2>1. bs = [b \in 1..n |-> bs[b]]
    BY <1>8
  <2>2. bs \in [1..n -> Seq(Nat)]
    BY <2>1, <1>10
  <2> QED
    BY <2>2, <1>9, IsASeq
<1>12. SubSeq(bs, 1, Len(bs)) = bs
  BY <1>9, <1>11
<1>13. PICK got : got = GetNode(fs, i)
  OBVIOUS
<1>14. got = [type |-> node[1], io |-> BlockIO(L, B, bs)]
  <2>2. got = [type |-> node[1],
               io |-> BlockIO(node[2], fs.blockSize, [b \in 1..Ceil(node[2], fs.blockSize) |->
                        ReadBlock(fs, node, b - 1)])]
    BY <1>5, <1>13, NodePasses
  <2> QED
    BY <2>2, <1>2, <1>4, <1>7, <1>8
<1>15. PICK io : io = got.io
  OBVIOUS
<1>16. got.type = t[i].type /\ io.size = L /\ io.block = B /\ io.blocks = bs
  <2>1. BlockIO(L, B, bs) = [size |-> L, block |-> B, blocks |-> bs]
    BY <1>12, Zenon DEF BlockIO, Whole
  <2>2. io = BlockIO(L, B, bs) /\ got.type = node[1]
    BY <1>14, <1>15
  <2> QED
    BY <2>1, <2>2, <1>7
<1>17. Stores(io, data)
  <2>1. ASSUME NEW b \in 1..n
        PROVE  /\ b \in DOMAIN io.blocks
               /\ io.blocks[b] \in Seq(Nat) /\ Len(io.blocks[b]) >= Room(io, data, b)
               /\ \A j \in 1..Room(io, data, b) : io.blocks[b][j] = data[io.block * (b - 1) + j]
    <3>1. Room(io, data, b) = Least(B, L - B * (b - 1))
      BY <1>2, <1>16 DEF Room
    <3>2. b \in DOMAIN io.blocks
      BY <1>8, <1>16
    <3> QED
      BY <3>1, <3>2, <1>10, <1>16, Zenon
  <2>2. io.block \in Nat \ {0} /\ Ceil(Len(data), io.block) = n /\ io.size = Len(data)
    BY <1>2, <1>3, <1>8, <1>16
  <2>3. io.size \in Nat /\ Len(data) <= io.size
    BY <2>2, <1>2, <1>3
  <2> QED
    BY <2>1, <2>2, <2>3, <1>3, Zenon DEF Stores, Shows
<1> QED
  BY <1>2, <1>13, <1>15, <1>16, <1>17 DEF GotNode

\* Every i-number has its node.
LEMMA NodeGot ==
  ASSUME NEW g, NEW t, IsGeometry(g), IsTree(g, t), IsSmall(g, t), NEW fs, IsMounted(g, t, fs),
         NEW i \in 1..Len(t)
  PROVE  GotNode(t, i, GetNode(fs, i))
<1>1. CASE t[i].holes = {}
  BY <1>1, FileGot
<1>2. CASE t[i].holes # {}
  <2>1. PICK node : node = NodePiece(g, t, i).cells
    OBVIOUS
  <2>2. PICK got : got = GetNode(fs, i)
    OBVIOUS
  <2>3. PICK io : io = BlockIO(node[2], fs.blockSize, [b \in 1..Ceil(node[2], fs.blockSize) |->
                                 ReadBlock(fs, node, b - 1)])
    OBVIOUS
  <2>4. NodeCells(g, t, i, node) /\ got = [type |-> node[1], io |-> io]
    BY <2>1, <2>2, <2>3, NodePasses
  <2>5. got.type = node[1]
    BY <2>4
  <2>6. got.type = t[i].type
    BY <2>4, <2>5 DEF NodeCells
  <2> QED
    BY <2>2, <2>6, <1>2 DEF GotNode
<1> QED
  BY <1>1, <1>2

\* What is read from a file without holes is what it holds.
LEMMA FilesReadBack ==
  ASSUME NEW g, NEW t, IsGeometry(g), IsTree(g, t), IsSmall(g, t), NEW fs, IsMounted(g, t, fs),
         NEW i \in 1..Len(t), t[i].holes = {}
  PROVE  ReadsBack(fs, t, i)
<1>1. PICK data, io : data = t[i].data /\ io = GetNode(fs, i).io
  OBVIOUS
<1>2. Stores(io, data)
  BY <1>1, NodeGot DEF GotNode
<1>3. Len(data) \in Nat
  BY <1>2 DEF Stores, Shows
<1>4. ASSUME NEW offset \in 0..(Len(data) + 1), NEW n \in {1, 2, 7, Len(data), Len(data) + 1} \ {0}
      PROVE  ReadAll(io, offset, n) =
               IF offset > Len(data) THEN Error
               ELSE SubSeq(data, offset + 1, Least(offset + n, Len(data)))
  <2>1. offset \in Nat /\ n \in Nat \ {0}
    BY <1>3
  <2> QED
    BY <2>1, <1>2, ReadAllIs
<1> QED
  BY <1>1, <1>4, Zenon DEF ReadsBack

-----------------------------------------------------------------------------
(***************************************************************************)
(* Directories.                                                            *)
(***************************************************************************)
\* The cells of an entry.
EntrySeq(e) == <<e.inode, 3 + Len(e.name) + e.pad, Len(e.name)>> \o e.name \o [j \in 1..e.pad |-> 9]
EntryCells(e, cells) ==
  /\ cells \in Seq(Nat) /\ Len(cells) = 3 + Len(e.name) + e.pad
  /\ cells[1] = e.inode /\ cells[2] = Len(cells) /\ cells[3] = Len(e.name)
  /\ \A j \in 1..Len(e.name) : cells[3 + j] = e.name[j]
\* The name is behind the three fields.
LEMMA EntryCellsAre ==
  ASSUME NEW e \in TreeEntries
  PROVE  EntryCells(e, EntrySeq(e))
<1>1. PICK name, pad, L : name = e.name /\ pad = e.pad /\ L = Len(name)
  OBVIOUS
<1>2. e.inode \in Nat /\ name \in Seq(Nat) /\ pad \in Nat /\ L \in Nat
  BY <1>1 DEF TreeEntries
<1>3. PICK h, p : h = <<e.inode, 3 + L + pad, L>> /\ p = [j \in 1..pad |-> 9]
  OBVIOUS
<1>4. h \in Seq(Nat) /\ Len(h) = 3 /\ h[1] = e.inode /\ h[2] = 3 + L + pad /\ h[3] = L
  BY <1>2, <1>3
<1>5. p \in Seq(Nat) /\ Len(p) = pad
  <2>1. p \in [1..pad -> Nat]
    BY <1>3
  <2> QED
    BY <2>1, <1>2, IsASeq
<1>6. PICK u : u = h \o name
  OBVIOUS
<1>7. IsBehind(Nat, h, name, u)
  BY <1>2, <1>4, <1>6, Behind
<1>8. /\ u \in Seq(Nat) /\ Len(u) = 3 + L /\ (\A j \in 1..3 : u[j] = h[j])
      /\ \A j \in 1..L : u[3 + j] = name[j]
  BY <1>1, <1>4, <1>7 DEF IsBehind
<1>9. PICK w : w = u \o p
  OBVIOUS
<1>10. IsBehind(Nat, u, p, w)
  BY <1>5, <1>8, <1>9, Behind
<1>11. w \in Seq(Nat) /\ Len(w) = 3 + L + pad /\ \A j \in 1..(3 + L) : w[j] = u[j]
  BY <1>5, <1>8, <1>10 DEF IsBehind
<1>12. w[1] = e.inode /\ w[2] = 3 + L + pad /\ w[3] = L
  <2>1. \A j \in 1..3 : j \in 1..(3 + L)
    BY <1>2
  <2>2. \A j \in 1..3 : w[j] = h[j]
    BY <2>1, <1>8, <1>11
  <2> QED
    BY <2>2, <1>4
<1>13. \A j \in 1..L : w[3 + j] = name[j]
  <2>1. \A j \in 1..L : 3 + j \in 1..(3 + L)
    BY <1>2
  <2> QED
    BY <2>1, <1>8, <1>11
<1>14. EntrySeq(e) = w
  BY <1>1, <1>3, <1>6, <1>9, Zenon DEF EntrySeq
<1> QED
  BY <1>1, <1>11, <1>12, <1>13, <1>14 DEF EntryCells

\* The data of a directory: the k-th entry ends after off[k] cells.
EntryLies(e, data, from, to) ==
  /\ from + 3 <= to /\ to <= Len(data) /\ Len(e.name) \in Nat /\ from + 3 + Len(e.name) <= to
  /\ data[from + 1] = e.inode /\ data[from + 2] = to - from /\ data[from + 3] = Len(e.name)
  /\ \A j \in 1..Len(e.name) : data[from + 3 + j] = e.name[j]
IsDir(entries, data, off) ==
  /\ data \in Seq(Nat) /\ off \in [0..Len(entries) -> Nat] /\ off[0] = 0 /\ off[Len(entries)] = Len(data)
  /\ \A k \in 1..Len(entries) : EntryLies(entries[k], data, off[k - 1], off[k])
\* The entries follow each other.
LEMMA DirLies ==
  ASSUME NEW entries \in Seq(TreeEntries), NEW data, data = DirOf(entries).data
  PROVE  \E off : IsDir(entries, data, off)
<1>1. PICK m, s : m = Len(entries) /\ s = [i \in DOMAIN entries |-> EntrySeq(entries[i])]
  OBVIOUS
<1>2. m \in Nat /\ DOMAIN entries = 1..m /\ \A k \in 1..m : entries[k] \in TreeEntries
  BY <1>1
<1>3. ASSUME NEW k \in 1..m PROVE EntryCells(entries[k], s[k])
  BY <1>1, <1>2, EntryCellsAre
<1>4. s \in Seq(Seq(Nat)) /\ Len(s) = m
  <2>1. PICK S : S = Seq(Nat)
    OBVIOUS
  <2>2. \A k \in 1..m : s[k] \in S
    BY <2>1, <1>3 DEF EntryCells
  <2>3. s = [i \in 1..m |-> s[i]]
    BY <1>1, <1>2
  <2>4. s \in [1..m -> S]
    BY <2>2, <2>3
  <2>5. s \in Seq(S) /\ Len(s) = m
    BY <2>4, <1>2, IsASeq
  <2> QED
    BY <2>1, <2>5
<1>5. data = FlattenSeq(s)
  BY <1>1, Zenon DEF DirOf, EntrySeq
<1>6. PICK off : IsCut(s, m, data, off)
  BY <1>4, <1>5, Flattened
<1>7. /\ data \in Seq(Nat) /\ off \in [0..m -> Nat] /\ off[0] = 0 /\ Len(data) = off[m]
      /\ \A k \in 1..m : off[k] = off[k - 1] + Len(s[k]) /\ off[k] <= off[m]
      /\ \A k \in 1..m : \A j \in 1..Len(s[k]) : data[off[k - 1] + j] = s[k][j]
  BY <1>6, Zenon DEF IsCut
<1>8. ASSUME NEW k \in 1..m PROVE EntryLies(entries[k], data, off[k - 1], off[k])
  <2>1. PICK e, c, from, to, L : e = entries[k] /\ c = s[k] /\ from = off[k - 1] /\ to = off[k] /\ L = Len(e.name)
    OBVIOUS
  <2>2. from \in Nat /\ to \in Nat
    <3>1. k \in 0..m /\ k - 1 \in 0..m
      BY <1>2
    <3> QED
      BY <3>1, <2>1, <1>7
  <2>3. e.pad \in Nat /\ L \in Nat
    <3>1. e \in TreeEntries
      BY <2>1, <1>2
    <3>2. e.name \in Seq(Nat) /\ e.pad \in Nat
      BY <3>1 DEF TreeEntries
    <3> QED
      BY <3>2, <2>1
  <2>4. /\ Len(c) = 3 + L + e.pad /\ c[1] = e.inode /\ c[2] = Len(c) /\ c[3] = L
        /\ \A j \in 1..L : c[3 + j] = e.name[j]
    BY <2>1, <1>3 DEF EntryCells
  <2>5. to = from + Len(c) /\ to <= Len(data) /\ \A j \in 1..Len(c) : data[from + j] = c[j]
    BY <2>1, <1>7
  <2>6. from + 3 <= to /\ from + 3 + L <= to /\ Len(c) = to - from
    <3>1. PICK pad, w : pad = e.pad /\ w = Len(c)
      OBVIOUS
    <3>2. pad \in Nat /\ L \in Nat /\ from \in Nat /\ w = 3 + L + pad /\ to = from + w
      BY <3>1, <2>2, <2>3, <2>4, <2>5
    <3>3. from + 3 <= to /\ from + 3 + L <= to /\ w = to - from
      BY <3>2
    <3> QED
      BY <3>1, <3>3
  <2>7. data[from + 1] = e.inode /\ data[from + 2] = to - from /\ data[from + 3] = L
    <3>1. \A j \in 1..3 : j \in 1..Len(c)
      <4>1. PICK pad, w : pad = e.pad /\ w = Len(c)
        OBVIOUS
      <4>2. pad \in Nat /\ w = 3 + L + pad
        BY <4>1, <2>3, <2>4
      <4>3. \A j \in 1..3 : j \in 1..w
        BY <4>2, <2>3
      <4> QED
        BY <4>1, <4>3
    <3>2. \A j \in 1..3 : data[from + j] = c[j]
      BY <3>1, <2>5
    <3>3. data[from + 1] = c[1] /\ data[from + 2] = c[2] /\ data[from + 3] = c[3]
      BY <3>2
    <3> QED
      BY <3>3, <2>4, <2>6
  <2>8. ASSUME NEW j \in 1..L PROVE data[from + 3 + j] = e.name[j]
    <3>1. 3 + j \in 1..Len(c) /\ from + (3 + j) = from + 3 + j
      <4>1. PICK pad, w : pad = e.pad /\ w = Len(c)
        OBVIOUS
      <4>2. pad \in Nat /\ w = 3 + L + pad
        BY <4>1, <2>3, <2>4
      <4>3. 3 + j \in 1..w /\ from + (3 + j) = from + 3 + j
        BY <4>2, <2>2, <2>3
      <4> QED
        BY <4>1, <4>3
    <3>2. data[from + (3 + j)] = c[3 + j]
      BY <3>1, <2>5
    <3> QED
      BY <3>1, <3>2, <2>4
  <2> QED
    BY <2>1, <2>3, <2>5, <2>6, <2>7, <2>8 DEF EntryLies
<1>9. IsDir(entries, data, off)
  BY <1>1, <1>7, <1>8 DEF IsDir
<1> QED
  BY <1>9

\* All cells, and their places fit into 32 bits.
Keeps(io, data) == Stores(io, data) /\ OffsetRange \in Nat /\ Len(data) < OffsetRange
\* What is read of an entry.
IsEntry(got, e, to) == got.inode = e.inode /\ got.name = e.name /\ got.next = to
\* An entry is read as it was written.
LEMMA EntryRead ==
  ASSUME NEW io, NEW data, Keeps(io, data), NEW e \in TreeEntries, NEW from \in Nat, NEW to \in Nat,
         EntryLies(e, data, from, to)
  PROVE  IsEntry(Entry(io, from), e, to)
<1>0. Shows(io, data)
  BY DEF Keeps, Stores
<1>1. PICK L, name : name = e.name /\ L = Len(name)
  OBVIOUS
<1>2. name \in Seq(Nat) /\ L \in Nat /\ data \in Seq(Nat) /\ Len(data) \in Nat
  <2>1. data \in Seq(Nat) /\ name \in Seq(Nat)
    BY <1>0, <1>1 DEF Shows, TreeEntries
  <2> QED
    BY <2>1, <1>1
<1>3. /\ from + 3 <= Len(data) /\ from + 3 + L <= Len(data)
      /\ data[from + 1] = e.inode /\ data[from + 2] = to - from /\ data[from + 3] = L
      /\ \A j \in 1..L : data[from + 3 + j] = name[j]
  <2>1. /\ from + 3 <= to /\ to <= Len(data) /\ from + 3 + L <= to
        /\ data[from + 1] = e.inode /\ data[from + 2] = to - from /\ data[from + 3] = L
        /\ \A j \in 1..L : data[from + 3 + j] = name[j]
    BY <1>1, Zenon DEF EntryLies
  <2>2. PICK w : w = Len(data)
    OBVIOUS
  <2>3. w \in Nat /\ from + 3 <= to /\ to <= w /\ from + 3 + L <= to
    BY <2>1, <2>2, <1>2
  <2>4. from + 3 <= w /\ from + 3 + L <= w
    BY <2>3, <1>2
  <2> QED
    BY <2>1, <2>2, <2>4
<1>4. Cell(io, from) = e.inode
  <2>1. from + 1 <= Len(data)
    BY <1>2, <1>3
  <2> QED
    BY <2>1, <1>0, <1>3, CellIs
<1>5. Cell(io, from + 1) = to - from
  <2>1. PICK o : o = from + 1
    OBVIOUS
  <2>2. o \in Nat /\ o + 1 <= Len(data) /\ o + 1 = from + 2
    BY <2>1, <1>2, <1>3
  <2>3. Cell(io, o) = data[o + 1]
    BY <2>2, <1>0, CellIs
  <2> QED
    BY <2>1, <2>2, <2>3, <1>3
<1>6. Cell(io, from + 2) = L
  <2>1. PICK o : o = from + 2
    OBVIOUS
  <2>2. o \in Nat /\ o + 1 <= Len(data) /\ o + 1 = from + 3
    BY <2>1, <1>2, <1>3
  <2>3. Cell(io, o) = data[o + 1]
    BY <2>2, <1>0, CellIs
  <2> QED
    BY <2>1, <2>2, <2>3, <1>3
<1>7. ReadAll(io, from + 3, L) = name /\ Got(name, L)
  <2>1. PICK o, got : o = from + 3 /\ got = ReadAll(io, o, L)
    OBVIOUS
  <2>2. o \in Nat /\ o + L <= Len(data)
    BY <2>1, <1>2, <1>3
  <2>3. Taken(data, o, L, got) /\ Got(got, L)
    BY <2>1, <2>2, <1>0, <1>2, ReadAllHas, ThingIs
  <2>4. got \in Seq(Nat) /\ Len(got) = L /\ \A j \in 1..L : got[j] = data[o + j]
    BY <2>3, Zenon DEF Taken
  <2>5. \A j \in 1..Len(got) : got[j] = name[j]
    BY <2>1, <2>4, <1>3
  <2>6. got = name
    BY <2>4, <2>5, <1>1, <1>2, SameSeq
  <2> QED
    BY <2>1, <2>3, <2>6
<1>8. U32(from + (to - from)) = to
  <2>1. from + (to - from) = to
    OBVIOUS
  <2>2. to <= Len(data) /\ Len(data) < OffsetRange /\ OffsetRange \in Nat
    BY DEF EntryLies, Keeps
  <2>3. to < OffsetRange
    BY <2>2, <1>2
  <2> QED
    BY <2>1, <2>2, <2>3, Fits
<1>9. PICK got, inode, total, length : got = Entry(io, from) /\ inode = Cell(io, from)
                                       /\ total = Cell(io, from + 1) /\ length = Cell(io, from + 2)
  OBVIOUS
<1>10. inode = e.inode /\ total = to - from /\ length = L
  BY <1>4, <1>5, <1>6, <1>9
<1>11. inode # Panic /\ total # Panic /\ length # Panic
  <2>1. e.inode \in Nat /\ from + 3 <= to
    BY DEF TreeEntries, EntryLies
  <2>2. inode \in Nat /\ total \in Nat /\ length \in Nat
    BY <2>1, <1>2, <1>10
  <2> QED
    BY <2>2 DEF Panic
<1>12. got = [inode |-> inode, name |-> name, next |-> U32(from + total)]
  <2>1. ReadAll(io, from + 3, length) = name /\ Got(name, length)
    BY <1>7, <1>10
  <2> QED
    BY <2>1, <1>9, <1>11, Zenon DEF Entry
<1> QED
  BY <1>1, <1>8, <1>10, <1>12, <1>9 DEF IsEntry

\* Where the entries of a directory are.
AreOffsets(m, size, off) ==
  /\ off \in [0..m -> Nat] /\ off[0] = 0 /\ off[m] = size /\ m <= size
  /\ \A k \in 0..m : k < m => off[k] < size /\ k + 1 \in 1..m
\* No entry is empty, so there are no more of them than cells.
LEMMA OffsetsAre ==
  ASSUME NEW entries, NEW m \in Nat, m = Len(entries), NEW data, NEW off, IsDir(entries, data, off)
  PROVE  AreOffsets(m, Len(data), off)
<1>1. PICK L : L = Len(data)
  OBVIOUS
<1>2. /\ data \in Seq(Nat) /\ off \in [0..m -> Nat] /\ off[0] = 0 /\ off[m] = L
      /\ \A k \in 1..m : EntryLies(entries[k], data, off[k - 1], off[k])
  BY <1>1, Zenon DEF IsDir
<1>3. ASSUME NEW k \in 1..m PROVE off[k - 1] \in Nat /\ off[k] \in Nat /\ off[k - 1] + 3 <= off[k] /\ off[k] <= L
  <2>1. k - 1 \in 0..m /\ k \in 0..m
    OBVIOUS
  <2>2. off[k - 1] + 3 <= off[k] /\ off[k] <= L
    <3>1. EntryLies(entries[k], data, off[k - 1], off[k])
      BY <1>2
    <3> QED
      BY <3>1, <1>1 DEF EntryLies
  <2> QED
    BY <2>1, <2>2, <1>2
<1>4. m <= L
  <2>1. PICK S : S = {k \in 0..m : k <= off[k]}
    OBVIOUS
  <2>2. 0 \in S
    BY <2>1, <1>2
  <2>3. ASSUME NEW k \in 0..m, k > 0, k - 1 \in S PROVE k \in S
    <3>1. k \in 1..m
      BY <2>3
    <3>2. k - 1 <= off[k - 1] /\ off[k - 1] \in Nat /\ off[k] \in Nat /\ off[k - 1] + 3 <= off[k]
      BY <2>1, <2>3, <3>1, <1>3
    <3>3. k <= off[k]
      BY <3>1, <3>2
    <3> QED
      BY <3>3, <2>1
  <2>4. \A k \in 0..m : k \in S
    BY <2>2, <2>3, SetInduction
  <2>5. m \in S
    BY <2>4
  <2> QED
    BY <2>1, <2>5, <1>2
<1>5. ASSUME NEW k \in 0..m, k < m PROVE off[k] < L /\ k + 1 \in 1..m
  <2>1. PICK n : n = k + 1
    OBVIOUS
  <2>2. n \in 1..m /\ n - 1 = k
    BY <1>5, <2>1
  <2>3. off[k] \in Nat /\ off[n] \in Nat /\ off[k] + 3 <= off[n] /\ off[n] <= L
    BY <2>2, <1>3
  <2>4. L \in Nat
    BY <1>1, <1>2
  <2> QED
    BY <2>1, <2>2, <2>3, <2>4
<1> QED
  BY <1>1, <1>2, <1>4, <1>5 DEF AreOffsets

\* After k entries, or at the end.
LEMMA EntriesFollow ==
  ASSUME NEW io, NEW data, Keeps(io, data), NEW entries \in Seq(TreeEntries), NEW m, m = Len(entries),
         NEW off, IsDir(entries, data, off), NEW k \in Nat, k > 0
  PROVE  NextEntry(io, off[Least(k - 1, m)]) = off[Least(k, m)]
<1>1. PICK L : L = Len(data)
  OBVIOUS
<1>2. m \in Nat /\ data \in Seq(Nat) /\ L \in Nat /\ io.size = L
  BY <1>1 DEF Keeps, Stores, Shows
<1>3. /\ off \in [0..m -> Nat] /\ off[0] = 0 /\ off[m] = L
      /\ \A j \in 0..m : j < m => off[j] < L /\ j + 1 \in 1..m
  BY <1>1, <1>2, OffsetsAre DEF AreOffsets
<1>4. PICK l : l = k - 1
  OBVIOUS
<1>5. l \in Nat /\ l + 1 = k
  BY <1>4
<1>6. CASE l < m
  <2>1. l \in 0..m /\ k \in 1..m /\ k \in 0..m /\ Least(l, m) = l /\ Least(k, m) = k
    BY <1>2, <1>5, <1>6 DEF Least
  <2>2. off[l] < L /\ off[l] \in Nat /\ off[k] \in Nat
    BY <2>1, <1>3, <1>6
  <2>3. EntryLies(entries[k], data, off[l], off[k])
    BY <2>1, <1>4, Zenon DEF IsDir
  <2>4. entries[k] \in TreeEntries
    BY <2>1
  <2>5. IsEntry(Entry(io, off[l]), entries[k], off[k])
    BY <2>2, <2>3, <2>4, EntryRead
  <2>6. NextEntry(io, off[l]) = Entry(io, off[l]).next
    BY <2>2, <1>2 DEF NextEntry
  <2> QED
    BY <2>1, <2>5, <2>6, <1>4, Zenon DEF IsEntry
<1>7. CASE ~(l < m)
  <2>1. Least(l, m) = m /\ Least(k, m) = m
    BY <1>2, <1>5, <1>7 DEF Least
  <2>2. NextEntry(io, off[m]) = off[m]
    BY <1>2, <1>3 DEF NextEntry
  <2> QED
    BY <2>1, <2>2, <1>4
<1> QED
  BY <1>6, <1>7

\* The i-number of the last entry of a name, in use or not.
InDir(entries, name) ==
  LET named == {e \in DOMAIN entries : entries[e].name = name} IN
  IF named = {} THEN Null ELSE entries[LastIn(named)].inode
\* Node::find goes through all entries.
LEMMA FindEntryIs ==
  ASSUME NEW io, NEW data, Keeps(io, data), NEW entries \in Seq(TreeEntries),
         NEW off, IsDir(entries, data, off), NEW name
  PROVE  FindEntry(io, name) = InDir(entries, name)
<1>1. PICK m, L : m = Len(entries) /\ L = Len(data)
  OBVIOUS
<1>2. m \in Nat /\ data \in Seq(Nat) /\ L \in Nat /\ io.size = L /\ DOMAIN entries = 1..m
  BY <1>1 DEF Keeps, Stores, Shows
<1>3. /\ off \in [0..m -> Nat] /\ off[0] = 0 /\ off[m] = L /\ m <= L
      /\ \A j \in 0..m : j < m => off[j] < L /\ j + 1 \in 1..m
  BY <1>1, <1>2, OffsetsAre DEF AreOffsets
<1> DEFINE Body(h, k) == IF k = 0 THEN 0 ELSE NextEntry(io, h[k - 1])
           F(h) == [k \in 0..io.size |-> Body(h, k)]
           f == CHOOSE h : h = F(h)
           named == {k \in 0..io.size : IsNamed(io, f[k], name)}
<1>4. FindEntry(io, name) =
        IF f[io.size] < io.size THEN Panic
        ELSE IF named = {} THEN Null ELSE Entry(io, f[LastIn(named)]).inode
  BY DEF FindEntry
<1>5. PICK g : g = [k \in 0..L |-> off[Least(k, m)]]
  OBVIOUS
<1>6. \A k \in 0..L : f[k] = g[k]
  <2>1. ASSUME NEW h, NEW k \in 0..L, k > 0 => h[k - 1] = g[k - 1] PROVE Body(h, k) = g[k]
    <3>1. CASE k = 0
      <4>1. Least(0, m) = 0
        BY <1>2 DEF Least
      <4> QED
        BY <3>1, <4>1, <1>3, <1>5
    <3>2. CASE k # 0
      <4>1. k \in Nat /\ k > 0 /\ k - 1 \in 0..L
        BY <3>2, <1>2
      <4>2. h[k - 1] = off[Least(k - 1, m)] /\ g[k] = off[Least(k, m)]
        BY <4>1, <2>1, <1>5
      <4>3. NextEntry(io, off[Least(k - 1, m)]) = off[Least(k, m)]
        BY <4>1, <1>1, EntriesFollow
      <4> QED
        BY <3>2, <4>2, <4>3
    <3> QED
      BY <3>1, <3>2
  <2> HIDE DEF Body
  <2>2. g = F(g)
    <3>1. ASSUME NEW k \in 0..L PROVE g[k] = Body(g, k)
      BY <2>1
    <3>2. g = [k \in 0..L |-> g[k]]
      BY <1>5
    <3> QED
      BY <3>1, <3>2, <1>2
  <2>3. f = F(f)
    <3> HIDE DEF F
    <3> QED
      BY <2>2
  <2> HIDE DEF f
  <2>4. \A k \in 0..L : f[k] = Body(f, k)
    BY <2>3, <1>2
  <2>5. PICK z : z = 0
    OBVIOUS
  <2>6. StaysAlike(f, g, z, L) /\ z \in Nat
    BY <2>1, <2>4, <2>5 DEF StaysAlike
  <2>7. \A k \in z..L : f[k] = g[k]
    <3> HIDE DEF F
    <3>1. PICK h : h = f
      OBVIOUS
    <3>2. StaysAlike(h, g, z, L) /\ z \in Nat /\ L \in Nat
      BY <3>1, <2>6, <1>2
    <3>3. \A k \in z..L : h[k] = g[k]
      BY <3>2, Alike
    <3> QED
      BY <3>1, <3>3
  <2> QED
    BY <2>5, <2>7
<1> HIDE DEF f
<1>7. ASSUME NEW k \in 0..L, k < m
      PROVE  f[k] < L /\ Entry(io, f[k]).name = entries[k + 1].name /\ Entry(io, f[k]).inode = entries[k + 1].inode
  <2>1. PICK n : n = k + 1
    OBVIOUS
  <2>2. k \in 0..m /\ n \in 1..m /\ n - 1 = k /\ n \in 0..m /\ Least(k, m) = k
    BY <2>1, <1>2, <1>7 DEF Least
  <2>3. f[k] = off[k]
    BY <2>2, <1>5, <1>6
  <2>4. off[k] < L /\ off[k] \in Nat /\ off[n] \in Nat
    BY <2>2, <1>3, <1>7
  <2>5. EntryLies(entries[n], data, off[k], off[n])
    BY <2>2, <1>1, Zenon DEF IsDir
  <2>6. entries[n] \in TreeEntries
    BY <2>2, <1>1
  <2>7. IsEntry(Entry(io, off[k]), entries[n], off[n])
    BY <2>4, <2>5, <2>6, EntryRead
  <2> QED
    BY <2>1, <2>3, <2>4, <2>7 DEF IsEntry
<1>8. ASSUME NEW k \in 0..L, ~(k < m) PROVE f[k] = L
  <2>1. Least(k, m) = m
    BY <1>2, <1>8 DEF Least
  <2> QED
    BY <2>1, <1>3, <1>5, <1>6
<1>9. PICK D : D = {e \in 1..m : entries[e].name = name}
  OBVIOUS
<1>10. ASSUME NEW k \in 0..L PROVE k \in named <=> k + 1 \in D
  <2>1. CASE k < m
    <3>1. k + 1 \in 1..m
      BY <2>1, <1>2
    <3>2. IsNamed(io, f[k], name) <=> entries[k + 1].name = name
      BY <2>1, <1>2, <1>7 DEF IsNamed
    <3>3. k \in 0..io.size
      BY <1>2
    <3> QED
      BY <3>1, <3>2, <3>3, <1>9
  <2>2. CASE ~(k < m)
    <3>1. ~IsNamed(io, f[k], name)
      BY <2>2, <1>2, <1>8 DEF IsNamed
    <3>2. k + 1 \notin 1..m
      BY <2>2, <1>2
    <3> QED
      BY <3>1, <3>2, <1>9
  <2> QED
    BY <2>1, <2>2
<1>11. named \in SUBSET (0..L)
  BY <1>2
<1> HIDE DEF named
<1>15. FindEntry(io, name) = IF named = {} THEN Null ELSE Entry(io, f[LastIn(named)]).inode
  <2>1. f[L] = L
    <3>1. L \in 0..L /\ ~(L < m)
      BY <1>2, <1>3
    <3> QED
      BY <3>1, <1>8
  <2>2. ~(f[io.size] < io.size)
    BY <2>1, <1>2
  <2> QED
    BY <2>2, <1>4
<1>12. InDir(entries, name) = IF D = {} THEN Null ELSE entries[LastIn(D)].inode
  BY <1>2, <1>9 DEF InDir
<1>13. CASE D = {}
  <2>1. named = {}
    BY <1>10, <1>11, <1>13
  <2> QED
    BY <2>1, <1>12, <1>13, <1>15
<1>14. CASE D # {}
  <2>1. D \in SUBSET (1..m)
    BY <1>9
  <2>2. PICK c : c = LastIn(D)
    OBVIOUS
  <2>3. c \in D /\ \A j \in D : j <= c
    <3>1. LastIn(D) \in D /\ \A j \in D : j <= LastIn(D)
      BY <2>1, <1>2, <1>14, HasLast
    <3> QED
      BY <3>1, <2>2
  <2>4. PICK k : k = c - 1
    OBVIOUS
  <2>5. c \in 1..m /\ k \in 0..L /\ k < m /\ k + 1 = c
    BY <2>1, <2>3, <2>4, <1>2, <1>3
  <2>6. k \in named
    BY <2>3, <2>5, <1>10
  <2>7. ASSUME NEW i \in named PROVE i <= k
    <3>1. i \in 0..L
      BY <1>11
    <3>2. i + 1 \in D
      BY <3>1, <1>10
    <3>3. i + 1 <= c
      BY <3>2, <2>3
    <3> QED
      BY <3>1, <3>3, <2>5
  <2>8. LastIn(named) = k
    <3>1. named \in SUBSET Int
      BY <1>11
    <3> QED
      BY <3>1, <2>6, <2>7, LastIs
  <2>9. Entry(io, f[k]).inode = entries[c].inode
    BY <2>5, <1>7
  <2>10. named # {}
    BY <2>6
  <2> QED
    BY <2>2, <2>8, <2>9, <2>10, <1>12, <1>14, <1>15
<1> QED
  BY <1>13, <1>14

-----------------------------------------------------------------------------
(***************************************************************************)
(* Paths.                                                                  *)
(***************************************************************************)
\* No two entries in use have the same name, and none out of use comes after one
\* of its name.
IsClear(entries) ==
  /\ \A e, f \in InUse(entries) : entries[e].name = entries[f].name => e = f
  /\ \A e \in InUse(entries), u \in DOMAIN entries \ InUse(entries) :
       entries[e].name = entries[u].name => u < e
\* The last entry of a name is the one in use, if there is one.
LEMMA InDirFollows ==
  ASSUME NEW entries \in Seq(TreeEntries), IsClear(entries), NEW name
  PROVE  InDir(entries, name) = Follow(entries, name)
<1>1. PICK m, D, U : /\ m = Len(entries) /\ D = {e \in DOMAIN entries : entries[e].name = name}
                     /\ U = {e \in InUse(entries) : entries[e].name = name}
  OBVIOUS
<1>2. m \in Nat /\ DOMAIN entries = 1..m
  BY <1>1
<1>3. D \in SUBSET (1..m) /\ \A e \in D : e \in DOMAIN entries /\ entries[e].name = name
  BY <1>1, <1>2
<1>4. InDir(entries, name) = IF D = {} THEN Null ELSE entries[LastIn(D)].inode
  BY <1>1, Zenon DEF InDir
<1>5. Follow(entries, name) = IF U = {} THEN Null ELSE entries[CHOOSE e \in U : TRUE].inode
  BY <1>1 DEF Follow
<1>6. \A e \in D : entries[e].inode # 0 => e \in InUse(entries) /\ e \in U
  BY <1>1, <1>3 DEF InUse
<1>7. CASE U = {}
  <2>1. CASE D = {}
    BY <2>1, <1>4, <1>5, <1>7
  <2>2. CASE D # {}
    <3>1. PICK c : c = LastIn(D)
      OBVIOUS
    <3>2. c \in D
      BY <3>1, <2>2, <1>2, <1>3, HasLast
    <3>3. entries[c].inode = 0
      BY <3>2, <1>6, <1>7
    <3> QED
      BY <3>1, <3>3, <2>2, <1>4, <1>5, <1>7 DEF Null
  <2> QED
    BY <2>1, <2>2
<1>8. CASE U # {}
  <2>1. PICK c : c = CHOOSE e \in U : TRUE
    OBVIOUS
  <2>2. c \in U
    BY <2>1, <1>8
  <2>3. c \in InUse(entries) /\ entries[c].name = name /\ c \in D
    BY <2>2, <1>1 DEF InUse
  <2>4. ASSUME NEW j \in D PROVE j <= c
    <3>1. j \in 1..m /\ c \in 1..m /\ entries[j].name = entries[c].name /\ j \in DOMAIN entries
      BY <2>3, <1>3
    <3>2. CASE j \in InUse(entries)
      <4>1. j = c
        BY <3>1, <3>2, <2>3 DEF IsClear
      <4> QED
        BY <4>1, <3>1
    <3>3. CASE j \notin InUse(entries)
      <4>1. j < c
        BY <3>1, <3>3, <2>3 DEF IsClear
      <4> QED
        BY <4>1, <3>1
    <3> QED
      BY <3>2, <3>3
  <2>5. LastIn(D) = c
    <3>1. D \in SUBSET Int
      BY <1>2, <1>3
    <3> QED
      BY <3>1, <2>3, <2>4, LastIs
  <2> QED
    BY <2>1, <2>3, <2>5, <1>4, <1>5, <1>8
<1> QED
  BY <1>7, <1>8

\* Every place in a file fits into 32 bits.
LEMMA FileFits ==
  ASSUME NEW g, NEW t, IsGeometry(g), IsTree(g, t), IsSmall(g, t), NEW i \in 1..Len(t)
  PROVE  Len(t[i].data) < OffsetRange
<1>1. Sizes(g, t) /\ DataBlocksFit(g, t) /\ IsNode(g, t, i)
  BY SizesAre, DataBlocksAre, NodesAre
<1>2. PICK L, B, Q, n, T, D : /\ L = Len(t[i].data) /\ B = g.block /\ Q = Blocks(g) /\ n = Len(t)
                              /\ T = TableBlock(g, t, Groups(g, t)) /\ D = DiskSize(g, t)
  OBVIOUS
<1>3. B \in Nat /\ n \in Nat \ {0} /\ i \in 1..n
  BY <1>1, <1>2 DEF Sizes
<1>4. Q \in Nat /\ T \in Nat /\ D \in Nat
  BY <1>1, <1>2 DEF DataBlocksFit
<1>5. L \in Nat /\ L <= Q * B
  <2>1. t[i].data \in Seq(Nat)
    BY <1>1 DEF IsNode
  <2> QED
    BY <2>1, <1>1, <1>2 DEF IsNode
<1>6. Q < D
  <2>1. PICK x, y : x = DataBlock(g, t, i, Q) /\ y = Q * n
    OBVIOUS
  <2>2. x \in Nat /\ x + 1 <= D
    <3>1. Q \in 0..Blocks(g)
      BY <1>2, <1>4
    <3> QED
      BY <3>1, <2>1, <1>1, <1>2 DEF DataBlocksFit
  <2>3. y \in Nat /\ Q <= y
    <3>1. PICK o : o = 1
      OBVIOUS
    <3>2. o \in Nat /\ o <= n /\ Q * o = Q
      BY <3>1, <1>3, <1>4
    <3> QED
      BY <3>2, <2>1, <1>3, <1>4, Times
  <2>4. x = T + y + i - 1
    BY <2>1, <1>2 DEF DataBlock
  <2> QED
    BY <2>2, <2>3, <2>4, <1>3, <1>4
<1>7. PICK w : w = B * D
  OBVIOUS
<1>8. Q * B <= w /\ Q * B \in Nat
  <2>1. Q * B = B * Q /\ B * Q <= B * D /\ B * Q \in Nat
    BY <1>3, <1>4, <1>6, Times
  <2> QED
    BY <2>1, <1>7
<1>9. w \in Nat /\ w < OffsetRange /\ OffsetRange \in Nat
  BY <1>2, <1>7 DEF IsSmall
<1> QED
  BY <1>2, <1>5, <1>8, <1>9

\* Where a walk can be, and where a name leads from there.
Places(t) == (0..Len(t)) \union {Panic}
Onward(t, name, x) ==
  IF x \in {Null, Panic} \/ name = << >> THEN x
  ELSE IF t[x].type # Dir THEN Panic ELSE Follow(t[x].entries, name)
\* Every entry leads to an i-node or nowhere.
LEMMA OnwardIs ==
  ASSUME NEW g, NEW t, IsTree(g, t), NEW name, NEW x \in Places(t)
  PROVE  Onward(t, name, x) \in Places(t)
<1>1. CASE x \in {Null, Panic} \/ name = << >>
  BY <1>1 DEF Onward
<1>2. CASE ~(x \in {Null, Panic} \/ name = << >>) /\ t[x].type # Dir
  BY <1>2 DEF Onward, Places
<1>3. CASE ~(x \in {Null, Panic} \/ name = << >>) /\ ~(t[x].type # Dir)
  <2>1. PICK n, entries : n = Len(t) /\ entries = t[x].entries
    OBVIOUS
  <2>2. n \in Nat
    <3>1. DOMAIN t = 1..n /\ t \in Seq([type : {Dir, Regular}, data : Seq(Nat), holes : SUBSET Nat,
                                        entries : Seq(TreeEntries)])
      BY <2>1 DEF IsTree
    <3> QED
      BY <3>1, <2>1
  <2>3. x \in 1..n
    BY <1>3, <2>1, <2>2 DEF Places, Null, Panic
  <2>4. IsNode(g, t, x)
    BY <2>1, <2>3, NodesAre
  <2>5. entries \in Seq(TreeEntries) /\ \A e \in DOMAIN entries : entries[e].inode <= n
    <3>1. IsDirectory(t, x) /\ entries \in Seq(TreeEntries)
      BY <2>1, <2>4, <1>3 DEF IsNode
    <3> QED
      BY <3>1, <2>1, Zenon DEF IsDirectory
  <2>6. PICK U : U = {e \in InUse(entries) : entries[e].name = name}
    OBVIOUS
  <2>7. Onward(t, name, x) = IF U = {} THEN Null ELSE entries[CHOOSE e \in U : TRUE].inode
    BY <1>3, <2>1, <2>6 DEF Onward, Follow
  <2>8. CASE U = {}
    BY <2>2, <2>7, <2>8, <2>1 DEF Places, Null
  <2>9. CASE U # {}
    <3>1. PICK c : c = CHOOSE e \in U : TRUE
      OBVIOUS
    <3>2. c \in U
      BY <3>1, <2>9
    <3>3. c \in DOMAIN entries
      BY <3>2, <2>6 DEF InUse
    <3>4. entries[c] \in TreeEntries /\ entries[c].inode <= n
      BY <3>3, <2>5
    <3>5. entries[c].inode \in Nat
      BY <3>4 DEF TreeEntries
    <3>6. entries[c].inode \in 0..n
      BY <3>4, <3>5, <2>2
    <3> QED
      BY <3>1, <3>6, <2>1, <2>7, <2>9 DEF Places
  <2> QED
    BY <2>8, <2>9
<1> QED
  BY <1>1, <1>2, <1>3

\* Where Ext2::find goes on.
Follows(fs, name, x) ==
  IF x \in {Null, Panic} \/ name = << >> THEN x
  ELSE LET node == GetNode(fs, x) IN
       IF node.type # Dir THEN Panic ELSE FindEntry(node.io, name)
\* The disk leads where the tree does.
LEMMA FollowsIs ==
  ASSUME NEW g, NEW t, IsGeometry(g), IsTree(g, t), IsSmall(g, t), NothingHidden(t),
         NEW fs, IsMounted(g, t, fs), NEW name, NEW x \in Places(t)
  PROVE  Follows(fs, name, x) = Onward(t, name, x)
<1>1. CASE x \in {Null, Panic} \/ name = << >>
  BY <1>1 DEF Onward, Follows
<1>2. CASE ~(x \in {Null, Panic} \/ name = << >>)
  <2>1. PICK n, node, entries, data :
          n = Len(t) /\ node = GetNode(fs, x) /\ entries = t[x].entries /\ data = t[x].data
    OBVIOUS
  <2>2. n \in Nat
    BY <2>1, SizesAre DEF Sizes
  <2>3. x \in 1..n /\ DOMAIN t = 1..n
    BY <1>2, <2>1, <2>2, Numbers DEF Places, Null, Panic
  <2>4. IsNode(g, t, x)
    BY <2>1, <2>3, NodesAre
  <2>5. node.type = t[x].type /\ (t[x].holes = {} => Stores(node.io, data))
    <3>1. GotNode(t, x, GetNode(fs, x))
      BY <2>1, <2>3, NodeGot
    <3> QED
      BY <3>1, <2>1 DEF GotNode
  <2>6. Follows(fs, name, x) = IF t[x].type # Dir THEN Panic ELSE FindEntry(node.io, name)
    BY <1>2, <2>1, <2>5 DEF Follows
  <2>7. Onward(t, name, x) = IF t[x].type # Dir THEN Panic ELSE Follow(entries, name)
    BY <1>2, <2>1 DEF Onward
  <2>8. ASSUME t[x].type = Dir PROVE FindEntry(node.io, name) = Follow(entries, name)
    <3>1. entries \in Seq(TreeEntries) /\ IsDirectory(t, x)
      BY <2>1, <2>4, <2>8 DEF IsNode
    <3>2. data = DirOf(entries).data /\ t[x].holes = {}
      BY <3>1, <2>1, Zenon DEF IsDirectory
    <3>3. IsClear(entries)
      <4>1. \A e, f \in InUse(entries) : entries[e].name = entries[f].name => e = f
        BY <3>1, <2>1, Zenon DEF IsDirectory
      <4>2. \A e \in InUse(entries), u \in DOMAIN entries \ InUse(entries) :
              entries[e].name = entries[u].name => u < e
        BY <2>1, <2>3, Zenon DEF NothingHidden
      <4> QED
        BY <4>1, <4>2, Zenon DEF IsClear
    <3>4. Keeps(node.io, data)
      <4>1. Len(data) < OffsetRange /\ OffsetRange \in Nat
        BY <2>1, <2>3, FileFits DEF IsSmall
      <4> QED
        BY <4>1, <3>2, <2>5 DEF Keeps
    <3>5. PICK off : IsDir(entries, data, off)
      BY <3>1, <3>2, DirLies
    <3>6. FindEntry(node.io, name) = InDir(entries, name)
      BY <3>1, <3>4, <3>5, FindEntryIs
    <3> QED
      BY <3>1, <3>3, <3>6, InDirFollows
  <2> QED
    BY <2>6, <2>7, <2>8
<1> QED
  BY <1>1, <1>2

\* Step by step, a path leads on the disk where it leads in the tree.
LEMMA PathResolves ==
  ASSUME NEW g, NEW t, IsGeometry(g), IsTree(g, t), IsSmall(g, t), NothingHidden(t),
         NEW fs, IsMounted(g, t, fs), NEW path \in Seq(Seq(Nat))
  PROVE  Find(fs, path) = Resolve(t, path)
<1>1. PICK L, T : L = Len(path) /\ T = Places(t)
  OBVIOUS
<1>2. L \in Nat /\ L \in 0..L
  BY <1>1
<1>3. 2 \in T
  <2>1. Len(t) >= 2 /\ Len(t) \in Nat
    BY DEF IsTree
  <2> QED
    BY <2>1, <1>1 DEF Places
<1> DEFINE advance == [k \in 1..L |-> [x \in T |-> Onward(t, path[k], x)]]
<1>4. PICK h \in [0..L -> T] : Iterates(h, 2, advance, L)
  <2>1. advance \in [1..L -> [T -> T]]
    <3>1. ASSUME NEW k \in 1..L PROVE [x \in T |-> Onward(t, path[k], x)] \in [T -> T]
      <4>1. ASSUME NEW x \in T PROVE Onward(t, path[k], x) \in T
        BY <1>1, OnwardIs
      <4> QED
        BY <4>1
    <3> QED
      BY <3>1
  <2> HIDE DEF advance
  <2> QED
    BY <1>2, <1>3, <2>1, Iteration
<1>5. h[0] = 2 /\ \A k \in 1..L : h[k - 1] \in T /\ h[k] = Onward(t, path[k], h[k - 1])
  <2>1. ASSUME NEW k \in 1..L PROVE h[k - 1] \in T /\ h[k] = Onward(t, path[k], h[k - 1])
    <3>1. k - 1 \in 0..L
      BY <1>2
    <3>2. h[k] = advance[k][h[k - 1]]
      BY <1>4 DEF Iterates
    <3> QED
      BY <3>1, <3>2
  <2> QED
    BY <2>1, <1>4 DEF Iterates
<1> HIDE DEF advance
<1>6. ASSUME NEW f, \A k \in 0..L : (k > 0 => f[k - 1] = h[k - 1]) => f[k] = h[k]
      PROVE  f[L] = h[L]
  <2>1. StaysAlike(f, h, 0, L)
    BY <1>6 DEF StaysAlike
  <2> QED
    BY <2>1, <1>2, AlikeAtEnd
<1>7. Find(fs, path) = h[L]
  <2> DEFINE Body(f, k) ==
               IF k = 0 THEN 2
               ELSE IF f[k - 1] \in {Null, Panic} \/ path[k] = << >> THEN f[k - 1]
               ELSE LET node == GetNode(fs, f[k - 1]) IN
                    IF node.type # Dir THEN Panic ELSE FindEntry(node.io, path[k])
             F(f) == [k \in 0..Len(path) |-> Body(f, k)]
             walk == CHOOSE f : f = F(f)
  <2>1. Find(fs, path) = walk[L]
    BY <1>1 DEF Find
  <2>2. ASSUME NEW f, NEW k \in 0..L, k > 0 => f[k - 1] = h[k - 1] PROVE Body(f, k) = h[k]
    <3>1. CASE k = 0
      BY <3>1, <1>5
    <3>2. CASE k # 0
      <4>1. k \in 1..L /\ k > 0
        BY <3>2, <1>2
      <4>2. Body(f, k) = Follows(fs, path[k], h[k - 1])
        BY <3>2, <4>1, <2>2, Zenon DEF Follows
      <4> QED
        BY <4>1, <4>2, <1>1, <1>5, FollowsIs
    <3> QED
      BY <3>1, <3>2
  <2> HIDE DEF Body
  <2>3. h = F(h)
    <3>1. ASSUME NEW k \in 0..L PROVE h[k] = Body(h, k)
      BY <2>2
    <3> QED
      BY <3>1, <1>1
  <2>4. walk = F(walk)
    <3> HIDE DEF F
    <3> QED
      BY <2>3
  <2> HIDE DEF walk
  <2>5. \A k \in 0..L : walk[k] = Body(walk, k)
    BY <2>4, <1>1
  <2> QED
    BY <2>1, <2>2, <2>5, <1>6
<1>8. Resolve(t, path) = h[L]
  <2> DEFINE Body(f, k) ==
               IF k = 0 THEN 2
               ELSE IF f[k - 1] \in {Null, Panic} \/ path[k] = << >> THEN f[k - 1]
               ELSE IF t[f[k - 1]].type # Dir THEN Panic
               ELSE Follow(t[f[k - 1]].entries, path[k])
             F(f) == [k \in 0..Len(path) |-> Body(f, k)]
             to == CHOOSE f : f = F(f)
  <2>1. Resolve(t, path) = to[L]
    BY <1>1 DEF Resolve
  <2>2. ASSUME NEW f, NEW k \in 0..L, k > 0 => f[k - 1] = h[k - 1] PROVE Body(f, k) = h[k]
    <3>1. CASE k = 0
      BY <3>1, <1>5
    <3>2. CASE k # 0
      <4>1. k \in 1..L /\ k > 0
        BY <3>2, <1>2
      <4>2. Body(f, k) = Onward(t, path[k], h[k - 1])
        BY <3>2, <4>1, <2>2, Zenon DEF Onward
      <4> QED
        BY <4>1, <4>2, <1>5
    <3> QED
      BY <3>1, <3>2
  <2> HIDE DEF Body
  <2>3. h = F(h)
    <3>1. ASSUME NEW k \in 0..L PROVE h[k] = Body(h, k)
      BY <2>2
    <3> QED
      BY <3>1, <1>1
  <2>4. to = F(to)
    <3> HIDE DEF F
    <3> QED
      BY <2>3
  <2> HIDE DEF to
  <2>5. \A k \in 0..L : to[k] = Body(to, k)
    BY <2>4, <1>1
  <2> QED
    BY <2>1, <2>2, <2>5, <1>6
<1> QED
  BY <1>7, <1>8

\* A file system is read from its disk as it was written: what every file without
\* holes holds, at every offset, and the way along every path where no entry out of
\* use hides a name, for every geometry and every tree whose disk has offsets of 32
\* bits (block_io.h:49-56, ext2.cc:94-170, ext2.h:198-218, 276-306).
THEOREM TreesAreRead == ReadSpec => []TreeIsRead
<1>1. ASSUME input \in Inputs \union {NoInput} PROVE TreeIsRead
  <2>1. CASE input.kind # "disk"
    BY <2>1 DEF TreeIsRead
  <2>2. CASE input.kind = "disk"
    <3>1. input \in [kind : {"disk"}, g : Geometries, t : Trees]
      BY <1>1, <2>2 DEF Inputs, NoInput
    <3>2. PICK g, t : g = input.g /\ t = input.t
      OBVIOUS
    <3>3. g \in Geometries /\ t \in Trees
      BY <3>1, <3>2
    <3>4. OffsetRange \in Nat /\ IsGeometry(g) /\ IsTree(g, t) /\ Paths \subseteq Seq(Seq(Nat))
      BY <3>3, DisksAssumption, Zenon DEF DisksAssumption
    <3>5. PICK fs : fs = Mount(g, Disk(g, t))
      OBVIOUS
    <3>6. IsMounted(g, t, fs) /\ IsSmall(g, t)
      BY <3>4, <3>5, Mounted, TreeIsSmall
    <3>7. ASSUME NEW i \in DOMAIN t, t[i].holes = {} PROVE ReadsBack(fs, t, i)
      <4>1. i \in 1..Len(t)
        BY <3>4, Numbers
      <4> QED
        BY <4>1, <3>4, <3>6, <3>7, FilesReadBack
    <3>8. ASSUME NothingHidden(t) PROVE Resolves(fs, t)
      <4>1. ASSUME NEW path \in Paths PROVE Find(fs, path) = Resolve(t, path)
        <5>1. path \in Seq(Seq(Nat))
          BY <3>4
        <5> QED
          BY <5>1, <3>4, <3>6, <3>8, PathResolves
      <4> QED
        BY <4>1, Zenon DEF Resolves
    <3> QED
      BY <3>2, <3>5, <3>7, <3>8, Zenon DEF TreeIsRead
  <2> QED
    BY <2>1, <2>2
<1> DEFINE Given == input \in Inputs \union {NoInput}
<1>2. Given /\ [FALSE]_input => Given'
  OBVIOUS
<1>3. Given => TreeIsRead
  BY <1>1
<1> HIDE DEF Given
<1>4. ReadSpec => Given /\ [][FALSE]_input
  BY DEF ReadSpec, Given
<1> QED
  BY <1>2, <1>3, <1>4, PTL
=============================================================================
