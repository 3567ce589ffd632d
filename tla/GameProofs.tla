------------------------------ MODULE GameProofs ------------------------------
(***************************************************************************)
(* Proofs about the game: the buffer of Tetris, for any container, buffer, *)
(* garbage and number of pieces, and the pace that Clock gives it, for any *)
(* range of jiffies and any sleep that is shorter than the range.          *)
(***************************************************************************)
EXTENDS Tetris, Clock, TLAPS

\* w % n for a w that is less than two times n.
LEMMA Mod ==
  ASSUME NEW n \in Nat, n > 0, NEW w \in Nat, w < n + n
  PROVE  w % n = IF w < n THEN w ELSE w - n
<1>1. CASE w < n
  BY <1>1
<1>2. CASE ~(w < n)
  BY <1>2
<1> QED
  BY <1>1, <1>2

\* jiffies n jiffies later, for an n that is less than the range.
LEMMA Later ==
  ASSUME NEW j \in Jiffies, NEW n \in Nat, n < Wrap
  PROVE  /\ Wrap \in Nat
         /\ (j + n) % Wrap = IF j + n < Wrap THEN j + n ELSE j + n - Wrap
         /\ (j + n) % Wrap \in Jiffies
<1>1. Wrap \in Nat /\ Wrap > 0 /\ j \in Nat /\ j < Wrap
  BY ClockAssumption DEF Jiffies
<1>2. j + n \in Nat /\ j + n < Wrap + Wrap
  BY <1>1
<1>3. (j + n) % Wrap = IF j + n < Wrap THEN j + n ELSE j + n - Wrap
  BY <1>1, <1>2, Mod
<1> QED
  BY <1>1, <1>2, <1>3 DEF Jiffies

\* A longer factor makes a longer product.
LEMMA Product ==
  ASSUME NEW a \in Nat, NEW m \in Nat, NEW n \in 0..m
  PROVE  a * n \in Nat /\ a * n <= a * m
<1>1. n \in Nat /\ m - n \in Nat /\ m = n + (m - n)
  OBVIOUS
<1>2. a * m = a * n + a * (m - n)
  BY <1>1
<1>3. a * (m - n) \in Nat /\ a * n \in Nat
  BY <1>1
<1>4. ASSUME NEW p \in Nat, NEW q \in Nat, NEW r \in Nat, p = q + r PROVE q <= p
  BY <1>4
<1>5. a * m \in Nat
  OBVIOUS
<1> QED
  BY <1>2, <1>3, <1>4, <1>5
-----------------------------------------------------------------------------
(***************************************************************************)
(* The inductive invariant: until the time of a drop, or the end of a      *)
(* sleep, the histories say how far away it is.                            *)
(***************************************************************************)
ClockTypes ==
  /\ jiffies \in Jiffies /\ time_drop \in Jiffies /\ end \in Jiffies
  /\ game \in {"poll", "drop"} /\ sleeper \in {"awake", "asleep"}
  /\ sinceDrop \in 0..GT /\ left \in 0..(Wrap - 1)

DropInv ==
  game = "poll" /\ sinceDrop < GT => time_drop = (jiffies + (GT - sinceDrop)) % Wrap

SleepInv ==
  sleeper = "asleep" /\ left > 0 => end = (jiffies + left) % Wrap

ClockInv == ClockTypes /\ DropInv /\ SleepInv

\* The game has armed its first drop.
LEMMA InitClockInv == ClockInit => ClockInv
<1> SUFFICES ASSUME ClockInit PROVE ClockInv
  OBVIOUS
<1>1. GT \in Nat /\ 0 < GT /\ GT < Wrap /\ Wrap \in Nat /\ jiffies \in Jiffies
  BY ClockAssumption DEF ClockInit
<1>2. time_drop = (jiffies + GT) % Wrap /\ time_drop \in Jiffies
  BY <1>1, Later DEF ClockInit
<1> QED
  BY <1>1, <1>2 DEF ClockInit, ClockInv, ClockTypes, DropInv, SleepInv, Jiffies

\* A jiffy later everything is a jiffy nearer.
LEMMA Nearer ==
  ASSUME NEW j \in Jiffies, NEW n \in Nat, 0 < n, n < Wrap
  PROVE  (j + n) % Wrap = (((j + 1) % Wrap) + (n - 1)) % Wrap
<1> DEFINE k == (j + 1) % Wrap
<1>1. /\ Wrap \in Nat /\ 1 < Wrap
      /\ k = IF j + 1 < Wrap THEN j + 1 ELSE j + 1 - Wrap
      /\ k \in Jiffies
  BY Later
<1>2. (j + n) % Wrap = IF j + n < Wrap THEN j + n ELSE j + n - Wrap
  BY Later
<1>3. n - 1 \in Nat /\ n - 1 < Wrap
  BY <1>1
<1> HIDE DEF k
<1>4. (k + (n - 1)) % Wrap = IF k + (n - 1) < Wrap THEN k + (n - 1) ELSE k + (n - 1) - Wrap
  BY <1>1, <1>3, Later
<1>5. (j + n) % Wrap = (k + (n - 1)) % Wrap
  BY <1>1, <1>2, <1>3, <1>4 DEF Jiffies
<1> QED
  BY <1>5 DEF k

\* apitHandler.
LEMMA TickKeeps ==
  ASSUME ClockInv, Tick
  PROVE  ClockInv'
<1>1. /\ ClockTypes /\ GT \in Nat /\ GT < Wrap /\ Wrap \in Nat
      /\ sinceDrop \in Nat /\ left \in Nat /\ left < Wrap
  BY ClockAssumption DEF ClockInv, ClockTypes
<1>2. /\ jiffies' = (jiffies + 1) % Wrap
      /\ sinceDrop' = IF sinceDrop < GT THEN sinceDrop + 1 ELSE GT
      /\ left' = IF left > 0 THEN left - 1 ELSE 0
      /\ UNCHANGED <<game, time_drop, sleeper, end>>
  BY DEF Tick
<1>3. jiffies \in Jiffies /\ jiffies' \in Jiffies
  BY <1>1, <1>2, Later, ClockAssumption DEF ClockTypes
<1>4. ClockTypes'
  BY <1>1, <1>2, <1>3 DEF ClockTypes
<1>5. DropInv'
  <2> SUFFICES ASSUME game' = "poll", sinceDrop' < GT
               PROVE  time_drop = (jiffies' + (GT - sinceDrop')) % Wrap
    BY <1>2 DEF DropInv
  <2>1. sinceDrop < GT /\ GT - sinceDrop \in Nat /\ 0 < GT - sinceDrop /\ GT - sinceDrop < Wrap
    BY <1>1, <1>2 DEF ClockTypes
  <2>2. (jiffies + (GT - sinceDrop)) % Wrap = (jiffies' + ((GT - sinceDrop) - 1)) % Wrap
    BY <1>2, <1>3, <2>1, Nearer
  <2>3. (GT - sinceDrop) - 1 = GT - sinceDrop'
    BY <1>1, <1>2, <2>1
  <2> QED
    BY <1>2, <2>1, <2>2, <2>3 DEF ClockInv, DropInv
<1>6. SleepInv'
  <2> SUFFICES ASSUME sleeper' = "asleep", left' > 0
               PROVE  end = (jiffies' + left') % Wrap
    BY <1>2 DEF SleepInv
  <2>1. left > 0 /\ left' = left - 1
    BY <1>1, <1>2
  <2>2. (jiffies + left) % Wrap = (jiffies' + (left - 1)) % Wrap
    BY <1>1, <1>2, <1>3, <2>1, Nearer
  <2> QED
    BY <1>2, <2>1, <2>2 DEF ClockInv, SleepInv
<1> QED
  BY <1>4, <1>5, <1>6 DEF ClockInv

\* play_game sets the time of the next drop.
LEMMA RearmKeeps ==
  ASSUME ClockInv, Rearm
  PROVE  ClockInv'
<1>1. /\ ClockTypes /\ SleepInv /\ GT \in Nat /\ 0 < GT /\ GT < Wrap /\ jiffies \in Jiffies
  BY ClockAssumption DEF ClockInv, ClockTypes
<1>2. time_drop' = (jiffies + GT) % Wrap /\ time_drop' \in Jiffies
  BY <1>1, Later DEF Rearm
<1>3. game' = "poll" /\ sinceDrop' = 0 /\ UNCHANGED <<jiffies, sleeper, end, left>>
  BY DEF Rearm
<1>4. GT - sinceDrop' = GT
  BY <1>1, <1>3
<1> QED
  BY <1>1, <1>2, <1>3, <1>4 DEF ClockInv, ClockTypes, DropInv, SleepInv

\* sleep(n) computes the jiffy at which it ends.
LEMMA SleepKeeps ==
  ASSUME ClockInv, NEW n \in 0..MaxSeconds, Sleep(n)
  PROVE  ClockInv'
<1>1. ClockTypes /\ DropInv /\ jiffies \in Jiffies /\ Wrap \in Nat
  BY ClockAssumption DEF ClockInv, ClockTypes
<1>2. PerSecond * n \in Nat /\ PerSecond * n < Wrap
  <2>1. PerSecond * n \in Nat /\ PerSecond * n <= PerSecond * MaxSeconds
    BY Product, ClockAssumption
  <2>2. PerSecond * MaxSeconds < Wrap /\ PerSecond * MaxSeconds \in Nat
    BY ClockAssumption
  <2> QED
    BY <1>1, <2>1, <2>2
<1>3. PICK m \in Nat : m = PerSecond * n
  BY <1>2
<1>4. m < Wrap /\ end' = (jiffies + m) % Wrap /\ left' = m /\ sleeper' = "asleep"
  BY <1>2, <1>3 DEF Sleep
<1>5. UNCHANGED <<jiffies, game, time_drop, sinceDrop>>
  BY DEF Sleep
<1>6. end' \in Jiffies
  BY <1>1, <1>4, Later
<1> QED
  BY <1>1, <1>4, <1>5, <1>6 DEF ClockInv, ClockTypes, DropInv, SleepInv

\* Any step.
LEMMA ClockStep == ClockInv /\ [ClockNext]_clockVars => ClockInv'
<1> SUFFICES ASSUME ClockInv, [ClockNext]_clockVars PROVE ClockInv'
  OBVIOUS
<1>1. CASE UNCHANGED clockVars
  BY <1>1 DEF clockVars, ClockInv, ClockTypes, DropInv, SleepInv
<1>2. CASE Due
  BY <1>2 DEF Due, ClockInv, ClockTypes, DropInv, SleepInv
<1>3. CASE Wake
  <2>1. 0 \in Jiffies
    BY ClockAssumption DEF Jiffies
  <2> QED
    BY <1>3, <2>1 DEF Wake, ClockInv, ClockTypes, DropInv, SleepInv
<1> QED
  BY <1>1, <1>2, <1>3, TickKeeps, RearmKeeps, SleepKeeps DEF ClockNext

-----------------------------------------------------------------------------
(***************************************************************************)
(* The theorems.                                                           *)
(***************************************************************************)
\* ClockInv holds in every reachable state (pit.cc:140-153, tetris.h:257-266).
THEOREM ClockInvariance == ClockSpec => []ClockInv
BY InitClockInv, ClockStep, PTL DEF ClockSpec

\* sleep(n) never returns before n seconds are over, wherever jiffies wraps
\* (pit.cc:151-153).
THEOREM SleepsAreLongEnough == ClockSpec => SleepIsLongEnough
<1>1. ClockInv => (Wake => left = 0)
  <2> SUFFICES ASSUME ClockInv, Wake, left > 0, left \in Nat PROVE FALSE
    BY DEF ClockInv, ClockTypes
  <2>1. left < Wrap /\ jiffies \in Jiffies /\ jiffies = (jiffies + left) % Wrap
    BY ClockAssumption DEF ClockInv, ClockTypes, SleepInv, Wake
  <2>2. (jiffies + left) % Wrap
          = IF jiffies + left < Wrap THEN jiffies + left ELSE jiffies + left - Wrap
    BY <2>1, Later
  <2> QED
    BY <2>1, <2>2, ClockAssumption DEF Jiffies
<1> QED
  BY ClockInvariance, <1>1, PTL DEF SleepIsLongEnough

\* A piece drops before its time only when that time is past the end of the range of
\* jiffies, before jiffies itself wraps (tetris.h:259-265).
THEOREM DropsAreEarlyOnlyBeforeWrap == ClockSpec => EarlyOnlyBeforeWrap
<1>1. ClockInv => (Due => sinceDrop = GT \/ jiffies + (GT - sinceDrop) >= Wrap)
  <2> SUFFICES ASSUME ClockInv, Due, sinceDrop # GT, jiffies + (GT - sinceDrop) < Wrap
               PROVE  FALSE
    BY ClockAssumption DEF ClockInv, ClockTypes, Jiffies
  <2>1. /\ GT \in Nat /\ GT < Wrap /\ Wrap \in Nat /\ jiffies \in Jiffies
        /\ sinceDrop \in 0..GT /\ sinceDrop < GT
    BY ClockAssumption DEF ClockInv, ClockTypes
  <2>2. jiffies >= time_drop /\ time_drop = (jiffies + (GT - sinceDrop)) % Wrap
    BY <2>1 DEF ClockInv, DropInv, Due
  <2>3. GT - sinceDrop \in Nat /\ 0 < GT - sinceDrop /\ GT - sinceDrop < Wrap
    BY <2>1
  <2>4. (jiffies + (GT - sinceDrop)) % Wrap = jiffies + (GT - sinceDrop)
    BY <2>1, <2>3, Later
  <2> QED
    BY <2>1, <2>2, <2>3, <2>4 DEF Jiffies
<1> QED
  BY ClockInvariance, <1>1, PTL DEF EarlyOnlyBeforeWrap
-----------------------------------------------------------------------------
(***************************************************************************)
(* The buffer of the game. Nothing checks a rotation, so that a piece can  *)
(* leave the container at its bottom: the invariant bounds y by what every *)
(* orientation of every shape has in common, a block below the first row   *)
(* of its square that the last move down found above the bottom. Nothing   *)
(* checks a move to a side either, and nothing is said about x.            *)
(***************************************************************************)
PlaceInv ==
  /\ kind \in AllKinds /\ orientation \in 0..3 /\ black \in BOOLEAN
  /\ x \in (InitCol - MaxAside)..(InitCol + MaxAside)
  /\ y \in Nat /\ (y = 0 \/ y + 1 <= LastRow)
  /\ pieces \in 1..MaxPieces

TetrisInv ==
  /\ PlaceInv /\ Painted(stack) \subseteq Buffer
  /\ buffer \subseteq Garbage \cup Painted(stack) \cup Painted(Here)
  /\ black \/ Painted(Here) \subseteq buffer

\* The four squares of a shape: in each, a block is below the first row (shapes.cc).
LEMMA ShapeIs ==
  ASSUME NEW k \in AllKinds, NEW o \in 0..3
  PROVE  /\ OnBlocks[k][o + 1] \subseteq 0..15
         /\ \E b \in OnBlocks[k][o + 1] : b >= 4
<1>1. k \in {"Square", "I", "L", "ReverseL", "Z", "ReverseZ", "T"}
  BY DEF AllKinds
<1>2. o + 1 \in {1, 2, 3, 4}
  OBVIOUS
<1> DEFINE Good(squares) ==
             \A i \in {1, 2, 3, 4} : squares[i] \subseteq 0..15 /\ \E b \in squares[i] : b >= 4
<1>3. Good(<<{5, 6, 9, 10}, {5, 6, 9, 10}, {5, 6, 9, 10}, {5, 6, 9, 10}>>)
  OBVIOUS
<1>4. Good(<<{1, 5, 9, 13}, {4, 5, 6, 7}, {1, 5, 9, 13}, {4, 5, 6, 7}>>)
  OBVIOUS
<1>5. Good(<<{4, 8, 12, 13}, {4, 5, 6, 8}, {5, 6, 10, 14}, {6, 8, 9, 10}>>)
  OBVIOUS
<1>6. Good(<<{5, 9, 12, 13}, {4, 8, 9, 10}, {4, 5, 8, 12}, {8, 9, 10, 14}>>)
  OBVIOUS
<1>7. Good(<<{8, 9, 13, 14}, {5, 8, 9, 12}, {8, 9, 13, 14}, {5, 8, 9, 12}>>)
  OBVIOUS
<1>8. Good(<<{9, 10, 12, 13}, {5, 9, 10, 14}, {9, 10, 12, 13}, {5, 9, 10, 14}>>)
  OBVIOUS
<1>9. Good(<<{4, 5, 6, 9}, {6, 9, 10, 14}, {9, 12, 13, 14}, {4, 8, 9, 12}>>)
  OBVIOUS
<1> HIDE DEF Good
<1>10. Good(OnBlocks[k])
  <2>1. CASE k = "Square"
    <3>1. OnBlocks[k] = <<{5, 6, 9, 10}, {5, 6, 9, 10}, {5, 6, 9, 10}, {5, 6, 9, 10}>>
      BY <2>1 DEF OnBlocks
    <3> QED
      BY ONLY <3>1, <1>3
  <2>2. CASE k = "I"
    <3>1. OnBlocks[k] = <<{1, 5, 9, 13}, {4, 5, 6, 7}, {1, 5, 9, 13}, {4, 5, 6, 7}>>
      BY <2>2 DEF OnBlocks
    <3> QED
      BY ONLY <3>1, <1>4
  <2>3. CASE k = "L"
    <3>1. OnBlocks[k] = <<{4, 8, 12, 13}, {4, 5, 6, 8}, {5, 6, 10, 14}, {6, 8, 9, 10}>>
      BY <2>3 DEF OnBlocks
    <3> QED
      BY ONLY <3>1, <1>5
  <2>4. CASE k = "ReverseL"
    <3>1. OnBlocks[k] = <<{5, 9, 12, 13}, {4, 8, 9, 10}, {4, 5, 8, 12}, {8, 9, 10, 14}>>
      BY <2>4 DEF OnBlocks
    <3> QED
      BY ONLY <3>1, <1>6
  <2>5. CASE k = "Z"
    <3>1. OnBlocks[k] = <<{8, 9, 13, 14}, {5, 8, 9, 12}, {8, 9, 13, 14}, {5, 8, 9, 12}>>
      BY <2>5 DEF OnBlocks
    <3> QED
      BY ONLY <3>1, <1>7
  <2>6. CASE k = "ReverseZ"
    <3>1. OnBlocks[k] = <<{9, 10, 12, 13}, {5, 9, 10, 14}, {9, 10, 12, 13}, {5, 9, 10, 14}>>
      BY <2>6 DEF OnBlocks
    <3> QED
      BY ONLY <3>1, <1>8
  <2>7. CASE k = "T"
    <3>1. OnBlocks[k] = <<{4, 5, 6, 9}, {6, 9, 10, 14}, {9, 12, 13, 14}, {4, 8, 9, 12}>>
      BY <2>7 DEF OnBlocks
    <3> QED
      BY ONLY <3>1, <1>9
  <2> QED
    BY <1>1, <2>1, <2>2, <2>3, <2>4, <2>5, <2>6, <2>7
<1> QED
  BY <1>2, <1>10 DEF Good

\* Column and row of a block of a 4 x 4 square.
LEMMA InSquare ==
  ASSUME NEW b \in 0..15
  PROVE  b % 4 \in 0..3 /\ b \div 4 \in 0..3 /\ (b >= 4 => b \div 4 >= 1)
OBVIOUS

\* The units of q lines and a part of the next one.
LEMMA InLines ==
  ASSUME NEW w \in Nat, NEW n \in Nat, NEW q \in Nat, q + 2 <= n,
         NEW c \in Nat, c <= w, w > 0
  PROVE  q * w + c \in 0..(w * n - 1)
<1>1. PICK m \in Nat : n = m + 2
  BY Z3
<1>2. q \in 0..m
  BY <1>1
<1>3. w * q \in Nat /\ w * q <= w * m
  BY <1>2, Product
<1>4. w * n = w * m + w + w
  BY <1>1
<1>5. w * m \in Nat /\ q * w = w * q
  OBVIOUS
<1>6. PICK wq \in Nat, wm \in Nat : wq = w * q /\ wm = w * m
  BY <1>3, <1>5
<1>7. wq + c <= wm + w + w - 1
  BY <1>3, <1>6
<1> QED
  BY <1>4, <1>5, <1>6, <1>7

\* A block inside the sides of the screen, no lower than two rows below the
\* container, is painted inside the buffer.
LEMMA BlockFits ==
  ASSUME NEW c \in Nat, c < Width, NEW r \in Nat, r <= LastRow + 2,
         NEW l \in 0..(BlockLines - 1), NEW d \in {0, 1}
  PROVE  At(<<c, r>>) + l * Width + d \in Buffer
<1>0. /\ LastRow \in Nat /\ Top \in Nat /\ Width \in Nat /\ Lines \in Nat /\ BlockLines \in Nat
      /\ BlockLines > 0 /\ Width > 0 /\ Top + (LastRow + 3) * BlockLines < Lines
  BY TetrisAssumption
<1>1. BlockLines * (LastRow + 2) \in Nat
  BY <1>0
<1>2. r \in 0..(LastRow + 2) /\ LastRow + 2 \in Nat
  BY <1>0
<1>3. BlockLines * r \in Nat /\ BlockLines * r <= BlockLines * (LastRow + 2)
  BY <1>0, <1>2, Product
<1>4. (LastRow + 3) * BlockLines = BlockLines * (LastRow + 2) + BlockLines
  BY <1>0
<1>5. r * BlockLines = BlockLines * r
  BY <1>0
<1>6. PICK br \in Nat, bm \in Nat : br = r * BlockLines /\ bm = BlockLines * (LastRow + 2)
  BY <1>1, <1>3, <1>5
<1>7. br <= bm /\ Top + bm + BlockLines < Lines
  BY <1>0, <1>3, <1>4, <1>5, <1>6
<1>8. PICK q \in Nat : q = Top + br + l
  BY <1>0
<1>9. q + 2 <= Lines
  BY <1>0, <1>7, <1>8
<1>10. q * Width + (c + d) \in Buffer
  <2>1. c + d \in Nat /\ c + d <= Width
    BY <1>0
  <2> QED
    BY <1>0, <1>9, <2>1, InLines DEF Buffer
<1>11. q * Width = (Top + br) * Width + l * Width
  BY <1>0, <1>8
<1>12. At(<<c, r>>) = (Top + br) * Width + c
  BY <1>6 DEF At
<1>13. (Top + br) * Width \in Nat /\ l * Width \in Nat
  BY <1>0
<1>14. PICK tw \in Nat, lw \in Nat : tw = (Top + br) * Width /\ lw = l * Width
  BY <1>13
<1>15. At(<<c, r>>) + l * Width + d = q * Width + (c + d)
  BY <1>11, <1>12, <1>14
<1> QED
  BY <1>10, <1>15

\* A piece inside the sides of the screen, which has moved down only where there was
\* room, is painted inside the buffer.
LEMMA PieceFits ==
  ASSUME NEW k \in AllKinds, NEW o \in 0..3, NEW px \in 0..(Width - 4), NEW py \in Nat,
         py = 0 \/ py + 1 <= LastRow
  PROVE  Painted(Blocks(k, o, px, py)) \subseteq Buffer
<1>0. LastRow \in Nat /\ LastRow > 0 /\ Width \in Nat
  BY TetrisAssumption
<1> SUFFICES ASSUME NEW b \in OnBlocks[k][o + 1], NEW l \in 0..(BlockLines - 1), NEW d \in {0, 1}
             PROVE  At(<<px + (b % 4), py + (b \div 4)>>) + l * Width + d \in Buffer
  BY DEF Painted, Blocks
<1>1. b % 4 \in 0..3 /\ b \div 4 \in 0..3
  BY ShapeIs, InSquare
<1>2. PICK c \in 0..3, r \in 0..3 : c = b % 4 /\ r = b \div 4
  BY <1>1
<1>3. px + c \in Nat /\ px + c < Width /\ py + r \in Nat /\ py + r <= LastRow + 2
  BY <1>0
<1>4. At(<<px + c, py + r>>) + l * Width + d \in Buffer
  BY <1>3, BlockFits
<1> QED
  BY <1>2, <1>4

\* A block that can move down leaves room for the row that every orientation has.
LEMMA DownLeavesRoom ==
  ASSUME PlaceInv, ClearDown
  PROVE  y + 2 <= LastRow
<1>0. LastRow \in Nat /\ y \in Nat
  BY TetrisAssumption DEF PlaceInv
<1>1. PICK b \in OnBlocks[kind][orientation + 1] : b >= 4
  BY ShapeIs DEF PlaceInv
<1>2. b \in 0..15
  BY ShapeIs DEF PlaceInv
<1>3. b \div 4 \in 0..3 /\ b \div 4 >= 1
  BY <1>1, <1>2, InSquare
<1>4. PICK r \in 1..3 : r = b \div 4
  BY <1>3
<1>5. <<x + (b % 4), y + 1 + r>> \in Blocks(kind, orientation, x, y + 1)
  BY <1>4 DEF Blocks
<1>6. y + 1 + r <= LastRow
  BY <1>5 DEF ClearDown, Below, AboveBottom
<1> QED
  BY <1>0, <1>6

\* Painting is one more column, and distributes over the pieces.
LEMMA PaintedOf ==
  ASSUME NEW a, NEW b
  PROVE  Painted(a \cup b) = Painted(a) \cup Painted(b)
BY DEF Painted

\* A piece that is cleared in one place and drawn in another leaves nothing behind.
LEMMA Redrawn ==
  ASSUME NEW buf, NEW rest, NEW here, NEW there, NEW isBlack \in BOOLEAN,
         buf \subseteq rest \cup Painted(here)
  PROVE  /\ Drawn(Cleared(buf, here), there, isBlack) \subseteq rest \cup Painted(there)
         /\ isBlack \/ Painted(there) \subseteq Drawn(Cleared(buf, here), there, isBlack)
BY DEF Drawn, Cleared

\* The first piece.
LEMMA TetrisStart == Init => TetrisInv
<1> SUFFICES ASSUME Init PROVE TetrisInv
  OBVIOUS
<1>1. PlaceInv
  BY TetrisAssumption DEF Init, PlaceInv, AllKinds
<1>2. stack = {}
  BY DEF Init
<1>3. PICK g \in SUBSET Garbage : buffer = Drawn(g, Here, black)
  BY DEF Init
<1>4. buffer \subseteq Garbage \cup Painted(Here) /\ (black \/ Painted(Here) \subseteq buffer)
  BY <1>1, <1>3 DEF Drawn, Cleared, PlaceInv
<1>5. Painted(stack) = {}
  BY <1>2 DEF Painted
<1> QED
  BY <1>1, <1>4, <1>5 DEF TetrisInv

\* The shape is cleared, changed and drawn.
LEMMA MoveKeeps ==
  ASSUME TetrisInv, NEW o \in 0..3, NEW px \in (InitCol - MaxAside)..(InitCol + MaxAside),
         NEW py \in Nat, py = 0 \/ py + 1 <= LastRow, MoveTo(o, px, py)
  PROVE  TetrisInv'
<1>1. /\ orientation' = o /\ x' = px /\ y' = py
      /\ kind' = kind /\ black' = black /\ stack' = stack /\ pieces' = pieces
      /\ buffer' = Drawn(Cleared(buffer, Here), Blocks(kind, o, px, py), black)
  BY DEF MoveTo
<1>2. PlaceInv'
  BY <1>1 DEF TetrisInv, PlaceInv
<1>3. Here' = Blocks(kind, o, px, py)
  BY <1>1 DEF Here
<1>4. buffer \subseteq (Garbage \cup Painted(stack)) \cup Painted(Here) /\ black \in BOOLEAN
  BY DEF TetrisInv, PlaceInv
<1>5. /\ buffer' \subseteq (Garbage \cup Painted(stack)) \cup Painted(Here')
      /\ black \/ Painted(Here') \subseteq buffer'
  BY <1>1, <1>3, <1>4, Redrawn
<1>6. Painted(stack') \subseteq Buffer
  BY <1>1 DEF TetrisInv
<1>7. TetrisInv' <=> /\ PlaceInv' /\ Painted(stack') \subseteq Buffer
                     /\ buffer' \subseteq Garbage \cup Painted(stack') \cup Painted(Here')
                     /\ black' \/ Painted(Here') \subseteq buffer'
  BY DEF TetrisInv, Painted, At, Buffer
<1> QED
  BY <1>1, <1>2, <1>5, <1>6, <1>7

\* next_shape: the piece stays where it is, with the pieces before it.
LEMMA NextShapeKeeps ==
  ASSUME TetrisInv, NextShape
  PROVE  TetrisInv'
<1>1. /\ kind' \in Kinds /\ orientation' = 0 /\ x' = InitCol /\ y' = 0 /\ black' \in Blacks
      /\ buffer' = Drawn(Drawn(Cleared(buffer, Here), Here, black), Blocks(kind', 0, InitCol, 0), black')
      /\ stack' = stack \cup Here /\ pieces' = pieces + 1 /\ pieces < MaxPieces /\ Inside
  BY DEF NextShape
<1>2. PlaceInv'
  <2>1. /\ kind' \in AllKinds /\ black' \in BOOLEAN /\ InitCol \in Nat /\ MaxAside \in Nat
        /\ MaxPieces \in Nat
    BY <1>1, TetrisAssumption
  <2>2. pieces + 1 \in 1..MaxPieces
    BY <1>1, <2>1 DEF TetrisInv, PlaceInv
  <2> QED
    BY <1>1, <2>1, <2>2 DEF PlaceInv
<1>3. Here' = Blocks(kind', 0, InitCol, 0)
  BY <1>1 DEF Here
<1>4. /\ buffer \subseteq (Garbage \cup Painted(stack)) \cup Painted(Here)
      /\ black \in BOOLEAN /\ black' \in BOOLEAN /\ Painted(stack) \subseteq Buffer
  BY <1>2 DEF TetrisInv, PlaceInv
<1>5. Drawn(Cleared(buffer, Here), Here, black) \subseteq (Garbage \cup Painted(stack)) \cup Painted(Here)
  BY <1>4, Redrawn
<1>6. /\ buffer' \subseteq (Garbage \cup Painted(stack)) \cup Painted(Here) \cup Painted(Here')
      /\ black' \/ Painted(Here') \subseteq buffer'
  BY <1>1, <1>3, <1>4, <1>5 DEF Drawn, Cleared
<1>7. Painted(stack \cup Here) = Painted(stack) \cup Painted(Here)
  BY PaintedOf
<1>8. Painted(stack') = Painted(stack) \cup Painted(Here)
  BY <1>1, <1>7
<1>9. Painted(stack') \subseteq Buffer
  BY <1>1, <1>4, <1>8 DEF Inside
<1>10. buffer' \subseteq Garbage \cup Painted(stack') \cup Painted(Here')
  BY <1>6, <1>8
<1>11. TetrisInv' <=> /\ PlaceInv' /\ Painted(stack') \subseteq Buffer
                      /\ buffer' \subseteq Garbage \cup Painted(stack') \cup Painted(Here')
                      /\ black' \/ Painted(Here') \subseteq buffer'
  BY DEF TetrisInv, Painted, At, Buffer
<1> QED
  BY <1>2, <1>6, <1>9, <1>10, <1>11

\* Every key and every drop keeps the invariant.
LEMMA TetrisStep == TetrisInv /\ [Next]_tetrisVars => TetrisInv'
<1> SUFFICES ASSUME TetrisInv, [Next]_tetrisVars PROVE TetrisInv'
  OBVIOUS
<1>0. /\ PlaceInv /\ LastRow \in Nat /\ InitCol \in Nat /\ MaxAside \in Nat
      /\ orientation \in 0..3 /\ x \in (InitCol - MaxAside)..(InitCol + MaxAside)
      /\ y \in Nat /\ (y = 0 \/ y + 1 <= LastRow)
  BY TetrisAssumption DEF TetrisInv, PlaceInv
<1>1. CASE MoveDown
  <2>1. ClearDown /\ MoveTo(orientation, x, y + 1)
    BY <1>1 DEF MoveDown
  <2>2. y + 2 <= LastRow
    BY <1>0, <2>1, DownLeavesRoom
  <2>3. y + 1 \in Nat /\ (y + 1) + 1 <= LastRow
    BY <1>0, <2>2
  <2> QED
    BY <1>0, <2>1, <2>3, MoveKeeps
<1>2. CASE Stay
  BY <1>0, <1>2, MoveKeeps DEF Stay
<1>3. CASE MoveLeft
  <2>1. x - 1 \in (InitCol - MaxAside)..(InitCol + MaxAside) /\ MoveTo(orientation, x - 1, y)
    BY <1>0, <1>3 DEF MoveLeft
  <2> QED
    BY <1>0, <2>1, MoveKeeps
<1>4. CASE MoveRight
  <2>1. x + 1 \in (InitCol - MaxAside)..(InitCol + MaxAside) /\ MoveTo(orientation, x + 1, y)
    BY <1>0, <1>4 DEF MoveRight
  <2> QED
    BY <1>0, <2>1, MoveKeeps
<1>5. CASE Rotate
  <2>1. (orientation + 1) % 4 \in 0..3 /\ MoveTo((orientation + 1) % 4, x, y)
    BY <1>0, <1>5 DEF Rotate
  <2> QED
    BY <1>0, <2>1, MoveKeeps
<1>6. CASE NextShape
  BY <1>6, NextShapeKeeps
<1>7. CASE UNCHANGED tetrisVars
  <2>1. /\ kind' = kind /\ orientation' = orientation /\ x' = x /\ y' = y /\ black' = black
        /\ buffer' = buffer /\ stack' = stack /\ pieces' = pieces
    BY <1>7 DEF tetrisVars, shape
  <2> QED
    BY <2>1 DEF TetrisInv, PlaceInv, Painted, At, Buffer, Here, Blocks
<1> QED
  BY <1>1, <1>2, <1>3, <1>4, <1>5, <1>6, <1>7 DEF Next, Key, Drop

\* The piece is no lower than the checks of move() leave it, and the buffer shows the
\* pieces, in every run.
THEOREM TetrisInvariance == TetrisSpec => []TetrisInv
BY TetrisStart, TetrisStep, PTL DEF TetrisSpec

\* No move leaves a trail, for any shapes, any container and any sequence of keys and
\* drops, also across the sides of the screen (shapes.cc, tetris.h).
THEOREM BufferShowsGame == TetrisSpec => []BufferIsGame
<1>1. ASSUME TetrisInv PROVE BufferIsGame
  <2>1. PlaceInv /\ LastRow \in Nat /\ LastRow > 0 /\ Garbage \subseteq Buffer
    BY <1>1, TetrisAssumption DEF TetrisInv
  <2>2. y \in 0..LastRow
    BY <2>1 DEF PlaceInv
  <2>3. Inside => buffer \subseteq Buffer
    BY <1>1, <2>1 DEF TetrisInv, Inside
  <2>4. TetrisTypeOK
    BY <1>1, <2>1, <2>2, <2>3 DEF TetrisTypeOK, TetrisInv, PlaceInv
  <2> QED
    BY <1>1, <2>4 DEF BufferIsGame, TetrisInv
<1> QED
  BY <1>1, TetrisInvariance, PTL

\* It takes steps to a side to draw outside the buffer: between the sides of the screen
\* no rotation and no move down does (tetris.h:149-168 and 219-252).
THEOREM OutOnlySideways == TetrisSpec => []OnlySidewaysOut
<1>1. ASSUME TetrisInv PROVE OnlySidewaysOut
  BY <1>1, PieceFits DEF TetrisInv, PlaceInv, OnlySidewaysOut, Inside, Here
<1> QED
  BY <1>1, TetrisInvariance, PTL
=============================================================================
