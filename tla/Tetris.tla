------------------------------- MODULE Tetris -------------------------------
(***************************************************************************)
(* The game (tetris.h, shapes.cc) on its double buffer. The buffer is      *)
(* linear: a pixel that is off one side of a line is one of the line next  *)
(* to it, or of none (graphics.cc:13-22).                                  *)
(*                                                                         *)
(* Blocks are four pixels wide and begin at multiples of four pixels, so   *)
(* that a line is Width units, of which only the first pixel counts: all   *)
(* that a collision check looks at is the top left pixel of a block.       *)
(* fill_block draws five pixels across, on each line of a block: the first *)
(* pixel of its unit and of the next one. Column c and row r of a block    *)
(* stand for the pixel 4c, 10 + 4r.                                        *)
(***************************************************************************)
EXTENDS Integers, FiniteSets

CONSTANTS
  Kinds,                 \* the shapes that rng may choose from
  LastRow,               \* the last row of the container (con); its first is 0
  InitCol,               \* init_x
  Top,                   \* init_y: the first line of row 0
  Width, Lines,          \* WIDTH, in units of four pixels, and HEIGHT
  BlockLines,            \* BLOCK_SIZE: the lines of a block
  Blacks,                \* may the color of a shape be Black? (jiffies % 256 = 0)
  Garbage,               \* units that new leaves painted in double_buffer
  MaxAside,              \* bound: columns that a piece goes to either side
  MaxPieces              \* bound: pieces of a game

AllKinds == {"Square", "I", "L", "ReverseL", "Z", "ReverseZ", "T"}

\* The units of double_buffer.
Buffer == 0..(Width * Lines - 1)

\* The constants of the code: 80 units, 200 lines, 4 lines a block, and row 0 at
\* line 10. Two lines are left below row LastRow + 2.
ASSUME TetrisAssumption ==
  /\ Kinds \subseteq AllKinds
  /\ {LastRow, InitCol, Top, Width, Lines, BlockLines, MaxAside, MaxPieces} \subseteq Nat
  /\ LastRow > 0 /\ BlockLines > 0 /\ MaxPieces > 0
  /\ InitCol + 4 <= Width /\ Top + (LastRow + 3) * BlockLines < Lines
  /\ Garbage \subseteq Buffer
  /\ Blacks \subseteq BOOLEAN

VARIABLES
  buffer,                            \* units whose first pixel is not Black
  kind, orientation, x, y, black,    \* curr_shape; is its color Black?
  stack,                             \* history: the blocks of the pieces before
  pieces                             \* history: how many pieces there were

shape == <<kind, orientation, x, y, black>>
tetrisVars == <<buffer, shape, stack, pieces>>

\* on_blocks of a shape: its four orientations, as block numbers of a 4 x 4 square.
OnBlocks == [
  Square   |-> <<{5, 6, 9, 10}, {5, 6, 9, 10}, {5, 6, 9, 10}, {5, 6, 9, 10}>>,
  I        |-> <<{1, 5, 9, 13}, {4, 5, 6, 7}, {1, 5, 9, 13}, {4, 5, 6, 7}>>,
  L        |-> <<{4, 8, 12, 13}, {4, 5, 6, 8}, {5, 6, 10, 14}, {6, 8, 9, 10}>>,
  ReverseL |-> <<{5, 9, 12, 13}, {4, 8, 9, 10}, {4, 5, 8, 12}, {8, 9, 10, 14}>>,
  Z        |-> <<{8, 9, 13, 14}, {5, 8, 9, 12}, {8, 9, 13, 14}, {5, 8, 9, 12}>>,
  ReverseZ |-> <<{9, 10, 12, 13}, {5, 9, 10, 14}, {9, 10, 12, 13}, {5, 9, 10, 14}>>,
  T        |-> <<{4, 5, 6, 9}, {6, 9, 10, 14}, {9, 12, 13, 14}, {4, 8, 9, 12}>>]

\* The blocks of a piece at px, py: to_x and to_y of its on blocks.
Blocks(k, o, px, py) ==
  {<<px + (b % 4), py + (b \div 4)>> : b \in OnBlocks[k][o + 1]}
Here == Blocks(kind, orientation, x, y)

\* offset of the top left pixel of a block; nothing checks that it is in the buffer.
At(b) == (Top + b[2] * BlockLines) * Width + b[1]

\* Variant with a bug: the shape is not cleared.
NotCleared(buf, blocks) == buf

\* What fill_block paints of the blocks, clear_shape, and draw_shape in a color.
Painted(blocks) ==
  {At(b) + l * Width + d : b \in blocks, l \in 0..(BlockLines - 1), d \in {0, 1}}
Cleared(buf, blocks) == buf \ Painted(blocks)
Drawn(buf, blocks, isBlack) ==
  IF isBlack THEN Cleared(buf, blocks) ELSE buf \cup Painted(blocks)

\* The piece was drawn inside the buffer. What other memory becomes when it was
\* not is undefined: then the model stops.
Inside == Painted(Here) \subseteq Buffer

\* The constructor. The color of a shape is jiffies % 256 whatever color it is
\* given (shapes.h:71), and 0 is Black. What is in the new buffer is not cleared.
Init ==
  /\ kind = "I" /\ orientation = 0 /\ x = InitCol /\ y = 0 /\ black \in Blacks
  /\ \E g \in SUBSET Garbage : buffer = Drawn(g, Here, black)
  /\ stack = {} /\ pieces = 1

-----------------------------------------------------------------------------
\* A move of the shapes: clear, change, draw.
MoveTo(o, px, py) ==
  /\ orientation' = o /\ x' = px /\ y' = py
  /\ buffer' = Drawn(Cleared(buffer, Here), Blocks(kind, o, px, py), black)
  /\ UNCHANGED <<kind, black, stack, pieces>>

\* Variant with a bug: the check of the bottom is one row too low.
BelowBottom(b) == b[2] <= LastRow + 1

\* y_cor < con[2][1].
AboveBottom(b) == b[2] <= LastRow

\* clear_down: the piece is cleared, the blocks one row below are looked at, and the
\* piece is drawn again. The answer is true, or false: what is read from outside the
\* buffer may be Black or not.
Below == Blocks(kind, orientation, x, y + 1)
ClearDown ==
  \A b \in Below : AboveBottom(b) /\ (At(b) \in Buffer => At(b) \notin Cleared(buffer, Here))
NotClearDown ==
  \E b \in Below : (AboveBottom(b) /\ At(b) \in Buffer) => At(b) \in Cleared(buffer, Here)

\* move(DOWN), by a key or by play_game; and when it does not move the piece.
MoveDown == Inside /\ ClearDown /\ MoveTo(orientation, x, y + 1)
Stay == Inside /\ NotClearDown /\ MoveTo(orientation, x, y)

\* move(LEFT), move(RIGHT) and move(ROTATE): `if (true)', no check is made.
MoveLeft == Inside /\ x > InitCol - MaxAside /\ MoveTo(orientation, x - 1, y)
MoveRight == Inside /\ x < InitCol + MaxAside /\ MoveTo(orientation, x + 1, y)
Rotate == Inside /\ MoveTo((orientation + 1) % 4, x, y)

\* Variant with a bug: next_shape() is not called.
NextShapeNot == NotClearDown /\ UNCHANGED tetrisVars

\* play_game: the piece did not move down, and next_shape() takes another.
NextShape ==
  /\ Inside /\ NotClearDown /\ pieces < MaxPieces
  /\ kind' \in Kinds /\ orientation' = 0 /\ x' = InitCol /\ y' = 0
  /\ black' \in Blacks
  /\ buffer' = Drawn(Drawn(Cleared(buffer, Here), Here, black),
                     Blocks(kind', 0, InitCol, 0), black')
  /\ stack' = stack \cup Here
  /\ pieces' = pieces + 1

Key == MoveDown \/ Stay \/ MoveLeft \/ MoveRight \/ Rotate
Drop == MoveDown \/ NextShape

Next == Key \/ Drop

TetrisSpec == Init /\ [][Next]_tetrisVars

\* The time to drop comes again and again (DropsKeepComing of module Clock).
FairTetrisSpec == TetrisSpec /\ WF_tetrisVars(Drop)
-----------------------------------------------------------------------------
\* The type of every variable.
TetrisTypeOK ==
  /\ kind \in AllKinds /\ orientation \in 0..3 /\ black \in BOOLEAN
  /\ x \in (InitCol - MaxAside)..(InitCol + MaxAside) /\ y \in 0..LastRow
  /\ pieces \in 1..MaxPieces
  /\ Painted(stack) \subseteq Buffer
  /\ Inside => buffer \subseteq Buffer

\* The buffer shows the piece, and nothing else but what the pieces before it and
\* the allocation have left: no move leaves a trail, whatever the piece passes over,
\* also where it goes from one line into the next, and whatever checks came before
\* (shapes.cc:35-86, tetris.h:149-168).
BufferIsGame ==
  /\ TetrisTypeOK
  /\ black \/ Painted(Here) \subseteq buffer
  /\ buffer \subseteq Garbage \cup Painted(stack) \cup Painted(Here)

\* A piece that is rotated at the bottom leaves the container (nothing checks it)
\* but not double_buffer, which goes on for two more rows of blocks: no shape grows
\* by more than that. It takes steps to a side, out of the screen, to draw outside
\* the buffer (tetris.h:164 and 219-252, the tables of shapes.cc).
OnlySidewaysOut == x \in 0..(Width - 4) => Inside

\* Every piece comes to rest, unless one is taken out of the buffer: no sequence of
\* keys can keep it up (tetris.h:257-266).
PiecesSettle == <>(pieces = MaxPieces \/ ~Inside)

\* "now check if occupied" (tetris.h:159): a piece that is clear of the others does
\* not move down onto one of them.
DownSeesTheStack ==
  [][MoveDown => (Here \cap stack = {} => Here' \cap stack = {})]_tetrisVars
=============================================================================
