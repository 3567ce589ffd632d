------------------------------ MODULE MCTetris ------------------------------
(***************************************************************************)
(* Tetris for TLC: a container of a few rows on a screen with room for two *)
(* pieces side by side or on each other, and steps enough to either side   *)
(* to leave the buffer before its first line and behind its last one.      *)
(***************************************************************************)
EXTENDS Tetris

\* One block that is painted before the game starts, below the first piece.
Dirt == {At(<<InitCol + 1, LastRow>>)}
=============================================================================
