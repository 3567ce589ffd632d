----------------------------- MODULE MCKeyboard -----------------------------
(***************************************************************************)
(* Keyboard for TLC: a ring of three or four slots, which one or two keys  *)
(* fill and overrun, and a count of repeats that wraps after a few.        *)
(***************************************************************************)
EXTENDS Keyboard
=============================================================================
