------------------------------ MODULE MCClock ------------------------------
(***************************************************************************)
(* Clock for TLC: a counter of three bits, which wraps in the middle of    *)
(* waits that are shorter than its range, from every start.                *)
(***************************************************************************)
EXTENDS Clock
=============================================================================
