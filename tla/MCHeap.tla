------------------------------- MODULE MCHeap -------------------------------
(***************************************************************************)
(* Heap for TLC: room for five of the smallest blocks, requests of two     *)
(* sizes, and a search that gives up before the end of the list. What the  *)
(* callers store looks like the size of an available block.                *)
(***************************************************************************)
EXTENDS Heap
=============================================================================
