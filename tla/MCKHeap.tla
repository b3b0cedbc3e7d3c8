------------------------------ MODULE MCKHeap ------------------------------
(***************************************************************************)
(* KHeap on a heap of small pages.                                         *)
(***************************************************************************)
EXTENDS KHeap, TLC
=============================================================================
