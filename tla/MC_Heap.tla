------------------------------ MODULE MC_Heap ------------------------------
(* A zone of a few chunks of two bytes each.                               *)
EXTENDS Heap
=============================================================================
