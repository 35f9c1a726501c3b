--------------------------- MODULE MC_ContainerBst ---------------------------
(* A tree of up to four nodes.                                              *)
EXTENDS ContainerBst
=============================================================================
