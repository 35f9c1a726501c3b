------------------------------ MODULE MC_JePool ------------------------------
(* Two threads on one pool of four chunks, three of them usable, that can be *)
(* extended by three more at an address that is not adjacent.  One thread    *)
(* extends, checks and moves arena chunks; the other makes huge allocations. *)
EXTENDS JePool, TLC

CONSTANTS ta, tb

MCAreas == <<[addr |-> 0, size |-> 40], [addr |-> 60, size |-> 30]>>
MCOther == {[addr |-> 100, size |-> 30]}
MCOps == (ta :> {"choose", "extend", "check", "arena", "exit"}) @@
         (tb :> {"choose", "malloc", "calloc", "aligned", "ralloc", "free", "check"})
MCCalls == (ta :> 2) @@ (tb :> 3)
=============================================================================
