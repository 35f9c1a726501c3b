----------------------------- MODULE MC_JeArena -----------------------------
(* The arena, the bins and the trees: a behaviour explores one arena         *)
(* (JeArena), the layout of the bins and their bitmaps (JeBins), or one      *)
(* red-black tree (JeTree).                                                  *)
(*                                                                           *)
(* arena: two threads, two chunks of three pages, one bin with two-page      *)
(* runs.  One thread makes calls of every kind, the other fills and empties  *)
(* the bin.                                                                  *)
(* bins: the size classes and constants of the 64 bit build, and bitmaps of  *)
(* up to four levels.                                                        *)
(* tree: eight nodes, inserted and removed in any order.                     *)
EXTENDS JeArena, JeBins, JeTree

CONSTANTS ta, tb

VARIABLE layer

MCOps == (ta :> {"large", "free", "ralloc", "small", "purge"}) @@ (tb :> {"small", "free"})
MCCalls == (ta :> 2) @@ (tb :> 4)
MCClasses == <<8, 16, 32, 48, 64, 80, 96, 112, 128, 160, 192, 224, 256, 320, 384, 448, 512, 640,
               768, 896, 1024, 1280, 1536, 1792, 2048, 2560, 3072, 3584>>

MCInit ==
    /\ Init
    /\ TreeInit
    /\ \/ layer \in {"arena", "tree"} /\ boot = [bins |-> <<>>] /\ bmp = NoBitmap
       \/ layer = "bins" /\ BinsInit

MCNext ==
    \/ layer = "arena" /\ Next /\ UNCHANGED <<layer, bins_vars, tree_vars>>
    \/ layer = "bins" /\ BinsNext /\ UNCHANGED <<layer, vars, tree_vars>>
    \/ layer = "tree" /\ TreeNext /\ UNCHANGED <<layer, vars, bins_vars>>

MCSpec == MCInit /\ [][MCNext]_<<layer, vars, bins_vars, tree_vars>>

\* The run of every size class is laid out soundly (BinsSound, arena.c:2466).
RunsLaidOut == layer = "bins" => BinsSound

\* The red-black tree stays balanced and finds its nodes (TreeSound, rb.h:516).
TreesSound == layer = "tree" => TreeSound
=============================================================================
