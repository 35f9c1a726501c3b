---------------------------- MODULE ContainerBst ----------------------------
(***************************************************************************)
(* The binary search tree of a bucket (src/libpmemobj/container_bst.c).    *)
(* bst_get_rm_eq and bst_get_rm_ge run under the container's lock,         *)
(* bst_add does not, and the allocator calls both from any thread.         *)
(*                                                                         *)
(* Nodes are numbered from 1; 0 is NULL, and node 0 stands for the         *)
(* container, whose left link is the root.  A key determines its value     *)
(* (it contains the chunk's unique id), so values are left out.  Memory of *)
(* a freed node keeps its contents until it is allocated again.            *)
(***************************************************************************)
EXTENDS Integers, FiniteSets

CONSTANTS
  Threads,
  Keys,       \* the keys, each owned by a caller or in the container
  NNode,      \* nodes malloc can return
  MaxOps      \* bound: operations started

NoKey == -1
ASSUME BstAssumption ==
  Keys \subseteq Nat /\ NNode \in Nat /\ Cardinality(Keys) <= NNode /\ MaxOps \in Nat

VARIABLES
  link,       \* the children of every node; link[0].left is the root
  nkey,       \* the key of every node
  parent,
  live,       \* the nodes that are allocated
  holder,     \* whether a thread holds the lock
  out,        \* the keys the callers own
  pc, key,    \* the operation in progress and its key
  at,         \* bst_remove: the node
  up, side,   \* the link bst_add will set, or bst_remove will replace
  overlap,    \* whether another operation was in progress during this one
  dead,       \* a NULL pointer was dereferenced
  nops

tree  == <<link, nkey, parent, live>>
calls == <<pc, key, at, up, side, overlap>>
vars  == <<tree, holder, out, calls, dead, nops>>

Nodes == 1 .. NNode
Sides == {"left", "right"}

\* The nodes reachable from node n, itself included.
Below(n) ==
  LET upto[i \in 0 .. NNode] ==
        IF i = 0 THEN {n}
        ELSE upto[i - 1] \cup {link[m][s] : m \in upto[i - 1] \ {0}, s \in Sides}
  IN  upto[NNode] \ {0}
Root   == link[0].left
InTree == Below(Root)

Init ==
  /\ link = [n \in 0 .. NNode |-> [left |-> 0, right |-> 0]]
  /\ nkey = [n \in Nodes |-> NoKey] /\ parent = [n \in Nodes |-> 0] /\ live = {}
  /\ holder = FALSE /\ out = Keys
  /\ pc = [t \in Threads |-> "idle"] /\ key = [t \in Threads |-> NoKey]
  /\ at = [t \in Threads |-> 0] /\ up = at /\ side = [t \in Threads |-> "left"]
  /\ overlap = [t \in Threads |-> FALSE]
  /\ dead = FALSE /\ nops = 0

Goto(t, from, to) == ~ dead /\ pc[t] = from /\ pc' = [pc EXCEPT ![t] = to]

Enter(t, k) ==
  LET others == {u \in Threads \ {t} : pc[u] # "idle"}
  IN  /\ nops < MaxOps /\ nops' = nops + 1
      /\ key' = [key EXCEPT ![t] = k]
      /\ overlap' = [u \in Threads |-> IF u = t THEN others # {} ELSE overlap[u] \/ u \in others]

Leave(t) ==
  /\ key' = [key EXCEPT ![t] = NoKey] /\ overlap' = [overlap EXCEPT ![t] = FALSE]
  /\ at' = [at EXCEPT ![t] = 0] /\ up' = [up EXCEPT ![t] = 0] /\ side' = [side EXCEPT ![t] = "left"]

\* bst_add starts at the root; it takes no lock.
bst_add(t) ==
  \E k \in out :
    /\ Goto(t, "idle", "walk") /\ Enter(t, k) /\ out' = out \ {k}
    /\ UNCHANGED <<tree, holder, at, up, side, dead>>

\* One turn of its loop: the link is not NULL, and the search goes on below.
bst_add_walk(t) ==
  LET n == link[up[t]][side[t]]
  IN  /\ Goto(t, "walk", "walk") /\ n # 0
      /\ up' = [up EXCEPT ![t] = n]
      /\ side' = [side EXCEPT ![t] = IF nkey[n] > key[t] THEN "left" ELSE "right"]
      /\ UNCHANGED <<tree, holder, out, key, at, overlap, dead, nops>>

\* The link was NULL: bst_create_node.
bst_create_node(t) ==
  /\ Goto(t, "walk", "link") /\ link[up[t]][side[t]] = 0
  /\ UNCHANGED <<tree, holder, out, key, at, up, side, overlap, dead, nops>>

\* What malloc may return: memory of any freed node, or memory never used.
Free ==
  LET unused == {n \in Nodes : nkey[n] = NoKey}
  IN  {n \in Nodes \ live : n \in unused => \A m \in unused : n <= m}

\* The node is stored in the link, whatever the link holds by now.
bst_add_link(t) ==
  \E n \in Free :
    /\ Goto(t, "link", "idle")
    /\ live' = live \cup {n}
    /\ nkey' = [nkey EXCEPT ![n] = key[t]]
    /\ parent' = [parent EXCEPT ![n] = up[t]]
    /\ link' = [[link EXCEPT ![n] = [left |-> 0, right |-> 0]] EXCEPT ![up[t]][side[t]] = n]
    /\ Leave(t) /\ UNCHANGED <<holder, out, dead, nops>>

\* bst_find_node: the node with the key, else (greater) the last one on the
\* way down whose key is greater.
bst_find_node(k, greater) ==
  LET path[i \in 0 .. NNode] ==   \* the node after i turns of the loop
        IF i = 0 THEN Root
        ELSE LET n == path[i - 1]
             IN  IF n = 0 \/ nkey[n] = k THEN n
                 ELSE IF nkey[n] > k THEN link[n].left ELSE link[n].right
      above == {i \in 0 .. NNode : path[i] # 0 /\ nkey[path[i]] > k}
  IN  IF path[NNode] # 0 THEN path[NNode]
      ELSE IF greater /\ above # {} THEN path[CHOOSE i \in above : \A j \in above : j <= i]
      ELSE 0

\* bst_get_rm_eq and bst_get_rm_ge: the search, under the lock.
bst_get_rm(t) ==
  \E k \in Keys, greater \in BOOLEAN :
    LET n == bst_find_node(k, greater)
    IN  /\ ~ holder /\ n # 0
        /\ Goto(t, "idle", "remove") /\ Enter(t, nkey[n])
        /\ holder' = TRUE /\ at' = [at EXCEPT ![t] = n]
        /\ UNCHANGED <<tree, out, up, side, dead>>

\* bst_remove finds the link to the node; with no parent and another root it
\* dereferences NULL.  A node with two children gets the key of the smallest
\* one on its right, which is removed instead.
bst_remove(t) ==
  LET n == at[t]
  IN  /\ ~ dead /\ pc[t] = "remove"
      /\ IF Root # n /\ parent[n] = 0
         THEN dead' = TRUE /\ UNCHANGED <<pc, up, side>>
         ELSE /\ Goto(t, "remove", IF link[n].left # 0 /\ link[n].right # 0 THEN "copy" ELSE "unlink")
              /\ up' = [up EXCEPT ![t] = IF Root = n THEN 0 ELSE parent[n]]
              /\ side' = [side EXCEPT ![t] =
                            IF Root = n \/ link[parent[n]].left = n THEN "left" ELSE "right"]
              /\ UNCHANGED dead
      /\ UNCHANGED <<tree, holder, out, key, at, overlap, nops>>

bst_remove_copy(t) ==
  LET n == at[t]
      down[i \in 0 .. NNode] ==
        IF i = 0 THEN link[n].right
        ELSE IF link[down[i - 1]].left = 0 THEN down[i - 1] ELSE link[down[i - 1]].left
      m == down[NNode]
  IN  /\ Goto(t, "copy", "remove")
      /\ nkey' = [nkey EXCEPT ![n] = nkey[m]]
      /\ at' = [at EXCEPT ![t] = m]
      /\ UNCHANGED <<link, parent, live, holder, out, key, up, side, overlap, dead, nops>>

bst_remove_unlink_OldParent(t) ==   \* mutant: the child keeps its old parent
  LET n == at[t]
      c == IF link[n].left # 0 THEN link[n].left ELSE link[n].right
  IN  /\ Goto(t, "unlink", "idle")
      /\ link' = [link EXCEPT ![up[t]][side[t]] = c]
      /\ live' = live \ {n} /\ holder' = FALSE
      /\ out' = out \cup {key[t]}
      /\ Leave(t) /\ UNCHANGED <<nkey, parent, dead, nops>>
\* A node with at most one child is replaced by it and freed.
bst_remove_unlink(t) ==
  LET n == at[t]
      c == IF link[n].left # 0 THEN link[n].left ELSE link[n].right
  IN  /\ Goto(t, "unlink", "idle")
      /\ link' = [link EXCEPT ![up[t]][side[t]] = c]
      /\ parent' = IF c = 0 THEN parent ELSE [parent EXCEPT ![c] = parent[n]]
      /\ live' = live \ {n} /\ holder' = FALSE
      /\ out' = out \cup {key[t]}
      /\ Leave(t) /\ UNCHANGED <<nkey, dead, nops>>

Next ==
  \E t \in Threads :
    \/ bst_add(t) \/ bst_add_walk(t) \/ bst_create_node(t) \/ bst_add_link(t)
    \/ bst_get_rm(t) \/ bst_remove(t) \/ bst_remove_copy(t) \/ bst_remove_unlink(t)

Spec == Init /\ [][Next]_vars

-----------------------------------------------------------------------------
(* Properties.                                                             *)

\* The tree is one a search can rely on: every node knows its parent, no node
\* is below itself or freed, and keys are in order.
WellFormed ==
  /\ Root # 0 => parent[Root] = 0
  /\ InTree \subseteq live
  /\ \A n \in InTree :
       /\ \A s \in Sides : link[n][s] # 0 => parent[link[n][s]] = n
       /\ \A m \in Below(link[n].left) : nkey[m] < nkey[n]
       /\ \A m \in Below(link[n].right) : nkey[m] >= nkey[n]

Abstract == INSTANCE Container WITH
  held   <- {nkey[n] : n \in InTree} \ {key[t] : t \in Threads},
  sorted <- WellFormed,
  inside <- [t \in Threads |-> IF pc[t] = "idle" THEN "no"
                               ELSE IF overlap[t] THEN "overlap" ELSE "alone"]

\* The tree implements the container: alone, bst_add adds the key and
\* bst_get_rm takes the smallest key that fits, through any sequence of
\* removals of leaves, of nodes with one child and of nodes with two; and
\* even overlapping operations give no key to two callers.
ImplementsContainer == Abstract!Spec
=============================================================================
