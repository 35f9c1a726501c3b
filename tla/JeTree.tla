------------------------------- MODULE JeTree -------------------------------
(***************************************************************************)
(* The left-leaning red-black trees of jemalloc (rb.h), in which an arena  *)
(* keeps its runs and a pool its free chunks.                              *)
(*                                                                         *)
(* A tree is a record of the links and colours of the nodes and its root;  *)
(* rbt_nil is the node 0.  The build keeps the colour of a node in the low *)
(* bit of its right link (RB_COMPACT), and a store to one of them leaves   *)
(* the other as it is.  a_cmp orders the nodes by their numbers: the       *)
(* comparisons of arena.c and extent.c end with the address, so no two     *)
(* nodes are equal; a key that is not a node (the sizes that arena.c       *)
(* searches runs_avail for) may equal several.  The callers hold a lock,   *)
(* so the steps of a call are those of one thread: a call goes down the    *)
(* tree and records its path, then goes up and restores the balance, one   *)
(* step per node.                                                          *)
(*                                                                         *)
(* The fields of a node that was removed stay as they are in the code and  *)
(* are set to nil here when the call returns: insertion sets all of them.  *)
(***************************************************************************)
EXTENDS Integers, Sequences, SequencesExt

CONSTANT NNodes     \* how many nodes there are

ASSUME NNodesAssumption == NNodes \in Nat \ {0}

VARIABLES
    rbt,            \* the tree: left, right, red, root
    call,           \* the call in progress: pc, node, path, pathp, nodep
    members         \* the nodes that were inserted and not removed

tree_vars == <<rbt, call, members>>

nil == 0
Nodes == 1 .. NNodes

------------------------------------------------------------------------------
(* Nodes, links and rotations *)

\* The stores of the code: a link, a colour.
SetLeft(t, n, child) == [t EXCEPT !.left[n] = child]
SetRight(t, n, child) == [t EXCEPT !.right[n] = child]
Paint(t, n, red) == [t EXCEPT !.red[n] = red]
BLACK == FALSE
RED == TRUE

rbt_node_new(t, n) == Paint(SetRight(SetLeft(t, n, nil), n, nil), n, RED)

rb_new ==
    LET links == [n \in {nil} \cup Nodes |-> nil]
    IN  [left |-> links, right |-> links, red |-> [n \in {nil} \cup Nodes |-> BLACK], root |-> nil]

\* After a rotation the subtree's root is the former right (left) child.
rbtn_rotate_left(t, n) ==
    LET r == t.right[n] IN SetLeft(SetRight(t, n, t.left[r]), r, n)
rbtn_rotate_right(t, n) ==
    LET r == t.left[n] IN SetRight(SetLeft(t, n, t.right[r]), r, n)

------------------------------------------------------------------------------
(* Reading the tree *)

rbtn_first(t, root) ==
    LET f[n \in {nil} \cup Nodes] == IF t.left[n] = nil THEN n ELSE f[t.left[n]] IN f[root]
rbtn_last(t, root) ==
    LET f[n \in {nil} \cup Nodes] == IF t.right[n] = nil THEN n ELSE f[t.right[n]] IN f[root]
first(t) == rbtn_first(t, t.root)
last(t) == rbtn_last(t, t.root)

\* The loop of the searches: the last node that was left towards smaller (larger) keys.
Turned(t, key, larger) ==
    LET f[n, ret \in {nil} \cup Nodes] ==
            IF n = nil \/ n = key THEN ret
            ELSE IF key < n THEN f[t.left[n], IF larger THEN n ELSE ret]
                            ELSE f[t.right[n], IF larger THEN ret ELSE n]
    IN  f[t.root, nil]

search(t, key) ==
    LET f[n \in {nil} \cup Nodes] ==
            IF n = nil \/ n = key THEN n ELSE f[IF key < n THEN t.left[n] ELSE t.right[n]]
    IN  f[t.root]

next(t, node) ==
    IF t.right[node] # nil THEN rbtn_first(t, t.right[node]) ELSE Turned(t, node, TRUE)
prev(t, node) ==
    IF t.left[node] # nil THEN rbtn_last(t, t.left[node]) ELSE Turned(t, node, FALSE)
nsearch(t, key) == IF search(t, key) # nil THEN key ELSE Turned(t, key, TRUE)
\* nsearch for a key that the nodes lo .. hi compare equal to (CHUNK_MAP_KEY).
nsearch_size(t, lo, hi) ==
    LET f[n, ret \in {nil} \cup Nodes] ==
            IF n = nil THEN ret ELSE IF n \in lo .. hi THEN n
            ELSE IF hi < n THEN f[t.left[n], n] ELSE f[t.right[n], ret]
    IN  f[t.root, nil]
psearch(t, key) == IF search(t, key) # nil THEN key ELSE Turned(t, key, FALSE)

\* iter and reverse_iter differ in the order of the children.  seen are the nodes the
\* callback was called for; it ends the iteration at the node stop.
Iterate(root, near, far, forward, start, stop) ==
    LET visit(before, n, after) ==
            IF before.ret # nil THEN before
            ELSE IF n = stop THEN [seen |-> Append(before.seen, n), ret |-> n]
            ELSE [seen |-> Append(before.seen, n) \o after.seen, ret |-> after.ret]
        none == [seen |-> <<>>, ret |-> nil]
        recurse[n \in {nil} \cup Nodes] ==
            IF n = nil THEN none ELSE visit(recurse[near[n]], n, recurse[far[n]])
        begin[n \in Nodes] ==
            IF n # start /\ (start < n <=> forward) THEN visit(begin[near[n]], n, recurse[far[n]])
            ELSE IF n # start THEN begin[far[n]]
            ELSE visit(none, n, recurse[far[n]])
    IN  IF start # nil THEN begin[root] ELSE recurse[root]

iter(t, start, stop) == Iterate(t.root, t.left, t.right, TRUE, start, stop)
reverse_iter(t, start, stop) == Iterate(t.root, t.right, t.left, FALSE, start, stop)

------------------------------------------------------------------------------
(* Calls: the way down *)

NoCall == [pc |-> "idle", node |-> nil, path |-> <<>>, pathp |-> 0, nodep |-> 0]

TreeInit == rbt = rb_new /\ call = NoCall /\ members = {}

Here == call.path[call.pathp].node
Towards == call.path[call.pathp].cmp
Below == call.path[call.pathp + 1].node

StartAt(pc, n) ==
    call' = [NoCall EXCEPT !.pc = pc, !.node = n, !.path = <<[node |-> rbt.root, cmp |-> 0]>>]

insert(n) ==
    /\ call.pc = "idle" /\ n \notin members
    /\ rbt' = rbt_node_new(rbt, n)
    /\ members' = members \cup {n}
    /\ StartAt("insert_wind", n)

remove(n) ==
    /\ call.pc = "idle" /\ n \in members
    /\ members' = members \ {n}
    /\ StartAt("remove_wind", n)
    /\ UNCHANGED rbt

\* The path gets the direction taken at its last node, and the child there.
Descend(cmp, nodep) ==
    LET end == Len(call.path)
        n == call.path[end].node
        child == IF cmp < 0 THEN rbt.left[n] ELSE rbt.right[n]
    IN  call' = [call EXCEPT !.path = Append([@ EXCEPT ![end].cmp = cmp], [node |-> child, cmp |-> 0]),
                             !.nodep = nodep]

InsertWind ==
    /\ call.pc = "insert_wind"
    /\ LET n == Last(call.path).node
       IN  \/ n # nil /\ Descend(IF call.node < n THEN -1 ELSE 1, 0)
           \/ /\ n = nil
              /\ call' = [call EXCEPT !.pc = "insert_unwind", !.pathp = Len(call.path) - 1,
                                      !.path[Len(call.path)].node = call.node]
    /\ UNCHANGED <<rbt, members>>

\* At the node itself the way goes to its successor.
RemoveWind ==
    /\ call.pc = "remove_wind"
    /\ LET n == Last(call.path).node
       IN  \/ n # nil /\ call.nodep # 0 /\ Descend(-1, call.nodep)
           \/ n # nil /\ call.nodep = 0 /\ n = call.node /\ Descend(1, Len(call.path))
           \/ n # nil /\ call.nodep = 0 /\ n # call.node /\ Descend(IF call.node < n THEN -1 ELSE 1, 0)
           \/ n = nil /\ call' = [call EXCEPT !.pc = "remove_swap", !.pathp = Len(call.path) - 1]
    /\ UNCHANGED <<rbt, members>>

------------------------------------------------------------------------------
(* Insertion: the way up *)

Return(t) == rbt' = t /\ call' = NoCall /\ UNCHANGED members

\* The subtree's root is now top; on to the node above.
Up(t, top) ==
    /\ rbt' = t
    /\ call' = [call EXCEPT !.path[call.pathp].node = top, !.pathp = @ - 1]
    /\ UNCHANGED members

Unwinding(pc, direction) == call.pc = pc /\ call.pathp > 0 /\ Towards = direction

\* A black subtree needs nothing above it.
InsertBalanced ==
    /\ call.pc = "insert_unwind" /\ call.pathp > 0
    /\ ~rbt.red[Below]
    /\ Return(IF Towards < 0 THEN SetLeft(rbt, Here, Below) ELSE SetRight(rbt, Here, Below))

InsertLeft ==
    /\ Unwinding("insert_unwind", -1)
    /\ rbt.red[Below]
    /\ LET t == SetLeft(rbt, Here, Below)
           leftleft == t.left[Below]
       IN  IF t.red[leftleft]
           THEN Up(rbtn_rotate_right(Paint(t, leftleft, BLACK), Here), Below)  \* fix up a 4-node
           ELSE Up(t, Here)

InsertRight ==
    /\ Unwinding("insert_unwind", 1)
    /\ rbt.red[Below]
    /\ LET t == SetRight(rbt, Here, Below)
           left == t.left[Here]
       IN  IF t.red[left]
           THEN Up(Paint(Paint(Paint(t, left, BLACK), Below, BLACK), Here, RED), Here)  \* split a 4-node
           ELSE Up(Paint(Paint(rbtn_rotate_left(t, Here), Below, t.red[Here]), Here, RED), Below)  \* lean left

InsertRoot ==
    /\ call.pc = "insert_unwind" /\ call.pathp = 0
    /\ LET top == call.path[1].node IN Return(Paint([rbt EXCEPT !.root = top], top, BLACK))

------------------------------------------------------------------------------
(* Removal: the node and its successor *)

\* pathp[-1] gets a new child.
LinkAbove(t, p, n) ==
    LET above == call.path[p - 1]
    IN  IF above.cmp < 0 THEN SetLeft(t, above.node, n) ELSE SetRight(t, above.node, n)
LinkOrRoot(t, p, n) == IF p = 1 THEN [t EXCEPT !.root = n] ELSE LinkAbove(t, p, n)

\* The fields of the removed node are not looked at again.
Pruned(t) == Return(Paint(SetRight(SetLeft(t, call.node, nil), call.node, nil), call.node, BLACK))

\* Mutant: the successor keeps its own colour in the node's place.
SwapSuccessor_OwnColour ==
    /\ call.pc = "remove_swap" /\ Here # call.node
    /\ LET n == call.node
           moved == SetRight(SetLeft(rbt, Here, rbt.left[n]), Here, rbt.right[n])
       IN  rbt' = LinkOrRoot(Paint(moved, n, rbt.red[Here]), call.nodep, Here)
    /\ call' = [call EXCEPT !.path[call.nodep].node = Here, !.path[call.pathp].node = call.node,
                            !.pc = "remove_prune"]
    /\ UNCHANGED members

\* The node takes the place of its successor, which is pruned in its stead.
SwapSuccessor ==
    /\ call.pc = "remove_swap" /\ Here # call.node
    /\ LET n == call.node
           moved == SetRight(SetLeft(Paint(rbt, Here, rbt.red[n]), Here, rbt.left[n]), Here, rbt.right[n])
       IN  rbt' = LinkOrRoot(Paint(moved, n, rbt.red[Here]), call.nodep, Here)
    /\ call' = [call EXCEPT !.path[call.nodep].node = Here, !.path[call.pathp].node = call.node,
                            !.pc = "remove_prune"]
    /\ UNCHANGED members

\* No successor, but a left child: it takes the place of the node.
SpliceOut ==
    /\ call.pc = "remove_swap" /\ Here = call.node
    /\ LET left == rbt.left[call.node]
       IN  left # nil /\ Pruned(LinkOrRoot(Paint(rbt, left, BLACK), call.pathp, left))

OnlyNode ==
    /\ call.pc = "remove_swap" /\ Here = call.node /\ rbt.left[call.node] = nil
    /\ call.pathp = 1
    /\ Pruned([rbt EXCEPT !.root = nil])

Leaf ==
    /\ call.pc = "remove_swap" /\ Here = call.node /\ rbt.left[call.node] = nil
    /\ call.pathp > 1
    /\ call' = [call EXCEPT !.pc = "remove_prune"]
    /\ UNCHANGED <<rbt, members>>

\* A red leaf is a left child, and needs no repair.
PruneRed ==
    /\ call.pc = "remove_prune" /\ rbt.red[Here]
    /\ Pruned(SetLeft(rbt, call.path[call.pathp - 1].node, nil))

PruneBlack ==
    /\ call.pc = "remove_prune" /\ ~rbt.red[Here]
    /\ call' = [call EXCEPT !.pc = "remove_unwind", !.path[call.pathp].node = nil, !.pathp = @ - 1]
    /\ UNCHANGED <<rbt, members>>

------------------------------------------------------------------------------
(* Removal: the way up; the subtree below is one black node short *)

\* The two rotations that bring a red rightleft to the top.
RightThenLeft(t, n) ==
    LET right == t.right[n]
    IN  rbtn_rotate_left(SetRight(rbtn_rotate_right(t, right), n, t.left[right]), n)

RemoveLeftRed ==
    /\ Unwinding("remove_unwind", -1) /\ rbt.red[Here]
    /\ LET t == SetLeft(rbt, Here, Below)
           right == t.right[Here]
           rightleft == t.left[right]
       IN  IF t.red[rightleft]
           THEN Pruned(LinkAbove(RightThenLeft(Paint(t, Here, BLACK), Here), call.pathp, rightleft))
           ELSE Pruned(LinkAbove(rbtn_rotate_left(t, Here), call.pathp, right))

RemoveLeftBlack ==
    /\ Unwinding("remove_unwind", -1) /\ ~rbt.red[Here]
    /\ LET t == SetLeft(rbt, Here, Below)
           right == t.right[Here]
           rightleft == t.left[right]
       IN  IF t.red[rightleft]
           THEN Pruned(LinkOrRoot(RightThenLeft(Paint(t, rightleft, BLACK), Here), call.pathp, rightleft))
           ELSE Up(rbtn_rotate_left(Paint(t, Here, RED), Here), right)

RemoveRightLeftRed ==
    /\ Unwinding("remove_unwind", 1) /\ rbt.red[rbt.left[Here]]
    /\ LET t == SetRight(rbt, Here, Below)
           left == t.left[Here]
           leftright == t.right[left]
           leftrightleft == t.left[leftright]
           turned == rbtn_rotate_right(Paint(t, leftrightleft, BLACK), Here)
       IN  IF t.red[leftrightleft]
           THEN Pruned(LinkOrRoot(
                    rbtn_rotate_left(SetRight(rbtn_rotate_right(turned, Here), left, turned.left[Here]), left),
                    call.pathp, leftright))
           ELSE Pruned(LinkOrRoot(
                    Paint(rbtn_rotate_right(Paint(t, leftright, RED), Here), left, BLACK),
                    call.pathp, left))

RemoveRightRed ==
    /\ Unwinding("remove_unwind", 1) /\ rbt.red[Here] /\ ~rbt.red[rbt.left[Here]]
    /\ LET t == SetRight(rbt, Here, Below)
           left == t.left[Here]
           leftleft == t.left[left]
           painted == Paint(Paint(t, Here, BLACK), left, RED)
       IN  IF t.red[leftleft]
           THEN Pruned(LinkAbove(rbtn_rotate_right(Paint(painted, leftleft, BLACK), Here),
                                 call.pathp, left))
           ELSE Pruned(painted)

RemoveRightBlack ==
    /\ Unwinding("remove_unwind", 1) /\ ~rbt.red[Here] /\ ~rbt.red[rbt.left[Here]]
    /\ LET t == SetRight(rbt, Here, Below)
           left == t.left[Here]
           leftleft == t.left[left]
       IN  IF t.red[leftleft]
           THEN Pruned(LinkOrRoot(rbtn_rotate_right(Paint(t, leftleft, BLACK), Here), call.pathp, left))
           ELSE Up(Paint(t, left, RED), Here)

RemoveRoot ==
    /\ call.pc = "remove_unwind" /\ call.pathp = 0
    /\ Pruned([rbt EXCEPT !.root = call.path[1].node])

TreeNext ==
    \/ \E n \in Nodes : insert(n) \/ remove(n)
    \/ InsertWind \/ InsertBalanced \/ InsertLeft \/ InsertRight \/ InsertRoot
    \/ RemoveWind \/ SwapSuccessor \/ SpliceOut \/ OnlyNode \/ Leaf \/ PruneRed \/ PruneBlack
    \/ RemoveLeftRed \/ RemoveLeftBlack
    \/ RemoveRightLeftRed \/ RemoveRightRed \/ RemoveRightBlack \/ RemoveRoot

TreeSpec == TreeInit /\ [][TreeNext]_tree_vars

------------------------------------------------------------------------------
(* Properties *)

\* How many black nodes there are on every way down from n; -1 if the ways differ, if a
\* right child is red or if a red node has a red child.
BlackHeight(t) ==
    LET h[n \in {nil} \cup Nodes] ==
            IF n = nil THEN 0
            ELSE LET left == t.left[n]
                     right == t.right[n]
                     bad == \/ h[left] # h[right] \/ h[left] < 0
                            \/ t.red[right] \/ (t.red[n] /\ t.red[left])
                 IN  IF bad THEN -1 ELSE h[left] + (IF t.red[n] THEN 0 ELSE 1)
    IN  h[t.root]

Ascending(S) == SelectSeq([i \in Nodes |-> i], LAMBDA n : n \in S)

\* What an iteration shows the callback: everything from start on, up to stop.
Shown(seq, start, stop) ==
    LET from == IF start = nil THEN 1 ELSE CHOOSE i \in 1 .. Len(seq) : seq[i] = start
        ends == {i \in from .. Len(seq) : seq[i] = stop}
    IN  IF ends = {} THEN [seen |-> SubSeq(seq, from, Len(seq)), ret |-> nil]
        ELSE [seen |-> SubSeq(seq, from, CHOOSE i \in ends : TRUE), ret |-> stop]

Least(S) == IF S = {} THEN nil ELSE CHOOSE x \in S : \A y \in S : x <= y
Greatest(S) == IF S = {} THEN nil ELSE CHOOSE x \in S : \A y \in S : x >= y

LookupsRight(t) ==
    /\ first(t) = Least(members) /\ last(t) = Greatest(members)
    /\ \A n \in Nodes :
         /\ search(t, n) = IF n \in members THEN n ELSE nil
         /\ nsearch(t, n) = Least({x \in members : x >= n})
         /\ psearch(t, n) = Greatest({x \in members : x <= n})
    /\ \A lo, hi \in Nodes : lo <= hi =>
         LET r == nsearch_size(t, lo, hi)
         IN  IF members \cap (lo .. hi) # {} THEN r \in members \cap (lo .. hi)
             ELSE r = Least({x \in members : x > hi})
    /\ \A n \in members :
         next(t, n) = Least({x \in members : x > n}) /\ prev(t, n) = Greatest({x \in members : x < n})
    /\ \A start, stop \in {nil} \cup members :
         /\ iter(t, start, stop) = Shown(Ascending(members), start, stop)
         /\ reverse_iter(t, start, stop) = Shown(Reverse(Ascending(members)), start, stop)

\* Between calls, after any sequence of insertions and removals, the tree is balanced (all
\* ways down have the same number of black nodes, red nodes lean left and are never in a
\* row, the root is black), holds exactly the nodes that were inserted and not removed, and
\* the searches and iterations of rb.h find what they should in it (rb.h:448 and rb.h:516),
\* also the search for a size that several nodes have (arena.c:100).
TreeSound ==
    call.pc = "idle" =>
        /\ BlackHeight(rbt) >= 0 /\ ~rbt.red[rbt.root]
        /\ rbt.left[nil] = nil /\ rbt.right[nil] = nil /\ ~rbt.red[nil]
        /\ LookupsRight(rbt)
=============================================================================
