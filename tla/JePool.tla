------------------------------- MODULE JePool -------------------------------
(***************************************************************************)
(* The chunk layer of a libvmem pool: jemalloc's chunk.c, base.c, huge.c   *)
(* and pool.c, and the pool calls of jemalloc.c that vmem.c forwards.      *)
(*                                                                         *)
(* A pool is one or more memory ranges cut into chunks.  Free chunks are   *)
(* kept as extents (chunks_szad_mmap and chunks_ad_mmap hold the same      *)
(* nodes in two orders, so one set stands for both).  Every extent and     *)
(* every huge allocation needs an extent_node_t, and a pool other than     *)
(* pool 0 has only the nodes base_node_prealloc made, on the list          *)
(* base_nodes.  base_alloc carves arenas, nodes and range records out of   *)
(* base memory and takes a whole chunk from the extents when that is used  *)
(* up.                                                                     *)
(*                                                                         *)
(* Addresses count units of one base object; a chunk is U units.  A step   *)
(* is one critical section.  A lock another lock is taken under has an     *)
(* owner in mtx.  A thread's record holds the label it is at, the labels   *)
(* its callers continue at, and the locals of the call chain.              *)
(***************************************************************************)
EXTENDS Integers, Sequences, FiniteSets, FiniteSetsExt

CONSTANTS Threads,      \* callers of the library
          NoThread,     \* the owner of a free lock
          U,            \* units per chunk (chunksize)
          Areas,        \* areas[1] is the pool's memory, the others extend it
          OtherRanges,  \* the ranges of the other pools of the process
          PoolUnits,    \* sizeof(pool_t) and the array of arenas
          ArenaUnits,   \* sizeof(arena_t)
          NArenas,      \* narenas_auto
          Sizes,        \* request sizes, in chunks
          Aligns,       \* requested alignments, in chunks
          Ops,          \* Ops[t]: the calls thread t makes
          MaxCalls      \* bound: MaxCalls[t] calls of thread t

ASSUME JeAssumption ==
    /\ IsFiniteSet(Threads)
    /\ U \in Nat \ {0} /\ NArenas \in Nat \ {0} /\ NoThread \notin Threads
    /\ PoolUnits \in Nat \ {0} /\ ArenaUnits \in Nat \ {0}
    /\ Sizes \subseteq Nat \ {0} /\ Aligns \subseteq Nat \ {0}
    /\ 1 \in DOMAIN Areas
    /\ \A i \in DOMAIN Areas :
          Areas[i].addr \in Nat /\ Areas[i].size \in Nat /\ Areas[i].size >= 3 * U

\* The kernel gives no two pools the same memory.
ASSUME PoolsApart ==
    \A o \in OtherRanges, i \in DOMAIN Areas :
       /\ o.addr \in Nat /\ o.size \in Nat
       /\ o.addr + o.size <= Areas[i].addr \/ Areas[i].addr + Areas[i].size <= o.addr

\* The smallest pool has three chunks, and what pool_new makes in it leaves
\* one of them.
ASSUME MetadataFits ==
    PoolUnits + ArenaUnits + 2 + Areas[1].size \div U + 2 * U <= Areas[1].size

VARIABLES live,    \* the pool is in pools[]
          exts,    \* free extents: first chunk a, chunks n, marked zeroed z
          nodes,   \* length of the list base_nodes
          huge,    \* the tree pool->huge
          base,    \* base_next_addr and base_past_addr
          ranges,  \* memory_range_list
          cur,     \* stats_chunks.curchunks
          nthr,    \* nthreads of every arena, NoArena where arenas[i] is NULL
          inarena, \* chunks the arenas own
          mem,     \* chunks whose contents are all zero
          mtx,     \* owners of the locks that are held across steps
          th,      \* the threads
          verdict, \* outcome of the last je_pool_check
          made,    \* extent nodes ever made
          used,    \* units base_alloc handed out
          lost     \* chunks dropped for want of a node

vars == <<live, exts, nodes, huge, base, ranges, cur, nthr, inarena, mem,
          mtx, th, verdict, made, used, lost>>
pool == <<exts, nodes, huge, base, ranges, cur, nthr, inarena, mem, mtx, verdict, made,
          used, lost>>

NoChunk == -1
NoArena == -1
\* Outcomes of je_pool_check are 1, 0 for a test of the ranges or the chunks
\* that failed, and this where the code returns 0 for a test of an arena.
ArenaReported == 2
NoExt == [a |-> NoChunk, n |-> 0, z |-> FALSE]
Chunks(e) == e.a .. (e.a + e.n - 1)
CHUNK_CEILING(x) == ((x + U - 1) \div U) * U
ALIGNMENT_CEILING(x, al) == ((x + al - 1) \div al) * al

Idle == [pc |-> "idle", k |-> <<>>, n |-> 0, al |-> 1, zero |-> FALSE,
         r |-> NoChunk, e |-> NoExt, old |-> NoExt, c |-> 0, b |-> NoChunk, num |-> 0,
         got |-> FALSE, put |-> 0, held |-> 0, area |-> 0, u |-> 0,
         arena |-> NoArena, calls |-> 0]

TypeOK ==
    /\ live \in BOOLEAN /\ nodes \in Nat /\ cur \in Int /\ made \in Nat
    /\ \A x \in exts \cup huge : x.a \in Nat /\ x.n \in Nat \ {0} /\ x.z \in BOOLEAN
    /\ nthr \in [0 .. (NArenas - 1) -> Nat \cup {NoArena}]
    /\ mtx \in [{"chunks", "base", "nodes", "mr", "arenas", "pools"} ->
                    Threads \cup {NoThread}]
    /\ DOMAIN th = Threads /\ verdict \in {0, 1, ArenaReported}
    /\ inarena \subseteq Nat /\ lost \subseteq Nat /\ used \subseteq Nat

Free(l) == mtx[l] = NoThread
At(t, label) == th[t].pc = label
Step(t, l) == th' = [th EXCEPT ![t] = l]
Call(l, label, back) == [l EXCEPT !.pc = label, !.k = <<back>> \o l.k]
Return(l) == [l EXCEPT !.pc = Head(l.k), !.k = Tail(l.k)]
\* The end of a call: the locals are gone, the thread's arena stays.
Done(l) == [Idle EXCEPT !.arena = l.arena, !.calls = l.calls]
Begin(t, op) == At(t, "idle") /\ op \in Ops[t] /\ th[t].calls < MaxCalls[t]
Entered(t) == [th[t] EXCEPT !.calls = @ + 1]

-----------------------------------------------------------------------------
(* Creating and deleting the pool.  Nobody else knows the pool's address   *)
(* before je_pool_create returns, so it is one step; vmem_create maps a    *)
(* new file, whose pages are zero, vmem_create_in_region takes memory as   *)
(* it is.                                                                  *)

Init ==
    /\ live = FALSE /\ exts = {} /\ nodes = 0 /\ huge = {} /\ ranges = {} /\ cur = 0
    /\ base = [next |-> 0, past |-> 0]
    /\ nthr = [i \in 0 .. (NArenas - 1) |-> NoArena]
    /\ inarena = {} /\ mem = {} /\ verdict = 1 /\ made = 0 /\ used = {} /\ lost = {}
    /\ mtx = [l \in {"chunks", "base", "nodes", "mr", "arenas", "pools"} |-> NoThread]
    /\ th = [t \in Threads |-> Idle]

RangeOf_Whole(area, u) ==
    [addr |-> area.addr, end |-> area.addr + area.size, u |-> u,
     uend |-> u + CHUNK_CEILING(area.size)]

\* The range record of an area whose usable part starts at address u.
RangeOf(area, u) ==
    [addr |-> area.addr, end |-> area.addr + area.size, u |-> u,
     uend |-> u + ((area.size - (u - area.addr)) \div U) * U]

ExtOf(rg, z) == [a |-> rg.u \div U, n |-> (rg.uend - rg.u) \div U, z |-> z]

\* pool_new makes arena 0 and its lstats; base_node_prealloc one node per chunk.
je_pool_create(zeroed) ==
    LET area == Areas[1]
        n == area.size \div U
        next == area.addr + PoolUnits + ArenaUnits + 1 + n + 1
        rg == RangeOf(area, CHUNK_CEILING(next))
    IN  /\ ~live /\ ranges = {}
        /\ live' = TRUE
        /\ nthr' = [nthr EXCEPT ![0] = 0]
        /\ base' = [next |-> next, past |-> rg.u]
        /\ used' = area.addr .. (next - 1)
        /\ ranges' = {rg}
        /\ exts' = {ExtOf(rg, zeroed)}
        /\ nodes' = n - 1 /\ made' = n
        /\ mem' = IF zeroed THEN Chunks(ExtOf(rg, TRUE)) ELSE {}
        /\ UNCHANGED <<huge, cur, inarena, mtx, th, verdict, lost>>

\* The caller may delete the pool only when no call is under way.
je_pool_delete ==
    /\ live
    /\ \A t \in Threads : th[t].pc \in {"idle", "exited"}
    /\ \E t \in Threads : th[t].calls = MaxCalls[t]
    /\ live' = FALSE
    /\ UNCHANGED <<pool, th>>

-----------------------------------------------------------------------------
(* chunk_recycle: best fit, the lowest address among equals.               *)

FirstFit(want) ==
    CHOOSE e \in exts :
        /\ e.n >= want
        /\ \A f \in exts : f.n >= want => (e.n < f.n \/ (e.n = f.n /\ e.a <= f.a))

\* Splits off lead and trail.  With both, the lock is dropped to find a
\* second node; with neither, the node goes back to the list.
RecycleTake(t) ==
    LET l == th[t]
        want == l.n + l.al - 1
        e == FirstFit(want)
        lead == ALIGNMENT_CEILING(e.a, l.al) - e.a
        trail == e.n - lead - l.n
        got == [l EXCEPT !.r = e.a + lead, !.zero = l.zero \/ e.z]
        le == [a |-> e.a, n |-> lead, z |-> e.z]
        te == [a |-> e.a + lead + l.n, n |-> trail, z |-> e.z]
    IN  /\ At(t, "recycle") /\ Free("chunks")
        /\ IF \A f \in exts : f.n < want
           THEN /\ Step(t, Return([l EXCEPT !.r = NoChunk]))
                /\ UNCHANGED <<exts, mem>>
           ELSE /\ exts' = (exts \ {e}) \cup (IF lead # 0 THEN {le} ELSE {})
                               \cup (IF trail # 0 /\ lead = 0 THEN {te} ELSE {})
                /\ mem' = IF l.zero \/ e.z THEN mem \cup Chunks([e EXCEPT !.a = e.a + lead, !.n = l.n])
                          ELSE mem
                /\ Step(t, CASE lead # 0 /\ trail # 0 ->
                                     [got EXCEPT !.pc = "trail_node", !.e = te]
                             [] lead = 0 /\ trail = 0 ->
                                     [got EXCEPT !.pc = "recycle_put", !.held = @ + 1]
                             [] OTHER -> Return(got))
        /\ UNCHANGED <<live, nodes, huge, base, ranges, cur, nthr, inarena, mtx, verdict,
                       made, used, lost>>

RecyclePut(t) ==
    /\ At(t, "recycle_put") /\ Free("nodes")
    /\ nodes' = nodes + 1
    /\ Step(t, Return([th[t] EXCEPT !.held = @ - 1]))
    /\ UNCHANGED <<live, exts, huge, base, ranges, cur, nthr, inarena, mem, mtx, verdict,
                   made, used, lost>>

\* base_node_alloc fails: the chunk is given back and the trail is forgotten.
TrailNode(t) ==
    LET l == th[t]
    IN  /\ At(t, "trail_node") /\ Free("nodes")
        /\ IF nodes > 0
           THEN /\ nodes' = nodes - 1
                /\ Step(t, [l EXCEPT !.pc = "trail_insert", !.held = @ + 1])
                /\ UNCHANGED lost
           ELSE /\ lost' = lost \cup Chunks(l.e)
                /\ Step(t, [l EXCEPT !.pc = "dalloc", !.r = NoChunk,
                                     !.e = [a |-> l.r, n |-> l.n, z |-> FALSE]])
                /\ UNCHANGED nodes
        /\ UNCHANGED <<live, exts, huge, base, ranges, cur, nthr, inarena, mem, mtx,
                       verdict, made, used>>

TrailInsert(t) ==
    /\ At(t, "trail_insert") /\ Free("chunks")
    /\ exts' = exts \cup {th[t].e}
    /\ Step(t, Return([th[t] EXCEPT !.e = NoExt, !.held = @ - 1]))
    /\ UNCHANGED <<live, nodes, huge, base, ranges, cur, nthr, inarena, mem, mtx, verdict,
                   made, used, lost>>

-----------------------------------------------------------------------------
(* chunk_dalloc_core and chunk_record.  The chunk is th[t].e; a pool's     *)
(* file keeps its contents when pages_purge advises the kernel, so only    *)
(* the caller's zeroed counts.                                             *)

Dalloc(t) ==
    /\ At(t, "dalloc") /\ Free("chunks")
    /\ cur' = cur - th[t].e.n
    /\ Step(t, [th[t] EXCEPT !.pc = "rec_node"])
    /\ UNCHANGED <<live, exts, nodes, huge, base, ranges, nthr, inarena, mem, mtx,
                   verdict, made, used, lost>>

RecordNode(t) ==
    /\ At(t, "rec_node") /\ Free("nodes")
    /\ nodes' = IF nodes > 0 THEN nodes - 1 ELSE 0
    /\ Step(t, [th[t] EXCEPT !.pc = "rec_insert", !.got = nodes > 0,
                             !.held = @ + (IF nodes > 0 THEN 1 ELSE 0)])
    /\ UNCHANGED <<live, exts, huge, base, ranges, cur, nthr, inarena, mem, mtx, verdict,
                   made, used, lost>>

\* What the free extents become when e is recorded: joined with the extent
\* that follows it, and then with the one before it.
Following(e) == {f \in exts : f.a = e.a + e.n}
Preceding(e) == {f \in exts : f.a + f.n = e.a}
TotalSize(S) == MapThenSumSet(LAMBDA f : f.n, S)
Joined_AnyZero(x, y) == [a |-> x.a, n |-> x.n + y.n, z |-> x.z \/ y.z]

Joined(x, y) == [a |-> x.a, n |-> x.n + y.n, z |-> x.z /\ y.z]

JoinFollowing(e) ==
    IF Following(e) = {} THEN e ELSE Joined(e, CHOOSE f \in Following(e) : TRUE)

JoinBoth(e) ==
    IF Preceding(e) = {} THEN JoinFollowing(e)
    ELSE Joined(CHOOSE p \in Preceding(e) : TRUE, JoinFollowing(e))

Coalesced_KeepPrevious(e) == (exts \ Following(e)) \cup {JoinBoth(e)}

Coalesced(e) == (exts \ (Following(e) \cup Preceding(e))) \cup {JoinBoth(e)}

\* Without a node and without an extent that follows, the chunk is dropped.
RecordInsert(t) ==
    LET l == th[t]
        n1 == IF Following(l.e) # {} /\ l.got THEN 1 ELSE 0
        n2 == IF Preceding(l.e) # {} THEN 1 ELSE 0
    IN  /\ At(t, "rec_insert") /\ Free("chunks")
        /\ IF Following(l.e) = {} /\ ~l.got
           THEN /\ lost' = lost \cup Chunks(l.e)
                /\ Step(t, Return([l EXCEPT !.e = NoExt]))
                /\ UNCHANGED exts
           ELSE /\ exts' = Coalesced(l.e)
                /\ Step(t, LET m == [l EXCEPT !.e = NoExt, !.put = n1 + n2,
                                       !.held = @ - (IF l.got THEN 1 ELSE 0) + n1 + n2]
                           IN  IF n1 + n2 = 0 THEN Return(m)
                               ELSE [m EXCEPT !.pc = "rec_put"])
                /\ UNCHANGED lost
        /\ UNCHANGED <<live, nodes, huge, base, ranges, cur, nthr, inarena, mem, mtx,
                       verdict, made, used>>

\* base_node_dalloc of xnode, then of xprev.
RecordPut(t) ==
    LET l == [th[t] EXCEPT !.put = @ - 1, !.held = @ - 1]
    IN  /\ At(t, "rec_put") /\ Free("nodes")
        /\ nodes' = nodes + 1
        /\ Step(t, IF l.put = 0 THEN Return(l) ELSE l)
        /\ UNCHANGED <<live, exts, huge, base, ranges, cur, nthr, inarena, mem, mtx,
                       verdict, made, used, lost>>

-----------------------------------------------------------------------------
(* Huge allocations: huge_palloc, huge_ralloc and huge_dalloc.             *)

HugeStart(t, op, n, al, zero) ==
    /\ live /\ Begin(t, op) /\ th[t].arena # NoArena
    /\ Step(t, [Entered(t) EXCEPT !.pc = "huge_node", !.n = n, !.al = al, !.zero = zero])
    /\ UNCHANGED <<live, pool>>

je_pool_malloc(t, n) == HugeStart(t, "malloc", n, 1, FALSE)
je_pool_calloc(t, n) == HugeStart(t, "calloc", n, 1, TRUE)
je_pool_aligned_alloc(t, n, al) == HugeStart(t, "aligned", n, al, FALSE)

\* The node comes first: with no node left the call fails though memory is free.
HugeNode(t) ==
    LET l == th[t]
    IN  /\ At(t, "huge_node") /\ Free("nodes")
        /\ IF nodes = 0
           THEN Step(t, Done(l)) /\ UNCHANGED nodes
           ELSE /\ nodes' = nodes - 1
                /\ Step(t, Call([l EXCEPT !.held = @ + 1], "recycle", "huge_register"))
        /\ UNCHANGED <<live, exts, huge, base, ranges, cur, nthr, inarena, mem, mtx,
                       verdict, made, used, lost>>

HugeFail(t) ==
    /\ At(t, "huge_register") /\ th[t].r = NoChunk /\ Free("nodes")
    /\ nodes' = nodes + 1
    /\ Step(t, Done(th[t]))
    /\ UNCHANGED <<live, exts, huge, base, ranges, cur, nthr, inarena, mem, mtx, verdict,
                   made, used, lost>>

HugeRegister(t) ==
    /\ At(t, "huge_register") /\ th[t].r # NoChunk /\ Free("chunks")
    /\ cur' = cur + th[t].n
    /\ Step(t, [th[t] EXCEPT !.pc = "huge_insert"])
    /\ UNCHANGED <<live, exts, nodes, huge, base, ranges, nthr, inarena, mem, mtx,
                   verdict, made, used, lost>>

\* A calloc's contents are what is_zeroed and the memset left; a reallocation
\* then copies into them and frees the old chunks.
HugeInsert(t) ==
    LET l == th[t]
        h == [a |-> l.r, n |-> l.n, z |-> l.zero /\ l.old = NoExt]
    IN  /\ At(t, "huge_insert")
        /\ huge' = huge \cup {h}
        /\ Step(t, IF l.old = NoExt THEN Done(l)
                   ELSE [Done(l) EXCEPT !.pc = "free", !.e = l.old])
        /\ mem' = IF l.old = NoExt THEN mem ELSE mem \ Chunks(h)
        /\ UNCHANGED <<live, exts, nodes, base, ranges, cur, nthr, inarena, mtx, verdict,
                       made, used, lost>>

\* huge_ralloc_no_move keeps an allocation of the same number of chunks; any
\* other size moves it, and a failure leaves the old one in place.
je_pool_ralloc(t, h, n) ==
    /\ live /\ Begin(t, "ralloc") /\ th[t].arena # NoArena
    /\ \A s \in Threads : th[s].e # h /\ th[s].old # h
    /\ Step(t, IF h.n = n THEN Done(Entered(t))
               ELSE [Entered(t) EXCEPT !.pc = "huge_node", !.n = n, !.old = h])
    /\ UNCHANGED <<live, pool>>

\* A client frees each allocation once.
je_pool_free(t, h) ==
    /\ live /\ Begin(t, "free")
    /\ \A s \in Threads : th[s].e # h /\ th[s].old # h
    /\ Step(t, [Entered(t) EXCEPT !.pc = "free", !.e = h])
    /\ UNCHANGED <<live, pool>>

\* huge_dalloc takes the node out of the tree; the client may have written
\* to the chunks.
HugeDalloc(t) ==
    LET l == th[t]
    IN  /\ At(t, "free")
        /\ huge' = huge \ {l.e}
        /\ mem' = mem \ Chunks(l.e)
        /\ Step(t, Call([l EXCEPT !.held = @ + 1, !.e = [l.e EXCEPT !.z = FALSE]],
                        "dalloc", "free_put"))
        /\ UNCHANGED <<live, exts, nodes, base, ranges, cur, nthr, inarena, mtx, verdict,
                       made, used, lost>>

HugeDallocPut(t) ==
    /\ At(t, "free_put") /\ Free("nodes")
    /\ nodes' = nodes + 1
    /\ Step(t, Done(th[t]))
    /\ UNCHANGED <<live, exts, huge, base, ranges, cur, nthr, inarena, mem, mtx, verdict,
                   made, used, lost>>

-----------------------------------------------------------------------------
(* The chunks of the arenas: arena_chunk_alloc_internal and _dalloc_.      *)

ArenaGrow(t) ==
    /\ live /\ Begin(t, "arena") /\ th[t].arena # NoArena
    /\ Step(t, Call([Entered(t) EXCEPT !.n = 1], "recycle", "arena_register"))
    /\ UNCHANGED <<live, pool>>

ArenaRegister(t) ==
    LET l == th[t]
    IN  /\ At(t, "arena_register") /\ (l.r # NoChunk => Free("chunks"))
        /\ cur' = IF l.r = NoChunk THEN cur ELSE cur + 1
        /\ inarena' = IF l.r = NoChunk THEN inarena ELSE inarena \cup {l.r}
        /\ Step(t, Done(l))
        /\ UNCHANGED <<live, exts, nodes, huge, base, ranges, nthr, mem, mtx, verdict,
                       made, used, lost>>

ArenaShrink(t, c) ==
    /\ live /\ Begin(t, "arena") /\ th[t].arena # NoArena
    /\ inarena' = inarena \ {c}
    /\ mem' = mem \ {c}
    /\ Step(t, Call([Entered(t) EXCEPT !.e = [a |-> c, n |-> 1, z |-> FALSE]],
                    "dalloc", "done"))
    /\ UNCHANGED <<live, exts, nodes, huge, base, ranges, cur, nthr, mtx, verdict, made,
                   used, lost>>

CallDone(t) ==
    /\ At(t, "done")
    /\ Step(t, Done(th[t]))
    /\ UNCHANGED <<live, pool>>

-----------------------------------------------------------------------------
(* Base memory.  base_mtx is held while base_pages_alloc takes a chunk,    *)
(* base_node_mtx while base_node_prealloc calls base_alloc.                *)

BaseAlloc(t) ==
    LET l == th[t]
    IN  /\ At(t, "base") /\ Free("base")
        /\ IF base.next + l.c <= base.past
           THEN /\ base' = [base EXCEPT !.next = @ + l.c]
                /\ used' = used \cup (base.next .. (base.next + l.c - 1))
                /\ Step(t, Return([l EXCEPT !.b = base.next]))
                /\ UNCHANGED mtx
           ELSE /\ mtx' = [mtx EXCEPT !["base"] = t]
                /\ Step(t, Call([l EXCEPT !.n = CHUNK_CEILING(l.c) \div U, !.al = 1,
                                          !.zero = FALSE], "recycle", "base_pages"))
                /\ UNCHANGED <<base, used>>
        /\ UNCHANGED <<live, exts, nodes, huge, ranges, cur, nthr, inarena, mem, verdict,
                       made, lost>>

BasePages(t) ==
    LET l == th[t]
    IN  /\ At(t, "base_pages") /\ (l.r # NoChunk => Free("chunks"))
        /\ mtx' = [mtx EXCEPT !["base"] = NoThread]
        /\ IF l.r = NoChunk
           THEN /\ Step(t, Return([l EXCEPT !.b = NoChunk]))
                /\ UNCHANGED <<base, used, cur>>
           ELSE /\ cur' = cur + l.n
                /\ base' = [next |-> l.r * U + l.c, past |-> (l.r + l.n) * U]
                /\ used' = used \cup ((l.r * U) .. (l.r * U + l.c - 1))
                /\ Step(t, Return([l EXCEPT !.b = l.r * U, !.r = NoChunk]))
        /\ UNCHANGED <<live, exts, nodes, huge, ranges, nthr, inarena, mem, verdict, made,
                       lost>>

\* One round of base_node_prealloc; num is what is still to be made.
Prealloc(t) ==
    LET l == th[t]
    IN  /\ At(t, "pre") /\ mtx["nodes"] \in {NoThread, t}
        /\ mtx' = [mtx EXCEPT !["nodes"] = IF l.num = 0 THEN NoThread ELSE t]
        /\ Step(t, IF l.num = 0 THEN Return(l)
                   ELSE Call([l EXCEPT !.c = 1], "base", "pre_got"))
        /\ UNCHANGED <<live, exts, nodes, huge, base, ranges, cur, nthr, inarena, mem,
                       verdict, made, used, lost>>

PreallocGot(t) ==
    LET l == th[t]
        ok == l.b # NoChunk
    IN  /\ At(t, "pre_got")
        /\ mtx' = [mtx EXCEPT !["nodes"] = IF ok THEN t ELSE NoThread]
        /\ nodes' = IF ok THEN nodes + 1 ELSE nodes
        /\ made' = IF ok THEN made + 1 ELSE made
        /\ Step(t, IF ok THEN [l EXCEPT !.num = @ - 1, !.pc = "pre"] ELSE Return(l))
        /\ UNCHANGED <<live, exts, huge, base, ranges, cur, nthr, inarena, mem, verdict,
                       used, lost>>

-----------------------------------------------------------------------------
(* je_pool_extend: nodes and the range record from the pool's base memory  *)
(* if it has room, else from the start of the new area.                    *)

je_pool_extend(t, i) ==
    /\ live /\ Begin(t, "extend")
    /\ \A rg \in ranges : rg.addr # Areas[i].addr
    /\ \A s \in Threads : th[s].area # i
    /\ Step(t, Call([Entered(t) EXCEPT !.area = i, !.num = Areas[i].size \div U],
                    "pre", "ext_node"))
    /\ UNCHANGED <<live, pool>>

ExtendNode(t) ==
    /\ At(t, "ext_node")
    /\ Step(t, Call([th[t] EXCEPT !.c = 1, !.u = CHUNK_CEILING(Areas[th[t].area].addr)],
                    "base", "ext_switch"))
    /\ UNCHANGED <<live, pool>>

\* Base memory moves to the new area when the old one was too small.
ExtendSwitch(t) ==
    LET l == th[t]
        area == Areas[l.area]
    IN  /\ At(t, "ext_switch")
        /\ IF l.num = 0 /\ l.b # NoChunk
           THEN Step(t, [l EXCEPT !.pc = "ext_add"]) /\ UNCHANGED base
           ELSE /\ Free("base")
                /\ base' = [next |-> area.addr, past |-> area.addr + area.size]
                /\ Step(t, Call([l EXCEPT !.got = l.b # NoChunk], "pre", "ext_node2"))
        /\ UNCHANGED <<live, exts, nodes, huge, ranges, cur, nthr, inarena, mem, mtx,
                       verdict, made, used, lost>>

ExtendNode2(t) ==
    LET l == th[t]
    IN  /\ At(t, "ext_node2")
        /\ Step(t, IF l.got THEN [l EXCEPT !.pc = "ext_read"]
                   ELSE Call([l EXCEPT !.c = 1], "base", "ext_read"))
        /\ UNCHANGED <<live, pool>>

\* base_next_addr is read, and base_past_addr written, without base_mtx.
ExtendRead(t) ==
    /\ At(t, "ext_read")
    /\ Step(t, [th[t] EXCEPT !.u = CHUNK_CEILING(base.next), !.pc = "ext_past"])
    /\ UNCHANGED <<live, pool>>

ExtendPast(t) ==
    /\ At(t, "ext_past")
    /\ base' = [base EXCEPT !.past = th[t].u]
    /\ Step(t, [th[t] EXCEPT !.pc = "ext_add"])
    /\ UNCHANGED <<live, exts, nodes, huge, ranges, cur, nthr, inarena, mem, mtx, verdict,
                   made, used, lost>>

ExtendAdd(t) ==
    LET l == th[t]
        rg == RangeOf(Areas[l.area], l.u)
    IN  /\ At(t, "ext_add") /\ Free("mr")
        /\ mtx' = [mtx EXCEPT !["mr"] = t]
        /\ ranges' = ranges \cup {rg}
        /\ \E z \in BOOLEAN :
              /\ mem' = IF z THEN mem \cup (rg.u \div U .. (rg.uend \div U - 1))
                        ELSE mem \ (rg.u \div U .. (rg.uend \div U - 1))
              /\ Step(t, Call([l EXCEPT !.e = ExtOf(rg, z)], "rec_node", "ext_end"))
        /\ UNCHANGED <<live, exts, nodes, huge, base, cur, nthr, inarena, verdict, made,
                       used, lost>>

ExtendEnd(t) ==
    /\ At(t, "ext_end")
    /\ mtx' = [mtx EXCEPT !["mr"] = NoThread]
    /\ Step(t, Done(th[t]))
    /\ UNCHANGED <<live, exts, nodes, huge, base, ranges, cur, nthr, inarena, mem,
                   verdict, made, used, lost>>

-----------------------------------------------------------------------------
(* A thread's arena: choose_arena_hard, arenas_extend, arenas_cleanup.     *)

LeastLoaded == CHOOSE i \in DOMAIN nthr :
                   /\ nthr[i] # NoArena
                   /\ \A j \in DOMAIN nthr : nthr[j] # NoArena =>
                         (nthr[i] < nthr[j] \/ (nthr[i] = nthr[j] /\ i <= j))
NullArenas == {i \in DOMAIN nthr : nthr[i] = NoArena}

\* The arena with fewest threads if it has none or no slot is empty; else a
\* new arena in the first empty slot, made while arenas_lock is held.
choose_arena_hard(t) ==
    LET l == th[t]
    IN  /\ live /\ Begin(t, "choose") /\ l.arena = NoArena /\ Free("arenas")
        /\ IF nthr[LeastLoaded] = 0 \/ NullArenas = {}
           THEN /\ nthr' = [nthr EXCEPT ![LeastLoaded] = @ + 1]
                /\ Step(t, [l EXCEPT !.arena = LeastLoaded])
                /\ UNCHANGED mtx
           ELSE /\ mtx' = [mtx EXCEPT !["arenas"] = t]
                /\ Step(t, Call([l EXCEPT !.c = ArenaUnits], "base", "arena_new"))
                /\ UNCHANGED nthr
        /\ UNCHANGED <<live, exts, nodes, huge, base, ranges, cur, inarena, mem, verdict,
                       made, used, lost>>

\* arena_new allocates its lstats; either failure falls back on arena 0.
ArenaNew(t) ==
    LET l == th[t]
        a == IF At(t, "arena_done") /\ l.b # NoChunk THEN Min(NullArenas) ELSE 0
    IN  /\ th[t].pc \in {"arena_new", "arena_done"}
        /\ IF At(t, "arena_new") /\ l.b # NoChunk
           THEN /\ Step(t, Call([l EXCEPT !.c = 1], "base", "arena_done"))
                /\ UNCHANGED <<nthr, mtx>>
           ELSE /\ nthr' = [nthr EXCEPT ![a] = IF @ = NoArena THEN 1 ELSE @ + 1]
                /\ mtx' = [mtx EXCEPT !["arenas"] = NoThread]
                /\ Step(t, [Done(l) EXCEPT !.arena = a])
        /\ UNCHANGED <<live, exts, nodes, huge, base, ranges, cur, inarena, mem, verdict,
                       made, used, lost>>

\* A thread ends; pools_lock is held while arenas_lock is taken.
arenas_cleanup(t) ==
    /\ live /\ At(t, "idle") /\ "exit" \in Ops[t] /\ th[t].arena # NoArena /\ Free("pools")
    /\ mtx' = [mtx EXCEPT !["pools"] = t]
    /\ Step(t, [th[t] EXCEPT !.pc = "cleanup"])
    /\ UNCHANGED <<live, exts, nodes, huge, base, ranges, cur, nthr, inarena, mem,
                   verdict, made, used, lost>>

CleanupArena(t) ==
    /\ At(t, "cleanup") /\ Free("arenas")
    /\ nthr' = [nthr EXCEPT ![th[t].arena] = @ - 1]
    /\ mtx' = [mtx EXCEPT !["pools"] = NoThread]
    /\ Step(t, [Idle EXCEPT !.pc = "exited", !.calls = MaxCalls[t]])
    /\ UNCHANGED <<live, exts, nodes, huge, base, ranges, cur, inarena, mem, verdict,
                   made, used, lost>>

-----------------------------------------------------------------------------
(* je_pool_check: memory_range_mtx, then chunks_mtx, then arenas_lock.     *)

RangesSound ==
    /\ \A rg \in ranges : rg.addr <= rg.u /\ rg.uend <= rg.end /\ rg.u < rg.uend
    /\ \A rg \in ranges, o \in OtherRanges :
          ~(o.addr < rg.end /\ rg.addr < o.addr + o.size)

je_pool_check(t) ==
    /\ live /\ Begin(t, "check") /\ Free("mr") /\ Free("pools")
    /\ mtx' = [mtx EXCEPT !["mr"] = IF RangesSound THEN t ELSE NoThread]
    /\ verdict' = IF RangesSound THEN verdict ELSE 0
    /\ Step(t, IF RangesSound THEN [Entered(t) EXCEPT !.pc = "check_chunks"]
               ELSE Done(Entered(t)))
    /\ UNCHANGED <<live, exts, nodes, huge, base, ranges, cur, nthr, inarena, mem, made,
                   used, lost>>

CheckChunks(t) ==
    /\ At(t, "check_chunks") /\ Free("chunks")
    /\ mtx' = [mtx EXCEPT !["chunks"] = t]
    /\ Step(t, [th[t] EXCEPT !.pc = "check_arenas"])
    /\ UNCHANGED <<live, exts, nodes, huge, base, ranges, cur, nthr, inarena, mem,
                   verdict, made, used, lost>>

\* check_tree_binary_iter_cb on every extent.
ExtentSound(e) ==
    /\ e.n # 0
    /\ e.z => Chunks(e) \subseteq mem
    /\ \E rg \in ranges : rg.u <= e.a * U /\ (e.a + e.n) * U <= rg.uend

\* The sum of all free sizes; an arena's free runs and spare are at most its
\* chunks.
SizesSound ==
    (TotalSize(exts) + Cardinality(inarena)) * U
      <= MapThenSumSet(LAMBDA rg : rg.uend - rg.u, ranges)

\* The contents of arenas are not modelled: the tests of their free runs and
\* of their spare chunks (check_tree_chunks_avail_iter_cb) may report one
\* that has a chunk.  They come before the sum is tested.
CheckArenas(t) ==
    /\ At(t, "check_arenas") /\ Free("arenas")
    /\ \/ /\ \A e \in exts : ExtentSound(e)
          /\ inarena # {} /\ verdict' = ArenaReported
       \/ verdict' = IF (\A e \in exts : ExtentSound(e)) /\ SizesSound THEN 1 ELSE 0
    /\ mtx' = [mtx EXCEPT !["mr"] = NoThread, !["chunks"] = NoThread]
    /\ Step(t, Done(th[t]))
    /\ UNCHANGED <<live, exts, nodes, huge, base, ranges, cur, nthr, inarena, mem, made,
                   used, lost>>

-----------------------------------------------------------------------------
Inner(t) ==
    \/ RecycleTake(t) \/ RecyclePut(t) \/ TrailNode(t) \/ TrailInsert(t)
    \/ Dalloc(t) \/ RecordNode(t) \/ RecordInsert(t) \/ RecordPut(t)
    \/ HugeNode(t) \/ HugeFail(t) \/ HugeRegister(t) \/ HugeInsert(t)
    \/ HugeDalloc(t) \/ HugeDallocPut(t) \/ ArenaRegister(t) \/ CallDone(t)
    \/ BaseAlloc(t) \/ BasePages(t) \/ Prealloc(t) \/ PreallocGot(t)
    \/ ExtendNode(t) \/ ExtendSwitch(t) \/ ExtendNode2(t) \/ ExtendRead(t)
    \/ ExtendPast(t) \/ ExtendAdd(t) \/ ExtendEnd(t) \/ ArenaNew(t)
    \/ CleanupArena(t) \/ CheckChunks(t) \/ CheckArenas(t)

Next ==
    \/ \E z \in BOOLEAN : je_pool_create(z)
    \/ je_pool_delete
    \/ \E t \in Threads :
          \/ Inner(t)
          \/ \E n \in Sizes :
                \/ je_pool_malloc(t, n)
                \/ je_pool_calloc(t, n)
                \/ \E al \in Aligns : je_pool_aligned_alloc(t, n, al)
                \/ \E h \in huge : je_pool_ralloc(t, h, n)
          \/ \E h \in huge : je_pool_free(t, h)
          \/ ArenaGrow(t)
          \/ \E c \in inarena : ArenaShrink(t, c)
          \/ \E i \in DOMAIN Areas \ {1} : je_pool_extend(t, i)
          \/ choose_arena_hard(t) \/ arenas_cleanup(t) \/ je_pool_check(t)

Spec == Init /\ [][Next]_vars

-----------------------------------------------------------------------------
(* Properties.                                                             *)

Usable == UNION {(rg.u \div U) .. (rg.uend \div U - 1) : rg \in ranges}
BaseChunks == {x \div U : x \in used}

\* Who has chunk c: the free extents, the clients, a thread that has taken it
\* or is about to give it back, the arenas, base memory, or nobody any more.
FreeAt(c)  == {x \in exts : c \in Chunks(x)}
HugeAt(c)  == {x \in huge : c \in Chunks(x)}
TakenAt(c) == {s \in Threads : th[s].r # NoChunk /\ c \in th[s].r .. (th[s].r + th[s].n - 1)}
MovedAt(c) == {s \in Threads : ~At(s, "free") /\ c \in Chunks(th[s].e)}
ArenaAt(c) == inarena \cap {c}
BaseAt(c)  == BaseChunks \cap {c}
LostAt(c)  == lost \cap {c}

Owners(c) ==
    {<<"free", x>> : x \in FreeAt(c)} \cup {<<"huge", x>> : x \in HugeAt(c)}
    \cup {<<"taken", s>> : s \in TakenAt(c)} \cup {<<"moved", s>> : s \in MovedAt(c)}
    \cup {<<"arena", x>> : x \in ArenaAt(c)} \cup {<<"base", x>> : x \in BaseAt(c)}
    \cup {<<"lost", x>> : x \in LostAt(c)}

\* Every usable chunk has exactly one owner in every state, whatever the
\* threads are in the middle of: splitting and coalescing (chunk.c) hand a
\* chunk neither to two owners nor to none, and a range that is added by
\* je_pool_extend brings its chunks with it.
ChunksAccounted == live => \A c \in Usable : Cardinality(Owners(c)) = 1

\* Extent nodes are neither leaked nor used twice: those on the list, in the
\* trees and in the hands of threads are all that were made (base.c).
NodesAccounted ==
    nodes + Cardinality(exts) + Cardinality(huge)
      + MapThenSumSet(LAMBDA t : th[t].held, Threads) = made

\* Memory and bookkeeping are accounted for at every step: see the two parts.
PoolAccounted == TypeOK /\ ChunksAccounted /\ NodesAccounted

\* An extent marked zeroed, which chunk_recycle hands out without clearing
\* it, is zero, and so is the memory of a calloc (chunk.c:107, :301, :338).
ZeroedIsZero == \A x \in exts \cup huge : x.z => Chunks(x) \subseteq mem

\* The tests that je_pool_check makes of the ranges, of the free extents and
\* of the sum of sizes never fail on a pool that only legal calls have
\* touched, not even while another thread allocates, frees or extends it by
\* memory that is not adjacent (extents of adjacent ranges coalesce, and are
\* reported).  What it finds inside an arena is not part of this.
ChunkTestsPass == verdict # 0

=============================================================================
