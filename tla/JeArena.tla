------------------------------- MODULE JeArena -------------------------------
(***************************************************************************)
(* One arena of a libvmem pool: jemalloc's arena.c.  The arena cuts the    *)
(* chunks it gets from the pool into page runs, hands out large runs       *)
(* whole, and cuts small runs into the regions of a bin.                   *)
(*                                                                         *)
(* A chunk's page map is a set of runs: first page p, n pages, kind k and  *)
(* whether it is dirty.  The unzeroed flag is kept per page, as in the     *)
(* map.  A page in junk may hold something other than zeroes.              *)
(*                                                                         *)
(* arena->lock has an owner.  A call is a list of things still to do; the  *)
(* lock is given up where the code gives it up (around chunk_alloc,        *)
(* chunk_dalloc and pages_purge, and at the end of the call) and taken     *)
(* again by the next thing on the list.                                    *)
(***************************************************************************)
EXTENDS Integers, Sequences, SequencesExt

CONSTANTS Threads, NoThread,
          NumChunks,    \* chunks the pool can supply
          Pages,        \* pages of a chunk behind its header (arena_maxclass)
          Sizes,        \* large request sizes, in pages
          Aligns,       \* alignments of arena_palloc, in pages
          BinPages,     \* bin_info->run_size, in pages
          NRegs,        \* bin_info->nregs, RegsPerPage of them in a page
          RegsPerPage,
          LgDirtyMult,  \* opt_lg_dirty_mult
          SizeMod,      \* size_t is modulo SizeMod
          Ops,          \* bound: which calls a thread makes
          MaxCalls      \* bound: how many calls a thread makes

ASSUME ArenaAssumption ==
    /\ Pages \in Nat \ {0} /\ NoThread \notin Threads /\ LgDirtyMult \in Nat
    /\ \A n \in Sizes, al \in Aligns : n + al - 1 <= Pages
    /\ BinPages <= Pages /\ NRegs <= BinPages * RegsPerPage

VARIABLES A,      \* the arena: see TypeOK
          bin,    \* runcur and the tree of other runs with a free region
          hdr,    \* headers of the small runs: free regions and nextind
          junk,   \* pages that may hold something
          ptrs,   \* what the clients hold
          alock,  \* owner of arena->lock
          th

vars == <<A, bin, hdr, junk, ptrs, alock, th>>

ChunkIds == 1 .. NumChunks
NoChunk == 0
NoRun == <<0, 0>>
PageSet(r) == {<<r.c, q>> : q \in r.p .. (r.p + r.n - 1)}
Ends(r) == {<<r.c, r.p>>, <<r.c, r.p + r.n - 1>>}
Id(r) == <<r.c, r.p>>
B(x) == IF x THEN 1 ELSE 0
RunAt(a, id) == CHOOSE r \in a.runs : Id(r) = id
Threshold(a) == a.nactive \div (2 ^ LgDirtyMult)

Idle == [pc |-> "idle", todo |-> <<>>, n |-> 0, al |-> 1, kind |-> "large",
         zero |-> FALSE, c |-> NoChunk, run |-> NoRun, old |-> NoRun, calls |-> 0]

TypeOK ==
    /\ \A r \in A.runs : /\ r.c \in ChunkIds /\ r.p \in 1 .. Pages /\ r.n \in 1 .. Pages
                         /\ r.k \in {"free", "large", "small"} /\ r.d \in BOOLEAN
    /\ A.avail \subseteq ChunkIds \X (1 .. Pages) /\ A.unz \subseteq ChunkIds \X (1 .. Pages)
    /\ A.nactive \in Nat /\ A.ndirty \in Nat /\ A.npurgatory \in 0 .. (SizeMod - 1)
    /\ A.ch \in [ChunkIds -> [avail : Nat, adjac : Nat, dirty : Nat]]
    /\ A.spare \in ChunkIds \cup {NoChunk}
    /\ bin.cur \in {NoRun} \cup DOMAIN hdr /\ bin.tree \subseteq DOMAIN hdr
    /\ alock \in Threads \cup {NoThread}

Init ==
    /\ A = [runs |-> {}, avail |-> {}, unz |-> {}, nactive |-> 0, ndirty |-> 0,
            npurgatory |-> 0, spare |-> NoChunk,
            ch |-> [c \in ChunkIds |-> [avail |-> 0, adjac |-> 0, dirty |-> 0]]]
    /\ bin = [cur |-> NoRun, tree |-> {}]
    /\ hdr = <<>> /\ junk = {} /\ ptrs = {}
    /\ alock = NoThread
    /\ th = [t \in Threads |-> Idle]

-----------------------------------------------------------------------------
(* The page map and the tree of available runs, as functions of the arena. *)

arena_avail_adjac_pred(a, r) == \E q \in a.runs : q.c = r.c /\ q.k = "free" /\ q.p + q.n = r.p
arena_avail_adjac_succ(a, r) == \E q \in a.runs : q.c = r.c /\ q.k = "free" /\ r.p + r.n = q.p
arena_avail_adjac(a, r) == arena_avail_adjac_pred(a, r) \/ arena_avail_adjac_succ(a, r)

Adjacent(a, r, pred, succ) ==
    B(pred /\ arena_avail_adjac_pred(a, r)) + B(succ /\ arena_avail_adjac_succ(a, r))

arena_avail_insert(a, r, pred, succ) ==
    [a EXCEPT !.ch[r.c] = [avail |-> @.avail + 1,
                           adjac |-> @.adjac + Adjacent(a, r, pred, succ),
                           dirty |-> @.dirty + B(r.d) * r.n],
              !.ndirty = @ + B(r.d) * r.n,
              !.avail = @ \cup {Id(r)}]

arena_avail_remove(a, r, pred, succ) ==
    [a EXCEPT !.ch[r.c] = [avail |-> @.avail - 1,
                           adjac |-> @.adjac - Adjacent(a, r, pred, succ),
                           dirty |-> @.dirty - B(r.d) * r.n],
              !.ndirty = @ - B(r.d) * r.n,
              !.avail = @ \ {Id(r)}]

\* unallocated_set on the two ends of a run: a dirty run loses the unzeroed
\* flag there, a clean one keeps it.
MarkFree(a, r) == [a EXCEPT !.unz = IF r.d THEN @ \ Ends(r) ELSE @]

Split(a, r, need, kind, rem) ==
    LET a1 == arena_avail_remove(a, r, TRUE, TRUE)
        a2 == [a1 EXCEPT !.nactive = @ + need,
                         !.runs = (@ \ {r}) \cup {[r EXCEPT !.n = need, !.k = kind]}
                                     \cup (IF rem.n > 0 THEN {rem} ELSE {})]
    IN  IF rem.n > 0 THEN arena_avail_insert(MarkFree(a2, rem), rem, FALSE, TRUE) ELSE a2

\* arena_run_split_remove: the first pages of r are taken, the rest stays free.
arena_run_split_remove(a, r, need, kind) ==
    Split(a, r, need, kind, [r EXCEPT !.p = r.p + need, !.n = r.n - need])

\* Joins the free run r with a free neighbour of the same dirtiness.
JoinNext(a, r) ==
    LET S == {q \in a.runs : q.c = r.c /\ q.k = "free" /\ q.d = r.d /\ q.p = r.p + r.n}
        q == CHOOSE x \in S : TRUE
        m == [r EXCEPT !.n = r.n + q.n]
    IN  IF S = {} THEN [a |-> a, r |-> r]
        ELSE [r |-> m,
              a |-> [arena_avail_remove(a, q, FALSE, TRUE)
                       EXCEPT !.runs = (@ \ {q, r}) \cup {m}]]

JoinPrevious(a, r) ==
    LET S == {q \in a.runs : q.c = r.c /\ q.k = "free" /\ q.d = r.d /\ q.p + q.n = r.p}
        q == CHOOSE x \in S : TRUE
        m == [r EXCEPT !.p = q.p, !.n = r.n + q.n]
    IN  IF S = {} THEN [a |-> a, r |-> r]
        ELSE [r |-> m,
              a |-> [arena_avail_remove(a, q, TRUE, FALSE)
                       EXCEPT !.runs = (@ \ {q, r}) \cup {m}]]

arena_run_coalesce_NextOnly(a, r) == JoinNext(a, r)

arena_run_coalesce(a, r) ==
    LET j == JoinNext(a, r) IN JoinPrevious(j.a, j.r)

\* A chunk that is one free run becomes the spare; the spare it displaces is
\* given back to the pool.
arena_chunk_dalloc(a, r) ==
    LET a1 == arena_avail_remove(a, r, FALSE, FALSE)
        out == a.spare
    IN  [out |-> out,
         a |-> [a1 EXCEPT !.spare = r.c,
                          !.runs = {q \in @ : q.c # out},
                          !.unz = {x \in @ : x[1] # out}]]

\* arena_run_dalloc: the new arena, the chunk given up if any, and whether the
\* run was dirty.
arena_run_dalloc(a, r, dirty, cleaned) ==
    LET d == dirty \/ (~cleaned /\ r.d)
        f == [r EXCEPT !.k = "free", !.d = d]
        a1 == MarkFree([a EXCEPT !.nactive = @ - r.n, !.runs = (@ \ {r}) \cup {f}], f)
        j == arena_run_coalesce(a1, f)
        a2 == arena_avail_insert(j.a, j.r, TRUE, TRUE)
        g == arena_chunk_dalloc(a2, j.r)
    IN  IF j.r.n = Pages THEN [a |-> g.a, out |-> g.out, d |-> d]
        ELSE [a |-> a2, out |-> NoChunk, d |-> d]

\* arena_run_trim_head and _tail, before the run that is cut off is freed.
Cut(a, r, n) ==
    [a EXCEPT !.runs = (@ \ {r}) \cup {[r EXCEPT !.n = n, !.k = "large"],
                                       [r EXCEPT !.p = r.p + n, !.n = r.n - n, !.k = "large"]}]

\* arena_avail_tree_nsearch: a run of the size of the key compares equal to it
\* and is taken if it is met on the way down, so any of them may be; else the
\* smallest run that fits, the lowest of those.
BestFits(a, n) ==
    LET S == {r \in a.runs : Id(r) \in a.avail /\ r.n >= n}
        exact == {r \in S : r.n = n}
    IN  IF exact # {} THEN exact
        ELSE {r \in S : \A q \in S : \/ r.n < q.n
                                     \/ r.n = q.n /\ r.c * (Pages + 1) + r.p <= q.c * (Pages + 1) + q.p}
HasFit(a, n) == \E r \in a.runs : Id(r) \in a.avail /\ r.n >= n

WholeRun(a, c) == CHOOSE r \in a.runs : r.c = c /\ r.n = Pages

\* arena_chunk_alloc: the spare again, or a new chunk.
arena_chunk_init_spare(a) ==
    arena_avail_insert([a EXCEPT !.spare = NoChunk], WholeRun(a, a.spare), FALSE, FALSE)

arena_chunk_init_hard(a, c, zero) ==
    LET r == [c |-> c, p |-> 1, n |-> Pages, k |-> "free", d |-> FALSE]
    IN  arena_avail_insert(
            [a EXCEPT !.runs = @ \cup {r},
                      !.ch[c] = [avail |-> 0, adjac |-> 0, dirty |-> 0],
                      !.unz = IF zero THEN @ \ PageSet(r) ELSE @ \cup PageSet(r)],
            r, FALSE, FALSE)

-----------------------------------------------------------------------------
Goto(t, l) == th' = [th EXCEPT ![t] = l]
Todo(t) == Head(th[t].todo)
Doing(t, o) == th[t].pc = "todo" /\ th[t].todo # <<>> /\ Todo(t).o = o
Rest(t) == Tail(th[t].todo)
Then(l, todo) == [l EXCEPT !.todo = todo, !.pc = "todo"]
Begin(t) == th[t].pc = "idle" /\ th[t].calls < MaxCalls[t]
Entered(t) == [Idle EXCEPT !.calls = th[t].calls + 1]
ALock(t) == alock \in {NoThread, t}
\* A pointer another call is working on may not be passed to this one.
Unused(p) == \A t \in Threads : th[t].old # <<p.c, p.p>>

FreeOp(id, dirty, cleaned) == [o |-> "free", id |-> id, dirty |-> dirty, cleaned |-> cleaned]

-----------------------------------------------------------------------------
(* Allocating a run: arena_run_alloc_large and arena_run_alloc_small.      *)

\* The run is split off with arena->lock held.
Take(t, a, r) ==
    LET l == th[t]
    IN  /\ A' = arena_run_split_remove(a, r, l.n, l.kind)
        /\ Goto(t, IF l.kind = "large"
                   THEN Then([l EXCEPT !.run = Id(r)], <<[o |-> "align"]>>)
                   ELSE [l EXCEPT !.run = Id(r), !.pc = "header"])
        /\ alock' = t

\* Best fit, else the spare; else the lock is dropped to ask the pool.
RunAlloc(t) ==
    LET l == th[t]
        sp == arena_chunk_init_spare(A)
    IN  /\ l.pc = "run" /\ ALock(t)
        /\ \/ \E r \in BestFits(A, l.n) : Take(t, A, r)
           \/ ~HasFit(A, l.n) /\ A.spare # NoChunk /\ Take(t, sp, WholeRun(A, A.spare))
           \/ /\ ~HasFit(A, l.n) /\ A.spare = NoChunk
              /\ Goto(t, [l EXCEPT !.pc = "chunk"])
              /\ alock' = NoThread
              /\ UNCHANGED A
        /\ UNCHANGED <<bin, hdr, junk, ptrs>>

\* chunk_alloc: the pool has a chunk, zeroed or not, or it has none.
ChunkAlloc(t) ==
    LET taken == {r.c : r \in A.runs} \cup {th[u].c : u \in Threads}
                    \cup {op.c : op \in {x \in UNION {ToSet(th[u].todo) : u \in Threads} : x.o = "give"}}
    IN  /\ th[t].pc = "chunk"
        /\ \/ \E c \in ChunkIds \ taken, zero \in BOOLEAN :
                /\ \A e \in ChunkIds \ taken : c <= e
                /\ junk' = IF zero THEN {x \in junk : x[1] # c}
                           ELSE junk \cup ({c} \X (1 .. Pages))
                /\ Goto(t, [th[t] EXCEPT !.pc = "retry", !.c = c,
                                         !.todo = <<[o |-> "chunk", zero |-> zero]>>])
           \/ ChunkIds \subseteq taken /\ Goto(t, [th[t] EXCEPT !.pc = "retry"]) /\ UNCHANGED junk
        /\ UNCHANGED <<A, bin, hdr, ptrs, alock>>

\* With a chunk, its first pages; without, whatever another thread freed.
RunRetry(t) ==
    LET l == th[t]
        new == arena_chunk_init_hard(A, l.c, l.todo[1].zero)
    IN  /\ l.pc = "retry" /\ ALock(t)
        /\ \/ /\ l.c # NoChunk
              /\ A' = arena_run_split_remove(new, WholeRun(new, l.c), l.n, l.kind)
              /\ Goto(t, IF l.kind = "large"
                         THEN Then([l EXCEPT !.run = <<l.c, 1>>, !.c = NoChunk],
                                   <<[o |-> "align"]>>)
                         ELSE [l EXCEPT !.run = <<l.c, 1>>, !.c = NoChunk, !.pc = "header",
                                        !.todo = <<>>])
              /\ alock' = t
           \/ l.c = NoChunk /\ \E r \in BestFits(A, l.n) : Take(t, A, r)
           \/ /\ l.c = NoChunk /\ ~HasFit(A, l.n)
              /\ Goto(t, IF l.kind = "large" THEN [Idle EXCEPT !.calls = l.calls]
                         ELSE [l EXCEPT !.pc = "bin"])
              /\ alock' = NoThread
              /\ UNCHANGED A
        /\ UNCHANGED <<bin, hdr, junk, ptrs>>

-----------------------------------------------------------------------------
(* Large allocations.                                                      *)

\* arena_malloc_large, and arena_palloc for an alignment of several pages.
arena_palloc(t, n, al, zero) ==
    /\ Begin(t)
    /\ Goto(t, [Entered(t) EXCEPT !.pc = "run", !.n = n + al - 1, !.al = al, !.zero = zero])
    /\ UNCHANGED <<A, bin, hdr, junk, ptrs, alock>>

\* arena_palloc trims the head, then the tail; a dirty trimmed run may start a
\* purge, which drops the lock.
Align(t) ==
    LET l == th[t]
        r == RunAt(A, l.run)
        lead == (((r.p + l.al - 1) \div l.al) * l.al) - r.p
        n == l.n - l.al + 1
        body == <<r.c, r.p + lead>>
    IN  /\ Doing(t, "align") /\ ALock(t)
        /\ A' = IF lead = 0 THEN A ELSE Cut(A, r, lead)
        /\ Goto(t, Then([l EXCEPT !.run = body],
                        (IF lead # 0 THEN <<FreeOp(Id(r), FALSE, FALSE)>> ELSE <<>>)
                        \o (IF r.n - lead > n
                            THEN <<[o |-> "trim", id |-> body, n |-> n, dirty |-> FALSE]>>
                            ELSE <<>>)
                        \o <<[o |-> "user"]>>))
        /\ alock' = t
        /\ UNCHANGED <<bin, hdr, junk, ptrs>>

\* arena_run_trim_tail.
Trim(t) ==
    LET op == Todo(t)
        r == RunAt(A, op.id)
    IN  /\ Doing(t, "trim") /\ ALock(t)
        /\ A' = Cut(A, r, op.n)
        /\ Goto(t, Then(th[t], <<FreeOp(<<r.c, r.p + op.n>>, op.dirty, FALSE)>> \o Rest(t)))
        /\ alock' = t
        /\ UNCHANGED <<bin, hdr, junk, ptrs>>

\* The client gets the run; for calloc the pages not known to be zero are
\* cleared.  A reallocation that moved frees the old run.
ZeroFill(a, r) == IF r.d THEN PageSet(r) ELSE PageSet(r) \cap a.unz

User(t) ==
    LET l == th[t]
        r == RunAt(A, l.run)
    IN  /\ Doing(t, "user") /\ ALock(t)
        /\ ptrs' = ptrs \cup {[c |-> r.c, p |-> r.p, reg |-> 0, zero |-> l.zero]}
        /\ junk' = IF l.zero THEN junk \ ZeroFill(A, r) ELSE junk
        /\ alock' = NoThread
        /\ Goto(t, IF l.old = NoRun THEN [Idle EXCEPT !.calls = l.calls]
                   ELSE Then([l EXCEPT !.run = NoRun], <<[o |-> "dalloc"]>>))
        /\ UNCHANGED <<A, bin, hdr>>

\* arena_dalloc_large: the client may have written to every page.
arena_dalloc_large(t, p) ==
    /\ Begin(t) /\ p.reg = 0 /\ Unused(p)
    /\ Goto(t, Then([Entered(t) EXCEPT !.old = <<p.c, p.p>>], <<[o |-> "dalloc"]>>))
    /\ UNCHANGED <<A, bin, hdr, junk, ptrs, alock>>

DallocLarge(t) ==
    LET id == th[t].old
    IN  /\ Doing(t, "dalloc") /\ ALock(t)
        /\ ptrs' = {p \in ptrs : <<p.c, p.p>> # id}
        /\ junk' = junk \cup PageSet(RunAt(A, id))
        /\ Goto(t, Then([th[t] EXCEPT !.old = NoRun], <<FreeOp(id, TRUE, FALSE)>>))
        /\ alock' = t
        /\ UNCHANGED <<A, bin, hdr>>

\* arena_ralloc_large: shrink in place, grow into the free run that follows,
\* or allocate anew, copy and free.
arena_ralloc_large(t, p, n) ==
    LET r == RunAt(A, <<p.c, p.p>>)
        F == {q \in A.runs : q.c = r.c /\ q.k = "free" /\ q.p = r.p + r.n /\ q.n >= n - r.n}
        q == CHOOSE x \in F : TRUE
        a1 == arena_run_split_remove(A, q, n - r.n, "large")
        ext == RunAt(a1, Id(q))
    IN  /\ Begin(t) /\ p.reg = 0 /\ Unused(p) /\ n # r.n /\ alock = NoThread
        /\ ptrs' = (ptrs \ {p}) \cup {[p EXCEPT !.zero = FALSE]}
        /\ \/ /\ n < r.n
              /\ junk' = junk \cup PageSet(r)
              /\ Goto(t, Then(Entered(t), <<[o |-> "trim", id |-> Id(r), n |-> n, dirty |-> TRUE]>>))
              /\ alock' = t
              /\ UNCHANGED A
           \/ /\ n > r.n /\ F # {}
              /\ A' = [a1 EXCEPT !.runs = (@ \ {r, ext}) \cup
                                     {[r EXCEPT !.n = n, !.d = r.d \/ ext.d]}]
              /\ Goto(t, Entered(t))
              /\ UNCHANGED <<junk, alock>>
           \/ /\ n > r.n /\ F = {}
              /\ Goto(t, [Entered(t) EXCEPT !.pc = "run", !.n = n, !.old = Id(r)])
              /\ UNCHANGED <<A, junk, alock>>
        /\ UNCHANGED <<bin, hdr>>

-----------------------------------------------------------------------------
(* Freeing a run and purging.                                              *)

FreeRun(t) ==
    LET op == Todo(t)
        g == arena_run_dalloc(A, RunAt(A, op.id), op.dirty, op.cleaned)
    IN  /\ Doing(t, "free") /\ ALock(t)
        /\ A' = g.a
        /\ Goto(t, Then(th[t], (IF g.out # NoChunk THEN <<[o |-> "give", c |-> g.out]>> ELSE <<>>)
                               \o (IF g.d THEN <<[o |-> "maybe"]>> ELSE <<>>) \o Rest(t)))
        /\ alock' = t
        /\ UNCHANGED <<bin, hdr, junk, ptrs>>

\* arena_chunk_dalloc_internal drops the lock around chunk_dalloc.
GiveBack(t) ==
    /\ Doing(t, "give")
    /\ Goto(t, Then(th[t], Rest(t)))
    /\ alock' = NoThread
    /\ UNCHANGED <<A, bin, hdr, junk, ptrs>>

\* arena_purge begins: arena_maybe_purge leaves a threshold, arena_purge_all none.
PurgeOp(num, all) == [o |-> "purge", num |-> num, all |-> all, add |-> 0]

arena_maybe_purge(t) ==
    LET n == A.ndirty - A.npurgatory
        num == n - Threshold(A)
    IN  /\ Doing(t, "maybe") /\ ALock(t)
        /\ IF A.ndirty <= A.npurgatory \/ n <= Threshold(A)
           THEN Goto(t, Then(th[t], Rest(t))) /\ UNCHANGED A
           ELSE /\ A' = [A EXCEPT !.npurgatory = @ + num]
                /\ Goto(t, Then(th[t], <<PurgeOp(num, FALSE)>> \o Rest(t)))
        /\ alock' = t
        /\ UNCHANGED <<bin, hdr, junk, ptrs>>

arena_purge_all(t) ==
    LET num == (A.ndirty - A.npurgatory) % SizeMod
    IN  /\ Begin(t) /\ alock = NoThread
        /\ A' = [A EXCEPT !.npurgatory = (@ + num) % SizeMod]
        /\ Goto(t, Then(Entered(t), <<PurgeOp(num, TRUE)>>))
        /\ alock' = t
        /\ UNCHANGED <<bin, hdr, junk, ptrs>>

\* arena_chunk_dirty_comp: the more fragmented chunk first; among equals the
\* lower one, or the higher one if it has no clean run beside a dirty one.
DirtyBefore(c, d) ==
    LET vc == (A.ch[c].avail - A.ch[c].adjac) * A.ch[d].avail
        vd == (A.ch[d].avail - A.ch[d].adjac) * A.ch[c].avail
    IN  \/ c = d
        \/ vc > vd
        \/ vc = vd /\ (IF A.ch[c].adjac = 0 THEN c > d ELSE c < d)
DirtyChunks == {c \in ChunkIds : A.ch[c].dirty # 0}

\* arena_chunk_stash_dirty allocates the dirty runs so that nobody uses them.
Stash(a, S) == FoldSet(LAMBDA r, b : arena_run_split_remove(b, r, r.n, "large"), a, S)

\* No chunk is dirty any more: what is left of the intent is withdrawn.
GiveUp(a, num) == [a EXCEPT !.npurgatory = (@ - num) % SizeMod]

\* One round of the loop of arena_purge up to the drop of the lock; the
\* counters are size_t and wrap when a chunk has more than was asked for.
PurgeRound(t) ==
    LET op == Todo(t)
        num == (op.num + op.add) % SizeMod
        a0 == [A EXCEPT !.npurgatory = (@ + op.add) % SizeMod]
        c == CHOOSE x \in DirtyChunks : \A y \in DirtyChunks : DirtyBefore(x, y)
        nd == A.ch[c].dirty
        solo == A.ch[c].adjac = 0
        all == op.all \/ solo
        bump == IF nd > num /\ solo THEN nd - num ELSE 0
        S == {r \in A.runs : r.c = c /\ r.k = "free" /\ r.d /\ (all \/ arena_avail_adjac(A, r))}
        npurged == FoldSet(LAMBDA r, x : x + r.n, 0, S)
    IN  /\ Doing(t, "purge") /\ ALock(t)
        /\ \/ /\ num = 0
              /\ A' = a0
              /\ Goto(t, Then(th[t], Rest(t)))
           \/ /\ num # 0 /\ DirtyChunks = {}
              /\ A' = GiveUp(a0, num)
              /\ Goto(t, Then(th[t], Rest(t)))
           \/ /\ num # 0 /\ DirtyChunks # {}
              /\ A' = Stash([a0 EXCEPT !.npurgatory = (@ + bump - nd) % SizeMod], S)
              /\ Goto(t, Then(th[t],
                     <<[o |-> "madvise", S |-> {Id(r) : r \in S}]>>
                     \o SetToSeq({FreeOp(Id(r), FALSE, TRUE) : r \in S})
                     \o <<[o |-> "purge", num |-> (num + bump - nd) % SizeMod, all |-> op.all,
                           add |-> nd - npurged]>> \o Rest(t)))
        /\ alock' = t
        /\ UNCHANGED <<bin, hdr, junk, ptrs>>

PurgeStashed_Zeroed(t) ==
    /\ Doing(t, "madvise")
    /\ A' = [A EXCEPT !.unz = @ \ UNION {PageSet(RunAt(A, id)) : id \in Todo(t).S}]
    /\ Goto(t, Then(th[t], Rest(t)))
    /\ alock' = NoThread
    /\ UNCHANGED <<bin, hdr, junk, ptrs>>

\* arena_chunk_purge_stashed, without the lock: the pages of a pool's file
\* keep their contents, so they are all flagged unzeroed.
PurgeStashed(t) ==
    /\ Doing(t, "madvise")
    /\ A' = [A EXCEPT !.unz = @ \cup UNION {PageSet(RunAt(A, id)) : id \in Todo(t).S}]
    /\ Goto(t, Then(th[t], Rest(t)))
    /\ alock' = NoThread
    /\ UNCHANGED <<bin, hdr, junk, ptrs>>

\* The call is over.
Finish(t) ==
    /\ th[t].pc = "todo" /\ th[t].todo = <<>>
    /\ Goto(t, [Idle EXCEPT !.calls = th[t].calls])
    /\ alock' = IF alock = t THEN NoThread ELSE alock
    /\ UNCHANGED <<A, bin, hdr, junk, ptrs>>

-----------------------------------------------------------------------------
(* The bin.  bin->lock is released before arena->lock is taken, so its     *)
(* critical sections are single steps.                                     *)

AllRegs == 1 .. NRegs
Lower(x, y) == x[1] * (Pages + 1) + x[2] < y[1] * (Pages + 1) + y[2]
FirstRun(S) == CHOOSE x \in S : \A y \in S : x = y \/ Lower(x, y)
HasRegion(id) == id # NoRun /\ hdr[id].free # {}

\* arena_run_reg_alloc: the first free region of run id, now the client's.
RegAlloc(id) ==
    LET reg == Min(hdr[id].free)
    IN  /\ hdr' = [hdr EXCEPT ![id] = [free |-> @.free \ {reg},
                                       next |-> IF reg = @.next THEN @.next + 1 ELSE @.next]]
        /\ ptrs' = ptrs \cup {[c |-> id[1], p |-> id[2], reg |-> reg, zero |-> FALSE]}
        /\ junk' = junk \cup {<<id[1], id[2] + (reg - 1) \div RegsPerPage>>}

arena_bin_lower_run_Replace(b, id, h) ==
    IF b.cur # NoRun /\ Lower(id, b.cur) THEN [b EXCEPT !.cur = id]
    ELSE [b EXCEPT !.tree = @ \cup {id}]

\* arena_bin_lower_run: runcur is the lowest run with a free region.  h are the
\* headers as the call finds them.
arena_bin_lower_run(b, id, h) ==
    IF b.cur # NoRun /\ Lower(id, b.cur)
    THEN [cur |-> id, tree |-> b.tree \cup (IF h[b.cur].free # {} THEN {b.cur} ELSE {})]
    ELSE [b EXCEPT !.tree = @ \cup {id}]

\* arena_malloc_small: runcur, else the lowest run of the tree, else a new run,
\* for which bin->lock is dropped.
arena_malloc_small(t) ==
    /\ Begin(t)
    /\ \/ /\ HasRegion(bin.cur)
          /\ RegAlloc(bin.cur) /\ Goto(t, Entered(t)) /\ UNCHANGED bin
       \/ /\ ~HasRegion(bin.cur) /\ bin.tree # {}
          /\ bin' = [cur |-> FirstRun(bin.tree), tree |-> bin.tree \ {FirstRun(bin.tree)}]
          /\ RegAlloc(FirstRun(bin.tree)) /\ Goto(t, Entered(t))
       \/ /\ ~HasRegion(bin.cur) /\ bin.tree = {}
          /\ bin' = [bin EXCEPT !.cur = NoRun]
          /\ Goto(t, [Entered(t) EXCEPT !.pc = "run", !.kind = "small", !.n = BinPages])
          /\ UNCHANGED <<hdr, ptrs, junk>>
    /\ UNCHANGED <<A, alock>>

\* arena_bin_nonfull_run_get writes the header while it holds arena->lock.
Header(t) ==
    LET id == th[t].run
    IN  /\ th[t].pc = "header"
        /\ hdr' = [x \in DOMAIN hdr \cup {id} |->
                      IF x = id THEN [free |-> AllRegs, next |-> 1] ELSE hdr[x]]
        /\ junk' = junk \cup {id}
        /\ alock' = NoThread
        /\ Goto(t, [th[t] EXCEPT !.pc = "bin"])
        /\ UNCHANGED <<A, bin, ptrs>>

\* The rest of arena_bin_malloc_hard, with bin->lock again: another thread may
\* have set runcur meanwhile, and then the new run is not needed.
BinMallocHard(t) ==
    LET l == th[t]
        fromTree == l.run = NoRun /\ bin.tree # {}
        run == IF fromTree THEN FirstRun(bin.tree) ELSE l.run
        b == IF fromTree THEN [bin EXCEPT !.tree = @ \ {run}] ELSE bin
        done == [Idle EXCEPT !.calls = l.calls]
        empty == run # NoRun /\ hdr[run].free = AllRegs
    IN  /\ l.pc = "bin"
        /\ \/ /\ HasRegion(b.cur)
              /\ RegAlloc(b.cur)
              /\ bin' = IF run = NoRun \/ empty THEN b ELSE arena_bin_lower_run(b, run, hdr')
              /\ Goto(t, IF empty THEN Then(done, <<[o |-> "binrun", id |-> run]>>) ELSE done)
           \/ /\ ~HasRegion(b.cur) /\ run = NoRun
              /\ Goto(t, done)
              /\ bin' = b /\ UNCHANGED <<hdr, ptrs, junk>>
           \/ /\ ~HasRegion(b.cur) /\ run # NoRun
              /\ bin' = [b EXCEPT !.cur = run]
              /\ RegAlloc(run) /\ Goto(t, done)
        /\ UNCHANGED <<A, alock>>

\* arena_dalloc_bin_locked: an empty run is dissociated and freed; a run that
\* was full can be used again.
arena_dalloc_small(t, p) ==
    LET id == <<p.c, p.p>>
        free == hdr[id].free \cup {p.reg}
    IN  /\ Begin(t) /\ p.reg # 0
        /\ ptrs' = ptrs \ {p}
        /\ hdr' = [hdr EXCEPT ![id].free = free]
        /\ \/ /\ free = AllRegs
              /\ bin' = [cur |-> IF bin.cur = id THEN NoRun ELSE bin.cur, tree |-> bin.tree \ {id}]
              /\ Goto(t, Then(Entered(t), <<[o |-> "binrun", id |-> id]>>))
           \/ /\ free # AllRegs
              /\ bin' = IF free = {p.reg} /\ bin.cur # id THEN arena_bin_lower_run(bin, id, hdr') ELSE bin
              /\ Goto(t, Entered(t))
        /\ UNCHANGED <<A, junk, alock>>

\* arena_dalloc_bin_run: the pages no region was ever handed out from stay clean.
TouchedPages(h) == IF h.next = 1 THEN 1 ELSE (h.next - 2) \div RegsPerPage + 1

DallocBinRun(t) ==
    LET id == Todo(t).id
        r == RunAt(A, id)
        past == TouchedPages(hdr[id])
        tail == ~r.d /\ past < r.n
    IN  /\ Doing(t, "binrun") /\ ALock(t)
        /\ A' = IF tail THEN Cut(A, r, past) ELSE A
        /\ hdr' = [x \in DOMAIN hdr \ {id} |-> hdr[x]]
        /\ Goto(t, Then(th[t], (IF tail THEN <<FreeOp(<<r.c, r.p + past>>, FALSE, FALSE)>> ELSE <<>>)
                               \o <<FreeOp(id, TRUE, FALSE)>> \o Rest(t)))
        /\ alock' = t
        /\ UNCHANGED <<bin, junk, ptrs>>

-----------------------------------------------------------------------------
Step(t) ==
    \/ RunAlloc(t) \/ ChunkAlloc(t) \/ RunRetry(t) \/ Align(t) \/ Trim(t) \/ User(t)
    \/ DallocLarge(t) \/ FreeRun(t) \/ GiveBack(t) \/ arena_maybe_purge(t)
    \/ PurgeRound(t) \/ PurgeStashed(t) \/ Finish(t) \/ Header(t) \/ BinMallocHard(t)
    \/ DallocBinRun(t)

Call(t) ==
    \/ /\ "large" \in Ops[t]
       /\ \E n \in Sizes, al \in Aligns, zero \in BOOLEAN : arena_palloc(t, n, al, zero)
    \/ "free" \in Ops[t] /\ \E p \in ptrs : arena_dalloc_large(t, p) \/ arena_dalloc_small(t, p)
    \/ "ralloc" \in Ops[t] /\ \E p \in ptrs, n \in Sizes : arena_ralloc_large(t, p, n)
    \/ "small" \in Ops[t] /\ arena_malloc_small(t)
    \/ "purge" \in Ops[t] /\ arena_purge_all(t)

Next == \E t \in Threads : Step(t) \/ Call(t)

Spec == Init /\ [][Next]_vars

-----------------------------------------------------------------------------
(* Properties.                                                             *)

\* The runs of a chunk cover its pages, each page once, and every pointer a
\* client holds lies in a run that is allocated for it: splitting, trimming,
\* coalescing, stashing and the discarded run of arena_bin_malloc_hard never
\* hand out a page twice or drop one.
RunsTile ==
    /\ \A c \in {r.c : r \in A.runs}, q \in 1 .. Pages :
          \E r \in A.runs : /\ <<c, q>> \in PageSet(r)
                            /\ \A x \in A.runs \ {r} : <<c, q>> \notin PageSet(x)
    /\ \A p \in ptrs : \E r \in A.runs :
          /\ Id(r) = <<p.c, p.p>>
          /\ IF p.reg = 0 THEN r.k = "large"
             ELSE r.k = "small" /\ p.reg \notin hdr[Id(r)].free

FreeRuns(c) == {r \in A.runs : r.c = c /\ r.k = "free"}
SumPages(S) == FoldSet(LAMBDA r, x : x + r.n, 0, S)

\* The counters that drive purging are kept incrementally and agree with the
\* page map: nactive, ndirty, and per chunk the available runs, the clean runs
\* beside dirty ones and the dirty pages.  Exactly the free runs outside the
\* spare are in runs_avail.
CountersExact ==
    /\ A.nactive = SumPages({r \in A.runs : r.k # "free"})
    /\ A.ndirty = SumPages({r \in A.runs : r.k = "free" /\ r.d /\ r.c # A.spare})
    /\ A.avail = {Id(r) : r \in {x \in A.runs : x.k = "free" /\ x.c # A.spare}}
    /\ \A c \in {r.c : r \in A.runs} \ {A.spare} :
          A.ch[c] = [avail |-> Cardinality(FreeRuns(c)),
                     adjac |-> Cardinality({r \in FreeRuns(c) : arena_avail_adjac_pred(A, r)}),
                     dirty |-> SumPages({r \in FreeRuns(c) : r.d})]

\* Free runs are coalesced: neighbours differ in being dirty (the assertion of
\* arena_avail_adjac_pred), so a chunk that is entirely free is one run or is
\* still being purged.
Coalesced == \A r, q \in A.runs : r.c = q.c /\ r.k = "free" /\ q.k = "free" /\ q.p = r.p + r.n
                                     => r.d # q.d

\* A page not flagged unzeroed in a clean free run is zero, and a calloc'ed
\* large run is zero when the client gets it.
CleanIsZero ==
    /\ \A r \in A.runs : r.k = "free" /\ ~r.d => PageSet(r) \cap junk \subseteq A.unz
    /\ \A p \in ptrs : p.zero => PageSet(RunAt(A, <<p.c, p.p>>)) \cap junk = {}

InFlight == {th[t].run : t \in Threads}
            \cup {op.id : op \in {x \in UNION {ToSet(th[t].todo) : t \in Threads} : x.o = "binrun"}}

\* Every small run with a free region can be found: it is runcur, in the
\* bin's tree, or in the hands of a thread; and it is in one of them only.
BinComplete ==
    /\ \A id \in DOMAIN hdr : hdr[id].free # {} => id \in bin.tree \cup {bin.cur} \cup InFlight
    /\ \A id \in bin.tree : hdr[id].free \notin {{}, AllRegs} /\ id # bin.cur /\ id \notin InFlight

Purging == \E t \in Threads : \E i \in DOMAIN th[t].todo : th[t].todo[i].o = "purge"

\* The pages threads have announced to purge are all accounted for when no
\* thread is purging, though the counters wrap in between (arena.c:1165).
PurgatoryBalanced == ~Purging => A.npurgatory = 0

\* The page map is sound: its runs tile the chunks, they are coalesced, and the
\* incremental counters agree with them after every critical section of
\* arena.c, whatever other threads did while the lock was dropped.
PageMapSound == TypeOK /\ RunsTile /\ CountersExact /\ Coalesced /\ PurgatoryBalanced

=============================================================================
