------------------------------ MODULE BlkPool ------------------------------
(***************************************************************************)
(* Block memory pools (src/libpmemblk/blk.c) above the block translation   *)
(* table: creating, opening, checking and closing a pool file, the lanes   *)
(* that calls share, and the layout of the arenas, which is written by the *)
(* first update of a new pool (btt.c: btt_init, read_layout, write_layout, *)
(* read_arenas, btt_check).  A power failure may strike between any two    *)
(* stores to the file.                                                     *)
(*                                                                         *)
(* What happens inside one block read or write is the subject of module    *)
(* Btt; here such an access is one step.                                   *)
(***************************************************************************)
EXTENDS BttLayout, TLC

CONSTANTS
  Pools, Threads,
  Files,           \* what may be at a path at first: [kind, size, feat]
  PoolSizes,       \* sizes that pmemblk_create may be given, 0 included
  PMEMBLK_MIN_POOL, DataOff,
  Bsizes,          \* block sizes of callers; 0 is "any"
  NFREE,           \* BTT_DEFAULT_NFREE
  maxlane,         \* 2 * ncpus
  LBAs,            \* blocks that callers address
  Values, Zero, Garbage, EIO, EINVAL, EROFS, None,
  Ops, MaxOps, MaxCrash

ASSUME BlkAssumption ==
  /\ NFREE \in Nat \ {0} /\ maxlane \in Nat \ {0}
  /\ MaxOps \in Nat /\ MaxCrash \in Nat
  /\ DataOff \in Nat /\ DataOff + BTT_MIN_SIZE <= PMEMBLK_MIN_POOL /\ None \notin Threads
  /\ PMEMBLK_MIN_POOL \in Nat /\ PoolSizes \subseteq Nat /\ Bsizes \subseteq Nat /\ LBAs \subseteq Nat
  /\ Bsizes \ {0} # {}

\* What is at a path has a size, and a pool was made by some version of pmemblk_create.
ASSUME FilesAssumption ==
  \A k \in Files :
    /\ k.kind \in {"absent", "raw", "pool"} /\ k.size \in Nat
    /\ k.kind = "pool" => k.size >= PMEMBLK_MIN_POOL

VARIABLES
  file,          \* [Pools -> File]: the pool files
  ns_is_zeroed,  \* the flag in ns_cb, one object for all pools
  handle,        \* [Pools -> Handle or None]: struct pmemblk and struct btt
  locks,         \* [Pools -> [lane -> Threads or None]]
  layout_lock,   \* [Pools -> Threads or None]: layout_write_mutex
  pc, call, lane, at, ret,   \* the call in progress in each thread
  contents,      \* history: what every block of every pool should hold
  nops, ncrash

handles == <<ns_is_zeroed, handle, locks, layout_lock>>
thread  == <<pc, call, lane, at, ret>>
vars    == <<file, handles, thread, contents, nops, ncrash>>

-----------------------------------------------------------------------------
(* The file.                                                               *)

InitialEntry == [post |-> 0, flag |-> "initial"]
ZeroOrInitial(e) == e.flag \in {"zero", "initial"}
Rawsize(f) == f.size - DataOff      \* datasize, the namespace of the btt

\* The sizes that a file can have.
Sizes == (PoolSizes \ {0}) \cup {k.size : k \in Files}

\* Every arena that write_layout would lay out in f with f's block size.
LayoutTable ==
  [r \in {<<n - DataOff, b>> : n \in Sizes, b \in Bsizes} |->
     IF r[1] < BTT_MIN_SIZE \/ r[2] = 0 THEN << >> ELSE Layout(r[1], r[2], NFREE)]
Infos(f) == LayoutTable[<<Rawsize(f), f.bsize>>]
PlaceTable ==
  [r \in DOMAIN LayoutTable |-> [x \in LBAs |->
     IF x < SumNlba(LayoutTable[r]) THEN lba_to_arena_lba(LayoutTable[r], x) ELSE <<0, 0>>]]
Place(f, x) == PlaceTable[<<Rawsize(f), f.bsize>>][x]
Arenas(f) == IF f.size < DataOff + BTT_MIN_SIZE THEN {} ELSE 1 .. Narena(Rawsize(f))
GarbageEntry == [post |-> 0, flag |-> "normal"]

\* An info block is not None, and no value that a call returns is a complaint
\* of pmemblk_check.
ASSUME CodesApart ==
  /\ \A r \in DOMAIN LayoutTable : \A a \in DOMAIN LayoutTable[r] : LayoutTable[r][a] # None
  /\ {"inconsistent", "unreadable"} \cap (Values \cup {Zero, EIO, EINVAL, EROFS, None}) = {}

\* The data area of a file whose bytes are e (map entries) and v (blocks).
Fill(f, e, v) ==
  [f EXCEPT !.info = [a \in Arenas(f) |-> None],
            !.info2 = [a \in Arenas(f) |-> None],
            !.map = [a \in Arenas(f) |-> [x \in 0 .. Infos(f)[a].external_nlba - 1 |-> e]],
            !.flog = [a \in Arenas(f) |-> [l \in 0 .. NFREE - 1 |-> None]],
            !.data = [a \in Arenas(f) |->
              [o \in {DataBlockOff(Infos(f)[a], b) : b \in 0 .. Infos(f)[a].internal_nlba - 1}
                 |-> v]]]

NoFile == [exists |-> FALSE, size |-> 0, raw |-> FALSE, hdr |-> "zero", feat |-> "none",
           bsize |-> 0, is_zeroed |-> FALSE, info |-> << >>, info2 |-> << >>,
           map |-> << >>, flog |-> << >>, data |-> << >>]

Bsize == CHOOSE b \in Bsizes : b # 0

\* The file as blocks of size b.
Formatted(f, b) ==
  IF f.raw THEN Fill([f EXCEPT !.bsize = b], GarbageEntry, Garbage)
  ELSE Fill([f EXCEPT !.bsize = b], InitialEntry, Zero)

\* "raw": some file, its first bytes zero; "pool": made by another version.
InitFile(k) ==
  LET f == [NoFile EXCEPT !.exists = TRUE, !.size = k.size, !.raw = (k.kind = "raw")]
  IN  CASE k.kind = "absent" -> NoFile
        [] k.kind = "raw" -> f
        [] k.kind = "pool" -> [Formatted(f, Bsize) EXCEPT
                                 !.hdr = "valid", !.feat = k.feat, !.is_zeroed = TRUE]

\* Major number and checksum: only a header stored completely passes.
util_convert_hdr(f) == f.hdr = "valid"

\* -1: the pool cannot be used; 0: it can be read; 1: it can be used.
util_feature_check(f) ==
  CASE f.feat = "incompat" -> -1 [] f.feat = "ro_compat" -> 0 [] OTHER -> 1

Init ==
  /\ file \in [Pools -> {InitFile(k) : k \in Files}]
  /\ ns_is_zeroed = FALSE
  /\ handle = [p \in Pools |-> None]
  /\ locks = [p \in Pools |-> << >>]
  /\ layout_lock = [p \in Pools |-> None]
  /\ pc = [t \in Threads |-> "idle"]
  /\ call = [t \in Threads |-> None]
  /\ lane = [t \in Threads |-> 0]
  /\ at = [t \in Threads |-> 1]
  /\ ret = [t \in Threads |-> None]
  /\ contents = [p \in Pools |-> [x \in LBAs |-> Zero]]
  /\ nops = 0 /\ ncrash = 0

-----------------------------------------------------------------------------
(* Calls.  The application neither uses a pool that is not open nor opens, *)
(* creates or closes one that is in use.                                   *)

Using(p) == {t \in Threads : pc[t] # "idle" /\ call[t].pool = p}
PoolOps  == {"create", "open", "check"}

Call(t, c) ==
  /\ pc[t] = "idle" /\ nops < MaxOps
  /\ c.op \in Ops
  /\ \/ c.op \in PoolOps /\ handle[c.pool] = None /\ Using(c.pool) = {}
     \/ c.op = "close" /\ handle[c.pool] # None /\ Using(c.pool) = {}
     \/ /\ c.op \in {"read", "write", "set_zero", "set_error"}
        /\ handle[c.pool] # None
        /\ \A u \in Using(c.pool) : call[u].op \notin PoolOps \cup {"close"}
  /\ call' = [call EXCEPT ![t] = c]
  /\ pc' = [pc EXCEPT ![t] =
       IF c.op \in PoolOps \cup {"close"} THEN c.op
       ELSE IF c.op # "read" /\ handle[c.pool].rdonly THEN "erofs" ELSE "enter"]
  /\ ret' = [ret EXCEPT ![t] = None]
  /\ nops' = nops + 1
  /\ UNCHANGED <<file, handles, lane, at, contents, ncrash>>

P(t) == call[t].pool
F(t) == file[P(t)]
Leave(t) == call' = [call EXCEPT ![t] = None]
Goto(t, from, to) == pc[t] = from /\ pc' = [pc EXCEPT ![t] = to]
Store(t, f) == file' = [file EXCEPT ![P(t)] = f]
Return(t, r) == ret' = [ret EXCEPT ![t] = r]
Fail(t, from, r) ==
  /\ Goto(t, from, "idle")
  /\ Return(t, r)
  /\ Leave(t)
  /\ UNCHANGED <<file, handles, lane, at, contents, nops, ncrash>>

\* The update of a pool that is open for reading only.
RdonlyError(t) == Fail(t, "erofs", EROFS)

\* util_pool_create or util_pool_open: the file to initialize.
OpenFile(t) ==
  LET n == call[t].size
      ok == IF n # 0 THEN n >= PMEMBLK_MIN_POOL /\ ~F(t).exists
                     ELSE F(t).exists /\ F(t).size >= PMEMBLK_MIN_POOL
  IN  /\ pc[t] = "create"
      /\ IF ~ok THEN Fail(t, "create", EINVAL)
         ELSE /\ Goto(t, "create", "init")
              /\ IF n = 0 THEN UNCHANGED file
                 ELSE Store(t, [NoFile EXCEPT !.exists = TRUE, !.size = n])
              /\ UNCHANGED <<handles, call, lane, at, ret, contents, nops, ncrash>>

\* The header must be zeroed and the block size given; store the block size,
\* which says where the map and the blocks of the file are.
InitBsize(t) ==
  /\ pc[t] = "init"
  /\ IF F(t).hdr # "zero" \/ call[t].bsize = 0 THEN Fail(t, "init", EINVAL)
     ELSE /\ Goto(t, "init", "init_zeroed")
          /\ Store(t, Formatted(F(t), call[t].bsize))
          /\ UNCHANGED <<handles, call, lane, at, ret, contents, nops, ncrash>>

\* is_zeroed: the file was created by this call.
InitZeroed(t) ==
  /\ Goto(t, "init_zeroed", "init_hdr")
  /\ Store(t, [F(t) EXCEPT !.is_zeroed = (call[t].size # 0)])
  /\ UNCHANGED <<handles, call, lane, at, ret, contents, nops, ncrash>>

\* The header is stored, and then flushed.
InitHdr(t) ==
  /\ Goto(t, "init_hdr", "init_sync")
  /\ Store(t, [F(t) EXCEPT !.hdr = "torn", !.feat = "none"])
  /\ UNCHANGED <<handles, call, lane, at, ret, contents, nops, ncrash>>
InitSync(t) ==
  /\ Goto(t, "init_sync", "btt_init")
  /\ Store(t, [F(t) EXCEPT !.hdr = "valid"])
  /\ UNCHANGED <<handles, call, lane, at, ret, contents, nops, ncrash>>

\* The checks of an existing header.
OpenHdr(t) ==
  LET from == call[t].op
      ok   == /\ F(t).exists /\ F(t).size >= PMEMBLK_MIN_POOL
              /\ util_convert_hdr(F(t))
              /\ call[t].bsize \in {0, F(t).bsize}
              /\ util_feature_check(F(t)) >= 0
  IN  /\ pc[t] \in {"open", "check"}
      /\ IF ~ok THEN Fail(t, from, EINVAL)
         ELSE /\ Goto(t, from, "btt_init")
              /\ UNCHANGED <<file, handles, call, lane, at, ret, contents, nops, ncrash>>

-----------------------------------------------------------------------------
(* btt_init: is there a layout?                                            *)

\* The info blocks that read_layout reads: up to one that is not valid.
Valid(f, a) == f.info[a] # None
AllValid(f) == \A a \in Arenas(f) : Valid(f, a)

\* read_layout's complaints about an arena's valid info block.
BadInfo(f, a) ==
  LET n == f.info[a]
  IN  \/ n.external_lbasize # f.bsize
      \/ n.nfree = 0 \/ n.external_nlba = 0
      \/ n.nextoff \notin {0, BTT_MAX_ARENA}
      \/ n.nextoff > Rawsize(f) - ArenaOff(a)

ReadBefore(f) ==   \* arenas read before the first invalid one
  {a \in Arenas(f) : \A b \in Arenas(f) : b <= a => Valid(f, b)}

\* read_layout, or None when it fails; without a complete layout the sizes
\* are those that write_layout will give it.
ReadLayout(f, rdonly) ==
  IF (\E a \in ReadBefore(f) : BadInfo(f, a))
       \/ (~AllValid(f) /\ ~LayoutPossible(Rawsize(f), f.bsize, NFREE))
    THEN None
    ELSE [laidout |-> AllValid(f), nlba |-> SumNlba(Infos(f)),
          narena |-> Narena(Rawsize(f)), nfree |-> NFREE, rdonly |-> rdonly,
          next_lane |-> 0, nlane |-> IF NFREE > maxlane THEN maxlane ELSE NFREE]

\* A check maps the file privately, which makes the handle read-only.
BttInit(t) ==
  LET check == call[t].op = "check"
      h == ReadLayout(F(t), check \/ util_feature_check(F(t)) = 0)
  IN  /\ Goto(t, "btt_init", IF h # None /\ check THEN "checking" ELSE "idle")
      /\ ns_is_zeroed' = F(t).is_zeroed
      /\ handle' = [handle EXCEPT ![P(t)] = h]
      /\ locks' = [locks EXCEPT ![P(t)] =
           IF h = None THEN << >> ELSE [l \in 0 .. h.nlane - 1 |-> None]]
      /\ Return(t, IF h = None THEN EINVAL ELSE "ok")
      /\ IF h # None /\ check THEN UNCHANGED call ELSE Leave(t)
      /\ UNCHANGED <<file, layout_lock, lane, at, contents, nops, ncrash>>

\* btt_check: every round of its loop looks at the first arena.
btt_check(f, h) ==
  IF ~h.laidout THEN 1 ELSE check_arena(f.info[1], f.map[1], f.flog[1])

\* pmemblk_check after the pool was opened: check it and close it.
CheckPool(t) ==
  /\ Goto(t, "checking", "idle")
  /\ Return(t, CASE btt_check(F(t), handle[P(t)]) = 1 -> "consistent"
                 [] btt_check(F(t), handle[P(t)]) = 0 -> "inconsistent"
                 [] OTHER -> "unreadable")
  /\ handle' = [handle EXCEPT ![P(t)] = None]
  /\ locks' = [locks EXCEPT ![P(t)] = << >>]
  /\ Leave(t)
  /\ UNCHANGED <<file, ns_is_zeroed, layout_lock, lane, at, contents, nops, ncrash>>

pmemblk_close(t) ==
  /\ Goto(t, "close", "idle")
  /\ Return(t, "ok")
  /\ handle' = [handle EXCEPT ![P(t)] = None]
  /\ locks' = [locks EXCEPT ![P(t)] = << >>]
  /\ Leave(t)
  /\ UNCHANGED <<file, ns_is_zeroed, layout_lock, lane, at, contents, nops, ncrash>>

-----------------------------------------------------------------------------
(* Lanes.                                                                  *)

H(t) == handle[P(t)]

\* lane_enter: the counter assigns a lane, free or not.
LaneEnter(t) ==
  /\ Goto(t, "enter", "lock")
  /\ lane' = [lane EXCEPT ![t] = H(t).next_lane % H(t).nlane]
  /\ handle' = [handle EXCEPT ![P(t)].next_lane = @ + 1]
  /\ UNCHANGED <<file, ns_is_zeroed, locks, layout_lock, call, at, ret, contents, nops, ncrash>>

\* Mutant: the lane is used without its lock.
LaneLock_Not(t) ==
  /\ Goto(t, "lock", "block")
  /\ locks' = [locks EXCEPT ![P(t)][lane[t]] = t]
  /\ UNCHANGED <<file, ns_is_zeroed, handle, layout_lock, call, lane, at, ret, contents, nops, ncrash>>
LaneLock(t) ==
  /\ Goto(t, "lock", "block")
  /\ locks[P(t)][lane[t]] = None
  /\ locks' = [locks EXCEPT ![P(t)][lane[t]] = t]
  /\ UNCHANGED <<file, ns_is_zeroed, handle, layout_lock, call, lane, at, ret, contents, nops, ncrash>>

\* Mutant: the lock is kept when the call failed.
LaneExit_Kept(t) ==
  /\ Goto(t, "exit", "idle")
  /\ locks' = [locks EXCEPT ![P(t)][lane[t]] = IF ret[t] = EINVAL THEN @ ELSE None]
  /\ Leave(t) /\ lane' = [lane EXCEPT ![t] = 0]
  /\ UNCHANGED <<file, ns_is_zeroed, handle, layout_lock, at, ret, contents, nops, ncrash>>
LaneExit(t) ==
  /\ Goto(t, "exit", "idle")
  /\ locks' = [locks EXCEPT ![P(t)][lane[t]] = None]
  /\ Leave(t) /\ lane' = [lane EXCEPT ![t] = 0]
  /\ UNCHANGED <<file, ns_is_zeroed, handle, layout_lock, at, ret, contents, nops, ncrash>>

-----------------------------------------------------------------------------
(* Block operations of the btt.                                            *)

\* What a read of lba x gives when the file is read with laidout.
BlockOf(f, laidout, x) ==
  IF ~laidout THEN Zero
  ELSE LET loc == Place(f, x)
           e   == f.map[loc[1]][loc[2]]
       IN  IF e.flag = "error" THEN EIO
           ELSE IF ZeroOrInitial(e) THEN Zero
           ELSE f.data[loc[1]][DataBlockOff(Infos(f)[loc[1]], e.post)]

\* The bounds check and, for an update of a pool without layout, the way to
\* write_layout; setting a block to zero needs no layout.
Block(t) ==
  LET bad  == call[t].lba >= H(t).nlba
      done == bad \/ (~H(t).laidout /\ call[t].op \in {"read", "set_zero"})
  IN  /\ Goto(t, "block", IF done THEN "exit" ELSE IF H(t).laidout THEN "access" ELSE "layout")
      /\ Return(t, IF bad THEN EINVAL ELSE IF done /\ call[t].op = "read" THEN Zero
                   ELSE ret[t])
      /\ UNCHANGED <<file, handles, call, lane, at, contents, nops, ncrash>>

\* Exchange the lane's free block with the one in the map.
Written(f, a, x, l, v) ==
  LET new == f.flog[a][l]
      old == IF f.map[a][x].flag = "initial" THEN x ELSE f.map[a][x].post
  IN  [f EXCEPT !.data[a][DataBlockOff(Infos(f)[a], new)] = v,
                !.map[a][x] = [post |-> new, flag |-> "normal"],
                !.flog[a][l] = old]

\* btt_read, btt_write and map_entry_setf with a layout.
Access(t) ==
  LET loc == Place(F(t), call[t].lba)
      a   == loc[1]
      x   == loc[2]
      e   == F(t).map[a][x]
      val == CASE call[t].op = "write" -> call[t].val
               [] call[t].op = "set_zero" -> Zero
               [] call[t].op = "set_error" -> EIO
               [] OTHER -> contents[P(t)][call[t].lba]
      set == [post |-> IF e.flag = "initial" THEN x ELSE e.post,
              flag |-> IF call[t].op = "set_zero" THEN "zero" ELSE "error"]
  IN  /\ Goto(t, "access", "exit")
      /\ CASE call[t].op = "read" -> UNCHANGED file
           [] call[t].op = "write" -> Store(t, Written(F(t), a, x, lane[t], call[t].val))
           [] call[t].op = "set_zero" /\ ZeroOrInitial(e) -> UNCHANGED file
           [] OTHER -> Store(t, [F(t) EXCEPT !.map[a][x] = set])
      /\ Return(t, IF call[t].op = "read" THEN BlockOf(F(t), TRUE, call[t].lba) ELSE "ok")
      /\ contents' = [contents EXCEPT ![P(t)][call[t].lba] = val]
      /\ UNCHANGED <<handles, call, lane, at, nops, ncrash>>

-----------------------------------------------------------------------------
(* write_layout, under layout_write_mutex.                                 *)

\* Mutant: laidout is not checked again under the mutex.
LayoutLock_NoRecheck(t) ==
  /\ Goto(t, "layout", "zero_map")
  /\ layout_lock[P(t)] = None
  /\ layout_lock' = [layout_lock EXCEPT ![P(t)] = t]
  /\ UNCHANGED <<file, ns_is_zeroed, handle, locks, call, lane, at, ret, contents, nops, ncrash>>
LayoutLock(t) ==
  /\ Goto(t, "layout", IF H(t).laidout THEN "unlock" ELSE "zero_map")
  /\ layout_lock[P(t)] = None
  /\ layout_lock' = [layout_lock EXCEPT ![P(t)] = t]
  /\ UNCHANGED <<file, ns_is_zeroed, handle, locks, call, lane, at, ret, contents, nops, ncrash>>

\* The map entries of f that lie in the n bytes at off, zeroed.  off counts
\* from the start of the namespace.
Zeroed(f, off, n) ==
  [f EXCEPT !.map = [a \in Arenas(f) |-> [x \in DOMAIN f.map[a] |->
     LET o == ArenaOff(a) + Infos(f)[a].mapoff + x * BTT_MAP_ENTRY_SIZE
     IN  IF off <= o /\ o < off + n THEN InitialEntry ELSE f.map[a][x]]]]

\* Mutant: the map is never zeroed.
ZeroMap_Never(t) ==
  /\ Goto(t, "zero_map", "flogs")
  /\ UNCHANGED <<file, handles, call, lane, at, ret, contents, nops, ncrash>>
\* nszero is given mapoff, which is relative to the arena.  It persists what it
\* stores with pmem_memset_persist even if the file is not in persistent
\* memory (blk.c:252); the zeroes are taken for durable in both cases.
ZeroMap(t) ==
  LET n == Infos(F(t))[at[t]]
  IN  /\ Goto(t, "zero_map", "flogs")
      /\ IF ns_is_zeroed THEN UNCHANGED file ELSE Store(t, Zeroed(F(t), n.mapoff, n.mapsize))
      /\ UNCHANGED <<handles, call, lane, at, ret, contents, nops, ncrash>>

\* One free block per lane, behind the blocks of the map.
WriteFlogs(t) ==
  /\ Goto(t, "flogs", "info")
  /\ Store(t, [F(t) EXCEPT !.flog[at[t]] =
       [l \in 0 .. NFREE - 1 |-> Infos(F(t))[at[t]].external_nlba + l]])
  /\ UNCHANGED <<handles, call, lane, at, ret, contents, nops, ncrash>>

\* The info block is stored, then flushed; then its copy at the arena's end.
WriteInfo(t) ==
  /\ Goto(t, "info", "info_sync")
  /\ Store(t, [F(t) EXCEPT !.info[at[t]] = None])
  /\ UNCHANGED <<handles, call, lane, at, ret, contents, nops, ncrash>>
SyncInfo(t) ==
  /\ Goto(t, "info_sync", "backup")
  /\ Store(t, [F(t) EXCEPT !.info[at[t]] = Infos(F(t))[at[t]]])
  /\ UNCHANGED <<handles, call, lane, at, ret, contents, nops, ncrash>>
WriteBackup(t) ==
  /\ Goto(t, "backup", IF at[t] < H(t).narena THEN "zero_map" ELSE "arenas")
  /\ Store(t, [F(t) EXCEPT !.info2[at[t]] = Infos(F(t))[at[t]]])
  /\ at' = [at EXCEPT ![t] = IF @ < H(t).narena THEN @ + 1 ELSE 1]
  /\ UNCHANGED <<handles, call, lane, ret, contents, nops, ncrash>>

\* read_arenas.
ReadArenas(t) ==
  /\ Goto(t, "arenas", "unlock")
  /\ handle' = [handle EXCEPT ![P(t)].laidout = TRUE]
  /\ UNCHANGED <<file, ns_is_zeroed, locks, layout_lock, call, lane, at, ret, contents, nops, ncrash>>

LayoutUnlock(t) ==
  /\ Goto(t, "unlock", "access")
  /\ layout_lock' = [layout_lock EXCEPT ![P(t)] = None]
  /\ UNCHANGED <<file, ns_is_zeroed, handle, locks, call, lane, at, ret, contents, nops, ncrash>>

-----------------------------------------------------------------------------
\* Power failure: everything but the files is gone.
Crash ==
  /\ ncrash < MaxCrash
  /\ \E t \in Threads : pc[t] # "idle"
  /\ ncrash' = ncrash + 1
  /\ ns_is_zeroed' = FALSE
  /\ handle' = [p \in Pools |-> None]
  /\ locks' = [p \in Pools |-> << >>]
  /\ layout_lock' = [p \in Pools |-> None]
  /\ pc' = [t \in Threads |-> "idle"]
  /\ ret' = [t \in Threads |-> None]
  /\ call' = [t \in Threads |-> None]
  /\ lane' = [t \in Threads |-> 0]
  /\ at' = [t \in Threads |-> 1]
  /\ UNCHANGED <<file, contents, nops>>

Calls ==
  [op : PoolOps \ {"create"}, pool : Pools, bsize : Bsizes, size : {0}, lba : {0}, val : {Zero}]
    \cup [op : {"create"}, pool : Pools, bsize : Bsizes, size : PoolSizes, lba : {0}, val : {Zero}]
    \cup [op : {"close"}, pool : Pools, bsize : {0}, size : {0}, lba : {0}, val : {Zero}]
    \cup [op : {"read", "set_zero", "set_error"}, pool : Pools, bsize : {0}, size : {0},
          lba : LBAs, val : {Zero}]
    \cup [op : {"write"}, pool : Pools, bsize : {0}, size : {0}, lba : LBAs, val : Values]

Step(t) ==
  \/ RdonlyError(t) \/ OpenFile(t) \/ InitBsize(t) \/ InitZeroed(t) \/ InitHdr(t)
  \/ InitSync(t) \/ OpenHdr(t) \/ BttInit(t)
  \/ CheckPool(t) \/ pmemblk_close(t) \/ LaneEnter(t) \/ LaneLock(t) \/ LaneExit(t)
  \/ Block(t) \/ Access(t) \/ LayoutLock(t) \/ ZeroMap(t) \/ WriteFlogs(t)
  \/ WriteInfo(t) \/ SyncInfo(t) \/ WriteBackup(t) \/ ReadArenas(t) \/ LayoutUnlock(t)

Next == (\E t \in Threads : Step(t) \/ \E c \in Calls : Call(t, c)) \/ Crash

Spec == Init /\ [][Next]_vars /\ \A t \in Threads : WF_vars(Step(t))
-----------------------------------------------------------------------------
(* Properties.                                                             *)

Usable(p) == file[p].exists /\ util_convert_hdr(file[p])
Addressable(p) == {x \in LBAs : x < SumNlba(Infos(file[p]))}

\* What the next opening of the pool finds in a block is what the last
\* completed update left there, and zeros if there was none: through the
\* creation of a pool, a first write racing another, a power failure at any
\* store of write_layout, and closing and opening the pool again.  An open
\* handle, which remembers whether there is a layout, finds the same.
ContentsKept ==
  \A p \in Pools : Usable(p) =>
    \A x \in Addressable(p) :
      /\ BlockOf(file[p], AllValid(file[p]), x) = contents[p][x]
      /\ handle[p] # None => BlockOf(file[p], handle[p].laidout, x) = contents[p][x]

\* pmemblk_check finds no pool inconsistent that the library itself wrote,
\* whenever the power failed.
CheckFindsConsistent ==
  \A t \in Threads : ret[t] \notin {"inconsistent", "unreadable"}

InLane == {"block", "access", "exit", "layout", "zero_map", "flogs", "info", "info_sync",
           "backup", "arenas", "unlock"}
\* No two calls work in one lane at the same time.
LaneExclusive ==
  \A t, u \in Threads :
    (t # u /\ {pc[t], pc[u]} \subseteq InLane /\ P(t) = P(u)) => lane[t] # lane[u]

\* Every call returns, although a call waits for the lane that the counter
\* gave it even if another one is free, and for the layout mutex.
CallsReturn == \A t \in Threads : pc[t] # "idle" ~> pc[t] = "idle"
-----------------------------------------------------------------------------
(* Two conditions on an instance that the first two properties need.       *)

\* write_layout zeroes the map of every file that was not zeroed at creation:
\* ns_is_zeroed, which tells it, is one flag for all pools (blk.c), and the
\* offset that it gives to nszero counts from the arena (btt.c), so this is
\* right for one pool at a time and for a file of one arena.
ZeroingFits ==
  \/ \A k \in Files : k.kind # "raw"
  \/ /\ \A p, q \in Pools : p = q
     /\ \A k \in Files : k.kind = "raw" => k.size < DataOff + BTT_MAX_ARENA + BTT_MIN_SIZE

\* The 32 bit products of block numbers and block sizes do not wrap.
OffsetsFit == \A n \in Sizes : BTT_MAX_ARENA <= OffsetWrap \/ n - DataOff <= OffsetWrap
=============================================================================
