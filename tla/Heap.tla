-------------------------------- MODULE Heap --------------------------------
(***************************************************************************)
(* The persistent allocator of libpmemobj: pmalloc, pfree and prealloc     *)
(* (pmalloc.c) on the arenas and the bucket of a pool (pool.c, arena.c,    *)
(* bucket.c) over the persistent backend (backend_persistent.c), with its  *)
(* info slots, their recovery when the pool is opened, and power failures  *)
(* at any step.                                                            *)
(*                                                                         *)
(* The pool has one zone: fill_buckets is called once, for zone 0.  An     *)
(* offset into the zone's data is the number of its chunk.  Assertions     *)
(* are compiled out, as they are in the release build.                     *)
(***************************************************************************)
EXTENDS Integers, FiniteSets, FiniteSetsExt

CONSTANTS
  Threads,
  Ptrs,        \* the persistent locations that hold results of pmalloc
  NChunk,      \* chunks in the zone
  ChunkSize,   \* CHUNKSIZE
  NArena,      \* MAX_ARENAS
  Foreign,     \* arena numbers threads may have from other pools of the process
  Sizes,       \* the sizes asked for
  Ops,         \* the calls made
  MaxOps,      \* bound: calls started
  MaxCrash     \* bound: power failures

NoThread == "no thread"
NoPtr    == "no ptr"     \* an offset 0 in an info slot
Null     == -1           \* NULL_OFFSET in a pointer, NULL_VAL as an object's id

ASSUME HeapAssumption ==
  /\ NChunk \in Nat \ {0} /\ ChunkSize \in Nat \ {0} /\ Sizes \subseteq Nat \ {0}
  /\ NoThread \notin Threads /\ NoPtr \notin Ptrs
  /\ Ops \subseteq {"pmalloc", "pfree", "prealloc"}
ASSUME ArenaPerThread ==
  NArena \in Nat /\ Foreign \subseteq 0 .. NArena - 1 /\ IsFiniteSet(Threads) /\ Cardinality(Threads) <= NArena
ASSUME HeapBounds == MaxOps \in Nat /\ MaxCrash \in Nat

VARIABLES
  \* on media
  hdr,        \* the chunk headers of the zone
  slot,       \* the info slots as the program sees them
  pslot,      \* the info slots as far as they were flushed
  ptr,        \* what the persistent locations hold
  phdr,       \* the primary header's state, "bad" if it does not verify
  bhdr,       \* the same of the backup header of the zone
  pflush,     \* how far the last change of phdr was flushed
  \* the pool object of the process
  mode,       \* the step of pool_open or pool_close, "open", "down", "killed" when
              \* the process died, "wrecked" when it used an offset out of the pool
  rec,        \* the info slot being recovered
  bucket,     \* the free chunks that can be taken from the bucket's container
  lost,       \* the ones it lost to overlapping operations
  sorted,     \* the container's order was never disturbed
  arenas,     \* the arenas created
  lock,       \* the thread that holds each arena's lock
  \* the threads
  arena_id,   \* the thread-local variable, shared by all pools
  pc, op,     \* the call in progress and its next step
  obj, new,   \* the bucket objects of the call
  overlap,    \* another thread was in the container during the operation on it
  nops, ncrash

media   == <<hdr, slot, pslot, ptr, phdr, bhdr, pflush>>
headers == <<phdr, bhdr, pflush>>
container == <<bucket, lost, sorted>>
pool    == <<mode, rec, container, arenas, lock>>
calls   == <<arena_id, pc, op, obj, new, overlap>>
bounds  == <<nops, ncrash>>
vars    == <<media, pool, calls, bounds>>

Chunks == 0 .. NChunk - 1
Arenas == 0 .. NArena - 1
Object == [uid : Chunks, size : 0 .. NChunk]
NoObj  == [uid |-> 0, size |-> 0]
Idle   == [kind |-> "idle", p |-> NoPtr, size |-> 0]

SlotTypes == {"unknown", "alloc", "realloc", "free"}
EmptySlot == [type |-> "unknown", dest |-> NoPtr, old |-> Null]
SlotType(kind) ==
  CASE kind = "pmalloc" -> "alloc" [] kind = "prealloc" -> "realloc" [] kind = "pfree" -> "free"

\* The chunks met on the way from one header to the next, NChunk if the way
\* ends at the end of the zone: the least set that the way does not leave.
Closed(h, S) ==
  0 \in S /\ \A j \in S \ {NChunk} : j + h[j].size \in 0 .. NChunk => j + h[j].size \in S
TilesOf(h) == {i \in 0 .. NChunk : \A S \in SUBSET (0 .. NChunk) : Closed(h, S) => i \in S}
Tiles == TilesOf(hdr)

\* check_zone: the zone was never used, or its headers are valid and end at its end.
check_zone ==
  hdr[0].magic => /\ NChunk \in Tiles
                  /\ \A c \in Tiles \ {NChunk} : hdr[c].magic /\ hdr[c].size > 0

Key(c) == [uid |-> c, size |-> hdr[c].size]

Init ==
  /\ hdr = [c \in Chunks |-> [magic |-> FALSE, used |-> FALSE, size |-> 0]]
  /\ slot = [a \in Arenas |-> EmptySlot] /\ pslot = slot
  /\ ptr = [p \in Ptrs |-> Null]
  /\ phdr = "bad" /\ bhdr = "bad" /\ pflush = "clean"
  /\ mode = "down" /\ rec = 0 /\ bucket = {} /\ lost = {} /\ sorted = TRUE /\ arenas = {}
  /\ lock = [a \in Arenas |-> NoThread]
  /\ arena_id \in [Threads -> Foreign \cup {-1}]
  /\ pc = [t \in Threads |-> "idle"]
  /\ op = [t \in Threads |-> Idle]
  /\ obj = [t \in Threads |-> NoObj] /\ new = obj
  /\ overlap = [t \in Threads |-> FALSE]
  /\ nops = 0 /\ ncrash = 0

-----------------------------------------------------------------------------
(* Opening and closing the pool.                                           *)

OpenStep(from, to) == mode = from /\ mode' = to /\ UNCHANGED <<calls, bounds, arenas, lock>>

\* open_pmem_storage takes the primary header, else the backup, else it
\* lays the pool out anew, beginning with the info slots.
open_pmem_storage ==
  /\ UNCHANGED <<hdr, pslot, ptr, bhdr, rec, container>>
  /\ \/ /\ OpenStep("down", "state") /\ phdr # "bad"
        /\ UNCHANGED <<slot, phdr, pflush>>
     \/ /\ OpenStep("down", "state") /\ phdr = "bad" /\ bhdr # "bad"
        /\ phdr' = bhdr /\ pflush' = "clean" /\ UNCHANGED slot
     \/ /\ OpenStep("down", "layout") /\ phdr = "bad" /\ bhdr = "bad"
        /\ slot' = [a \in Arenas |-> EmptySlot] /\ UNCHANGED <<phdr, pflush>>

write_primary_pool_header ==
  /\ OpenStep("layout", "copy")
  /\ pslot' = slot /\ phdr' = "closed" /\ pflush' = "clean"
  /\ UNCHANGED <<hdr, slot, ptr, bhdr, rec, container>>

write_pool_layout ==
  /\ OpenStep("copy", "state") /\ bhdr' = phdr
  /\ UNCHANGED <<hdr, slot, pslot, ptr, phdr, pflush, rec, container>>

\* A closed pool is marked open (set_pool_state); an open one was not closed
\* and is recovered first.
get_pool_state ==
  /\ UNCHANGED <<hdr, slot, pslot, ptr, bhdr, container>>
  /\ \/ /\ OpenStep("state", "sum") /\ phdr = "closed"
        /\ phdr' = "open" /\ pflush' = "stored" /\ UNCHANGED rec
     \/ /\ OpenStep("state", "rec") /\ phdr = "open"
        /\ rec' = 0 /\ UNCHANGED <<phdr, pflush>>

set_pool_state_NoBackups ==   \* mutant: the backups keep the old state
  /\ OpenStep("sum", IF phdr = "open" THEN "fill" ELSE "down") /\ pflush' = "sum"
  /\ UNCHANGED <<hdr, slot, pslot, ptr, phdr, bhdr, rec, container>>

\* set_pool_state flushes the checksum; the line with the state stays unflushed.
set_pool_state ==
  /\ OpenStep("sum", "backup") /\ pflush' = "sum"
  /\ UNCHANGED <<hdr, slot, pslot, ptr, phdr, bhdr, rec, container>>

write_backup_pool_headers ==
  /\ OpenStep("backup", IF phdr = "open" THEN "fill" ELSE "down") /\ bhdr' = phdr
  /\ UNCHANGED <<hdr, slot, pslot, ptr, phdr, pflush, rec, container>>

\* A slot without destination makes recovery read the signature at offset 0
\* of the pool, which is neither NULL_OFFSET nor the offset of any chunk.
Signature == -2
Undo(s) ==
  LET target == IF s.dest = NoPtr THEN Signature ELSE ptr[s.dest]
  IN  /\ s.type # "unknown" /\ target # Null
      /\ s.type = "realloc" => s.old \notin {Null, target}

recover_info_slot_As(used) ==
  LET s == slot[rec]
  IN  /\ rec < NArena
      /\ UNCHANGED <<slot, pslot, ptr, headers, container>>
      /\ \/ /\ OpenStep("rec", "rec") /\ s = EmptySlot
            /\ rec' = rec + 1 /\ UNCHANGED hdr
         \/ /\ OpenStep("rec", "wipe") /\ s # EmptySlot /\ (~ Undo(s) \/ s.dest = NoPtr)
            /\ UNCHANGED <<hdr, rec>>
         \/ /\ OpenStep("rec", IF s.type = "free" THEN "wipe" ELSE "unlink")
            /\ Undo(s) /\ s.dest # NoPtr
            /\ hdr' = [hdr EXCEPT ![ptr[s.dest]].used = used] /\ UNCHANGED rec
recover_info_slot_FreeLost == recover_info_slot_As(FALSE)  \* mutant: a free is not undone
recover_info_slot_AllocKept == recover_info_slot_As(TRUE)  \* mutant: an allocation stays marked

\* recover_info_slot, up to the flag of the chunk the destination points to.
recover_info_slot ==
  LET s == slot[rec]
  IN  /\ rec < NArena
      /\ UNCHANGED <<slot, pslot, ptr, headers, container>>
      /\ \/ /\ OpenStep("rec", "rec") /\ s = EmptySlot
            /\ rec' = rec + 1 /\ UNCHANGED hdr
         \/ /\ OpenStep("rec", "wipe") /\ s # EmptySlot /\ ~ Undo(s)
            /\ UNCHANGED <<hdr, rec>>
         \/ /\ OpenStep("rec", "wrecked") /\ Undo(s) /\ s.dest = NoPtr
            /\ UNCHANGED <<hdr, rec>>
         \/ /\ OpenStep("rec", IF s.type = "free" THEN "wipe" ELSE "unlink")
            /\ Undo(s) /\ s.dest # NoPtr
            /\ hdr' = [hdr EXCEPT ![ptr[s.dest]].used = (s.type = "free")]
            /\ UNCHANGED rec

\* recover_slot_alloc and recover_slot_realloc restore the pointer.
recover_slot_ptr ==
  /\ OpenStep("unlink", "wipe")
  /\ LET s == slot[rec]
     IN  ptr' = [ptr EXCEPT ![s.dest] = IF s.type = "realloc" THEN s.old ELSE Null]
  /\ UNCHANGED <<hdr, slot, pslot, headers, rec, container>>

\* Every recovery function ends with a memset of the slot and its flush.
wipe_slot ==
  /\ UNCHANGED <<hdr, ptr, headers, container>>
  /\ \/ /\ OpenStep("wipe", "wiped")
        /\ slot' = [slot EXCEPT ![rec] = EmptySlot] /\ UNCHANGED <<pslot, rec>>
     \/ /\ OpenStep("wiped", "rec")
        /\ pslot' = [pslot EXCEPT ![rec] = slot[rec]] /\ rec' = rec + 1 /\ UNCHANGED slot

recovered ==
  /\ OpenStep("rec", "backup") /\ rec = NArena
  /\ rec' = 0 /\ UNCHANGED <<media, container>>

\* persistent_fill_buckets formats an unused zone (write_chunk_header) and
\* puts the free chunks into the bucket.
format_zone ==
  /\ UNCHANGED <<slot, pslot, ptr, headers, rec, container>>
  /\ \/ /\ OpenStep("fill", "format") /\ ~ hdr[0].magic
        /\ hdr' = [hdr EXCEPT ![0] = [magic |-> FALSE, used |-> FALSE, size |-> NChunk]]
     \/ /\ OpenStep("format", "fill")
        /\ hdr' = [hdr EXCEPT ![0].magic = TRUE]

\* The loop does not end at a chunk of size 0.
persistent_fill_buckets ==
  /\ OpenStep("fill", IF check_zone THEN "open" ELSE "wrecked") /\ hdr[0].magic
  /\ bucket' = {Key(c) : c \in {d \in Tiles \ {NChunk} : ~ hdr[d].used}}
  /\ UNCHANGED <<media, rec, lost, sorted>>

\* pool_delete; closing a pool that threads still use is forbidden.
pool_close ==
  /\ mode = "open" /\ \A t \in Threads : pc[t] = "idle"
  /\ mode' = "sum" /\ bucket' = {} /\ lost' = {} /\ sorted' = TRUE /\ arenas' = {}
  /\ phdr' = "closed" /\ pflush' = "stored"
  /\ UNCHANGED <<hdr, slot, pslot, ptr, bhdr, rec, lock, calls, bounds>>

pool_open ==
  \/ open_pmem_storage \/ write_primary_pool_header \/ write_pool_layout
  \/ get_pool_state \/ set_pool_state \/ write_backup_pool_headers
  \/ recover_info_slot \/ recover_slot_ptr \/ wipe_slot \/ recovered
  \/ format_zone \/ persistent_fill_buckets

-----------------------------------------------------------------------------
(* The calls.  A thread passes a pointer that no other call is using.      *)

Goto(t, from, to) == mode = "open" /\ pc[t] = from /\ pc' = [pc EXCEPT ![t] = to]

\* pool_select_arena: a thread keeps the arena it used first, in any pool, or
\* takes the first one that does not exist yet in this pool.
pool_select_arena(t) ==
  LET id == IF arena_id[t] # -1 THEN arena_id[t] ELSE Min(Arenas \ arenas)
  IN  arena_id' = [arena_id EXCEPT ![t] = id] /\ arenas' = arenas \cup {id}

\* persistent_locate_bucket_obj: the used chunk at an offset.
Located(c) == IF hdr[c].magic /\ hdr[c].used THEN {Key(c)} ELSE {}

Call(t, kind, p, size, o) ==
  /\ kind \in Ops /\ nops < MaxOps /\ Goto(t, "idle", "lock")
  /\ \A u \in Threads : op[u].p # p
  /\ pool_select_arena(t)
  /\ op' = [op EXCEPT ![t] = [kind |-> kind, p |-> p, size |-> size]]
  /\ obj' = [obj EXCEPT ![t] = o]
  /\ nops' = nops + 1
  /\ UNCHANGED <<media, mode, rec, container, lock, new, overlap, ncrash>>

pmalloc(t) ==
  \E p \in Ptrs, size \in Sizes : ptr[p] = Null /\ Call(t, "pmalloc", p, size, NoObj)

\* A pointer that is null, or to a chunk that is not in use, is left alone.
pfree(t) ==
  \E p \in Ptrs : ptr[p] # Null /\ \E o \in Located(ptr[p]) : Call(t, "pfree", p, 0, o)

\* prealloc moves an object that is too small; it calls pmalloc for a null
\* pointer and pfree for size 0.
prealloc(t) ==
  \E p \in Ptrs, size \in Sizes :
    /\ ptr[p] # Null
    /\ \E o \in IF Located(ptr[p]) # {} THEN Located(ptr[p]) ELSE {NoObj} :
         o.size * ChunkSize < size /\ Call(t, "prealloc", p, size, o)

\* arena_guard_up stores the info slot under the arena's lock and flushes it.
arena_guard_up(t) ==
  LET a == arena_id[t]
      s == [slot[a] EXCEPT !.type = SlotType(op[t].kind), !.dest = op[t].p]
  IN  /\ Goto(t, "lock", "guard") /\ lock[a] = NoThread
      /\ lock' = [lock EXCEPT ![a] = t]
      /\ slot' = [slot EXCEPT ![a] = IF s.type # "realloc" THEN s
                                     ELSE [s EXCEPT !.old = ptr[op[t].p]]]
      /\ UNCHANGED <<hdr, pslot, ptr, headers, mode, rec, container, arenas, arena_id, op, obj, new, overlap, bounds>>

persistent_set_guard(t) ==
  /\ Goto(t, "guard", IF op[t].kind = "pfree" THEN "free" ELSE "get")
  /\ pslot' = [pslot EXCEPT ![arena_id[t]] = slot[arena_id[t]]]
  /\ UNCHANGED <<hdr, slot, ptr, headers, pool, arena_id, op, obj, new, overlap, bounds>>

bucket_calc_units(size) == (size - 1) \div ChunkSize

\* Keys compare by chunk first, so get_rm_ge for (0, units) takes the first
\* chunk in the bucket, or the second if chunk 0 is there and too small.
Found(units) ==
  LET fit == {k \in bucket : k.uid > 0 \/ k.size >= units}
  IN  {k \in fit : sorted => \A j \in fit : k.uid < j.uid \/ (k.uid = j.uid /\ k.size <= j.size)}

\* prealloc takes an object of size 0 for a failed allocation.
AfterAlloc(t, o) == IF op[t].kind = "prealloc" /\ o.size # 0 THEN "copy" ELSE "down"

\* The container as module Container has it: an operation on it begins and
\* ends, and operations that overlap may lose chunks, disturb the order or
\* end the process.
Within == {"take", "split_link", "put_link", "free_link"}

Enter(t) ==
  LET others == {u \in Threads \ {t} : pc[u] \in Within}
  IN  overlap' = [u \in Threads |-> IF u = t THEN others # {} ELSE overlap[u] \/ u \in others]

Leave(t, from, to, b) ==
  /\ overlap' = [overlap EXCEPT ![t] = FALSE]
  /\ \/ Goto(t, from, to) /\ ~ overlap[t] /\ bucket' = b /\ UNCHANGED <<mode, lost, sorted>>
     \/ /\ Goto(t, from, to) /\ overlap[t]
        /\ \E left \in SUBSET (b \cup lost) : bucket' = left /\ lost' = (b \cup lost) \ left
        /\ sorted' = FALSE /\ UNCHANGED mode
     \/ /\ mode = "open" /\ pc[t] = from /\ overlap[t]
        /\ mode' = "killed" /\ UNCHANGED <<pc, container>>
  /\ UNCHANGED <<media, rec, arenas, lock, arena_id, op, obj, new, bounds>>

bucket_get_object_KeepsKey(t) ==   \* mutant: the key stays in the container
  LET units == bucket_calc_units(op[t].size)
  IN  \E k \in Found(units) :
        /\ Goto(t, "get", "take") /\ Enter(t)
        /\ new' = [new EXCEPT ![t] = [uid |-> k.uid, size |-> units]]
        /\ UNCHANGED <<media, pool, arena_id, op, obj, bounds>>

\* bucket_get_object finds a chunk under the container's lock, or none.
bucket_get_object(t) ==
  LET units == bucket_calc_units(op[t].size)
      none  == [uid |-> Null, size |-> units]
  IN  /\ \A u \in Threads : pc[u] # "take"
      /\ \/ /\ Found(units) = {} \/ ~ sorted
            /\ Goto(t, "get", AfterAlloc(t, none)) /\ new' = [new EXCEPT ![t] = none]
            /\ UNCHANGED <<bucket, overlap>>
         \/ \E k \in Found(units) :
              /\ Goto(t, "get", "take") /\ Enter(t)
              /\ bucket' = bucket \ {k}
              /\ new' = [new EXCEPT ![t] = [uid |-> k.uid, size |-> units]]
      /\ UNCHANGED <<media, mode, rec, lost, sorted, arenas, lock, arena_id, op, obj, bounds>>

\* The chunk is removed from the container; it is split if it is larger.
bst_remove(t) ==
  Leave(t, "take", IF new[t].size < hdr[new[t].uid].size THEN "split" ELSE "init", bucket)

\* persistent_init_bucket_obj takes the size from the header; a chunk that is
\* too small is put back.
persistent_init_bucket_obj(t) ==
  LET size == hdr[new[t].uid].size
  IN  /\ Goto(t, "init", IF size >= bucket_calc_units(op[t].size) THEN "set" ELSE "put")
      /\ new' = [new EXCEPT ![t].size = size]
      /\ UNCHANGED <<media, pool, arena_id, op, obj, overlap, bounds>>

\* The chunk that a split makes of the rest.
NewChunk(t) == new[t].uid + new[t].size

write_chunk_header_NoMagic(t) ==   \* mutant: the second store is missing
  /\ Goto(t, "split", "shrink")
  /\ hdr' = [hdr EXCEPT ![NewChunk(t)] = [magic |-> FALSE, used |-> FALSE,
                                          size |-> hdr[new[t].uid].size - new[t].size]]
  /\ UNCHANGED <<slot, pslot, ptr, headers, pool, arena_id, op, obj, new, overlap, bounds>>

write_chunk_header(t) ==
  LET n == NewChunk(t)
  IN  /\ \/ /\ Goto(t, "split", "magic")
            /\ hdr' = [hdr EXCEPT ![n] = [magic |-> FALSE, used |-> FALSE,
                                          size |-> hdr[new[t].uid].size - new[t].size]]
         \/ /\ Goto(t, "magic", "shrink")
            /\ hdr' = [hdr EXCEPT ![n].magic = TRUE]
      /\ UNCHANGED <<slot, pslot, ptr, headers, pool, arena_id, op, obj, new, overlap, bounds>>

set_chunk_size(t) ==
  /\ Goto(t, "shrink", "split_add")
  /\ hdr' = [hdr EXCEPT ![new[t].uid].size = new[t].size]
  /\ UNCHANGED <<slot, pslot, ptr, headers, pool, arena_id, op, obj, new, overlap, bounds>>

\* bst_add takes no lock: it finds the place for the node, then links it.
bst_add_begin(t, from, to) ==
  /\ Goto(t, from, to) /\ Enter(t)
  /\ UNCHANGED <<media, pool, arena_id, op, obj, new, bounds>>

bst_add_end(t, from, to, k) == Leave(t, from, to, bucket \cup {k})

\* add_chunk after a split, bucket_add_object in bucket_get_object and in
\* pool_recycle_object.
bst_add(t) ==
  \/ bst_add_begin(t, "split_add", "split_link")
  \/ bst_add_end(t, "split_link", "init", Key(NewChunk(t)))
  \/ bst_add_begin(t, "put", "put_link")
  \/ bst_add_end(t, "put_link", AfterAlloc(t, new[t]), new[t])
  \/ bst_add_begin(t, "free_add", "free_link")
  \/ bst_add_end(t, "free_link", IF op[t].kind = "pfree" THEN "null" ELSE "down", obj[t])

\* set_alloc_ptr, with the new object's offset or with NULL_OFFSET.
set_alloc_ptr(t) ==
  /\ \/ /\ Goto(t, "set", "mark") /\ ptr' = [ptr EXCEPT ![op[t].p] = new[t].uid]
     \/ /\ Goto(t, "null", "down") /\ ptr' = [ptr EXCEPT ![op[t].p] = Null]
  /\ UNCHANGED <<hdr, slot, pslot, headers, pool, arena_id, op, obj, new, overlap, bounds>>

bucket_mark_allocated(t) ==
  /\ Goto(t, "mark", AfterAlloc(t, new[t]))
  /\ hdr' = [hdr EXCEPT ![new[t].uid].used = TRUE]
  /\ UNCHANGED <<slot, pslot, ptr, headers, pool, arena_id, op, obj, new, overlap, bounds>>

\* persistent_copy_content overwrites the pool's header if no object was found
\* (its offset is 0), and what follows the chunk that was put back if that is
\* smaller than the old one.
persistent_copy_content(t) ==
  LET room == IF new[t].uid = Null THEN 0 ELSE new[t].size
  IN  /\ mode = "open" /\ pc[t] = "copy"
      /\ IF obj[t].size <= room
         THEN Goto(t, "copy", "free") /\ UNCHANGED mode
         ELSE mode' = "wrecked" /\ UNCHANGED pc
      /\ UNCHANGED <<media, rec, container, arenas, lock, arena_id, op, obj, new, overlap, bounds>>

\* pool_recycle_object clears the flag before the bucket gets the chunk.
pool_recycle_object(t) ==
  LET c == obj[t].uid
  IN  /\ Goto(t, "free", IF hdr[c].used THEN "free_add" ELSE "down")
      /\ hdr' = [hdr EXCEPT ![c].used = FALSE]
      /\ UNCHANGED <<slot, pslot, ptr, headers, pool, arena_id, op, obj, new, overlap, bounds>>

arena_guard_down_Locked(t) ==   \* mutant: the lock is not released
  Goto(t, "down", "clear") /\ UNCHANGED <<media, pool, arena_id, op, obj, new, overlap, bounds>>

\* arena_guard_down unlocks the arena before it clears the info slot.
arena_guard_down(t) ==
  /\ Goto(t, "down", "clear")
  /\ lock' = [lock EXCEPT ![arena_id[t]] = NoThread]
  /\ UNCHANGED <<media, mode, rec, container, arenas, arena_id, op, obj, new, overlap, bounds>>

persistent_clear_guard(t) ==
  LET a == arena_id[t]
  IN  /\ \/ /\ Goto(t, "clear", "flush")
            /\ slot' = [slot EXCEPT ![a] = EmptySlot]
            /\ UNCHANGED <<pslot, op, obj, new>>
         \/ /\ Goto(t, "flush", "idle")
            /\ pslot' = [pslot EXCEPT ![a] = slot[a]] /\ UNCHANGED slot
            /\ op' = [op EXCEPT ![t] = Idle]
            /\ obj' = [obj EXCEPT ![t] = NoObj] /\ new' = [new EXCEPT ![t] = NoObj]
      /\ UNCHANGED <<hdr, ptr, headers, pool, arena_id, overlap, bounds>>

Step(t) ==
  \/ arena_guard_up(t) \/ persistent_set_guard(t) \/ bucket_get_object(t)
  \/ bst_remove(t) \/ persistent_init_bucket_obj(t)
  \/ write_chunk_header(t) \/ set_chunk_size(t) \/ bst_add(t)
  \/ set_alloc_ptr(t) \/ bucket_mark_allocated(t) \/ persistent_copy_content(t)
  \/ pool_recycle_object(t) \/ arena_guard_down(t) \/ persistent_clear_guard(t)

-----------------------------------------------------------------------------
\* A power failure: a field of an info slot that was not flushed yet may have
\* reached the media or not, and so may the two parts of the primary header;
\* a backup being copied may be torn.
Crash ==
  /\ ncrash < MaxCrash /\ mode # "wrecked" /\ ncrash' = ncrash + 1
  /\ \E keep \in [Arenas -> SUBSET {"type", "dest", "old"}] :
       pslot' = [a \in Arenas |-> [f \in {"type", "dest", "old"} |->
                   IF f \in keep[a] THEN pslot[a][f] ELSE slot[a][f]]]
  /\ slot' = pslot'
  /\ phdr' \in CASE pflush = "clean"  -> {phdr}
                 [] pflush = "sum"    -> {phdr, "bad"}
                 [] pflush = "stored" -> {"open", "closed", "bad"}
  /\ pflush' = "clean"
  /\ bhdr' \in IF mode \in {"backup", "copy"} THEN {bhdr, "bad", phdr} ELSE {bhdr}
  /\ mode' = "down" /\ rec' = 0 /\ bucket' = {} /\ lost' = {} /\ sorted' = TRUE /\ arenas' = {}
  /\ lock' = [a \in Arenas |-> NoThread]
  /\ arena_id' \in [Threads -> Foreign \cup {-1}]
  /\ pc' = [t \in Threads |-> "idle"]
  /\ op' = [t \in Threads |-> Idle]
  /\ obj' = [t \in Threads |-> NoObj] /\ new' = [t \in Threads |-> NoObj]
  /\ overlap' = [t \in Threads |-> FALSE]
  /\ UNCHANGED <<hdr, ptr, nops>>

Next ==
  \/ pool_open \/ pool_close \/ Crash
  \/ \E t \in Threads : pmalloc(t) \/ pfree(t) \/ prealloc(t) \/ Step(t)

Spec == Init /\ [][Next]_vars

\* Threads that are in a call keep running, and so does the one in pool_open.
FairSpec == Spec /\ WF_vars(pool_open) /\ \A t \in Threads : WF_vars(Step(t))

-----------------------------------------------------------------------------
(* Properties.                                                             *)

TypeOK ==
  /\ hdr \in [Chunks -> [magic : BOOLEAN, used : BOOLEAN, size : 0 .. NChunk]]
  /\ {slot, pslot} \subseteq
       [Arenas -> [type : SlotTypes, dest : Ptrs \cup {NoPtr}, old : Chunks \cup {Null}]]
  /\ ptr \in [Ptrs -> Chunks \cup {Null}]
  /\ {phdr, bhdr} \subseteq {"bad", "open", "closed"} /\ pflush \in {"clean", "stored", "sum"}
  /\ mode \in {"down", "layout", "copy", "state", "sum", "backup", "rec", "unlink",
               "wipe", "wiped", "fill", "format", "open", "killed", "wrecked"}
  /\ rec \in 0 .. NArena /\ bucket \subseteq Object /\ arenas \subseteq Arenas
  /\ lock \in [Arenas -> Threads \cup {NoThread}]
  /\ arena_id \in [Threads -> Arenas \cup {-1}]
  /\ pc \in [Threads -> {"idle", "lock", "guard", "get", "take", "split", "magic", "shrink",
       "split_add", "split_link", "put", "put_link", "init", "set", "mark", "copy", "free",
       "free_add", "free_link", "null", "down", "clear", "flush"}]
  /\ op \in [Threads -> [kind : Ops \cup {"idle"}, p : Ptrs \cup {NoPtr}, size : Sizes \cup {0}]]
  /\ obj \in [Threads -> Object]
  /\ new \in [Threads -> [uid : Chunks \cup {Null}, size : Nat]]
  /\ lost \subseteq Object /\ sorted \in BOOLEAN /\ overlap \in [Threads -> BOOLEAN]
  /\ nops \in 0 .. MaxOps /\ ncrash \in 0 .. MaxCrash

\* Info slots are discarded (the pool is laid out anew because neither header
\* verifies) or ignored (the header says closed) only when no operation was
\* interrupted: the assertion in open_pmem_storage.
CleanClose ==
  (phdr = "bad" /\ bhdr = "bad") \/ (mode = "state" /\ phdr = "closed") =>
    \A a \in Arenas : slot[a].type = "unknown"

\* A call, or an info slot to be recovered, is working on the pointer.
Busy(p) ==
  \/ \E t \in Threads : op[t].p = p
  \/ \E a \in Arenas : slot[a].dest = p \/ pslot[a].dest = p

\* A pointer no operation is working on holds a chunk of its own: a chunk in
\* use, that no other such pointer holds and that the bucket cannot hand out.
\* It relates the flags, the pointers and the bucket, which pmalloc, pfree and
\* the recovery of info slots change in different steps.
Owned ==
  \A p \in {q \in Ptrs : ptr[q] # Null /\ ~ Busy(q)} :
    /\ hdr[0].magic /\ ptr[p] \in Tiles /\ hdr[ptr[p]].used
    /\ \A q \in Ptrs \ {p} : ~ Busy(q) => ptr[q] # ptr[p]
    /\ \A k \in bucket : k.uid # ptr[p]

Quiet == mode = "open" /\ \A t \in Threads : pc[t] = "idle"

\* When no call is in progress the chunks in use are those a pointer holds:
\* interrupted calls and recoveries leak no chunk persistently.
UsedArePointedTo ==
  Quiet => \A c \in Tiles \ {NChunk} : hdr[c].used <=> \E p \in Ptrs : ptr[p] = c

\* When no call is in progress the bucket holds every free chunk with the size
\* its header has (add_chunk, bucket_add_object).
BucketComplete ==
  Quiet => bucket = {Key(c) : c \in {d \in Tiles \ {NChunk} : ~ hdr[d].used}}

\* The zone passes check_zone in every state, so also whenever a power failure
\* interrupts a split, a format or a recovery (the consistency that
\* backend_persistent_consistency_check looks for), and the volatile bucket
\* agrees with it whenever no call is in progress.
ZoneSound == TypeOK /\ check_zone /\ BucketComplete

\* pmalloc, pfree and prealloc return, whatever other threads do with the
\* arena's lock and the container, unless the process is killed or has
\* overwritten its pool.
HeapCallsReturn ==
  \A t \in Threads : pc[t] # "idle" ~> (pc[t] = "idle" \/ mode \in {"killed", "wrecked"})
=============================================================================
