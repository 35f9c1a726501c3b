# A verification project for NVML

TLA+ models of the persistent-memory libraries of this repository, of the
allocator behind its volatile pools and of its `pmempool` tool, checked with TLC
on small instances, and theorems about them proved with TLAPS.

## 1. Inventory

NVML is a set of C libraries for byte-addressable persistent memory. A program
maps a pool file; a store is visible to other threads at once, and durable once
it was flushed (`pmem_persist`, `pmem_msync`) or earlier if the cache line
happens to be evicted. Most of what is hard in this code comes from there: a power
failure may stop a thread between any two stores, and several threads work on
the same pool. The volatile pools of libvmem have no failures to survive; what
is hard there is many threads in one allocator that gives up its locks half way.

| part | source | state | operations | what is hard |
|---|---|---|---|---|
| BTT | `src/libpmemblk/btt.c` | per arena on media: info block, map, flog pairs, data blocks; at run time: `laidout`, `flogs`, `rtt`, `map_locks`, `flags` | `btt_init`, `btt_read`, `btt_write`, `btt_set_zero`, `btt_set_error`, `btt_check`, `btt_fini` | a block write must be atomic although blocks, flogs and map entries are separate stores; readers take no lock |
| block pool | `src/libpmemblk/blk.c` | pool header, block size, `ns_is_zeroed`, lanes and their locks | create, open, close, read, write, set_zero, set_error, check | the layout is written by the first update, by whichever thread comes first; a lane must belong to one call at a time |
| log pool | `src/libpmemlog/log.c` | pool header, `start_offset`, `end_offset`, `write_offset`, the bytes, a reader/writer lock | create, open, close, append, appendv, rewind, tell, walk, nbyte, check | an append must not be torn; the offset must not get ahead of the data |
| object allocator, front end | `src/libpmemobj/pmalloc.c`, `pool.c`, `arena.c`, `bucket.c` | arenas, buckets, per-arena lock | `pmalloc`, `pfree`, `prealloc` | ownership of chunks between arenas, pointers and buckets |
| object allocator, container | `src/libpmemobj/container_bst.c` | a binary search tree and a lock | add, get_rm_eq, get_rm_ge | `bst_add` takes no lock |
| object allocator, backend | `src/libpmemobj/backend_persistent.c` | pool headers, chunk headers, info slots | open/recover, close, guards, split, flags, check | recovery of an operation that a power failure interrupted |
| object pool | `src/libpmemobj/obj.c` | pool header | create, open, check (the rest are stubs) | - |
| libpmem | `src/libpmem/pmem.c` | which flush, fence, drain, copy and set functions the CPU and the environment select | flush, drain, persist, msync, memmove, memset, `pmem_is_pmem` | which bytes a call has flushed depends on alignment, overlap, CPU and fences |
| utilities | `src/common/util.c`, `out.c` | - | mapping, checksum, header conversion, feature flags | - |
| pmempool check | `src/tools/pmempool/check.c` | the pool as read, the repairs to write, the result so far | seven steps that examine, repair and then write | repairs that depend on each other; a power failure while they are written |
| pmempool create, dump, info | `src/tools/pmempool/{create,dump,info,common}.c` | options, the list of ranges, files | parse, create, show | ranges that overlap, nest and cross arenas; undoing a failed create |
| libvmem | `src/libvmem/vmem.c` | - | wrappers of jemalloc's pool calls | - |
| jemalloc pools | `src/jemalloc/src/{chunk,base,huge,jemalloc}.c` | extents, extent nodes, huge allocations, base memory, memory ranges | create, extend, check, malloc, calloc, aligned_alloc, ralloc, free, choice of an arena | extents leave the trees while locks are dropped; nodes are scarce |
| jemalloc arenas | `src/jemalloc/src/arena.c` | page map, runs, bins, counters | large and small allocation, free, in-place growth, purging | runs and counters while the arena's lock is given up |
| jemalloc structures | `arena.c` (layout), `bitmap.[ch]`, `rb.h` | bin layouts, bitmaps, red-black trees | layout, region index, set/unset/first unset, insert/remove/search | arithmetic that avoids divisions; many cases of rotations |
| jemalloc rest | `tcache.c`, `prof.c`, `ctl.c`, `stats.c`, ... | caches, statistics | - | - |
| libvmmalloc | `src/libvmmalloc` | whether the pool exists | wrappers | - |

Interaction: `pmemblk_*` takes a lane, calls `btt_*`, which does all its I/O
through the callbacks `nsread`, `nswrite`, `nszero`, `nssync` of `blk.c`; those
copy and flush through libpmem. The log library has a single lock and calls
libpmem directly. In libpmemobj the front end takes an arena lock, asks a bucket
(backed by a container) for a chunk and makes it persistent through the
backend's operations. libvmem forwards every call to jemalloc, where a thread
chooses an arena, the arena gets chunks from its pool, and both keep what they
own in red-black trees. `pmempool` works on the files when no library has them
open, with its own reading of the formats.

What makes the parts correct:

* BTT: every post-map block has one owner (an LBA or a lane's flog); a read
  returns the whole contents of its block at one moment; a write that returned
  survives; an interrupted one happened entirely or not at all; recovery never
  finds an ambiguous flog; every call returns.
* block pool: what an update left is what the next opening finds, whatever
  power failure hit the header or the layout; `pmemblk_check` accepts it.
* log: as for blocks, for appends and rewinds; a pool with a valid header opens;
  a walk sees the log of one instant.
* object allocator: a chunk has one owner (a pointer or the free container), the
  chunk headers tile the zone, an interrupted operation is rolled back or completed.
* libpmem: a copy or a set stores exactly its range, and a persisting call has
  made it durable.
* pmempool: a repair that reports success leaves a pool that the library opens,
  with every block owned once and no good data moved; what is shown is what was
  asked for; a failed create leaves nothing behind.
* jemalloc: every chunk, page, region and node has one owner; memory promised to
  be zero is; counters and trees agree with the page map.

`PROJECT.json` lists the hazards at the lines where they bite.

## 2. Modules

| module | what |
|---|---|
| `BlockDevice` | abstract: an array of blocks, atomic and durable |
| `Btt`, `MC_Btt`, `BttProofs` | one BTT arena in detail; its instance; theorems |
| `BttDeviceProofs` | that `Btt` implements `BlockDevice` |
| `BttLayout` | the arithmetic of arenas and block addresses, `check_arena` (operators only) |
| `BlkPool`, `MC_BlkPool`, `BlkPoolProofs` | block pools: files, headers, lanes, the layout of several arenas; theorems on lanes, contents and the check |
| `AppendLog` | abstract: a bounded log, atomic and durable |
| `PmemLog`, `MC_PmemLog`, `PmemLogProofs` | a log pool in detail; its instance; theorems |
| `Container` | abstract: the set of keys a bucket's container is, and what overlapping operations may do to it |
| `ContainerBst`, `MC_ContainerBst` | the binary search tree of a bucket, in detail |
| `Heap`, `MC_Heap`, `HeapProofs` | `pmalloc`, `pfree`, `prealloc` with arenas, bucket and persistent backend; theorems on clean closing, the tiling of the zone and who owns its chunks |
| `Pmem`, `MC_Pmem`, `PmemProofs` | libpmem's flushes, fences, moves and sets; theorems on durability and on what is stored |
| `PmempoolCheck` | `pmempool check` |
| `PmempoolCmds` | `pmempool create`, `dump` and `info` |
| `PmempoolProofs` | theorems on the repairs of `check`, on `create`, and on the layout that `create` and the library write |
| `MC_Pmempool` | one invocation of the tool: a check, or another command |
| `JePool`, `JePoolProofs`, `MC_JePool` | the chunk layer of a libvmem pool; theorems on the owners of chunks, extent nodes, zeroed memory and `je_pool_check` |
| `JeArena` | one arena: page runs, a bin, purging |
| `JeBins` | layout of runs, region indices, bitmaps |
| `JeTree` | red-black trees |
| `MC_JeArena` | the arena, the bins or a tree, one per behaviour |

`BlkPool` and the two `Pmempool` modules extend `BttLayout`, so the pool that the
library lays out, the block size that `create` computes and the arena that `check`
accepts rest on one definition. `Heap` uses the container as `Container` specifies
it, and `ContainerBst` is shown to implement `Container`. `BlkPool` takes a block
access for one step, which is what `Btt` implementing `BlockDevice` allows.

### Btt

State: `map`, `flog`, `data` are the media of one arena; `pmap` is the map as far
as it was flushed; `formatted` says that the info block is valid. `laidout`,
`arena_error`, `rt` (`struct flog_runtime`), `rtt` and `map_locks` are the
run-time state. Each lane has a program counter and the locals of the call on it.

A call is split wherever another lane or a power failure can come between: the
unlocked test of `laidout`, the locked one, the read of the map, the store to
the rtt, the second read of the map, the copy of the data, each step of the scan
of the rtt, the beginning and the end of the copy into the free block, the map
lock, the two halves of the flog, the store of the map entry, its flush. Between
`WriteData` and `DataWritten` the block is `Torn`.

`Crash` may happen at any step; a map entry that was stored but not flushed
survives or not. `read_flog_pair` then recovers one pair per step, and a second
failure may interrupt it. A clean `btt_fini` followed by `btt_init` is a `Crash`
with no call in progress.

Abstractions. Block contents are model values. One arena: arenas share nothing
but `laidout` and a call uses one of them. `write_layout` is one step: no call
looks at the arena before `laidout` is set, and what a power failure inside it
leaves is the subject of `BlkPool`. Out-of-range LBAs return at
once. The failing returns of `nsread`/`nswrite` are left out: `blk.c`, their
only provider, fails only for ranges outside the pool and ignores the result of
`pmem_msync`, so `arena_setf` and the error return of `map_unlock` cannot be
reached; the error flag is set by recovery only, when the two sequence numbers of
a pair are equal, and `FlogUnambiguous` shows that this never happens. The
8-byte halves of a flog are stored atomically (the comment over `flog_update`
speaks of three fields and then one; the code writes two and two). A lane of the
model is a lane of `blk.c`: `lane_enter` gives it to one call at a time.

### PmemLog

State: the three offsets of the descriptor and the bytes, each with its flushed
copy where they can differ; the pool header as `"zero"`, `"torn"` or `"valid"`;
the lock; a program counter and the locals of the call on each thread. Creation
is split into metadata and header; an append into lock, space check, copy (one
step per element of a scatter/gather list, any cut of the buffer), flush of the
data, store of the offset, flush of the offset, unlock. A walk is one step per
chunk. At a crash each byte and each offset that was not flushed survives or not
independently, and a header being written may be torn.

Abstractions. A pool opened read-only because of an unknown feature flag refuses
appends and rewinds with no effect. `pmemlog_nbyte` reads two constants.
`pmemlog_check` repeats the checks of `DescriptorValid`. A walk callback that
itself calls the library (it would deadlock) is not modelled, nor a
scatter/gather list longer than the address space.

### ContainerBst and Container

State: children, key and parent of every node, the set of nodes that are
allocated, the lock, the keys the callers own. Node 0 stands for the container:
its left link is the root, so that the `struct bst_node **` of `bst_add` and of
`bst_remove` is always a node and a side. `bst_add` is one step per turn of its
loop, one when it has seen NULL, and one that stores the node, and takes no
lock. `bst_get_rm` is the search, then for each recursion of `bst_remove` the
step that finds the link and the step that copies a key, or unlinks and frees.

`Container` is the promise: alone, an operation is one of a set of keys, and a
search finds the smallest key that fits. For overlapping operations it says as
little as the code does: keys may be lost, the order may be disturbed, the
process may die, but a key is not handed to two callers. `ImplementsContainer`
is its specification under the mapping at the end of `ContainerBst`.

Abstractions. A key contains the chunk's unique id, so values are left out. A
freed node keeps its contents until malloc returns it again. The search is one
step and reads the tree as it is at that moment. Writes to freed memory that
corrupt malloc's own data, and a failing malloc, are left out.

### Heap

State on media: the chunk headers, the info slots with their flushed copy, the
user's pointers, the primary and the backup header of the pool. State of the
process: the step of opening or closing, the bucket's container, arenas and
their locks, and for every thread the thread-local `arena_id`, a program
counter and the bucket objects of its call.

Opening is one step per store that a power failure can separate: layout of a new
pool, the primary header from its backup, the pool state, each recovered slot
(flag, pointer, memset, flush), the backup headers, the format of an unused zone.
A call is: choice of the arena, lock and store of the info slot, its flush, search
in the container, removal, the three stores of a split and the addition of the
rest, pointer, flag, copy, recycling, unlock, clearing of the slot, its flush.

The container is used as `Container` specifies it: an operation begins and ends,
and those that overlap lose chunks (`lost`), disturb the order (`sorted`) or end
the process (mode `"killed"`). Mode `"wrecked"` is a process that used an offset
outside of what it owns: nothing is said of the pool after that.

A power failure keeps or loses every word of an unflushed info slot on its own,
may leave the primary header unverifiable as long as the line of its state is not
flushed (`pflush`), and may tear a backup that is being copied. `Foreign` are the
arena numbers threads may bring along from other pools, since `arena_id` is one
variable for all pools.

Abstractions. One zone: `fill_buckets` is called once and takes zone 0. An offset
is the number of its chunk. Stores that are flushed before anyone else can depend
on them (headers, pointers) are one step. The release build: assertions do
nothing. Users pass a null pointer to `pmalloc` and do not use one pointer in two
calls at once. Failing mallocs and mutex calls, more threads than arenas
(`ArenaPerThread`; `select_arena_id` would return -1) and the refusals of
`can_open_pool` are left out.

### BttLayout and BlkPool

`BttLayout` holds `write_layout`'s division of a namespace into arenas and of an
arena into info block, data, map, flog and backup, `lba_to_arena_lba`, the address
of a block (a 32 bit product: `OffsetWrap`) and `check_arena`. The constants of the
format are parameters; the instances scale them so that an arena has two or three
blocks for callers.

`BlkPool` is the file as far as it reached the media (header, `bsize`, what each
arena's info block, backup, flog and map are), the handles of the process and one
program counter per thread. Creating and opening is one step per store:
`OpenFile`, `InitBsize`, `InitZeroed`, `InitHdr`, `InitSync`, `OpenHdr`,
`ReadLayout`, `BttInit`. The first update takes the layout mutex and goes through
the arenas: `ZeroMap` (skipped when `ns_is_zeroed`), `WriteFlogs`, `WriteInfo`,
`SyncInfo`, `WriteBackup`, and then `ReadArenas`. A power failure may come between
any two and ends every thread. `contents` is a history variable: what completed
updates left in each block.

Abstractions. A block access is one step. Two pool files do not interact except
through `ns_cb`, so the instance has one (section 5 says what two would show).
Where maps and blocks lie depends on the block size, so a file gets them when its
block size is stored (`Formatted`): zeros in a file that the call created, `Garbage`
in one that was there before (`raw`). Failures of `mmap` and of allocation are
left out. Threads do not close a pool that others use.

### Pmem

A byte is dirty, posted (flushed or streamed, not fenced), accepted by the memory
controller, or durable; `FLUSH_ALIGN` bytes share a line. `pmem_init` chooses the
functions from the CPU's flags and the environment. A call becomes the list of
loops it runs (`prog`: copies in a direction and a unit, sets, flushes, drains),
and each loop is one step, so the state at the return of a call is what the
sequence of instructions leaves. Addresses wrap at `AddrSpace`, which is what
`CopyForward` depends on.

Abstractions. Evictions only make bytes durable earlier and are left out, as are
other threads: the library keeps no state after `pmem_init`. `is_pmem_proc` parses
`/proc/self/smaps`; mapping is I/O.

### PmempoolCheck and PmempoolCmds

`PmempoolCheck` starts with a pool file as the library leaves it; `Damage` spoils up to
`MaxFaults` places of it before the first run: fields of the pool header, its checksum,
the offsets of a log, info blocks, backups, map entries and flogs, whose sequence
numbers or blocks it changes. `file` is what would
survive a power failure, `seen` the same with the writes no `fsync` has followed yet. A
checksum is a copy of what it was computed over. Every step of
`pmempool_check_steps` is an action; with `-r` and not `-y` any question may be
refused. What is repaired is kept in the tool's copy and written at the end, header
first, then info blocks and backups, flog and map of every arena, with an `fsync` after
each of the last two. A power failure may come between any two writes or syncs, and keeps
or loses on their own the pool header, the offsets or the block size behind it, each info
block, each flog and each map entry that is not synced (an info block and its backup are
written in one step, but need not both survive). The tool may be run again, with other
options, on what it left.

The bitmap of blocks is indexed by the block of a flog entry without a test of its range
(`check.c:1556-1566`). What lies behind the bitmap is not known, so such an entry (`Wild`)
counts as a duplicate or not, whichever the memory says, or ends the tool (`MapFlogDies`).

`PmempoolCmds` is one invocation of `create`, `dump` or `info` with its options. A
log is its used bytes, a block pool the flags of the map entries of its arenas.
Ranges are parsed and merged as in `common.c`, list order and early exits included,
and `shown` records which bytes or blocks of which file are shown. `create` works on
a set of files and a free space and includes the clean-up of a failure.

Abstractions. Formatting and reading of option characters are left out. The list
entry that `util_ranges_add_range` reads after it freed it is read as it was.
`AllAsked` is stated for what the code gets right: one range of the first log file
for `info`, "from-to" inside the file (section 5).

### JePool

Addresses count units of one base object, a chunk is `U` units. State: the extents
(one set for the two trees, which hold the same nodes), the number of spare nodes,
huge allocations, base memory, memory ranges, threads per arena, chunks held by
arenas, which chunks are zero, the locks, and for each thread the label it is at,
the labels its callers continue at, and the locals of the call chain. A step is one
critical section: `RecycleTake`, `TrailNode`, `TrailInsert` are `chunk_recycle`
around the places where it drops `chunks_mtx`; `RecordNode`, `RecordInsert`,
`RecordPut` are `chunk_record`; the `Extend*` actions are `je_pool_extend`, which
takes no `base_mtx`; `je_pool_check`, `CheckChunks`, `CheckArenas` are the check and
the locks it takes in between; as the inside of arenas is not part of the model, what it
finds there is left open (`ArenaReported`). `made`, `used` and `lost` are history variables for
`PoolAccounted`; `lost` are chunks the code itself gives up (section 5).

Abstractions. Pool 0 and the system heap, quarantine, `tsd` clean-up order, and
requests smaller than a chunk (an arena's chunk is moved as a whole) are left out.

### JeArena, JeBins, JeTree

`JeArena`: the page map of a chunk is a set of runs, each free, large or small,
dirty or clean; the unzeroed flag and the contents (`junk`) are kept per page; the
incremental counters of the arena and of its chunks are kept as the code computes
them, modulo `SizeMod`. A call is a list of things still to do; the arena's lock is
given up where the code gives it up (around `chunk_alloc`, `chunk_dalloc` and
`pages_purge`), and so is the bin's. Allocation of large runs with alignment and
zeroing, in-place growth and shrinking, freeing, coalescing, the spare chunk,
purging (stash, purge, unstash) and one bin with `runcur` and its tree of runs.

`JeBins`: `bin_info_init` goes through the size classes of the 64 bit build, with
and without redzones; `arena_run_regind` is the shift and the multiplication of the
code, in 32 bits. A bitmap is taken through any sequence of `bitmap_set`,
`bitmap_sfu` and `bitmap_unset`; groups have two bits instead of 64 so that nine
bits need four levels.

`JeTree`: links and colours of nodes and the root. Insertion and removal are one
step per node, down and up again, with a case of the code per action. The searches,
`next`, `prev` and the iterations are operators that `TreeSound` compares with the
set of nodes the tree should hold.

Abstractions. Statistics, junk filling, redzone contents, valgrind hooks and thread
caches are left out; `arena_ralloc`'s move to another place is an allocation and a
free.

## 3. Runs

| run | bounds | result |
|---|---|---|
| `btt_crash` | 2 lanes, 2 LBAs, 2 values, any 3 calls, 1 power failure | passes |
| `btt_rw` | 2 lanes, 2 LBAs, 4 reads or writes, fairness | passes |
| `blkpool` | 2 threads, one path that is absent, a file of other contents (one arena), or a pool with `ro_compat` or `incompat` flags; created pools have two arenas; block sizes 2, 4 (too large for an arena: opening fails) and 0; 2 lanes, LBAs 0 and 3, 4 calls, 1 power failure, fairness | passes |
| `log` | 2 threads, 3 bytes, buffers of 1 and 2 bytes, chunk sizes 0, 1, 2, 4 calls, 1 power failure, fairness | passes |
| `bst` | 2 threads, 4 keys, 4 nodes, 6 operations | passes |
| `heap_crash` | 1 thread, 4 chunks, 2 pointers, requests of 1 and 2 chunks, 6 calls, 2 power failures | passes |
| `heap_threads` | 2 threads, 4 chunks, 2 pointers, `prealloc` too, own or shared arenas, 4 calls, fairness | passes |
| `pmempool` | check: log pools and block pools of two arenas, up to 2 faults, 1 power failure; commands: every form of range alone and in pairs, overlapping triples, every option of create, sizes 32..70 with block sizes 0..11 | passes |
| `pmem` | 5 CPUs, 3 environments, lines of 8 bytes, streaming loops of 16, 4 and 2 bytes, 64 bytes of memory, destinations at 7 of the 8 offsets in a line, sources below, above and overlapping, lengths 0 to 31 | passes |
| `vmem_pool` | 2 threads with 2 and 3 calls, a pool of 4 chunks, extended by 3 at an address that is not adjacent, 2 arenas | passes |
| `vmem_arena` | 2 threads with 2 and 4 calls, 2 chunks of 3 pages, a bin with two-page runs of two regions; 28 size classes with chunks of 512 and 1024 pages; bitmaps of 1..9 bits; trees of 8 nodes | passes |
| `pmem_head` | as `pmem`, fewer arguments | violation, see section 5 |

What they show, property by property:

* `btt_crash`: `BlocksPartitioned` (every block has one owner), `RuntimeMatchesFlog`
  (what a lane believes is what recovery would find), `FlogUnambiguous`,
  `ImplementsBlockDevice`.
* `btt_rw`: `NoReadOfBlockBeingWritten`, `RttAnnouncesReads`, `CallsReturn`.
* `blkpool`: `ContentsKept` (the next opening finds what completed updates left),
  `CheckFindsConsistent`, `LaneExclusive`, `CallsReturn`.
* `log`: `PoolReopens`, `WalkSeesLog`, `ImplementsLog`, `LogCallsReturn`.
* `bst`: `ImplementsContainer`.
* `heap_crash`, `heap_threads`: `ZoneSound` (`check_zone` passes in every state, and
  the bucket agrees with the headers when no call runs), `CleanClose` (a pool that
  needs recovery is never taken for a clean one), `Owned`, `UsedArePointedTo`,
  `HeapCallsReturn`.
* `pmempool`: `RepairSound` (after a repair that reports success a second one finds
  nothing and the library opens the pool), `MapRepaired` (each block exactly once in
  map and flog), `RepairKeepsData` (good map entries stay), `RangesExact` (what is
  shown and counted is what was asked for), `CreateSound`.
* `pmem`: `RangeStored` (the right bytes, and no others), `RangeDurable` (what is durable
  on return: all of a range for `pmem_persist` and `pmem_msync`; for `pmem_memset_persist`
  and `pmem_memmove_persist` too where the drain begins with a fence or nothing streams,
  and elsewhere that no byte is left in the cache; bytes that a streaming move does not
  flush are left out).
* `vmem_pool`: `PoolAccounted` (every chunk and every node has one owner),
  `ZeroedIsZero`, `ChunkTestsPass` (the tests `je_pool_check` makes of ranges, extents
  and sizes pass at every moment; not those of the inside of arenas, section 5).
* `vmem_arena`: `PageMapSound` (runs tile the chunks, are coalesced, counters
  agree), `CleanIsZero`, `BinComplete` (no run with a free region is forgotten),
  `RunsLaidOut`, `BitmapSound`, `TreesSound`.

What the passing runs leave out because it is known to go wrong is listed in
section 5. In `Heap` these are requests of up to one chunk, power failures with
several threads or with `prealloc`, and requests of several sizes with `prealloc`; a
recovery that meets a torn slot ends in mode `"wrecked"`, every other recovery goes
on. `btt_rw` has no set_zero and set_error; `blkpool` has one pool and raw files of
one arena; `vmem_pool` extends at an address that is not adjacent.

Deadlock is not checked where a behaviour ends: when the calls are used up
(`blkpool`, `bst`, `vmem_pool`, `vmem_arena`), the invocation or the call is over
(`pmempool`, `pmem`), the process is dead (`bst`, `Heap`), and in `vmem_pool` where two
threads really wait for each other (section 5).

Why the bounds are enough to be interesting. With two lanes and two LBAs there
are four blocks, two of them free: one write frees a block that another lane's
second write may fill, which is what the read tracking table is for, and three
calls suffice for a reader to be overtaken by two writes. Two updates of one lane
use both flogs of its pair; three make the sequence number wrap (a single lane may
make all calls). `EntriesPerLine` is 1 instead of 16, so that the two LBAs have
locks of their own; the proofs hold for every value. In `blkpool` LBA 0 is in the
first arena and LBA 3 in the second, four calls are a creation, two racing first
updates and an opening or a check, and two lanes make a call wait for one although
another is idle. In the log three bytes are filled by two appends, so a third fails,
and a rewind between them reuses bytes. Four keys make a tree with every kind of
removal: a leaf, a node with one child, one with two whose successor is its child or
is further down. Four chunks can be split twice and leave a chunk that is too small
for the next request; two power failures let the second one interrupt the recovery of
the first. Two faults of a block pool are what repairs compete for: two invalid map
entries, an entry and a flog, an info block and its backup. A pool of four chunks has
three usable ones, so allocations meet an exhausted pool, splits leave lead and trail,
and frees coalesce on both sides. Two chunks of three pages give an arena a spare
chunk, alignment that trims head and tail, and dirty runs beside clean ones; four
small calls fill a run, empty it and meet a run brought by the other thread. Trees of
eight nodes reach every case of removal.

`SYMMETRY` is used in `btt_crash` only, for block values, with properties that
are safety properties.

Fairness: weak fairness of every lane's (thread's) steps, as the operating
system schedules every runnable thread, and of recovery, as the pool is opened
again. `pthread_mutex_lock` needs no more, since calls are bounded. A lane that
spins in `btt_write` keeps taking its (stuttering) step. In `Heap` the thread that
opens the pool and the threads in calls keep running. The other runs check safety
properties only.

`BlockDevice` and `AppendLog` are checked as properties: `ImplementsBlockDevice`
and `ImplementsLog` are their specifications under the refinement mapping at the
end of the module. In `Btt` the visible contents are those of the map (of the
recovered map after a failure), the durable ones those of the map that recovery
would make of the flushed map; a write is durable as soon as the second half of
the flog is, before it is visible.

## 4. Proofs

Every theorem is about the same definitions that the runs check, for every value of
the constants that the named `ASSUME`s of its module allow; TLC evaluates those on
every run. An additional hypothesis is part of the theorem's statement and is given
below.

| theorem | states | run |
|---|---|---|
| `BttProofs!TypeCorrect` | `Spec => []TypeOK` | `btt_crash` |
| `BttProofs!BlocksOwned` | `Spec => []BlocksPartitioned` | `btt_crash` |
| `BttProofs!FreeBlocksKnown` | `Spec => []RuntimeMatchesFlog` | `btt_crash` |
| `BttProofs!RecoveryNeverFails` | `Spec => []FlogUnambiguous` | `btt_crash` |
| `BttProofs!ReadsProtected` | `Spec => []NoReadOfBlockBeingWritten` | `btt_rw` |
| `BttProofs!SlotsAnnounceReads` | `Spec => []RttAnnouncesReads`, calls are reads and writes | `btt_rw` |
| `BttDeviceProofs!ImplementsDevice` | `Spec => ImplementsBlockDevice` | `btt_crash` |
| `PmemLogProofs!LogTypeCorrect` | `Spec => []TypeOK` | `log` |
| `PmemLogProofs!PoolAlwaysReopens` | `Spec => []PoolReopens` | `log` |
| `PmemLogProofs!WalkSeesWholeLog` | `Spec => []WalkSeesLog`, under `ChunksFit` | `log` |
| `PmemLogProofs!ImplementsAppendLog` | `Spec => ImplementsLog`, under `ChunksFit` | `log` |
| `BlkPoolProofs!LanesExclusive` | `Spec => []LaneExclusive` | `blkpool` |
| `BlkPoolProofs!ContentsStay` | `Spec => []ContentsKept`, under `ZeroingFits` and `OffsetsFit` | `blkpool` |
| `BlkPoolProofs!CheckStaysConsistent` | `Spec => []CheckFindsConsistent`, under `ZeroingFits` and `OffsetsFit` | `blkpool` |
| `HeapProofs!InterruptedCallsFound` | `Spec => []CleanClose` | `heap_crash` |
| `HeapProofs!PointersOwnChunks` | `Spec => []Owned`, under `SoundUse` | `heap_crash`, `heap_threads` |
| `HeapProofs!NoChunkLeaked` | `Spec => []UsedArePointedTo`, under `SoundUse` | `heap_crash` |
| `HeapProofs!ZoneConsistent` | `Spec => [](TypeOK /\ check_zone)`, under `SoundUse` | `heap_crash` (conjuncts of `ZoneSound`) |
| `HeapProofs!ZoneAlwaysSound` | `Spec => []ZoneSound`, under `SoundUse` and with one thread | `heap_crash` |
| `PmempoolProofs!RepairsSound` | `Spec => []RepairSound` | `pmempool` |
| `PmempoolProofs!MapsRepaired` | `Spec => []MapRepaired` | `pmempool` |
| `PmempoolProofs!DataKept` | `Spec => []RepairKeepsData` | `pmempool` |
| `PmempoolProofs!LayoutDividesSoundly` | where an arena ends and what it holds, for every raw size, block size and number of free blocks | - |
| `PmempoolProofs!CreatesSoundly` | `CmdSpec => []CreateSound` | `pmempool` |
| `JePoolProofs!PoolStaysAccounted` | `Spec => []PoolAccounted`, under `NeverExtended` | `vmem_pool` |
| `JePoolProofs!ChunkTestsAlwaysPass` | `Spec => []ChunkTestsPass`, under `NeverExtended` | `vmem_pool` |
| `JePoolProofs!ZeroedStaysZero` | `Spec => []ZeroedIsZero`, under `NeverExtended` | `vmem_pool` |
| `PmemProofs!RangesDurable` | `PmemSpec => []RangeDurable` | `pmem` |
| `PmemProofs!RangesStored` | `PmemSpec => []RangeStored` | `pmem` |

### Btt

From `SizeAssumption`, `ValueAssumption`, `BoundAssumption` and `OpsAssumption`: any
number of lanes, free blocks, LBAs, values, calls and failures.

`BlocksPartitioned` is not inductive: it speaks of the media only, while a write
decides from what it read long before. `OwnerInv` adds: which program counters go
with which operation and mode (`Control`, `Modes`); who holds a map lock and that
the entry read under it is still the entry of the map (`Locked`); that a pair's
sequence numbers differ and the run-time state is the one the pair gives
(`FlogInv`); that a half-written flog belongs to its lane's write in progress
(`Announced`); that the block a lane fills is its free block (`LaneInv`); that an
entry differs from its flushed copy only between store and flush (`Flushed`); and
that an exchange recorded in a flog but not in the map is the one its lane is
performing, or one that recovery will complete, and that no two of them concern
the same LBA (`Pending`, `PendingApart`).

`ReadsProtected` is the argument for the read tracking table. `ReaderInv` adds to
`OwnerInv` that a reader's slot names the block it is going to copy, from the store on
(`LaneReads`), and that a writer whose free block a reader is copying is still in its
scan and has not passed that reader's slot (`Held`). A writer's block left the map
either before the reader's second look at it, and then the reader does not go on to
copy, or after it, and then the writer's scan starts after the slot was stored.

`SlotsAnnounceReads` needs the hypothesis `Ops \subseteq {"read", "write"}`: with
set_zero and set_error a read whose block was flagged in between returns and leaves
its slot set (section 5).

`ImplementsDevice` is the refinement, every step of `Btt` being one step of
`BlockDevice` or a stutter. `DevInv` adds to `ReaderInv` that map and flog are blank before the
layout (`Blank`), that the arena is not in error, and that from the end of the copy to
the end of the exchange a write's block holds its value (`LaneData`). Visible contents change at `StoreMap`; durable ones at the second
half of a write's flog and at `map_unlock` of a set_zero or set_error; a read is
answered where it looks at the map (`CheckLaidout`, `ReadMap`, `ReadMapAgain`);
recovery steps stutter. The hard step is `Crash`: any mixture of stored and flushed map
entries, put through the recovery of the flogs, gives contents between the durable and
the visible ones, because an entry can only differ where its lane is between store and
flush, and its flog then says the same as the entry.

### PmemLog

From `PoolAssumption`, `InputAssumption` and `LogBounds`: any pool size, set of
threads, buffers and chunk sizes. `ChunksFit` says that pool size and chunk size do not
wrap around 2^64 when added; without it the walk is wrong (section 5).

`LogInv` adds to the types that the descriptor is complete before the header is stored
(`Stages`), that the lock is held by whom the program counters say and a writer
excludes everyone (`Exclusive`), and that an append past its space check stays
inside the pool (`AppendFits`). `LogInvariant` adds which counters go with which
call (`CallsMatch`), that readers exclude writers (`ReadersShare`), that what a walk has
seen is a prefix of the log as it is (`Walks`), that an append has copied its buffer up
to its offset and flushed it before it stores `write_offset` (`Copied`), and that every
byte below `write_offset` is on media, the offset too unless its flush is the next step
of some call (`Settled`). Torn appends are impossible because the
offset, stored after the data was flushed, is the only thing that makes them visible; the
refinement takes the store of the offset as the visible step and its flush as the
durable one.

### BlkPool

From `FormatAssumption`, `BlkAssumption`, `FilesAssumption` (what is at a path has a
size; a pool is not below the minimum) and `CodesApart` (the return codes differ from
block values, an info block from None). `BlkInv` is `BlkTypes` and: that a call
which opens, checks or closes a pool has it to itself (`Sharing`), that a handle's
number of lanes is the number of their locks (`Handles`), and that a call in a lane
holds the lane's lock (`LaneHeld`). Two calls that chose the
same lane number are told apart by its lock, whatever the shared counter did in between.

`ContentsStay` and `CheckStaysConsistent` have two hypotheses, which
`MC_BlkPool` shows its instance to satisfy (`InstanceFits`). Both are about what the code
is known to get wrong (section 5): `ZeroingFits`, since the flag that makes
`write_layout` zero the maps is shared by all pools and the offset it zeroes at counts
from the arena, so files that were not zeroed before must be of one arena and there may
be only one pool; and `OffsetsFit`, that the 32 bit products of block offsets do not
wrap. Without raw files the first holds for any number of pools and arenas.

The inductive invariant is `KeepInv`. It adds to `BlkInv`, for each pool, that without
a complete layout the last arena has no info block, that then the map of a file that was
zeroed is still zero, and that with a complete layout every arena is sound and the
blocks hold `contents` (`FileOK`); and that a handle knows its file: the number of blocks
and arenas, and whether there is a layout, except while a call is writing one
(`HandleOK`). `ArenaSound` says that every block of an arena is mapped to by one LBA or
free in one lane, never both. For each thread it adds what opening a pool has done so far
(`OpeningOK`), that an access finds a layout and an LBA in range (`BlockOK`), and in
`write_layout` that the arenas before the current one are laid out with fresh maps and
flogs (`LayingOK`).

The argument is that the info block of the last arena is the commit point: a power failure
before it leaves a pool that reads as zeros, and after it all maps and flogs are fresh,
so the blocks read as zeros too (`LayingKeeps`, `FreshIsSound`, `FreshHolds`). A thread
that waited for the layout mutex reads the flag again, so nobody lays out a pool twice. An
update exchanges the block of an LBA with the free block of its lane, which keeps the arena
sound (`Exchange`) and changes that LBA only (`UpdateHolds`, `WriteHolds`,
`FlagHolds`): different blocks have different offsets (`OffsetsApart`) and different LBAs
different places (`Placed`). The places come from `lba_to_arena_lba`, which walks over
the sums of the arenas' blocks; the sums are compared with a running sum and the arena
found is the right one by arguments on the least index where they would differ
(`SumNlbaIs`, `PlaceIs`). `check_arena` accepts every sound arena (`SoundChecks`).

### Heap

From `HeapAssumption`, `ArenaPerThread` and `HeapBounds`; any number of threads,
chunks, power failures. `SlotInv` is what a marked info slot implies: its call is
between its two guards (`Guards`), or a recovery is still to come to it (`Recovering`),
and while there is one every header that can be read says that the pool was open
(`FoundOpen`, `Headers`). A clean close needs that no call runs.

The other four theorems are about who owns a chunk. They hold under `SoundUse`, which
leaves out the uses that section 5 shows to break them: requests of up to one chunk
(`bucket_calc_units` asks for none), `prealloc` with requests of different lengths (a
chunk that is too small goes unnoticed), and power failures together with `prealloc` or
with a second thread (recovery then undoes what was done). The constants of both runs
satisfy it, and it bounds neither threads, arenas, chunks, pointers, calls nor, with one
thread, power failures.

`CallInv` says of every thread which steps its call may be at and that no other call
works on its pointer; it needs `SlotInv` for the arena and slot it uses. `HeapInv` is
inductive relative to both:

* while the pool is in use (`Live`) the chunks of the zone are partitioned
  (`Partition`) among the container, the lost ones, the pointers (`OwnedBy`) and the
  calls in progress (`HeldBy`: the chunk being allocated, the rest of a split, the one
  being freed, the one `prealloc` has moved away from), the flags are set on exactly the
  chunks of pointers that nobody is working on (`Flags`), every key has the size of its
  header (`Keys`), and each call knows what it needs of its pointer and chunks
  (`PtrFacts`, `ObjFacts`, `NewFacts`);
* between a power failure or a close and the next opening (`Stored`) every pointer holds
  a chunk of its own, which is in use unless an info slot names the pointer (`Doubt`),
  and every chunk in use is held by a pointer.

A step of a call moves chunks between the call, its pointer and the container, which
preserves a partition whatever the other threads own (`PartsMove`, `FlagsMove`); a split
adds one chunk, and the lemmas on `TilesOf` (`TilesSplit`, `TilesApart`) show that its
header lies inside the chunk that is split and that the three stores keep the tiling.
A power failure turns `Live` into `Stored` because the slot that was flushed names the
one pointer in doubt (`StoredCrashLive`); recovery settles the doubts slot by slot
(`StoredRecover`, `StoredUnlink`); and `persistent_fill_buckets` turns `Stored` back into
`Live` (`LiveFill`). With several threads a chunk may be lost to the container, so
`BucketComplete` is proved for one.

### PmempoolCheck

From `CheckAssumption`: any number of arenas, blocks, free blocks, faults, runs and
power failures. `CheckInv` has the types, where a behaviour starts (`Origin`), what the
tool's copy of the header and of the arenas is after each step (`HdrReady`,
`ArenasReady`), how far the file follows it while it is written (`Writing`), and what a
result reported means (`Promise`).

The core of `MapsRepaired` is a counting argument. The bitmap of `check.c` keeps the
first occurrence of every block number, so the entries it keeps are injective; the tool
then hands the unused numbers to the entries it refused, from a stack. The proof shows
that, unless a current flog entry names a block that does not exist, there are exactly as many unused numbers as refused entries (`|unmapped| =
|invalid map entries| + |invalid flogs|`, finite-set cardinalities) and that positions on
the stack are a bijection, so afterwards every block has one place. With such a flog entry the numbers differ and the
tool refuses (`check.c:1603`), unless the memory behind its bitmap happens to make up for
it. `DataKept` follows
from the same invariant: an entry that was not refused is written back as it was.

### The layout and pmempool create

`LayoutDividesSoundly` is about `btt.c`'s arithmetic alone: whenever a layout is
possible, the data, map, flog and backup info block of every arena follow each other
without overlap, inside the raw space, and each arena points to the next. It needs `FormatAssumption` only.

`CreatesSoundly` needs two more. `ArgumentsParsed` says what the parser of the command
line leaves (a size is a number, a type is one of four) and that every file named has a
place. `SmallestPool` relates the constants as `libpmemblk.h` and `btt_layout.h` do: the
smallest pool, of 16 MB and 8 KB, is its header and a smallest arena of 16 MB, and that arena
has room for the free blocks if blocks have the smallest size. Without it the hint for a
block size (`BsizeHint`) is wrong where `util_get_max_bsize` falls back to
`BTT_MIN_LBA_SIZE`. The hint is the harder half: `util_get_max_bsize` divides the room of
an arena by the number of blocks, `write_layout` by the size of one, and
the result is rounded down where the block size will be rounded up. `QuotientFits` and
`ShareFits` show that the two divisions ask the same, and `RoundupLeast` that a size below
the hint is not rounded beyond it. The behaviour itself is one step, from files that nobody
has touched (`CreateInv`).

### JePool

From `JeAssumption`, `MetadataFits` (the smallest pool has three chunks, and what
`pool_new` makes in it leaves one of them) and `PoolsApart` (the kernel gives no two pools
the same memory); any finite number of threads, any pool and chunk
size, any requests and alignments. `NeverExtended` says that no thread calls
`je_pool_extend`. libvmem does not: no file under `src/src` calls it, only jemalloc's
own tests do. With an extension `base_next_addr` is read and moved without `base_mtx`
(section 5). The run `vmem_pool` extends the pool, by a range in which base memory does not
reach the end of a chunk, so that the race stays without effect.

`ChunksAccounted` is not inductive: a chunk's owner between two critical sections is a
local variable of the call. `JeInv` adds what those locals are at every label
(`ThreadOK`: which labels have a chunk in `r`, an extent in `e`, where the stack of
callers returns to), that no allocation is being freed twice (`Claims`), that whatever is
owned lies in the usable part of the range (`Inside`), that what is left of base memory
lies in chunks that base memory already owns or outside the usable part (`BaseRest`), and
that marks of zeroed memory are true on their way through a call too (`Zeroed`).
`Accounted` says that exactly one of the seven sets of owners of a chunk has an element,
and one only; its cardinality is taken once, in `OneOwnerCounts`.

Most steps move nothing (`QuietStep`). The others hand a set of chunks from one owner to
the next: `OwnersMove` reduces `Accounted'` to the chunks of that set and `HandOver` the
rest of the invariant. What remains is about the data: the best fit has room for the
aligned request and the lead, chunk and trail are its pieces (`FirstFitIs`, `Aligned`),
a recorded extent joins exactly its neighbours (`CoalescedIs`), and the units base memory
takes are those of its chunks (`ChunksOfUnits`).

`NodesAccounted` and `ChunkTestsPass` need a second invariant, `BooksInv`. Extent nodes are
counted, so a thread's part must be known at every label: `HeldOK` says that it is one for
the huge allocation that the call makes or frees (`ForHuge`, read off the label or the
caller on the stack) and those on their way between list and trees (`ForTrees`).
`ArenaInv` says that a thread that makes an arena has `arenas_lock` and an empty slot, and
that an arena counts at least the threads it has, so that `nthreads` is never decremented
below zero. `OneRange` says which range `je_pool_create` made. `NodesStep` reduces a step
to the difference it makes to the four summands; for that, and for the sizes that
`je_pool_check` compares, sums over finite sets are developed first (`SumChange`: one
summand changes; `SumSizes`: the sizes of disjoint sets add up to that of their union).
The check itself then is arithmetic: extents are disjoint and disjoint from the chunks of
arenas, all of them lie in the range, so their number is at most that of its chunks
(`SizesFit`). The invariant holds between any two critical sections of other threads.

### Pmem

From `PmemAssumption` and, for `RangesStored`, `RangesMapped` (the caller's ranges lie in
mapped memory, and the address space is more than twice as large): any sizes for which a chunk is a multiple of the cache line, the
line of a streaming store, that of a dword, and a page of the line; any CPU flags and environment, any
destination, source and length.

The sizes are arbitrary, so a call's list of loops has no fixed length. The proof
therefore says what a list does to one byte. A loop *dirties* the byte or *sends* it off;
a list is `Clean` for it when no loop dirties it, and a `Plan` for it when some loop sends
it and none dirties it afterwards. `Piece(p, S, T)` says that `p` is a plan for every byte
of `S` and clean outside `T`; pieces join (`Pieces`, `GrowUp`, `GrowDown`), so the lists of
`memset_nodrain_movnt`, `memmove_nodrain_movnt` in both directions and the ordinary
variants are each shown, part by part, to plan for the whole range, or for the range
without the head of a forward move (`MemsetStreams`, `ForwardPiece`, `BackwardPiece`,
`MemmovePlain`). The one place where alignment matters is `TailLine`: the flush of the last
bytes of a forward move starts where they end, and still reaches them, because what is
left is less than `MOVNT_SIZE` bytes after a multiple of `MOVNT_SIZE` and so shares a
line with that flush. The head has no such lemma, and the run `pmem_head` shows why.

`RangeDurable` is about the return only. `PmemInv` adds what holds on the way: while loops
are left, every byte of the range is either out of the cache, with a clean rest, or has a
plan (`Storing`); without a fence in the drain no byte is posted, unless the call streams
(`Loose`); after the fence every byte is accepted or durable (`Committing`); after the commit
it is safe, or for a `Loose` call out of the cache (`Finished`). `FuncFits` is what `pmem_init` owes this argument: the flush instructions
other than CLFLUSH come with a fence, and PCOMMIT is used where the platform needs it.

`RangesStored` needs two more arguments. The first is about one loop. A copying loop is a
recursive function of its units; that it equals the closed form "every byte of the part
is what the source held when the loop began" is shown at the least unit where the two
could differ (`LeastOf`, `LoopUnique`), upwards if the loop does not run into its source
from below (`LoopUp`), downwards if not from above (`LoopDown`). The second is about the
list. `Chain(k, d, s, p, x, y)` says that the loops `p` take the part done from `x` bytes
to `y`, one after the other and in direction `k`; chains join (`LegConcat`), and the lists
of both moves and both sets are chains from 0 to the length (`ForwardLeg`, `BackwardLeg`,
`MemsetLeg`). `MemInv` holds the two together: some `x` bytes are done, memory is what it
was but for those, the rest of the list is a chain from `x`, and the direction is one in
which the copy does not overtake itself. That the code chooses such a direction is
`Forwards`: the unsigned difference is at least the length exactly when the destination
is below the source or past its end.

### Only model-checked

* Liveness (`CallsReturn` and its like): out of the prover's reach.
* `JeBins` and `JeTree`, which compute with recursive functions
  on bitmaps and trees.
* The calls that extend a pool (`JePool` without `NeverExtended`).
* The refinement of `Container`, `JeArena`, and `RangesExact` of `PmempoolCmds`; `Heap` outside `SoundUse`
  is not claimed to be correct (section 5).

## 5. Findings

* `pmem_head`: `memmove_nodrain_movnt` copies the bytes before the first cache line
  boundary with ordinary stores, advances the pointer and only then flushes
  (`src/libpmem/pmem.c:665`), so the flushed range begins where those bytes end.
  `pmem_memmove_persist` to an unaligned address returns while they are only in the
  cache. `RangeDurable` of the run `pmem` leaves these bytes out; it also leaves out a
  streaming move onto itself, and says less where streaming stores meet no fence (both
  below).

Known from modelling and from reading, with no run of their own. In libpmemblk:

* `btt_read` announces its block in `rtt[lane]`, and if the entry has become zero or
  error when it reads the map again it returns without clearing the slot
  (`btt.c:1373-1380`). A writer whose free block is that block spins
  (`btt.c:1594-1596`) until a read on the stale lane overwrites the slot.
* `write_layout` zeroes the map at `mapoff`, which is relative to the arena, without
  `arena_off` (`btt.c:987`): in a file that was not zero the map of the second arena
  keeps old bytes.
* `nszero` persists with `pmem_memset_persist` even in a file that is not persistent memory
  (`blk.c:252`); the model takes the zeroes for durable.
* `ns_cb` is one object for all pools (`blk.c:413`): opening a pool that is zeroed
  makes the layout of another, not yet written, skip the zeroing of its map.
* `btt_check` never advances `arenap`, so only the first arena is checked
  (`btt.c:1887`).
* `entry * internal_lbasize` is a 32 bit product (`btt.c:1422`), while an arena may
  have 512 GB.

In libpmemlog: a walk with a chunk size near `SIZE_MAX` wraps around (`log.c:585`).

In libpmemobj:

* `bst_add` takes no lock (`container_bst.c:65-77`): two threads that add at once lose
  a node, and so a chunk until the next opening.
* `bucket_calc_units` returns one unit less than is needed (`bucket.c:169`); a request
  of up to one chunk gets none, and its chunk is shrunk to size 0.
* recovery follows an info slot whose destination did not reach the media
  (`backend_persistent.c:307`, and the same in the other two functions) and takes the
  pool's signature for a chunk's offset.
* `pfree` gives its chunk away before it clears the pointer (`pool.c:231`,
  `pmalloc.c:234`): another thread allocates it, power fails, and `recover_slot_free`
  leaves two pointers to one chunk.
* `prealloc` does not notice a failed allocation (`pmalloc.c:293`) and recycles the
  object its pointer holds; the recovery of one that was interrupted after it recycled
  the old object restores a pointer to a free chunk (`backend_persistent.c:339`).
* `min_arena_threads = ~0` is -1 in an int (`pool.c:157`), so once all arenas exist no
  arena is chosen; `arena_id` is thread-local and shared by all pools (`pool.c:213`).

In libpmem:

* without a fence in the drain (only CLFLUSH available) streaming stores are not
  ordered before the return;
* a move onto itself returns without flushing (`pmem.c:638`);
* `pmem_init` tests CLFLUSHOPT after CLWB and so prefers it (`pmem.c:1053,1067`).

In pmempool check:

* the step that writes is skipped for some results, so a repaired header need not be
  written although the tool exits with 0;
* advanced repair calls `btt_init` callbacks without `nszero`
  (`check.c:278-283`, `btt.c:987`) and ends in a null pointer;
* a zeroed header with a valid BTT is always reported as beyond repair;
* failing writes return -1 without setting the result (`check.c:1871`);
* a header of unknown type with a valid checksum is reported consistent;
* the tool takes pairs of sequence numbers for invalid that the library leaves behind
  (`check.c:1316-1329`), so it may report a consistent pool as not consistent;
* the bitmap of blocks is read and written at the block of a flog entry without a test
  of its range (`check.c:1556-1566`);
* a power failure between the writes of the header and of the info blocks
  (`check.c:1741-1757`) leaves UUIDs that differ, which the next check accepts and the
  library does not.

In the other commands of pmempool:

* `util_ranges_add_range` goes on from an entry it freed (`common.c:316-325`), and
  `last + 1` wraps (`common.c:300`);
* `util_parse_range_number` ignores parse errors and leaves `last` unset
  (`common.c:266-275`); "from-to" with a bound behind the end is taken for "from-";
* `pmempool_info_log_data` cuts the ranges for good, so the next file or range gets
  less (`info.c:473-483`);
* `dump -c` dumps past the used bytes of the last chunk (`dump.c:154`);
* the maximum of `util_get_max_bsize` is too large for several arenas (`common.c:624`);
* `-i` overrides `-s`, and `-i` with `-M` is always refused.

In jemalloc:

* `chunk_record` drops a chunk for good when no node is spare (`chunk.c:305-312`), and
  the failure path of `chunk_recycle` does so for the trailing part and decrements
  `curchunks` for chunks that were never counted (`chunk.c:90-93`); `huge_palloc` fails
  without a spare node although memory is left;
* `je_pool_check` takes `chunks_mtx` and then `arenas_lock` (`jemalloc.c:1753-1754`), and
  `choose_arena_hard` the other way round: both threads wait for ever.
  `base_node_prealloc` may wait for itself (`base.c:97-99`);
* `je_pool_extend` reads and moves `base_next_addr` without `base_mtx`
  (`jemalloc.c:1844-1846`): if another thread's `base_alloc` goes on to the next chunk in
  between, that chunk is recorded as free although base memory is in it;
* `je_pool_check` tests a spare chunk for zeroes unless it is marked unzeroed
  (`jemalloc.c:1774`), and does not look at the dirty mark as it does for free runs (1649): a
  run of the largest class that was written to and freed leaves a spare that is dirty and
  not marked (`arena.c:1286-1290`), and the check reports a sound pool;
* extents of two adjacent ranges coalesce, and `je_pool_check` then reports an error;
* a failing `arena_chunk_alloc_huge` leaves `nactive` too high (`arena.c:597-611`), and
  the counters of purging wrap below zero in between (`arena.c:1165`);
* `pools[id]` is visible before its list of ranges is set (`jemalloc.c:1502-1506`).

libvmmalloc: a huge block allocated before the pool exists and freed afterwards is
looked for in the wrong pool.

## 6. Plan

Done: `Btt`, `BttLayout`, `BlkPool`, `PmemLog`, `ContainerBst`, `Heap`, `Pmem`,
`PmempoolCheck`, `PmempoolCmds`, `JePool`, `JeArena`, `JeBins`, `JeTree` and their abstract
specifications; the proofs of section 4.

Left, in this order:

1. Proofs: the step refinement of `Container`, the page map of `JeArena`.
2. jemalloc's thread caches (`tcache.c`): their bins above the arena's, and their
   flushing when a thread or an arena ends.
3. Several zones and more threads than arenas in `Heap`.

### Not modelled

* `obj.c`: `pmemobj_map_common` does what the create and open of the other two
  libraries do; the other entry points are stubs.
* `backend_noop.c`, `container_noop.c`: they do nothing.
* `is_pmem_proc`, `util_map`, `out.c`, the printing functions of `info.c` and
  `output.c`: I/O and formatting.
* `arena_setf` and the error returns of `nsread` and `nswrite`: `blk.c` never makes them.
* jemalloc's profiling, statistics, `mallctl` tree, quarantine, hashing, cuckoo hash
  and zone glue: observation, debugging and platform code that the pools of libvmem
  do not enable.
* libvmmalloc: wrappers whose only state is whether the pool exists.
* tests, examples and benchmarks.
