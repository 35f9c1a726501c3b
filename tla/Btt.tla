-------------------------------- MODULE Btt --------------------------------
(***************************************************************************)
(* One arena of a Block Translation Table (src/libpmemblk/btt.c): lanes    *)
(* that read, write and flag blocks concurrently, the on-media map and     *)
(* flog that make a block write atomic, the read tracking table that keeps *)
(* a block from being reused while it is read, power failures at any step, *)
(* and the recovery that btt_init() performs.                              *)
(*                                                                         *)
(* A post-map block that is in no map entry is the free block of exactly   *)
(* one lane.  btt_write fills the lane's free block, records the exchange  *)
(* in the lane's flog and then exchanges the block with the one in the     *)
(* map; the block that was in the map becomes the lane's free block.       *)
(***************************************************************************)
EXTENDS Integers

CONSTANTS
  nlane,            \* lanes the caller may use (<= nfree)
  nfree,            \* free blocks, flog pairs, rtt slots and map locks
  external_nlba,    \* pre-map LBAs of the arena
  EntriesPerLine,   \* BTT_MAP_LOCK_ALIGN / BTT_MAP_ENTRY_SIZE
  Values,           \* contents of a block
  Zero, EIO, Torn,  \* a block of zeros, an I/O error, an incomplete block
  Ops,              \* the operations the callers use
  MaxOps,           \* bound: operations started
  MaxCrash          \* bound: power failures

ASSUME SizeAssumption ==
  /\ nlane \in Nat \ {0} /\ nfree \in Nat /\ nlane <= nfree
  /\ external_nlba \in Nat /\ nfree <= external_nlba
  /\ EntriesPerLine \in Nat \ {0}
ASSUME ValueAssumption ==
  /\ Zero # EIO /\ Zero # Torn /\ EIO # Torn
  /\ Values \cap {Zero, EIO, Torn} = {}
ASSUME BoundAssumption == MaxOps \in Nat /\ MaxCrash \in Nat
ASSUME OpsAssumption == Ops \subseteq {"read", "write", "set_zero", "set_error"}

VARIABLES
  \* on media
  formatted,    \* the arena info block is valid
  map,          \* map as memory shows it: [LBAs -> Entry]
  pmap,         \* map as far as it was flushed
  flog,         \* [FlogLanes -> [{0,1} -> FlogEntry]]
  data,         \* [Blocks -> Values \cup {Torn}]
  \* run-time state of struct btt and struct arena
  mode,         \* "up", or "recovering" after a power failure
  rec,          \* flog pairs read so far while recovering
  laidout,
  arena_error,  \* flags & BTTINFO_FLAG_ERROR_MASK
  rt,           \* struct flog_runtime: [FlogLanes -> [old_map, seq, next]]
  rtt,          \* read tracking table: [FlogLanes -> Blocks \cup {NoBlock}]
  map_locks,    \* [0..nfree-1 -> Lanes \cup {NoLane}]
  \* the call in progress on each lane
  pc, op, entry, free, scan, res,
  \* counters that bound the model
  nops, ncrash

media   == <<formatted, map, pmap, flog, data>>
arena   == <<mode, rec, laidout, arena_error, rt, rtt, map_locks>>
locals  == <<op, entry, free, scan, res>>
bounds  == <<nops, ncrash>>
vars    == <<media, arena, pc, locals, bounds>>

-----------------------------------------------------------------------------
Lanes         == 0 .. nlane - 1
FlogLanes     == 0 .. nfree - 1
LBAs          == 0 .. external_nlba - 1
internal_nlba == external_nlba + nfree
Blocks        == 0 .. internal_nlba - 1
NoBlock       == -1     \* BTT_MAP_ENTRY_ERROR in the rtt
NoLane        == -1

Flags == {"initial", "error", "zero", "normal"}
Entry == [post : Blocks, flag : Flags]
Normal(b)     == [post |-> b, flag |-> "normal"]
InitialEntry  == [post |-> 0, flag |-> "initial"]   \* four zero bytes

ZeroOrInitial(e) == e.flag \in {"zero", "initial"}

\* A map entry still in its initial state stands for the identity mapping.
Resolved(x, e) == IF e.flag = "initial" THEN Normal(x) ELSE e

\* Mutant: the sequence number is not wrapped.
NSEQ_Unwrapped(s) == s + 1
\* The lookup table Nseq: 1, 2, 3 and again 1; 0 is no sequence number.
NSEQ(s) == IF s = 0 THEN 0 ELSE IF s = 3 THEN 1 ELSE s + 1

FlogEntry == [lba : LBAs, old_map : Entry, new_map : Entry, seq : 0 .. 3]
Zflog     == [lba |-> 0, old_map |-> InitialEntry, new_map |-> InitialEntry, seq |-> 0]

map_lock_num(x) == (x \div EntriesPerLine) % nfree

-----------------------------------------------------------------------------
(* write_layout and the runtime state that read_arenas builds.             *)

InitialFlog(l) ==
  LET e == [post |-> external_nlba + l, flag |-> "zero"]
  IN  [i \in {0, 1} |->
         IF i = 0 THEN [lba |-> 0, old_map |-> e, new_map |-> e, seq |-> 1] ELSE Zflog]

\* The flog of a pair that read_flog_pair takes as current.
CurrentIdx(pair) ==
  IF pair[0].seq = 0 \/ (pair[1].seq # 0 /\ NSEQ(pair[0].seq) = pair[1].seq)
    THEN 1 ELSE 0
Current(l) == flog[l][CurrentIdx(flog[l])]

Runtime(pair) ==
  LET c == CurrentIdx(pair)
  IN  [old_map |-> pair[c].old_map, seq |-> pair[c].seq, next |-> 1 - c]

\* The exchange recorded by the current flog of lane l did not reach map m.
Incomplete(l, m) ==
  LET c == Current(l)
      e == Resolved(c.lba, m[c.lba])
  IN  c.old_map # c.new_map /\ c.new_map # e /\ c.old_map = e

\* The map that recovery makes of m.
Recovered(m) ==
  LET inc == {l \in FlogLanes : Incomplete(l, m)}
  IN  [x \in LBAs |->
         IF \E l \in inc : Current(l).lba = x
           THEN Current(CHOOSE l \in inc : Current(l).lba = x).new_map
           ELSE m[x]]

NoOp == [kind |-> "idle", lba |-> 0, val |-> Zero]

\* A freshly created pool: no layout yet.
Init ==
  /\ formatted = FALSE
  /\ map = [x \in LBAs |-> InitialEntry]
  /\ pmap = map
  /\ flog = [l \in FlogLanes |-> [i \in {0, 1} |-> Zflog]]
  /\ data = [b \in Blocks |-> Torn]
  /\ mode = "up" /\ rec = 0
  /\ laidout = FALSE
  /\ arena_error = FALSE
  /\ rt = [l \in FlogLanes |-> [old_map |-> InitialEntry, seq |-> 0, next |-> 0]]
  /\ rtt = [l \in FlogLanes |-> NoBlock]
  /\ map_locks = [n \in 0 .. nfree - 1 |-> NoLane]
  /\ pc = [l \in Lanes |-> "idle"]
  /\ op = [l \in Lanes |-> NoOp]
  /\ entry = [l \in Lanes |-> InitialEntry]
  /\ free = [l \in Lanes |-> NoBlock]
  /\ scan = [l \in Lanes |-> 0]
  /\ res = [l \in Lanes |-> Zero]
  /\ nops = 0 /\ ncrash = 0
-----------------------------------------------------------------------------
(* Steps of the lanes.                                                     *)

Goto(l, from, to) == mode = "up" /\ pc[l] = from /\ pc' = [pc EXCEPT ![l] = to]

\* A lane's thread enters btt_read, btt_write or map_entry_setf.
Begin(l, o) ==
  /\ nops < MaxOps
  /\ o.kind \in Ops
  /\ Goto(l, "idle", "begin")
  /\ op' = [op EXCEPT ![l] = o]
  /\ nops' = nops + 1
  /\ UNCHANGED <<media, arena, entry, free, scan, res, ncrash>>

btt_read(l, x)      == Begin(l, [kind |-> "read", lba |-> x, val |-> Zero])
btt_write(l, x, v)  == Begin(l, [kind |-> "write", lba |-> x, val |-> v])
btt_set_zero(l, x)  == Begin(l, [kind |-> "set_zero", lba |-> x, val |-> Zero])
btt_set_error(l, x) == Begin(l, [kind |-> "set_error", lba |-> x, val |-> EIO])

\* Without a layout every block reads as zeros, so setting zero is
\* superfluous; any other update formats the arena first.
CheckLaidout(l) ==
  /\ Goto(l, "begin",
          IF laidout THEN IF op[l].kind = "read" THEN "r_map" ELSE "check"
          ELSE IF op[l].kind \in {"read", "set_zero"} THEN "done" ELSE "layout")
  /\ UNCHANGED <<media, arena, locals, bounds>>

\* Mutant: laidout is not checked again under the mutex.
WriteLayout_NoRecheck(l) ==
  /\ Goto(l, "layout", "check")
  /\ map' = [x \in LBAs |-> InitialEntry]
  /\ pmap' = map'
  /\ flog' = [f \in FlogLanes |-> InitialFlog(f)]
  /\ rt' = [f \in FlogLanes |-> Runtime(InitialFlog(f))]
  /\ formatted' = TRUE
  /\ laidout' = TRUE
  /\ UNCHANGED <<data, mode, rec, arena_error, rtt, map_locks, locals, bounds>>

\* The double-checked call of write_layout under layout_write_mutex.
WriteLayout(l) ==
  /\ Goto(l, "layout", "check")
  /\ IF laidout
       THEN UNCHANGED <<media, arena>>
       ELSE /\ map' = [x \in LBAs |-> InitialEntry]
            /\ pmap' = map'
            /\ flog' = [f \in FlogLanes |-> InitialFlog(f)]
            /\ formatted' = TRUE
            /\ laidout' = TRUE
            /\ arena_error' = FALSE
            /\ rt' = [f \in FlogLanes |-> Runtime(InitialFlog(f))]
            /\ rtt' = [f \in FlogLanes |-> NoBlock]
            /\ map_locks' = [n \in 0 .. nfree - 1 |-> NoLane]
            /\ UNCHANGED <<data, mode, rec>>
  /\ UNCHANGED <<locals, bounds>>

\* The arena's error flag forbids updates; a write takes its lane's free block.
CheckArena(l) ==
  /\ Goto(l, "check",
          IF arena_error THEN "done" ELSE IF op[l].kind = "write" THEN "scan" ELSE "lock")
  /\ res' = [res EXCEPT ![l] = IF arena_error THEN EIO ELSE Zero]
  /\ free' = [free EXCEPT ![l] =
       IF ~arena_error /\ op[l].kind = "write" THEN rt[l].old_map.post ELSE NoBlock]
  /\ UNCHANGED <<media, arena, op, entry, scan, bounds>>

-----------------------------------------------------------------------------
(* Reading.                                                                *)

\* The top of btt_read's loop, given the entry last read from the map.
Examine(l, e) ==
  /\ pc' = [pc EXCEPT ![l] =
       IF e.flag = "error" \/ ZeroOrInitial(e) THEN "done" ELSE "r_rtt"]
  /\ res' = [res EXCEPT ![l] = IF e.flag = "error" THEN EIO ELSE Zero]
  /\ entry' = [entry EXCEPT ![l] = e]

ReadMap(l) ==
  /\ mode = "up" /\ pc[l] = "r_map"
  /\ Examine(l, map[op[l].lba])
  /\ UNCHANGED <<media, arena, op, free, scan, bounds>>

\* Announce the block in the read tracking table.
SetRtt(l) ==
  /\ Goto(l, "r_rtt", "r_again")
  /\ rtt' = [rtt EXCEPT ![l] = entry[l].post]
  /\ UNCHANGED <<media, mode, rec, laidout, arena_error, rt, map_locks, locals, bounds>>

\* Mutant: the map is not read again.
ReadMapAgain_Trusting(l) ==
  /\ Goto(l, "r_again", "r_data")
  /\ UNCHANGED <<media, arena, locals, bounds>>

\* Look at the map again: proceed if the entry stayed the same.
ReadMapAgain(l) ==
  /\ mode = "up" /\ pc[l] = "r_again"
  /\ LET latest == map[op[l].lba]
     IN  IF latest = entry[l]
           THEN pc' = [pc EXCEPT ![l] = "r_data"] /\ UNCHANGED <<res, entry>>
           ELSE Examine(l, latest)
  /\ UNCHANGED <<media, arena, op, free, scan, bounds>>

ReadData(l) ==
  /\ Goto(l, "r_data", "r_clear")
  /\ res' = [res EXCEPT ![l] = data[entry[l].post]]
  /\ UNCHANGED <<media, arena, op, entry, free, scan, bounds>>

\* Mutant: the slot keeps announcing the block.
ClearRtt_Forgotten(l) ==
  /\ Goto(l, "r_clear", "done")
  /\ UNCHANGED <<media, arena, locals, bounds>>

ClearRtt(l) ==
  /\ Goto(l, "r_clear", "done")
  /\ rtt' = [rtt EXCEPT ![l] = NoBlock]
  /\ UNCHANGED <<media, mode, rec, laidout, arena_error, rt, map_locks, locals, bounds>>
-----------------------------------------------------------------------------
(* Writing.                                                                *)

\* Spin on a slot of the rtt while it announces a read of the free block ...
Spin(l) ==
  /\ mode = "up" /\ pc[l] = "scan"
  /\ rtt[scan[l]] = free[l]
  /\ UNCHANGED vars

\* ... and go on to the next slot when it does not.
ScanRtt(l) ==
  /\ rtt[scan[l]] # free[l]
  /\ Goto(l, "scan", IF scan[l] + 1 = nlane THEN "w_data" ELSE "scan")
  /\ scan' = [scan EXCEPT ![l] = IF scan[l] + 1 = nlane THEN 0 ELSE scan[l] + 1]
  /\ UNCHANGED <<media, arena, op, entry, free, res, bounds>>

\* Copying a block is not atomic: until it ends the block is torn.
WriteData(l) ==
  /\ Goto(l, "w_data", "w_copy")
  /\ data' = [data EXCEPT ![free[l]] = Torn]
  /\ UNCHANGED <<formatted, map, pmap, flog, arena, locals, bounds>>

DataWritten(l) ==
  /\ Goto(l, "w_copy", "lock")
  /\ data' = [data EXCEPT ![free[l]] = op[l].val]
  /\ UNCHANGED <<formatted, map, pmap, flog, arena, locals, bounds>>

\* Mutant: the entry is read without waiting for the lock.
map_lock_Unguarded(l) ==
  /\ Goto(l, "lock", IF op[l].kind = "write" THEN "flog1" ELSE "map")
  /\ entry' = [entry EXCEPT ![l] = Resolved(op[l].lba, map[op[l].lba])]
  /\ UNCHANGED <<media, arena, op, free, scan, res, bounds>>

\* map_lock: take the lock of the entry's cache line and read the entry.
\* Setting zero on a block that is zero already drops the lock (map_abort).
map_lock(l) ==
  LET x == op[l].lba
      n == map_lock_num(x)
      old == Resolved(x, map[x])
      skip == op[l].kind = "set_zero" /\ ZeroOrInitial(old)
  IN  /\ map_locks[n] = NoLane
      /\ Goto(l, "lock",
              IF skip THEN "done" ELSE IF op[l].kind = "write" THEN "flog1" ELSE "map")
      /\ map_locks' = [map_locks EXCEPT ![n] = IF skip THEN NoLane ELSE l]
      /\ entry' = [entry EXCEPT ![l] = old]
      /\ UNCHANGED <<media, mode, rec, laidout, arena_error, rt, rtt,
                     op, free, scan, res, bounds>>

\* flog_update, first write: lba and old_map of the inactive flog.
FlogFirst(l) ==
  /\ Goto(l, "flog1", "flog2")
  /\ LET n == rt[l].next
     IN  flog' = [flog EXCEPT ![l][n] =
           [lba |-> op[l].lba, old_map |-> entry[l],
            new_map |-> flog[l][n].new_map, seq |-> flog[l][n].seq]]
  /\ UNCHANGED <<formatted, map, pmap, data, arena, locals, bounds>>

\* Mutant: the other flog of the pair is not selected for the next update.
FlogSecond_SameSlot(l) ==
  /\ Goto(l, "flog2", "map")
  /\ LET n == rt[l].next
     IN  flog' = [flog EXCEPT ![l][n] =
           [lba |-> flog[l][n].lba, old_map |-> flog[l][n].old_map,
            new_map |-> Normal(free[l]), seq |-> NSEQ(rt[l].seq)]]
  /\ rt' = [rt EXCEPT ![l].old_map = entry[l], ![l].seq = NSEQ(rt[l].seq)]
  /\ UNCHANGED <<formatted, map, pmap, data, mode, rec, laidout, arena_error, rtt,
                 map_locks, locals, bounds>>

\* Mutant: the run-time sequence number is not advanced.
FlogSecond_SameSeq(l) ==
  /\ Goto(l, "flog2", "map")
  /\ LET n == rt[l].next
     IN  flog' = [flog EXCEPT ![l][n] =
           [lba |-> flog[l][n].lba, old_map |-> flog[l][n].old_map,
            new_map |-> Normal(free[l]), seq |-> NSEQ(rt[l].seq)]]
  /\ rt' = [rt EXCEPT ![l].old_map = entry[l], ![l].next = 1 - rt[l].next]
  /\ UNCHANGED <<formatted, map, pmap, data, mode, rec, laidout, arena_error, rtt,
                 map_locks, locals, bounds>>

\* flog_update, second write: new_map and seq make the flog the current one.
FlogSecond(l) ==
  /\ Goto(l, "flog2", "map")
  /\ LET n == rt[l].next
     IN  flog' = [flog EXCEPT ![l][n] =
           [lba |-> flog[l][n].lba, old_map |-> flog[l][n].old_map,
            new_map |-> Normal(free[l]), seq |-> NSEQ(rt[l].seq)]]
  /\ rt' = [rt EXCEPT ![l] =
       [old_map |-> entry[l], seq |-> NSEQ(rt[l].seq), next |-> 1 - rt[l].next]]
  /\ UNCHANGED <<formatted, map, pmap, data, mode, rec, laidout, arena_error, rtt,
                 map_locks, locals, bounds>>

\* The entry that map_unlock stores.
NewEntry(l) ==
  IF op[l].kind = "write" THEN Normal(free[l])
  ELSE [post |-> entry[l].post, flag |-> IF op[l].kind = "set_zero" THEN "zero" ELSE "error"]

\* map_unlock: store the entry (readers see it now) ...
StoreMap(l) ==
  /\ Goto(l, "map", "sync")
  /\ map' = [map EXCEPT ![op[l].lba] = NewEntry(l)]
  /\ UNCHANGED <<formatted, pmap, flog, data, arena, locals, bounds>>

\* ... flush it and drop the lock.
map_unlock(l) ==
  LET x == op[l].lba
  IN  /\ Goto(l, "sync", "done")
      /\ pmap' = [pmap EXCEPT ![x] = map[x]]
      /\ map_locks' = [map_locks EXCEPT ![map_lock_num(x)] = NoLane]
      /\ UNCHANGED <<formatted, map, flog, data, mode, rec, laidout, arena_error, rt,
                     rtt, locals, bounds>>

\* The call returns to the application.
Return(l) ==
  /\ Goto(l, "done", "idle")
  /\ op' = [op EXCEPT ![l] = NoOp]
  /\ entry' = [entry EXCEPT ![l] = InitialEntry]
  /\ free' = [free EXCEPT ![l] = NoBlock]
  /\ res' = [res EXCEPT ![l] = Zero]
  /\ UNCHANGED <<media, arena, scan, bounds>>
-----------------------------------------------------------------------------
(* Power failure and recovery.                                             *)

\* A map entry stored but not flushed may or may not have reached the media.
\* All run-time state is gone; the process starts again in btt_init.
Crash ==
  /\ ncrash < MaxCrash
  /\ ncrash' = ncrash + 1
  /\ \E S \in SUBSET LBAs :
       map' = [x \in LBAs |-> IF x \in S THEN map[x] ELSE pmap[x]]
  /\ pmap' = map'
  /\ mode' = "recovering" /\ rec' = 0
  /\ laidout' = FALSE /\ arena_error' = FALSE
  /\ rt' = [f \in FlogLanes |-> [old_map |-> InitialEntry, seq |-> 0, next |-> 0]]
  /\ rtt' = [f \in FlogLanes |-> NoBlock]
  /\ map_locks' = [n \in 0 .. nfree - 1 |-> NoLane]
  /\ pc' = [l \in Lanes |-> "idle"]
  /\ op' = [l \in Lanes |-> NoOp]
  /\ entry' = [l \in Lanes |-> InitialEntry]
  /\ free' = [l \in Lanes |-> NoBlock]
  /\ scan' = [l \in Lanes |-> 0]
  /\ res' = [l \in Lanes |-> Zero]
  /\ UNCHANGED <<formatted, flog, data, nops>>

\* read_flog_pair: pick the current flog of the next pair and complete its
\* exchange if the map does not show it.
read_flog_pair ==
  /\ mode = "recovering" /\ formatted /\ rec < nfree
  /\ rec' = rec + 1
  /\ IF flog[rec][0].seq = flog[rec][1].seq
       THEN arena_error' = TRUE /\ UNCHANGED <<rt, map, pmap>>
       ELSE /\ rt' = [rt EXCEPT ![rec] = Runtime(flog[rec])]
            /\ map' = [map EXCEPT ![Current(rec).lba] =
                         IF Incomplete(rec, map) THEN Current(rec).new_map ELSE @]
            /\ pmap' = map'
            /\ UNCHANGED arena_error
  /\ UNCHANGED <<formatted, flog, data, mode, laidout, rtt, map_locks, pc, locals, bounds>>

\* read_layout: the end of read_arenas, or at once if there is no layout yet.
btt_init ==
  /\ mode = "recovering" /\ (formatted => rec = nfree)
  /\ mode' = "up" /\ rec' = 0
  /\ laidout' = formatted
  /\ UNCHANGED <<media, arena_error, rt, rtt, map_locks, pc, locals, bounds>>

-----------------------------------------------------------------------------
LaneStep(l) ==
  \/ CheckLaidout(l) \/ WriteLayout(l) \/ CheckArena(l)
  \/ ReadMap(l) \/ SetRtt(l) \/ ReadMapAgain(l) \/ ReadData(l) \/ ClearRtt(l)
  \/ Spin(l) \/ ScanRtt(l) \/ WriteData(l) \/ DataWritten(l) \/ map_lock(l)
  \/ FlogFirst(l) \/ FlogSecond(l) \/ StoreMap(l) \/ map_unlock(l) \/ Return(l)

Call(l) ==
  \E x \in LBAs :
    \/ btt_read(l, x)
    \/ \E v \in Values : btt_write(l, x, v)
    \/ btt_set_zero(l, x)
    \/ btt_set_error(l, x)

\* The application issues no further call.
Finished == nops = MaxOps /\ (\A l \in Lanes : pc[l] = "idle") /\ UNCHANGED vars

Next ==
  \/ \E l \in Lanes : Call(l) \/ LaneStep(l)
  \/ Crash \/ read_flog_pair \/ btt_init
  \/ Finished

Spec == Init /\ [][Next]_vars

\* The operating system runs every thread; the pool is opened again after a
\* power failure.
Fairness ==
  /\ \A l \in Lanes : WF_vars(LaneStep(l))
  /\ WF_vars(read_flog_pair) /\ WF_vars(btt_init)

FairSpec == Spec /\ Fairness
-----------------------------------------------------------------------------
(* Properties.                                                             *)

PCs == {"idle", "begin", "layout", "check", "r_map", "r_rtt", "r_again", "r_data", "r_clear",
        "scan", "w_data", "w_copy", "lock", "flog1", "flog2", "map", "sync", "done"}
Op  == [kind : {"idle", "read", "write", "set_zero", "set_error"},
        lba : LBAs, val : Values \cup {Zero, EIO}]

\* Every variable of the arena and of the calls in progress has its type.
TypeOK ==
  /\ formatted \in BOOLEAN /\ laidout \in BOOLEAN /\ arena_error \in BOOLEAN
  /\ map \in [LBAs -> Entry] /\ pmap \in [LBAs -> Entry]
  /\ flog \in [FlogLanes -> [{0, 1} -> FlogEntry]]
  /\ data \in [Blocks -> Values \cup {Torn}]
  /\ mode \in {"up", "recovering"} /\ rec \in 0 .. nfree
  /\ rt \in [FlogLanes -> [old_map : Entry, seq : 0 .. 3, next : {0, 1}]]
  /\ rtt \in [FlogLanes -> Blocks \cup {NoBlock}]
  /\ map_locks \in [0 .. nfree - 1 -> Lanes \cup {NoLane}]
  /\ pc \in [Lanes -> PCs] /\ op \in [Lanes -> Op]
  /\ entry \in [Lanes -> Entry]
  /\ free \in [Lanes -> Blocks \cup {NoBlock}]
  /\ scan \in [Lanes -> Lanes]
  /\ res \in [Lanes -> Values \cup {Zero, EIO, Torn}]
  /\ nops \in Nat /\ ncrash \in Nat

\* The block an LBA is mapped to, and the block a lane may write next, as
\* the media would tell them after a power failure.
Post(x) == Resolved(x, map[x]).post
LaneBlock(l) == IF Incomplete(l, map) THEN Current(l).new_map.post ELSE Current(l).old_map.post

\* No post-map block belongs to two owners: two LBAs, two lanes, or an LBA
\* and a lane (btt_write: "the free block held by flog[lane] is assigned to
\* this thread and to no other threads"), at any step of any call, of a
\* power failure or of recovery.
BlocksPartitioned ==
  formatted =>
    /\ \A x, y \in LBAs : x # y => Post(x) # Post(y)
    /\ \A l, k \in FlogLanes : l # k => LaneBlock(l) # LaneBlock(k)
    /\ \A x \in LBAs, l \in FlogLanes : Post(x) # LaneBlock(l)

\* The run-time free block of a lane, which the next write on it fills, is
\* the one recovery would find: nothing is lost by a power failure.
RuntimeMatchesFlog ==
  laidout => \A l \in FlogLanes : rt[l] = Runtime(flog[l])

\* flog_update keeps the sequence numbers of a pair apart, so recovery always
\* finds one current flog and never puts the arena into its error state.
FlogUnambiguous ==
  /\ formatted => \A l \in FlogLanes : flog[l][0].seq # flog[l][1].seq
  /\ ~arena_error

\* The read tracking table: while btt_read copies a block, no btt_write on
\* another lane is filling that block.
NoReadOfBlockBeingWritten ==
  \A l, k \in Lanes :
    pc[l] = "r_data" /\ pc[k] \in {"w_data", "w_copy"} => entry[l].post # free[k]

\* "Unused slots in the rtt are indicated by setting the error bit": a slot
\* announces a block only while its lane is inside the loop or the copy of
\* btt_read, so that a writer only ever waits for a read in progress.
RttAnnouncesReads ==
  \A l \in Lanes :
    rtt[l] # NoBlock => pc[l] \in {"r_rtt", "r_again", "r_data", "r_clear"}

\* Refinement: the arena implements an atomic, durable block device.
Contents(m) ==
  [x \in LBAs |-> CASE ZeroOrInitial(m[x]) -> Zero
                     [] m[x].flag = "error" -> EIO
                     [] OTHER -> data[m[x].post]]

Abs(l) ==
  LET o == op[l]
  IN  CASE o.kind = "idle" ->
             [kind |-> "idle", lba |-> 0, val |-> Zero, seen |-> FALSE, hard |-> FALSE,
              res |-> Zero]
        [] o.kind = "read" ->
             LET seen == pc[l] \in {"r_data", "r_clear", "done"}
             IN  [kind |-> "read", lba |-> o.lba, val |-> Zero, seen |-> seen,
                  hard |-> FALSE,
                  res |-> IF ~seen THEN Zero
                          ELSE IF pc[l] = "r_data" THEN data[entry[l].post] ELSE res[l]]
        [] OTHER ->
             [kind |-> "update", lba |-> o.lba, val |-> o.val,
              seen |-> pc[l] \in {"sync", "done"},
              hard |-> pc[l] = "done" \/ (o.kind = "write" /\ pc[l] \in {"map", "sync"}),
              res |-> Zero]

Device == INSTANCE BlockDevice WITH
  dev <- Contents(IF mode = "up" THEN map ELSE Recovered(map)),
  dur <- Contents(Recovered(pmap)),
  req <- [l \in Lanes |-> Abs(l)]

\* Every read returns the whole contents its block had at one moment of the
\* call, every completed write, set_zero and set_error survives a power
\* failure, and one interrupted by it happened entirely or not at all.
ImplementsBlockDevice == Device!Spec

\* Every call returns once the other lanes stop issuing calls.
CallsReturn == \A l \in Lanes : pc[l] # "idle" ~> pc[l] = "idle"
=============================================================================
