-------------------------- MODULE BttDeviceProofs --------------------------
(***************************************************************************)
(* Proof that the arena of module Btt implements the atomic, durable block *)
(* device of module BlockDevice, for any number of lanes, blocks and       *)
(* values and with power failures at any step.                             *)
(***************************************************************************)
EXTENDS BttProofs

\* Before the arena is laid out there is nothing on media.
Blank ==
  ~formatted => /\ map = [x \in LBAs |-> InitialEntry] /\ pmap = map
                /\ flog = [f \in FlogLanes |-> [i \in {0, 1} |-> Zflog]]

\* The operation of a lane and its value; the block a write fills holds its
\* value from the end of the copy until the exchange is on media.
DataPCs == {"lock", "flog1", "flog2", "map", "sync"}

LaneData(l) ==
  /\ pc[l] # "idle" => op[l].kind # "idle"
  /\ op[l].kind = "set_zero" => op[l].val = Zero
  /\ op[l].kind = "set_error" => op[l].val = EIO
  /\ pc[l] \in {"idle", "begin"} => res[l] = Zero
  /\ op[l].kind = "write" /\ pc[l] \in DataPCs => data[free[l]] = op[l].val

DevInv == ReaderInv /\ Blank /\ ~arena_error /\ \A l \in Lanes : LaneData(l)

\* The write of lane k has its exchange with LBA x in the flog.
Writes(k, x) == op[k].kind = "write" /\ pc[k] \in {"map", "sync"} /\ op[k].lba = x

-----------------------------------------------------------------------------
(* Which exchanges recovery would complete.                                *)

\* The block of a write is its lane's until the map shows it.
LEMMA WriterBlock ==
  ASSUME OwnerInv, NEW k \in Lanes, op[k].kind = "write",
         pc[k] \in WritePCs \cup {"lock", "map", "sync"}
  PROVE  /\ formatted /\ mode = "up" /\ k \in FlogLanes /\ op[k].lba \in LBAs
         /\ pc[k] # "sync" => free[k] = LaneBlock(k)
         /\ pc[k] = "sync" => free[k] = Post(op[k].lba)
  <1>1. k \in FlogLanes /\ op[k].lba \in LBAs
    BY OpTypes DEF OwnerInv, TypeInv
  <1>2. formatted /\ mode = "up" /\ laidout
    BY DEF OwnerInv, TypeInv, TypeOK, Control, LaneControl, Modes, WritePCs
  <1>3. LaneInv(k) /\ BlocksPartitioned /\ Pending /\ FlogInv
    BY DEF OwnerInv
  <1>4. CASE pc[k] \notin {"map", "sync"}
    <2>1. free[k] = rt[k].old_map.post /\ rt[k] = Runtime(flog[k])
      BY <1>1, <1>2, <1>3, <1>4 DEF LaneInv, FlogInv, WritePCs
    <2>2. rt[k].old_map = Current(k).old_map
      BY <2>1 DEF Runtime, Current
    <2>3. ~Incomplete(k, map)
      BY <1>1, <1>2, <1>3, <1>4 DEF Pending
    <2> QED BY <1>1, <1>2, <1>4, <2>1, <2>2, <2>3 DEF LaneBlock
  <1>5. CASE pc[k] = "map"
    <2>1. /\ Current(k).lba = op[k].lba /\ Current(k).old_map = entry[k]
          /\ Current(k).new_map = Normal(free[k])
          /\ entry[k] = Resolved(op[k].lba, map[op[k].lba])
      BY <1>3, <1>5 DEF LaneInv
    <2>2. Incomplete(k, map)
      <3> SUFFICES ASSUME ~Incomplete(k, map) PROVE FALSE
        OBVIOUS
      <3>1. LaneBlock(k) = entry[k].post
        BY <2>1 DEF LaneBlock
      <3>2. Post(op[k].lba) = entry[k].post
        BY <2>1 DEF Post
      <3> QED BY <3>1, <3>2, <1>1, <1>2, <1>3 DEF BlocksPartitioned
    <2>3. LaneBlock(k) = free[k]
      BY <2>1, <2>2 DEF LaneBlock, Normal
    <2> QED BY <1>1, <1>2, <1>5, <2>3
  <1>6. CASE pc[k] = "sync"
    <2>1. map[op[k].lba] = Normal(free[k])
      BY <1>3, <1>6 DEF LaneInv, NewEntry
    <2> QED BY <2>1, <1>1, <1>2, <1>6 DEF Post, Resolved, Normal
  <1> QED BY <1>4, <1>5, <1>6

\* The exchange of such a write: its flog is current, it takes over another
\* block, and what the map held is still on media until the map is flushed.
LEMMA WriterExchange ==
  ASSUME OwnerInv, NEW k \in Lanes, NEW x, Writes(k, x)
  PROVE  /\ x \in LBAs /\ formatted /\ mode = "up" /\ k \in FlogLanes
         /\ Current(k).lba = x /\ Current(k).old_map = entry[k]
         /\ Current(k).new_map = Normal(free[k])
         /\ entry[k] # Normal(free[k])
         /\ entry[k] = Resolved(x, pmap[x])
         /\ pc[k] = "map" => map[x] = pmap[x]
         /\ pc[k] = "sync" => map[x] = Normal(free[k]) /\ entry[k].post = LaneBlock(k)
  <1>1. /\ x \in LBAs /\ formatted /\ mode = "up" /\ k \in FlogLanes
        /\ pc[k] # "sync" => free[k] = LaneBlock(k)
        /\ pc[k] = "sync" => free[k] = Post(x)
    BY WriterBlock DEF Writes
  <1>2. LaneInv(k) /\ BlocksPartitioned /\ Flushed /\ Locked /\ TypeOK
    BY DEF OwnerInv, TypeInv
  <1>3. /\ Current(k).lba = x /\ Current(k).old_map = entry[k]
        /\ Current(k).new_map = Normal(free[k])
    BY <1>2 DEF LaneInv, Writes
  <1>4. CASE pc[k] = "map"
    <2>1. entry[k] = Resolved(x, map[x])
      BY <1>2, <1>4 DEF LaneInv, Writes
    <2>2. map[x] = pmap[x]
      <3>1. \A j \in Lanes : pc[j] = "sync" => op[j].lba # x
        BY <1>2, <1>4, CriticalApart DEF Writes, CritPCs
      <3> QED BY <3>1, <1>1, <1>2 DEF Flushed
    <2>3. entry[k].post # free[k]
      BY <2>1, <1>1, <1>2, <1>4 DEF Post, BlocksPartitioned
    <2> QED BY <1>1, <1>3, <1>4, <2>1, <2>2, <2>3 DEF Normal
  <1>5. CASE pc[k] = "sync"
    <2>1. map[x] = Normal(free[k]) /\ entry[k] = Resolved(x, pmap[x])
      BY <1>2, <1>5 DEF LaneInv, Writes, NewEntry
    <2>2. Resolved(x, map[x]) = Normal(free[k])
      BY <2>1 DEF Resolved, Normal
    <2>3. LaneBlock(k) = entry[k].post
      BY <2>2, <1>3 DEF LaneBlock, Incomplete
    <2>4. entry[k].post # free[k]
      BY <2>3, <1>1, <1>2, <1>5 DEF BlocksPartitioned
    <2> QED BY <1>1, <1>3, <1>5, <2>1, <2>3, <2>4 DEF Normal
  <1> QED BY <1>4, <1>5 DEF Writes

\* Any mixture of what the map shows and what was flushed of it lacks only
\* exchanges of such writes.
LEMMA IncompleteWrites ==
  ASSUME OwnerInv, mode = "up", formatted, NEW m, NEW f \in FlogLanes, Incomplete(f, m),
         \A x \in LBAs : m[x] \in {map[x], pmap[x]}
  PROVE  f \in Lanes /\ Writes(f, Current(f).lba)
  <1> DEFINE z == Current(f).lba
  <1>1. z \in LBAs /\ \A k \in Lanes : op[k].lba \in LBAs /\ k \in FlogLanes
    BY CurrentType, OpTypes DEF OwnerInv, TypeInv
  <1>2. BlocksPartitioned /\ Flushed /\ Pending /\ \A k \in Lanes : LaneInv(k)
    BY DEF OwnerInv
  <1>3. ASSUME Incomplete(f, map) PROVE f \in Lanes /\ Writes(f, z)
    <2>1. f \in Lanes /\ pc[f] = "map" /\ op[f].kind = "write"
      BY <1>2, <1>3 DEF Pending
    <2> QED BY <2>1, <1>2 DEF LaneInv, Writes
  <1>4. CASE m[z] = map[z]
    <2>1. Incomplete(f, map)
      BY <1>4 DEF Incomplete
    <2> QED BY <2>1, <1>3
  <1>5. CASE m[z] # map[z]
    <2> SUFFICES ASSUME ~(f \in Lanes /\ Writes(f, z)) PROVE FALSE
      OBVIOUS
    <2>1. m[z] = pmap[z] /\ map[z] # pmap[z]
      BY <1>1, <1>5
    <2>2. PICK j \in Lanes : pc[j] = "sync" /\ op[j].lba = z
      BY <1>1, <1>2, <2>1 DEF Flushed
    <2>3. entry[j] = Resolved(z, pmap[z]) /\ map[z] = NewEntry(j)
      BY <1>2, <2>2 DEF LaneInv
    <2>4. Current(f).old_map = entry[j]
      BY <2>1, <2>3 DEF Incomplete
    <2>5. LaneBlock(f) = entry[j].post
      BY <1>3, <2>4 DEF LaneBlock
    <2>6. op[j].kind \in {"write", "set_zero", "set_error"}
      BY <2>2 DEF OwnerInv, TypeInv, Control, LaneControl
    <2>7. CASE op[j].kind = "write"
      <3>1. Writes(j, z) /\ f # j
        BY <2>2, <2>7 DEF Writes
      <3>2. LaneBlock(j) = entry[j].post
        BY <2>2, <3>1, WriterExchange
      <3> QED BY <2>5, <3>1, <3>2, <1>1, <1>2 DEF BlocksPartitioned
    <2>8. CASE op[j].kind # "write"
      <3>1. map[z].post = entry[j].post /\ map[z].flag # "initial"
        BY <2>3, <2>8 DEF NewEntry
      <3>2. Post(z) = entry[j].post
        BY <3>1 DEF Post, Resolved
      <3> QED BY <2>5, <3>2, <1>1, <1>2 DEF BlocksPartitioned
    <2> QED BY <2>7, <2>8
  <1> QED BY <1>4, <1>5

LEMMA BlankComplete ==
  ASSUME TypeOK, Blank, ~formatted, NEW m, NEW f \in FlogLanes
  PROVE  ~Incomplete(f, m)
  <1>1. flog[f] = [i \in {0, 1} |-> Zflog]
    BY DEF Blank
  <1>2. CurrentIdx(flog[f]) \in {0, 1}
    BY DEF CurrentIdx
  <1>3. Current(f) = Zflog
    BY <1>1, <1>2 DEF Current
  <1>4. Current(f).old_map = Current(f).new_map
    BY <1>3 DEF Zflog
  <1> QED BY <1>4 DEF Incomplete

\* What recovery makes of such a mixture: the exchanges of these writes, and
\* nothing else.
LEMMA RecoveredMix ==
  ASSUME OwnerInv, Blank, mode = "up", NEW m, NEW x \in LBAs,
         \A y \in LBAs : m[y] \in {map[y], pmap[y]}
  PROVE  /\ \A k \in Lanes : Writes(k, x) => Recovered(m)[x] = Normal(free[k])
         /\ (\A k \in Lanes : ~Writes(k, x)) => Recovered(m)[x] = m[x]
  <1> DEFINE inc == {f \in FlogLanes : Incomplete(f, m)}
             c == CHOOSE f \in inc : Current(f).lba = x
  <1>0. Recovered(m)[x] = IF \E f \in inc : Current(f).lba = x THEN Current(c).new_map ELSE m[x]
    BY DEF Recovered
  <1>1. ASSUME NEW f \in inc, Current(f).lba = x PROVE f \in Lanes /\ Writes(f, x)
    <2>1. formatted
      BY BlankComplete DEF OwnerInv, TypeInv
    <2> QED BY <2>1, <1>1, IncompleteWrites
  <1>2. ASSUME \E f \in inc : Current(f).lba = x
        PROVE  c \in Lanes /\ Writes(c, x) /\ Recovered(m)[x] = Normal(free[c])
    <2>1. c \in inc /\ Current(c).lba = x
      BY <1>2
    <2>2. c \in Lanes /\ Writes(c, x)
      BY <2>1, <1>1
    <2>3. Current(c).new_map = Normal(free[c])
      BY <2>2, WriterExchange
    <2> QED BY <2>2, <2>3, <1>0, <1>2
  <1>3. ASSUME NEW k \in Lanes, Writes(k, x) PROVE Recovered(m)[x] = Normal(free[k])
    <2>1. /\ Current(k).lba = x /\ Current(k).old_map = entry[k] /\ k \in FlogLanes
          /\ Current(k).new_map = Normal(free[k]) /\ entry[k] # Normal(free[k])
          /\ entry[k] = Resolved(x, pmap[x])
          /\ pc[k] = "map" => map[x] = pmap[x]
          /\ pc[k] = "sync" => map[x] = Normal(free[k])
      BY <1>3, WriterExchange
    <2>2. CASE m[x] = pmap[x]
      <3>1. Incomplete(k, m)
        BY <2>1, <2>2 DEF Incomplete
      <3>2. k \in inc
        BY <3>1, <2>1
      <3>3. c \in Lanes /\ Writes(c, x) /\ Recovered(m)[x] = Normal(free[c])
        BY <3>2, <2>1, <1>2
      <3>4. c = k
        BY <3>3, <1>3, CriticalApart DEF OwnerInv, TypeInv, Writes, CritPCs
      <3> QED BY <3>3, <3>4
    <2>3. CASE m[x] # pmap[x]
      <3>1. m[x] = map[x] /\ pc[k] = "sync"
        BY <2>1, <2>3, <1>3 DEF Writes
      <3>2. m[x] = Normal(free[k])
        BY <3>1, <2>1
      <3>3. CASE \E f \in inc : Current(f).lba = x
        <4>1. c \in Lanes /\ Writes(c, x) /\ Recovered(m)[x] = Normal(free[c])
          BY <3>3, <1>2
        <4>2. c = k
          BY <4>1, <1>3, CriticalApart DEF OwnerInv, TypeInv, Writes, CritPCs
        <4> QED BY <4>1, <4>2
      <3>4. CASE ~\E f \in inc : Current(f).lba = x
        BY <3>2, <3>4, <1>0
      <3> QED BY <3>3, <3>4
    <2> QED BY <2>2, <2>3
  <1>4. ASSUME \A k \in Lanes : ~Writes(k, x) PROVE Recovered(m)[x] = m[x]
    BY <1>0, <1>1, <1>4
  <1> QED BY <1>3, <1>4

-----------------------------------------------------------------------------
(* The blocks of writes keep their values.                                 *)

\* Only the copy of a write changes data, and only the block of that write.
LEMMA DataStep ==
  ASSUME NEW m \in Lanes, Call(m) \/ LaneStep(m)
  PROVE  \/ data' = data
         \/ pc[m] \in {"w_data", "w_copy"} /\ \E v : data' = [data EXCEPT ![free[m]] = v]
  <1> USE DEF media, arena, locals, bounds, vars
  <1>1. CASE Call(m)
    BY <1>1 DEF Call, btt_read, btt_write, btt_set_zero, btt_set_error, Begin
  <1>2. CASE WriteData(m) \/ DataWritten(m)
    BY <1>2 DEF WriteData, DataWritten, Goto
  <1>3. CASE WriteLayout(m)
    BY <1>3 DEF WriteLayout
  <1>4. CASE \/ CheckLaidout(m) \/ CheckArena(m) \/ ReadData(m) \/ Spin(m) \/ ScanRtt(m) \/ Return(m)
             \/ ReadMap(m) \/ SetRtt(m) \/ ClearRtt(m) \/ ReadMapAgain(m) \/ map_lock(m)
             \/ FlogFirst(m) \/ FlogSecond(m) \/ StoreMap(m) \/ map_unlock(m)
    BY <1>4 DEF CheckLaidout, CheckArena, ReadData, Spin, ScanRtt, Return, ReadMap, SetRtt, ClearRtt,
       ReadMapAgain, map_lock, FlogFirst, FlogSecond, StoreMap, map_unlock
  <1> QED BY <1>1, <1>2, <1>3, <1>4 DEF LaneStep

\* The block a lane is filling is in nobody else's hands.
LEMMA FilledApart ==
  ASSUME OwnerInv, NEW m \in Lanes, pc[m] \in {"w_data", "w_copy"}
  PROVE  /\ free[m] \in Blocks
         /\ \A x \in LBAs : Post(x) # free[m]
         /\ \A k \in Lanes \ {m} :
              op[k].kind = "write" /\ pc[k] \in WritePCs \cup {"lock", "map", "sync"} => free[k] # free[m]
  <1>1. free[m] = LaneBlock(m) /\ formatted /\ m \in FlogLanes
    BY FreeIsOwned
  <1>2. free[m] \in Blocks
    BY DEF OwnerInv, TypeInv, Control, LaneControl, WritePCs
  <1>3. \A x \in LBAs : Post(x) # free[m]
    BY <1>1 DEF OwnerInv, BlocksPartitioned
  <1>4. ASSUME NEW k \in Lanes \ {m}, op[k].kind = "write",
               pc[k] \in WritePCs \cup {"lock", "map", "sync"}
        PROVE  free[k] # free[m]
    <2>1. /\ k \in FlogLanes /\ op[k].lba \in LBAs
          /\ pc[k] # "sync" => free[k] = LaneBlock(k)
          /\ pc[k] = "sync" => free[k] = Post(op[k].lba)
      BY <1>4, WriterBlock
    <2> QED BY <2>1, <1>1, <1>3, <1>4 DEF OwnerInv, BlocksPartitioned
  <1> QED BY <1>2, <1>3, <1>4

LEMMA LaneDataOther ==
  ASSUME OwnerInv, NEW m \in Lanes, Call(m) \/ LaneStep(m), NEW l \in Lanes, l # m, LaneData(l)
  PROVE  LaneData(l)'
  <1>1. pc'[l] = pc[l] /\ op'[l] = op[l] /\ free'[l] = free[l] /\ res'[l] = res[l]
    BY OtherLanes DEF OwnerInv
  <1>2. ASSUME op[l].kind = "write", pc[l] \in DataPCs PROVE data'[free[l]] = data[free[l]]
    <2>1. CASE data' = data
      BY <2>1
    <2>2. CASE pc[m] \in {"w_data", "w_copy"} /\ \E v : data' = [data EXCEPT ![free[m]] = v]
      <3>1. free[l] # free[m]
        BY <1>2, <2>2, FilledApart DEF DataPCs, WritePCs
      <3>2. free[l] \in Blocks /\ data \in [Blocks -> Values \cup {Torn}]
        BY <1>2 DEF OwnerInv, TypeInv, TypeOK, Control, LaneControl, DataPCs, WritePCs
      <3> QED BY <2>2, <3>1, <3>2
    <2> QED BY <2>1, <2>2, DataStep
  <1> QED BY <1>1, <1>2 DEF LaneData

LEMMA LaneDataOwn ==
  ASSUME OwnerInv, NEW l \in Lanes, Call(l) \/ LaneStep(l), LaneData(l), ~arena_error
  PROVE  LaneData(l)'
  <1>t. /\ pc \in [Lanes -> PCs] /\ op \in [Lanes -> Op] /\ free \in [Lanes -> Blocks \cup {NoBlock}]
        /\ res \in [Lanes -> Values \cup {Zero, EIO, Torn}]
        /\ data \in [Blocks -> Values \cup {Torn}]
        /\ LaneControl(l)
    BY DEF OwnerInv, TypeInv, TypeOK, Control
  <1> USE DEF media, arena, locals, bounds, vars, LaneData, DataPCs
  <1>1. CASE Call(l)
    <2>1. PICK o : /\ Begin(l, o) /\ o.kind # "idle"
                   /\ o.kind = "set_zero" => o.val = Zero
                   /\ o.kind = "set_error" => o.val = EIO
      <3>1. PICK x \in LBAs : \/ btt_read(l, x) \/ \E v \in Values : btt_write(l, x, v)
                              \/ btt_set_zero(l, x) \/ btt_set_error(l, x)
        BY <1>1 DEF Call
      <3>2. CASE btt_read(l, x)
        BY <3>2 DEF btt_read
      <3>3. CASE \E v \in Values : btt_write(l, x, v)
        BY <3>3 DEF btt_write
      <3>4. CASE btt_set_zero(l, x)
        BY <3>4 DEF btt_set_zero
      <3>5. CASE btt_set_error(l, x)
        BY <3>5 DEF btt_set_error
      <3> QED BY <3>1, <3>2, <3>3, <3>4, <3>5
    <2> QED BY <2>1, <1>t DEF Begin, Goto
  <1>2. CASE CheckLaidout(l)
    BY <1>2, <1>t DEF CheckLaidout, Goto
  <1>3. CASE CheckArena(l)
    <2>1. pc[l] = "check" /\ op' = op /\ data' = data /\ pc'[l] \in {"scan", "lock"}
          /\ (op[l].kind = "write" => pc'[l] = "scan")
      BY <1>3, <1>t DEF CheckArena, Goto
    <2> QED BY <2>1
  <1>4. CASE WriteLayout(l)
    BY <1>4, <1>t DEF WriteLayout, Goto
  <1>5. CASE ReadMap(l)
    <2>1. pc[l] = "r_map" /\ op' = op /\ data' = data /\ pc'[l] \in {"done", "r_rtt"}
      BY <1>5, <1>t DEF ReadMap, Examine
    <2> QED BY <2>1
  <1>6. CASE ReadMapAgain(l)
    <2>1. pc[l] = "r_again" /\ op' = op /\ data' = data /\ pc'[l] \in {"done", "r_rtt", "r_data"}
      BY <1>6, <1>t DEF ReadMapAgain, Examine
    <2> QED BY <2>1
  <1>7. CASE SetRtt(l) \/ ClearRtt(l) \/ ReadData(l) \/ Spin(l) \/ ScanRtt(l)
    BY <1>7, <1>t DEF SetRtt, ClearRtt, ReadData, Spin, ScanRtt, Goto
  <1>8. CASE WriteData(l)
    BY <1>8, <1>t DEF WriteData, Goto
  <1>9. CASE DataWritten(l)
    <2>1. /\ pc[l] = "w_copy" /\ pc'[l] = "lock" /\ UNCHANGED <<op, free, res>>
          /\ data' = [data EXCEPT ![free[l]] = op[l].val]
      BY <1>9, <1>t DEF DataWritten, Goto
    <2>2. free[l] \in Blocks
      BY <2>1, <1>t DEF LaneControl, WritePCs
    <2> QED BY <2>1, <2>2, <1>t
  <1>10. CASE map_lock(l) \/ FlogFirst(l) \/ FlogSecond(l) \/ StoreMap(l) \/ map_unlock(l)
    <2>1. /\ UNCHANGED <<op, free, data, res>> /\ pc[l] \in DataPCs /\ pc'[l] \in DataPCs \cup {"done"}
      BY <1>10, <1>t DEF map_lock, FlogFirst, FlogSecond, StoreMap, map_unlock, Goto
    <2> QED BY <2>1
  <1>11. CASE Return(l)
    BY <1>11, <1>t DEF Return, Goto, NoOp
  <1> QED BY <1>1, <1>2, <1>3, <1>4, <1>5, <1>6, <1>7, <1>8, <1>9, <1>10, <1>11 DEF LaneStep

\* Without a layout no lane touches the media but to lay it out.
LEMMA BlankStep ==
  ASSUME OwnerInv, Blank, [Next]_vars
  PROVE  Blank'
  <1> USE DEF media, arena, locals, bounds, vars
  <1>1. CASE formatted
    <2>1. formatted'
      <3>1. ASSUME NEW l \in Lanes, Call(l) \/ LaneStep(l) PROVE formatted'
        BY <1>1, <3>1 DEF Call, btt_read, btt_write, btt_set_zero, btt_set_error, Begin,
           LaneStep, CheckLaidout, WriteLayout, CheckArena, ReadMap, SetRtt, ReadMapAgain, ReadData,
           ClearRtt, Spin, ScanRtt, WriteData, DataWritten, map_lock, FlogFirst, FlogSecond,
           StoreMap, map_unlock, Return
      <3> QED BY <1>1, <3>1 DEF Next, Crash, read_flog_pair, btt_init, Finished
    <2> QED BY <2>1 DEF Blank
  <1>2. CASE ~formatted
    <2>0. /\ map = [x \in LBAs |-> InitialEntry] /\ pmap = map
          /\ flog = [f \in FlogLanes |-> [i \in {0, 1} |-> Zflog]]
      BY <1>2 DEF Blank
    <2>1. ASSUME NEW l \in Lanes, Call(l)
          PROVE  UNCHANGED <<formatted, map, pmap, flog>>
      BY <2>1 DEF Call, btt_read, btt_write, btt_set_zero, btt_set_error, Begin
    <2>2. ASSUME NEW l \in Lanes, LaneStep(l)
          PROVE  formatted' \/ UNCHANGED <<formatted, map, pmap, flog>>
      <3>1. mode = "up" => ~laidout
        BY <1>2 DEF OwnerInv, TypeInv, Modes
      <3>2. LaneControl(l)
        BY DEF OwnerInv, TypeInv, Control
      <3>3. CASE FlogFirst(l) \/ FlogSecond(l) \/ StoreMap(l) \/ map_unlock(l)
        BY <3>1, <3>2, <3>3 DEF FlogFirst, FlogSecond, StoreMap, map_unlock, Goto, LaneControl
      <3>4. CASE WriteLayout(l)
        BY <3>4 DEF WriteLayout
      <3>5. CASE \/ CheckLaidout(l) \/ CheckArena(l) \/ ReadData(l) \/ Spin(l) \/ ScanRtt(l) \/ Return(l)
                 \/ ReadMap(l) \/ SetRtt(l) \/ ClearRtt(l) \/ ReadMapAgain(l) \/ map_lock(l)
                 \/ WriteData(l) \/ DataWritten(l)
        BY <3>5 DEF CheckLaidout, CheckArena, ReadData, Spin, ScanRtt, Return, ReadMap, SetRtt,
           ClearRtt, ReadMapAgain, map_lock, WriteData, DataWritten
      <3> QED BY <2>2, <3>3, <3>4, <3>5 DEF LaneStep
    <2>3. CASE Crash
      <3>1. PICK S \in SUBSET LBAs : map' = [x \in LBAs |-> IF x \in S THEN map[x] ELSE pmap[x]]
        BY <2>3 DEF Crash
      <3>2. map' = [x \in LBAs |-> InitialEntry]
        BY <3>1, <2>0
      <3> QED BY <3>2, <2>0, <2>3 DEF Crash, Blank
    <2>4. CASE read_flog_pair
      BY <1>2, <2>4 DEF read_flog_pair
    <2>5. CASE btt_init \/ UNCHANGED vars
      BY <2>0, <2>5 DEF btt_init, Blank
    <2> QED BY <2>0, <2>1, <2>2, <2>3, <2>4, <2>5 DEF Next, Finished, Blank
  <1> QED BY <1>1, <1>2

\* Recovery never meets an ambiguous pair of flogs.
LEMMA NoArenaError == ASSUME OwnerInv, ~arena_error, [Next]_vars PROVE ~arena_error'
  <1> USE DEF vars, media, arena
  <1>1. ASSUME NEW l \in Lanes, Call(l) PROVE ~arena_error'
    BY <1>1 DEF Call, btt_read, btt_write, btt_set_zero, btt_set_error, Begin
  <1>2. ASSUME NEW l \in Lanes, LaneStep(l) PROVE ~arena_error'
    BY <1>2 DEF LaneStep, CheckLaidout, WriteLayout, CheckArena, ReadMap, SetRtt, ReadMapAgain,
         ReadData, ClearRtt, Spin, ScanRtt, WriteData, DataWritten, map_lock, FlogFirst,
         FlogSecond, StoreMap, map_unlock, Return
  <1>3. CASE read_flog_pair
    <2>1. rec \in FlogLanes
      BY <1>3, SizeAssumption DEF OwnerInv, TypeInv, TypeOK, read_flog_pair, FlogLanes
    <2> QED BY <1>3, <2>1 DEF OwnerInv, FlogInv, read_flog_pair
  <1> QED BY <1>1, <1>2, <1>3 DEF Next, Crash, btt_init, Finished

LEMMA DevStart == Init => DevInv
  <1> SUFFICES ASSUME Init PROVE DevInv
    OBVIOUS
  <1>1. ReaderInv
    BY ReaderStart
  <1>2. Blank /\ ~arena_error
    BY DEF Init, Blank
  <1>3. ASSUME NEW l \in Lanes PROVE LaneData(l)
    <2>1. pc[l] = "idle" /\ op[l] = NoOp /\ res[l] = Zero
      BY DEF Init
    <2> QED BY <2>1 DEF LaneData, NoOp, DataPCs
  <1> QED BY <1>1, <1>2, <1>3 DEF DevInv

LEMMA DevStep == DevInv /\ [Next]_vars => DevInv'
  <1> SUFFICES ASSUME DevInv, [Next]_vars PROVE DevInv'
    OBVIOUS
  <1>0. OwnerInv /\ ReaderInv /\ Blank /\ ~arena_error
    BY DEF DevInv, ReaderInv
  <1>1. ReaderInv'
    BY <1>0, ReaderStep
  <1>2. Blank'
    BY <1>0, BlankStep
  <1>3. ~arena_error'
    BY <1>0, NoArenaError
  <1>4. ASSUME NEW l \in Lanes PROVE LaneData(l)'
    <2>0. LaneData(l)
      BY DEF DevInv
    <2>1. ASSUME NEW m \in Lanes, Call(m) \/ LaneStep(m) PROVE LaneData(l)'
      <3>1. CASE m = l
        BY <2>0, <2>1, <3>1, <1>0, LaneDataOwn
      <3>2. CASE m # l
        BY <2>0, <2>1, <3>2, <1>0, LaneDataOther
      <3> QED BY <3>1, <3>2
    <2>2. ASSUME read_flog_pair \/ btt_init \/ UNCHANGED vars PROVE LaneData(l)'
      <3>1. UNCHANGED <<pc, op, res, free, data>>
        BY <2>2 DEF read_flog_pair, btt_init, vars, media, locals
      <3> QED BY <2>0, <3>1 DEF LaneData
    <2>3. CASE Crash
      <3>1. pc'[l] = "idle" /\ op'[l] = NoOp /\ res'[l] = Zero
        BY <2>3 DEF Crash
      <3> QED BY <3>1 DEF LaneData, NoOp, DataPCs
    <2> QED BY <2>1, <2>2, <2>3 DEF Next, Finished
  <1> QED BY <1>1, <1>2, <1>3, <1>4 DEF DevInv

-----------------------------------------------------------------------------
(* The state of the block device.                                          *)

DevBar == Contents(IF mode = "up" THEN map ELSE Recovered(map))
DurBar == Contents(Recovered(pmap))
ReqBar == [l \in Lanes |-> Abs(l)]

\* What a map entry stands for, given the blocks d.
ValOf(d, e) ==
  IF ZeroOrInitial(e) THEN Zero ELSE IF e.flag = "error" THEN EIO ELSE d[e.post]

LEMMA ContentsIs == ASSUME NEW m PROVE Contents(m) = [x \in LBAs |-> ValOf(data, m[x])]
  <1>1. ASSUME NEW x PROVE Contents(m)[x] = Contents(m)[x] /\ ~(ZeroOrInitial(m[x]) /\ m[x].flag = "error")
    BY DEF ZeroOrInitial
  <1> QED BY <1>1 DEF Contents, ValOf

LEMMA ValNormal == ASSUME NEW d, NEW b PROVE ValOf(d, Normal(b)) = d[b]
  BY DEF ValOf, Normal, ZeroOrInitial

\* A reader sees the map ...
LEMMA DevAt == mode = "up" => DevBar = [x \in LBAs |-> ValOf(data, map[x])]
  BY ContentsIs DEF DevBar

LEMMA DevAtNext == mode' = "up" => DevBar' = [x \in LBAs |-> ValOf(data', map'[x])]
  <1>1. (mode = "up" => DevBar = [x \in LBAs |-> ValOf(data, map[x])])'
    BY DevAt, PTL
  <1> QED BY <1>1

\* ... and a power failure would leave what was flushed of it, and the values
\* of the writes whose exchange is in a flog.
DurAre(D) ==
  /\ D = [x \in LBAs |-> D[x]]
  /\ \A x \in LBAs :
       /\ \A k \in Lanes : Writes(k, x) => D[x] = op[k].val
       /\ (\A k \in Lanes : ~Writes(k, x)) => D[x] = ValOf(data, pmap[x])

LEMMA DurAt == DevInv /\ mode = "up" => DurAre(DurBar)
  <1> SUFFICES ASSUME DevInv, mode = "up" PROVE DurAre(DurBar)
    OBVIOUS
  <1>0. OwnerInv /\ Blank
    BY DEF DevInv, ReaderInv
  <1>1. DurBar = [x \in LBAs |-> ValOf(data, Recovered(pmap)[x])]
    BY ContentsIs DEF DurBar
  <1>2. ASSUME NEW x \in LBAs, NEW k \in Lanes, Writes(k, x) PROVE DurBar[x] = op[k].val
    <2>1. Recovered(pmap)[x] = Normal(free[k])
      BY <1>0, <1>2, RecoveredMix
    <2>2. data[free[k]] = op[k].val
      BY <1>2 DEF DevInv, LaneData, Writes, DataPCs
    <2> QED BY <1>1, <2>1, <2>2, ValNormal
  <1>3. ASSUME NEW x \in LBAs, \A k \in Lanes : ~Writes(k, x)
        PROVE  DurBar[x] = ValOf(data, pmap[x])
    <2>1. Recovered(pmap)[x] = pmap[x]
      BY <1>0, <1>3, RecoveredMix
    <2> QED BY <1>1, <2>1
  <1> QED BY <1>1, <1>2, <1>3 DEF DurAre

LEMMA DurAtNext ==
  DevInv' /\ mode' = "up" =>
    /\ DurBar' = [x \in LBAs |-> DurBar'[x]]
    /\ \A x \in LBAs :
         /\ \A k \in Lanes : Writes(k, x)' => DurBar'[x] = op'[k].val
         /\ (\A k \in Lanes : ~Writes(k, x)') => DurBar'[x] = ValOf(data', pmap'[x])
  <1>1. (DevInv /\ mode = "up" => DurAre(DurBar))'
    BY DurAt, PTL
  <1> QED BY <1>1 DEF DurAre

\* An entry that is not flushed yet, unless by a write, names the same block.
LEMMA SameBlock ==
  ASSUME OwnerInv, mode = "up", NEW x \in LBAs, \A k \in Lanes : ~Writes(k, x)
  PROVE  Resolved(x, pmap[x]).post = Post(x)
  <1>1. CASE map[x] = pmap[x]
    BY <1>1 DEF Post
  <1>2. CASE map[x] # pmap[x]
    <2>1. PICK j \in Lanes : pc[j] = "sync" /\ op[j].lba = x
      BY <1>2 DEF OwnerInv, Flushed
    <2>2. map[x] = NewEntry(j) /\ entry[j] = Resolved(x, pmap[x])
      BY <2>1 DEF OwnerInv, LaneInv
    <2>3. op[j].kind # "write"
      BY <2>1 DEF Writes
    <2>4. map[x].post = entry[j].post /\ map[x].flag # "initial"
      BY <2>2, <2>3 DEF NewEntry
    <2> QED BY <2>2, <2>4 DEF Post, Resolved
  <1> QED BY <1>1, <1>2

\* The request of a lane as a function of its operation, its place in the
\* code, the contents of the block it reads and its result.
BReq(k, x, v, s, h, r) ==
  [kind |-> k, lba |-> x, val |-> v, seen |-> s, hard |-> h, res |-> r]
AbsOf(o, p, d, r) ==
  CASE o.kind = "idle" -> BReq("idle", 0, Zero, FALSE, FALSE, Zero)
    [] o.kind = "read" ->
         BReq("read", o.lba, Zero, p \in {"r_data", "r_clear", "done"}, FALSE,
              IF ~(p \in {"r_data", "r_clear", "done"}) THEN Zero
              ELSE IF p = "r_data" THEN d ELSE r)
    [] OTHER ->
         BReq("update", o.lba, o.val, p \in {"sync", "done"},
              p = "done" \/ (o.kind = "write" /\ p \in {"map", "sync"}), Zero)

LEMMA AbsNow == ASSUME NEW l PROVE Abs(l) = AbsOf(op[l], pc[l], data[entry[l].post], res[l])
  BY Zenon DEF Abs, AbsOf, BReq

LEMMA AbsNext == ASSUME NEW l PROVE Abs(l)' = AbsOf(op'[l], pc'[l], data'[entry'[l].post], res'[l])
  BY Zenon DEF Abs, AbsOf, BReq

ReadNew(o)     == BReq("read", o.lba, Zero, FALSE, FALSE, Zero)
ReadSeen(o, r) == BReq("read", o.lba, Zero, TRUE, FALSE, r)
Upd(o, s, h)   == BReq("update", o.lba, o.val, s, h, Zero)
UpdNew(o)      == Upd(o, FALSE, FALSE)
UpdHard(o)     == Upd(o, FALSE, TRUE)
UpdSeen(o)     == Upd(o, TRUE, FALSE)
UpdDone(o)     == Upd(o, TRUE, TRUE)

LEMMA AbsIdle ==
  ASSUME NEW o, NEW p, NEW d, NEW r, o.kind = "idle" PROVE AbsOf(o, p, d, r) = Device!Idle
  BY Zenon DEF AbsOf, BReq, Device!Idle

LEMMA AbsReadNew ==
  ASSUME NEW o, NEW p, NEW d, NEW r, o.kind = "read", p \notin {"r_data", "r_clear", "done"}
  PROVE  AbsOf(o, p, d, r) = ReadNew(o)
  <1>1. o.kind # "idle" /\ (p \in {"r_data", "r_clear", "done"}) = FALSE
    OBVIOUS
  <1> QED BY <1>1, Zenon DEF AbsOf, ReadNew

LEMMA AbsReadData ==
  ASSUME NEW o, NEW d, NEW r, o.kind = "read"
  PROVE  AbsOf(o, "r_data", d, r) = ReadSeen(o, d)
  <1>1. o.kind # "idle" /\ ("r_data" \in {"r_data", "r_clear", "done"}) = TRUE
    OBVIOUS
  <1> QED BY <1>1, Zenon DEF AbsOf, ReadSeen

LEMMA AbsReadSeen ==
  ASSUME NEW o, NEW p, NEW d, NEW r, o.kind = "read", p \in {"r_clear", "done"}
  PROVE  AbsOf(o, p, d, r) = ReadSeen(o, r)
  <1>1. o.kind # "idle" /\ (p \in {"r_data", "r_clear", "done"}) = TRUE /\ p # "r_data"
    OBVIOUS
  <1> QED BY <1>1, Zenon DEF AbsOf, ReadSeen

LEMMA AbsUpd ==
  ASSUME NEW o, NEW p, NEW d, NEW r, o.kind \in {"write", "set_zero", "set_error"}
  PROVE  /\ p \notin {"map", "sync", "done"} => AbsOf(o, p, d, r) = UpdNew(o)
         /\ p = "map" /\ o.kind = "write" => AbsOf(o, p, d, r) = UpdHard(o)
         /\ p = "map" /\ o.kind # "write" => AbsOf(o, p, d, r) = UpdNew(o)
         /\ p = "sync" /\ o.kind = "write" => AbsOf(o, p, d, r) = UpdDone(o)
         /\ p = "sync" /\ o.kind # "write" => AbsOf(o, p, d, r) = UpdSeen(o)
         /\ p = "done" => AbsOf(o, p, d, r) = UpdDone(o)
  <1> DEFINE s == p \in {"sync", "done"}
             h == p = "done" \/ (o.kind = "write" /\ p \in {"map", "sync"})
  <1>1. o.kind # "idle" /\ o.kind # "read"
    OBVIOUS
  <1>2. AbsOf(o, p, d, r) = Upd(o, s, h)
    BY <1>1, Zenon DEF AbsOf, Upd
  <1>3. /\ p \notin {"map", "sync", "done"} => s = FALSE /\ h = FALSE
        /\ p = "map" /\ o.kind = "write" => s = FALSE /\ h = TRUE
        /\ p = "map" /\ o.kind # "write" => s = FALSE /\ h = FALSE
        /\ p = "sync" /\ o.kind = "write" => s = TRUE /\ h = TRUE
        /\ p = "sync" /\ o.kind # "write" => s = TRUE /\ h = FALSE
        /\ p = "done" => s = TRUE /\ h = TRUE
    OBVIOUS
  <1> HIDE DEF s, h
  <1> QED BY <1>2, <1>3, Zenon DEF UpdNew, UpdHard, UpdSeen, UpdDone

\* What a step of the block device does to a request.
PutSeen(f, l, T)    == [f EXCEPT ![l].seen = T]
PutHard(f, l, T)    == [f EXCEPT ![l].hard = T]
PutBoth(f, l, T)    == [f EXCEPT ![l].seen = T, ![l].hard = T]
PutRead(f, l, T, g) == [f EXCEPT ![l].seen = T, ![l].res = g]
SetSeen(f, l)       == PutSeen(f, l, TRUE)
SetHard(f, l)       == PutHard(f, l, TRUE)
SetBoth(f, l)       == PutBoth(f, l, TRUE)
SetRead(f, l, g)    == PutRead(f, l, TRUE, g)

\* An update is shown, made durable, or both at once; a read is answered.
LEMMA ShowReq ==
  ASSUME NEW f, NEW l, NEW o
  PROVE  /\ f[l] = UpdNew(o) => SetSeen(f, l) = [f EXCEPT ![l] = UpdSeen(o)]
         /\ f[l] = UpdHard(o) => SetSeen(f, l) = [f EXCEPT ![l] = UpdDone(o)]
  <1>1. ASSUME NEW s, NEW h, NEW T, f[l] = Upd(o, s, h)
        PROVE  PutSeen(f, l, T) = [f EXCEPT ![l] = Upd(o, T, h)]
    <2>1. [Upd(o, s, h) EXCEPT !.seen = T] = Upd(o, T, h)
      BY DEF Upd, BReq
    <2>2. [f EXCEPT ![l].seen = T] = [f EXCEPT ![l] = [f[l] EXCEPT !.seen = T]]
      OBVIOUS
    <2> QED BY <1>1, <2>1, <2>2, Zenon DEF PutSeen
  <1>2. ASSUME NEW T, NEW F, T = TRUE, F = FALSE
        PROVE  /\ f[l] = UpdNew(o) => SetSeen(f, l) = [f EXCEPT ![l] = UpdSeen(o)]
               /\ f[l] = UpdHard(o) => SetSeen(f, l) = [f EXCEPT ![l] = UpdDone(o)]
    <2>1. f[l] = Upd(o, F, F) => PutSeen(f, l, T) = [f EXCEPT ![l] = Upd(o, T, F)]
      BY ONLY <1>1
    <2>2. f[l] = Upd(o, F, T) => PutSeen(f, l, T) = [f EXCEPT ![l] = Upd(o, T, T)]
      BY ONLY <1>1
    <2> QED BY <1>2, <2>1, <2>2, Zenon DEF UpdNew, UpdSeen, UpdHard, UpdDone, SetSeen
  <1> QED BY <1>2, Zenon

LEMMA HardenReq ==
  ASSUME NEW f, NEW l, NEW o
  PROVE  /\ f[l] = UpdNew(o) => SetHard(f, l) = [f EXCEPT ![l] = UpdHard(o)]
         /\ f[l] = UpdSeen(o) => SetHard(f, l) = [f EXCEPT ![l] = UpdDone(o)]
  <1>1. ASSUME NEW s, NEW h, NEW T, f[l] = Upd(o, s, h)
        PROVE  PutHard(f, l, T) = [f EXCEPT ![l] = Upd(o, s, T)]
    <2>1. [Upd(o, s, h) EXCEPT !.hard = T] = Upd(o, s, T)
      BY DEF Upd, BReq
    <2>2. [f EXCEPT ![l].hard = T] = [f EXCEPT ![l] = [f[l] EXCEPT !.hard = T]]
      OBVIOUS
    <2> QED BY <1>1, <2>1, <2>2, Zenon DEF PutHard
  <1>2. ASSUME NEW T, NEW F, T = TRUE, F = FALSE
        PROVE  /\ f[l] = UpdNew(o) => SetHard(f, l) = [f EXCEPT ![l] = UpdHard(o)]
               /\ f[l] = UpdSeen(o) => SetHard(f, l) = [f EXCEPT ![l] = UpdDone(o)]
    <2>1. f[l] = Upd(o, F, F) => PutHard(f, l, T) = [f EXCEPT ![l] = Upd(o, F, T)]
      BY ONLY <1>1
    <2>2. f[l] = Upd(o, T, F) => PutHard(f, l, T) = [f EXCEPT ![l] = Upd(o, T, T)]
      BY ONLY <1>1
    <2> QED BY <1>2, <2>1, <2>2, Zenon DEF UpdNew, UpdSeen, UpdHard, UpdDone, SetHard
  <1> QED BY <1>2, Zenon

LEMMA SkipReq ==
  ASSUME NEW f, NEW l, NEW o, f[l] = UpdNew(o)
  PROVE  SetBoth(f, l) = [f EXCEPT ![l] = UpdDone(o)]
  <1>1. ASSUME NEW s, NEW h, NEW T, f[l] = Upd(o, s, h)
        PROVE  PutBoth(f, l, T) = [f EXCEPT ![l] = Upd(o, T, T)]
    <2>1. [Upd(o, s, h) EXCEPT !.seen = T] = Upd(o, T, h)
      BY DEF Upd, BReq
    <2>2. [Upd(o, T, h) EXCEPT !.hard = T] = Upd(o, T, T)
      BY DEF Upd, BReq
    <2>3. [f[l] EXCEPT !.seen = T, !.hard = T] = [[f[l] EXCEPT !.seen = T] EXCEPT !.hard = T]
      OBVIOUS
    <2>4. [f EXCEPT ![l].seen = T, ![l].hard = T] = [f EXCEPT ![l] = [f[l] EXCEPT !.seen = T, !.hard = T]]
      OBVIOUS
    <2>5. [f[l] EXCEPT !.seen = T, !.hard = T] = Upd(o, T, T)
      BY <1>1, <2>1, <2>2, <2>3, Zenon
    <2> QED BY <2>4, <2>5, Zenon DEF PutBoth
  <1>2. ASSUME NEW T, NEW F, T = TRUE, F = FALSE
        PROVE  SetBoth(f, l) = [f EXCEPT ![l] = UpdDone(o)]
    <2>1. f[l] = Upd(o, F, F) => PutBoth(f, l, T) = [f EXCEPT ![l] = Upd(o, T, T)]
      BY ONLY <1>1
    <2> QED BY <1>2, <2>1, Zenon DEF UpdNew, UpdDone, SetBoth
  <1> QED BY <1>2, Zenon

LEMMA ReadReq ==
  ASSUME NEW f, NEW l, NEW o, NEW g, f[l] = ReadNew(o)
  PROVE  SetRead(f, l, g) = [f EXCEPT ![l] = ReadSeen(o, g)]
  <1> DEFINE R(s, h, r) == BReq("read", o.lba, Zero, s, h, r)
  <1> SUFFICES ASSUME NEW T, NEW F, T = TRUE, F = FALSE
               PROVE  SetRead(f, l, g) = [f EXCEPT ![l] = ReadSeen(o, g)]
    BY Zenon
  <1>1. f[l] = R(F, F, Zero) /\ ReadSeen(o, g) = R(T, F, g)
    BY Zenon DEF ReadNew, ReadSeen
  <1>2. [R(F, F, Zero) EXCEPT !.seen = T] = R(T, F, Zero)
    BY ONLY TRUE DEF BReq
  <1>3. [R(T, F, Zero) EXCEPT !.res = g] = R(T, F, g)
    BY ONLY TRUE DEF BReq
  <1>4. [f[l] EXCEPT !.seen = T, !.res = g] = [[f[l] EXCEPT !.seen = T] EXCEPT !.res = g]
    BY ONLY TRUE
  <1>5. [f EXCEPT ![l].seen = T, ![l].res = g] = [f EXCEPT ![l] = [f[l] EXCEPT !.seen = T, !.res = g]]
    BY ONLY TRUE
  <1> HIDE DEF R
  <1>6. [f[l] EXCEPT !.seen = T, !.res = g] = R(T, F, g)
    BY <1>1, <1>2, <1>3, <1>4, Zenon
  <1> QED BY <1>1, <1>5, <1>6, Zenon DEF SetRead, PutRead

\* Only a lane that copies a block out depends on what the block holds.
LEMMA AbsSame ==
  ASSUME NEW o, NEW p, NEW d, NEW e, NEW r, p # "r_data"
  PROVE  AbsOf(o, p, d, r) = AbsOf(o, p, e, r)
  BY Zenon DEF AbsOf

\* A step of one lane leaves the requests of the others alone; the block that
\* another lane copies out does not change meanwhile.
LEMMA BarOthers ==
  ASSUME DevInv, NEW m \in Lanes, Call(m) \/ LaneStep(m)
  PROVE  ReqBar' = [ReqBar EXCEPT ![m] = Abs(m)'] /\ ReqBar[m] = Abs(m)
  <1>0. OwnerInv /\ TypeInv /\ TypeOK
    BY DEF DevInv, ReaderInv, OwnerInv, TypeInv
  <1>1. ASSUME NEW l \in Lanes, l # m PROVE Abs(l)' = Abs(l)
    <2>1. pc'[l] = pc[l] /\ op'[l] = op[l] /\ entry'[l] = entry[l] /\ res'[l] = res[l]
      BY <1>0, <1>1, OtherLanes
    <2>2. CASE pc[l] # "r_data"
      BY <2>1, <2>2, AbsNow, AbsNext, AbsSame
    <2>3. CASE pc[l] = "r_data"
      <3>1. data'[entry[l].post] = data[entry[l].post]
        <4>1. CASE data' = data
          BY <4>1
        <4>2. CASE pc[m] \in {"w_data", "w_copy"} /\ \E v : data' = [data EXCEPT ![free[m]] = v]
          <5>1. free[m] # entry[l].post
            BY <2>3, <4>2 DEF DevInv, ReaderInv, Held
          <5>2. entry[l].post \in Blocks /\ data \in [Blocks -> Values \cup {Torn}]
            BY <1>0 DEF TypeOK, Entry
          <5> QED BY <4>2, <5>1, <5>2
        <4> QED BY <4>1, <4>2, DataStep
      <3> QED BY <2>1, <3>1, AbsNow, AbsNext
    <2> QED BY <2>2, <2>3
  <1>2. ReqBar[m] = Abs(m)
    BY DEF ReqBar
  <1>3. ReqBar' = [l \in Lanes |-> Abs(l)']
    BY DEF ReqBar
  <1>4. [ReqBar EXCEPT ![m] = Abs(m)'] = [l \in Lanes |-> IF l = m THEN Abs(m)' ELSE Abs(l)]
    BY DEF ReqBar
  <1> QED BY <1>1, <1>2, <1>3, <1>4

LEMMA BarMedia ==
  ASSUME UNCHANGED <<media, mode>> PROVE DevBar' = DevBar /\ DurBar' = DurBar
  BY DEF media, DevBar, DurBar, Contents, Recovered, Incomplete, Current

LEMMA BarQuiet ==
  ASSUME DevInv, NEW m \in Lanes, Call(m) \/ LaneStep(m), Abs(m)' = Abs(m),
         DevBar' = DevBar, DurBar' = DurBar
  PROVE  UNCHANGED Device!vars
  <1>1. ReqBar' = [ReqBar EXCEPT ![m] = ReqBar[m]]
    BY BarOthers
  <1>2. ReqBar' = ReqBar
    BY <1>1 DEF ReqBar
  <1> QED BY <1>2 DEF Device!vars, DevBar, DurBar, ReqBar

-----------------------------------------------------------------------------
(* The steps of the lanes are steps of the block device.                   *)

LEMMA LaneTyping ==
  ASSUME DevInv, NEW m \in Lanes
  PROVE  /\ pc \in [Lanes -> PCs] /\ op \in [Lanes -> Op] /\ entry \in [Lanes -> Entry]
         /\ free \in [Lanes -> Blocks \cup {NoBlock}]
         /\ res \in [Lanes -> Values \cup {Zero, EIO, Torn}]
         /\ data \in [Blocks -> Values \cup {Torn}]
         /\ op[m].kind \in {"idle", "read", "write", "set_zero", "set_error"}
         /\ op[m].lba \in LBAs /\ m \in FlogLanes /\ LaneControl(m) /\ LaneData(m) /\ LaneInv(m)
  <1>1. TypeOK
    BY DEF DevInv, ReaderInv, OwnerInv, TypeInv
  <1>2. op[m].kind \in {"idle", "read", "write", "set_zero", "set_error"}
    BY <1>1 DEF TypeOK, Op
  <1> QED BY <1>1, <1>2, OpTypes DEF TypeOK, DevInv, ReaderInv, OwnerInv, TypeInv, Control

\* Steps that the application cannot tell from nothing.
LEMMA SimQuiet ==
  ASSUME DevInv, NEW m \in Lanes,
         \/ (CheckLaidout(m) /\ pc'[m] # "done") \/ (WriteLayout(m) /\ laidout)
         \/ CheckArena(m) \/ (ReadMap(m) /\ pc'[m] = "r_rtt")
         \/ SetRtt(m) \/ (ReadMapAgain(m) /\ pc'[m] = "r_rtt") \/ ReadData(m) \/ ClearRtt(m)
         \/ Spin(m) \/ ScanRtt(m) \/ (map_lock(m) /\ pc'[m] # "done")
  PROVE  UNCHANGED Device!vars
  <1>s. LaneStep(m)
    BY DEF LaneStep
  <1>t. /\ pc \in [Lanes -> PCs] /\ op \in [Lanes -> Op] /\ res \in [Lanes -> Values \cup {Zero, EIO, Torn}]
        /\ entry \in [Lanes -> Entry]
        /\ op[m].kind \in {"idle", "read", "write", "set_zero", "set_error"}
        /\ LaneControl(m)
    BY LaneTyping
  <1>e. ~arena_error
    BY DEF DevInv
  <1> USE DEF media, arena, locals, bounds, vars
  <1>1. UNCHANGED <<media, mode>> /\ op' = op
    BY DEF CheckLaidout, WriteLayout, CheckArena, ReadMap, SetRtt, ReadMapAgain, ReadData, ClearRtt,
       Spin, ScanRtt, map_lock, Goto
  <1>2. DevBar' = DevBar /\ DurBar' = DurBar
    BY <1>1, BarMedia
  <1>3. ASSUME op[m].kind = "read", pc[m] \notin {"r_data", "r_clear", "done"},
               pc'[m] \notin {"r_data", "r_clear", "done"}
        PROVE  Abs(m)' = Abs(m)
    BY <1>1, <1>3, AbsNow, AbsNext, AbsReadNew
  <1>4. ASSUME op[m].kind \in {"write", "set_zero", "set_error"}, pc[m] \notin {"map", "sync", "done"},
               \/ pc'[m] \notin {"map", "sync", "done"}
               \/ pc'[m] = "map" /\ op[m].kind # "write"
        PROVE  Abs(m)' = Abs(m)
    <2>1. Abs(m) = UpdNew(op[m])
      BY <1>4, AbsNow, AbsUpd
    <2>2. Abs(m)' = UpdNew(op[m])
      BY <1>1, <1>4, AbsNext, AbsUpd
    <2> QED BY <2>1, <2>2
  <1>5. CASE CheckLaidout(m) /\ pc'[m] # "done"
    <2>1. pc[m] = "begin" /\ pc'[m] \in {"r_map", "check", "layout"}
      BY <1>5, <1>t DEF CheckLaidout, Goto
    <2>2. Abs(m)' = Abs(m)
      BY <2>1, <1>3, <1>4, <1>t DEF LaneControl
    <2> QED BY <2>2, <1>2, <1>s, BarQuiet
  <1>6. CASE (WriteLayout(m) /\ laidout) \/ CheckArena(m) \/ ScanRtt(m) \/ (map_lock(m) /\ pc'[m] # "done")
    <2>1. /\ pc[m] \in {"layout", "check", "scan", "lock"}
          /\ pc'[m] \in {"check", "scan", "lock", "w_data", "flog1", "map"}
          /\ pc'[m] = "map" => op[m].kind # "write"
      BY <1>6, <1>t, <1>e DEF WriteLayout, CheckArena, ScanRtt, map_lock, Goto
    <2>2. op[m].kind \in {"write", "set_zero", "set_error"}
      BY <2>1, <1>t DEF LaneControl, WritePCs
    <2>3. Abs(m)' = Abs(m)
      BY <2>1, <2>2, <1>4
    <2> QED BY <2>3, <1>2, <1>s, BarQuiet
  <1>7. CASE \/ ReadMap(m) /\ pc'[m] = "r_rtt"
             \/ SetRtt(m)
             \/ ReadMapAgain(m) /\ pc'[m] = "r_rtt"
    <2>1. pc[m] \in {"r_map", "r_rtt", "r_again"} /\ pc'[m] \in {"r_rtt", "r_again"}
      BY <1>7, <1>t DEF ReadMap, SetRtt, ReadMapAgain, Goto
    <2>2. op[m].kind = "read"
      BY <2>1, <1>t DEF LaneControl, ReadPCs
    <2>3. Abs(m)' = Abs(m)
      BY <2>1, <2>2, <1>3
    <2> QED BY <2>3, <1>2, <1>s, BarQuiet
  <1>8. CASE ReadData(m)
    <2>1. pc[m] = "r_data" /\ pc'[m] = "r_clear" /\ res'[m] = data[entry[m].post]
      BY <1>8, <1>t DEF ReadData, Goto
    <2>2. op[m].kind = "read"
      BY <2>1, <1>t DEF LaneControl, ReadPCs
    <2>3. Abs(m) = ReadSeen(op[m], data[entry[m].post])
      BY <2>1, <2>2, AbsNow, AbsReadData
    <2>4. Abs(m)' = ReadSeen(op[m], data[entry[m].post])
      BY <2>1, <2>2, <1>1, AbsNext, AbsReadSeen
    <2> QED BY <2>3, <2>4, <1>2, <1>s, BarQuiet
  <1>9. CASE ClearRtt(m)
    <2>1. pc[m] = "r_clear" /\ pc'[m] = "done" /\ res' = res
      BY <1>9, <1>t DEF ClearRtt, Goto
    <2>2. op[m].kind = "read"
      BY <2>1, <1>t DEF LaneControl, ReadPCs
    <2>3. Abs(m) = ReadSeen(op[m], res[m])
      BY <2>1, <2>2, AbsNow, AbsReadSeen
    <2>4. Abs(m)' = ReadSeen(op[m], res[m])
      BY <2>1, <2>2, <1>1, AbsNext, AbsReadSeen
    <2> QED BY <2>3, <2>4, <1>2, <1>s, BarQuiet
  <1>10. CASE Spin(m)
    <2>1. UNCHANGED vars
      BY <1>10 DEF Spin
    <2>2. Abs(m)' = Abs(m)
      BY <2>1 DEF Abs
    <2> QED BY <2>2, <1>2, <1>s, BarQuiet
  <1> QED BY <1>5, <1>6, <1>7, <1>8, <1>9, <1>10

\* A read whose request changes from not answered to answered by what the
\* device holds observes it.
LEMMA Observes ==
  ASSUME DevInv, NEW m \in Lanes, LaneStep(m), UNCHANGED <<media, mode, op>>,
         op[m].kind = "read", NEW g, DevBar[op[m].lba] = g,
         Abs(m) = ReadNew(op[m]), Abs(m)' = ReadSeen(op[m], g)
  PROVE  Device!Observe(m)
  <1>1. DevBar' = DevBar /\ DurBar' = DurBar
    BY BarMedia
  <1>2. ReqBar' = [ReqBar EXCEPT ![m] = ReadSeen(op[m], g)] /\ ReqBar[m] = ReadNew(op[m])
    BY BarOthers
  <1>4. SetRead(ReqBar, m, g) = [ReqBar EXCEPT ![m] = ReadSeen(op[m], g)]
    <2>1. ASSUME NEW f, NEW o, f = ReqBar, o = op[m]
          PROVE  SetRead(f, m, g) = [f EXCEPT ![m] = ReadSeen(o, g)]
      <3>1. f[m] = ReadNew(o)
        BY <1>2, <2>1, Zenon
      <3> QED BY ONLY <3>1, ReadReq
    <2> QED BY <2>1, Zenon
  <1>5. ReqBar' = [ReqBar EXCEPT ![m].seen = TRUE, ![m].res = g]
    BY <1>2, <1>4, Zenon DEF SetRead, PutRead
  <1>6. ReqBar[m].kind = "read" /\ ReqBar[m].seen = FALSE /\ ReqBar[m].lba = op[m].lba
    BY <1>2 DEF ReadNew, BReq
  <1>7. DevBar[ReqBar[m].lba] = g
    BY <1>6
  <1> QED BY <1>1, <1>5, <1>6, <1>7 DEF Device!Observe, DevBar, DurBar, ReqBar

LEMMA SimObserve ==
  ASSUME DevInv, NEW m \in Lanes, op[m].kind = "read",
         \/ CheckLaidout(m) /\ pc'[m] = "done"
         \/ ReadMap(m) /\ pc'[m] # "r_rtt"
         \/ ReadMapAgain(m) /\ pc'[m] # "r_rtt"
  PROVE  Device!Observe(m)
  <1>s. LaneStep(m)
    BY DEF LaneStep
  <1>t. /\ pc \in [Lanes -> PCs] /\ res \in [Lanes -> Values \cup {Zero, EIO, Torn}]
        /\ entry \in [Lanes -> Entry] /\ op[m].lba \in LBAs
        /\ LaneControl(m) /\ LaneData(m)
    BY LaneTyping
  <1> DEFINE x == op[m].lba
  <1> USE DEF media, arena, locals, bounds, vars
  <1>1. UNCHANGED <<media, mode>> /\ op' = op /\ mode = "up"
        /\ pc[m] \in {"begin", "r_map", "r_again"}
    BY DEF CheckLaidout, ReadMap, ReadMapAgain, Goto
  <1>2. DevBar[x] = ValOf(data, map[x])
    BY <1>1, <1>t, DevAt
  <1>3. Abs(m) = ReadNew(op[m])
    BY <1>1, AbsNow, AbsReadNew
  <1>4. ASSUME pc'[m] = "done", res'[m] = ValOf(data, map[x]) PROVE Device!Observe(m)
    <2>1. Abs(m)' = ReadSeen(op[m], ValOf(data, map[x]))
      BY <1>1, <1>4, AbsNext, AbsReadSeen
    <2> QED BY <2>1, <1>1, <1>2, <1>3, <1>s, Observes
  <1>5. CASE CheckLaidout(m)
    <2>1. pc'[m] = "done" /\ res' = res /\ pc[m] = "begin" /\ ~laidout
      BY <1>1, <1>5, <1>t DEF CheckLaidout, ReadMap, ReadMapAgain, Goto
    <2>2. ~formatted
      BY <1>1, <2>1 DEF DevInv, ReaderInv, OwnerInv, TypeInv, Modes
    <2>3. map[x] = InitialEntry
      BY <2>2, <1>t DEF DevInv, Blank
    <2>4. ValOf(data, map[x]) = Zero
      BY <2>3 DEF ValOf, InitialEntry, ZeroOrInitial
    <2>5. res[m] = Zero
      BY <2>1, <1>t DEF LaneData
    <2> QED BY <2>1, <2>4, <2>5, <1>4
  <1>6. CASE Examine(m, map[x])
    <2>1. map[x].flag \in Flags
      BY <1>t DEF DevInv, ReaderInv, OwnerInv, TypeInv, TypeOK, Entry
    <2>2. pc'[m] \in {"done", "r_rtt"}
      BY <1>6, <1>t DEF Examine
    <2>3. pc'[m] = "done" => res'[m] = ValOf(data, map[x])
      BY <1>6, <1>t, <2>1 DEF Examine, ValOf, ZeroOrInitial
    <2>4. CASE pc'[m] = "done"
      BY <2>4, <2>3, <1>4
    <2>5. CASE pc'[m] = "r_rtt"
      BY <2>5, <1>t DEF CheckLaidout, ReadMap, ReadMapAgain, Goto
    <2> QED BY <2>2, <2>4, <2>5
  <1>7. CASE ReadMap(m)
    BY <1>6, <1>7 DEF ReadMap
  <1>8. CASE ReadMapAgain(m) /\ map[x] = entry[m]
    <2>1. pc'[m] = "r_data" /\ entry' = entry /\ pc[m] = "r_again"
      BY <1>8, <1>t DEF ReadMapAgain
    <2>2. entry[m].flag = "normal"
      BY <2>1 DEF DevInv, ReaderInv, LaneReads
    <2>3. ValOf(data, map[x]) = data[entry[m].post]
      BY <1>8, <2>2 DEF ValOf, ZeroOrInitial
    <2>4. Abs(m)' = ReadSeen(op[m], data[entry[m].post])
      BY <2>1, <1>1, AbsNext, AbsReadData
    <2> QED BY <2>3, <2>4, <1>1, <1>2, <1>3, <1>s, Observes
  <1>9. CASE ReadMapAgain(m) /\ map[x] # entry[m]
    BY <1>6, <1>9 DEF ReadMapAgain
  <1> QED BY <1>5, <1>7, <1>8, <1>9

\* How the request of an update and the contents of the device change when it
\* is shown, made durable, or found superfluous.
LEMMA Shows ==
  ASSUME DevInv, NEW m \in Lanes, LaneStep(m),
         \/ Abs(m) = UpdNew(op[m]) /\ Abs(m)' = UpdSeen(op[m])
         \/ Abs(m) = UpdHard(op[m]) /\ Abs(m)' = UpdDone(op[m]),
         DurBar' = DurBar, DevBar' = [DevBar EXCEPT ![op[m].lba] = op[m].val]
  PROVE  Device!Update(m)
  <1>1. ReqBar' = [ReqBar EXCEPT ![m] = Abs(m)'] /\ ReqBar[m] = Abs(m)
    BY BarOthers
  <1>2. SetSeen(ReqBar, m) = [ReqBar EXCEPT ![m] = Abs(m)']
    <2>1. ASSUME NEW f, NEW o, NEW a, f = ReqBar, o = op[m], a = Abs(m)'
          PROVE  SetSeen(f, m) = [f EXCEPT ![m] = a]
      <3>1. \/ f[m] = UpdNew(o) /\ a = UpdSeen(o)
            \/ f[m] = UpdHard(o) /\ a = UpdDone(o)
        BY <1>1, <2>1, Zenon
      <3> QED BY ONLY <3>1, ShowReq
    <2> QED BY <2>1, Zenon
  <1>3. ReqBar' = [ReqBar EXCEPT ![m].seen = TRUE]
    BY <1>1, <1>2, Zenon DEF SetSeen, PutSeen
  <1>4. /\ ReqBar[m].kind = "update" /\ ReqBar[m].seen = FALSE
        /\ ReqBar[m].lba = op[m].lba /\ ReqBar[m].val = op[m].val
    BY <1>1 DEF UpdNew, UpdHard, Upd, BReq
  <1>5. DevBar' = [DevBar EXCEPT ![ReqBar[m].lba] = ReqBar[m].val]
    BY <1>4
  <1>6. Device!Show(m)
    BY <1>3, <1>4, <1>5 DEF Device!Show, DevBar, DurBar, ReqBar
  <1> QED BY <1>4, <1>6 DEF Device!Update, ReqBar

LEMMA Hardens ==
  ASSUME DevInv, NEW m \in Lanes, LaneStep(m),
         \/ Abs(m) = UpdNew(op[m]) /\ Abs(m)' = UpdHard(op[m])
         \/ Abs(m) = UpdSeen(op[m]) /\ Abs(m)' = UpdDone(op[m]),
         DevBar' = DevBar, DurBar' = [DurBar EXCEPT ![op[m].lba] = op[m].val]
  PROVE  Device!Update(m)
  <1>1. ReqBar' = [ReqBar EXCEPT ![m] = Abs(m)'] /\ ReqBar[m] = Abs(m)
    BY BarOthers
  <1>2. SetHard(ReqBar, m) = [ReqBar EXCEPT ![m] = Abs(m)']
    <2>1. ASSUME NEW f, NEW o, NEW a, f = ReqBar, o = op[m], a = Abs(m)'
          PROVE  SetHard(f, m) = [f EXCEPT ![m] = a]
      <3>1. \/ f[m] = UpdNew(o) /\ a = UpdHard(o)
            \/ f[m] = UpdSeen(o) /\ a = UpdDone(o)
        BY <1>1, <2>1, Zenon
      <3> QED BY ONLY <3>1, HardenReq
    <2> QED BY <2>1, Zenon
  <1>3. ReqBar' = [ReqBar EXCEPT ![m].hard = TRUE]
    BY <1>1, <1>2, Zenon DEF SetHard, PutHard
  <1>4. /\ ReqBar[m].kind = "update" /\ ReqBar[m].hard = FALSE
        /\ ReqBar[m].lba = op[m].lba /\ ReqBar[m].val = op[m].val
    BY <1>1 DEF UpdNew, UpdSeen, Upd, BReq
  <1>5. DurBar' = [DurBar EXCEPT ![ReqBar[m].lba] = ReqBar[m].val]
    BY <1>4
  <1>6. Device!Harden(m)
    BY <1>3, <1>4, <1>5 DEF Device!Harden, DevBar, DurBar, ReqBar
  <1> QED BY <1>4, <1>6 DEF Device!Update, ReqBar

LEMMA Skips ==
  ASSUME DevInv, NEW m \in Lanes, LaneStep(m),
         Abs(m) = UpdNew(op[m]), Abs(m)' = UpdDone(op[m]),
         DevBar' = DevBar, DurBar' = DurBar,
         DevBar[op[m].lba] = op[m].val, DurBar[op[m].lba] = op[m].val
  PROVE  Device!Update(m)
  <1>1. ReqBar' = [ReqBar EXCEPT ![m] = UpdDone(op[m])] /\ ReqBar[m] = UpdNew(op[m])
    BY BarOthers
  <1>2. SetBoth(ReqBar, m) = [ReqBar EXCEPT ![m] = UpdDone(op[m])]
    <2>1. ASSUME NEW f, NEW o, f = ReqBar, o = op[m]
          PROVE  SetBoth(f, m) = [f EXCEPT ![m] = UpdDone(o)]
      <3>1. f[m] = UpdNew(o)
        BY <1>1, <2>1, Zenon
      <3> QED BY ONLY <3>1, SkipReq
    <2> QED BY <2>1, Zenon
  <1>3. ReqBar' = [ReqBar EXCEPT ![m].seen = TRUE, ![m].hard = TRUE]
    BY <1>1, <1>2, Zenon DEF SetBoth, PutBoth
  <1>4. /\ ReqBar[m].kind = "update" /\ ReqBar[m].seen = FALSE /\ ReqBar[m].hard = FALSE
        /\ ReqBar[m].lba = op[m].lba /\ ReqBar[m].val = op[m].val
    BY <1>1 DEF UpdNew, Upd, BReq
  <1>5. DevBar[ReqBar[m].lba] = ReqBar[m].val /\ DurBar[ReqBar[m].lba] = ReqBar[m].val
    BY <1>4
  <1>6. Device!Skip(m)
    BY <1>3, <1>4, <1>5 DEF Device!Skip, DevBar, DurBar, ReqBar
  <1> QED BY <1>4, <1>6 DEF Device!Update, ReqBar

\* Setting zero where every block reads as zeros, or on a block whose entry
\* says zero under its lock, changes nothing.
LEMMA SimSkip ==
  ASSUME DevInv, NEW m \in Lanes, pc'[m] = "done",
         (CheckLaidout(m) /\ op[m].kind # "read") \/ map_lock(m)
  PROVE  Device!Update(m)
  <1>s. LaneStep(m)
    BY DEF LaneStep
  <1>t. /\ pc \in [Lanes -> PCs] /\ op[m].lba \in LBAs /\ LaneControl(m) /\ LaneData(m)
        /\ op[m].kind \in {"idle", "read", "write", "set_zero", "set_error"}
    BY LaneTyping
  <1>0. OwnerInv /\ TypeOK
    BY DEF DevInv, ReaderInv, OwnerInv, TypeInv
  <1> DEFINE x == op[m].lba
  <1> USE DEF media, arena, locals, bounds, vars
  <1>1. UNCHANGED <<media, mode>> /\ op' = op /\ mode = "up" /\ pc[m] \in {"begin", "lock"}
    BY DEF CheckLaidout, map_lock, Goto
  <1>2. op[m].kind = "set_zero"
    BY <1>t DEF CheckLaidout, map_lock, Goto, LaneControl
  <1>3. op[m].val = Zero
    BY <1>2, <1>t DEF LaneData
  <1>4. Abs(m) = UpdNew(op[m])
    BY <1>1, <1>2, AbsNow, AbsUpd
  <1>5. Abs(m)' = UpdDone(op[m])
    BY <1>1, <1>2, AbsNext, AbsUpd
  <1>6. ZeroOrInitial(map[x]) /\ pmap[x] = map[x] /\ \A k \in Lanes : ~Writes(k, x)
    <2>1. CASE CheckLaidout(m)
      <3>1. ~laidout /\ ~formatted
        BY <2>1, <1>t, <1>0, <1>1 DEF CheckLaidout, Goto, OwnerInv, TypeInv, Modes
      <3>2. map[x] = InitialEntry /\ pmap = map
        BY <3>1, <1>t DEF DevInv, Blank
      <3>3. \A k \in Lanes : ~Writes(k, x)
        BY <3>1, <1>0 DEF Writes, OwnerInv, TypeInv, Control, LaneControl
      <3> QED BY <3>2, <3>3 DEF InitialEntry, ZeroOrInitial
    <2>2. CASE map_lock(m)
      <3>1. map_locks[map_lock_num(x)] = NoLane /\ ZeroOrInitial(Resolved(x, map[x]))
        BY <2>2, <1>t DEF map_lock, Goto
      <3>2. ZeroOrInitial(map[x])
        BY <3>1 DEF ZeroOrInitial, Resolved, Normal
      <3>3. \A k \in Lanes : pc[k] \in CritPCs => op[k].lba # x
        <4>1. ASSUME NEW k \in Lanes, pc[k] \in CritPCs, op[k].lba = x PROVE FALSE
          <5>1. map_locks[map_lock_num(x)] = k
            BY <4>1, <1>0 DEF OwnerInv, Locked
          <5> QED BY <5>1, <3>1, SizeAssumption DEF Lanes, NoLane
        <4> QED BY <4>1
      <3>4. \A k \in Lanes : ~Writes(k, x)
        BY <3>3 DEF Writes, CritPCs
      <3>5. pmap[x] = map[x]
        BY <3>3, <1>0, <1>t DEF OwnerInv, Flushed, CritPCs
      <3> QED BY <3>2, <3>4, <3>5
    <2> QED BY <2>1, <2>2
  <1>7. ValOf(data, map[x]) = Zero /\ ValOf(data, pmap[x]) = Zero
    BY <1>6 DEF ValOf
  <1>8. DevBar[x] = Zero
    BY <1>1, <1>7, <1>t, DevAt
  <1>9. DurBar[x] = Zero
    BY <1>1, <1>6, <1>7, <1>t, DurAt DEF DurAre
  <1>10. DevBar' = DevBar /\ DurBar' = DurBar
    BY <1>1, BarMedia
  <1> QED BY <1>3, <1>4, <1>5, <1>8, <1>9, <1>10, <1>s, Skips

\* The calls and their returns.
LEMMA SimReturn ==
  ASSUME DevInv, NEW m \in Lanes, Return(m)
  PROVE  Device!Return(m)
  <1>s. LaneStep(m)
    BY DEF LaneStep
  <1>t. /\ pc \in [Lanes -> PCs] /\ op \in [Lanes -> Op] /\ LaneData(m)
        /\ op[m].kind \in {"idle", "read", "write", "set_zero", "set_error"}
    BY LaneTyping
  <1>1. UNCHANGED <<media, mode>> /\ op'[m] = NoOp /\ pc[m] = "done"
    BY <1>t DEF Return, Goto, arena
  <1>2. DevBar' = DevBar /\ DurBar' = DurBar
    BY <1>1, BarMedia
  <1>3. op'[m].kind = "idle"
    BY <1>1 DEF NoOp
  <1>4. Abs(m)' = Device!Idle
    BY <1>3, AbsNext, AbsIdle
  <1>5. ReqBar' = [ReqBar EXCEPT ![m] = Device!Idle] /\ ReqBar[m] = Abs(m)
    BY <1>4, <1>s, BarOthers
  <1>6. Abs(m) = ReadSeen(op[m], res[m]) \/ Abs(m) = UpdDone(op[m])
    BY <1>1, <1>t, AbsNow, AbsReadSeen, AbsUpd DEF LaneData
  <1>7. /\ ReqBar[m].kind # "idle" /\ ReqBar[m].seen = TRUE
        /\ ReqBar[m].kind = "update" => ReqBar[m].hard = TRUE
    <2>1. CASE Abs(m) = ReadSeen(op[m], res[m])
      BY <2>1, <1>5 DEF ReadSeen, BReq
    <2>2. CASE Abs(m) = UpdDone(op[m])
      BY <2>2, <1>5 DEF UpdDone, Upd, BReq
    <2> QED BY <1>6, <2>1, <2>2
  <1> QED BY <1>2, <1>5, <1>7 DEF Device!Return, DevBar, DurBar, ReqBar

LEMMA SimCall ==
  ASSUME DevInv, NEW m \in Lanes, Call(m)
  PROVE  Device!Call(m)
  <1>1. PICK x \in LBAs : \/ btt_read(m, x) \/ \E v \in Values : btt_write(m, x, v)
                          \/ btt_set_zero(m, x) \/ btt_set_error(m, x)
    BY DEF Call
  <1>t. /\ pc \in [Lanes -> PCs] /\ op \in [Lanes -> Op] /\ LaneControl(m)
    BY LaneTyping
  <1>2. ASSUME NEW o, Begin(m, o), o.lba = x,
               \/ o.kind = "read"
               \/ o.kind \in {"write", "set_zero", "set_error"} /\ o.val \in Values \cup {Zero, EIO}
        PROVE  Device!Call(m)
    <2>1. UNCHANGED <<media, mode>> /\ op'[m] = o /\ pc[m] = "idle" /\ pc'[m] = "begin"
      BY <1>2, <1>t DEF Begin, Goto, arena
    <2>2. DevBar' = DevBar /\ DurBar' = DurBar
      BY <2>1, BarMedia
    <2>3. Abs(m) = Device!Idle
      <3>1. op[m].kind = "idle"
        BY <2>1, <1>t DEF LaneControl, NoOp
      <3> QED BY <3>1, AbsNow, AbsIdle
    <2>4. ReqBar' = [ReqBar EXCEPT ![m] = Abs(m)'] /\ ReqBar[m] = Device!Idle
      BY <2>3, BarOthers
    <2>5. ReqBar[m].kind = "idle"
      BY <2>4 DEF Device!Idle
    <2>6. PICK kv \in {<<"read", Zero>>} \cup {<<"update", v>> : v \in Values \cup {Zero, EIO}} :
            Abs(m)' = BReq(kv[1], x, kv[2], FALSE, FALSE, Zero)
      <3>1. CASE o.kind = "read"
        <4>1. Abs(m)' = ReadNew(o)
          BY <2>1, <3>1, AbsNext, AbsReadNew
        <4>2. <<"read", Zero>>[1] = "read" /\ <<"read", Zero>>[2] = Zero
          OBVIOUS
        <4>3. Abs(m)' = BReq(<<"read", Zero>>[1], x, <<"read", Zero>>[2], FALSE, FALSE, Zero)
          BY <4>1, <4>2, <1>2, Zenon DEF ReadNew
        <4> QED BY <4>3, Zenon
      <3>2. CASE o.kind \in {"write", "set_zero", "set_error"} /\ o.val \in Values \cup {Zero, EIO}
        <4>1. Abs(m)' = UpdNew(o)
          BY <2>1, <3>2, AbsNext, AbsUpd
        <4>2. ASSUME NEW v, v = o.val
              PROVE  <<"update", v>>[1] = "update" /\ <<"update", v>>[2] = v
          OBVIOUS
        <4>3. Abs(m)' = BReq(<<"update", o.val>>[1], x, <<"update", o.val>>[2], FALSE, FALSE, Zero)
          BY <4>1, <4>2, <1>2, Zenon DEF UpdNew, Upd
        <4> QED BY <4>3, <3>2, Zenon
      <3> QED BY <1>2, <3>1, <3>2
    <2>7. ReqBar' = [ReqBar EXCEPT ![m] = BReq(kv[1], x, kv[2], FALSE, FALSE, Zero)]
      BY <2>4, <2>6, Zenon
    <2>8. ReqBar' = [ReqBar EXCEPT ![m] = [kind |-> kv[1], lba |-> x, val |-> kv[2], seen |-> FALSE,
                                           hard |-> FALSE, res |-> Zero]]
      BY <2>7, Zenon DEF BReq
    <2>9. Device!Contents = Values \cup {Zero, EIO}
      BY DEF Device!Contents
    <2>10. \E y \in LBAs, w \in {<<"read", Zero>>} \cup {<<"update", v>> : v \in Device!Contents} :
              ReqBar' = [ReqBar EXCEPT ![m] = [kind |-> w[1], lba |-> y, val |-> w[2], seen |-> FALSE,
                                               hard |-> FALSE, res |-> Zero]]
      BY <2>8, <2>9, Zenon
    <2> QED BY <2>2, <2>5, <2>10 DEF Device!Call, DevBar, DurBar, ReqBar
  <1>3. CASE btt_read(m, x)
    BY <1>2, <1>3 DEF btt_read
  <1>4. CASE \E v \in Values : btt_write(m, x, v)
    BY <1>2, <1>4 DEF btt_write
  <1>5. CASE btt_set_zero(m, x)
    BY <1>2, <1>5 DEF btt_set_zero
  <1>6. CASE btt_set_error(m, x)
    BY <1>2, <1>6 DEF btt_set_error
  <1> QED BY <1>1, <1>3, <1>4, <1>5, <1>6

\* Filling a free block changes nothing that anyone can see.
LEMMA SimData ==
  ASSUME DevInv, DevInv', NEW m \in Lanes, WriteData(m) \/ DataWritten(m)
  PROVE  UNCHANGED Device!vars
  <1>s. LaneStep(m)
    BY DEF LaneStep
  <1>t. /\ pc \in [Lanes -> PCs] /\ data \in [Blocks -> Values \cup {Torn}] /\ LaneControl(m)
    BY LaneTyping
  <1>0. OwnerInv /\ TypeOK
    BY DEF DevInv, ReaderInv, OwnerInv, TypeInv
  <1>1. /\ UNCHANGED <<map, pmap, mode, op>> /\ mode = "up"
        /\ pc[m] \in {"w_data", "w_copy"} /\ pc'[m] \in {"w_copy", "lock"}
        /\ pc' = [pc EXCEPT ![m] = pc'[m]]
        /\ \E v : data' = [data EXCEPT ![free[m]] = v]
    BY <1>t DEF WriteData, DataWritten, Goto, arena, locals
  <1>2. op[m].kind = "write"
    BY <1>1, <1>t DEF LaneControl, WritePCs
  <1>3. Abs(m)' = Abs(m)
    BY <1>1, <1>2, AbsNow, AbsNext, AbsUpd
  <1>4. free[m] \in Blocks /\ \A x \in LBAs : Post(x) # free[m]
    BY <1>0, <1>1, FilledApart
  <1>5. ASSUME NEW x \in LBAs, NEW e \in Entry, Resolved(x, e).post = Post(x)
        PROVE  ValOf(data', e) = ValOf(data, e)
    <2>1. CASE e.flag = "normal"
      <3>1. e.post # free[m] /\ e.post \in Blocks
        BY <2>1, <1>4, <1>5 DEF Resolved, Entry
      <3>2. data'[e.post] = data[e.post]
        BY <3>1, <1>1, <1>4, <1>t
      <3> QED BY <2>1, <3>2 DEF ValOf, ZeroOrInitial
    <2>2. CASE e.flag # "normal"
      <3>1. e.flag \in {"initial", "error", "zero"}
        BY <2>2 DEF Entry, Flags
      <3> QED BY <3>1 DEF ValOf, ZeroOrInitial
    <2> QED BY <2>1, <2>2
  <1>6. DevBar' = DevBar
    <2>1. ASSUME NEW x \in LBAs PROVE ValOf(data', map'[x]) = ValOf(data, map[x])
      <3>1. map[x] \in Entry /\ Resolved(x, map[x]).post = Post(x)
        BY <1>0 DEF TypeOK, Post
      <3> QED BY <3>1, <1>1, <1>5
    <2> QED BY <2>1, <1>1, DevAt, DevAtNext
  <1>7. DurBar' = DurBar
    <2>1. ASSUME NEW x \in LBAs PROVE DurBar'[x] = DurBar[x]
      <3>1. \A k \in Lanes : Writes(k, x)' <=> Writes(k, x)
        BY <1>1, <1>t DEF Writes
      <3>2. CASE \E k \in Lanes : Writes(k, x)
        BY <3>1, <3>2, <1>1, DurAt, DurAtNext DEF DurAre
      <3>3. CASE \A k \in Lanes : ~Writes(k, x)
        <4>1. pmap[x] \in Entry /\ Resolved(x, pmap[x]).post = Post(x)
          BY <3>3, <1>0, <1>1, SameBlock DEF TypeOK
        <4>2. ValOf(data', pmap'[x]) = ValOf(data, pmap[x])
          BY <4>1, <1>1, <1>5
        <4>3. mode = "up" /\ mode' = "up"
          BY <1>1
        <4>4. DurBar[x] = ValOf(data, pmap[x])
          BY <3>3, <4>3, DurAt DEF DurAre
        <4>5. DurBar'[x] = ValOf(data', pmap'[x])
          BY <3>1, <3>3, <4>3, DurAtNext
        <4> QED BY <4>2, <4>4, <4>5
      <3> QED BY <3>2, <3>3
    <2> QED BY <2>1, <1>1, DurAt, DurAtNext DEF DurAre
  <1> QED BY <1>3, <1>6, <1>7, <1>s, BarQuiet

\* Laying out an arena that reads as zeros leaves it so.
LEMMA SimLayout ==
  ASSUME DevInv, DevInv', NEW m \in Lanes, WriteLayout(m), ~laidout
  PROVE  UNCHANGED Device!vars
  <1>s. LaneStep(m)
    BY DEF LaneStep
  <1>t. pc \in [Lanes -> PCs] /\ LaneControl(m)
    BY LaneTyping
  <1>1. /\ UNCHANGED <<data, mode, op>> /\ mode = "up" /\ pc[m] = "layout"
        /\ pc' = [pc EXCEPT ![m] = "check"]
        /\ map' = [x \in LBAs |-> InitialEntry] /\ pmap' = map'
    BY DEF WriteLayout, Goto, locals
  <1>2. ~formatted
    BY <1>1 DEF DevInv, ReaderInv, OwnerInv, TypeInv, Modes
  <1>3. map = [x \in LBAs |-> InitialEntry] /\ pmap = map
    BY <1>2 DEF DevInv, Blank
  <1>4. op[m].kind \in {"write", "set_zero", "set_error"}
    BY <1>1, <1>t DEF LaneControl
  <1>5. Abs(m)' = Abs(m)
    BY <1>1, <1>4, <1>t, AbsNow, AbsNext, AbsUpd
  <1>6. DevBar' = DevBar
    BY <1>1, <1>3, DevAt, DevAtNext
  <1>7. DurBar' = DurBar
    <2>1. ASSUME NEW x \in LBAs, NEW k \in Lanes PROVE ~Writes(k, x) /\ ~Writes(k, x)'
      <3>1. pc[k] \notin {"map", "sync"}
        BY DEF DevInv, ReaderInv, OwnerInv, TypeInv, Control, LaneControl
      <3>2. pc'[k] \notin {"map", "sync"}
        BY <3>1, <1>1, <1>t
      <3> QED BY <3>1, <3>2 DEF Writes
    <2> QED BY <2>1, <1>1, <1>3, DurAt, DurAtNext DEF DurAre
  <1> QED BY <1>5, <1>6, <1>7, <1>s, BarQuiet

\* The first write to a flog does not make it the current one ...
LEMMA SimFlogFirst ==
  ASSUME DevInv, DevInv', NEW m \in Lanes, FlogFirst(m)
  PROVE  UNCHANGED Device!vars
  <1>s. LaneStep(m)
    BY DEF LaneStep
  <1>t. pc \in [Lanes -> PCs] /\ LaneControl(m)
    BY LaneTyping
  <1>1. /\ UNCHANGED <<map, pmap, data, mode, op>> /\ mode = "up" /\ pc[m] = "flog1"
        /\ pc' = [pc EXCEPT ![m] = "flog2"]
    BY DEF FlogFirst, Goto, arena, locals
  <1>2. op[m].kind = "write"
    BY <1>1, <1>t DEF LaneControl, WritePCs
  <1>3. Abs(m)' = Abs(m)
    BY <1>1, <1>2, <1>t, AbsNow, AbsNext, AbsUpd
  <1>4. DevBar' = DevBar
    BY <1>1, DevAt, DevAtNext
  <1>5. DurBar' = DurBar
    <2>1. ASSUME NEW x \in LBAs PROVE DurBar'[x] = DurBar[x]
      <3>1. \A k \in Lanes : Writes(k, x)' <=> Writes(k, x)
        BY <1>1, <1>t DEF Writes
      <3> QED BY <3>1, <1>1, DurAt, DurAtNext DEF DurAre
    <2> QED BY <2>1, <1>1, DurAt, DurAtNext DEF DurAre
  <1> QED BY <1>3, <1>4, <1>5, <1>s, BarQuiet

\* ... the second does, and from then on recovery would complete the write.
LEMMA SimFlogSecond ==
  ASSUME DevInv, DevInv', NEW m \in Lanes, FlogSecond(m)
  PROVE  Device!Update(m)
  <1>s. LaneStep(m)
    BY DEF LaneStep
  <1>t. pc \in [Lanes -> PCs] /\ LaneControl(m) /\ op[m].lba \in LBAs
    BY LaneTyping
  <1> DEFINE x == op[m].lba
  <1>1. /\ UNCHANGED <<map, pmap, data, mode, op>> /\ mode = "up" /\ pc[m] = "flog2"
        /\ pc' = [pc EXCEPT ![m] = "map"]
    BY DEF FlogSecond, Goto, arena, locals
  <1>2. op[m].kind = "write"
    BY <1>1, <1>t DEF LaneControl, WritePCs
  <1>3. Abs(m) = UpdNew(op[m])
    BY <1>1, <1>2, AbsNow, AbsUpd
  <1>4. Abs(m)' = UpdHard(op[m])
    BY <1>1, <1>2, <1>t, AbsNext, AbsUpd
  <1>5. DevBar' = DevBar
    BY <1>1, DevAt, DevAtNext
  <1>6. DurBar' = [DurBar EXCEPT ![x] = op[m].val]
    <2>1. DurBar'[x] = op[m].val
      <3>1. Writes(m, x)'
        BY <1>1, <1>2, <1>t DEF Writes
      <3> QED BY <3>1, <1>1, <1>t, DurAtNext
    <2>2. ASSUME NEW y \in LBAs, y # x PROVE DurBar'[y] = DurBar[y]
      <3>1. \A k \in Lanes : Writes(k, y)' <=> Writes(k, y)
        BY <2>2, <1>1, <1>t DEF Writes
      <3> QED BY <3>1, <1>1, DurAt, DurAtNext DEF DurAre
    <2>3. DurBar = [y \in LBAs |-> DurBar[y]] /\ DurBar' = [y \in LBAs |-> DurBar'[y]]
      BY <1>1, DurAt, DurAtNext DEF DurAre
    <2> HIDE DEF x
    <2> QED BY <2>1, <2>2, <2>3
  <1> QED BY <1>3, <1>4, <1>5, <1>6, <1>s, Hardens

\* What a new entry stands for.
LEMMA NewValue ==
  ASSUME DevInv, NEW m \in Lanes, pc[m] \in {"map", "sync"}
  PROVE  ValOf(data, NewEntry(m)) = op[m].val
  <1>t. /\ LaneControl(m) /\ LaneData(m)
    BY LaneTyping
  <1>1. op[m].kind \in {"write", "set_zero", "set_error"}
    BY <1>t DEF LaneControl
  <1>2. CASE op[m].kind = "write"
    <2>1. NewEntry(m) = Normal(free[m]) /\ data[free[m]] = op[m].val
      BY <1>2, <1>t DEF NewEntry, LaneData, DataPCs
    <2> QED BY <2>1, ValNormal
  <1>3. CASE op[m].kind = "set_zero"
    <2>1. NewEntry(m).flag = "zero" /\ op[m].val = Zero
      BY <1>3, <1>t DEF NewEntry, LaneData
    <2> QED BY <2>1 DEF ValOf, ZeroOrInitial
  <1>4. CASE op[m].kind = "set_error"
    <2>1. NewEntry(m).flag = "error" /\ op[m].val = EIO
      BY <1>4, <1>t DEF NewEntry, LaneData
    <2> QED BY <2>1 DEF ValOf, ZeroOrInitial
  <1> QED BY <1>1, <1>2, <1>3, <1>4

\* Readers see an update from the moment its entry is stored.
LEMMA SimStoreMap ==
  ASSUME DevInv, DevInv', NEW m \in Lanes, StoreMap(m)
  PROVE  Device!Update(m)
  <1>s. LaneStep(m)
    BY DEF LaneStep
  <1>t. pc \in [Lanes -> PCs] /\ LaneControl(m) /\ op[m].lba \in LBAs
    BY LaneTyping
  <1> DEFINE x == op[m].lba
  <1>1. /\ UNCHANGED <<pmap, data, mode, op>> /\ mode = "up" /\ pc[m] = "map"
        /\ pc' = [pc EXCEPT ![m] = "sync"]
        /\ map' = [map EXCEPT ![x] = NewEntry(m)]
    BY DEF StoreMap, Goto, arena, locals
  <1>2. op[m].kind \in {"write", "set_zero", "set_error"}
    BY <1>1, <1>t DEF LaneControl
  <1>3. \/ Abs(m) = UpdNew(op[m]) /\ Abs(m)' = UpdSeen(op[m])
        \/ Abs(m) = UpdHard(op[m]) /\ Abs(m)' = UpdDone(op[m])
    <2>1. pc'[m] = "sync" /\ op' = op
      BY <1>1, <1>t
    <2>2. CASE op[m].kind = "write"
      <3>1. Abs(m) = UpdHard(op[m])
        BY <1>1, <1>2, <2>2, AbsNow, AbsUpd
      <3>2. Abs(m)' = UpdDone(op[m])
        BY <2>1, <1>2, <2>2, AbsNext, AbsUpd
      <3> QED BY <3>1, <3>2
    <2>3. CASE op[m].kind # "write"
      <3>1. Abs(m) = UpdNew(op[m])
        BY <1>1, <1>2, <2>3, AbsNow, AbsUpd
      <3>2. Abs(m)' = UpdSeen(op[m])
        BY <2>1, <1>2, <2>3, AbsNext, AbsUpd
      <3> QED BY <3>1, <3>2
    <2> QED BY <2>2, <2>3
  <1>4. DevBar' = [DevBar EXCEPT ![x] = op[m].val]
    <2>1. map \in [LBAs -> Entry]
      BY DEF DevInv, ReaderInv, OwnerInv, TypeInv, TypeOK
    <2>2. map'[x] = NewEntry(m) /\ \A y \in LBAs \ {x} : map'[y] = map[y]
      BY <2>1, <1>1, <1>t
    <2>3. ValOf(data', map'[x]) = op[m].val
      BY <2>2, <1>1, NewValue
    <2>4. \A y \in LBAs \ {x} : ValOf(data', map'[y]) = ValOf(data, map[y])
      BY <2>2, <1>1
    <2>5. /\ DevBar = [y \in LBAs |-> ValOf(data, map[y])]
          /\ DevBar' = [y \in LBAs |-> ValOf(data', map'[y])]
      BY <1>1, DevAt, DevAtNext
    <2> HIDE DEF x
    <2> QED BY <2>3, <2>4, <2>5
  <1>5. DurBar' = DurBar
    <2>1. ASSUME NEW y \in LBAs PROVE DurBar'[y] = DurBar[y]
      <3>1. \A k \in Lanes : Writes(k, y)' <=> Writes(k, y)
        BY <1>1, <1>t DEF Writes
      <3> QED BY <3>1, <1>1, DurAt, DurAtNext DEF DurAre
    <2> QED BY <2>1, <1>1, DurAt, DurAtNext DEF DurAre
  <1> QED BY <1>3, <1>4, <1>5, <1>s, Shows

\* Flushing an entry makes it durable; a write is so already.
LEMMA SimUnlock ==
  ASSUME DevInv, DevInv', NEW m \in Lanes, map_unlock(m)
  PROVE  Device!Update(m) \/ UNCHANGED Device!vars
  <1>s. LaneStep(m)
    BY DEF LaneStep
  <1>t. pc \in [Lanes -> PCs] /\ LaneControl(m) /\ LaneInv(m) /\ op[m].lba \in LBAs
    BY LaneTyping
  <1>0. TypeOK /\ Locked /\ pmap \in [LBAs -> Entry]
    BY DEF DevInv, ReaderInv, OwnerInv, TypeInv, TypeOK
  <1> DEFINE x == op[m].lba
  <1>1. /\ UNCHANGED <<map, data, mode, op>> /\ mode = "up" /\ pc[m] = "sync"
        /\ pc' = [pc EXCEPT ![m] = "done"]
        /\ pmap' = [pmap EXCEPT ![x] = map[x]]
    BY DEF map_unlock, Goto, locals
  <1>2. op[m].kind \in {"write", "set_zero", "set_error"} /\ pc'[m] = "done"
    BY <1>1, <1>t DEF LaneControl
  <1>3. DevBar' = DevBar
    BY <1>1, DevAt, DevAtNext
  <1>4. DurBar' = [DurBar EXCEPT ![x] = op[m].val]
    <2>1. DurBar'[x] = op[m].val
      <3>1. map[x] = NewEntry(m)
        BY <1>1, <1>t DEF LaneInv
      <3>2. ValOf(data', pmap'[x]) = op[m].val
        BY <3>1, <1>0, <1>1, <1>t, NewValue
      <3>3. ASSUME NEW k \in Lanes PROVE ~Writes(k, x)'
        <4>1. CASE k = m
          BY <4>1, <1>2 DEF Writes
        <4>2. CASE k # m
          BY <4>2, <1>0, <1>1, CriticalApart DEF Writes, CritPCs
        <4> QED BY <4>1, <4>2
      <3> QED BY <3>2, <3>3, <1>1, <1>t, DurAtNext
    <2>2. ASSUME NEW y \in LBAs, y # x PROVE DurBar'[y] = DurBar[y]
      <3>1. \A k \in Lanes : Writes(k, y)' <=> Writes(k, y)
        BY <2>2, <1>1, <1>t DEF Writes
      <3>2. pmap'[y] = pmap[y]
        BY <2>2, <1>0, <1>1
      <3> QED BY <3>1, <3>2, <1>1, DurAt, DurAtNext DEF DurAre
    <2>3. DurBar = [y \in LBAs |-> DurBar[y]] /\ DurBar' = [y \in LBAs |-> DurBar'[y]]
      BY <1>1, DurAt, DurAtNext DEF DurAre
    <2> HIDE DEF x
    <2> QED BY <2>1, <2>2, <2>3
  <1>5. CASE op[m].kind = "write"
    <2>1. Abs(m) = UpdDone(op[m])
      BY <1>1, <1>2, <1>5, AbsNow, AbsUpd
    <2>2. Abs(m)' = UpdDone(op[m])
      BY <1>1, <1>2, AbsNext, AbsUpd
    <2>3. DurBar[x] = op[m].val
      <3>1. Writes(m, x)
        BY <1>1, <1>5 DEF Writes
      <3> QED BY <3>1, <1>1, <1>t, DurAt DEF DurAre
    <2>4. DurBar = [y \in LBAs |-> DurBar[y]]
      BY <1>1, DurAt DEF DurAre
    <2>5. DurBar' = DurBar
      <3> HIDE DEF x
      <3> QED BY <1>4, <2>3, <2>4
    <2> QED BY <2>1, <2>2, <2>5, <1>3, <1>s, BarQuiet
  <1>6. CASE op[m].kind # "write"
    <2>1. Abs(m) = UpdSeen(op[m])
      BY <1>1, <1>2, <1>6, AbsNow, AbsUpd
    <2>2. Abs(m)' = UpdDone(op[m])
      BY <1>1, <1>2, AbsNext, AbsUpd
    <2> QED BY <2>1, <2>2, <1>3, <1>4, <1>s, Hardens
  <1> QED BY <1>5, <1>6

-----------------------------------------------------------------------------
(* A power failure is a crash of the block device; recovery does not show. *)

LEMMA BarRecovering ==
  ASSUME mode' = "recovering", UNCHANGED <<flog, data>>, NEW m, map' = m, pmap' = m
  PROVE  DevBar' = Contents(Recovered(m)) /\ DurBar' = Contents(Recovered(m))
  BY DEF DevBar, DurBar, Contents, Recovered, Incomplete, Current

LEMMA RecoveringFlushed ==
  ASSUME DevInv, mode # "up"
  PROVE  mode = "recovering" /\ pmap = map /\ map \in [LBAs -> Entry]
         /\ \A l \in Lanes : pc[l] = "idle"
  <1>1. TypeOK /\ Modes /\ Flushed
    BY DEF DevInv, ReaderInv, OwnerInv, TypeInv
  <1>2. mode = "recovering" /\ \A l \in Lanes : pc[l] = "idle"
    BY <1>1 DEF TypeOK, Modes
  <1>3. map \in [LBAs -> Entry] /\ pmap \in [LBAs -> Entry]
    BY <1>1 DEF TypeOK
  <1>4. \A x \in LBAs : map[x] = pmap[x]
    BY <1>1, <1>2 DEF Flushed
  <1> QED BY <1>2, <1>3, <1>4

LEMMA SimCrash == ASSUME DevInv, Crash PROVE Device!Crash
  <1>0. OwnerInv /\ Blank /\ map \in [LBAs -> Entry] /\ pmap \in [LBAs -> Entry]
    BY DEF DevInv, ReaderInv, OwnerInv, TypeInv, TypeOK
  <1>1. PICK m : /\ map' = m /\ pmap' = m /\ m = [x \in LBAs |-> m[x]]
                 /\ \A x \in LBAs : m[x] \in {map[x], pmap[x]}
    BY DEF Crash
  <1>2. mode' = "recovering" /\ UNCHANGED <<flog, data>>
    BY DEF Crash
  <1>3. DevBar' = Contents(Recovered(m)) /\ DurBar' = Contents(Recovered(m))
    BY <1>1, <1>2, BarRecovering
  <1>4. Contents(Recovered(m)) = [x \in LBAs |-> ValOf(data, Recovered(m)[x])]
    BY ContentsIs
  <1>5. ASSUME NEW x \in LBAs PROVE DevBar'[x] \in {DevBar[x], DurBar[x]}
    <2>1. CASE mode = "up"
      <3>1. DevBar[x] = ValOf(data, map[x])
        BY <2>1, DevAt
      <3>2. CASE \E k \in Lanes : Writes(k, x)
        <4>1. PICK k \in Lanes : Writes(k, x)
          BY <3>2
        <4>2. Recovered(m)[x] = Normal(free[k])
          BY <4>1, <1>0, <1>1, <2>1, RecoveredMix
        <4>3. data[free[k]] = op[k].val
          BY <4>1 DEF DevInv, LaneData, Writes, DataPCs
        <4>4. DurBar[x] = op[k].val
          BY <4>1, <2>1, DurAt DEF DurAre
        <4> QED BY <4>2, <4>3, <4>4, <1>3, <1>4, ValNormal
      <3>3. CASE \A k \in Lanes : ~Writes(k, x)
        <4>1. Recovered(m)[x] = m[x]
          BY <3>3, <1>0, <1>1, <2>1, RecoveredMix
        <4>2. DurBar[x] = ValOf(data, pmap[x])
          BY <3>3, <2>1, DurAt DEF DurAre
        <4>3. DevBar'[x] = ValOf(data, m[x])
          BY <4>1, <1>3, <1>4
        <4> QED BY <4>2, <4>3, <3>1, <1>1
      <3> QED BY <3>2, <3>3
    <2>2. CASE mode # "up"
      <3>1. m = map
        <4>1. pmap = map
          BY <2>2, RecoveringFlushed
        <4>2. \A y \in LBAs : m[y] = map[y]
          BY <4>1, <1>1
        <4> QED BY <4>2, <1>0, <1>1
      <3>2. DevBar = Contents(Recovered(map))
        BY <2>2 DEF DevBar
      <3> QED BY <3>1, <3>2, <1>3
    <2> QED BY <2>1, <2>2
  <1>6. DOMAIN DevBar' = LBAs /\ DurBar' = DevBar'
    BY <1>3, <1>4
  <1>7. ReqBar' = [l \in Lanes |-> Device!Idle]
    <2>1. ASSUME NEW l \in Lanes PROVE Abs(l)' = Device!Idle
      <3>1. op'[l].kind = "idle"
        BY DEF Crash, NoOp
      <3> QED BY <3>1, AbsNext, AbsIdle
    <2> QED BY <2>1 DEF ReqBar
  <1> QED BY <1>5, <1>6, <1>7 DEF Device!Crash, DevBar, DurBar, ReqBar

\* What recovery makes of a map of which no LBA lacks two exchanges.
LEMMA RecoveredOne ==
  ASSUME NEW m, NEW x \in LBAs, NEW f \in FlogLanes, Incomplete(f, m), Current(f).lba = x,
         \A g \in FlogLanes : Incomplete(g, m) /\ Current(g).lba = x => g = f
  PROVE  Recovered(m)[x] = Current(f).new_map
  <1> DEFINE inc == {g \in FlogLanes : Incomplete(g, m)}
             c == CHOOSE g \in inc : Current(g).lba = x
  <1>1. Recovered(m)[x] = IF \E g \in inc : Current(g).lba = x THEN Current(c).new_map ELSE m[x]
    BY DEF Recovered
  <1>2. f \in inc /\ Current(f).lba = x
    OBVIOUS
  <1>3. c \in inc /\ Current(c).lba = x
    BY <1>2
  <1>4. c = f
    BY <1>3
  <1> QED BY <1>1, <1>2, <1>4

LEMMA RecoveredNone ==
  ASSUME NEW m, NEW x \in LBAs, \A g \in FlogLanes : Incomplete(g, m) => Current(g).lba # x
  PROVE  Recovered(m)[x] = m[x]
  BY DEF Recovered

\* Completing an exchange that the map lacks is what recovery was to make of it.
LEMMA SimRecover == ASSUME DevInv, read_flog_pair PROVE UNCHANGED Device!vars
  <1>0. /\ TypeOK /\ FlogInv /\ Announced /\ Pending /\ PendingApart /\ BlocksPartitioned
        /\ map \in [LBAs -> Entry]
    BY DEF DevInv, ReaderInv, OwnerInv, TypeInv, TypeOK
  <1>1. mode = "recovering" /\ mode' = "recovering" /\ formatted /\ UNCHANGED <<flog, data, pc, op, entry, res>>
    BY DEF read_flog_pair, locals
  <1>2. rec \in FlogLanes
    BY <1>0, SizeAssumption DEF TypeOK, read_flog_pair, FlogLanes
  <1> DEFINE c == Current(rec)
             z == c.lba
  <1>3. /\ map' = [map EXCEPT ![z] = IF Incomplete(rec, map) THEN c.new_map ELSE @] /\ pmap' = map'
    BY <1>0, <1>1, <1>2 DEF FlogInv, read_flog_pair
  <1>4. z \in LBAs /\ \A f \in FlogLanes : Current(f).lba \in LBAs
    BY <1>0, <1>2, CurrentType
  <1>5. pmap = map
    BY <1>1, RecoveringFlushed
  <1>6. DevBar = Contents(Recovered(map)) /\ DurBar = Contents(Recovered(map))
    BY <1>1, <1>5 DEF DevBar, DurBar
  <1>7. ASSUME NEW m, m = map', Incomplete(rec, map), NEW x \in LBAs
        PROVE  Recovered(m)[x] = Recovered(map)[x]
    <2>1. m[z] = c.new_map /\ \A y \in LBAs \ {z} : m[y] = map[y]
      BY <1>0, <1>3, <1>4, <1>7
    <2>2. \A f \in FlogLanes : Current(f).lba = z /\ Incomplete(f, map) => f = rec
      BY <1>0, <1>1, <1>2, <1>7 DEF PendingApart
    <2>3. ASSUME NEW f \in FlogLanes, Current(f).lba # z PROVE Incomplete(f, m) <=> Incomplete(f, map)
      BY <2>1, <2>3, <1>4 DEF Incomplete
    <2>4. ASSUME NEW f \in FlogLanes, Current(f).lba = z, Incomplete(f, m) PROVE FALSE
      <3>1. Resolved(z, m[z]) = c.new_map
        BY <2>1, <1>0, <1>1, <1>2 DEF Announced, Resolved
      <3>2. Current(f).old_map = c.new_map /\ Current(f).new_map # c.new_map
        BY <2>4, <3>1 DEF Incomplete
      <3>3. f # rec /\ ~Incomplete(f, map)
        BY <3>2, <2>2, <2>4
      <3>4. LaneBlock(f) = c.new_map.post /\ LaneBlock(rec) = c.new_map.post
        BY <3>2, <3>3, <1>7 DEF LaneBlock
      <3> QED BY <3>3, <3>4, <1>0, <1>1, <1>2 DEF BlocksPartitioned
    <2>5. CASE x = z
      <3>1. Recovered(m)[x] = c.new_map
        <4>1. \A g \in FlogLanes : Incomplete(g, m) => Current(g).lba # x
          BY <2>4, <2>5
        <4>2. Recovered(m)[x] = m[x]
          BY <4>1, RecoveredNone
        <4> QED BY <4>2, <2>1, <2>5
      <3>2. Recovered(map)[x] = c.new_map
        BY <2>2, <2>5, <1>2, <1>7, RecoveredOne
      <3> QED BY <3>1, <3>2
    <2>6. CASE x # z /\ \E f \in FlogLanes : Current(f).lba = x /\ Incomplete(f, map)
      <3>1. PICK f \in FlogLanes : Current(f).lba = x /\ Incomplete(f, map)
        BY <2>6
      <3>2. \A g \in FlogLanes : Incomplete(g, map) /\ Current(g).lba = x => g = f
        BY <3>1, <1>0, <1>1 DEF PendingApart
      <3>3. Recovered(map)[x] = Current(f).new_map
        BY <3>1, <3>2, RecoveredOne
      <3>4. Incomplete(f, m) /\ \A g \in FlogLanes : Incomplete(g, m) /\ Current(g).lba = x => g = f
        BY <3>1, <3>2, <2>3, <2>6
      <3>5. Recovered(m)[x] = Current(f).new_map
        BY <3>1, <3>4, RecoveredOne
      <3> QED BY <3>3, <3>5
    <2>7. CASE x # z /\ ~\E f \in FlogLanes : Current(f).lba = x /\ Incomplete(f, map)
      <3>1. Recovered(map)[x] = map[x]
        BY <2>7, RecoveredNone
      <3>2. \A g \in FlogLanes : Incomplete(g, m) => Current(g).lba # x
        BY <2>3, <2>7
      <3>3. Recovered(m)[x] = m[x]
        BY <3>2, RecoveredNone
      <3> QED BY <3>1, <3>3, <2>1, <2>7
    <2> QED BY <2>5, <2>6, <2>7
  <1>8. ASSUME NEW m, m = map' PROVE Contents(Recovered(m)) = Contents(Recovered(map))
    <2>1. CASE Incomplete(rec, map)
      <3>1. \A x \in LBAs : Recovered(m)[x] = Recovered(map)[x]
        BY <1>7, <1>8, <2>1
      <3>2. /\ Contents(Recovered(m)) = [x \in LBAs |-> ValOf(data, Recovered(m)[x])]
            /\ Contents(Recovered(map)) = [x \in LBAs |-> ValOf(data, Recovered(map)[x])]
        BY ContentsIs
      <3> QED BY <3>1, <3>2
    <2>2. CASE ~Incomplete(rec, map)
      <3>1. m = map
        BY <1>0, <1>3, <1>4, <1>8, <2>2
      <3> QED BY <3>1
    <2> QED BY <2>1, <2>2
  <1>9. DevBar' = DevBar /\ DurBar' = DurBar
    <2>1. ASSUME NEW m, m = map' PROVE DevBar' = DevBar /\ DurBar' = DurBar
      <3>1. DevBar' = Contents(Recovered(m)) /\ DurBar' = Contents(Recovered(m))
        BY <2>1, <1>1, <1>3, BarRecovering
      <3> QED BY <3>1, <2>1, <1>6, <1>8
    <2> QED BY <2>1
  <1>10. ASSUME NEW l \in Lanes PROVE Abs(l)' = Abs(l)
    BY <1>1, AbsNow, AbsNext
  <1>11. ReqBar' = ReqBar
    BY <1>10 DEF ReqBar
  <1> QED BY <1>9, <1>11 DEF Device!vars, DevBar, DurBar, ReqBar

\* When every flog was read nothing is left to recover.
LEMMA SimInit == ASSUME DevInv, btt_init PROVE UNCHANGED Device!vars
  <1>0. TypeOK /\ Pending /\ Blank
    BY DEF DevInv, ReaderInv, OwnerInv, TypeInv
  <1>1. /\ mode = "recovering" /\ mode' = "up" /\ UNCHANGED <<media, pc, op, entry, res>>
        /\ formatted => rec = nfree
    BY DEF btt_init, locals
  <1>2. ASSUME NEW f \in FlogLanes PROVE ~Incomplete(f, map)
    <2>1. CASE formatted
      BY <2>1, <1>0, <1>1, SizeAssumption DEF Pending, FlogLanes
    <2>2. CASE ~formatted
      BY <2>2, <1>0, BlankComplete
    <2> QED BY <2>1, <2>2
  <1>3. \A x \in LBAs : Recovered(map)[x] = map[x]
    BY <1>2, RecoveredNone
  <1>4. DevBar = [x \in LBAs |-> ValOf(data, Recovered(map)[x])]
    BY <1>1, ContentsIs DEF DevBar
  <1>5. DevBar' = [x \in LBAs |-> ValOf(data', map'[x])]
    BY <1>1, DevAtNext
  <1>6. DevBar' = DevBar
    BY <1>1, <1>3, <1>4, <1>5 DEF media
  <1>7. DurBar' = DurBar
    BY <1>1 DEF media, DurBar, Contents, Recovered, Incomplete, Current
  <1>8. ASSUME NEW l \in Lanes PROVE Abs(l)' = Abs(l)
    BY <1>1, AbsNow, AbsNext DEF media
  <1>9. ReqBar' = ReqBar
    BY <1>8 DEF ReqBar
  <1> QED BY <1>6, <1>7, <1>9 DEF Device!vars, DevBar, DurBar, ReqBar

LEMMA SimStart == Init => Device!Init
  <1> SUFFICES ASSUME Init PROVE Device!Init
    OBVIOUS
  <1>1. DevInv /\ mode = "up" /\ map = [x \in LBAs |-> InitialEntry] /\ pmap = map
    BY DevStart DEF Init
  <1>2. ValOf(data, InitialEntry) = Zero
    BY DEF ValOf, InitialEntry, ZeroOrInitial
  <1>3. DevBar = [x \in LBAs |-> Zero]
    BY <1>1, <1>2, DevAt
  <1>4. DurBar = [x \in LBAs |-> Zero]
    <2>1. \A x \in LBAs, k \in Lanes : ~Writes(k, x)
      BY DEF Init, Writes
    <2>2. \A x \in LBAs : DurBar[x] = Zero
      BY <2>1, <1>1, <1>2, DurAt DEF DurAre
    <2>3. DurBar = [x \in LBAs |-> DurBar[x]]
      BY <1>1, DurAt DEF DurAre
    <2> QED BY <2>2, <2>3
  <1>5. ReqBar = [l \in Lanes |-> Device!Idle]
    <2>1. ASSUME NEW l \in Lanes PROVE Abs(l) = Device!Idle
      <3>1. op[l].kind = "idle"
        BY DEF Init, NoOp
      <3> QED BY <3>1, AbsNow, AbsIdle
    <2> QED BY <2>1 DEF ReqBar
  <1> QED BY <1>3, <1>4, <1>5 DEF Device!Init, DevBar, DurBar, ReqBar

LEMMA SimStep ==
  ASSUME DevInv, DevInv', [Next]_vars
  PROVE  [Device!Next]_(Device!vars)
  <1>1. ASSUME NEW m \in Lanes, Call(m) PROVE Device!Next
    BY <1>1, SimCall DEF Device!Next
  <1>2. ASSUME NEW m \in Lanes, LaneStep(m) PROVE Device!Next \/ UNCHANGED Device!vars
    <2>t. op[m].kind \in {"idle", "read", "write", "set_zero", "set_error"} /\ LaneControl(m)
      BY LaneTyping
    <2>1. CASE Return(m)
      BY <2>1, SimReturn DEF Device!Next
    <2>2. CASE FlogSecond(m) \/ StoreMap(m) \/ map_unlock(m)
      BY <2>2, SimFlogSecond, SimStoreMap, SimUnlock DEF Device!Next
    <2>3. CASE FlogFirst(m) \/ WriteData(m) \/ DataWritten(m)
      BY <2>3, SimFlogFirst, SimData
    <2>4. CASE WriteLayout(m)
      BY <2>4, SimLayout, SimQuiet
    <2>5. CASE CheckArena(m) \/ SetRtt(m) \/ ReadData(m) \/ ClearRtt(m) \/ Spin(m) \/ ScanRtt(m)
      BY <2>5, SimQuiet
    <2>6. CASE CheckLaidout(m)
      <3>1. CASE pc'[m] # "done"
        BY <2>6, <3>1, SimQuiet
      <3>2. CASE pc'[m] = "done" /\ op[m].kind = "read"
        BY <2>6, <3>2, SimObserve DEF Device!Next
      <3>3. CASE pc'[m] = "done" /\ op[m].kind # "read"
        BY <2>6, <3>3, SimSkip DEF Device!Next
      <3> QED BY <3>1, <3>2, <3>3
    <2>7. CASE ReadMap(m) \/ ReadMapAgain(m)
      <3>1. op[m].kind = "read"
        BY <2>7, <2>t DEF ReadMap, ReadMapAgain, LaneControl, ReadPCs
      <3>2. CASE pc'[m] = "r_rtt"
        BY <2>7, <3>2, SimQuiet
      <3>3. CASE pc'[m] # "r_rtt"
        BY <2>7, <3>1, <3>3, SimObserve DEF Device!Next
      <3> QED BY <3>2, <3>3
    <2>8. CASE map_lock(m)
      <3>1. CASE pc'[m] = "done"
        BY <2>8, <3>1, SimSkip DEF Device!Next
      <3>2. CASE pc'[m] # "done"
        BY <2>8, <3>2, SimQuiet
      <3> QED BY <3>1, <3>2
    <2> QED BY <1>2, <2>1, <2>2, <2>3, <2>4, <2>5, <2>6, <2>7, <2>8 DEF LaneStep
  <1>3. CASE UNCHANGED vars
    <2>1. UNCHANGED <<media, mode, pc, op, entry, res>>
      BY <1>3 DEF vars, arena, locals
    <2>2. DevBar' = DevBar /\ DurBar' = DurBar
      BY <2>1, BarMedia
    <2>3. ASSUME NEW l \in Lanes PROVE Abs(l)' = Abs(l)
      BY <2>1, AbsNow, AbsNext DEF media
    <2>4. ReqBar' = ReqBar
      BY <2>3 DEF ReqBar
    <2> QED BY <2>2, <2>4 DEF Device!vars, DevBar, DurBar, ReqBar
  <1>4. CASE Crash
    BY <1>4, SimCrash DEF Device!Next
  <1>5. CASE read_flog_pair \/ btt_init
    BY <1>5, SimRecover, SimInit
  <1> QED BY <1>1, <1>2, <1>3, <1>4, <1>5 DEF Next, Finished

\* "single block powerfail write atomicity": whatever reads, writes, set_zeros and
\* set_errors the lanes perform at once and wherever the power fails, the
\* arena behaves as a block device on which every operation takes effect at
\* one instant, which keeps what completed and never shows a torn block.
THEOREM ImplementsDevice == Spec => ImplementsBlockDevice
  <1>1. DevInv /\ [Next]_vars => DevInv'
    BY DevStep
  <1>2. DevInv /\ DevInv' /\ [Next]_vars => [Device!Next]_(Device!vars)
    BY SimStep
  <1> QED BY <1>1, <1>2, SimStart, DevStart, PTL DEF Spec, ImplementsBlockDevice, Device!Spec
=============================================================================
