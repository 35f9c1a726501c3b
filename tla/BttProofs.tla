----------------------------- MODULE BttProofs -----------------------------
(***************************************************************************)
(* Proofs about module Btt, for any number of lanes, blocks and values.    *)
(***************************************************************************)
EXTENDS Btt, TLAPS

ReadPCs  == {"r_map", "r_rtt", "r_again", "r_data", "r_clear"}
WritePCs == {"scan", "w_data", "w_copy", "flog1", "flog2"}
CritPCs  == {"flog1", "flog2", "map", "sync"}

\* Which call a lane is in tells which operation it performs.
LaneControl(l) ==
  /\ pc[l] = "idle" => op[l] = NoOp
  /\ pc[l] = "begin" => op[l].kind # "idle"
  /\ op[l].kind = "write" => op[l].val \in Values
  /\ pc[l] \in WritePCs => op[l].kind = "write"
  /\ pc[l] \in {"layout", "check", "lock", "map", "sync"} =>
       op[l].kind \in {"write", "set_zero", "set_error"}
  /\ pc[l] \in ReadPCs => op[l].kind = "read"
  /\ pc[l] \notin {"idle", "begin", "layout", "done"} => laidout
  /\ op[l].kind = "write" /\ pc[l] \in WritePCs \cup {"lock", "map", "sync"} =>
       free[l] \in Blocks

Control == \A l \in Lanes : LaneControl(l)

\* The arena is laid out exactly when its info block is valid, except while
\* the pool is being opened, when no call is in progress.
Modes ==
  /\ mode = "up" => (laidout <=> formatted)
  /\ mode = "recovering" => ~laidout /\ \A l \in Lanes : pc[l] = "idle"

TypeInv == TypeOK /\ Control /\ Modes

USE DEF Lanes, FlogLanes, LBAs

LEMMA LockNumType == \A x \in LBAs : map_lock_num(x) \in 0 .. nfree - 1
  BY SizeAssumption DEF map_lock_num

LEMMA NseqType == \A s \in 0 .. 3 : NSEQ(s) \in 0 .. 3
  BY DEF NSEQ

LEMMA EntryTypes ==
  /\ InitialEntry \in Entry
  /\ \A b \in Blocks : Normal(b) \in Entry
  /\ \A x \in LBAs, e \in Entry : Resolved(x, e) \in Entry
  /\ NoOp \in Op
  BY SizeAssumption DEF InitialEntry, Entry, Flags, Blocks, internal_nlba, Normal, Resolved, NoOp, Op

LEMMA InitialFlogType ==
  \A f \in FlogLanes : InitialFlog(f) \in [{0, 1} -> FlogEntry]
  BY SizeAssumption DEF InitialFlog, FlogEntry, Zflog, InitialEntry, Entry, Flags, Blocks, internal_nlba

LEMMA RuntimeType ==
  \A p \in [{0, 1} -> FlogEntry] :
    /\ CurrentIdx(p) \in {0, 1}
    /\ Runtime(p) \in [old_map : Entry, seq : 0 .. 3, next : {0, 1}]
  <1>1. \A p : CurrentIdx(p) \in {0, 1}
    BY DEF CurrentIdx
  <1> QED BY <1>1 DEF Runtime, FlogEntry

-----------------------------------------------------------------------------
(* Type correctness.                                                       *)

LEMMA TypeInit == Init => TypeInv
  <1> SUFFICES ASSUME Init PROVE TypeInv
    OBVIOUS
  <1> USE SizeAssumption, EntryTypes DEF Init
  <1>1. flog \in [FlogLanes -> [{0, 1} -> FlogEntry]]
    BY DEF FlogEntry, Zflog
  <1>2. /\ scan \in [Lanes -> Lanes] /\ rec \in 0 .. nfree
        /\ pc \in [Lanes -> PCs] /\ op \in [Lanes -> Op]
    BY DEF PCs
  <1>3. /\ data \in [Blocks -> Values \cup {Torn}]
        /\ rt \in [FlogLanes -> [old_map : Entry, seq : 0 .. 3, next : {0, 1}]]
    OBVIOUS
  <1>4. TypeOK
    BY <1>1, <1>2, <1>3 DEF TypeOK
  <1>5. Control
    BY DEF Control, LaneControl, WritePCs, ReadPCs, NoOp
  <1>6. Modes
    BY DEF Modes
  <1> QED BY <1>4, <1>5, <1>6 DEF TypeInv

LEMMA TypeStep == TypeInv /\ [Next]_vars => TypeInv'
  <1> SUFFICES ASSUME TypeInv PROVE [Next]_vars => TypeInv'
    OBVIOUS
  <1> USE SizeAssumption DEF TypeInv, PCs, media, arena, locals, bounds
  <1>t. /\ pc \in [Lanes -> PCs] /\ op \in [Lanes -> Op]
        /\ free \in [Lanes -> Blocks \cup {NoBlock}] /\ rt \in [FlogLanes -> [old_map : Entry, seq : 0 .. 3, next : {0, 1}]]
    BY DEF TypeOK
  <1>c. \A l \in Lanes : LaneControl(l)
    BY DEF Control
  <1>1. ASSUME NEW l \in Lanes, Call(l) PROVE TypeInv'
    <2>0. /\ \A x \in LBAs : /\ [kind |-> "read", lba |-> x, val |-> Zero] \in Op
                           /\ [kind |-> "set_zero", lba |-> x, val |-> Zero] \in Op
                           /\ [kind |-> "set_error", lba |-> x, val |-> EIO] \in Op
          /\ \A x \in LBAs, v \in Values : [kind |-> "write", lba |-> x, val |-> v] \in Op
      BY DEF Op
    <2>1. PICK o \in Op : Begin(l, o) /\ (o.kind = "write" => o.val \in Values)
      BY <1>1, <2>0 DEF Call, btt_read, btt_write, btt_set_zero, btt_set_error
    <2>2. TypeOK'
      <3>1. op' \in [Lanes -> Op]
        BY <2>1 DEF TypeOK, Begin
      <3>2. pc' \in [Lanes -> PCs]
        BY <2>1 DEF TypeOK, Begin, Goto
      <3>3. nops' \in Nat
        BY <2>1 DEF TypeOK, Begin
      <3> QED BY <2>1, <3>1, <3>2, <3>3 DEF TypeOK, Begin
    <2>3. ASSUME NEW k \in Lanes PROVE LaneControl(k)'
      BY <2>1, <1>t, <1>c, OpsAssumption DEF LaneControl, Begin, Goto, WritePCs, ReadPCs
    <2>4. Modes'
      BY <2>1 DEF Modes, Begin, Goto
    <2> QED BY <2>2, <2>3, <2>4 DEF Control
  <1>2. ASSUME NEW l \in Lanes, CheckLaidout(l) PROVE TypeInv'
    <2>1. TypeOK'
      BY <1>2 DEF CheckLaidout, TypeOK, Goto
    <2>2. ASSUME NEW k \in Lanes PROVE LaneControl(k)'
      <3>1. op[l].kind \in {"idle", "read", "write", "set_zero", "set_error"}
        BY <1>t DEF Op
      <3> QED BY <1>2, <1>t, <1>c, <3>1 DEF LaneControl, CheckLaidout, Goto, WritePCs, ReadPCs
    <2>3. Modes'
      BY <1>2 DEF CheckLaidout, Modes, Goto
    <2> QED BY <2>1, <2>2, <2>3 DEF Control
  <1>3. ASSUME NEW l \in Lanes, WriteLayout(l) PROVE TypeInv'
    <2>1. CASE laidout
      <3>1. TypeOK'
        BY <1>3, <2>1 DEF WriteLayout, TypeOK, Goto
      <3>2. ASSUME NEW k \in Lanes PROVE LaneControl(k)'
        BY <1>3, <2>1, <1>t, <1>c DEF LaneControl, WriteLayout, Goto, WritePCs, ReadPCs
      <3>3. Modes'
        BY <1>3, <2>1 DEF WriteLayout, Modes, Goto
      <3> QED BY <3>1, <3>2, <3>3 DEF Control
    <2>2. CASE ~laidout
      <3>1. TypeOK'
        <4>1. pc' \in [Lanes -> PCs]
          BY <1>3 DEF WriteLayout, TypeOK, Goto
        <4>2. /\ flog' \in [FlogLanes -> [{0, 1} -> FlogEntry]]
              /\ rt' \in [FlogLanes -> [old_map : Entry, seq : 0 .. 3, next : {0, 1}]]
          BY <1>3, <2>2, InitialFlogType, RuntimeType DEF WriteLayout
        <4>3. map' \in [LBAs -> Entry] /\ pmap' \in [LBAs -> Entry]
          BY <1>3, <2>2, EntryTypes DEF WriteLayout
        <4>4. /\ rtt' \in [FlogLanes -> Blocks \cup {NoBlock}]
              /\ map_locks' \in [0 .. nfree - 1 -> Lanes \cup {NoLane}]
          BY <1>3, <2>2 DEF WriteLayout
        <4> QED BY <1>3, <2>2, <4>1, <4>2, <4>3, <4>4 DEF WriteLayout, TypeOK
      <3>2. ASSUME NEW k \in Lanes PROVE LaneControl(k)'
        BY <1>3, <2>2, <1>t, <1>c DEF LaneControl, WriteLayout, Goto, WritePCs, ReadPCs
      <3>3. Modes'
        BY <1>3, <2>2 DEF WriteLayout, Modes, Goto
      <3> QED BY <3>1, <3>2, <3>3 DEF Control
    <2> QED BY <2>1, <2>2
  <1>4. ASSUME NEW l \in Lanes, CheckArena(l) PROVE TypeInv'
    <2>1. TypeOK'
      <3>1. pc' \in [Lanes -> PCs]
        BY <1>4 DEF CheckArena, TypeOK, Goto
      <3>2. res' \in [Lanes -> Values \cup {Zero, EIO, Torn}]
        BY <1>4 DEF CheckArena, TypeOK
      <3>3. free' \in [Lanes -> Blocks \cup {NoBlock}]
        BY <1>4, <1>t, SMTT(40) DEF CheckArena, TypeOK, Entry
      <3> QED BY <1>4, <3>1, <3>2, <3>3 DEF CheckArena, TypeOK
    <2>2. ASSUME NEW k \in Lanes PROVE LaneControl(k)'
      <3>1. rt[l].old_map.post \in Blocks
        BY <1>t DEF Entry
      <3>2. CASE k = l
        BY <1>4, <1>t, <1>c, <3>1, <3>2 DEF LaneControl, CheckArena, Goto, WritePCs, ReadPCs
      <3>3. CASE k # l
        BY <1>4, <1>t, <1>c, <3>3 DEF LaneControl, CheckArena, Goto, WritePCs, ReadPCs
      <3> QED BY <3>2, <3>3
    <2>3. Modes'
      BY <1>4 DEF CheckArena, Modes, Goto
    <2> QED BY <2>1, <2>2, <2>3 DEF Control
  <1>5. ASSUME NEW l \in Lanes, ReadMap(l) PROVE TypeInv'
    <2>1. TypeOK'
      BY <1>5 DEF ReadMap, TypeOK, Examine, Op
    <2>2. ASSUME NEW k \in Lanes PROVE LaneControl(k)'
      BY <1>5, <1>t, <1>c DEF LaneControl, ReadMap, Examine, WritePCs, ReadPCs
    <2>3. Modes'
      BY <1>5 DEF ReadMap, Modes, Examine
    <2> QED BY <2>1, <2>2, <2>3 DEF Control
  <1>6. ASSUME NEW l \in Lanes, SetRtt(l) PROVE TypeInv'
    <2>1. TypeOK'
      BY <1>6 DEF SetRtt, TypeOK, Goto, Entry
    <2>2. ASSUME NEW k \in Lanes PROVE LaneControl(k)'
      BY <1>6, <1>t, <1>c DEF LaneControl, SetRtt, Goto, WritePCs, ReadPCs
    <2>3. Modes'
      BY <1>6 DEF SetRtt, Modes, Goto
    <2> QED BY <2>1, <2>2, <2>3 DEF Control
  <1>7. ASSUME NEW l \in Lanes, ReadMapAgain(l) PROVE TypeInv'
    <2>1. TypeOK'
      <3>1. pc' \in [Lanes -> PCs]
        <4>1. CASE map[op[l].lba] = entry[l]
          BY <1>7, <4>1 DEF ReadMapAgain, TypeOK
        <4>2. CASE map[op[l].lba] # entry[l]
          <5>1. \E s \in {"done", "r_rtt"} : pc' = [pc EXCEPT ![l] = s]
            BY <1>7, <4>2 DEF ReadMapAgain, Examine
          <5> QED BY <5>1, <1>t
        <4> QED BY <4>1, <4>2
      <3>2. map[op[l].lba] \in Entry
        BY <1>7 DEF ReadMapAgain, TypeOK, Op
      <3>3. entry' \in [Lanes -> Entry] /\ res' \in [Lanes -> Values \cup {Zero, EIO, Torn}]
        <4>1. CASE map[op[l].lba] = entry[l]
          BY <1>7, <4>1 DEF ReadMapAgain, TypeOK
        <4>2. CASE map[op[l].lba] # entry[l]
          BY <1>7, <3>2, <4>2 DEF ReadMapAgain, TypeOK, Examine
        <4> QED BY <4>1, <4>2
      <3> QED BY <1>7, <3>1, <3>2, <3>3 DEF ReadMapAgain, TypeOK
    <2>2. ASSUME NEW k \in Lanes PROVE LaneControl(k)'
      BY <1>7, <1>t, <1>c DEF LaneControl, ReadMapAgain, Examine, WritePCs, ReadPCs
    <2>3. Modes'
      BY <1>7 DEF ReadMapAgain, Modes, Examine
    <2> QED BY <2>1, <2>2, <2>3 DEF Control
  <1>8. ASSUME NEW l \in Lanes, ReadData(l) PROVE TypeInv'
    <2>1. TypeOK'
      BY <1>8 DEF ReadData, TypeOK, Goto, Entry
    <2>2. ASSUME NEW k \in Lanes PROVE LaneControl(k)'
      BY <1>8, <1>t, <1>c DEF LaneControl, ReadData, Goto, WritePCs, ReadPCs
    <2>3. Modes'
      BY <1>8 DEF ReadData, Modes, Goto
    <2> QED BY <2>1, <2>2, <2>3 DEF Control
  <1>9. ASSUME NEW l \in Lanes, ClearRtt(l) PROVE TypeInv'
    <2>1. TypeOK'
      BY <1>9 DEF ClearRtt, TypeOK, Goto
    <2>2. ASSUME NEW k \in Lanes PROVE LaneControl(k)'
      BY <1>9, <1>t, <1>c DEF LaneControl, ClearRtt, Goto, WritePCs, ReadPCs
    <2>3. Modes'
      BY <1>9 DEF ClearRtt, Modes, Goto
    <2> QED BY <2>1, <2>2, <2>3 DEF Control
  <1>10. ASSUME NEW l \in Lanes, Spin(l) PROVE TypeInv'
    BY <1>10, <1>c DEF Spin, vars, TypeOK, Control, LaneControl, Modes
  <1>11. ASSUME NEW l \in Lanes, ScanRtt(l) PROVE TypeInv'
    <2>1. TypeOK'
      <3>1. pc' \in [Lanes -> PCs]
        BY <1>11 DEF ScanRtt, TypeOK, Goto
      <3>2. scan' \in [Lanes -> Lanes]
        <4>1. scan[l] \in Lanes
          BY DEF TypeOK
        <4>2. (IF scan[l] + 1 = nlane THEN 0 ELSE scan[l] + 1) \in Lanes
          BY <4>1
        <4> QED BY <1>11, <4>2 DEF ScanRtt, TypeOK
      <3> QED BY <1>11, <3>1, <3>2 DEF ScanRtt, TypeOK
    <2>2. ASSUME NEW k \in Lanes PROVE LaneControl(k)'
      BY <1>11, <1>t, <1>c DEF LaneControl, ScanRtt, Goto, WritePCs, ReadPCs
    <2>3. Modes'
      BY <1>11 DEF ScanRtt, Modes, Goto
    <2> QED BY <2>1, <2>2, <2>3 DEF Control
  <1>12. ASSUME NEW l \in Lanes, WriteData(l) PROVE TypeInv'
    <2>1. TypeOK'
      BY <1>12 DEF WriteData, TypeOK, Goto
    <2>2. ASSUME NEW k \in Lanes PROVE LaneControl(k)'
      BY <1>12, <1>t, <1>c DEF LaneControl, WriteData, Goto, WritePCs, ReadPCs
    <2>3. Modes'
      BY <1>12 DEF WriteData, Modes, Goto
    <2> QED BY <2>1, <2>2, <2>3 DEF Control
  <1>13. ASSUME NEW l \in Lanes, DataWritten(l) PROVE TypeInv'
    <2>1. TypeOK'
      <3>1. pc' \in [Lanes -> PCs]
        BY <1>13 DEF DataWritten, TypeOK, Goto
      <3>2. op[l].val \in Values
        BY <1>13, <1>c DEF DataWritten, TypeOK, LaneControl, Goto, WritePCs
      <3>3. data' \in [Blocks -> Values \cup {Torn}]
        BY <1>13, <3>2 DEF DataWritten, TypeOK
      <3> QED BY <1>13, <3>1, <3>2, <3>3 DEF DataWritten, TypeOK
    <2>2. ASSUME NEW k \in Lanes PROVE LaneControl(k)'
      BY <1>13, <1>t, <1>c DEF LaneControl, DataWritten, Goto, WritePCs, ReadPCs
    <2>3. Modes'
      BY <1>13 DEF DataWritten, Modes, Goto
    <2> QED BY <2>1, <2>2, <2>3 DEF Control
  <1>14. ASSUME NEW l \in Lanes, map_lock(l) PROVE TypeInv'
    <2>1. TypeOK'
      BY <1>14, EntryTypes DEF map_lock, TypeOK, Goto, Op
    <2>2. ASSUME NEW k \in Lanes PROVE LaneControl(k)'
      BY <1>14, <1>t, <1>c DEF LaneControl, map_lock, Goto, WritePCs, ReadPCs
    <2>3. Modes'
      BY <1>14 DEF map_lock, Modes, Goto
    <2> QED BY <2>1, <2>2, <2>3 DEF Control
  <1>15. ASSUME NEW l \in Lanes, FlogFirst(l) PROVE TypeInv'
    <2>1. TypeOK'
      <3>1. pc' \in [Lanes -> PCs]
        BY <1>15 DEF FlogFirst, TypeOK, Goto
      <3>2. flog[l] \in [{0, 1} -> FlogEntry] /\ op[l].lba \in LBAs /\ entry[l] \in Entry
        BY <1>15 DEF FlogFirst, TypeOK, Op
      <3>3. flog' \in [FlogLanes -> [{0, 1} -> FlogEntry]]
        BY <1>15, <3>2, SMTT(40) DEF FlogFirst, TypeOK, FlogEntry
      <3> QED BY <1>15, <3>1, <3>2, <3>3 DEF FlogFirst, TypeOK
    <2>2. ASSUME NEW k \in Lanes PROVE LaneControl(k)'
      BY <1>15, <1>t, <1>c DEF LaneControl, FlogFirst, Goto, WritePCs, ReadPCs
    <2>3. Modes'
      BY <1>15 DEF FlogFirst, Modes, Goto
    <2> QED BY <2>1, <2>2, <2>3 DEF Control
  <1>16. ASSUME NEW l \in Lanes, FlogSecond(l) PROVE TypeInv'
    <2>1. TypeOK'
      <3>1. pc' \in [Lanes -> PCs]
        BY <1>16 DEF FlogSecond, TypeOK, Goto
      <3>2. flog[l] \in [{0, 1} -> FlogEntry] /\ rt[l].seq \in 0 .. 3 /\ entry[l] \in Entry
        BY <1>16 DEF FlogSecond, TypeOK
      <3>3. NSEQ(rt[l].seq) \in 0 .. 3
        BY <1>16, <3>2, NseqType DEF FlogSecond, TypeOK
      <3>4. Normal(free[l]) \in Entry
        BY <1>16, EntryTypes, <1>c DEF FlogSecond, TypeOK, LaneControl, Goto, WritePCs
      <3>5. flog' \in [FlogLanes -> [{0, 1} -> FlogEntry]]
        BY <1>16, <3>2, <3>3, <3>4, ZenonT(60) DEF FlogSecond, TypeOK, FlogEntry
      <3>6. rt' \in [FlogLanes -> [old_map : Entry, seq : 0 .. 3, next : {0, 1}]]
        BY <1>16, <3>2, <3>3 DEF FlogSecond, TypeOK
      <3> QED BY <1>16, <3>1, <3>2, <3>3, <3>4, <3>5, <3>6 DEF FlogSecond, TypeOK
    <2>2. ASSUME NEW k \in Lanes PROVE LaneControl(k)'
      BY <1>16, <1>t, <1>c DEF LaneControl, FlogSecond, Goto, WritePCs, ReadPCs
    <2>3. Modes'
      BY <1>16 DEF FlogSecond, Modes, Goto
    <2> QED BY <2>1, <2>2, <2>3 DEF Control
  <1>17. ASSUME NEW l \in Lanes, StoreMap(l) PROVE TypeInv'
    <2>1. TypeOK'
      BY <1>17, EntryTypes, <1>c DEF StoreMap, TypeOK, Goto, NewEntry, Entry, Flags, LaneControl
    <2>2. ASSUME NEW k \in Lanes PROVE LaneControl(k)'
      BY <1>17, <1>t, <1>c DEF LaneControl, StoreMap, Goto, WritePCs, ReadPCs
    <2>3. Modes'
      BY <1>17 DEF StoreMap, Modes, Goto
    <2> QED BY <2>1, <2>2, <2>3 DEF Control
  <1>18. ASSUME NEW l \in Lanes, map_unlock(l) PROVE TypeInv'
    <2>1. TypeOK'
      BY <1>18 DEF map_unlock, TypeOK, Goto
    <2>2. ASSUME NEW k \in Lanes PROVE LaneControl(k)'
      BY <1>18, <1>t, <1>c DEF LaneControl, map_unlock, Goto, WritePCs, ReadPCs
    <2>3. Modes'
      BY <1>18 DEF map_unlock, Modes, Goto
    <2> QED BY <2>1, <2>2, <2>3 DEF Control
  <1>19. ASSUME NEW l \in Lanes, Return(l) PROVE TypeInv'
    <2>1. TypeOK'
      BY <1>19, EntryTypes DEF Return, TypeOK, Goto, NoBlock
    <2>2. ASSUME NEW k \in Lanes PROVE LaneControl(k)'
      BY <1>19, <1>t, <1>c DEF LaneControl, Return, Goto, WritePCs, ReadPCs, NoOp
    <2>3. Modes'
      BY <1>19 DEF Return, Modes, Goto
    <2> QED BY <2>1, <2>2, <2>3 DEF Control
  <1>20. CASE Crash
    <2>1. TypeOK'
      <3>1. map' \in [LBAs -> Entry] /\ pmap' \in [LBAs -> Entry]
        BY <1>20 DEF Crash, TypeOK
      <3>2. rt' \in [FlogLanes -> [old_map : Entry, seq : 0 .. 3, next : {0, 1}]]
        BY <1>20, EntryTypes DEF Crash, TypeOK
      <3>3. rtt' \in [FlogLanes -> Blocks \cup {NoBlock}] /\ map_locks' \in [0 .. nfree - 1 -> Lanes \cup {NoLane}]
        BY <1>20 DEF Crash, TypeOK
      <3>4. /\ pc' \in [Lanes -> PCs] /\ op' \in [Lanes -> Op] /\ scan' \in [Lanes -> Lanes]
           /\ entry' \in [Lanes -> Entry]
        BY <1>20, EntryTypes DEF Crash, TypeOK
      <3>5. mode' \in {"up", "recovering"} /\ rec' \in 0 .. nfree /\ ncrash' \in Nat
        BY <1>20 DEF Crash, TypeOK
      <3> QED BY <1>20, <3>1, <3>2, <3>3, <3>4, <3>5 DEF Crash, TypeOK
    <2>2. ASSUME NEW k \in Lanes PROVE LaneControl(k)'
      BY <1>20, <1>t, <1>c DEF LaneControl, Crash, WritePCs, ReadPCs, NoOp, Modes
    <2>3. Modes'
      BY <1>20 DEF Crash, Modes
    <2> QED BY <2>1, <2>2, <2>3 DEF Control
  <1>21. CASE read_flog_pair
    <2>1. TypeOK'
      <3>1. rec \in FlogLanes /\ rec' \in 0 .. nfree
        BY <1>21 DEF read_flog_pair, TypeOK
      <3>2. flog[rec] \in [{0, 1} -> FlogEntry]
        BY <1>21, <3>1 DEF read_flog_pair, TypeOK
      <3>3. Current(rec) \in FlogEntry
        BY <1>21, <3>2, RuntimeType DEF read_flog_pair, TypeOK, Current
      <3>4. rt' \in [FlogLanes -> [old_map : Entry, seq : 0 .. 3, next : {0, 1}]]
        BY <1>21, <3>2, RuntimeType DEF read_flog_pair, TypeOK
      <3>5. map' \in [LBAs -> Entry] /\ pmap' \in [LBAs -> Entry]
        <4>1. /\ Current(rec).lba \in LBAs /\ Current(rec).new_map \in Entry
              /\ map \in [LBAs -> Entry] /\ pmap \in [LBAs -> Entry]
          BY <3>3 DEF FlogEntry, TypeOK
        <4> QED BY <1>21, <4>1 DEF read_flog_pair
      <3> QED BY <1>21, <3>1, <3>2, <3>3, <3>4, <3>5 DEF read_flog_pair, TypeOK
    <2>2. ASSUME NEW k \in Lanes PROVE LaneControl(k)'
      BY <1>21, <1>t, <1>c DEF LaneControl, read_flog_pair, WritePCs, ReadPCs, NoOp, Modes
    <2>3. Modes'
      BY <1>21 DEF read_flog_pair, Modes
    <2> QED BY <2>1, <2>2, <2>3 DEF Control
  <1>22. CASE btt_init
    <2>1. TypeOK'
      BY <1>22, SMTT(40) DEF btt_init, TypeOK
    <2>2. ASSUME NEW k \in Lanes PROVE LaneControl(k)'
      BY <1>22, <1>t, <1>c DEF LaneControl, btt_init, WritePCs, ReadPCs, NoOp, Modes
    <2>3. Modes'
      BY <1>22 DEF btt_init, Modes
    <2> QED BY <2>1, <2>2, <2>3 DEF Control
  <1>23. CASE UNCHANGED vars
    BY <1>23, <1>c DEF vars, TypeOK, Control, LaneControl, Modes
  <1> QED
    BY <1>1, <1>2, <1>3, <1>4, <1>5, <1>6, <1>7, <1>8, <1>9, <1>10, <1>11, <1>12,
       <1>13, <1>14, <1>15, <1>16, <1>17, <1>18, <1>19, <1>20, <1>21, <1>22, <1>23
    DEF Next, LaneStep, Finished

\* Type correctness of every variable of the arena, for every number of
\* lanes, free blocks and LBAs.
THEOREM TypeCorrect == Spec => []TypeOK
  <1>1. Spec => []TypeInv
    BY TypeInit, TypeStep, PTL DEF Spec
  <1> QED BY <1>1, PTL DEF TypeInv

-----------------------------------------------------------------------------
(* Ownership of blocks.                                                    *)

\* The lock of a map entry is held from reading the entry to flushing it.
Locked ==
  \A l \in Lanes : pc[l] \in CritPCs => map_locks[map_lock_num(op[l].lba)] = l

\* The run-time flogs are the media's current flogs, as far as they were read.
FlogInv ==
  /\ formatted => \A f \in FlogLanes : flog[f][0].seq # flog[f][1].seq
  /\ \A f \in FlogLanes :
       laidout \/ (mode = "recovering" /\ f < rec) => rt[f] = Runtime(flog[f])

\* What a lane in btt_write or map_entry_setf knows of the map and the flog.
LaneInv(l) ==
  LET x == op[l].lba
  IN  /\ op[l].kind = "write" /\ pc[l] \in {"scan", "w_data", "w_copy", "lock", "flog1", "flog2"} =>
           free[l] = rt[l].old_map.post
      /\ pc[l] = "flog2" =>
           flog[l][rt[l].next].lba = x /\ flog[l][rt[l].next].old_map = entry[l]
      /\ pc[l] \in {"flog1", "flog2", "map"} => entry[l] = Resolved(x, map[x])
      /\ pc[l] \in {"map", "sync"} /\ op[l].kind = "write" =>
           /\ Current(l).lba = x
           /\ Current(l).old_map = entry[l]
           /\ Current(l).new_map = Normal(free[l])
      /\ pc[l] = "sync" => map[x] = NewEntry(l) /\ entry[l] = Resolved(x, pmap[x])

\* Only a lane that is about to flush an entry has stored one not yet flushed.
Flushed ==
  \A x \in LBAs : map[x] # pmap[x] => \E l \in Lanes : pc[l] = "sync" /\ op[l].lba = x

\* Only a lane between the two halves of an exchange, or one whose flog has
\* not been read since a power failure, has an exchange the map lacks.
Pending ==
  formatted =>
    \A f \in FlogLanes : Incomplete(f, map) =>
      IF mode = "up" THEN f \in Lanes /\ pc[f] = "map" /\ op[f].kind = "write"
                     ELSE f >= rec

\* After a power failure no two lanes have such an exchange for one LBA.
PendingApart ==
  formatted /\ mode = "recovering" =>
    \A f, g \in FlogLanes :
      Incomplete(f, map) /\ Incomplete(g, map) /\ Current(f).lba = Current(g).lba => f = g

\* The entry a current flog announces is a stored one, never an initial one.
Announced == formatted => \A f \in FlogLanes : Current(f).new_map.flag # "initial"

OwnerInv ==
  /\ TypeInv /\ Locked /\ FlogInv /\ Announced /\ (\A l \in Lanes : LaneInv(l))
  /\ Flushed /\ Pending /\ PendingApart /\ BlocksPartitioned

\* The other flog of a pair becomes current once it gets the next sequence
\* number, and not before.
LEMMA CurrentIdxKept ==
  ASSUME NEW p \in [{0, 1} -> FlogEntry], NEW q \in [{0, 1} -> FlogEntry],
         p[0].seq = q[0].seq, p[1].seq = q[1].seq
  PROVE  CurrentIdx(p) = CurrentIdx(q)
  BY DEF CurrentIdx

LEMMA CurrentIdxFlips ==
  ASSUME NEW p \in [{0, 1} -> FlogEntry], NEW q \in [{0, 1} -> FlogEntry],
         p[0].seq # p[1].seq,
         NEW c \in {0, 1}, c = CurrentIdx(p),
         q[c] = p[c], q[1 - c].seq = NSEQ(p[c].seq)
  PROVE  CurrentIdx(q) = 1 - c /\ q[0].seq # q[1].seq
  BY DEF CurrentIdx, NSEQ, FlogEntry

\* Types of the current flog, for every lane.
LEMMA CurrentType ==
  ASSUME TypeOK
  PROVE  \A f \in FlogLanes : /\ flog[f] \in [{0, 1} -> FlogEntry]
                             /\ Current(f) \in FlogEntry
                             /\ Current(f).lba \in LBAs
                             /\ Current(f).old_map \in Entry /\ Current(f).new_map \in Entry
  <1>1. \A f \in FlogLanes : flog[f] \in [{0, 1} -> FlogEntry]
    BY DEF TypeOK
  <1>2. \A f \in FlogLanes : Current(f) \in FlogEntry
    BY <1>1, RuntimeType DEF Current
  <1> QED BY <1>1, <1>2 DEF FlogEntry

LEMMA OpTypes ==
  ASSUME TypeOK
  PROVE  \A k \in Lanes : op[k].lba \in LBAs /\ k \in FlogLanes
  <1>1. op \in [Lanes -> Op]
    BY DEF TypeOK
  <1> QED BY <1>1, SizeAssumption DEF Op

\* Two lanes cannot both be between map_lock and map_unlock for one LBA.
LEMMA CriticalApart ==
  ASSUME TypeOK, Locked, NEW l \in Lanes, NEW k \in Lanes, pc[l] \in CritPCs,
         pc[k] \in CritPCs, op[l].lba = op[k].lba
  PROVE  l = k
  BY DEF Locked

\* A lane's exchange that the map lacks starts from what the map shows.
LEMMA IncompleteOld ==
  ASSUME NEW f \in FlogLanes, Incomplete(f, map)
  PROVE  /\ Current(f).old_map = Resolved(Current(f).lba, map[Current(f).lba])
         /\ Current(f).old_map.post = Post(Current(f).lba)
         /\ LaneBlock(f) = Current(f).new_map.post
  BY DEF Incomplete, Post, LaneBlock

\* Steps that leave the map, the flogs and the locks alone.
LEMMA Frame ==
  ASSUME OwnerInv, TypeInv', NEW l \in Lanes,
         UNCHANGED <<formatted, map, pmap, flog, mode, rec, laidout, rt, map_locks>>,
         pc[l] \notin CritPCs, pc'[l] \notin CritPCs,
         \A k \in Lanes \ {l} : /\ pc'[k] = pc[k] /\ op'[k] = op[k]
                               /\ entry'[k] = entry[k] /\ free'[k] = free[k],
         op'[l].kind = "write" /\ pc'[l] \in {"scan", "w_data", "w_copy", "lock"} =>
           free'[l] = rt[l].old_map.post
  PROVE  OwnerInv'
  <1>1. Locked'
    BY DEF OwnerInv, Locked, map_lock_num
  <1>2. FlogInv'
    BY DEF OwnerInv, FlogInv, Runtime, CurrentIdx
  <1>3. /\ \A f \in FlogLanes : Current(f)' = Current(f)
        /\ \A f \in FlogLanes : Incomplete(f, map)' <=> Incomplete(f, map)
        /\ \A f \in FlogLanes : LaneBlock(f)' = LaneBlock(f)
        /\ \A x \in LBAs : Post(x)' = Post(x)
    BY DEF Current, Incomplete, LaneBlock, Post
  <1>4. ASSUME NEW k \in Lanes PROVE LaneInv(k)'
    <2>1. LaneInv(k) /\ k \in FlogLanes
      BY SizeAssumption DEF OwnerInv
    <2>2. CASE k = l
      BY <2>2 DEF LaneInv, CritPCs
    <2>3. CASE k # l
      BY <2>1, <2>3, <1>3 DEF LaneInv, NewEntry
    <2> QED BY <2>2, <2>3
  <1>5. Flushed'
    BY DEF OwnerInv, Flushed, CritPCs
  <1>6. Pending'
    BY <1>3 DEF OwnerInv, Pending, CritPCs
  <1>7. PendingApart'
    BY <1>3 DEF OwnerInv, PendingApart
  <1>8. BlocksPartitioned'
    BY <1>3 DEF OwnerInv, BlocksPartitioned
  <1>9. Announced'
    BY <1>3 DEF OwnerInv, Announced
  <1> QED BY <1>1, <1>2, <1>4, <1>5, <1>6, <1>7, <1>8, <1>9 DEF OwnerInv

\* The calls, the reads and the part of a write before map_lock.
LEMMA OwnerFrameSteps ==
  ASSUME OwnerInv, TypeInv', NEW l \in Lanes,
         \/ Call(l) \/ CheckLaidout(l) \/ CheckArena(l) \/ (WriteLayout(l) /\ laidout)
         \/ ReadMap(l) \/ SetRtt(l) \/ ReadMapAgain(l) \/ ReadData(l) \/ ClearRtt(l)
         \/ ScanRtt(l) \/ WriteData(l) \/ DataWritten(l) \/ Return(l)
  PROVE  OwnerInv'
  <1> USE DEF media, arena, locals, bounds
  <1>t. /\ pc \in [Lanes -> PCs] /\ op \in [Lanes -> Op] /\ entry \in [Lanes -> Entry]
        /\ free \in [Lanes -> Blocks \cup {NoBlock}] /\ LaneControl(l) /\ LaneInv(l)
    BY DEF OwnerInv, TypeInv, TypeOK, Control
  <1>1. CASE Call(l)
    <2>1. PICK o : Begin(l, o)
      BY <1>1 DEF Call, btt_read, btt_write, btt_set_zero, btt_set_error
    <2> QED BY <1>t, <2>1, Frame DEF Begin, Goto, CritPCs
  <1>2. CASE CheckLaidout(l)
    BY <1>t, <1>2, Frame DEF CheckLaidout, Goto, CritPCs
  <1>3. CASE CheckArena(l)
    BY <1>t, <1>3, Frame DEF CheckArena, Goto, CritPCs
  <1>4. CASE WriteLayout(l) /\ laidout
    BY <1>t, <1>4, Frame DEF WriteLayout, Goto, CritPCs
  <1>5. CASE ReadMap(l)
    BY <1>t, <1>5, Frame DEF ReadMap, Examine, CritPCs
  <1>6. CASE SetRtt(l)
    BY <1>t, <1>6, Frame DEF SetRtt, Goto, CritPCs
  <1>7. CASE ReadMapAgain(l)
    <2>1. CASE map[op[l].lba] = entry[l]
      BY <1>t, <1>7, <2>1, Frame DEF ReadMapAgain, CritPCs
    <2>2. CASE map[op[l].lba] # entry[l]
      BY <1>t, <1>7, <2>2, Frame DEF ReadMapAgain, Examine, CritPCs
    <2> QED BY <2>1, <2>2
  <1>8. CASE ReadData(l)
    BY <1>t, <1>8, Frame DEF ReadData, Goto, CritPCs
  <1>9. CASE ClearRtt(l)
    BY <1>t, <1>9, Frame DEF ClearRtt, Goto, CritPCs
  <1>10. CASE ScanRtt(l)
    BY <1>t, <1>10, Frame DEF ScanRtt, Goto, CritPCs, LaneInv
  <1>11. CASE WriteData(l)
    BY <1>t, <1>11, Frame DEF WriteData, Goto, CritPCs, LaneInv
  <1>12. CASE DataWritten(l)
    BY <1>t, <1>12, Frame DEF DataWritten, Goto, CritPCs, LaneInv
  <1>13. CASE Return(l)
    BY <1>t, <1>13, Frame DEF Return, Goto, CritPCs
  <1> QED BY <1>1, <1>2, <1>3, <1>4, <1>5, <1>6, <1>7, <1>8, <1>9, <1>10, <1>11, <1>12, <1>13

\* map_lock makes the lane the only one to change its map entry.
LEMMA OwnerLock ==
  ASSUME OwnerInv, TypeInv', NEW l \in Lanes, map_lock(l)
  PROVE  OwnerInv'
  <1> USE SizeAssumption DEF media, bounds
  <1> DEFINE x == op[l].lba
  <1>t. /\ pc \in [Lanes -> PCs] /\ op \in [Lanes -> Op] /\ entry \in [Lanes -> Entry]
        /\ map_locks \in [0 .. nfree - 1 -> Lanes \cup {NoLane}]
        /\ \A k \in Lanes : op[k].lba \in LBAs /\ LaneControl(k)
    BY DEF OwnerInv, TypeInv, TypeOK, Op, Control
  <1>p. /\ pc[l] = "lock" /\ mode = "up" /\ pc'[l] \in {"done", "flog1", "map"}
        /\ pc'[l] = "flog1" <=> op[l].kind = "write"
        /\ \A k \in Lanes \ {l} : pc'[k] = pc[k] /\ entry'[k] = entry[k]
        /\ entry'[l] = Resolved(x, map[x])
        /\ UNCHANGED <<formatted, map, pmap, flog, mode, rec, laidout, rt, op, free>>
    BY <1>t DEF map_lock, Goto
  <1>1. Locked'
    <2>1. map_locks[map_lock_num(x)] = NoLane /\ map_lock_num(x) \in 0 .. nfree - 1
      BY <1>t, LockNumType DEF map_lock
    <2>2. ASSUME NEW k \in Lanes, pc'[k] \in CritPCs PROVE map_locks'[map_lock_num(op'[k].lba)] = k
      <3>1. CASE k = l
        BY <1>t, <1>p, <2>1, <2>2, <3>1 DEF map_lock, CritPCs, Goto
      <3>2. CASE k # l
        <4>1. map_locks[map_lock_num(op[k].lba)] = k
          BY <1>p, <2>2, <3>2 DEF OwnerInv, Locked
        <4>2. map_lock_num(op[k].lba) # map_lock_num(x)
          BY <4>1, <2>1 DEF NoLane
        <4> QED BY <1>p, <1>t, <4>1, <4>2 DEF map_lock
      <3> QED BY <3>1, <3>2
    <2> QED BY <2>2 DEF Locked, map_lock_num
  <1>2. FlogInv'
    BY <1>p DEF OwnerInv, FlogInv, Runtime, CurrentIdx
  <1>3. /\ \A f \in FlogLanes : Current(f)' = Current(f)
        /\ \A f \in FlogLanes : Incomplete(f, map)' <=> Incomplete(f, map)
        /\ \A f \in FlogLanes : LaneBlock(f)' = LaneBlock(f)
        /\ \A y \in LBAs : Post(y)' = Post(y)
    BY <1>p DEF Current, Incomplete, LaneBlock, Post
  <1>4. ASSUME NEW k \in Lanes PROVE LaneInv(k)'
    <2>1. LaneInv(k) /\ k \in FlogLanes
      BY DEF OwnerInv
    <2>2. CASE k = l
      BY <1>p, <2>1, <2>2 DEF LaneInv
    <2>3. CASE k # l
      BY <1>p, <2>1, <2>3, <1>3 DEF LaneInv, NewEntry
    <2> QED BY <2>2, <2>3
  <1>5. Flushed'
    BY <1>p DEF OwnerInv, Flushed
  <1>6. Pending'
    BY <1>3, <1>p DEF OwnerInv, Pending
  <1>7. PendingApart'
    BY <1>3, <1>p DEF OwnerInv, PendingApart
  <1>8. BlocksPartitioned'
    BY <1>3, <1>p DEF OwnerInv, BlocksPartitioned
  <1>9. Announced'
    BY <1>3, <1>p DEF OwnerInv, Announced
  <1> QED BY <1>1, <1>2, <1>4, <1>5, <1>6, <1>7, <1>8, <1>9 DEF OwnerInv

\* The first half of flog_update leaves the current flog alone.
LEMMA OwnerFlogFirst ==
  ASSUME OwnerInv, TypeInv', NEW l \in Lanes, FlogFirst(l)
  PROVE  OwnerInv'
  <1> USE SizeAssumption DEF arena, locals, bounds
  <1> DEFINE x == op[l].lba
             n == rt[l].next
  <1>t. /\ pc \in [Lanes -> PCs] /\ TypeOK /\ TypeOK' /\ l \in FlogLanes
        /\ rt \in [FlogLanes -> [old_map : Entry, seq : 0 .. 3, next : {0, 1}]]
        /\ flog \in [FlogLanes -> [{0, 1} -> FlogEntry]]
        /\ flog' \in [FlogLanes -> [{0, 1} -> FlogEntry]]
        /\ LaneInv(l) /\ LaneControl(l) /\ FlogInv /\ formatted
    <2>1. TypeOK /\ TypeOK' /\ LaneInv(l) /\ LaneControl(l) /\ FlogInv /\ Modes /\ l \in FlogLanes
      BY DEF OwnerInv, TypeInv, Control
    <2>2. formatted
      BY <2>1 DEF FlogFirst, Goto, LaneControl, Modes
    <2> QED BY <2>1, <2>2 DEF TypeOK
  <1>p. /\ pc[l] = "flog1" /\ pc'[l] = "flog2" /\ mode = "up" /\ op[l].kind = "write"
        /\ \A k \in Lanes \ {l} : pc'[k] = pc[k]
        /\ UNCHANGED <<formatted, map, pmap, mode, rec, laidout, rt, op, entry, free, map_locks>>
    BY <1>t DEF FlogFirst, Goto, LaneControl, WritePCs
  <1>f. /\ \A f \in FlogLanes \ {l} : flog'[f] = flog[f]
        /\ n \in {0, 1} /\ flog'[l][1 - n] = flog[l][1 - n]
        /\ flog'[l][n].lba = x /\ flog'[l][n].old_map = entry[l]
        /\ flog'[l][n].seq = flog[l][n].seq
    BY <1>t DEF FlogFirst
  <1>c. ASSUME NEW f \in FlogLanes
        PROVE  CurrentIdx(flog'[f]) = CurrentIdx(flog[f]) /\ Current(f)' = Current(f)
    <2>1. CASE f # l
      BY <1>f, <2>1 DEF Current
    <2>2. CASE f = l
      <3>1. n = 1 - CurrentIdx(flog[l])
        BY <1>t, <1>p DEF FlogInv, Runtime, LaneControl
      <3>2. CurrentIdx(flog'[l]) = CurrentIdx(flog[l])
        <4>1. flog[l] \in [{0, 1} -> FlogEntry] /\ flog'[l] \in [{0, 1} -> FlogEntry]
          BY <1>t
        <4>2. flog[l][0].seq = flog'[l][0].seq /\ flog[l][1].seq = flog'[l][1].seq
          BY <1>f
        <4> QED BY <4>1, <4>2, CurrentIdxKept
      <3>3. CurrentIdx(flog[l]) \in {0, 1}
        BY <1>t, RuntimeType
      <3> QED BY <2>2, <3>1, <3>2, <3>3, <1>f DEF Current
    <2> QED BY <2>1, <2>2
  <1>1. Locked'
    BY <1>p DEF OwnerInv, Locked, map_lock_num, CritPCs
  <1>2. FlogInv'
    <2>1. ASSUME NEW f \in FlogLanes PROVE flog'[f][0].seq # flog'[f][1].seq
      BY <1>t, <1>f DEF FlogInv
    <2>2. ASSUME NEW f \in FlogLanes PROVE Runtime(flog'[f]) = Runtime(flog[f])
      <3>1. flog'[f][CurrentIdx(flog[f])] = flog[f][CurrentIdx(flog[f])]
        BY <1>c DEF Current
      <3> QED BY <1>c, <3>1 DEF Runtime
    <2> QED BY <1>p, <1>t, <2>1, <2>2 DEF FlogInv
  <1>3. /\ \A f \in FlogLanes : Incomplete(f, map)' <=> Incomplete(f, map)
        /\ \A f \in FlogLanes : LaneBlock(f)' = LaneBlock(f)
        /\ \A y \in LBAs : Post(y)' = Post(y)
    BY <1>p, <1>c DEF Incomplete, LaneBlock, Post
  <1>4. ASSUME NEW k \in Lanes PROVE LaneInv(k)'
    <2>1. LaneInv(k) /\ k \in FlogLanes
      BY DEF OwnerInv
    <2>2. CASE k = l
      BY <1>p, <1>f, <2>1, <2>2 DEF LaneInv
    <2>3. CASE k # l
      BY <1>p, <1>f, <2>1, <2>3, <1>c DEF LaneInv, NewEntry
    <2> QED BY <2>2, <2>3
  <1>5. Flushed'
    BY <1>p DEF OwnerInv, Flushed
  <1>6. Pending'
    BY <1>3, <1>p DEF OwnerInv, Pending
  <1>7. PendingApart'
    BY <1>3, <1>p DEF OwnerInv, PendingApart
  <1>8. BlocksPartitioned'
    BY <1>3, <1>p DEF OwnerInv, BlocksPartitioned
  <1>9. Announced'
    BY <1>c, <1>p DEF OwnerInv, Announced
  <1> QED BY <1>1, <1>2, <1>4, <1>5, <1>6, <1>7, <1>8, <1>9 DEF OwnerInv

\* The second half of flog_update announces the exchange of the lane's free
\* block with the block in the map; the lane still owns its free block.
LEMMA OwnerFlogSecond ==
  ASSUME OwnerInv, TypeInv', NEW l \in Lanes, FlogSecond(l)
  PROVE  OwnerInv'
  <1> USE SizeAssumption DEF locals, bounds
  <1> DEFINE x == op[l].lba
             n == rt[l].next
  <1>t. /\ pc \in [Lanes -> PCs] /\ TypeOK /\ TypeOK' /\ l \in FlogLanes /\ x \in LBAs
        /\ rt \in [FlogLanes -> [old_map : Entry, seq : 0 .. 3, next : {0, 1}]]
        /\ flog \in [FlogLanes -> [{0, 1} -> FlogEntry]]
        /\ flog' \in [FlogLanes -> [{0, 1} -> FlogEntry]]
        /\ LaneInv(l) /\ LaneControl(l) /\ FlogInv /\ formatted
    <2>1. TypeOK /\ TypeOK' /\ LaneInv(l) /\ LaneControl(l) /\ FlogInv /\ Modes /\ l \in FlogLanes
      BY DEF OwnerInv, TypeInv, Control
    <2>2. formatted
      BY <2>1 DEF FlogSecond, Goto, LaneControl, Modes
    <2> QED BY <2>1, <2>2 DEF TypeOK, Op
  <1>p. /\ pc[l] = "flog2" /\ pc'[l] = "map" /\ mode = "up" /\ op[l].kind = "write"
        /\ \A k \in Lanes \ {l} : pc'[k] = pc[k]
        /\ UNCHANGED <<formatted, map, pmap, mode, rec, laidout, op, entry, free, map_locks>>
        /\ laidout
    BY <1>t DEF FlogSecond, Goto, LaneControl, WritePCs
  <1>f. /\ \A f \in FlogLanes \ {l} : flog'[f] = flog[f] /\ rt'[f] = rt[f]
        /\ n \in {0, 1} /\ flog'[l][1 - n] = flog[l][1 - n]
        /\ flog'[l][n].lba = x /\ flog'[l][n].old_map = entry[l]
        /\ flog'[l][n].new_map = Normal(free[l])
        /\ flog'[l][n].seq = NSEQ(rt[l].seq)
        /\ rt'[l] = [old_map |-> entry[l], seq |-> NSEQ(rt[l].seq), next |-> 1 - n]
    BY <1>t, <1>p DEF FlogSecond, LaneInv
  <1>r. /\ n = 1 - CurrentIdx(flog[l]) /\ CurrentIdx(flog[l]) \in {0, 1}
        /\ rt[l].seq = Current(l).seq /\ rt[l].old_map = Current(l).old_map
    BY <1>t, <1>p, RuntimeType DEF FlogInv, Runtime, Current
  <1>i. CurrentIdx(flog'[l]) = n /\ flog'[l][0].seq # flog'[l][1].seq
    <2>1. flog[l][0].seq # flog[l][1].seq
      BY <1>t DEF FlogInv
    <2>2. flog'[l][1 - n].seq = flog[l][1 - n].seq /\ rt[l].seq = flog[l][1 - n].seq /\ 1 - (1 - n) = n
      BY <1>f, <1>r DEF Current
    <2> QED BY <1>t, <1>f, <1>r, <2>1, <2>2, CurrentIdxFlips
  <1>c. /\ Current(l)' = flog'[l][n]
        /\ \A f \in FlogLanes \ {l} : Current(f)' = Current(f)
    BY <1>i, <1>f DEF Current
  <1>o. /\ ~Incomplete(l, map) /\ LaneBlock(l) = free[l] /\ Post(x) # free[l]
        /\ entry[l] = Resolved(x, map[x]) /\ entry[l].post = Post(x)
    <2>1. ~Incomplete(l, map)
      BY <1>t, <1>p DEF OwnerInv, Pending
    <2>2. LaneBlock(l) = free[l]
      BY <2>1, <1>r, <1>p, <1>t DEF LaneBlock, LaneInv
    <2>3. Post(x) # free[l]
      BY <2>2, <1>t DEF OwnerInv, BlocksPartitioned
    <2> QED BY <2>1, <2>2, <2>3, <1>p, <1>t DEF LaneInv, Post
  <1>n. /\ Incomplete(l, map)' /\ LaneBlock(l)' = free[l]
        /\ \A f \in FlogLanes \ {l} : Incomplete(f, map)' <=> Incomplete(f, map)
        /\ \A f \in FlogLanes \ {l} : LaneBlock(f)' = LaneBlock(f)
        /\ \A y \in LBAs : Post(y)' = Post(y)
    <2>1. entry[l] # Normal(free[l])
      BY <1>o DEF Normal
    <2>2. Incomplete(l, map)'
      BY <1>p, <1>c, <1>f, <1>o, <2>1 DEF Incomplete
    <2>3. LaneBlock(l)' = free[l]
      BY <2>2, <1>c, <1>f DEF LaneBlock, Normal
    <2> QED BY <1>p, <1>c, <2>2, <2>3 DEF Incomplete, LaneBlock, Post
  <1>1. Locked'
    BY <1>p DEF OwnerInv, Locked, map_lock_num, CritPCs
  <1>2. FlogInv'
    <2>1. rt'[l] = Runtime(flog'[l])
      BY <1>i, <1>f DEF Runtime
    <2> QED BY <1>p, <1>f, <1>i, <1>t, <2>1 DEF FlogInv
  <1>4. ASSUME NEW k \in Lanes PROVE LaneInv(k)'
    <2>1. LaneInv(k) /\ k \in FlogLanes
      BY DEF OwnerInv
    <2>2. CASE k = l
      BY <1>p, <1>f, <1>c, <1>o, <2>1, <2>2 DEF LaneInv
    <2>3. CASE k # l
      BY <1>p, <1>f, <1>c, <2>1, <2>3 DEF LaneInv, NewEntry
    <2> QED BY <2>2, <2>3
  <1>5. Flushed'
    BY <1>p DEF OwnerInv, Flushed
  <1>6. Pending'
    BY <1>n, <1>p DEF OwnerInv, Pending
  <1>7. PendingApart'
    BY <1>p DEF PendingApart
  <1>8. BlocksPartitioned'
    BY <1>n, <1>o, <1>p DEF OwnerInv, BlocksPartitioned
  <1>9. Announced'
    BY <1>c, <1>f, <1>p DEF OwnerInv, Announced, Normal
  <1> QED BY <1>1, <1>2, <1>4, <1>5, <1>6, <1>7, <1>8, <1>9 DEF OwnerInv

\* Storing the new map entry completes the exchange: the LBA gets the lane's
\* block and the lane the block that was mapped.  Setting a flag keeps the block.
LEMMA OwnerStoreMap ==
  ASSUME OwnerInv, TypeInv', NEW l \in Lanes, StoreMap(l)
  PROVE  OwnerInv'
  <1> USE SizeAssumption DEF arena, locals, bounds
  <1> PICK x \in LBAs : x = op[l].lba
    BY OpTypes DEF OwnerInv, TypeInv
  <1> DEFINE e == NewEntry(l)
  <1>t. /\ pc \in [Lanes -> PCs] /\ TypeOK /\ l \in FlogLanes /\ x \in LBAs
        /\ map \in [LBAs -> Entry]
        /\ LaneInv(l) /\ LaneControl(l) /\ Locked /\ formatted
        /\ \A k \in Lanes : op[k].lba \in LBAs /\ k \in FlogLanes /\ LaneInv(k)
    <2>1. TypeOK /\ LaneControl(l) /\ Locked /\ Modes /\ \A k \in Lanes : LaneInv(k)
      BY DEF OwnerInv, TypeInv, Control
    <2>2. formatted
      BY <2>1 DEF StoreMap, Goto, LaneControl, Modes
    <2> QED BY <2>1, <2>2, OpTypes DEF TypeOK
  <1>p. /\ pc[l] = "map" /\ pc'[l] = "sync" /\ mode = "up" /\ laidout
        /\ \A k \in Lanes \ {l} : pc'[k] = pc[k]
        /\ map'[x] = e /\ \A y \in LBAs \ {x} : map'[y] = map[y]
        /\ UNCHANGED <<formatted, pmap, flog, mode, rec, laidout, rt, op, entry, free, map_locks>>
    BY <1>t DEF StoreMap, Goto, LaneControl
  <1>e. /\ Resolved(x, e) = e /\ Post(x)' = e.post
        /\ entry[l] = Resolved(x, map[x]) /\ entry[l].post = Post(x)
        /\ op[l].kind = "write" => e = Normal(free[l]) /\ e.post = free[l]
        /\ op[l].kind # "write" => e.post = entry[l].post
        /\ \A y \in LBAs \ {x} : Post(y)' = Post(y)
    <2>1. entry[l] = Resolved(x, map[x]) /\ entry[l].post = Post(x)
      BY <1>p, <1>t DEF LaneInv, Post
    <2>2. Resolved(x, e) = e
      BY DEF NewEntry, Normal, Resolved
    <2>3. Post(x)' = Resolved(x, map'[x]).post
      BY DEF Post
    <2>4. /\ op[l].kind = "write" => e = Normal(free[l]) /\ e.post = free[l]
          /\ op[l].kind # "write" => e.post = entry[l].post
      BY DEF NewEntry, Normal
    <2>5. \A y \in LBAs \ {x} : Post(y)' = Post(y)
      BY <1>p DEF Post
    <2> QED BY <1>p, <2>1, <2>2, <2>3, <2>4, <2>5
  <1>x. ASSUME NEW k \in Lanes, k # l, pc[k] \in CritPCs PROVE op[k].lba # x
    BY <1>x, <1>t, <1>p, CriticalApart DEF CritPCs
  <1>c. \A f \in FlogLanes : Current(f)' = Current(f)
    BY <1>p DEF Current
  <1>w. ASSUME op[l].kind = "write" PROVE Incomplete(l, map) /\ LaneBlock(l) = free[l]
    <2>1. /\ Current(l).lba = x /\ Current(l).old_map = entry[l]
          /\ Current(l).new_map = Normal(free[l])
      BY <1>w, <1>t, <1>p DEF LaneInv
    <2>2. CASE entry[l] = Normal(free[l])
      <3>1. ~Incomplete(l, map) /\ LaneBlock(l) = Post(x)
        BY <2>1, <2>2, <1>e DEF Incomplete, LaneBlock
      <3> QED BY <3>1, <1>t DEF OwnerInv, BlocksPartitioned
    <2>3. CASE entry[l] # Normal(free[l])
      <3>1. Incomplete(l, map)
        BY <2>1, <2>3, <1>e DEF Incomplete
      <3> QED BY <2>1, <3>1 DEF LaneBlock, Normal
    <2> QED BY <2>2, <2>3
  <1>o. ASSUME NEW f \in FlogLanes, f # l \/ op[l].kind # "write"
        PROVE  (Incomplete(f, map)' <=> Incomplete(f, map)) /\ LaneBlock(f)' = LaneBlock(f)
    <2>1. CASE Incomplete(f, map)
      <3>1. f \in Lanes /\ pc[f] = "map" /\ op[f].kind = "write"
        BY <2>1, <1>t, <1>p DEF OwnerInv, Pending
      <3>2. Current(f).lba = op[f].lba /\ f # l
        BY <3>1, <1>t, <1>o DEF LaneInv
      <3>3. Current(f).lba # x /\ Current(f).lba \in LBAs
        BY <3>1, <3>2, <1>x, <1>t DEF CritPCs
      <3> QED BY <3>3, <1>p, <1>c DEF Incomplete, LaneBlock
    <2>2. CASE ~Incomplete(f, map)
      <3>1. LaneBlock(f) = Current(f).old_map.post
        BY <2>2 DEF LaneBlock
      <3>2. e.post # LaneBlock(f)
        BY <1>o, <1>e, <1>w, <1>t DEF OwnerInv, BlocksPartitioned
      <3>3. Current(f).lba \in LBAs
        BY <1>t, CurrentType
      <3>4. ~Incomplete(f, map)'
        <4>1. CASE Current(f).lba = x
          BY <4>1, <3>1, <3>2, <1>e, <1>p, <1>c DEF Incomplete
        <4>2. CASE Current(f).lba # x
          BY <4>2, <3>3, <2>2, <1>p, <1>c DEF Incomplete
        <4> QED BY <4>1, <4>2
      <3> QED BY <2>2, <3>4, <1>c DEF LaneBlock
    <2> QED BY <2>1, <2>2
  <1>s. ASSUME op[l].kind = "write" PROVE ~Incomplete(l, map)' /\ LaneBlock(l)' = Post(x)
    <2>1. /\ Current(l).lba = x /\ Current(l).old_map = entry[l]
          /\ Current(l).new_map = Normal(free[l])
      BY <1>s, <1>t, <1>p DEF LaneInv
    <2>2. ~Incomplete(l, map)'
      BY <1>s, <2>1, <1>c, <1>e, <1>p DEF Incomplete
    <2> QED BY <2>1, <2>2, <1>c, <1>e DEF LaneBlock
  <1>1. Locked'
    BY <1>p DEF OwnerInv, Locked, map_lock_num, CritPCs
  <1>2. FlogInv'
    BY <1>p DEF OwnerInv, FlogInv, Runtime, CurrentIdx
  <1>4. ASSUME NEW k \in Lanes PROVE LaneInv(k)'
    <2>1. LaneInv(k) /\ k \in FlogLanes /\ Current(k)' = Current(k) /\ NewEntry(k)' = NewEntry(k)
      BY <1>t, <1>c, <1>p DEF NewEntry
    <2>2. CASE k = l
      <3>1. pmap[x] = map[x]
        BY <1>t, <1>x, <1>p DEF OwnerInv, Flushed, CritPCs
      <3> QED BY <1>p, <1>e, <2>1, <2>2, <3>1 DEF LaneInv
    <2>3. CASE k # l
      <3>1. pc[k] \in CritPCs => map'[op[k].lba] = map[op[k].lba]
        BY <2>3, <1>x, <1>p, <1>t
      <3> QED BY <1>p, <2>1, <2>3, <3>1 DEF LaneInv, CritPCs
    <2> QED BY <2>2, <2>3
  <1>5. Flushed'
    BY <1>p DEF OwnerInv, Flushed
  <1>6. Pending'
    BY <1>o, <1>s, <1>p, <1>t DEF OwnerInv, Pending
  <1>7. PendingApart'
    BY <1>p DEF PendingApart
  <1>8. BlocksPartitioned'
    <2>1. CASE op[l].kind = "write"
      <3>1. /\ Post(x)' = LaneBlock(l) /\ LaneBlock(l)' = Post(x)
            /\ \A f \in FlogLanes \ {l} : LaneBlock(f)' = LaneBlock(f)
            /\ \A y \in LBAs \ {x} : Post(y)' = Post(y)
        BY <2>1, <1>o, <1>s, <1>w, <1>e
      <3>2. /\ \A y, z \in LBAs : y # z => Post(y) # Post(z)
            /\ \A f, g \in FlogLanes : f # g => LaneBlock(f) # LaneBlock(g)
            /\ \A y \in LBAs, f \in FlogLanes : Post(y) # LaneBlock(f)
            /\ x \in LBAs /\ l \in FlogLanes
        BY <1>t DEF OwnerInv, BlocksPartitioned
      <3>3. \A y, z \in LBAs : y # z => Post(y)' # Post(z)'
        <4> SUFFICES ASSUME NEW y \in LBAs, NEW z \in LBAs, y # z PROVE Post(y)' # Post(z)'
          OBVIOUS
        <4> QED BY <3>1, <3>2
      <3>4. \A f, g \in FlogLanes : f # g => LaneBlock(f)' # LaneBlock(g)'
        <4> SUFFICES ASSUME NEW f \in FlogLanes, NEW g \in FlogLanes, f # g
                     PROVE  LaneBlock(f)' # LaneBlock(g)'
          OBVIOUS
        <4> QED BY <3>1, <3>2
      <3>5. \A y \in LBAs, f \in FlogLanes : Post(y)' # LaneBlock(f)'
        <4> SUFFICES ASSUME NEW y \in LBAs, NEW f \in FlogLanes PROVE Post(y)' # LaneBlock(f)'
          OBVIOUS
        <4> QED BY <3>1, <3>2
      <3> QED BY <3>3, <3>4, <3>5 DEF BlocksPartitioned
    <2>2. CASE op[l].kind # "write"
      BY <2>2, <1>o, <1>e, <1>p, <1>t, SMTT(40) DEF OwnerInv, BlocksPartitioned
    <2> QED BY <2>1, <2>2
  <1>9. Announced'
    BY <1>c, <1>p DEF OwnerInv, Announced
  <1> QED BY <1>1, <1>2, <1>4, <1>5, <1>6, <1>7, <1>8, <1>9 DEF OwnerInv

\* map_unlock flushes the entry and gives up the lock.
LEMMA OwnerUnlock ==
  ASSUME OwnerInv, TypeInv', NEW l \in Lanes, map_unlock(l)
  PROVE  OwnerInv'
  <1> USE SizeAssumption DEF locals, bounds
  <1> DEFINE x == op[l].lba
  <1>t. /\ pc \in [Lanes -> PCs] /\ TypeOK /\ x \in LBAs /\ Locked
        /\ pmap \in [LBAs -> Entry]
        /\ map_locks \in [0 .. nfree - 1 -> Lanes \cup {NoLane}]
        /\ \A k \in Lanes : op[k].lba \in LBAs /\ k \in FlogLanes /\ LaneInv(k)
    BY OpTypes DEF OwnerInv, TypeInv, TypeOK
  <1>p. /\ pc[l] = "sync" /\ pc'[l] = "done" /\ mode = "up"
        /\ \A k \in Lanes \ {l} : pc'[k] = pc[k]
        /\ pmap'[x] = map[x] /\ \A y \in LBAs \ {x} : pmap'[y] = pmap[y]
        /\ UNCHANGED <<formatted, map, flog, mode, rec, laidout, rt, op, entry, free>>
    BY <1>t DEF map_unlock, Goto
  <1>x. ASSUME NEW k \in Lanes, k # l, pc[k] \in CritPCs PROVE op[k].lba # x
    BY <1>x, <1>t, <1>p, CriticalApart DEF CritPCs
  <1>1. Locked'
    <2>1. ASSUME NEW k \in Lanes, pc'[k] \in CritPCs PROVE map_locks'[map_lock_num(op[k].lba)] = k
      <3>1. k # l /\ pc[k] \in CritPCs
        BY <2>1, <1>p DEF CritPCs
      <3>2. map_locks[map_lock_num(op[k].lba)] = k /\ map_locks[map_lock_num(x)] = l
        BY <3>1, <1>t, <1>p DEF Locked, CritPCs
      <3> QED BY <3>1, <3>2, <1>t, LockNumType DEF map_unlock
    <2> QED BY <2>1, <1>p DEF Locked, map_lock_num
  <1>2. FlogInv'
    BY <1>p DEF OwnerInv, FlogInv, Runtime, CurrentIdx
  <1>3. /\ \A f \in FlogLanes : Current(f)' = Current(f)
        /\ \A f \in FlogLanes : Incomplete(f, map)' <=> Incomplete(f, map)
        /\ \A f \in FlogLanes : LaneBlock(f)' = LaneBlock(f)
        /\ \A y \in LBAs : Post(y)' = Post(y)
    BY <1>p DEF Current, Incomplete, LaneBlock, Post
  <1>4. ASSUME NEW k \in Lanes PROVE LaneInv(k)'
    <2>1. LaneInv(k) /\ k \in FlogLanes /\ Current(k)' = Current(k) /\ NewEntry(k)' = NewEntry(k)
      BY <1>t, <1>3, <1>p DEF NewEntry
    <2>2. CASE k = l
      BY <1>p, <2>1, <2>2 DEF LaneInv
    <2>3. CASE k # l
      <3>1. pc[k] \in CritPCs => pmap'[op[k].lba] = pmap[op[k].lba]
        BY <2>3, <1>x, <1>p, <1>t
      <3> QED BY <1>p, <2>1, <2>3, <3>1 DEF LaneInv, CritPCs
    <2> QED BY <2>2, <2>3
  <1>5. Flushed'
    <2>1. ASSUME NEW y \in LBAs, map[y] # pmap'[y] PROVE \E k \in Lanes : pc'[k] = "sync" /\ op[k].lba = y
      BY <2>1, <1>p DEF OwnerInv, Flushed
    <2> QED BY <2>1, <1>p DEF Flushed
  <1>6. Pending'
    BY <1>3, <1>p DEF OwnerInv, Pending
  <1>7. PendingApart'
    BY <1>p DEF PendingApart
  <1>8. BlocksPartitioned'
    BY <1>3, <1>p DEF OwnerInv, BlocksPartitioned
  <1>9. Announced'
    BY <1>3, <1>p DEF OwnerInv, Announced
  <1> QED BY <1>1, <1>2, <1>4, <1>5, <1>6, <1>7, <1>8, <1>9 DEF OwnerInv

\* write_layout maps every LBA to the block of its number and gives each lane
\* one of the blocks behind them.
LEMMA OwnerWriteLayout ==
  ASSUME OwnerInv, TypeInv', NEW l \in Lanes, WriteLayout(l), ~laidout
  PROVE  OwnerInv'
  <1> USE SizeAssumption DEF locals, bounds
  <1>t. /\ pc \in [Lanes -> PCs] /\ \A k \in Lanes : LaneControl(k)
    BY DEF OwnerInv, TypeInv, TypeOK, Control
  <1>p. /\ mode' = "up" /\ laidout' /\ formatted'
        /\ \A k \in Lanes : pc'[k] \in {"idle", "begin", "layout", "check", "done"}
        /\ map' = [x \in LBAs |-> InitialEntry] /\ pmap' = map'
        /\ flog' = [f \in FlogLanes |-> InitialFlog(f)]
        /\ rt' = [f \in FlogLanes |-> Runtime(InitialFlog(f))]
    <2>1. \A k \in Lanes : pc[k] \in {"idle", "begin", "layout", "done"}
      BY <1>t DEF LaneControl
    <2> QED BY <1>t, <2>1 DEF WriteLayout, Goto
  <1>f. ASSUME NEW f \in FlogLanes
        PROVE  /\ InitialFlog(f)[0].seq = 1 /\ InitialFlog(f)[1].seq = 0
               /\ CurrentIdx(InitialFlog(f)) = 0
               /\ Current(f)' = InitialFlog(f)[0]
               /\ Current(f)'.old_map = Current(f)'.new_map
               /\ Current(f)'.old_map.post = external_nlba + f
               /\ Current(f)'.new_map.flag = "zero"
    <2>1. InitialFlog(f)[0].seq = 1 /\ InitialFlog(f)[1].seq = 0
      BY DEF InitialFlog, Zflog
    <2>2. CurrentIdx(InitialFlog(f)) = 0
      BY <2>1 DEF CurrentIdx
    <2>3. Current(f)' = InitialFlog(f)[0]
      BY <1>p, <2>2 DEF Current
    <2> QED BY <2>1, <2>2, <2>3 DEF InitialFlog
  <1>o. /\ \A f \in FlogLanes : ~Incomplete(f, map)' /\ LaneBlock(f)' = external_nlba + f
        /\ \A x \in LBAs : Post(x)' = x
    <2>1. \A f \in FlogLanes : ~Incomplete(f, map)'
      BY <1>f DEF Incomplete
    <2>2. \A f \in FlogLanes : LaneBlock(f)' = external_nlba + f
      BY <2>1, <1>f DEF LaneBlock
    <2>3. \A x \in LBAs : Post(x)' = x
      BY <1>p DEF Post, Resolved, InitialEntry, Normal
    <2> QED BY <2>1, <2>2, <2>3
  <1>1. Locked'
    BY <1>p DEF Locked, CritPCs
  <1>2. FlogInv'
    <2>1. ASSUME NEW f \in FlogLanes
          PROVE  rt'[f] = Runtime(flog'[f]) /\ flog'[f][0].seq # flog'[f][1].seq
      BY <1>p, <1>f
    <2> QED BY <2>1 DEF FlogInv
  <1>4. ASSUME NEW k \in Lanes PROVE LaneInv(k)'
    BY <1>p DEF LaneInv
  <1>5. Flushed'
    BY <1>p DEF Flushed
  <1>6. Pending'
    BY <1>o DEF Pending
  <1>7. PendingApart'
    BY <1>p DEF PendingApart
  <1>8. BlocksPartitioned'
    BY <1>o DEF BlocksPartitioned
  <1>9. Announced'
    BY <1>f DEF Announced
  <1> QED BY <1>1, <1>2, <1>4, <1>5, <1>6, <1>7, <1>8, <1>9 DEF OwnerInv

\* btt_init ends the recovery when every flog pair was read.
LEMMA OwnerInit ==
  ASSUME OwnerInv, TypeInv', btt_init
  PROVE  OwnerInv'
  <1> USE SizeAssumption DEF media, locals, bounds
  <1>p. /\ mode = "recovering" /\ mode' = "up" /\ laidout' = formatted
        /\ \A l \in Lanes : pc'[l] = "idle"
        /\ formatted => rec = nfree
        /\ UNCHANGED <<formatted, map, pmap, flog, rt, op, entry, free, map_locks>>
    BY DEF btt_init, OwnerInv, TypeInv, Modes
  <1>3. /\ \A f \in FlogLanes : Current(f)' = Current(f)
        /\ \A f \in FlogLanes : Incomplete(f, map)' <=> Incomplete(f, map)
        /\ \A f \in FlogLanes : LaneBlock(f)' = LaneBlock(f)
        /\ \A y \in LBAs : Post(y)' = Post(y)
    BY <1>p DEF Current, Incomplete, LaneBlock, Post
  <1>1. Locked'
    BY <1>p DEF Locked, CritPCs
  <1>2. FlogInv'
    <2>1. ASSUME NEW f \in FlogLanes, formatted PROVE rt[f] = Runtime(flog[f])
      BY <1>p, <2>1 DEF OwnerInv, FlogInv
    <2>2. formatted => \A f \in FlogLanes : flog[f][0].seq # flog[f][1].seq
      BY DEF OwnerInv, FlogInv
    <2> QED BY <1>p, <2>1, <2>2 DEF FlogInv
  <1>4. ASSUME NEW k \in Lanes PROVE LaneInv(k)'
    BY <1>p DEF LaneInv
  <1>5. Flushed'
    <2>1. \A l \in Lanes : pc[l] = "idle"
      BY <1>p DEF OwnerInv, TypeInv, Modes
    <2> QED BY <1>p, <2>1 DEF OwnerInv, Flushed
  <1>6. Pending'
    <2>1. formatted => \A f \in FlogLanes : ~Incomplete(f, map)
      BY <1>p DEF OwnerInv, Pending
    <2> QED BY <1>p, <1>3, <2>1 DEF Pending
  <1>7. PendingApart'
    BY <1>p DEF PendingApart
  <1>8. BlocksPartitioned'
    BY <1>3, <1>p DEF OwnerInv, BlocksPartitioned
  <1>9. Announced'
    BY <1>3, <1>p DEF OwnerInv, Announced
  <1> QED BY <1>1, <1>2, <1>4, <1>5, <1>6, <1>7, <1>8, <1>9 DEF OwnerInv

\* read_flog_pair completes the exchange that the current flog of a lane
\* announces and the map lacks: lane and LBA swap their blocks.
LEMMA OwnerRecover ==
  ASSUME OwnerInv, TypeInv', read_flog_pair
  PROVE  OwnerInv'
  <1> USE SizeAssumption DEF locals, bounds
  <1> PICK r \in FlogLanes : r = rec
    <2>1. rec \in 0 .. nfree /\ rec < nfree
      BY DEF OwnerInv, TypeInv, TypeOK, read_flog_pair
    <2> QED BY <2>1
  <1>t. /\ TypeOK /\ FlogInv /\ formatted /\ mode = "recovering"
        /\ map \in [LBAs -> Entry]
        /\ rt \in [FlogLanes -> [old_map : Entry, seq : 0 .. 3, next : {0, 1}]]
        /\ \A l \in Lanes : pc[l] = "idle"
    BY DEF OwnerInv, TypeInv, TypeOK, read_flog_pair, Modes
  <1> PICK x \in LBAs : x = Current(r).lba
    BY <1>t, CurrentType
  <1> DEFINE e == Current(r).new_map
  <1>p. /\ mode' = "recovering" /\ rec' = r + 1 /\ formatted'
        /\ \A l \in Lanes : pc'[l] = "idle"
        /\ rt'[r] = Runtime(flog[r]) /\ \A f \in FlogLanes \ {r} : rt'[f] = rt[f]
        /\ map'[x] = IF Incomplete(r, map) THEN e ELSE map[x]
        /\ \A y \in LBAs \ {x} : map'[y] = map[y]
        /\ pmap' = map'
        /\ UNCHANGED <<flog, laidout>>
    <2>1. flog[r][0].seq # flog[r][1].seq
      BY <1>t DEF FlogInv
    <2> QED BY <1>t, <2>1 DEF read_flog_pair
  <1>c. \A f \in FlogLanes : Current(f)' = Current(f)
    BY <1>p DEF Current
  <1>b. /\ \A y, z \in LBAs : y # z => Post(y) # Post(z)
        /\ \A f, g \in FlogLanes : f # g => LaneBlock(f) # LaneBlock(g)
        /\ \A y \in LBAs, f \in FlogLanes : Post(y) # LaneBlock(f)
    BY <1>t DEF OwnerInv, BlocksPartitioned
  <1>u. \A y \in LBAs \ {x} : Post(y)' = Post(y)
    BY <1>p DEF Post
  <1>i. ASSUME Incomplete(r, map)
        PROVE  /\ Post(x)' = LaneBlock(r) /\ LaneBlock(r)' = Post(x)
               /\ ~Incomplete(r, map)'
    <2>1. /\ Current(r).old_map.post = Post(x) /\ LaneBlock(r) = e.post
      BY <1>i, IncompleteOld
    <2>2. e.flag # "initial"
      BY <1>t DEF OwnerInv, Announced
    <2>3. Resolved(x, map'[x]) = e
      BY <1>p, <1>i, <2>2 DEF Resolved
    <2>4. Post(x)' = LaneBlock(r)
      BY <2>1, <2>3 DEF Post
    <2>5. ~Incomplete(r, map)'
      BY <1>c, <2>3 DEF Incomplete
    <2>6. LaneBlock(r)' = Post(x)
      BY <1>c, <2>1, <2>5 DEF LaneBlock
    <2> QED BY <2>4, <2>5, <2>6
  <1>n. ASSUME ~Incomplete(r, map)
        PROVE  Post(x)' = Post(x) /\ LaneBlock(r)' = LaneBlock(r) /\ ~Incomplete(r, map)'
    <2>1. map'[x] = map[x]
      BY <1>n, <1>p
    <2> QED BY <2>1, <1>n, <1>c DEF Post, Incomplete, LaneBlock
  <1>o. ASSUME NEW f \in FlogLanes, f # r
        PROVE  (Incomplete(f, map)' <=> Incomplete(f, map)) /\ LaneBlock(f)' = LaneBlock(f)
    <2>1. CASE map'[Current(f).lba] = map[Current(f).lba]
      BY <2>1, <1>c DEF Incomplete, LaneBlock
    <2>2. CASE map'[Current(f).lba] # map[Current(f).lba]
      <3>1. Current(f).lba = x /\ Incomplete(r, map)
        BY <2>2, <1>p, <1>t, CurrentType
      <3>2. ~Incomplete(f, map)
        BY <3>1, <1>o, <1>t DEF OwnerInv, PendingApart
      <3>3. LaneBlock(f) = Current(f).old_map.post
        BY <3>2 DEF LaneBlock
      <3>4. LaneBlock(f) # Resolved(x, map'[x]).post
        BY <3>1, <1>i, <1>b, <1>o DEF Post
      <3>5. ~Incomplete(f, map)'
        BY <3>1, <3>3, <3>4, <1>c DEF Incomplete
      <3> QED BY <3>2, <3>5, <3>3, <1>c DEF LaneBlock
    <2> QED BY <2>1, <2>2
  <1>1. Locked'
    BY <1>p DEF Locked, CritPCs
  <1>2. FlogInv'
    <2>1. \A f \in FlogLanes : flog[f][0].seq # flog[f][1].seq
      BY <1>t DEF FlogInv
    <2>2. ASSUME NEW f \in FlogLanes, f < r + 1 PROVE rt'[f] = Runtime(flog[f])
      BY <2>2, <1>p, <1>t DEF FlogInv
    <2>3. ~laidout
      BY <1>t DEF OwnerInv, TypeInv, Modes
    <2> QED BY <2>1, <2>2, <2>3, <1>p DEF FlogInv
  <1>4. ASSUME NEW k \in Lanes PROVE LaneInv(k)'
    BY <1>p DEF LaneInv
  <1>5. Flushed'
    BY <1>p DEF Flushed
  <1>6. Pending'
    <2>1. ASSUME NEW f \in FlogLanes, Incomplete(f, map)' PROVE f >= r + 1
      <3>1. f # r
        BY <2>1, <1>i, <1>n
      <3>2. f >= r
        BY <2>1, <3>1, <1>o, <1>t DEF OwnerInv, Pending
      <3> QED BY <3>1, <3>2
    <2> QED BY <2>1, <1>p DEF Pending
  <1>7. PendingApart'
    <2>1. ASSUME NEW f \in FlogLanes, NEW g \in FlogLanes, Incomplete(f, map)',
                 Incomplete(g, map)', Current(f).lba = Current(g).lba
          PROVE  f = g
      <3>1. f # r /\ g # r
        BY <2>1, <1>i, <1>n
      <3> QED BY <2>1, <3>1, <1>o, <1>t DEF OwnerInv, PendingApart
    <2> QED BY <2>1, <1>c DEF PendingApart
  <1>8. BlocksPartitioned'
    <2>1. CASE Incomplete(r, map)
      <3>3. \A y, z \in LBAs : y # z => Post(y)' # Post(z)'
        <4> SUFFICES ASSUME NEW y \in LBAs, NEW z \in LBAs, y # z PROVE Post(y)' # Post(z)'
          OBVIOUS
        <4> QED BY <2>1, <1>i, <1>u, <1>b
      <3>4. \A f, g \in FlogLanes : f # g => LaneBlock(f)' # LaneBlock(g)'
        <4> SUFFICES ASSUME NEW f \in FlogLanes, NEW g \in FlogLanes, f # g
                     PROVE  LaneBlock(f)' # LaneBlock(g)'
          OBVIOUS
        <4> QED BY <2>1, <1>i, <1>o, <1>b
      <3>5. \A y \in LBAs, f \in FlogLanes : Post(y)' # LaneBlock(f)'
        <4> SUFFICES ASSUME NEW y \in LBAs, NEW f \in FlogLanes PROVE Post(y)' # LaneBlock(f)'
          OBVIOUS
        <4> QED BY <2>1, <1>i, <1>u, <1>o, <1>b
      <3> QED BY <3>3, <3>4, <3>5 DEF BlocksPartitioned
    <2>2. CASE ~Incomplete(r, map)
      <3>1. (\A y \in LBAs : Post(y)' = Post(y)) /\ (\A f \in FlogLanes : LaneBlock(f)' = LaneBlock(f))
        BY <2>2, <1>n, <1>o, <1>u
      <3> QED BY <3>1, <1>b DEF BlocksPartitioned
    <2> QED BY <2>1, <2>2
  <1>9. Announced'
    BY <1>c, <1>t DEF OwnerInv, Announced
  <1> QED BY <1>1, <1>2, <1>4, <1>5, <1>6, <1>7, <1>8, <1>9 DEF OwnerInv

\* A power failure may undo the map stores that were not flushed yet: lane and
\* LBA swap their blocks back, and the flog announces the exchange again.
LEMMA OwnerCrash ==
  ASSUME OwnerInv, TypeInv', Crash
  PROVE  OwnerInv'
  <1> USE SizeAssumption
  <1>t. /\ TypeOK /\ FlogInv /\ Locked
        /\ \A l \in Lanes : LaneInv(l) /\ op[l].lba \in LBAs /\ l \in FlogLanes
        /\ mode \in {"up", "recovering"}
        /\ mode = "recovering" => \A l \in Lanes : pc[l] = "idle"
    BY OpTypes DEF OwnerInv, TypeInv, TypeOK, Modes
  <1>p. /\ mode' = "recovering" /\ rec' = 0 /\ ~laidout'
        /\ \A l \in Lanes : pc'[l] = "idle"
        /\ \A y \in LBAs : map'[y] = map[y] \/ map'[y] = pmap[y]
        /\ pmap' = map'
        /\ UNCHANGED <<flog, formatted>>
    BY DEF Crash
  <1>c. \A f \in FlogLanes : Current(f)' = Current(f)
    BY <1>p DEF Current
  <1> DEFINE Undone(k, y) == k \in Lanes /\ pc[k] = "sync" /\ op[k].lba = y /\ map'[y] # map[y]
             Back(k, y) == Undone(k, y) /\ op[k].kind = "write"
  <1>b. ASSUME formatted
        PROVE /\ \A y, z \in LBAs : y # z => Post(y) # Post(z)
              /\ \A f, g \in FlogLanes : f # g => LaneBlock(f) # LaneBlock(g)
              /\ \A y \in LBAs, f \in FlogLanes : Post(y) # LaneBlock(f)
    BY <1>b DEF OwnerInv, BlocksPartitioned
  \* A store that was undone is the one of the lane that held the lock.
  <1>u. ASSUME NEW y \in LBAs, map'[y] # map[y]
        PROVE  \E k \in Lanes : Undone(k, y)
    BY <1>u, <1>p DEF OwnerInv, Flushed
  <1>d. ASSUME NEW k, NEW y \in LBAs, Undone(k, y)
        PROVE  /\ mode = "up" /\ k \in Lanes /\ k \in FlogLanes
               /\ Resolved(y, map'[y]) = entry[k] /\ Post(y)' = entry[k].post
               /\ map[y] = NewEntry(k) /\ Resolved(y, map[y]) = NewEntry(k)
               /\ op[k].kind # "write" => entry[k].post = Post(y)
               /\ op[k].kind = "write" => /\ Current(k).lba = y /\ Current(k).old_map = entry[k]
                                         /\ Current(k).new_map = Normal(free[k])
                                         /\ Post(y) = free[k]
    <2>1. /\ mode = "up" /\ k \in Lanes /\ k \in FlogLanes /\ map'[y] = pmap[y]
          /\ map[y] = NewEntry(k) /\ entry[k] = Resolved(y, pmap[y])
      BY <1>d, <1>p, <1>t DEF LaneInv
    <2>2. Resolved(y, map[y]) = NewEntry(k)
      BY <2>1 DEF NewEntry, Resolved, Normal
    <2>3. Resolved(y, map'[y]) = entry[k] /\ Post(y)' = entry[k].post
      BY <2>1 DEF Post
    <2>4. op[k].kind # "write" => entry[k].post = Post(y)
      BY <2>2 DEF NewEntry, Post
    <2>5. op[k].kind = "write" => Post(y) = free[k]
      BY <2>2 DEF NewEntry, Post, Normal
    <2>6. op[k].kind = "write" => /\ Current(k).lba = y /\ Current(k).old_map = entry[k]
                                  /\ Current(k).new_map = Normal(free[k])
      BY <1>d, <2>1, <1>t DEF LaneInv
    <2> QED BY <2>1, <2>2, <2>3, <2>4, <2>5, <2>6
  \* The lane of an undone write swaps its block back.
  <1>s. ASSUME formatted, NEW k, NEW y \in LBAs, Back(k, y)
        PROVE  /\ k \in Lanes /\ k \in FlogLanes /\ Incomplete(k, map)' /\ ~Incomplete(k, map)
               /\ LaneBlock(k)' = Post(y) /\ Post(y)' = LaneBlock(k)
    <2>1. /\ mode = "up" /\ k \in Lanes /\ k \in FlogLanes
          /\ Resolved(y, map'[y]) = entry[k] /\ Post(y)' = entry[k].post
          /\ Current(k).lba = y /\ Current(k).old_map = entry[k]
          /\ Current(k).new_map = Normal(free[k]) /\ Post(y) = free[k]
      BY <1>s, <1>d
    <2>2. ~Incomplete(k, map)
      BY <1>s, <2>1 DEF OwnerInv, Pending
    <2>3. LaneBlock(k) = entry[k].post
      BY <2>1, <2>2 DEF LaneBlock
    <2>4. entry[k] # Normal(free[k])
      BY <1>s, <2>1, <2>3, <1>b DEF Normal
    <2>5. Incomplete(k, map)'
      BY <2>1, <2>4, <1>c DEF Incomplete
    <2>6. LaneBlock(k)' = free[k]
      BY <2>1, <2>5, <1>c DEF LaneBlock, Normal
    <2> QED BY <2>1, <2>2, <2>3, <2>5, <2>6
  \* Every other lane keeps its block.
  <1>o. ASSUME formatted, NEW f \in FlogLanes, ~\E y \in LBAs : Back(f, y)
        PROVE  (Incomplete(f, map)' <=> Incomplete(f, map)) /\ LaneBlock(f)' = LaneBlock(f)
    <2> PICK y \in LBAs : y = Current(f).lba
      BY <1>t, CurrentType
    <2>1. CASE map'[y] = map[y]
      BY <2>1, <1>c DEF Incomplete, LaneBlock
    <2>2. CASE map'[y] # map[y]
      <3>1. PICK k \in Lanes : Undone(k, y)
        BY <2>2, <1>u
      <3>2. /\ mode = "up" /\ k \in FlogLanes /\ Resolved(y, map'[y]) = entry[k]
            /\ pc[k] = "sync" /\ op[k].lba = y
        BY <3>1, <1>d
      <3>3. ~Incomplete(f, map)
        <4> SUFFICES ASSUME Incomplete(f, map) PROVE FALSE
          OBVIOUS
        <4>1. f \in Lanes /\ pc[f] = "map" /\ op[f].kind = "write"
          BY <1>o, <3>2 DEF OwnerInv, Pending
        <4>2. op[f].lba = y
          BY <4>1, <1>t DEF LaneInv
        <4> QED BY <4>1, <4>2, <3>1, <3>2, <1>t, CriticalApart DEF CritPCs
      <3>4. LaneBlock(f) = Current(f).old_map.post
        BY <3>3 DEF LaneBlock
      <3>5. Current(f).old_map.post # entry[k].post
        <4>1. CASE op[k].kind = "write"
          <5>1. Post(y)' = entry[k].post /\ Post(y)' = LaneBlock(k) /\ f # k
            BY <4>1, <3>1, <1>o, <1>s, <1>d
          <5> QED BY <5>1, <3>2, <3>4, <1>o, <1>b
        <4>2. CASE op[k].kind # "write"
          BY <4>2, <3>1, <3>4, <1>d, <1>o, <1>b
        <4> QED BY <4>1, <4>2
      <3>6. ~Incomplete(f, map)'
        BY <3>2, <3>5, <1>c DEF Incomplete
      <3> QED BY <3>3, <3>6, <3>4, <1>c DEF LaneBlock
    <2> QED BY <2>1, <2>2
  <1>y. ASSUME formatted, NEW y \in LBAs, ~\E k \in Lanes : Back(k, y)
        PROVE  Post(y)' = Post(y)
    <2>1. CASE map'[y] = map[y]
      BY <2>1 DEF Post
    <2>2. CASE map'[y] # map[y]
      <3>1. PICK k \in Lanes : Undone(k, y)
        BY <2>2, <1>u
      <3>2. op[k].kind # "write"
        BY <3>1, <1>y
      <3>3. Post(y)' = entry[k].post /\ (op[k].kind # "write" => entry[k].post = Post(y))
        BY <3>1, <1>d
      <3> QED BY <3>2, <3>3
    <2> QED BY <2>1, <2>2
  <1>1. Locked'
    BY <1>p DEF Locked, CritPCs
  <1>2. FlogInv'
    <2>1. formatted => \A f \in FlogLanes : flog[f][0].seq # flog[f][1].seq
      BY <1>t DEF FlogInv
    <2> QED BY <2>1, <1>p DEF FlogInv
  <1>4. ASSUME NEW k \in Lanes PROVE LaneInv(k)'
    BY <1>p DEF LaneInv
  <1>5. Flushed'
    BY <1>p DEF Flushed
  <1>6. Pending'
    BY <1>p DEF Pending
  <1>7. PendingApart'
    <2>1. ASSUME formatted, NEW f \in FlogLanes, NEW g \in FlogLanes, Incomplete(f, map)',
                 Incomplete(g, map)', Current(f).lba = Current(g).lba
          PROVE  f = g
      <3>1. CASE mode = "recovering"
        <4>1. \A h \in FlogLanes, y \in LBAs : ~Back(h, y)
          BY <3>1, <1>t
        <4>2. Incomplete(f, map) /\ Incomplete(g, map)
          BY <4>1, <2>1, <1>o
        <4> QED BY <4>2, <2>1, <3>1 DEF OwnerInv, PendingApart
      <3>2. CASE mode = "up"
        <4>1. ASSUME NEW h \in FlogLanes, Incomplete(h, map)'
              PROVE  h \in Lanes /\ pc[h] \in CritPCs /\ Current(h).lba = op[h].lba
          <5>1. CASE \E y \in LBAs : Back(h, y)
            BY <5>1, <1>t, <1>d DEF CritPCs
          <5>2. CASE ~\E y \in LBAs : Back(h, y)
            <6>1. h \in Lanes /\ pc[h] = "map" /\ op[h].kind = "write"
              BY <5>2, <4>1, <2>1, <3>2, <1>o DEF OwnerInv, Pending
            <6> QED BY <6>1, <1>t DEF LaneInv, CritPCs
          <5> QED BY <5>1, <5>2
        <4> QED BY <4>1, <2>1, <1>t, CriticalApart
      <3> QED BY <3>1, <3>2, <1>t
    <2> QED BY <2>1, <1>c, <1>p DEF PendingApart
  <1>8. BlocksPartitioned'
    <2> SUFFICES ASSUME formatted PROVE BlocksPartitioned'
      BY <1>p DEF BlocksPartitioned
    <2>1. ASSUME NEW f, NEW g, NEW y \in LBAs, Back(f, y), Back(g, y) PROVE f = g
      BY <2>1, <1>t, CriticalApart DEF CritPCs
    <2>2. ASSUME NEW f, NEW y, NEW z, Back(f, y), Back(f, z) PROVE y = z
      BY <2>2
    <2> HIDE DEF Back
    <2>3. \A y, z \in LBAs : y # z => Post(y)' # Post(z)'
      <3> SUFFICES ASSUME NEW y \in LBAs, NEW z \in LBAs, y # z PROVE Post(y)' # Post(z)'
        OBVIOUS
      <3> QED BY <1>b, <1>s, <1>y, <2>2
    <2>4. \A f, g \in FlogLanes : f # g => LaneBlock(f)' # LaneBlock(g)'
      <3> SUFFICES ASSUME NEW f \in FlogLanes, NEW g \in FlogLanes, f # g
                   PROVE  LaneBlock(f)' # LaneBlock(g)'
        OBVIOUS
      <3> QED BY <1>b, <1>s, <1>o, <2>1
    <2>5. \A y \in LBAs, f \in FlogLanes : Post(y)' # LaneBlock(f)'
      <3> SUFFICES ASSUME NEW y \in LBAs, NEW f \in FlogLanes PROVE Post(y)' # LaneBlock(f)'
        OBVIOUS
      <3> QED BY <1>b, <1>s, <1>y, <1>o, <2>1, <2>2
    <2> QED BY <2>3, <2>4, <2>5 DEF BlocksPartitioned
  <1>9. Announced'
    BY <1>c, <1>p DEF OwnerInv, Announced
  <1> QED BY <1>1, <1>2, <1>4, <1>5, <1>6, <1>7, <1>8, <1>9 DEF OwnerInv

LEMMA OwnerStart == Init => OwnerInv
  <1> SUFFICES ASSUME Init PROVE OwnerInv
    OBVIOUS
  <1> USE SizeAssumption DEF Init
  <1>1. TypeInv
    BY TypeInit
  <1>2. Locked /\ \A l \in Lanes : LaneInv(l)
    BY DEF Locked, LaneInv, CritPCs
  <1>3. FlogInv /\ Announced /\ Flushed /\ Pending /\ PendingApart /\ BlocksPartitioned
    BY DEF FlogInv, Announced, Flushed, Pending, PendingApart, BlocksPartitioned
  <1> QED BY <1>1, <1>2, <1>3 DEF OwnerInv

LEMMA OwnerStep == OwnerInv /\ [Next]_vars => OwnerInv'
  <1> SUFFICES ASSUME OwnerInv, [Next]_vars PROVE OwnerInv'
    OBVIOUS
  <1>t. TypeInv'
    BY TypeStep DEF OwnerInv
  <1>1. ASSUME NEW l \in Lanes, Call(l) PROVE OwnerInv'
    BY <1>t, <1>1, OwnerFrameSteps
  <1>2. ASSUME NEW l \in Lanes, LaneStep(l), ~Spin(l) PROVE OwnerInv'
    <2>1. CASE WriteLayout(l)
      BY <1>t, <2>1, OwnerFrameSteps, OwnerWriteLayout
    <2>2. CASE \/ CheckLaidout(l) \/ CheckArena(l) \/ ReadMap(l) \/ SetRtt(l) \/ ReadMapAgain(l)
               \/ ReadData(l) \/ ClearRtt(l) \/ ScanRtt(l) \/ WriteData(l) \/ DataWritten(l)
               \/ Return(l)
      BY <1>t, <2>2, OwnerFrameSteps
    <2>3. CASE map_lock(l)
      BY <1>t, <2>3, OwnerLock
    <2>4. CASE FlogFirst(l)
      BY <1>t, <2>4, OwnerFlogFirst
    <2>5. CASE FlogSecond(l)
      BY <1>t, <2>5, OwnerFlogSecond
    <2>6. CASE StoreMap(l)
      BY <1>t, <2>6, OwnerStoreMap
    <2>7. CASE map_unlock(l)
      BY <1>t, <2>7, OwnerUnlock
    <2> QED BY <1>2, <2>1, <2>2, <2>3, <2>4, <2>5, <2>6, <2>7 DEF LaneStep
  <1>3. CASE Crash
    BY <1>t, <1>3, OwnerCrash
  <1>4. CASE read_flog_pair
    BY <1>t, <1>4, OwnerRecover
  <1>5. CASE btt_init
    BY <1>t, <1>5, OwnerInit
  <1>6. CASE UNCHANGED vars
    <2>1. UNCHANGED <<formatted, map, pmap, flog, mode, rec, laidout, rt, map_locks, pc, op, entry, free>>
      BY <1>6 DEF vars, media, arena, locals
    <2>3. /\ \A f \in FlogLanes : Current(f)' = Current(f)
          /\ \A f \in FlogLanes : Incomplete(f, map)' <=> Incomplete(f, map)
          /\ \A f \in FlogLanes : LaneBlock(f)' = LaneBlock(f)
          /\ \A x \in LBAs : Post(x)' = Post(x)
      BY <2>1 DEF Current, Incomplete, LaneBlock, Post
    <2>4. Locked' /\ Flushed'
      BY <2>1 DEF OwnerInv, Locked, map_lock_num, Flushed
    <2>5. FlogInv'
      BY <2>1 DEF OwnerInv, FlogInv, Runtime, CurrentIdx
    <2>6. ASSUME NEW k \in Lanes PROVE LaneInv(k)'
      <3>1. LaneInv(k) /\ k \in FlogLanes
        BY SizeAssumption DEF OwnerInv
      <3> QED BY <2>1, <2>3, <3>1 DEF LaneInv, NewEntry
    <2>7. Pending' /\ PendingApart' /\ BlocksPartitioned' /\ Announced'
      BY <2>1, <2>3 DEF OwnerInv, Pending, PendingApart, BlocksPartitioned, Announced
    <2> QED BY <1>t, <2>4, <2>5, <2>6, <2>7 DEF OwnerInv
  <1> QED BY <1>1, <1>2, <1>3, <1>4, <1>5, <1>6 DEF Next, Spin, Finished

\* No post-map block ever belongs to two owners, whatever the lanes do and
\* whenever the power fails: the argument for the atomicity of btt_write.
THEOREM BlocksOwned == Spec => []BlocksPartitioned
  <1>1. Spec => []OwnerInv
    BY OwnerStart, OwnerStep, PTL DEF Spec
  <1> QED BY <1>1, PTL DEF OwnerInv

\* The free block btt_write takes from the run-time flog is the one recovery
\* would take from the media.
THEOREM FreeBlocksKnown == Spec => []RuntimeMatchesFlog
  <1>1. OwnerInv => RuntimeMatchesFlog
    BY DEF OwnerInv, FlogInv, RuntimeMatchesFlog
  <1> QED BY <1>1, OwnerStart, OwnerStep, PTL DEF Spec

\* read_flog_pair never meets a pair with equal sequence numbers, so recovery
\* never sets the arena's error flag.
THEOREM RecoveryNeverFails == Spec => []FlogUnambiguous
  <1> DEFINE Inv == OwnerInv /\ ~arena_error
  <1>1. Init => Inv
    BY OwnerStart DEF Init
  <1>2. Inv /\ [Next]_vars => Inv'
    <2> SUFFICES ASSUME OwnerInv, ~arena_error, [Next]_vars PROVE ~arena_error'
      BY OwnerStep
    <2> USE DEF vars, media, arena
    <2>1. ASSUME NEW l \in Lanes, Call(l) PROVE ~arena_error'
      BY <2>1 DEF Call, btt_read, btt_write, btt_set_zero, btt_set_error, Begin
    <2>2. ASSUME NEW l \in Lanes, LaneStep(l) PROVE ~arena_error'
      BY <2>2 DEF LaneStep, CheckLaidout, WriteLayout, CheckArena, ReadMap, SetRtt, ReadMapAgain,
           ReadData, ClearRtt, Spin, ScanRtt, WriteData, DataWritten, map_lock, FlogFirst,
           FlogSecond, StoreMap, map_unlock, Return
    <2>3. CASE read_flog_pair
      <3>1. rec \in FlogLanes
        BY <2>3, SizeAssumption DEF OwnerInv, TypeInv, TypeOK, read_flog_pair
      <3> QED BY <2>3, <3>1 DEF OwnerInv, FlogInv, read_flog_pair
    <2> QED BY <2>1, <2>2, <2>3 DEF Next, Crash, btt_init, Finished
  <1>3. Inv => FlogUnambiguous
    BY DEF OwnerInv, FlogInv, FlogUnambiguous
  <1> QED BY <1>1, <1>2, <1>3, PTL DEF Spec

-----------------------------------------------------------------------------
(* The read tracking table.                                                *)

\* What a lane in btt_read announces, and where a lane that does not scan
\* the table starts to.
LaneReads(l) ==
  /\ pc[l] \in {"r_rtt", "r_again", "r_data"} => entry[l].flag = "normal"
  /\ pc[l] \in {"r_again", "r_data"} => rtt[l] = entry[l].post
  /\ pc[l] # "scan" => scan[l] = 0

\* A writer whose free block lane l copies out has not got past slot l.
Held(l, k) ==
  pc[l] = "r_data" /\ pc[k] \in {"scan", "w_data", "w_copy"} /\ free[k] = entry[l].post =>
    pc[k] = "scan" /\ scan[k] <= l

ReaderInv ==
  /\ OwnerInv
  /\ \A l \in Lanes : LaneReads(l)
  /\ \A l, k \in Lanes : Held(l, k)

\* The block that a write fills is the free block of its lane.
LEMMA FreeIsOwned ==
  ASSUME OwnerInv, NEW k \in Lanes, pc[k] \in {"scan", "w_data", "w_copy"}
  PROVE  free[k] = LaneBlock(k) /\ formatted /\ k \in FlogLanes
  <1>1. k \in FlogLanes
    BY SizeAssumption
  <1>2. op[k].kind = "write" /\ laidout
    BY DEF OwnerInv, TypeInv, Control, LaneControl, WritePCs
  <1>3. mode = "up" /\ formatted
    BY <1>2 DEF OwnerInv, TypeInv, TypeOK, Modes
  <1>4. free[k] = rt[k].old_map.post /\ rt[k] = Runtime(flog[k])
    BY <1>1, <1>2 DEF OwnerInv, LaneInv, FlogInv
  <1>5. rt[k].old_map = Current(k).old_map
    BY <1>4 DEF Runtime, Current
  <1>6. ~Incomplete(k, map)
    BY <1>1, <1>3 DEF OwnerInv, Pending
  <1> QED BY <1>1, <1>3, <1>4, <1>5, <1>6 DEF LaneBlock

\* A step of one lane leaves the calls on the others and their slots alone.
LEMMA OtherLanes ==
  ASSUME TypeInv, NEW l \in Lanes, Call(l) \/ LaneStep(l), NEW k \in Lanes, k # l
  PROVE  /\ pc'[k] = pc[k] /\ op'[k] = op[k] /\ entry'[k] = entry[k] /\ free'[k] = free[k]
         /\ scan'[k] = scan[k] /\ res'[k] = res[k]
         /\ pc[k] \in ReadPCs => rtt'[k] = rtt[k]
  <1>t. /\ pc \in [Lanes -> PCs] /\ op \in [Lanes -> Op] /\ entry \in [Lanes -> Entry]
        /\ free \in [Lanes -> Blocks \cup {NoBlock}] /\ scan \in [Lanes -> Lanes]
        /\ res \in [Lanes -> Values \cup {Zero, EIO, Torn}]
        /\ rtt \in [FlogLanes -> Blocks \cup {NoBlock}] /\ k \in FlogLanes /\ l \in FlogLanes
    <2>1. k \in FlogLanes /\ l \in FlogLanes
      BY SizeAssumption
    <2> QED BY <2>1 DEF TypeInv, TypeOK
  <1> USE DEF media, arena, locals, bounds, vars
  <1>1. CASE Call(l)
    BY <1>1, <1>t DEF Call, btt_read, btt_write, btt_set_zero, btt_set_error, Begin, Goto
  <1>2. CASE CheckLaidout(l) \/ CheckArena(l) \/ Return(l) \/ ReadData(l) \/ Spin(l) \/ ScanRtt(l)
    BY <1>2, <1>t DEF CheckLaidout, CheckArena, Return, ReadData, Spin, ScanRtt, Goto
  <1>3. CASE WriteLayout(l)
    <2>1. pc[k] \in ReadPCs => laidout
      BY DEF TypeInv, Control, LaneControl, ReadPCs
    <2> QED BY <1>3, <1>t, <2>1 DEF WriteLayout, Goto
  <1>4. CASE ReadMap(l) \/ SetRtt(l) \/ ClearRtt(l)
    BY <1>4, <1>t DEF ReadMap, Examine, SetRtt, ClearRtt, Goto
  <1>5. CASE ReadMapAgain(l)
    <2>1. CASE map[op[l].lba] = entry[l]
      BY <1>5, <2>1, <1>t DEF ReadMapAgain
    <2>2. CASE map[op[l].lba] # entry[l]
      BY <1>5, <2>2, <1>t DEF ReadMapAgain, Examine
    <2> QED BY <2>1, <2>2
  <1>6. CASE WriteData(l) \/ DataWritten(l) \/ map_lock(l) \/ FlogFirst(l) \/ FlogSecond(l)
             \/ StoreMap(l) \/ map_unlock(l)
    BY <1>6, <1>t DEF WriteData, DataWritten, map_lock, FlogFirst, FlogSecond, StoreMap,
       map_unlock, Goto
  <1> QED BY <1>1, <1>2, <1>3, <1>4, <1>5, <1>6 DEF LaneStep

LEMMA LaneReadsStep ==
  ASSUME TypeInv, NEW l \in Lanes, Call(l) \/ LaneStep(l), LaneReads(l)
  PROVE  LaneReads(l)'
  <1>t. /\ pc \in [Lanes -> PCs] /\ entry \in [Lanes -> Entry] /\ scan \in [Lanes -> Lanes]
        /\ rtt \in [FlogLanes -> Blocks \cup {NoBlock}] /\ l \in FlogLanes
        /\ map[op[l].lba] \in Entry
    BY SizeAssumption, OpTypes DEF TypeInv, TypeOK
  <1> USE DEF media, arena, locals, bounds, vars, LaneReads
  <1>1. CASE Call(l)
    BY <1>1, <1>t DEF Call, btt_read, btt_write, btt_set_zero, btt_set_error, Begin, Goto
  <1>2. CASE CheckLaidout(l) \/ CheckArena(l) \/ Return(l) \/ ReadData(l) \/ Spin(l)
    BY <1>2, <1>t DEF CheckLaidout, CheckArena, Return, ReadData, Spin, Goto
  <1>3. CASE ScanRtt(l)
    BY <1>3, <1>t DEF ScanRtt, Goto
  <1>4. CASE WriteLayout(l)
    BY <1>4, <1>t DEF WriteLayout, Goto
  <1>5. CASE ReadMap(l)
    <2>1. map[op[l].lba].flag \in Flags
      BY <1>t DEF Entry
    <2> QED BY <1>5, <1>t, <2>1 DEF ReadMap, Examine, ZeroOrInitial, Flags
  <1>6. CASE SetRtt(l) \/ ClearRtt(l)
    BY <1>6, <1>t DEF SetRtt, ClearRtt, Goto
  <1>7. CASE ReadMapAgain(l)
    <2>1. CASE map[op[l].lba] = entry[l]
      BY <1>7, <2>1, <1>t DEF ReadMapAgain
    <2>2. CASE map[op[l].lba] # entry[l]
      <3>1. map[op[l].lba].flag \in Flags
        BY <1>t DEF Entry
      <3> QED BY <1>7, <2>2, <3>1, <1>t DEF ReadMapAgain, Examine, ZeroOrInitial, Flags
    <2> QED BY <2>1, <2>2
  <1>8. CASE WriteData(l) \/ DataWritten(l) \/ map_lock(l) \/ FlogFirst(l) \/ FlogSecond(l)
             \/ StoreMap(l) \/ map_unlock(l)
    BY <1>8, <1>t DEF WriteData, DataWritten, map_lock, FlogFirst, FlogSecond, StoreMap,
       map_unlock, Goto
  <1> QED BY <1>1, <1>2, <1>3, <1>4, <1>5, <1>6, <1>7, <1>8 DEF LaneStep

\* A lane that passes the second look at the map read the entry of a block
\* no lane holds; whoever takes that block later meets the slot.
LEMMA HeldStep ==
  ASSUME ReaderInv, NEW m \in Lanes, Call(m) \/ LaneStep(m), NEW l \in Lanes, NEW k \in Lanes
  PROVE  Held(l, k)'
  <1>i. /\ OwnerInv /\ TypeInv /\ LaneReads(l) /\ LaneReads(k) /\ Held(l, k)
    BY DEF ReaderInv, OwnerInv
  <1>t. /\ pc \in [Lanes -> PCs] /\ entry \in [Lanes -> Entry] /\ scan \in [Lanes -> Lanes]
        /\ free \in [Lanes -> Blocks \cup {NoBlock}]
        /\ rtt \in [FlogLanes -> Blocks \cup {NoBlock}] /\ l \in FlogLanes /\ k \in FlogLanes
        /\ map[op[l].lba] \in Entry /\ op[l].lba \in LBAs
    BY <1>i, SizeAssumption, OpTypes DEF TypeInv, TypeOK
  <1> SUFFICES ASSUME pc'[l] = "r_data", pc'[k] \in {"scan", "w_data", "w_copy"},
                      free'[k] = entry'[l].post
               PROVE  pc'[k] = "scan" /\ scan'[k] <= l
    BY DEF Held
  <1>a. l # k
    OBVIOUS
  <1> USE DEF media, arena, locals, bounds, vars
  <1>1. CASE m = l
    <2>1. pc'[k] = pc[k] /\ free'[k] = free[k] /\ scan'[k] = scan[k]
      BY <1>1, <1>a, <1>i, OtherLanes
    <2>2. pc[l] = "r_again" /\ map[op[l].lba] = entry[l] /\ entry' = entry
      BY <1>1, <1>t DEF Call, btt_read, btt_write, btt_set_zero, btt_set_error, Begin, Goto,
         LaneStep, CheckLaidout, CheckArena, WriteLayout, Return, ReadData, Spin, ScanRtt, ReadMap,
         ReadMapAgain, Examine, SetRtt, ClearRtt, WriteData, DataWritten, map_lock, FlogFirst,
         FlogSecond, StoreMap, map_unlock
    <2>3. Post(op[l].lba) = entry[l].post
      BY <2>2, <1>i DEF LaneReads, Post, Resolved
    <2>4. free[k] = LaneBlock(k) /\ formatted
      BY <2>1, <1>i, FreeIsOwned
    <2>5. Post(op[l].lba) # LaneBlock(k)
      BY <2>4, <1>i, <1>t DEF OwnerInv, BlocksPartitioned
    <2> QED BY <2>1, <2>2, <2>3, <2>4, <2>5
  <1>2. CASE m = k
    <2>1. pc'[l] = pc[l] /\ entry'[l] = entry[l]
      BY <1>2, <1>a, <1>i, OtherLanes
    <2>2. rtt[l] = entry[l].post
      BY <2>1, <1>i DEF LaneReads
    <2>3. CASE CheckArena(k)
      <3>1. pc[k] = "check" /\ pc'[k] = "scan" /\ scan' = scan
        BY <2>3, <1>t DEF CheckArena, Goto
      <3>2. scan[k] = 0
        BY <3>1, <1>i DEF LaneReads
      <3> QED BY <3>1, <3>2
    <2>4. CASE Spin(k)
      BY <2>4, <2>1, <1>i DEF Spin, Held
    <2>5. CASE ScanRtt(k)
      <3>1. /\ pc[k] = "scan" /\ free' = free /\ rtt[scan[k]] # free[k]
            /\ scan'[k] = IF scan[k] + 1 = nlane THEN 0 ELSE scan[k] + 1
            /\ pc'[k] = IF scan[k] + 1 = nlane THEN "w_data" ELSE "scan"
        BY <2>5, <1>t DEF ScanRtt, Goto
      <3>2. scan[k] <= l
        BY <3>1, <2>1, <1>i DEF Held
      <3>3. scan[k] # l
        BY <3>1, <2>1, <2>2
      <3>4. scan[k] + 1 <= l /\ scan[k] + 1 # nlane
        <4>1. scan[k] \in Nat /\ l \in Nat /\ l < nlane /\ nlane \in Nat
          BY <1>t, SizeAssumption
        <4> DEFINE n == scan[k]
        <4> HIDE DEF n
        <4>2. n + 1 <= l /\ n + 1 # nlane
          BY <4>1, <3>2, <3>3 DEF n
        <4> QED BY <4>2 DEF n
      <3> QED BY <3>1, <3>4
    <2>6. CASE WriteData(k)
      BY <2>6, <2>1, <1>t, <1>i DEF WriteData, Goto, Held
    <2>7. pc'[k] \in {"scan", "w_data", "w_copy"} =>
            CheckArena(k) \/ Spin(k) \/ ScanRtt(k) \/ WriteData(k)
      BY <1>2, <1>t DEF Call, btt_read, btt_write, btt_set_zero, btt_set_error, Begin, Goto,
         LaneStep, CheckLaidout, WriteLayout, Return, ReadData, ReadMap, ReadMapAgain, Examine,
         SetRtt, ClearRtt, DataWritten, map_lock, FlogFirst, FlogSecond, StoreMap, map_unlock
    <2> QED BY <2>3, <2>4, <2>5, <2>6, <2>7
  <1>3. CASE m # l /\ m # k
    <2>1. pc'[k] = pc[k] /\ free'[k] = free[k] /\ scan'[k] = scan[k]
      BY <1>3, <1>i, OtherLanes
    <2>2. pc'[l] = pc[l] /\ entry'[l] = entry[l]
      BY <1>3, <1>i, OtherLanes
    <2> QED BY <2>1, <2>2, <1>i DEF Held
  <1> QED BY <1>1, <1>2, <1>3

LEMMA ReaderStart == Init => ReaderInv
  <1> SUFFICES ASSUME Init PROVE ReaderInv
    OBVIOUS
  <1>1. ASSUME NEW l \in Lanes PROVE pc[l] = "idle" /\ scan[l] = 0
    BY DEF Init
  <1> QED BY <1>1, OwnerStart DEF ReaderInv, LaneReads, Held

LEMMA ReaderStep == ReaderInv /\ [Next]_vars => ReaderInv'
  <1> SUFFICES ASSUME ReaderInv, [Next]_vars PROVE ReaderInv'
    OBVIOUS
  <1>0. OwnerInv /\ OwnerInv' /\ TypeInv
    BY OwnerStep DEF ReaderInv, OwnerInv
  <1>1. ASSUME NEW m \in Lanes, Call(m) \/ LaneStep(m) PROVE ReaderInv'
    <2>1. ASSUME NEW l \in Lanes PROVE LaneReads(l)'
      <3>0. LaneReads(l)
        BY DEF ReaderInv
      <3>1. CASE l = m
        BY <3>0, <3>1, <1>0, <1>1, LaneReadsStep
      <3>2. CASE l # m
        <4>1. /\ pc'[l] = pc[l] /\ entry'[l] = entry[l] /\ scan'[l] = scan[l]
              /\ pc[l] \in ReadPCs => rtt'[l] = rtt[l]
          BY <3>2, <1>0, <1>1, OtherLanes
        <4> QED BY <4>1, <3>0 DEF LaneReads, ReadPCs
      <3> QED BY <3>1, <3>2
    <2>2. ASSUME NEW l \in Lanes, NEW k \in Lanes PROVE Held(l, k)'
      BY <1>1, HeldStep
    <2> QED BY <1>0, <2>1, <2>2 DEF ReaderInv
  <1>2. ASSUME read_flog_pair \/ btt_init \/ UNCHANGED vars PROVE ReaderInv'
    <2>1. UNCHANGED <<pc, entry, free, scan, rtt>>
      BY <1>2 DEF read_flog_pair, btt_init, vars, arena, locals
    <2> QED BY <2>1, <1>0 DEF ReaderInv, LaneReads, Held
  <1>3. CASE Crash
    <2>1. ASSUME NEW l \in Lanes PROVE pc'[l] = "idle" /\ scan'[l] = 0
      BY <1>3 DEF Crash
    <2> QED BY <2>1, <1>0 DEF ReaderInv, LaneReads, Held
  <1> QED BY <1>1, <1>2, <1>3 DEF Next, Finished

\* The read tracking table does what it is for: while btt_read copies a block,
\* no btt_write fills it, whatever the lanes do.
THEOREM ReadsProtected == Spec => []NoReadOfBlockBeingWritten
  <1>1. ReaderInv => NoReadOfBlockBeingWritten
    <2> SUFFICES ASSUME ReaderInv, NEW l \in Lanes, NEW k \in Lanes, pc[l] = "r_data",
                        pc[k] \in {"w_data", "w_copy"}
                 PROVE  entry[l].post # free[k]
      BY DEF NoReadOfBlockBeingWritten
    <2> QED BY DEF ReaderInv, Held
  <1> QED BY <1>1, ReaderStart, ReaderStep, PTL DEF Spec

\* As long as the callers only read and write, the entry of a block that is
\* being read stays a normal one, so the loop of btt_read only ends in a copy.
LaneSlot(l) ==
  /\ op[l].kind \in {"idle", "read", "write"}
  /\ pc[l] \in {"r_rtt", "r_again"} => map[op[l].lba].flag = "normal"
  /\ rtt[l] # NoBlock => pc[l] \in {"r_rtt", "r_again", "r_data", "r_clear"}

SlotInv == TypeInv /\ \A l \in Lanes : LaneSlot(l)

LEMMA LaneSlotOwn ==
  ASSUME Ops \subseteq {"read", "write"}, TypeInv, NEW l \in Lanes, Call(l) \/ LaneStep(l), LaneSlot(l)
  PROVE  LaneSlot(l)'
  <1>t. /\ pc \in [Lanes -> PCs] /\ op \in [Lanes -> Op] /\ entry \in [Lanes -> Entry]
        /\ rtt \in [FlogLanes -> Blocks \cup {NoBlock}] /\ l \in FlogLanes
        /\ map[op[l].lba] \in Entry
    BY SizeAssumption, OpTypes DEF TypeInv, TypeOK
  <1>f. map[op[l].lba].flag \in Flags
    BY <1>t DEF Entry
  <1> USE DEF media, arena, locals, bounds, vars, LaneSlot
  <1>1. CASE Call(l)
    <2>1. PICK o : Begin(l, o)
      BY <1>1 DEF Call, btt_read, btt_write, btt_set_zero, btt_set_error
    <2> QED BY <2>1, <1>t DEF Begin, Goto
  <1>2. CASE CheckLaidout(l) \/ CheckArena(l) \/ ReadData(l) \/ Spin(l) \/ ScanRtt(l)
    BY <1>2, <1>t DEF CheckLaidout, CheckArena, ReadData, Spin, ScanRtt, Goto
  <1>3. CASE WriteLayout(l)
    BY <1>3, <1>t DEF WriteLayout, Goto
  <1>4. CASE Return(l)
    BY <1>4, <1>t DEF Return, Goto, NoOp
  <1>5. CASE ReadMap(l)
    BY <1>5, <1>t, <1>f DEF ReadMap, Examine, ZeroOrInitial, Flags
  <1>6. CASE SetRtt(l) \/ ClearRtt(l)
    BY <1>6, <1>t DEF SetRtt, ClearRtt, Goto
  <1>7. CASE ReadMapAgain(l)
    <2>1. CASE map[op[l].lba] = entry[l]
      BY <1>7, <2>1, <1>t DEF ReadMapAgain
    <2>2. CASE map[op[l].lba] # entry[l]
      BY <1>7, <2>2, <1>t DEF ReadMapAgain, Examine, ZeroOrInitial
    <2> QED BY <2>1, <2>2
  <1>8. CASE WriteData(l) \/ DataWritten(l) \/ map_lock(l) \/ FlogFirst(l) \/ FlogSecond(l)
             \/ StoreMap(l) \/ map_unlock(l)
    BY <1>8, <1>t DEF WriteData, DataWritten, map_lock, FlogFirst, FlogSecond, StoreMap,
       map_unlock, Goto
  <1> QED BY <1>1, <1>2, <1>3, <1>4, <1>5, <1>6, <1>7, <1>8 DEF LaneStep

\* What a lane's step does to the map as another lane sees it.
LEMMA MapStep ==
  ASSUME TypeInv, NEW l \in Lanes, Call(l) \/ LaneStep(l)
  PROVE  \/ map' = map
         \/ ~laidout
         \/ StoreMap(l)
  <1> USE DEF media, arena, locals, bounds, vars
  <1>1. CASE Call(l)
    BY <1>1 DEF Call, btt_read, btt_write, btt_set_zero, btt_set_error, Begin
  <1>2. CASE WriteLayout(l)
    BY <1>2 DEF WriteLayout
  <1>3. CASE \/ CheckLaidout(l) \/ CheckArena(l) \/ ReadData(l) \/ Spin(l) \/ ScanRtt(l) \/ Return(l)
             \/ ReadMap(l) \/ SetRtt(l) \/ ClearRtt(l) \/ ReadMapAgain(l)
             \/ WriteData(l) \/ DataWritten(l) \/ map_lock(l) \/ FlogFirst(l) \/ FlogSecond(l)
             \/ map_unlock(l)
    BY <1>3 DEF CheckLaidout, CheckArena, ReadData, Spin, ScanRtt, Return, ReadMap, SetRtt, ClearRtt,
       ReadMapAgain, WriteData, DataWritten, map_lock, FlogFirst, FlogSecond, map_unlock
  <1> QED BY <1>1, <1>2, <1>3 DEF LaneStep

\* Only WriteLayout, and only before there is a layout, touches another slot.
LEMMA OtherSlot ==
  ASSUME TypeInv, NEW l \in Lanes, Call(l) \/ LaneStep(l), NEW k \in Lanes, k # l
  PROVE  rtt'[k] \in {rtt[k], NoBlock}
  <1>t. rtt \in [FlogLanes -> Blocks \cup {NoBlock}] /\ k \in FlogLanes /\ l \in FlogLanes
    <2>1. k \in FlogLanes /\ l \in FlogLanes
      BY SizeAssumption
    <2> QED BY <2>1 DEF TypeInv, TypeOK
  <1> USE DEF media, arena, locals, bounds, vars
  <1>1. CASE Call(l)
    BY <1>1 DEF Call, btt_read, btt_write, btt_set_zero, btt_set_error, Begin
  <1>2. CASE WriteLayout(l)
    BY <1>2, <1>t DEF WriteLayout
  <1>3. CASE SetRtt(l) \/ ClearRtt(l)
    BY <1>3, <1>t DEF SetRtt, ClearRtt
  <1>4. CASE \/ CheckLaidout(l) \/ CheckArena(l) \/ ReadData(l) \/ Spin(l) \/ ScanRtt(l) \/ Return(l)
             \/ ReadMap(l) \/ ReadMapAgain(l)
             \/ WriteData(l) \/ DataWritten(l) \/ map_lock(l) \/ FlogFirst(l) \/ FlogSecond(l)
             \/ StoreMap(l) \/ map_unlock(l)
    BY <1>4 DEF CheckLaidout, CheckArena, ReadData, Spin, ScanRtt, Return, ReadMap, StoreMap,
       ReadMapAgain, WriteData, DataWritten, map_lock, FlogFirst, FlogSecond, map_unlock
  <1> QED BY <1>1, <1>2, <1>3, <1>4 DEF LaneStep

LEMMA SlotStep == ASSUME Ops \subseteq {"read", "write"} PROVE SlotInv /\ [Next]_vars => SlotInv'
  <1> SUFFICES ASSUME SlotInv, [Next]_vars PROVE SlotInv'
    OBVIOUS
  <1>0. TypeInv /\ TypeInv'
    BY TypeStep DEF SlotInv
  <1>1. ASSUME NEW m \in Lanes, Call(m) \/ LaneStep(m), NEW l \in Lanes PROVE LaneSlot(l)'
    <2>0. LaneSlot(l) /\ LaneSlot(m)
      BY DEF SlotInv
    <2>1. CASE l = m
      BY <2>0, <2>1, <1>0, <1>1, LaneSlotOwn
    <2>2. CASE l # m
      <3>1. /\ pc'[l] = pc[l] /\ op'[l] = op[l] /\ rtt'[l] \in {rtt[l], NoBlock}
        BY <2>2, <1>0, <1>1, OtherLanes, OtherSlot
      <3>2. ASSUME pc[l] \in {"r_rtt", "r_again"} PROVE map'[op[l].lba].flag = "normal"
        <4>1. laidout /\ map[op[l].lba].flag = "normal"
          BY <3>2, <2>0, <1>0 DEF LaneSlot, TypeInv, Control, LaneControl
        <4>2. CASE StoreMap(m)
          <5>1. pc[m] = "map" /\ op[m].kind = "write"
            BY <4>2, <2>0, <1>0 DEF StoreMap, Goto, LaneSlot, TypeInv, Control, LaneControl
          <5>2. map' = [map EXCEPT ![op[m].lba] = Normal(free[m])]
            BY <4>2, <5>1 DEF StoreMap, NewEntry
          <5>3. map \in [LBAs -> Entry] /\ op[l].lba \in LBAs
            BY <1>0, OpTypes DEF TypeInv, TypeOK
          <5> QED BY <4>1, <5>2, <5>3 DEF Normal
        <4> QED BY <4>1, <4>2, <1>0, <1>1, MapStep
      <3> QED BY <3>1, <3>2, <2>0 DEF LaneSlot
    <2> QED BY <2>1, <2>2
  <1>2. ASSUME btt_init \/ UNCHANGED vars, NEW l \in Lanes PROVE LaneSlot(l)'
    <2>1. UNCHANGED <<pc, op, map, rtt>>
      BY <1>2 DEF btt_init, vars, arena, locals, media
    <2> QED BY <2>1 DEF SlotInv, LaneSlot
  <1>3. ASSUME read_flog_pair, NEW l \in Lanes PROVE LaneSlot(l)'
    <2>1. UNCHANGED <<pc, op, rtt>> /\ mode = "recovering"
      BY <1>3 DEF read_flog_pair, locals
    <2>2. pc[l] = "idle"
      BY <2>1, <1>0 DEF TypeInv, Modes
    <2> QED BY <2>1, <2>2 DEF SlotInv, LaneSlot
  <1>4. ASSUME Crash, NEW l \in Lanes PROVE LaneSlot(l)'
    <2>1. l \in FlogLanes
      BY SizeAssumption
    <2>2. pc'[l] = "idle" /\ op'[l] = NoOp /\ rtt'[l] = NoBlock
      BY <1>4, <2>1 DEF Crash
    <2> QED BY <2>2 DEF LaneSlot, NoOp
  <1> QED BY <1>0, <1>1, <1>2, <1>3, <1>4 DEF Next, Finished, SlotInv

\* "Unused slots in the rtt are indicated by setting the error bit": a writer
\* only ever waits for a read in progress, provided that no caller flags
\* blocks.  (With btt_set_zero or btt_set_error a read whose block is flagged
\* in between returns and leaves its slot set.)
THEOREM SlotsAnnounceReads ==
  ASSUME Ops \subseteq {"read", "write"} PROVE Spec => []RttAnnouncesReads
  <1>1. Init => SlotInv
    <2> SUFFICES ASSUME Init PROVE SlotInv
      OBVIOUS
    <2>1. ASSUME NEW l \in Lanes PROVE pc[l] = "idle" /\ op[l] = NoOp /\ rtt[l] = NoBlock
      <3>1. l \in FlogLanes
        BY SizeAssumption
      <3> QED BY <3>1 DEF Init
    <2> QED BY <2>1, TypeInit DEF SlotInv, LaneSlot, NoOp
  <1>2. SlotInv /\ [Next]_vars => SlotInv'
    BY SlotStep
  <1>3. SlotInv => RttAnnouncesReads
    BY DEF SlotInv, LaneSlot, RttAnnouncesReads
  <1> QED BY <1>1, <1>2, <1>3, PTL DEF Spec
=============================================================================
