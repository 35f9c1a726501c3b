------------------------------ MODULE PmemLog ------------------------------
(***************************************************************************)
(* A log memory pool (src/libpmemlog/log.c): its creation, the appends,    *)
(* rewinds, walks and tells of several threads under one reader/writer     *)
(* lock, power failures at any step, and the validation when it is opened. *)
(*                                                                         *)
(* A store to mapped memory is visible at once and durable when it was     *)
(* flushed, or earlier by chance.  Offsets are positions in the pool file; *)
(* arithmetic on them wraps at OffsetMod (2^64 in the code).               *)
(***************************************************************************)
EXTENDS Integers, Sequences

CONSTANTS
  Threads,
  Start,       \* roundup(sizeof (struct pmemlog), LOG_FORMAT_DATA_ALIGN)
  PoolSize,
  OffsetMod,
  Byte,        \* contents of the log
  Meta,        \* contents of the pool before Start
  Bufs,        \* what is appended: sequences of bytes
  ChunkSizes,  \* the chunk sizes of walks
  MaxOps,      \* bound: calls started
  MaxCrash     \* bound: power failures

NoThread == "none"

ASSUME PoolAssumption ==
  /\ Start \in Nat \ {0} /\ PoolSize \in Nat /\ Start < PoolSize
  /\ OffsetMod \in Nat /\ PoolSize < OffsetMod
ASSUME InputAssumption ==
  /\ NoThread \notin Threads /\ Meta \notin Byte
  /\ Bufs \subseteq Seq(Byte)
  /\ ChunkSizes \subseteq 0 .. OffsetMod - 1
ASSUME LogBounds == MaxOps \in Nat /\ MaxCrash \in Nat

VARIABLES
  \* on media
  hdr,            \* the pool header: "zero", "torn" or "valid"
  start_offset, end_offset, write_offset,
  flushed_offset, \* write_offset as far as it was flushed
  data,           \* [0 .. PoolSize - 1 -> Byte \cup {Meta}]
  flushed_data,   \* data as far as it was flushed
  \* the process
  mode,           \* "closed", "meta" and "header" in pmemlog_create, "open"
  writer,         \* the thread that holds the lock for writing, or NoThread
  readers,        \* the threads that hold it for reading
  \* the call in progress on each thread
  pc, op, off, got,
  nops, ncrash

offsets == <<start_offset, end_offset, write_offset, flushed_offset>>
media   == <<hdr, offsets, data, flushed_data>>
lock    == <<writer, readers>>
calls   == <<pc, op, off, got>>
vars    == <<media, mode, lock, calls, nops, ncrash>>

Pool     == 0 .. PoolSize - 1
Offset   == 0 .. OffsetMod - 1
Req(kind, buf, c, stop) == [kind |-> kind, buf |-> buf, chunksize |-> c, stop |-> stop]
NoCall   == Req("idle", <<>>, 0, FALSE)

\* The bytes of d from offset a up to offset b.
Bytes(d, a, b) == [i \in 1 .. b - a |-> d[a + i - 1]]

-----------------------------------------------------------------------------
(* Creating, opening and closing the pool.                                 *)

Init ==
  /\ hdr = "zero"
  /\ start_offset = 0 /\ end_offset = 0 /\ write_offset = 0 /\ flushed_offset = 0
  /\ data = [i \in Pool |-> Meta] /\ flushed_data = data
  /\ mode = "closed"
  /\ writer = NoThread /\ readers = {}
  /\ pc = [t \in Threads |-> "idle"]
  /\ op = [t \in Threads |-> NoCall]
  /\ off = [t \in Threads |-> 0]
  /\ got = [t \in Threads |-> <<>>]
  /\ nops = 0 /\ ncrash = 0

\* pmemlog_create stores the required metadata first (a pool whose header is
\* not all zero is refused) ...
pmemlog_create ==
  /\ mode = "closed" /\ hdr = "zero"
  /\ mode' = "meta"
  /\ UNCHANGED <<media, lock, calls, nops, ncrash>>

\* Mutant: the header is written before the metadata.
StoreMeta_HeaderFirst ==
  /\ mode = "meta"
  /\ mode' = "header" /\ hdr' = "valid"
  /\ start_offset' = Start /\ end_offset' = PoolSize
  /\ write_offset' = Start /\ flushed_offset' = 0
  /\ UNCHANGED <<data, flushed_data, lock, calls, nops, ncrash>>

StoreMeta ==
  /\ mode = "meta"
  /\ mode' = "header"
  /\ start_offset' = Start /\ end_offset' = PoolSize
  /\ write_offset' = Start /\ flushed_offset' = Start
  /\ UNCHANGED <<hdr, data, flushed_data, lock, calls, nops, ncrash>>

\* ... and then the pool header.
StoreHeader ==
  /\ mode = "header"
  /\ mode' = "open" /\ hdr' = "valid"
  /\ UNCHANGED <<offsets, data, flushed_data, lock, calls, nops, ncrash>>

\* The descriptor checks of pmemlog_map_common, which pmemlog_check repeats.
DescriptorValid(s, e, w) ==
  /\ s = Start /\ e = PoolSize /\ s <= e
  /\ s <= w /\ w <= e

pmemlog_open ==
  /\ mode = "closed" /\ hdr = "valid"
  /\ DescriptorValid(start_offset, end_offset, write_offset)
  /\ mode' = "open"
  /\ UNCHANGED <<media, lock, calls, nops, ncrash>>

pmemlog_close ==
  /\ mode = "open"
  /\ \A t \in Threads : pc[t] = "idle"
  /\ mode' = "closed"
  /\ UNCHANGED <<media, lock, calls, nops, ncrash>>

-----------------------------------------------------------------------------
(* The calls.                                                              *)

Goto(t, from, to) == mode = "open" /\ pc[t] = from /\ pc' = [pc EXCEPT ![t] = to]

Begin(t, o) ==
  /\ nops < MaxOps
  /\ nops' = nops + 1
  /\ Goto(t, "idle", IF o.kind \in {"append", "appendv", "rewind"} THEN "wrlock" ELSE "rdlock")
  /\ op' = [op EXCEPT ![t] = o]
  /\ UNCHANGED <<media, mode, lock, off, got, ncrash>>

pmemlog_append(t, b)     == Begin(t, Req("append", b, 0, FALSE))
pmemlog_appendv(t, b)    == Begin(t, Req("appendv", b, 0, FALSE))
pmemlog_rewind(t)        == Begin(t, Req("rewind", <<>>, 0, FALSE))
pmemlog_tell(t)          == Begin(t, Req("tell", <<>>, 0, FALSE))
pmemlog_walk(t, c, stop) == Begin(t, Req("walk", <<>>, c, stop))

\* Mutant: readers are not excluded.
WrLock_NoReaders(t) ==
  /\ writer = NoThread
  /\ Goto(t, "wrlock", IF op[t].kind = "rewind" THEN "rewind" ELSE "space")
  /\ writer' = t
  /\ UNCHANGED <<media, mode, readers, op, off, got, nops, ncrash>>

WrLock(t) ==
  /\ writer = NoThread /\ readers = {}
  /\ Goto(t, "wrlock", IF op[t].kind = "rewind" THEN "rewind" ELSE "space")
  /\ writer' = t
  /\ UNCHANGED <<media, mode, readers, op, off, got, nops, ncrash>>

RdLock(t) ==
  /\ writer = NoThread
  /\ Goto(t, "rdlock", IF op[t].kind = "tell" THEN "tell" ELSE "walk")
  /\ readers' = readers \cup {t}
  /\ off' = [off EXCEPT ![t] = start_offset]
  /\ UNCHANGED <<media, mode, writer, op, got, nops, ncrash>>

\* Mutant: the bytes that are there already are not counted.
CheckSpace_IgnoresUsed(t) ==
  LET fits == write_offset < end_offset /\ Len(op[t].buf) <= end_offset - start_offset
  IN  /\ Goto(t, "space", IF fits THEN "copy" ELSE "unlock")
      /\ off' = [off EXCEPT ![t] = write_offset]
      /\ got' = [got EXCEPT ![t] = IF fits THEN <<0>> ELSE <<>>]
      /\ UNCHANGED <<media, mode, lock, op, nops, ncrash>>

\* An append that does not fit fails with ENOSPC and stores nothing.
CheckSpace(t) ==
  LET fits == write_offset < end_offset /\ Len(op[t].buf) <= end_offset - write_offset
  IN  /\ Goto(t, "space", IF fits THEN "copy" ELSE "unlock")
      /\ off' = [off EXCEPT ![t] = write_offset]
      /\ got' = [got EXCEPT ![t] = IF fits THEN <<0>> ELSE <<>>]
      /\ UNCHANGED <<media, mode, lock, op, nops, ncrash>>

\* memcpy of the buffer, or of the next element of the scatter/gather list.
Copy(t) ==
  LET done == off[t] - write_offset
      left == Len(op[t].buf) - done
  IN  /\ \E n \in 0 .. left :
           /\ op[t].kind = "append" => n = left
           /\ n = 0 => left = 0
           /\ Goto(t, "copy", IF n = left THEN "data" ELSE "copy")
           /\ data' = [i \in Pool |-> IF i \in off[t] .. off[t] + n - 1
                                       THEN op[t].buf[i - write_offset + 1] ELSE data[i]]
           /\ off' = [off EXCEPT ![t] = off[t] + n]
      /\ UNCHANGED <<hdr, offsets, flushed_data, mode, lock, op, got, nops, ncrash>>

\* Mutant: the offset is stored and flushed without flushing the data.
PersistData_Skipped(t) ==
  /\ Goto(t, "data", "offset")
  /\ UNCHANGED <<media, mode, lock, op, off, got, nops, ncrash>>

\* pmemlog_persist: flush the data, store the offset, flush the offset.
PersistData(t) ==
  /\ Goto(t, "data", "offset")
  /\ flushed_data' = [i \in Pool |-> IF i \in write_offset .. off[t] - 1
                                      THEN data[i] ELSE flushed_data[i]]
  /\ UNCHANGED <<hdr, offsets, data, mode, lock, op, off, got, nops, ncrash>>

StoreOffset(t) ==
  /\ Goto(t, "offset", "flush")
  /\ write_offset' = off[t]
  /\ UNCHANGED <<hdr, start_offset, end_offset, flushed_offset, data, flushed_data, mode,
                 lock, op, off, got, nops, ncrash>>

RewindOffset(t) ==
  /\ Goto(t, "rewind", "flush")
  /\ write_offset' = start_offset
  /\ got' = [got EXCEPT ![t] = <<0>>]
  /\ UNCHANGED <<hdr, start_offset, end_offset, flushed_offset, data, flushed_data, mode,
                 lock, op, off, nops, ncrash>>

PersistOffset(t) ==
  /\ Goto(t, "flush", "unlock")
  /\ flushed_offset' = write_offset
  /\ UNCHANGED <<hdr, start_offset, end_offset, write_offset, data, flushed_data, mode,
                 lock, op, off, got, nops, ncrash>>

\* pmemlog_walk: pass the next chunk to the callback.  A chunk size of 0 stands
\* for a single call with everything; the callback may end the walk.
WalkChunk(t) ==
  LET c   == op[t].chunksize
      len == IF c = 0 \/ c > write_offset - off[t] THEN write_offset - off[t] ELSE c
  IN  /\ c = 0 \/ off[t] < write_offset
      /\ got' = [got EXCEPT ![t] = @ \o Bytes(data, off[t], off[t] + len)]
      /\ \/ Goto(t, "walk", IF c = 0 THEN "unlock" ELSE "walk")
         \/ op[t].stop /\ Goto(t, "walk", "unlock")
      /\ off' = [off EXCEPT ![t] = (off[t] + c) % OffsetMod]
      /\ UNCHANGED <<media, mode, lock, op, nops, ncrash>>

WalkEnd(t) ==
  /\ op[t].chunksize # 0 /\ off[t] >= write_offset
  /\ Goto(t, "walk", "unlock")
  /\ UNCHANGED <<media, mode, lock, op, off, got, nops, ncrash>>

Tell(t) ==
  /\ Goto(t, "tell", "unlock")
  /\ got' = [got EXCEPT ![t] = <<write_offset - start_offset>>]
  /\ UNCHANGED <<media, mode, lock, op, off, nops, ncrash>>

\* Mutant: the lock is kept when there is no space.
Unlock_NotOnError(t) ==
  /\ Goto(t, "unlock", "done")
  /\ writer' = IF writer = t /\ got[t] # <<>> THEN NoThread ELSE writer
  /\ readers' = readers \ {t}
  /\ UNCHANGED <<media, mode, op, off, got, nops, ncrash>>

Unlock(t) ==
  /\ Goto(t, "unlock", "done")
  /\ writer' = IF writer = t THEN NoThread ELSE writer
  /\ readers' = readers \ {t}
  /\ UNCHANGED <<media, mode, op, off, got, nops, ncrash>>

Return(t) ==
  /\ Goto(t, "done", "idle")
  /\ op' = [op EXCEPT ![t] = NoCall]
  /\ off' = [off EXCEPT ![t] = 0]
  /\ got' = [got EXCEPT ![t] = <<>>]
  /\ UNCHANGED <<media, mode, lock, nops, ncrash>>
-----------------------------------------------------------------------------
(* Power failure.                                                          *)

\* A store that was not flushed may have reached the media or not, each byte
\* of data and each offset for itself; the header is larger than that.
Crash ==
  /\ ncrash < MaxCrash
  /\ ncrash' = ncrash + 1
  /\ mode' = "closed"
  /\ hdr' \in IF mode = "header" THEN {hdr, "torn", "valid"} ELSE {hdr}
  /\ start_offset' \in {start_offset} \cup IF mode = "meta" THEN {Start} ELSE {}
  /\ end_offset' \in {end_offset} \cup IF mode = "meta" THEN {PoolSize} ELSE {}
  /\ write_offset' \in {write_offset, flushed_offset} \cup IF mode = "meta" THEN {Start} ELSE {}
  /\ flushed_offset' = write_offset'
  /\ \E S \in SUBSET {i \in Pool : data[i] # flushed_data[i]} :
       data' = [i \in Pool |-> IF i \in S THEN data[i] ELSE flushed_data[i]]
  /\ flushed_data' = data'
  /\ writer' = NoThread /\ readers' = {}
  /\ pc' = [t \in Threads |-> "idle"]
  /\ op' = [t \in Threads |-> NoCall]
  /\ off' = [t \in Threads |-> 0]
  /\ got' = [t \in Threads |-> <<>>]
  /\ UNCHANGED nops

-----------------------------------------------------------------------------
CallStep(t) ==
  \/ WrLock(t) \/ RdLock(t) \/ CheckSpace(t) \/ Copy(t) \/ PersistData(t) \/ StoreOffset(t)
  \/ RewindOffset(t) \/ PersistOffset(t) \/ WalkChunk(t) \/ WalkEnd(t) \/ Tell(t)
  \/ Unlock(t) \/ Return(t)

Call(t) ==
  \/ \E b \in Bufs : pmemlog_append(t, b) \/ pmemlog_appendv(t, b)
  \/ pmemlog_rewind(t) \/ pmemlog_tell(t)
  \/ \E c \in ChunkSizes, stop \in BOOLEAN : pmemlog_walk(t, c, stop)

\* A pool whose header was torn while it was created cannot be used.
Unusable == mode = "closed" /\ hdr = "torn" /\ UNCHANGED vars

Next ==
  \/ pmemlog_create \/ StoreMeta \/ StoreHeader \/ pmemlog_open \/ pmemlog_close
  \/ \E t \in Threads : Call(t) \/ CallStep(t)
  \/ Crash \/ Unusable

Spec == Init /\ [][Next]_vars

\* The operating system runs every thread.
FairSpec == Spec /\ \A t \in Threads : WF_vars(CallStep(t))
-----------------------------------------------------------------------------
(* Properties.                                                             *)

LogPCs == {"idle", "wrlock", "rdlock", "space", "copy", "data", "offset", "flush", "rewind",
           "walk", "tell", "unlock", "done"}
LogOp  == [kind : {"idle", "append", "appendv", "rewind", "tell", "walk"},
           buf : Seq(Byte), chunksize : Offset, stop : BOOLEAN]

\* Every variable of the pool and of the calls in progress has its type.
TypeOK ==
  /\ hdr \in {"zero", "torn", "valid"}
  /\ start_offset \in 0 .. PoolSize /\ end_offset \in 0 .. PoolSize
  /\ write_offset \in 0 .. PoolSize /\ flushed_offset \in 0 .. PoolSize
  /\ data \in [Pool -> Byte \cup {Meta}] /\ flushed_data \in [Pool -> Byte \cup {Meta}]
  /\ mode \in {"closed", "meta", "header", "open"}
  /\ writer \in Threads \cup {NoThread} /\ readers \subseteq Threads
  /\ pc \in [Threads -> LogPCs] /\ op \in [Threads -> LogOp]
  /\ off \in [Threads -> Offset]
  /\ nops \in Nat /\ ncrash \in Nat

\* A pool with a valid header can always be opened and passes pmemlog_check:
\* the descriptor is on media before the header is, and neither an append nor
\* a rewind that a power failure interrupts leaves a write offset outside
\* the log space.
PoolReopens ==
  hdr = "valid" =>
    /\ DescriptorValid(start_offset, end_offset, write_offset)
    /\ DescriptorValid(start_offset, end_offset, flushed_offset)

\* "walks through the log from beginning to end": unless the callback ends it,
\* a walk passes exactly the contents of the log to it.
WalkSeesLog ==
  \A t \in Threads :
    pc[t] = "unlock" /\ op[t].kind = "walk" /\ ~op[t].stop =>
      got[t] = Bytes(data, start_offset, write_offset)

\* Refinement: the pool implements an atomic, durable, bounded log.
Contents(d, w) == IF hdr = "valid" THEN Bytes(d, start_offset, w) ELSE <<>>

Abs(t) ==
  LET o == op[t]
      reads == o.kind \in {"tell", "walk"}
      over == pc[t] \in {"unlock", "done"}
  IN  [kind |-> IF o.kind = "appendv" THEN "append" ELSE o.kind,
       val |-> o.buf, stop |-> o.stop,
       seen |-> over \/ pc[t] = "flush",
       hard |-> over,
       res |-> IF over \/ pc[t] = "flush" THEN got[t] ELSE <<>>]

Log == INSTANCE AppendLog WITH
  Capacity <- PoolSize - Start,
  log <- Contents(data, write_offset),
  dur <- Contents(flushed_data, flushed_offset),
  req <- [t \in Threads |-> Abs(t)]

\* "The append is atomic and cannot be torn by a program failure or system
\* crash", for pmemlog_append and pmemlog_appendv; walks and tells see the log
\* of one instant, and what returned survives.
ImplementsLog == Log!Spec

\* Every call returns once no thread issues new ones.
LogCallsReturn == \A t \in Threads : pc[t] # "idle" ~> pc[t] = "idle"
=============================================================================
