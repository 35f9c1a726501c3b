--------------------------- MODULE PmemLogProofs ---------------------------
(***************************************************************************)
(* Proofs about module PmemLog, for every pool size, any number of threads *)
(* and any contents.                                                       *)
(***************************************************************************)
EXTENDS PmemLog, SequenceTheorems, TLAPS

AppendPCs == {"space", "copy", "data", "offset"}
WritePCs  == AppendPCs \cup {"rewind", "flush"}

\* The stages of pmemlog_create, and what is on media at each of them.
Stages ==
  /\ mode = "meta" => hdr = "zero"
  /\ mode = "header" => /\ hdr = "zero" /\ start_offset = Start /\ end_offset = PoolSize
                        /\ write_offset = Start /\ flushed_offset = Start
  /\ mode = "open" => hdr = "valid"
  /\ mode # "open" => \A t \in Threads : pc[t] = "idle"

\* A thread that changes the pool holds the lock, and an append that passed
\* the space check ends within the pool.
Exclusive ==
  \A t \in Threads : pc[t] \in WritePCs => writer = t

AppendFits ==
  \A t \in Threads : pc[t] \in {"copy", "data", "offset"} =>
    /\ write_offset <= off[t] /\ off[t] <= write_offset + Len(op[t].buf)
    /\ write_offset + Len(op[t].buf) <= PoolSize
    /\ start_offset <= write_offset

LogInv == TypeOK /\ Stages /\ Exclusive /\ AppendFits /\ PoolReopens

LEMMA LogStart == Init => LogInv
  <1> SUFFICES ASSUME Init PROVE LogInv
    OBVIOUS
  <1> USE PoolAssumption, InputAssumption DEF Init
  <1>1. op \in [Threads -> LogOp] /\ off \in [Threads -> Offset]
    BY DEF LogOp, NoCall, Req, Offset
  <1>2. TypeOK
    BY <1>1 DEF TypeOK, LogPCs, Pool
  <1>3. Stages /\ Exclusive /\ AppendFits /\ PoolReopens
    BY DEF Stages, Exclusive, AppendFits, PoolReopens, WritePCs, AppendPCs
  <1> QED BY <1>2, <1>3 DEF LogInv

\* Steps that leave the media and the lock's writer alone and do not enter the
\* part of an append behind the space check.
LEMMA LogFrame ==
  ASSUME LogInv, TypeOK', NEW t \in Threads,
         UNCHANGED <<media, writer>>, mode = "open", mode' = mode,
         \A u \in Threads \ {t} : pc'[u] = pc[u] /\ op'[u] = op[u] /\ off'[u] = off[u],
         pc'[t] \notin WritePCs
  PROVE  LogInv'
  <1> USE DEF media, offsets
  <1>1. Stages' /\ PoolReopens'
    BY DEF LogInv, Stages, PoolReopens, DescriptorValid
  <1>2. Exclusive'
    BY DEF LogInv, Exclusive
  <1>3. AppendFits'
    BY DEF LogInv, AppendFits, WritePCs, AppendPCs
  <1> QED BY <1>1, <1>2, <1>3 DEF LogInv

\* A thread that holds the lock is alone in changing the pool.
LEMMA LogAlone ==
  ASSUME LogInv, NEW t \in Threads, pc[t] \in WritePCs, NEW u \in Threads, u # t
  PROVE  pc[u] \notin WritePCs
  BY DEF LogInv, Exclusive

LEMMA LogTyping == ASSUME TypeOK PROVE
  /\ pc \in [Threads -> LogPCs] /\ op \in [Threads -> LogOp] /\ off \in [Threads -> Offset]
  /\ \A t \in Threads : op[t].buf \in Seq(Byte) /\ Len(op[t].buf) \in Nat /\ off[t] \in Nat
  <1>1. pc \in [Threads -> LogPCs] /\ op \in [Threads -> LogOp] /\ off \in [Threads -> Offset]
    BY DEF TypeOK
  <1> QED BY <1>1 DEF LogOp, Offset

\* Every call starts the same way, with a request of its kind.
LEMMA CallBegins ==
  ASSUME NEW t, Call(t)
  PROVE  \E o \in LogOp : /\ Begin(t, o)
                          /\ o.kind \in {"append", "appendv", "rewind", "tell", "walk"}
                          /\ o.chunksize \in ChunkSizes \cup {0}
  <1> USE PoolAssumption, InputAssumption DEF Req, LogOp, Offset
  <1>1. CASE \E b \in Bufs : pmemlog_append(t, b) \/ pmemlog_appendv(t, b)
    <2>1. PICK b \in Bufs : pmemlog_append(t, b) \/ pmemlog_appendv(t, b)
      BY <1>1
    <2>2. Req("append", b, 0, FALSE) \in LogOp /\ Req("appendv", b, 0, FALSE) \in LogOp
      OBVIOUS
    <2> QED BY <2>1, <2>2 DEF pmemlog_append, pmemlog_appendv
  <1>2. CASE pmemlog_rewind(t) \/ pmemlog_tell(t)
    <2>1. Req("rewind", <<>>, 0, FALSE) \in LogOp /\ Req("tell", <<>>, 0, FALSE) \in LogOp
      OBVIOUS
    <2> QED BY <1>2, <2>1 DEF pmemlog_rewind, pmemlog_tell
  <1>3. CASE \E c \in ChunkSizes, stop \in BOOLEAN : pmemlog_walk(t, c, stop)
    <2>1. PICK c \in ChunkSizes, stop \in BOOLEAN : pmemlog_walk(t, c, stop)
      BY <1>3
    <2>2. Req("walk", <<>>, c, stop) \in LogOp
      OBVIOUS
    <2> QED BY <2>1, <2>2 DEF pmemlog_walk
  <1> QED BY <1>1, <1>2, <1>3 DEF Call

\* The steps of a call that do not change the pool.
LEMMA LogQuiet ==
  ASSUME LogInv, NEW t \in Threads,
         \/ Call(t) \/ RdLock(t) \/ WalkChunk(t) \/ WalkEnd(t) \/ Tell(t) \/ Return(t)
  PROVE  LogInv'
  <1> USE PoolAssumption, InputAssumption DEF LogPCs, lock, WritePCs, AppendPCs
  <1>t. /\ TypeOK /\ pc \in [Threads -> LogPCs] /\ op \in [Threads -> LogOp]
        /\ off \in [Threads -> Offset]
    BY LogTyping DEF LogInv
  <1>1. CASE Call(t)
    <2>1. PICK o \in LogOp : Begin(t, o)
      BY <1>1, CallBegins
    <2>2. TypeOK'
      <3>1. op' \in [Threads -> LogOp]
        BY <2>1, <1>t DEF Begin
      <3>2. pc' \in [Threads -> LogPCs] /\ nops' \in Nat
        BY <2>1, <1>t DEF Begin, Goto, TypeOK
      <3> QED BY <3>1, <3>2, <2>1, <1>t DEF TypeOK, Begin, media, offsets
    <2> QED BY <2>1, <2>2, <1>t, LogFrame DEF Begin, Goto
  <1>2. CASE RdLock(t)
    <2>1. off' \in [Threads -> Offset]
      BY <1>2, <1>t DEF RdLock, TypeOK, Offset
    <2>2. TypeOK'
      BY <1>2, <1>t, <2>1 DEF RdLock, Goto, TypeOK, media, offsets
    <2> QED BY <1>2, <2>2, <1>t, LogFrame DEF RdLock, Goto
  <1>3. CASE WalkChunk(t)
    <2>1. off' \in [Threads -> Offset]
      <3>1. off[t] \in 0 .. OffsetMod - 1 /\ op[t].chunksize \in 0 .. OffsetMod - 1
        BY <1>t DEF LogOp, Offset
      <3>2. (off[t] + op[t].chunksize) % OffsetMod \in 0 .. OffsetMod - 1
        BY <3>1
      <3> QED BY <1>3, <1>t, <3>2 DEF WalkChunk, Offset
    <2>2. /\ pc' \in [Threads -> LogPCs] /\ pc'[t] \in {"walk", "unlock"}
          /\ \A u \in Threads \ {t} : pc'[u] = pc[u]
      BY <1>3, <1>t DEF WalkChunk, Goto
    <2>3. TypeOK'
      BY <1>3, <1>t, <2>1, <2>2 DEF WalkChunk, TypeOK, media, offsets
    <2> QED BY <1>3, <2>2, <2>3, <1>t, LogFrame DEF WalkChunk, Goto
  <1>4. CASE WalkEnd(t)
    <2>1. TypeOK'
      BY <1>4, <1>t DEF WalkEnd, Goto, TypeOK, media, offsets
    <2> QED BY <1>4, <2>1, <1>t, LogFrame DEF WalkEnd, Goto
  <1>5. CASE Tell(t)
    <2>1. TypeOK'
      BY <1>5, <1>t DEF Tell, Goto, TypeOK, media, offsets
    <2> QED BY <1>5, <2>1, <1>t, LogFrame DEF Tell, Goto
  <1>6. CASE Return(t)
    <2>1. NoCall \in LogOp /\ 0 \in Offset
      BY DEF NoCall, Req, LogOp, Offset
    <2>2. TypeOK'
      BY <1>6, <1>t, <2>1 DEF Return, Goto, TypeOK, media, offsets
    <2> QED BY <1>6, <2>2, <1>t, LogFrame DEF Return, Goto
  <1> QED BY <1>1, <1>2, <1>3, <1>4, <1>5, <1>6

\* Facts about a thread that is inside a call.
LEMMA LogOpen ==
  ASSUME LogInv, mode = "open"
  PROVE  /\ hdr = "valid" /\ start_offset = Start /\ end_offset = PoolSize
         /\ write_offset \in Start .. PoolSize /\ flushed_offset \in Start .. PoolSize
  BY PoolAssumption DEF LogInv, TypeOK, Stages, PoolReopens, DescriptorValid

\* The steps of an append or a rewind.
LEMMA LogUpdate ==
  ASSUME LogInv, NEW t \in Threads,
         \/ WrLock(t) \/ CheckSpace(t) \/ Copy(t) \/ PersistData(t) \/ StoreOffset(t)
         \/ RewindOffset(t) \/ PersistOffset(t) \/ Unlock(t)
  PROVE  LogInv'
  <1> USE PoolAssumption DEF LogPCs, lock, WritePCs, AppendPCs
  <1>t. /\ TypeOK /\ pc \in [Threads -> LogPCs] /\ op \in [Threads -> LogOp]
        /\ off \in [Threads -> Offset]
        /\ \A u \in Threads : op[u].buf \in Seq(Byte) /\ Len(op[u].buf) \in Nat /\ off[u] \in Nat
    BY LogTyping DEF LogInv
  <1>o. /\ mode = "open" /\ hdr = "valid" /\ start_offset = Start /\ end_offset = PoolSize
        /\ write_offset \in Start .. PoolSize /\ flushed_offset \in Start .. PoolSize
    <2>1. mode = "open"
      BY DEF WrLock, CheckSpace, Copy, PersistData, StoreOffset, RewindOffset, PersistOffset,
             Unlock, Goto
    <2> QED BY <2>1, LogOpen
  <1>a. \A u \in Threads \ {t} : pc[t] \in WritePCs => pc[u] \notin WritePCs
    BY LogAlone
  <1>v. \A u \in Threads : pc[u] \in WritePCs => writer = u
    BY DEF LogInv, Exclusive
  <1>1. CASE WrLock(t)
    <2>1. TypeOK'
      BY <1>1, <1>t DEF WrLock, Goto, TypeOK, media, offsets
    <2>2. /\ UNCHANGED <<media, mode, op, off>> /\ writer' = t /\ pc'[t] \in {"rewind", "space"}
          /\ \A u \in Threads \ {t} : pc'[u] = pc[u] /\ writer # u
      BY <1>1, <1>t, InputAssumption DEF WrLock, Goto, TypeOK
    <2>3. Exclusive'
      BY <2>2, <1>v, <1>1 DEF Exclusive, WrLock
    <2>4. AppendFits'
      BY <2>2, <1>t DEF LogInv, AppendFits, media, offsets
    <2>5. Stages' /\ PoolReopens'
      BY <2>2, <1>o DEF LogInv, Stages, PoolReopens, DescriptorValid, media, offsets
    <2> QED BY <2>1, <2>3, <2>4, <2>5 DEF LogInv
  <1>2. CASE CheckSpace(t)
    <2>0. write_offset \in Offset
      BY <1>o DEF Offset
    <2>1. off' \in [Threads -> Offset]
      BY <1>2, <1>t, <2>0 DEF CheckSpace
    <2>2. TypeOK'
      BY <1>2, <1>t, <2>1 DEF CheckSpace, Goto, TypeOK, media, offsets
    <2>3. /\ UNCHANGED <<media, mode, writer, op>> /\ pc[t] = "space"
          /\ pc'[t] \in {"copy", "unlock"} /\ off'[t] = write_offset
          /\ pc'[t] = "copy" => Len(op[t].buf) <= end_offset - write_offset
          /\ \A u \in Threads \ {t} : pc'[u] = pc[u] /\ off'[u] = off[u]
      BY <1>2, <1>t DEF CheckSpace, Goto
    <2>4. Exclusive'
      BY <2>3, <1>v DEF Exclusive
    <2>5. AppendFits'
      BY <2>3, <1>t, <1>o, <1>a DEF AppendFits, media, offsets
    <2>6. Stages' /\ PoolReopens'
      BY <2>3 DEF LogInv, Stages, PoolReopens, DescriptorValid, media, offsets
    <2> QED BY <2>2, <2>4, <2>5, <2>6 DEF LogInv
  <1>3. CASE Copy(t)
    <2>1. /\ pc[t] = "copy" /\ write_offset <= off[t]
          /\ off[t] <= write_offset + Len(op[t].buf) /\ write_offset + Len(op[t].buf) <= PoolSize
      BY <1>3 DEF Copy, Goto, LogInv, AppendFits
    <2>2. PICK n \in 0 .. (Len(op[t].buf) - (off[t] - write_offset)) :
            /\ \E s \in {"data", "copy"} : pc' = [pc EXCEPT ![t] = s]
            /\ data' = [i \in Pool |-> IF i \in off[t] .. off[t] + n - 1
                                        THEN op[t].buf[i - write_offset + 1] ELSE data[i]]
            /\ off' = [off EXCEPT ![t] = off[t] + n]
      BY <1>3 DEF Copy, Goto
    <2>3. data' \in [Pool -> Byte \cup {Meta}]
      <3>1. ASSUME NEW i \in off[t] .. off[t] + n - 1 PROVE op[t].buf[i - write_offset + 1] \in Byte
        <4>1. i - write_offset + 1 \in 1 .. Len(op[t].buf)
          BY <2>1, <2>2, <1>t, <1>o, SMTT(40)
        <4> QED BY <4>1, <1>t
      <3>2. data \in [Pool -> Byte \cup {Meta}]
        BY <1>t DEF TypeOK
      <3> QED BY <2>2, <3>1, <3>2
    <2>4. off[t] + n \in Offset /\ off[t] + n <= write_offset + Len(op[t].buf)
      BY <2>1, <2>2, <1>t, <1>o DEF Offset
    <2>5. off' \in [Threads -> Offset] /\ pc' \in [Threads -> LogPCs]
      BY <2>2, <2>4, <1>t
    <2>6. UNCHANGED <<hdr, offsets, flushed_data, mode, lock, op, nops, ncrash>>
      BY <1>3 DEF Copy
    <2>7. TypeOK'
      BY <2>3, <2>5, <2>6, <1>t DEF TypeOK, offsets
    <2>8. /\ pc'[t] \in {"data", "copy"} /\ off'[t] = off[t] + n
          /\ \A u \in Threads \ {t} : pc'[u] = pc[u] /\ off'[u] = off[u]
      BY <2>2, <1>t
    <2>9. Exclusive'
      BY <2>8, <2>1, <2>6, <1>v DEF Exclusive
    <2>10. AppendFits'
      <3>1. ASSUME NEW u \in Threads, pc'[u] \in {"copy", "data", "offset"} PROVE u = t
        BY <3>1, <2>8, <2>1, <1>a
      <3> QED BY <3>1, <2>8, <2>6, <2>4, <2>1, <2>2, <1>t, <1>o DEF AppendFits, offsets
    <2>11. Stages' /\ PoolReopens'
      BY <2>6, <1>o DEF LogInv, Stages, PoolReopens, DescriptorValid, offsets
    <2> QED BY <2>7, <2>9, <2>10, <2>11 DEF LogInv
  <1>4. CASE PersistData(t)
    <2>1. flushed_data' \in [Pool -> Byte \cup {Meta}]
      BY <1>4, <1>t DEF PersistData, TypeOK
    <2>2. TypeOK'
      BY <1>4, <1>t, <2>1 DEF PersistData, Goto, TypeOK, offsets
    <2>3. /\ UNCHANGED <<hdr, offsets, mode, writer, op, off>> /\ pc[t] = "data"
          /\ pc'[t] = "offset" /\ \A u \in Threads \ {t} : pc'[u] = pc[u]
      BY <1>4, <1>t DEF PersistData, Goto
    <2>4. Exclusive'
      BY <2>3, <1>v DEF Exclusive
    <2>5. AppendFits'
      BY <2>3 DEF LogInv, AppendFits, offsets
    <2>6. Stages' /\ PoolReopens'
      BY <2>3 DEF LogInv, Stages, PoolReopens, DescriptorValid, offsets
    <2> QED BY <2>2, <2>4, <2>5, <2>6 DEF LogInv
  <1>5. CASE StoreOffset(t) \/ RewindOffset(t) \/ PersistOffset(t)
    <2>1. /\ pc[t] \in {"offset", "rewind", "flush"} /\ pc'[t] \in {"flush", "unlock"}
          /\ pc' \in [Threads -> LogPCs]
          /\ \A u \in Threads \ {t} : pc'[u] = pc[u]
          /\ UNCHANGED <<hdr, start_offset, end_offset, data, flushed_data, mode, writer, readers,
                         op, off, nops, ncrash>>
      BY <1>5, <1>t DEF StoreOffset, RewindOffset, PersistOffset, Goto
    <2>2. write_offset' \in Start .. PoolSize /\ flushed_offset' \in Start .. PoolSize
      <3>1. pc[t] = "offset" => off[t] \in Start .. PoolSize
        BY <1>t, <1>o DEF LogInv, AppendFits
      <3> QED BY <1>5, <1>o, <3>1 DEF StoreOffset, RewindOffset, PersistOffset, Goto
    <2>3. TypeOK'
      BY <2>1, <2>2, <1>t DEF TypeOK
    <2>4. Exclusive'
      BY <2>1, <1>v DEF Exclusive
    <2>5. AppendFits'
      BY <2>1, <1>a DEF AppendFits
    <2>6. Stages' /\ PoolReopens'
      BY <2>1, <2>2, <1>o DEF Stages, PoolReopens, DescriptorValid
    <2> QED BY <2>3, <2>4, <2>5, <2>6 DEF LogInv
  <1>6. CASE Unlock(t)
    <2>1. TypeOK'
      BY <1>6, <1>t DEF Unlock, Goto, TypeOK, media, offsets
    <2>2. /\ UNCHANGED <<media, mode, op, off>> /\ pc'[t] = "done"
          /\ \A u \in Threads \ {t} : pc'[u] = pc[u] /\ (writer = u => writer' = u)
      BY <1>6, <1>t DEF Unlock, Goto
    <2>3. Exclusive'
      BY <2>2, <1>v DEF Exclusive
    <2>4. AppendFits'
      BY <2>2 DEF LogInv, AppendFits, media, offsets
    <2>5. Stages' /\ PoolReopens'
      BY <2>2, <1>o DEF LogInv, Stages, PoolReopens, DescriptorValid, media, offsets
    <2> QED BY <2>1, <2>3, <2>4, <2>5 DEF LogInv
  <1> QED BY <1>1, <1>2, <1>3, <1>4, <1>5, <1>6

\* Creating, opening and closing the pool, and power failures.  No call is in
\* progress while the pool is not open, so the calls' part is kept.
LEMMA LogPool ==
  ASSUME LogInv,
         \/ pmemlog_create \/ StoreMeta \/ StoreHeader \/ pmemlog_open \/ pmemlog_close
         \/ Crash \/ Unusable \/ UNCHANGED vars
  PROVE  LogInv'
  <1> USE PoolAssumption DEF media, offsets, lock, calls
  <1>t. TypeOK /\ Stages /\ Exclusive /\ AppendFits /\ PoolReopens
    BY DEF LogInv
  <1>1. CASE pmemlog_create \/ pmemlog_open \/ pmemlog_close \/ Unusable \/ UNCHANGED vars
    <2>1. /\ UNCHANGED <<media, lock, calls, nops, ncrash>>
          /\ \/ mode' = mode \/ mode' = "closed" \/ (mode' = "meta" /\ hdr = "zero")
             \/ (mode' = "open" /\ hdr = "valid")
      BY <1>1 DEF pmemlog_create, pmemlog_open, pmemlog_close, Unusable, vars
    <2>2. TypeOK'
      BY <2>1, <1>t DEF TypeOK
    <2>3. Stages' /\ PoolReopens'
      <3>1. mode' # "open" => \A t \in Threads : pc'[t] = "idle"
        <4>1. mode' # "open" => mode # "open" \/ \A t \in Threads : pc[t] = "idle"
          BY <1>1 DEF pmemlog_create, pmemlog_open, pmemlog_close, Unusable, vars
        <4> QED BY <4>1, <2>1, <1>t DEF Stages
      <3> QED BY <3>1, <2>1, <1>t DEF Stages, PoolReopens, DescriptorValid
    <2>4. Exclusive' /\ AppendFits'
      BY <2>1, <1>t DEF Exclusive, AppendFits
    <2> QED BY <2>2, <2>3, <2>4 DEF LogInv
  <1>2. CASE StoreMeta \/ StoreHeader
    <2>1. /\ UNCHANGED <<data, flushed_data, lock, calls, nops, ncrash>>
          /\ hdr' \in {"zero", "valid"} /\ mode' \in {"header", "open"}
          /\ (mode' = "header" => hdr' = "zero") /\ (mode' = "open" => hdr' = "valid")
          /\ start_offset' = Start /\ end_offset' = PoolSize
          /\ write_offset' = Start /\ flushed_offset' = Start
      BY <1>2, <1>t DEF StoreMeta, StoreHeader, Stages
    <2>2. TypeOK'
      BY <2>1, <1>t DEF TypeOK
    <2>3. Stages' /\ PoolReopens'
      BY <1>2, <2>1, <1>t DEF Stages, PoolReopens, DescriptorValid, StoreMeta, StoreHeader
    <2>4. Exclusive' /\ AppendFits'
      BY <1>2, <2>1, <1>t DEF StoreMeta, StoreHeader, Stages, Exclusive, AppendFits, WritePCs, AppendPCs
    <2> QED BY <2>2, <2>3, <2>4 DEF LogInv
  <1>3. CASE Crash
    <2>1. /\ \A t \in Threads : pc'[t] = "idle"
          /\ mode' = "closed"
      BY <1>3 DEF Crash
    <2>2. /\ hdr' \in {"zero", "torn", "valid"}
          /\ start_offset' \in 0 .. PoolSize /\ end_offset' \in 0 .. PoolSize
          /\ write_offset' \in 0 .. PoolSize /\ flushed_offset' = write_offset'
      BY <1>3, <1>t DEF Crash, TypeOK
    <2>3. data' \in [Pool -> Byte \cup {Meta}] /\ flushed_data' \in [Pool -> Byte \cup {Meta}]
      BY <1>3, <1>t DEF Crash, TypeOK
    <2>4. op' \in [Threads -> LogOp] /\ off' \in [Threads -> Offset] /\ pc' \in [Threads -> LogPCs]
      BY <1>3 DEF Crash, NoCall, Req, LogOp, Offset, LogPCs
    <2>5. TypeOK'
      BY <1>3, <1>t, <2>2, <2>3, <2>4 DEF Crash, TypeOK
    <2>6. PoolReopens'
      <3>1. CASE mode = "meta"
        BY <1>3, <1>t, <3>1 DEF Crash, Stages, PoolReopens
      <3>2. CASE mode = "header"
        BY <1>3, <1>t, <3>2 DEF Crash, Stages, PoolReopens, DescriptorValid
      <3>3. CASE mode \notin {"meta", "header"}
        BY <1>3, <1>t, <3>3 DEF Crash, PoolReopens, DescriptorValid
      <3> QED BY <3>1, <3>2, <3>3
    <2>7. Stages' /\ Exclusive' /\ AppendFits'
      BY <2>1 DEF Stages, Exclusive, AppendFits, WritePCs, AppendPCs
    <2> QED BY <2>5, <2>6, <2>7 DEF LogInv
  <1> QED BY <1>1, <1>2, <1>3

LEMMA LogStep == LogInv /\ [Next]_vars => LogInv'
  BY LogQuiet, LogUpdate, LogPool DEF Next, CallStep

\* Type correctness of every variable of the pool.
THEOREM LogTypeCorrect == Spec => []TypeOK
  <1>1. Spec => []LogInv
    BY LogStart, LogStep, PTL DEF Spec
  <1> QED BY <1>1, PTL DEF LogInv

\* Whenever the power fails, a pool whose header is valid can be opened again:
\* its write offset never leaves the log space.
THEOREM PoolAlwaysReopens == Spec => []PoolReopens
  <1>1. Spec => []LogInv
    BY LogStart, LogStep, PTL DEF Spec
  <1> QED BY <1>1, PTL DEF LogInv
-----------------------------------------------------------------------------
(* What walks and crashes see.  LogInv alone does not say which bytes are    *)
(* behind the write offset or what a walk has passed to its callback.        *)

\* No chunk size carries an offset of the pool past the largest offset, which
\* is what log.c takes for granted when it adds the two (with a larger one the
\* walk starts over and never ends).
ChunksFit == \A c \in ChunkSizes : PoolSize + c <= OffsetMod

CopyPCs    == {"copy", "data", "offset"}
WriteKinds == {"append", "appendv", "rewind"}

\* The call of a thread at each of its steps, and the result it has so far.
CallsMatch ==
  /\ got = [t \in Threads |-> got[t]]
  /\ \A t \in Threads :
       /\ pc[t] = "idle" => op[t] = NoCall
       /\ pc[t] \in {"idle", "wrlock", "rdlock"} => got[t] = <<>>
       /\ pc[t] = "wrlock" => op[t].kind \in WriteKinds
       /\ pc[t] \in AppendPCs => op[t].kind \in WriteKinds \ {"rewind"}
       /\ pc[t] \in CopyPCs \cup {"flush"} => got[t] = <<0>>
       /\ pc[t] = "rewind" => op[t].kind = "rewind"
       /\ pc[t] = "flush" => op[t].kind \in WriteKinds
       /\ pc[t] = "rdlock" => op[t].kind \in {"tell", "walk"}
       /\ pc[t] = "tell" => op[t].kind = "tell"
       /\ pc[t] = "walk" => op[t].kind = "walk"
       /\ pc[t] \in {"rdlock", "walk"} => op[t].chunksize \in ChunkSizes \cup {0}

\* Walks and tells hold the lock, and no thread changes the pool meanwhile.
Reading(t) == pc[t] \in {"walk", "tell"} \/ (pc[t] = "unlock" /\ op[t].kind \in {"walk", "tell"})

ReadersShare ==
  /\ writer # NoThread => readers = {}
  /\ \A t \in Threads : Reading(t) => t \in readers

\* A walk has passed the log up to its offset, and the whole log at its end.
Least(m, n) == IF m < n THEN m ELSE n

Walks ==
  \A t \in Threads :
    /\ pc[t] = "walk" =>
         /\ start_offset <= off[t]
         /\ op[t].chunksize = 0 => off[t] = start_offset
         /\ got[t] = Bytes(data, start_offset, Least(off[t], write_offset))
    /\ pc[t] = "unlock" /\ op[t].kind = "walk" =>
         \E n \in start_offset .. write_offset :
           /\ got[t] = Bytes(data, start_offset, n)
           /\ op[t].stop \/ n = write_offset

\* An append has copied the buffer up to its offset, and flushed it before it
\* stores the new write offset.
Copied ==
  \A t \in Threads :
    /\ pc[t] \in CopyPCs => write_offset < PoolSize
    /\ pc[t] \in CopyPCs =>
         \A i \in write_offset .. off[t] - 1 : data[i] = op[t].buf[i - write_offset + 1]
    /\ pc[t] \in {"data", "offset"} => off[t] = write_offset + Len(op[t].buf)
    /\ pc[t] = "offset" => \A i \in write_offset .. off[t] - 1 : flushed_data[i] = data[i]

\* Every byte below the write offset is on media, below the offset that is on
\* media too; the two differ only until the offset is flushed.
Settled ==
  hdr = "valid" =>
    /\ \A i \in Start .. write_offset - 1 : flushed_data[i] = data[i]
    /\ \A i \in Start .. flushed_offset - 1 : flushed_data[i] = data[i]
    /\ (\A t \in Threads : pc[t] # "flush") => write_offset = flushed_offset

LogInvariant == LogInv /\ CallsMatch /\ ReadersShare /\ Walks /\ Copied /\ Settled

\* A step of a call leaves the other calls and the descriptor alone.
LEMMA LogOthers ==
  ASSUME LogInv, CallsMatch, NEW t \in Threads, Call(t) \/ CallStep(t)
  PROVE  /\ mode = "open" /\ UNCHANGED <<mode, hdr, start_offset, end_offset>>
         /\ \A u \in Threads \ {t} :
              pc'[u] = pc[u] /\ op'[u] = op[u] /\ off'[u] = off[u] /\ got'[u] = got[u]
  <1>t. pc \in [Threads -> LogPCs] /\ op \in [Threads -> LogOp] /\ off \in [Threads -> Offset]
    BY LogTyping DEF LogInv
  <1>g. got = [u \in Threads |-> got[u]]
    BY DEF CallsMatch
  <1> USE DEF media, offsets, lock, calls
  <1>1. CASE Call(t)
    BY <1>1, <1>t DEF Call, pmemlog_append, pmemlog_appendv, pmemlog_rewind, pmemlog_tell, pmemlog_walk,
       Begin, Goto
  <1>2. CASE WrLock(t) \/ RdLock(t) \/ Unlock(t) \/ WalkEnd(t) \/ PersistData(t) \/ PersistOffset(t)
    BY <1>2, <1>t DEF WrLock, RdLock, Unlock, WalkEnd, PersistData, PersistOffset, Goto
  <1>3. CASE CheckSpace(t) \/ WalkChunk(t) \/ Tell(t) \/ RewindOffset(t) \/ StoreOffset(t)
    BY <1>3, <1>t, <1>g DEF CheckSpace, WalkChunk, Tell, RewindOffset, StoreOffset, Goto
  <1>4. CASE Copy(t) \/ Return(t)
    BY <1>4, <1>t, <1>g DEF Copy, Return, Goto
  <1> QED BY <1>1, <1>2, <1>3, <1>4 DEF CallStep

\* A step of a call keeps the calls in their order ...
LEMMA CallsMatchStep ==
  ASSUME LogInv, CallsMatch, NEW t \in Threads, Call(t) \/ CallStep(t)
  PROVE  CallsMatch'
  <1>t. pc \in [Threads -> LogPCs] /\ op \in [Threads -> LogOp] /\ off \in [Threads -> Offset]
    BY LogTyping DEF LogInv
  <1>g. got = [u \in Threads |-> got[u]]
    BY DEF CallsMatch
  <1>u. \A u \in Threads \ {t} :
          pc'[u] = pc[u] /\ op'[u] = op[u] /\ off'[u] = off[u] /\ got'[u] = got[u]
    BY LogOthers
  <1> USE DEF WriteKinds, CopyPCs, AppendPCs
  <1>q. got' = [u \in Threads |-> got'[u]]
    <2>1. \/ got' = got \/ \E x : got' = [got EXCEPT ![t] = x]
      BY DEF Call, pmemlog_append, pmemlog_appendv, pmemlog_rewind, pmemlog_tell, pmemlog_walk, Begin,
         CallStep, WrLock, RdLock, Unlock, WalkEnd, PersistData, PersistOffset, CheckSpace, WalkChunk,
         Tell, RewindOffset, StoreOffset, Copy, Return, calls
    <2> QED BY <2>1, <1>g
  <1>1. CASE Call(t)
    <2>1. PICK o \in LogOp :
                /\ Begin(t, o) /\ o.kind \in {"append", "appendv", "rewind", "tell", "walk"}
                /\ o.chunksize \in ChunkSizes \cup {0}
      BY <1>1, CallBegins
    <2>2. /\ op'[t] = o /\ got'[t] = <<>> /\ pc'[t] \in {"wrlock", "rdlock"}
          /\ pc'[t] = "wrlock" <=> o.kind \in {"append", "appendv", "rewind"}
      BY <2>1, <1>t DEF Begin, Goto, CallsMatch
    <2> QED BY <2>1, <2>2, <1>u, <1>q DEF CallsMatch
  <1>2. CASE WrLock(t) \/ RdLock(t) \/ Unlock(t) \/ WalkEnd(t)
    BY <1>2, <1>t, <1>u, <1>q DEF CallsMatch, WrLock, RdLock, Unlock, WalkEnd, Goto
  <1>3. CASE PersistData(t) \/ PersistOffset(t) \/ StoreOffset(t) \/ RewindOffset(t)
    BY <1>3, <1>t, <1>g, <1>u, <1>q DEF CallsMatch, PersistData, PersistOffset, StoreOffset, RewindOffset, Goto
  <1>4. CASE CheckSpace(t) \/ Tell(t)
    BY <1>4, <1>t, <1>g, <1>u, <1>q DEF CallsMatch, CheckSpace, Tell, Goto
  <1>5. CASE Copy(t)
    BY <1>5, <1>t, <1>g, <1>u, <1>q DEF CallsMatch, Copy, Goto
  <1>6. CASE WalkChunk(t)
    <2>1. op' = op /\ pc[t] = "walk" /\ pc'[t] \in {"walk", "unlock"}
      BY <1>6, <1>t DEF WalkChunk, Goto
    <2> QED BY <2>1, <1>u, <1>q DEF CallsMatch
  <1>7. CASE Return(t)
    BY <1>7, <1>t, <1>g, <1>u, <1>q DEF CallsMatch, Return, Goto
  <1> QED BY <1>1, <1>2, <1>3, <1>4, <1>5, <1>6, <1>7 DEF CallStep

\* ... and the readers in the lock.
LEMMA ReadersStep ==
  ASSUME LogInv, CallsMatch, ReadersShare, NEW t \in Threads, Call(t) \/ CallStep(t)
  PROVE  ReadersShare'
  <1>t. pc \in [Threads -> LogPCs] /\ op \in [Threads -> LogOp] /\ writer \in Threads \cup {NoThread}
    BY LogTyping DEF LogInv, TypeOK
  <1>u. \A u \in Threads \ {t} : pc'[u] = pc[u] /\ op'[u] = op[u]
    BY LogOthers
  <1>m. CallsMatch /\ ReadersShare
    OBVIOUS
  <1> USE DEF WriteKinds, CopyPCs, AppendPCs, ReadersShare, Reading, lock
  <1>1. CASE Call(t) \/ Return(t)
    <2>1. pc'[t] \in {"wrlock", "rdlock", "idle"} /\ UNCHANGED lock
      BY <1>1, <1>t DEF Call, pmemlog_append, pmemlog_appendv, pmemlog_rewind, pmemlog_tell,
         pmemlog_walk, Begin, Return, Goto
    <2> QED BY <2>1, <1>u, <1>m
  <1>2. CASE WrLock(t) \/ RdLock(t)
    BY <1>2, <1>t, <1>u, <1>m DEF CallsMatch, WrLock, RdLock, Goto
  <1>3. CASE Unlock(t)
    BY <1>3, <1>t, <1>u, <1>m DEF CallsMatch, Unlock, Goto
  <1>4. CASE PersistData(t) \/ PersistOffset(t) \/ StoreOffset(t) \/ RewindOffset(t)
    BY <1>4, <1>t, <1>u, <1>m DEF CallsMatch, PersistData, PersistOffset, StoreOffset, RewindOffset, Goto
  <1>5. CASE CheckSpace(t) \/ Tell(t) \/ WalkEnd(t)
    BY <1>5, <1>t, <1>u, <1>m DEF CallsMatch, CheckSpace, Tell, WalkEnd, Goto
  <1>6. CASE Copy(t)
    BY <1>6, <1>t, <1>u, <1>m DEF CallsMatch, Copy, Goto
  <1>7. CASE WalkChunk(t)
    BY <1>7, <1>t, <1>u, <1>m DEF CallsMatch, WalkChunk, Goto
  <1> QED BY <1>1, <1>2, <1>3, <1>4, <1>5, <1>6, <1>7 DEF CallStep

\* A thread that reads excludes every thread that writes.
LEMMA ReadersAlone ==
  ASSUME LogInv, ReadersShare, NEW t \in Threads, Reading(t), NEW u \in Threads
  PROVE  pc[u] \notin WritePCs
  BY InputAssumption DEF LogInv, Exclusive, ReadersShare

\* Pieces of the pool: empty ones, what they are as sequences, adjacent ones.
LEMMA BytesEmpty == ASSUME NEW d, NEW a \in Nat PROVE Bytes(d, a, a) = <<>>
  BY DEF Bytes

LEMMA BytesType ==
  ASSUME NEW S, NEW d \in [Pool -> S], NEW a \in Nat, NEW b \in Nat, a <= b, b <= PoolSize
  PROVE  Bytes(d, a, b) \in Seq(S)
  <1>1. b - a \in Nat
    OBVIOUS
  <1>2. \A i \in 1 .. b - a : d[a + i - 1] \in S
    BY PoolAssumption DEF Pool
  <1> QED BY <1>1, <1>2, IsASeq DEF Bytes

LEMMA BytesLen ==
  ASSUME NEW S, NEW d \in [Pool -> S], NEW a \in Nat, NEW b \in Nat, a <= b, b <= PoolSize
  PROVE  Len(Bytes(d, a, b)) = b - a
  <1>1. Bytes(d, a, b) \in Seq(S)
    BY BytesType
  <1>2. b - a \in Nat /\ DOMAIN Bytes(d, a, b) = 1 .. b - a
    BY DEF Bytes
  <1> QED BY <1>1, <1>2, LenProperties

LEMMA BytesEqual ==
  ASSUME NEW d, NEW e, NEW a \in Nat, NEW b \in Nat, \A i \in a .. b - 1 : d[i] = e[i]
  PROVE  Bytes(d, a, b) = Bytes(e, a, b)
  BY DEF Bytes

LEMMA BytesJoin ==
  ASSUME NEW S, NEW d \in [Pool -> S], NEW a \in Nat, NEW b \in Nat, NEW c \in Nat,
         a <= b, b <= c, c <= PoolSize
  PROVE  Bytes(d, a, b) \o Bytes(d, b, c) = Bytes(d, a, c)
  <1> DEFINE x == Bytes(d, a, b)  y == Bytes(d, b, c)  z == Bytes(d, a, c)
  <1> USE PoolAssumption
  <1>0. a <= c /\ b <= PoolSize
    OBVIOUS
  <1>x. x \in Seq(S) /\ y \in Seq(S) /\ z \in Seq(S)
    BY <1>0, BytesType
  <1>l. Len(x) = b - a /\ Len(y) = c - b /\ Len(z) = c - a
    <2>1. Len(x) = b - a
      BY <1>0, BytesLen
    <2>2. Len(y) = c - b
      BY BytesLen
    <2>3. Len(z) = c - a
      BY <1>0, BytesLen
    <2> QED BY <2>1, <2>2, <2>3
  <1>y. /\ \A i \in 1 .. b - a : x[i] = d[a + i - 1]
        /\ \A i \in 1 .. c - b : y[i] = d[b + i - 1]
        /\ \A i \in 1 .. c - a : z[i] = d[a + i - 1]
    BY DEF Bytes
  <1>1. /\ x \in Seq(S) /\ y \in Seq(S) /\ z \in Seq(S)
        /\ Len(x) = b - a /\ Len(y) = c - b /\ Len(z) = c - a
    BY <1>x, <1>l
  <1> HIDE DEF x, y, z
  <1>2. /\ x \o y \in Seq(S) /\ Len(x \o y) = Len(x) + Len(y)
        /\ \A i \in 1 .. Len(x) + Len(y) :
             (x \o y)[i] = IF i <= Len(x) THEN x[i] ELSE y[i - Len(x)]
    BY <1>1, ConcatProperties
  <1>3. ASSUME NEW i \in 1 .. Len(z) PROVE (x \o y)[i] = z[i]
    <2>1. i \in 1 .. c - a /\ z[i] = d[a + i - 1]
      BY <1>y, <1>l
    <2>0. i \in 1 .. Len(x) + Len(y) /\ Len(x) = b - a
      BY <1>1
    <2>c. (x \o y)[i] = IF i <= b - a THEN x[i] ELSE y[i - (b - a)]
      BY <2>0, <1>2
    <2>2. CASE i <= b - a
      <3>1. i \in 1 .. b - a
        BY <2>1, <2>2
      <3>2. x[i] = d[a + i - 1]
        BY <3>1, <1>y
      <3> QED BY <2>1, <2>2, <3>2, <2>c
    <2>3. CASE i > b - a
      <3>1. i - (b - a) \in 1 .. c - b /\ b + (i - (b - a)) - 1 = a + i - 1
        BY <2>1, <2>3
      <3>2. y[i - (b - a)] = d[a + i - 1]
        BY <3>1, <1>y
      <3>3. ~(i <= b - a)
        BY <2>1, <2>3
      <3> QED BY <2>1, <3>3, <3>2, <2>c
    <2>4. i <= b - a \/ i > b - a
      BY <2>1
    <2> QED BY <2>2, <2>3, <2>4
  <1>4. Len(x \o y) = Len(z)
    BY <1>1, <1>2
  <1>5. x \o y = z
    BY <1>1, <1>2, <1>3, <1>4, SeqEqual, Zenon
  <1> QED BY <1>5 DEF x, y, z

LEMMA BytesCopy ==
  ASSUME NEW S, NEW b \in Seq(S), NEW d, NEW a \in Nat,
         \A i \in a .. a + Len(b) - 1 : d[i] = b[i - a + 1]
  PROVE  Bytes(d, a, a + Len(b)) = b
  <1>1. b = [i \in 1 .. Len(b) |-> b[i]] /\ Len(b) \in Nat
    OBVIOUS
  <1>2. ASSUME NEW i \in 1 .. Len(b) PROVE d[a + i - 1] = b[i]
    <2>1. a + i - 1 \in a .. a + Len(b) - 1 /\ (a + i - 1) - a + 1 = i
      BY <1>1
    <2> QED BY <2>1
  <1>3. (a + Len(b)) - a = Len(b)
    BY <1>1
  <1> QED BY <1>1, <1>2, <1>3 DEF Bytes

\* A step of a call that is not one of a writer leaves the pool alone.
LEMMA QuietMedia ==
  ASSUME NEW t \in Threads, Call(t) \/ CallStep(t), pc[t] \notin WritePCs
  PROVE  UNCHANGED <<start_offset, write_offset, flushed_offset, data, flushed_data>>
  <1> USE DEF media, offsets, WritePCs, AppendPCs
  <1>1. CASE Call(t)
    BY <1>1 DEF Call, pmemlog_append, pmemlog_appendv, pmemlog_rewind, pmemlog_tell, pmemlog_walk, Begin
  <1>2. CASE WrLock(t) \/ RdLock(t) \/ WalkChunk(t) \/ WalkEnd(t) \/ Tell(t) \/ Unlock(t) \/ Return(t)
    BY <1>2 DEF WrLock, RdLock, WalkChunk, WalkEnd, Tell, Unlock, Return
  <1>3. CASE CheckSpace(t) \/ Copy(t) \/ PersistData(t) \/ StoreOffset(t) \/ RewindOffset(t)
             \/ PersistOffset(t)
    BY <1>3 DEF CheckSpace, Copy, PersistData, StoreOffset, RewindOffset, PersistOffset, Goto
  <1> QED BY <1>1, <1>2, <1>3 DEF CallStep

LEMMA SmallMod == ASSUME NEW x \in Nat, NEW y \in Nat, NEW z \in Nat \ {0}, x + y < z
                  PROVE  (x + y) % z = x + y
  OBVIOUS

\* A chunk that a walk passes on continues what it has passed already.
LEMMA WalkChunkStep ==
  ASSUME ChunksFit, LogInv, CallsMatch, Walks, NEW t \in Threads, WalkChunk(t)
  PROVE  /\ pc'[t] = "walk" =>
              /\ start_offset <= off'[t] /\ op[t].chunksize # 0
              /\ got'[t] = Bytes(data, start_offset, Least(off'[t], write_offset))
         /\ pc'[t] = "unlock" =>
              \E n \in start_offset .. write_offset :
                /\ got'[t] = Bytes(data, start_offset, n)
                /\ op[t].stop \/ n = write_offset
  <1> DEFINE c == op[t].chunksize
             len == IF c = 0 \/ c > write_offset - off[t] THEN write_offset - off[t] ELSE c
             m == off[t] + len
  <1>t. /\ pc \in [Threads -> LogPCs] /\ op \in [Threads -> LogOp] /\ off \in [Threads -> Offset]
        /\ off[t] \in Nat /\ data \in [Pool -> Byte \cup {Meta}]
        /\ got = [u \in Threads |-> got[u]]
    BY LogTyping DEF LogInv, TypeOK, CallsMatch
  <1>o. /\ mode = "open" /\ start_offset = Start /\ Start \in Nat
        /\ write_offset \in Start .. PoolSize /\ PoolSize \in Nat
    BY LogOpen, PoolAssumption DEF WalkChunk, Goto
  <1>w. /\ pc[t] = "walk" /\ op' = op /\ start_offset <= off[t]
        /\ got[t] = Bytes(data, start_offset, Least(off[t], write_offset))
        /\ c = 0 => off[t] = start_offset
        /\ c = 0 \/ off[t] < write_offset
        /\ got'[t] = got[t] \o Bytes(data, off[t], m)
        /\ off'[t] = (off[t] + c) % OffsetMod
        /\ pc'[t] \in {"walk", "unlock"}
        /\ pc'[t] = "walk" => c # 0
        /\ pc'[t] = "unlock" => c = 0 \/ op[t].stop
    BY <1>t DEF WalkChunk, Goto, Walks
  <1>c. c \in Nat /\ PoolSize + c <= OffsetMod /\ OffsetMod \in Nat \ {0}
    <2>1. c \in ChunkSizes \cup {0}
      BY <1>w DEF CallsMatch
    <2> HIDE DEF c
    <2>2. CASE c \in ChunkSizes
      BY <2>2, InputAssumption, PoolAssumption DEF ChunksFit
    <2>3. CASE c = 0
      BY <2>3, PoolAssumption
    <2> QED BY <2>1, <2>2, <2>3
  <1>1. Start <= off[t] /\ off[t] <= write_offset /\ Least(off[t], write_offset) = off[t]
    BY <1>w, <1>o, <1>t DEF Least
  <1> HIDE DEF c
  <1>2. m \in Nat /\ off[t] <= m /\ m <= write_offset /\ m <= PoolSize
    <2>1. len \in Nat /\ len <= write_offset - off[t]
      BY <1>1, <1>o, <1>t, <1>c
    <2> QED BY <2>1, <1>1, <1>o, <1>t
  <1> HIDE DEF len, m
  <1>3. got'[t] = Bytes(data, Start, m)
    <2>1. got'[t] = Bytes(data, Start, off[t]) \o Bytes(data, off[t], m)
      BY <1>w, <1>1, <1>o
    <2> QED BY <2>1, <1>1, <1>2, <1>o, <1>t, BytesJoin
  <1>4. CASE pc'[t] = "walk"
    <2>1. c # 0 /\ off[t] < write_offset /\ off[t] + c < OffsetMod
      BY <1>4, <1>w, <1>c, <1>o, <1>t
    <2>2. off'[t] = off[t] + c
      <3>1. (off[t] + c) % OffsetMod = off[t] + c
        BY <2>1, <1>c, <1>t, SmallMod
      <3> QED BY <3>1, <1>w
    <2>3. m = Least(off'[t], write_offset)
      BY <2>1, <2>2, <1>c, <1>o, <1>t DEF Least, m, len
    <2> QED BY <1>4, <2>1, <2>2, <2>3, <1>3, <1>1, <1>c, <1>o, <1>t DEF c
  <1>5. CASE pc'[t] = "unlock"
    <2>1. m \in start_offset .. write_offset
      BY <1>1, <1>2, <1>o, <1>t
    <2>2. c = 0 => m = write_offset
      BY <1>o, <1>t DEF m, len
    <2> QED BY <1>5, <2>1, <2>2, <1>3, <1>o, <1>w DEF c
  <1> QED BY <1>4, <1>5, <1>w

LEMMA WalksStep ==
  ASSUME ChunksFit, LogInv, CallsMatch, ReadersShare, Walks, NEW t \in Threads, Call(t) \/ CallStep(t)
  PROVE  Walks'
  <1>t. /\ pc \in [Threads -> LogPCs] /\ op \in [Threads -> LogOp] /\ off \in [Threads -> Offset]
        /\ off[t] \in Nat /\ got = [u \in Threads |-> got[u]] /\ got' = [u \in Threads |-> got'[u]]
    BY LogTyping, CallsMatchStep DEF LogInv, CallsMatch
  <1>o. /\ mode = "open" /\ start_offset = Start /\ Start \in Nat
        /\ write_offset \in Start .. PoolSize /\ PoolSize \in Nat
    BY LogOthers, LogOpen, PoolAssumption
  <1>u. \A u \in Threads \ {t} :
          pc'[u] = pc[u] /\ op'[u] = op[u] /\ off'[u] = off[u] /\ got'[u] = got[u]
    BY LogOthers
  <1>r. ASSUME NEW u \in Threads, Reading(u) PROVE pc[t] \notin WritePCs
    BY <1>r, ReadersAlone
  <1> USE DEF WritePCs, AppendPCs, WriteKinds
  <1>w. Walks
    OBVIOUS
  <1>1. CASE pc[t] \in WritePCs
    <2>1. ASSUME NEW u \in Threads PROVE ~Reading(u)
      BY <1>1, <1>r
    <2>2. pc'[t] \in WritePCs \cup {"unlock"} /\ op'[t] = op[t] /\ op[t].kind # "walk"
      <3>1. CASE CheckSpace(t) \/ PersistData(t) \/ StoreOffset(t) \/ RewindOffset(t) \/ PersistOffset(t)
        BY <3>1, <1>t DEF CheckSpace, PersistData, StoreOffset, RewindOffset, PersistOffset, Goto, CallsMatch
      <3>2. CASE Copy(t)
        BY <3>2, <1>t DEF Copy, Goto, CallsMatch
      <3> QED BY <1>1, <3>1, <3>2 DEF Call, pmemlog_append, pmemlog_appendv, pmemlog_rewind, pmemlog_tell,
             pmemlog_walk, Begin, CallStep, WrLock, RdLock, WalkChunk, WalkEnd, Tell, Unlock, Return, Goto
    <2> QED BY <2>1, <2>2, <1>u DEF Walks, Reading
  <1>2. CASE pc[t] \notin WritePCs
    <2>m. UNCHANGED <<start_offset, write_offset, data>>
      BY <1>2, QuietMedia
    <2>s. SUFFICES \/ pc'[t] \notin {"walk", "unlock"}
                   \/ pc'[t] = "unlock" /\ op'[t].kind # "walk"
                   \/ /\ pc'[t] = "walk" =>
                           /\ start_offset <= off'[t]
                           /\ op'[t].chunksize = 0 => off'[t] = start_offset
                           /\ got'[t] = Bytes(data, start_offset, Least(off'[t], write_offset))
                      /\ pc'[t] = "unlock" =>
                           \E n \in start_offset .. write_offset :
                             /\ got'[t] = Bytes(data, start_offset, n)
                             /\ op'[t].stop \/ n = write_offset
      BY <2>m, <1>u, <1>w DEF Walks
    <2>1. CASE Call(t) \/ WrLock(t) \/ Unlock(t) \/ Return(t)
      BY <2>1, <1>t DEF Call, pmemlog_append, pmemlog_appendv, pmemlog_rewind, pmemlog_tell,
         pmemlog_walk, Begin, WrLock, Unlock, Return, Goto
    <2>2. CASE RdLock(t)
      <3>1. pc'[t] \in {"walk", "tell"} /\ off'[t] = start_offset /\ got'[t] = <<>>
        BY <2>2, <1>t DEF RdLock, Goto, CallsMatch
      <3>2. Least(start_offset, write_offset) = start_offset
        BY <1>o DEF Least
      <3>3. Bytes(data, start_offset, start_offset) = <<>>
        BY <1>o, BytesEmpty
      <3> QED BY <3>1, <3>2, <3>3, <1>o
    <2>3. CASE WalkEnd(t)
      <3>1. /\ pc'[t] = "unlock" /\ op' = op /\ got' = got /\ write_offset <= off[t]
            /\ got[t] = Bytes(data, start_offset, Least(off[t], write_offset))
        BY <2>3, <1>t DEF WalkEnd, Goto, Walks
      <3>2. Least(off[t], write_offset) = write_offset /\ write_offset \in start_offset .. write_offset
        BY <3>1, <1>o, <1>t DEF Least
      <3> QED BY <3>1, <3>2
    <2>4. CASE Tell(t)
      BY <2>4, <1>t DEF Tell, Goto, CallsMatch
    <2>5. CASE WalkChunk(t)
      <3>1. op' = op
        BY <2>5 DEF WalkChunk
      <3> QED BY <2>5, <3>1, WalkChunkStep
    <2> QED BY <1>2, <2>1, <2>2, <2>3, <2>4, <2>5 DEF CallStep, CheckSpace, Copy, PersistData,
           StoreOffset, RewindOffset, PersistOffset, Goto
  <1> QED BY <1>1, <1>2

\* The copy of an append stays what the buffer holds ...
LEMMA CopiedStep ==
  ASSUME LogInv, CallsMatch, Copied, NEW t \in Threads, Call(t) \/ CallStep(t)
  PROVE  Copied'
  <1>t. /\ pc \in [Threads -> LogPCs] /\ op \in [Threads -> LogOp] /\ off \in [Threads -> Offset]
        /\ data \in [Pool -> Byte \cup {Meta}] /\ flushed_data \in [Pool -> Byte \cup {Meta}]
        /\ \A u \in Threads : Len(op[u].buf) \in Nat /\ off[u] \in Nat
    BY LogTyping DEF LogInv, TypeOK
  <1>o. mode = "open" /\ write_offset \in Start .. PoolSize /\ Start \in Nat /\ PoolSize \in Nat
    BY LogOthers, LogOpen, PoolAssumption
  <1>u. \A u \in Threads \ {t} : pc'[u] = pc[u] /\ op'[u] = op[u] /\ off'[u] = off[u]
    BY LogOthers
  <1>a. \A u \in Threads \ {t} : pc[t] \in WritePCs => pc[u] \notin WritePCs
    BY LogAlone
  <1>c. Copied
    OBVIOUS
  <1> USE DEF WritePCs, AppendPCs, CopyPCs
  <1>1. CASE pc[t] \notin WritePCs
    <2>1. UNCHANGED <<write_offset, data, flushed_data>>
      BY <1>1, QuietMedia
    <2>2. pc'[t] \notin CopyPCs
      BY <1>1, <1>t DEF Call, pmemlog_append, pmemlog_appendv, pmemlog_rewind, pmemlog_tell,
         pmemlog_walk, Begin, CallStep, WrLock, RdLock, WalkChunk, WalkEnd, Tell, Unlock, Return,
         CheckSpace, Copy, PersistData, StoreOffset, RewindOffset, PersistOffset, Goto
    <2> QED BY <2>1, <2>2, <1>u, <1>c DEF Copied
  <1>2. CASE pc[t] \in WritePCs
    <2>u. \A u \in Threads \ {t} : pc'[u] \notin CopyPCs
      BY <1>2, <1>a, <1>u
    <2>1. CASE CheckSpace(t)
      <3>1. /\ off'[t] = write_offset /\ write_offset' = write_offset /\ pc'[t] \in {"copy", "unlock"}
            /\ pc'[t] = "copy" => write_offset < end_offset
        BY <2>1, <1>t DEF CheckSpace, Goto, media, offsets
      <3>2. end_offset = PoolSize
        BY <1>o, LogOpen
      <3> QED BY <3>1, <3>2, <2>u, <1>o DEF Copied
    <2>2. CASE Copy(t)
      <3>1. /\ pc[t] = "copy" /\ write_offset <= off[t] /\ write_offset + Len(op[t].buf) <= PoolSize
            /\ \A i \in write_offset .. off[t] - 1 : data[i] = op[t].buf[i - write_offset + 1]
            /\ UNCHANGED <<write_offset, op>>
        BY <2>2, <1>c DEF Copy, Goto, LogInv, AppendFits, Copied, offsets
      <3>2. PICK n \in 0 .. (Len(op[t].buf) - (off[t] - write_offset)) :
              /\ pc' = [pc EXCEPT ![t] = IF n = Len(op[t].buf) - (off[t] - write_offset)
                                         THEN "data" ELSE "copy"]
              /\ data' = [i \in Pool |-> IF i \in off[t] .. off[t] + n - 1
                                          THEN op[t].buf[i - write_offset + 1] ELSE data[i]]
              /\ off' = [off EXCEPT ![t] = off[t] + n]
        BY <2>2 DEF Copy, Goto
      <3>3. off'[t] = off[t] + n /\ pc'[t] \in {"data", "copy"}
            /\ (pc'[t] = "data" => n = Len(op[t].buf) - (off[t] - write_offset))
        BY <3>2, <1>t
      <3>4. ASSUME NEW i \in write_offset .. off'[t] - 1
            PROVE  data'[i] = op[t].buf[i - write_offset + 1]
        <4>1. i \in Pool
          BY <3>1, <3>2, <3>3, <1>o, <1>t DEF Pool
        <4>2. i \in write_offset .. off[t] - 1 \/ i \in off[t] .. off[t] + n - 1
          BY <3>3, <3>2, <1>o, <1>t
        <4> QED BY <4>1, <4>2, <3>1, <3>2
      <3>5. pc'[t] = "data" => off'[t] = write_offset + Len(op[t].buf)
        BY <3>3, <3>1, <1>o, <1>t
      <3> QED BY <3>1, <3>3, <3>4, <3>5, <2>u DEF Copied
    <2>3. CASE PersistData(t)
      <3>1. /\ pc[t] = "data" /\ pc'[t] = "offset" /\ UNCHANGED <<write_offset, data, op, off>>
            /\ flushed_data' = [i \in Pool |-> IF i \in write_offset .. off[t] - 1
                                                THEN data[i] ELSE flushed_data[i]]
        BY <2>3, <1>t DEF PersistData, Goto, offsets
      <3>2. off[t] <= PoolSize
        BY <3>1, <1>c, <1>o, <1>t DEF LogInv, AppendFits, Copied
      <3>3. \A i \in write_offset .. off[t] - 1 : flushed_data'[i] = data[i]
        BY <3>1, <3>2, <1>o, <1>t DEF Pool
      <3> QED BY <3>1, <3>3, <2>u, <1>c DEF Copied
    <2>4. CASE StoreOffset(t) \/ RewindOffset(t) \/ PersistOffset(t)
      <3>1. pc'[t] \notin CopyPCs
        BY <2>4, <1>t DEF StoreOffset, RewindOffset, PersistOffset, Goto
      <3> QED BY <3>1, <2>u DEF Copied
    <2> QED BY <1>2, <2>1, <2>2, <2>3, <2>4 DEF Call, pmemlog_append, pmemlog_appendv, pmemlog_rewind,
           pmemlog_tell, pmemlog_walk, Begin, CallStep, WrLock, RdLock, WalkChunk, WalkEnd, Tell,
           Unlock, Return, Goto
  <1> QED BY <1>1, <1>2

\* ... and the log on media stays below the offsets.
LEMMA SettledStep ==
  ASSUME LogInv, CallsMatch, Copied, Settled, NEW t \in Threads, Call(t) \/ CallStep(t)
  PROVE  Settled'
  <1>t. /\ pc \in [Threads -> LogPCs] /\ op \in [Threads -> LogOp] /\ off \in [Threads -> Offset]
        /\ data \in [Pool -> Byte \cup {Meta}] /\ flushed_data \in [Pool -> Byte \cup {Meta}]
        /\ \A u \in Threads : Len(op[u].buf) \in Nat /\ off[u] \in Nat
    BY LogTyping DEF LogInv, TypeOK
  <1>o. /\ mode = "open" /\ hdr = "valid" /\ hdr' = "valid" /\ start_offset = Start
        /\ write_offset \in Start .. PoolSize /\ flushed_offset \in Start .. PoolSize
        /\ Start \in Nat /\ PoolSize \in Nat
    BY LogOthers, LogOpen, PoolAssumption
  <1>u. \A u \in Threads \ {t} : pc'[u] = pc[u]
    BY LogOthers
  <1>s. /\ \A i \in Start .. write_offset - 1 : flushed_data[i] = data[i]
        /\ \A i \in Start .. flushed_offset - 1 : flushed_data[i] = data[i]
        /\ (\A u \in Threads : pc[u] # "flush") => write_offset = flushed_offset
    BY <1>o DEF Settled
  <1> USE DEF WritePCs, AppendPCs, CopyPCs
  <1>a. pc[t] \in AppendPCs \cup {"rewind"} => \A u \in Threads : pc[u] # "flush"
    BY LogAlone
  <1>1. CASE pc[t] \notin WritePCs
    <2>1. UNCHANGED <<write_offset, flushed_offset, data, flushed_data>>
      BY <1>1, QuietMedia
    <2>2. pc[t] # "flush"
      BY <1>1
    <2> QED BY <2>1, <2>2, <1>s, <1>u DEF Settled
  <1>2. CASE CheckSpace(t)
    <2>1. UNCHANGED <<write_offset, flushed_offset, data, flushed_data>> /\ pc[t] = "space"
      BY <1>2 DEF CheckSpace, Goto, media, offsets
    <2> QED BY <2>1, <1>s, <1>u DEF Settled
  <1>3. CASE Copy(t)
    <2>1. /\ pc[t] = "copy" /\ write_offset <= off[t]
          /\ UNCHANGED <<write_offset, flushed_offset, flushed_data>>
      BY <1>3 DEF Copy, Goto, LogInv, AppendFits, offsets
    <2>2. write_offset = flushed_offset
      BY <2>1, <1>a, <1>s
    <2>3. \A i \in Start .. write_offset - 1 : data'[i] = data[i]
      BY <1>3, <2>1, <1>o, <1>t DEF Copy, Pool
    <2> QED BY <2>1, <2>2, <2>3, <1>s, <1>u DEF Settled
  <1>4. CASE PersistData(t)
    <2>1. /\ pc[t] = "data" /\ UNCHANGED <<write_offset, flushed_offset, data>>
          /\ flushed_data' = [i \in Pool |-> IF i \in write_offset .. off[t] - 1
                                              THEN data[i] ELSE flushed_data[i]]
      BY <1>4, <1>t DEF PersistData, Goto, offsets
    <2>2. \A i \in Start .. write_offset - 1 : flushed_data'[i] = flushed_data[i]
      BY <2>1, <1>o, <1>t DEF Pool
    <2>3. write_offset = flushed_offset
      BY <2>1, <1>a, <1>s
    <2> QED BY <2>1, <2>2, <2>3, <1>s, <1>u DEF Settled
  <1>5. CASE StoreOffset(t)
    <2>1. /\ pc[t] = "offset" /\ pc'[t] = "flush" /\ write_offset' = off[t]
          /\ UNCHANGED <<flushed_offset, data, flushed_data>>
          /\ \A i \in write_offset .. off[t] - 1 : flushed_data[i] = data[i]
      BY <1>5, <1>t DEF StoreOffset, Goto, Copied
    <2>2. \A i \in Start .. off[t] - 1 :
            i \in Start .. write_offset - 1 \/ i \in write_offset .. off[t] - 1
      BY <1>o, <1>t
    <2> QED BY <2>1, <2>2, <1>s DEF Settled
  <1>6. CASE RewindOffset(t)
    <2>1. /\ pc'[t] = "flush" /\ write_offset' = Start
          /\ UNCHANGED <<flushed_offset, data, flushed_data>>
      BY <1>6, <1>t, <1>o DEF RewindOffset, Goto
    <2> QED BY <2>1, <1>s, <1>o DEF Settled
  <1>7. CASE PersistOffset(t)
    <2>1. flushed_offset' = write_offset /\ UNCHANGED <<write_offset, data, flushed_data>>
      BY <1>7 DEF PersistOffset
    <2> QED BY <2>1, <1>s DEF Settled
  <1> QED BY <1>1, <1>2, <1>3, <1>4, <1>5, <1>6, <1>7 DEF Call, pmemlog_append, pmemlog_appendv,
         pmemlog_rewind, pmemlog_tell, pmemlog_walk, Begin, CallStep, WrLock, RdLock, WalkChunk,
         WalkEnd, Tell, Unlock, Return, Goto

LEMMA BytesPrefix ==
  ASSUME NEW S, NEW d \in [Pool -> S], NEW a \in Nat, NEW b \in Nat, NEW c \in Nat,
         a <= b, b <= c, c <= PoolSize
  PROVE  SubSeq(Bytes(d, a, c), 1, b - a) = Bytes(d, a, b)
  <1>1. Bytes(d, a, c) \in Seq(S) /\ a <= c
    BY BytesType
  <1>2. Len(Bytes(d, a, c)) = c - a
    BY <1>1, BytesLen
  <1>3. ASSUME NEW i \in 1 .. b - a PROVE Bytes(d, a, c)[i] = Bytes(d, a, b)[i]
    BY <1>1 DEF Bytes
  <1>4. SubSeq(Bytes(d, a, c), 1, b - a) = [i \in 1 .. b - a |-> Bytes(d, a, c)[i]]
    BY <1>1, <1>2, SubSeqRestrict
  <1>5. [i \in 1 .. b - a |-> Bytes(d, a, b)[i]] = Bytes(d, a, b)
    BY DEF Bytes
  <1> QED BY <1>3, <1>4, <1>5

LEMMA LogInvariantStart == Init => LogInvariant
  <1> SUFFICES ASSUME Init PROVE LogInvariant
    OBVIOUS
  <1>1. LogInv
    BY LogStart
  <1>2. CallsMatch
    BY DEF Init, CallsMatch, AppendPCs, CopyPCs
  <1>3. ReadersShare /\ Walks /\ Copied /\ Settled
    BY DEF Init, ReadersShare, Reading, Walks, Copied, Settled, CopyPCs
  <1> QED BY <1>1, <1>2, <1>3 DEF LogInvariant

\* While the pool is created, opened or closed no call is in progress; a power
\* failure ends them all and leaves one state of the pool.
LEMMA LogInvariantPool ==
  ASSUME LogInvariant,
         \/ pmemlog_create \/ StoreMeta \/ StoreHeader \/ pmemlog_open \/ pmemlog_close
         \/ Crash \/ Unusable \/ UNCHANGED vars
  PROVE  LogInvariant'
  <1>0. LogInv /\ CallsMatch /\ ReadersShare /\ Walks /\ Copied /\ Settled
    BY DEF LogInvariant
  <1>i. LogInv'
    BY <1>0, LogPool
  <1> USE DEF media, offsets, lock, calls
  <1>1. CASE pmemlog_create \/ pmemlog_open \/ pmemlog_close \/ Unusable \/ UNCHANGED vars
    <2>1. UNCHANGED <<media, lock, calls>>
      BY <1>1 DEF pmemlog_create, pmemlog_open, pmemlog_close, Unusable, vars
    <2>2. CallsMatch' /\ ReadersShare'
      BY <2>1, <1>0 DEF CallsMatch, ReadersShare, Reading
    <2>3. Walks' /\ Copied' /\ Settled'
      BY <2>1, <1>0 DEF Walks, Copied, Settled, Bytes, Least
    <2> QED BY <2>2, <2>3, <1>i DEF LogInvariant
  <1>2. CASE StoreMeta \/ StoreHeader
    <2>1. /\ UNCHANGED <<data, flushed_data, lock, calls>>
          /\ \A t \in Threads : pc[t] = "idle"
          /\ hdr' = "valid" => write_offset' = Start /\ flushed_offset' = Start
      BY <1>2, <1>0 DEF StoreMeta, StoreHeader, LogInv, Stages
    <2>2. CallsMatch' /\ ReadersShare'
      BY <2>1, <1>0 DEF CallsMatch, ReadersShare, Reading
    <2>3. Walks' /\ Copied'
      BY <2>1 DEF Walks, Copied, CopyPCs
    <2>4. Settled'
      BY <2>1, PoolAssumption DEF Settled
    <2> QED BY <2>2, <2>3, <2>4, <1>i DEF LogInvariant
  <1>3. CASE Crash
    <2>1. /\ pc' = [t \in Threads |-> "idle"] /\ op' = [t \in Threads |-> NoCall]
          /\ got' = [t \in Threads |-> <<>>] /\ writer' = NoThread
          /\ flushed_offset' = write_offset' /\ flushed_data' = data'
      BY <1>3 DEF Crash
    <2>2. CallsMatch'
      BY <2>1 DEF CallsMatch, AppendPCs, CopyPCs
    <2>3. ReadersShare' /\ Walks' /\ Copied' /\ Settled'
      BY <2>1 DEF ReadersShare, Reading, Walks, Copied, Settled, CopyPCs
    <2> QED BY <2>2, <2>3, <1>i DEF LogInvariant
  <1> QED BY <1>1, <1>2, <1>3

LEMMA LogInvariantStep ==
  ASSUME ChunksFit, LogInvariant, [Next]_vars
  PROVE  LogInvariant'
  <1>1. ASSUME NEW t \in Threads, Call(t) \/ CallStep(t) PROVE LogInvariant'
    <2>0. LogInv /\ CallsMatch /\ ReadersShare /\ Walks /\ Copied /\ Settled
      BY DEF LogInvariant
    <2>1. LogInv'
      BY <1>1, <2>0, LogQuiet, LogUpdate DEF CallStep
    <2>2. CallsMatch'
      BY <1>1, <2>0, CallsMatchStep
    <2>3. ReadersShare'
      BY <1>1, <2>0, ReadersStep
    <2>4. Walks'
      BY <1>1, <2>0, WalksStep
    <2>5. Copied'
      BY <1>1, <2>0, CopiedStep
    <2>6. Settled'
      BY <1>1, <2>0, SettledStep
    <2> QED BY <2>1, <2>2, <2>3, <2>4, <2>5, <2>6 DEF LogInvariant
  <1> QED BY <1>1, LogInvariantPool DEF Next

\* "walks through the log from beginning to end": a walk that its callback does
\* not end passes exactly the contents of the log to it, whatever the other
\* threads append and rewind, unless the chunk size is so large that the offset
\* wraps around.
THEOREM WalkSeesWholeLog == ASSUME ChunksFit PROVE Spec => []WalkSeesLog
  <1>1. LogInvariant => WalkSeesLog
    BY DEF LogInvariant, Walks, WalkSeesLog
  <1>2. LogInvariant /\ [Next]_vars => LogInvariant'
    BY LogInvariantStep
  <1> QED BY <1>1, <1>2, LogInvariantStart, PTL DEF Spec

-----------------------------------------------------------------------------
(* The pool implements the log of AppendLog.                                 *)

LogBar == Contents(data, write_offset)
DurBar == Contents(flushed_data, flushed_offset)
ReqBar == [t \in Threads |-> Abs(t)]

\* The request of a call o before it takes effect, once it is visible, and once
\* it is durable, with the result g.
AbsKind(o)  == IF o.kind = "appendv" THEN "append" ELSE o.kind
Fresh(o)    == [kind |-> AbsKind(o), val |-> o.buf, stop |-> o.stop,
                seen |-> FALSE, hard |-> FALSE, res |-> <<>>]
Shown(o, g) == [kind |-> AbsKind(o), val |-> o.buf, stop |-> o.stop,
                seen |-> TRUE, hard |-> FALSE, res |-> g]
Over(o, g)  == [kind |-> AbsKind(o), val |-> o.buf, stop |-> o.stop,
                seen |-> TRUE, hard |-> TRUE, res |-> g]

LEMMA AbsNow ==
  ASSUME NEW t
  PROVE  /\ pc[t] \notin {"unlock", "done", "flush"} => Abs(t) = Fresh(op[t])
         /\ pc[t] = "flush" => Abs(t) = Shown(op[t], got[t])
         /\ pc[t] \in {"unlock", "done"} => Abs(t) = Over(op[t], got[t])
  <1> DEFINE over == pc[t] \in {"unlock", "done"}
             seen == over \/ pc[t] = "flush"
             res == IF over \/ pc[t] = "flush" THEN got[t] ELSE <<>>
  <1>1. ASSUME pc[t] \notin {"unlock", "done", "flush"} PROVE Abs(t) = Fresh(op[t])
    <2>1. over = FALSE /\ seen = FALSE /\ res = <<>>
      BY <1>1
    <2> QED BY <2>1, Zenon DEF Abs, AbsKind, Fresh
  <1>2. ASSUME pc[t] = "flush" PROVE Abs(t) = Shown(op[t], got[t])
    <2>1. over = FALSE /\ seen = TRUE /\ res = got[t]
      BY <1>2
    <2> QED BY <2>1, Zenon DEF Abs, AbsKind, Shown
  <1>3. ASSUME pc[t] \in {"unlock", "done"} PROVE Abs(t) = Over(op[t], got[t])
    <2>1. over = TRUE /\ seen = TRUE /\ res = got[t]
      BY <1>3
    <2> QED BY <2>1, Zenon DEF Abs, AbsKind, Over
  <1> QED BY <1>1, <1>2, <1>3, Zenon

LEMMA AbsNext ==
  ASSUME NEW t
  PROVE  /\ pc'[t] \notin {"unlock", "done", "flush"} => Abs(t)' = Fresh(op'[t])
         /\ pc'[t] = "flush" => Abs(t)' = Shown(op'[t], got'[t])
         /\ pc'[t] \in {"unlock", "done"} => Abs(t)' = Over(op'[t], got'[t])
  <1> DEFINE over == pc'[t] \in {"unlock", "done"}
             seen == over \/ pc'[t] = "flush"
             res == IF over \/ pc'[t] = "flush" THEN got'[t] ELSE <<>>
  <1>1. ASSUME pc'[t] \notin {"unlock", "done", "flush"} PROVE Abs(t)' = Fresh(op'[t])
    <2>1. over = FALSE /\ seen = FALSE /\ res = <<>>
      BY <1>1
    <2> QED BY <2>1, Zenon DEF Abs, AbsKind, Fresh
  <1>2. ASSUME pc'[t] = "flush" PROVE Abs(t)' = Shown(op'[t], got'[t])
    <2>1. over = FALSE /\ seen = TRUE /\ res = got'[t]
      BY <1>2
    <2> QED BY <2>1, Zenon DEF Abs, AbsKind, Shown
  <1>3. ASSUME pc'[t] \in {"unlock", "done"} PROVE Abs(t)' = Over(op'[t], got'[t])
    <2>1. over = TRUE /\ seen = TRUE /\ res = got'[t]
      BY <1>3
    <2> QED BY <2>1, Zenon DEF Abs, AbsKind, Over
  <1> QED BY <1>1, <1>2, <1>3, Zenon

\* What the steps of AppendLog do to such a request.  The provers rewrite a
\* record more readily when the values of its fields are names.
Req6(k, v, p, s, h, r) == [kind |-> k, val |-> v, stop |-> p, seen |-> s, hard |-> h, res |-> r]

SetShown(f, t, g)  == [f EXCEPT ![t].seen = TRUE, ![t].res = g]
SetAnswer(f, t, g) == [f EXCEPT ![t].seen = TRUE, ![t].hard = TRUE, ![t].res = g]
SetHard(f, t)      == [f EXCEPT ![t].hard = TRUE]

LEMMA AbsShow ==
  ASSUME NEW o, NEW g, NEW t, NEW f, f[t] = Fresh(o)
  PROVE  SetShown(f, t, g) = [f EXCEPT ![t] = Shown(o, g)]
  <1> DEFINE R(s, h, r) == Req6(AbsKind(o), o.buf, o.stop, s, h, r)
  <1>1. ASSUME NEW T, NEW F, NEW E, f[t] = R(F, F, E)
        PROVE  [f EXCEPT ![t].seen = T, ![t].res = g] = [f EXCEPT ![t] = R(T, F, g)]
    <2>1. [R(F, F, E) EXCEPT !.seen = T] = R(T, F, E)
      BY DEF Req6
    <2>2. [R(T, F, E) EXCEPT !.res = g] = R(T, F, g)
      BY DEF Req6
    <2>3. [f[t] EXCEPT !.seen = T, !.res = g] = [[f[t] EXCEPT !.seen = T] EXCEPT !.res = g]
      OBVIOUS
    <2>4. [f[t] EXCEPT !.seen = T, !.res = g] = R(T, F, g)
      BY <2>1, <2>2, <2>3, <1>1, Zenon
    <2>5. [f EXCEPT ![t].seen = T, ![t].res = g] = [f EXCEPT ![t] = [f[t] EXCEPT !.seen = T, !.res = g]]
      OBVIOUS
    <2> QED BY <2>4, <2>5, Zenon
  <1>2. f[t] = R(FALSE, FALSE, <<>>) /\ Shown(o, g) = R(TRUE, FALSE, g)
    BY Zenon DEF Fresh, Shown, Over, Req6
  <1> HIDE DEF R
  <1>3. f[t] = R(FALSE, FALSE, <<>>) => [f EXCEPT ![t].seen = TRUE, ![t].res = g] = [f EXCEPT ![t] = R(TRUE, FALSE, g)]
    BY ONLY <1>1
  <1> QED BY <1>2, <1>3, Zenon DEF SetShown

LEMMA AbsRefuse ==
  ASSUME NEW o, NEW t, NEW f, f[t] = Fresh(o)
  PROVE  [f EXCEPT ![t].seen = TRUE, ![t].hard = TRUE] = [f EXCEPT ![t] = Over(o, <<>>)]
  <1> DEFINE R(s, h, r) == Req6(AbsKind(o), o.buf, o.stop, s, h, r)
  <1>1. f[t] = R(FALSE, FALSE, <<>>) /\ Over(o, <<>>) = R(TRUE, TRUE, <<>>)
    BY Zenon DEF Fresh, Over, Req6
  <1>2. ASSUME NEW T, NEW F, NEW E, T = TRUE, F = FALSE, E = <<>>
        PROVE  [f EXCEPT ![t].seen = TRUE, ![t].hard = TRUE] = [f EXCEPT ![t] = Over(o, <<>>)]
    <2>1. [R(F, F, E) EXCEPT !.seen = T] = R(T, F, E)
      BY DEF Req6
    <2>2. [R(T, F, E) EXCEPT !.hard = T] = R(T, T, E)
      BY DEF Req6
    <2>3. [f[t] EXCEPT !.seen = T, !.hard = T] = [[f[t] EXCEPT !.seen = T] EXCEPT !.hard = T]
      OBVIOUS
    <2> HIDE DEF R
    <2>4. f[t] = R(F, F, E)
      BY <1>1, <1>2, Zenon
    <2>5. [f[t] EXCEPT !.seen = T, !.hard = T] = R(T, T, E)
      BY <2>1, <2>2, <2>3, <2>4, Zenon
    <2>6. [f EXCEPT ![t].seen = T, ![t].hard = T] = [f EXCEPT ![t] = [f[t] EXCEPT !.seen = T, !.hard = T]]
      OBVIOUS
    <2> QED BY <2>5, <2>6, <1>1, <1>2, Zenon
  <1> QED BY <1>2, Zenon

LEMMA AbsAnswer ==
  ASSUME NEW o, NEW g, NEW t, NEW f, f[t] = Fresh(o)
  PROVE  SetAnswer(f, t, g) = [f EXCEPT ![t] = Over(o, g)]
  <1> DEFINE R(s, h, r) == Req6(AbsKind(o), o.buf, o.stop, s, h, r)
  <1>1. ASSUME NEW T, NEW F, NEW E, f[t] = R(F, F, E)
        PROVE  [f EXCEPT ![t].seen = T, ![t].hard = T, ![t].res = g] = [f EXCEPT ![t] = R(T, T, g)]
    <2>1. [R(F, F, E) EXCEPT !.seen = T] = R(T, F, E)
      BY DEF Req6
    <2>2. [R(T, F, E) EXCEPT !.hard = T] = R(T, T, E)
      BY DEF Req6
    <2>3. [R(T, T, E) EXCEPT !.res = g] = R(T, T, g)
      BY DEF Req6
    <2>4. [f[t] EXCEPT !.seen = T, !.hard = T, !.res = g] = [[[f[t] EXCEPT !.seen = T] EXCEPT !.hard = T] EXCEPT !.res = g]
      OBVIOUS
    <2>5. [f[t] EXCEPT !.seen = T, !.hard = T, !.res = g] = R(T, T, g)
      BY <2>1, <2>2, <2>3, <2>4, <1>1, Zenon
    <2>6. [f EXCEPT ![t].seen = T, ![t].hard = T, ![t].res = g] = [f EXCEPT ![t] = [f[t] EXCEPT !.seen = T, !.hard = T, !.res = g]]
      OBVIOUS
    <2> QED BY <2>5, <2>6, Zenon
  <1>2. f[t] = R(FALSE, FALSE, <<>>) /\ Over(o, g) = R(TRUE, TRUE, g)
    BY Zenon DEF Fresh, Shown, Over, Req6
  <1> HIDE DEF R
  <1>3. f[t] = R(FALSE, FALSE, <<>>) => [f EXCEPT ![t].seen = TRUE, ![t].hard = TRUE, ![t].res = g] = [f EXCEPT ![t] = R(TRUE, TRUE, g)]
    BY ONLY <1>1
  <1> QED BY <1>2, <1>3, Zenon DEF SetAnswer

LEMMA AbsHarden ==
  ASSUME NEW o, NEW g, NEW t, NEW f, f[t] = Shown(o, g)
  PROVE  SetHard(f, t) = [f EXCEPT ![t] = Over(o, g)]
  <1> DEFINE R(s, h, r) == Req6(AbsKind(o), o.buf, o.stop, s, h, r)
  <1>1. ASSUME NEW T, NEW F, NEW E, f[t] = R(T, F, g)
        PROVE  [f EXCEPT ![t].hard = T] = [f EXCEPT ![t] = R(T, T, g)]
    <2>1. [R(T, F, g) EXCEPT !.hard = T] = R(T, T, g)
      BY DEF Req6
    <2>2. [f[t] EXCEPT !.hard = T] = R(T, T, g)
      BY <2>1, <1>1, Zenon
    <2>3. [f EXCEPT ![t].hard = T] = [f EXCEPT ![t] = [f[t] EXCEPT !.hard = T]]
      OBVIOUS
    <2> QED BY <2>2, <2>3, Zenon
  <1>2. f[t] = R(TRUE, FALSE, g) /\ Over(o, g) = R(TRUE, TRUE, g)
    BY Zenon DEF Fresh, Shown, Over, Req6
  <1> HIDE DEF R
  <1>3. f[t] = R(TRUE, FALSE, g) => [f EXCEPT ![t].hard = TRUE] = [f EXCEPT ![t] = R(TRUE, TRUE, g)]
    BY ONLY <1>1
  <1> QED BY <1>2, <1>3, Zenon DEF SetHard

LEMMA FreshIdle == Fresh(NoCall) = Log!Idle
  <1>1. NoCall.kind = "idle" /\ NoCall.buf = <<>> /\ NoCall.stop = FALSE
    BY DEF NoCall, Req
  <1>2. AbsKind(NoCall) = "idle"
    BY <1>1 DEF AbsKind
  <1> QED BY <1>1, <1>2, Zenon DEF Fresh, Log!Idle

LEMMA AbsCall ==
  ASSUME NEW o
  PROVE  [Log!Idle EXCEPT !.kind = AbsKind(o), !.val = o.buf, !.stop = o.stop] = Fresh(o)
  <1>1. /\ Log!Idle = Req6("idle", <<>>, FALSE, FALSE, FALSE, <<>>)
        /\ Fresh(o) = Req6(AbsKind(o), o.buf, o.stop, FALSE, FALSE, <<>>)
    BY Zenon DEF Log!Idle, Fresh, Req6
  <1>2. ASSUME NEW i, NEW F, NEW E, i = "idle", F = FALSE, E = <<>>
        PROVE  [Log!Idle EXCEPT !.kind = AbsKind(o), !.val = o.buf, !.stop = o.stop] = Fresh(o)
    <2> DEFINE k == AbsKind(o)  v == o.buf  s == o.stop
    <2> HIDE DEF k, v, s
    <2>1. [Req6(i, E, F, F, F, E) EXCEPT !.kind = k] = Req6(k, E, F, F, F, E)
      BY DEF Req6
    <2>2. [Req6(k, E, F, F, F, E) EXCEPT !.val = v] = Req6(k, v, F, F, F, E)
      BY DEF Req6
    <2>3. [Req6(k, v, F, F, F, E) EXCEPT !.stop = s] = Req6(k, v, s, F, F, E)
      BY DEF Req6
    <2>4. [Req6(i, E, F, F, F, E) EXCEPT !.kind = k, !.val = v, !.stop = s]
            = [[[Req6(i, E, F, F, F, E) EXCEPT !.kind = k] EXCEPT !.val = v] EXCEPT !.stop = s]
      OBVIOUS
    <2>5. [Req6(i, E, F, F, F, E) EXCEPT !.kind = k, !.val = v, !.stop = s] = Req6(k, v, s, F, F, E)
      BY <2>1, <2>2, <2>3, <2>4, Zenon
    <2>6. Log!Idle = Req6(i, E, F, F, F, E) /\ Fresh(o) = Req6(k, v, s, F, F, E)
      BY <1>1, <1>2, Zenon DEF k, v, s
    <2> QED BY <2>5, <2>6, Zenon DEF k, v, s
  <1> QED BY <1>2, Zenon

\* The abstract state at a step of a call: the log is what is behind the write
\* offset, and only the thread's own request changes.
LEMMA BarOpen ==
  ASSUME LogInvariant, mode = "open"
  PROVE  /\ LogBar = Bytes(data, Start, write_offset)
         /\ DurBar = Bytes(flushed_data, Start, flushed_offset)
         /\ LogBar \in Seq(Byte \cup {Meta}) /\ Len(LogBar) = write_offset - Start
         /\ LogBar = Bytes(flushed_data, Start, write_offset)
  <1>o. /\ hdr = "valid" /\ start_offset = Start /\ Start \in Nat /\ PoolSize \in Nat
        /\ write_offset \in Start .. PoolSize /\ flushed_offset \in Start .. PoolSize
        /\ data \in [Pool -> Byte \cup {Meta}]
    BY LogOpen, PoolAssumption DEF LogInvariant, LogInv, TypeOK
  <1>1. LogBar = Bytes(data, Start, write_offset) /\ DurBar = Bytes(flushed_data, Start, flushed_offset)
    BY <1>o DEF LogBar, DurBar, Contents
  <1>2. LogBar \in Seq(Byte \cup {Meta})
    BY <1>1, <1>o, BytesType
  <1>3. Len(LogBar) = write_offset - Start
    <2>1. write_offset \in Nat /\ Start <= write_offset /\ write_offset <= PoolSize
      BY <1>o
    <2>2. Len(Bytes(data, Start, write_offset)) = write_offset - Start
      BY <2>1, <1>o, BytesLen
    <2> QED BY <2>2, <1>1
  <1>4. Bytes(data, Start, write_offset) = Bytes(flushed_data, Start, write_offset)
    <2>1. \A i \in Start .. write_offset - 1 : data[i] = flushed_data[i]
      BY <1>o DEF LogInvariant, Settled
    <2> QED BY <2>1, <1>o, BytesEqual
  <1> QED BY <1>1, <1>2, <1>3, <1>4

LEMMA BarCall ==
  ASSUME LogInvariant, NEW t \in Threads, Call(t) \/ CallStep(t)
  PROVE  ReqBar' = [ReqBar EXCEPT ![t] = Abs(t)']
  <1>1. ASSUME NEW u \in Threads, u # t PROVE Abs(u)' = Abs(u)
    <2>1. pc'[u] = pc[u] /\ op'[u] = op[u] /\ got'[u] = got[u]
      BY <1>1, LogOthers DEF LogInvariant
    <2> QED BY <2>1 DEF Abs
  <1> QED BY <1>1 DEF ReqBar

\* Steps that only change what the process knows are not seen.
LEMMA BarQuiet ==
  ASSUME LogInvariant, NEW t \in Threads, Call(t) \/ CallStep(t), Abs(t)' = Abs(t),
         UNCHANGED <<hdr, start_offset, write_offset, flushed_offset, data, flushed_data>>
  PROVE  UNCHANGED Log!vars
  <1>1. ReqBar' = ReqBar
    BY BarCall DEF ReqBar
  <1>2. LogBar' = LogBar /\ DurBar' = DurBar
    BY DEF LogBar, DurBar, Contents, Bytes
  <1> QED BY <1>1, <1>2 DEF Log!vars, LogBar, DurBar, ReqBar

LEMMA SimCall ==
  ASSUME LogInvariant, NEW t \in Threads, Call(t)
  PROVE  Log!Call(t)
  <1>t. pc \in [Threads -> LogPCs] /\ op \in [Threads -> LogOp]
    BY LogTyping DEF LogInvariant, LogInv
  <1>1. PICK o : /\ Begin(t, o)
                 /\ \/ o.kind \in {"append", "appendv"} /\ o.buf \in Seq(Byte) /\ o.stop = FALSE
                    \/ o.kind \in {"rewind", "tell"} /\ o.buf = <<>> /\ o.stop = FALSE
                    \/ o.kind = "walk" /\ o.buf = <<>> /\ o.stop \in BOOLEAN
    <2>1. ASSUME NEW b \in Bufs, pmemlog_append(t, b) \/ pmemlog_appendv(t, b)
          PROVE  \E o : Begin(t, o) /\ o.kind \in {"append", "appendv"} /\ o.buf \in Seq(Byte) /\ o.stop = FALSE
      BY <2>1, InputAssumption DEF pmemlog_append, pmemlog_appendv, Req
    <2>2. ASSUME pmemlog_rewind(t) \/ pmemlog_tell(t)
          PROVE  \E o : Begin(t, o) /\ o.kind \in {"rewind", "tell"} /\ o.buf = <<>> /\ o.stop = FALSE
      BY <2>2 DEF pmemlog_rewind, pmemlog_tell, Req
    <2>3. ASSUME NEW c \in ChunkSizes, NEW stop \in BOOLEAN, pmemlog_walk(t, c, stop)
          PROVE  \E o : Begin(t, o) /\ o.kind = "walk" /\ o.buf = <<>> /\ o.stop \in BOOLEAN
      BY <2>3 DEF pmemlog_walk, Req
    <2> QED BY <2>1, <2>2, <2>3 DEF Call
  <1>2. pc[t] = "idle" /\ pc'[t] \in {"wrlock", "rdlock"} /\ op'[t] = o /\ op[t] = NoCall
    BY <1>1, <1>t DEF Begin, Goto, LogInvariant, CallsMatch
  <1>3. Abs(t) = Log!Idle
    <2>1. Abs(t) = Fresh(NoCall)
      BY <1>2, AbsNow
    <2> QED BY <2>1, FreshIdle, Zenon
  <1>4. Abs(t)' = Fresh(o)
    BY <1>2, AbsNext
  <1>5. LogBar' = LogBar /\ DurBar' = DurBar
    BY <1>1 DEF Begin, media, offsets, LogBar, DurBar, Contents, Bytes
  <1>6. ReqBar' = [ReqBar EXCEPT ![t] = Abs(t)'] /\ ReqBar[t] = Abs(t) /\ ReqBar'[t] = Abs(t)'
    BY BarCall DEF ReqBar
  <1>7. /\ ReqBar[t].kind = "idle"
        /\ ReqBar'[t].kind = AbsKind(o) /\ ReqBar'[t].val = o.buf /\ ReqBar'[t].stop = o.stop
    BY <1>3, <1>4, <1>6 DEF Log!Idle, Fresh
  <1>8. \/ ReqBar'[t].kind = "append" /\ ReqBar'[t].val \in Seq(Byte) /\ ~ReqBar'[t].stop
        \/ ReqBar'[t].kind \in {"rewind", "tell"} /\ ReqBar'[t].val = <<>> /\ ~ReqBar'[t].stop
        \/ ReqBar'[t].kind = "walk" /\ ReqBar'[t].val = <<>> /\ ReqBar'[t].stop \in BOOLEAN
    <2>1. \/ AbsKind(o) = "append" /\ o.buf \in Seq(Byte) /\ o.stop = FALSE
          \/ AbsKind(o) \in {"rewind", "tell"} /\ o.buf = <<>> /\ o.stop = FALSE
          \/ AbsKind(o) = "walk" /\ o.buf = <<>> /\ o.stop \in BOOLEAN
      BY <1>1 DEF AbsKind
    <2> QED BY <2>1, <1>7, Zenon
  <1>9. ReqBar' = [ReqBar EXCEPT ![t] = [Log!Idle EXCEPT !.kind = ReqBar'[t].kind,
                                           !.val = ReqBar'[t].val, !.stop = ReqBar'[t].stop]]
    <2>2. [Log!Idle EXCEPT !.kind = ReqBar'[t].kind, !.val = ReqBar'[t].val, !.stop = ReqBar'[t].stop]
            = Fresh(o)
      BY <1>7, AbsCall, Zenon
    <2> QED BY <2>2, <1>4, <1>6, Zenon
  <1> QED BY <1>5, <1>7, <1>8, <1>9 DEF Log!Call, LogBar, DurBar, ReqBar

\* Taking and releasing the lock, an append up to the store of the offset, and a
\* walk before its end are not seen.
LEMMA SimQuiet ==
  ASSUME LogInvariant, LogInvariant', NEW t \in Threads, CallStep(t),
         \/ WrLock(t) \/ RdLock(t) \/ Unlock(t) \/ Copy(t) \/ PersistData(t)
         \/ CheckSpace(t) /\ pc'[t] = "copy"
         \/ WalkChunk(t) /\ pc'[t] = "walk"
  PROVE  UNCHANGED Log!vars
  <1>t. /\ pc \in [Threads -> LogPCs] /\ op \in [Threads -> LogOp] /\ off \in [Threads -> Offset]
        /\ data \in [Pool -> Byte \cup {Meta}] /\ flushed_data \in [Pool -> Byte \cup {Meta}]
        /\ \A u \in Threads : off[u] \in Nat
    BY LogTyping DEF LogInvariant, LogInv, TypeOK
  <1>i. LogInv /\ CallsMatch /\ Settled
    BY DEF LogInvariant
  <1>o. /\ mode = "open" /\ mode' = "open" /\ hdr = "valid" /\ hdr' = "valid" /\ Start \in Nat /\ PoolSize \in Nat
        /\ start_offset = Start /\ start_offset' = Start
        /\ write_offset \in Start .. PoolSize /\ flushed_offset \in Start .. PoolSize
    BY <1>i, LogOthers, LogOpen, PoolAssumption
  <1>a. Abs(t)' = Abs(t)
    <2>1. CASE WrLock(t) \/ RdLock(t) \/ CheckSpace(t) \/ WalkChunk(t)
      <3>1. /\ op' = op /\ pc[t] \notin {"unlock", "done", "flush"}
            /\ pc'[t] \notin {"unlock", "done", "flush"}
        BY <2>1, <1>t DEF WrLock, RdLock, CheckSpace, WalkChunk, Copy, PersistData, Unlock, Goto
      <3> QED BY <3>1, AbsNow, AbsNext
    <2>2. CASE Copy(t) \/ PersistData(t)
      <3>1. /\ op' = op /\ pc[t] \notin {"unlock", "done", "flush"}
            /\ pc'[t] \notin {"unlock", "done", "flush"}
        BY <2>2, <1>t DEF Copy, PersistData, Goto
      <3> QED BY <3>1, AbsNow, AbsNext
    <2>3. CASE Unlock(t)
      <3>1. op' = op /\ got' = got /\ pc[t] = "unlock" /\ pc'[t] = "done"
        BY <2>3, <1>t DEF Unlock, Goto
      <3> QED BY <3>1, AbsNow, AbsNext
    <2> QED BY <2>1, <2>2, <2>3
  <1>1. CASE WrLock(t) \/ RdLock(t) \/ Unlock(t) \/ CheckSpace(t) \/ WalkChunk(t)
    <2>1. UNCHANGED <<hdr, start_offset, write_offset, flushed_offset, data, flushed_data>>
      BY <1>1 DEF WrLock, RdLock, Unlock, CheckSpace, WalkChunk, media, offsets
    <2> QED BY <2>1, <1>a, BarQuiet
  <1>2. CASE Copy(t) \/ PersistData(t)
    <2>1. /\ UNCHANGED <<write_offset, flushed_offset>> /\ pc[t] \in CopyPCs
          /\ write_offset <= off[t]
      BY <1>2, <1>i DEF Copy, PersistData, Goto, offsets, CopyPCs, LogInv, AppendFits
    <2>2. write_offset = flushed_offset
      <3>1. \A u \in Threads : pc[u] # "flush"
        BY <2>1, <1>i, LogAlone DEF CopyPCs, WritePCs, AppendPCs
      <3> QED BY <3>1, <1>i, <1>o DEF Settled
    <2>3. /\ \A i \in Start .. write_offset - 1 : data'[i] = data[i]
          /\ \A i \in Start .. flushed_offset - 1 : flushed_data'[i] = flushed_data[i]
      BY <1>2, <2>1, <2>2, <1>o, <1>t DEF Copy, PersistData, Pool
    <2>4. Bytes(data', Start, write_offset) = Bytes(data, Start, write_offset)
      BY <2>3, <1>o DEF Bytes
    <2>5. Bytes(flushed_data', Start, flushed_offset) = Bytes(flushed_data, Start, flushed_offset)
      BY <2>3, <1>o DEF Bytes
    <2>6. LogBar' = LogBar /\ DurBar' = DurBar
      BY <2>1, <2>4, <2>5, <1>o DEF LogBar, DurBar, Contents
    <2>7. ReqBar' = ReqBar
      BY <1>a, BarCall DEF ReqBar
    <2> QED BY <2>6, <2>7 DEF Log!vars, LogBar, DurBar, ReqBar
  <1> QED BY <1>1, <1>2

\* The space check that fails refuses the append, walks and tells answer, and a
\* call returns.
LEMMA SimAnswer ==
  ASSUME LogInvariant, LogInvariant', NEW t \in Threads, CallStep(t),
         \/ CheckSpace(t) /\ pc'[t] # "copy"
         \/ WalkChunk(t) /\ pc'[t] # "walk"
         \/ WalkEnd(t) \/ Tell(t) \/ Return(t)
  PROVE  Log!Refuse(t) \/ Log!Walk(t) \/ Log!Tell(t) \/ Log!Return(t)
  <1>t. /\ pc \in [Threads -> LogPCs] /\ op \in [Threads -> LogOp] /\ off \in [Threads -> Offset]
        /\ data \in [Pool -> Byte \cup {Meta}]
        /\ Len(op[t].buf) \in Nat
        /\ got = [u \in Threads |-> got[u]]
    BY LogTyping DEF LogInvariant, LogInv, TypeOK, CallsMatch
  <1>i. LogInv /\ CallsMatch /\ Walks'
    BY DEF LogInvariant
  <1>o. /\ mode = "open" /\ hdr = "valid" /\ Start \in Nat /\ PoolSize \in Nat
        /\ start_offset = Start /\ end_offset = PoolSize
        /\ write_offset \in Start .. PoolSize
    BY <1>i, LogOthers, LogOpen, PoolAssumption
  <1>b. LogBar' = LogBar /\ DurBar' = DurBar
    <2>1. UNCHANGED <<hdr, start_offset, write_offset, flushed_offset, data, flushed_data>>
      BY DEF CheckSpace, WalkChunk, WalkEnd, Tell, Return, media, offsets
    <2> QED BY <2>1 DEF LogBar, DurBar, Contents, Bytes
  <1>l. LogBar = Bytes(data, Start, write_offset) /\ Len(LogBar) = write_offset - Start
    BY <1>o, BarOpen
  <1>q. /\ ReqBar' = [ReqBar EXCEPT ![t] = Abs(t)'] /\ ReqBar[t] = Abs(t)
        /\ ReqBar = [u \in Threads |-> ReqBar[u]]
    BY BarCall DEF ReqBar
  <1>1. CASE CheckSpace(t)
    <2>1. /\ pc[t] = "space" /\ pc'[t] = "unlock" /\ op' = op /\ got'[t] = <<>>
          /\ ~(write_offset < end_offset /\ Len(op[t].buf) <= end_offset - write_offset)
      BY <1>1, <1>t DEF CheckSpace, WalkChunk, WalkEnd, Tell, Return, Goto
    <2>2. Abs(t) = Fresh(op[t]) /\ Abs(t)' = Over(op[t], <<>>)
      BY <2>1, AbsNow, AbsNext
    <2>3. ReqBar' = [ReqBar EXCEPT ![t].seen = TRUE, ![t].hard = TRUE]
      BY <2>2, <1>q, AbsRefuse, ZenonT(60)
    <2>4. op[t].kind \in {"append", "appendv"}
      BY <2>1, <1>i DEF CallsMatch, AppendPCs, WriteKinds
    <2>5. ReqBar[t].kind = "append" /\ ReqBar[t].seen = FALSE /\ ReqBar[t].val = op[t].buf
      BY <2>2, <2>4, <1>q DEF Fresh, AbsKind
    <2>6. Len(LogBar) >= PoolSize - Start \/ Len(op[t].buf) > (PoolSize - Start) - Len(LogBar)
      BY <2>1, <1>l, <1>o, <1>t
    <2>7. Log!Refuse(t)
      BY <2>3, <2>5, <2>6, <1>b DEF Log!Refuse, Log!Full, LogBar, DurBar, ReqBar
    <2> QED BY <2>7
  <1>2. CASE WalkChunk(t) \/ WalkEnd(t)
    <2>1. /\ pc[t] = "walk" /\ pc'[t] = "unlock" /\ op' = op /\ op[t].kind = "walk"
          /\ UNCHANGED <<start_offset, write_offset, data>>
      BY <1>2, <1>t, <1>i DEF WalkChunk, WalkEnd, Return, Tell, CheckSpace, Goto, CallsMatch, media, offsets
    <2>2. Abs(t) = Fresh(op[t]) /\ Abs(t)' = Over(op[t], got'[t])
      BY <2>1, AbsNow, AbsNext
    <2>3. ReqBar' = [ReqBar EXCEPT ![t].seen = TRUE, ![t].hard = TRUE, ![t].res = got'[t]]
      <3>1. ReqBar[t] = Fresh(op[t])
        BY <2>2, <1>q
      <3>2. ASSUME NEW f, NEW o, NEW g, f = ReqBar, o = op[t], g = got'[t]
            PROVE  SetAnswer(f, t, g) = [f EXCEPT ![t] = Over(o, g)]
        <4>1. f[t] = Fresh(o)
          BY <3>1, <3>2, Zenon
        <4> QED BY ONLY <4>1, AbsAnswer
      <3>3. SetAnswer(ReqBar, t, got'[t]) = [ReqBar EXCEPT ![t] = Over(op[t], got'[t])]
        BY <3>2, ZenonT(60)
      <3> QED BY <3>3, <2>2, <1>q, Zenon DEF SetAnswer
    <2>4. PICK n \in Start .. write_offset :
            got'[t] = Bytes(data, Start, n) /\ (op[t].stop \/ n = write_offset)
      BY <2>1, <1>i, <1>o DEF Walks
    <2>5. SubSeq(LogBar, 1, n - Start) = Bytes(data, Start, n)
      <3>1. n \in Nat /\ write_offset \in Nat /\ Start <= n /\ n <= write_offset /\ write_offset <= PoolSize
        BY <1>o
      <3>2. SubSeq(Bytes(data, Start, write_offset), 1, n - Start) = Bytes(data, Start, n)
        BY <3>1, <1>o, <1>t, BytesPrefix
      <3> QED BY <3>2, <1>l
    <2>6. n - Start \in 0 .. Len(LogBar) /\ (n = write_offset => n - Start = Len(LogBar))
      BY <1>l, <1>o
    <2>7. ReqBar[t].kind = "walk" /\ ReqBar[t].seen = FALSE /\ ReqBar[t].stop = op[t].stop
      BY <2>2, <2>1, <1>q DEF Fresh, AbsKind
    <2>8. ReqBar' = [ReqBar EXCEPT ![t].seen = TRUE, ![t].hard = TRUE,
                                   ![t].res = SubSeq(LogBar, 1, n - Start)]
      BY <2>3, <2>4, <2>5
    <2>9. ~ReqBar[t].stop => n - Start = Len(LogBar)
      BY <2>4, <2>6, <2>7, Zenon
    <2>10. \E m \in 0 .. Len(LogBar) :
             /\ ~ReqBar[t].stop => m = Len(LogBar)
             /\ ReqBar' = [ReqBar EXCEPT ![t].seen = TRUE, ![t].hard = TRUE,
                                         ![t].res = SubSeq(LogBar, 1, m)]
      BY <2>6, <2>8, <2>9, Zenon
    <2>11. ReqBar[t].kind = "walk" /\ ~ReqBar[t].seen /\ UNCHANGED <<LogBar, DurBar>>
      BY <2>7, <1>b
    <2>12. Log!Walk(t)
      BY <2>10, <2>11, Zenon DEF Log!Walk, LogBar, DurBar, ReqBar
    <2> QED BY <2>12
  <1>3. CASE Tell(t)
    <2>1. /\ pc[t] = "tell" /\ pc'[t] = "unlock" /\ op' = op /\ op[t].kind = "tell"
          /\ got'[t] = <<write_offset - start_offset>>
      BY <1>3, <1>t, <1>i DEF Tell, Goto, CallsMatch
    <2>2. Abs(t) = Fresh(op[t]) /\ Abs(t)' = Over(op[t], got'[t])
      BY <2>1, AbsNow, AbsNext
    <2>3. ReqBar' = [ReqBar EXCEPT ![t].seen = TRUE, ![t].hard = TRUE, ![t].res = got'[t]]
      <3>1. ReqBar[t] = Fresh(op[t])
        BY <2>2, <1>q
      <3>2. ASSUME NEW f, NEW o, NEW g, f = ReqBar, o = op[t], g = got'[t]
            PROVE  SetAnswer(f, t, g) = [f EXCEPT ![t] = Over(o, g)]
        <4>1. f[t] = Fresh(o)
          BY <3>1, <3>2, Zenon
        <4> QED BY ONLY <4>1, AbsAnswer
      <3>3. SetAnswer(ReqBar, t, got'[t]) = [ReqBar EXCEPT ![t] = Over(op[t], got'[t])]
        BY <3>2, ZenonT(60)
      <3> QED BY <3>3, <2>2, <1>q, Zenon DEF SetAnswer
    <2>4. got'[t] = <<Len(LogBar)>>
      BY <2>1, <1>l, <1>o
    <2>5. ReqBar[t].kind = "tell" /\ ReqBar[t].seen = FALSE
      BY <2>2, <2>1, <1>q DEF Fresh, AbsKind
    <2>6. Log!Tell(t)
      BY <2>3, <2>4, <2>5, <1>b DEF Log!Tell, LogBar, DurBar, ReqBar
    <2> QED BY <2>6
  <1>4. CASE Return(t)
    <2>1. pc[t] = "done" /\ pc'[t] = "idle" /\ op'[t] = NoCall
      BY <1>4, <1>t DEF Return, Goto
    <2>2. Abs(t) = Over(op[t], got[t]) /\ Abs(t)' = Fresh(NoCall)
      BY <2>1, AbsNow, AbsNext
    <2>3. ReqBar[t].seen = TRUE /\ ReqBar[t].hard = TRUE
      BY <2>2, <1>q DEF Over
    <2>4. ReqBar' = [ReqBar EXCEPT ![t] = Log!Idle]
      BY <2>2, <1>q, FreshIdle
    <2>5. Log!Return(t)
      BY <2>3, <2>4, <1>b DEF Log!Return, LogBar, DurBar, ReqBar
    <2> QED BY <2>5
  <1> QED BY <1>1, <1>2, <1>3, <1>4

\* The store of the offset shows the append or the rewind ...
LEMMA SimShow ==
  ASSUME LogInvariant, LogInvariant', NEW t \in Threads, StoreOffset(t) \/ RewindOffset(t)
  PROVE  Log!Show(t)
  <1>s. CallStep(t)
    BY DEF CallStep
  <1>t. /\ pc \in [Threads -> LogPCs] /\ op \in [Threads -> LogOp] /\ off \in [Threads -> Offset]
        /\ data \in [Pool -> Byte \cup {Meta}]
        /\ Len(op[t].buf) \in Nat /\ op[t].buf \in Seq(Byte) /\ off[t] \in Nat
        /\ got = [u \in Threads |-> got[u]]
    BY LogTyping DEF LogInvariant, LogInv, TypeOK, CallsMatch, LogOp
  <1>i. LogInv /\ CallsMatch /\ Copied /\ AppendFits
    BY DEF LogInvariant, LogInv
  <1>o. /\ mode = "open" /\ mode' = "open" /\ hdr = "valid" /\ hdr' = "valid"
        /\ Start \in Nat /\ PoolSize \in Nat
        /\ start_offset = Start /\ start_offset' = Start
        /\ write_offset \in Start .. PoolSize
    BY <1>i, <1>s, LogOthers, LogOpen, PoolAssumption
  <1>l. LogBar = Bytes(data, Start, write_offset) /\ Len(LogBar) = write_offset - Start
    BY <1>o, BarOpen
  <1>q. /\ ReqBar' = [ReqBar EXCEPT ![t] = Abs(t)'] /\ ReqBar[t] = Abs(t)
    BY <1>s, BarCall DEF ReqBar
  <1>1. /\ pc[t] \in {"offset", "rewind"} /\ pc'[t] = "flush" /\ op' = op /\ got'[t] = <<0>>
        /\ UNCHANGED <<data, flushed_data, flushed_offset>>
    BY <1>t, <1>i DEF StoreOffset, RewindOffset, Goto, CallsMatch, CopyPCs
  <1>2. Abs(t) = Fresh(op[t]) /\ Abs(t)' = Shown(op[t], <<0>>)
    BY <1>1, AbsNow, AbsNext
  <1>3. ReqBar' = [ReqBar EXCEPT ![t].seen = TRUE, ![t].res = <<0>>]
    <2>1. ReqBar[t] = Fresh(op[t])
      BY <1>2, <1>q
    <2>2. ASSUME NEW f, NEW o, NEW g, f = ReqBar, o = op[t], g = << 0 >>
          PROVE  SetShown(f, t, g) = [f EXCEPT ![t] = Shown(o, g)]
      <3>1. f[t] = Fresh(o)
        BY <2>1, <2>2, Zenon
      <3> QED BY ONLY <3>1, AbsShow
    <2>3. SetShown(ReqBar, t, <<0>>) = [ReqBar EXCEPT ![t] = Shown(op[t], <<0>>)]
      BY <2>2, Zenon
    <2> QED BY <2>3, <1>2, <1>q, Zenon DEF SetShown
  <1>4. DurBar' = DurBar
    BY <1>1, <1>o DEF DurBar, Contents, Bytes
  <1>5. ReqBar[t].kind = AbsKind(op[t]) /\ ReqBar[t].seen = FALSE /\ ReqBar[t].val = op[t].buf
    BY <1>2, <1>q DEF Fresh
  <1>6. LogBar' = Bytes(data, Start, write_offset')
    BY <1>1, <1>o DEF LogBar, Contents, Bytes
  <1>7. CASE StoreOffset(t)
    <2>1. pc[t] = "offset" /\ write_offset' = off[t]
      BY <1>7 DEF StoreOffset, Goto
    <2>2. /\ op[t].kind \in {"append", "appendv"} /\ write_offset < PoolSize
          /\ off[t] = write_offset + Len(op[t].buf) /\ off[t] <= PoolSize
          /\ \A i \in write_offset .. off[t] - 1 : data[i] = op[t].buf[i - write_offset + 1]
      BY <2>1, <1>i, <1>o, <1>t DEF CallsMatch, AppendPCs, CopyPCs, WriteKinds, Copied, AppendFits
    <2>3. Bytes(data, write_offset, off[t]) = op[t].buf
      <3>1. write_offset \in Nat
        BY <1>o
      <3>2. ASSUME NEW i \in write_offset .. write_offset + Len(op[t].buf) - 1
            PROVE  data[i] = op[t].buf[i - write_offset + 1]
        <4>1. i \in write_offset .. off[t] - 1
          BY <2>2, <1>o, <1>t
        <4> QED BY <4>1, <2>2
      <3>3. Bytes(data, write_offset, write_offset + Len(op[t].buf)) = op[t].buf
        BY <3>1, <3>2, <1>t, BytesCopy
      <3> QED BY <3>3, <2>2
    <2>4. Bytes(data, Start, write_offset) \o Bytes(data, write_offset, off[t]) = Bytes(data, Start, off[t])
      <3>1. write_offset \in Nat /\ Start <= write_offset /\ write_offset <= off[t] /\ off[t] <= PoolSize
        BY <2>2, <1>o, <1>t
      <3> QED BY <3>1, <1>o, <1>t, BytesJoin
    <2>5. LogBar' = LogBar \o op[t].buf
      BY <2>1, <2>3, <2>4, <1>6, <1>l
    <2>6. ~(Len(LogBar) >= PoolSize - Start \/ Len(op[t].buf) > (PoolSize - Start) - Len(LogBar))
      <3> DEFINE n == Len(op[t].buf)  m == Len(LogBar)
      <3>1. /\ n \in Nat /\ m = write_offset - Start /\ write_offset < PoolSize
            /\ write_offset + n <= PoolSize /\ write_offset \in Nat /\ Start \in Nat /\ PoolSize \in Nat
        BY <2>2, <1>l, <1>o, <1>t
      <3> HIDE DEF n, m
      <3>2. ~(m >= PoolSize - Start \/ n > (PoolSize - Start) - m)
        BY <3>1
      <3> QED BY <3>2 DEF n, m
    <2>7. ReqBar[t].kind = "append" /\ LogBar' = LogBar \o ReqBar[t].val
      BY <2>2, <2>5, <1>5 DEF AbsKind
    <2>8. ~Log!Full(ReqBar[t].val)
      BY <2>6, <1>5 DEF Log!Full, LogBar
    <2> QED BY <2>7, <2>8, <1>3, <1>4, <1>5 DEF Log!Show, LogBar, DurBar, ReqBar
  <1>8. CASE RewindOffset(t)
    <2>1. pc[t] = "rewind" /\ write_offset' = Start
      BY <1>8, <1>o DEF RewindOffset, Goto
    <2>2. LogBar' = <<>>
      BY <2>1, <1>6, <1>o, BytesEmpty
    <2>3. ReqBar[t].kind = "rewind"
      BY <2>1, <1>5, <1>i DEF AbsKind, CallsMatch
    <2> QED BY <2>2, <2>3, <1>3, <1>4, <1>5 DEF Log!Show, LogBar, DurBar, ReqBar
  <1> QED BY <1>7, <1>8

\* ... and its flush makes it durable.
LEMMA SimHarden ==
  ASSUME LogInvariant, LogInvariant', NEW t \in Threads, PersistOffset(t)
  PROVE  Log!Harden(t)
  <1>s. CallStep(t)
    BY DEF CallStep
  <1>t. pc \in [Threads -> LogPCs] /\ op \in [Threads -> LogOp]
    BY LogTyping DEF LogInvariant, LogInv, TypeOK
  <1>i. LogInv /\ CallsMatch
    BY DEF LogInvariant
  <1>o. mode = "open" /\ mode' = "open" /\ hdr' = hdr /\ start_offset' = start_offset
    BY <1>i, <1>s, LogOthers
  <1>q. /\ ReqBar' = [ReqBar EXCEPT ![t] = Abs(t)'] /\ ReqBar[t] = Abs(t)
    BY <1>s, BarCall DEF ReqBar
  <1>1. /\ pc[t] = "flush" /\ pc'[t] = "unlock" /\ op' = op /\ got' = got
        /\ flushed_offset' = write_offset
        /\ UNCHANGED <<data, flushed_data, write_offset>>
    BY <1>t DEF PersistOffset, Goto
  <1>2. Abs(t) = Shown(op[t], got[t]) /\ Abs(t)' = Over(op[t], got[t])
    BY <1>1, AbsNow, AbsNext
  <1>3. ReqBar' = [ReqBar EXCEPT ![t].hard = TRUE]
    <2>1. ReqBar[t] = Shown(op[t], got[t])
      BY <1>2, <1>q
    <2>2. ASSUME NEW f, NEW o, NEW g, f = ReqBar, o = op[t], g = got[t]
          PROVE  SetHard(f, t) = [f EXCEPT ![t] = Over(o, g)]
      <3>1. f[t] = Shown(o, g)
        BY <2>1, <2>2, Zenon
      <3> QED BY ONLY <3>1, AbsHarden
    <2>3. SetHard(ReqBar, t) = [ReqBar EXCEPT ![t] = Over(op[t], got[t])]
      BY <2>2, Zenon
    <2> QED BY <2>3, <1>2, <1>q, Zenon DEF SetHard
  <1>4. LogBar' = LogBar
    BY <1>1, <1>o DEF LogBar, Contents, Bytes
  <1>5. DurBar' = LogBar
    <2>1. DurBar' = Bytes(flushed_data', Start, flushed_offset')
      <3>1. hdr = "valid" /\ start_offset = Start
        BY <1>i, <1>o, LogOpen
      <3> QED BY <3>1, <1>o DEF DurBar, Contents, Bytes
    <2>2. LogBar = Bytes(flushed_data, Start, write_offset)
      BY <1>o, BarOpen
    <2> QED BY <2>1, <2>2, <1>1
  <1>6. ReqBar[t].kind = AbsKind(op[t]) /\ ReqBar[t].seen = TRUE /\ ReqBar[t].hard = FALSE
    BY <1>2, <1>q DEF Shown
  <1>7. AbsKind(op[t]) \in {"append", "rewind"}
    BY <1>1, <1>i DEF AbsKind, CallsMatch, WriteKinds
  <1> QED BY <1>3, <1>4, <1>5, <1>6, <1>7 DEF Log!Harden, LogBar, DurBar, ReqBar

\* Nothing of creating, opening and closing a pool is seen, and a power failure
\* leaves the log as it was or as it was on media.
LEMMA SimPool ==
  ASSUME LogInvariant,
         \/ pmemlog_create \/ StoreMeta \/ StoreHeader \/ pmemlog_open \/ pmemlog_close
         \/ Crash \/ Unusable \/ UNCHANGED vars
  PROVE  Log!Crash \/ UNCHANGED Log!vars
  <1>i. LogInv /\ Settled /\ Stages
    BY DEF LogInvariant, LogInv
  <1>p. Start \in Nat /\ PoolSize \in Nat
    BY PoolAssumption
  <1>1. CASE pmemlog_create \/ pmemlog_open \/ pmemlog_close \/ Unusable \/ UNCHANGED vars
    <2>1. UNCHANGED <<media, calls>>
      BY <1>1 DEF pmemlog_create, pmemlog_open, pmemlog_close, Unusable, vars
    <2>2. LogBar' = LogBar /\ DurBar' = DurBar
      BY <2>1 DEF LogBar, DurBar, Contents, Bytes, media, offsets
    <2>3. ASSUME NEW t \in Threads PROVE Abs(t)' = Abs(t)
      BY <2>1 DEF Abs, calls
    <2>4. ReqBar' = ReqBar
      BY <2>3 DEF ReqBar
    <2> QED BY <2>2, <2>4 DEF Log!vars, LogBar, DurBar, ReqBar
  <1>2. CASE StoreMeta \/ StoreHeader
    <2>1. UNCHANGED <<calls, data, flushed_data>>
      BY <1>2 DEF StoreMeta, StoreHeader
    <2>2. hdr # "valid"
      BY <1>2, <1>i DEF StoreMeta, StoreHeader, Stages
    <2>3. /\ hdr' = "valid" => start_offset' = Start /\ write_offset' = Start /\ flushed_offset' = Start
      BY <1>2, <2>2, <1>i DEF StoreMeta, StoreHeader, Stages, offsets
    <2>4. LogBar = <<>> /\ DurBar = <<>>
      BY <2>2 DEF LogBar, DurBar, Contents
    <2>5. LogBar' = <<>> /\ DurBar' = <<>>
      <3>1. Bytes(data', Start, Start) = <<>> /\ Bytes(flushed_data', Start, Start) = <<>>
        BY <1>p, BytesEmpty
      <3> QED BY <2>3, <3>1 DEF LogBar, DurBar, Contents
    <2>6. ASSUME NEW t \in Threads PROVE Abs(t)' = Abs(t)
      BY <2>1 DEF Abs, calls
    <2>7. ReqBar' = ReqBar
      BY <2>6 DEF ReqBar
    <2> QED BY <2>4, <2>5, <2>7 DEF Log!vars, LogBar, DurBar, ReqBar
  <1>3. CASE Crash
    <2>1. ReqBar' = [t \in Threads |-> Log!Idle]
      <3>1. pc' = [t \in Threads |-> "idle"] /\ op' = [t \in Threads |-> NoCall]
        BY <1>3 DEF Crash
      <3>2. ASSUME NEW t \in Threads PROVE Abs(t)' = Log!Idle
        <4>1. Abs(t)' = Fresh(NoCall)
          BY <3>1, AbsNext
        <4> QED BY <4>1, FreshIdle, Zenon
      <3> QED BY <3>2 DEF ReqBar
    <2>2. flushed_offset' = write_offset' /\ flushed_data' = data'
      BY <1>3 DEF Crash
    <2>3. DurBar' = LogBar'
      BY <2>2 DEF LogBar, DurBar, Contents
    <2>4. LogBar' \in {LogBar, DurBar}
      <3>1. CASE hdr = "valid"
        <4>1. /\ mode \notin {"meta", "header"}
              /\ start_offset = Start /\ write_offset \in Start .. PoolSize
              /\ flushed_offset \in Start .. PoolSize
          BY <3>1, <1>i, <1>p DEF LogInv, PoolReopens, DescriptorValid, Stages, TypeOK
        <4>2. hdr' = "valid" /\ start_offset' = Start /\ write_offset' \in {write_offset, flushed_offset}
          BY <1>3, <3>1, <4>1 DEF Crash
        <4>3. \A i \in Pool : data'[i] = data[i] \/ data'[i] = flushed_data[i]
          BY <1>3 DEF Crash
        <4>4. /\ \A i \in Start .. write_offset - 1 : data'[i] = data[i]
              /\ \A i \in Start .. flushed_offset - 1 : data'[i] = flushed_data[i]
          <5>1. \A i \in Start .. PoolSize - 1 : i \in Pool
            BY <1>p DEF Pool
          <5> QED BY <4>1, <4>3, <5>1, <3>1, <1>i, <1>p DEF Settled
        <4>5. /\ Bytes(data', Start, write_offset) = Bytes(data, Start, write_offset)
              /\ Bytes(data', Start, flushed_offset) = Bytes(flushed_data, Start, flushed_offset)
          <5>1. write_offset \in Nat /\ flushed_offset \in Nat
            BY <4>1, <1>p
          <5>2. Bytes(data', Start, write_offset) = Bytes(data, Start, write_offset)
            BY <4>4, <5>1, <1>p DEF Bytes
          <5>3. Bytes(data', Start, flushed_offset) = Bytes(flushed_data, Start, flushed_offset)
            BY <4>4, <5>1, <1>p DEF Bytes
          <5> QED BY <5>2, <5>3
        <4>6. /\ LogBar = Bytes(data, Start, write_offset)
              /\ DurBar = Bytes(flushed_data, Start, flushed_offset)
              /\ LogBar' = Bytes(data', Start, write_offset')
          BY <3>1, <4>1, <4>2 DEF LogBar, DurBar, Contents
        <4> QED BY <4>2, <4>5, <4>6
      <3>2. CASE hdr # "valid"
        <4>1. hdr' = "valid" => start_offset' = Start /\ write_offset' = Start
          BY <1>3, <3>2, <1>i DEF Crash, Stages
        <4>2. LogBar' = <<>>
          <5>1. Bytes(data', Start, Start) = <<>>
            BY <1>p, BytesEmpty
          <5> QED BY <4>1, <5>1 DEF LogBar, Contents
        <4>3. LogBar = <<>>
          BY <3>2 DEF LogBar, Contents
        <4> QED BY <4>2, <4>3
      <3> QED BY <3>1, <3>2
    <2> QED BY <2>1, <2>3, <2>4 DEF Log!Crash, LogBar, DurBar, ReqBar
  <1> QED BY <1>1, <1>2, <1>3

LEMMA SimStart == Init => Log!Init
  <1> SUFFICES ASSUME Init PROVE Log!Init
    OBVIOUS
  <1>1. LogBar = <<>> /\ DurBar = <<>>
    BY DEF Init, LogBar, DurBar, Contents
  <1>2. ASSUME NEW t \in Threads PROVE Abs(t) = Log!Idle
    <2>1. pc[t] = "idle" /\ op[t] = NoCall
      BY DEF Init
    <2>2. Abs(t) = Fresh(NoCall)
      BY <2>1, AbsNow
    <2> QED BY <2>2, FreshIdle, Zenon
  <1>3. ReqBar = [t \in Threads |-> Log!Idle]
    BY <1>2 DEF ReqBar
  <1> QED BY <1>1, <1>3 DEF Log!Init, LogBar, DurBar, ReqBar

LEMMA SimStep ==
  ASSUME LogInvariant, LogInvariant', [Next]_vars
  PROVE  [Log!Next]_(Log!vars)
  <1>1. ASSUME NEW t \in Threads, Call(t)
        PROVE  Log!Next
    BY <1>1, SimCall DEF Log!Next
  <1>2. ASSUME NEW t \in Threads, CallStep(t)
        PROVE  Log!Next \/ UNCHANGED Log!vars
    <2>1. CASE StoreOffset(t) \/ RewindOffset(t)
      BY <2>1, SimShow DEF Log!Next
    <2>2. CASE PersistOffset(t)
      BY <2>2, SimHarden DEF Log!Next
    <2>3. CASE \/ CheckSpace(t) /\ pc'[t] # "copy"
               \/ WalkChunk(t) /\ pc'[t] # "walk"
               \/ WalkEnd(t) \/ Tell(t) \/ Return(t)
      BY <2>3, <1>2, SimAnswer DEF Log!Next
    <2>4. CASE \/ WrLock(t) \/ RdLock(t) \/ Unlock(t) \/ Copy(t) \/ PersistData(t)
               \/ CheckSpace(t) /\ pc'[t] = "copy"
               \/ WalkChunk(t) /\ pc'[t] = "walk"
      BY <2>4, <1>2, SimQuiet
    <2> QED BY <1>2, <2>1, <2>2, <2>3, <2>4 DEF CallStep
  <1>3. ASSUME \/ pmemlog_create \/ StoreMeta \/ StoreHeader \/ pmemlog_open \/ pmemlog_close
               \/ Crash \/ Unusable \/ UNCHANGED vars
        PROVE  Log!Next \/ UNCHANGED Log!vars
    BY <1>3, SimPool DEF Log!Next
  <1> QED BY <1>1, <1>2, <1>3 DEF Next

\* "The append is atomic and cannot be torn by a program failure or system
\* crash": whatever appends, rewinds, walks and tells the threads issue and
\* wherever the power fails, the pool behaves as a log whose operations take
\* effect at one instant, whose length is bounded by the pool, and which keeps
\* what completed.
THEOREM ImplementsAppendLog == ASSUME ChunksFit PROVE Spec => ImplementsLog
  <1>1. LogInvariant /\ [Next]_vars => LogInvariant'
    BY LogInvariantStep
  <1>2. LogInvariant /\ LogInvariant' /\ [Next]_vars => [Log!Next]_(Log!vars)
    BY SimStep
  <1> QED BY <1>1, <1>2, SimStart, LogInvariantStart, PTL DEF Spec, ImplementsLog, Log!Spec
=============================================================================
