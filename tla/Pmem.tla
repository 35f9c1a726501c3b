-------------------------------- MODULE Pmem --------------------------------
(***************************************************************************)
(* libpmem (src/libpmem/pmem.c): making stores to persistent memory        *)
(* durable.  A byte that was stored is first in the cache ("dirty"); a     *)
(* flush or a streaming store sends it on its way ("posted"); a fence lets *)
(* it arrive at the memory controller ("accepted"), which is as good as    *)
(* durable unless the platform needs PCOMMIT to write it out ("durable").  *)
(* CLFLUSH needs no fence.  A dirty byte may be evicted at any time, which *)
(* only makes it durable earlier and is left out.                          *)
(*                                                                         *)
(* A library call is turned into the sequence of loops it runs (prog), and *)
(* each loop is one step.                                                  *)
(***************************************************************************)
EXTENDS Integers, Sequences, FiniteSets

CONSTANTS
  FLUSH_ALIGN, CHUNK_SIZE, MOVNT_SIZE, DWORD_SIZE,   \* as in pmem.c
  PageSize,
  MemSize,           \* bytes of memory, all of them persistent
  AddrSpace,         \* addresses wrap around here
  Cpus, Envs,        \* CPU flags and environment variables to start with
  Dests, Srcs, Lens, \* arguments of calls
  Pattern            \* the value that memset stores

ASSUME PmemAssumption ==
  /\ {FLUSH_ALIGN, CHUNK_SIZE, MOVNT_SIZE, DWORD_SIZE, PageSize} \subseteq Nat \ {0}
  /\ CHUNK_SIZE % FLUSH_ALIGN = 0 /\ FLUSH_ALIGN % MOVNT_SIZE = 0
  /\ MOVNT_SIZE % DWORD_SIZE = 0 /\ PageSize % FLUSH_ALIGN = 0
  /\ MemSize \in Nat /\ AddrSpace \in Nat /\ AddrSpace > 2 * MemSize
  /\ Dests \subseteq Nat /\ Srcs \subseteq Nat /\ Lens \subseteq Nat
\* Callers pass ranges that are mapped.
ASSUME RangesMapped == \A a \in Dests \cup Srcs, n \in Lens : a + n <= MemSize

VARIABLES
  hw,      \* [flags, env]: where the library runs
  func,    \* the function pointers that pmem_init sets, or "unset"
  mem,     \* [Addr -> value]
  stat,    \* [Addr -> how far its value got]
  call,    \* the last call and what memory was when it was made
  prog     \* the loops it still has to run

pmem_vars == <<hw, func, mem, stat, call, prog>>

Addr  == 0 .. MemSize - 1
Bytes(a, n) == {x \in Addr : a <= x /\ x < a + n}
NoCall == [op |-> "none"]
Unset  == [flush |-> "unset"]
Min2(a, b) == IF a < b THEN a ELSE b

PmemInit ==
  /\ hw \in [flags : Cpus, env : Envs]
  /\ func = Unset
  /\ mem = [a \in Addr |-> a]       \* every byte tells where it came from
  /\ stat = [a \in Addr |-> "durable"]
  /\ call = NoCall /\ prog = << >>

-----------------------------------------------------------------------------
(* Initialization.                                                         *)

Use(flag, no) == flag \in hw.flags /\ no \notin hw.env

\* Where both are available CLFLUSHOPT is used rather than CLWB.
pmem_init ==
  /\ func = Unset
  /\ func' =
      [flush |-> IF Use("clflushopt", "PMEM_NO_CLFLUSHOPT") THEN "clflushopt"
                 ELSE IF Use("clwb", "PMEM_NO_CLWB") THEN "clwb" ELSE "clflush",
       predrain_fence |-> Use("clflushopt", "PMEM_NO_CLFLUSHOPT") \/ Use("clwb", "PMEM_NO_CLWB"),
       pcommit |-> Use("pcommit", "PMEM_NO_PCOMMIT"),
       movnt |-> Use("sse2", "PMEM_NO_MOVNT")]
  /\ UNCHANGED <<hw, mem, stat, call, prog>>

pmem_has_hw_drain == func.pcommit

-----------------------------------------------------------------------------
(* The loops.  A copying loop moves cnt units of unit bytes, up or down.   *)

Copy(to, from, unit, cnt, dir, nt) ==
  IF cnt = 0 THEN << >>
  ELSE <<[do |-> "copy", to |-> to, from |-> from, unit |-> unit, cnt |-> cnt,
          dir |-> dir, nt |-> nt]>>
Set(to, n, nt) == IF n = 0 THEN << >> ELSE <<[do |-> "set", to |-> to, len |-> n, nt |-> nt]>>
Flush(a, n)    == <<[do |-> "flush", addr |-> a, len |-> n]>>
Drain ==
  (IF func.predrain_fence THEN <<[do |-> "sfence"]>> ELSE << >>)
    \o (IF func.pcommit THEN <<[do |-> "pcommit"]>> ELSE << >>)

\* Less than MOVNT_SIZE bytes.  The flush starts where the copy ended, which
\* is in the same cache line.
ForwardTail(d, s, n) ==
  LET dw == n \div DWORD_SIZE
      b  == n % DWORD_SIZE
  IN  IF n = 0 THEN << >>
      ELSE Copy(d, s, DWORD_SIZE, dw, 1, TRUE)
             \o Copy(d + dw * DWORD_SIZE, s + dw * DWORD_SIZE, 1, b, 1, FALSE)
             \o Flush(d + n, b)

\* The head up to a cache line.  The flush starts where the copy ended,
\* which may be the next cache line.
ForwardHead(d, s, n) ==
  IF n = 0 THEN << >> ELSE Copy(d, s, 1, n, 1, FALSE) \o Flush(d + n, n)

Forward(d, s, n) ==
  LET h  == IF d % FLUSH_ALIGN = 0 THEN 0 ELSE Min2(FLUSH_ALIGN - (d % FLUSH_ALIGN), n)
      c  == (n - h) \div CHUNK_SIZE
      n2 == (n - h) % CHUNK_SIZE
      m  == n2 \div MOVNT_SIZE
      o1 == h + c * CHUNK_SIZE
      o2 == o1 + m * MOVNT_SIZE
  IN  ForwardHead(d, s, h)
        \o Copy(d + h, s + h, CHUNK_SIZE, c, 1, TRUE)
        \o Copy(d + o1, s + o1, MOVNT_SIZE, m, 1, TRUE)
        \o ForwardTail(d + o2, s + o2, n2 % MOVNT_SIZE)

\* d and s are the ends of the ranges; a downward loop gets its upper ends.
Backward(d, s, n) ==
  LET h  == Min2(d % FLUSH_ALIGN, n)
      c  == (n - h) \div CHUNK_SIZE
      n2 == (n - h) % CHUNK_SIZE
      m  == n2 \div MOVNT_SIZE
      n3 == n2 % MOVNT_SIZE
      dw == n3 \div DWORD_SIZE
      b  == n3 % DWORD_SIZE
      o1 == h + c * CHUNK_SIZE
      o2 == o1 + m * MOVNT_SIZE
      o3 == o2 + dw * DWORD_SIZE
  IN  (IF h = 0 THEN << >> ELSE Copy(d, s, 1, h, -1, FALSE) \o Flush(d - h, h))
        \o Copy(d - h, s - h, CHUNK_SIZE, c, -1, TRUE)
        \o Copy(d - o1, s - o1, MOVNT_SIZE, m, -1, TRUE)
        \o (IF n3 = 0 THEN << >>
            ELSE Copy(d - o2, s - o2, DWORD_SIZE, dw, -1, TRUE)
                   \o Copy(d - o3, s - o3, 1, b, -1, FALSE)
                   \o Flush(d - n, b))

\* Mutant: the direction is chosen without regard to the overlap's extent.
CopyForward_Signed(d, s, n) == d >= s
\* An unsigned difference: also if the destination is below the source.
CopyForward(d, s, n) == (d - s) % AddrSpace >= n

memmove_nodrain_movnt(d, s, n) ==
  IF n = 0 \/ s = d THEN << >>
  ELSE IF CopyForward(d, s, n) THEN Forward(d, s, n)
  ELSE Backward(d + n, s + n, n)

\* libc's memmove, modelled as a loop in the right direction.
memmove_nodrain_normal(d, s, n) ==
  (IF d <= s THEN Copy(d, s, 1, n, 1, FALSE) ELSE Copy(d + n, s + n, 1, n, -1, FALSE))
    \o Flush(d, n)

memset_nodrain_movnt(d, n) ==
  LET h  == IF d % FLUSH_ALIGN = 0 THEN 0 ELSE Min2(FLUSH_ALIGN - (d % FLUSH_ALIGN), n)
      c  == (n - h) \div CHUNK_SIZE
      n2 == (n - h) % CHUNK_SIZE
      m  == n2 \div MOVNT_SIZE
      n3 == n2 % MOVNT_SIZE
      dw == n3 \div DWORD_SIZE
      b  == n3 % DWORD_SIZE
      o1 == d + h + c * CHUNK_SIZE
      o2 == o1 + m * MOVNT_SIZE
      o3 == o2 + dw * DWORD_SIZE
  IN  (IF h = 0 THEN << >> ELSE Set(d, h, FALSE) \o Flush(d, h))
        \o Set(d + h, c * CHUNK_SIZE, TRUE)
        \o Set(o1, m * MOVNT_SIZE, TRUE)
        \o Set(o2, dw * DWORD_SIZE, TRUE)
        \o (IF b = 0 THEN << >> ELSE Set(o3, b, FALSE) \o Flush(o3, b))

memset_nodrain_normal(d, n) == Set(d, n, FALSE) \o Flush(d, n)

-----------------------------------------------------------------------------
(* Calls.                                                                  *)

\* One library call in every behaviour (bound).
Begin(c, p) ==
  /\ func # Unset /\ prog = << >> /\ call.op \in {"none", "store"}
  /\ call' = c
  /\ prog' = p \o <<[do |-> "return"]>>
  /\ UNCHANGED <<hw, func, mem, stat>>

\* The application stores to all of the memory, what it held already: a
\* byte is dirty whatever its value.
AppStore ==
  /\ func # Unset /\ call = NoCall
  /\ call' = [op |-> "store"]
  /\ stat' = [a \in Addr |-> "dirty"]
  /\ UNCHANGED <<hw, func, mem, prog>>

pmem_memmove_nodrain(d, s, n) ==
  IF func.movnt THEN memmove_nodrain_movnt(d, s, n) ELSE memmove_nodrain_normal(d, s, n)
pmem_memmove_persist(d, s, n) ==
  Begin([op |-> "memmove", dest |-> d, src |-> s, len |-> n, was |-> mem],
        pmem_memmove_nodrain(d, s, n) \o Drain)

pmem_memset_nodrain(d, n) ==
  IF func.movnt THEN memset_nodrain_movnt(d, n) ELSE memset_nodrain_normal(d, n)
pmem_memset_persist(d, n) ==
  Begin([op |-> "memset", dest |-> d, len |-> n, was |-> mem], pmem_memset_nodrain(d, n) \o Drain)

pmem_persist(d, n) ==
  Begin([op |-> "persist", dest |-> d, len |-> n, was |-> mem], Flush(d, n) \o Drain)

\* The range is widened to the page its start is in.
pmem_msync(d, n) ==
  Begin([op |-> "msync", dest |-> d, len |-> n, was |-> mem],
        <<[do |-> "msync", addr |-> d - (d % PageSize), len |-> n + (d % PageSize)]>>)

-----------------------------------------------------------------------------
(* Running a loop.                                                         *)

Op == Head(prog)
Advance == prog' = Tail(prog) /\ UNCHANGED <<hw, func, call>>

\* Unit i of a copying loop: where it goes, and from where.
UnitAt(end, i) == IF Op.dir = 1 THEN end + (i - 1) * Op.unit ELSE end - i * Op.unit
\* Memory after i units; all of a unit is loaded before any of it is stored.
CopyLoop ==
  LET after[i \in 0 .. Op.cnt] ==
        IF i = 0 THEN mem
        ELSE LET to   == UnitAt(Op.to, i)
                 from == UnitAt(Op.from, i)
                 m    == after[i - 1]
             IN  [a \in Addr |-> IF a \in Bytes(to, Op.unit) THEN m[from + a - to] ELSE m[a]]
  IN  after[Op.cnt]

Stored(lo, n, nt) ==
  stat' = [a \in Addr |-> IF a \in Bytes(lo, n) THEN (IF nt THEN "posted" ELSE "dirty")
                          ELSE stat[a]]

RunCopy ==
  /\ prog # << >> /\ Op.do = "copy"
  /\ mem' = CopyLoop
  /\ Stored(IF Op.dir = 1 THEN Op.to ELSE Op.to - Op.unit * Op.cnt, Op.unit * Op.cnt, Op.nt)
  /\ Advance

RunSet ==
  /\ prog # << >> /\ Op.do = "set"
  /\ mem' = [a \in Addr |-> IF a \in Bytes(Op.to, Op.len) THEN Pattern ELSE mem[a]]
  /\ Stored(Op.to, Op.len, Op.nt)
  /\ Advance

\* Mutant: the loop ends before the line of the last byte.
FlushedLines_Short(a, n) ==
  LET end == a + n
  IN  a - (a % FLUSH_ALIGN) .. end - (end % FLUSH_ALIGN) - 1
\* flush_clflush, flush_clwb and flush_clflushopt share their loop: whole
\* lines, from the one of the first byte to the one of the last.
FlushedLines(a, n) ==
  LET end == a + n - 1
  IN  a - (a % FLUSH_ALIGN) .. end - (end % FLUSH_ALIGN) + FLUSH_ALIGN - 1

RunFlush ==
  /\ prog # << >> /\ Op.do = "flush"
  /\ stat' = [a \in Addr |->
       IF stat[a] = "dirty" /\ a \in FlushedLines(Op.addr, Op.len)
         THEN IF func.flush = "clflush" THEN "accepted" ELSE "posted"
         ELSE stat[a]]
  /\ Advance /\ UNCHANGED mem

Fenced == [a \in Addr |-> IF stat[a] = "posted" THEN "accepted" ELSE stat[a]]

predrain_fence_sfence ==
  /\ prog # << >> /\ Op.do = "sfence"
  /\ stat' = Fenced
  /\ Advance /\ UNCHANGED mem

\* PCOMMIT writes out what was accepted before it; then comes a fence.
drain_pcommit ==
  /\ prog # << >> /\ Op.do = "pcommit"
  /\ stat' = [a \in Addr |-> IF stat[a] = "accepted" THEN "durable" ELSE Fenced[a]]
  /\ Advance /\ UNCHANGED mem

\* msync writes whole pages, and through to the media.
RunMsync ==
  /\ prog # << >> /\ Op.do = "msync"
  /\ stat' = [a \in Addr |->
       IF \E x \in Bytes(Op.addr, Op.len) : x \div PageSize = a \div PageSize
         THEN "durable" ELSE stat[a]]
  /\ Advance /\ UNCHANGED mem

RunReturn ==
  /\ prog # << >> /\ Op.do = "return"
  /\ Advance /\ UNCHANGED <<mem, stat>>

PmemNext ==
  \/ pmem_init \/ AppStore
  \/ \E d \in Dests, n \in Lens :
       \/ pmem_memset_persist(d, n) \/ pmem_persist(d, n) \/ pmem_msync(d, n)
       \/ \E s \in Srcs : pmem_memmove_persist(d, s, n)
  \/ RunCopy \/ RunSet \/ RunFlush \/ predrain_fence_sfence \/ drain_pcommit
  \/ RunMsync \/ RunReturn

PmemSpec == PmemInit /\ [][PmemNext]_pmem_vars
-----------------------------------------------------------------------------
(* Properties.                                                             *)

Returned(op) == prog = << >> /\ call.op = op

\* The platform needs PCOMMIT if it has it, unless the user relies on ADR.
NeedsPcommit == "pcommit" \in hw.flags /\ "PMEM_NO_PCOMMIT" \notin hw.env
Safe(a) == stat[a] = "durable" \/ (stat[a] = "accepted" /\ ~NeedsPcommit)

\* However source and destination overlap and wherever cache lines begin, a
\* move copies what the source held when it was called, a set fills its range
\* with the value, and neither touches anything else.
RangeStored ==
  /\ Returned("memmove") =>
       \A a \in Addr : mem[a] = IF a \in Bytes(call.dest, call.len)
                                  THEN call.was[call.src + a - call.dest] ELSE call.was[a]
  /\ Returned("memset") =>
       \A a \in Addr : mem[a] = IF a \in Bytes(call.dest, call.len) THEN Pattern ELSE call.was[a]

\* Streaming stores whose drain has no fence have left the cache, but
\* nothing tells when they arrive.
UnfencedStreams == func.movnt /\ ~func.predrain_fence
Sent(a) == IF UnfencedStreams THEN stat[a] # "dirty" ELSE Safe(a)
\* Bytes that a streaming move does not flush: all of them if it has nothing
\* to move, and those before the first cache line of a forward move.
Unflushed ==
  {a \in Bytes(call.dest, call.len) :
     /\ func.movnt
     /\ \/ call.src = call.dest
        \/ /\ CopyForward(call.dest, call.src, call.len)
           /\ a \div FLUSH_ALIGN = call.dest \div FLUSH_ALIGN /\ call.dest % FLUSH_ALIGN # 0}

\* When they return, pmem_persist and pmem_msync have made every byte of
\* their range durable, whatever its alignment, the flush instruction and
\* the platform.  So has pmem_memset_persist on a CPU whose drain begins with
\* a fence, or without streaming stores; on one that streams and only has
\* CLFLUSH no byte of the range is left in the cache, and no more is known.
\* The same holds of pmem_memmove_persist, but for the bytes it does not
\* flush.
RangeDurable ==
  /\ (Returned("persist") \/ Returned("msync")) => \A a \in Bytes(call.dest, call.len) : Safe(a)
  /\ Returned("memset") => \A a \in Bytes(call.dest, call.len) : Sent(a)
  /\ Returned("memmove") => \A a \in Bytes(call.dest, call.len) \ Unflushed : Sent(a)

\* pmem_memmove_persist has made every byte of its destination durable when it
\* returns: libpmem(3) says that it and its like "ensure that the result has
\* been flushed to persistence before returning".
PersistDurable ==
  Returned("memmove") => \A a \in Bytes(call.dest, call.len) : Safe(a)
=============================================================================
