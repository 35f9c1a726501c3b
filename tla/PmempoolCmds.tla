---------------------------- MODULE PmempoolCmds ----------------------------
(***************************************************************************)
(* "pmempool create", "pmempool dump" and "pmempool info"                  *)
(* (src/tools/pmempool: pmempool.c, create.c, dump.c, info.c, common.c):   *)
(* one invocation of the tool on a few pool files.  A pool file is reduced *)
(* to its type and size, the bytes used of a log, and the map flags of the *)
(* blocks of each arena; what the tool prints to the blocks or bytes that  *)
(* it shows.                                                               *)
(***************************************************************************)
EXTENDS BttLayout, FiniteSetsExt, SequencesExt

CONSTANTS
  W,               \* uint64_t wraps around at W
  Invocations,     \* command lines
  FsInit,          \* the files before: [name -> file]
  FsAvail,         \* free space of the file system
  MinLog, MinBlk,  \* PMEMLOG_MIN_POOL, PMEMBLK_MIN_POOL
  MinBlkSize,      \* PMEMBLK_MIN_BLK
  BlkHdr,          \* sizeof (struct pmemblk)
  NFREE            \* BTT_DEFAULT_NFREE

ASSUME CmdsAssumption ==
  /\ {W, MinLog, MinBlk, MinBlkSize, BlkHdr, NFREE} \subseteq Nat \ {0}
  /\ FsAvail \in Nat

\* The arguments of create are parsed, and every file it names has a place.
ASSUME ArgumentsParsed ==
  /\ \A i \in {j \in Invocations : j.cmd = "create"} :
       /\ i.type \in {"none", "log", "blk", "unknown"}
       /\ i.size \in Nat /\ i.bsize \in Int /\ i.layout \in Int
       /\ i.files[1] \in DOMAIN FsInit /\ i.inherit \in DOMAIN FsInit \cup {"none"}
  /\ \A n \in DOMAIN FsInit :
       /\ FsInit[n].kind \in {"log", "blk", "zero"} => FsInit[n].size \in Nat
       /\ FsInit[n].kind = "blk" => FsInit[n].bsize \in Nat

\* The smallest pmemblk pool has an arena, and room for its smallest blocks.
ASSUME SmallestPool ==
  /\ BlkHdr + BTT_MIN_SIZE <= MinBlk
  /\ LayoutPossible(MinBlk - BlkHdr, BTT_MIN_LBA_SIZE, NFREE)

VARIABLES
  inv,      \* the command line
  st,       \* what the tool does next
  toks,     \* parts of -r that are not parsed yet
  ranges,   \* struct ranges: a list of [first, last]
  fs,       \* the files
  fidx,     \* info: which of the files is shown
  arena, cur_lba,   \* info: the arena and the number of its first block
  chunkcnt, \* dump: the chunk, or the place in the list of ranges
  shown,    \* blocks or bytes shown: a sequence of [file, x]
  stats,    \* struct pmem_blk_stats
  ret       \* "ok" or "fail"

cmd_vars == <<inv, st, toks, ranges, fs, fidx, arena, cur_lba, chunkcnt, shown, stats, ret>>

Stats0 == [total |-> 0, zeros |-> 0, errors |-> 0, noflag |-> 0]
File(n) == fs[n]
AllBlocks(f) == FlattenSeq(f.arenas)       \* flags; block n is at n + 1
FileExists(n) == fs[n].kind # "absent"
Target == inv.files[fidx]

CmdStart ==
  /\ st = "main" /\ toks = inv.toks /\ ranges = << >>
  /\ fs = FsInit
  /\ fidx = 1 /\ arena = 1 /\ cur_lba = 0 /\ chunkcnt = 1
  /\ shown = << >> /\ stats = Stats0 /\ ret = "ok"

CmdInit == inv \in Invocations /\ CmdStart

End(r) == st' = "done" /\ ret' = r

-----------------------------------------------------------------------------
(* Ranges.                                                                 *)

\* util_parse_range: the first form that fits.  A token that is "from-to"
\* with a bound behind the end is taken for "from-".  g is what malloc left
\* in the struct, which the last form reads.  None if no form fits.
util_parse_range(t, last, g) ==
  LET none == [first |-> 1, last |-> 0, ok |-> FALSE]
      r(a, b) == [first |-> a, last |-> b, ok |-> TRUE]
      number(a) == IF a > last \/ g > last THEN none ELSE r(a, a)
  IN  CASE t.form = "from_to" /\ t.a <= last /\ t.b <= last ->
             IF t.a > t.b THEN r(t.b, t.a) ELSE r(t.a, t.b)
        [] t.form = "from_to" -> r(t.a, last)
        [] t.form = "from" -> r(t.a, last)
        [] t.form = "to" -> IF t.b <= last THEN r(0, t.b) ELSE number(W - t.b)
        [] t.form = "number" -> number(t.a)
        [] OTHER -> number(g)

\* Adjacent ranges count as overlapping; last + 1 may wrap around.
util_ranges_overlap(x, y) == ~((x.last + 1) % W < y.first \/ (y.last + 1) % W < x.first)

\* The list after merging r with the entries it overlaps.  The loop reads the
\* link of an entry it has just freed: keep says whether that still is there;
\* if not, the loop ends.
Overlapped(l, r, keep) ==
  LET all == {i \in DOMAIN l : util_ranges_overlap(l[i], r)}
  IN  IF keep \/ all = {} THEN all ELSE {CHOOSE i \in all : \A j \in all : i <= j}

\* Mutant: only the lower end of a merged entry is kept.
Merged_First(l, r, keep) ==
  LET m == {l[i] : i \in Overlapped(l, r, keep)} \cup {r}
  IN  [first |-> Min({x.first : x \in m}), last |-> r.last]
Merged(l, r, keep) ==
  LET m == {l[i] : i \in Overlapped(l, r, keep)} \cup {r}
  IN  [first |-> Min({x.first : x \in m}), last |-> Max({x.last : x \in m})]

\* It goes behind the first entry that begins before it, else to the front.
util_ranges_add_range(l, r, keep) ==
  LET gone == Overlapped(l, r, keep)
      rest == SelectSeq([i \in DOMAIN l |-> [e |-> l[i], i |-> i]], LAMBDA x : x.i \notin gone)
      l2   == [i \in DOMAIN rest |-> rest[i].e]
      new  == Merged(l, r, keep)
      less == {i \in DOMAIN l2 : l2[i].first < new.first}
  IN  IF less = {} THEN <<new>> \o l2
      ELSE InsertAt(l2, Min(less) + 1, new)

\* The entire range: for dump what the pool can hold, for info anything.
EntireLast ==
  IF inv.cmd = "info" THEN W - 1
  ELSE IF File(Target).kind = "log" THEN File(Target).cap - 1
  ELSE Len(AllBlocks(File(Target))) - 1

\* util_parse_ranges, one token; without -r the entire range is added.
ParseToken ==
  /\ st = "parse" /\ toks # << >>
  /\ \E g \in {0, W - 1}, keep \in BOOLEAN :
       LET r == util_parse_range(Head(toks), EntireLast, g)
       IN  IF r.ok
             THEN /\ ranges' = util_ranges_add_range(ranges, [first |-> r.first, last |-> r.last], keep)
                  /\ toks' = Tail(toks)
                  /\ UNCHANGED <<st, ret>>
             ELSE End("fail") /\ UNCHANGED <<ranges, toks>>
  /\ UNCHANGED <<inv, fs, fidx, arena, cur_lba, chunkcnt, shown, stats>>

Parsed ==
  /\ st = "parse" /\ toks = << >>
  /\ ranges' = IF inv.toks = << >> THEN <<[first |-> 0, last |-> EntireLast]>> ELSE ranges
  /\ st' = IF inv.cmd = "info" THEN "info_file" ELSE "dump_" \o File(Target).kind
  /\ UNCHANGED <<inv, toks, fs, fidx, arena, cur_lba, chunkcnt, shown, stats, ret>>

-----------------------------------------------------------------------------
(* main.                                                                   *)

IsPool(f) == f.kind \in {"log", "blk"}

\* An unknown command fails; dump needs a pool file that it can open.
main ==
  /\ st = "main"
  /\ CASE inv.cmd = "create" -> st' = "create" /\ UNCHANGED ret
       [] inv.cmd = "info"   -> st' = "parse" /\ UNCHANGED ret
       [] inv.cmd = "dump" /\ IsPool(File(Target)) -> st' = "parse" /\ UNCHANGED ret
       [] OTHER -> End("fail")
  /\ UNCHANGED <<inv, toks, ranges, fs, fidx, arena, cur_lba, chunkcnt, shown, stats>>

-----------------------------------------------------------------------------
(* dump.                                                                   *)

Items(S) == SetToSortSeq(S, <)
Show(S) == [i \in 1 .. Cardinality(S) |-> [file |-> Target, x |-> Items(S)[i]]]

\* The bytes of a chunk, and those that pmemlog_walk's caller passes on.
ChunkBytes(n) == {b \in 0 .. W : b >= (n - 1) * inv.chunk /\ b < n * inv.chunk}

\* pmempool_dump_log_process_chunk for chunk chunkcnt; a chunk at the end is
\* dumped whole, used or not.
DumpChunk ==
  /\ st = "dump_log" /\ inv.chunk > 0
  /\ IF (chunkcnt - 1) * inv.chunk < File(Target).used
       THEN /\ shown' = shown \o FlattenSeq([i \in DOMAIN ranges |->
                 IF ranges[i].first <= chunkcnt - 1 /\ chunkcnt - 1 <= ranges[i].last
                   THEN Show(ChunkBytes(chunkcnt)) ELSE << >>])
            /\ chunkcnt' = chunkcnt + 1
            /\ UNCHANGED <<st, ret>>
       ELSE End("ok") /\ UNCHANGED <<shown, chunkcnt>>
  /\ UNCHANGED <<inv, toks, ranges, fs, fidx, arena, cur_lba, stats>>

\* The walk of the log as one piece.
DumpLog ==
  /\ st = "dump_log" /\ inv.chunk = 0
  /\ LET used == File(Target).used
         last(r) == IF r.last >= used THEN used - 1 ELSE r.last
     IN  /\ ranges' = [i \in DOMAIN ranges |->
                         IF ranges[i].first >= used THEN ranges[i]
                         ELSE [ranges[i] EXCEPT !.last = last(ranges[i])]]
         /\ shown' = shown \o FlattenSeq([i \in DOMAIN ranges |->
                         IF ranges[i].first >= used THEN << >>
                         ELSE Show(ranges[i].first .. last(ranges[i]))])
  /\ End("ok")
  /\ UNCHANGED <<inv, toks, fs, fidx, arena, cur_lba, chunkcnt, stats>>

\* pmempool_dump_blk, one range: up to the first block that is bad.
DumpBlk ==
  /\ st = "dump_blk"
  /\ IF chunkcnt <= Len(ranges)
       THEN LET r    == ranges[chunkcnt]
                bad  == {x \in r.first .. r.last : AllBlocks(File(Target))[x + 1] = "error"}
                good == IF bad = {} THEN r.first .. r.last ELSE r.first .. Min(bad) - 1
            IN  /\ shown' = shown \o Show(good)
                /\ ret' = IF bad = {} THEN ret ELSE "fail"
                /\ chunkcnt' = chunkcnt + 1
                /\ UNCHANGED st
       ELSE st' = "done" /\ UNCHANGED <<shown, ret, chunkcnt>>
  /\ UNCHANGED <<inv, toks, ranges, fs, fidx, arena, cur_lba, stats>>

-----------------------------------------------------------------------------
(* info.                                                                   *)

NextFile(r) ==
  /\ ret' = r
  /\ arena' = 1 /\ cur_lba' = 0 /\ stats' = Stats0
  /\ IF fidx < Len(inv.files) THEN fidx' = fidx + 1 /\ st' = "info_file"
     ELSE st' = "done" /\ UNCHANGED fidx

\* pmempool_info_file: the next file, if its type is known.
InfoFile ==
  /\ st = "info_file"
  /\ IF IsPool(File(Target))
       THEN /\ st' = "info_" \o File(Target).kind
            /\ arena' = 1 /\ cur_lba' = 0 /\ stats' = Stats0
            /\ UNCHANGED <<fidx, ret>>
       ELSE NextFile("fail")
  /\ UNCHANGED <<inv, toks, ranges, fs, chunkcnt, shown>>

\* The blocks 0 .. max of an arena, the first of which is offset, in r.
pmempool_info_get_range(r, max, offset) ==
  IF inv.toks = << >> THEN 0 .. max
  ELSE IF r.first > offset + max \/ r.last < offset THEN {}
  ELSE (IF r.first >= offset THEN r.first - offset ELSE 0)
         .. (IF r.last <= offset + max THEN r.last - offset ELSE max)

IsZero(flag) == flag \in {"zero", "initial"}

pmempool_info_blk_skip_block(flag) ==
  \/ "noflag" \in inv.skip /\ flag = "normal"
  \/ "zeros" \in inv.skip /\ IsZero(flag)
  \/ "error" \in inv.skip /\ flag = "error"

AddStats(s, flags) ==
  [total  |-> s.total + Len(flags),
   zeros  |-> s.zeros + Cardinality({i \in DOMAIN flags : IsZero(flags[i])}),
   errors |-> s.errors + Cardinality({i \in DOMAIN flags : flags[i] = "error"}),
   noflag |-> s.noflag + Cardinality({i \in DOMAIN flags : flags[i] = "normal"})]

\* pmempool_info_btt_layout, one arena: its data (pmempool_info_btt_data),
\* and its map for the statistics (pmempool_info_btt_map).  Without a layout
\* there is nothing to show.
InfoArena ==
  LET map == File(Target).arenas[arena]
      sel(r) == SelectSeq(Items(pmempool_info_get_range(r, Len(map) - 1, cur_lba)),
                          LAMBDA x : ~pmempool_info_blk_skip_block(map[x + 1]))
      blocks == FlattenSeq([i \in DOMAIN ranges |-> sel(ranges[i])])
  IN  /\ st = "info_blk"
      /\ File(Target).laid
      /\ shown' = IF "data" \in inv.show
                    THEN shown \o [i \in DOMAIN blocks |-> [file |-> Target, x |-> cur_lba + blocks[i]]]
                    ELSE shown
      /\ stats' = IF "stats" \in inv.show THEN AddStats(stats, [i \in DOMAIN blocks |-> map[blocks[i] + 1]])
                  ELSE stats
      /\ cur_lba' = cur_lba + Len(map)
      /\ IF arena < Len(File(Target).arenas) THEN arena' = arena + 1 /\ UNCHANGED st
         ELSE st' = "info_stats" /\ UNCHANGED arena
      /\ UNCHANGED <<inv, toks, ranges, fs, fidx, chunkcnt, ret>>

\* The statistics were printed, or there is no layout.
InfoBlkEnd ==
  /\ st = "info_stats" \/ (st = "info_blk" /\ ~File(Target).laid)
  /\ NextFile(ret)
  /\ UNCHANGED <<inv, toks, ranges, fs, chunkcnt, shown>>

\* pmempool_info_log_data without -w: from the first range on, each takes the
\* bytes it shows off size_used and is cut to what is left, for good.  None:
\* the number of bytes is negative, that is, far beyond the mapping.
LogData(l, used) ==
  LET RunTo[i \in 0 .. Len(l)] ==
        IF i = 0 THEN [left |-> used, out |-> << >>, l |-> l, died |-> FALSE]
        ELSE LET p    == RunTo[i - 1]
                 last == IF l[i].last >= p.left THEN p.left - 1 ELSE l[i].last
                 n    == last - l[i].first + 1
             IN  IF p.left = 0 \/ p.died THEN p
                 ELSE IF n < 0 THEN [p EXCEPT !.died = TRUE]
                 ELSE [left |-> p.left - n, out |-> p.out \o Items(l[i].first .. last),
                       l |-> [p.l EXCEPT ![i].last = last], died |-> FALSE]
  IN  RunTo[Len(l)]

\* With -w: the whole chunks that are used.
ChunkData(l, used) ==
  LET chunks == FlattenSeq([i \in DOMAIN l |->
                  Items({c \in 1 .. used \div inv.chunk : l[i].first < c /\ c - 1 <= l[i].last})])
  IN  [left |-> used, l |-> l, died |-> FALSE,
       out |-> FlattenSeq([i \in DOMAIN chunks |-> Items(ChunkBytes(chunks[i]))])]

InfoLog ==
  /\ st = "info_log"
  /\ LET d == IF inv.chunk = 0 THEN LogData(ranges, File(Target).used)
              ELSE ChunkData(ranges, File(Target).used)
     IN  IF "data" \notin inv.show \/ File(Target).used = 0
           THEN NextFile(ret) /\ UNCHANGED <<ranges, shown>>
         ELSE IF d.died
           THEN /\ End("fail")
                /\ UNCHANGED <<ranges, shown, arena, cur_lba, stats, fidx>>
         ELSE /\ ranges' = d.l
              /\ shown' = shown \o [i \in DOMAIN d.out |-> [file |-> Target, x |-> d.out[i]]]
              /\ NextFile(ret)
  /\ UNCHANGED <<inv, toks, fs, chunkcnt>>

-----------------------------------------------------------------------------
(* create.                                                                 *)

\* The number below which util_check_bsize wants a block size to be.
util_get_max_bsize(fsize) ==
  LET a1 == fsize - BlkHdr
      a2 == (IF a1 > BTT_MAX_ARENA THEN BTT_MAX_ARENA ELSE a1) - 2 * InfoSize - FlogSize(NFREE)
      n  == (a2 - BTT_ALIGNMENT) \div (2 * NFREE) - BTT_MAP_ENTRY_SIZE
  IN  IF fsize = 0 THEN 0
      ELSE roundup(IF n < BTT_MIN_LBA_SIZE THEN BTT_MIN_LBA_SIZE ELSE n, BTT_INTERNAL_LBA_ALIGNMENT)
             - BTT_INTERNAL_LBA_ALIGNMENT

pmem_pool_get_min_size(type) == IF type = "log" THEN MinLog ELSE MinBlk

\* Type, size and block size, from the arguments or the file to inherit from.
Source == IF inv.inherit = "none" THEN [kind |-> "absent"] ELSE File(inv.inherit)
CreateType == IF inv.type # "none" THEN inv.type ELSE Source.kind
CreateSize0 == IF inv.type = "none" THEN Source.size ELSE inv.size
CreateBsize ==
  LET b == IF inv.type = "none" THEN Source.bsize ELSE inv.bsize
  IN  IF b = 0 THEN MinBlkSize ELSE b

\* Refused before anything is done.
CreateRefused ==
  \/ inv.type = "none" /\ (inv.inherit = "none" \/ ~IsPool(Source))
  \/ inv.type = "unknown"
  \/ inv.type = "blk" /\ inv.bsize < 0
  \/ CreateType = "log" /\ (inv.layout >= 0 \/ inv.bsize >= 0)
  \/ CreateSize0 # 0 /\ inv.max
  \/ CreateSize0 = 0 /\ inv.max /\ FsAvail = 0
  \/ CreateSize0 # 0 /\ CreateSize0 < pmem_pool_get_min_size(CreateType)

CreateSize ==
  IF CreateSize0 # 0 THEN CreateSize0
  ELSE IF inv.max THEN FsAvail
  ELSE IF FileExists(Target) THEN 0 ELSE pmem_pool_get_min_size(CreateType)

\* pmemblk_create and pmemlog_create: a size makes a new file, which must not
\* exist; without one the file must exist and begin with zeros.
CanCreate(size, type, bsize) ==
  LET n == IF size # 0 THEN size ELSE File(Target).size
  IN  /\ IF size # 0 THEN ~FileExists(Target) ELSE File(Target).kind = "zero"
      /\ n >= pmem_pool_get_min_size(type)
      /\ n <= FsAvail
      /\ type = "blk" => LayoutPossible(n - BlkHdr, bsize, NFREE)

NewPool(type, n, bsize, laid) ==
  IF type = "log" THEN [kind |-> "log", size |-> n, cap |-> n - 1, used |-> 0]
  ELSE LET lay == Layout(n - BlkHdr, bsize, NFREE)
       IN  [kind |-> "blk", size |-> n, bsize |-> bsize, laid |-> laid,
            arenas |-> [a \in DOMAIN lay |-> [x \in 1 .. lay[a].external_nlba |->
                          IF laid /\ a = 1 /\ x = inv.layout + 1 THEN "zero" ELSE "initial"]]]

\* Mutant: a file that was there is removed as well.
Cleanup_Always(f) == [fs EXCEPT ![Target] = [kind |-> "absent"]]
\* The file is removed after a failure unless it was there before.
Cleanup(f) == IF FileExists(Target) THEN [fs EXCEPT ![Target] = f]
              ELSE [fs EXCEPT ![Target] = [kind |-> "absent"]]

pmempool_create_func ==
  LET n == IF CreateSize # 0 THEN CreateSize ELSE File(Target).size
      p == NewPool(CreateType, n, CreateBsize, FALSE)
      nblock == Len(AllBlocks(p))
  IN  /\ st = "create"
      /\ IF CreateRefused THEN End("fail") /\ UNCHANGED fs
         ELSE IF ~CanCreate(CreateSize, CreateType, CreateBsize)
           THEN End("fail") /\ fs' = Cleanup(File(Target))
         ELSE IF inv.layout < 0 THEN End("ok") /\ fs' = [fs EXCEPT ![Target] = p]
         ELSE IF inv.layout >= nblock THEN End("fail") /\ fs' = Cleanup(p)
         ELSE /\ End("ok")
              /\ fs' = [fs EXCEPT ![Target] = NewPool(CreateType, n, CreateBsize, TRUE)]
      /\ UNCHANGED <<inv, toks, ranges, fidx, arena, cur_lba, chunkcnt, shown, stats>>

CmdNext ==
  \/ main \/ ParseToken \/ Parsed
  \/ DumpChunk \/ DumpLog \/ DumpBlk
  \/ InfoFile \/ InfoArena \/ InfoBlkEnd \/ InfoLog
  \/ pmempool_create_func

CmdSpec == CmdInit /\ [][CmdNext]_cmd_vars
-----------------------------------------------------------------------------
(* Properties.                                                             *)

\* What the command line asks for, up to last.
TokenSet(t, last) ==
  CASE t.form = "from_to" -> Min({t.a, t.b}) .. Min({Max({t.a, t.b}), last})
    [] t.form = "from" -> t.a .. last
    [] t.form = "to" -> 0 .. Min({t.b, last})
    [] t.form = "number" -> {t.a} \cap 0 .. last
    [] OTHER -> {}
Asked(last) ==
  IF inv.toks = << >> THEN 0 .. last
  ELSE UNION {TokenSet(inv.toks[i], last) : i \in DOMAIN inv.toks}
WellFormed == \A i \in DOMAIN inv.toks : inv.toks[i].form # "junk"

ShownOf(n) == {e.x : e \in {f \in ToSet(shown) : f.file = n}}
\* Number of the last byte, chunk or block of a file.
LastOf(n) ==
  IF File(n).kind = "blk" THEN Len(AllBlocks(File(n))) - 1
  ELSE IF inv.chunk > 0 /\ inv.cmd = "info" THEN File(n).used \div inv.chunk - 1
  ELSE IF inv.chunk > 0 THEN (File(n).used - 1) \div inv.chunk ELSE File(n).used - 1
InUnits(n, S) ==
  IF File(n).kind = "log" /\ inv.chunk > 0 THEN {x \div inv.chunk : x \in S} ELSE S

\* Nothing is shown that was not asked for.
OnlyAsked ==
  WellFormed => \A n \in {e.file : e \in ToSet(shown)} : InUnits(n, ShownOf(n)) \subseteq Asked(LastOf(n))

Skipped(n) ==
  {x \in 0 .. LastOf(n) : File(n).kind = "blk" /\ inv.cmd = "info"
     /\ pmempool_info_blk_skip_block(AllBlocks(File(n))[x + 1])}
Shows == inv.cmd = "dump" \/ (inv.cmd = "info" /\ "data" \in inv.show)
InBounds(n) ==
  \A i \in DOMAIN inv.toks : inv.toks[i].form = "from_to" =>
    inv.toks[i].a <= LastOf(n) /\ inv.toks[i].b <= LastOf(n)

\* All of it is shown, unless a failure is reported.  (Of a log, info shows
\* one range of the first file correctly: see the README.)
AllAsked ==
  (st = "done" /\ ret = "ok" /\ Shows /\ WellFormed) =>
    \A i \in DOMAIN inv.files :
      LET n == inv.files[i]
      IN  (IsPool(File(n)) /\ InBounds(n)
             /\ (inv.cmd = "info" /\ File(n).kind = "log" => i = 1 /\ Len(inv.toks) < 2)
             /\ (inv.cmd = "info" /\ File(n).kind = "blk" => File(n).laid))
            => Asked(LastOf(n)) \ Skipped(n) \subseteq InUnits(n, ShownOf(n))

\* The statistics count every block of every arena once.
StatsExact ==
  (st = "info_stats" /\ inv.toks = << >> /\ inv.skip = {} /\ "stats" \in inv.show) =>
    stats = AddStats(Stats0, AllBlocks(File(Target)))

\* dump and info show nothing but what was asked for, whatever the ranges of
\* -r, their order, their overlaps, and whichever arena a block is in; they
\* show all of it, but for "from-to" with a bound behind the end and for
\* several ranges or files of logs in info; and the statistics of info count
\* every block of every arena once.
RangesExact == OnlyAsked /\ AllAsked /\ StatsExact

\* "block size must be < %u": in a pool of one arena a block size below the
\* number that the message gives can be laid out.
BsizeHint ==
  (inv.cmd = "create" /\ inv.type = "blk" /\ inv.bsize >= 0 /\ inv.size >= MinBlk
     /\ inv.size - BlkHdr < BTT_MAX_ARENA + BTT_MIN_SIZE) =>
    (CreateBsize < util_get_max_bsize(inv.size) =>
       LayoutPossible(inv.size - BlkHdr, CreateBsize, NFREE))

\* A create that fails leaves no file that was not there, and removes none
\* that was; one that succeeds leaves the pool that was asked for, whose
\* arenas have their areas in order and room for every block, map entry and
\* flog (LayoutSound); and the hint that a refusal gives is right.
CreateSound ==
  /\ (st = "done" /\ inv.cmd = "create") =>
       /\ \A n \in DOMAIN fs \ {Target} : fs[n] = FsInit[n]
       /\ ret = "fail" => (FileExists(Target) <=> FsInit[Target].kind # "absent")
       /\ ret = "ok" =>
            LET src == IF inv.inherit = "none" \/ inv.type # "none"
                         THEN [size |-> inv.size, kind |-> inv.type] ELSE FsInit[inv.inherit]
                new == File(Target)
            IN  /\ new.kind = src.kind
                /\ src.size # 0 => new.size = src.size
                /\ new.kind = "blk" =>
                     /\ new.laid <=> inv.layout >= 0
                     /\ LayoutSound(new.size - BlkHdr, new.bsize, NFREE)
  /\ BsizeHint
=============================================================================
