--------------------------- MODULE PmempoolCheck ---------------------------
(***************************************************************************)
(* "pmempool check" (src/tools/pmempool/check.c): the steps that examine a *)
(* pool file of libpmemlog or libpmemblk and, with -r, repair it: pool     *)
(* header, pmemlog or pmemblk header, BTT info blocks, BTT map and flog,   *)
(* and the writing of what was repaired.  The file is spoiled in up to     *)
(* MaxFaults places; a power failure may interrupt the writing.            *)
(*                                                                         *)
(* A checksum is modelled as a copy of what it was computed over, so it is *)
(* valid exactly when nothing covered changed since.                       *)
(***************************************************************************)
EXTENDS BttLayout, FiniteSetsExt

CONSTANTS
  NArenas,           \* arenas of a pmemblk pool
  ExtNlba, NFree,    \* external blocks and free blocks of an arena
  LibSeqs,           \* flog sequence numbers that btt.c leaves behind
  LogSize, LogStart, \* size of a pmemlog file and start of its data
  MaxFaults, MaxCrash

ASSUME CheckAssumption ==
  /\ {NArenas, ExtNlba, NFree, LogSize} \subseteq Nat \ {0}
  /\ LogStart \in 1 .. LogSize - 1
  /\ LibSeqs \subseteq Nat \X Nat
  /\ {MaxFaults, MaxCrash} \subseteq Nat

VARIABLES
  file,       \* the pool file
  orig,       \* history: the file when the tool was started
  opt,        \* struct pmempool_check: the options
  ptype, uuid_op, bttc, hdr, log, bsize, arenas,   \* its other fields
  step,       \* the step of pmempool_check_steps, or "idle", "died"
  at,         \* the arena a step is at
  result,     \* check_result_t
  exit,       \* exit code of the last run, or "none"
  seen,       \* the file with the writes that no fsync has followed yet
  nruns, ncrash, nfaults

tool == <<ptype, uuid_op, bttc, hdr, log, bsize, arenas>>
chk_vars == <<file, orig, opt, tool, step, at, result, exit, seen, nruns, ncrash, nfaults>>

-----------------------------------------------------------------------------
(* The pool file.                                                          *)

IntNlba  == ExtNlba + NFree
Posts    == 0 .. IntNlba          \* IntNlba is out of range
NoBlock  == -1                    \* a flog pair without current half has none
Lanes    == 0 .. NFree - 1
Premap   == 0 .. ExtNlba - 1
ArenaIdx == 1 .. NArenas
Defaults == {"major", "compat", "incompat", "ro_compat", "unused"}

\* A field of the header either has its default value or not.
Body(h)  == [sig |-> h.sig, bad |-> h.bad, uuid |-> h.uuid, crtime |-> h.crtime]
NoBody   == [sig |-> "?", bad |-> {}, uuid |-> "?", crtime |-> "?"]
Sealed(h) == [h EXCEPT !.csum = Body(h)]
CsumOk(h) == h.csum = Body(h)

GoodHdr(type) ==
  Sealed([sig |-> type, bad |-> {}, uuid |-> "u", crtime |-> "past", csum |-> NoBody])
ZeroHdr ==   \* the default features and the unused bytes are zeros as well
  [sig |-> "zero", bad |-> {"major"}, uuid |-> "zero", crtime |-> "past", csum |-> NoBody]

Info(st, u) == [st |-> st, uuid |-> u, bsize |-> 1]
Slot(seq, post) == [seq |-> seq, old |-> post]

\* An arena as btt.c leaves it: the map may have been written to, and each
\* lane's flog pair holds two successive sequence numbers.
GoodArena(s) ==
  [info |-> Info("ok", "u"), info2 |-> Info("ok", "u"),
   map |-> [x \in Premap |-> [post |-> 0, flag |-> IF x = 0 THEN "normal" ELSE "initial"]],
   flog |-> [l \in Lanes |->
     [a |-> Slot(s[1], ExtNlba + l), b |-> Slot(s[2], IF s[2] = 0 THEN 0 ELSE ExtNlba + l)]]]

GoodLog == [start |-> LogStart, end |-> LogSize, write |-> LogStart]
GoodPool(type, s) ==
  [type |-> type, hdr |-> GoodHdr(type), log |-> GoodLog, bsize |-> 1,
   arenas |-> IF type = "blk" THEN [a \in ArenaIdx |-> GoodArena(s)] ELSE << >>]

HdrFaults ==
  {[what |-> "sig"], [what |-> "uuid"], [what |-> "crtime"], [what |-> "csum"],
   [what |-> "zero"]} \cup [what : {"field"}, field : {"major", "incompat"}]
LogFaults == [what : {"start", "end"}] \cup [what : {"write"}, to : {0, LogSize, LogSize + 1}]
BlkFaults ==
  [what : {"bsize"}] \cup [what : {"info", "info2"}, a : ArenaIdx]
    \cup [what : {"map"}, a : ArenaIdx, x : Premap, to : Posts]
    \cup [what : {"flog"}, a : ArenaIdx, l : Lanes]
    \cup [what : {"old_a", "old_b"}, a : ArenaIdx, l : Lanes, to : {0, IntNlba}]
    \cup [what : {"nolayout"}]

Spoil(f, t) ==
  CASE t.what = "sig"    -> [f EXCEPT !.hdr.sig = "bad"]
    [] t.what = "uuid"   -> [f EXCEPT !.hdr.uuid = "bad"]
    [] t.what = "crtime" -> [f EXCEPT !.hdr.crtime = "future"]
    [] t.what = "csum"   -> [f EXCEPT !.hdr.csum = NoBody]
    [] t.what = "zero"   -> [f EXCEPT !.hdr = ZeroHdr]
    [] t.what = "field"  -> [f EXCEPT !.hdr.bad = @ \cup {t.field}]
    [] t.what = "start"  -> [f EXCEPT !.log.start = 0]
    [] t.what = "end"    -> [f EXCEPT !.log.end = 0]
    [] t.what = "write"  -> [f EXCEPT !.log.write = t.to]
    [] t.what = "bsize"  -> [f EXCEPT !.bsize = 0]
    [] t.what = "info"   -> [f EXCEPT !.arenas[t.a].info.st = "bad"]
    [] t.what = "info2"  -> [f EXCEPT !.arenas[t.a].info2.st = "bad"]
    [] t.what = "map"    -> [f EXCEPT !.arenas[t.a].map[t.x] = [post |-> t.to, flag |-> "normal"]]
    [] t.what = "flog"   -> [f EXCEPT !.arenas[t.a].flog[t.l].a.seq = 5]
    [] t.what = "old_a"  -> [f EXCEPT !.arenas[t.a].flog[t.l].a.old = t.to]
    [] t.what = "old_b"  -> [f EXCEPT !.arenas[t.a].flog[t.l].b.old = t.to]
    [] OTHER             -> [f EXCEPT !.arenas = [a \in ArenaIdx |->
                              [f.arenas[a] EXCEPT !.info = Info("zero", "zero"),
                                                  !.info2 = Info("zero", "zero")]]]

Faults(type) == HdrFaults \cup (IF type = "log" THEN LogFaults ELSE BlkFaults)
NoOpt == [repair |-> FALSE, exec |-> TRUE, yes |-> FALSE]

\* The tool is not running.
ToolIdle ==
  /\ orig = file
  /\ opt = NoOpt
  /\ ptype = "none" /\ uuid_op = "nop" /\ bttc = Info("bad", "zero")
  /\ hdr = ZeroHdr /\ log = GoodLog /\ bsize = 0 /\ arenas = << >>
  /\ step = "idle" /\ at = 1 /\ result = "consistent" /\ exit = "none"
  /\ seen = file /\ nruns = 0 /\ ncrash = 0 /\ nfaults = 0

CheckInit ==
  /\ \/ file = GoodPool("log", <<1, 0>>)
     \/ \E s \in LibSeqs : file = GoodPool("blk", s)
  /\ ToolIdle

\* Up to MaxFaults spots of the file are spoiled before the tool is run.
Damage ==
  /\ nruns = 0 /\ nfaults < MaxFaults
  /\ \E t \in Faults(file.type) : file' = Spoil(file, t)
  /\ orig' = file' /\ seen' = file' /\ nfaults' = nfaults + 1
  /\ UNCHANGED <<opt, tool, step, at, result, exit, nruns, ncrash>>

-----------------------------------------------------------------------------
(* Starting the tool, and what single_step makes of a step's result.       *)

\* The options that pmempool_check_parse_args accepts: -N needs -r.
Options == {o \in [repair : BOOLEAN, exec : BOOLEAN, yes : BOOLEAN] : o.repair \/ o.exec}

pmem_pool_type_parse_hdr(h) == IF h.sig \in {"log", "blk"} THEN h.sig ELSE "unknown"

\* The tool is started once, and again after a power failure (bound).
pmempool_check_func(o) ==
  /\ step \in {"idle", "died"} /\ nruns = ncrash
  /\ opt' = o
  /\ ptype' = pmem_pool_type_parse_hdr(file.hdr)
  /\ uuid_op' = "nop" /\ bttc' = Info("bad", "zero")
  /\ hdr' = file.hdr /\ log' = file.log /\ bsize' = file.bsize /\ arenas' = << >>
  /\ step' = "pool_hdr" /\ at' = 1 /\ result' = "consistent" /\ exit' = "none"
  /\ orig' = file
  /\ nruns' = nruns + 1
  /\ UNCHANGED <<file, seen, ncrash, nfaults>>

\* The step that follows, for a pool of type t.
After(s, t) ==
  IF t = "log" THEN CASE s = "pool_hdr" -> "pmemlog" [] s = "pmemlog" -> "write_log" [] OTHER -> "end"
  ELSE IF t = "blk"
    THEN CASE s = "pool_hdr" -> "pmemblk" [] s = "pmemblk" -> "btt_info"
           [] s = "btt_info" -> "map_flog" [] s = "map_flog" -> "write_blk" [] OTHER -> "end"
  ELSE "end"

ExitCode(r) == IF r \in {"consistent", "break", "repaired"} THEN "ok" ELSE "fail"

Stops(r) == r \in {"break", "cannot_repair", "error"} \/ (r = "not_consistent" /\ ~opt.repair)

\* pmempool_check_single_step for a step that returned r.
Finish(r, t) ==
  /\ result' = IF r = "consistent" THEN result ELSE r
  /\ at' = 1
  /\ IF Stops(r) \/ After(step, t) = "end"
       THEN step' = "idle" /\ exit' = ExitCode(result')
       ELSE step' = After(step, t) /\ UNCHANGED exit

\* The user's refusals: none with -y; otherwise at most one question of a
\* step is answered with no (bound).
Refusals(q) == IF opt.yes THEN {{}} ELSE {{}} \cup {{x} : x \in q}

-----------------------------------------------------------------------------
(* pmempool_check_pool_hdr.                                                *)

\* The info blocks in file order: those of arena a are 2a - 2 and, its
\* backup, 2a - 1.
InfoAt(n) == IF n % 2 = 0 THEN file.arenas[n \div 2 + 1].info ELSE file.arenas[n \div 2 + 1].info2

\* pmempool_check_get_first_valid_btt, or -1 if there is none behind n.
FirstValidBtt(n) ==
  LET valid == {k \in n .. 2 * Len(file.arenas) - 1 : InfoAt(k).st = "ok"}
  IN  IF valid = {} THEN -1 ELSE Min(valid)

\* The header after its fields were set to their defaults, except the
\* refused ones, and what became of the type, the UUID and the result.
RepairedHdr(no) ==
  LET t0    == pmem_pool_type_parse_hdr(hdr)
      found == t0 = "unknown" /\ FirstValidBtt(0) >= 0
      btt   == IF found THEN InfoAt(FirstValidBtt(0)) ELSE bttc
      t     == IF found THEN "blk" ELSE t0
      h1    == [hdr EXCEPT !.sig = t, !.bad = @ \cap no]
      from_btt == t = "blk" /\ btt.st = "ok" /\ h1.uuid # btt.uuid /\ "uuid" \notin no
      h2    == IF from_btt THEN [h1 EXCEPT !.uuid = btt.uuid] ELSE h1
      op    == IF from_btt THEN "from_btt" ELSE "nop"
      ret(r, h, o) == [res |-> r, hdr |-> h, type |-> t, op |-> o, bttc |-> btt]
      h3    == [h2 EXCEPT !.crtime = "past", !.uuid = "new"]
  IN  IF t = "unknown" \/ (found /\ "sig" \in no) THEN ret("cannot_repair", hdr, op)
      ELSE IF CsumOk(h2) THEN ret("repaired", h2, op)
      ELSE IF h2.crtime = "future" /\ "crtime" \in no THEN ret("cannot_repair", h2, op)
      ELSE IF op # "nop" \/ "regenerate" \in no \/ "csum" \in no THEN ret("cannot_repair", h2, op)
      ELSE ret("repaired", Sealed(h3), "regenerated")

HdrConsistent(h) == h # ZeroHdr /\ CsumOk(h)

pmempool_check_pool_hdr(no) ==
  LET r == IF HdrConsistent(hdr)
             THEN [res |-> "consistent", hdr |-> hdr, type |-> ptype, op |-> uuid_op, bttc |-> bttc]
           ELSE IF ~opt.repair
             THEN [res |-> "not_consistent", hdr |-> hdr, type |-> ptype, op |-> uuid_op, bttc |-> bttc]
           ELSE RepairedHdr(no)
  IN  /\ step = "pool_hdr"
      /\ hdr' = r.hdr /\ ptype' = r.type /\ uuid_op' = r.op /\ bttc' = r.bttc
      /\ Finish(r.res, r.type)
      /\ UNCHANGED <<file, orig, opt, log, bsize, arenas, seen, nruns, ncrash, nfaults>>

-----------------------------------------------------------------------------
(* pmempool_check_pmemlog and pmempool_check_pmemblk.                      *)

BadLog(l) ==
  (IF l.start # LogStart THEN {"start"} ELSE {}) \cup (IF l.end # LogSize THEN {"end"} ELSE {})
    \cup (IF l.write \in LogStart .. LogSize THEN {} ELSE {"write"})

\* An impossible write offset becomes the end of the log.
FixedLog(l) == [start |-> LogStart, end |-> LogSize,
                write |-> IF "write" \in BadLog(l) THEN LogSize ELSE l.write]

pmempool_check_pmemlog(no) ==
  /\ step = "pmemlog"
  /\ LET bad == BadLog(log)
         r == IF bad = {} THEN "consistent" ELSE IF ~opt.repair THEN "not_consistent"
              ELSE IF bad \cap no # {} THEN "cannot_repair" ELSE "repaired"
     IN  /\ log' = IF r = "repaired" THEN FixedLog(log) ELSE log
         /\ Finish(r, ptype)
  /\ UNCHANGED <<file, orig, opt, ptype, uuid_op, bttc, hdr, bsize, arenas, seen, nruns, ncrash, nfaults>>

\* The block size is compared with the first valid BTT info block, if any.
pmempool_check_pmemblk(no) ==
  /\ step = "pmemblk"
  /\ LET btt == IF bttc.st # "ok" /\ FirstValidBtt(0) >= 0
                  THEN InfoAt(FirstValidBtt(0)) ELSE bttc
         r == IF btt.st = "ok"
                THEN IF bsize = btt.bsize THEN "consistent" ELSE IF ~opt.repair THEN "not_consistent"
                     ELSE IF "bsize" \in no THEN "cannot_repair" ELSE "repaired"
                ELSE IF bsize = 0 THEN "cannot_repair" ELSE "consistent"
     IN  /\ bttc' = btt
         /\ bsize' = IF r = "repaired" THEN btt.bsize ELSE bsize
         /\ Finish(r, ptype)
  /\ UNCHANGED <<file, orig, opt, ptype, uuid_op, hdr, log, arenas, seen, nruns, ncrash, nfaults>>

-----------------------------------------------------------------------------
(* pmempool_check_btt_info: one arena per step.                            *)

\* The backup of arena a is the first valid info block behind its primary.
HasBackup(a) == FirstValidBtt(2 * a - 1) = 2 * a - 1

pmempool_check_read_map(a)  == file.arenas[a].map
pmempool_check_read_flog(a) == file.arenas[a].flog

Keep(a, info) ==
  arenas' = Append(arenas, [idx |-> a, info |-> info, map |-> pmempool_check_read_map(a),
                            flog |-> pmempool_check_read_flog(a)])

\* The arena is good, or restored from its backup; go on behind it.
BttInfo(no) ==
  LET p    == file.arenas[at].info
      lost == p.st # "ok"
      good == (~lost \/ (opt.repair /\ HasBackup(at) /\ "restore" \notin no)) /\ p.st # "zero"
  IN  /\ step = "btt_info"
      /\ good
      /\ Keep(at, IF lost THEN file.arenas[at].info2 ELSE p)
      /\ IF at < NArenas
           THEN at' = at + 1 /\ result' = (IF lost THEN "repaired" ELSE result)
                /\ UNCHANGED <<step, exit>>
           ELSE Finish(IF lost THEN "repaired" ELSE "consistent", ptype)
      /\ UNCHANGED <<file, orig, opt, ptype, uuid_op, bttc, hdr, log, bsize, seen, nruns, ncrash, nfaults>>

\* Nothing there: the layout is not written yet, and the check ends.
\* Otherwise the block is lost, or the user does not want it restored.
BttInfoBad(no) ==
  LET p == file.arenas[at].info
      r == IF p.st = "zero" THEN "break" ELSE IF ~opt.repair THEN "not_consistent" ELSE "cannot_repair"
  IN  /\ step = "btt_info"
      /\ p.st # "ok"
      /\ p.st = "zero" \/ ~opt.repair \/ (IF HasBackup(at) THEN "restore" ELSE "layout") \in no
      /\ Finish(r, ptype)
      /\ UNCHANGED <<file, orig, opt, tool, seen, nruns, ncrash, nfaults>>

\* pmempool_check_btt_info_advanced_repair has btt_write lay the arena out
\* anew, which calls the nszero that pmempool_check_btt_ns_callback leaves
\* NULL: the tool dies before it has changed the file.
AdvancedRepair(no) ==
  /\ step = "btt_info" /\ opt.repair
  /\ file.arenas[at].info.st = "bad" /\ ~HasBackup(at) /\ "layout" \notin no
  /\ step' = "died" /\ exit' = "fail"
  /\ UNCHANGED <<file, orig, opt, tool, at, result, seen, nruns, ncrash, nfaults>>

-----------------------------------------------------------------------------
(* pmempool_check_arena_map_flog: one arena per step.                      *)

\* pmempool_check_check_flog: the free block of the current half of a pair.
CurrentFlog(p) ==
  CASE <<p.a.seq, p.b.seq>> \in {<<1, 0>>, <<2, 1>>} -> p.a.old
    [] <<p.a.seq, p.b.seq>> \in {<<0, 1>>, <<1, 2>>} -> p.b.old
    [] OTHER -> NoBlock

\* Mutant: the entry of a block never written is taken for block 0.
MapPost_Raw(m, x) == m[x].post
MapPost(m, x) == IF m[x].flag = "initial" THEN x ELSE m[x].post

\* Map entries out of range, or for a block that an earlier entry has.
InvalidMap(m) ==
  {x \in Premap : MapPost(m, x) >= IntNlba \/ \E y \in 0 .. x - 1 : MapPost(m, y) = MapPost(m, x)}

\* The blocks of the flog that do not exist.  Their bits lie behind the
\* bitmap, which is read and written there without a test.
Wild(g) == {b \in {CurrentFlog(g[l]) : l \in Lanes} : b >= IntNlba}

\* Flog pairs without current half, or whose free block is taken already.  Of
\* the wild blocks those in w have their bit set before the flog is read.
InvalidFlog(m, g, w) ==
  {l \in Lanes : LET b == CurrentFlog(g[l])
                 IN  \/ b = NoBlock
                     \/ b \in w
                     \/ b < IntNlba /\ \E x \in Premap : MapPost(m, x) = b
                     \/ \E k \in 0 .. l - 1 : CurrentFlog(g[k]) = b}

Unmapped(m, g) ==
  (0 .. IntNlba - 1) \ ({MapPost(m, x) : x \in Premap} \cup {CurrentFlog(g[l]) : l \in Lanes})

\* The lists are stacks that were filled in ascending order: when an element
\* is popped, and which element is popped as the k-th.
PositionIn(S, e) == Cardinality({f \in S : f > e}) + 1
Popped(S, k) == CHOOSE e \in S : PositionIn(S, e) = k

\* Mutant: the blocks given to the map are given to the flog again.
RepairedArena_Again(ar, w) ==
  LET im == InvalidMap(ar.map)
      ig == InvalidFlog(ar.map, ar.flog, w)
      un == Unmapped(ar.map, ar.flog)
  IN  [ar EXCEPT
        !.map = [x \in Premap |-> IF x \in im
                   THEN [post |-> Popped(un, PositionIn(im, x)), flag |-> "error"] ELSE ar.map[x]],
        !.flog = [l \in Lanes |-> IF l \in ig
                   THEN [a |-> Slot(1, Popped(un, PositionIn(ig, l))), b |-> Slot(0, 0)]
                   ELSE ar.flog[l]]]
\* Every invalid entry gets an unmapped block, map entries first.
RepairedArena(ar, w) ==
  LET im == InvalidMap(ar.map)
      ig == InvalidFlog(ar.map, ar.flog, w)
      un == Unmapped(ar.map, ar.flog)
  IN  [ar EXCEPT
        !.map = [x \in Premap |-> IF x \in im
                   THEN [post |-> Popped(un, PositionIn(im, x)), flag |-> "error"] ELSE ar.map[x]],
        !.flog = [l \in Lanes |-> IF l \in ig
                   THEN [a |-> Slot(1, Popped(un, Cardinality(im) + PositionIn(ig, l))), b |-> Slot(0, 0)]
                   ELSE ar.flog[l]]]

\* w: what the reads behind the bitmap find.
MapFlog(no, w) ==
  LET ar == arenas[at]
      im == InvalidMap(ar.map)
      ig == InvalidFlog(ar.map, ar.flog, w)
      un == Unmapped(ar.map, ar.flog)
      r  == IF ~opt.repair /\ un # {} THEN "not_consistent"
            ELSE IF Cardinality(un) # Cardinality(im) + Cardinality(ig) THEN "cannot_repair"
            ELSE IF (im # {} /\ "map" \in no) \/ (ig # {} /\ "flog" \in no) THEN "cannot_repair"
            ELSE "consistent"
  IN  /\ step = "map_flog"
      /\ arenas' = IF r = "consistent" /\ opt.repair THEN [arenas EXCEPT ![at] = RepairedArena(ar, w)]
                   ELSE arenas
      /\ IF r = "consistent" /\ at < Len(arenas)
           THEN at' = at + 1 /\ UNCHANGED <<step, result, exit>>
           ELSE Finish(r, ptype)
      /\ UNCHANGED <<file, orig, opt, ptype, uuid_op, bttc, hdr, log, bsize, seen, nruns, ncrash, nfaults>>

\* The accesses behind the bitmap may also end the tool.
MapFlogDies ==
  /\ step = "map_flog" /\ Wild(arenas[at].flog) # {}
  /\ step' = "died" /\ exit' = "fail"
  /\ UNCHANGED <<file, orig, opt, tool, at, result, seen, nruns, ncrash, nfaults>>

-----------------------------------------------------------------------------
(* Writing what was repaired.  A write is seen at once but only fsync      *)
(* makes sure that it survives a power failure; file is what does.         *)

WriteSkipped ==
  /\ step \in {"write_log", "write_blk"} /\ at = 1
  /\ ~opt.repair \/ ~opt.exec
  /\ Finish("consistent", ptype)
  /\ UNCHANGED <<file, orig, opt, tool, seen, nruns, ncrash, nfaults>>

\* struct pmemlog: the pool header's page and the page of the offsets.
pmempool_check_write_log ==
  /\ step = "write_log" /\ opt.repair /\ opt.exec
  /\ seen' = [seen EXCEPT !.hdr = hdr, !.log = log]
  /\ step' = "sync_log"
  /\ UNCHANGED <<file, orig, opt, tool, at, result, exit, nruns, ncrash, nfaults>>

SyncLog ==
  /\ step = "sync_log"
  /\ file' = seen
  /\ Finish("consistent", ptype)
  /\ UNCHANGED <<orig, opt, tool, seen, nruns, ncrash, nfaults>>

\* The pwrites of pmempool_check_write_blk: the header, and for each arena the
\* info blocks, the flog and the map.  Only the last two are followed by fsync.
ArenaInfoOut(ar) == IF uuid_op = "regenerated" THEN [ar.info EXCEPT !.uuid = hdr.uuid] ELSE ar.info
WriteHdr ==
  /\ step = "write_blk" /\ at = 1 /\ opt.repair /\ opt.exec
  /\ seen' = [seen EXCEPT !.hdr = hdr, !.bsize = bsize]
  /\ step' = "write_arena"
  /\ UNCHANGED <<file, orig, opt, tool, at, result, exit, nruns, ncrash, nfaults>>

\* Mutant: the new UUID does not reach the arenas.
WriteInfos_OldUuid ==
  /\ step = "write_arena"
  /\ seen' = [seen EXCEPT !.arenas[arenas[at].idx].info = arenas[at].info,
                          !.arenas[arenas[at].idx].info2 = arenas[at].info]
  /\ step' = "write_flog"
  /\ UNCHANGED <<file, orig, opt, tool, at, result, exit, nruns, ncrash, nfaults>>
WriteInfos ==
  /\ step = "write_arena"
  /\ LET i == ArenaInfoOut(arenas[at]) IN
       seen' = [seen EXCEPT !.arenas[arenas[at].idx].info = i, !.arenas[arenas[at].idx].info2 = i]
  /\ step' = "write_flog"
  /\ UNCHANGED <<file, orig, opt, tool, at, result, exit, nruns, ncrash, nfaults>>

pmempool_check_write_flog(f, ar) == [f EXCEPT !.arenas[ar.idx].flog = ar.flog]
pmempool_check_write_map(f, ar)  == [f EXCEPT !.arenas[ar.idx].map = ar.map]

WriteFlog ==
  /\ step = "write_flog"
  /\ seen' = pmempool_check_write_flog(seen, arenas[at])
  /\ step' = "write_map"
  /\ UNCHANGED <<file, orig, opt, tool, at, result, exit, nruns, ncrash, nfaults>>

\* The fsync behind the flog, and the map.
WriteMap ==
  /\ step = "write_map"
  /\ file' = seen
  /\ seen' = pmempool_check_write_map(seen, arenas[at])
  /\ step' = "sync_map"
  /\ UNCHANGED <<orig, opt, tool, at, result, exit, nruns, ncrash, nfaults>>

\* The fsync behind the map; the one behind the last arena finds nothing new.
SyncMap ==
  /\ step = "sync_map"
  /\ file' = seen
  /\ IF at < Len(arenas)
       THEN at' = at + 1 /\ step' = "write_arena" /\ UNCHANGED <<result, exit>>
       ELSE Finish("consistent", ptype)
  /\ UNCHANGED <<orig, opt, tool, seen, nruns, ncrash, nfaults>>

Rebooted ==
  /\ seen' = file'
  /\ step' = "idle" /\ exit' = "none" /\ at' = 1
  /\ ncrash' = ncrash + 1
  /\ UNCHANGED <<orig, opt, tool, result, nruns, nfaults>>

\* What a power failure leaves of an arena: any of its info blocks, flog pairs
\* and map entries that were written since the last fsync may be lost.
Pieces(old, new, D) ==
  {f \in [D -> {old[x] : x \in D} \cup {new[x] : x \in D}] : \A x \in D : f[x] \in {old[x], new[x]}}
Survivors(old, new) ==
  [info : {old.info, new.info}, info2 : {old.info2, new.info2},
   map : Pieces(old.map, new.map, Premap), flog : Pieces(old.flog, new.flog, Lanes)]

\* Power failure while a log pool is written.
CheckCrashLog ==
  /\ ncrash < MaxCrash /\ step = "sync_log"
  /\ \E h, l \in {file, seen} : file' = [file EXCEPT !.hdr = h.hdr, !.log = l.log]
  /\ Rebooted

\* Power failure while a block pool is written; other arenas than the one the
\* tool is at have been synced or not been touched.
CheckCrashBlk ==
  /\ ncrash < MaxCrash /\ step \in {"write_arena", "write_flog", "write_map", "sync_map"}
  /\ LET a == arenas[at].idx
     IN  \E h, b \in {file, seen}, ar \in Survivors(file.arenas[a], seen.arenas[a]) :
           file' = [file EXCEPT !.hdr = h.hdr, !.bsize = b.bsize, !.arenas[a] = ar]
  /\ Rebooted

CheckStep ==
  \/ \E no \in Refusals(Defaults \cup {"sig", "uuid", "crtime", "regenerate", "csum"}) :
       pmempool_check_pool_hdr(no)
  \/ \E no \in Refusals({"start", "end", "write"}) : pmempool_check_pmemlog(no)
  \/ \E no \in Refusals({"bsize"}) : pmempool_check_pmemblk(no)
  \/ \E no \in Refusals({"restore", "layout"}) : BttInfo(no) \/ BttInfoBad(no) \/ AdvancedRepair(no)
  \/ /\ step = "map_flog"
     /\ \E no \in Refusals({"map", "flog"}), w \in SUBSET Wild(arenas[at].flog) : MapFlog(no, w)
  \/ MapFlogDies
  \/ WriteSkipped \/ pmempool_check_write_log \/ SyncLog
  \/ WriteHdr \/ WriteInfos \/ WriteFlog \/ WriteMap \/ SyncMap

CheckNext ==
  \/ Damage \/ CheckStep \/ (\E o \in Options : pmempool_check_func(o))
  \/ CheckCrashLog \/ CheckCrashBlk
CheckSpec == CheckInit /\ [][CheckNext]_chk_vars
-----------------------------------------------------------------------------
(* Properties.                                                             *)

\* The library opens the file, and finds the arenas that are there.
Opens(f) == f.hdr.sig = f.type /\ CsumOk(f.hdr) /\ f.hdr.bad \cap {"major", "incompat"} = {}
Layed(f) == \A a \in DOMAIN f.arenas :
              f.arenas[a].info.st = "ok" /\ f.arenas[a].info.uuid = f.hdr.uuid

\* The free block that read_flog_pair takes from a pair.
LibFree(p) ==
  IF p.a.seq = 0 \/ <<p.a.seq, p.b.seq>> \in {<<1, 2>>, <<2, 3>>, <<3, 1>>} THEN p.b.old ELSE p.a.old
ArenaSound(ar) ==
  check_arena([internal_nlba |-> IntNlba], ar.map, [l \in Lanes |-> LibFree(ar.flog[l])]) = 1

Written(f) == \A a \in DOMAIN f.arenas : f.arenas[a].info.st # "zero"
RepairDone == step = "idle" /\ exit = "ok" /\ opt.repair /\ opt.exec /\ opt.yes

\* What the tool's own steps find nothing to complain about.
FoundConsistent(f) ==
  /\ HdrConsistent(f.hdr)
  /\ f.type = "log" => BadLog(f.log) = {}
  /\ f.type = "blk" =>
       /\ f.bsize # 0
       /\ \A a \in ArenaIdx :
            /\ f.arenas[a].info.st = "ok" /\ f.arenas[a].info2 = f.arenas[a].info
            /\ InvalidMap(f.arenas[a].map) = {}
            /\ InvalidFlog(f.arenas[a].map, f.arenas[a].flog, {}) = {}
            /\ Unmapped(f.arenas[a].map, f.arenas[a].flog) = {}

\* A repair that reports success leaves nothing to repair: a second
\* "check -r" finds the pool consistent, also when a power failure had cut an
\* earlier repair short.  Without a power failure the library then opens the
\* pool and finds every arena in it, or a log whose offsets are in order.
\* (For a pool without layout, and the UUIDs after a power failure, see the
\* README.)
RepairSound ==
  (RepairDone /\ ptype \in {"log", "blk"} /\ Written(orig)) =>
    /\ FoundConsistent(file)
    /\ ncrash = 0 => Opens(file) /\ (ptype = "blk" => Layed(file))

\* There are as many unmapped blocks as invalid entries whatever map and flog
\* hold, unless the current half of a flog pair names a block that does not
\* exist: only then can the tool give up on an arena.  And after a repair that
\* reports success every arena has each of its blocks exactly once in its map
\* and its flog, as the library reads them: also when a power failure cut an
\* earlier repair short, between any two writes or within one.
MapRepaired ==
  /\ step = "map_flog" =>
       LET ar == arenas[at]
       IN  Wild(ar.flog) = {} =>
             Cardinality(Unmapped(ar.map, ar.flog))
               = Cardinality(InvalidMap(ar.map)) + Cardinality(InvalidFlog(ar.map, ar.flog, {}))
  /\ (RepairDone /\ ptype = "blk" /\ Written(orig)) =>
       \A a \in ArenaIdx : ArenaSound(file.arenas[a])

\* The block that the library finds through a map entry.
LibPost(m, x) == IF m[x].flag = "initial" THEN x ELSE m[x].post

\* A repair changes no map entry that is in range and shares its block with
\* no other entry, so the data of such blocks stay where they were.
RepairKeepsData ==
  (RepairDone /\ ptype = "blk" /\ Written(orig)) =>
    \A a \in ArenaIdx, x \in Premap :
      LET m == orig.arenas[a].map
      IN  (LibPost(m, x) < IntNlba /\ \A y \in Premap \ {x} : LibPost(m, y) # LibPost(m, x))
            => file.arenas[a].map[x] = m[x]
=============================================================================
