------------------------------- MODULE JeBins -------------------------------
(***************************************************************************)
(* What jemalloc's small allocations rest on: arena_boot computes where    *)
(* the pages of a chunk begin, bin_info_init lays out the run of every     *)
(* small size class, arena_run_regind turns a pointer back into the index  *)
(* of its region without dividing, and bitmap.c keeps the free regions of  *)
(* a run in a tree of bit groups.                                          *)
(*                                                                         *)
(* boot goes through the size classes one by one, with redzones or         *)
(* without.  bmp is one bitmap under any sequence of bitmap_set,           *)
(* bitmap_sfu and bitmap_unset; a group is the set of its 1 bits, which    *)
(* stand for regions that are free.                                        *)
(***************************************************************************)
EXTENDS Integers, Sequences, FiniteSets, FiniteSetsExt

CONSTANTS PAGE, LG_RUN_MAXREGS, RUN_BFP, RUN_MAX_OVRHD, RUN_MAX_OVRHD_RELAX,
          REDZONE_MINSIZE,
          SizeofLong,      \* bytes of a bitmap group
          SizeofRun,       \* sizeof(arena_run_t)
          MapOffset,       \* offsetof(arena_chunk_t, map)
          SizeofMapelm,    \* sizeof(arena_chunk_map_t)
          UnsignedBits,    \* bits of an unsigned
          ChunkPages,      \* chunk sizes to try, in pages
          SIZE_CLASSES,    \* sizes of the small size classes
          GroupBits,       \* bits of a group of bmp
          Nbits,           \* sizes of bmp
          MaxLevels        \* BITMAP_MAX_LEVELS

ASSUME BinsAssumption ==
    /\ PAGE \in Nat \ {0} /\ SizeofLong \in Nat \ {0} /\ GroupBits \in Nat \ {0, 1}
    /\ \A i \in DOMAIN SIZE_CLASSES : SIZE_CLASSES[i] \in 1 .. (PAGE - 1)

VARIABLES boot, bmp

bins_vars == <<boot, bmp>>

RUN_MAXREGS == 2 ^ LG_RUN_MAXREGS
CeilDiv(x, d) == (x \div d) + (IF x % d = 0 THEN 0 ELSE 1)

-----------------------------------------------------------------------------
(* bitmap.c.  Levels are numbered from 0 at the bottom; off[i] is the      *)
(* index of the first group of level i.                                    *)

bits2groups(n, g) == CeilDiv(n, g)

bitmap_info(n, g) ==
    LET count[i \in 0 .. MaxLevels] ==
            IF i = 0 THEN bits2groups(n, g) ELSE bits2groups(count[i - 1], g)
        off[i \in 0 .. MaxLevels] == IF i = 0 THEN 0 ELSE off[i - 1] + count[i - 1]
        top == CHOOSE i \in 0 .. MaxLevels : count[i] <= 1 /\ \A j \in 0 .. (i - 1) : count[j] > 1
    IN  [nbits |-> n, g |-> g, nlevels |-> top + 1, off |-> [i \in 0 .. (top + 1) |-> off[i]]]

bitmap_size(n) ==
    LET b == bitmap_info(n, 8 * SizeofLong) IN b.off[b.nlevels] * SizeofLong

\* Mutant: the unused bits of the upper levels stay 1.
bitmap_init_NoExtra(b) ==
    [i \in 0 .. (b.off[b.nlevels] - 1) |->
        IF i = b.off[1] - 1 THEN 0 .. ((b.nbits - 1) % b.g) ELSE 0 .. (b.g - 1)]

\* All bits are 1 but the unused ones of the last group of every level.
bitmap_init(b) ==
    LET used(i) == IF i = 0 THEN b.nbits ELSE b.off[i] - b.off[i - 1]
    IN  [i \in 0 .. (b.off[b.nlevels] - 1) |->
            IF \E l \in 0 .. (b.nlevels - 1) : i = b.off[l + 1] - 1
            THEN LET l == CHOOSE x \in 0 .. (b.nlevels - 1) : i = b.off[x + 1] - 1
                 IN  0 .. ((used(l) - 1) % b.g)
            ELSE 0 .. (b.g - 1)]

\* Where bit is represented at level l: the group and the position in it.
Group(b, bit, l) == b.off[l] + bit \div (b.g ^ (l + 1))
Position(b, bit, l) == (bit \div (b.g ^ l)) % b.g

bitmap_full(b, m) == m[b.off[b.nlevels] - 1] = {}
bitmap_get(b, m, bit) == bit % b.g \notin m[bit \div b.g]

Xor(S, x) == IF x \in S THEN S \ {x} ELSE S \cup {x}

\* Flips bit at level 0, and at level l if every level below is in up, the
\* levels that pass the change on.
Flip(b, m, bit, up) ==
    [i \in DOMAIN m |->
        IF \E l \in 0 .. (b.nlevels - 1) :
              i = Group(b, bit, l) /\ 0 .. (l - 1) \subseteq up
        THEN LET l == CHOOSE x \in 0 .. (b.nlevels - 1) : b.off[x] <= i /\ i < b.off[x + 1]
             IN  Xor(m[i], Position(b, bit, l))
        ELSE m[i]]

\* A group that became empty tells the level above, and so on.
bitmap_set(b, m, bit) ==
    Flip(b, m, bit, {l \in 0 .. (b.nlevels - 1) :
                        Xor(m[Group(b, bit, l)], Position(b, bit, l)) = {}})

\* A group that was empty tells the level above.
bitmap_unset(b, m, bit) ==
    Flip(b, m, bit, {l \in 0 .. (b.nlevels - 1) : m[Group(b, bit, l)] = {}})

\* bitmap_sfu goes down from the root, to the first 1 bit of every group.
FirstUnset(b, m) ==
    LET at[l \in 0 .. b.nlevels] ==
            IF l = b.nlevels THEN 0 ELSE at[l + 1] * b.g + Min(m[b.off[l] + at[l + 1]])
    IN  at[0]

-----------------------------------------------------------------------------
(* arena_boot and bin_info_init.                                           *)

\* Three rounds of refinement of the number of header pages.
MapBias(pages) ==
    LET bias[i \in 0 .. 3] ==
            IF i = 0 THEN 0
            ELSE CeilDiv(MapOffset + SizeofMapelm * (pages - bias[i - 1]), PAGE)
    IN  bias[3]

arena_maxclass(pages) == (pages - MapBias(pages)) * PAGE

\* Regions with their redzones are shorter than 2 ^ (LG_RUN_MAXREGS + 2) bytes.
LargestPower(x) == Max({k \in {2 ^ i : i \in 0 .. LG_RUN_MAXREGS + 1} : x % k = 0})

\* The redzone on each side of a region and the padding at the end of a run.
Redzone(size, on) ==
    IF ~on THEN [zone |-> 0, pad |-> 0]
    ELSE IF LargestPower(size) <= REDZONE_MINSIZE THEN [zone |-> REDZONE_MINSIZE, pad |-> 0]
    ELSE [zone |-> LargestPower(size) \div 2, pad |-> LargestPower(size) \div 2]

HdrSize(n) == CeilDiv(SizeofRun, SizeofLong) * SizeofLong + bitmap_size(n)

\* The inner loop: one region less until header and regions do not overlap.
\* The offset is unsigned, so one below zero passes the test.
FitRegs(run, start, interval, pad) ==
    LET offset(n) == run - n * interval - pad
        fits(n) == offset(n) < 0 \/ HdrSize(n) <= offset(n)
        less == CHOOSE x \in 0 .. start : fits(start - x) /\ \A y \in 0 .. (x - 1) : ~fits(start - y)
    IN  [run |-> run, nregs |-> start - less, offset |-> offset(start - less)]

Try(run, interval, pad, first) ==
    FitRegs(run, Min({(run - SizeofRun - (IF first THEN 0 ELSE pad)) \div interval, RUN_MAXREGS}),
            interval, pad)

\* The run grows page by page while more than the wanted overhead is lost; the
\* last try before the loop ends is not used.
GoesOn(t, interval, max) ==
    /\ t.run <= max
    /\ RUN_MAX_OVRHD * (interval * 8) > RUN_MAX_OVRHD_RELAX
    /\ t.offset * (2 ^ RUN_BFP) > RUN_MAX_OVRHD * t.run
    /\ t.nregs < RUN_MAXREGS

bin_info_run_size_calc(size, min, on, max) ==
    LET z == Redzone(size, on)
        interval == size + 2 * z.zone
        try(k) == Try(min + k * PAGE, interval, z.pad, k = 0)
        grown == CHOOSE k \in 0 .. (max \div PAGE) :
                     ~GoesOn(try(k + 1), interval, max) /\ \A j \in 1 .. k : GoesOn(try(j), interval, max)
        good == try(grown)
    IN  [size |-> size, zone |-> z.zone, pad |-> z.pad, interval |-> interval,
         run |-> good.run, nregs |-> good.nregs, reg0 |-> good.offset + z.zone]

\* One size class of bin_info_init; the next one starts at this run size.
bin_info_init ==
    /\ Len(boot.bins) < Len(SIZE_CLASSES)
    /\ LET n == Len(boot.bins)
           min == IF n = 0 THEN PAGE ELSE boot.bins[n].run
       IN  boot' = [boot EXCEPT !.bins = Append(@, bin_info_run_size_calc(
                        SIZE_CLASSES[n + 1], min, boot.redzone, arena_maxclass(boot.pages)))]
    /\ UNCHANGED bmp

\* arena_run_regind: a division by a small odd number is a multiplication by
\* its rounded-up inverse and a shift.
SIZE_INV_SHIFT == UnsignedBits - LG_RUN_MAXREGS

\* Mutant: the inverse is rounded down.
SIZE_INV_Down(s) == (2 ^ SIZE_INV_SHIFT) \div s

SIZE_INV(s) == ((2 ^ SIZE_INV_SHIFT) \div s) + 1

arena_run_regind(info, off) ==
    LET k == LargestPower(info.interval)
        diff == (off - info.reg0) \div k
        interval == info.interval \div k
    IN  IF interval = 1 THEN diff
        ELSE IF interval <= 31 THEN (diff * SIZE_INV(interval)) \div (2 ^ SIZE_INV_SHIFT)
        ELSE diff \div interval

-----------------------------------------------------------------------------
NoBitmap == [info |-> [nbits |-> 0], map |-> <<>>, taken |-> {}]
Booted == Len(boot.bins) = Len(SIZE_CLASSES)

BinsInit ==
    /\ \E p \in ChunkPages, on \in BOOLEAN : boot = [pages |-> p, redzone |-> on, bins |-> <<>>]
    /\ bmp = NoBitmap

\* The bitmap of a new run with n regions.
RunNew(n) ==
    LET b == bitmap_info(n, GroupBits)
    IN  /\ Booted /\ bmp = NoBitmap
        /\ bmp' = [info |-> b, map |-> bitmap_init(b), taken |-> {}]
        /\ UNCHANGED boot

\* arena_run_reg_alloc takes the first free region, arena_run_reg_dalloc gives
\* back any; bitmap_set marks a region of the caller's choice.
BitTake ==
    /\ bmp # NoBitmap /\ ~bitmap_full(bmp.info, bmp.map)
    /\ LET bit == FirstUnset(bmp.info, bmp.map)
       IN  bmp' = [bmp EXCEPT !.map = bitmap_set(bmp.info, @, bit), !.taken = @ \cup {bit}]
    /\ UNCHANGED boot

BitSet(bit) ==
    /\ ~bitmap_get(bmp.info, bmp.map, bit)
    /\ bmp' = [bmp EXCEPT !.map = bitmap_set(bmp.info, @, bit), !.taken = @ \cup {bit}]
    /\ UNCHANGED boot

BitGive(bit) ==
    /\ bmp' = [bmp EXCEPT !.map = bitmap_unset(bmp.info, @, bit), !.taken = @ \ {bit}]
    /\ UNCHANGED boot

BinsNext ==
    \/ bin_info_init
    \/ \E n \in Nbits : RunNew(n)
    \/ BitTake
    \/ \E bit \in 0 .. (bmp.info.nbits - 1) : BitSet(bit)
    \/ \E bit \in bmp.taken : BitGive(bit)

BinsSpec == BinsInit /\ [][BinsNext]_bins_vars

-----------------------------------------------------------------------------
(* Properties.                                                             *)

\* The tree of groups stays in step with the set of regions that are taken,
\* through any sequence of calls: every bit reads back, bitmap_full is exact,
\* and bitmap_sfu (bitmap.h) finds the lowest free region and no other.
BitmapSound ==
    LET all == 0 .. (bmp.info.nbits - 1)
    IN  bmp # NoBitmap =>
        /\ \A bit \in all : bitmap_get(bmp.info, bmp.map, bit) <=> bit \in bmp.taken
        /\ bitmap_full(bmp.info, bmp.map) <=> bmp.taken = all
        /\ bmp.taken # all => FirstUnset(bmp.info, bmp.map) = Min(all \ bmp.taken)

\* The run of a size class is laid out soundly: the header with its bitmap
\* ends before the first redzone, the regions end with the run, every region
\* keeps the alignment of its size (on which sa2u depends), the run fits into
\* a chunk behind a header that covers the page map (arena_boot), and
\* arena_run_regind is exact on every region.
RunSound(info) ==
    /\ info.nregs \in 1 .. RUN_MAXREGS
    /\ info.run % PAGE = 0 /\ info.run <= arena_maxclass(boot.pages)
    /\ HdrSize(info.nregs) <= info.reg0 - info.zone
    /\ info.reg0 - info.zone + info.nregs * info.interval + info.pad = info.run
    /\ LET align == LargestPower(info.size)
       IN  \A r \in 0 .. (info.nregs - 1) :
              LET off == info.reg0 + r * info.interval
              IN  off % align = 0 /\ arena_run_regind(info, off) = r

BinsSound ==
    /\ MapOffset + SizeofMapelm * (boot.pages - MapBias(boot.pages)) <= MapBias(boot.pages) * PAGE
    /\ boot.bins # <<>> => RunSound(boot.bins[Len(boot.bins)])

=============================================================================
