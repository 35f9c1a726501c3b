----------------------------- MODULE BttLayout -----------------------------
(***************************************************************************)
(* The layout arithmetic of src/libpmemblk/btt.c as operators: how         *)
(* write_layout divides a namespace into arenas and an arena into info     *)
(* block, data area, map, flog and backup info block, how a block number   *)
(* is turned into an arena and a byte offset, and the check of an arena    *)
(* that btt_check performs.  Sizes are in bytes of the caller's scale; the *)
(* format's constants are parameters so that TLC can use small ones.       *)
(***************************************************************************)
EXTENDS Integers, Sequences, FiniteSets

CONSTANTS
  BTT_MIN_SIZE, BTT_MAX_ARENA, BTT_ALIGNMENT, BTT_MIN_LBA_SIZE,
  BTT_INTERNAL_LBA_ALIGNMENT, BTT_MAP_ENTRY_SIZE,
  InfoSize,        \* sizeof (struct btt_info)
  FlogPairSize,    \* two flog entries, rounded up to BTT_FLOG_PAIR_ALIGN
  OffsetWrap       \* 2^32: block number times block size is a uint32_t product

ASSUME FormatAssumption ==
  /\ {BTT_ALIGNMENT, BTT_MIN_LBA_SIZE, BTT_INTERNAL_LBA_ALIGNMENT,
      BTT_MAP_ENTRY_SIZE, InfoSize, FlogPairSize, OffsetWrap} \subseteq Nat \ {0}
  /\ BTT_MIN_SIZE \in Nat \ {0} /\ BTT_MAX_ARENA \in Nat
  /\ BTT_MIN_SIZE <= BTT_MAX_ARENA

roundup(x, y) == ((x + y - 1) \div y) * y

\* The block size on media: at least the minimum, and aligned.
InternalLbasize(lbasize) ==
  roundup(IF lbasize < BTT_MIN_LBA_SIZE THEN BTT_MIN_LBA_SIZE ELSE lbasize,
          BTT_INTERNAL_LBA_ALIGNMENT)

FlogSize(nfree) == roundup(nfree * FlogPairSize, BTT_ALIGNMENT)

Narena(rawsize) ==
  rawsize \div BTT_MAX_ARENA
    + (IF rawsize % BTT_MAX_ARENA >= BTT_MIN_SIZE THEN 1 ELSE 0)

\* Raw size of the i-th arena that the loop of write_layout meets.
ArenaRawsize(rawsize, i) ==
  LET left == rawsize - (i - 1) * BTT_MAX_ARENA
  IN  IF left > BTT_MAX_ARENA THEN BTT_MAX_ARENA ELSE left

\* Blocks that fit beside two info blocks, the flog and their own map
\* entries; BTT_ALIGNMENT bytes are set aside for the rounding of the map.
InternalNlba(raw, lbasize, nfree) ==
  (raw - 2 * InfoSize - FlogSize(nfree) - BTT_ALIGNMENT)
    \div (InternalLbasize(lbasize) + BTT_MAP_ENTRY_SIZE)

\* write_layout's refusal: an arena too small for its own free blocks.
LayoutPossible(rawsize, lbasize, nfree) ==
  \A i \in 1 .. Narena(rawsize) :
    InternalNlba(ArenaRawsize(rawsize, i), lbasize, nfree) >= 2 * nfree

\* The info block of arena i; its offsets are relative to the arena.
ArenaInfo(rawsize, lbasize, nfree, i) ==
  LET raw      == ArenaRawsize(rawsize, i)
      internal == InternalNlba(raw, lbasize, nfree)
      external == internal - nfree
      mapsize  == roundup(external * BTT_MAP_ENTRY_SIZE, BTT_ALIGNMENT)
      infooff  == raw - InfoSize
      flogoff  == infooff - FlogSize(nfree)
      left     == rawsize - (i - 1) * BTT_MAX_ARENA - raw
  IN  [external_lbasize |-> lbasize, internal_lbasize |-> InternalLbasize(lbasize),
       external_nlba |-> external, internal_nlba |-> internal, nfree |-> nfree,
       nextoff |-> IF left >= BTT_MIN_SIZE THEN raw ELSE 0,
       dataoff |-> InfoSize, mapoff |-> flogoff - mapsize, flogoff |-> flogoff,
       infooff |-> infooff, mapsize |-> mapsize]

ArenaOff(i) == (i - 1) * BTT_MAX_ARENA

Layout(rawsize, lbasize, nfree) ==
  [i \in 1 .. Narena(rawsize) |-> ArenaInfo(rawsize, lbasize, nfree, i)]

SumNlba(infos) ==
  LET sum[i \in 0 .. Len(infos)] == IF i = 0 THEN 0 ELSE sum[i - 1] + infos[i].external_nlba
  IN  sum[Len(infos)]

\* lba_to_arena_lba: the arena that holds lba and the LBA within it.
lba_to_arena_lba(infos, lba) ==
  LET before(i) == SumNlba(SubSeq(infos, 1, i - 1))
      a == CHOOSE i \in 1 .. Len(infos) :
             before(i) <= lba /\ lba < before(i) + infos[i].external_nlba
  IN  <<a, lba - before(a)>>

\* Offset of a block in the data area, as the 32 bit product gives it.
DataBlockOff(info, post) == (post * info.internal_lbasize) % OffsetWrap

-----------------------------------------------------------------------------
(* check_arena: every block of the arena is in the map or free, once.      *)

\* map is the arena's map, free its lanes' free blocks.  -1 on an entry out
\* of range, otherwise whether each block is referenced exactly once.
check_arena(info, map, free) ==
  LET post(x)   == IF map[x].flag = "initial" THEN x ELSE map[x].post
      inMap(b)  == {x \in DOMAIN map : post(x) = b}
      inFlog(b) == {l \in DOMAIN free : free[l] = b}
  IN  IF \E x \in DOMAIN map : post(x) >= info.internal_nlba THEN -1
      ELSE IF \A b \in 0 .. info.internal_nlba - 1 :
                Cardinality(inMap(b)) + Cardinality(inFlog(b)) = 1 THEN 1 ELSE 0

-----------------------------------------------------------------------------
(* What the division of a namespace promises.                              *)

\* The areas of an arena follow one another without overlap, the data area
\* holds every block, the map every entry and the flog every pair; arenas lie
\* behind one another within the namespace, and only the last has no nextoff.
LayoutSound(rawsize, lbasize, nfree) ==
  LET infos == Layout(rawsize, lbasize, nfree)
  IN  (rawsize >= BTT_MIN_SIZE /\ LayoutPossible(rawsize, lbasize, nfree)) =>
        /\ \A i \in DOMAIN infos :
             LET n == infos[i]
             IN  /\ n.dataoff + n.internal_nlba * n.internal_lbasize <= n.mapoff
                 /\ n.mapoff + n.external_nlba * BTT_MAP_ENTRY_SIZE <= n.flogoff
                 /\ n.flogoff + nfree * FlogPairSize <= n.infooff
                 /\ ArenaOff(i) + n.infooff + InfoSize <= rawsize
                 /\ n.nextoff = IF i = Len(infos) THEN 0 ELSE BTT_MAX_ARENA
=============================================================================
