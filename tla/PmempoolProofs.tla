--------------------------- MODULE PmempoolProofs ---------------------------
(***************************************************************************)
(* Proofs about the pmempool tool.  PmempoolCheck: for any number of       *)
(* arenas, blocks and lanes, any damage to the file and any number of      *)
(* power failures.  PmempoolCmds: create, for any command line, any files  *)
(* and any sizes of the format.                                            *)
(***************************************************************************)
EXTENDS PmempoolCheck, PmempoolCmds, FiniteSetTheorems, TLAPS

-----------------------------------------------------------------------------
(* Sets of numbers.                                                        *)

LEMMA HasLeast ==
  ASSUME NEW S \in SUBSET Nat, S # {}
  PROVE  \E x \in S : \A y \in S : x <= y
  <1>1. PICK x \in S : \A y \in S : ~ (<<y, x>> \in OpToRel(<, Nat))
    BY NatLessThanWellFounded, WFMin
  <1>2. \A y \in S : ~ (y < x)
    BY <1>1 DEF OpToRel
  <1> QED BY <1>2

LEMMA MinOfNat ==
  ASSUME NEW S \in SUBSET Nat, S # {}
  PROVE  Min(S) \in S /\ \A y \in S : Min(S) <= y
  BY HasLeast DEF Min

\* The images of an injective function have as many elements as its arguments.
LEMMA ImageSize ==
  ASSUME NEW S, IsFiniteSet(S), NEW f, \A x \in S, y \in S : f[x] = f[y] => x = y
  PROVE  IsFiniteSet({f[x] : x \in S}) /\ Cardinality({f[x] : x \in S}) = Cardinality(S)
  <1> DEFINE T == {f[x] : x \in S}
             g == [x \in S |-> f[x]]
  <1>1. g \in Bijection(S, T)
    BY DEF Bijection, Injection, Surjection, IsInjective
  <1>2. ExistsBijection(S, T)
    BY <1>1 DEF ExistsBijection
  <1> QED BY <1>2, FS_Bijection

\* The order in which a stack is popped numbers its elements from 1.
LEMMA PositionsOrder ==
  ASSUME NEW S \in SUBSET Nat, IsFiniteSet(S)
  PROVE  /\ Cardinality(S) \in Nat
         /\ \A e \in S : PositionIn(S, e) \in 1 .. Cardinality(S)
         /\ \A e \in S, d \in S : PositionIn(S, e) = PositionIn(S, d) => e = d
         /\ \A k \in 1 .. Cardinality(S) : \E e \in S : PositionIn(S, e) = k
  <1> DEFINE above(e) == {f \in S : f > e}
             n == Cardinality(S)
  <1>1. n \in Nat
    BY FS_CardinalityType
  <1>2. \A e : IsFiniteSet(above(e)) /\ Cardinality(above(e)) \in Nat
    BY FS_Subset, FS_CardinalityType
  <1>3. \A e \in S : PositionIn(S, e) \in 1 .. n
    <2> TAKE e \in S
    <2>1. IsFiniteSet(S \ {e}) /\ Cardinality(S \ {e}) = n - 1
      BY FS_RemoveElement
    <2>2. above(e) \in SUBSET (S \ {e})
      OBVIOUS
    <2>3. Cardinality(above(e)) <= Cardinality(S \ {e})
      BY <2>1, <2>2, FS_Subset
    <2> HIDE DEF above, n
    <2>4. Cardinality(above(e)) + 1 \in 1 .. n
      BY <1>1, <1>2, <2>1, <2>3
    <2> QED BY <2>4 DEF PositionIn, above
  <1>4. \A e \in S, d \in S : e < d => PositionIn(S, e) # PositionIn(S, d)
    <2> SUFFICES ASSUME NEW e \in S, NEW d \in S, e < d
                 PROVE  PositionIn(S, e) # PositionIn(S, d)
      OBVIOUS
    <2>1. above(d) \in SUBSET above(e) /\ d \in above(e) /\ d \notin above(d)
      <3>1. \A f \in S : f \in Nat /\ (f > d => f > e)
        OBVIOUS
      <3>2. d > e /\ ~ (d > d)
        OBVIOUS
      <3> QED BY <3>1, <3>2
    <2>2. Cardinality(above(d)) # Cardinality(above(e))
      BY <1>2, <2>1, FS_Subset
    <2> HIDE DEF above
    <2>3. Cardinality(above(d)) + 1 # Cardinality(above(e)) + 1
      BY <1>2, <2>2
    <2> QED BY <2>3 DEF PositionIn, above
  <1>5. \A e \in S, d \in S : PositionIn(S, e) = PositionIn(S, d) => e = d
    BY <1>4
  <1>6. \A k \in 1 .. n : \E e \in S : PositionIn(S, e) = k
    <2> DEFINE f == [e \in S |-> PositionIn(S, e)]
    <2>1. f \in Injection(S, 1 .. n)
      BY <1>3, <1>5 DEF Injection, IsInjective
    <2>2. IsFiniteSet(1 .. n) /\ Cardinality(1 .. n) = n
      BY <1>1, FS_Interval
    <2>3. f \in Surjection(S, 1 .. n)
      BY <2>1, <2>2, FS_Injection
    <2> QED BY <2>3 DEF Surjection
  <1> QED BY <1>1, <1>3, <1>5, <1>6

LEMMA PoppedOnce ==
  ASSUME NEW S \in SUBSET Nat, IsFiniteSet(S)
  PROVE  /\ \A k \in 1 .. Cardinality(S) : Popped(S, k) \in S
         /\ \A k, j \in 1 .. Cardinality(S) : Popped(S, k) = Popped(S, j) => k = j
  <1>1. \A k \in 1 .. Cardinality(S) : Popped(S, k) \in S /\ PositionIn(S, Popped(S, k)) = k
    BY PositionsOrder DEF Popped
  <1> QED BY <1>1

-----------------------------------------------------------------------------
(* Map and flog of an arena.                                               *)

MapTyped(m) == \A x \in Premap : MapPost(m, x) \in Nat
FlogTyped(g) == \A l \in Lanes : CurrentFlog(g[l]) \in Nat \cup {NoBlock}

\* The flog pairs that name no block of their own.  The tool finds all of them
\* invalid but those whose wild block it takes for a free one.
Unusable(m, g) ==
  {l \in Lanes : LET b == CurrentFlog(g[l])
                 IN  \/ b \notin 0 .. IntNlba - 1
                     \/ \E x \in Premap : MapPost(m, x) = b
                     \/ \E k \in 0 .. l - 1 : CurrentFlog(g[k]) = b}

\* Every block in the map or the flog of an arena is there because of an entry
\* that the tool takes for valid, and no two valid entries have the same block.
LEMMA ValidEntries ==
  ASSUME NEW m, NEW g, MapTyped(m), FlogTyped(g)
  PROVE  /\ {MapPost(m, x) : x \in Premap \ InvalidMap(m)}
              = {MapPost(m, x) : x \in Premap} \cap (0 .. IntNlba - 1)
         /\ \A x, y \in Premap \ InvalidMap(m) : MapPost(m, x) = MapPost(m, y) => x = y
         /\ {CurrentFlog(g[l]) : l \in Lanes \ Unusable(m, g)}
              = ({CurrentFlog(g[l]) : l \in Lanes} \cap (0 .. IntNlba - 1)) \ {MapPost(m, x) : x \in Premap}
         /\ \A k, l \in Lanes \ Unusable(m, g) : CurrentFlog(g[k]) = CurrentFlog(g[l]) => k = l
  <1> USE DEF MapTyped, FlogTyped
  <1>0. IntNlba \in Nat /\ ExtNlba \in Nat /\ NFree \in Nat /\ IntNlba = ExtNlba + NFree
    BY CheckAssumption DEF IntNlba
  <1>1. \A b \in 0 .. IntNlba - 1 : (\E x \in Premap : MapPost(m, x) = b)
           => \E x \in Premap \ InvalidMap(m) : MapPost(m, x) = b
    <2> SUFFICES ASSUME NEW b \in 0 .. IntNlba - 1, NEW z \in Premap, MapPost(m, z) = b
                 PROVE  \E x \in Premap \ InvalidMap(m) : MapPost(m, x) = b
      OBVIOUS
    <2> DEFINE S == {y \in Premap : MapPost(m, y) = b}
    <2>1. S \in SUBSET Nat /\ S # {}
      BY <1>0 DEF Premap
    <2>2. PICK x \in S : \A y \in S : x <= y
      BY <2>1, HasLeast
    <2>3. ~ (b >= IntNlba)
      BY <1>0
    <2>4. \A y \in 0 .. x - 1 : y \in Premap /\ ~ (x <= y)
      BY <1>0, <2>2 DEF Premap
    <2>5. x \notin InvalidMap(m)
      BY <2>2, <2>3, <2>4 DEF InvalidMap
    <2> QED BY <2>2, <2>5
  <1>2. \A x \in Premap \ InvalidMap(m) : MapPost(m, x) \in 0 .. IntNlba - 1
    BY <1>0 DEF InvalidMap
  <1>3. \A x, y \in Premap \ InvalidMap(m) : MapPost(m, x) = MapPost(m, y) => x = y
    <2> SUFFICES ASSUME NEW x \in Premap \ InvalidMap(m), NEW y \in Premap \ InvalidMap(m),
                        MapPost(m, x) = MapPost(m, y), x # y
                 PROVE  FALSE
      OBVIOUS
    <2>1. x \in 0 .. y - 1 \/ y \in 0 .. x - 1
      BY <1>0 DEF Premap
    <2> QED BY <2>1 DEF InvalidMap
  <1>4. \A b \in 0 .. IntNlba - 1 :
           (\E l \in Lanes : CurrentFlog(g[l]) = b) /\ ~ (\E x \in Premap : MapPost(m, x) = b)
           => \E l \in Lanes \ Unusable(m, g) : CurrentFlog(g[l]) = b
    <2> SUFFICES ASSUME NEW b \in 0 .. IntNlba - 1, NEW z \in Lanes, CurrentFlog(g[z]) = b,
                        ~ (\E x \in Premap : MapPost(m, x) = b)
                 PROVE  \E l \in Lanes \ Unusable(m, g) : CurrentFlog(g[l]) = b
      OBVIOUS
    <2> DEFINE S == {y \in Lanes : CurrentFlog(g[y]) = b}
    <2>1. S \in SUBSET Nat /\ S # {}
      BY <1>0 DEF Lanes
    <2>2. PICK l \in S : \A y \in S : l <= y
      BY <2>1, HasLeast
    <2>3. b \in 0 .. IntNlba - 1
      OBVIOUS
    <2>4. \A y \in 0 .. l - 1 : y \in Lanes /\ ~ (l <= y)
      BY <1>0, <2>2 DEF Lanes
    <2>5. l \notin Unusable(m, g)
      BY <2>2, <2>3, <2>4 DEF Unusable
    <2> QED BY <2>2, <2>5
  <1>5. \A l \in Lanes \ Unusable(m, g) :
           CurrentFlog(g[l]) \in 0 .. IntNlba - 1 /\ ~ (\E x \in Premap : MapPost(m, x) = CurrentFlog(g[l]))
    BY <1>0 DEF Unusable
  <1>6. \A k, l \in Lanes \ Unusable(m, g) : CurrentFlog(g[k]) = CurrentFlog(g[l]) => k = l
    <2> SUFFICES ASSUME NEW x \in Lanes \ Unusable(m, g), NEW y \in Lanes \ Unusable(m, g),
                        CurrentFlog(g[x]) = CurrentFlog(g[y]), x # y
                 PROVE  FALSE
      OBVIOUS
    <2>1. x \in 0 .. y - 1 \/ y \in 0 .. x - 1
      BY <1>0 DEF Lanes
    <2> QED BY <2>1 DEF Unusable
  <1>7. {MapPost(m, x) : x \in Premap \ InvalidMap(m)} = {MapPost(m, x) : x \in Premap} \cap (0 .. IntNlba - 1)
    BY <1>1, <1>2
  <1>8. {CurrentFlog(g[l]) : l \in Lanes \ Unusable(m, g)}
          = ({CurrentFlog(g[l]) : l \in Lanes} \cap (0 .. IntNlba - 1)) \ {MapPost(m, x) : x \in Premap}
    BY <1>4, <1>5
  <1> QED BY <1>3, <1>6, <1>7, <1>8

LEMMA Counts ==
  /\ ExtNlba \in Nat \ {0} /\ NFree \in Nat \ {0} /\ IntNlba \in Nat /\ IntNlba = ExtNlba + NFree
  /\ IsFiniteSet(Premap) /\ Cardinality(Premap) = ExtNlba /\ Premap \subseteq Nat
  /\ IsFiniteSet(Lanes) /\ Cardinality(Lanes) = NFree /\ Lanes \subseteq Nat
  /\ IsFiniteSet(0 .. IntNlba - 1) /\ Cardinality(0 .. IntNlba - 1) = IntNlba
  <1>1. ExtNlba \in Nat \ {0} /\ NFree \in Nat \ {0}
    BY CheckAssumption
  <1>2. \A n \in Nat \ {0} : IsFiniteSet(0 .. n - 1) /\ Cardinality(0 .. n - 1) = n /\ 0 .. n - 1 \subseteq Nat
    <2> TAKE n \in Nat \ {0}
    <2>1. IsFiniteSet(0 .. n - 1) /\ Cardinality(0 .. n - 1) = IF 0 > n - 1 THEN 0 ELSE n - 1 - 0 + 1
      BY FS_Interval
    <2> QED BY <2>1
  <1> QED BY <1>1, <1>2 DEF IntNlba, Premap, Lanes

\* There are as many unmapped blocks as invalid entries.
LEMMA AsManyAsInvalid ==
  ASSUME NEW m, NEW g, MapTyped(m), FlogTyped(g)
  PROVE  /\ IsFiniteSet(Unmapped(m, g)) /\ IsFiniteSet(InvalidMap(m)) /\ IsFiniteSet(Unusable(m, g))
         /\ Cardinality(Unmapped(m, g)) = Cardinality(InvalidMap(m)) + Cardinality(Unusable(m, g))
  <1> DEFINE all == 0 .. IntNlba - 1
             vm == Premap \ InvalidMap(m)
             vf == Lanes \ Unusable(m, g)
             A  == {MapPost(m, x) : x \in vm}
             B  == {CurrentFlog(g[l]) : l \in vf}
  <1>1. InvalidMap(m) \in SUBSET Premap /\ Unusable(m, g) \in SUBSET Lanes
    BY DEF InvalidMap, Unusable
  <1>2. /\ IsFiniteSet(InvalidMap(m)) /\ IsFiniteSet(vm)
        /\ Cardinality(vm) = ExtNlba - Cardinality(InvalidMap(m))
    <2>1. Premap \cap InvalidMap(m) = InvalidMap(m)
      BY <1>1
    <2>2. IsFiniteSet(InvalidMap(m))
      BY <1>1, Counts, FS_Subset
    <2>3. IsFiniteSet(Premap \ InvalidMap(m)) /\ Cardinality(Premap \ InvalidMap(m)) = Cardinality(Premap) - Cardinality(Premap \cap InvalidMap(m))
      BY Counts, FS_Difference
    <2> QED BY <2>1, <2>2, <2>3, Counts
  <1>3. /\ IsFiniteSet(Unusable(m, g)) /\ IsFiniteSet(vf)
        /\ Cardinality(vf) = NFree - Cardinality(Unusable(m, g))
    <2>1. Lanes \cap Unusable(m, g) = Unusable(m, g)
      BY <1>1
    <2>2. IsFiniteSet(Unusable(m, g))
      BY <1>1, Counts, FS_Subset
    <2>3. IsFiniteSet(Lanes \ Unusable(m, g)) /\ Cardinality(Lanes \ Unusable(m, g)) = Cardinality(Lanes) - Cardinality(Lanes \cap Unusable(m, g))
      BY Counts, FS_Difference
    <2> QED BY <2>1, <2>2, <2>3, Counts
  <1>4. IsFiniteSet(A) /\ Cardinality(A) = Cardinality(vm)
    <2> DEFINE f == [x \in Premap |-> MapPost(m, x)]
    <2>1. \A x \in vm, y \in vm : f[x] = f[y] => x = y
      BY ValidEntries
    <2>2. A = {f[x] : x \in vm}
      OBVIOUS
    <2> HIDE DEF f, vm, A
    <2> QED BY <1>2, <2>1, <2>2, ImageSize
  <1>5. IsFiniteSet(B) /\ Cardinality(B) = Cardinality(vf)
    <2> DEFINE f == [l \in Lanes |-> CurrentFlog(g[l])]
    <2>1. \A x \in vf, y \in vf : f[x] = f[y] => x = y
      BY ValidEntries
    <2>2. B = {f[x] : x \in vf}
      OBVIOUS
    <2> HIDE DEF f, vf, B
    <2> QED BY <1>3, <2>1, <2>2, ImageSize
  <1>6. A \subseteq all /\ B \subseteq all /\ A \cap B = {} /\ Unmapped(m, g) = all \ (A \cup B)
    <2>1. A = {MapPost(m, x) : x \in Premap} \cap all
      BY ValidEntries
    <2>2. B = ({CurrentFlog(g[l]) : l \in Lanes} \cap all) \ {MapPost(m, x) : x \in Premap}
      BY ValidEntries
    <2> HIDE DEF A, B, all
    <2> QED BY <2>1, <2>2 DEF Unmapped, all
  <1> HIDE DEF A, B, vm, vf
  <1>7. IsFiniteSet(A \cup B) /\ Cardinality(A \cup B) = Cardinality(A) + Cardinality(B)
    <2>1. Cardinality(A \cap B) = 0
      BY <1>6, FS_EmptySet
    <2>2. Cardinality(A) \in Nat /\ Cardinality(B) \in Nat
      BY <1>4, <1>5, FS_CardinalityType
    <2>3. IsFiniteSet(A \cup B) /\ Cardinality(A \cup B) = Cardinality(A) + Cardinality(B) - Cardinality(A \cap B)
      BY <1>4, <1>5, FS_Union
    <2> QED BY <2>1, <2>2, <2>3
  <1>8. /\ IsFiniteSet(all \ (A \cup B))
        /\ Cardinality(all \ (A \cup B)) = Cardinality(all) - Cardinality(all \cap (A \cup B))
    BY Counts, FS_Difference, ZenonT(60)
  <1>9. all \cap (A \cup B) = A \cup B
    BY <1>6
  <1>10. Cardinality(InvalidMap(m)) \in Nat /\ Cardinality(Unusable(m, g)) \in Nat
    BY <1>2, <1>3, FS_CardinalityType
  <1>11. Cardinality(all \ (A \cup B)) = (ExtNlba + NFree) - ((ExtNlba - Cardinality(InvalidMap(m))) + (NFree - Cardinality(Unusable(m, g))))
    BY <1>2, <1>3, <1>4, <1>5, <1>7, <1>8, <1>9, Counts
  <1>12. Cardinality(all \ (A \cup B)) = Cardinality(InvalidMap(m)) + Cardinality(Unusable(m, g))
    BY <1>10, <1>11, Counts
  <1> QED BY <1>2, <1>3, <1>6, <1>8, <1>12

\* A map and a flog without invalid entry have every block exactly once.
NoInvalid(m, g) == InvalidMap(m) = {} /\ Unusable(m, g) = {}

LEMMA AllBlocksOnce ==
  ASSUME NEW m, NEW g, MapTyped(m), FlogTyped(g), NoInvalid(m, g), NEW b \in 0 .. IntNlba - 1
  PROVE  \/ /\ \E x \in Premap : \A y \in Premap : MapPost(m, y) = b <=> y = x
            /\ ~ \E l \in Lanes : CurrentFlog(g[l]) = b
         \/ /\ \E l \in Lanes : \A k \in Lanes : CurrentFlog(g[k]) = b <=> k = l
            /\ ~ \E x \in Premap : MapPost(m, x) = b
  <1>1. Cardinality(Unmapped(m, g)) = 0
    BY AsManyAsInvalid, FS_EmptySet DEF NoInvalid
  <1>2. Unmapped(m, g) = {}
    BY <1>1, AsManyAsInvalid, FS_EmptySet
  <1>3. (\E x \in Premap : MapPost(m, x) = b) \/ (\E l \in Lanes : CurrentFlog(g[l]) = b)
    BY <1>2 DEF Unmapped
  <1>4. \A x, y \in Premap : MapPost(m, x) = MapPost(m, y) => x = y
    BY ValidEntries DEF NoInvalid
  <1>5. \A k, l \in Lanes : CurrentFlog(g[k]) = CurrentFlog(g[l]) => k = l
    BY ValidEntries DEF NoInvalid
  <1>6. \A l \in Lanes, x \in Premap : CurrentFlog(g[l]) # MapPost(m, x)
    BY DEF NoInvalid, Unusable
  <1> QED BY <1>3, <1>4, <1>5, <1>6

\* The tool finds the unusable pairs, unless it takes a wild block for a free
\* one: then there are more unmapped blocks than invalid entries.
LEMMA FindsUnusable ==
  ASSUME NEW m, NEW g, MapTyped(m), FlogTyped(g), NEW w, w \subseteq Wild(g)
  PROVE  /\ InvalidFlog(m, g, w) \subseteq Unusable(m, g)
         /\ Wild(g) = {} => InvalidFlog(m, g, w) = Unusable(m, g)
         /\ Cardinality(Unmapped(m, g)) = Cardinality(InvalidMap(m)) + Cardinality(InvalidFlog(m, g, w))
              => InvalidFlog(m, g, w) = Unusable(m, g)
  <1>1. IntNlba \in Nat
    BY Counts
  <1>2. \A b \in Wild(g) : b \notin 0 .. IntNlba - 1
    BY <1>1 DEF Wild
  <1>3. NoBlock \notin 0 .. IntNlba - 1
    BY <1>1 DEF NoBlock
  <1>4. InvalidFlog(m, g, w) \subseteq Unusable(m, g)
    BY <1>2, <1>3 DEF InvalidFlog, Unusable
  <1>5. ASSUME Wild(g) = {}
        PROVE  Unusable(m, g) \subseteq InvalidFlog(m, g, w)
    <2> SUFFICES ASSUME NEW l \in Unusable(m, g) PROVE l \in InvalidFlog(m, g, w)
      OBVIOUS
    <2>1. l \in Lanes /\ CurrentFlog(g[l]) \in Nat \cup {NoBlock}
      BY DEF Unusable, FlogTyped
    <2>2. ~ (CurrentFlog(g[l]) >= IntNlba)
      BY <1>5, <2>1 DEF Wild
    <2>3. CurrentFlog(g[l]) = NoBlock \/ (CurrentFlog(g[l]) \in 0 .. IntNlba - 1 /\ CurrentFlog(g[l]) < IntNlba)
      BY <1>1, <2>1, <2>2
    <2> QED BY <2>1, <2>3 DEF InvalidFlog, Unusable
  <1>6. /\ IsFiniteSet(Unusable(m, g)) /\ IsFiniteSet(InvalidMap(m))
        /\ Cardinality(Unmapped(m, g)) = Cardinality(InvalidMap(m)) + Cardinality(Unusable(m, g))
    BY AsManyAsInvalid
  <1>7. IsFiniteSet(InvalidFlog(m, g, w))
    BY <1>4, <1>6, FS_Subset
  <1>8. /\ Cardinality(InvalidMap(m)) \in Nat /\ Cardinality(Unusable(m, g)) \in Nat
        /\ Cardinality(InvalidFlog(m, g, w)) \in Nat
    BY <1>6, <1>7, FS_CardinalityType
  <1>9. ASSUME Cardinality(Unmapped(m, g)) = Cardinality(InvalidMap(m)) + Cardinality(InvalidFlog(m, g, w))
        PROVE  InvalidFlog(m, g, w) = Unusable(m, g)
    <2>1. Cardinality(InvalidFlog(m, g, w)) = Cardinality(Unusable(m, g))
      BY <1>6, <1>8, <1>9
    <2> QED BY <1>4, <1>6, <2>1, FS_Subset
  <1> QED BY <1>4, <1>5, <1>9

\* What the tool itself would find nothing wrong with.
LEMMA NothingFound ==
  ASSUME NEW m, NEW g, MapTyped(m), FlogTyped(g)
  PROVE  NoInvalid(m, g)
           <=> InvalidMap(m) = {} /\ InvalidFlog(m, g, {}) = {} /\ Unmapped(m, g) = {}
  <1>1. /\ IsFiniteSet(Unusable(m, g)) /\ IsFiniteSet(Unmapped(m, g)) /\ IsFiniteSet(InvalidMap(m))
        /\ Cardinality(Unmapped(m, g)) = Cardinality(InvalidMap(m)) + Cardinality(Unusable(m, g))
    BY AsManyAsInvalid
  <1>2. InvalidFlog(m, g, {}) \subseteq Unusable(m, g)
    BY FindsUnusable
  <1>3. ASSUME NoInvalid(m, g)
        PROVE  Unmapped(m, g) = {}
    <2>1. Cardinality(Unmapped(m, g)) = 0
      BY <1>1, <1>3, FS_EmptySet DEF NoInvalid
    <2> QED BY <1>1, <2>1, FS_EmptySet
  <1>4. ASSUME InvalidMap(m) = {}, Unmapped(m, g) = {}
        PROVE  NoInvalid(m, g)
    <2>1. Cardinality(InvalidMap(m)) = 0 /\ Cardinality(Unmapped(m, g)) = 0
      BY <1>4, FS_EmptySet
    <2>2. Cardinality(Unusable(m, g)) \in Nat
      BY <1>1, FS_CardinalityType
    <2>3. Cardinality(Unusable(m, g)) = 0
      BY <1>1, <2>1, <2>2
    <2>4. Unusable(m, g) = {}
      BY <1>1, <2>3, FS_EmptySet
    <2> QED BY <1>4, <2>4 DEF NoInvalid
  <1> QED BY <1>2, <1>3, <1>4 DEF NoInvalid

\* The library takes the same free block from a valid flog pair as the tool.
LEMMA SameFree ==
  ASSUME NEW p, CurrentFlog(p) # NoBlock
  PROVE  LibFree(p) = CurrentFlog(p)
  <1>1. CASE <<p.a.seq, p.b.seq>> \in {<<1, 0>>, <<2, 1>>}
    BY <1>1 DEF LibFree, CurrentFlog
  <1>2. CASE <<p.a.seq, p.b.seq>> \in {<<0, 1>>, <<1, 2>>}
    BY <1>2 DEF LibFree, CurrentFlog
  <1> QED BY <1>1, <1>2 DEF CurrentFlog

LEMMA NoInvalidSound ==
  ASSUME NEW ar, DOMAIN ar.map = Premap, MapTyped(ar.map), FlogTyped(ar.flog), NoInvalid(ar.map, ar.flog)
  PROVE  ArenaSound(ar)
  <1> DEFINE m == ar.map
             g == ar.flog
             free == [l \in Lanes |-> LibFree(g[l])]
             inMap(b)  == {x \in Premap : MapPost(m, x) = b}
             inFlog(b) == {l \in Lanes : free[l] = b}
  <1>0. IntNlba \in Nat
    BY Counts
  <1>1. \A x \in Premap : ~ (MapPost(m, x) >= IntNlba)
    BY DEF NoInvalid, InvalidMap
  <1>2. \A l \in Lanes : CurrentFlog(g[l]) # NoBlock
    BY <1>0 DEF NoInvalid, Unusable, NoBlock
  <1>3. \A l \in Lanes : free[l] = CurrentFlog(g[l])
    BY <1>2, SameFree
  <1>4. \A b \in 0 .. IntNlba - 1 : Cardinality(inMap(b)) + Cardinality(inFlog(b)) = 1
    <2> TAKE b \in 0 .. IntNlba - 1
    <2> HIDE DEF free
    <2>1. CASE \E x : inMap(b) = {x} /\ inFlog(b) = {}
      <3>1. Cardinality(inMap(b)) = 1 /\ Cardinality(inFlog(b)) = 0
        BY <2>1, FS_Singleton, FS_EmptySet
      <3> QED BY <3>1
    <2>2. CASE \E x : inFlog(b) = {x} /\ inMap(b) = {}
      <3>1. Cardinality(inMap(b)) = 0 /\ Cardinality(inFlog(b)) = 1
        BY <2>2, FS_Singleton, FS_EmptySet
      <3> QED BY <3>1
    <2>3. CASE /\ \E x \in Premap : \A y \in Premap : MapPost(m, y) = b <=> y = x
               /\ ~ \E l \in Lanes : CurrentFlog(g[l]) = b
      <3>1. \E x : inMap(b) = {x}
        BY <2>3
      <3>2. inFlog(b) = {}
        BY <1>3, <2>3
      <3> QED BY <2>1, <3>1, <3>2
    <2>4. CASE /\ \E l \in Lanes : \A k \in Lanes : CurrentFlog(g[k]) = b <=> k = l
               /\ ~ \E x \in Premap : MapPost(m, x) = b
      <3>1. \E l : inFlog(b) = {l}
        BY <1>3, <2>4
      <3>2. inMap(b) = {}
        BY <2>4
      <3> QED BY <2>2, <3>1, <3>2
    <2> QED BY <2>3, <2>4, AllBlocksOnce
  <1>5. check_arena([internal_nlba |-> IntNlba], m, free) = 1
    <2>1. DOMAIN free = Lanes /\ DOMAIN m = Premap /\ [internal_nlba |-> IntNlba].internal_nlba = IntNlba
      OBVIOUS
    <2> HIDE DEF free, m
    <2> QED BY <1>1, <1>4, <2>1 DEF check_arena, MapPost
  <1> QED BY <1>5 DEF ArenaSound

\* What a repair makes of an arena: no entry is invalid any more, and the valid
\* ones of the map are as before.
LEMMA RepairedIsValid ==
  ASSUME NEW ar, MapTyped(ar.map), FlogTyped(ar.flog), {"map", "flog"} \subseteq DOMAIN ar,
         NEW w, InvalidFlog(ar.map, ar.flog, w) = Unusable(ar.map, ar.flog),
         NEW r, r = RepairedArena(ar, w)
  PROVE  /\ NoInvalid(r.map, r.flog) /\ MapTyped(r.map) /\ FlogTyped(r.flog)
         /\ DOMAIN r.map = Premap /\ DOMAIN r.flog = Lanes
         /\ \A x \in Premap \ InvalidMap(ar.map) : r.map[x] = ar.map[x]
         /\ \A x \in Premap : r.map[x] = ar.map[x] \/ \E b \in Nat : r.map[x] = [post |-> b, flag |-> "error"]
         /\ \A l \in Lanes : r.flog[l] = ar.flog[l] \/ \E b \in Nat : r.flog[l] = [a |-> Slot(1, b), b |-> Slot(0, 0)]
  <1> DEFINE im == InvalidMap(ar.map)
             ig == Unusable(ar.map, ar.flog)
             un == Unmapped(ar.map, ar.flog)
             forMap(x)  == Popped(un, PositionIn(im, x))
             forFlog(l) == Popped(un, Cardinality(im) + PositionIn(ig, l))
  <1>0. un \subseteq 0 .. IntNlba - 1 /\ un \in SUBSET Nat /\ im \in SUBSET Premap /\ ig \in SUBSET Lanes
    BY Counts DEF Unmapped, InvalidMap, Unusable
  <1>1. /\ IsFiniteSet(un) /\ IsFiniteSet(im) /\ IsFiniteSet(ig)
        /\ Cardinality(un) = Cardinality(im) + Cardinality(ig)
    BY AsManyAsInvalid
  <1>2. im \in SUBSET Nat /\ ig \in SUBSET Nat
    BY <1>0, Counts
  <1>3. /\ r.map = [x \in Premap |-> IF x \in im THEN [post |-> forMap(x), flag |-> "error"] ELSE ar.map[x]]
        /\ r.flog = [l \in Lanes |-> IF l \in ig THEN [a |-> Slot(1, forFlog(l)), b |-> Slot(0, 0)] ELSE ar.flog[l]]
    BY DEF RepairedArena
  <1> HIDE DEF im, ig, un
  <1>4. /\ Cardinality(im) \in Nat /\ \A x \in im : PositionIn(im, x) \in 1 .. Cardinality(im)
        /\ \A x, y \in im : PositionIn(im, x) = PositionIn(im, y) => x = y
    BY <1>1, <1>2, PositionsOrder
  <1>5. /\ Cardinality(ig) \in Nat /\ \A x \in ig : PositionIn(ig, x) \in 1 .. Cardinality(ig)
        /\ \A x, y \in ig : PositionIn(ig, x) = PositionIn(ig, y) => x = y
    BY <1>1, <1>2, PositionsOrder
  <1>6. /\ \A x \in im : PositionIn(im, x) \in 1 .. Cardinality(un)
        /\ \A l \in ig : Cardinality(im) + PositionIn(ig, l) \in 1 .. Cardinality(un)
        /\ \A x \in im, l \in ig : PositionIn(im, x) # Cardinality(im) + PositionIn(ig, l)
    BY <1>1, <1>4, <1>5
  <1>7. /\ \A k \in 1 .. Cardinality(un) : Popped(un, k) \in un
        /\ \A k, j \in 1 .. Cardinality(un) : Popped(un, k) = Popped(un, j) => k = j
    BY <1>0, <1>1, PoppedOnce
  <1>8. /\ \A x \in im : forMap(x) \in un
        /\ \A l \in ig : forFlog(l) \in un
        /\ \A x \in im, l \in ig : forMap(x) # forFlog(l)
    BY <1>6, <1>7
  <1>9. \A x, y \in im : forMap(x) = forMap(y) => x = y
    BY <1>4, <1>6, <1>7
  <1>10. \A k, l \in ig : forFlog(k) = forFlog(l) => k = l
    <2> SUFFICES ASSUME NEW k \in ig, NEW l \in ig, forFlog(k) = forFlog(l)
                 PROVE  k = l
      OBVIOUS
    <2>1. Cardinality(im) + PositionIn(ig, k) = Cardinality(im) + PositionIn(ig, l)
      BY <1>6, <1>7
    <2>2. PositionIn(ig, k) = PositionIn(ig, l)
      BY <1>4, <1>5, <2>1
    <2> QED BY <1>5, <2>2
  <1> HIDE DEF forMap, forFlog
  <1>11. \A x \in Premap : MapPost(r.map, x) = IF x \in im THEN forMap(x) ELSE MapPost(ar.map, x)
    BY <1>3 DEF MapPost
  <1>12. \A l \in Lanes : CurrentFlog(r.flog[l]) = IF l \in ig THEN forFlog(l) ELSE CurrentFlog(ar.flog[l])
    <2>1. \A v : CurrentFlog([a |-> Slot(1, v), b |-> Slot(0, 0)]) = v
      BY DEF CurrentFlog, Slot
    <2> QED BY <1>3, <2>1
  <1>13. /\ \A x \in Premap \ im : MapPost(ar.map, x) \notin un /\ MapPost(ar.map, x) \in 0 .. IntNlba - 1
         /\ \A l \in Lanes \ ig : CurrentFlog(ar.flog[l]) \notin un /\ CurrentFlog(ar.flog[l]) \in 0 .. IntNlba - 1
    <2>1. /\ \A x \in Premap \ im : MapPost(ar.map, x) \notin un
          /\ \A l \in Lanes \ ig : CurrentFlog(ar.flog[l]) \notin un
      BY DEF un, Unmapped
    <2>2. \A x \in Premap \ im : MapPost(ar.map, x) \in 0 .. IntNlba - 1
      BY Counts DEF im, InvalidMap, MapTyped
    <2>3. \A l \in Lanes \ ig : CurrentFlog(ar.flog[l]) \in 0 .. IntNlba - 1
      BY DEF ig, Unusable
    <2> QED BY <2>1, <2>2, <2>3
  <1>14. MapTyped(r.map) /\ FlogTyped(r.flog)
    BY <1>0, <1>8, <1>11, <1>12 DEF MapTyped, FlogTyped
  <1>15. /\ \A x \in Premap : MapPost(r.map, x) \in 0 .. IntNlba - 1
         /\ \A l \in Lanes : CurrentFlog(r.flog[l]) \in 0 .. IntNlba - 1
    BY <1>0, <1>8, <1>11, <1>12, <1>13
  <1>16. \A x, y \in Premap : MapPost(r.map, x) = MapPost(r.map, y) => x = y
    <2>1. \A x, y \in Premap \ im : MapPost(ar.map, x) = MapPost(ar.map, y) => x = y
      BY ValidEntries DEF im
    <2> QED BY <1>8, <1>9, <1>11, <1>13, <2>1
  <1>17. \A k, l \in Lanes : CurrentFlog(r.flog[k]) = CurrentFlog(r.flog[l]) => k = l
    <2>1. \A k, l \in Lanes \ ig : CurrentFlog(ar.flog[k]) = CurrentFlog(ar.flog[l]) => k = l
      BY ValidEntries DEF ig
    <2> QED BY <1>8, <1>10, <1>12, <1>13, <2>1
  <1>18. \A l \in Lanes, x \in Premap : CurrentFlog(r.flog[l]) # MapPost(r.map, x)
    <2>1. \A l \in Lanes \ ig, x \in Premap : CurrentFlog(ar.flog[l]) # MapPost(ar.map, x)
      BY DEF ig, Unusable
    <2> QED BY <1>8, <1>11, <1>12, <1>13, <2>1
  <1>19. NoInvalid(r.map, r.flog)
    <2>1. \A x \in Premap : 0 .. x - 1 \subseteq Premap /\ x \notin 0 .. x - 1
      BY Counts DEF Premap
    <2>2. \A x \in Lanes : 0 .. x - 1 \subseteq Lanes /\ x \notin 0 .. x - 1
      BY Counts DEF Lanes
    <2>3. \A b \in 0 .. IntNlba - 1 : ~ (b >= IntNlba)
      BY Counts
    <2>4. InvalidMap(r.map) = {}
      BY <1>15, <1>16, <2>1, <2>3 DEF InvalidMap
    <2>5. Unusable(r.map, r.flog) = {}
      BY <1>15, <1>17, <1>18, <2>2, <2>3 DEF Unusable
    <2> QED BY <2>4, <2>5 DEF NoInvalid
  <1>20. \A x \in Premap : r.map[x] = ar.map[x] \/ \E b \in Nat : r.map[x] = [post |-> b, flag |-> "error"]
    <2>1. \A x \in im : forMap(x) \in Nat
      BY <1>0, <1>8
    <2> QED BY <1>3, <2>1
  <1>21. \A l \in Lanes : r.flog[l] = ar.flog[l] \/ \E b \in Nat : r.flog[l] = [a |-> Slot(1, b), b |-> Slot(0, 0)]
    <2>1. \A l \in ig : forFlog(l) \in Nat
      BY <1>0, <1>8
    <2> QED BY <1>3, <2>1
  <1>22. \A x \in Premap \ InvalidMap(ar.map) : r.map[x] = ar.map[x]
    BY <1>3 DEF im
  <1>23. DOMAIN r.map = Premap /\ DOMAIN r.flog = Lanes
    BY <1>3
  <1> QED BY <1>14, <1>19, <1>20, <1>21, <1>22, <1>23

-----------------------------------------------------------------------------
(* The inductive invariant.                                                *)

Uuids    == {"u", "bad", "zero", "new"}
Infos    == [st : {"ok", "bad", "zero"}, uuid : Uuids, bsize : {1}]
MapEntry == [post : Nat, flag : {"initial", "normal", "error"}]
Pair     == [a : [seq : Nat, old : Nat], b : [seq : Nat, old : Nat]]
Arena    == [info : Infos, info2 : Infos, map : [Premap -> MapEntry], flog : [Lanes -> Pair]]
Kept     == [idx : ArenaIdx, info : Infos, map : [Premap -> MapEntry], flog : [Lanes -> Pair]]

HdrTyped(h, type) ==
  /\ h = [sig |-> h.sig, bad |-> h.bad, uuid |-> h.uuid, crtime |-> h.crtime, csum |-> h.csum]
  /\ h.sig \in {type, "bad", "zero"} /\ h.uuid \in Uuids

FileTyped(f) ==
  /\ f = [type |-> f.type, hdr |-> f.hdr, log |-> f.log, bsize |-> f.bsize, arenas |-> f.arenas]
  /\ f.type \in {"log", "blk"} /\ HdrTyped(f.hdr, f.type)
  /\ f.type = "log" => f.arenas = << >>
  /\ f.type = "blk" => f.arenas \in [ArenaIdx -> Arena]

BlkOut    == {"write_arena", "write_flog", "write_map", "sync_map"}
BlkSteps  == {"pmemblk", "btt_info", "map_flog", "write_blk"} \cup BlkOut
LogSteps  == {"pmemlog", "write_log", "sync_log"}
Unwritten == {"pool_hdr", "pmemlog", "pmemblk", "btt_info", "map_flog", "write_log", "write_blk"}

CheckTypes ==
  /\ FileTyped(file) /\ FileTyped(orig) /\ FileTyped(seen)
  /\ orig.type = file.type /\ seen.type = file.type
  /\ HdrTyped(hdr, file.type) /\ bttc \in Infos
  /\ nruns \in Nat /\ ncrash \in Nat
  /\ ptype \in {"log", "blk"} => ptype = file.type
  /\ step \in {"idle", "died", "pool_hdr"} \cup BlkSteps \cup LogSteps

\* A file that was damaged, but that no repair has touched.
Fresh(f) ==
  /\ f.hdr.csum \in {Body(GoodHdr(f.type)), NoBody}
  /\ f.type = "blk" => \A a \in ArenaIdx :
       /\ f.arenas[a].info.st = "ok" => f.arenas[a].info.uuid = "u"
       /\ f.arenas[a].info2.st = "ok" => f.arenas[a].info2.uuid = "u"

Origin ==
  /\ nruns = 0 => step = "idle" /\ exit = "none" /\ ncrash = 0 /\ Fresh(file)
  /\ ncrash = 0 => Fresh(orig)
  /\ ncrash = 0 /\ bttc.st = "ok" => bttc.uuid = "u"
  /\ step \in Unwritten => file = orig /\ seen = orig
  /\ step \in {"idle", "died"} => seen = file

\* The tool's copy of the header once the first step is done.
HdrReady ==
  /\ step = "pool_hdr" => hdr = orig.hdr /\ arenas = << >>
  /\ step = "pmemblk" => arenas = << >>
  /\ step \in LogSteps => ptype = "log"
  /\ step \in BlkSteps => ptype = "blk"
  /\ step \in LogSteps \cup BlkSteps => HdrConsistent(hdr)
  /\ step \in LogSteps \cup BlkSteps /\ ncrash = 0 /\ opt.yes =>
       /\ hdr.sig = file.type /\ hdr.bad = {}
       /\ uuid_op = "regenerated" \/ hdr.uuid = "u"
  /\ step \in {"write_log", "sync_log"} => BadLog(log) = {}
  /\ step \in BlkSteps \ {"pmemblk"} => bsize # 0 /\ at \in ArenaIdx

\* The tool's copies of the first n arenas, before and after their repair.
Collected(n) ==
  /\ arenas \in [1 .. n -> Kept]
  /\ \A k \in 1 .. n : /\ arenas[k].idx = k /\ arenas[k].info.st = "ok"
                       /\ arenas[k].info \in {orig.arenas[k].info, orig.arenas[k].info2}
Unrepaired(k) == arenas[k].map = orig.arenas[k].map /\ arenas[k].flog = orig.arenas[k].flog
Mended(k) ==
  /\ NoInvalid(arenas[k].map, arenas[k].flog)
  /\ \A x \in Premap \ InvalidMap(orig.arenas[k].map) : arenas[k].map[x] = orig.arenas[k].map[x]

ArenasReady ==
  /\ step = "btt_info" => Collected(at - 1) /\ \A k \in 1 .. at - 1 : Unrepaired(k)
  /\ step = "map_flog" =>
       /\ Collected(NArenas)
       /\ \A k \in 1 .. NArenas : IF k < at THEN opt.repair => Mended(k) ELSE Unrepaired(k)
  /\ step \in {"write_blk"} \cup BlkOut =>
       Collected(NArenas) /\ (opt.repair => \A k \in 1 .. NArenas : Mended(k))
  /\ step \in BlkOut => opt.repair

\* What was written for arena k.
OutFor(k) == ArenaInfoOut(arenas[k])
InfosOut(k) == seen.arenas[k].info = OutFor(k) /\ seen.arenas[k].info2 = OutFor(k)
WrittenOut(k) == InfosOut(k) /\ seen.arenas[k].map = arenas[k].map /\ seen.arenas[k].flog = arenas[k].flog

Writing ==
  /\ step \in BlkOut =>
       seen.hdr = hdr /\ seen.bsize = bsize /\ \A k \in 1 .. at - 1 : WrittenOut(k)
  /\ step \in BlkOut \ {"write_arena"} => InfosOut(at)
  /\ step \in {"write_map", "sync_map"} => seen.arenas[at].flog = arenas[at].flog
  /\ step = "sync_map" => seen.arenas[at].map = arenas[at].map
  /\ step = "sync_log" => seen.hdr = hdr /\ seen.log = log

\* What a repair promises.
Fixed ==
  /\ FoundConsistent(file)
  /\ ncrash = 0 => Opens(file) /\ (ptype = "blk" => Layed(file))
  /\ ptype = "blk" => \A a \in ArenaIdx : \A x \in Premap \ InvalidMap(orig.arenas[a].map) :
                        file.arenas[a].map[x] = orig.arenas[a].map[x]
Promise == RepairDone /\ ptype \in {"log", "blk"} /\ Written(orig) => Fixed

CheckInv == CheckTypes /\ Origin /\ HdrReady /\ ArenasReady /\ Writing /\ Promise

-----------------------------------------------------------------------------
(* Facts about typed files.                                                *)

LEMMA ShapesTyped ==
  /\ \A m \in [Premap -> MapEntry] : MapTyped(m) /\ DOMAIN m = Premap
  /\ \A g \in [Lanes -> Pair] : FlogTyped(g)
  <1>1. ASSUME NEW m \in [Premap -> MapEntry]
        PROVE  MapTyped(m) /\ DOMAIN m = Premap
    <2>1. \A x \in Premap : m[x].post \in Nat /\ x \in Nat
      BY Counts DEF MapEntry
    <2> QED BY <2>1 DEF MapTyped, MapPost
  <1>2. ASSUME NEW g \in [Lanes -> Pair]
        PROVE  FlogTyped(g)
    <2> SUFFICES ASSUME NEW l \in Lanes PROVE CurrentFlog(g[l]) \in Nat \cup {NoBlock}
      BY DEF FlogTyped
    <2>1. g[l].a.old \in Nat /\ g[l].b.old \in Nat /\ IntNlba \in Nat
      BY Counts DEF Pair
    <2> QED BY <2>1 DEF CurrentFlog
  <1> QED BY <1>1, <1>2

LEMMA GoodHdrs ==
  ASSUME NEW type
  PROVE  /\ GoodHdr(type) = [sig |-> type, bad |-> {}, uuid |-> "u", crtime |-> "past", csum |-> Body(GoodHdr(type))]
         /\ Body(GoodHdr(type)) = [sig |-> type, bad |-> {}, uuid |-> "u", crtime |-> "past"]
  <1> DEFINE h == [sig |-> type, bad |-> {}, uuid |-> "u", crtime |-> "past", csum |-> NoBody]
  <1>1. Body(h) = [sig |-> type, bad |-> {}, uuid |-> "u", crtime |-> "past"]
    BY DEF Body
  <1>2. GoodHdr(type) = [h EXCEPT !.csum = Body(h)]
    BY DEF GoodHdr, Sealed
  <1>3. GoodHdr(type) = [sig |-> type, bad |-> {}, uuid |-> "u", crtime |-> "past", csum |-> Body(h)]
    BY <1>2
  <1>4. Body(GoodHdr(type)) = Body(h)
    BY <1>1, <1>3 DEF Body
  <1> QED BY <1>1, <1>3, <1>4

LEMMA GoodArenas ==
  ASSUME NEW s \in Nat \X Nat
  PROVE  GoodArena(s) \in Arena /\ GoodArena(s).info.uuid = "u" /\ GoodArena(s).info2.uuid = "u"
  <1>1. \A l \in Lanes : ExtNlba + l \in Nat
    BY Counts
  <1>2. [l \in Lanes |-> [a |-> Slot(s[1], ExtNlba + l),
                          b |-> Slot(s[2], IF s[2] = 0 THEN 0 ELSE ExtNlba + l)]] \in [Lanes -> Pair]
    BY <1>1 DEF Slot, Pair
  <1>3. [x \in Premap |-> [post |-> 0, flag |-> IF x = 0 THEN "normal" ELSE "initial"]] \in [Premap -> MapEntry]
    BY DEF MapEntry
  <1>4. Info("ok", "u") \in Infos /\ Info("ok", "u").uuid = "u"
    BY DEF Info, Infos, Uuids
  <1> QED BY <1>2, <1>3, <1>4 DEF GoodArena, Arena

LEMMA CheckStart == CheckInit => CheckInv
  <1> SUFFICES ASSUME CheckInit PROVE CheckInv
    OBVIOUS
  <1>1. ASSUME NEW type \in {"log", "blk"}, NEW s \in Nat \X Nat, file = GoodPool(type, s)
        PROVE  FileTyped(file) /\ Fresh(file) /\ file.type = type
    <2>1. /\ file.type = type /\ file.hdr = GoodHdr(type)
          /\ file = [type |-> file.type, hdr |-> file.hdr, log |-> file.log, bsize |-> file.bsize, arenas |-> file.arenas]
          /\ file.arenas = IF type = "blk" THEN [a \in ArenaIdx |-> GoodArena(s)] ELSE << >>
      BY <1>1 DEF GoodPool
    <2>2. HdrTyped(file.hdr, type) /\ file.hdr.csum = Body(GoodHdr(type))
      BY <2>1, GoodHdrs DEF HdrTyped, Uuids
    <2> QED BY <2>1, <2>2, GoodArenas DEF FileTyped, Fresh
  <1>2. FileTyped(file) /\ Fresh(file)
    <2>1. CASE file = GoodPool("log", <<1, 0>>)
      BY <1>1, <2>1
    <2>2. CASE \E s \in LibSeqs : file = GoodPool("blk", s)
      BY <1>1, <2>2, CheckAssumption
    <2> QED BY <2>1, <2>2 DEF CheckInit
  <1>3. /\ orig = file /\ seen = file /\ step = "idle" /\ exit = "none" /\ nruns = 0 /\ ncrash = 0
        /\ ptype = "none" /\ hdr = ZeroHdr /\ bttc = Info("bad", "zero")
    BY DEF CheckInit, ToolIdle
  <1>4. HdrTyped(ZeroHdr, file.type) /\ Info("bad", "zero") \in Infos /\ Info("bad", "zero").st # "ok"
    BY DEF ZeroHdr, HdrTyped, Uuids, Info, Infos
  <1>5. CheckTypes
    BY <1>2, <1>3, <1>4 DEF CheckTypes
  <1>6. Origin
    BY <1>2, <1>3, <1>4 DEF Origin, Unwritten
  <1>7. HdrReady /\ ArenasReady /\ Writing /\ Promise
    BY <1>3 DEF HdrReady, BlkSteps, BlkOut, LogSteps, ArenasReady, Writing, Promise, RepairDone
  <1> QED BY <1>5, <1>6, <1>7 DEF CheckInv

LEMMA SpoiledFile ==
  ASSUME NEW f, FileTyped(f), Fresh(f), NEW t \in Faults(f.type), NEW g, g = Spoil(f, t)
  PROVE  FileTyped(g) /\ Fresh(g) /\ g.type = f.type
  <1>0. /\ f = [type |-> f.type, hdr |-> f.hdr, log |-> f.log, bsize |-> f.bsize, arenas |-> f.arenas]
        /\ f.type \in {"log", "blk"} /\ HdrTyped(f.hdr, f.type)
    BY DEF FileTyped
  <1>h. ASSUME NEW h, g = [f EXCEPT !.hdr = h], HdrTyped(h, f.type), h.csum \in {f.hdr.csum, NoBody}
        PROVE  FileTyped(g) /\ Fresh(g) /\ g.type = f.type
    <2>1. /\ g = [type |-> f.type, hdr |-> h, log |-> f.log, bsize |-> f.bsize, arenas |-> f.arenas]
      BY <1>0, <1>h
    <2> QED BY <1>h, <2>1 DEF FileTyped, Fresh
  <1>l. ASSUME NEW h, g = [f EXCEPT !.log = h]
        PROVE  FileTyped(g) /\ Fresh(g) /\ g.type = f.type
    <2>1. /\ g = [type |-> f.type, hdr |-> f.hdr, log |-> h, bsize |-> f.bsize, arenas |-> f.arenas]
      BY <1>0, <1>l
    <2> QED BY <2>1 DEF FileTyped, Fresh
  <1>a. ASSUME NEW as, g = [f EXCEPT !.arenas = as], f.type = "blk", as \in [ArenaIdx -> Arena],
               \A a \in ArenaIdx : /\ as[a].info.st = "ok" => as[a].info = f.arenas[a].info
                                   /\ as[a].info2.st = "ok" => as[a].info2 = f.arenas[a].info2
        PROVE  FileTyped(g) /\ Fresh(g) /\ g.type = f.type
    <2>1. /\ g = [type |-> f.type, hdr |-> f.hdr, log |-> f.log, bsize |-> f.bsize, arenas |-> as]
      BY <1>0, <1>a
    <2>2. FileTyped(g) /\ g.type = f.type
      BY <1>a, <2>1 DEF FileTyped
    <2>3. g.hdr = f.hdr /\ g.type = f.type /\ g.arenas = as
      BY <2>1
    <2>4. \A a \in ArenaIdx : /\ as[a].info.st = "ok" => as[a].info.uuid = "u"
                              /\ as[a].info2.st = "ok" => as[a].info2.uuid = "u"
      BY <1>a DEF Fresh
    <2>5. Fresh(g)
      BY <2>3, <2>4 DEF Fresh
    <2> QED BY <2>2, <2>5
  <1>1. CASE t.what = "sig"
    <2>1. g = [f EXCEPT !.hdr = [f.hdr EXCEPT !.sig = "bad"]]
      BY <1>1, <1>0 DEF Spoil
    <2> QED BY <1>0, <1>h, <2>1 DEF HdrTyped
  <1>2. CASE t.what = "uuid"
    <2>1. g = [f EXCEPT !.hdr = [f.hdr EXCEPT !.uuid = "bad"]]
      BY <1>2, <1>0 DEF Spoil
    <2> QED BY <1>0, <1>h, <2>1 DEF HdrTyped, Uuids
  <1>3. CASE t.what = "crtime"
    <2>1. g = [f EXCEPT !.hdr = [f.hdr EXCEPT !.crtime = "future"]]
      BY <1>3, <1>0 DEF Spoil
    <2> QED BY <1>0, <1>h, <2>1 DEF HdrTyped
  <1>4. CASE t.what = "csum"
    <2>1. g = [f EXCEPT !.hdr = [f.hdr EXCEPT !.csum = NoBody]]
      BY <1>4, <1>0 DEF Spoil
    <2> QED BY <1>0, <1>h, <2>1 DEF HdrTyped
  <1>5. CASE t.what = "zero"
    <2>1. g = [f EXCEPT !.hdr = ZeroHdr]
      BY <1>5 DEF Spoil
    <2>2. HdrTyped(ZeroHdr, f.type) /\ ZeroHdr.csum = NoBody
      BY DEF HdrTyped, ZeroHdr, Uuids
    <2> QED BY <1>h, <2>1, <2>2
  <1>6. CASE t.what = "field"
    <2>1. g = [f EXCEPT !.hdr = [f.hdr EXCEPT !.bad = f.hdr.bad \cup {t.field}]]
      BY <1>6, <1>0 DEF Spoil
    <2> QED BY <1>0, <1>h, <2>1 DEF HdrTyped
  <1>7. CASE t.what \in {"start", "end", "write"}
    <2>1. \/ g = [f EXCEPT !.log = [f.log EXCEPT !.start = 0]]
          \/ g = [f EXCEPT !.log = [f.log EXCEPT !.end = 0]]
          \/ g = [f EXCEPT !.log = [f.log EXCEPT !.write = t.to]]
      BY <1>7, <1>0 DEF Spoil
    <2> QED BY <1>l, <2>1
  <1>8. CASE t.what = "bsize"
    <2>1. g = [type |-> f.type, hdr |-> f.hdr, log |-> f.log, bsize |-> 0, arenas |-> f.arenas]
      BY <1>0, <1>8 DEF Spoil
    <2> QED BY <2>1 DEF FileTyped, Fresh
  <1>b. ASSUME f.type = "blk", NEW i \in ArenaIdx, NEW v \in Arena, g = [f EXCEPT !.arenas = [f.arenas EXCEPT ![i] = v]],
               v.info.st = "ok" => v.info = f.arenas[i].info, v.info2.st = "ok" => v.info2 = f.arenas[i].info2
        PROVE  FileTyped(g) /\ Fresh(g) /\ g.type = f.type
    <2>1. f.arenas \in [ArenaIdx -> Arena]
      BY <1>b DEF FileTyped
    <2> DEFINE as == [f.arenas EXCEPT ![i] = v]
    <2>2. as \in [ArenaIdx -> Arena]
      BY <1>b, <2>1
    <2>3. \A a \in ArenaIdx : /\ as[a].info.st = "ok" => as[a].info = f.arenas[a].info
                              /\ as[a].info2.st = "ok" => as[a].info2 = f.arenas[a].info2
      BY <1>b, <2>1
    <2> HIDE DEF as
    <2> QED BY <1>a, <1>b, <2>2, <2>3 DEF as
  <1>9. CASE f.type = "blk" /\ t.what \in {"info", "info2", "map", "flog", "old_a", "old_b"} /\ t.a \in ArenaIdx
    <2>0. f.arenas \in [ArenaIdx -> Arena]
      BY <1>9 DEF FileTyped
    <2> DEFINE ar == f.arenas[t.a]
    <2>r. ar \in Arena
      BY <2>0, <1>9
    <2>1. CASE t.what = "info"
      <3>1. g = [f EXCEPT !.arenas = [f.arenas EXCEPT ![t.a] = [ar EXCEPT !.info = [ar.info EXCEPT !.st = "bad"]]]]
        BY <2>1, <1>0, <2>0 DEF Spoil
      <3>2. /\ [ar EXCEPT !.info = [ar.info EXCEPT !.st = "bad"]] \in Arena
            /\ [ar EXCEPT !.info = [ar.info EXCEPT !.st = "bad"]].info.st = "bad"
            /\ [ar EXCEPT !.info = [ar.info EXCEPT !.st = "bad"]].info2 = ar.info2
        BY <2>r DEF Arena, Infos
      <3> QED BY <1>b, <1>9, <3>1, <3>2
    <2>2. CASE t.what = "info2"
      <3>1. g = [f EXCEPT !.arenas = [f.arenas EXCEPT ![t.a] = [ar EXCEPT !.info2 = [ar.info2 EXCEPT !.st = "bad"]]]]
        BY <2>2, <1>0, <2>0 DEF Spoil
      <3>2. /\ [ar EXCEPT !.info2 = [ar.info2 EXCEPT !.st = "bad"]] \in Arena
            /\ [ar EXCEPT !.info2 = [ar.info2 EXCEPT !.st = "bad"]].info2.st = "bad"
            /\ [ar EXCEPT !.info2 = [ar.info2 EXCEPT !.st = "bad"]].info = ar.info
        BY <2>r DEF Arena, Infos
      <3> QED BY <1>b, <1>9, <3>1, <3>2
    <2>3. CASE t.what = "map" /\ t.x \in Premap /\ t.to \in Nat
      <3> DEFINE m == [ar.map EXCEPT ![t.x] = [post |-> t.to, flag |-> "normal"]]
      <3>1. g = [f EXCEPT !.arenas = [f.arenas EXCEPT ![t.a] = [ar EXCEPT !.map = m]]]
        BY <2>3, <1>0, <2>0 DEF Spoil
      <3>2. m \in [Premap -> MapEntry]
        BY <2>r, <2>3 DEF Arena, MapEntry
      <3> HIDE DEF m
      <3>3. [ar EXCEPT !.map = m] \in Arena /\ [ar EXCEPT !.map = m].info = ar.info /\ [ar EXCEPT !.map = m].info2 = ar.info2
        BY <2>r, <3>2 DEF Arena
      <3> QED BY <1>b, <1>9, <3>1, <3>3
    <2>4. CASE t.what \in {"flog", "old_a", "old_b"} /\ t.l \in Lanes /\ (t.what # "flog" => t.to \in Nat)
      <3> DEFINE p == ar.flog[t.l]
                 q == IF t.what = "flog" THEN [p EXCEPT !.a = [p.a EXCEPT !.seq = 5]]
                      ELSE IF t.what = "old_a" THEN [p EXCEPT !.a = [p.a EXCEPT !.old = t.to]]
                      ELSE [p EXCEPT !.b = [p.b EXCEPT !.old = t.to]]
                 m == [ar.flog EXCEPT ![t.l] = q]
      <3>1. g = [f EXCEPT !.arenas = [f.arenas EXCEPT ![t.a] = [ar EXCEPT !.flog = m]]]
        <4>1. CASE t.what = "flog"
          BY <2>4, <4>1, <1>0, <2>0 DEF Spoil
        <4>2. CASE t.what = "old_a"
          BY <2>4, <4>2, <1>0, <2>0 DEF Spoil
        <4>3. CASE t.what = "old_b"
          BY <2>4, <4>3, <1>0, <2>0 DEF Spoil
        <4> QED BY <2>4, <4>1, <4>2, <4>3
      <3>2. p \in Pair
        BY <2>r, <2>4 DEF Arena
      <3>3. q \in Pair
        BY <2>4, <3>2 DEF Pair
      <3> HIDE DEF q
      <3>4. m \in [Lanes -> Pair]
        BY <2>r, <3>3 DEF Arena
      <3> HIDE DEF m
      <3>5. [ar EXCEPT !.flog = m] \in Arena /\ [ar EXCEPT !.flog = m].info = ar.info /\ [ar EXCEPT !.flog = m].info2 = ar.info2
        BY <2>r, <3>4 DEF Arena
      <3> QED BY <1>b, <1>9, <3>1, <3>5
    <2> QED BY <1>9, <2>1, <2>2, <2>3, <2>4, Counts DEF Faults, HdrFaults, BlkFaults, Posts
  <1>10. CASE f.type = "blk" /\ t.what = "nolayout"
    <2>0. f.arenas \in [ArenaIdx -> Arena]
      BY <1>10 DEF FileTyped
    <2> DEFINE z == Info("zero", "zero")
               as == [a \in ArenaIdx |-> [f.arenas[a] EXCEPT !.info = z, !.info2 = z]]
    <2>1. g = [f EXCEPT !.arenas = as]
      BY <1>10, <1>0 DEF Spoil
    <2>2. z \in Infos /\ z.st = "zero"
      BY DEF Info, Infos, Uuids
    <2> HIDE DEF z
    <2>3. as \in [ArenaIdx -> Arena] /\ \A a \in ArenaIdx : as[a].info = z /\ as[a].info2 = z
      BY <2>0, <2>2 DEF Arena
    <2>4. \A a \in ArenaIdx : as[a].info.st # "ok" /\ as[a].info2.st # "ok"
      BY <2>2, <2>3
    <2> HIDE DEF as
    <2> QED BY <1>a, <1>10, <2>1, <2>3, <2>4, ZenonT(60)
  <1> QED BY <1>0, <1>1, <1>2, <1>3, <1>4, <1>5, <1>6, <1>7, <1>8, <1>9, <1>10
          DEF Faults, HdrFaults, LogFaults, BlkFaults

-----------------------------------------------------------------------------
(* The steps preserve the invariant.                                       *)

\* While the tool has not ended with success there is nothing to promise.
LEMMA NoPromise ==
  ASSUME step' # "idle" \/ exit' # "ok" \/ ptype' \notin {"log", "blk"}
  PROVE  Promise'
  BY DEF Promise, RepairDone

LEMMA CheckDamage == CheckInv /\ Damage => CheckInv'
  <1> SUFFICES ASSUME CheckInv, Damage PROVE CheckInv'
    OBVIOUS
  <1>1. /\ nruns = 0 /\ orig' = file' /\ seen' = file'
        /\ UNCHANGED <<opt, ptype, uuid_op, bttc, hdr, log, bsize, arenas, step, at, result, exit, nruns, ncrash>>
    BY DEF Damage, tool
  <1>2. PICK t \in Faults(file.type) : file' = Spoil(file, t)
    BY DEF Damage
  <1>3. CheckTypes /\ Origin /\ Promise
    BY DEF CheckInv
  <1>4. step = "idle" /\ exit = "none" /\ ncrash = 0 /\ Fresh(file)
    BY <1>1, <1>3 DEF Origin
  <1>5. FileTyped(file') /\ Fresh(file') /\ file'.type = file.type
    BY <1>2, <1>3, <1>4, SpoiledFile DEF CheckTypes
  <1>6. CheckTypes'
    BY <1>1, <1>3, <1>5 DEF CheckTypes, FileTyped, HdrTyped
  <1>7. Origin'
    BY <1>1, <1>3, <1>4, <1>5 DEF Origin, Unwritten, Fresh
  <1>8. HdrReady' /\ ArenasReady' /\ Writing' /\ Promise'
    BY <1>1, <1>4 DEF HdrReady, BlkSteps, BlkOut, LogSteps, ArenasReady, Writing, Promise, RepairDone
  <1> QED BY <1>6, <1>7, <1>8 DEF CheckInv

LEMMA ValidBtt ==
  ASSUME FileTyped(file), NEW n \in Nat, FirstValidBtt(n) # -1
  PROVE  /\ file.type = "blk" /\ FirstValidBtt(n) \in n .. 2 * NArenas - 1
         /\ InfoAt(FirstValidBtt(n)).st = "ok" /\ InfoAt(FirstValidBtt(n)) \in Infos
         /\ \E a \in ArenaIdx : InfoAt(FirstValidBtt(n)) \in {file.arenas[a].info, file.arenas[a].info2}
  <1> DEFINE valid == {k \in n .. 2 * Len(file.arenas) - 1 : InfoAt(k).st = "ok"}
  <1>1. valid # {} /\ FirstValidBtt(n) = Min(valid)
    BY DEF FirstValidBtt
  <1>2. file.type = "blk"
    <2> SUFFICES ASSUME file.arenas = << >> PROVE FALSE
      BY DEF FileTyped
    <2>1. Len(file.arenas) = 0
      OBVIOUS
    <2> QED BY <1>1, <2>1
  <1>3. NArenas \in Nat \ {0}
    BY CheckAssumption
  <1>4. file.arenas \in [1 .. NArenas -> Arena]
    BY <1>2 DEF FileTyped, ArenaIdx
  <1>5. Len(file.arenas) = NArenas
    BY <1>3, <1>4
  <1>6. valid \in SUBSET Nat
    BY <1>3, <1>5
  <1>7. Min(valid) \in valid
    BY <1>1, <1>6, MinOfNat
  <1>8. PICK k \in n .. 2 * NArenas - 1 : k = FirstValidBtt(n) /\ InfoAt(k).st = "ok"
    BY <1>1, <1>5, <1>7
  <1>9. k \div 2 + 1 \in 1 .. NArenas
    BY <1>3
  <1>10. InfoAt(k) \in {file.arenas[k \div 2 + 1].info, file.arenas[k \div 2 + 1].info2}
    BY DEF InfoAt
  <1>11. InfoAt(k) \in Infos
    BY <1>4, <1>9, <1>10 DEF Arena
  <1> QED BY <1>2, <1>8, <1>9, <1>10, <1>11 DEF ArenaIdx

LEMMA FreshBtt ==
  ASSUME FileTyped(file), Fresh(file), NEW n \in Nat, FirstValidBtt(n) # -1
  PROVE  InfoAt(FirstValidBtt(n)).uuid = "u"
  BY ValidBtt DEF Fresh

\* A header whose checksum is right was not damaged.
LEMMA IntactHdr ==
  ASSUME NEW h, NEW type, h.sig # "?", CsumOk(h), h.csum \in {Body(GoodHdr(type)), NoBody}
  PROVE  h.sig = type /\ h.bad = {} /\ h.uuid = "u"
  <1>1. Body(h).sig = h.sig /\ Body(h).bad = h.bad /\ Body(h).uuid = h.uuid
    BY DEF Body
  <1>2. NoBody.sig = "?"
    BY DEF NoBody
  <1>3. Body(h) = Body(GoodHdr(type))
    BY <1>1, <1>2 DEF CsumOk
  <1> QED BY <1>1, <1>3, GoodHdrs

\* The headers that the repair goes through.
HdrChain(h, s, no, u, h1, h2, h3) ==
  /\ h1 = [h EXCEPT !.sig = s, !.bad = @ \cap no] /\ h2 \in {h1, [h1 EXCEPT !.uuid = u]}
  /\ h3 = [h2 EXCEPT !.crtime = "past", !.uuid = "new"]

LEMMA HdrEdits ==
  ASSUME NEW h, NEW type, HdrTyped(h, type), NEW s, NEW no, NEW u \in Uuids,
         NEW h1, NEW h2, NEW h3, HdrChain(h, s, no, u, h1, h2, h3)
  PROVE  /\ h1.uuid = h.uuid
         /\ h2.sig = s /\ h2.bad = h.bad \cap no /\ h2.csum = h.csum
         /\ Sealed(h3).sig = s /\ Sealed(h3).bad = h.bad \cap no /\ CsumOk(Sealed(h3))
         /\ s = type => HdrTyped(h2, type) /\ HdrTyped(Sealed(h3), type)
  <1>1. h = [sig |-> h.sig, bad |-> h.bad, uuid |-> h.uuid, crtime |-> h.crtime, csum |-> h.csum]
    BY DEF HdrTyped
  <1>2. PICK k : k = [h EXCEPT !.sig = s]
    OBVIOUS
  <1>3. k = [sig |-> s, bad |-> h.bad, uuid |-> h.uuid, crtime |-> h.crtime, csum |-> h.csum]
    BY <1>1, <1>2
  <1>4. k.bad = h.bad /\ h1 = [k EXCEPT !.bad = k.bad \cap no]
    BY <1>2, <1>3 DEF HdrChain
  <1>5. h1 = [sig |-> s, bad |-> h.bad \cap no, uuid |-> h.uuid, crtime |-> h.crtime, csum |-> h.csum]
    BY <1>3, <1>4
  <1>6. PICK v \in Uuids : h2 = [sig |-> s, bad |-> h.bad \cap no, uuid |-> v, crtime |-> h.crtime, csum |-> h.csum]
    <2>1. CASE h2 = h1
      BY <1>5, <2>1 DEF HdrTyped
    <2>2. CASE h2 = [h1 EXCEPT !.uuid = u]
      BY <1>5, <2>2
    <2> QED BY <2>1, <2>2 DEF HdrChain
  <1>7. PICK j : j = [h2 EXCEPT !.crtime = "past"]
    OBVIOUS
  <1>8. j = [sig |-> s, bad |-> h.bad \cap no, uuid |-> v, crtime |-> "past", csum |-> h.csum]
    BY <1>6, <1>7
  <1>9. h3 = [j EXCEPT !.uuid = "new"]
    BY <1>7 DEF HdrChain
  <1>10. h3 = [sig |-> s, bad |-> h.bad \cap no, uuid |-> "new", crtime |-> "past", csum |-> h.csum]
    BY <1>8, <1>9
  <1>11. PICK c : c = Body(h3)
    OBVIOUS
  <1>12. c = [sig |-> s, bad |-> h.bad \cap no, uuid |-> "new", crtime |-> "past"]
    BY <1>10, <1>11 DEF Body
  <1>13. Sealed(h3) = [h3 EXCEPT !.csum = c]
    BY <1>11 DEF Sealed
  <1>14. PICK z : z = Sealed(h3)
    OBVIOUS
  <1>15. z = [sig |-> s, bad |-> h.bad \cap no, uuid |-> "new", crtime |-> "past", csum |-> c]
    BY <1>10, <1>13, <1>14
  <1>16. Body(z) = [sig |-> s, bad |-> h.bad \cap no, uuid |-> "new", crtime |-> "past"]
    BY <1>15 DEF Body
  <1>17. CsumOk(z) /\ z.sig = s /\ z.bad = h.bad \cap no
    BY <1>12, <1>15, <1>16 DEF CsumOk
  <1>18. s = type => HdrTyped(z, type)
    BY <1>15 DEF HdrTyped, Uuids
  <1>19. s = type => HdrTyped(h2, type)
    BY <1>6 DEF HdrTyped
  <1>20. h1.uuid = h.uuid /\ h2.sig = s /\ h2.bad = h.bad \cap no /\ h2.csum = h.csum
    BY <1>5, <1>6
  <1> QED BY <1>14, <1>17, <1>18, <1>19, <1>20

LEMMA HdrRepaired ==
  ASSUME CheckTypes, Origin, file = orig, hdr = orig.hdr, NEW no, NEW r, r = RepairedHdr(no)
  PROVE  /\ r.res \in {"cannot_repair", "repaired"} /\ HdrTyped(r.hdr, file.type) /\ r.bttc \in Infos
         /\ ncrash = 0 /\ r.bttc.st = "ok" => r.bttc.uuid = "u"
         /\ r.type \in {"log", "blk"} => r.type = file.type
         /\ r.res = "repaired" =>
              /\ HdrConsistent(r.hdr) /\ r.type \in {"log", "blk"}
              /\ ncrash = 0 /\ no = {} =>
                   r.hdr.sig = file.type /\ r.hdr.bad = {} /\ (r.op = "regenerated" \/ r.hdr.uuid = "u")
  <1> DEFINE t0    == pmem_pool_type_parse_hdr(hdr)
             found == t0 = "unknown" /\ FirstValidBtt(0) >= 0
             btt   == IF found THEN InfoAt(FirstValidBtt(0)) ELSE bttc
             t     == IF found THEN "blk" ELSE t0
             h1    == [hdr EXCEPT !.sig = t, !.bad = @ \cap no]
             from_btt == t = "blk" /\ btt.st = "ok" /\ h1.uuid # btt.uuid /\ "uuid" \notin no
             h2    == IF from_btt THEN [h1 EXCEPT !.uuid = btt.uuid] ELSE h1
             op    == IF from_btt THEN "from_btt" ELSE "nop"
             outcome(x, h, o) == [res |-> x, hdr |-> h, type |-> t, op |-> o, bttc |-> btt]
             h3    == [h2 EXCEPT !.crtime = "past", !.uuid = "new"]
  <1>0. /\ FileTyped(file) /\ HdrTyped(hdr, file.type) /\ file.type \in {"log", "blk"} /\ bttc \in Infos
        /\ (ncrash = 0 => Fresh(file))
    BY DEF CheckTypes, Origin, FileTyped
  <1>1. /\ r = outcome("cannot_repair", hdr, op) \/ (r = outcome("cannot_repair", h2, op) /\ t # "unknown")
           \/ (r = outcome("repaired", h2, op) /\ CsumOk(h2) /\ t # "unknown")
           \/ (r = outcome("repaired", Sealed(h3), "regenerated") /\ t # "unknown")
    BY DEF RepairedHdr
  <1>2. t \in {file.type, "unknown"} /\ (hdr.sig = file.type => t = hdr.sig)
    <2>1. found => file.type = "blk"
      BY <1>0, ValidBtt
    <2> QED BY <1>0, <2>1 DEF pmem_pool_type_parse_hdr, HdrTyped
  <1>3. btt \in Infos /\ (ncrash = 0 /\ btt.st = "ok" => btt.uuid = "u")
    <2>1. CASE found
      BY <1>0, <2>1, ValidBtt, FreshBtt
    <2>2. CASE ~ found
      BY <1>0, <2>2 DEF Origin
    <2> QED BY <2>1, <2>2
  <1> HIDE DEF found, btt, t0, t
  <1>4. h2 \in {h1, [h1 EXCEPT !.uuid = btt.uuid]} /\ btt.uuid \in Uuids
    BY <1>3 DEF Infos
  <1>5. PICK k1, k2, k3 : k1 = h1 /\ k2 = h2 /\ k3 = h3
    OBVIOUS
  <1>6. HdrChain(hdr, t, no, btt.uuid, k1, k2, k3)
    BY <1>4, <1>5, Zenon DEF HdrChain
  <1>7. CsumOk(Sealed(k3)) /\ Sealed(k3).sig = t /\ Sealed(k3).bad = hdr.bad \cap no
    BY <1>0, <1>4, <1>6, HdrEdits, SMT
  <1>8. k2.sig = t /\ k2.bad = hdr.bad \cap no /\ k2.csum = hdr.csum
    BY <1>0, <1>4, <1>6, HdrEdits, SMT
  <1>11. t = file.type => HdrTyped(k2, file.type) /\ HdrTyped(Sealed(k3), file.type)
    BY <1>0, <1>4, <1>6, HdrEdits, SMT
  <1> HIDE DEF h1, h2, h3, op
  <1>10. ZeroHdr.sig = "zero"
    BY DEF ZeroHdr
  <1>12. CASE r = outcome("repaired", h2, op) /\ CsumOk(h2) /\ t # "unknown"
    <2>1. r.res = "repaired" /\ r.hdr = k2 /\ r.type = t /\ r.bttc = btt
      BY <1>5, <1>12
    <2>2. HdrConsistent(k2)
      BY <1>0, <1>2, <1>5, <1>8, <1>10, <1>12 DEF HdrConsistent
    <2>3. ncrash = 0 => k2.sig = file.type /\ k2.bad = {} /\ k2.uuid = "u"
      BY <1>0, <1>2, <1>5, <1>8, <1>12, IntactHdr DEF Fresh
    <2> QED BY <1>0, <1>2, <1>3, <1>11, <1>12, <2>1, <2>2, <2>3
  <1>13. CASE r = outcome("repaired", Sealed(h3), "regenerated") /\ t # "unknown"
    <2>1. r.res = "repaired" /\ r.hdr = Sealed(k3) /\ r.type = t /\ r.bttc = btt /\ r.op = "regenerated"
      BY <1>5, <1>13
    <2>2. HdrConsistent(Sealed(k3))
      BY <1>0, <1>2, <1>7, <1>10, <1>13 DEF HdrConsistent
    <2>3. no = {} => Sealed(k3).sig = t /\ Sealed(k3).bad = {}
      BY <1>7
    <2> QED BY <1>0, <1>2, <1>3, <1>11, <1>13, <2>1, <2>2, <2>3
  <1>14. CASE r = outcome("cannot_repair", hdr, op)
    <2>1. r.res = "cannot_repair" /\ r.hdr = hdr /\ r.type = t /\ r.bttc = btt
      BY <1>14
    <2> QED BY <1>0, <1>2, <1>3, <2>1
  <1>15. CASE r = outcome("cannot_repair", h2, op) /\ t # "unknown"
    <2>1. r.res = "cannot_repair" /\ r.hdr = k2 /\ r.type = t /\ r.bttc = btt
      BY <1>5, <1>15
    <2> QED BY <1>0, <1>2, <1>3, <1>11, <1>15, <2>1
  <1> QED BY <1>1, <1>12, <1>13, <1>14, <1>15

\* How pmempool_check_single_step ends a step.
LEMMA Finishing ==
  ASSUME NEW r, NEW t, Finish(r, t)
  PROVE  /\ at' = 1
         /\ r \in {"cannot_repair", "error"} => step' = "idle" /\ exit' = "fail"
         /\ r = "not_consistent" /\ ~ opt.repair => step' = "idle" /\ exit' = "fail"
         /\ \/ step' = "idle"
            \/ /\ step' = After(step, t) /\ exit' = exit /\ After(step, t) # "end"
               /\ r \notin {"break", "cannot_repair", "error"}
               /\ r = "not_consistent" => opt.repair
         /\ r \in {"consistent", "repaired"} /\ After(step, t) # "end" => step' = After(step, t) /\ exit' = exit
  BY DEF Finish, Stops, ExitCode

LEMMA Follows ==
  /\ After("pool_hdr", "log") = "pmemlog" /\ After("pool_hdr", "blk") = "pmemblk"
  /\ After("pmemlog", "log") = "write_log" /\ After("pmemblk", "blk") = "btt_info"
  /\ After("btt_info", "blk") = "map_flog" /\ After("map_flog", "blk") = "write_blk"
  /\ After("write_log", "log") = "end" /\ After("write_blk", "blk") = "end"
  /\ After("sync_log", "log") = "end" /\ After("sync_map", "blk") = "end"
  /\ \A s, t : t \notin {"log", "blk"} => After(s, t) = "end"
  BY DEF After

LEMMA CheckStarts ==
  ASSUME CheckInv, NEW o \in Options, pmempool_check_func(o)
  PROVE  CheckInv'
  <1>1. /\ step \in {"idle", "died"} /\ nruns = ncrash /\ opt' = o
        /\ ptype' = pmem_pool_type_parse_hdr(file.hdr) /\ bttc' = Info("bad", "zero")
        /\ hdr' = file.hdr /\ arenas' = << >> /\ step' = "pool_hdr" /\ exit' = "none"
        /\ orig' = file /\ nruns' = nruns + 1 /\ file' = file /\ seen' = seen /\ ncrash' = ncrash
    BY DEF pmempool_check_func
  <1>2. CheckTypes /\ Origin
    BY DEF CheckInv
  <1>3. seen = file /\ (ncrash = 0 => Fresh(file))
    BY <1>1, <1>2 DEF Origin
  <1>4. Info("bad", "zero") \in Infos /\ Info("bad", "zero").st # "ok"
    BY DEF Info, Infos, Uuids
  <1>5. FileTyped(file) /\ HdrTyped(file.hdr, file.type) /\ nruns \in Nat /\ ncrash \in Nat
    BY <1>2 DEF CheckTypes, FileTyped
  <1>6. ptype' \in {"log", "blk"} => ptype' = file.type
    BY <1>1, <1>5 DEF pmem_pool_type_parse_hdr, HdrTyped, FileTyped
  <1>7. CheckTypes'
    <2>1. nruns + 1 \in Nat
      BY <1>5
    <2> QED BY <1>1, <1>3, <1>4, <1>5, <1>6, <2>1 DEF CheckTypes
  <1>8. Origin'
    <2>1. nruns' # 0
      BY <1>1, <1>5
    <2> QED BY <1>1, <1>3, <1>4, <2>1 DEF Origin
  <1>9. HdrReady' /\ ArenasReady' /\ Writing' /\ Promise'
    BY <1>1 DEF HdrReady, BlkSteps, BlkOut, LogSteps, ArenasReady, Writing, Promise, RepairDone
  <1> QED BY <1>7, <1>8, <1>9 DEF CheckInv

\* A step that leaves the file alone, from an examining step to another one
\* or to the end.
Examining == {"pool_hdr", "pmemlog", "pmemblk", "btt_info", "map_flog", "write_blk", "write_log"}
LEMMA FileLeftAlone ==
  ASSUME CheckInv, UNCHANGED <<file, orig, seen, nruns, ncrash>>, step \in Examining, step' \in Examining \cup {"idle", "died"},
         HdrTyped(hdr', file.type), bttc' \in Infos, ncrash = 0 /\ bttc'.st = "ok" => bttc'.uuid = "u",
         ptype' \in {"log", "blk"} => ptype' = file.type
  PROVE  CheckTypes' /\ Origin'
  <1>1. CheckTypes /\ Origin
    BY DEF CheckInv
  <1>2. CheckTypes'
    BY <1>1 DEF CheckTypes, Examining, BlkSteps, BlkOut, LogSteps
  <1>3. Origin'
    BY <1>1 DEF Origin, Examining, Unwritten
  <1> QED BY <1>2, <1>3

LEMMA CheckPoolHdr ==
  ASSUME CheckInv, NEW no, opt.yes => no = {}, pmempool_check_pool_hdr(no)
  PROVE  CheckInv'
  <1> DEFINE good == [res |-> "consistent", hdr |-> hdr, type |-> ptype, op |-> uuid_op, bttc |-> bttc]
             bad  == [res |-> "not_consistent", hdr |-> hdr, type |-> ptype, op |-> uuid_op, bttc |-> bttc]
             r    == IF HdrConsistent(hdr) THEN good ELSE IF ~ opt.repair THEN bad ELSE RepairedHdr(no)
  <1>1. /\ step = "pool_hdr" /\ hdr' = r.hdr /\ ptype' = r.type /\ uuid_op' = r.op /\ bttc' = r.bttc
        /\ Finish(r.res, r.type)
        /\ UNCHANGED <<file, orig, opt, log, bsize, arenas, seen, nruns, ncrash>>
    BY DEF pmempool_check_pool_hdr
  <1>2. CheckTypes /\ Origin /\ HdrReady
    BY DEF CheckInv
  <1>3. file = orig /\ hdr = orig.hdr /\ arenas = << >>
    BY <1>1, <1>2 DEF Origin, HdrReady, Unwritten
  <1>4. /\ HdrTyped(hdr', file.type) /\ bttc' \in Infos /\ (ncrash = 0 /\ bttc'.st = "ok" => bttc'.uuid = "u")
        /\ (ptype' \in {"log", "blk"} => ptype' = file.type)
        /\ r.res \in {"consistent", "repaired"} =>
             /\ HdrConsistent(hdr')
             /\ ncrash = 0 /\ opt.yes =>
                  hdr'.sig = file.type /\ hdr'.bad = {} /\ (uuid_op' = "regenerated" \/ hdr'.uuid = "u")
        /\ r.res = "not_consistent" => ~ opt.repair
        /\ r.res \in {"consistent", "repaired", "not_consistent", "cannot_repair"}
    <2>1. CASE HdrConsistent(hdr)
      <3>1. r = good
        BY <2>1
      <3>2. r.res = "consistent" /\ hdr' = hdr /\ ptype' = ptype /\ uuid_op' = uuid_op /\ bttc' = bttc
        BY <1>1, <3>1
      <3>3. ncrash = 0 => hdr.sig = file.type /\ hdr.bad = {} /\ hdr.uuid = "u"
        <4>1. hdr.sig # "?" /\ CsumOk(hdr) /\ (ncrash = 0 => hdr.csum \in {Body(GoodHdr(file.type)), NoBody})
          BY <1>2, <1>3, <2>1 DEF CheckTypes, FileTyped, HdrTyped, HdrConsistent, Origin, Fresh
        <4> QED BY <4>1, IntactHdr
      <3> QED BY <1>2, <2>1, <3>2, <3>3 DEF CheckTypes, Origin
    <2>2. CASE ~ HdrConsistent(hdr) /\ ~ opt.repair
      <3>1. r = bad
        BY <2>2
      <3>2. r.res = "not_consistent" /\ hdr' = hdr /\ ptype' = ptype /\ uuid_op' = uuid_op /\ bttc' = bttc
        BY <1>1, <3>1
      <3> QED BY <1>2, <2>2, <3>2 DEF CheckTypes, Origin
    <2>3. CASE ~ HdrConsistent(hdr) /\ opt.repair
      <3>1. PICK q : q = RepairedHdr(no)
        OBVIOUS
      <3>2. r = q
        BY <2>3, <3>1
      <3>3. hdr' = q.hdr /\ ptype' = q.type /\ uuid_op' = q.op /\ bttc' = q.bttc /\ r.res = q.res
        BY <1>1, <3>2
      <3> HIDE DEF r
      <3>4. /\ q.res \in {"cannot_repair", "repaired"} /\ HdrTyped(q.hdr, file.type) /\ q.bttc \in Infos
            /\ ncrash = 0 /\ q.bttc.st = "ok" => q.bttc.uuid = "u"
            /\ q.type \in {"log", "blk"} => q.type = file.type
            /\ q.res = "repaired" =>
                 /\ HdrConsistent(q.hdr) /\ q.type \in {"log", "blk"}
                 /\ ncrash = 0 /\ no = {} =>
                      q.hdr.sig = file.type /\ q.hdr.bad = {} /\ (q.op = "regenerated" \/ q.hdr.uuid = "u")
        BY <1>2, <1>3, <3>1, HdrRepaired
      <3> QED BY <3>3, <3>4
    <2> QED BY <2>1, <2>2, <2>3
  <1>5. r.type = ptype'
    BY <1>1
  <1> HIDE DEF r
  <1>6. \/ step' = "idle"
        \/ /\ step' \in {"pmemlog", "pmemblk"} /\ r.res \in {"consistent", "repaired"}
           /\ step' = "pmemlog" => ptype' = "log"
           /\ step' = "pmemblk" => ptype' = "blk"
    BY <1>1, <1>4, <1>5, Finishing, Follows
  <1>7. exit' # "ok" \/ step' # "idle" \/ ptype' \notin {"log", "blk"}
    BY <1>1, <1>4, <1>5, Finishing, Follows
  <1>8. CheckTypes' /\ Origin'
    BY <1>1, <1>4, <1>6, FileLeftAlone DEF Examining
  <1>9. HdrReady'
    BY <1>1, <1>3, <1>4, <1>6 DEF HdrReady, LogSteps, BlkSteps, BlkOut
  <1>10. ArenasReady' /\ Writing'
    BY <1>6 DEF ArenasReady, Writing, BlkOut
  <1>11. Promise'
    BY <1>7, NoPromise
  <1> QED BY <1>8, <1>9, <1>10, <1>11 DEF CheckInv

LEMMA CheckPmemlog ==
  ASSUME CheckInv, NEW no, pmempool_check_pmemlog(no)
  PROVE  CheckInv'
  <1> DEFINE bad == BadLog(log)
             r   == IF bad = {} THEN "consistent" ELSE IF ~ opt.repair THEN "not_consistent"
                    ELSE IF bad \cap no # {} THEN "cannot_repair" ELSE "repaired"
  <1>1. /\ step = "pmemlog" /\ log' = (IF r = "repaired" THEN FixedLog(log) ELSE log) /\ Finish(r, ptype)
        /\ UNCHANGED <<file, orig, opt, ptype, uuid_op, bttc, hdr, bsize, arenas, seen, nruns, ncrash>>
    BY DEF pmempool_check_pmemlog
  <1>2. CheckTypes /\ Origin /\ HdrReady
    BY DEF CheckInv
  <1>3. ptype = "log"
    BY <1>1, <1>2 DEF HdrReady, LogSteps
  <1>4. BadLog(FixedLog(log)) = {}
    <2>1. LogSize \in LogStart .. LogSize
      BY CheckAssumption
    <2>2. CASE log.write \in LogStart .. LogSize
      <3>1. "write" \notin BadLog(log)
        BY <2>2 DEF BadLog
      <3>2. FixedLog(log) = [start |-> LogStart, end |-> LogSize, write |-> log.write]
        BY <3>1 DEF FixedLog
      <3> QED BY <2>2, <3>2 DEF BadLog
    <2>3. CASE log.write \notin LogStart .. LogSize
      <3>1. "write" \in BadLog(log)
        BY <2>3 DEF BadLog
      <3>2. FixedLog(log) = [start |-> LogStart, end |-> LogSize, write |-> LogSize]
        BY <3>1 DEF FixedLog
      <3> QED BY <2>1, <3>2 DEF BadLog
    <2> QED BY <2>2, <2>3
  <1>5. \/ step' = "idle" /\ exit' # "ok"
        \/ step' = "write_log" /\ BadLog(log') = {}
    <2>1. CASE bad = {}
      BY <1>1, <1>3, <2>1, Finishing, Follows
    <2>2. CASE bad # {} /\ ~ opt.repair
      <3>1. r = "not_consistent"
        BY <2>2
      <3> QED BY <1>1, <2>2, <3>1, Finishing
    <2>3. CASE bad # {} /\ opt.repair /\ bad \cap no # {}
      <3>1. r = "cannot_repair"
        BY <2>3
      <3> QED BY <1>1, <3>1, Finishing
    <2>4. CASE bad # {} /\ opt.repair /\ bad \cap no = {}
      <3>1. r = "repaired"
        BY <2>4
      <3> QED BY <1>1, <1>3, <1>4, <3>1, Finishing, Follows
    <2> QED BY <2>1, <2>2, <2>3, <2>4
  <1> HIDE DEF r
  <1>6. CheckTypes' /\ Origin'
    BY <1>1, <1>2, <1>5, FileLeftAlone DEF Examining, CheckTypes, Origin
  <1>7. HdrReady'
    BY <1>1, <1>2, <1>3, <1>5 DEF HdrReady, LogSteps, BlkSteps, BlkOut
  <1>8. ArenasReady' /\ Writing' /\ Promise'
    BY <1>5, NoPromise DEF ArenasReady, Writing, BlkOut
  <1> QED BY <1>6, <1>7, <1>8 DEF CheckInv

LEMMA CheckPmemblk ==
  ASSUME CheckInv, NEW no, pmempool_check_pmemblk(no)
  PROVE  CheckInv'
  <1> DEFINE btt == IF bttc.st # "ok" /\ FirstValidBtt(0) >= 0 THEN InfoAt(FirstValidBtt(0)) ELSE bttc
             r   == IF btt.st = "ok"
                      THEN IF bsize = btt.bsize THEN "consistent" ELSE IF ~ opt.repair THEN "not_consistent"
                           ELSE IF "bsize" \in no THEN "cannot_repair" ELSE "repaired"
                      ELSE IF bsize = 0 THEN "cannot_repair" ELSE "consistent"
  <1>1. /\ step = "pmemblk" /\ bttc' = btt /\ bsize' = (IF r = "repaired" THEN btt.bsize ELSE bsize)
        /\ Finish(r, ptype)
        /\ UNCHANGED <<file, orig, opt, ptype, uuid_op, hdr, log, arenas, seen, nruns, ncrash>>
    BY DEF pmempool_check_pmemblk
  <1>2. CheckTypes /\ Origin /\ HdrReady
    BY DEF CheckInv
  <1>3. ptype = "blk" /\ arenas = << >> /\ file = orig
    BY <1>1, <1>2 DEF HdrReady, BlkSteps, BlkOut, Origin, Unwritten
  <1>4. btt \in Infos /\ (ncrash = 0 /\ btt.st = "ok" => btt.uuid = "u")
    <2>0. FileTyped(file) /\ (ncrash = 0 => Fresh(file)) /\ 0 \in Nat
      BY <1>2, <1>3 DEF CheckTypes, Origin
    <2>1. CASE bttc.st # "ok" /\ FirstValidBtt(0) >= 0
      <3>1. FirstValidBtt(0) # -1 /\ btt = InfoAt(FirstValidBtt(0))
        BY <2>1
      <3> QED BY <2>0, <3>1, ValidBtt, FreshBtt
    <2>2. CASE ~ (bttc.st # "ok" /\ FirstValidBtt(0) >= 0)
      BY <1>2, <2>2 DEF CheckTypes, Origin
    <2> QED BY <2>1, <2>2
  <1> HIDE DEF btt
  <1>5. btt.bsize = 1
    BY <1>4 DEF Infos
  <1>6. \/ step' = "idle" /\ exit' # "ok"
        \/ step' = "btt_info" /\ bsize' # 0
    <2>1. CASE r = "consistent"
      <3>1. bsize # 0 /\ bsize' = bsize
        BY <1>1, <1>5, <2>1
      <3> QED BY <1>1, <1>3, <2>1, <3>1, Finishing, Follows
    <2>2. CASE r = "not_consistent" /\ ~ opt.repair
      BY <1>1, <2>2, Finishing
    <2>3. CASE r = "cannot_repair"
      BY <1>1, <2>3, Finishing
    <2>4. CASE r = "repaired"
      <3>1. bsize' # 0
        BY <1>1, <1>5, <2>4
      <3> QED BY <1>1, <1>3, <2>4, <3>1, Finishing, Follows
    <2> QED BY <2>1, <2>2, <2>3, <2>4
  <1> HIDE DEF r
  <1>7. CheckTypes' /\ Origin'
    BY <1>1, <1>2, <1>4, <1>6, FileLeftAlone DEF Examining, CheckTypes
  <1>8. at' = 1 /\ 1 \in ArenaIdx
    BY <1>1, Finishing, CheckAssumption DEF ArenaIdx
  <1>9. HdrReady'
    BY <1>1, <1>2, <1>3, <1>6, <1>8 DEF HdrReady, LogSteps, BlkSteps, BlkOut
  <1>10. ArenasReady'
    <2>1. << >> \in [1 .. 0 -> Kept]
      OBVIOUS
    <2>2. 1 - 1 = 0 /\ 1 .. 0 = {}
      OBVIOUS
    <2>3. (Collected(at - 1) /\ \A k \in 1 .. at - 1 : Unrepaired(k))'
      BY <1>1, <1>3, <1>8, <2>1, <2>2 DEF Collected
    <2> QED BY <1>6, <2>3 DEF ArenasReady, BlkOut
  <1>11. Writing' /\ Promise'
    BY <1>6, NoPromise DEF Writing, BlkOut
  <1> QED BY <1>7, <1>9, <1>10, <1>11 DEF CheckInv

\* What FirstValidBtt finds right behind an arena's primary is its backup.
LEMMA BackupFound ==
  ASSUME FileTyped(file), NEW a \in ArenaIdx, HasBackup(a)
  PROVE  file.arenas[a].info2.st = "ok"
  <1>1. a \in Nat /\ a >= 1 /\ 2 * a - 1 \in Nat /\ 2 * a - 1 # -1
    BY CheckAssumption DEF ArenaIdx
  <1>2. FirstValidBtt(2 * a - 1) = 2 * a - 1
    BY DEF HasBackup
  <1>3. InfoAt(2 * a - 1).st = "ok"
    BY <1>1, <1>2, ValidBtt
  <1>4. (2 * a - 1) % 2 # 0 /\ (2 * a - 1) \div 2 + 1 = a
    BY <1>1
  <1> QED BY <1>3, <1>4 DEF InfoAt

LEMMA CheckBttInfo ==
  ASSUME CheckInv, NEW no, BttInfo(no)
  PROVE  CheckInv'
  <1> DEFINE p    == file.arenas[at].info
             lost == p.st # "ok"
             info == IF lost THEN file.arenas[at].info2 ELSE p
             new  == [idx |-> at, info |-> info, map |-> file.arenas[at].map, flog |-> file.arenas[at].flog]
  <1>1. /\ step = "btt_info" /\ arenas' = Append(arenas, new)
        /\ IF at < NArenas
             THEN at' = at + 1 /\ UNCHANGED <<step, exit>>
             ELSE Finish(IF lost THEN "repaired" ELSE "consistent", ptype)
        /\ UNCHANGED <<file, orig, opt, ptype, uuid_op, bttc, hdr, log, bsize, seen, nruns, ncrash>>
    BY DEF BttInfo, Keep, pmempool_check_read_map, pmempool_check_read_flog
  <1>2. lost => HasBackup(at)
    BY DEF BttInfo
  <1>3. CheckTypes /\ Origin /\ HdrReady /\ ArenasReady
    BY DEF CheckInv
  <1>4. ptype = "blk" /\ file = orig /\ at \in ArenaIdx /\ FileTyped(file) /\ ptype = file.type
    BY <1>1, <1>3 DEF HdrReady, BlkSteps, BlkOut, Origin, Unwritten, CheckTypes
  <1>5. Collected(at - 1) /\ \A k \in 1 .. at - 1 : Unrepaired(k)
    BY <1>1, <1>3 DEF ArenasReady, BlkOut
  <1>6. file.arenas[at] \in Arena
    BY <1>4 DEF FileTyped
  <1>7. info.st = "ok" /\ info \in Infos /\ info \in {orig.arenas[at].info, orig.arenas[at].info2}
    BY <1>2, <1>4, <1>6, BackupFound DEF Arena
  <1> HIDE DEF info
  <1>8. new \in Kept /\ new.idx = at /\ new.info = info /\ new.map = orig.arenas[at].map /\ new.flog = orig.arenas[at].flog
    BY <1>4, <1>6, <1>7 DEF Kept, Arena
  <1> HIDE DEF new
  <1>9. at \in Nat /\ at >= 1 /\ at <= NArenas /\ NArenas \in Nat /\ at - 1 \in Nat
    BY <1>4, CheckAssumption DEF ArenaIdx
  <1>10. arenas \in [1 .. at - 1 -> Kept]
    BY <1>5 DEF Collected
  <1>11. /\ arenas' \in [1 .. at -> Kept] /\ arenas'[at] = new
         /\ \A k \in 1 .. at - 1 : arenas'[k] = arenas[k]
    <2>1. arenas \in Seq(Kept) /\ Len(arenas) = at - 1
      BY <1>9, <1>10
    <2>2. arenas' \in Seq(Kept) /\ Len(arenas') = at /\ arenas'[at] = new
      BY <1>1, <1>8, <1>9, <2>1
    <2>3. \A k \in 1 .. at - 1 : arenas'[k] = arenas[k]
      BY <1>1, <1>9, <2>1
    <2> QED BY <2>2, <2>3
  <1>12. /\ \A k \in 1 .. at : /\ arenas'[k].idx = k /\ arenas'[k].info.st = "ok"
                               /\ arenas'[k].info \in {orig.arenas[k].info, orig.arenas[k].info2}
                               /\ arenas'[k].map = orig.arenas[k].map /\ arenas'[k].flog = orig.arenas[k].flog
    <2> SUFFICES ASSUME NEW k \in 1 .. at
                 PROVE  /\ arenas'[k].idx = k /\ arenas'[k].info.st = "ok"
                        /\ arenas'[k].info \in {orig.arenas[k].info, orig.arenas[k].info2}
                        /\ arenas'[k].map = orig.arenas[k].map /\ arenas'[k].flog = orig.arenas[k].flog
      OBVIOUS
    <2>1. CASE k = at
      BY <1>7, <1>8, <1>11, <2>1
    <2>2. CASE k # at
      <3>1. k \in 1 .. at - 1
        BY <1>9, <2>2
      <3> QED BY <1>5, <1>11, <3>1 DEF Collected, Unrepaired
    <2> QED BY <2>1, <2>2
  <1>13. CASE at < NArenas
    <2>1. at' = at + 1 /\ step' = "btt_info" /\ at' - 1 = at /\ at' \in ArenaIdx
      BY <1>1, <1>9, <1>13 DEF ArenaIdx
    <2>2. CheckTypes' /\ Origin'
      BY <1>1, <1>3, <2>1, FileLeftAlone DEF Examining, CheckTypes, Origin
    <2>3. HdrReady'
      BY <1>1, <1>3, <1>4, <2>1 DEF HdrReady, LogSteps, BlkSteps, BlkOut
    <2>4. ArenasReady'
      BY <1>1, <1>11, <1>12, <2>1 DEF ArenasReady, Collected, Unrepaired, BlkOut
    <2>5. Writing' /\ Promise'
      BY <2>1, NoPromise DEF Writing, BlkOut
    <2> QED BY <2>2, <2>3, <2>4, <2>5 DEF CheckInv
  <1>14. CASE ~ (at < NArenas)
    <2>1. at' = 1 /\ step' = "map_flog" /\ at = NArenas /\ 1 \in ArenaIdx
      BY <1>1, <1>4, <1>9, <1>14, Finishing, Follows DEF ArenaIdx
    <2>2. CheckTypes' /\ Origin'
      BY <1>1, <1>3, <2>1, FileLeftAlone DEF Examining, CheckTypes, Origin
    <2>3. HdrReady'
      BY <1>1, <1>3, <1>4, <2>1 DEF HdrReady, LogSteps, BlkSteps, BlkOut
    <2>4. ArenasReady'
      BY <1>1, <1>9, <1>11, <1>12, <2>1 DEF ArenasReady, Collected, Unrepaired, BlkOut
    <2>5. Writing' /\ Promise'
      BY <2>1, NoPromise DEF Writing, BlkOut
    <2> QED BY <2>2, <2>3, <2>4, <2>5 DEF CheckInv
  <1> QED BY <1>13, <1>14

LEMMA CheckBttInfoBad ==
  ASSUME CheckInv, NEW no, BttInfoBad(no)
  PROVE  CheckInv'
  <1> DEFINE p == file.arenas[at].info
             r == IF p.st = "zero" THEN "break" ELSE IF ~ opt.repair THEN "not_consistent" ELSE "cannot_repair"
  <1>1. /\ step = "btt_info" /\ Finish(r, ptype)
        /\ UNCHANGED <<file, orig, opt, ptype, uuid_op, bttc, hdr, log, bsize, arenas, seen, nruns, ncrash>>
    BY DEF BttInfoBad, tool
  <1>2. CheckTypes /\ Origin /\ HdrReady
    BY DEF CheckInv
  <1>3. ptype = "blk" /\ file = orig /\ at \in ArenaIdx /\ FileTyped(file) /\ file.type = "blk"
    BY <1>1, <1>2 DEF HdrReady, BlkSteps, BlkOut, Origin, Unwritten, CheckTypes
  <1>4. step' = "idle" /\ (exit' # "ok" \/ p.st = "zero")
    <2>1. CASE p.st = "zero"
      <3>1. Finish("break", ptype)
        BY <1>1, <2>1
      <3> QED BY <2>1, <3>1 DEF Finish, Stops
    <2>2. CASE p.st # "zero"
      BY <1>1, <2>2, Finishing
    <2> QED BY <2>1, <2>2
  <1>5. CheckTypes' /\ Origin'
    BY <1>1, <1>2, <1>4, FileLeftAlone DEF Examining, CheckTypes, Origin
  <1>6. HdrReady' /\ ArenasReady' /\ Writing'
    BY <1>4 DEF HdrReady, LogSteps, BlkSteps, BlkOut, ArenasReady, Writing
  <1>7. Promise'
    <2>1. CASE exit' # "ok"
      BY <2>1, NoPromise
    <2>2. CASE p.st = "zero"
      <3>1. DOMAIN orig.arenas = ArenaIdx
        BY <1>3 DEF FileTyped
      <3>2. ~ Written(orig)
        BY <1>3, <2>2, <3>1 DEF Written
      <3> QED BY <1>1, <3>2 DEF Promise, Written
    <2> QED BY <1>4, <2>1, <2>2
  <1> QED BY <1>5, <1>6, <1>7 DEF CheckInv

LEMMA CheckAdvanced ==
  ASSUME CheckInv, NEW no, AdvancedRepair(no)
  PROVE  CheckInv'
  <1>1. /\ step = "btt_info" /\ step' = "died"
        /\ UNCHANGED <<file, orig, opt, ptype, uuid_op, bttc, hdr, log, bsize, arenas, seen, nruns, ncrash>>
    BY DEF AdvancedRepair, tool
  <1>2. CheckTypes /\ Origin
    BY DEF CheckInv
  <1>3. CheckTypes' /\ Origin'
    BY <1>1, <1>2, FileLeftAlone DEF Examining, CheckTypes, Origin
  <1>4. HdrReady' /\ ArenasReady' /\ Writing' /\ Promise'
    BY <1>1, NoPromise DEF HdrReady, LogSteps, BlkSteps, BlkOut, ArenasReady, Writing
  <1> QED BY <1>3, <1>4 DEF CheckInv

\* Repairing the tool's copy of an arena changes nothing but map and flog.
LEMMA RepairedKept ==
  ASSUME NEW ar \in Kept, NEW w, InvalidFlog(ar.map, ar.flog, w) = Unusable(ar.map, ar.flog),
         NEW r, r = RepairedArena(ar, w)
  PROVE  /\ r \in Kept /\ r.idx = ar.idx /\ r.info = ar.info /\ NoInvalid(r.map, r.flog)
         /\ \A x \in Premap \ InvalidMap(ar.map) : r.map[x] = ar.map[x]
  <1>1. /\ ar = [idx |-> ar.idx, info |-> ar.info, map |-> ar.map, flog |-> ar.flog]
        /\ ar.idx \in ArenaIdx /\ ar.info \in Infos
        /\ ar.map \in [Premap -> MapEntry] /\ ar.flog \in [Lanes -> Pair] /\ {"map", "flog"} \subseteq DOMAIN ar
    BY DEF Kept
  <1>2. MapTyped(ar.map) /\ FlogTyped(ar.flog)
    BY <1>1, ShapesTyped
  <1>3. /\ NoInvalid(r.map, r.flog)
        /\ \A x \in Premap \ InvalidMap(ar.map) : r.map[x] = ar.map[x]
        /\ \A x \in Premap : r.map[x] = ar.map[x] \/ \E b \in Nat : r.map[x] = [post |-> b, flag |-> "error"]
        /\ \A l \in Lanes : r.flog[l] = ar.flog[l] \/ \E b \in Nat : r.flog[l] = [a |-> Slot(1, b), b |-> Slot(0, 0)]
    BY <1>1, <1>2, RepairedIsValid
  <1> DEFINE m == [x \in Premap |-> IF x \in InvalidMap(ar.map)
                     THEN [post |-> Popped(Unmapped(ar.map, ar.flog), PositionIn(InvalidMap(ar.map), x)), flag |-> "error"]
                     ELSE ar.map[x]]
             g == [l \in Lanes |-> IF l \in InvalidFlog(ar.map, ar.flog, w)
                     THEN [a |-> Slot(1, Popped(Unmapped(ar.map, ar.flog),
                                                Cardinality(InvalidMap(ar.map)) + PositionIn(InvalidFlog(ar.map, ar.flog, w), l))),
                           b |-> Slot(0, 0)]
                     ELSE ar.flog[l]]
  <1>4. r = [ar EXCEPT !.map = m, !.flog = g]
    BY DEF RepairedArena
  <1>5. DOMAIN m = Premap /\ m = [x \in Premap |-> m[x]] /\ DOMAIN g = Lanes /\ g = [l \in Lanes |-> g[l]]
    OBVIOUS
  <1> HIDE DEF m, g
  <1>6. PICK k : k = [ar EXCEPT !.map = m]
    OBVIOUS
  <1>7. k = [idx |-> ar.idx, info |-> ar.info, map |-> m, flog |-> ar.flog]
    BY <1>1, <1>6
  <1>8. r = [idx |-> ar.idx, info |-> ar.info, map |-> m, flog |-> g]
    BY <1>4, <1>6, <1>7
  <1>9. m \in [Premap -> MapEntry]
    <2> SUFFICES ASSUME NEW x \in Premap PROVE m[x] \in MapEntry
      BY <1>5
    <2>1. r.map = m /\ ar.map[x] \in MapEntry
      BY <1>1, <1>8
    <2>2. \A b \in Nat : [post |-> b, flag |-> "error"] \in MapEntry
      BY DEF MapEntry
    <2> QED BY <1>3, <2>1, <2>2
  <1>10. g \in [Lanes -> Pair]
    <2> SUFFICES ASSUME NEW l \in Lanes PROVE g[l] \in Pair
      BY <1>5
    <2>1. r.flog = g /\ ar.flog[l] \in Pair
      BY <1>1, <1>8
    <2>2. \A b \in Nat : [a |-> Slot(1, b), b |-> Slot(0, 0)] \in Pair
      BY DEF Pair, Slot
    <2> QED BY <1>3, <2>1, <2>2
  <1>11. r \in Kept /\ r.idx = ar.idx /\ r.info = ar.info
    BY <1>1, <1>8, <1>9, <1>10 DEF Kept
  <1> QED BY <1>3, <1>11

LEMMA CheckMapFlogDies ==
  ASSUME CheckInv, MapFlogDies
  PROVE  CheckInv'
  <1>1. /\ step = "map_flog" /\ step' = "died"
        /\ UNCHANGED <<file, orig, opt, ptype, uuid_op, bttc, hdr, log, bsize, arenas, seen, nruns, ncrash>>
    BY DEF MapFlogDies, tool
  <1>2. CheckTypes /\ Origin
    BY DEF CheckInv
  <1>3. CheckTypes' /\ Origin'
    BY <1>1, <1>2, FileLeftAlone DEF Examining, CheckTypes, Origin
  <1>4. HdrReady' /\ ArenasReady' /\ Writing' /\ Promise'
    BY <1>1, NoPromise DEF HdrReady, LogSteps, BlkSteps, BlkOut, ArenasReady, Writing
  <1> QED BY <1>3, <1>4 DEF CheckInv

LEMMA CheckMapFlog ==
  ASSUME CheckInv, NEW no, NEW w, step = "map_flog", w \subseteq Wild(arenas[at].flog), MapFlog(no, w)
  PROVE  CheckInv'
  <1> DEFINE ar == arenas[at]
             im == InvalidMap(ar.map)
             ig == InvalidFlog(ar.map, ar.flog, w)
             un == Unmapped(ar.map, ar.flog)
             r  == IF ~ opt.repair /\ un # {} THEN "not_consistent"
                   ELSE IF Cardinality(un) # Cardinality(im) + Cardinality(ig) THEN "cannot_repair"
                   ELSE IF (im # {} /\ "map" \in no) \/ (ig # {} /\ "flog" \in no) THEN "cannot_repair"
                   ELSE "consistent"
  <1>1. /\ step = "map_flog"
        /\ arenas' = (IF r = "consistent" /\ opt.repair THEN [arenas EXCEPT ![at] = RepairedArena(ar, w)] ELSE arenas)
        /\ IF r = "consistent" /\ at < Len(arenas)
             THEN at' = at + 1 /\ UNCHANGED <<step, result, exit>>
             ELSE Finish(r, ptype)
        /\ UNCHANGED <<file, orig, opt, ptype, uuid_op, bttc, hdr, log, bsize, seen, nruns, ncrash>>
    BY DEF MapFlog
  <1>2. r \in {"not_consistent", "cannot_repair", "consistent"} /\ (r = "not_consistent" => ~ opt.repair)
    OBVIOUS
  <1>3. PICK s : s = r
    OBVIOUS
  <1>4. CheckTypes /\ Origin /\ HdrReady /\ ArenasReady
    BY DEF CheckInv
  <1>5. ptype = "blk" /\ at \in ArenaIdx
    BY <1>1, <1>4 DEF HdrReady, BlkSteps, BlkOut
  <1>6. Collected(NArenas) /\ \A k \in 1 .. NArenas : IF k < at THEN opt.repair => Mended(k) ELSE Unrepaired(k)
    BY <1>1, <1>4 DEF ArenasReady, BlkOut
  <1>7. at \in Nat /\ at >= 1 /\ at <= NArenas /\ NArenas \in Nat
    BY <1>5, CheckAssumption DEF ArenaIdx
  <1>8. arenas \in [1 .. NArenas -> Kept] /\ Len(arenas) = NArenas
    <2>1. arenas \in [1 .. NArenas -> Kept]
      BY <1>6 DEF Collected
    <2> QED BY <1>7, <2>1
  <1> HIDE DEF r
  <1>9. CASE s # "consistent"
    <2>1. step' = "idle" /\ exit' # "ok"
      BY <1>1, <1>2, <1>3, <1>9, Finishing
    <2>2. CheckTypes' /\ Origin'
      BY <1>1, <1>4, <2>1, FileLeftAlone DEF Examining, CheckTypes, Origin
    <2>3. HdrReady' /\ ArenasReady' /\ Writing' /\ Promise'
      BY <2>1, NoPromise DEF HdrReady, LogSteps, BlkSteps, BlkOut, ArenasReady, Writing
    <2> QED BY <2>2, <2>3 DEF CheckInv
  <1>10. CASE s = "consistent"
    <2>1. PICK new : new = RepairedArena(ar, w)
      OBVIOUS
    <2>2. arenas' = IF opt.repair THEN [arenas EXCEPT ![at] = new] ELSE arenas
      BY <1>1, <1>3, <1>10, <2>1
    <2>3. ar \in Kept
      BY <1>5, <1>8 DEF ArenaIdx
    <2>f. ig = Unusable(ar.map, ar.flog)
      <3>1. ar.map \in [Premap -> MapEntry] /\ ar.flog \in [Lanes -> Pair]
        BY <2>3 DEF Kept
      <3>2. MapTyped(ar.map) /\ FlogTyped(ar.flog)
        BY <3>1, ShapesTyped
      <3>3. Cardinality(un) = Cardinality(im) + Cardinality(ig)
        BY <1>3, <1>10 DEF r
      <3> QED BY <3>2, <3>3, FindsUnusable
    <2> HIDE DEF ar
    <2>4. /\ new \in Kept /\ new.idx = ar.idx /\ new.info = ar.info /\ NoInvalid(new.map, new.flog)
          /\ \A x \in Premap \ InvalidMap(ar.map) : new.map[x] = ar.map[x]
      BY <2>1, <2>3, <2>f, RepairedKept
    <2>5. ar = arenas[at]
      BY DEF ar
    <2>6. /\ arenas' \in [1 .. NArenas -> Kept]
          /\ \A k \in 1 .. NArenas : k # at => arenas'[k] = arenas[k]
          /\ opt.repair => arenas'[at] = new
          /\ ~ opt.repair => arenas'[at] = arenas[at]
      BY <1>7, <1>8, <2>2, <2>4
    <2>7. Collected(NArenas)'
      <3> SUFFICES ASSUME NEW k \in 1 .. NArenas
                   PROVE  /\ arenas'[k].idx = k /\ arenas'[k].info.st = "ok"
                          /\ arenas'[k].info \in {orig.arenas[k].info, orig.arenas[k].info2}
        BY <1>1, <2>6 DEF Collected
      <3>1. arenas'[k].idx = arenas[k].idx /\ arenas'[k].info = arenas[k].info
        BY <2>4, <2>5, <2>6
      <3> QED BY <1>6, <3>1 DEF Collected
    <2>8. \A k \in 1 .. NArenas : k < at => (opt.repair => Mended(k)')
      BY <1>1, <1>6, <1>7, <2>6 DEF Mended
    <2>n. PICK n \in 1 .. NArenas : n = at
      BY <1>7
    <2>9. opt.repair => Mended(n)'
      <3>1. ar.map = orig.arenas[n].map
        BY <1>6, <1>7, <2>5, <2>n DEF Unrepaired
      <3>2. opt.repair => arenas'[n] = new
        BY <2>6, <2>n
      <3> QED BY <1>1, <2>4, <3>1, <3>2 DEF Mended
    <2>10. \A k \in 1 .. NArenas : k > at => Unrepaired(k)'
      BY <1>1, <1>6, <1>7, <2>6 DEF Unrepaired
    <2>11. CASE at < NArenas
      <3>1. at' = at + 1 /\ step' = "map_flog" /\ at' \in ArenaIdx
        BY <1>1, <1>3, <1>7, <1>8, <1>10, <2>11 DEF ArenaIdx
      <3>2. CheckTypes' /\ Origin'
        BY <1>1, <1>4, <3>1, FileLeftAlone DEF Examining, CheckTypes, Origin
      <3>3. HdrReady'
        BY <1>1, <1>4, <1>5, <3>1 DEF HdrReady, LogSteps, BlkSteps, BlkOut
      <3>4. ArenasReady'
        <4>1. \A k \in 1 .. NArenas : IF k < at' THEN opt.repair => Mended(k)' ELSE Unrepaired(k)'
          BY <1>7, <2>8, <2>9, <2>10, <2>n, <3>1
        <4> QED BY <1>1, <2>7, <3>1, <4>1 DEF ArenasReady, BlkOut
      <3>5. Writing' /\ Promise'
        BY <3>1, NoPromise DEF Writing, BlkOut
      <3> QED BY <3>2, <3>3, <3>4, <3>5 DEF CheckInv
    <2>12. CASE ~ (at < NArenas)
      <3>1. at' = 1 /\ step' = "write_blk" /\ 1 \in ArenaIdx /\ at = NArenas
        BY <1>1, <1>3, <1>5, <1>7, <1>8, <1>10, <2>12, Finishing, Follows DEF ArenaIdx
      <3>2. CheckTypes' /\ Origin'
        BY <1>1, <1>4, <3>1, FileLeftAlone DEF Examining, CheckTypes, Origin
      <3>3. HdrReady'
        BY <1>1, <1>4, <1>5, <3>1 DEF HdrReady, LogSteps, BlkSteps, BlkOut
      <3>4. ArenasReady'
        <4>1. \A k \in 1 .. NArenas : opt.repair => Mended(k)'
          BY <1>7, <2>8, <2>9, <2>n, <3>1
        <4> QED BY <1>1, <2>7, <3>1, <4>1 DEF ArenasReady, BlkOut
      <3>5. Writing' /\ Promise'
        BY <3>1, NoPromise DEF Writing, BlkOut
      <3> QED BY <3>2, <3>3, <3>4, <3>5 DEF CheckInv
    <2> QED BY <2>11, <2>12
  <1> QED BY <1>9, <1>10

-----------------------------------------------------------------------------
(* Writing.                                                                *)

SameBut(g, f, i) ==
  /\ FileTyped(g) /\ g.type = f.type /\ g.hdr = f.hdr /\ g.log = f.log /\ g.bsize = f.bsize
  /\ \A k \in ArenaIdx : k # i => g.arenas[k] = f.arenas[k]

WithArena(f, i, v)      == [f EXCEPT !.arenas = [f.arenas EXCEPT ![i] = v]]
WithInfos(f, i, x, y)   == [f EXCEPT !.arenas[i].info = x, !.arenas[i].info2 = y]
WithFlog(f, i, x)       == [f EXCEPT !.arenas[i].flog = x]
WithMap(f, i, x)        == [f EXCEPT !.arenas[i].map = x]
WithHdr(f, h, b)        == [f EXCEPT !.hdr = h, !.bsize = b]
WithLog(f, h, l)        == [f EXCEPT !.hdr = h, !.log = l]

LEMMA PutArena ==
  ASSUME NEW f, FileTyped(f), f.type = "blk", NEW i \in ArenaIdx, NEW v \in Arena,
         NEW g, g = WithArena(f, i, v)
  PROVE  SameBut(g, f, i) /\ g.arenas[i] = v
  <1>1. /\ f = [type |-> f.type, hdr |-> f.hdr, log |-> f.log, bsize |-> f.bsize, arenas |-> f.arenas]
        /\ f.arenas \in [ArenaIdx -> Arena]
    BY DEF FileTyped
  <1> DEFINE as == [f.arenas EXCEPT ![i] = v]
  <1>2. as \in [ArenaIdx -> Arena] /\ as[i] = v /\ \A k \in ArenaIdx : k # i => as[k] = f.arenas[k]
    BY <1>1
  <1>3. g = [f EXCEPT !.arenas = as]
    BY DEF WithArena
  <1> HIDE DEF as
  <1>4. g = [type |-> f.type, hdr |-> f.hdr, log |-> f.log, bsize |-> f.bsize, arenas |-> as]
    BY <1>1, <1>3
  <1>5. g.type = f.type /\ g.hdr = f.hdr /\ g.log = f.log /\ g.bsize = f.bsize /\ g.arenas = as
    BY <1>4
  <1>6. FileTyped(g)
    BY <1>2, <1>4, <1>5 DEF FileTyped
  <1> QED BY <1>2, <1>5, <1>6 DEF SameBut

LEMMA PutInfos ==
  ASSUME NEW f, FileTyped(f), f.type = "blk", NEW i \in ArenaIdx, NEW x \in Infos, NEW y \in Infos,
         NEW g, g = WithInfos(f, i, x, y)
  PROVE  /\ SameBut(g, f, i) /\ g.arenas[i].info = x /\ g.arenas[i].info2 = y
         /\ g.arenas[i].map = f.arenas[i].map /\ g.arenas[i].flog = f.arenas[i].flog
  <1>1. PICK e : e = [f EXCEPT !.arenas[i].info = x]
    OBVIOUS
  <1>2. g = [e EXCEPT !.arenas[i].info2 = y]
    BY <1>1 DEF WithInfos
  <1>3. f.arenas[i] \in Arena
    BY DEF FileTyped
  <1>4. PICK v : v = [f.arenas[i] EXCEPT !.info = x]
    OBVIOUS
  <1>5. v \in Arena /\ v.info = x /\ v.map = f.arenas[i].map /\ v.flog = f.arenas[i].flog
    BY <1>3, <1>4 DEF Arena
  <1>6. e = WithArena(f, i, v)
    BY <1>1, <1>4 DEF WithArena
  <1>7. SameBut(e, f, i) /\ e.arenas[i] = v
    BY <1>5, <1>6, PutArena
  <1>8. FileTyped(e) /\ e.type = "blk"
    BY <1>7 DEF SameBut
  <1>9. PICK w : w = [v EXCEPT !.info2 = y]
    OBVIOUS
  <1>10. w \in Arena /\ w.info = x /\ w.info2 = y /\ w.map = f.arenas[i].map /\ w.flog = f.arenas[i].flog
    BY <1>5, <1>9 DEF Arena
  <1>11. g = WithArena(e, i, w)
    BY <1>2, <1>7, <1>9 DEF WithArena
  <1>12. SameBut(g, e, i) /\ g.arenas[i] = w
    BY <1>8, <1>10, <1>11, PutArena
  <1>13. SameBut(g, f, i)
    BY <1>7, <1>12 DEF SameBut
  <1> QED BY <1>10, <1>12, <1>13

LEMMA PutFlog ==
  ASSUME NEW f, FileTyped(f), f.type = "blk", NEW i \in ArenaIdx, NEW x \in [Lanes -> Pair],
         NEW g, g = WithFlog(f, i, x)
  PROVE  /\ SameBut(g, f, i) /\ g.arenas[i].flog = x /\ g.arenas[i].map = f.arenas[i].map
         /\ g.arenas[i].info = f.arenas[i].info /\ g.arenas[i].info2 = f.arenas[i].info2
  <1>1. f.arenas[i] \in Arena
    BY DEF FileTyped
  <1>2. PICK v : v = [f.arenas[i] EXCEPT !.flog = x]
    OBVIOUS
  <1>3. v \in Arena /\ v.flog = x /\ v.map = f.arenas[i].map /\ v.info = f.arenas[i].info /\ v.info2 = f.arenas[i].info2
    BY <1>1, <1>2 DEF Arena
  <1>4. g = WithArena(f, i, v)
    BY <1>2 DEF WithArena, WithFlog
  <1> QED BY <1>3, <1>4, PutArena

LEMMA PutMap ==
  ASSUME NEW f, FileTyped(f), f.type = "blk", NEW i \in ArenaIdx, NEW x \in [Premap -> MapEntry],
         NEW g, g = WithMap(f, i, x)
  PROVE  /\ SameBut(g, f, i) /\ g.arenas[i].map = x /\ g.arenas[i].flog = f.arenas[i].flog
         /\ g.arenas[i].info = f.arenas[i].info /\ g.arenas[i].info2 = f.arenas[i].info2
  <1>1. f.arenas[i] \in Arena
    BY DEF FileTyped
  <1>2. PICK v : v = [f.arenas[i] EXCEPT !.map = x]
    OBVIOUS
  <1>3. v \in Arena /\ v.map = x /\ v.flog = f.arenas[i].flog /\ v.info = f.arenas[i].info /\ v.info2 = f.arenas[i].info2
    BY <1>1, <1>2 DEF Arena
  <1>4. g = WithArena(f, i, v)
    BY <1>2 DEF WithArena, WithMap
  <1> QED BY <1>3, <1>4, PutArena

LEMMA PutHdr ==
  ASSUME NEW f, FileTyped(f), NEW h, HdrTyped(h, f.type), NEW b, NEW g, g = WithHdr(f, h, b)
  PROVE  FileTyped(g) /\ g.type = f.type /\ g.hdr = h /\ g.bsize = b /\ g.arenas = f.arenas
  <1>1. f = [type |-> f.type, hdr |-> f.hdr, log |-> f.log, bsize |-> f.bsize, arenas |-> f.arenas]
    BY DEF FileTyped
  <1>2. PICK e : e = [f EXCEPT !.hdr = h]
    OBVIOUS
  <1>3. e = [type |-> f.type, hdr |-> h, log |-> f.log, bsize |-> f.bsize, arenas |-> f.arenas]
    BY <1>1, <1>2
  <1>4. g = [e EXCEPT !.bsize = b]
    BY <1>2 DEF WithHdr
  <1>5. g = [type |-> f.type, hdr |-> h, log |-> f.log, bsize |-> b, arenas |-> f.arenas]
    BY <1>3, <1>4
  <1>6. g.type = f.type /\ g.hdr = h /\ g.bsize = b /\ g.arenas = f.arenas
    BY <1>5
  <1>7. FileTyped(g)
    BY <1>5, <1>6 DEF FileTyped
  <1> QED BY <1>6, <1>7

LEMMA PutLog ==
  ASSUME NEW f, FileTyped(f), NEW h, HdrTyped(h, f.type), NEW l, NEW g, g = WithLog(f, h, l)
  PROVE  FileTyped(g) /\ g.type = f.type /\ g.hdr = h /\ g.log = l /\ g.arenas = f.arenas
  <1>1. f = [type |-> f.type, hdr |-> f.hdr, log |-> f.log, bsize |-> f.bsize, arenas |-> f.arenas]
    BY DEF FileTyped
  <1>2. PICK e : e = [f EXCEPT !.hdr = h]
    OBVIOUS
  <1>3. e = [type |-> f.type, hdr |-> h, log |-> f.log, bsize |-> f.bsize, arenas |-> f.arenas]
    BY <1>1, <1>2
  <1>4. g = [e EXCEPT !.log = l]
    BY <1>2 DEF WithLog
  <1>5. g = [type |-> f.type, hdr |-> h, log |-> l, bsize |-> f.bsize, arenas |-> f.arenas]
    BY <1>3, <1>4
  <1>6. g.type = f.type /\ g.hdr = h /\ g.log = l /\ g.arenas = f.arenas
    BY <1>5
  <1>7. FileTyped(g)
    BY <1>5, <1>6 DEF FileTyped
  <1> QED BY <1>6, <1>7

LEMMA CheckWriteSkipped ==
  ASSUME CheckInv, WriteSkipped
  PROVE  CheckInv'
  <1>1. /\ step \in {"write_log", "write_blk"} /\ (~ opt.repair \/ ~ opt.exec) /\ Finish("consistent", ptype)
        /\ UNCHANGED <<file, orig, opt, ptype, uuid_op, bttc, hdr, log, bsize, arenas, seen, nruns, ncrash>>
    BY DEF WriteSkipped, tool
  <1>2. CheckTypes /\ Origin /\ HdrReady
    BY DEF CheckInv
  <1>3. step' = "idle"
    <2>1. After(step, ptype) = "end"
      BY <1>1, <1>2, Follows DEF HdrReady, LogSteps, BlkSteps, BlkOut
    <2> QED BY <1>1, <2>1 DEF Finish
  <1>4. CheckTypes' /\ Origin'
    BY <1>1, <1>2, <1>3, FileLeftAlone DEF Examining, CheckTypes, Origin
  <1>5. HdrReady' /\ ArenasReady' /\ Writing'
    BY <1>3 DEF HdrReady, LogSteps, BlkSteps, BlkOut, ArenasReady, Writing
  <1>6. Promise'
    BY <1>1 DEF Promise, RepairDone
  <1> QED BY <1>4, <1>5, <1>6 DEF CheckInv

LEMMA CheckWriteLog ==
  ASSUME CheckInv, pmempool_check_write_log
  PROVE  CheckInv'
  <1>1. /\ step = "write_log" /\ step' = "sync_log" /\ seen' = WithLog(seen, hdr, log)
        /\ UNCHANGED <<file, orig, opt, ptype, uuid_op, bttc, hdr, log, bsize, arenas, at, nruns, ncrash>>
    BY DEF pmempool_check_write_log, tool, WithLog
  <1>2. CheckTypes /\ Origin /\ HdrReady
    BY DEF CheckInv
  <1>3. FileTyped(seen) /\ HdrTyped(hdr, seen.type) /\ seen.type = file.type
    BY <1>2 DEF CheckTypes
  <1>4. FileTyped(seen') /\ seen'.type = file.type /\ seen'.hdr = hdr /\ seen'.log = log
    BY <1>1, <1>3, PutLog
  <1>5. CheckTypes'
    BY <1>1, <1>2, <1>4 DEF CheckTypes, LogSteps
  <1>6. Origin'
    BY <1>1, <1>2 DEF Origin, Unwritten
  <1>7. HdrReady'
    BY <1>1, <1>2 DEF HdrReady, BlkSteps, BlkOut, LogSteps
  <1>8. ArenasReady' /\ Promise'
    BY <1>1, NoPromise DEF ArenasReady, BlkOut
  <1>9. Writing'
    BY <1>1, <1>4 DEF Writing, BlkOut
  <1> QED BY <1>5, <1>6, <1>7, <1>8, <1>9 DEF CheckInv

LEMMA CheckSyncLog ==
  ASSUME CheckInv, SyncLog
  PROVE  CheckInv'
  <1>1. /\ step = "sync_log" /\ file' = seen /\ Finish("consistent", ptype)
        /\ UNCHANGED <<orig, opt, ptype, uuid_op, bttc, hdr, log, bsize, arenas, seen, nruns, ncrash>>
    BY DEF SyncLog, tool
  <1>2. CheckTypes /\ Origin /\ HdrReady /\ Writing
    BY DEF CheckInv
  <1>3. ptype = "log" /\ HdrConsistent(hdr) /\ BadLog(log) = {} /\ file.type = "log"
    BY <1>1, <1>2 DEF HdrReady, LogSteps, CheckTypes
  <1>4. step' = "idle"
    BY <1>1, <1>3, Follows DEF Finish
  <1>6. FileTyped(file') /\ file'.type = file.type /\ file'.hdr = hdr /\ file'.log = log
    BY <1>1, <1>2 DEF CheckTypes, Writing, BlkOut
  <1>7. CheckTypes'
    BY <1>1, <1>2, <1>4, <1>6 DEF CheckTypes
  <1>8. Origin'
    <2>1. nruns # 0
      BY <1>1, <1>2 DEF Origin
    <2> QED BY <1>1, <1>2, <1>4, <2>1 DEF Origin, Unwritten
  <1>9. HdrReady' /\ ArenasReady' /\ Writing'
    BY <1>4 DEF HdrReady, LogSteps, BlkSteps, BlkOut, ArenasReady, Writing
  <1>10. Promise'
    <2> SUFFICES ASSUME RepairDone' PROVE Fixed'
      BY DEF Promise
    <2>1. opt.yes
      BY <1>1 DEF RepairDone
    <2>2. ncrash = 0 => hdr.sig = "log" /\ hdr.bad = {}
      BY <1>1, <1>2, <1>3, <2>1 DEF HdrReady, LogSteps
    <2>3. CsumOk(hdr)
      BY <1>3 DEF HdrConsistent
    <2>4. FoundConsistent(file')
      BY <1>3, <1>6 DEF FoundConsistent
    <2>5. ncrash = 0 => Opens(file')
      BY <1>3, <1>6, <2>2, <2>3 DEF Opens
    <2>6. FoundConsistent(file)' /\ (ncrash' = 0 => Opens(file)')
      BY <1>1, <2>4, <2>5 DEF FoundConsistent, Opens
    <2> QED BY <1>1, <1>3, <2>6 DEF Fixed
  <1> QED BY <1>7, <1>8, <1>9, <1>10 DEF CheckInv

\* The info block written for an arena.
LEMMA InfoWritten ==
  ASSUME NEW ar \in Kept, ar.info.st = "ok", hdr.uuid \in Uuids
  PROVE  /\ ArenaInfoOut(ar) \in Infos /\ ArenaInfoOut(ar).st = "ok"
         /\ uuid_op = "regenerated" => ArenaInfoOut(ar).uuid = hdr.uuid
         /\ uuid_op # "regenerated" => ArenaInfoOut(ar) = ar.info
  <1>1. ar.info \in Infos
    BY DEF Kept
  <1>2. /\ [ar.info EXCEPT !.uuid = hdr.uuid] \in Infos /\ [ar.info EXCEPT !.uuid = hdr.uuid].st = "ok"
        /\ [ar.info EXCEPT !.uuid = hdr.uuid].uuid = hdr.uuid
    BY <1>1 DEF Infos
  <1> QED BY <1>1, <1>2 DEF ArenaInfoOut

\* What holds while the arenas are written.
LEMMA WhileWriting ==
  ASSUME CheckInv, step \in BlkOut
  PROVE  /\ ptype = "blk" /\ file.type = "blk" /\ at \in ArenaIdx /\ HdrConsistent(hdr) /\ bsize # 0
         /\ nruns # 0 /\ opt.repair /\ HdrTyped(hdr, file.type) /\ hdr.uuid \in Uuids
         /\ FileTyped(file) /\ FileTyped(seen) /\ seen.type = "blk"
         /\ arenas \in [ArenaIdx -> Kept] /\ Len(arenas) = NArenas
         /\ \A k \in ArenaIdx : /\ arenas[k].idx = k /\ arenas[k].info.st = "ok" /\ Mended(k)
                                /\ arenas[k].info \in {orig.arenas[k].info, orig.arenas[k].info2}
         /\ seen.hdr = hdr /\ seen.bsize = bsize /\ \A k \in 1 .. at - 1 : WrittenOut(k)
         /\ step # "write_arena" => InfosOut(at)
         /\ step \in {"write_map", "sync_map"} => seen.arenas[at].flog = arenas[at].flog
         /\ step = "sync_map" => seen.arenas[at].map = arenas[at].map
  <1>1. CheckTypes /\ Origin /\ HdrReady /\ ArenasReady /\ Writing
    BY DEF CheckInv
  <1>2. Collected(NArenas) /\ opt.repair /\ \A k \in 1 .. NArenas : Mended(k)
    BY <1>1 DEF ArenasReady, BlkOut
  <1>3. /\ arenas \in [ArenaIdx -> Kept]
        /\ \A k \in ArenaIdx : /\ arenas[k].idx = k /\ arenas[k].info.st = "ok" /\ Mended(k)
                               /\ arenas[k].info \in {orig.arenas[k].info, orig.arenas[k].info2}
    BY <1>2 DEF Collected, ArenaIdx
  <1>4. Len(arenas) = NArenas
    BY <1>3, CheckAssumption DEF ArenaIdx
  <1>5. ptype = "blk" /\ at \in ArenaIdx /\ HdrConsistent(hdr) /\ bsize # 0
    BY <1>1 DEF HdrReady, BlkSteps, BlkOut
  <1>6. file.type = "blk" /\ FileTyped(file) /\ FileTyped(seen) /\ seen.type = "blk" /\ HdrTyped(hdr, file.type)
    BY <1>1, <1>5 DEF CheckTypes
  <1>7. hdr.uuid \in Uuids
    BY <1>6 DEF HdrTyped
  <1>8. nruns # 0
    BY <1>1 DEF Origin, BlkOut
  <1>9. seen.hdr = hdr /\ seen.bsize = bsize /\ \A k \in 1 .. at - 1 : WrittenOut(k)
    BY <1>1 DEF Writing, BlkOut
  <1>10. /\ step # "write_arena" => InfosOut(at)
         /\ step \in {"write_map", "sync_map"} => seen.arenas[at].flog = arenas[at].flog
         /\ step = "sync_map" => seen.arenas[at].map = arenas[at].map
    BY <1>1 DEF Writing, BlkOut
  <1> QED BY <1>2, <1>3, <1>4, <1>5, <1>6, <1>7, <1>8, <1>9, <1>10

LEMMA CheckWriteHdr ==
  ASSUME CheckInv, WriteHdr
  PROVE  CheckInv'
  <1>1. /\ step = "write_blk" /\ at = 1 /\ opt.repair /\ seen' = WithHdr(seen, hdr, bsize) /\ step' = "write_arena"
        /\ UNCHANGED <<file, orig, opt, ptype, uuid_op, bttc, hdr, log, bsize, arenas, at, nruns, ncrash>>
    BY DEF WriteHdr, tool, WithHdr
  <1>2. CheckTypes /\ Origin /\ HdrReady /\ ArenasReady
    BY DEF CheckInv
  <1>3. FileTyped(seen) /\ HdrTyped(hdr, seen.type) /\ seen.type = file.type
    BY <1>2 DEF CheckTypes
  <1>4. FileTyped(seen') /\ seen'.type = file.type /\ seen'.hdr = hdr /\ seen'.bsize = bsize
    BY <1>1, <1>3, PutHdr
  <1>5. CheckTypes'
    BY <1>1, <1>2, <1>4 DEF CheckTypes, BlkSteps, BlkOut
  <1>6. Origin'
    BY <1>1, <1>2 DEF Origin, Unwritten
  <1>7. HdrReady'
    BY <1>1, <1>2 DEF HdrReady, BlkSteps, BlkOut, LogSteps
  <1>8. ArenasReady'
    <2>1. Collected(NArenas) /\ \A k \in 1 .. NArenas : Mended(k)
      BY <1>1, <1>2 DEF ArenasReady, BlkOut
    <2>2. Collected(NArenas)'
      BY <1>1, <2>1 DEF Collected
    <2>3. \A k \in 1 .. NArenas : Mended(k)'
      BY <1>1, <2>1 DEF Mended
    <2> QED BY <1>1, <2>2, <2>3 DEF ArenasReady, BlkOut
  <1>9. Writing'
    <2>1. 1 .. at' - 1 = {}
      BY <1>1
    <2> QED BY <1>1, <1>4, <2>1 DEF Writing, BlkOut
  <1>10. Promise'
    BY <1>1, NoPromise
  <1> QED BY <1>5, <1>6, <1>7, <1>8, <1>9, <1>10 DEF CheckInv

\* The rest of the invariant while writing goes on from one arena to the next.
LEMMA StillWriting ==
  ASSUME CheckInv, step \in BlkOut, step' \in BlkOut, at' \in ArenaIdx,
         FileTyped(file'), file'.type = file.type, FileTyped(seen'), seen'.type = file.type,
         UNCHANGED <<orig, opt, ptype, uuid_op, bttc, hdr, log, bsize, arenas, nruns, ncrash>>
  PROVE  CheckTypes' /\ Origin' /\ HdrReady' /\ ArenasReady' /\ Promise'
  <1>1. CheckTypes /\ Origin /\ HdrReady /\ ArenasReady
    BY DEF CheckInv
  <1>2. CheckTypes'
    BY <1>1 DEF CheckTypes, BlkSteps, BlkOut
  <1>3. Origin'
    <2>1. step \notin {"idle", "died"} /\ step' \notin Unwritten \cup {"idle", "died"} /\ nruns' # 0
      BY WhileWriting DEF Unwritten, BlkOut
    <2> QED BY <1>1, <2>1 DEF Origin
  <1>4. HdrReady'
    BY <1>1 DEF HdrReady, BlkSteps, BlkOut, LogSteps
  <1>5. ArenasReady'
    <2>1. Collected(NArenas) /\ \A k \in 1 .. NArenas : Mended(k)
      BY <1>1 DEF ArenasReady, BlkOut
    <2>2. Collected(NArenas)'
      BY <2>1 DEF Collected
    <2>3. \A k \in 1 .. NArenas : Mended(k)'
      BY <2>1 DEF Mended
    <2> QED BY <1>1, <2>2, <2>3 DEF ArenasReady, BlkOut
  <1>6. Promise'
    <2>1. step' # "idle"
      BY DEF BlkOut
    <2> QED BY <2>1, NoPromise
  <1> QED BY <1>2, <1>3, <1>4, <1>5, <1>6

LEMMA CheckWriteInfos ==
  ASSUME CheckInv, WriteInfos
  PROVE  CheckInv'
  <1>1. /\ step = "write_arena" /\ step' = "write_flog"
        /\ seen' = WithInfos(seen, arenas[at].idx, ArenaInfoOut(arenas[at]), ArenaInfoOut(arenas[at]))
        /\ UNCHANGED <<file, orig, opt, ptype, uuid_op, bttc, hdr, log, bsize, arenas, at, nruns, ncrash>>
    BY DEF WriteInfos, tool, WithInfos
  <1>2. /\ file.type = "blk" /\ at \in ArenaIdx /\ hdr.uuid \in Uuids /\ FileTyped(file) /\ FileTyped(seen) /\ seen.type = "blk"
        /\ arenas \in [ArenaIdx -> Kept] /\ arenas[at].idx = at /\ arenas[at].info.st = "ok"
        /\ seen.hdr = hdr /\ seen.bsize = bsize /\ \A k \in 1 .. at - 1 : WrittenOut(k)
    <2>1. step \in BlkOut
      BY <1>1 DEF BlkOut
    <2> QED BY <2>1, WhileWriting
  <1>3. PICK i : i = ArenaInfoOut(arenas[at])
    OBVIOUS
  <1>4. i \in Infos
    BY <1>2, <1>3, InfoWritten
  <1>5. seen' = WithInfos(seen, at, i, i)
    BY <1>1, <1>2, <1>3
  <1>6. SameBut(seen', seen, at) /\ seen'.arenas[at].info = i /\ seen'.arenas[at].info2 = i
    BY <1>2, <1>4, <1>5, PutInfos
  <1>7. FileTyped(seen') /\ seen'.type = "blk" /\ seen'.hdr = hdr /\ seen'.bsize = bsize
    BY <1>2, <1>6 DEF SameBut
  <1>8. CheckTypes' /\ Origin' /\ HdrReady' /\ ArenasReady' /\ Promise'
    <2>1. step \in BlkOut /\ step' \in BlkOut
      BY <1>1 DEF BlkOut
    <2> QED BY <1>1, <1>2, <1>7, <2>1, StillWriting
  <1>9. InfosOut(at)'
    BY <1>1, <1>3, <1>6 DEF InfosOut, OutFor, ArenaInfoOut
  <1>10. \A k \in 1 .. at - 1 : WrittenOut(k)'
    <2> SUFFICES ASSUME NEW k \in 1 .. at - 1 PROVE WrittenOut(k)'
      OBVIOUS
    <2>1. k \in ArenaIdx /\ k # at
      BY <1>2, CheckAssumption DEF ArenaIdx
    <2>2. seen'.arenas[k] = seen.arenas[k]
      BY <1>6, <2>1 DEF SameBut
    <2>3. WrittenOut(k)
      BY <1>2
    <2> QED BY <1>1, <2>2, <2>3 DEF WrittenOut, InfosOut, OutFor, ArenaInfoOut
  <1>11. Writing'
    BY <1>1, <1>7, <1>9, <1>10 DEF Writing, BlkOut
  <1> QED BY <1>8, <1>11 DEF CheckInv

\* The map of the last arena completes the repair.
LEMMA RepairCompleted ==
  ASSUME CheckInv, step = "sync_map", opt.yes, UNCHANGED <<orig, ptype, arenas, hdr, uuid_op, ncrash>>,
         FileTyped(file'), file'.type = "blk", file'.hdr = hdr, file'.bsize = bsize,
         \A k \in ArenaIdx : /\ file'.arenas[k].info = OutFor(k) /\ file'.arenas[k].info2 = OutFor(k)
                             /\ file'.arenas[k].map = arenas[k].map /\ file'.arenas[k].flog = arenas[k].flog
  PROVE  Fixed'
  <1>1. /\ ptype = "blk" /\ HdrConsistent(hdr) /\ bsize # 0 /\ hdr.uuid \in Uuids /\ arenas \in [ArenaIdx -> Kept]
        /\ \A k \in ArenaIdx : /\ arenas[k].info.st = "ok" /\ Mended(k)
                               /\ arenas[k].info \in {orig.arenas[k].info, orig.arenas[k].info2}
    BY WhileWriting DEF BlkOut
  <1>2. \A k \in ArenaIdx : /\ OutFor(k).st = "ok"
                            /\ uuid_op = "regenerated" => OutFor(k).uuid = hdr.uuid
                            /\ uuid_op # "regenerated" => OutFor(k) = arenas[k].info
    BY <1>1, InfoWritten DEF OutFor
  <1>3. \A k \in ArenaIdx : /\ NoInvalid(arenas[k].map, arenas[k].flog)
                            /\ \A x \in Premap \ InvalidMap(orig.arenas[k].map) : arenas[k].map[x] = orig.arenas[k].map[x]
    BY <1>1 DEF Mended
  <1>n. \A k \in ArenaIdx : /\ InvalidMap(arenas[k].map) = {} /\ InvalidFlog(arenas[k].map, arenas[k].flog, {}) = {}
                            /\ Unmapped(arenas[k].map, arenas[k].flog) = {}
    <2> TAKE k \in ArenaIdx
    <2>1. arenas[k].map \in [Premap -> MapEntry] /\ arenas[k].flog \in [Lanes -> Pair]
      BY <1>1 DEF Kept
    <2>2. MapTyped(arenas[k].map) /\ FlogTyped(arenas[k].flog)
      BY <2>1, ShapesTyped
    <2> QED BY <1>3, <2>2, NothingFound
  <1>4. CsumOk(hdr)
    BY <1>1 DEF HdrConsistent
  <1>5. FoundConsistent(file')
    <2>1. \A a \in ArenaIdx :
            /\ file'.arenas[a].info.st = "ok" /\ file'.arenas[a].info2 = file'.arenas[a].info
            /\ InvalidMap(file'.arenas[a].map) = {}
            /\ InvalidFlog(file'.arenas[a].map, file'.arenas[a].flog, {}) = {}
            /\ Unmapped(file'.arenas[a].map, file'.arenas[a].flog) = {}
      <3> TAKE a \in ArenaIdx
      <3>1. file'.arenas[a].info = OutFor(a) /\ file'.arenas[a].info2 = OutFor(a) /\ OutFor(a).st = "ok"
        BY <1>2
      <3>2. file'.arenas[a].map = arenas[a].map /\ file'.arenas[a].flog = arenas[a].flog
        OBVIOUS
      <3> QED BY <1>n, <3>1, <3>2
    <2> QED BY <1>1, <2>1 DEF FoundConsistent
  <1>6. ncrash = 0 => Opens(file') /\ Layed(file')
    <2> SUFFICES ASSUME ncrash = 0 PROVE Opens(file') /\ Layed(file')
      OBVIOUS
    <2>1. HdrReady /\ Origin /\ CheckTypes
      BY DEF CheckInv
    <2>2. hdr.sig = file.type /\ hdr.bad = {} /\ (uuid_op = "regenerated" \/ hdr.uuid = "u") /\ file.type = "blk"
      BY <1>1, <2>1 DEF HdrReady, BlkSteps, BlkOut, CheckTypes
    <2>3. Opens(file')
      BY <1>4, <2>2 DEF Opens
    <2>4. \A k \in ArenaIdx : arenas[k].info.uuid = "u"
      BY <1>1, <2>1, <2>2 DEF Origin, Fresh, CheckTypes
    <2>5. DOMAIN file'.arenas = ArenaIdx
      BY DEF FileTyped
    <2>6. \A k \in ArenaIdx : OutFor(k).uuid = hdr.uuid
      BY <1>2, <2>2, <2>4
    <2>7. Layed(file')
      BY <1>2, <2>5, <2>6 DEF Layed
    <2> QED BY <2>3, <2>7
  <1>7. FoundConsistent(file)' /\ (ncrash' = 0 => Opens(file)' /\ Layed(file)')
    BY <1>5, <1>6 DEF FoundConsistent, Opens, Layed
  <1>8. \A a \in ArenaIdx : \A x \in Premap \ InvalidMap(orig'.arenas[a].map) :
          file'.arenas[a].map[x] = orig'.arenas[a].map[x]
    BY <1>3
  <1> QED BY <1>7, <1>8 DEF Fixed

\* The writes of an earlier arena stay when arena at is written.
LEMMA EarlierOut ==
  ASSUME CheckInv, step \in BlkOut, SameBut(seen', seen, at), UNCHANGED <<arenas, uuid_op, hdr, at>>
  PROVE  \A k \in 1 .. at - 1 : WrittenOut(k)'
  <1> SUFFICES ASSUME NEW k \in 1 .. at - 1 PROVE WrittenOut(k)'
    OBVIOUS
  <1>1. k \in ArenaIdx /\ k # at
    BY WhileWriting, CheckAssumption DEF ArenaIdx
  <1>2. seen'.arenas[k] = seen.arenas[k]
    BY <1>1 DEF SameBut
  <1>3. WrittenOut(k)
    BY WhileWriting
  <1> QED BY <1>2, <1>3 DEF WrittenOut, InfosOut, OutFor, ArenaInfoOut

LEMMA CheckWriteFlog ==
  ASSUME CheckInv, WriteFlog
  PROVE  CheckInv'
  <1>1. /\ step = "write_flog" /\ step' = "write_map" /\ seen' = WithFlog(seen, arenas[at].idx, arenas[at].flog)
        /\ UNCHANGED <<file, orig, opt, ptype, uuid_op, bttc, hdr, log, bsize, arenas, at, nruns, ncrash>>
    BY DEF WriteFlog, tool, WithFlog, pmempool_check_write_flog
  <1>0. step \in BlkOut /\ step' \in BlkOut
    BY <1>1 DEF BlkOut
  <1>2. /\ file.type = "blk" /\ at \in ArenaIdx /\ FileTyped(file) /\ FileTyped(seen) /\ seen.type = "blk"
        /\ arenas \in [ArenaIdx -> Kept] /\ arenas[at].idx = at
        /\ seen.hdr = hdr /\ seen.bsize = bsize /\ InfosOut(at)
    BY <1>0, <1>1, WhileWriting
  <1>3. arenas[at].flog \in [Lanes -> Pair]
    BY <1>2 DEF Kept
  <1>4. /\ SameBut(seen', seen, at) /\ seen'.arenas[at].flog = arenas[at].flog
        /\ seen'.arenas[at].info = seen.arenas[at].info /\ seen'.arenas[at].info2 = seen.arenas[at].info2
    BY <1>1, <1>2, <1>3, PutFlog
  <1>5. FileTyped(seen') /\ seen'.type = "blk" /\ seen'.hdr = hdr /\ seen'.bsize = bsize
    BY <1>2, <1>4 DEF SameBut
  <1>6. CheckTypes' /\ Origin' /\ HdrReady' /\ ArenasReady' /\ Promise'
    BY <1>0, <1>1, <1>2, <1>5, StillWriting
  <1>7. InfosOut(at)'
    BY <1>1, <1>2, <1>4 DEF InfosOut, OutFor, ArenaInfoOut
  <1>8. \A k \in 1 .. at - 1 : WrittenOut(k)'
    BY <1>0, <1>1, <1>4, EarlierOut
  <1>9. Writing'
    BY <1>1, <1>4, <1>5, <1>7, <1>8 DEF Writing, BlkOut
  <1> QED BY <1>6, <1>9 DEF CheckInv

LEMMA CheckWriteMap ==
  ASSUME CheckInv, WriteMap
  PROVE  CheckInv'
  <1>1. /\ step = "write_map" /\ step' = "sync_map" /\ file' = seen /\ seen' = WithMap(seen, arenas[at].idx, arenas[at].map)
        /\ UNCHANGED <<orig, opt, ptype, uuid_op, bttc, hdr, log, bsize, arenas, at, nruns, ncrash>>
    BY DEF WriteMap, tool, WithMap, pmempool_check_write_map
  <1>0. step \in BlkOut /\ step' \in BlkOut
    BY <1>1 DEF BlkOut
  <1>2. /\ file.type = "blk" /\ at \in ArenaIdx /\ FileTyped(file) /\ FileTyped(seen) /\ seen.type = "blk"
        /\ arenas \in [ArenaIdx -> Kept] /\ arenas[at].idx = at
        /\ seen.hdr = hdr /\ seen.bsize = bsize /\ InfosOut(at) /\ seen.arenas[at].flog = arenas[at].flog
    BY <1>0, <1>1, WhileWriting
  <1>3. arenas[at].map \in [Premap -> MapEntry]
    BY <1>2 DEF Kept
  <1>4. /\ SameBut(seen', seen, at) /\ seen'.arenas[at].map = arenas[at].map /\ seen'.arenas[at].flog = arenas[at].flog
        /\ seen'.arenas[at].info = seen.arenas[at].info /\ seen'.arenas[at].info2 = seen.arenas[at].info2
    BY <1>1, <1>2, <1>3, PutMap
  <1>5. FileTyped(seen') /\ seen'.type = "blk" /\ seen'.hdr = hdr /\ seen'.bsize = bsize
    BY <1>2, <1>4 DEF SameBut
  <1>6. CheckTypes' /\ Origin' /\ HdrReady' /\ ArenasReady' /\ Promise'
    BY <1>0, <1>1, <1>2, <1>5, StillWriting
  <1>7. InfosOut(at)'
    BY <1>1, <1>2, <1>4 DEF InfosOut, OutFor, ArenaInfoOut
  <1>8. \A k \in 1 .. at - 1 : WrittenOut(k)'
    BY <1>0, <1>1, <1>4, EarlierOut
  <1>9. Writing'
    BY <1>1, <1>4, <1>5, <1>7, <1>8 DEF Writing, BlkOut
  <1> QED BY <1>6, <1>9 DEF CheckInv

LEMMA CheckSyncMap ==
  ASSUME CheckInv, SyncMap
  PROVE  CheckInv'
  <1>1. /\ step = "sync_map" /\ file' = seen
        /\ IF at < Len(arenas)
             THEN at' = at + 1 /\ step' = "write_arena"
             ELSE Finish("consistent", ptype)
        /\ UNCHANGED <<orig, opt, ptype, uuid_op, bttc, hdr, log, bsize, arenas, seen, nruns, ncrash>>
    BY DEF SyncMap, tool
  <1>0. step \in BlkOut
    BY <1>1 DEF BlkOut
  <1>2. /\ ptype = "blk" /\ file.type = "blk" /\ at \in ArenaIdx /\ FileTyped(file) /\ FileTyped(seen) /\ seen.type = "blk"
        /\ nruns # 0 /\ arenas \in [ArenaIdx -> Kept] /\ Len(arenas) = NArenas
        /\ seen.hdr = hdr /\ seen.bsize = bsize /\ InfosOut(at)
        /\ seen.arenas[at].flog = arenas[at].flog /\ seen.arenas[at].map = arenas[at].map
    BY <1>0, <1>1, WhileWriting
  <1>3. \A k \in 1 .. at - 1 : WrittenOut(k)
    BY <1>0, WhileWriting
  <1>4. at \in Nat /\ at >= 1 /\ at <= NArenas /\ NArenas \in Nat
    BY <1>2, CheckAssumption DEF ArenaIdx
  <1>8. FileTyped(file') /\ file'.type = "blk" /\ file'.hdr = hdr /\ file'.bsize = bsize
    BY <1>1, <1>2
  <1>9. \A k \in 1 .. at : WrittenOut(k)
    <2> TAKE k \in 1 .. at
    <2>1. CASE k = at
      BY <1>2, <2>1 DEF WrittenOut, InfosOut
    <2>2. CASE k # at
      BY <1>3, <1>4, <2>2
    <2> QED BY <2>1, <2>2
  <1>10. CASE at < NArenas
    <2>1. at' = at + 1 /\ step' = "write_arena" /\ at' \in ArenaIdx
      BY <1>1, <1>2, <1>4, <1>10 DEF ArenaIdx
    <2>2. step' \in BlkOut
      BY <2>1 DEF BlkOut
    <2>3. CheckTypes' /\ Origin' /\ HdrReady' /\ ArenasReady' /\ Promise'
      BY <1>0, <1>1, <1>2, <1>8, <2>1, <2>2, StillWriting
    <2>4. \A k \in 1 .. at' - 1 : WrittenOut(k)'
      <3> SUFFICES ASSUME NEW k \in 1 .. at' - 1 PROVE WrittenOut(k)'
        OBVIOUS
      <3>1. k \in 1 .. at
        BY <1>4, <2>1
      <3> QED BY <1>1, <1>9, <3>1 DEF WrittenOut, InfosOut, OutFor, ArenaInfoOut
    <2>5. Writing'
      BY <1>1, <1>2, <2>1, <2>4 DEF Writing, BlkOut
    <2> QED BY <2>3, <2>5 DEF CheckInv
  <1>11. CASE ~ (at < NArenas)
    <2>1. step' = "idle" /\ at = NArenas
      BY <1>1, <1>2, <1>4, <1>11, Follows DEF Finish
    <2>2. CheckTypes /\ Origin
      BY DEF CheckInv
    <2>3. CheckTypes'
      BY <1>1, <1>2, <1>8, <2>1, <2>2 DEF CheckTypes
    <2>4. Origin'
      BY <1>1, <1>2, <2>1, <2>2 DEF Origin, Unwritten
    <2>5. HdrReady' /\ ArenasReady' /\ Writing'
      BY <2>1 DEF HdrReady, BlkSteps, BlkOut, LogSteps, ArenasReady, Writing
    <2>6. Promise'
      <3> SUFFICES ASSUME RepairDone' PROVE Fixed'
        BY DEF Promise
      <3>1. opt.yes
        BY <1>1 DEF RepairDone
      <3>2. \A k \in ArenaIdx : /\ file'.arenas[k].info = OutFor(k) /\ file'.arenas[k].info2 = OutFor(k)
                                /\ file'.arenas[k].map = arenas[k].map /\ file'.arenas[k].flog = arenas[k].flog
        BY <1>1, <1>9, <2>1 DEF ArenaIdx, WrittenOut, InfosOut
      <3> QED BY <1>1, <1>8, <3>1, <3>2, RepairCompleted
    <2> QED BY <2>3, <2>4, <2>5, <2>6 DEF CheckInv
  <1> QED BY <1>10, <1>11

\* A power failure leaves a file of the right shape, which is all that the
\* next run of the tool relies on.
LEMMA CheckReboots ==
  ASSUME CheckInv, step \in BlkOut \cup {"sync_log"}, Rebooted, FileTyped(file'), file'.type = file.type
  PROVE  CheckInv'
  <1>1. /\ seen' = file' /\ step' = "idle" /\ exit' = "none" /\ ncrash' = ncrash + 1
        /\ UNCHANGED <<orig, opt, ptype, uuid_op, bttc, hdr, log, bsize, arenas, nruns>>
    BY DEF Rebooted, tool
  <1>2. CheckTypes /\ Origin
    BY DEF CheckInv
  <1>3. ncrash' \in Nat /\ ncrash' # 0
    BY <1>1, <1>2 DEF CheckTypes
  <1>4. nruns # 0
    BY <1>2 DEF Origin, BlkOut
  <1>5. CheckTypes'
    BY <1>1, <1>2, <1>3 DEF CheckTypes
  <1>6. Origin'
    BY <1>1, <1>3, <1>4 DEF Origin, Unwritten
  <1>7. HdrReady' /\ ArenasReady' /\ Writing' /\ Promise'
    BY <1>1, NoPromise DEF HdrReady, BlkSteps, BlkOut, LogSteps, ArenasReady, Writing
  <1> QED BY <1>5, <1>6, <1>7 DEF CheckInv

LEMMA CheckCrashesLog ==
  ASSUME CheckInv, CheckCrashLog
  PROVE  CheckInv'
  <1>1. step = "sync_log" /\ Rebooted
    BY DEF CheckCrashLog
  <1>2. FileTyped(file) /\ FileTyped(seen) /\ seen.type = file.type
    BY DEF CheckInv, CheckTypes
  <1>3. PICK h, l \in {file, seen} : file' = WithLog(file, h.hdr, l.log)
    BY Zenon DEF CheckCrashLog, WithLog
  <1>4. HdrTyped(h.hdr, file.type)
    BY <1>2 DEF FileTyped
  <1>5. FileTyped(file') /\ file'.type = file.type
    BY <1>2, <1>3, <1>4, PutLog
  <1> QED BY <1>1, <1>5, CheckReboots

LEMMA CheckCrashesBlk ==
  ASSUME CheckInv, CheckCrashBlk
  PROVE  CheckInv'
  <1>1. step \in BlkOut /\ Rebooted
    BY DEF CheckCrashBlk, BlkOut
  <1>2. /\ file.type = "blk" /\ at \in ArenaIdx /\ FileTyped(file) /\ FileTyped(seen) /\ seen.type = "blk"
        /\ arenas[at].idx = at
    BY <1>1, WhileWriting
  <1>3. PICK h, b \in {file, seen}, ar \in Survivors(file.arenas[arenas[at].idx], seen.arenas[arenas[at].idx]) :
          file' = [WithHdr(file, h.hdr, b.bsize) EXCEPT !.arenas[arenas[at].idx] = ar]
    BY Zenon DEF CheckCrashBlk, WithHdr
  <1>4. PICK g : g = WithHdr(file, h.hdr, b.bsize)
    OBVIOUS
  <1>5. HdrTyped(h.hdr, file.type) /\ file.arenas[at] \in Arena /\ seen.arenas[at] \in Arena
    BY <1>2 DEF FileTyped
  <1>6. FileTyped(g) /\ g.type = "blk"
    BY <1>2, <1>4, <1>5, PutHdr
  <1>7. ar \in Arena
    <2>1. ar \in Survivors(file.arenas[at], seen.arenas[at])
      BY <1>2, <1>3
    <2>2. PICK old \in Arena, new \in Arena : ar \in Survivors(old, new)
      BY <1>5, <2>1
    <2>3. \A x \in Premap : old.map[x] \in MapEntry /\ new.map[x] \in MapEntry
      BY DEF Arena
    <2>4. \A l \in Lanes : old.flog[l] \in Pair /\ new.flog[l] \in Pair
      BY DEF Arena
    <2>5. /\ Pieces(old.map, new.map, Premap) \subseteq [Premap -> MapEntry]
          /\ Pieces(old.flog, new.flog, Lanes) \subseteq [Lanes -> Pair]
      BY <2>3, <2>4 DEF Pieces
    <2>6. {old.info, new.info, old.info2, new.info2} \subseteq Infos
      BY DEF Arena
    <2> QED BY <2>2, <2>5, <2>6 DEF Survivors, Arena
  <1>8. file' = WithArena(g, at, ar)
    BY <1>2, <1>3, <1>4 DEF WithArena
  <1>9. SameBut(file', g, at)
    BY <1>2, <1>6, <1>7, <1>8, PutArena
  <1>10. FileTyped(file') /\ file'.type = file.type
    BY <1>2, <1>6, <1>9 DEF SameBut
  <1> QED BY <1>1, <1>10, CheckReboots

LEMMA CheckStutters == CheckInv /\ UNCHANGED chk_vars => CheckInv'
  <1> SUFFICES ASSUME CheckInv, UNCHANGED chk_vars PROVE CheckInv'
    OBVIOUS
  <1>1. UNCHANGED <<file, orig, opt, ptype, uuid_op, bttc, hdr, log, bsize, arenas, step, at, result, exit, seen, nruns, ncrash>>
    BY DEF chk_vars, tool
  <1>2. CheckTypes' /\ Origin' /\ HdrReady'
    BY <1>1 DEF CheckInv, CheckTypes, Origin, HdrReady
  <1>3. ArenasReady'
    BY <1>1 DEF CheckInv, ArenasReady, Collected, Unrepaired, Mended, BlkOut
  <1>4. Writing'
    BY <1>1 DEF CheckInv, Writing, WrittenOut, InfosOut, OutFor, ArenaInfoOut, BlkOut
  <1>5. Promise'
    BY <1>1 DEF CheckInv, Promise, RepairDone, Fixed
  <1> QED BY <1>2, <1>3, <1>4, <1>5 DEF CheckInv

LEMMA CheckStepInv == CheckInv /\ [CheckNext]_chk_vars => CheckInv'
  <1> SUFFICES ASSUME CheckInv, [CheckNext]_chk_vars PROVE CheckInv'
    OBVIOUS
  <1>y. \A q : \A no \in Refusals(q) : opt.yes => no = {}
    BY DEF Refusals
  <1>1. CASE Damage
    BY <1>1, CheckDamage
  <1>2. CASE CheckStep
    <2>1. ASSUME NEW no \in Refusals(Defaults \cup {"sig", "uuid", "crtime", "regenerate", "csum"}), pmempool_check_pool_hdr(no)
          PROVE  CheckInv'
      BY <1>y, <2>1, CheckPoolHdr
    <2>2. ASSUME NEW no, pmempool_check_pmemlog(no) \/ pmempool_check_pmemblk(no) PROVE CheckInv'
      BY <2>2, CheckPmemlog, CheckPmemblk
    <2>3. ASSUME NEW no, BttInfo(no) \/ BttInfoBad(no) \/ AdvancedRepair(no) PROVE CheckInv'
      BY <2>3, CheckBttInfo, CheckBttInfoBad, CheckAdvanced
    <2>4. ASSUME NEW no, step = "map_flog", NEW w \in SUBSET Wild(arenas[at].flog), MapFlog(no, w) PROVE CheckInv'
      BY <2>4, CheckMapFlog
    <2>5. ASSUME \/ MapFlogDies \/ WriteSkipped \/ pmempool_check_write_log \/ SyncLog
                 \/ WriteHdr \/ WriteInfos \/ WriteFlog \/ WriteMap \/ SyncMap
          PROVE  CheckInv'
      BY <2>5, CheckMapFlogDies, CheckWriteSkipped, CheckWriteLog, CheckSyncLog, CheckWriteHdr, CheckWriteInfos,
         CheckWriteFlog, CheckWriteMap, CheckSyncMap
    <2> QED BY <1>2, <2>1, <2>2, <2>3, <2>4, <2>5, Zenon DEF CheckStep
  <1>3. CASE \E o \in Options : pmempool_check_func(o)
    BY <1>3, CheckStarts
  <1>4. CASE CheckCrashLog \/ CheckCrashBlk
    BY <1>4, CheckCrashesLog, CheckCrashesBlk
  <1>5. CASE UNCHANGED chk_vars
    BY <1>5, CheckStutters
  <1> QED BY <1>1, <1>2, <1>3, <1>4, <1>5 DEF CheckNext

LEMMA CheckInvariant == CheckSpec => []CheckInv
  BY CheckStart, CheckStepInv, PTL DEF CheckSpec

-----------------------------------------------------------------------------
(* Theorems.                                                               *)

\* For every pool, every damage, every choice of options and answers, and
\* however often a power failure interrupts the writing: a repair that reports
\* success leaves a pool that the tool itself finds consistent, and, if no
\* power failure came in between, that the library opens with all its arenas.
THEOREM RepairsSound == CheckSpec => []RepairSound
  <1>1. CheckInv => RepairSound
    BY DEF CheckInv, Promise, Fixed, RepairSound
  <1> QED BY <1>1, CheckInvariant, PTL

\* Whatever map and flog of an arena hold, the tool finds as many unmapped
\* blocks as invalid entries, unless a flog pair's current half names a block
\* that does not exist; and after a repair that reports success, whatever the
\* accesses behind the bitmap found, btt.c finds every block of every arena
\* exactly once in its map and its flog.
THEOREM MapsRepaired == CheckSpec => []MapRepaired
  <1>1. CheckInv => MapRepaired
    <2> SUFFICES ASSUME CheckInv PROVE MapRepaired
      OBVIOUS
    <2>0. CheckTypes /\ HdrReady /\ ArenasReady /\ Promise
      BY DEF CheckInv
    <2>1. ASSUME step = "map_flog", Wild(arenas[at].flog) = {}
          PROVE  Cardinality(Unmapped(arenas[at].map, arenas[at].flog))
                   = Cardinality(InvalidMap(arenas[at].map)) + Cardinality(InvalidFlog(arenas[at].map, arenas[at].flog, {}))
      <3>1. arenas \in [1 .. NArenas -> Kept] /\ at \in 1 .. NArenas
        BY <2>0, <2>1 DEF ArenasReady, Collected, HdrReady, BlkSteps, BlkOut, ArenaIdx
      <3>2. arenas[at].map \in [Premap -> MapEntry] /\ arenas[at].flog \in [Lanes -> Pair]
        BY <3>1 DEF Kept
      <3>3. PICK m, g : m = arenas[at].map /\ g = arenas[at].flog
        OBVIOUS
      <3>4. MapTyped(m) /\ FlogTyped(g) /\ Wild(g) = {}
        BY <2>1, <3>2, <3>3, ShapesTyped
      <3>5. InvalidFlog(m, g, {}) = Unusable(m, g)
        BY <3>4, FindsUnusable
      <3> QED BY <3>3, <3>4, <3>5, AsManyAsInvalid
    <2>2. ASSUME RepairDone, ptype = "blk", Written(orig), NEW a \in ArenaIdx
          PROVE  ArenaSound(file.arenas[a])
      <3>1. FoundConsistent(file) /\ file.type = "blk" /\ FileTyped(file)
        BY <2>0, <2>2 DEF Promise, Fixed, CheckTypes
      <3>2. NoInvalid(file.arenas[a].map, file.arenas[a].flog)
        <4>1. PICK m, g : m = file.arenas[a].map /\ g = file.arenas[a].flog
          OBVIOUS
        <4>2. m \in [Premap -> MapEntry] /\ g \in [Lanes -> Pair]
          BY <3>1, <4>1 DEF FileTyped, Arena
        <4>3. InvalidMap(m) = {} /\ InvalidFlog(m, g, {}) = {} /\ Unmapped(m, g) = {}
          BY <3>1, <4>1 DEF FoundConsistent
        <4> QED BY <4>1, <4>2, <4>3, ShapesTyped, NothingFound
      <3>3. file.arenas[a].map \in [Premap -> MapEntry] /\ file.arenas[a].flog \in [Lanes -> Pair]
        BY <3>1 DEF FileTyped, Arena
      <3> QED BY <3>2, <3>3, ShapesTyped, NoInvalidSound
    <2> QED BY <2>1, <2>2 DEF MapRepaired
  <1> QED BY <1>1, CheckInvariant, PTL

\* A repair that reports success leaves alone every map entry that is in
\* range and shares its block with no other entry of its arena.
THEOREM DataKept == CheckSpec => []RepairKeepsData
  <1>1. CheckInv => RepairKeepsData
    <2> SUFFICES ASSUME CheckInv, RepairDone, ptype = "blk", Written(orig), NEW a \in ArenaIdx, NEW x \in Premap,
                        LibPost(orig.arenas[a].map, x) < IntNlba,
                        \A y \in Premap \ {x} : LibPost(orig.arenas[a].map, y) # LibPost(orig.arenas[a].map, x)
                 PROVE  file.arenas[a].map[x] = orig.arenas[a].map[x]
      BY DEF RepairKeepsData
    <2>1. CheckTypes /\ Promise
      BY DEF CheckInv
    <2>2. orig.arenas[a].map \in [Premap -> MapEntry]
      BY <2>1 DEF CheckTypes, FileTyped, Arena
    <2>3. \A y \in Premap : /\ MapPost(orig.arenas[a].map, y) = LibPost(orig.arenas[a].map, y)
                            /\ MapPost(orig.arenas[a].map, y) \in Nat
      BY <2>2, ShapesTyped DEF MapPost, LibPost, MapTyped
    <2>4. \A y \in 0 .. x - 1 : y \in Premap /\ y # x
      BY CheckAssumption DEF Premap
    <2>5. x \notin InvalidMap(orig.arenas[a].map)
      BY <2>3, <2>4, Counts DEF InvalidMap
    <2> QED BY <2>1, <2>5 DEF Promise, Fixed
  <1> QED BY <1>1, CheckInvariant, PTL
-----------------------------------------------------------------------------
(* The layout arithmetic.                                                  *)

LEMMA DivBound ==
  ASSUME NEW a \in Int, NEW b \in Nat \ {0}
  PROVE  /\ a \div b \in Int /\ (a \div b) * b <= a /\ a < (a \div b) * b + b
         /\ a % b \in 0 .. b - 1 /\ a = (a \div b) * b + (a % b)
  OBVIOUS

LEMMA Roundup ==
  ASSUME NEW x \in Int, NEW y \in Nat \ {0}
  PROVE  roundup(x, y) \in Int /\ x <= roundup(x, y) /\ roundup(x, y) < x + y
  <1>1. x + y - 1 \in Int
    OBVIOUS
  <1> DEFINE d == (x + y - 1) \div y
  <1>2. d \in Int /\ d * y <= x + y - 1 /\ x + y - 1 < d * y + y
    BY <1>1, DivBound
  <1>3. roundup(x, y) = d * y
    BY DEF roundup
  <1> HIDE DEF d
  <1>4. d * y \in Int
    BY <1>2
  <1> QED BY <1>2, <1>3, <1>4

LEMMA LessTimes ==
  ASSUME NEW a \in Int, NEW b \in Int, NEW m \in Nat, a < b
  PROVE  a * m + m <= b * m
  OBVIOUS

\* The division of a namespace leaves no room for a further arena, and every
\* arena but the last is as large as arenas get.
LEMMA ArenaSizes ==
  ASSUME NEW rawsize \in Nat, NEW i \in 1 .. Narena(rawsize)
  PROVE  LET raw  == ArenaRawsize(rawsize, i)
             left == rawsize - (i - 1) * BTT_MAX_ARENA - raw
         IN  /\ Narena(rawsize) \in Nat /\ i \in Nat /\ raw \in Int /\ left >= 0 /\ left \in Int
             /\ ArenaOff(i) \in Int /\ ArenaOff(i) = (i - 1) * BTT_MAX_ARENA
             /\ i = Narena(rawsize) => left < BTT_MIN_SIZE
             /\ i # Narena(rawsize) => raw = BTT_MAX_ARENA /\ left >= BTT_MIN_SIZE
  <1> DEFINE M == BTT_MAX_ARENA
             q == rawsize \div M
             r == rawsize % M
             n == Narena(rawsize)
             off == (i - 1) * M
  <1>1. M \in Nat \ {0} /\ BTT_MIN_SIZE \in Nat \ {0} /\ BTT_MIN_SIZE <= M
    BY FormatAssumption
  <1> HIDE DEF M
  <1>2. q \in Int /\ r \in 0 .. M - 1 /\ rawsize = q * M + r
    BY <1>1, DivBound
  <1>3. q >= 0
    BY <1>1, <1>2 
  <1>4. n = IF r >= BTT_MIN_SIZE THEN q + 1 ELSE q
    BY <1>2 DEF Narena, M
  <1> HIDE DEF q, r, n
  <1>5. n \in Nat /\ i \in Nat /\ i >= 1 /\ i <= n
    BY <1>2, <1>3, <1>4, <1>1 DEF n
  <1>6. off \in Int /\ off = (i - 1) * M
    BY <1>1, <1>5
  <1>7. i <= q => off + M <= q * M
    <2>1. i <= q => (i - 1) * M + M <= q * M
      BY LessTimes, <1>1, <1>2, <1>5
    <2> QED BY <2>1
  <1>8. i < q => off + M + M <= q * M
    <2>1. i < q => i * M + M <= q * M
      BY LessTimes, <1>1, <1>2, <1>5
    <2>2. (i - 1) * M + M = i * M
      BY <1>1, <1>5
    <2> QED BY <2>1, <2>2, <1>1, <1>2, <1>5
  <1>9. i = q + 1 => off = q * M
    BY <1>1, <1>2
  <1>10. i = q => off + M = q * M
    BY <1>1, <1>2
  <1> DEFINE Q == q * M
  <1>11. Q \in Int /\ rawsize = Q + r
    BY <1>1, <1>2
  <1>12. ArenaRawsize(rawsize, i) = IF rawsize - off > M THEN M ELSE rawsize - off
    BY DEF ArenaRawsize, M
  <1>13. ArenaOff(i) = off
    BY DEF ArenaOff, M
  <1> HIDE DEF off, Q
  <1> DEFINE raw == ArenaRawsize(rawsize, i)
             left == rawsize - off - raw
  <1>14. raw \in Int /\ left \in Int /\ left >= 0
    BY <1>12, <1>6, <1>1
  <1>15. i = n => left < BTT_MIN_SIZE
    <2>1. CASE r >= BTT_MIN_SIZE
      <3>1. i = n => off = Q
        BY <1>9, <1>4, <2>1 DEF Q
      <3> QED BY <3>1, <2>1, <1>1, <1>2, <1>6, <1>11, <1>12
    <2>2. CASE ~(r >= BTT_MIN_SIZE)
      <3>1. i = n => off + M = Q
        BY <1>10, <1>4, <2>2 DEF Q
      <3> QED BY <3>1, <2>2, <1>1, <1>2, <1>6, <1>11, <1>12
    <2> QED BY <2>1, <2>2
  <1>16. i # n => raw = M /\ left >= BTT_MIN_SIZE
    <2>1. CASE i < q
      <3>1. off + M + M <= Q
        BY <1>8, <2>1 DEF Q
      <3> QED BY <3>1, <1>1, <1>2, <1>6, <1>11, <1>12
    <2>2. CASE i = q /\ i # n
      <3>1. off + M = Q /\ r >= BTT_MIN_SIZE
        BY <1>10, <1>4, <2>2 DEF Q
      <3> QED BY <3>1, <1>1, <1>2, <1>6, <1>11, <1>12
    <2> QED BY <2>1, <2>2, <1>2, <1>4, <1>5
  <1> QED BY <1>1, <1>5, <1>6, <1>13, <1>14, <1>15, <1>16 DEF n, off, M

\* write_layout divides every namespace soundly: within an arena the areas
\* follow one another without overlap and hold what they are for, and the
\* arenas lie behind one another within the namespace.
THEOREM LayoutDividesSoundly ==
  ASSUME NEW rawsize \in Nat, NEW lbasize \in Nat, NEW nfree \in Nat
  PROVE  LayoutSound(rawsize, lbasize, nfree)
  <1> DEFINE infos == Layout(rawsize, lbasize, nfree)
             N == Narena(rawsize)
  <1> SUFFICES ASSUME LayoutPossible(rawsize, lbasize, nfree), NEW i \in DOMAIN infos
               PROVE  LET n == infos[i]
                      IN  /\ n.dataoff + n.internal_nlba * n.internal_lbasize <= n.mapoff
                          /\ n.mapoff + n.external_nlba * BTT_MAP_ENTRY_SIZE <= n.flogoff
                          /\ n.flogoff + nfree * FlogPairSize <= n.infooff
                          /\ ArenaOff(i) + n.infooff + InfoSize <= rawsize
                          /\ n.nextoff = IF i = Len(infos) THEN 0 ELSE BTT_MAX_ARENA
    BY DEF LayoutSound
  <1> DEFINE raw == ArenaRawsize(rawsize, i)
             left == rawsize - (i - 1) * BTT_MAX_ARENA - raw
             IL == InternalLbasize(lbasize)
             E == BTT_MAP_ENTRY_SIZE
             A == BTT_ALIGNMENT
             S == InfoSize
             G == FlogSize(nfree)
             int == InternalNlba(raw, lbasize, nfree)
             ext == int - nfree
             ms == roundup(ext * E, A)
  <1>1. i \in 1 .. N /\ infos[i] = ArenaInfo(rawsize, lbasize, nfree, i)
    BY DEF Layout
  <1>2. /\ N \in Nat /\ i \in Nat /\ raw \in Int /\ left >= 0 /\ left \in Int
        /\ ArenaOff(i) \in Int /\ ArenaOff(i) = (i - 1) * BTT_MAX_ARENA
        /\ i = N => left < BTT_MIN_SIZE
        /\ i # N => raw = BTT_MAX_ARENA /\ left >= BTT_MIN_SIZE
    BY <1>1, ArenaSizes
  <1>3. Len(infos) = N
    BY <1>2 DEF Layout
  <1>4. /\ E \in Nat \ {0} /\ A \in Nat \ {0} /\ S \in Nat \ {0} /\ FlogPairSize \in Nat \ {0}
        /\ BTT_MIN_LBA_SIZE \in Nat \ {0} /\ BTT_INTERNAL_LBA_ALIGNMENT \in Nat \ {0}
        /\ BTT_MIN_SIZE \in Nat /\ BTT_MAX_ARENA \in Nat
    BY FormatAssumption
  <1>5. IL \in Nat \ {0}
    <2> DEFINE x == IF lbasize < BTT_MIN_LBA_SIZE THEN BTT_MIN_LBA_SIZE ELSE lbasize
    <2>1. x \in Nat \ {0}
      BY <1>4
    <2>2. IL = roundup(x, BTT_INTERNAL_LBA_ALIGNMENT)
      BY DEF InternalLbasize
    <2> HIDE DEF x
    <2>3. /\ roundup(x, BTT_INTERNAL_LBA_ALIGNMENT) \in Int
          /\ x <= roundup(x, BTT_INTERNAL_LBA_ALIGNMENT)
      BY <2>1, <1>4, Roundup
    <2> HIDE DEF IL
    <2> QED BY <2>1, <2>2, <2>3
  <1>6. G \in Int /\ nfree * FlogPairSize <= G /\ nfree * FlogPairSize \in Nat
    <2>1. nfree * FlogPairSize \in Nat
      BY <1>4
    <2> QED BY <2>1, <1>4, Roundup DEF FlogSize
  <1>7. int \in Int /\ int * (IL + E) <= raw - 2 * S - G - A
    <2> DEFINE a == raw - 2 * S - G - A
    <2>1. a \in Int /\ IL + E \in Nat \ {0}
      BY <1>2, <1>4, <1>5, <1>6
    <2>2. int = a \div (IL + E)
      BY DEF InternalNlba
    <2> HIDE DEF a
    <2>3. int \in Int /\ int * (IL + E) <= a
      BY <2>1, <2>2, DivBound
    <2> QED BY <2>3 DEF a
  <1>8. int >= 2 * nfree
    BY <1>1 DEF LayoutPossible
  <1>9. ext \in Nat /\ ext <= int
    BY <1>7, <1>8
  <1>10. ext * E \in Int /\ int * IL \in Int /\ int * E \in Int /\ ext * E <= int * E
         /\ int * (IL + E) = int * IL + int * E
    BY <1>4, <1>5, <1>7, <1>9
  <1>11. ms \in Int /\ ext * E <= ms /\ ms < ext * E + A
    BY <1>10, <1>4, Roundup
  <1>12. /\ infos[i].dataoff = S /\ infos[i].internal_nlba = int /\ infos[i].external_nlba = ext
         /\ infos[i].internal_lbasize = IL /\ infos[i].infooff = raw - S
         /\ infos[i].flogoff = raw - S - G /\ infos[i].mapoff = raw - S - G - ms
         /\ infos[i].nextoff = IF left >= BTT_MIN_SIZE THEN raw ELSE 0
    BY <1>1 DEF ArenaInfo
  <1> HIDE DEF infos, N, raw, IL, E, A, S, G, int, ext, ms
  <1>13. S + int * IL <= raw - S - G - ms
    BY <1>2, <1>4, <1>6, <1>7, <1>10, <1>11
  <1>14. raw - S - G - ms + ext * E <= raw - S - G
    BY <1>2, <1>4, <1>6, <1>10, <1>11
  <1>15. raw - S - G + nfree * FlogPairSize <= raw - S
    BY <1>2, <1>4, <1>6
  <1>16. ArenaOff(i) + (raw - S) + S <= rawsize
    <2> DEFINE off == ArenaOff(i)
    <2>1. left = rawsize - off - raw
      BY <1>2
    <2> HIDE DEF off, left
    <2> QED BY <2>1, <1>2, <1>4 DEF off
  <1>17. (IF left >= BTT_MIN_SIZE THEN raw ELSE 0) = IF i = N THEN 0 ELSE BTT_MAX_ARENA
    <2> HIDE DEF left
    <2> QED BY <1>2, <1>4
  <1> QED BY <1>3, <1>12, <1>13, <1>14, <1>15, <1>16, <1>17 DEF E, S
-----------------------------------------------------------------------------
(* create.                                                                 *)

\* The multiples of y: rounding up gives one, and no larger one than needed.
LEMMA RoundupLeast ==
  ASSUME NEW x \in Int, NEW y \in Nat \ {0}, NEW k \in Int, x <= k * y
  PROVE  roundup(x, y) <= k * y
  <1> DEFINE d == (x + y - 1) \div y
  <1>1. d \in Int /\ d * y <= x + y - 1
    BY DivBound
  <1>2. roundup(x, y) = d * y
    BY DEF roundup
  <1> HIDE DEF d
  <1>3. ASSUME k < d PROVE FALSE
    <2>1. k * y + y <= d * y
      BY <1>1, <1>3, LessTimes
    <2> PICK p \in Int : p = k * y
      OBVIOUS
    <2> PICK q \in Int : q = d * y
      BY <1>1
    <2> QED BY <2>1, <1>1
  <1>4. d <= k
    BY <1>1, <1>3
  <1>5. CASE d = k
    BY <1>5, <1>2
  <1>6. CASE d < k
    <2>1. d * y + y <= k * y
      BY <1>1, <1>6, LessTimes
    <2> PICK p \in Int : p = k * y
      OBVIOUS
    <2> PICK q \in Int : q = d * y
      BY <1>1
    <2> QED BY <2>1, <1>2
  <1> QED BY <1>1, <1>4, <1>5, <1>6

\* A quotient is at least n exactly if n times the divisor fits.
LEMMA QuotientFits ==
  ASSUME NEW a \in Int, NEW b \in Nat \ {0}, NEW n \in Int
  PROVE  a \div b >= n <=> n * b <= a
  <1> DEFINE d == a \div b
  <1>1. d \in Int /\ d * b <= a /\ a < d * b + b
    BY DivBound
  <1> HIDE DEF d
  <1>2. ASSUME d >= n PROVE n * b <= a
    <2>1. CASE d = n
      BY <2>1, <1>1
    <2>2. CASE n < d
      <3>1. n * b + b <= d * b
        BY <2>2, <1>1, LessTimes
      <3> PICK p \in Int : p = n * b
        OBVIOUS
      <3> PICK q \in Int : q = d * b
        BY <1>1
      <3> QED BY <3>1, <1>1
    <2> QED BY <1>1, <1>2, <2>1, <2>2
  <1>3. ASSUME n * b <= a PROVE d >= n
    <2> SUFFICES ASSUME d < n PROVE FALSE
      BY <1>1
    <2>1. d * b + b <= n * b
      BY <1>1, LessTimes
    <2> PICK p \in Int : p = n * b
      OBVIOUS
    <2> PICK q \in Int : q = d * b
      BY <1>1
    <2> QED BY <2>1, <1>1, <1>3
  <1> QED BY <1>2, <1>3 DEF d

LEMMA ConstantSizes ==
  /\ InfoSize \in Nat /\ BTT_ALIGNMENT \in Nat /\ BTT_MAP_ENTRY_SIZE \in Nat \ {0}
  /\ BTT_MIN_LBA_SIZE \in Nat \ {0} /\ BTT_INTERNAL_LBA_ALIGNMENT \in Nat \ {0}
  /\ NFREE \in Nat \ {0} /\ 2 * NFREE \in Nat \ {0} /\ FlogSize(NFREE) \in Int
  /\ BlkHdr \in Nat /\ MinBlk \in Nat /\ MinBlkSize \in Nat
  /\ BTT_MIN_SIZE \in Nat \ {0} /\ BTT_MAX_ARENA \in Nat \ {0} /\ BTT_MIN_SIZE <= BTT_MAX_ARENA
  <1>1. /\ NFREE \in Nat \ {0} /\ BTT_ALIGNMENT \in Nat \ {0} /\ FlogPairSize \in Nat
        /\ BTT_MIN_SIZE \in Nat \ {0} /\ BTT_MAX_ARENA \in Nat /\ BTT_MIN_SIZE <= BTT_MAX_ARENA
        /\ InfoSize \in Nat /\ BTT_MAP_ENTRY_SIZE \in Nat \ {0}
        /\ BTT_MIN_LBA_SIZE \in Nat \ {0} /\ BTT_INTERNAL_LBA_ALIGNMENT \in Nat \ {0}
        /\ BlkHdr \in Nat /\ MinBlk \in Nat /\ MinBlkSize \in Nat
    BY FormatAssumption, CmdsAssumption
  <1>2. NFREE * FlogPairSize \in Int
    BY <1>1
  <1>3. FlogSize(NFREE) \in Int
    BY <1>1, <1>2, Roundup DEF FlogSize
  <1> QED BY <1>1, <1>3

LEMMA LbasizePositive ==
  ASSUME NEW lbasize \in Nat
  PROVE  InternalLbasize(lbasize) \in Nat \ {0}
  <1> PICK x \in Nat \ {0} : x = IF lbasize < BTT_MIN_LBA_SIZE THEN BTT_MIN_LBA_SIZE ELSE lbasize
    BY ConstantSizes
  <1>1. InternalLbasize(lbasize) = roundup(x, BTT_INTERNAL_LBA_ALIGNMENT)
    BY DEF InternalLbasize
  <1>0. x \in Int /\ BTT_INTERNAL_LBA_ALIGNMENT \in Nat \ {0}
    BY ConstantSizes
  <1>2. /\ roundup(x, BTT_INTERNAL_LBA_ALIGNMENT) \in Int
        /\ x <= roundup(x, BTT_INTERNAL_LBA_ALIGNMENT)
    BY ONLY <1>0, Roundup
  <1> QED BY <1>1, <1>2

\* What is left of an arena for blocks and their map entries.
Room(raw) == raw - 2 * InfoSize - FlogSize(NFREE) - BTT_ALIGNMENT

\* An arena has room for its free blocks exactly if a block and its map entry
\* are no larger than a share of the arena.
LEMMA ShareFits ==
  ASSUME NEW raw \in Int, NEW lbasize \in Nat
  PROVE  InternalNlba(raw, lbasize, NFREE) >= 2 * NFREE
           <=> Room(raw) \div (2 * NFREE) >= InternalLbasize(lbasize) + BTT_MAP_ENTRY_SIZE
  <1> PICK X \in Int : X = Room(raw)
    BY ConstantSizes DEF Room
  <1> PICK F \in Nat \ {0} : F = 2 * NFREE
    BY ConstantSizes
  <1> PICK B \in Nat \ {0} : B = InternalLbasize(lbasize) + BTT_MAP_ENTRY_SIZE
    <2>1. InternalLbasize(lbasize) \in Nat \ {0}
      BY LbasizePositive
    <2> QED BY <2>1, ConstantSizes
  <1>1. InternalNlba(raw, lbasize, NFREE) = X \div B
    BY DEF InternalNlba, Room
  <1>2. X \div B >= F <=> F * B <= X
    BY QuotientFits
  <1>3. X \div F >= B <=> B * F <= X
    BY QuotientFits
  <1>4. F * B = B * F
    OBVIOUS
  <1> QED BY <1>1, <1>2, <1>3, <1>4

\* A namespace that is smaller than the largest arena and the smallest one
\* together has at most one arena.
LEMMA OneArena ==
  ASSUME NEW raw \in Nat, raw < BTT_MAX_ARENA + BTT_MIN_SIZE, NEW i \in 1 .. Narena(raw)
  PROVE  i = 1
  <1> PICK M \in Nat \ {0} : M = BTT_MAX_ARENA
    BY ConstantSizes
  <1>0. raw \in Int
    OBVIOUS
  <1> DEFINE q == raw \div M
             r == raw % M
  <1>1. q \in Int /\ r \in 0 .. M - 1 /\ raw = q * M + r
    BY <1>0, DivBound
  <1>4. Narena(raw) = q + (IF r >= BTT_MIN_SIZE THEN 1 ELSE 0)
    BY DEF Narena
  <1> HIDE DEF q, r
  <1>2. q <= 1
    <2> SUFFICES ASSUME 1 < q PROVE FALSE
      BY <1>1
    <2>1. 1 * M + M <= q * M
      BY <1>1, LessTimes
    <2> PICK p \in Int : p = q * M
      BY <1>1
    <2> QED BY <2>1, <1>1, ConstantSizes
  <1>3. q = 1 => raw = M + r
    BY <1>1
  <1> QED BY <1>1, <1>2, <1>3, <1>4, ConstantSizes

LEMMA FirstArena ==
  ASSUME NEW raw \in Nat
  PROVE  ArenaRawsize(raw, 1) = IF raw > BTT_MAX_ARENA THEN BTT_MAX_ARENA ELSE raw
  BY ConstantSizes DEF ArenaRawsize

LEMMA HasArena ==
  ASSUME NEW raw \in Nat, raw >= BTT_MIN_SIZE
  PROVE  1 \in 1 .. Narena(raw)
  <1> PICK M \in Nat \ {0} : M = BTT_MAX_ARENA
    BY ConstantSizes
  <1>0. raw \in Int
    OBVIOUS
  <1> DEFINE q == raw \div M
             r == raw % M
  <1>1. q \in Int /\ r \in 0 .. M - 1 /\ raw = q * M + r
    BY <1>0, DivBound
  <1>4. Narena(raw) = q + (IF r >= BTT_MIN_SIZE THEN 1 ELSE 0)
    BY DEF Narena
  <1> HIDE DEF q, r
  <1>2. q >= 0
    <2> SUFFICES ASSUME q < 0 PROVE FALSE
      BY <1>1
    <2>1. q * M + M <= 0 * M
      BY <1>1, LessTimes
    <2> PICK p \in Int : p = q * M
      BY <1>1
    <2> QED BY <2>1, <1>1
  <1>3. q = 0 => raw = r
    BY <1>1
  <1> QED BY <1>1, <1>2, <1>3, <1>4, ConstantSizes

\* The block size that a refusal names: every smaller one can be laid out.
LEMMA HintRight ==
  ASSUME NEW size \in Nat, NEW b \in Nat, size >= MinBlk,
         size - BlkHdr < BTT_MAX_ARENA + BTT_MIN_SIZE, b < util_get_max_bsize(size)
  PROVE  LayoutPossible(size - BlkHdr, b, NFREE)
  <1> PICK L \in Nat \ {0} : L = BTT_INTERNAL_LBA_ALIGNMENT
    BY ConstantSizes
  <1> PICK m \in Nat \ {0} : m = BTT_MIN_LBA_SIZE
    BY ConstantSizes
  <1> PICK E \in Nat \ {0} : E = BTT_MAP_ENTRY_SIZE
    BY ConstantSizes
  <1> PICK F \in Nat \ {0} : F = 2 * NFREE
    BY ConstantSizes
  <1> PICK raw \in Nat : raw = size - BlkHdr
    BY ConstantSizes, SmallestPool
  <1> PICK raw0 \in Nat : raw0 = MinBlk - BlkHdr
    BY ConstantSizes, SmallestPool
  <1>1. raw0 >= BTT_MIN_SIZE /\ raw0 <= raw /\ size # 0
    BY ConstantSizes, SmallestPool
  <1> PICK a \in Nat : a = IF raw > BTT_MAX_ARENA THEN BTT_MAX_ARENA ELSE raw
    BY ConstantSizes
  <1> PICK a0 \in Nat : a0 = IF raw0 > BTT_MAX_ARENA THEN BTT_MAX_ARENA ELSE raw0
    BY ConstantSizes
  <1>2. ArenaRawsize(raw, 1) = a /\ ArenaRawsize(raw0, 1) = a0
    BY FirstArena
  <1> PICK X \in Int : X = Room(a)
    BY ConstantSizes DEF Room
  <1> PICK X0 \in Int : X0 = Room(a0)
    BY ConstantSizes DEF Room
  <1>3. X0 <= X
    BY <1>1, ConstantSizes DEF Room
  <1> PICK s \in Int : s = X \div F
    BY DivBound
  <1> PICK n \in Int : n = s - E
    OBVIOUS
  <1>4. n >= roundup(m, L)
    <2>1. InternalLbasize(m) = roundup(m, L)
      BY DEF InternalLbasize
    <2>2. roundup(m, L) \in Int
      BY Roundup
    <2> PICK B \in Int : B = roundup(m, L) + E
      BY <2>2
    <2>3. LayoutPossible(raw0, m, NFREE)
      BY SmallestPool
    <2>4. 1 \in 1 .. Narena(raw0)
      BY <1>1, HasArena
    <2>5. InternalNlba(ArenaRawsize(raw0, 1), m, NFREE) >= 2 * NFREE
      BY <2>3, <2>4 DEF LayoutPossible
    <2>6. InternalNlba(a0, m, NFREE) >= 2 * NFREE
      BY <1>2, <2>5
    <2>7. Room(a0) \div (2 * NFREE) >= InternalLbasize(m) + BTT_MAP_ENTRY_SIZE
      BY <2>6, ShareFits
    <2>8. X0 \div F >= B
      BY <2>1, <2>7
    <2>9. B * F <= X0
      BY <2>8, QuotientFits
    <2>10. B * F <= X
      <3> PICK p \in Int : p = B * F
        OBVIOUS
      <3> QED BY <2>9, <1>3
    <2>11. X \div F >= B
      BY <2>10, QuotientFits
    <2> QED BY <2>2, <2>11
  <1>5. m <= roundup(m, L) /\ roundup(m, L) \in Int
    <2>1. m \in Int /\ L \in Nat \ {0}
      OBVIOUS
    <2> QED BY ONLY <2>1, Roundup
  <1>6. util_get_max_bsize(size) = roundup(n, L) - L
    <2>1. n >= m
      BY <1>4, <1>5
    <2>2. (a - 2 * InfoSize - FlogSize(NFREE)) - BTT_ALIGNMENT = X
      BY ConstantSizes DEF Room
    <2>3. util_get_max_bsize(size) =
            roundup(IF X \div (2 * NFREE) - BTT_MAP_ENTRY_SIZE < BTT_MIN_LBA_SIZE THEN BTT_MIN_LBA_SIZE
                    ELSE X \div (2 * NFREE) - BTT_MAP_ENTRY_SIZE, BTT_INTERNAL_LBA_ALIGNMENT)
              - BTT_INTERNAL_LBA_ALIGNMENT
      BY <2>2, <1>1 DEF util_get_max_bsize
    <2>4. X \div (2 * NFREE) - BTT_MAP_ENTRY_SIZE = n
      OBVIOUS
    <2>5. util_get_max_bsize(size) = roundup(IF n < m THEN m ELSE n, L) - L
      BY <2>3, <2>4
    <2> QED BY <2>5, <2>1
  \* The bound is a multiple of the alignment below n.
  <1>7. \E k \in Int : roundup(n, L) - L = k * L
    <2> PICK c \in Int : c = n + L - 1
      OBVIOUS
    <2> PICK d \in Int : d = c \div L
      BY DivBound
    <2>1. roundup(n, L) = d * L
      BY DEF roundup
    <2>2. d * L - L = (d - 1) * L /\ d - 1 \in Int
      OBVIOUS
    <2> WITNESS d - 1 \in Int
    <2> QED BY ONLY <2>1, <2>2
  <1> PICK k \in Int : roundup(n, L) - L = k * L
    BY <1>7
  <1>8. k * L \in Int /\ b < k * L /\ k * L < n
    <2>1. roundup(n, L) \in Int /\ roundup(n, L) < n + L
      BY Roundup
    <2> QED BY <2>1, <1>6
  <1>9. InternalLbasize(b) <= n
    <2>1. CASE b < m
      <3>1. InternalLbasize(b) = roundup(m, L)
        BY <2>1 DEF InternalLbasize
      <3> QED BY <3>1, <1>4
    <2>2. CASE ~(b < m)
      <3>1. InternalLbasize(b) = roundup(b, L)
        BY <2>2 DEF InternalLbasize
      <3>2. b <= k * L
        BY <1>8
      <3>3. b \in Int /\ L \in Nat \ {0} /\ k \in Int
        OBVIOUS
      <3>5. roundup(b, L) <= k * L
        BY ONLY <3>2, <3>3, RoundupLeast
      <3>4. roundup(b, L) \in Int
        BY Roundup
      <3> QED BY <3>1, <3>5, <3>4, <1>8
    <2> QED BY <2>1, <2>2
  <1>10. Room(a) \div (2 * NFREE) >= InternalLbasize(b) + BTT_MAP_ENTRY_SIZE
    <2>1. InternalLbasize(b) \in Nat \ {0}
      BY LbasizePositive
    <2> QED BY <2>1, <1>9
  <1>11. InternalNlba(a, b, NFREE) >= 2 * NFREE
    BY <1>10, ShareFits
  <1>12. raw < BTT_MAX_ARENA + BTT_MIN_SIZE
    OBVIOUS
  <1>13. \A i \in 1 .. Narena(raw) : i = 1
    BY <1>12, OneArena
  <1>14. LayoutPossible(raw, b, NFREE)
    BY <1>13, <1>11, <1>2 DEF LayoutPossible
  <1> QED BY <1>14

\* What create promises when it has ended.
CreateEnded ==
  /\ \A n \in DOMAIN fs \ {Target} : fs[n] = FsInit[n]
  /\ ret = "fail" => (FileExists(Target) <=> FsInit[Target].kind # "absent")
  /\ ret = "ok" =>
       LET src == IF inv.inherit = "none" \/ inv.type # "none"
                    THEN [size |-> inv.size, kind |-> inv.type] ELSE FsInit[inv.inherit]
           new == File(Target)
       IN  /\ new.kind = src.kind
           /\ src.size # 0 => new.size = src.size
           /\ new.kind = "blk" =>
                /\ new.laid <=> inv.layout >= 0
                /\ LayoutSound(new.size - BlkHdr, new.bsize, NFREE)

\* create runs alone, on the files that were there.
CreateInv ==
  /\ inv \in Invocations
  /\ inv.cmd = "create" =>
       /\ fidx = 1 /\ st \in {"main", "create", "done"}
       /\ st # "done" => fs = FsInit
       /\ st = "done" => CreateEnded

LEMMA CreateStart == CmdInit => CreateInv
  BY DEF CmdInit, CmdStart, CreateInv

\* The new pool: its fields are what NewPool was called with.
LEMMA NewLog ==
  ASSUME NEW n, NEW b, NEW laid \in BOOLEAN
  PROVE  NewPool("log", n, b, laid).kind = "log" /\ NewPool("log", n, b, laid).size = n
  BY DEF NewPool

LEMMA NewBlk ==
  ASSUME NEW type, type # "log", NEW n, NEW b, NEW laid \in BOOLEAN
  PROVE  LET p == NewPool(type, n, b, laid)
         IN  p.kind = "blk" /\ p.size = n /\ p.bsize = b /\ p.laid = laid
  <1> PICK ar : ar = [a \in DOMAIN Layout(n - BlkHdr, b, NFREE) |->
                       [x \in 1 .. Layout(n - BlkHdr, b, NFREE)[a].external_nlba |->
                          IF laid /\ a = 1 /\ x = inv.layout + 1 THEN "zero" ELSE "initial"]]
    BY Zenon
  <1>1. NewPool(type, n, b, laid) = [kind |-> "blk", size |-> n, bsize |-> b, laid |-> laid, arenas |-> ar]
    BY Zenon DEF NewPool
  <1> PICK p : p = [kind |-> "blk", size |-> n, bsize |-> b, laid |-> laid, arenas |-> ar]
    BY Zenon
  <1>2. p.kind = "blk" /\ p.size = n /\ p.bsize = b
    OBVIOUS
  <1>3. p.laid = laid
    BY Zenon
  <1> QED BY <1>1, <1>2, <1>3, Zenon

\* What a create that is not refused has been asked for.
LEMMA CreateAsked ==
  ASSUME inv \in Invocations, inv.cmd = "create", fs = FsInit, fidx = 1, ~CreateRefused
  PROVE  LET src == IF inv.inherit = "none" \/ inv.type # "none"
                      THEN [size |-> inv.size, kind |-> inv.type] ELSE FsInit[inv.inherit]
         IN  /\ CreateType \in {"log", "blk"} /\ src.kind = CreateType
             /\ src.size = CreateSize0 /\ CreateSize0 \in Nat
             /\ CreateType = "blk" => CreateBsize \in Nat
  <1>1. /\ inv.type \in {"none", "log", "blk", "unknown"} /\ inv.size \in Nat /\ inv.bsize \in Int
        /\ inv.inherit \in DOMAIN FsInit \cup {"none"}
    BY ArgumentsParsed
  <1>2. CASE inv.type = "none"
    <2>1. inv.inherit # "none" /\ IsPool(FsInit[inv.inherit]) /\ inv.inherit \in DOMAIN FsInit
      BY <1>1, <1>2 DEF CreateRefused, Source, File
    <2>2. Source = FsInit[inv.inherit]
      BY <2>1 DEF Source, File
    <2>3. FsInit[inv.inherit].size \in Nat /\ (FsInit[inv.inherit].kind = "blk" => FsInit[inv.inherit].bsize \in Nat)
      BY <2>1, ArgumentsParsed DEF IsPool
    <2> QED BY <1>2, <2>1, <2>2, <2>3, ConstantSizes DEF CreateType, CreateSize0, CreateBsize, IsPool
  <1>3. CASE inv.type # "none"
    <2>1. inv.type \in {"log", "blk"} /\ (inv.type = "blk" => inv.bsize \in Nat)
      BY <1>1, <1>3 DEF CreateRefused
    <2> QED BY <1>1, <1>3, <2>1, ConstantSizes DEF CreateType, CreateSize0, CreateBsize
  <1> QED BY <1>2, <1>3

LEMMA CreateStep ==
  ASSUME CreateInv, inv.cmd = "create", pmempool_create_func
  PROVE  CreateInv'
  <1> DEFINE n == IF CreateSize # 0 THEN CreateSize ELSE File(Target).size
  <1> PICK T : T = inv.files[1]
    OBVIOUS
  <1>1. /\ inv \in Invocations /\ fidx = 1 /\ st = "create" /\ fs = FsInit /\ Target = T
        /\ T \in DOMAIN FsInit /\ inv.layout \in Int
    BY ArgumentsParsed DEF CreateInv, pmempool_create_func, Target
  <1>2. inv' = inv /\ fidx' = fidx /\ Target' = T /\ st' = "done" /\ ret' \in {"ok", "fail"}
    BY <1>1 DEF pmempool_create_func, End, Target
  <1> SUFFICES CreateEnded'
    BY <1>1, <1>2 DEF CreateInv
  <1>3. CASE ret' = "fail" /\ (fs' = fs \/ fs' = [fs EXCEPT ![T] = [kind |-> "absent"]]
                                 \/ \E p : p.kind # "absent" /\ fs' = [fs EXCEPT ![T] = p])
             /\ (FileExists(T)' <=> FileExists(T))
    <2>1. \A m \in DOMAIN fs' \ {T} : fs'[m] = FsInit[m]
      BY <1>1, <1>3
    <2>2. FileExists(T)' <=> FsInit[T].kind # "absent"
      BY <1>1, <1>3 DEF FileExists
    <2> QED BY <1>2, <1>3, <2>1, <2>2 DEF CreateEnded
  <1>4. CASE CreateRefused
    BY <1>1, <1>2, <1>4, <1>3 DEF pmempool_create_func, End, FileExists
  <1> DEFINE CT == CreateType
             CB == CreateBsize
             src == IF inv.inherit = "none" \/ inv.type # "none"
                      THEN [size |-> inv.size, kind |-> inv.type] ELSE FsInit[inv.inherit]
  <1>5. CASE ~CreateRefused
    <2>1. /\ CT \in {"log", "blk"} /\ src.kind = CT /\ src.size = CreateSize0 /\ CreateSize0 \in Nat
          /\ CT = "blk" => CB \in Nat
      BY <1>1, <1>5, CreateAsked
    <2> PICK f \in BOOLEAN : f = FALSE
      BY Zenon
    <2> PICK t \in BOOLEAN : t = TRUE
      BY Zenon
    <2> DEFINE P(b) == NewPool(CT, n, CB, b)
    <2>2. \A b \in BOOLEAN : /\ P(b).kind = CT /\ P(b).size = n
                             /\ CT = "blk" => P(b).bsize = CB /\ P(b).laid = b
      <3> TAKE b \in BOOLEAN
      <3>1. CASE CT = "log"
        BY <3>1, NewLog
      <3>2. CASE CT = "blk"
        BY <3>2, NewBlk
      <3> QED BY <2>1, <3>1, <3>2
    <2>3. CASE ~CanCreate(CreateSize, CT, CB)
      BY <1>1, <1>2, <1>3, <1>5, <2>3 DEF pmempool_create_func, End, FileExists, Cleanup, File
    <2>4. CASE CanCreate(CreateSize, CT, CB)
      <3>1. \/ ret' = "ok" /\ fs' = [fs EXCEPT ![T] = P(f)] /\ inv.layout < 0
            \/ ret' = "ok" /\ fs' = [fs EXCEPT ![T] = P(t)] /\ ~(inv.layout < 0)
            \/ ret' = "fail" /\ fs' = Cleanup(P(f))
        BY <1>1, <1>5, <2>4, Zenon DEF pmempool_create_func, End
      <3>2. n \in Nat /\ (CreateSize0 # 0 => n = CreateSize0) /\ (CT = "blk" => n >= MinBlk)
        <4>1. CreateSize \in Nat /\ (CreateSize0 # 0 => CreateSize = CreateSize0)
          BY <2>1, CmdsAssumption DEF CreateSize, pmem_pool_get_min_size
        <4>2. CreateSize = 0 => File(Target).kind = "zero" /\ File(Target) = FsInit[T]
          BY <1>1, <2>4 DEF CanCreate, File
        <4>3. CreateSize = 0 => File(Target).size \in Nat
          BY <4>2, <1>1, ArgumentsParsed
        <4>4. n >= pmem_pool_get_min_size(CT)
          BY <2>4 DEF CanCreate
        <4> QED BY <4>1, <4>3, <4>4 DEF pmem_pool_get_min_size
      <3>3. CT = "blk" => LayoutSound(n - BlkHdr, CB, NFREE)
        <4> SUFFICES ASSUME CT = "blk" PROVE LayoutSound(n - BlkHdr, CB, NFREE)
          OBVIOUS
        <4>1. n - BlkHdr \in Nat /\ CB \in Nat /\ NFREE \in Nat
          BY <3>2, <2>1, ConstantSizes, SmallestPool
        <4> QED BY <4>1, LayoutDividesSoundly
      <3> HIDE DEF n, CT, CB, P, src
      <3>4. ASSUME NEW b \in BOOLEAN, ret' = "ok", fs' = [fs EXCEPT ![T] = P(b)],
                   b <=> inv.layout >= 0
            PROVE  CreateEnded'
        <4> PICK q : q = P(b)
          OBVIOUS
        <4>1. q.kind = CT /\ q.size = n /\ (CT = "blk" => q.bsize = CB /\ q.laid = b)
          BY <2>2
        <4>2. File(T)' = q /\ \A m \in DOMAIN fs' \ {T} : fs'[m] = FsInit[m]
          BY <1>1, <3>4 DEF File
        <4>3. q.kind = src.kind /\ (src.size # 0 => q.size = src.size)
          BY <4>1, <2>1, <3>2
        <4>4. q.kind = "blk" => LayoutSound(q.size - BlkHdr, q.bsize, NFREE)
          BY <4>1, <3>3
        <4>5. q.kind = "blk" => (q.laid <=> inv.layout >= 0)
          BY <4>1, <3>4, Zenon
        <4>6. File(Target)' = q
          BY <4>2, <1>2 DEF File
        <4> QED BY <1>2, <3>4, <4>2, <4>3, <4>4, <4>5, <4>6, Zenon DEF CreateEnded, src
      <3>5. CASE ret' = "ok" /\ fs' = [fs EXCEPT ![T] = P(f)] /\ inv.layout < 0
        <4>1. f <=> inv.layout >= 0
          BY <3>5, <1>1
        <4> QED BY <3>4, <3>5, <4>1
      <3>6. CASE ret' = "ok" /\ fs' = [fs EXCEPT ![T] = P(t)] /\ ~(inv.layout < 0)
        <4>1. t <=> inv.layout >= 0
          BY <3>6, <1>1
        <4> QED BY <3>4, <3>6, <4>1
      <3>7. CASE ret' = "fail" /\ fs' = Cleanup(P(f))
        <4> PICK q : q = P(f)
          OBVIOUS
        <4>1. q.kind # "absent"
          BY <2>1, <2>2
        <4> QED BY <1>1, <1>3, <3>7, <4>1 DEF Cleanup, FileExists
      <3> QED BY <3>1, <3>5, <3>6, <3>7
    <2> QED BY <2>3, <2>4
  <1> QED BY <1>4, <1>5

LEMMA CreateNext == CreateInv /\ [CmdNext]_cmd_vars => CreateInv'
  <1> SUFFICES ASSUME CreateInv, [CmdNext]_cmd_vars PROVE CreateInv'
    OBVIOUS
  <1>1. CASE UNCHANGED cmd_vars
    BY <1>1 DEF CreateInv, CreateEnded, cmd_vars, Target, File, FileExists
  <1>2. CASE CmdNext /\ inv.cmd # "create"
    <2>1. inv' = inv
      BY <1>2 DEF CmdNext, main, ParseToken, Parsed, DumpChunk, DumpLog, DumpBlk, InfoFile, InfoArena,
                  InfoBlkEnd, InfoLog, pmempool_create_func
    <2> QED BY <1>2, <2>1 DEF CreateInv
  <1>3. CASE CmdNext /\ inv.cmd = "create"
    <2>1. st \in {"main", "create", "done"}
      BY <1>3 DEF CreateInv
    <2>2. main \/ pmempool_create_func
      BY <1>3, <2>1 DEF CmdNext, ParseToken, Parsed, DumpChunk, DumpLog, DumpBlk, InfoFile, InfoArena,
                        InfoBlkEnd, InfoLog
    <2>3. CASE main
      BY <1>3, <2>3 DEF main, CreateInv
    <2> QED BY <1>3, <2>2, <2>3, CreateStep
  <1> QED BY <1>1, <1>2, <1>3

\* pmempool create, for every command line and every set of files: a failure
\* leaves no file behind that was not there and removes none that was, a
\* success leaves the pool that was asked for with sound arenas, and the
\* block size that a refusal names is right.
THEOREM CreatesSoundly == CmdSpec => []CreateSound
  <1>1. CreateInv => CreateSound
    <2> SUFFICES ASSUME CreateInv PROVE BsizeHint
      BY DEF CreateInv, CreateSound, CreateEnded
    <2> SUFFICES ASSUME inv.cmd = "create", inv.type = "blk", inv.bsize >= 0, inv.size >= MinBlk,
                        inv.size - BlkHdr < BTT_MAX_ARENA + BTT_MIN_SIZE,
                        CreateBsize < util_get_max_bsize(inv.size)
                 PROVE  LayoutPossible(inv.size - BlkHdr, CreateBsize, NFREE)
      BY DEF BsizeHint
    <2>1. inv.size \in Nat /\ inv.bsize \in Int
      BY ArgumentsParsed DEF CreateInv
    <2>2. CreateBsize \in Nat
      BY <2>1, ConstantSizes DEF CreateBsize
    <2> QED BY <2>1, <2>2, HintRight
  <1> QED BY <1>1, CreateStart, CreateNext, PTL DEF CmdSpec
=============================================================================
