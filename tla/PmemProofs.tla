----------------------------- MODULE PmemProofs -----------------------------
(***************************************************************************)
(* Proofs about module Pmem: for every size of a cache line, of the        *)
(* streaming loops, of the range and whatever its alignment, a persisting  *)
(* call has made its range durable when it returns, and a move or a set    *)
(* has stored what it should, however its ranges overlap.                  *)
(***************************************************************************)
EXTENDS Pmem, SequenceTheorems, WellFoundedInduction, TLAPS

\* The loops that store and flush.
OpSet ==
  [do : {"copy"}, to : Int, from : Int, unit : Nat, cnt : Nat, dir : {1, -1}, nt : BOOLEAN]
    \cup [do : {"set"}, to : Int, len : Nat, nt : BOOLEAN]
    \cup [do : {"flush"}, addr : Int, len : Nat]

\* What a loop does to byte a: it leaves it in the cache, or sends it off.
Low(o)  == IF o.do = "set" THEN o.to ELSE IF o.dir = 1 THEN o.to ELSE o.to - o.unit * o.cnt
Size(o) == IF o.do = "set" THEN o.len ELSE o.unit * o.cnt
Writes(o, a)  == o.do \in {"copy", "set"} /\ a \in Bytes(Low(o), Size(o))
Streams(o)    == o.do \in {"copy", "set"} /\ o.nt
Dirties(o, a) == Writes(o, a) /\ ~Streams(o)
Sends(o, a)   == \/ Writes(o, a) /\ Streams(o)
                 \/ o.do = "flush" /\ a \in FlushedLines(o.addr, o.len)

\* What a sequence of loops does to it: it never leaves it in the cache, or
\* not after having sent it off; it streams nothing.
Clean(p, a) == \A j \in 1 .. Len(p) : ~Dirties(p[j], a)
Plan(p, a)  == \E i \in 1 .. Len(p) : Sends(p[i], a) /\ \A j \in (i + 1) .. Len(p) : ~Dirties(p[j], a)
Calm(p)     == \A j \in 1 .. Len(p) : ~Streams(p[j])

\* A sequence of loops that sends off the bytes S and leaves only some of T in
\* the cache.
Piece(p, S, T) ==
  p \in Seq(OpSet) /\ (\A a \in S : Plan(p, a)) /\ \A a \in Addr \ T : Clean(p, a)

-----------------------------------------------------------------------------
(* Sequences of loops.                                                     *)

LEMMA ConcatIs ==
  ASSUME NEW p \in Seq(OpSet), NEW q \in Seq(OpSet), NEW a
  PROVE  /\ p \o q \in Seq(OpSet)
         /\ Clean(p, a) /\ Clean(q, a) => Clean(p \o q, a)
         /\ Plan(p, a) /\ Clean(q, a) => Plan(p \o q, a)
         /\ Plan(q, a) => Plan(p \o q, a)
         /\ Calm(p) /\ Calm(q) => Calm(p \o q)
  <1> DEFINE r == p \o q
  <1>1. /\ r \in Seq(OpSet) /\ Len(r) = Len(p) + Len(q)
        /\ \A i \in 1 .. Len(p) + Len(q) : r[i] = IF i <= Len(p) THEN p[i] ELSE q[i - Len(p)]
    BY ConcatProperties
  <1> HIDE DEF r
  <1>n. PICK m, n : m = Len(p) /\ n = Len(q)
    OBVIOUS
  <1>0. m \in Nat /\ n \in Nat
    BY <1>n, LenProperties
  <1>2. Len(r) = m + n
    BY <1>1, <1>n
  <1>3. \A i \in 1 .. m : r[i] = p[i]
    BY <1>1, <1>n, <1>0
  <1>4. \A i \in 1 .. n : r[i + m] = q[i]
    <2>1. ASSUME NEW i \in 1 .. n PROVE r[i + m] = q[i]
      <3>1. i + m \in 1 .. Len(p) + Len(q) /\ ~(i + m <= Len(p)) /\ (i + m) - Len(p) = i
        BY <1>0, <1>n
      <3> QED BY <3>1, <1>1
    <2> QED BY <2>1
  <1>5. ASSUME NEW j \in 1 .. (m + n) PROVE j \in 1 .. m \/ (j - m \in 1 .. n /\ r[j] = q[j - m])
    <2>1. j \in 1 .. m \/ (j - m \in 1 .. n /\ (j - m) + m = j)
      BY <1>0
    <2> QED BY <2>1, <1>4
  <1>6. ASSUME Clean(p, a), Clean(q, a) PROVE Clean(r, a)
    BY <1>6, <1>n, <1>2, <1>3, <1>5 DEF Clean
  <1>7. ASSUME Calm(p), Calm(q) PROVE Calm(r)
    BY <1>7, <1>n, <1>2, <1>3, <1>5 DEF Calm
  <1>8. ASSUME Plan(p, a), Clean(q, a) PROVE Plan(r, a)
    <2>1. PICK i \in 1 .. m : Sends(p[i], a) /\ \A j \in (i + 1) .. m : ~Dirties(p[j], a)
      BY <1>8, <1>n DEF Plan
    <2>2. i \in 1 .. (m + n) /\ Sends(r[i], a)
      BY <2>1, <1>0, <1>3
    <2>3. ASSUME NEW j \in (i + 1) .. (m + n) PROVE ~Dirties(r[j], a)
      <3>1. j \in 1 .. (m + n)
        BY <1>0
      <3>2. CASE j \in 1 .. m
        <4>1. j \in (i + 1) .. m
          BY <3>2, <1>0
        <4> QED BY <4>1, <3>2, <2>1, <1>3
      <3>3. CASE j - m \in 1 .. n /\ r[j] = q[j - m]
        BY <3>3, <1>8, <1>n DEF Clean
      <3> QED BY <3>1, <3>2, <3>3, <1>5
    <2> QED BY <2>2, <2>3, <1>2 DEF Plan
  <1>9. ASSUME Plan(q, a) PROVE Plan(r, a)
    <2>1. PICK i \in 1 .. n : Sends(q[i], a) /\ \A j \in (i + 1) .. n : ~Dirties(q[j], a)
      BY <1>9, <1>n DEF Plan
    <2>2. i + m \in 1 .. (m + n) /\ Sends(r[i + m], a)
      BY <2>1, <1>0, <1>4
    <2>3. ASSUME NEW j \in ((i + m) + 1) .. (m + n) PROVE ~Dirties(r[j], a)
      <3>1. j \in 1 .. (m + n) /\ j \notin 1 .. m /\ j - m \in (i + 1) .. n
        BY <1>0
      <3> QED BY <3>1, <1>5, <2>1
    <2> QED BY <2>2, <2>3, <1>2 DEF Plan
  <1> QED BY <1>1, <1>6, <1>7, <1>8, <1>9 DEF r

LEMMA HeadIs ==
  ASSUME NEW p \in Seq(OpSet), p # << >>, NEW a
  PROVE  /\ Head(p) \in OpSet /\ Tail(p) \in Seq(OpSet)
         /\ Clean(p, a) => ~Dirties(Head(p), a) /\ Clean(Tail(p), a)
         /\ Plan(p, a) => (Sends(Head(p), a) /\ Clean(Tail(p), a)) \/ Plan(Tail(p), a)
         /\ Calm(p) => ~Streams(Head(p)) /\ Calm(Tail(p))
  <1> DEFINE r == Tail(p)
  <1>1. /\ Head(p) \in OpSet /\ r \in Seq(OpSet) /\ Len(r) = Len(p) - 1
        /\ \A i \in 1 .. Len(r) : r[i] = p[i + 1]
    BY HeadTailProperties
  <1>2. Len(p) \in Nat /\ Len(p) > 0 /\ Head(p) = p[1]
    BY EmptySeq, LenProperties
  <1> HIDE DEF r
  <1>3. PICK n : n = Len(r)
    OBVIOUS
  <1>4. n \in Nat /\ Len(p) = n + 1 /\ \A i \in 1 .. n : r[i] = p[i + 1] /\ i + 1 \in 1 .. (n + 1)
    BY <1>1, <1>2, <1>3
  <1>5. ASSUME Clean(p, a) PROVE ~Dirties(Head(p), a) /\ Clean(r, a)
    BY <1>5, <1>2, <1>3, <1>4 DEF Clean
  <1>6. ASSUME Calm(p) PROVE ~Streams(Head(p)) /\ Calm(r)
    BY <1>6, <1>2, <1>3, <1>4 DEF Calm
  <1>7. ASSUME Plan(p, a) PROVE (Sends(Head(p), a) /\ Clean(r, a)) \/ Plan(r, a)
    <2>1. PICK i \in 1 .. (n + 1) : Sends(p[i], a) /\ \A j \in (i + 1) .. (n + 1) : ~Dirties(p[j], a)
      BY <1>7, <1>4 DEF Plan
    <2>2. ASSUME NEW j \in i .. n, j \in 1 .. n PROVE ~Dirties(r[j], a)
      <3>1. j + 1 \in (i + 1) .. (n + 1)
        BY <1>4
      <3> QED BY <3>1, <2>1, <2>2, <1>4
    <2>3. CASE i = 1
      <3>1. \A j \in 1 .. n : ~Dirties(r[j], a)
        BY <2>2, <2>3
      <3> QED BY <2>1, <2>3, <3>1, <1>2, <1>3 DEF Clean
    <2>4. CASE i # 1
      <3>1. i - 1 \in 1 .. n /\ (i - 1) + 1 = i
        BY <2>4, <1>4
      <3>2. Sends(r[i - 1], a)
        BY <3>1, <2>1, <1>4
      <3>3. \A j \in ((i - 1) + 1) .. n : ~Dirties(r[j], a)
        BY <3>1, <2>2, <1>4
      <3> QED BY <3>1, <3>2, <3>3, <1>3 DEF Plan
    <2> QED BY <2>3, <2>4
  <1> QED BY <1>1, <1>5, <1>6, <1>7 DEF r

\* Two pieces, one after the other: the second must not take back what the
\* first did.
LEMMA Pieces ==
  ASSUME NEW p, NEW q, NEW S, NEW T, NEW V, NEW W, NEW X, NEW Y, Piece(p, S, T), Piece(q, V, W),
         S \subseteq Addr, S \cap W \subseteq V, X \subseteq S \cup V, T \cup W \subseteq Y
  PROVE  Piece(p \o q, X, Y)
  <1>1. p \in Seq(OpSet) /\ q \in Seq(OpSet)
    BY DEF Piece
  <1>2. ASSUME NEW a \in X PROVE Plan(p \o q, a)
    <2>1. CASE a \in V
      BY <2>1, <1>1, ConcatIs DEF Piece
    <2>2. CASE a \notin V
      <3>1. a \in S /\ a \in Addr \ W
        BY <2>2
      <3>2. Plan(p, a) /\ Clean(q, a)
        BY <3>1 DEF Piece
      <3> QED BY <1>1, <3>2, ConcatIs
    <2> QED BY <2>1, <2>2
  <1>3. ASSUME NEW a \in Addr \ Y PROVE Clean(p \o q, a)
    <2>1. a \in Addr \ T /\ a \in Addr \ W
      OBVIOUS
    <2>2. Clean(p, a) /\ Clean(q, a)
      BY <2>1 DEF Piece
    <2> QED BY <1>1, <2>2, ConcatIs
  <1>4. p \o q \in Seq(OpSet)
    BY <1>1, ConcatIs
  <1> QED BY <1>2, <1>3, <1>4 DEF Piece

LEMMA NoPiece == Piece(<< >>, {}, {}) /\ Calm(<< >>)
  <1>1. << >> \in Seq(OpSet) /\ Len(<< >>) = 0
    BY EmptySeq
  <1> QED BY <1>1 DEF Piece, Clean, Calm

\* A sequence of one loop.
LEMMA OnePiece ==
  ASSUME NEW o \in OpSet, NEW p, p = << o >>, NEW a
  PROVE  /\ p \in Seq(OpSet) /\ (~Dirties(o, a) => Clean(p, a)) /\ (Sends(o, a) => Plan(p, a))
         /\ (~Streams(o) => Calm(p))
  <1>1. p \in Seq(OpSet) /\ Len(p) = 1 /\ p[1] = o
    OBVIOUS
  <1>2. ~Dirties(o, a) => Clean(p, a)
    BY <1>1 DEF Clean
  <1>3. ~Streams(o) => Calm(p)
    BY <1>1 DEF Calm
  <1>4. Sends(o, a) => Plan(p, a)
    BY <1>1 DEF Plan
  <1> QED BY <1>1, <1>2, <1>3, <1>4

-----------------------------------------------------------------------------
(* The loops.                                                              *)

LEMMA NoBytes ==
  ASSUME NEW a, NEW n, n \in Int, n <= 0, a \in Int
  PROVE  Bytes(a, n) = {}
  BY DEF Bytes, Addr

LEMMA CopyPiece ==
  ASSUME NEW to \in Int, NEW from \in Int, NEW unit \in Nat, NEW cnt \in Nat, NEW dir \in {1, -1},
         NEW nt \in BOOLEAN, NEW p, p = Copy(to, from, unit, cnt, dir, nt),
         NEW lo, lo = (IF dir = 1 THEN to ELSE to - unit * cnt)
  PROVE  /\ Piece(p, {}, Bytes(lo, unit * cnt))
         /\ nt => Piece(p, Bytes(lo, unit * cnt), {})
         /\ ~nt => Calm(p)
  <1>1. CASE cnt = 0
    <2>1. p = << >>
      BY <1>1 DEF Copy
    <2>2. unit * cnt = 0 /\ lo \in Int
      BY <1>1
    <2>3. Bytes(lo, unit * cnt) = {}
      BY <2>2, NoBytes
    <2> QED BY <2>1, <2>3, NoPiece
  <1>2. CASE cnt # 0
    <2>1. PICK o : /\ p = << o >>
                   /\ o = [do |-> "copy", to |-> to, from |-> from, unit |-> unit, cnt |-> cnt,
                           dir |-> dir, nt |-> nt]
      BY <1>2, Zenon DEF Copy
    <2>2. o.do = "copy" /\ o.to = to /\ o.unit = unit /\ o.cnt = cnt /\ o.dir = dir
      BY <2>1
    <2>3. o.nt = nt
      BY <2>1, Zenon
    <2>4. o \in OpSet
      BY <2>1, Zenon DEF OpSet
    <2>5. Low(o) = lo /\ Size(o) = unit * cnt
      BY <2>2 DEF Low, Size
    <2>6. PICK B : B = Bytes(lo, unit * cnt)
      OBVIOUS
    <2>7. \A a : Writes(o, a) <=> a \in B
      BY <2>2, <2>5, <2>6 DEF Writes
    <2>8. Streams(o) <=> nt
      BY <2>2, <2>3, Zenon DEF Streams
    <2>9. p \in Seq(OpSet)
      BY <2>1, <2>4, OnePiece
    <2>10. ASSUME NEW a \in Addr \ B PROVE Clean(p, a)
      <3>1. ~Dirties(o, a)
        BY <2>7 DEF Dirties
      <3> QED BY <3>1, <2>1, <2>4, OnePiece
    <2>11. ASSUME nt PROVE Piece(p, B, {})
      <3>1. ASSUME NEW a \in Addr PROVE Clean(p, a)
        <4>1. ~Dirties(o, a)
          BY <2>8, <2>11, Zenon DEF Dirties
        <4> QED BY <4>1, <2>1, <2>4, OnePiece
      <3>2. ASSUME NEW a \in B PROVE Plan(p, a)
        <4>1. Sends(o, a)
          BY <2>7, <2>8, <2>11, Zenon DEF Sends
        <4> QED BY <4>1, <2>1, <2>4, OnePiece
      <3> QED BY <3>1, <3>2, <2>9 DEF Piece
    <2>12. ASSUME ~nt PROVE Calm(p)
      <3>1. ~Streams(o)
        BY <2>8, <2>12, Zenon
      <3> QED BY <3>1, <2>1, <2>4, OnePiece
    <2>13. Piece(p, {}, B)
      BY <2>9, <2>10 DEF Piece
    <2> QED BY <2>6, <2>11, <2>12, <2>13, Zenon
  <1> QED BY <1>1, <1>2

LEMMA SetPiece ==
  ASSUME NEW to \in Int, NEW n \in Nat, NEW nt \in BOOLEAN, NEW p, p = Set(to, n, nt)
  PROVE  /\ Piece(p, {}, Bytes(to, n))
         /\ nt => Piece(p, Bytes(to, n), {})
         /\ ~nt => Calm(p)
  <1>1. CASE n = 0
    <2>1. p = << >>
      BY <1>1 DEF Set
    <2>3. Bytes(to, n) = {}
      BY <1>1, NoBytes
    <2> QED BY <2>1, <2>3, NoPiece
  <1>2. CASE n # 0
    <2>1. PICK o : p = << o >> /\ o = [do |-> "set", to |-> to, len |-> n, nt |-> nt]
      BY <1>2, Zenon DEF Set
    <2>2. o.do = "set" /\ o.to = to /\ o.len = n
      BY <2>1
    <2>3. o.nt = nt
      BY <2>1, Zenon
    <2>4. o \in OpSet
      BY <2>1, Zenon DEF OpSet
    <2>5. Low(o) = to /\ Size(o) = n
      BY <2>2 DEF Low, Size
    <2>6. PICK B : B = Bytes(to, n)
      OBVIOUS
    <2>7. \A a : Writes(o, a) <=> a \in B
      BY <2>2, <2>5, <2>6 DEF Writes
    <2>8. Streams(o) <=> nt
      BY <2>2, <2>3, Zenon DEF Streams
    <2>9. p \in Seq(OpSet)
      BY <2>1, <2>4, OnePiece
    <2>10. ASSUME NEW a \in Addr \ B PROVE Clean(p, a)
      <3>1. ~Dirties(o, a)
        BY <2>7 DEF Dirties
      <3> QED BY <3>1, <2>1, <2>4, OnePiece
    <2>11. ASSUME nt PROVE Piece(p, B, {})
      <3>1. ASSUME NEW a \in Addr PROVE Clean(p, a)
        <4>1. ~Dirties(o, a)
          BY <2>8, <2>11, Zenon DEF Dirties
        <4> QED BY <4>1, <2>1, <2>4, OnePiece
      <3>2. ASSUME NEW a \in B PROVE Plan(p, a)
        <4>1. Sends(o, a)
          BY <2>7, <2>8, <2>11, Zenon DEF Sends
        <4> QED BY <4>1, <2>1, <2>4, OnePiece
      <3> QED BY <3>1, <3>2, <2>9 DEF Piece
    <2>12. ASSUME ~nt PROVE Calm(p)
      <3>1. ~Streams(o)
        BY <2>8, <2>12, Zenon
      <3> QED BY <3>1, <2>1, <2>4, OnePiece
    <2>13. Piece(p, {}, B)
      BY <2>9, <2>10 DEF Piece
    <2> QED BY <2>6, <2>11, <2>12, <2>13, Zenon
  <1> QED BY <1>1, <1>2

LEMMA FlushPiece ==
  ASSUME NEW f \in Int, NEW n \in Nat, NEW p, p = Flush(f, n)
  PROVE  Calm(p) /\ \A S : S \subseteq FlushedLines(f, n) => Piece(p, S, {})
  <1>1. PICK o : p = << o >> /\ o = [do |-> "flush", addr |-> f, len |-> n]
    BY Zenon DEF Flush
  <1>2. o.do = "flush" /\ o.addr = f /\ o.len = n /\ o \in OpSet
    <2>1. o.do = "flush" /\ o.addr = f /\ o.len = n
      BY <1>1
    <2>2. o \in OpSet
      BY <1>1, Zenon DEF OpSet
    <2> QED BY <2>1, <2>2
  <1>3. ~Streams(o) /\ \A a : ~Dirties(o, a) /\ (a \in FlushedLines(f, n) => Sends(o, a))
    BY <1>2 DEF Streams, Dirties, Sends, Writes
  <1>4. p \in Seq(OpSet) /\ Calm(p)
    BY <1>1, <1>2, <1>3, OnePiece
  <1>5. \A a : Clean(p, a)
    BY <1>1, <1>2, <1>3, OnePiece
  <1>6. \A a \in FlushedLines(f, n) : Plan(p, a)
    BY <1>1, <1>2, <1>3, OnePiece
  <1> QED BY <1>4, <1>5, <1>6 DEF Piece

-----------------------------------------------------------------------------
(* Arithmetic of lines and units.                                          *)

LEMMA ModIs ==
  ASSUME NEW x \in Int, NEW m \in Nat \ {0}
  PROVE  /\ x \div m \in Int /\ x % m \in 0 .. (m - 1)
         /\ x = (x \div m) * m + (x % m)
  OBVIOUS

LEMMA DivMod ==
  ASSUME NEW x \in Nat, NEW m \in Nat \ {0}
  PROVE  x \div m \in Nat /\ x % m \in Nat /\ (x \div m) * m \in Nat /\ x = (x \div m) * m + (x % m)
  <1>1. /\ x \div m \in Int /\ x % m \in 0 .. (m - 1)
        /\ x = (x \div m) * m + (x % m)
    BY ModIs
  <1>2. x \div m >= 0
    OBVIOUS
  <1> QED BY <1>1, <1>2

LEMMA Sizes ==
  /\ FLUSH_ALIGN \in Nat \ {0} /\ CHUNK_SIZE \in Nat \ {0} /\ MOVNT_SIZE \in Nat \ {0}
  /\ DWORD_SIZE \in Nat \ {0} /\ PageSize \in Nat \ {0} /\ MemSize \in Nat
  BY PmemAssumption

\* The lines of a range hold the range.
LEMMA LinesHold ==
  ASSUME NEW f \in Int, NEW n \in Nat
  PROVE  Bytes(f, n) \subseteq FlushedLines(f, n)
  <1>1. PICK e, p, q, k : e = f + n - 1 /\ k = FLUSH_ALIGN /\ p = f % k /\ q = e % k
    OBVIOUS
  <1>2. e \in Int /\ k \in Nat \ {0}
    BY <1>1, Sizes
  <1>3. p \in 0 .. (k - 1) /\ q \in 0 .. (k - 1)
    BY <1>1, <1>2, ModIs
  <1>4. FlushedLines(f, n) = f - p .. e - q + k - 1
    BY <1>1 DEF FlushedLines
  <1>5. ASSUME NEW a \in Bytes(f, n) PROVE a \in f - p .. e - q + k - 1
    <2>1. a \in Int /\ f <= a /\ a <= e
      BY <1>1, Sizes DEF Bytes, Addr
    <2> QED BY <2>1, <1>2, <1>3
  <1> QED BY <1>4, <1>5

Multiple(x, m) == \E q \in Int : x = q * m

LEMMA TimesMono ==
  ASSUME NEW a \in Int, NEW b \in Int, NEW u \in Nat \ {0}
  PROVE  (a <= b <=> a * u <= b * u) /\ (a < b <=> a * u < b * u) /\ a * u \in Int /\ b * u \in Int
  OBVIOUS

LEMMA Multiples ==
  ASSUME NEW m \in Nat \ {0}, NEW x \in Int, NEW y \in Int, Multiple(x, m), Multiple(y, m)
  PROVE  Multiple(x + y, m) /\ (x < y + m => x <= y)
  <1>1. PICK p \in Int : x = p * m
    BY DEF Multiple
  <1>2. PICK q \in Int : y = q * m
    BY DEF Multiple
  <1>3. p + q \in Int /\ (p + q) * m = p * m + q * m /\ q + 1 \in Int /\ (q + 1) * m = q * m + m
    OBVIOUS
  <1>4. Multiple(x + y, m)
    BY <1>1, <1>2, <1>3 DEF Multiple
  <1>5. ASSUME x < y + m PROVE x <= y
    <2>1. p * m < (q + 1) * m
      BY <1>1, <1>2, <1>3, <1>5
    <2>2. p < q + 1
      BY <2>1, <1>3, TimesMono
    <2>3. p <= q
      BY <2>2
    <2> QED BY <2>3, <1>1, <1>2, TimesMono
  <1> QED BY <1>4, <1>5

LEMMA MultipleTimes ==
  ASSUME NEW m \in Nat \ {0}, NEW x \in Int, NEW c \in Int, Multiple(x, m)
  PROVE  Multiple(c * x, m) /\ c * x \in Int
  <1>1. PICK p \in Int : x = p * m
    BY DEF Multiple
  <1>2. c * p \in Int /\ (c * p) * m = c * (p * m)
    OBVIOUS
  <1> QED BY <1>1, <1>2 DEF Multiple

LEMMA MultipleMod ==
  ASSUME NEW m \in Nat \ {0}, NEW x \in Int, x % m = 0
  PROVE  Multiple(x, m)
  <1>1. PICK q, r : q = x \div m /\ r = x % m
    OBVIOUS
  <1>2. q \in Int /\ x = q * m + r /\ r = 0
    BY <1>1, ModIs
  <1>3. q * m \in Int
    BY <1>2
  <1>4. x = q * m
    BY <1>2, <1>3
  <1> QED BY <1>2, <1>4 DEF Multiple

LEMMA Units ==
  Multiple(CHUNK_SIZE, FLUSH_ALIGN) /\ Multiple(FLUSH_ALIGN, MOVNT_SIZE) /\ Multiple(MOVNT_SIZE, MOVNT_SIZE)
  /\ \A x \in Int : Multiple(x, FLUSH_ALIGN) => Multiple(x, MOVNT_SIZE)
  <1>1. Multiple(CHUNK_SIZE, FLUSH_ALIGN) /\ Multiple(FLUSH_ALIGN, MOVNT_SIZE)
    BY Sizes, PmemAssumption, MultipleMod
  <1>2. Multiple(MOVNT_SIZE, MOVNT_SIZE)
    <2>1. 1 \in Int /\ MOVNT_SIZE = 1 * MOVNT_SIZE
      BY Sizes
    <2> QED BY <2>1 DEF Multiple
  <1>3. ASSUME NEW x \in Int, Multiple(x, FLUSH_ALIGN) PROVE Multiple(x, MOVNT_SIZE)
    <2>1. PICK q \in Int : x = q * FLUSH_ALIGN
      BY <1>3 DEF Multiple
    <2>2. FLUSH_ALIGN \in Int /\ MOVNT_SIZE \in Nat \ {0}
      BY Sizes
    <2> QED BY <2>1, <2>2, <1>1, MultipleTimes
  <1> QED BY <1>1, <1>2, <1>3

\* The flush of the last bytes of a forward loop starts where they end, and
\* yet holds them: they are less than a streaming store of MOVNT_SIZE bytes,
\* which is aligned, and so in one line.
LEMMA TailLine ==
  ASSUME NEW to \in Nat, Multiple(to, MOVNT_SIZE), NEW n \in Nat, n < MOVNT_SIZE, NEW b \in Nat, b <= n
  PROVE  Bytes((to + n) - b, b) \subseteq FlushedLines(to + n, b)
  <1>1. PICK e, g, k, p, q : /\ e = to + n /\ g = e + b - 1 /\ k = FLUSH_ALIGN /\ p = e % k /\ q = g % k
    OBVIOUS
  <1>2. e \in Int /\ g \in Int /\ k \in Nat \ {0}
    BY <1>1, Sizes
  <1>3. p \in 0 .. (k - 1) /\ q \in 0 .. (k - 1)
    BY <1>1, <1>2, ModIs
  <1>4. FlushedLines(to + n, b) = e - p .. g - q + k - 1
    BY <1>1 DEF FlushedLines
  <1>5. e - p <= to
    <2>1. PICK d : d = e \div k
      OBVIOUS
    <2>2. d \in Int /\ e = d * k + p
      BY <2>1, <1>1, <1>2, ModIs
    <2>3. d * k \in Int /\ e - p = d * k
      BY <2>2, <1>2, <1>3
    <2>4. Multiple(e - p, FLUSH_ALIGN)
      BY <2>2, <2>3, <1>1 DEF Multiple
    <2>5. Multiple(e - p, MOVNT_SIZE)
      BY <2>3, <2>4, Units
    <2>6. e - p < to + MOVNT_SIZE
      BY <1>1, <1>2, <1>3, Sizes
    <2>7. e - p \in Int /\ MOVNT_SIZE \in Nat \ {0}
      BY <2>3, Sizes
    <2> QED BY <2>5, <2>6, <2>7, Multiples
  <1>6. ASSUME NEW a \in Bytes((to + n) - b, b) PROVE a \in e - p .. g - q + k - 1
    <2>1. a \in Int /\ e - b <= a /\ a < e
      BY <1>1, <1>2, Sizes DEF Bytes, Addr
    <2>2. e - p <= a
      BY <2>1, <1>1, <1>2, <1>3, <1>5
    <2>3. a <= g - q + k - 1
      BY <2>1, <1>1, <1>2, <1>3
    <2> QED BY <2>1, <2>2, <2>3
  <1> QED BY <1>4, <1>6

-----------------------------------------------------------------------------
(* The calls.                                                              *)

\* A loop that takes back nothing that is not sent off again.
LEMMA PieceGrows ==
  ASSUME NEW p, NEW q, NEW S \in SUBSET Addr, NEW V \in SUBSET Addr, NEW X,
         Piece(p, S, Addr), Piece(q, V, V), X \subseteq S \cup V
  PROVE  Piece(p \o q, X, Addr)
  BY Pieces, Zenon

LEMMA PieceWeaker ==
  ASSUME NEW p, NEW S, NEW T, NEW V, NEW W, Piece(p, S, T), V \subseteq S, T \subseteq W
  PROVE  Piece(p, V, W)
  BY DEF Piece

LEMMA BytesIn == \A a, n : Bytes(a, n) \in SUBSET Addr
  BY DEF Bytes

\* Ordinary stores, flushed.
LEMMA StoredAndFlushed ==
  ASSUME NEW f \in Int, NEW n \in Nat, NEW g \in Int, NEW b \in Nat, NEW p, Piece(p, {}, Bytes(f, n)),
         Bytes(f, n) \subseteq FlushedLines(g, b)
  PROVE  Piece(p \o Flush(g, b), Bytes(f, n), Bytes(f, n))
  <1>1. PICK q, B : q = Flush(g, b) /\ B = Bytes(f, n)
    OBVIOUS
  <1>2. Piece(q, B, {})
    BY <1>1, FlushPiece
  <1>3. Piece(p \o q, B, B)
    <2>1. Piece(p, {}, B)
      BY <1>1
    <2>2. {} \subseteq Addr /\ {} \cap {} \subseteq B /\ B \subseteq {} \cup B /\ B \cup {} \subseteq B
      OBVIOUS
    <2> QED BY <2>1, <2>2, <1>2, Pieces
  <1> QED BY <1>1, <1>3

\* The parts that a range is cut into.
LEMMA Parts ==
  ASSUME NEW n \in Nat, NEW h \in Nat, h <= n, NEW c, NEW l, NEW m, NEW r, NEW w, NEW b,
         NEW cc, NEW mm, NEW ww,
         c = (n - h) \div CHUNK_SIZE, l = (n - h) % CHUNK_SIZE, m = l \div MOVNT_SIZE,
         r = l % MOVNT_SIZE, w = r \div DWORD_SIZE, b = r % DWORD_SIZE,
         cc = c * CHUNK_SIZE, mm = m * MOVNT_SIZE, ww = w * DWORD_SIZE
  PROVE  /\ c \in Nat /\ m \in Nat /\ w \in Nat /\ b \in Nat /\ r \in Nat
         /\ cc \in Nat /\ mm \in Nat /\ ww \in Nat
         /\ n = h + cc + mm + r /\ r = ww + b /\ r < MOVNT_SIZE
         /\ CHUNK_SIZE * c = cc /\ MOVNT_SIZE * m = mm /\ DWORD_SIZE * w = ww
  <1>1. PICK k, C, M, W : k = n - h /\ C = CHUNK_SIZE /\ M = MOVNT_SIZE /\ W = DWORD_SIZE
    OBVIOUS
  <1>2. k \in Nat /\ C \in Nat \ {0} /\ M \in Nat \ {0} /\ W \in Nat \ {0}
    BY <1>1, Sizes
  <1>3. c = k \div C /\ l = k % C
    BY <1>1
  <1>4. c \in Nat /\ l \in Nat /\ c * C \in Nat /\ k = c * C + l
    BY ONLY <1>2, <1>3, DivMod
  <1>5. m = l \div M /\ r = l % M
    BY <1>1
  <1>6. m \in Nat /\ r \in Nat /\ m * M \in Nat /\ l = m * M + r
    BY ONLY <1>2, <1>4, <1>5, DivMod
  <1>7. r < M
    <2>1. r \in 0 .. (M - 1)
      BY ONLY <1>2, <1>4, <1>5, ModIs
    <2> QED BY <2>1, <1>2
  <1>8. w = r \div W /\ b = r % W
    BY <1>1
  <1>9. w \in Nat /\ b \in Nat /\ w * W \in Nat /\ r = w * W + b
    BY ONLY <1>2, <1>6, <1>8, DivMod
  <1>10. cc = c * C /\ mm = m * M /\ ww = w * W
    BY <1>1
  <1>11. C * c = cc /\ M * m = mm /\ W * w = ww
    BY ONLY <1>2, <1>4, <1>6, <1>9, <1>10
  <1>12. cc \in Nat /\ mm \in Nat /\ ww \in Nat /\ k = cc + l /\ l = mm + r /\ r = ww + b
    BY ONLY <1>4, <1>6, <1>9, <1>10
  <1>15. n \in Nat /\ h \in Nat
    OBVIOUS
  <1>13. n = h + cc + mm + r
    BY ONLY <1>1, <1>4, <1>6, <1>12, <1>15
  <1>14. CHUNK_SIZE * c = cc /\ MOVNT_SIZE * m = mm /\ DWORD_SIZE * w = ww /\ r < MOVNT_SIZE
    BY <1>1, <1>7, <1>11, Zenon
  <1> QED BY <1>4, <1>6, <1>9, <1>12, <1>13, <1>14, Zenon

LEMMA BytesSplit ==
  ASSUME NEW a \in Int, NEW k \in Nat, NEW e \in Nat
  PROVE  Bytes(a, k + e) \subseteq Bytes(a, k) \cup Bytes(a + k, e)
  BY DEF Bytes, Addr

\* A piece that goes on where another one ended, upwards.
LEMMA GrowUp ==
  ASSUME NEW d \in Int, NEW k \in Nat, NEW e \in Nat, NEW p, NEW q, NEW f, f = d + k,
         Piece(p, Bytes(d, k), Addr), Piece(q, Bytes(f, e), Bytes(f, e))
  PROVE  Piece(p \o q, Bytes(d, k + e), Addr)
  <1>1. PICK S, V, X : S = Bytes(d, k) /\ V = Bytes(f, e) /\ X = Bytes(d, k + e)
    OBVIOUS
  <1>2. S \in SUBSET Addr /\ V \in SUBSET Addr
    BY <1>1, BytesIn
  <1>3. X \subseteq S \cup V
    BY <1>1, BytesSplit
  <1>4. Piece(p, S, Addr) /\ Piece(q, V, V)
    BY <1>1
  <1>5. Piece(p \o q, X, Addr)
    BY <1>2, <1>3, <1>4, PieceGrows
  <1> QED BY <1>1, <1>5

\* Streaming stores.
LEMMA SetStreams ==
  ASSUME NEW f \in Int, NEW e \in Nat, NEW t, t = TRUE
  PROVE  Piece(Set(f, e, t), Bytes(f, e), Bytes(f, e))
  <1>1. PICK q, B : q = Set(f, e, t) /\ B = Bytes(f, e)
    OBVIOUS
  <1>2. t \in BOOLEAN /\ t
    BY Zenon
  <1>3. Piece(q, B, {})
    BY <1>1, <1>2, SetPiece, Zenon
  <1>4. Piece(q, B, B)
    BY <1>3, PieceWeaker
  <1> QED BY <1>1, <1>4

\* Ordinary stores, flushed.
LEMMA SetFlushed ==
  ASSUME NEW f \in Int, NEW e \in Nat, NEW t, t = FALSE
  PROVE  Piece(Set(f, e, t) \o Flush(f, e), Bytes(f, e), Bytes(f, e)) /\ Calm(Set(f, e, t) \o Flush(f, e))
  <1>1. PICK q, B : q = Set(f, e, t) /\ B = Bytes(f, e)
    OBVIOUS
  <1>2. t \in BOOLEAN /\ ~t
    BY Zenon
  <1>3. Piece(q, {}, B) /\ Calm(q)
    BY <1>1, <1>2, SetPiece, Zenon
  <1>4. Piece(q \o Flush(f, e), B, B)
    <2>1. Piece(q, {}, Bytes(f, e))
      BY <1>1, <1>3
    <2> QED BY <2>1, <1>1, LinesHold, StoredAndFlushed
  <1>5. Calm(q \o Flush(f, e))
    <2>1. PICK g : g = Flush(f, e)
      OBVIOUS
    <2>2. Calm(g) /\ Piece(g, {}, {})
      BY <2>1, FlushPiece
    <2>3. g \in Seq(OpSet) /\ q \in Seq(OpSet)
      BY <2>2, <1>3 DEF Piece
    <2> QED BY <2>1, <2>2, <2>3, <1>3, ConcatIs
  <1> QED BY <1>1, <1>4, <1>5

LEMMA HeadLength ==
  ASSUME NEW d \in Nat, NEW n \in Nat, NEW h,
         h = IF d % FLUSH_ALIGN = 0 THEN 0 ELSE Min2(FLUSH_ALIGN - (d % FLUSH_ALIGN), n)
  PROVE  /\ h \in Nat /\ h <= n
         /\ h < n => Multiple(d + h, FLUSH_ALIGN)
         /\ \A a \in Bytes(d, n) :
              ~(a \div FLUSH_ALIGN = d \div FLUSH_ALIGN /\ d % FLUSH_ALIGN # 0) => a >= d + h
  <1>1. PICK F, r, q : F = FLUSH_ALIGN /\ r = d % F /\ q = d \div F
    OBVIOUS
  <1>2. F \in Nat \ {0}
    BY <1>1, Sizes
  <1>3. q \in Int /\ r \in 0 .. (F - 1) /\ d = q * F + r
    BY <1>1, <1>2, ModIs
  <1>4. h = IF r = 0 THEN 0 ELSE IF F - r < n THEN F - r ELSE n
    BY <1>1 DEF Min2
  <1>5. h \in Nat /\ h <= n
    BY <1>2, <1>3, <1>4
  <1>6. q * F \in Int /\ (q + 1) * F = q * F + F /\ q + 1 \in Int
    BY <1>2, <1>3
  <1>7. ASSUME h < n PROVE Multiple(d + h, F)
    <2>1. CASE r = 0
      <3>1. d + h = q * F
        BY <2>1, <1>3, <1>4, <1>6
      <3> QED BY <3>1, <1>3 DEF Multiple
    <2>2. CASE r # 0
      <3>1. h = F - r
        BY <2>2, <1>4, <1>7
      <3>2. d + h = (q + 1) * F
        BY <3>1, <1>2, <1>3, <1>6
      <3> QED BY <3>2, <1>6 DEF Multiple
    <2> QED BY <2>1, <2>2
  <1>8. ASSUME NEW a \in Bytes(d, n), ~(a \div F = q /\ r # 0) PROVE a >= d + h
    <2>1. a \in Int /\ d <= a
      BY Sizes DEF Bytes, Addr
    <2>2. PICK p, s : p = a \div F /\ s = a % F
      OBVIOUS
    <2>3. p \in Int /\ s \in 0 .. (F - 1) /\ a = p * F + s
      BY <2>1, <2>2, <1>2, ModIs
    <2>4. CASE r = 0
      BY <2>1, <2>4, <1>4
    <2>5. CASE r # 0
      <3>1. p # q
        BY <2>2, <2>5, <1>8
      <3>2. p * F \in Int
        BY <2>3, <1>2
      <3>3. q * F < (p + 1) * F
        <4>1. (p + 1) * F = p * F + F
          BY <2>3, <1>2
        <4> QED BY <4>1, <3>2, <2>1, <2>3, <1>2, <1>3, <1>6
      <3>4. q < p + 1
        BY <3>3, <2>3, <1>2, <1>3, TimesMono
      <3>5. q + 1 <= p
        BY <3>1, <3>4, <2>3, <1>3
      <3>6. (q + 1) * F <= p * F
        BY <3>5, <2>3, <1>2, <1>6, TimesMono
      <3> QED BY <3>6, <3>2, <2>1, <2>3, <1>2, <1>3, <1>4, <1>6
    <2> QED BY <2>4, <2>5
  <1> QED BY <1>1, <1>5, <1>7, <1>8

\* memset_nodrain_movnt sends off every byte.
LEMMA MemsetStreams ==
  ASSUME NEW d \in Nat, NEW n \in Nat
  PROVE  Piece(memset_nodrain_movnt(d, n), Bytes(d, n), Addr)
  <1>1. PICK t, f : t = TRUE /\ f = FALSE
    OBVIOUS
  <1>2. PICK h : h = IF d % FLUSH_ALIGN = 0 THEN 0 ELSE Min2(FLUSH_ALIGN - (d % FLUSH_ALIGN), n)
    OBVIOUS
  <1>3. h \in Nat /\ h <= n
    BY <1>2, HeadLength
  <1>4. PICK c, l : c = (n - h) \div CHUNK_SIZE /\ l = (n - h) % CHUNK_SIZE
    OBVIOUS
  <1>5. PICK m, r : m = l \div MOVNT_SIZE /\ r = l % MOVNT_SIZE
    OBVIOUS
  <1>6. PICK w, b : w = r \div DWORD_SIZE /\ b = r % DWORD_SIZE
    OBVIOUS
  <1>7. PICK cc, mm, ww : cc = c * CHUNK_SIZE /\ mm = m * MOVNT_SIZE /\ ww = w * DWORD_SIZE
    OBVIOUS
  <1>8. /\ b \in Nat /\ cc \in Nat /\ mm \in Nat /\ ww \in Nat /\ r \in Nat
        /\ n = h + cc + mm + r /\ r = ww + b
    BY <1>3, <1>4, <1>5, <1>6, <1>7, Parts
  <1>9. PICK o0, o1, o2, o3 : o0 = d + h /\ o1 = d + h + cc /\ o2 = o1 + mm /\ o3 = o2 + ww
    OBVIOUS
  <1>10. PICK p1, p5 : /\ p1 = IF h = 0 THEN << >> ELSE Set(d, h, f) \o Flush(d, h)
                       /\ p5 = IF b = 0 THEN << >> ELSE Set(o3, b, f) \o Flush(o3, b)
    OBVIOUS
  <1>11. PICK p2, p3, p4 : p2 = Set(o0, cc, t) /\ p3 = Set(o1, mm, t) /\ p4 = Set(o2, ww, t)
    OBVIOUS
  <1>12. memset_nodrain_movnt(d, n) = p1 \o p2 \o p3 \o p4 \o p5
    BY ONLY <1>1, <1>2, <1>4, <1>5, <1>6, <1>7, <1>9, <1>10, <1>11, ZenonT(90) DEF memset_nodrain_movnt
  <1>13. d + h \in Int /\ o0 \in Int /\ o1 \in Int /\ o2 \in Int /\ o3 \in Int
    BY <1>3, <1>8, <1>9
  <1>14. ASSUME NEW x \in Int, NEW e \in Nat, NEW p, p = IF e = 0 THEN << >> ELSE Set(x, e, f) \o Flush(x, e)
         PROVE  Piece(p, Bytes(x, e), Bytes(x, e))
    <2>1. CASE e = 0
      <3>1. Bytes(x, e) = {}
        BY <2>1, NoBytes
      <3>2. p = << >>
        BY <2>1, <1>14
      <3> QED BY <3>1, <3>2, NoPiece
    <2>2. CASE e # 0
      <3>1. p = Set(x, e, f) \o Flush(x, e)
        BY <2>2, <1>14
      <3> QED BY <3>1, <1>1, SetFlushed
    <2> QED BY <2>1, <2>2
  <1>15. Piece(p1, Bytes(d, h), Addr)
    <2>0. d \in Int /\ p1 = IF h = 0 THEN << >> ELSE Set(d, h, f) \o Flush(d, h)
      BY <1>10
    <2>1. Piece(p1, Bytes(d, h), Bytes(d, h))
      BY <2>0, <1>3, <1>14
    <2> QED BY <2>1, BytesIn, PieceWeaker
  <1>16. Piece(p2, Bytes(o0, cc), Bytes(o0, cc))
    BY <1>1, <1>8, <1>11, <1>13, SetStreams
  <1>17. Piece(p3, Bytes(o1, mm), Bytes(o1, mm))
    BY <1>1, <1>8, <1>11, <1>13, SetStreams
  <1>18. Piece(p4, Bytes(o2, ww), Bytes(o2, ww))
    BY <1>1, <1>8, <1>11, <1>13, SetStreams
  <1>19. Piece(p5, Bytes(o3, b), Bytes(o3, b))
    BY <1>8, <1>10, <1>13, <1>14
  <1>20. PICK k1, k2, k3 : k1 = h + cc /\ k2 = k1 + mm /\ k3 = k2 + ww
    OBVIOUS
  <1>21. /\ k1 \in Nat /\ k2 \in Nat /\ k3 \in Nat /\ k3 + b = n
         /\ o1 = d + k1 /\ o2 = d + k2 /\ o3 = d + k3
    BY <1>3, <1>8, <1>9, <1>20
  <1>22. Piece(p1 \o p2, Bytes(d, k1), Addr)
    BY <1>3, <1>8, <1>9, <1>15, <1>16, <1>20, GrowUp
  <1>23. Piece(p1 \o p2 \o p3, Bytes(d, k2), Addr)
    BY <1>8, <1>17, <1>20, <1>21, <1>22, GrowUp
  <1>24. Piece(p1 \o p2 \o p3 \o p4, Bytes(d, k3), Addr)
    BY <1>8, <1>18, <1>20, <1>21, <1>23, GrowUp
  <1>25. Piece(p1 \o p2 \o p3 \o p4 \o p5, Bytes(d, n), Addr)
    <2>1. PICK q : q = p1 \o p2 \o p3 \o p4
      OBVIOUS
    <2>2. Piece(q \o p5, Bytes(d, k3 + b), Addr)
      BY <2>1, <1>8, <1>19, <1>21, <1>24, GrowUp
    <2> QED BY <2>1, <2>2, <1>21
  <1> QED BY <1>12, <1>25

LEMMA CopyStreams ==
  ASSUME NEW to \in Int, NEW from \in Int, NEW unit \in Nat, NEW cnt \in Nat, NEW dir \in {1, -1},
         NEW t, t = TRUE, NEW k, k = unit * cnt, NEW lo, lo = (IF dir = 1 THEN to ELSE to - k)
  PROVE  /\ Piece(Copy(to, from, unit, cnt, dir, t), Bytes(lo, k), Bytes(lo, k))
         /\ Piece(Copy(to, from, unit, cnt, dir, t), Bytes(lo, k), {})
  <1>1. PICK q, B : q = Copy(to, from, unit, cnt, dir, t) /\ B = Bytes(lo, k)
    OBVIOUS
  <1>2. t \in BOOLEAN /\ t
    BY Zenon
  <1>3. Piece(q, B, {})
    BY <1>1, <1>2, CopyPiece, Zenon
  <1>4. Piece(q, B, B)
    BY <1>3, PieceWeaker
  <1> QED BY <1>1, <1>3, <1>4

LEMMA CopyPlain ==
  ASSUME NEW to \in Int, NEW from \in Int, NEW cnt \in Nat, NEW dir \in {1, -1},
         NEW f, f = FALSE, NEW lo, lo = (IF dir = 1 THEN to ELSE to - cnt)
  PROVE  Piece(Copy(to, from, 1, cnt, dir, f), {}, Bytes(lo, cnt)) /\ Calm(Copy(to, from, 1, cnt, dir, f))
  <1>1. PICK q, one, k : q = Copy(to, from, one, cnt, dir, f) /\ one = 1 /\ k = one * cnt
    OBVIOUS
  <1>2. f \in BOOLEAN /\ ~f
    BY Zenon
  <1>3. k = cnt /\ one \in Nat
    BY <1>1
  <1>4. lo = IF dir = 1 THEN to ELSE to - one * cnt
    BY <1>1, <1>3
  <1>5. Piece(q, {}, Bytes(lo, one * cnt)) /\ Calm(q)
    BY <1>1, <1>2, <1>3, <1>4, CopyPiece, ZenonT(60)
  <1> QED BY <1>1, <1>3, <1>5

\* A piece that goes on where another one ended, downwards.
LEMMA GrowDown ==
  ASSUME NEW d \in Int, NEW k \in Nat, NEW e \in Nat, NEW p, NEW q, NEW g, g = d - k,
         NEW f, f = g - e, Piece(p, Bytes(g, k), Addr), Piece(q, Bytes(f, e), Bytes(f, e))
  PROVE  Piece(p \o q, Bytes(f, k + e), Addr)
  <1>1. PICK S, V, X : S = Bytes(g, k) /\ V = Bytes(f, e) /\ X = Bytes(f, k + e)
    OBVIOUS
  <1>2. S \in SUBSET Addr /\ V \in SUBSET Addr
    BY <1>1, BytesIn
  <1>3. X \subseteq S \cup V
    <2>1. f \in Int /\ f + e = g /\ k + e = e + k
      OBVIOUS
    <2>2. Bytes(f, e + k) \subseteq Bytes(f, e) \cup Bytes(f + e, k)
      BY <2>1, BytesSplit
    <2> QED BY <2>1, <2>2, <1>1
  <1>4. Piece(p, S, Addr) /\ Piece(q, V, V)
    BY <1>1
  <1>5. Piece(p \o q, X, Addr)
    BY <1>2, <1>3, <1>4, PieceGrows
  <1> QED BY <1>1, <1>5

\* Streaming stores of A, ordinary stores of B and then a flush that holds B.
LEMMA StreamStoreFlush ==
  ASSUME NEW A \in SUBSET Addr, NEW B \in SUBSET Addr, NEW X \in SUBSET Addr, NEW p, NEW q,
         NEW g \in Int, NEW b \in Nat, Piece(p, A, {}), Piece(q, {}, B), A \cap B = {},
         X = A \cup B, B \subseteq FlushedLines(g, b)
  PROVE  Piece(p \o q \o Flush(g, b), X, X)
  <1>1. PICK z : z = Flush(g, b)
    OBVIOUS
  <1>2. Piece(z, B, {})
    BY <1>1, FlushPiece
  <1>3. Piece(p \o q, A, X)
    <2>1. A \subseteq Addr /\ A \cap B \subseteq {} /\ A \subseteq A \cup {} /\ {} \cup B \subseteq X
      OBVIOUS
    <2> QED BY <2>1, Pieces
  <1>4. PICK y : y = p \o q
    OBVIOUS
  <1>5. Piece(y \o z, X, X)
    <2>1. A \subseteq Addr /\ A \cap {} \subseteq B /\ X \subseteq A \cup B /\ X \cup {} \subseteq X
      OBVIOUS
    <2>2. Piece(y, A, X)
      BY <1>3, <1>4
    <2> QED BY <2>1, <2>2, <1>2, Pieces
  <1> QED BY <1>1, <1>4, <1>5

LEMMA ForwardTailPiece ==
  ASSUME NEW x \in Nat, NEW y \in Int, NEW r \in Nat, r < MOVNT_SIZE, r # 0 => Multiple(x, MOVNT_SIZE)
  PROVE  Piece(ForwardTail(x, y, r), Bytes(x, r), Bytes(x, r))
  <1>1. CASE r = 0
    <2>1. Bytes(x, r) = {}
      BY <1>1, NoBytes
    <2>2. ForwardTail(x, y, r) = << >>
      BY <1>1 DEF ForwardTail
    <2> QED BY <2>1, <2>2, NoPiece
  <1>2. CASE r # 0
    <2>1. PICK t, f : t = TRUE /\ f = FALSE
      OBVIOUS
    <2>2. PICK w, b, ww : w = r \div DWORD_SIZE /\ b = r % DWORD_SIZE /\ ww = w * DWORD_SIZE
      OBVIOUS
    <2>3. w \in Nat /\ b \in Nat /\ ww \in Nat /\ r = ww + b
      BY <2>2, Sizes, DivMod
    <2>4. PICK u, v, q1, q2, e : /\ u = x + ww /\ v = y + ww /\ e = x + r
                                 /\ q1 = Copy(x, y, DWORD_SIZE, w, 1, t)
                                 /\ q2 = Copy(u, v, 1, b, 1, f)
      OBVIOUS
    <2>5. ForwardTail(x, y, r) = q1 \o q2 \o Flush(e, b)
      BY ONLY <1>2, <2>1, <2>2, <2>4, Zenon DEF ForwardTail
    <2>6. u \in Int /\ v \in Int /\ e \in Int
      BY <2>3, <2>4
    <2>7. ww = DWORD_SIZE * w
      BY <2>2, <2>3, Sizes
    <2>8. Piece(q1, Bytes(x, ww), {})
      <3>1. x \in Int /\ DWORD_SIZE \in Nat /\ 1 \in {1, -1} /\ x = (IF 1 = 1 THEN x ELSE x - ww)
        BY Sizes
      <3> QED BY <3>1, <2>1, <2>3, <2>4, <2>7, CopyStreams
    <2>9. Piece(q2, {}, Bytes(u, b))
      <3>1. 1 \in {1, -1} /\ u = (IF 1 = 1 THEN u ELSE u - b)
        OBVIOUS
      <3> QED BY <3>1, <2>1, <2>3, <2>4, <2>6, CopyPlain
    <2>10. Bytes(u, b) \subseteq FlushedLines(e, b)
      <3>1. (x + r) - b = u /\ b <= r
        BY <2>3, <2>4
      <3> QED BY <3>1, <2>3, <2>4, <1>2, TailLine
    <2>11. Bytes(x, ww) \cap Bytes(u, b) = {} /\ Bytes(x, r) = Bytes(x, ww) \cup Bytes(u, b)
      BY <2>3, <2>4 DEF Bytes, Addr
    <2>12. Piece(q1 \o q2 \o Flush(e, b), Bytes(x, r), Bytes(x, r))
      <3>1. Bytes(x, ww) \in SUBSET Addr /\ Bytes(u, b) \in SUBSET Addr /\ Bytes(x, r) \in SUBSET Addr
        BY BytesIn
      <3> QED BY <3>1, <2>3, <2>6, <2>8, <2>9, <2>10, <2>11, StreamStoreFlush
    <2> QED BY <2>5, <2>12
  <1> QED BY <1>1, <1>2

\* A forward move sends off every byte but for the head before a cache line.
LEMMA ForwardPiece ==
  ASSUME NEW d \in Nat, NEW s \in Nat, NEW n \in Nat, NEW h,
         h = IF d % FLUSH_ALIGN = 0 THEN 0 ELSE Min2(FLUSH_ALIGN - (d % FLUSH_ALIGN), n)
  PROVE  Piece(Forward(d, s, n), Bytes(d + h, n - h), Addr)
  <1>1. PICK t, f : t = TRUE /\ f = FALSE
    OBVIOUS
  <1>0. d \in Nat /\ s \in Nat /\ n \in Nat
    OBVIOUS
  <1>3. h \in Nat /\ h <= n /\ (h < n => Multiple(d + h, FLUSH_ALIGN))
    BY HeadLength
  <1>4. PICK c, l : c = (n - h) \div CHUNK_SIZE /\ l = (n - h) % CHUNK_SIZE
    OBVIOUS
  <1>5. PICK m, r : m = l \div MOVNT_SIZE /\ r = l % MOVNT_SIZE
    OBVIOUS
  <1>6. PICK cc, mm : cc = c * CHUNK_SIZE /\ mm = m * MOVNT_SIZE
    OBVIOUS
  <1>7. PICK w, b, ww : w = r \div DWORD_SIZE /\ b = r % DWORD_SIZE /\ ww = w * DWORD_SIZE
    OBVIOUS
  <1>8. /\ c \in Nat /\ m \in Nat /\ cc \in Nat /\ mm \in Nat /\ r \in Nat /\ r < MOVNT_SIZE
        /\ n = h + cc + mm + r /\ CHUNK_SIZE * c = cc /\ MOVNT_SIZE * m = mm
    BY ONLY <1>0, <1>3, <1>4, <1>5, <1>6, <1>7, Parts
  <1>9. PICK x0, y0, x1, y1, x2, y2 :
          /\ x0 = d + h /\ x1 = d + (h + cc) /\ x2 = d + ((h + cc) + mm)
          /\ y0 = s + h /\ y1 = s + (h + cc) /\ y2 = s + ((h + cc) + mm)
    OBVIOUS
  <1>10. PICK p1, p2, p3, p4 : /\ p1 = ForwardHead(d, s, h) /\ p2 = Copy(x0, y0, CHUNK_SIZE, c, 1, t)
                               /\ p3 = Copy(x1, y1, MOVNT_SIZE, m, 1, t) /\ p4 = ForwardTail(x2, y2, r)
    OBVIOUS
  <1>11. Forward(d, s, n) = p1 \o p2 \o p3 \o p4
    BY ONLY <1>1, <1>4, <1>5, <1>6, <1>9, <1>10, Zenon,
            h = IF d % FLUSH_ALIGN = 0 THEN 0 ELSE Min2(FLUSH_ALIGN - (d % FLUSH_ALIGN), n)
       DEF Forward
  <1>12. /\ x0 \in Nat /\ x1 \in Nat /\ x2 \in Nat /\ y0 \in Int /\ y1 \in Int /\ y2 \in Int
         /\ x1 = x0 + cc /\ x2 = x0 + (cc + mm) /\ n - h = (cc + mm) + r
    BY ONLY <1>0, <1>3, <1>8, <1>9
  <1>13. Piece(p1, Bytes(x0, 0), Addr)
    <2>1. Bytes(x0, 0) = {}
      BY <1>12, NoBytes
    <2>2. CASE h = 0
      <3>1. p1 = << >>
        BY <2>2, <1>10 DEF ForwardHead
      <3> QED BY <2>1, <3>1, NoPiece, PieceWeaker
    <2>3. CASE h # 0
      <3>1. PICK q, z, g : q = Copy(d, s, 1, h, 1, f) /\ z = Flush(g, h) /\ g = d + h
        OBVIOUS
      <3>2. p1 = q \o z
        BY ONLY <1>1, <2>3, <3>1, <1>10, Zenon DEF ForwardHead
      <3>3. Piece(q, {}, Bytes(d, h))
        <4>1. 1 \in {1, -1} /\ d = (IF 1 = 1 THEN d ELSE d - h) /\ d \in Int /\ s \in Int
          OBVIOUS
        <4> QED BY <4>1, <1>1, <1>3, <3>1, CopyPlain
      <3>4. Piece(z, {}, {})
        <4>1. g \in Int
          BY <3>1, <1>3
        <4> QED BY <4>1, <3>1, <1>3, FlushPiece
      <3>5. Piece(q \o z, {}, Bytes(d, h))
        <4>1. PICK B : B = Bytes(d, h)
          OBVIOUS
        <4>2. Piece(q, {}, B)
          BY <4>1, <3>3
        <4>3. {} \subseteq Addr /\ {} \cap {} \subseteq {} /\ {} \subseteq {} \cup {} /\ B \cup {} \subseteq B
          OBVIOUS
        <4>4. Piece(q \o z, {}, B)
          BY <4>2, <4>3, <3>4, Pieces
        <4> QED BY <4>1, <4>4
      <3> QED BY <2>1, <3>2, <3>5, BytesIn, PieceWeaker
    <2> QED BY <2>2, <2>3
  <1>14. Piece(p2, Bytes(x0, cc), Bytes(x0, cc))
    <2>1. x0 \in Int /\ CHUNK_SIZE \in Nat /\ 1 \in {1, -1} /\ x0 = (IF 1 = 1 THEN x0 ELSE x0 - cc)
      BY <1>12, Sizes
    <2> QED BY <2>1, <1>1, <1>8, <1>10, <1>12, CopyStreams
  <1>15. Piece(p3, Bytes(x1, mm), Bytes(x1, mm))
    <2>1. x1 \in Int /\ MOVNT_SIZE \in Nat /\ 1 \in {1, -1} /\ x1 = (IF 1 = 1 THEN x1 ELSE x1 - mm)
      BY <1>12, Sizes
    <2> QED BY <2>1, <1>1, <1>8, <1>10, <1>12, CopyStreams
  <1>16. Piece(p4, Bytes(x2, r), Bytes(x2, r))
    <2>1. ASSUME r # 0 PROVE Multiple(x2, MOVNT_SIZE)
      <3>1. h < n
        BY <2>1, <1>3, <1>8
      <3>2. Multiple(x0, FLUSH_ALIGN)
        BY <3>1, <1>3, <1>9
      <3>3. Multiple(x0, MOVNT_SIZE)
        BY <3>2, <1>12, Units
      <3>4. Multiple(cc, MOVNT_SIZE)
        <4>1. CHUNK_SIZE \in Int /\ Multiple(CHUNK_SIZE, MOVNT_SIZE)
          BY Units, Sizes
        <4>2. c \in Int /\ MOVNT_SIZE \in Nat \ {0}
          BY <1>8, Sizes
        <4>3. Multiple(c * CHUNK_SIZE, MOVNT_SIZE)
          BY <4>1, <4>2, MultipleTimes
        <4> QED BY <4>3, <1>6
      <3>5. Multiple(mm, MOVNT_SIZE)
        BY <1>6, <1>8 DEF Multiple
      <3>6. MOVNT_SIZE \in Nat \ {0} /\ x0 \in Int /\ cc \in Int /\ mm \in Int /\ x1 \in Int
        BY <1>8, <1>12, Sizes
      <3>7. Multiple(x1, MOVNT_SIZE)
        BY <3>3, <3>4, <3>6, <1>12, Multiples
      <3>8. Multiple(x1 + mm, MOVNT_SIZE)
        BY <3>5, <3>6, <3>7, Multiples
      <3>9. x1 + mm = x2
        BY <1>8, <1>12
      <3> QED BY <3>8, <3>9
    <2> QED BY <2>1, <1>8, <1>10, <1>12, ForwardTailPiece
  <1>17. Piece(p1 \o p2, Bytes(x0, cc), Addr)
    <2>1. Piece(p1 \o p2, Bytes(x0, 0 + cc), Addr)
      <3>1. 0 \in Nat /\ x0 = x0 + 0 /\ x0 \in Int
        BY <1>12
      <3> QED BY <3>1, <1>8, <1>13, <1>14, GrowUp
    <2>2. 0 + cc = cc
      BY <1>8
    <2> QED BY <2>1, <2>2
  <1>18. PICK q1, k1 : q1 = p1 \o p2 /\ k1 = cc + mm
    OBVIOUS
  <1>19. k1 \in Nat /\ x0 \in Int /\ x2 = x0 + k1 /\ n - h = k1 + r
    BY <1>8, <1>12, <1>18
  <1>20. Piece(q1 \o p3, Bytes(x0, cc + mm), Addr)
    BY <1>8, <1>12, <1>15, <1>17, <1>18, <1>19, GrowUp
  <1>21. PICK q2 : q2 = q1 \o p3
    OBVIOUS
  <1>22. Piece(q2 \o p4, Bytes(x0, k1 + r), Addr)
    <2>1. Piece(q2, Bytes(x0, k1), Addr)
      BY <1>18, <1>20, <1>21
    <2> QED BY <2>1, <1>8, <1>16, <1>19, GrowUp
  <1> QED BY <1>9, <1>11, <1>18, <1>19, <1>21, <1>22

\* A backward move of the n bytes below d sends off every byte.
LEMMA BackwardPiece ==
  ASSUME NEW d \in Nat, NEW s \in Int, NEW n \in Nat
  PROVE  Piece(Backward(d, s, n), Bytes(d - n, n), Addr)
  <1>1. PICK t, f : t = TRUE /\ f = FALSE
    OBVIOUS
  <1>2. PICK h : h = Min2(d % FLUSH_ALIGN, n)
    OBVIOUS
  <1>3. h \in Nat /\ h <= n
    <2>1. PICK a : a = d % FLUSH_ALIGN
      OBVIOUS
    <2>2. a \in Nat
      BY <2>1, Sizes, DivMod
    <2> QED BY <2>1, <2>2, <1>2 DEF Min2
  <1>4. PICK c, l : c = (n - h) \div CHUNK_SIZE /\ l = (n - h) % CHUNK_SIZE
    OBVIOUS
  <1>5. PICK m, r : m = l \div MOVNT_SIZE /\ r = l % MOVNT_SIZE
    OBVIOUS
  <1>6. PICK w, b : w = r \div DWORD_SIZE /\ b = r % DWORD_SIZE
    OBVIOUS
  <1>7. PICK cc, mm, ww : cc = c * CHUNK_SIZE /\ mm = m * MOVNT_SIZE /\ ww = w * DWORD_SIZE
    OBVIOUS
  <1>8. /\ c \in Nat /\ m \in Nat /\ w \in Nat /\ b \in Nat /\ cc \in Nat /\ mm \in Nat /\ ww \in Nat
        /\ r \in Nat /\ n = h + cc + mm + r /\ r = ww + b
        /\ CHUNK_SIZE * c = cc /\ MOVNT_SIZE * m = mm /\ DWORD_SIZE * w = ww
    BY <1>3, <1>4, <1>5, <1>6, <1>7, Parts
  <1>9. PICK o1, o2, o3 : o1 = h + cc /\ o2 = o1 + mm /\ o3 = o2 + ww
    OBVIOUS
  <1>10. PICK x0, y0, x1, y1, x2, y2, x3, y3, z :
           /\ x0 = d - h /\ x1 = d - o1 /\ x2 = d - o2 /\ x3 = d - o3 /\ z = d - n
           /\ y0 = s - h /\ y1 = s - o1 /\ y2 = s - o2 /\ y3 = s - o3
    OBVIOUS
  <1>11. PICK q1, q2, q3, q4, q5 :
           /\ q1 = Copy(d, s, 1, h, -1, f) /\ q2 = Copy(x0, y0, CHUNK_SIZE, c, -1, t)
           /\ q3 = Copy(x1, y1, MOVNT_SIZE, m, -1, t) /\ q4 = Copy(x2, y2, DWORD_SIZE, w, -1, t)
           /\ q5 = Copy(x3, y3, 1, b, -1, f)
    OBVIOUS
  <1>12. PICK p1, p4 : /\ p1 = IF h = 0 THEN << >> ELSE q1 \o Flush(x0, h)
                       /\ p4 = IF r = 0 THEN << >> ELSE q4 \o q5 \o Flush(z, b)
    OBVIOUS
  <1>13. Backward(d, s, n) = p1 \o q2 \o q3 \o p4
    BY ONLY <1>1, <1>2, <1>4, <1>5, <1>6, <1>7, <1>9, <1>10, <1>11, <1>12, ZenonT(90) DEF Backward
  <1>14. /\ x0 \in Int /\ x1 \in Int /\ x2 \in Int /\ x3 \in Int /\ z \in Int
         /\ y0 \in Int /\ y1 \in Int /\ y2 \in Int /\ y3 \in Int
         /\ o1 \in Nat /\ o2 \in Nat /\ x1 = x0 - cc /\ x2 = x1 - mm /\ x3 = x2 - ww /\ z = x3 - b
         /\ z = x2 - r /\ n = o2 + r
    BY <1>3, <1>8, <1>9, <1>10
  <1>15. -1 \in {1, -1} /\ d \in Int
    OBVIOUS
  <1>16. Piece(p1, Bytes(x0, h), Addr)
    <2>1. CASE h = 0
      <3>1. p1 = << >> /\ Bytes(x0, h) = {}
        BY <2>1, <1>12, <1>14, NoBytes
      <3> QED BY <3>1, NoPiece, PieceWeaker
    <2>2. CASE h # 0
      <3>1. Piece(q1, {}, Bytes(x0, h))
        <4>1. x0 = (IF -1 = 1 THEN d ELSE d - h)
          BY <1>10
        <4> QED BY <4>1, <1>1, <1>3, <1>11, <1>15, CopyPlain
      <3>2. Piece(q1 \o Flush(x0, h), Bytes(x0, h), Bytes(x0, h))
        BY <3>1, <1>3, <1>14, LinesHold, StoredAndFlushed
      <3>3. p1 = q1 \o Flush(x0, h)
        BY <2>2, <1>12
      <3> QED BY <3>2, <3>3, BytesIn, PieceWeaker
    <2> QED BY <2>1, <2>2
  <1>17. Piece(q2, Bytes(x1, cc), Bytes(x1, cc))
    <2>1. x1 = (IF -1 = 1 THEN x0 ELSE x0 - cc) /\ CHUNK_SIZE \in Nat
      BY <1>14, Sizes
    <2> QED BY <2>1, <1>1, <1>8, <1>11, <1>14, <1>15, CopyStreams
  <1>18. Piece(q3, Bytes(x2, mm), Bytes(x2, mm))
    <2>1. x2 = (IF -1 = 1 THEN x1 ELSE x1 - mm) /\ MOVNT_SIZE \in Nat
      BY <1>14, Sizes
    <2> QED BY <2>1, <1>1, <1>8, <1>11, <1>14, <1>15, CopyStreams
  <1>19. Piece(p4, Bytes(z, r), Bytes(z, r))
    <2>1. CASE r = 0
      <3>1. p4 = << >> /\ Bytes(z, r) = {}
        BY <2>1, <1>12, <1>14, NoBytes
      <3> QED BY <3>1, NoPiece
    <2>2. CASE r # 0
      <3>1. Piece(q4, Bytes(x3, ww), {})
        <4>1. x3 = (IF -1 = 1 THEN x2 ELSE x2 - ww) /\ DWORD_SIZE \in Nat
          BY <1>14, Sizes
        <4> QED BY <4>1, <1>1, <1>8, <1>11, <1>14, <1>15, CopyStreams
      <3>2. Piece(q5, {}, Bytes(z, b))
        <4>1. z = (IF -1 = 1 THEN x3 ELSE x3 - b)
          BY <1>14
        <4> QED BY <4>1, <1>1, <1>8, <1>11, <1>14, <1>15, CopyPlain
      <3>3. Bytes(x3, ww) \cap Bytes(z, b) = {} /\ Bytes(z, r) = Bytes(x3, ww) \cup Bytes(z, b)
        BY <1>8, <1>14 DEF Bytes, Addr
      <3>4. Bytes(z, b) \subseteq FlushedLines(z, b)
        BY <1>8, <1>14, LinesHold
      <3>5. Bytes(x3, ww) \in SUBSET Addr /\ Bytes(z, b) \in SUBSET Addr /\ Bytes(z, r) \in SUBSET Addr
        BY BytesIn
      <3>6. Piece(q4 \o q5 \o Flush(z, b), Bytes(z, r), Bytes(z, r))
        BY <3>1, <3>2, <3>3, <3>4, <3>5, <1>8, <1>14, StreamStoreFlush
      <3> QED BY <2>2, <3>6, <1>12
    <2> QED BY <2>1, <2>2
  <1>20. Piece(p1 \o q2, Bytes(x1, h + cc), Addr)
    BY <1>3, <1>8, <1>10, <1>14, <1>15, <1>16, <1>17, GrowDown
  <1>21. PICK z1, z2 : z1 = p1 \o q2 /\ z2 = z1 \o q3
    OBVIOUS
  <1>22. Piece(z1 \o q3, Bytes(x2, o1 + mm), Addr)
    <2>1. Piece(z1, Bytes(x1, o1), Addr)
      BY <1>9, <1>20, <1>21
    <2> QED BY <2>1, <1>8, <1>10, <1>14, <1>15, <1>18, GrowDown
  <1>23. Piece(z2 \o p4, Bytes(z, o2 + r), Addr)
    <2>1. Piece(z2, Bytes(x2, o2), Addr)
      BY <1>9, <1>21, <1>22
    <2> QED BY <2>1, <1>8, <1>10, <1>14, <1>15, <1>19, GrowDown
  <1> QED BY <1>10, <1>13, <1>14, <1>21, <1>23

\* Ordinary stores by libc, flushed.
LEMMA MemmovePlain ==
  ASSUME NEW d \in Nat, NEW s \in Nat, NEW n \in Nat
  PROVE  /\ Piece(memmove_nodrain_normal(d, s, n), Bytes(d, n), Bytes(d, n))
         /\ Calm(memmove_nodrain_normal(d, s, n))
  <1>1. PICK f, e, u : f = FALSE /\ e = d + n /\ u = s + n
    OBVIOUS
  <1>2. PICK q : q = IF d <= s THEN Copy(d, s, 1, n, 1, f) ELSE Copy(e, u, 1, n, -1, f)
    OBVIOUS
  <1>3. memmove_nodrain_normal(d, s, n) = q \o Flush(d, n)
    BY ONLY <1>1, <1>2, Zenon DEF memmove_nodrain_normal
  <1>4. d \in Int /\ s \in Int /\ e \in Int /\ u \in Int
    BY <1>1
  <1>5. Piece(q, {}, Bytes(d, n)) /\ Calm(q)
    <2>1. CASE d <= s
      <3>1. 1 \in {1, -1} /\ d = (IF 1 = 1 THEN d ELSE d - n) /\ q = Copy(d, s, 1, n, 1, f)
        BY <2>1, <1>2
      <3> QED BY <3>1, <1>1, <1>4, CopyPlain
    <2>2. CASE ~(d <= s)
      <3>1. -1 \in {1, -1} /\ d = (IF -1 = 1 THEN e ELSE e - n) /\ q = Copy(e, u, 1, n, -1, f)
        BY <2>2, <1>1, <1>2
      <3> QED BY <3>1, <1>1, <1>4, CopyPlain
    <2> QED BY <2>1, <2>2
  <1>6. Piece(q \o Flush(d, n), Bytes(d, n), Bytes(d, n))
    BY <1>4, <1>5, LinesHold, StoredAndFlushed
  <1>7. Calm(q \o Flush(d, n))
    <2>1. PICK g : g = Flush(d, n)
      OBVIOUS
    <2>2. Calm(g) /\ Piece(g, {}, {})
      BY <2>1, <1>4, FlushPiece
    <2>3. g \in Seq(OpSet) /\ q \in Seq(OpSet)
      BY <2>2, <1>5 DEF Piece
    <2> QED BY <2>1, <2>2, <2>3, <1>5, ConcatIs
  <1> QED BY <1>3, <1>6, <1>7

\* memmove_nodrain_movnt sends off every byte but for those before the first
\* cache line of a forward move.
LEMMA MemmoveStreams ==
  ASSUME NEW d \in Nat, NEW s \in Nat, NEW n \in Nat, s # d, NEW X,
         X \subseteq Bytes(d, n),
         CopyForward(d, s, n) =>
           \A a \in X : ~(a \div FLUSH_ALIGN = d \div FLUSH_ALIGN /\ d % FLUSH_ALIGN # 0)
  PROVE  Piece(memmove_nodrain_movnt(d, s, n), X, Addr)
  <1>1. CASE n = 0
    <2>1. memmove_nodrain_movnt(d, s, n) = << >>
      BY <1>1 DEF memmove_nodrain_movnt
    <2>2. X = {}
      BY <1>1, NoBytes
    <2> QED BY <2>1, <2>2, NoPiece, PieceWeaker
  <1>2. CASE n # 0 /\ CopyForward(d, s, n)
    <2>1. PICK h : h = IF d % FLUSH_ALIGN = 0 THEN 0 ELSE Min2(FLUSH_ALIGN - (d % FLUSH_ALIGN), n)
      OBVIOUS
    <2>2. h \in Nat /\ h <= n
      BY <2>1, HeadLength
    <2>3. \A a \in X : a >= d + h
      BY <2>1, <1>2, HeadLength
    <2>4. X \subseteq Bytes(d + h, n - h)
      <3>1. ASSUME NEW a \in X PROVE a \in Bytes(d + h, n - h)
        <4>1. a \in Addr /\ a < d + n /\ a >= d + h
          BY <2>3 DEF Bytes
        <4>2. a < (d + h) + (n - h)
          BY <4>1, <2>2, Sizes DEF Addr
        <4> QED BY <4>1, <4>2, <2>2, Sizes DEF Bytes, Addr
      <3> QED BY <3>1
    <2>5. Piece(Forward(d, s, n), Bytes(d + h, n - h), Addr)
      BY <2>1, ForwardPiece
    <2>6. memmove_nodrain_movnt(d, s, n) = Forward(d, s, n)
      BY <1>2 DEF memmove_nodrain_movnt
    <2> QED BY <2>4, <2>5, <2>6, PieceWeaker
  <1>3. CASE n # 0 /\ ~CopyForward(d, s, n)
    <2>1. memmove_nodrain_movnt(d, s, n) = Backward(d + n, s + n, n)
      BY <1>3 DEF memmove_nodrain_movnt
    <2>2. d + n \in Nat /\ s + n \in Int /\ (d + n) - n = d
      OBVIOUS
    <2>3. Piece(Backward(d + n, s + n, n), Bytes((d + n) - n, n), Addr)
      BY <2>2, BackwardPiece
    <2> QED BY <2>1, <2>2, <2>3, PieceWeaker
  <1> QED BY <1>1, <1>2, <1>3

-----------------------------------------------------------------------------
(* The end of a call.                                                      *)

LEMMA HeadConcat ==
  ASSUME NEW S, NEW s \in Seq(S), NEW t \in Seq(S), s # << >>
  PROVE  s \o t # << >> /\ Head(s \o t) = Head(s) /\ Tail(s \o t) = Tail(s) \o t
  <1>1. PICK r, u : r = s \o t /\ u = Tail(s) \o t
    OBVIOUS
  <1>2. Len(s) \in Nat \ {0} /\ Len(t) \in Nat
    BY EmptySeq, LenProperties
  <1>3. /\ r \in Seq(S) /\ Len(r) = Len(s) + Len(t)
        /\ \A i \in 1 .. Len(s) + Len(t) : r[i] = IF i <= Len(s) THEN s[i] ELSE t[i - Len(s)]
    BY <1>1, ConcatProperties
  <1>4. r # << >>
    BY <1>2, <1>3, EmptySeq
  <1>5. /\ Tail(s) \in Seq(S) /\ Len(Tail(s)) = Len(s) - 1
        /\ \A i \in 1 .. Len(Tail(s)) : Tail(s)[i] = s[i + 1]
    BY HeadTailProperties
  <1>6. /\ u \in Seq(S) /\ Len(u) = Len(Tail(s)) + Len(t)
        /\ \A i \in 1 .. Len(Tail(s)) + Len(t) :
             u[i] = IF i <= Len(Tail(s)) THEN Tail(s)[i] ELSE t[i - Len(Tail(s))]
    BY <1>1, <1>5, ConcatProperties
  <1>7. /\ Tail(r) \in Seq(S) /\ Len(Tail(r)) = Len(r) - 1
        /\ \A i \in 1 .. Len(Tail(r)) : Tail(r)[i] = r[i + 1]
    BY <1>3, <1>4, HeadTailProperties
  <1>8. PICK m, n, v, w : m = Len(s) /\ n = Len(t) /\ v = Tail(s) /\ w = Tail(r)
    OBVIOUS
  <1>9. m \in Nat \ {0} /\ n \in Nat
    BY <1>2, <1>8
  <1>10. /\ v \in Seq(S) /\ w \in Seq(S) /\ Len(w) = (m + n) - 1 /\ Len(u) = (m - 1) + n
         /\ \A i \in 1 .. (m + n) : r[i] = IF i <= m THEN s[i] ELSE t[i - m]
         /\ \A i \in 1 .. (m - 1) : v[i] = s[i + 1]
         /\ \A i \in 1 .. ((m + n) - 1) : w[i] = r[i + 1]
         /\ \A i \in 1 .. ((m - 1) + n) : u[i] = IF i <= m - 1 THEN v[i] ELSE t[i - (m - 1)]
    BY <1>3, <1>5, <1>6, <1>7, <1>8
  <1>11. ASSUME NEW i \in 1 .. ((m + n) - 1) PROVE w[i] = u[i]
    <2>1. i + 1 \in 1 .. (m + n) /\ i \in 1 .. ((m - 1) + n)
      BY <1>9
    <2>2. CASE i <= m - 1
      <3>1. i \in 1 .. (m - 1) /\ i + 1 <= m
        BY <2>2, <1>9
      <3> QED BY <2>1, <2>2, <3>1, <1>10
    <2>3. CASE ~(i <= m - 1)
      <3>1. ~(i + 1 <= m) /\ (i + 1) - m = i - (m - 1)
        BY <2>3, <1>9
      <3> QED BY <2>1, <2>3, <3>1, <1>10
    <2> QED BY <2>2, <2>3
  <1>12. Len(w) = Len(u) /\ Len(w) = (m + n) - 1
    BY <1>9, <1>10
  <1>13. w = u
    BY <1>6, <1>10, <1>11, <1>12, SeqEqual
  <1>14. Head(r) = r[1] /\ Head(s) = s[1] /\ r[1] = s[1]
    BY <1>2, <1>3
  <1> QED BY <1>1, <1>4, <1>8, <1>13, <1>14

-----------------------------------------------------------------------------
(* The inductive invariant.                                                *)

Ret    == [do |-> "return"]
Commit == IF func.pcommit THEN <<[do |-> "pcommit"]>> ELSE << >>
Finish == Drain \o <<Ret>>

\* The bytes that RangeDurable speaks of.
Target ==
  {a \in Bytes(call.dest, call.len) :
     call.op = "memmove" => a \notin Unflushed}

\* A call whose streaming stores no fence waits for.
Loose == call.op \in {"memset", "memmove"} /\ UnfencedStreams
\* What RangeDurable says of a byte.
Kept(a) == IF Loose THEN stat[a] # "dirty" ELSE Safe(a)

\* A byte that is on its way when the loops p are still to run.
OnWay(p, a) == (stat[a] # "dirty" /\ Clean(p, a)) \/ Plan(p, a)

\* While the loops run; between fence and commit; afterwards; before msync.
Storing ==
  \E p \in Seq(OpSet) :
    /\ prog = p \o Finish
    /\ \A a \in Target : OnWay(p, a)
    /\ ~func.predrain_fence /\ ~Loose => Calm(p) /\ \A a \in Target : stat[a] # "posted"
Committing ==
  /\ prog = Commit \o <<Ret>>
  /\ \A a \in Target : stat[a] # "dirty" /\ (~Loose => stat[a] # "posted")
Finished == prog \in {<<Ret>>, << >>} /\ \A a \in Target : Kept(a)
Syncing ==
  \E o : prog = <<o>> \o <<Ret>> /\ o.do = "msync" /\ Target \subseteq Bytes(o.addr, o.len)

StatType == stat \in [Addr -> {"dirty", "posted", "accepted", "durable"}]
FuncFits ==
  func # Unset => /\ func.flush = "clflush" <=> ~func.predrain_fence
                  /\ func.pcommit <=> NeedsPcommit
Idle == call.op \in {"none", "store"} => prog = << >> /\ \A a \in Addr : stat[a] # "posted"
Busy ==
  call.op \notin {"none", "store"} =>
    func # Unset /\ (Target = {} \/ Storing \/ Committing \/ Finished \/ Syncing)

PmemInv == StatType /\ FuncFits /\ Idle /\ Busy

\* The steps of a program.
Steps == OpSet \cup {[do |-> "sfence"], [do |-> "pcommit"], Ret}

LEMMA EndIs ==
  /\ Commit \o <<Ret>> \in Seq(Steps) /\ Finish \in Seq(Steps) /\ Drain \in Seq(Steps) /\ <<Ret>> \in Seq(Steps)
  /\ Commit \o <<Ret>> # << >> /\ Finish # << >> /\ <<Ret>> # << >>
  /\ Head(<<Ret>>) = Ret /\ Tail(<<Ret>>) = << >>
  /\ func.predrain_fence => Head(Finish).do = "sfence" /\ Tail(Finish) = Commit \o <<Ret>>
  /\ ~func.predrain_fence => Finish = Commit \o <<Ret>>
  /\ func.pcommit => Head(Commit \o <<Ret>>).do = "pcommit" /\ Tail(Commit \o <<Ret>>) = <<Ret>>
  /\ ~func.pcommit => Commit \o <<Ret>> = <<Ret>>
  <1>1. PICK F, C, s, c, r, A :
          /\ s = [do |-> "sfence"] /\ c = [do |-> "pcommit"] /\ r = Ret /\ A = Steps
          /\ F = (IF func.predrain_fence THEN <<s>> ELSE << >>) /\ C = Commit
    OBVIOUS
  <1>2. s \in A /\ c \in A /\ r \in A /\ s.do = "sfence" /\ c.do = "pcommit"
    BY <1>1 DEF Steps
  <1>3. /\ func.predrain_fence => F = <<s>>
        /\ ~func.predrain_fence => F = << >>
        /\ func.pcommit => C = <<c>>
        /\ ~func.pcommit => C = << >>
    BY <1>1, Zenon DEF Commit
  <1>4. F = <<s>> \/ F = << >>
    BY <1>3, Zenon
  <1>5. C = <<c>> \/ C = << >>
    BY <1>3, Zenon
  <1>6. F \in Seq(A) /\ C \in Seq(A) /\ <<r>> \in Seq(A) /\ <<s>> \in Seq(A) /\ <<c>> \in Seq(A)
    <2>1. \A x \in A : <<x>> \in Seq(A)
      OBVIOUS
    <2>2. << >> \in Seq(A)
      BY EmptySeq
    <2>3. <<r>> \in Seq(A) /\ <<s>> \in Seq(A) /\ <<c>> \in Seq(A)
      BY ONLY <2>1, <1>2
    <2> QED BY ONLY <2>2, <2>3, <1>4, <1>5
  <1>7. C \o <<r>> \in Seq(A) /\ F \o (C \o <<r>>) \in Seq(A) /\ F \o (C \o <<r>>) = (F \o C) \o <<r>>
    BY <1>6, ConcatProperties, ConcatAssociative
  <1>8. Drain = F \o C
    BY <1>1, Zenon DEF Drain, Commit
  <1>9. Finish = F \o (C \o <<r>>)
    BY <1>1, <1>7, <1>8 DEF Finish
  <1>10. /\ <<r>> # << >> /\ <<s>> # << >> /\ <<c>> # << >> /\ Head(<<r>>) = r /\ Tail(<<r>>) = << >>
         /\ Head(<<s>>) = s /\ Tail(<<s>>) = << >> /\ Head(<<c>>) = c /\ Tail(<<c>>) = << >>
    OBVIOUS
  <1>11. \A q \in Seq(A) : << >> \o q = q
    BY ConcatEmptySeq
  <1>12. C \o <<r>> # << >>
    <2>1. CASE C = << >>
      BY <2>1, <1>6, <1>10, <1>11
    <2>2. CASE C = <<c>>
      BY <2>2, <1>6, <1>10, HeadConcat
    <2> QED BY <2>1, <2>2, <1>5
  <1>13. F \o (C \o <<r>>) # << >>
    <2>1. CASE F = << >>
      BY <2>1, <1>7, <1>11, <1>12
    <2>2. CASE F = <<s>>
      BY <2>2, <1>6, <1>7, <1>10, HeadConcat
    <2> QED BY <2>1, <2>2, <1>4
  <1>14. ASSUME func.predrain_fence
         PROVE  Head(F \o (C \o <<r>>)).do = "sfence" /\ Tail(F \o (C \o <<r>>)) = C \o <<r>>
    <2>1. F = <<s>>
      BY <1>3, <1>14, Zenon
    <2>2. Head(F \o (C \o <<r>>)) = s /\ Tail(F \o (C \o <<r>>)) = << >> \o (C \o <<r>>)
      BY <2>1, <1>6, <1>7, <1>10, HeadConcat
    <2> QED BY <2>2, <1>2, <1>7, <1>11
  <1>15. ASSUME func.pcommit
         PROVE  Head(C \o <<r>>).do = "pcommit" /\ Tail(C \o <<r>>) = <<r>>
    <2>1. C = <<c>>
      BY <1>3, <1>15, Zenon
    <2>0. PICK R : R = <<r>>
      OBVIOUS
    <2>2. Head(C \o R) = c /\ Tail(C \o R) = << >> \o R
      <3>1. C \in Seq(A) /\ R \in Seq(A) /\ C # << >> /\ Head(C) = c /\ Tail(C) = << >>
        BY <2>0, <2>1, <1>6, <1>10
      <3>2. C \o R # << >> /\ Head(C \o R) = Head(C) /\ Tail(C \o R) = Tail(C) \o R
        BY ONLY <3>1, HeadConcat
      <3> QED BY ONLY <3>1, <3>2
    <2> QED BY <2>0, <2>2, <1>2, <1>6, <1>11
  <1>16. ASSUME ~func.predrain_fence PROVE F \o (C \o <<r>>) = C \o <<r>>
    <2>1. F = << >>
      BY <1>3, <1>16, Zenon
    <2> QED BY <2>1, <1>7, <1>11
  <1>17. ASSUME ~func.pcommit PROVE C \o <<r>> = <<r>>
    <2>1. C = << >>
      BY <1>3, <1>17, Zenon
    <2> QED BY <2>1, <1>6, <1>11
  <1>19. Drain \in Seq(A)
    BY <1>6, <1>8, ConcatProperties
  <1>18. C = Commit /\ r = Ret /\ A = Steps
    BY <1>1
  <1> HIDE DEF Commit, Ret, Finish, Steps
  <1> QED BY <1>6, <1>19, <1>7, <1>9, <1>10, <1>12, <1>13, <1>14, <1>15, <1>16, <1>17, <1>18, Zenon

\* The state of the bytes after a step of the program, when o is the loop run.
Moves(o) ==
  /\ StatType'
  /\ \A a \in Addr :
       /\ Sends(o, a) => stat'[a] # "dirty"
       /\ ~Dirties(o, a) /\ stat[a] # "dirty" => stat'[a] # "dirty"
       /\ ~func.predrain_fence /\ ~Streams(o) /\ stat[a] # "posted" => stat'[a] # "posted"

LEMMA SameLoose ==
  ASSUME call' = call, func' = func
  PROVE  Loose' <=> Loose
  BY Zenon DEF Loose, UnfencedStreams

LEMMA StoringAdvances ==
  ASSUME NEW p \in Seq(OpSet), p # << >>, prog = p \o Finish, Advance, Moves(Head(p)), Target' = Target,
         Target \subseteq Addr, \A a \in Target : OnWay(p, a),
         ~func.predrain_fence /\ ~Loose => Calm(p) /\ \A a \in Target : stat[a] # "posted"
  PROVE  Storing'
  <1>1. p \in Seq(Steps) /\ Finish \in Seq(Steps)
    <2>1. OpSet \subseteq Steps
      BY DEF Steps
    <2>2. p \in Seq(Steps)
      BY <2>1
    <2> QED BY <2>2, EndIs
  <1>2. Tail(prog) = Tail(p) \o Finish
    BY <1>1, HeadConcat
  <1>3. PICK q, o : q = Tail(p) /\ o = Head(p)
    OBVIOUS
  <1>4. prog' = q \o Finish /\ func' = func
    BY <1>2, <1>3 DEF Advance
  <1>5. Finish' = Finish
    BY <1>4 DEF Finish, Drain, Ret
  <1>6. q \in Seq(OpSet)
    BY <1>3, HeadIs
  <1>7. ASSUME NEW a \in Target PROVE OnWay(q, a)'
    <2>1. a \in Addr /\ OnWay(p, a)
      OBVIOUS
    <2>2. CASE stat[a] # "dirty" /\ Clean(p, a)
      <3>1. ~Dirties(o, a) /\ Clean(q, a)
        BY <2>2, <1>3, HeadIs
      <3>2. stat'[a] # "dirty"
        BY <2>1, <2>2, <3>1, <1>3 DEF Moves
      <3> QED BY <3>1, <3>2 DEF OnWay
    <2>3. CASE Plan(p, a)
      <3>1. (Sends(o, a) /\ Clean(q, a)) \/ Plan(q, a)
        BY <2>3, <1>3, HeadIs
      <3>2. CASE Sends(o, a) /\ Clean(q, a)
        BY <2>1, <3>2, <1>3 DEF Moves, OnWay
      <3>3. CASE Plan(q, a)
        BY <3>3 DEF OnWay
      <3> QED BY <3>1, <3>2, <3>3
    <2> QED BY <2>1, <2>2, <2>3 DEF OnWay
  <1>8. ASSUME ~func.predrain_fence, ~Loose PROVE Calm(q) /\ \A a \in Target : stat'[a] # "posted"
    <2>1. ~Streams(o) /\ Calm(q)
      BY <1>3, <1>8, HeadIs, Zenon
    <2> QED BY <2>1, <1>3, <1>8, Zenon DEF Moves
  <1>9. Loose' <=> Loose
    BY SameLoose DEF Advance
  <1> QED BY <1>4, <1>5, <1>6, <1>7, <1>8, <1>9, Zenon DEF Storing

LEMMA StoredMoves ==
  ASSUME StatType, NEW o \in OpSet, o.do \in {"copy", "set"}, NEW lo, NEW k, NEW nt,
         lo = Low(o), k = Size(o), nt = o.nt, Stored(lo, k, nt)
  PROVE  Moves(o)
  <1>1. \A a : Writes(o, a) <=> a \in Bytes(lo, k)
    BY DEF Writes
  <1>2. Streams(o) <=> nt
    BY Zenon DEF Streams
  <1>3. PICK v : v = (IF nt THEN "posted" ELSE "dirty")
    OBVIOUS
  <1>4. (Streams(o) => v = "posted") /\ (~Streams(o) => v = "dirty")
    BY <1>2, <1>3, Zenon
  <1>5. v \in {"posted", "dirty"}
    BY <1>4
  <1>6. stat' = [a \in Addr |-> IF a \in Bytes(lo, k) THEN v ELSE stat[a]]
    BY <1>3, Zenon DEF Stored
  <1>7. \A a \in Addr : stat'[a] = IF Writes(o, a) THEN v ELSE stat[a]
    BY <1>1, <1>6
  <1>8. StatType'
    BY <1>5, <1>6 DEF StatType
  <1>9. ASSUME NEW a \in Addr
        PROVE  /\ Sends(o, a) => stat'[a] # "dirty"
               /\ ~Dirties(o, a) /\ stat[a] # "dirty" => stat'[a] # "dirty"
               /\ ~Streams(o) /\ stat[a] # "posted" => stat'[a] # "posted"
    <2>1. Sends(o, a) => Writes(o, a) /\ Streams(o)
      BY DEF Sends
    <2>2. ~Dirties(o, a) => ~Writes(o, a) \/ Streams(o)
      BY DEF Dirties
    <2>3. stat'[a] = IF Writes(o, a) THEN v ELSE stat[a]
      BY <1>7
    <2> QED BY <2>1, <2>2, <2>3, <1>4
  <1> QED BY <1>8, <1>9, Zenon DEF Moves

LEMMA CopyMoves ==
  ASSUME StatType, RunCopy, Head(prog) \in OpSet
  PROVE  Moves(Head(prog)) /\ Advance
  <1>1. PICK o : o = Head(prog)
    OBVIOUS
  <1>2. o.do = "copy" /\ Advance
    BY <1>1, Zenon DEF RunCopy, Op
  <1>3. PICK lo, k, nt : /\ lo = (IF o.dir = 1 THEN o.to ELSE o.to - o.unit * o.cnt)
                         /\ k = o.unit * o.cnt /\ nt = o.nt
    OBVIOUS
  <1>4. Stored(lo, k, nt)
    BY <1>1, <1>3, Zenon DEF RunCopy, Op
  <1>5. lo = Low(o) /\ k = Size(o) /\ o.do \in {"copy", "set"}
    BY <1>2, <1>3 DEF Low, Size
  <1>6. Moves(o)
    BY <1>1, <1>3, <1>4, <1>5, StoredMoves, Zenon
  <1> QED BY <1>1, <1>2, <1>6

LEMMA SetMoves ==
  ASSUME StatType, RunSet, Head(prog) \in OpSet
  PROVE  Moves(Head(prog)) /\ Advance
  <1>1. PICK o : o = Head(prog)
    OBVIOUS
  <1>2. o.do = "set" /\ Advance
    BY <1>1, Zenon DEF RunSet, Op
  <1>3. PICK lo, k, nt : lo = o.to /\ k = o.len /\ nt = o.nt
    OBVIOUS
  <1>4. Stored(lo, k, nt)
    BY <1>1, <1>3, Zenon DEF RunSet, Op
  <1>5. lo = Low(o) /\ k = Size(o) /\ o.do \in {"copy", "set"}
    BY <1>2, <1>3 DEF Low, Size
  <1>6. Moves(o)
    BY <1>1, <1>3, <1>4, <1>5, StoredMoves, Zenon
  <1> QED BY <1>1, <1>2, <1>6

LEMMA FlushMoves ==
  ASSUME StatType, FuncFits, func # Unset, RunFlush
  PROVE  Moves(Head(prog)) /\ Advance
  <1>1. PICK o : o = Head(prog)
    OBVIOUS
  <1>2. o.do = "flush" /\ Advance
    BY <1>1, Zenon DEF RunFlush, Op
  <1>3. PICK L, v : L = FlushedLines(o.addr, o.len) /\ v = (IF func.flush = "clflush" THEN "accepted" ELSE "posted")
    OBVIOUS
  <1>4. stat' = [a \in Addr |-> IF stat[a] = "dirty" /\ a \in L THEN v ELSE stat[a]]
    BY <1>1, <1>3 DEF RunFlush, Op
  <1>5. v \in {"accepted", "posted"}
    BY <1>3
  <1>6. ~func.predrain_fence => v = "accepted"
    <2>1. ~func.predrain_fence => func.flush = "clflush"
      BY Zenon DEF FuncFits
    <2>2. func.flush = "clflush" => v = "accepted"
      BY <1>3
    <2> QED BY <2>1, <2>2, Zenon
  <1>7. StatType'
    BY <1>4, <1>5 DEF StatType
  <1>8. \A a \in Addr : stat'[a] = IF stat[a] = "dirty" /\ a \in L THEN v ELSE stat[a]
    BY <1>4
  <1>9. ASSUME NEW a \in Addr
        PROVE  /\ Sends(o, a) => stat'[a] # "dirty"
               /\ stat[a] # "dirty" => stat'[a] # "dirty"
               /\ v = "accepted" /\ stat[a] # "posted" => stat'[a] # "posted"
    <2>1. Sends(o, a) => a \in L
      BY <1>2, <1>3 DEF Sends, Writes
    <2> QED BY <2>1, <1>5, <1>8
  <1>10. Moves(o)
    BY <1>6, <1>7, <1>9, Zenon DEF Moves
  <1> QED BY <1>1, <1>2, <1>10

\* The bytes a call is about stay the same while it runs.
LEMMA SameTarget ==
  ASSUME call' = call, func' = func
  PROVE  Target' = Target
  BY DEF Target, Unflushed, Bytes, CopyForward

LEMMA TargetIn == Target \subseteq Addr /\ Target \subseteq Bytes(call.dest, call.len)
  BY DEF Target, Bytes

\* A loop of the program.
RunLoop == RunCopy \/ RunSet \/ RunFlush
LoopStep == RunLoop \/ predrain_fence_sfence \/ drain_pcommit \/ RunMsync \/ RunReturn

LEMMA LoopAdvances ==
  ASSUME LoopStep
  PROVE  /\ prog # << >> /\ Advance
         /\ Head(prog).do \in {"copy", "set", "flush"} => RunLoop
         /\ Head(prog).do = "sfence" => predrain_fence_sfence
         /\ Head(prog).do = "pcommit" => drain_pcommit
         /\ Head(prog).do = "msync" => RunMsync
         /\ Head(prog).do = "return" => RunReturn
         /\ RunCopy => Head(prog).do = "copy"
         /\ RunSet => Head(prog).do = "set"
         /\ RunFlush => Head(prog).do = "flush"
  <1>1. CASE RunCopy
    <2>1. prog # << >> /\ Advance /\ Head(prog).do = "copy"
      BY <1>1, Zenon DEF RunCopy, Op
    <2>2. RunLoop
      BY <1>1 DEF RunLoop
    <2>3. ~RunSet /\ ~RunFlush
      BY <2>1 DEF RunSet, RunFlush, Op
    <2> QED BY <2>1, <2>2, <2>3
  <1>2. CASE RunSet
    <2>1. prog # << >> /\ Advance /\ Head(prog).do = "set"
      BY <1>2, Zenon DEF RunSet, Op
    <2>2. RunLoop
      BY <1>2 DEF RunLoop
    <2>3. ~RunCopy /\ ~RunFlush
      BY <2>1 DEF RunCopy, RunFlush, Op
    <2> QED BY <2>1, <2>2, <2>3
  <1>3. CASE RunFlush
    <2>1. prog # << >> /\ Advance /\ Head(prog).do = "flush"
      BY <1>3, Zenon DEF RunFlush, Op
    <2>2. RunLoop
      BY <1>3 DEF RunLoop
    <2>3. ~RunSet /\ ~RunCopy
      BY <2>1 DEF RunSet, RunCopy, Op
    <2> QED BY <2>1, <2>2, <2>3
  <1>4. CASE ~RunLoop
    <2>1. ~RunCopy /\ ~RunSet /\ ~RunFlush
      BY <1>4 DEF RunLoop
    <2>2. CASE predrain_fence_sfence
      <3>1. prog # << >> /\ Advance /\ Head(prog).do = "sfence"
        BY <2>2, Zenon DEF predrain_fence_sfence, Op
      <3> QED BY <2>1, <2>2, <3>1
    <2>3. CASE drain_pcommit
      <3>1. prog # << >> /\ Advance /\ Head(prog).do = "pcommit"
        BY <2>3, Zenon DEF drain_pcommit, Op
      <3> QED BY <2>1, <2>3, <3>1
    <2>4. CASE RunMsync
      <3>1. prog # << >> /\ Advance /\ Head(prog).do = "msync"
        BY <2>4, Zenon DEF RunMsync, Op
      <3> QED BY <2>1, <2>4, <3>1
    <2>5. CASE RunReturn
      <3>1. prog # << >> /\ Advance /\ Head(prog).do = "return"
        BY <2>5, Zenon DEF RunReturn, Op
      <3> QED BY <2>1, <2>5, <3>1
    <2> QED BY <2>2, <2>3, <2>4, <2>5, <1>4 DEF LoopStep
  <1> QED BY <1>1, <1>2, <1>3, <1>4 DEF RunLoop

LEMMA StatusTypes ==
  ASSUME StatType, LoopStep
  PROVE  StatType'
  <1>1. ASSUME NEW lo, NEW k, NEW nt, Stored(lo, k, nt) PROVE StatType'
    <2>1. PICK v : v = (IF nt THEN "posted" ELSE "dirty")
      OBVIOUS
    <2>2. v = "posted" \/ v = "dirty"
      BY <2>1, Zenon
    <2>3. stat' = [a \in Addr |-> IF a \in Bytes(lo, k) THEN v ELSE stat[a]]
      BY <1>1, <2>1, Zenon DEF Stored
    <2> QED BY <2>2, <2>3 DEF StatType
  <1>2. CASE RunCopy
    <2>1. \E lo, k, nt : Stored(lo, k, nt)
      BY <1>2, Zenon DEF RunCopy
    <2> QED BY <2>1, <1>1, Zenon
  <1>3. CASE RunSet
    <2>1. \E lo, k, nt : Stored(lo, k, nt)
      BY <1>3, Zenon DEF RunSet
    <2> QED BY <2>1, <1>1, Zenon
  <1>4. CASE RunFlush
    BY <1>4 DEF RunFlush, StatType
  <1>5. CASE predrain_fence_sfence
    BY <1>5 DEF predrain_fence_sfence, Fenced, StatType
  <1>6. CASE drain_pcommit
    BY <1>6 DEF drain_pcommit, Fenced, StatType
  <1>7. CASE RunMsync
    BY <1>7 DEF RunMsync, StatType
  <1>8. CASE RunReturn
    BY <1>8 DEF RunReturn, StatType
  <1> QED BY <1>2, <1>3, <1>4, <1>5, <1>6, <1>7, <1>8 DEF LoopStep, RunLoop

LEMMA FinishedStep ==
  ASSUME Finished, LoopStep, Target' = Target, hw' = hw
  PROVE  Finished'
  <1>1. prog # << >> /\ Advance /\ (Head(prog).do = "return" => RunReturn)
    BY LoopAdvances
  <1>2. prog = <<Ret>>
    BY <1>1 DEF Finished
  <1>3. Head(prog).do = "return" /\ Tail(prog) = << >>
    BY <1>2, EndIs DEF Ret
  <1>4. prog' = << >> /\ stat' = stat
    BY <1>1, <1>3 DEF RunReturn, Advance
  <1>5. Loose' <=> Loose
    BY <1>1, SameLoose DEF Advance
  <1>6. \A a \in Target : Kept(a)'
    BY <1>4, <1>5 DEF Finished, Kept, Safe, NeedsPcommit
  <1> QED BY <1>4, <1>6 DEF Finished

LEMMA CommittingStep ==
  ASSUME Committing, FuncFits, StatType, func # Unset, LoopStep, Target' = Target, hw' = hw
  PROVE  Finished'
  <1>1. prog # << >> /\ Advance /\ (Head(prog).do = "pcommit" => drain_pcommit)
    BY LoopAdvances
  <1>2. CASE func.pcommit
    <2>1. Head(prog).do = "pcommit" /\ Tail(prog) = <<Ret>>
      BY <1>2, EndIs, Zenon DEF Committing
    <2>2. drain_pcommit
      BY <2>1, <1>1
    <2>3. prog' = <<Ret>>
      BY <2>1, <1>1 DEF Advance
    <2>4. ASSUME NEW a \in Target PROVE Kept(a)'
      <3>1. a \in Addr /\ stat[a] \in {"posted", "accepted", "durable"} /\ (~Loose => stat[a] # "posted")
        BY TargetIn DEF Committing, StatType
      <3>2. stat'[a] = IF stat[a] = "posted" THEN "accepted" ELSE "durable"
        BY <3>1, <2>2 DEF drain_pcommit, Fenced
      <3>3. stat'[a] # "dirty" /\ (~Loose => stat'[a] = "durable")
        BY <3>1, <3>2
      <3>4. Loose' <=> Loose
        BY <1>1, SameLoose DEF Advance
      <3> QED BY <3>3, <3>4 DEF Kept, Safe
    <2> QED BY <2>3, <2>4 DEF Finished, Ret
  <1>3. CASE ~func.pcommit
    <2>1. prog = <<Ret>>
      BY <1>3, EndIs, Zenon DEF Committing
    <2>2. ~NeedsPcommit
      BY <1>3, Zenon DEF FuncFits
    <2>3. ASSUME NEW a \in Target PROVE Kept(a)
      <3>1. stat[a] \in {"posted", "accepted", "durable"} /\ (~Loose => stat[a] # "posted")
        BY TargetIn DEF Committing, StatType
      <3>2. ~Loose => Safe(a)
        BY <3>1, <2>2 DEF Safe
      <3> QED BY <3>1, <3>2 DEF Kept
    <2>4. Finished
      BY <2>1, <2>3 DEF Finished
    <2> QED BY <2>4, FinishedStep
  <1> QED BY <1>2, <1>3

LEMMA StoringStep ==
  ASSUME Storing, FuncFits, StatType, func # Unset, LoopStep, Target' = Target, hw' = hw
  PROVE  Storing' \/ Committing' \/ Finished'
  <1>1. PICK p \in Seq(OpSet) :
          /\ prog = p \o Finish
          /\ \A a \in Target : OnWay(p, a)
          /\ ~func.predrain_fence /\ ~Loose => Calm(p) /\ \A a \in Target : stat[a] # "posted"
    BY Zenon DEF Storing
  <1>2. CASE p # << >>
    <2>1. Head(prog) = Head(p) /\ Head(p) \in OpSet
      <3>1. p \in Seq(Steps) /\ Finish \in Seq(Steps)
        <4>1. OpSet \subseteq Steps
          BY DEF Steps
        <4>2. p \in Seq(Steps)
          BY <4>1
        <4> QED BY <4>2, EndIs
      <3>2. Head(p \o Finish) = Head(p)
        BY <3>1, <1>2, HeadConcat
      <3> QED BY <3>2, <1>1, <1>2, HeadIs, Zenon
    <2>2. Head(prog).do \in {"copy", "set", "flush"}
      <3>1. \A o \in OpSet : o.do \in {"copy", "set", "flush"}
        BY DEF OpSet
      <3> QED BY <2>1, <3>1
    <2>3. RunLoop
      BY <2>2, LoopAdvances
    <2>4. Moves(Head(prog)) /\ Advance
      BY <2>1, <2>3, CopyMoves, SetMoves, FlushMoves DEF RunLoop
    <2>5. Moves(Head(p))
      BY <2>1, <2>4, Zenon
    <2> QED BY <1>1, <1>2, <2>4, <2>5, TargetIn, StoringAdvances, Zenon
  <1>3. CASE p = << >>
    <2>1. prog = Finish
      BY <1>1, <1>3, EndIs, ConcatEmptySeq, Zenon
    <2>2. \A a \in Target : a \in Addr /\ stat[a] # "dirty"
      <3>1. ASSUME NEW a \in Target PROVE stat[a] # "dirty"
        <4>1. OnWay(<< >>, a)
          BY <1>1, <1>3, Zenon
        <4>2. ~Plan(<< >>, a)
          BY DEF Plan
        <4> QED BY <4>1, <4>2 DEF OnWay
      <3> QED BY <3>1, TargetIn
    <2>3. CASE func.predrain_fence
      <3>1. Head(prog).do = "sfence" /\ Tail(prog) = Commit \o <<Ret>>
        BY <2>1, <2>3, EndIs, Zenon
      <3>2. predrain_fence_sfence /\ Advance
        BY <3>1, LoopAdvances
      <3>3. prog' = Commit \o <<Ret>> /\ func' = func
        BY <3>1, <3>2 DEF Advance
      <3>4. Commit' = Commit
        BY <3>3 DEF Commit
      <3>5. \A a \in Target : stat'[a] \in {"accepted", "durable"}
        <4>1. ASSUME NEW a \in Target PROVE stat'[a] \in {"accepted", "durable"}
          <5>1. a \in Addr /\ stat[a] \in {"posted", "accepted", "durable"}
            BY <2>2 DEF StatType
          <5> QED BY <5>1, <3>2 DEF predrain_fence_sfence, Fenced
        <4> QED BY <4>1
      <3>6. \A a \in Target : stat'[a] # "dirty" /\ stat'[a] # "posted"
        BY <3>5
      <3> QED BY <3>3, <3>4, <3>6, Zenon DEF Committing, Ret
    <2>4. CASE ~func.predrain_fence
      <3>1. prog = Commit \o <<Ret>>
        BY <2>1, <2>4, EndIs, Zenon
      <3>2. \A a \in Target : stat[a] # "dirty" /\ (~Loose => stat[a] # "posted")
        BY <2>2, <2>4, <1>1, Zenon
      <3>4. Committing
        BY <3>1, <3>2 DEF Committing
      <3> QED BY <3>4, CommittingStep
    <2> QED BY <2>3, <2>4
  <1> QED BY <1>2, <1>3

LEMMA SyncingStep ==
  ASSUME Syncing, LoopStep, Target' = Target
  PROVE  Finished'
  <1>1. PICK o : prog = <<o>> \o <<Ret>> /\ o.do = "msync" /\ Target \subseteq Bytes(o.addr, o.len)
    BY Zenon DEF Syncing
  <1>2. Head(prog) = o /\ Tail(prog) = <<Ret>>
    <2>1. PICK A : A = {o, Ret}
      OBVIOUS
    <2>2. PICK s, t : s = <<o>> /\ t = <<Ret>>
      OBVIOUS
    <2>3. s \in Seq(A) /\ t \in Seq(A) /\ s # << >> /\ Head(s) = o /\ Tail(s) = << >>
      BY <2>1, <2>2
    <2>4. Head(s \o t) = Head(s) /\ Tail(s \o t) = Tail(s) \o t
      BY ONLY <2>3, HeadConcat
    <2>5. << >> \o t = t
      BY ONLY <2>3, ConcatEmptySeq
    <2> QED BY ONLY <1>1, <2>2, <2>3, <2>4, <2>5
  <1>3. RunMsync /\ Advance
    BY <1>1, <1>2, LoopAdvances
  <1>4. prog' = <<Ret>>
    BY <1>2, <1>3 DEF Advance
  <1>5. \A a \in Target : stat'[a] = "durable"
    <2>1. PICK B : B = Bytes(o.addr, o.len)
      OBVIOUS
    <2>2. stat' = [a \in Addr |-> IF \E x \in B : x \div PageSize = a \div PageSize THEN "durable" ELSE stat[a]]
      BY <1>2, <1>3, <2>1 DEF RunMsync, Op
    <2>3. Target \subseteq B /\ Target \subseteq Addr
      BY <1>1, <2>1, TargetIn
    <2> QED BY <2>2, <2>3
  <1>6. \A a \in Target : Kept(a)'
    BY <1>5 DEF Kept, Safe
  <1> QED BY <1>4, <1>6 DEF Finished, Ret

LEMMA LoopKeeps ==
  ASSUME PmemInv, LoopStep
  PROVE  PmemInv'
  <1>1. Advance /\ prog # << >>
    BY LoopAdvances
  <1>2. hw' = hw /\ func' = func /\ call' = call
    BY <1>1 DEF Advance
  <1>3. call.op \notin {"none", "store"}
    BY <1>1 DEF PmemInv, Idle
  <1>4. StatType'
    BY StatusTypes DEF PmemInv
  <1>5. FuncFits'
    BY <1>2, Zenon DEF PmemInv, FuncFits, NeedsPcommit
  <1>6. Idle'
    BY <1>2, <1>3 DEF Idle
  <1>7. Target' = Target
    BY <1>2, SameTarget
  <1>8. StatType /\ FuncFits /\ func # Unset /\ (Target = {} \/ Storing \/ Committing \/ Finished \/ Syncing)
    BY <1>3 DEF PmemInv, Busy
  <1>9. Target' = {} \/ Storing' \/ Committing' \/ Finished' \/ Syncing'
    BY <1>2, <1>7, <1>8, StoringStep, CommittingStep, FinishedStep, SyncingStep
  <1>10. Busy'
    BY <1>2, <1>8, <1>9 DEF Busy, Unset
  <1> QED BY <1>4, <1>5, <1>6, <1>10 DEF PmemInv

-----------------------------------------------------------------------------
(* The start of a call.                                                    *)

LEMMA BeginFacts ==
  ASSUME PmemInv, NEW c, NEW p, Begin(c, p), c.op \notin {"none", "store"}
  PROVE  /\ StatType' /\ FuncFits' /\ Idle' /\ func' # Unset
         /\ func' = func /\ call' = c /\ prog' = p \o <<Ret>> /\ stat' = stat /\ FuncFits /\ func # Unset
         /\ \A a \in Addr : stat[a] # "posted"
  <1>1. /\ func # Unset /\ call.op \in {"none", "store"} /\ call' = c
        /\ prog' = p \o <<Ret>> /\ hw' = hw /\ func' = func /\ stat' = stat
    BY DEF Begin, Ret
  <1>2. \A a \in Addr : stat[a] # "posted"
    BY <1>1 DEF PmemInv, Idle
  <1>3. StatType'
    BY <1>1 DEF PmemInv, StatType
  <1>4. FuncFits /\ FuncFits'
    BY <1>1, Zenon DEF PmemInv, FuncFits, NeedsPcommit
  <1>5. Idle'
    BY <1>1 DEF Idle
  <1>6. func' # Unset
    BY <1>1
  <1> QED BY <1>1, <1>2, <1>3, <1>4, <1>5, <1>6

LEMMA BeginStores ==
  ASSUME PmemInv, NEW c, NEW q, Begin(c, q \o Drain), c.op \notin {"none", "store"}, NEW X,
         Target' \subseteq X, NEW Y, Piece(q, X, Y),
         ~func.predrain_fence /\ ~Loose' => Calm(q)
  PROVE  PmemInv'
  <1>1. /\ StatType' /\ FuncFits' /\ Idle' /\ func' # Unset
        /\ func' = func /\ prog' = (q \o Drain) \o <<Ret>> /\ stat' = stat
        /\ \A a \in Addr : stat[a] # "posted"
    BY BeginFacts
  <1>2. Finish' = Finish
    BY <1>1 DEF Finish, Drain, Ret
  <1>3. q \in Seq(OpSet) /\ q \in Seq(Steps)
    <2>1. OpSet \subseteq Steps
      BY DEF Steps
    <2>2. q \in Seq(OpSet)
      BY DEF Piece
    <2> QED BY <2>1, <2>2
  <1>4. prog' = q \o Finish'
    <2>1. PICK r, D : r = <<Ret>> /\ D = Drain
      OBVIOUS
    <2>2. r \in Seq(Steps) /\ D \in Seq(Steps)
      BY <2>1, EndIs
    <2>3. (q \o D) \o r = q \o (D \o r)
      BY <2>2, <1>3, ConcatAssociative
    <2>4. Finish = D \o r
      BY <2>1 DEF Finish
    <2> QED BY <2>1, <2>3, <2>4, <1>1, <1>2
  <1>5. \A a \in Target' : OnWay(q, a)'
    BY DEF Piece, OnWay
  <1>6. \A a \in Target' : a \in Addr
    BY DEF Target, Bytes
  <1>7. ~func'.predrain_fence /\ ~Loose' => Calm(q) /\ \A a \in Target' : stat'[a] # "posted"
    BY <1>1, <1>6, Zenon
  <1>8. Storing'
    BY <1>3, <1>4, <1>5, <1>7, Zenon DEF Storing
  <1> QED BY <1>1, <1>8, Zenon DEF PmemInv, Busy

LEMMA BeginEmpty ==
  ASSUME PmemInv, NEW c, NEW p, Begin(c, p), c.op \notin {"none", "store"}, Target' = {}
  PROVE  PmemInv'
  <1>1. StatType' /\ FuncFits' /\ Idle' /\ func' # Unset
    BY BeginFacts
  <1> QED BY <1>1, Zenon DEF PmemInv, Busy

LEMMA PersistBegins ==
  ASSUME PmemInv, NEW d \in Nat, NEW n \in Nat, pmem_persist(d, n)
  PROVE  PmemInv'
  <1>1. PICK c, q : /\ c = [op |-> "persist", dest |-> d, len |-> n, was |-> mem] /\ q = Flush(d, n)
                    /\ Begin(c, q \o Drain)
    BY Zenon DEF pmem_persist
  <1>2. c.op = "persist" /\ c.dest = d /\ c.len = n
    BY <1>1
  <1>3. c.op \notin {"none", "store"}
    BY <1>2
  <1>4. call' = c
    BY <1>1, <1>3, BeginFacts
  <1>5. PICK X : X = Bytes(d, n)
    OBVIOUS
  <1>6. Target' \subseteq X
    BY <1>2, <1>4, <1>5 DEF Target, Bytes
  <1>7. Piece(q, X, {}) /\ Calm(q)
    <2>1. d \in Int /\ X \subseteq FlushedLines(d, n)
      BY <1>5, LinesHold
    <2> QED BY <2>1, <1>1, FlushPiece
  <1> QED BY <1>1, <1>3, <1>6, <1>7, BeginStores

LEMMA MemsetBegins ==
  ASSUME PmemInv, NEW d \in Nat, NEW n \in Nat, pmem_memset_persist(d, n)
  PROVE  PmemInv'
  <1>1. PICK c, q : /\ c = [op |-> "memset", dest |-> d, len |-> n, was |-> mem]
                    /\ q = pmem_memset_nodrain(d, n) /\ Begin(c, q \o Drain)
    BY Zenon DEF pmem_memset_persist
  <1>2. c.op = "memset" /\ c.dest = d /\ c.len = n
    BY <1>1
  <1>3. c.op \notin {"none", "store"}
    BY <1>2
  <1>4. call' = c /\ func' = func
    BY <1>1, <1>3, BeginFacts
  <1>5. PICK X : X = Bytes(d, n)
    OBVIOUS
  <1>6. Target' \subseteq X
    BY <1>2, <1>4, <1>5 DEF Target, Bytes
  <1>8. CASE func.movnt
    <2>1. q = memset_nodrain_movnt(d, n)
      BY <1>1, <1>8, Zenon DEF pmem_memset_nodrain
    <2>2. Piece(q, X, Addr)
      BY <2>1, <1>5, MemsetStreams
    <2>3. ~func.predrain_fence /\ ~Loose' => Calm(q)
      <3>1. call'.op \in {"memset", "memmove"}
        BY <1>2, <1>4
      <3> QED BY <3>1, <1>4, <1>8, Zenon DEF Loose, UnfencedStreams
    <2> QED BY <2>2, <2>3, <1>1, <1>3, <1>6, BeginStores, Zenon
  <1>9. CASE ~func.movnt
    <2>1. PICK f : f = FALSE
      OBVIOUS
    <2>2. q = Set(d, n, f) \o Flush(d, n)
      BY <1>1, <1>9, <2>1, Zenon DEF pmem_memset_nodrain, memset_nodrain_normal
    <2>3. Piece(q, X, X) /\ Calm(q)
      <3>1. d \in Int
        OBVIOUS
      <3> QED BY <3>1, <2>1, <2>2, <1>5, SetFlushed
    <2>4. ~func.predrain_fence => Calm(q)
      BY <2>3, Zenon
    <2> QED BY <2>3, <2>4, <1>1, <1>3, <1>6, BeginStores, Zenon
  <1> QED BY <1>8, <1>9, Zenon

LEMMA MemmoveBegins ==
  ASSUME PmemInv, NEW d \in Nat, NEW s \in Nat, NEW n \in Nat, pmem_memmove_persist(d, s, n)
  PROVE  PmemInv'
  <1>1. PICK c, q : /\ c = [op |-> "memmove", dest |-> d, src |-> s, len |-> n, was |-> mem]
                    /\ q = pmem_memmove_nodrain(d, s, n) /\ Begin(c, q \o Drain)
    BY Zenon DEF pmem_memmove_persist
  <1>2. c.op = "memmove" /\ c.dest = d /\ c.src = s /\ c.len = n
    BY <1>1
  <1>3. c.op \notin {"none", "store"}
    BY <1>2
  <1>4. call' = c /\ func' = func
    BY <1>1, <1>3, BeginFacts
  <1>5. PICK X : X = Target'
    OBVIOUS
  <1>6. Target' \subseteq X /\ X \subseteq Bytes(d, n)
    BY <1>2, <1>4, <1>5 DEF Target, Bytes
  <1>7. call'.op = "memmove" /\ call'.dest = d /\ call'.src = s /\ call'.len = n
    BY <1>2, <1>4
  <1>11. ASSUME func.movnt, NEW a \in X
         PROVE  ~(s = d \/ (CopyForward(d, s, n) /\ a \div FLUSH_ALIGN = d \div FLUSH_ALIGN /\ d % FLUSH_ALIGN # 0))
    <2>1. a \in Bytes(d, n) /\ a \notin Unflushed'
      BY <1>5, <1>6, <1>7, <1>11 DEF Target
    <2>2. func'.movnt
      BY <1>4, <1>11, Zenon
    <2>3. Unflushed' = {x \in Bytes(d, n) :
            /\ func'.movnt
            /\ \/ call'.src = call'.dest
               \/ /\ CopyForward(d, s, n) /\ x \div FLUSH_ALIGN = d \div FLUSH_ALIGN /\ d % FLUSH_ALIGN # 0}
      BY <1>7, Zenon DEF Unflushed, Bytes, CopyForward
    <2> QED BY <2>1, <2>2, <2>3, <1>7, Zenon
  <1>8. CASE func.movnt /\ s = d
    <2>1. Target' = {}
      BY <1>5, <1>8, <1>11, Zenon
    <2> QED BY <2>1, <1>1, <1>3, BeginEmpty
  <1>9. CASE func.movnt /\ s # d
    <2>1. q = memmove_nodrain_movnt(d, s, n)
      BY <1>1, <1>9, Zenon DEF pmem_memmove_nodrain
    <2>2. ASSUME CopyForward(d, s, n), NEW a \in X
          PROVE  ~(a \div FLUSH_ALIGN = d \div FLUSH_ALIGN /\ d % FLUSH_ALIGN # 0)
      BY <2>2, <1>9, <1>11, Zenon
    <2>3. Piece(q, X, Addr)
      BY <2>1, <2>2, <1>6, <1>9, MemmoveStreams
    <2>4. ~func.predrain_fence /\ ~Loose' => Calm(q)
      <3>1. call'.op \in {"memset", "memmove"}
        BY <1>7
      <3> QED BY <3>1, <1>4, <1>9, Zenon DEF Loose, UnfencedStreams
    <2> QED BY <2>3, <2>4, <1>1, <1>3, <1>6, BeginStores, Zenon
  <1>10. CASE ~func.movnt
    <2>1. q = memmove_nodrain_normal(d, s, n)
      BY <1>1, <1>10, Zenon DEF pmem_memmove_nodrain
    <2>2. Piece(q, Bytes(d, n), Bytes(d, n)) /\ Calm(q)
      BY <2>1, MemmovePlain
    <2>3. Piece(q, X, Bytes(d, n))
      BY <2>2, <1>6, PieceWeaker
    <2>4. ~func.predrain_fence => Calm(q)
      BY <2>2, Zenon
    <2> QED BY <2>3, <2>4, <1>1, <1>3, <1>6, BeginStores, Zenon
  <1> QED BY <1>8, <1>9, <1>10, Zenon

LEMMA MsyncBegins ==
  ASSUME PmemInv, NEW d \in Nat, NEW n \in Nat, pmem_msync(d, n)
  PROVE  PmemInv'
  <1>1. PICK c, o, r, x, y :
          /\ c = [op |-> "msync", dest |-> d, len |-> n, was |-> mem]
          /\ r = d % PageSize /\ x = d - r /\ y = n + r
          /\ o = [do |-> "msync", addr |-> x, len |-> y]
          /\ Begin(c, <<o>>)
    BY Zenon DEF pmem_msync
  <1>2. c.op = "msync" /\ c.dest = d /\ c.len = n /\ o.do = "msync" /\ o.addr = x /\ o.len = y
    BY <1>1
  <1>3. c.op \notin {"none", "store"}
    BY <1>2
  <1>4. call' = c /\ prog' = <<o>> \o <<Ret>> /\ StatType' /\ FuncFits' /\ Idle' /\ func' # Unset
    BY <1>1, <1>3, BeginFacts
  <1>5. r \in Nat
    BY <1>1, Sizes, DivMod
  <1>6. Bytes(d, n) \subseteq Bytes(x, y)
    BY <1>1, <1>5 DEF Bytes, Addr
  <1>7. Target' \subseteq Bytes(d, n)
    BY <1>2, <1>4 DEF Target, Bytes
  <1>8. Target' \subseteq Bytes(o.addr, o.len)'
    <2>1. Bytes(o.addr, o.len)' = Bytes(x, y)
      BY <1>2 DEF Bytes
    <2> QED BY <2>1, <1>6, <1>7
  <1>9. Syncing'
    BY <1>2, <1>4, <1>8, Zenon DEF Syncing, Ret
  <1> QED BY <1>4, <1>9, Zenon DEF PmemInv, Busy

-----------------------------------------------------------------------------
(* The theorem.                                                            *)

LEMMA InitInv ==
  ASSUME PmemInit
  PROVE  PmemInv
  <1>1. call.op = "none" /\ prog = << >> /\ func = Unset /\ stat = [a \in Addr |-> "durable"]
    BY DEF PmemInit, NoCall
  <1>2. StatType /\ FuncFits /\ Idle /\ Busy
    BY <1>1 DEF StatType, FuncFits, Idle, Busy
  <1> QED BY <1>2 DEF PmemInv

LEMMA InitKeeps ==
  ASSUME PmemInv, pmem_init
  PROVE  PmemInv'
  <1>1. func = Unset /\ hw' = hw /\ stat' = stat /\ call' = call /\ prog' = prog
    BY Zenon DEF pmem_init
  <1>2. PICK opt, wb, pc, mv, fl :
          /\ opt = Use("clflushopt", "PMEM_NO_CLFLUSHOPT") /\ wb = Use("clwb", "PMEM_NO_CLWB")
          /\ pc = Use("pcommit", "PMEM_NO_PCOMMIT") /\ mv = Use("sse2", "PMEM_NO_MOVNT")
          /\ fl = IF opt THEN "clflushopt" ELSE IF wb THEN "clwb" ELSE "clflush"
    OBVIOUS
  <1>3. func' = [flush |-> fl, predrain_fence |-> opt \/ wb, pcommit |-> pc, movnt |-> mv]
    BY <1>2, Zenon DEF pmem_init
  <1>4. func'.flush = fl
    BY <1>3, Zenon
  <1>5. func'.predrain_fence <=> (opt \/ wb)
    BY <1>3, Zenon
  <1>6. func'.pcommit <=> pc
    BY <1>3, Zenon
  <1>7. fl = "clflush" <=> ~(opt \/ wb)
    <2>1. opt => fl = "clflushopt"
      BY <1>2, Zenon
    <2>2. ~opt /\ wb => fl = "clwb"
      BY <1>2, Zenon
    <2>3. ~opt /\ ~wb => fl = "clflush"
      BY <1>2, Zenon
    <2>4. "clflushopt" # "clflush" /\ "clwb" # "clflush"
      OBVIOUS
    <2> QED BY <2>1, <2>2, <2>3, <2>4, Zenon
  <1>8. pc <=> NeedsPcommit'
    BY <1>1, <1>2, Zenon DEF Use, NeedsPcommit
  <1>9. FuncFits'
    BY <1>4, <1>5, <1>6, <1>7, <1>8, Zenon DEF FuncFits
  <1>10. call.op \in {"none", "store"}
    BY <1>1 DEF PmemInv, Busy
  <1>11. StatType' /\ Idle' /\ Busy'
    BY <1>1, <1>10 DEF PmemInv, StatType, Idle, Busy
  <1> QED BY <1>9, <1>11 DEF PmemInv

LEMMA StepInv ==
  ASSUME PmemInv, [PmemNext]_pmem_vars
  PROVE  PmemInv'
  <1>1. CASE pmem_init
    BY <1>1, InitKeeps
  <1>2. CASE AppStore
    <2>1. call'.op = "store" /\ call.op = "none" /\ stat' = [a \in Addr |-> "dirty"]
      BY <1>2 DEF AppStore, NoCall
    <2>2. hw' = hw /\ func' = func /\ prog' = prog
      BY <1>2 DEF AppStore
    <2>3. StatType' /\ Idle' /\ Busy'
      BY <2>1, <2>2 DEF PmemInv, StatType, Idle, Busy
    <2>4. FuncFits'
      BY <2>2, Zenon DEF PmemInv, FuncFits, NeedsPcommit
    <2> QED BY <2>3, <2>4 DEF PmemInv
  <1>3. ASSUME NEW d \in Dests, NEW n \in Lens,
               pmem_memset_persist(d, n) \/ pmem_persist(d, n) \/ pmem_msync(d, n)
        PROVE  PmemInv'
    <2>1. d \in Nat /\ n \in Nat
      BY PmemAssumption
    <2> QED BY <2>1, <1>3, MemsetBegins, PersistBegins, MsyncBegins
  <1>4. ASSUME NEW d \in Dests, NEW n \in Lens, NEW s \in Srcs, pmem_memmove_persist(d, s, n)
        PROVE  PmemInv'
    <2>1. d \in Nat /\ n \in Nat /\ s \in Nat
      BY PmemAssumption
    <2> QED BY <2>1, <1>4, MemmoveBegins
  <1>5. CASE LoopStep
    BY <1>5, LoopKeeps
  <1>6. CASE UNCHANGED pmem_vars
    <2>1. hw' = hw /\ func' = func /\ mem' = mem /\ stat' = stat /\ call' = call /\ prog' = prog
      BY <1>6 DEF pmem_vars
    <2>2. Target' = Target /\ Finish' = Finish /\ Commit' = Commit /\ (NeedsPcommit <=> NeedsPcommit') /\ (Loose' <=> Loose)
      BY <2>1, SameTarget, SameLoose, Zenon DEF Finish, Drain, Commit, Ret, NeedsPcommit
    <2>3. StatType' /\ Idle'
      BY <2>1 DEF PmemInv, StatType, Idle
    <2>4. FuncFits'
      BY <2>1, <2>2, Zenon DEF PmemInv, FuncFits
    <2>5. Storing => Storing'
      BY <2>1, <2>2, Zenon DEF Storing, OnWay
    <2>6. Committing => Committing'
      BY <2>1, <2>2, Zenon DEF Committing, Ret
    <2>7. Finished => Finished'
      BY <2>1, <2>2, Zenon DEF Finished, Kept, Safe, Ret
    <2>8. Syncing => Syncing'
      BY <2>1, <2>2, Zenon DEF Syncing, Ret, Bytes
    <2>9. Busy'
      BY <2>1, <2>2, <2>5, <2>6, <2>7, <2>8, Zenon DEF PmemInv, Busy, Unset
    <2> QED BY <2>3, <2>4, <2>9 DEF PmemInv
  <1> QED BY <1>1, <1>2, <1>3, <1>4, <1>5, <1>6, Zenon DEF PmemNext, LoopStep, RunLoop

LEMMA InvImplies ==
  ASSUME PmemInv
  PROVE  RangeDurable
  <1>1. ASSUME prog = << >>, call.op \in {"persist", "msync", "memset", "memmove"}, NEW a \in Target
        PROVE  Kept(a)
    <2>1. call.op \notin {"none", "store"}
      BY <1>1
    <2>2. Target = {} \/ Storing \/ Committing \/ Finished \/ Syncing
      BY <2>1 DEF PmemInv, Busy
    <2>3. ~Storing
      <3>1. ASSUME Storing PROVE FALSE
        <4>1. PICK p \in Seq(OpSet) : prog = p \o Finish
          BY <3>1, Zenon DEF Storing
        <4>2. p \in Seq(Steps) /\ Finish \in Seq(Steps)
          <5>1. OpSet \subseteq Steps
            BY DEF Steps
          <5>2. p \in Seq(Steps)
            BY <5>1
          <5> QED BY <5>2, EndIs
        <4>3. PICK t : t = Finish
          OBVIOUS
        <4>4. p \in Seq(Steps) /\ t \in Seq(Steps) /\ p \o t = << >>
          BY <4>1, <4>2, <4>3, <1>1
        <4>5. t = << >>
          BY ONLY <4>4, ConcatEqualIffEmpty
        <4> QED BY <4>3, <4>5, EndIs
      <3> QED BY <3>1
    <2>4. ~Committing
      BY <1>1, EndIs DEF Committing
    <2>5. ~Syncing
      <3>1. ASSUME Syncing PROVE FALSE
        <4>1. PICK o : prog = <<o>> \o <<Ret>>
          BY <3>1, Zenon DEF Syncing
        <4>2. PICK A, s, t : A = {o, Ret} /\ s = <<o>> /\ t = <<Ret>>
          OBVIOUS
        <4>3. s \in Seq(A) /\ t \in Seq(A) /\ s # << >>
          BY <4>2
        <4>4. s \o t # << >>
          BY ONLY <4>3, HeadConcat
        <4> QED BY <4>1, <4>2, <4>4, <1>1
      <3> QED BY <3>1
    <2>6. Finished
      BY <1>1, <2>2, <2>3, <2>4, <2>5
    <2> QED BY <2>6, <1>1 DEF Finished
  <1>2. ASSUME Returned("persist") \/ Returned("msync"), NEW a \in Bytes(call.dest, call.len) PROVE Safe(a)
    <2>1. prog = << >> /\ (call.op = "persist" \/ call.op = "msync")
      BY <1>2 DEF Returned
    <2>2. a \in Target
      BY <2>1 DEF Target
    <2> QED BY <2>1, <2>2, <1>1 DEF Kept, Loose
  <1>3. ASSUME Returned("memset"), NEW a \in Bytes(call.dest, call.len) PROVE Sent(a)
    <2>1. prog = << >> /\ call.op = "memset"
      BY <1>3 DEF Returned
    <2>2. a \in Target
      BY <2>1 DEF Target
    <2> QED BY <2>1, <2>2, <1>1 DEF Kept, Loose, Sent
  <1>4. ASSUME Returned("memmove"), NEW a \in Bytes(call.dest, call.len) \ Unflushed PROVE Sent(a)
    <2>1. prog = << >> /\ call.op = "memmove"
      BY <1>4 DEF Returned
    <2>2. a \in Target
      BY <2>1, <1>4 DEF Target
    <2> QED BY <2>1, <2>2, <1>1 DEF Kept, Loose, Sent
  <1> QED BY <1>2, <1>3, <1>4, Zenon DEF RangeDurable

\* RangeDurable holds of every behaviour, whatever the sizes of cache lines
\* and streaming loops, the range, its alignment, the flush instruction, the
\* fences and the platform: when a persisting call returns its range is
\* durable or, where no fence waits for streaming stores, at least out of the
\* cache, except for the bytes that a streaming move does not flush.
THEOREM RangesDurable == PmemSpec => []RangeDurable
  <1>1. PmemInit => PmemInv
    BY InitInv
  <1>2. PmemInv /\ [PmemNext]_pmem_vars => PmemInv'
    BY StepInv
  <1>3. PmemInv => RangeDurable
    BY InvImplies
  <1> QED BY <1>1, <1>2, <1>3, PTL DEF PmemSpec
-----------------------------------------------------------------------------
(* What a copying loop leaves in memory.                                   *)
(*                                                                         *)
(* The loop is a recursive function: that it is the only one to obey its   *)
(* recursion, and that a closed form does, follows from the least unit at  *)
(* which two such functions could differ.                                  *)

\* A set of numbers has a least one.
LEMMA LeastOf ==
  ASSUME NEW S \in SUBSET Nat, S # {}
  PROVE  \E x \in S : \A y \in S : x <= y
  <1>1. \E x \in S : \A y \in S : ~ (<<y, x>> \in OpToRel(<, Nat))
    BY NatLessThanWellFounded, WFMin, Zenon
  <1>2. PICK x \in S : \A y \in S : ~ (<<y, x>> \in OpToRel(<, Nat))
    BY <1>1, Zenon
  <1>3. \A y \in S : ~ (y < x)
    BY <1>2 DEF OpToRel
  <1> QED BY <1>3

\* One unit of a copying loop: all of it is loaded before any of it is stored.
Unit(m, to, from, unit) ==
  [a \in Addr |-> IF a \in Bytes(to, unit) THEN m[from + a - to] ELSE m[a]]
NthUnit(h, i) == Unit(h[i - 1], UnitAt(Op.to, i), UnitAt(Op.from, i), Op.unit)

LEMMA LoopIs ==
  CopyLoop = (CHOOSE h : h = [i \in 0 .. Op.cnt |-> IF i = 0 THEN mem ELSE NthUnit(h, i)])[Op.cnt]
  BY Zenon DEF CopyLoop, Unit, NthUnit

\* What the units leave is what every function that obeys their recursion says.
LEMMA LoopUnique ==
  ASSUME NEW cnt \in Nat, Op.cnt = cnt, NEW g, g = [i \in 0 .. cnt |-> IF i = 0 THEN mem ELSE NthUnit(g, i)]
  PROVE  CopyLoop = g[cnt]
  <1>1. PICK h : h = CHOOSE f : f = [i \in 0 .. cnt |-> IF i = 0 THEN mem ELSE NthUnit(f, i)]
    OBVIOUS
  <1>2. h = [i \in 0 .. cnt |-> IF i = 0 THEN mem ELSE NthUnit(h, i)]
    BY <1>1, Zenon
  <1>3. CopyLoop = h[cnt]
    BY <1>1, LoopIs
  <1>4. \A i \in 0 .. cnt : h[i] = g[i]
    <2> DEFINE B == {i \in 0 .. cnt : h[i] # g[i]}
    <2> SUFFICES ASSUME B # {} PROVE FALSE
      OBVIOUS
    <2>1. PICK j \in B : \A i \in B : j <= i
      <3>1. B \in SUBSET Nat
        OBVIOUS
      <3> HIDE DEF B
      <3> QED BY <3>1, LeastOf
    <2>2. j \in 0 .. cnt /\ h[j] # g[j]
      OBVIOUS
    <2>3. j # 0
      BY <1>2, <2>2
    <2>4. j - 1 \in 0 .. cnt /\ j - 1 < j
      BY <2>2, <2>3
    <2>5. h[j - 1] = g[j - 1]
      BY <2>1, <2>4
    <2>6. h[j] = NthUnit(h, j) /\ g[j] = NthUnit(g, j)
      BY <1>2, <2>2, <2>3
    <2> QED BY <2>2, <2>5, <2>6 DEF NthUnit
  <1> QED BY <1>3, <1>4

\* A loop that goes up copies what was there when it started, if it does not
\* run into its source from below.
LEMMA LoopUp ==
  ASSUME NEW to \in Nat, NEW from \in Nat, NEW unit \in Nat \ {0}, NEW cnt \in Nat,
         Op.to = to, Op.from = from, Op.unit = unit, Op.cnt = cnt, Op.dir = 1,
         mem = [a \in Addr |-> mem[a]],
         to + unit * cnt <= MemSize, from + unit * cnt <= MemSize,
         to <= from \/ to >= from + unit * cnt
  PROVE  CopyLoop = [a \in Addr |-> IF a \in Bytes(to, unit * cnt) THEN mem[from + a - to] ELSE mem[a]]
  <1> DEFINE g == [i \in 0 .. cnt |->
                     [a \in Addr |-> IF a \in Bytes(to, unit * i) THEN mem[from + a - to] ELSE mem[a]]]
  <1>0. MemSize \in Nat
    BY Sizes
  <1>1. ASSUME NEW i \in 0 .. cnt, i # 0 PROVE g[i] = NthUnit(g, i)
    <2>1. PICK x, y, z : x = unit * (i - 1) /\ y = unit * i /\ z = unit * cnt
      OBVIOUS
    <2>2. x \in Nat /\ y = x + unit /\ y <= z /\ z \in Nat
      BY <1>1, <2>1
    <2>l. /\ from + z <= MemSize /\ to + z <= MemSize /\ (to <= from \/ to >= from + z)
      BY <2>1
    <2>3. UnitAt(Op.to, i) = to + x /\ UnitAt(Op.from, i) = from + x
      BY <2>1 DEF UnitAt
    <2>4. g[i - 1] = [a \in Addr |-> IF a \in Bytes(to, x) THEN mem[from + a - to] ELSE mem[a]]
      BY <1>1, <2>1
    <2>5. NthUnit(g, i) = [a \in Addr |-> IF a \in Bytes(to + x, unit) THEN g[i - 1][from + x + a - (to + x)] ELSE g[i - 1][a]]
      BY <2>3 DEF NthUnit, Unit
    <2>6. ASSUME NEW a \in Addr
          PROVE  (IF a \in Bytes(to + x, unit) THEN g[i - 1][from + x + a - (to + x)] ELSE g[i - 1][a])
                   = IF a \in Bytes(to, y) THEN mem[from + a - to] ELSE mem[a]
      <3>1. a \in 0 .. MemSize - 1
        BY DEF Addr
      <3>2. CASE a \in Bytes(to + x, unit)
        <4>1. to + x <= a /\ a < to + y
          BY <3>1, <3>2, <2>2 DEF Bytes
        <4>2. PICK b : b = from + a - to
          OBVIOUS
        <4>3. from + x + a - (to + x) = b /\ b \in Addr
          <5>1. b \in Int /\ from + x + a - (to + x) = b
            BY <2>2, <3>1, <4>2
          <5>2. 0 <= b /\ b < from + z
            BY <2>2, <3>1, <4>1, <4>2
          <5>3. from + z <= MemSize
            BY <2>l
          <5>4. b < MemSize
            BY <1>0, <2>2, <5>1, <5>2, <5>3
          <5> QED BY ONLY <1>0, <5>1, <5>2, <5>4 DEF Addr
        <4>4. b \notin Bytes(to, x)
          BY <2>2, <2>l, <3>1, <4>1, <4>2, <4>3 DEF Bytes
        <4>5. g[i - 1][b] = mem[b]
          BY <2>4, <4>3, <4>4
        <4>6. a \in Bytes(to, y)
          BY <3>1, <4>1, <2>2 DEF Bytes
        <4> QED BY <3>2, <4>2, <4>3, <4>5, <4>6
      <3>3. CASE a \notin Bytes(to + x, unit)
        <4>1. a \in Bytes(to, x) <=> a \in Bytes(to, y)
          BY <3>1, <3>3, <2>2 DEF Bytes
        <4> QED BY <2>4, <3>3, <4>1
      <3> QED BY <3>2, <3>3
    <2>7. g[i] = [a \in Addr |-> IF a \in Bytes(to, y) THEN mem[from + a - to] ELSE mem[a]]
      BY <2>1
    <2>8. PICK v, w : /\ v = [a \in Addr |-> IF a \in Bytes(to + x, unit) THEN g[i - 1][from + x + a - (to + x)] ELSE g[i - 1][a]]
                       /\ w = [a \in Addr |-> IF a \in Bytes(to, y) THEN mem[from + a - to] ELSE mem[a]]
      OBVIOUS
    <2>9. \A a \in Addr : v[a] = w[a]
      BY <2>6, <2>8
    <2>10. v = w
      BY <2>8, <2>9
    <2> QED BY <2>5, <2>7, <2>8, <2>10
  <1>2. g[0] = mem
    <2>1. unit * 0 = 0
      OBVIOUS
    <2>2. Bytes(to, 0) = {}
      BY NoBytes
    <2> QED BY <2>1, <2>2
  <1>3. g = [i \in 0 .. cnt |-> IF i = 0 THEN mem ELSE NthUnit(g, i)]
    BY <1>1, <1>2
  <1>4. g[cnt] = [a \in Addr |-> IF a \in Bytes(to, unit * cnt) THEN mem[from + a - to] ELSE mem[a]]
    OBVIOUS
  <1> HIDE DEF g
  <1> QED BY <1>3, <1>4, LoopUnique

\* A loop that goes down does so if it does not run into its source from above;
\* to and from are the upper ends.
LEMMA LoopDown ==
  ASSUME NEW to \in Nat, NEW from \in Nat, NEW unit \in Nat \ {0}, NEW cnt \in Nat,
         Op.to = to, Op.from = from, Op.unit = unit, Op.cnt = cnt, Op.dir = -1,
         mem = [a \in Addr |-> mem[a]],
         to <= MemSize, from <= MemSize, unit * cnt <= to, unit * cnt <= from, from <= to
  PROVE  CopyLoop = [a \in Addr |-> IF a \in Bytes(to - unit * cnt, unit * cnt) THEN mem[from + a - to] ELSE mem[a]]
  <1> DEFINE g == [i \in 0 .. cnt |->
                     [a \in Addr |-> IF a \in Bytes(to - unit * i, unit * i) THEN mem[from + a - to] ELSE mem[a]]]
  <1>0. MemSize \in Nat
    BY Sizes
  <1>1. ASSUME NEW i \in 0 .. cnt, i # 0 PROVE g[i] = NthUnit(g, i)
    <2>1. PICK x, y, z : x = unit * (i - 1) /\ y = unit * i /\ z = unit * cnt
      OBVIOUS
    <2>2. x \in Nat /\ y = x + unit /\ y <= z /\ z \in Nat
      BY <1>1, <2>1
    <2>l. z <= to /\ z <= from
      BY <2>1
    <2>3. UnitAt(Op.to, i) = to - y /\ UnitAt(Op.from, i) = from - y
      BY <2>1 DEF UnitAt
    <2>4. g[i - 1] = [a \in Addr |-> IF a \in Bytes(to - x, x) THEN mem[from + a - to] ELSE mem[a]]
      BY <1>1, <2>1
    <2>5. NthUnit(g, i) = [a \in Addr |-> IF a \in Bytes(to - y, unit) THEN g[i - 1][from - y + a - (to - y)] ELSE g[i - 1][a]]
      BY <2>3 DEF NthUnit, Unit
    <2>6. ASSUME NEW a \in Addr
          PROVE  (IF a \in Bytes(to - y, unit) THEN g[i - 1][from - y + a - (to - y)] ELSE g[i - 1][a])
                   = IF a \in Bytes(to - y, y) THEN mem[from + a - to] ELSE mem[a]
      <3>1. a \in 0 .. MemSize - 1
        BY DEF Addr
      <3>2. CASE a \in Bytes(to - y, unit)
        <4>1. to - y <= a /\ a < to - x
          BY <3>1, <3>2, <2>2 DEF Bytes
        <4>2. PICK b : b = from + a - to
          OBVIOUS
        <4>3. from - y + a - (to - y) = b /\ b \in Addr
          <5>1. b \in Int /\ from - y + a - (to - y) = b
            BY <2>2, <3>1, <4>2
          <5>2. 0 <= b /\ b < from
            BY <2>2, <2>l, <3>1, <4>1, <4>2
          <5> QED BY <1>0, <2>2, <2>l, <5>1, <5>2 DEF Addr
        <4>4. b \notin Bytes(to - x, x)
          BY <2>2, <2>l, <3>1, <4>1, <4>2, <4>3 DEF Bytes
        <4>5. g[i - 1][b] = mem[b]
          BY <2>4, <4>3, <4>4
        <4>6. a \in Bytes(to - y, y)
          BY <3>1, <4>1, <2>2 DEF Bytes
        <4> QED BY <3>2, <4>2, <4>3, <4>5, <4>6
      <3>3. CASE a \notin Bytes(to - y, unit)
        <4>1. a \in Bytes(to - x, x) <=> a \in Bytes(to - y, y)
          BY <3>1, <3>3, <2>2 DEF Bytes
        <4> QED BY <2>4, <3>3, <4>1
      <3> QED BY <3>2, <3>3
    <2>7. g[i] = [a \in Addr |-> IF a \in Bytes(to - y, y) THEN mem[from + a - to] ELSE mem[a]]
      BY <2>1
    <2>8. PICK v, w : /\ v = [a \in Addr |-> IF a \in Bytes(to - y, unit) THEN g[i - 1][from - y + a - (to - y)] ELSE g[i - 1][a]]
                       /\ w = [a \in Addr |-> IF a \in Bytes(to - y, y) THEN mem[from + a - to] ELSE mem[a]]
      OBVIOUS
    <2>9. \A a \in Addr : v[a] = w[a]
      BY <2>6, <2>8
    <2>10. v = w
      BY <2>8, <2>9
    <2> QED BY <2>5, <2>7, <2>8, <2>10
  <1>2. g[0] = mem
    <2>1. unit * 0 = 0 /\ to - 0 = to
      OBVIOUS
    <2>2. Bytes(to, 0) = {}
      BY NoBytes
    <2> QED BY <2>1, <2>2
  <1>3. g = [i \in 0 .. cnt |-> IF i = 0 THEN mem ELSE NthUnit(g, i)]
    BY <1>1, <1>2
  <1>4. g[cnt] = [a \in Addr |-> IF a \in Bytes(to - unit * cnt, unit * cnt) THEN mem[from + a - to] ELSE mem[a]]
    OBVIOUS
  <1> HIDE DEF g
  <1> QED BY <1>3, <1>4, LoopUnique

-----------------------------------------------------------------------------
(* The loops of a call write its range piece by piece, from one end.       *)

\* Loop o takes the part done from x bytes to y: it copies up (k = 1) or down
\* (k = -1), sets (k = 0), or stores nothing.  d and s are where the copy starts.
Does(k, d, s, o, x, y) ==
  \/ /\ o.do = "copy" /\ k # 0 /\ o.dir = k /\ o.unit \in Nat \ {0} /\ o.cnt \in Nat /\ y = x + o.unit * o.cnt
     /\ k = 1 => o.to = d + x /\ o.from = s + x
     /\ k = -1 => o.to = d - x /\ o.from = s - x
  \/ o.do = "set" /\ k = 0 /\ o.to = d + x /\ o.len \in Nat /\ y = x + o.len
  \/ o.do \notin {"copy", "set"} /\ y = x

Chain(k, d, s, p, x, y) ==
  \E f \in [1 .. Len(p) + 1 -> Nat] :
    /\ f[1] = x /\ f[Len(p) + 1] = y
    /\ \A i \in 1 .. Len(p) : Does(k, d, s, p[i], f[i], f[i + 1])
    /\ \A i \in 1 .. Len(p) + 1 : f[i] <= y

LEMMA ChainTyped ==
  ASSUME NEW p, Len(p) \in Nat, NEW k, NEW d, NEW s, NEW x, NEW y, Chain(k, d, s, p, x, y)
  PROVE  x \in Nat /\ y \in Nat /\ x <= y
  BY DEF Chain

\* Loops that store nothing.
LEMMA ChainStill ==
  ASSUME NEW k, NEW d, NEW s, NEW x \in Nat, NEW p \in Seq(Steps),
         \A i \in 1 .. Len(p) : p[i].do \notin {"copy", "set"}
  PROVE  Chain(k, d, s, p, x, x)
  <1>1. Len(p) \in Nat
    BY LenProperties
  <1>2. PICK f : f = [i \in 1 .. Len(p) + 1 |-> x]
    OBVIOUS
  <1>3. f \in [1 .. Len(p) + 1 -> Nat] /\ \A i \in 1 .. Len(p) + 1 : f[i] = x
    BY <1>2
  <1>4. \A i \in 1 .. Len(p) : Does(k, d, s, p[i], f[i], f[i + 1])
    BY <1>1, <1>3 DEF Does
  <1> QED BY <1>1, <1>3, <1>4 DEF Chain

LEMMA ChainOne ==
  ASSUME NEW k, NEW d, NEW s, NEW x \in Nat, NEW y \in Nat, x <= y, NEW o, NEW p, p = <<o>>, Does(k, d, s, o, x, y)
  PROVE  Chain(k, d, s, p, x, y)
  <1>1. Len(p) = 1 /\ p[1] = o
    OBVIOUS
  <1>2. PICK f : f = [i \in 1 .. 2 |-> IF i = 1 THEN x ELSE y]
    OBVIOUS
  <1>3. f \in [1 .. 2 -> Nat] /\ f[1] = x /\ f[2] = y
    BY <1>2
  <1>4. \A i \in 1 .. 1 : Does(k, d, s, p[i], f[i], f[i + 1])
    BY <1>1, <1>3
  <1>5. \A i \in 1 .. 2 : f[i] <= y
    BY <1>3
  <1>6. 1 + 1 = 2
    OBVIOUS
  <1> QED BY <1>1, <1>3, <1>4, <1>5, <1>6 DEF Chain

LEMMA ChainConcat ==
  ASSUME NEW k, NEW d, NEW s, NEW x, NEW y, NEW z, NEW p \in Seq(Steps), NEW q \in Seq(Steps),
         Chain(k, d, s, p, x, y), Chain(k, d, s, q, y, z)
  PROVE  Chain(k, d, s, p \o q, x, z)
  <1>1. PICK m, n, r : m = Len(p) /\ n = Len(q) /\ r = p \o q
    OBVIOUS
  <1>2. m \in Nat /\ n \in Nat
    BY <1>1, LenProperties
  <1>3. /\ Len(r) = m + n
        /\ \A i \in 1 .. m + n : r[i] = IF i <= m THEN p[i] ELSE q[i - m]
    BY <1>1, ConcatProperties
  <1>4. PICK f \in [1 .. m + 1 -> Nat] :
          /\ f[1] = x /\ f[m + 1] = y
          /\ \A i \in 1 .. m : Does(k, d, s, p[i], f[i], f[i + 1])
          /\ \A i \in 1 .. m + 1 : f[i] <= y
    BY <1>1 DEF Chain
  <1>5. PICK g \in [1 .. n + 1 -> Nat] :
          /\ g[1] = y /\ g[n + 1] = z
          /\ \A i \in 1 .. n : Does(k, d, s, q[i], g[i], g[i + 1])
          /\ \A i \in 1 .. n + 1 : g[i] <= z
    BY <1>1 DEF Chain
  <1>6. PICK h : h = [i \in 1 .. (m + n) + 1 |-> IF i <= m THEN f[i] ELSE g[i - m]]
    OBVIOUS
  <1>7. h \in [1 .. (m + n) + 1 -> Nat]
    BY <1>2, <1>4, <1>5, <1>6
  <1>8. \A i \in 1 .. m + 1 : h[i] = f[i]
    BY <1>2, <1>4, <1>5, <1>6
  <1>9. \A i \in 1 .. n + 1 : h[i + m] = g[i]
    BY <1>2, <1>6
  <1>10. x \in Nat /\ y \in Nat /\ z \in Nat /\ x <= y /\ y <= z
    <2>1. 1 \in 1 .. m + 1 /\ 1 \in 1 .. n + 1 /\ n + 1 \in 1 .. n + 1
      BY <1>2
    <2>2. f[1] \in Nat /\ g[1] \in Nat /\ g[n + 1] \in Nat
      BY <2>1
    <2>3. f[1] <= y /\ g[1] <= z
      BY <1>4, <1>5, <2>1
    <2> QED BY <1>4, <1>5, <2>2, <2>3
  <1>11. h[1] = x /\ h[(m + n) + 1] = z
    <2>1. 1 \in 1 .. m + 1 /\ n + 1 \in 1 .. n + 1 /\ (n + 1) + m = (m + n) + 1
      BY <1>2
    <2> QED BY <1>4, <1>5, <1>8, <1>9, <2>1
  <1>12. ASSUME NEW i \in 1 .. m + n PROVE Does(k, d, s, r[i], h[i], h[i + 1])
    <2>1. CASE i <= m
      <3>1. i \in 1 .. m /\ i \in 1 .. m + 1 /\ i + 1 \in 1 .. m + 1
        BY <1>2, <2>1
      <3> QED BY <1>3, <1>4, <1>8, <2>1, <3>1
    <2>2. CASE ~ (i <= m)
      <3>1. PICK j : j = i - m
        OBVIOUS
      <3>2. j \in 1 .. n /\ j \in 1 .. n + 1 /\ j + 1 \in 1 .. n + 1 /\ j + m = i /\ (j + 1) + m = i + 1
        BY <1>2, <2>2, <3>1
      <3>3. r[i] = q[j]
        BY <1>3, <2>2, <3>1
      <3>4. h[i] = g[j] /\ h[i + 1] = g[j + 1]
        BY <1>9, <3>2
      <3> QED BY <1>5, <3>2, <3>3, <3>4
    <2> QED BY <2>1, <2>2
  <1>13. ASSUME NEW i \in 1 .. (m + n) + 1 PROVE h[i] <= z
    <2>1. CASE i <= m
      <3>1. i \in 1 .. m + 1
        BY <1>2, <2>1
      <3>2. h[i] = f[i] /\ f[i] \in Nat /\ f[i] <= y
        BY <1>4, <1>8, <3>1
      <3> QED BY <1>10, <3>2
    <2>2. CASE ~ (i <= m)
      <3>1. PICK j : j = i - m
        OBVIOUS
      <3>2. j \in 1 .. n + 1 /\ j + m = i
        BY <1>2, <2>2, <3>1
      <3>3. h[i] = g[j] /\ g[j] <= z
        BY <1>5, <1>9, <3>2
      <3> QED BY <1>10, <3>3
    <2> QED BY <2>1, <2>2
  <1>14. Chain(k, d, s, r, x, z)
    BY <1>3, <1>7, <1>11, <1>12, <1>13 DEF Chain
  <1> QED BY <1>1, <1>14

LEMMA ChainHead ==
  ASSUME NEW k, NEW d, NEW s, NEW x, NEW z, NEW p \in Seq(Steps), p # << >>, Chain(k, d, s, p, x, z)
  PROVE  \E y \in Nat : /\ x <= y /\ y <= z /\ Does(k, d, s, Head(p), x, y)
                        /\ Chain(k, d, s, Tail(p), y, z)
  <1>1. PICK r, n : r = Tail(p) /\ n = Len(r)
    OBVIOUS
  <1>2. /\ r \in Seq(Steps) /\ Len(r) = Len(p) - 1
        /\ \A i \in 1 .. Len(r) : r[i] = p[i + 1]
    BY <1>1, HeadTailProperties
  <1>3. Len(p) \in Nat /\ Len(p) > 0 /\ Head(p) = p[1]
    BY EmptySeq, LenProperties
  <1>4. n \in Nat /\ Len(p) = n + 1 /\ \A i \in 1 .. n : r[i] = p[i + 1]
    BY <1>1, <1>2, <1>3
  <1>5. PICK f \in [1 .. (n + 1) + 1 -> Nat] :
          /\ f[1] = x /\ f[(n + 1) + 1] = z
          /\ \A i \in 1 .. n + 1 : Does(k, d, s, p[i], f[i], f[i + 1])
          /\ \A i \in 1 .. (n + 1) + 1 : f[i] <= z
    BY <1>4 DEF Chain
  <1>6. PICK y : y = f[2]
    OBVIOUS
  <1>7. y \in Nat /\ x <= y /\ y <= z /\ Does(k, d, s, Head(p), x, y)
    <2>1. 1 \in 1 .. n + 1 /\ 1 + 1 = 2 /\ 2 \in 1 .. (n + 1) + 1
      BY <1>4
    <2>2. Does(k, d, s, Head(p), x, y)
      <3>1. Does(k, d, s, p[1], f[1], f[1 + 1])
        BY <1>5, <2>1
      <3> QED BY <1>3, <1>5, <1>6, <2>1, <3>1
    <2>4. x \in Nat /\ y \in Nat /\ y <= z
      <3>1. f[1] \in Nat /\ f[2] \in Nat
        BY <1>4
      <3> QED BY <1>5, <1>6, <2>1, <3>1
    <2>3. x <= y
      BY <2>2, <2>4 DEF Does
    <2> QED BY <2>2, <2>3, <2>4
  <1>8. PICK g : g = [i \in 1 .. n + 1 |-> f[i + 1]]
    OBVIOUS
  <1>9. g \in [1 .. n + 1 -> Nat] /\ g[1] = y /\ g[n + 1] = z
    BY <1>4, <1>5, <1>6, <1>8
  <1>10. ASSUME NEW i \in 1 .. n PROVE Does(k, d, s, r[i], g[i], g[i + 1])
    <2>1. i \in 1 .. n + 1 /\ i + 1 \in 1 .. n + 1
      BY <1>4
    <2>2. r[i] = p[i + 1] /\ g[i] = f[i + 1] /\ g[i + 1] = f[(i + 1) + 1]
      BY <1>4, <1>8, <2>1
    <2> QED BY <1>5, <2>1, <2>2
  <1>11. ASSUME NEW i \in 1 .. n + 1 PROVE g[i] <= z
    <2>1. g[i] = f[i + 1] /\ i + 1 \in 1 .. (n + 1) + 1
      BY <1>4, <1>8
    <2> QED BY <1>5, <2>1
  <1>12. Chain(k, d, s, r, y, z)
    BY <1>1, <1>4, <1>9, <1>10, <1>11 DEF Chain
  <1> QED BY <1>1, <1>7, <1>12

\* Part of a program: loops that take the part done from x bytes to y.
Leg(k, d, s, p, x, y) == p \in Seq(Steps) /\ Chain(k, d, s, p, x, y)

LEMMA LegConcat ==
  ASSUME NEW k, NEW d, NEW s, NEW p, NEW q, NEW x, NEW y, NEW z,
         Leg(k, d, s, p, x, y), Leg(k, d, s, q, y, z)
  PROVE  Leg(k, d, s, p \o q, x, z)
  <1>1. p \in Seq(Steps) /\ q \in Seq(Steps) /\ Chain(k, d, s, p, x, y) /\ Chain(k, d, s, q, y, z)
    BY DEF Leg
  <1>2. p \o q \in Seq(Steps)
    BY <1>1, ConcatProperties
  <1> QED BY <1>1, <1>2, ChainConcat DEF Leg

LEMMA LegNone ==
  ASSUME NEW k, NEW d, NEW s, NEW x \in Nat
  PROVE  Leg(k, d, s, << >>, x, x)
  <1>1. PICK p : p = << >>
    OBVIOUS
  <1>2. p \in Seq(Steps) /\ Len(p) = 0
    BY <1>1
  <1>3. \A i \in 1 .. Len(p) : p[i].do \notin {"copy", "set"}
    BY <1>2
  <1> QED BY <1>1, <1>2, <1>3, ChainStill DEF Leg

LEMMA LegOne ==
  ASSUME NEW k, NEW d, NEW s, NEW x \in Nat, NEW y \in Nat, x <= y, NEW o \in Steps, Does(k, d, s, o, x, y)
  PROVE  Leg(k, d, s, <<o>>, x, y)
  <1>1. PICK p : p = <<o>>
    OBVIOUS
  <1>2. p \in Seq(Steps)
    BY <1>1
  <1>3. Chain(k, d, s, p, x, y)
    BY <1>1, ChainOne
  <1> QED BY <1>1, <1>2, <1>3 DEF Leg

LEMMA LegFlush ==
  ASSUME NEW k, NEW d, NEW s, NEW x \in Nat, NEW f \in Int, NEW n \in Nat
  PROVE  Leg(k, d, s, Flush(f, n), x, x)
  <1>1. PICK o : Flush(f, n) = << o >> /\ o = [do |-> "flush", addr |-> f, len |-> n]
    BY Zenon DEF Flush
  <1>2. o.do = "flush"
    BY <1>1
  <1>3. o \in Steps
    BY <1>1, Zenon DEF OpSet, Steps
  <1>4. Does(k, d, s, o, x, x)
    BY <1>2 DEF Does
  <1>5. x <= x
    OBVIOUS
  <1> QED BY <1>1, <1>3, <1>4, <1>5, LegOne

LEMMA LegCopy ==
  ASSUME NEW k \in {1, -1}, NEW d \in Int, NEW s \in Int, NEW x \in Nat, NEW to \in Int, NEW from \in Int,
         NEW unit \in Nat \ {0}, NEW cnt \in Nat, NEW nt \in BOOLEAN, NEW y, y = x + unit * cnt,
         k = 1 => to = d + x /\ from = s + x, k = -1 => to = d - x /\ from = s - x
  PROVE  Leg(k, d, s, Copy(to, from, unit, cnt, k, nt), x, y)
  <1>1. CASE cnt = 0
    <2>1. Copy(to, from, unit, cnt, k, nt) = << >>
      BY <1>1 DEF Copy
    <2>2. y = x
      BY <1>1
    <2> QED BY <2>1, <2>2, LegNone
  <1>2. CASE cnt # 0
    <2>1. PICK o : /\ Copy(to, from, unit, cnt, k, nt) = << o >>
                   /\ o = [do |-> "copy", to |-> to, from |-> from, unit |-> unit, cnt |-> cnt,
                           dir |-> k, nt |-> nt]
      BY <1>2, Zenon DEF Copy
    <2>2. o.do = "copy" /\ o.to = to /\ o.from = from /\ o.unit = unit /\ o.cnt = cnt /\ o.dir = k
      BY <2>1
    <2>3. unit \in Nat
      OBVIOUS
    <2>4. o \in Steps
      BY <2>1, <2>3, Zenon DEF OpSet, Steps
    <2>5. Does(k, d, s, o, x, y)
      BY <2>2 DEF Does
    <2>6. y \in Nat /\ x <= y
      <3>1. unit * cnt \in Nat
        OBVIOUS
      <3> QED BY <3>1
    <2> QED BY <2>1, <2>4, <2>5, <2>6, LegOne
  <1> QED BY <1>1, <1>2

LEMMA LegSet ==
  ASSUME NEW k, k = 0, NEW d \in Int, NEW s, NEW x \in Nat, NEW to \in Int, NEW n \in Nat, NEW nt \in BOOLEAN,
         NEW y, y = x + n, to = d + x
  PROVE  Leg(k, d, s, Set(to, n, nt), x, y)
  <1>1. CASE n = 0
    <2>1. Set(to, n, nt) = << >>
      BY <1>1 DEF Set
    <2>2. y = x
      BY <1>1
    <2> QED BY <2>1, <2>2, LegNone
  <1>2. CASE n # 0
    <2>1. PICK o : Set(to, n, nt) = << o >> /\ o = [do |-> "set", to |-> to, len |-> n, nt |-> nt]
      BY <1>2, Zenon DEF Set
    <2>2. o.do = "set" /\ o.to = to /\ o.len = n
      BY <2>1
    <2>4. o \in Steps
      BY <2>1, Zenon DEF OpSet, Steps
    <2>5. Does(k, d, s, o, x, y)
      BY <2>2 DEF Does
    <2>6. y \in Nat /\ x <= y
      OBVIOUS
    <2> QED BY <2>1, <2>4, <2>5, <2>6, LegOne
  <1> QED BY <1>1, <1>2


LEMMA ForwardTailLeg ==
  ASSUME NEW k, k = 1, NEW d \in Int, NEW s \in Int, NEW z \in Nat, NEW x, x = d + z, NEW y, y = s + z,
         NEW r \in Nat, NEW n, n = z + r
  PROVE  Leg(k, d, s, ForwardTail(x, y, r), z, n)
  <1>1. CASE r = 0
    <2>1. ForwardTail(x, y, r) = << >> /\ n = z
      BY <1>1 DEF ForwardTail
    <2> QED BY <2>1, LegNone
  <1>2. CASE r # 0
    <2>1. PICK t, f : t = TRUE /\ f = FALSE
      OBVIOUS
    <2>2. PICK w, b, ww : w = r \div DWORD_SIZE /\ b = r % DWORD_SIZE /\ ww = w * DWORD_SIZE
      OBVIOUS
    <2>3. w \in Nat /\ b \in Nat /\ ww \in Nat /\ r = ww + b
      BY <2>2, Sizes, DivMod
    <2>4. PICK u, v, q1, q2, e : /\ u = x + ww /\ v = y + ww /\ e = x + r
                                 /\ q1 = Copy(x, y, DWORD_SIZE, w, k, t)
                                 /\ q2 = Copy(u, v, 1, b, k, f)
      OBVIOUS
    <2>5. ForwardTail(x, y, r) = q1 \o q2 \o Flush(e, b)
      BY ONLY <1>2, <2>1, <2>2, <2>4, k = 1, Zenon DEF ForwardTail
    <2>6. x \in Int /\ y \in Int /\ u \in Int /\ v \in Int /\ e \in Int
      BY <2>3, <2>4
    <2>7. ww = DWORD_SIZE * w
      BY <2>2, <2>3, Sizes
    <2>b. t \in BOOLEAN /\ f \in BOOLEAN
      BY <2>1, Zenon
    <2>n. k \in {1, -1} /\ k # -1 /\ 1 \in Nat \ {0}
      OBVIOUS
    <2>8. k \in {1, -1} /\ t \in BOOLEAN /\ f \in BOOLEAN /\ k # -1 /\ DWORD_SIZE \in Nat \ {0} /\ 1 \in Nat \ {0}
      BY <2>b, <2>n, Sizes, Zenon
    <2>9. PICK z1 : z1 = z + ww
      OBVIOUS
    <2>10. Leg(k, d, s, q1, z, z1)
      <3>1. z1 = z + DWORD_SIZE * w
        BY <2>7, <2>9
      <3>2. k = 1 => x = d + z /\ y = s + z
        OBVIOUS
      <3>3. k = -1 => x = d - z /\ y = s - z
        BY <2>8
      <3> QED BY <2>3, <2>4, <2>6, <2>8, <3>1, <3>2, <3>3, LegCopy
    <2>11. z1 \in Nat /\ n = z1 + 1 * b /\ u = d + z1 /\ v = s + z1
      BY <2>3, <2>4, <2>9
    <2>12. Leg(k, d, s, q2, z1, n)
      <3>2. k = 1 => u = d + z1 /\ v = s + z1
        BY <2>11
      <3>3. k = -1 => u = d - z1 /\ v = s - z1
        BY <2>8
      <3> QED BY <2>3, <2>4, <2>6, <2>8, <2>11, <3>2, <3>3, LegCopy
    <2>13. Leg(k, d, s, Flush(e, b), n, n)
      BY <2>3, <2>6, <2>11, LegFlush
    <2>14. Leg(k, d, s, q1 \o q2, z, n)
      BY <2>10, <2>12, LegConcat
    <2>15. Leg(k, d, s, q1 \o q2 \o Flush(e, b), z, n)
      BY <2>13, <2>14, LegConcat
    <2> QED BY <2>5, <2>15
  <1> QED BY <1>1, <1>2

\* A forward move copies its range upwards.
LEMMA ForwardLeg ==
  ASSUME NEW k, k = 1, NEW d \in Nat, NEW s \in Nat, NEW n \in Nat
  PROVE  Leg(k, d, s, Forward(d, s, n), 0, n)
  <1>1. PICK t, f : t = TRUE /\ f = FALSE
    OBVIOUS
  <1>0. d \in Nat /\ s \in Nat /\ n \in Nat
    OBVIOUS
  <1>2. PICK h : h = IF d % FLUSH_ALIGN = 0 THEN 0 ELSE Min2(FLUSH_ALIGN - (d % FLUSH_ALIGN), n)
    OBVIOUS
  <1>3. h \in Nat /\ h <= n
    BY <1>2, HeadLength
  <1>4. PICK c, l : c = (n - h) \div CHUNK_SIZE /\ l = (n - h) % CHUNK_SIZE
    OBVIOUS
  <1>5. PICK m, r : m = l \div MOVNT_SIZE /\ r = l % MOVNT_SIZE
    OBVIOUS
  <1>6. PICK cc, mm : cc = c * CHUNK_SIZE /\ mm = m * MOVNT_SIZE
    OBVIOUS
  <1>7. PICK w, b, ww : w = r \div DWORD_SIZE /\ b = r % DWORD_SIZE /\ ww = w * DWORD_SIZE
    OBVIOUS
  <1>8. /\ c \in Nat /\ m \in Nat /\ cc \in Nat /\ mm \in Nat /\ r \in Nat
        /\ n = h + cc + mm + r /\ CHUNK_SIZE * c = cc /\ MOVNT_SIZE * m = mm
    BY ONLY <1>0, <1>3, <1>4, <1>5, <1>6, <1>7, Parts
  <1>9. PICK z1, z2, x0, y0, x1, y1, x2, y2 :
          /\ z1 = h + cc /\ z2 = z1 + mm
          /\ x0 = d + h /\ x1 = d + z1 /\ x2 = d + z2
          /\ y0 = s + h /\ y1 = s + z1 /\ y2 = s + z2
    OBVIOUS
  <1>10. PICK p1, p2, p3, p4 : /\ p1 = ForwardHead(d, s, h) /\ p2 = Copy(x0, y0, CHUNK_SIZE, c, k, t)
                               /\ p3 = Copy(x1, y1, MOVNT_SIZE, m, k, t) /\ p4 = ForwardTail(x2, y2, r)
    OBVIOUS
  <1>11. Forward(d, s, n) = p1 \o p2 \o p3 \o p4
    BY ONLY <1>1, <1>2, <1>4, <1>5, <1>6, <1>9, <1>10, k = 1, Zenon DEF Forward
  <1>12. /\ z1 \in Nat /\ z2 \in Nat /\ n = z2 + r
         /\ x0 \in Int /\ x1 \in Int /\ x2 \in Int /\ y0 \in Int /\ y1 \in Int /\ y2 \in Int
         /\ d \in Int /\ s \in Int
    BY ONLY <1>0, <1>3, <1>8, <1>9
  <1>b. t \in BOOLEAN /\ f \in BOOLEAN
    BY <1>1, Zenon
  <1>n. k \in {1, -1} /\ k # -1 /\ 1 \in Nat \ {0}
    OBVIOUS
  <1>13. /\ k \in {1, -1} /\ t \in BOOLEAN /\ f \in BOOLEAN /\ k # -1
         /\ CHUNK_SIZE \in Nat \ {0} /\ MOVNT_SIZE \in Nat \ {0} /\ 1 \in Nat \ {0}
    BY <1>b, <1>n, Sizes, Zenon
  <1>14. Leg(k, d, s, p1, 0, h)
    <2>1. CASE h = 0
      <3>1. p1 = << >>
        BY <2>1, <1>10 DEF ForwardHead
      <3> QED BY <2>1, <3>1, LegNone
    <2>2. CASE h # 0
      <3>1. PICK q, g : q = Copy(d, s, 1, h, k, f) /\ g = d + h
        OBVIOUS
      <3>2. p1 = q \o Flush(g, h)
        BY ONLY <1>1, <2>2, <3>1, <1>10, k = 1, Zenon DEF ForwardHead
      <3>3. 0 \in Nat /\ h = 0 + 1 * h /\ g \in Int
        BY <1>3, <1>12, <3>1
      <3>4. k = 1 => d = d + 0 /\ s = s + 0
        OBVIOUS
      <3>5. k = -1 => d = d - 0 /\ s = s - 0
        BY <1>13
      <3>6. Leg(k, d, s, q, 0, h)
        BY <1>3, <1>12, <1>13, <3>1, <3>3, <3>4, <3>5, LegCopy
      <3>7. Leg(k, d, s, Flush(g, h), h, h)
        BY <1>3, <3>3, LegFlush
      <3> QED BY <3>2, <3>6, <3>7, LegConcat
    <2> QED BY <2>1, <2>2
  <1>15. Leg(k, d, s, p2, h, z1)
    <2>1. z1 = h + CHUNK_SIZE * c
      BY <1>8, <1>9
    <2>2. k = 1 => x0 = d + h /\ y0 = s + h
      BY <1>9
    <2>3. k = -1 => x0 = d - h /\ y0 = s - h
      BY <1>13
    <2> QED BY <1>3, <1>8, <1>10, <1>12, <1>13, <2>1, <2>2, <2>3, LegCopy
  <1>16. Leg(k, d, s, p3, z1, z2)
    <2>1. z2 = z1 + MOVNT_SIZE * m
      BY <1>8, <1>9
    <2>2. k = 1 => x1 = d + z1 /\ y1 = s + z1
      BY <1>9
    <2>3. k = -1 => x1 = d - z1 /\ y1 = s - z1
      BY <1>13
    <2> QED BY <1>8, <1>10, <1>12, <1>13, <2>1, <2>2, <2>3, LegCopy
  <1>17. Leg(k, d, s, p4, z2, n)
    BY <1>8, <1>9, <1>10, <1>12, ForwardTailLeg
  <1>18. Leg(k, d, s, p1 \o p2, 0, z1)
    BY <1>14, <1>15, LegConcat
  <1>19. Leg(k, d, s, p1 \o p2 \o p3, 0, z2)
    BY <1>16, <1>18, LegConcat
  <1>20. Leg(k, d, s, p1 \o p2 \o p3 \o p4, 0, n)
    BY <1>17, <1>19, LegConcat
  <1> QED BY <1>11, <1>20

\* A backward move copies the n bytes below d downwards.
LEMMA BackwardLeg ==
  ASSUME NEW k, k = -1, NEW d \in Nat, NEW s \in Nat, NEW n \in Nat
  PROVE  Leg(k, d, s, Backward(d, s, n), 0, n)
  <1>1. PICK t, f : t = TRUE /\ f = FALSE
    OBVIOUS
  <1>2. PICK h : h = Min2(d % FLUSH_ALIGN, n)
    OBVIOUS
  <1>3. h \in Nat /\ h <= n
    <2>1. PICK a : a = d % FLUSH_ALIGN
      OBVIOUS
    <2>2. a \in Nat
      BY <2>1, Sizes, DivMod
    <2> QED BY <2>1, <2>2, <1>2 DEF Min2
  <1>4. PICK c, l : c = (n - h) \div CHUNK_SIZE /\ l = (n - h) % CHUNK_SIZE
    OBVIOUS
  <1>5. PICK m, r : m = l \div MOVNT_SIZE /\ r = l % MOVNT_SIZE
    OBVIOUS
  <1>6. PICK w, b : w = r \div DWORD_SIZE /\ b = r % DWORD_SIZE
    OBVIOUS
  <1>7. PICK cc, mm, ww : cc = c * CHUNK_SIZE /\ mm = m * MOVNT_SIZE /\ ww = w * DWORD_SIZE
    OBVIOUS
  <1>8. /\ c \in Nat /\ m \in Nat /\ w \in Nat /\ b \in Nat /\ cc \in Nat /\ mm \in Nat /\ ww \in Nat
        /\ r \in Nat /\ n = h + cc + mm + r /\ r = ww + b
        /\ CHUNK_SIZE * c = cc /\ MOVNT_SIZE * m = mm /\ DWORD_SIZE * w = ww
    BY <1>3, <1>4, <1>5, <1>6, <1>7, Parts
  <1>9. PICK o1, o2, o3 : o1 = h + cc /\ o2 = o1 + mm /\ o3 = o2 + ww
    OBVIOUS
  <1>10. PICK x0, y0, x1, y1, x2, y2, x3, y3, z :
           /\ x0 = d - h /\ x1 = d - o1 /\ x2 = d - o2 /\ x3 = d - o3 /\ z = d - n
           /\ y0 = s - h /\ y1 = s - o1 /\ y2 = s - o2 /\ y3 = s - o3
    OBVIOUS
  <1>11. PICK q1, q2, q3, q4, q5 :
           /\ q1 = Copy(d, s, 1, h, k, f) /\ q2 = Copy(x0, y0, CHUNK_SIZE, c, k, t)
           /\ q3 = Copy(x1, y1, MOVNT_SIZE, m, k, t) /\ q4 = Copy(x2, y2, DWORD_SIZE, w, k, t)
           /\ q5 = Copy(x3, y3, 1, b, k, f)
    OBVIOUS
  <1>12. PICK p1, p4 : /\ p1 = IF h = 0 THEN << >> ELSE q1 \o Flush(x0, h)
                       /\ p4 = IF r = 0 THEN << >> ELSE q4 \o q5 \o Flush(z, b)
    OBVIOUS
  <1>13. Backward(d, s, n) = p1 \o q2 \o q3 \o p4
    BY ONLY <1>1, <1>2, <1>4, <1>5, <1>6, <1>7, <1>9, <1>10, <1>11, <1>12, k = -1, ZenonT(90) DEF Backward
  <1>14. /\ x0 \in Int /\ x1 \in Int /\ x2 \in Int /\ x3 \in Int /\ z \in Int
         /\ y0 \in Int /\ y1 \in Int /\ y2 \in Int /\ y3 \in Int
         /\ o1 \in Nat /\ o2 \in Nat /\ o3 \in Nat /\ n = o3 + 1 * b /\ n = o2 + r
         /\ d \in Int /\ s \in Int
    BY <1>3, <1>8, <1>9, <1>10
  <1>b. t \in BOOLEAN /\ f \in BOOLEAN
    BY <1>1, Zenon
  <1>n. k \in {1, -1} /\ k # 1 /\ 1 \in Nat \ {0}
    OBVIOUS
  <1>15. /\ k \in {1, -1} /\ t \in BOOLEAN /\ f \in BOOLEAN /\ k # 1 /\ 1 \in Nat \ {0}
         /\ CHUNK_SIZE \in Nat \ {0} /\ MOVNT_SIZE \in Nat \ {0} /\ DWORD_SIZE \in Nat \ {0}
    BY <1>b, <1>n, Sizes, Zenon
  <1>16. Leg(k, d, s, p1, 0, h)
    <2>1. CASE h = 0
      <3>1. p1 = << >>
        BY <2>1, <1>12
      <3> QED BY <2>1, <3>1, LegNone
    <2>2. CASE h # 0
      <3>2. p1 = q1 \o Flush(x0, h)
        BY <2>2, <1>12
      <3>3. 0 \in Nat /\ h = 0 + 1 * h
        BY <1>3
      <3>4. k = 1 => d = d + 0 /\ s = s + 0
        OBVIOUS
      <3>5. k = -1 => d = d - 0 /\ s = s - 0
        OBVIOUS
      <3>6. Leg(k, d, s, q1, 0, h)
        BY <1>3, <1>11, <1>14, <1>15, <3>3, <3>4, <3>5, LegCopy
      <3>7. Leg(k, d, s, Flush(x0, h), h, h)
        BY <1>3, <1>14, LegFlush
      <3> QED BY <3>2, <3>6, <3>7, LegConcat
    <2> QED BY <2>1, <2>2
  <1>17. Leg(k, d, s, q2, h, o1)
    <2>1. o1 = h + CHUNK_SIZE * c
      BY <1>8, <1>9
    <2>2. k = 1 => x0 = d + h /\ y0 = s + h
      BY <1>15
    <2>3. k = -1 => x0 = d - h /\ y0 = s - h
      BY <1>10
    <2> QED BY <1>3, <1>8, <1>11, <1>14, <1>15, <2>1, <2>2, <2>3, LegCopy
  <1>18. Leg(k, d, s, q3, o1, o2)
    <2>1. o2 = o1 + MOVNT_SIZE * m
      BY <1>8, <1>9
    <2>2. k = 1 => x1 = d + o1 /\ y1 = s + o1
      BY <1>15
    <2>3. k = -1 => x1 = d - o1 /\ y1 = s - o1
      BY <1>10
    <2> QED BY <1>8, <1>11, <1>14, <1>15, <2>1, <2>2, <2>3, LegCopy
  <1>19. Leg(k, d, s, p4, o2, n)
    <2>1. CASE r = 0
      <3>1. p4 = << >> /\ n = o2
        BY <2>1, <1>12, <1>14
      <3> QED BY <3>1, <1>14, LegNone
    <2>2. CASE r # 0
      <3>1. Leg(k, d, s, q4, o2, o3)
        <4>1. o3 = o2 + DWORD_SIZE * w
          BY <1>8, <1>9
        <4>2. k = 1 => x2 = d + o2 /\ y2 = s + o2
          BY <1>15
        <4>3. k = -1 => x2 = d - o2 /\ y2 = s - o2
          BY <1>10
        <4> QED BY <1>8, <1>11, <1>14, <1>15, <4>1, <4>2, <4>3, LegCopy
      <3>2. Leg(k, d, s, q5, o3, n)
        <4>2. k = 1 => x3 = d + o3 /\ y3 = s + o3
          BY <1>15
        <4>3. k = -1 => x3 = d - o3 /\ y3 = s - o3
          BY <1>10
        <4> QED BY <1>8, <1>11, <1>14, <1>15, <4>2, <4>3, LegCopy
      <3>3. Leg(k, d, s, Flush(z, b), n, n)
        BY <1>8, <1>14, LegFlush
      <3>4. Leg(k, d, s, q4 \o q5, o2, n)
        BY <3>1, <3>2, LegConcat
      <3>5. Leg(k, d, s, q4 \o q5 \o Flush(z, b), o2, n)
        BY <3>3, <3>4, LegConcat
      <3> QED BY <2>2, <3>5, <1>12
    <2> QED BY <2>1, <2>2
  <1>20. Leg(k, d, s, p1 \o q2, 0, o1)
    BY <1>16, <1>17, LegConcat
  <1>21. Leg(k, d, s, p1 \o q2 \o q3, 0, o2)
    BY <1>18, <1>20, LegConcat
  <1>22. Leg(k, d, s, p1 \o q2 \o q3 \o p4, 0, n)
    BY <1>19, <1>21, LegConcat
  <1> QED BY <1>13, <1>22

\* memset_nodrain_movnt fills its range upwards.
LEMMA MemsetLeg ==
  ASSUME NEW k, k = 0, NEW d \in Nat, NEW s, NEW n \in Nat
  PROVE  Leg(k, d, s, memset_nodrain_movnt(d, n), 0, n)
  <1>1. PICK t, f : t = TRUE /\ f = FALSE
    OBVIOUS
  <1>2. PICK h : h = IF d % FLUSH_ALIGN = 0 THEN 0 ELSE Min2(FLUSH_ALIGN - (d % FLUSH_ALIGN), n)
    OBVIOUS
  <1>3. h \in Nat /\ h <= n
    BY <1>2, HeadLength
  <1>4. PICK c, l : c = (n - h) \div CHUNK_SIZE /\ l = (n - h) % CHUNK_SIZE
    OBVIOUS
  <1>5. PICK m, r : m = l \div MOVNT_SIZE /\ r = l % MOVNT_SIZE
    OBVIOUS
  <1>6. PICK w, b : w = r \div DWORD_SIZE /\ b = r % DWORD_SIZE
    OBVIOUS
  <1>7. PICK cc, mm, ww : cc = c * CHUNK_SIZE /\ mm = m * MOVNT_SIZE /\ ww = w * DWORD_SIZE
    OBVIOUS
  <1>8. /\ b \in Nat /\ cc \in Nat /\ mm \in Nat /\ ww \in Nat /\ r \in Nat
        /\ n = h + cc + mm + r /\ r = ww + b
    BY <1>3, <1>4, <1>5, <1>6, <1>7, Parts
  <1>9. PICK o0, o1, o2, o3 : o0 = d + h /\ o1 = d + h + cc /\ o2 = o1 + mm /\ o3 = o2 + ww
    OBVIOUS
  <1>10. PICK p1, p5 : /\ p1 = IF h = 0 THEN << >> ELSE Set(d, h, f) \o Flush(d, h)
                       /\ p5 = IF b = 0 THEN << >> ELSE Set(o3, b, f) \o Flush(o3, b)
    OBVIOUS
  <1>11. PICK p2, p3, p4 : p2 = Set(o0, cc, t) /\ p3 = Set(o1, mm, t) /\ p4 = Set(o2, ww, t)
    OBVIOUS
  <1>12. memset_nodrain_movnt(d, n) = p1 \o p2 \o p3 \o p4 \o p5
    BY ONLY <1>1, <1>2, <1>4, <1>5, <1>6, <1>7, <1>9, <1>10, <1>11, ZenonT(90) DEF memset_nodrain_movnt
  <1>13. PICK k1, k2, k3 : k1 = h + cc /\ k2 = k1 + mm /\ k3 = k2 + ww
    OBVIOUS
  <1>14. /\ k1 \in Nat /\ k2 \in Nat /\ k3 \in Nat /\ n = k3 + b
         /\ o0 = d + h /\ o1 = d + k1 /\ o2 = d + k2 /\ o3 = d + k3
         /\ d \in Int /\ o0 \in Int /\ o1 \in Int /\ o2 \in Int /\ o3 \in Int
    BY <1>3, <1>8, <1>9, <1>13
  <1>15. t \in BOOLEAN /\ f \in BOOLEAN
    BY <1>1
  <1>16. ASSUME NEW x \in Int, NEW e \in Nat, NEW u \in Nat, NEW y, y = u + e, x = d + u,
                NEW p, p = IF e = 0 THEN << >> ELSE Set(x, e, f) \o Flush(x, e)
         PROVE  Leg(k, d, s, p, u, y)
    <2>1. CASE e = 0
      <3>1. p = << >> /\ y = u
        BY <2>1, <1>16
      <3> QED BY <3>1, LegNone
    <2>2. CASE e # 0
      <3>1. p = Set(x, e, f) \o Flush(x, e)
        BY <2>2, <1>16
      <3>2. Leg(k, d, s, Set(x, e, f), u, y)
        BY <1>14, <1>15, <1>16, LegSet
      <3>3. Leg(k, d, s, Flush(x, e), y, y)
        <4>1. y \in Nat
          BY <1>16
        <4> QED BY <4>1, LegFlush
      <3> QED BY <3>1, <3>2, <3>3, LegConcat
    <2> QED BY <2>1, <2>2
  <1>17. Leg(k, d, s, p1, 0, h)
    <2>1. 0 \in Nat /\ h = 0 + h /\ d = d + 0
      BY <1>3
    <2> QED BY <2>1, <1>3, <1>10, <1>14, <1>16
  <1>18. Leg(k, d, s, p2, h, k1)
    BY <1>3, <1>8, <1>11, <1>13, <1>14, <1>15, LegSet
  <1>19. Leg(k, d, s, p3, k1, k2)
    BY <1>8, <1>11, <1>13, <1>14, <1>15, LegSet
  <1>20. Leg(k, d, s, p4, k2, k3)
    BY <1>8, <1>11, <1>13, <1>14, <1>15, LegSet
  <1>21. Leg(k, d, s, p5, k3, n)
    BY <1>8, <1>10, <1>14, <1>16
  <1>22. Leg(k, d, s, p1 \o p2, 0, k1)
    BY <1>17, <1>18, LegConcat
  <1>23. Leg(k, d, s, p1 \o p2 \o p3, 0, k2)
    BY <1>19, <1>22, LegConcat
  <1>24. Leg(k, d, s, p1 \o p2 \o p3 \o p4, 0, k3)
    BY <1>20, <1>23, LegConcat
  <1>25. Leg(k, d, s, p1 \o p2 \o p3 \o p4 \o p5, 0, n)
    BY <1>21, <1>24, LegConcat
  <1> QED BY <1>12, <1>25

-----------------------------------------------------------------------------
(* What memory holds while a call runs.                                    *)

\* The bytes that are done, and memory when they are; w is what it was.
Done(k, d, x) == IF k = -1 THEN Bytes(d - x, x) ELSE Bytes(d, x)
After(k, d, s, x, w) ==
  [a \in Addr |-> IF a \in Done(k, d, x) THEN (IF k = 0 THEN Pattern ELSE w[s + a - d]) ELSE w[a]]

\* A copy that goes this way does not run into its own source.
Way(k, d, s, n) ==
  /\ k \in {1, -1, 0} /\ d \in Nat /\ s \in Nat /\ n \in Nat
  /\ k = 1 => d + n <= MemSize /\ s + n <= MemSize /\ (d <= s \/ d >= s + n)
  /\ k = -1 => d <= MemSize /\ s <= MemSize /\ n <= d /\ n <= s /\ s <= d

LEMMA AfterNothing ==
  ASSUME NEW k, NEW d \in Int, NEW s, NEW w, w = [a \in Addr |-> w[a]]
  PROVE  After(k, d, s, 0, w) = w
  <1>1. d - 0 = d
    OBVIOUS
  <1>2. Bytes(d, 0) = {}
    BY NoBytes
  <1>3. Done(k, d, 0) = {}
    BY <1>1, <1>2 DEF Done
  <1> QED BY <1>3 DEF After

\* A copying loop does its part.
LEMMA CopyDoes ==
  ASSUME NEW k, NEW d, NEW s, NEW n, NEW w, NEW x \in Nat, NEW y \in Nat, Way(k, d, s, n), x <= y, y <= n,
         mem = After(k, d, s, x, w), RunCopy, Does(k, d, s, Op, x, y)
  PROVE  mem' = After(k, d, s, y, w)
  <1>1. mem' = CopyLoop /\ Op.do = "copy"
    BY Zenon DEF RunCopy
  <1>2. PICK to, from, unit, cnt : Op.to = to /\ Op.from = from /\ Op.unit = unit /\ Op.cnt = cnt
    OBVIOUS
  <1>3. PICK z : z = unit * cnt
    OBVIOUS
  <1>4. /\ k # 0 /\ Op.dir = k /\ unit \in Nat \ {0} /\ cnt \in Nat /\ y = x + z
        /\ k = 1 => to = d + x /\ from = s + x
        /\ k = -1 => to = d - x /\ from = s - x
    BY <1>1, <1>2, <1>3 DEF Does
  <1>5. d \in Nat /\ s \in Nat /\ n \in Nat /\ k \in {1, -1} /\ MemSize \in Nat /\ z \in Nat
    BY <1>3, <1>4, Sizes DEF Way
  <1>6. mem = [a \in Addr |-> mem[a]]
    BY DEF After
  <1>7. CASE k = 1
    <2>1. to = d + x /\ from = s + x /\ Op.dir = 1
      BY <1>4, <1>7
    <2>2. d + n <= MemSize /\ s + n <= MemSize /\ (d <= s \/ d >= s + n)
      BY <1>7 DEF Way
    <2>3. to \in Nat /\ from \in Nat /\ to + z <= MemSize /\ from + z <= MemSize /\ (to <= from \/ to >= from + z)
      BY <1>4, <1>5, <2>1, <2>2
    <2>4. CopyLoop = [a \in Addr |-> IF a \in Bytes(to, z) THEN mem[from + a - to] ELSE mem[a]]
      <3>1. /\ to + unit * cnt <= MemSize /\ from + unit * cnt <= MemSize
            /\ to <= from \/ to >= from + unit * cnt
        BY <1>3, <2>3, Zenon
      <3>2. CopyLoop = [a \in Addr |-> IF a \in Bytes(to, unit * cnt) THEN mem[from + a - to] ELSE mem[a]]
        BY ONLY <1>2, <1>4, <1>6, <2>1, <2>3, <3>1, LoopUp
      <3> QED BY <1>3, <3>2, Zenon
    <2>5. mem = [a \in Addr |-> IF a \in Bytes(d, x) THEN w[s + a - d] ELSE w[a]]
      BY <1>7 DEF After, Done
    <2>6. After(k, d, s, y, w) = [a \in Addr |-> IF a \in Bytes(d, y) THEN w[s + a - d] ELSE w[a]]
      BY <1>7 DEF After, Done
    <2>7. ASSUME NEW a \in Addr
          PROVE  (IF a \in Bytes(to, z) THEN mem[from + a - to] ELSE mem[a])
                   = IF a \in Bytes(d, y) THEN w[s + a - d] ELSE w[a]
      <3>1. a \in 0 .. MemSize - 1
        BY DEF Addr
      <3>2. CASE a \in Bytes(to, z)
        <4>1. d + x <= a /\ a < d + y
          BY <1>4, <1>5, <2>1, <3>1, <3>2 DEF Bytes
        <4>2. PICK b : b = s + a - d
          OBVIOUS
        <4>3. from + a - to = b /\ b \in Int
          BY <1>5, <2>1, <3>1, <4>2
        <4>4. 0 <= b /\ b < s + n
          BY <1>5, <3>1, <4>1, <4>2
        <4>5. b \in Addr
          BY <1>5, <2>2, <4>3, <4>4 DEF Addr
        <4>6. b \notin Bytes(d, x)
          BY <1>5, <2>2, <3>1, <4>1, <4>2, <4>3, <4>4 DEF Bytes
        <4>7. mem[b] = w[b]
          BY <2>5, <4>5, <4>6
        <4>8. a \in Bytes(d, y)
          BY <1>5, <3>1, <4>1 DEF Bytes
        <4> QED BY <3>2, <4>2, <4>3, <4>7, <4>8
      <3>3. CASE a \notin Bytes(to, z)
        <4>1. a \in Bytes(d, x) <=> a \in Bytes(d, y)
          BY <1>4, <1>5, <2>1, <3>1, <3>3 DEF Bytes
        <4> QED BY <2>5, <3>3, <4>1
      <3> QED BY <3>2, <3>3
    <2>8. PICK v, u : /\ v = [a \in Addr |-> IF a \in Bytes(to, z) THEN mem[from + a - to] ELSE mem[a]]
                      /\ u = [a \in Addr |-> IF a \in Bytes(d, y) THEN w[s + a - d] ELSE w[a]]
      OBVIOUS
    <2>9. \A a \in Addr : v[a] = u[a]
      BY <2>7, <2>8
    <2>10. v = u
      BY <2>8, <2>9
    <2> QED BY <1>1, <2>4, <2>6, <2>8, <2>10
  <1>8. CASE k = -1
    <2>1. to = d - x /\ from = s - x /\ Op.dir = -1
      BY <1>4, <1>8
    <2>2. d <= MemSize /\ s <= MemSize /\ n <= d /\ n <= s /\ s <= d
      BY <1>8 DEF Way
    <2>3. to \in Nat /\ from \in Nat /\ to <= MemSize /\ from <= MemSize /\ z <= to /\ z <= from /\ from <= to
      BY <1>4, <1>5, <2>1, <2>2
    <2>4. CopyLoop = [a \in Addr |-> IF a \in Bytes(to - z, z) THEN mem[from + a - to] ELSE mem[a]]
      <3>1. unit * cnt <= to /\ unit * cnt <= from
        BY <1>3, <2>3, Zenon
      <3>2. CopyLoop = [a \in Addr |-> IF a \in Bytes(to - unit * cnt, unit * cnt) THEN mem[from + a - to] ELSE mem[a]]
        <4>1. unit \in Nat \ {0} /\ cnt \in Nat /\ Op.dir = -1
          BY <1>4, <2>1
        <4> QED BY ONLY <1>2, <4>1, <1>6, <2>3, <3>1, LoopDown
      <3> QED BY <1>3, <3>2, Zenon
    <2>5. mem = [a \in Addr |-> IF a \in Bytes(d - x, x) THEN w[s + a - d] ELSE w[a]]
      BY <1>8 DEF After, Done
    <2>6. After(k, d, s, y, w) = [a \in Addr |-> IF a \in Bytes(d - y, y) THEN w[s + a - d] ELSE w[a]]
      BY <1>8 DEF After, Done
    <2>7. ASSUME NEW a \in Addr
          PROVE  (IF a \in Bytes(to - z, z) THEN mem[from + a - to] ELSE mem[a])
                   = IF a \in Bytes(d - y, y) THEN w[s + a - d] ELSE w[a]
      <3>1. a \in 0 .. MemSize - 1
        BY DEF Addr
      <3>2. CASE a \in Bytes(to - z, z)
        <4>1. d - y <= a /\ a < d - x
          BY <1>4, <1>5, <2>1, <3>1, <3>2 DEF Bytes
        <4>2. PICK b : b = s + a - d
          OBVIOUS
        <4>3. from + a - to = b /\ b \in Int
          BY <1>5, <2>1, <3>1, <4>2
        <4>4. 0 <= b /\ b <= a
          BY <1>5, <2>2, <3>1, <4>1, <4>2
        <4>5. b \in Addr
          BY <1>5, <3>1, <4>3, <4>4 DEF Addr
        <4>6. b \notin Bytes(d - x, x)
          BY <1>5, <3>1, <4>1, <4>3, <4>4 DEF Bytes
        <4>7. mem[b] = w[b]
          BY <2>5, <4>5, <4>6
        <4>8. a \in Bytes(d - y, y)
          BY <1>5, <3>1, <4>1 DEF Bytes
        <4> QED BY <3>2, <4>2, <4>3, <4>7, <4>8
      <3>3. CASE a \notin Bytes(to - z, z)
        <4>1. a \in Bytes(d - x, x) <=> a \in Bytes(d - y, y)
          BY <1>4, <1>5, <2>1, <3>1, <3>3 DEF Bytes
        <4> QED BY <2>5, <3>3, <4>1
      <3> QED BY <3>2, <3>3
    <2>8. PICK v, u : /\ v = [a \in Addr |-> IF a \in Bytes(to - z, z) THEN mem[from + a - to] ELSE mem[a]]
                      /\ u = [a \in Addr |-> IF a \in Bytes(d - y, y) THEN w[s + a - d] ELSE w[a]]
      OBVIOUS
    <2>9. \A a \in Addr : v[a] = u[a]
      BY <2>7, <2>8
    <2>10. v = u
      BY <2>8, <2>9
    <2> QED BY <1>1, <2>4, <2>6, <2>8, <2>10
  <1> QED BY <1>5, <1>7, <1>8

\* A setting loop does.
LEMMA SetDoes ==
  ASSUME NEW k, NEW d, NEW s, NEW n, NEW w, NEW x \in Nat, NEW y \in Nat, Way(k, d, s, n), x <= y, y <= n,
         mem = After(k, d, s, x, w), RunSet, Does(k, d, s, Op, x, y)
  PROVE  mem' = After(k, d, s, y, w)
  <1>1. Op.do = "set" /\ mem' = [a \in Addr |-> IF a \in Bytes(Op.to, Op.len) THEN Pattern ELSE mem[a]]
    BY Zenon DEF RunSet
  <1>2. PICK to, z : Op.to = to /\ Op.len = z
    OBVIOUS
  <1>3. k = 0 /\ to = d + x /\ z \in Nat /\ y = x + z /\ d \in Nat
    BY <1>1, <1>2 DEF Does, Way
  <1>4. mem = [a \in Addr |-> IF a \in Bytes(d, x) THEN Pattern ELSE w[a]]
    BY <1>3 DEF After, Done
  <1>5. After(k, d, s, y, w) = [a \in Addr |-> IF a \in Bytes(d, y) THEN Pattern ELSE w[a]]
    BY <1>3 DEF After, Done
  <1>6. ASSUME NEW a \in Addr
        PROVE  a \in Bytes(d, y) <=> a \in Bytes(to, z) \/ a \in Bytes(d, x)
    BY <1>3, Sizes DEF Bytes, Addr
  <1>7. \A a \in Addr : (IF a \in Bytes(to, z) THEN Pattern ELSE mem[a]) = IF a \in Bytes(d, y) THEN Pattern ELSE w[a]
    BY <1>4, <1>6
  <1>8. mem' = [a \in Addr |-> IF a \in Bytes(to, z) THEN Pattern ELSE mem[a]]
    BY <1>1, <1>2
  <1> QED BY <1>5, <1>7, <1>8

\* What the call has done so far, and what is left to do.
Under(k, d, s, x) ==
  /\ Way(k, d, s, call.len) /\ Leg(k, d, s, prog, x, call.len)
  /\ mem = After(k, d, s, x, call.was)
\* Where the copy or the fill starts, and which way it goes.
Fits(k, d, s) ==
  \/ call.op = "memset" /\ k = 0 /\ d = call.dest
  \/ call.op = "memmove" /\ k = 1 /\ d = call.dest /\ s = call.src
  \/ /\ call.op = "memmove" /\ k = -1 /\ call.dest \in Nat /\ call.src \in Nat
     /\ d = call.dest + call.len /\ s = call.src + call.len

MemInv ==
  /\ call.op \in {"none", "store"} => prog = << >> /\ mem = [a \in Addr |-> mem[a]]
  /\ call.op \in {"memmove", "memset"} => \E k, d, s, x : Fits(k, d, s) /\ Under(k, d, s, x)

LEMMA UnderStep ==
  ASSUME NEW k, NEW d, NEW s, NEW x, Under(k, d, s, x), LoopStep
  PROVE  \E y : Under(k, d, s, y)'
  <1>1. PICK n, w, p, q : n = call.len /\ w = call.was /\ p = prog /\ q = Tail(prog)
    OBVIOUS
  <1>2. Way(k, d, s, n) /\ p \in Seq(Steps) /\ Chain(k, d, s, p, x, n) /\ mem = After(k, d, s, x, w)
    BY <1>1 DEF Under, Leg
  <1>3. prog # << >> /\ Advance
    BY LoopAdvances
  <1>4. prog' = q /\ call' = call
    BY <1>1, <1>3 DEF Advance
  <1>5. PICK y \in Nat : x <= y /\ y <= n /\ Does(k, d, s, Head(p), x, y) /\ Chain(k, d, s, Tail(p), y, n)
    BY <1>1, <1>2, <1>3, ChainHead
  <1>6. Does(k, d, s, Op, x, y) /\ Chain(k, d, s, q, y, n)
    BY <1>1, <1>5 DEF Op
  <1>7. x \in Nat
    <2>1. Len(p) \in Nat
      BY <1>2, LenProperties
    <2> QED BY <2>1, <1>2, ChainTyped
  <1>8. mem' = After(k, d, s, y, w)
    <2>1. CASE RunCopy
      BY <2>1, <1>2, <1>5, <1>6, <1>7, CopyDoes
    <2>2. CASE RunSet
      BY <2>2, <1>2, <1>5, <1>6, <1>7, SetDoes
    <2>3. CASE ~RunCopy /\ ~RunSet
      <3>1. mem' = mem /\ Op.do \notin {"copy", "set"}
        <4>1. CASE RunFlush
          BY <4>1 DEF RunFlush
        <4>2. CASE predrain_fence_sfence
          BY <4>2 DEF predrain_fence_sfence
        <4>3. CASE drain_pcommit
          BY <4>3 DEF drain_pcommit
        <4>4. CASE RunMsync
          BY <4>4 DEF RunMsync
        <4>5. CASE RunReturn
          BY <4>5 DEF RunReturn
        <4> QED BY <2>3, <4>1, <4>2, <4>3, <4>4, <4>5 DEF LoopStep, RunLoop
      <3>2. y = x
        BY <3>1, <1>6 DEF Does
      <3> QED BY <3>1, <3>2, <1>2
    <2> QED BY <2>1, <2>2, <2>3
  <1>9. q \in Seq(Steps)
    BY <1>1, <1>2, <1>3, HeadTailProperties
  <1>10. call'.len = n /\ call'.was = w
    BY <1>1, <1>4
  <1>11. Way(k, d, s, n)' /\ Leg(k, d, s, q, y, n)' /\ After(k, d, s, y, w)' = After(k, d, s, y, w)
    <2>1. Leg(k, d, s, q, y, n)
      BY <1>6, <1>9 DEF Leg
    <2>2. After(k, d, s, y, w)' = After(k, d, s, y, w)
      BY DEF After, Done, Bytes, Addr
    <2>3. Leg(k, d, s, q, y, n)' <=> Leg(k, d, s, q, y, n)
      BY Zenon DEF Leg, Steps, OpSet, Ret, Chain, Does
    <2>4. Way(k, d, s, n)' <=> Way(k, d, s, n)
      BY Zenon DEF Way
    <2> QED BY <1>2, <2>1, <2>2, <2>3, <2>4
  <1> QED BY <1>4, <1>8, <1>10, <1>11 DEF Under

\* The unsigned difference tells the copies that may go upwards.
LEMMA Forwards ==
  ASSUME NEW d \in Nat, NEW s \in Nat, NEW n \in Nat, d + n <= MemSize, s + n <= MemSize
  PROVE  CopyForward(d, s, n) <=> (d < s \/ d >= s + n)
  <1>1. PICK A, e, q, r : A = AddrSpace /\ e = d - s /\ q = e \div A /\ r = e % A
    OBVIOUS
  <1>2. A \in Nat \ {0} /\ MemSize \in Nat /\ A > 2 * MemSize /\ e \in Int
    BY <1>1, PmemAssumption
  <1>3. q \in Int /\ r \in 0 .. (A - 1) /\ e = q * A + r
    BY <1>1, <1>2, ModIs
  <1>4. -A < e /\ e < A
    BY <1>1, <1>2
  <1>5. q * A \in Int /\ (-1) * A = -A /\ 0 * A = 0 /\ 1 * A = A
    BY <1>2, <1>3
  <1>6. q = 0 \/ q = -1
    <2>1. q < 1
      <3>1. q * A < 1 * A
        BY <1>2, <1>3, <1>4, <1>5
      <3> QED BY <3>1, <1>2, <1>3, TimesMono
    <2>2. -2 < q
      <3>1. (-2) * A < q * A
        <4>1. (-2) * A = -A - A
          BY <1>2
        <4> QED BY <4>1, <1>2, <1>3, <1>4, <1>5
      <3>2. -2 \in Int
        OBVIOUS
      <3> QED BY <3>1, <3>2, <1>2, <1>3, TimesMono
    <2> QED BY <2>1, <2>2, <1>3
  <1>7. r >= n <=> (d < s \/ d >= s + n)
    <2>1. CASE q = 0
      BY <2>1, <1>1, <1>3, <1>5
    <2>2. CASE q = -1
      BY <2>2, <1>1, <1>2, <1>3, <1>5
    <2> QED BY <1>6, <2>1, <2>2
  <1> QED BY <1>1, <1>7 DEF CopyForward

\* The end of a call stores nothing.
LEMMA EndStores ==
  ASSUME NEW k, NEW d, NEW s, NEW n \in Nat
  PROVE  Leg(k, d, s, Drain, n, n) /\ Leg(k, d, s, <<Ret>>, n, n)
  <1>1. ASSUME NEW e, NEW o, o = [do |-> e], e \in {"sfence", "pcommit", "return"}
        PROVE  Leg(k, d, s, <<o>>, n, n)
    <2>1. o \in Steps /\ o.do \notin {"copy", "set"}
      BY <1>1 DEF Steps, Ret
    <2>2. Does(k, d, s, o, n, n) /\ n <= n
      BY <2>1 DEF Does
    <2> QED BY <2>1, <2>2, LegOne
  <1>2. Leg(k, d, s, <<Ret>>, n, n)
    <2>1. PICK e, o : e = "return" /\ o = [do |-> e]
      OBVIOUS
    <2>2. Leg(k, d, s, <<o>>, n, n)
      BY <2>1, <1>1
    <2> QED BY <2>1, <2>2 DEF Ret
  <1>3. PICK f, c : /\ f = IF func.predrain_fence THEN <<[do |-> "sfence"]>> ELSE << >>
                    /\ c = IF func.pcommit THEN <<[do |-> "pcommit"]>> ELSE << >>
    OBVIOUS
  <1>4. Leg(k, d, s, f, n, n)
    <2>1. CASE f = << >>
      BY <2>1, LegNone
    <2>2. CASE f = <<[do |-> "sfence"]>>
      <3>1. PICK e, o : e = "sfence" /\ o = [do |-> e]
        OBVIOUS
      <3>2. Leg(k, d, s, <<o>>, n, n)
        BY <3>1, <1>1
      <3> QED BY <2>2, <3>1, <3>2
    <2> QED BY <2>1, <2>2, <1>3, Zenon
  <1>5. Leg(k, d, s, c, n, n)
    <2>1. CASE c = << >>
      BY <2>1, LegNone
    <2>2. CASE c = <<[do |-> "pcommit"]>>
      <3>1. PICK e, o : e = "pcommit" /\ o = [do |-> e]
        OBVIOUS
      <3>2. Leg(k, d, s, <<o>>, n, n)
        BY <3>1, <1>1
      <3> QED BY <2>2, <3>1, <3>2
    <2> QED BY <2>1, <2>2, <1>3, Zenon
  <1>6. Drain = f \o c
    BY <1>3, Zenon DEF Drain
  <1> QED BY <1>2, <1>4, <1>5, <1>6, LegConcat

\* A call starts with the copy or the fill that it stands for.
LEMMA BeginUnder ==
  ASSUME MemInv, NEW c, NEW q, Begin(c, q \o Drain), c.op \in {"memmove", "memset"}, c.was = mem,
         NEW n \in Nat, c.len = n,
         NEW k, NEW d, NEW s, NEW x \in Nat, Way(k, d, s, n), Leg(k, d, s, q, x, n),
         x = 0 \/ (d = s /\ k = 1), Fits(k, d, s)'
  PROVE  MemInv'
  <1>1. /\ call.op \in {"none", "store"} /\ call' = c
        /\ prog' = (q \o Drain) \o <<Ret>> /\ mem' = mem
    BY DEF Begin, Ret
  <1>2. mem = [a \in Addr |-> mem[a]]
    BY <1>1 DEF MemInv
  <1>3. Leg(k, d, s, (q \o Drain) \o <<Ret>>, x, n)
    BY EndStores, LegConcat
  <1>4. mem = After(k, d, s, x, mem)
    <2>0. d \in Nat
      BY DEF Way
    <2>1. CASE x = 0
      BY <2>0, <2>1, <1>2, AfterNothing
    <2>2. CASE d = s /\ k = 1
      <3>1. \A a \in Addr : d + a - d = a
        BY <2>0, Sizes DEF Addr
      <3> QED BY <2>2, <3>1, <1>2 DEF After
    <2> QED BY <2>1, <2>2
  <1>5. PICK p : p = (q \o Drain) \o <<Ret>>
    OBVIOUS
  <1>6. Way(k, d, s, n)' /\ Leg(k, d, s, p, x, n)'
    <2>1. Leg(k, d, s, p, x, n)
      BY <1>3, <1>5
    <2>3. Leg(k, d, s, p, x, n)' <=> Leg(k, d, s, p, x, n)
      BY Zenon DEF Leg, Steps, OpSet, Ret, Chain, Does
    <2>4. Way(k, d, s, n)' <=> Way(k, d, s, n)
      BY Zenon DEF Way
    <2> QED BY <2>1, <2>3, <2>4
  <1>7. After(k, d, s, x, mem)' = After(k, d, s, x, mem)
    BY <1>1 DEF After, Done, Bytes, Addr
  <1>8. prog' = p /\ call'.len = n /\ call'.was = mem' /\ mem' = After(k, d, s, x, mem)'
    BY <1>1, <1>4, <1>5, <1>7
  <1>9. Under(k, d, s, x)'
    BY <1>6, <1>8 DEF Under
  <1>10. call'.op \notin {"none", "store"}
    BY <1>1
  <1> QED BY <1>9, <1>10 DEF MemInv

LEMMA MemsetSets ==
  ASSUME MemInv, NEW d \in Dests, NEW n \in Lens, pmem_memset_persist(d, n)
  PROVE  MemInv'
  <1>1. d \in Nat /\ n \in Nat /\ d \in Int
    BY PmemAssumption
  <1>2. PICK c, q : /\ c = [op |-> "memset", dest |-> d, len |-> n, was |-> mem]
                    /\ q = pmem_memset_nodrain(d, n) /\ Begin(c, q \o Drain)
    BY Zenon DEF pmem_memset_persist
  <1>3. c.op = "memset" /\ c.dest = d /\ c.len = n /\ c.was = mem
    BY <1>2
  <1>4. c.op \in {"memmove", "memset"}
    BY <1>3
  <1>5. PICK k, x : k = 0 /\ x = 0
    OBVIOUS
  <1>6. Leg(k, d, d, q, x, n)
    <2>1. CASE func.movnt
      <3>1. q = memset_nodrain_movnt(d, n)
        BY <2>1, <1>2, Zenon DEF pmem_memset_nodrain
      <3> QED BY <3>1, <1>1, <1>5, MemsetLeg
    <2>2. CASE ~func.movnt
      <3>1. PICK f : f = FALSE
        OBVIOUS
      <3>2. q = Set(d, n, f) \o Flush(d, n)
        BY <1>2, <2>2, <3>1, Zenon DEF pmem_memset_nodrain, memset_nodrain_normal
      <3>3. f \in BOOLEAN
        BY <3>1, Zenon
      <3>4. x \in Nat /\ n = x + n /\ d = d + x
        BY <1>1, <1>5
      <3>5. Leg(k, d, d, Set(d, n, f), x, n)
        BY <1>1, <1>5, <3>3, <3>4, LegSet
      <3>6. Leg(k, d, d, Flush(d, n), n, n)
        BY <1>1, LegFlush
      <3> QED BY <3>2, <3>5, <3>6, LegConcat
    <2> QED BY <2>1, <2>2
  <1>7. Way(k, d, d, n) /\ x \in Nat /\ x = 0
    BY <1>1, <1>5 DEF Way
  <1>8. Fits(k, d, d)'
    <2>1. call' = c
      BY <1>2 DEF Begin
    <2> QED BY <2>1, <1>3, <1>5 DEF Fits
  <1> QED BY <1>1, <1>2, <1>3, <1>4, <1>6, <1>7, <1>8, BeginUnder

LEMMA MemmoveMoves ==
  ASSUME MemInv, NEW d \in Dests, NEW s \in Srcs, NEW n \in Lens, pmem_memmove_persist(d, s, n)
  PROVE  MemInv'
  <1>1. d \in Nat /\ s \in Nat /\ n \in Nat /\ d + n <= MemSize /\ s + n <= MemSize
    BY PmemAssumption, RangesMapped
  <1>2. PICK c, q : /\ c = [op |-> "memmove", dest |-> d, src |-> s, len |-> n, was |-> mem]
                    /\ q = pmem_memmove_nodrain(d, s, n) /\ Begin(c, q \o Drain)
    BY Zenon DEF pmem_memmove_persist
  <1>3. c.op = "memmove" /\ c.dest = d /\ c.src = s /\ c.len = n /\ c.was = mem
    BY <1>2
  <1>4. c.op \in {"memmove", "memset"} /\ call' = c
    BY <1>2, <1>3 DEF Begin
  <1>5. PICK u, v, e, g, x : u = 1 /\ v = -1 /\ e = d + n /\ g = s + n /\ x = 0
    OBVIOUS
  <1>6. e \in Nat /\ g \in Nat /\ x \in Nat /\ x = 0
    BY <1>1, <1>5
  <1>7. Fits(u, d, s)' /\ Fits(v, e, g)'
    BY <1>1, <1>3, <1>4, <1>5 DEF Fits
  <1>8. (d <= s \/ d >= s + n) => Way(u, d, s, n)
    BY <1>1, <1>5 DEF Way
  <1>9. s <= d => Way(v, e, g, n)
    BY <1>1, <1>5 DEF Way
  <1>10. ASSUME d <= s \/ d >= s + n, Leg(u, d, s, q, x, n) PROVE MemInv'
    BY <1>1, <1>2, <1>3, <1>4, <1>6, <1>7, <1>8, <1>10, BeginUnder
  <1>11. ASSUME s <= d, Leg(v, e, g, q, x, n) PROVE MemInv'
    BY <1>1, <1>2, <1>3, <1>4, <1>6, <1>7, <1>9, <1>11, BeginUnder
  <1>12. CASE func.movnt
    <2>1. q = memmove_nodrain_movnt(d, s, n)
      BY <1>2, <1>12, Zenon DEF pmem_memmove_nodrain
    <2>2. CASE s = d
      <3>1. q = << >>
        BY <2>1, <2>2 DEF memmove_nodrain_movnt
      <3>2. Leg(u, d, s, q, n, n) /\ d = s /\ u = 1 /\ Way(u, d, s, n)
        BY <1>1, <1>5, <1>8, <2>2, <3>1, LegNone
      <3> QED BY <1>1, <1>2, <1>3, <1>4, <1>7, <3>2, BeginUnder
    <2>3. CASE s # d /\ n = 0
      <3>1. q = << >>
        BY <2>1, <2>3 DEF memmove_nodrain_movnt
      <3>2. Leg(u, d, s, q, x, n)
        BY <1>5, <1>6, <2>3, <3>1, LegNone
      <3> QED BY <1>1, <1>10, <2>3, <3>2
    <2>4. CASE s # d /\ n # 0 /\ CopyForward(d, s, n)
      <3>1. q = Forward(d, s, n)
        BY <2>1, <2>4 DEF memmove_nodrain_movnt
      <3>2. Leg(u, d, s, q, x, n)
        BY <1>1, <1>5, <3>1, ForwardLeg
      <3>3. d < s \/ d >= s + n
        BY <1>1, <2>4, Forwards
      <3> QED BY <1>1, <1>10, <3>2, <3>3
    <2>5. CASE s # d /\ n # 0 /\ ~CopyForward(d, s, n)
      <3>1. q = Backward(e, g, n)
        BY <2>1, <2>5, <1>5 DEF memmove_nodrain_movnt
      <3>2. Leg(v, e, g, q, x, n)
        BY <1>1, <1>5, <1>6, <3>1, BackwardLeg
      <3>3. ~ (d < s \/ d >= s + n)
        BY <1>1, <2>5, Forwards
      <3> QED BY <1>1, <1>11, <3>2, <3>3
    <2> QED BY <2>2, <2>3, <2>4, <2>5
  <1>13. CASE ~func.movnt
    <2>1. PICK f : f = FALSE
      OBVIOUS
    <2>2. PICK r : r = IF d <= s THEN Copy(d, s, 1, n, u, f) ELSE Copy(e, g, 1, n, v, f)
      OBVIOUS
    <2>3. q = r \o Flush(d, n)
      BY ONLY <1>2, <1>5, <1>13, <2>1, <2>2, Zenon DEF pmem_memmove_nodrain, memmove_nodrain_normal
    <2>4. f \in BOOLEAN
      BY <2>1, Zenon
    <2>5. /\ d \in Int /\ s \in Int /\ e \in Int /\ g \in Int /\ n = x + 1 * n /\ 1 \in Nat \ {0}
          /\ u \in {1, -1} /\ v \in {1, -1}
      BY <1>1, <1>5
    <2>6. CASE d <= s
      <3>1. r = Copy(d, s, 1, n, u, f)
        BY <2>2, <2>6
      <3>2. u = 1 => d = d + x /\ s = s + x
        BY <1>1, <1>5
      <3>3. u = -1 => d = d - x /\ s = s - x
        BY <1>5
      <3>4. Leg(u, d, s, r, x, n)
        BY <1>1, <1>6, <2>4, <2>5, <3>1, <3>2, <3>3, LegCopy
      <3>5. Leg(u, d, s, Flush(d, n), n, n)
        BY <1>1, <2>5, LegFlush
      <3>6. Leg(u, d, s, q, x, n)
        BY <2>3, <3>4, <3>5, LegConcat
      <3> QED BY <1>10, <2>6, <3>6
    <2>7. CASE ~ (d <= s)
      <3>1. r = Copy(e, g, 1, n, v, f)
        BY <2>2, <2>7
      <3>2. v = 1 => e = e + x /\ g = g + x
        BY <1>5
      <3>3. v = -1 => e = e - x /\ g = g - x
        BY <1>5, <1>6
      <3>4. Leg(v, e, g, r, x, n)
        BY <1>1, <1>6, <2>4, <2>5, <3>1, <3>2, <3>3, LegCopy
      <3>5. Leg(v, e, g, Flush(d, n), n, n)
        BY <1>1, <2>5, LegFlush
      <3>6. Leg(v, e, g, q, x, n)
        BY <2>3, <3>4, <3>5, LegConcat
      <3>7. s <= d
        BY <1>1, <2>7
      <3> QED BY <1>11, <3>6, <3>7
    <2> QED BY <2>6, <2>7
  <1> QED BY <1>12, <1>13

LEMMA StillMemInv ==
  ASSUME MemInv, mem' = mem, call' = call, prog' = prog
  PROVE  MemInv'
  <1>1. ASSUME NEW k, NEW d, NEW s, NEW x, Fits(k, d, s), Under(k, d, s, x)
        PROVE  Fits(k, d, s)' /\ Under(k, d, s, x)'
    <2>1. PICK n, w : n = call.len /\ w = call.was
      OBVIOUS
    <2>2. Way(k, d, s, n) /\ Leg(k, d, s, prog, x, n) /\ mem = After(k, d, s, x, w)
      BY <1>1, <2>1 DEF Under
    <2>3. Leg(k, d, s, prog, x, n)'
      <3>1. PICK p : p = prog
        OBVIOUS
      <3>2. Leg(k, d, s, p, x, n)' <=> Leg(k, d, s, p, x, n)
        BY Zenon DEF Leg, Steps, OpSet, Ret, Chain, Does
      <3> QED BY <2>2, <3>1, <3>2
    <2>4. Way(k, d, s, n)' /\ After(k, d, s, x, w)' = After(k, d, s, x, w)
      BY <2>2 DEF Way, After, Done, Bytes, Addr
    <2>5. Under(k, d, s, x)'
      BY <2>1, <2>2, <2>3, <2>4 DEF Under
    <2>6. Fits(k, d, s)'
      BY <1>1 DEF Fits
    <2> QED BY <2>5, <2>6
  <1>2. Addr' = Addr
    BY DEF Addr
  <1> QED BY <1>1, <1>2, Zenon DEF MemInv

LEMMA StepMemInv ==
  ASSUME MemInv, [PmemNext]_pmem_vars
  PROVE  MemInv'
  <1>1. CASE pmem_init
    <2>1. mem' = mem /\ call' = call /\ prog' = prog
      BY <1>1, Zenon DEF pmem_init
    <2> QED BY <2>1, StillMemInv
  <1>2. CASE AppStore
    <2>1. call.op = "none" /\ call'.op = "store" /\ mem' = mem /\ prog' = prog
      BY <1>2 DEF AppStore, NoCall
    <2> QED BY <2>1 DEF MemInv, Addr
  <1>3. ASSUME NEW d \in Dests, NEW n \in Lens, pmem_persist(d, n) \/ pmem_msync(d, n)
        PROVE  MemInv'
    <2>1. call'.op \in {"persist", "msync"}
      BY <1>3 DEF pmem_persist, pmem_msync, Begin
    <2> QED BY <2>1 DEF MemInv
  <1>4. CASE LoopStep
    <2>1. prog # << >> /\ Advance
      BY <1>4, LoopAdvances
    <2>2. call' = call
      BY <2>1 DEF Advance
    <2>3. call.op \notin {"none", "store"}
      BY <2>1 DEF MemInv
    <2>4. ASSUME call.op \in {"memmove", "memset"}
          PROVE  \E k, d, s, x : Fits(k, d, s)' /\ Under(k, d, s, x)'
      <3>1. PICK k, d, s, x : Fits(k, d, s) /\ Under(k, d, s, x)
        BY <2>4 DEF MemInv
      <3>2. PICK y : Under(k, d, s, y)'
        BY <1>4, <3>1, UnderStep
      <3>3. Fits(k, d, s)'
        BY <2>2, <3>1 DEF Fits
      <3> QED BY <3>2, <3>3
    <2> QED BY <2>2, <2>3, <2>4 DEF MemInv
  <1>5. CASE UNCHANGED pmem_vars
    <2>1. mem' = mem /\ call' = call /\ prog' = prog
      BY <1>5 DEF pmem_vars
    <2> QED BY <2>1, StillMemInv
  <1> QED BY <1>1, <1>2, <1>3, <1>4, <1>5, MemsetSets, MemmoveMoves, Zenon DEF PmemNext, LoopStep, RunLoop

LEMMA MemInvImplies ==
  ASSUME MemInv
  PROVE  RangeStored
  <1>1. ASSUME prog = << >>, NEW k, NEW d, NEW s, NEW x, Under(k, d, s, x)
        PROVE  x = call.len /\ mem = After(k, d, s, call.len, call.was) /\ Way(k, d, s, call.len)
    <2>1. Chain(k, d, s, prog, x, call.len) /\ Len(prog) = 0 /\ 0 + 1 = 1
      BY <1>1 DEF Under, Leg
    <2>2. x = call.len
      BY <2>1 DEF Chain
    <2> QED BY <1>1, <2>2 DEF Under
  <1>2. ASSUME Returned("memset"), NEW a \in Addr
        PROVE  mem[a] = IF a \in Bytes(call.dest, call.len) THEN Pattern ELSE call.was[a]
    <2>1. prog = << >> /\ call.op = "memset"
      BY <1>2 DEF Returned
    <2>2. PICK k, d, s, x : Fits(k, d, s) /\ Under(k, d, s, x)
      BY <2>1 DEF MemInv
    <2>3. k = 0 /\ d = call.dest
      BY <2>1, <2>2 DEF Fits
    <2>4. mem = After(k, d, s, call.len, call.was)
      BY <1>1, <2>1, <2>2
    <2> QED BY <2>3, <2>4 DEF After, Done
  <1>3. ASSUME Returned("memmove"), NEW a \in Addr
        PROVE  mem[a] = IF a \in Bytes(call.dest, call.len)
                          THEN call.was[call.src + a - call.dest] ELSE call.was[a]
    <2>1. prog = << >> /\ call.op = "memmove"
      BY <1>3 DEF Returned
    <2>2. PICK k, d, s, x : Fits(k, d, s) /\ Under(k, d, s, x)
      BY <2>1 DEF MemInv
    <2>3. PICK n, w : n = call.len /\ w = call.was
      OBVIOUS
    <2>4. mem = After(k, d, s, n, w) /\ Way(k, d, s, n)
      BY <1>1, <2>1, <2>2, <2>3
    <2>5. CASE k = 1
      <3>1. d = call.dest /\ s = call.src
        BY <2>1, <2>2, <2>5 DEF Fits
      <3> QED BY <2>3, <2>4, <2>5, <3>1 DEF After, Done
    <2>6. CASE k = -1
      <3>1. PICK e, g : e = call.dest /\ g = call.src
        OBVIOUS
      <3>2. d = e + n /\ s = g + n /\ e \in Nat /\ g \in Nat /\ n \in Nat
        BY <2>1, <2>2, <2>3, <2>4, <2>6, <3>1 DEF Fits, Way
      <3>3. d - n = e /\ s + a - d = g + a - e
        BY <3>2, Sizes DEF Addr
      <3>4. mem[a] = IF a \in Bytes(e, n) THEN w[g + a - e] ELSE w[a]
        BY <2>4, <2>6, <3>3 DEF After, Done
      <3> QED BY <2>3, <3>1, <3>4
    <2> QED BY <2>1, <2>2, <2>5, <2>6 DEF Fits
  <1> QED BY <1>2, <1>3 DEF RangeStored

\* RangeStored holds of every behaviour, whatever the sizes of cache lines and
\* streaming loops and however source and destination overlap: a move copies
\* what its source held when it was called, a set fills its range, and neither
\* touches anything else.
THEOREM RangesStored == PmemSpec => []RangeStored
  <1>1. PmemInit => MemInv
    <2>1. ASSUME PmemInit PROVE MemInv
      <3>1. call.op = "none" /\ prog = << >> /\ mem = [a \in Addr |-> a]
        BY <2>1 DEF PmemInit, NoCall
      <3> QED BY <3>1 DEF MemInv
    <2> QED BY <2>1
  <1>2. MemInv /\ [PmemNext]_pmem_vars => MemInv'
    BY StepMemInv
  <1>3. MemInv => RangeStored
    BY MemInvImplies
  <1> QED BY <1>1, <1>2, <1>3, PTL DEF PmemSpec
=============================================================================
