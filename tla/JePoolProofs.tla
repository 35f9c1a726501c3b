---------------------------- MODULE JePoolProofs ----------------------------
(***************************************************************************)
(* Proofs about the chunk layer of a libvmem pool: no chunk is ever handed *)
(* to two owners or forgotten, no extent node is leaked or used twice,     *)
(* memory that is taken for zero is zero, and je_pool_check finds nothing  *)
(* wrong.                                                                  *)
(*                                                                         *)
(* The theorems are about pools that nobody extends, which are all that    *)
(* libvmem makes: vmem.c never calls je_pool_extend.                       *)
(***************************************************************************)
EXTENDS JePool, FiniteSetTheorems, SequenceTheorems, TLAPS

\* No thread calls je_pool_extend.
NeverExtended == \A t \in Threads : "extend" \notin Ops[t]

Fields == {"pc", "k", "n", "al", "zero", "r", "e", "old", "c", "b", "num", "got", "put",
           "held", "area", "u", "arena", "calls"}

\* The labels at which a thread is inside chunk_recycle and chunk_record, those
\* at which it has an extent on its way, and those at which it has a chunk.
Taking  == {"recycle", "recycle_put", "trail_node", "trail_insert"}
Giving  == {"dalloc", "rec_node", "rec_insert", "rec_put"}
Moving  == {"trail_node", "trail_insert", "dalloc", "rec_node", "rec_insert"}
Holding == {"recycle_put", "trail_node", "trail_insert", "huge_insert"}
MayHold == Holding \cup {"huge_register", "arena_register", "base_pages"}
Labels  == Taking \cup Giving \cup MayHold \cup
           {"idle", "exited", "done", "cleanup", "check_chunks", "check_arenas",
            "huge_node", "free", "free_put", "base", "arena_new", "arena_done"}

ExtOK(x) == DOMAIN x = {"a", "n", "z"} /\ x.a \in Nat /\ x.n \in Nat \ {0}

\* Where base_alloc, chunk_recycle and chunk_record return to.
BaseBack(k) == k # <<>> /\ Head(k) \in {"arena_new", "arena_done"}
BaseSize(l) == l.c \in Nat \ {0} /\ l.n = CHUNK_CEILING(l.c) \div U
TakeBack(l) ==
  /\ l.k # <<>> /\ l.n # 0
  /\ \/ Head(l.k) = "huge_register"
     \/ Head(l.k) = "arena_register" /\ l.n = 1
     \/ Head(l.k) = "base_pages" /\ BaseBack(Tail(l.k)) /\ BaseSize(l)
GiveBack(l) == TakeBack(l) \/ (l.k # <<>> /\ Head(l.k) \in {"free_put", "done"})

ThreadOK(l) ==
  /\ DOMAIN l = Fields /\ l.pc \in Labels /\ l.k \in Seq(Labels)
  /\ l.n \in Nat /\ l.al \in Nat \ {0} /\ l.r \in Nat \cup {NoChunk}
  /\ l.r # NoChunk => l.pc \in MayHold
  /\ l.pc \in Holding => l.r # NoChunk
  /\ l.pc \in Taking \cup MayHold \cup {"huge_node"} => l.n # 0
  /\ l.pc \in Moving => ExtOK(l.e)
  /\ l.pc \notin Moving \cup {"free"} => l.e = NoExt
  /\ l.pc \in {"idle", "free"} => l.old = NoExt
  /\ l.pc \in Taking => TakeBack(l)
  /\ l.pc \in Giving => GiveBack(l)
  /\ l.pc = "base" => BaseBack(l.k) /\ l.c \in Nat \ {0}
  /\ l.pc = "base_pages" => BaseBack(l.k) /\ BaseSize(l)
  /\ l.pc = "arena_register" => l.n = 1

\* The allocations a call is going to free: nobody else is.
Claim(l) == {x \in {l.old} : x # NoExt} \cup {x \in {l.e} : l.pc = "free"}

\* The chunks a thread has taken, and those it is putting back.
Taken(l) == IF l.r = NoChunk THEN {} ELSE l.r .. (l.r + l.n - 1)
Moved(l) == IF l.pc = "free" THEN {} ELSE Chunks(l.e)

Shape ==
  /\ th = [t \in Threads |-> th[t]] /\ \A t \in Threads : ThreadOK(th[t])
  /\ \A x \in exts : ExtOK(x)
  /\ \A x \in huge : ExtOK(x)
  /\ live => ranges # {}
  /\ ranges = {} => /\ exts = {} /\ huge = {} /\ inarena = {} /\ lost = {}
                    /\ \A t \in Threads : th[t].pc = "idle"

Claims ==
  \A t \in Threads : /\ Claim(th[t]) \subseteq huge
                     /\ \A s \in Threads \ {t} : Claim(th[t]) \cap Claim(th[s]) = {}

\* What is in use is cut out of the ranges.
Inside ==
  /\ \A x \in exts : Chunks(x) \subseteq Usable
  /\ \A x \in huge : Chunks(x) \subseteq Usable
  /\ inarena \subseteq Usable \cap Nat
  /\ \A t \in Threads : Taken(th[t]) \subseteq Usable /\ Moved(th[t]) \subseteq Usable

\* What is left of base memory is in chunks that base memory has already.
BaseRest ==
  /\ base.next \in Nat /\ base.past \in Nat /\ DOMAIN base = {"next", "past"} /\ used \subseteq Nat
  /\ \A x \in base.next .. (base.past - 1) : x \div U \in Usable => x \div U \in BaseChunks

\* Exactly one of the sets has an element, and only one.
Solo(A, B, C, D, E, F, G) ==
  \/ (\E x : A = {x}) /\ B = {} /\ C = {} /\ D = {} /\ E = {} /\ F = {} /\ G = {}
  \/ A = {} /\ (\E x : B = {x}) /\ C = {} /\ D = {} /\ E = {} /\ F = {} /\ G = {}
  \/ A = {} /\ B = {} /\ (\E x : C = {x}) /\ D = {} /\ E = {} /\ F = {} /\ G = {}
  \/ A = {} /\ B = {} /\ C = {} /\ (\E x : D = {x}) /\ E = {} /\ F = {} /\ G = {}
  \/ A = {} /\ B = {} /\ C = {} /\ D = {} /\ (\E x : E = {x}) /\ F = {} /\ G = {}
  \/ A = {} /\ B = {} /\ C = {} /\ D = {} /\ E = {} /\ (\E x : F = {x}) /\ G = {}
  \/ A = {} /\ B = {} /\ C = {} /\ D = {} /\ E = {} /\ F = {} /\ (\E x : G = {x})

OneOwner(c) == Solo(FreeAt(c), HugeAt(c), TakenAt(c), MovedAt(c), ArenaAt(c), BaseAt(c), LostAt(c))

Accounted == \A c \in Usable : OneOwner(c)

\* What is marked zeroed is zero, on its way through a call too.
Zeroed ==
  /\ \A x \in exts : x.z => Chunks(x) \subseteq mem
  /\ \A x \in huge : x.z => Chunks(x) \subseteq mem
  /\ \A t \in Threads : /\ th[t].pc \in Moving /\ th[t].e.z => Chunks(th[t].e) \subseteq mem
                        /\ th[t].r # NoChunk /\ th[t].zero => Taken(th[t]) \subseteq mem

JeInv == Shape /\ Claims /\ Inside /\ BaseRest /\ Accounted /\ Zeroed

-----------------------------------------------------------------------------
(* Records of threads.                                                     *)

LEMMA IdleIs ==
  /\ DOMAIN Idle = Fields /\ Idle.pc = "idle" /\ Idle.k = <<>> /\ Idle.n = 0 /\ Idle.al = 1
  /\ Idle.r = NoChunk /\ Idle.e = NoExt /\ Idle.old = NoExt
  <1>1. ASSUME NEW F, NEW X, NEW E
        PROVE  LET i == [pc |-> "idle", k |-> E, n |-> 0, al |-> 1, zero |-> F,
                   r |-> NoChunk, e |-> X, old |-> X, c |-> 0, b |-> NoChunk, num |-> 0,
                   got |-> F, put |-> 0, held |-> 0, area |-> 0, u |-> 0,
                   arena |-> NoArena, calls |-> 0]
               IN /\ DOMAIN i = Fields /\ i.pc = "idle" /\ i.k = E /\ i.n = 0 /\ i.al = 1
                  /\ i.r = NoChunk /\ i.e = X /\ i.old = X
    BY DEF Fields
  <1> QED BY <1>1, Zenon DEF Idle

\* The locals that the chunk layer uses, kept.
Keeps(m, l) ==
  /\ m.n = l.n /\ m.al = l.al /\ m.zero = l.zero /\ m.r = l.r /\ m.e = l.e
  /\ m.old = l.old /\ m.c = l.c

LEMMA CallIs ==
  ASSUME NEW l, NEW p, NEW b \in Labels, NEW m, m = Call(l, p, b),
         DOMAIN l = Fields, l.k \in Seq(Labels)
  PROVE  /\ DOMAIN m = Fields /\ m.pc = p /\ m.k \in Seq(Labels) /\ m.k # <<>>
         /\ Head(m.k) = b /\ Tail(m.k) = l.k /\ Keeps(m, l)
  <1> DEFINE q == <<b>> \o l.k
  <1>1. q \in Seq(Labels) /\ q # <<>> /\ Head(q) = b /\ Tail(q) = l.k
    <2>1. <<b>> \in Seq(Labels) /\ Len(<<b>>) = 1 /\ <<b>>[1] = b
      OBVIOUS
    <2>2. /\ q \in Seq(Labels) /\ Len(q) = 1 + Len(l.k)
          /\ \A i \in 1 .. 1 + Len(l.k) : q[i] = IF i <= 1 THEN <<b>>[i] ELSE l.k[i - 1]
      BY <2>1, ConcatProperties
    <2> HIDE DEF q
    <2>3. q # <<>> /\ Head(q) = b
      BY <2>1, <2>2
    <2>4. Tail(q) = l.k
      <3>1. /\ Tail(q) \in Seq(Labels) /\ Len(Tail(q)) = Len(q) - 1
            /\ \A i \in 1 .. Len(Tail(q)) : Tail(q)[i] = q[i + 1]
        BY <2>2, <2>3, HeadTailProperties
      <3>2. Len(l.k) \in Nat
        OBVIOUS
      <3>3. Len(Tail(q)) = Len(l.k)
        BY <2>2, <3>1, <3>2
      <3>4. ASSUME NEW i \in 1 .. Len(Tail(q)) PROVE Tail(q)[i] = l.k[i]
        <4>1. i + 1 \in 1 .. 1 + Len(l.k) /\ ~(i + 1 <= 1) /\ (i + 1) - 1 = i
          BY <3>2, <3>3
        <4>2. q[i + 1] = l.k[(i + 1) - 1]
          BY <2>2, <4>1
        <4> QED BY <3>1, <4>1, <4>2
      <3> QED BY <3>1, <3>3, <3>4, SeqEqual, Zenon
    <2> QED BY <2>2, <2>3, <2>4
  <1> HIDE DEF q
  <1>2. m = [l EXCEPT !.pc = p, !.k = q]
    BY DEF Call, q
  <1> QED BY <1>1, <1>2 DEF Fields, Keeps

LEMMA ReturnIs ==
  ASSUME NEW l, DOMAIN l = Fields, l.k \in Seq(Labels), l.k # <<>>
  PROVE  LET m == Return(l)
         IN  /\ DOMAIN m = Fields /\ m.pc = Head(l.k) /\ m.k = Tail(l.k) /\ m.k \in Seq(Labels)
             /\ Keeps(m, l)
  <1>1. Tail(l.k) \in Seq(Labels)
    BY HeadTailProperties
  <1> QED BY <1>1 DEF Return, Fields, Keeps

LEMMA DoneIs ==
  ASSUME NEW l
  PROVE  LET m == Done(l)
         IN  /\ DOMAIN m = Fields /\ m.pc = "idle" /\ m.k = <<>> /\ m.n = 0 /\ m.al = 1
             /\ m.r = NoChunk /\ m.e = NoExt /\ m.old = NoExt
  BY IdleIs DEF Done, Fields

\* A thread that is not in a call has nothing in its hands.
LEMMA RestingOK ==
  ASSUME NEW m, DOMAIN m = Fields, m.k \in Seq(Labels), m.n \in Nat, m.al \in Nat \ {0},
         m.r = NoChunk, m.e = NoExt, m.old = NoExt,
         m.pc \in {"idle", "exited", "cleanup", "check_chunks", "check_arenas", "done", "free_put"}
  PROVE  ThreadOK(m) /\ Taken(m) = {} /\ Moved(m) = {} /\ Claim(m) = {}
  <1>1. ThreadOK(m)
    BY DEF ThreadOK, Labels, Taking, Giving, Moving, Holding, MayHold
  <1>2. Taken(m) = {} /\ Claim(m) = {}
    BY DEF Taken, Claim
  <1>3. Moved(m) = {}
    BY DEF Moved, Chunks, NoExt, NoChunk
  <1> QED BY <1>1, <1>2, <1>3

-----------------------------------------------------------------------------
(* Owners.                                                                 *)

LEMMA SoloKeeps ==
  ASSUME NEW A, NEW B, NEW C, NEW D, NEW E, NEW F, NEW G, Solo(A, B, C, D, E, F, G), NEW x
  PROVE  /\ x \in A => A = {x} /\ B = {} /\ C = {} /\ D = {} /\ E = {} /\ F = {} /\ G = {}
         /\ x \in B => A = {} /\ B = {x} /\ C = {} /\ D = {} /\ E = {} /\ F = {} /\ G = {}
         /\ x \in C => A = {} /\ B = {} /\ C = {x} /\ D = {} /\ E = {} /\ F = {} /\ G = {}
         /\ x \in D => A = {} /\ B = {} /\ C = {} /\ D = {x} /\ E = {} /\ F = {} /\ G = {}
         /\ x \in E => A = {} /\ B = {} /\ C = {} /\ D = {} /\ E = {x} /\ F = {} /\ G = {}
         /\ x \in F => A = {} /\ B = {} /\ C = {} /\ D = {} /\ E = {} /\ F = {x} /\ G = {}
         /\ x \in G => A = {} /\ B = {} /\ C = {} /\ D = {} /\ E = {} /\ F = {} /\ G = {x}
  <1>1. /\ (\E y : A = {y}) \/ A = {}
        /\ (\E y : B = {y}) \/ B = {}
        /\ (\E y : C = {y}) \/ C = {}
        /\ (\E y : D = {y}) \/ D = {}
        /\ (\E y : E = {y}) \/ E = {}
        /\ (\E y : F = {y}) \/ F = {}
        /\ (\E y : G = {y}) \/ G = {}
    BY Zenon DEF Solo
  <1>2. /\ x \in A => A = {x}
        /\ x \in B => B = {x}
        /\ x \in C => C = {x}
        /\ x \in D => D = {x}
        /\ x \in E => E = {x}
        /\ x \in F => F = {x}
        /\ x \in G => G = {x}
    BY <1>1
  <1>3. \A S : x \in S => S # {}
    OBVIOUS
  <1>4. /\ A # {} => B = {} /\ C = {} /\ D = {} /\ E = {} /\ F = {} /\ G = {}
        /\ B # {} => A = {} /\ C = {} /\ D = {} /\ E = {} /\ F = {} /\ G = {}
        /\ C # {} => B = {} /\ A = {} /\ D = {} /\ E = {} /\ F = {} /\ G = {}
        /\ D # {} => B = {} /\ C = {} /\ A = {} /\ E = {} /\ F = {} /\ G = {}
        /\ E # {} => B = {} /\ C = {} /\ D = {} /\ A = {} /\ F = {} /\ G = {}
        /\ F # {} => B = {} /\ C = {} /\ D = {} /\ E = {} /\ A = {} /\ G = {}
        /\ G # {} => B = {} /\ C = {} /\ D = {} /\ E = {} /\ F = {} /\ A = {}
    BY DEF Solo
  <1> QED BY <1>2, <1>3, <1>4, Zenon

Tagged(k, S) == {<<k, x>> : x \in S}

LEMMA TaggedIs ==
  ASSUME NEW k, NEW S
  PROVE  (S = {} => Tagged(k, S) = {}) /\ ((\E x : S = {x}) => \E o : Tagged(k, S) = {o})
  <1>1. S = {} => Tagged(k, S) = {}
    BY DEF Tagged
  <1>2. ASSUME NEW x, S = {x} PROVE Tagged(k, S) = {<<k, x>>}
    BY <1>2 DEF Tagged
  <1> QED BY <1>1, <1>2, Zenon

LEMMA OneOwnerCounts ==
  ASSUME NEW c, OneOwner(c)
  PROVE  Cardinality(Owners(c)) = 1
  <1> DEFINE A == Tagged("free", FreeAt(c))   B == Tagged("huge", HugeAt(c))
             C == Tagged("taken", TakenAt(c)) D == Tagged("moved", MovedAt(c))
             E == Tagged("arena", ArenaAt(c)) F == Tagged("base", BaseAt(c))
             G == Tagged("lost", LostAt(c))
  <1>1. Owners(c) = A \cup B \cup C \cup D \cup E \cup F \cup G
    BY Zenon DEF Owners, Tagged
  <1>2. Solo(A, B, C, D, E, F, G)
    BY TaggedIs DEF OneOwner, Solo
  <1>3. PICK a, b, d, e, f, g, h : Solo(a, b, d, e, f, g, h) /\ Owners(c) = a \cup b \cup d \cup e \cup f \cup g \cup h
    <2> HIDE DEF A, B, C, D, E, F, G
    <2> QED BY <1>1, <1>2, Zenon
  <1>4. PICK o : Owners(c) = {o}
    BY ONLY <1>3 DEF Solo
  <1> QED BY <1>4, FS_Singleton

\* The owner of a chunk is its only one.
LEMMA OwnerIs ==
  ASSUME NEW c, OneOwner(c)
  PROVE  /\ \A x \in FreeAt(c) : /\ FreeAt(c) = {x} /\ HugeAt(c) = {} /\ TakenAt(c) = {}
                                 /\ MovedAt(c) = {} /\ ArenaAt(c) = {} /\ BaseAt(c) = {} /\ LostAt(c) = {}
         /\ \A x \in HugeAt(c) : /\ FreeAt(c) = {} /\ HugeAt(c) = {x} /\ TakenAt(c) = {}
                                 /\ MovedAt(c) = {} /\ ArenaAt(c) = {} /\ BaseAt(c) = {} /\ LostAt(c) = {}
         /\ \A x \in TakenAt(c) : /\ FreeAt(c) = {} /\ HugeAt(c) = {} /\ TakenAt(c) = {x}
                                  /\ MovedAt(c) = {} /\ ArenaAt(c) = {} /\ BaseAt(c) = {} /\ LostAt(c) = {}
         /\ \A x \in MovedAt(c) : /\ FreeAt(c) = {} /\ HugeAt(c) = {} /\ TakenAt(c) = {}
                                  /\ MovedAt(c) = {x} /\ ArenaAt(c) = {} /\ BaseAt(c) = {} /\ LostAt(c) = {}
         /\ c \in inarena => /\ FreeAt(c) = {} /\ HugeAt(c) = {} /\ TakenAt(c) = {}
                             /\ MovedAt(c) = {} /\ BaseAt(c) = {} /\ LostAt(c) = {}
  <1> DEFINE A == FreeAt(c) B == HugeAt(c) C == TakenAt(c) D == MovedAt(c)
             E == ArenaAt(c) F == BaseAt(c) G == LostAt(c)
  <1>1. Solo(A, B, C, D, E, F, G)
    BY DEF OneOwner
  <1>2. c \in inarena => c \in E
    BY DEF ArenaAt
  <1> HIDE DEF A, B, C, D, E, F, G
  <1>3. \A x : /\ x \in A => A = {x} /\ B = {} /\ C = {} /\ D = {} /\ E = {} /\ F = {} /\ G = {}
               /\ x \in B => A = {} /\ B = {x} /\ C = {} /\ D = {} /\ E = {} /\ F = {} /\ G = {}
               /\ x \in C => A = {} /\ B = {} /\ C = {x} /\ D = {} /\ E = {} /\ F = {} /\ G = {}
               /\ x \in D => A = {} /\ B = {} /\ C = {} /\ D = {x} /\ E = {} /\ F = {} /\ G = {}
               /\ x \in E => A = {} /\ B = {} /\ C = {} /\ D = {} /\ E = {x} /\ F = {} /\ G = {}
    BY <1>1, SoloKeeps
  <1> QED BY <1>2, <1>3, Zenon DEF A, B, C, D, E, F, G

\* What a step of thread t does to the sets of threads.
LEMMA Hands ==
  ASSUME Shape, NEW t \in Threads, NEW m, th' = [th EXCEPT ![t] = m], NEW c
  PROVE  /\ \A s \in Threads : (s \in TakenAt(c) <=> c \in Taken(th[s]))
         /\ \A s \in Threads : (s \in MovedAt(c) <=> c \in Moved(th[s]))
         /\ (c \in Taken(m) <=> c \in Taken(th[t])) => TakenAt(c)' = TakenAt(c)
         /\ (c \in Moved(m) <=> c \in Moved(th[t])) => MovedAt(c)' = MovedAt(c)
         /\ TakenAt(c) = {} /\ c \in Taken(m) => TakenAt(c)' = {t}
         /\ MovedAt(c) = {} /\ c \in Moved(m) => MovedAt(c)' = {t}
         /\ TakenAt(c) \subseteq {t} /\ c \notin Taken(m) => TakenAt(c)' = {}
         /\ MovedAt(c) \subseteq {t} /\ c \notin Moved(m) => MovedAt(c)' = {}
  <1>1. th'[t] = m /\ \A s \in Threads \ {t} : th'[s] = th[s]
    BY DEF Shape
  <1>2. /\ \A s \in Threads : (s \in TakenAt(c) <=> c \in Taken(th[s]))
        /\ \A s \in Threads : (s \in MovedAt(c) <=> c \in Moved(th[s]))
        /\ TakenAt(c) \subseteq Threads /\ MovedAt(c) \subseteq Threads
    BY DEF TakenAt, MovedAt, Taken, Moved, At
  <1>3. /\ \A s \in Threads : (s \in TakenAt(c)' <=> c \in Taken(th'[s]))
        /\ \A s \in Threads : (s \in MovedAt(c)' <=> c \in Moved(th'[s]))
        /\ TakenAt(c)' \subseteq Threads /\ MovedAt(c)' \subseteq Threads
    BY DEF TakenAt, MovedAt, Taken, Moved, At
  <1>4. PICK T, TT, M, MM : T = TakenAt(c) /\ TT = TakenAt(c)' /\ M = MovedAt(c) /\ MM = MovedAt(c)'
    OBVIOUS
  <1>5. /\ \A s \in Threads \ {t} : (s \in TT <=> s \in T)
        /\ \A s \in Threads \ {t} : (s \in MM <=> s \in M)
        /\ t \in TT <=> c \in Taken(m)
        /\ t \in MM <=> c \in Moved(m)
        /\ t \in T <=> c \in Taken(th[t])
        /\ t \in M <=> c \in Moved(th[t])
        /\ T \subseteq Threads /\ TT \subseteq Threads /\ M \subseteq Threads /\ MM \subseteq Threads
    BY <1>1, <1>2, <1>3, <1>4
  <1>6. (c \in Taken(m) <=> c \in Taken(th[t])) => TT = T
    BY <1>5
  <1>7. (c \in Moved(m) <=> c \in Moved(th[t])) => MM = M
    BY <1>5
  <1>8. /\ T = {} /\ c \in Taken(m) => TT = {t}
        /\ M = {} /\ c \in Moved(m) => MM = {t}
    BY <1>5
  <1>9. /\ T \subseteq {t} /\ c \notin Taken(m) => TT = {}
        /\ M \subseteq {t} /\ c \notin Moved(m) => MM = {}
    BY <1>5
  <1> QED BY <1>2, <1>4, <1>6, <1>7, <1>8, <1>9, Zenon

\* When only thread t may have chunk c, its new record says whether it has.
LEMMA HandsAfter ==
  ASSUME Shape, NEW t \in Threads, NEW m, th' = [th EXCEPT ![t] = m], NEW c,
         TakenAt(c) \subseteq {t}, MovedAt(c) \subseteq {t}
  PROVE  /\ c \in Taken(m) => TakenAt(c)' = {t}
         /\ c \notin Taken(m) => TakenAt(c)' = {}
         /\ c \in Moved(m) => MovedAt(c)' = {t}
         /\ c \notin Moved(m) => MovedAt(c)' = {}
  <1>1. /\ \A s \in Threads : (s \in TakenAt(c) <=> c \in Taken(th[s]))
        /\ \A s \in Threads : (s \in MovedAt(c) <=> c \in Moved(th[s]))
        /\ (c \in Taken(m) <=> c \in Taken(th[t])) => TakenAt(c)' = TakenAt(c)
        /\ (c \in Moved(m) <=> c \in Moved(th[t])) => MovedAt(c)' = MovedAt(c)
        /\ TakenAt(c) = {} /\ c \in Taken(m) => TakenAt(c)' = {t}
        /\ MovedAt(c) = {} /\ c \in Moved(m) => MovedAt(c)' = {t}
        /\ TakenAt(c) \subseteq {t} /\ c \notin Taken(m) => TakenAt(c)' = {}
        /\ MovedAt(c) \subseteq {t} /\ c \notin Moved(m) => MovedAt(c)' = {}
    BY Hands
  <1>2. PICK T, TT, M, MM : T = TakenAt(c) /\ TT = TakenAt(c)' /\ M = MovedAt(c) /\ MM = MovedAt(c)'
    OBVIOUS
  <1>3. (T = {} \/ T = {t}) /\ (M = {} \/ M = {t})
    BY <1>2
  <1>4. c \in Taken(m) => TT = {t}
    BY <1>1, <1>2, <1>3
  <1>5. c \in Moved(m) => MM = {t}
    BY <1>1, <1>2, <1>3
  <1> QED BY <1>1, <1>2, <1>4, <1>5

-----------------------------------------------------------------------------
(* Steps that move no chunk.                                               *)

LEMMA ShapeStep ==
  ASSUME Shape, NEW t \in Threads, NEW m, th' = [th EXCEPT ![t] = m], ThreadOK(m),
         ranges' = ranges, live' = live, ranges # {},
         \A x \in exts' : ExtOK(x), \A x \in huge' : ExtOK(x)
  PROVE  /\ Shape' /\ th'[t] = m /\ \A s \in Threads \ {t} : th'[s] = th[s]
  <1>1. th'[t] = m /\ \A s \in Threads \ {t} : th'[s] = th[s]
    BY DEF Shape
  <1>2. th' = [s \in Threads |-> th'[s]]
    BY DEF Shape
  <1>3. \A s \in Threads : ThreadOK(th'[s])
    BY <1>1 DEF Shape
  <1> QED BY <1>1, <1>2, <1>3 DEF Shape

LEMMA ClaimStep ==
  ASSUME Claims, NEW t \in Threads, NEW m, th'[t] = m,
         \A s \in Threads \ {t} : th'[s] = th[s],
         \A s \in Threads \ {t} : Claim(th[s]) \subseteq huge',
         Claim(m) \subseteq huge', \A s \in Threads \ {t} : Claim(m) \cap Claim(th[s]) = {}
  PROVE  Claims'
  <1>1. ASSUME NEW u \in Threads PROVE Claim(th'[u]) \subseteq huge'
    BY <1>1
  <1>2. ASSUME NEW u \in Threads, NEW s \in Threads \ {u} PROVE Claim(th'[u]) \cap Claim(th'[s]) = {}
    <2>1. CASE u = t
      <3>1. th'[u] = m /\ th'[s] = th[s]
        BY <2>1
      <3> QED BY <3>1, <2>1
    <2>2. CASE s = t
      <3>1. th'[s] = m /\ th'[u] = th[u] /\ u # t
        BY <2>2
      <3>2. Claim(m) \cap Claim(th[u]) = {}
        BY <3>1
      <3> QED BY <3>1, <3>2
    <2>3. CASE u # t /\ s # t
      <3>1. th'[s] = th[s] /\ th'[u] = th[u]
        BY <2>3
      <3>2. Claim(th[u]) \cap Claim(th[s]) = {}
        BY DEF Claims
      <3> QED BY <3>1, <3>2
    <2> QED BY <2>1, <2>2, <2>3
  <1> QED BY <1>1, <1>2 DEF Claims, Claim

LEMMA InsideStep ==
  ASSUME Inside, NEW t \in Threads, NEW m, th'[t] = m,
         \A s \in Threads \ {t} : th'[s] = th[s], ranges' = ranges,
         Taken(m) \subseteq Usable, Moved(m) \subseteq Usable,
         \A x \in exts' : Chunks(x) \subseteq Usable,
         \A x \in huge' : Chunks(x) \subseteq Usable,
         inarena' \subseteq Usable \cap Nat
  PROVE  Inside'
  <1>1. Usable' = Usable
    BY DEF Usable
  <1>2. ASSUME NEW s \in Threads PROVE Taken(th'[s]) \subseteq Usable /\ Moved(th'[s]) \subseteq Usable
    BY <1>2 DEF Inside
  <1> QED BY <1>1, <1>2 DEF Inside, Taken, Moved

LEMMA ZeroStep ==
  ASSUME Zeroed, NEW t \in Threads, NEW m, th'[t] = m,
         \A s \in Threads \ {t} : th'[s] = th[s],
         \A x \in exts' : x.z => Chunks(x) \subseteq mem',
         \A x \in huge' : x.z => Chunks(x) \subseteq mem',
         m.pc \in Moving /\ m.e.z => Chunks(m.e) \subseteq mem',
         m.r # NoChunk /\ m.zero => Taken(m) \subseteq mem',
         \A s \in Threads \ {t} : /\ th[s].pc \in Moving /\ th[s].e.z => Chunks(th[s].e) \subseteq mem'
                                  /\ th[s].r # NoChunk /\ th[s].zero => Taken(th[s]) \subseteq mem'
  PROVE  Zeroed'
  <1>1. ASSUME NEW s \in Threads
        PROVE  /\ th'[s].pc \in Moving /\ th'[s].e.z => Chunks(th'[s].e) \subseteq mem'
               /\ th'[s].r # NoChunk /\ th'[s].zero => Taken(th'[s]) \subseteq mem'
    <2>1. CASE s = t
      <3>1. th'[s] = m
        BY <2>1
      <3> QED BY <3>1, Zenon
    <2>2. CASE s # t
      <3>1. th'[s] = th[s] /\ s \in Threads \ {t}
        BY <2>2
      <3> QED BY <3>1, Zenon
    <2> QED BY <2>1, <2>2
  <1> QED BY <1>1 DEF Zeroed, Chunks, Taken

LEMMA QuietStep ==
  ASSUME JeInv, NEW t \in Threads, NEW m, th' = [th EXCEPT ![t] = m], ThreadOK(m), ranges # {},
         UNCHANGED <<live, exts, huge, base, ranges, inarena, mem, used, lost>>,
         Taken(m) = Taken(th[t]), Moved(m) = Moved(th[t]),
         Claim(m) \subseteq huge, \A s \in Threads \ {t} : Claim(m) \cap Claim(th[s]) = {},
         m.pc \in Moving => th[t].pc \in Moving /\ m.e = th[t].e,
         m.r # NoChunk => m.zero = th[t].zero /\ th[t].r # NoChunk
  PROVE  JeInv'
  <1>0. Shape /\ Claims /\ Inside /\ BaseRest /\ Accounted /\ Zeroed
    BY DEF JeInv
  <1>1. Shape' /\ th'[t] = m /\ \A s \in Threads \ {t} : th'[s] = th[s]
    <2>1. (\A x \in exts' : ExtOK(x)) /\ \A x \in huge' : ExtOK(x)
      BY <1>0 DEF Shape
    <2> QED BY <1>0, <2>1, ShapeStep
  <1>2. Claims'
    <2>1. \A s \in Threads \ {t} : Claim(th[s]) \subseteq huge'
      BY <1>0 DEF Claims
    <2> QED BY <1>0, <1>1, <2>1, ClaimStep
  <1>3. Inside'
    <2>1. /\ Taken(m) \subseteq Usable /\ Moved(m) \subseteq Usable
          /\ \A x \in exts' : Chunks(x) \subseteq Usable
          /\ \A x \in huge' : Chunks(x) \subseteq Usable
          /\ inarena' \subseteq Usable \cap Nat
      BY <1>0 DEF Inside
    <2> QED BY <1>0, <1>1, <2>1, InsideStep
  <1>4. BaseRest'
    BY <1>0 DEF BaseRest, Usable, BaseChunks
  <1>5. Accounted'
    <2>1. Usable' = Usable
      BY DEF Usable
    <2> SUFFICES ASSUME NEW c \in Usable PROVE OneOwner(c)'
      BY <2>1 DEF Accounted
    <2>2. TakenAt(c)' = TakenAt(c) /\ MovedAt(c)' = MovedAt(c)
      BY <1>0, Hands
    <2>3. FreeAt(c)' = FreeAt(c) /\ HugeAt(c)' = HugeAt(c) /\ ArenaAt(c)' = ArenaAt(c)
          /\ BaseAt(c)' = BaseAt(c) /\ LostAt(c)' = LostAt(c)
      BY DEF FreeAt, HugeAt, ArenaAt, BaseAt, LostAt, BaseChunks
    <2>4. OneOwner(c)
      BY <1>0 DEF Accounted
    <2> QED BY <2>2, <2>3, <2>4 DEF OneOwner
  <1>6. Zeroed'
    <2>1. /\ \A x \in exts' : x.z => Chunks(x) \subseteq mem'
          /\ \A x \in huge' : x.z => Chunks(x) \subseteq mem'
          /\ \A s \in Threads \ {t} : /\ th[s].pc \in Moving /\ th[s].e.z => Chunks(th[s].e) \subseteq mem'
                                      /\ th[s].r # NoChunk /\ th[s].zero => Taken(th[s]) \subseteq mem'
      BY <1>0, Zenon DEF Zeroed
    <2>2. m.pc \in Moving /\ m.e.z => Chunks(m.e) \subseteq mem'
      BY <1>0, Zenon DEF Zeroed
    <2>3. m.r # NoChunk /\ m.zero => Taken(m) \subseteq mem'
      BY <1>0, Zenon DEF Zeroed
    <2> QED BY <1>0, <1>1, <2>1, <2>2, <2>3, ZeroStep
  <1> QED BY <1>1, <1>2, <1>3, <1>4, <1>5, <1>6 DEF JeInv

LEMMA Mine ==
  ASSUME JeInv, NEW t \in Threads
  PROVE  /\ ThreadOK(th[t]) /\ (th[t].pc # "idle" \/ live => ranges # {})
         /\ Claim(th[t]) \subseteq huge /\ \A s \in Threads \ {t} : Claim(th[t]) \cap Claim(th[s]) = {}
  BY DEF JeInv, Shape, Claims

\* A thread with no chunks in its hands.
LEMMA NoHands ==
  ASSUME NEW l, l.r = NoChunk, l.e = NoExt
  PROVE  Taken(l) = {} /\ Moved(l) = {}
  BY DEF Taken, Moved, Chunks, NoExt, NoChunk

\* chunk_recycle and chunk_record return to a caller that keeps what they got.
LEMMA TakeReturns ==
  ASSUME NEW l, NEW m, m = Return(l), DOMAIN l = Fields, l.k \in Seq(Labels), TakeBack(l),
         l.n \in Nat, l.al \in Nat \ {0}, l.r \in Nat \cup {NoChunk}, l.e = NoExt
  PROVE  /\ ThreadOK(m) /\ Keeps(m, l) /\ Taken(m) = Taken(l) /\ Moved(m) = {}
         /\ m.pc \in {"huge_register", "arena_register", "base_pages"}
         /\ Claim(m) = {x \in {l.old} : x # NoExt}
  <1>1. /\ DOMAIN m = Fields /\ m.pc = Head(l.k) /\ m.k = Tail(l.k) /\ m.k \in Seq(Labels)
        /\ Keeps(m, l)
    BY ReturnIs DEF TakeBack
  <1>2. /\ m.pc \in {"huge_register", "arena_register", "base_pages"} /\ m.n # 0
        /\ m.pc = "base_pages" => BaseBack(m.k) /\ BaseSize(m)
        /\ m.pc = "arena_register" => m.n = 1
    BY <1>1 DEF TakeBack, BaseSize, Keeps
  <1>3. ThreadOK(m)
    BY <1>1, <1>2 DEF ThreadOK, Labels, Taking, Giving, Moving, Holding, MayHold, Keeps
  <1>4. Taken(m) = Taken(l) /\ Claim(m) = {x \in {l.old} : x # NoExt}
    BY <1>1, <1>2 DEF Taken, Claim, Keeps
  <1>5. Moved(m) = {}
    BY <1>1 DEF Moved, Chunks, NoExt, NoChunk, Keeps
  <1> QED BY <1>1, <1>2, <1>3, <1>4, <1>5

LEMMA GiveReturns ==
  ASSUME NEW l, NEW m, m = Return(l), DOMAIN l = Fields, l.k \in Seq(Labels), GiveBack(l),
         l.n \in Nat, l.al \in Nat \ {0}, l.r = NoChunk, l.e = NoExt
  PROVE  /\ ThreadOK(m) /\ Keeps(m, l) /\ Taken(m) = {} /\ Moved(m) = {}
         /\ m.pc \notin Moving \cup {"free"}
         /\ Claim(m) = {x \in {l.old} : x # NoExt}
  <1>1. CASE TakeBack(l)
    BY <1>1, TakeReturns, NoHands DEF Moving
  <1>2. CASE l.k # <<>> /\ Head(l.k) \in {"free_put", "done"}
    <2>1. /\ DOMAIN m = Fields /\ m.pc = Head(l.k) /\ m.k = Tail(l.k) /\ m.k \in Seq(Labels)
          /\ Keeps(m, l)
      BY <1>2, ReturnIs
    <2>2. ThreadOK(m)
      BY <1>2, <2>1 DEF ThreadOK, Labels, Taking, Giving, Moving, Holding, MayHold, Keeps
    <2>3. m.r = NoChunk /\ m.e = NoExt
      BY <2>1 DEF Keeps
    <2>4. Claim(m) = {x \in {l.old} : x # NoExt}
      BY <1>2, <2>1 DEF Claim, Keeps
    <2> QED BY <1>2, <2>1, <2>2, <2>3, <2>4, NoHands DEF Moving
  <1> QED BY <1>1, <1>2 DEF GiveBack

LEMMA QuietChunk ==
  ASSUME JeInv, NEW t \in Threads,
         RecyclePut(t) \/ Dalloc(t) \/ RecordNode(t) \/ RecordPut(t)
  PROVE  JeInv'
  <1> DEFINE l == th[t]
  <1>m. /\ ThreadOK(l) /\ (l.pc # "idle" => ranges # {})
        /\ Claim(l) \subseteq huge /\ \A s \in Threads \ {t} : Claim(l) \cap Claim(th[s]) = {}
    BY Mine
  <1>u. UNCHANGED <<live, exts, huge, base, ranges, inarena, mem, used, lost>>
    BY DEF RecyclePut, Dalloc, RecordNode, RecordPut
  <1>1. CASE RecyclePut(t)
    <2>1. PICK q, m : /\ q = [l EXCEPT !.held = l.held - 1] /\ m = Return(q)
                      /\ l.pc = "recycle_put" /\ th' = [th EXCEPT ![t] = m]
      BY <1>1 DEF RecyclePut, Step, At
    <2>2. /\ DOMAIN q = Fields /\ Keeps(q, l) /\ q.k = l.k
      BY <2>1, <1>m DEF ThreadOK, Fields, Keeps
    <2>3. /\ TakeBack(l) /\ l.k \in Seq(Labels) /\ l.n \in Nat /\ l.al \in Nat \ {0}
          /\ l.r \in Nat \cup {NoChunk} /\ l.r # NoChunk /\ l.e = NoExt
      BY <2>1, <1>m DEF ThreadOK, Taking, Holding, Moving
    <2>4. TakeBack(q)
      BY <2>2, <2>3 DEF TakeBack, BaseSize, Keeps
    <2>5. /\ ThreadOK(m) /\ Keeps(m, q) /\ Taken(m) = Taken(q) /\ Moved(m) = {}
          /\ m.pc \in {"huge_register", "arena_register", "base_pages"}
          /\ Claim(m) = {x \in {q.old} : x # NoExt}
      <3>1. q.k \in Seq(Labels) /\ q.n \in Nat /\ q.al \in Nat \ {0} /\ q.r \in Nat \cup {NoChunk} /\ q.e = NoExt
        BY <2>2, <2>3 DEF Keeps
      <3> QED BY <2>1, <2>2, <2>4, <3>1, TakeReturns
    <2>6. Taken(m) = Taken(l) /\ Claim(m) \subseteq Claim(l) /\ m.zero = l.zero
      BY <2>2, <2>5 DEF Keeps, Taken, Claim
    <2>7. Moved(l) = {}
      BY <2>3 DEF Moved, Chunks, NoExt, NoChunk
    <2>8. m.pc \notin Moving /\ ranges # {}
      BY <2>1, <2>5, <1>m DEF Moving
    <2>9. Claim(m) \subseteq huge /\ \A s \in Threads \ {t} : Claim(m) \cap Claim(th[s]) = {}
      BY <1>m, <2>6
    <2> QED BY <1>u, <2>1, <2>3, <2>5, <2>6, <2>7, <2>8, <2>9, QuietStep
  <1>2. CASE Dalloc(t) \/ RecordNode(t)
    <2>1. PICK m, p : /\ th' = [th EXCEPT ![t] = m] /\ l.pc \in {"dalloc", "rec_node"}
                      /\ p \in {"rec_node", "rec_insert"} /\ m.pc = p
                      /\ DOMAIN m = DOMAIN l /\ Keeps(m, l) /\ m.k = l.k
      <3>1. CASE Dalloc(t)
        <4>1. PICK m : m = [l EXCEPT !.pc = "rec_node"] /\ th' = [th EXCEPT ![t] = m] /\ l.pc = "dalloc"
          BY <3>1 DEF Dalloc, Step, At
        <4>2. m.pc = "rec_node" /\ DOMAIN m = DOMAIN l /\ Keeps(m, l) /\ m.k = l.k
          BY <4>1, <1>m DEF ThreadOK, Fields, Keeps
        <4> QED BY <4>1, <4>2
      <3>2. CASE RecordNode(t)
        <4>1. PICK m, g, h : /\ m = [l EXCEPT !.pc = "rec_insert", !.got = g, !.held = h]
                             /\ th' = [th EXCEPT ![t] = m] /\ l.pc = "rec_node"
          BY <3>2, Zenon DEF RecordNode, Step, At
        <4>2. m.pc = "rec_insert" /\ DOMAIN m = DOMAIN l /\ Keeps(m, l) /\ m.k = l.k
          BY <4>1, <1>m DEF ThreadOK, Fields, Keeps
        <4> QED BY <4>1, <4>2
      <3> QED BY <1>2, <3>1, <3>2
    <2>2. l.pc \in Giving /\ l.pc \in Moving /\ m.pc \in Giving /\ m.pc \in Moving
      BY <2>1 DEF Giving, Moving
    <2>3. GiveBack(m)
      <3>1. GiveBack(l)
        BY <2>2, <1>m DEF ThreadOK
      <3> QED BY <3>1, <2>1 DEF GiveBack, TakeBack, BaseSize, Keeps
    <2>4. ThreadOK(m)
      BY <2>1, <2>2, <2>3, <1>m DEF ThreadOK, Labels, Taking, Giving, Moving, Holding, MayHold, Keeps
    <2>5. Taken(m) = Taken(l) /\ Moved(m) = Moved(l) /\ Claim(m) = Claim(l) /\ m.e = l.e
          /\ m.r = l.r /\ m.zero = l.zero
      BY <2>1 DEF Taken, Moved, Claim, Keeps
    <2> QED BY <1>m, <1>u, <2>1, <2>2, <2>4, <2>5, QuietStep
  <1>3. CASE RecordPut(t)
    <2>1. PICK q, m : /\ q = [l EXCEPT !.put = l.put - 1, !.held = l.held - 1]
                      /\ m = Return(q) \/ m = q
                      /\ l.pc = "rec_put" /\ th' = [th EXCEPT ![t] = m]
      BY <1>3 DEF RecordPut, Step, At
    <2>2. /\ DOMAIN q = Fields /\ Keeps(q, l) /\ q.k = l.k /\ q.pc = l.pc
      BY <2>1, <1>m DEF ThreadOK, Fields, Keeps
    <2>3. /\ GiveBack(l) /\ l.k \in Seq(Labels) /\ l.n \in Nat /\ l.al \in Nat \ {0}
          /\ l.r = NoChunk /\ l.e = NoExt
      BY <2>1, <1>m DEF ThreadOK, Giving, Holding, Moving, MayHold
    <2>4. GiveBack(q) /\ q.r = NoChunk /\ q.e = NoExt
      BY <2>2, <2>3 DEF GiveBack, TakeBack, BaseSize, Keeps
    <2>h. Taken(l) = {} /\ Moved(l) = {} /\ Taken(q) = {} /\ Moved(q) = {}
      BY <2>3, <2>4, NoHands
    <2>c. {x \in {q.old} : x # NoExt} \subseteq Claim(l) /\ Claim(q) = Claim(l)
      BY <2>2 DEF Claim, Keeps
    <2>5. CASE m = Return(q)
      <3>1. /\ ThreadOK(m) /\ Keeps(m, q) /\ Taken(m) = {} /\ Moved(m) = {}
            /\ m.pc \notin Moving \cup {"free"}
            /\ Claim(m) = {x \in {q.old} : x # NoExt}
        BY <2>5, <2>2, <2>3, <2>4, GiveReturns DEF Keeps
      <3>2. Claim(m) \subseteq Claim(l) /\ m.r = NoChunk
        BY <3>1, <2>c, <2>4 DEF Keeps
      <3>3. m.pc \notin Moving /\ ranges # {}
        BY <2>1, <3>1, <1>m
      <3>4. Claim(m) \subseteq huge /\ \A s \in Threads \ {t} : Claim(m) \cap Claim(th[s]) = {}
        BY <1>m, <3>2
      <3> QED BY <1>u, <2>1, <2>h, <3>1, <3>2, <3>3, <3>4, QuietStep
    <2>6. CASE m = q
      <3>1. ThreadOK(m) /\ m.pc \notin Moving
        BY <2>6, <2>1, <2>2, <2>3, <2>4, <1>m
           DEF ThreadOK, Labels, Taking, Giving, Moving, Holding, MayHold, Keeps
      <3> QED BY <1>m, <1>u, <2>1, <2>2, <2>6, <2>h, <2>4, <2>c, <3>1, QuietStep
    <2> QED BY <2>1, <2>5, <2>6
  <1> QED BY <1>1, <1>2, <1>3

\* A step of a thread whose hands are empty before and after it.
LEMMA EmptyStep ==
  ASSUME JeInv, NEW t \in Threads, NEW m, th' = [th EXCEPT ![t] = m], ThreadOK(m),
         UNCHANGED <<live, exts, huge, base, ranges, inarena, mem, used, lost>>,
         th[t].pc # "idle" \/ live, th[t].r = NoChunk, th[t].e = NoExt,
         m.r = NoChunk, m.e = NoExt, m.pc \notin Moving \cup {"free"},
         m.old \in {NoExt, th[t].old}
  PROVE  JeInv'
  <1>1. /\ ranges # {} /\ Claim(th[t]) \subseteq huge
        /\ \A s \in Threads \ {t} : Claim(th[t]) \cap Claim(th[s]) = {}
    BY Mine
  <1>2. Taken(m) = {} /\ Moved(m) = {} /\ Taken(th[t]) = {} /\ Moved(th[t]) = {}
    BY NoHands
  <1>3. Claim(m) \subseteq Claim(th[t])
    BY DEF Claim
  <1>4. Claim(m) \subseteq huge /\ \A s \in Threads \ {t} : Claim(m) \cap Claim(th[s]) = {}
    BY <1>1, <1>3
  <1> QED BY <1>1, <1>2, <1>4, QuietStep

\* A call is over.
LEMMA DoneStep ==
  ASSUME JeInv, NEW t \in Threads, NEW l, Step(t, Done(l)),
         UNCHANGED <<live, exts, huge, base, ranges, inarena, mem, used, lost>>,
         th[t].pc # "idle" \/ live, th[t].r = NoChunk, th[t].e = NoExt
  PROVE  JeInv'
  <1>1. PICK m : m = Done(l) /\ th' = [th EXCEPT ![t] = m]
    BY DEF Step
  <1>2. /\ DOMAIN m = Fields /\ m.pc = "idle" /\ m.k = <<>> /\ m.n = 0 /\ m.al = 1
        /\ m.r = NoChunk /\ m.e = NoExt /\ m.old = NoExt
    BY <1>1, DoneIs
  <1>k. m.k \in Seq(Labels) /\ m.n \in Nat /\ m.al \in Nat \ {0}
    BY <1>2
  <1>3. ThreadOK(m)
    BY <1>2, <1>k, RestingOK
  <1> QED BY <1>1, <1>2, <1>3, EmptyStep DEF Moving

\* What a thread has at the labels where its hands are empty.
Empty == {"idle", "huge_node", "free_put", "done", "base", "arena_new", "arena_done", "cleanup",
          "check_chunks", "check_arenas"}

LEMMA EmptyHands ==
  ASSUME JeInv, NEW t \in Threads, th[t].pc \in Empty
  PROVE  /\ th[t].r = NoChunk /\ th[t].e = NoExt /\ DOMAIN th[t] = Fields /\ th[t].k \in Seq(Labels)
         /\ th[t].n \in Nat /\ th[t].al \in Nat \ {0} /\ ThreadOK(th[t])
  BY Mine DEF ThreadOK, Empty, Moving, Holding, MayHold

LEMMA QuietEnds ==
  ASSUME JeInv, NEW t \in Threads,
         HugeFail(t) \/ HugeDallocPut(t) \/ CallDone(t) \/ CheckArenas(t)
  PROVE  JeInv'
  <1>1. /\ UNCHANGED <<live, exts, huge, base, ranges, inarena, mem, used, lost>>
        /\ Step(t, Done(th[t])) /\ th[t].pc # "idle"
    BY DEF HugeFail, HugeDallocPut, CallDone, CheckArenas, At, pool
  <1>2. th[t].r = NoChunk /\ th[t].e = NoExt
    <2>1. CASE HugeFail(t)
      BY <2>1, Mine DEF HugeFail, At, ThreadOK, Moving
    <2>2. CASE ~HugeFail(t)
      <3>1. th[t].pc \in Empty
        BY <2>2 DEF HugeDallocPut, CallDone, CheckArenas, At, Empty
      <3> QED BY <3>1, EmptyHands
    <2> QED BY <2>1, <2>2
  <1> QED BY <1>1, <1>2, DoneStep

LEMMA QuietHuge ==
  ASSUME JeInv, NEW t \in Threads
  PROVE  /\ \A o, z : \A n \in Sizes, a \in Aligns \cup {1} : HugeStart(t, o, n, a, z) => JeInv'
         /\ HugeNode(t) => JeInv'
         /\ ArenaGrow(t) => JeInv'
  <1> DEFINE l == th[t]
  <1>a. 1 \in Nat \ {0} /\ Sizes \subseteq Nat \ {0} /\ Aligns \cup {1} \subseteq Nat \ {0}
    BY JeAssumption
  <1>1. ASSUME NEW o, NEW z, NEW n \in Sizes, NEW a \in Aligns \cup {1}, HugeStart(t, o, n, a, z)
        PROVE  JeInv'
    <2>1. /\ UNCHANGED <<live, exts, huge, base, ranges, inarena, mem, used, lost>>
          /\ l.pc = "idle" /\ live
      BY <1>1 DEF HugeStart, Begin, At, pool
    <2>2. PICK m, c : /\ m = [[l EXCEPT !.calls = c] EXCEPT !.pc = "huge_node", !.n = n, !.al = a, !.zero = z]
                      /\ th' = [th EXCEPT ![t] = m]
      BY <1>1, Zenon DEF HugeStart, Step, Entered
    <2>3. /\ l.r = NoChunk /\ l.e = NoExt /\ DOMAIN l = Fields /\ l.k \in Seq(Labels)
          /\ l.n \in Nat /\ l.al \in Nat \ {0} /\ ThreadOK(l)
      BY <2>1, EmptyHands DEF Empty
    <2>4. /\ DOMAIN m = Fields /\ m.pc = "huge_node" /\ m.k = l.k /\ m.n = n /\ m.al = a
          /\ m.r = l.r /\ m.e = l.e /\ m.old = l.old
      BY <2>2, <2>3 DEF Fields
    <2>5. ThreadOK(m)
      BY <2>3, <2>4, <1>a DEF ThreadOK, Labels, Taking, Giving, Moving, Holding, MayHold
    <2> QED BY <2>1, <2>2, <2>3, <2>4, <2>5, EmptyStep DEF Moving
  <1>2. ASSUME HugeNode(t) PROVE JeInv'
    <2>1. /\ UNCHANGED <<live, exts, huge, base, ranges, inarena, mem, used, lost>>
          /\ l.pc = "huge_node"
      BY <1>2 DEF HugeNode, At
    <2>3. /\ l.r = NoChunk /\ l.e = NoExt /\ DOMAIN l = Fields /\ l.k \in Seq(Labels)
          /\ l.n \in Nat /\ l.al \in Nat \ {0} /\ ThreadOK(l)
      BY <2>1, EmptyHands DEF Empty
    <2>4. CASE Step(t, Done(l))
      BY <2>1, <2>3, <2>4, DoneStep
    <2>5. CASE ~Step(t, Done(l))
      <3>1. PICK q, m, h : /\ q = [l EXCEPT !.held = h] /\ m = Call(q, "recycle", "huge_register")
                           /\ th' = [th EXCEPT ![t] = m]
        BY <1>2, <2>5, Zenon DEF HugeNode, Step
      <3>2. DOMAIN q = Fields /\ Keeps(q, l) /\ q.k = l.k
        BY <3>1, <2>3 DEF Fields, Keeps
      <3>3. /\ DOMAIN m = Fields /\ m.pc = "recycle" /\ m.k \in Seq(Labels) /\ m.k # <<>>
            /\ Head(m.k) = "huge_register" /\ Tail(m.k) = q.k /\ Keeps(m, q)
        <4>1. q.k \in Seq(Labels) /\ "huge_register" \in Labels
          BY <2>3, <3>2 DEF Labels, MayHold
        <4>2. PICK p, b : p = "recycle" /\ b = "huge_register" /\ m = Call(q, p, b)
          BY <3>1
        <4>3. b \in Labels
          BY <4>1, <4>2
        <4>4. /\ DOMAIN m = Fields /\ m.pc = p /\ m.k \in Seq(Labels) /\ m.k # <<>>
              /\ Head(m.k) = b /\ Tail(m.k) = q.k /\ Keeps(m, q)
          BY <3>2, <4>1, <4>2, <4>3, CallIs
        <4> QED BY <4>2, <4>4
      <3>4. l.n # 0
        BY <2>1, <2>3 DEF ThreadOK
      <3>5. /\ m.n = l.n /\ m.al = l.al /\ m.r = NoChunk /\ m.e = NoExt /\ m.old = l.old
        BY <3>2, <3>3, <2>3 DEF Keeps
      <3>6. TakeBack(m)
        BY <3>3, <3>4, <3>5 DEF TakeBack
      <3>7. ThreadOK(m)
        BY <3>3, <3>4, <3>5, <3>6, <2>3 DEF ThreadOK, Labels, Taking, Giving, Moving, Holding, MayHold
      <3> QED BY <2>1, <2>3, <3>1, <3>3, <3>5, <3>7, EmptyStep DEF Moving
    <2> QED BY <2>4, <2>5
  <1>3. ASSUME ArenaGrow(t) PROVE JeInv'
    <2>1. /\ UNCHANGED <<live, exts, huge, base, ranges, inarena, mem, used, lost>>
          /\ l.pc = "idle" /\ live
      BY <1>3 DEF ArenaGrow, Begin, At, pool
    <2>3. /\ l.r = NoChunk /\ l.e = NoExt /\ DOMAIN l = Fields /\ l.k \in Seq(Labels)
          /\ l.n \in Nat /\ l.al \in Nat \ {0} /\ ThreadOK(l)
      BY <2>1, EmptyHands DEF Empty
    <2>4. PICK q, m, c : /\ q = [[l EXCEPT !.calls = c] EXCEPT !.n = 1]
                         /\ m = Call(q, "recycle", "arena_register") /\ th' = [th EXCEPT ![t] = m]
      BY <1>3, Zenon DEF ArenaGrow, Step, Entered
    <2>5. /\ DOMAIN q = Fields /\ q.k = l.k /\ q.n = 1 /\ q.al = l.al
          /\ q.r = NoChunk /\ q.e = NoExt /\ q.old = l.old
      BY <2>4, <2>3 DEF Fields
    <2>6. /\ DOMAIN m = Fields /\ m.pc = "recycle" /\ m.k \in Seq(Labels) /\ m.k # <<>>
          /\ Head(m.k) = "arena_register" /\ Tail(m.k) = q.k /\ Keeps(m, q)
      <3>1. q.k \in Seq(Labels) /\ "arena_register" \in Labels
        BY <2>3, <2>5 DEF Labels, MayHold
      <3>2. PICK p, b : p = "recycle" /\ b = "arena_register" /\ m = Call(q, p, b)
        BY <2>4
      <3>3. b \in Labels
        BY <3>1, <3>2
      <3>4. /\ DOMAIN m = Fields /\ m.pc = p /\ m.k \in Seq(Labels) /\ m.k # <<>>
            /\ Head(m.k) = b /\ Tail(m.k) = q.k /\ Keeps(m, q)
        BY <2>5, <3>1, <3>2, <3>3, CallIs
      <3> QED BY <3>2, <3>4
    <2>7. /\ m.n = 1 /\ m.al = l.al /\ m.r = NoChunk /\ m.e = NoExt /\ m.old = l.old
      BY <2>5, <2>6 DEF Keeps
    <2>8. TakeBack(m)
      BY <2>6, <2>7 DEF TakeBack
    <2>9. ThreadOK(m)
      BY <2>3, <2>6, <2>7, <2>8 DEF ThreadOK, Labels, Taking, Giving, Moving, Holding, MayHold
    <2> QED BY <2>1, <2>3, <2>4, <2>6, <2>7, <2>9, EmptyStep DEF Moving
  <1> QED BY <1>1, <1>2, <1>3, Zenon

LEMMA QuietArenas ==
  ASSUME JeInv, NEW t \in Threads
  PROVE  /\ choose_arena_hard(t) => JeInv'
         /\ ArenaNew(t) => JeInv'
         /\ arenas_cleanup(t) => JeInv'
         /\ CleanupArena(t) => JeInv'
  <1> DEFINE l == th[t]
  <1>0. ASSUME l.pc \in Empty, l.pc # "idle" \/ live, NEW c \in Nat \ {0}, NEW b \in {"arena_new", "arena_done"},
               Step(t, Call([l EXCEPT !.c = c], "base", b)),
               UNCHANGED <<live, exts, huge, base, ranges, inarena, mem, used, lost>>
        PROVE  JeInv'
    <2>3. /\ l.r = NoChunk /\ l.e = NoExt /\ DOMAIN l = Fields /\ l.k \in Seq(Labels)
          /\ l.n \in Nat /\ l.al \in Nat \ {0} /\ ThreadOK(l)
      BY <1>0, EmptyHands
    <2>4. PICK q, m : /\ q = [l EXCEPT !.c = c]
                      /\ m = Call(q, "base", b) /\ th' = [th EXCEPT ![t] = m]
      BY <1>0, Zenon DEF Step
    <2>5. /\ DOMAIN q = Fields /\ q.k = l.k /\ q.n = l.n /\ q.al = l.al /\ q.c = c
          /\ q.r = NoChunk /\ q.e = NoExt /\ q.old = l.old
      BY <2>4, <2>3 DEF Fields
    <2>6. /\ DOMAIN m = Fields /\ m.pc = "base" /\ m.k \in Seq(Labels) /\ m.k # <<>>
          /\ Head(m.k) = b /\ Tail(m.k) = q.k /\ Keeps(m, q)
      <3>1. q.k \in Seq(Labels) /\ b \in Labels
        BY <2>3, <2>5, <1>0 DEF Labels
      <3>2. PICK p : p = "base" /\ m = Call(q, p, b)
        BY <2>4
      <3>3. /\ DOMAIN m = Fields /\ m.pc = p /\ m.k \in Seq(Labels) /\ m.k # <<>>
            /\ Head(m.k) = b /\ Tail(m.k) = q.k /\ Keeps(m, q)
        BY <2>5, <3>1, <3>2, CallIs
      <3> QED BY <3>2, <3>3
    <2>7. /\ m.n = l.n /\ m.al = l.al /\ m.r = NoChunk /\ m.e = NoExt /\ m.old = l.old /\ m.c = c
      BY <2>5, <2>6 DEF Keeps
    <2>8. BaseBack(m.k)
      BY <2>6, <1>0 DEF BaseBack
    <2>9. ThreadOK(m)
      BY <2>3, <2>6, <2>7, <2>8 DEF ThreadOK, Labels, Taking, Giving, Moving, Holding, MayHold
    <2> QED BY <1>0, <2>3, <2>4, <2>6, <2>7, <2>9, EmptyStep DEF Moving
  <1>1. ASSUME choose_arena_hard(t) PROVE JeInv'
    <2>1. /\ UNCHANGED <<live, exts, huge, base, ranges, inarena, mem, used, lost>>
          /\ l.pc = "idle" /\ live
      BY <1>1 DEF choose_arena_hard, Begin, At
    <2>2. CASE Step(t, Call([l EXCEPT !.c = ArenaUnits], "base", "arena_new"))
      BY <2>1, <2>2, <1>0, JeAssumption DEF Empty
    <2>3. CASE ~Step(t, Call([l EXCEPT !.c = ArenaUnits], "base", "arena_new"))
      <3>1. PICK a, m : m = [l EXCEPT !.arena = a] /\ th' = [th EXCEPT ![t] = m]
        BY <1>1, <2>3, Zenon DEF choose_arena_hard, Step
      <3>3. /\ l.r = NoChunk /\ l.e = NoExt /\ DOMAIN l = Fields /\ l.k \in Seq(Labels)
            /\ l.n \in Nat /\ l.al \in Nat \ {0} /\ ThreadOK(l)
        BY <2>1, EmptyHands DEF Empty
      <3>4. /\ DOMAIN m = Fields /\ m.k = l.k /\ m.n = l.n /\ m.al = l.al /\ m.pc = "idle"
            /\ m.r = NoChunk /\ m.e = NoExt /\ m.old = l.old /\ l.old = NoExt
        BY <3>1, <3>3, <2>1 DEF Fields, ThreadOK
      <3>5. ThreadOK(m)
        BY <3>3, <3>4, RestingOK
      <3> QED BY <2>1, <3>1, <3>3, <3>4, <3>5, EmptyStep DEF Moving
    <2> QED BY <2>2, <2>3
  <1>2. ASSUME ArenaNew(t) PROVE JeInv'
    <2>1. /\ UNCHANGED <<live, exts, huge, base, ranges, inarena, mem, used, lost>>
          /\ l.pc \in {"arena_new", "arena_done"}
      BY <1>2 DEF ArenaNew
    <2>2. CASE Step(t, Call([l EXCEPT !.c = 1], "base", "arena_done"))
      BY <2>1, <2>2, <1>0 DEF Empty
    <2>3. CASE ~Step(t, Call([l EXCEPT !.c = 1], "base", "arena_done"))
      <3>1. PICK a, m : m = [Done(l) EXCEPT !.arena = a] /\ th' = [th EXCEPT ![t] = m]
        BY <1>2, <2>3, Zenon DEF ArenaNew, Step
      <3>3. /\ l.r = NoChunk /\ l.e = NoExt
        BY <2>1, EmptyHands DEF Empty
      <3>4. /\ DOMAIN m = Fields /\ m.pc = "idle" /\ m.k = <<>> /\ m.n = 0 /\ m.al = 1
            /\ m.r = NoChunk /\ m.e = NoExt /\ m.old = NoExt
        BY <3>1, DoneIs DEF Fields
      <3>5. m.k \in Seq(Labels) /\ m.n \in Nat /\ m.al \in Nat \ {0}
        BY <3>4
      <3>6. ThreadOK(m)
        BY <3>4, <3>5, RestingOK
      <3> QED BY <2>1, <3>1, <3>3, <3>4, <3>6, EmptyStep DEF Moving
    <2> QED BY <2>2, <2>3
  <1>3. ASSUME arenas_cleanup(t) PROVE JeInv'
    <2>1. /\ UNCHANGED <<live, exts, huge, base, ranges, inarena, mem, used, lost>>
          /\ l.pc = "idle" /\ live
      BY <1>3 DEF arenas_cleanup, At
    <2>2. PICK m : m = [l EXCEPT !.pc = "cleanup"] /\ th' = [th EXCEPT ![t] = m]
      BY <1>3 DEF arenas_cleanup, Step
    <2>3. /\ l.r = NoChunk /\ l.e = NoExt /\ DOMAIN l = Fields /\ l.k \in Seq(Labels)
          /\ l.n \in Nat /\ l.al \in Nat \ {0} /\ ThreadOK(l)
      BY <2>1, EmptyHands DEF Empty
    <2>4. /\ DOMAIN m = Fields /\ m.k = l.k /\ m.n = l.n /\ m.al = l.al /\ m.pc = "cleanup"
          /\ m.r = NoChunk /\ m.e = NoExt /\ m.old = l.old /\ l.old = NoExt
      BY <2>1, <2>2, <2>3 DEF Fields, ThreadOK
    <2>5. ThreadOK(m)
      BY <2>3, <2>4, RestingOK
    <2> QED BY <2>1, <2>2, <2>3, <2>4, <2>5, EmptyStep DEF Moving
  <1>4. ASSUME CleanupArena(t) PROVE JeInv'
    <2>1. /\ UNCHANGED <<live, exts, huge, base, ranges, inarena, mem, used, lost>>
          /\ l.pc = "cleanup"
      BY <1>4 DEF CleanupArena, At
    <2>2. PICK m, c : m = [Idle EXCEPT !.pc = "exited", !.calls = c] /\ th' = [th EXCEPT ![t] = m]
      BY <1>4, Zenon DEF CleanupArena, Step
    <2>3. /\ l.r = NoChunk /\ l.e = NoExt
      BY <2>1, EmptyHands DEF Empty
    <2>4. /\ DOMAIN m = Fields /\ m.k = <<>> /\ m.n = 0 /\ m.al = 1 /\ m.pc = "exited"
          /\ m.r = NoChunk /\ m.e = NoExt /\ m.old = NoExt
      BY <2>2, IdleIs DEF Fields
    <2>5. m.k \in Seq(Labels) /\ m.n \in Nat /\ m.al \in Nat \ {0}
      BY <2>4
    <2>6. ThreadOK(m)
      BY <2>4, <2>5, RestingOK
    <2> QED BY <2>1, <2>2, <2>3, <2>4, <2>6, EmptyStep DEF Moving
  <1> QED BY <1>1, <1>2, <1>3, <1>4

LEMMA QuietCheck ==
  ASSUME JeInv, NEW t \in Threads, je_pool_check(t) \/ CheckChunks(t)
  PROVE  JeInv'
  <1> DEFINE l == th[t]
  <1>1. /\ UNCHANGED <<live, exts, huge, base, ranges, inarena, mem, used, lost>>
        /\ l.pc \in {"idle", "check_chunks"} /\ (l.pc # "idle" \/ live)
    BY DEF je_pool_check, CheckChunks, Begin, At
  <1>2. /\ l.r = NoChunk /\ l.e = NoExt /\ DOMAIN l = Fields /\ l.k \in Seq(Labels)
        /\ l.n \in Nat /\ l.al \in Nat \ {0} /\ ThreadOK(l)
    BY <1>1, EmptyHands DEF Empty
  <1>3. CASE \E x : Step(t, Done(x))
    BY <1>1, <1>2, <1>3, DoneStep
  <1>4. CASE ~ \E x : Step(t, Done(x))
    <2>1. PICK m, c, p :
             /\ p = "check_chunks" \/ p = "check_arenas"
             /\ m = [l EXCEPT !.pc = p] \/ m = [[l EXCEPT !.calls = c] EXCEPT !.pc = p]
             /\ th' = [th EXCEPT ![t] = m]
      BY <1>4, Zenon DEF je_pool_check, CheckChunks, Step, Entered
    <2>2. /\ DOMAIN m = Fields /\ m.k = l.k /\ m.n = l.n /\ m.al = l.al /\ m.pc = p
          /\ m.r = NoChunk /\ m.e = NoExt /\ m.old = l.old
      BY <2>1, <1>2 DEF Fields
    <2>3. ThreadOK(m)
      BY <1>2, <2>1, <2>2 DEF ThreadOK, Labels, Taking, Giving, Moving, Holding, MayHold
    <2> QED BY <1>1, <1>2, <2>1, <2>2, <2>3, EmptyStep DEF Moving
  <1> QED BY <1>3, <1>4

LEMMA QuietClaims ==
  ASSUME JeInv, NEW t \in Threads
  PROVE  /\ HugeRegister(t) => JeInv'
         /\ \A h \in huge, n \in Sizes : je_pool_ralloc(t, h, n) => JeInv'
         /\ \A h \in huge : je_pool_free(t, h) => JeInv'
  <1> DEFINE l == th[t]
  <1>m. /\ ThreadOK(l) /\ (l.pc # "idle" \/ live => ranges # {})
        /\ Claim(l) \subseteq huge /\ \A s \in Threads \ {t} : Claim(l) \cap Claim(th[s]) = {}
    BY Mine
  <1>a. Sizes \subseteq Nat \ {0}
    BY JeAssumption
  <1>1. ASSUME HugeRegister(t) PROVE JeInv'
    <2>1. PICK m : /\ m = [l EXCEPT !.pc = "huge_insert"] /\ th' = [th EXCEPT ![t] = m]
                   /\ l.pc = "huge_register" /\ l.r # NoChunk
      BY <1>1 DEF HugeRegister, Step, At
    <2>2. UNCHANGED <<live, exts, huge, base, ranges, inarena, mem, used, lost>>
      BY <1>1 DEF HugeRegister
    <2>3. /\ DOMAIN m = Fields /\ Keeps(m, l) /\ m.k = l.k /\ m.pc = "huge_insert"
      BY <2>1, <1>m DEF ThreadOK, Fields, Keeps
    <2>4. ThreadOK(m) /\ l.e = NoExt
      BY <2>1, <2>3, <1>m DEF ThreadOK, Labels, Taking, Giving, Moving, Holding, MayHold, Keeps
    <2>5. Taken(m) = Taken(l) /\ Moved(m) = Moved(l) /\ Claim(m) = Claim(l) /\ m.zero = l.zero
      BY <2>1, <2>3 DEF Taken, Moved, Claim, Keeps
    <2>6. m.pc \notin Moving /\ ranges # {}
      BY <2>1, <2>3, <1>m DEF Moving
    <2> QED BY <1>m, <2>1, <2>2, <2>4, <2>5, <2>6, QuietStep
  <1>2. ASSUME NEW h \in huge, NEW n \in Sizes, je_pool_ralloc(t, h, n) PROVE JeInv'
    <2>1. /\ UNCHANGED <<live, exts, huge, base, ranges, inarena, mem, used, lost>>
          /\ l.pc = "idle" /\ live /\ \A s \in Threads : th[s].e # h /\ th[s].old # h
      BY <1>2 DEF je_pool_ralloc, Begin, At, pool
    <2>2. /\ l.r = NoChunk /\ l.e = NoExt /\ DOMAIN l = Fields /\ l.k \in Seq(Labels)
          /\ l.n \in Nat /\ l.al \in Nat \ {0} /\ ThreadOK(l)
      BY <2>1, EmptyHands DEF Empty
    <2>3. CASE Step(t, Done(Entered(t)))
      BY <2>1, <2>2, <2>3, DoneStep
    <2>4. CASE ~Step(t, Done(Entered(t)))
      <3>1. PICK m, c : /\ m = [[l EXCEPT !.calls = c] EXCEPT !.pc = "huge_node", !.n = n, !.old = h]
                        /\ th' = [th EXCEPT ![t] = m]
        BY <1>2, <2>4, Zenon DEF je_pool_ralloc, Step, Entered
      <3>2. /\ DOMAIN m = Fields /\ m.pc = "huge_node" /\ m.k = l.k /\ m.n = n /\ m.al = l.al
            /\ m.r = NoChunk /\ m.e = NoExt /\ m.old = h
        BY <3>1, <2>2 DEF Fields
      <3>3. ThreadOK(m)
        BY <3>2, <2>2, <1>a DEF ThreadOK, Labels, Taking, Giving, Moving, Holding, MayHold
      <3>4. Taken(m) = {} /\ Moved(m) = {} /\ Taken(l) = {} /\ Moved(l) = {}
        BY <3>2, <2>2, NoHands
      <3>5. Claim(m) \subseteq {h}
        BY <3>2 DEF Claim
      <3>6. \A s \in Threads \ {t} : Claim(m) \cap Claim(th[s]) = {}
        <4>1. \A s \in Threads \ {t} : h \notin Claim(th[s])
          BY <2>1 DEF Claim
        <4> QED BY <3>5, <4>1
      <3>7. ranges # {} /\ Claim(m) \subseteq huge /\ m.pc \notin Moving
        BY <3>2, <3>5, <2>1, <1>m DEF Moving
      <3> QED BY <2>1, <3>1, <3>2, <3>3, <3>4, <3>6, <3>7, QuietStep
    <2> QED BY <2>3, <2>4
  <1>3. ASSUME NEW h \in huge, je_pool_free(t, h) PROVE JeInv'
    <2>1. /\ UNCHANGED <<live, exts, huge, base, ranges, inarena, mem, used, lost>>
          /\ l.pc = "idle" /\ live /\ \A s \in Threads : th[s].e # h /\ th[s].old # h
      BY <1>3 DEF je_pool_free, Begin, At, pool
    <2>2. /\ l.r = NoChunk /\ l.e = NoExt /\ DOMAIN l = Fields /\ l.k \in Seq(Labels)
          /\ l.n \in Nat /\ l.al \in Nat \ {0} /\ ThreadOK(l)
      BY <2>1, EmptyHands DEF Empty
    <2>o. l.old = NoExt
      BY <2>1, <2>2 DEF ThreadOK
    <2>3. PICK m, c : /\ m = [[l EXCEPT !.calls = c] EXCEPT !.pc = "free", !.e = h]
                      /\ th' = [th EXCEPT ![t] = m]
      BY <1>3, Zenon DEF je_pool_free, Step, Entered
    <2>4. /\ DOMAIN m = Fields /\ m.pc = "free" /\ m.k = l.k /\ m.n = l.n /\ m.al = l.al
          /\ m.r = NoChunk /\ m.e = h /\ m.old = NoExt
      BY <2>3, <2>2, <2>o DEF Fields
    <2>5. ThreadOK(m)
      BY <2>4, <2>2, <1>a DEF ThreadOK, Labels, Taking, Giving, Moving, Holding, MayHold
    <2>6. Taken(m) = {} /\ Moved(m) = {} /\ Claim(m) = {h}
      BY <2>4 DEF Taken, Moved, Claim
    <2>7. Taken(l) = {} /\ Moved(l) = {}
      BY <2>2, NoHands
    <2>8. \A s \in Threads \ {t} : Claim(m) \cap Claim(th[s]) = {}
      <3>1. \A s \in Threads \ {t} : h \notin Claim(th[s])
        BY <2>1 DEF Claim
      <3> QED BY <2>6, <3>1
    <2>9. ranges # {} /\ Claim(m) \subseteq huge /\ m.pc \notin Moving
      BY <2>4, <2>6, <2>1, <1>m DEF Moving
    <2> QED BY <2>1, <2>3, <2>4, <2>5, <2>6, <2>7, <2>8, <2>9, QuietStep
  <1> QED BY <1>1, <1>2, <1>3, Zenon

\* Steps that leave the chunks, the threads and base memory alone.
LEMMA QuietPool ==
  ASSUME JeInv, live' => live,
         UNCHANGED <<exts, huge, base, ranges, inarena, mem, th, used, lost>>
  PROVE  JeInv'
  <1>0. Shape /\ Claims /\ Inside /\ BaseRest /\ Accounted /\ Zeroed
    BY DEF JeInv
  <1>1. Shape'
    BY <1>0 DEF Shape
  <1>2. Claims' /\ Inside' /\ BaseRest'
    BY <1>0 DEF Claims, Inside, BaseRest, Usable, BaseChunks
  <1>3. Accounted'
    BY <1>0 DEF Accounted, OneOwner, FreeAt, HugeAt, TakenAt, MovedAt, ArenaAt, BaseAt, LostAt,
                At, Usable, BaseChunks
  <1>4. Zeroed'
    BY <1>0 DEF Zeroed
  <1> QED BY <1>1, <1>2, <1>3, <1>4 DEF JeInv

-----------------------------------------------------------------------------
(* Steps that hand chunks over.                                            *)

\* The chunks outside T stay where they are; those of T get a new owner.
LEMMA OwnersMove ==
  ASSUME JeInv, NEW t \in Threads, NEW m, th' = [th EXCEPT ![t] = m], ranges' = ranges, NEW T,
         \A c \in Usable \ T : /\ c \in Taken(m) <=> c \in Taken(th[t])
                               /\ c \in Moved(m) <=> c \in Moved(th[t]),
         \A c \in Usable \ T : /\ FreeAt(c)' = FreeAt(c) /\ HugeAt(c)' = HugeAt(c)
                               /\ ArenaAt(c)' = ArenaAt(c) /\ BaseAt(c)' = BaseAt(c)
                               /\ LostAt(c)' = LostAt(c),
         \A c \in Usable \cap T : OneOwner(c)'
  PROVE  Accounted'
  <1>0. Shape /\ Accounted
    BY DEF JeInv
  <1>1. Usable' = Usable
    BY DEF Usable
  <1> SUFFICES ASSUME NEW c \in Usable PROVE OneOwner(c)'
    BY <1>1 DEF Accounted
  <1>2. CASE c \in T
    BY <1>2
  <1>3. CASE c \notin T
    <2>1. c \in Usable \ T
      BY <1>3
    <2>2. /\ c \in Taken(m) <=> c \in Taken(th[t])
          /\ c \in Moved(m) <=> c \in Moved(th[t])
      BY <2>1
    <2>3. TakenAt(c)' = TakenAt(c) /\ MovedAt(c)' = MovedAt(c)
      BY <1>0, <2>2, Hands
    <2>4. /\ FreeAt(c)' = FreeAt(c) /\ HugeAt(c)' = HugeAt(c)
          /\ ArenaAt(c)' = ArenaAt(c) /\ BaseAt(c)' = BaseAt(c) /\ LostAt(c)' = LostAt(c)
      BY <2>1
    <2>5. OneOwner(c)
      BY <1>0 DEF Accounted
    <2> QED BY <2>3, <2>4, <2>5 DEF OneOwner
  <1> QED BY <1>2, <1>3

\* What a thread has in its hands, nobody else has.
LEMMA HandsOnly ==
  ASSUME JeInv, NEW t \in Threads, NEW c
  PROVE  /\ c \in Taken(th[t]) => /\ FreeAt(c) = {} /\ HugeAt(c) = {} /\ TakenAt(c) = {t}
                                  /\ MovedAt(c) = {} /\ ArenaAt(c) = {} /\ BaseAt(c) = {}
                                  /\ LostAt(c) = {} /\ c \in Usable
         /\ c \in Moved(th[t]) => /\ FreeAt(c) = {} /\ HugeAt(c) = {} /\ TakenAt(c) = {}
                                  /\ MovedAt(c) = {t} /\ ArenaAt(c) = {} /\ BaseAt(c) = {}
                                  /\ LostAt(c) = {} /\ c \in Usable
  <1>1. (c \in Taken(th[t]) => c \in Usable) /\ (c \in Moved(th[t]) => c \in Usable)
    BY DEF JeInv, Inside
  <1>2. c \in Usable => OneOwner(c)
    BY DEF JeInv, Accounted
  <1>3. (t \in TakenAt(c) <=> c \in Taken(th[t])) /\ (t \in MovedAt(c) <=> c \in Moved(th[t]))
    BY DEF TakenAt, MovedAt, Taken, Moved, At
  <1> QED BY <1>1, <1>2, <1>3, OwnerIs

\* Chunks that are written to are nobody else's.
LEMMA MemShrinks ==
  ASSUME JeInv, NEW t \in Threads, NEW S, NEW h, mem \ S \subseteq mem',
         \A c \in S : /\ FreeAt(c) = {} /\ HugeAt(c) \subseteq {h}
                      /\ TakenAt(c) \subseteq {t} /\ MovedAt(c) \subseteq {t}
  PROVE  /\ \A x \in exts : x.z => Chunks(x) \subseteq mem'
         /\ \A x \in huge \ {h} : x.z => Chunks(x) \subseteq mem'
         /\ \A s \in Threads \ {t} : /\ th[s].pc \in Moving /\ th[s].e.z => Chunks(th[s].e) \subseteq mem'
                                     /\ th[s].r # NoChunk /\ th[s].zero => Taken(th[s]) \subseteq mem'
  <1>0. Zeroed
    BY DEF JeInv
  <1>1. ASSUME NEW x \in exts, x.z PROVE Chunks(x) \subseteq mem'
    <2>1. \A c \in S : c \notin Chunks(x)
      BY DEF FreeAt
    <2>2. Chunks(x) \subseteq mem
      BY <1>0, <1>1, Zenon DEF Zeroed
    <2> QED BY <2>1, <2>2
  <1>2. ASSUME NEW x \in huge \ {h}, x.z PROVE Chunks(x) \subseteq mem'
    <2>1. \A c \in S : c \notin Chunks(x)
      BY DEF HugeAt
    <2>2. Chunks(x) \subseteq mem
      BY <1>0, <1>2, Zenon DEF Zeroed
    <2> QED BY <2>1, <2>2
  <1>3. ASSUME NEW s \in Threads \ {t}, th[s].pc \in Moving, th[s].e.z PROVE Chunks(th[s].e) \subseteq mem'
    <2>1. \A c \in S : c \notin Chunks(th[s].e)
      BY <1>3 DEF MovedAt, At, Moving
    <2>2. Chunks(th[s].e) \subseteq mem
      BY <1>0, <1>3, Zenon DEF Zeroed
    <2> QED BY <2>1, <2>2
  <1>4. ASSUME NEW s \in Threads \ {t}, th[s].r # NoChunk, th[s].zero PROVE Taken(th[s]) \subseteq mem'
    <2>1. \A c \in S : c \notin Taken(th[s])
      BY <1>4 DEF TakenAt, Taken
    <2>2. Taken(th[s]) \subseteq mem
      BY <1>0, <1>4, Zenon DEF Zeroed
    <2> QED BY <2>1, <2>2
  <1> QED BY <1>1, <1>2, <1>3, <1>4, Zenon

LEMMA HandOver ==
  ASSUME JeInv, NEW t \in Threads, NEW m, th' = [th EXCEPT ![t] = m], ThreadOK(m),
         ranges' = ranges, live' = live, ranges # {},
         \A x \in exts' : ExtOK(x) /\ Chunks(x) \subseteq Usable,
         \A x \in exts' : x.z => Chunks(x) \subseteq mem',
         \A x \in huge' : ExtOK(x) /\ Chunks(x) \subseteq Usable,
         \A x \in huge' : x.z => Chunks(x) \subseteq mem',
         \A s \in Threads \ {t} : Claim(th[s]) \subseteq huge',
         Claim(m) \subseteq huge', \A s \in Threads \ {t} : Claim(m) \cap Claim(th[s]) = {},
         Taken(m) \subseteq Usable, Moved(m) \subseteq Usable, inarena' \subseteq Usable \cap Nat,
         m.pc \in Moving /\ m.e.z => Chunks(m.e) \subseteq mem',
         m.r # NoChunk /\ m.zero => Taken(m) \subseteq mem',
         \A s \in Threads \ {t} : /\ th[s].pc \in Moving /\ th[s].e.z => Chunks(th[s].e) \subseteq mem'
                                  /\ th[s].r # NoChunk /\ th[s].zero => Taken(th[s]) \subseteq mem',
         BaseRest', Accounted'
  PROVE  JeInv'
  <1>0. Shape /\ Claims /\ Inside /\ Zeroed
    BY DEF JeInv
  <1>1. Shape' /\ th'[t] = m /\ \A s \in Threads \ {t} : th'[s] = th[s]
    <2>1. (\A x \in exts' : ExtOK(x)) /\ \A x \in huge' : ExtOK(x)
      OBVIOUS
    <2> QED BY <1>0, <2>1, ShapeStep
  <1>2. Claims'
    BY <1>0, <1>1, ClaimStep
  <1>3. Inside'
    <2>1. (\A x \in exts' : Chunks(x) \subseteq Usable) /\ \A x \in huge' : Chunks(x) \subseteq Usable
      OBVIOUS
    <2> QED BY <1>0, <1>1, <2>1, InsideStep
  <1>4. Zeroed'
    BY <1>0, <1>1, ZeroStep
  <1> QED BY <1>1, <1>2, <1>3, <1>4 DEF JeInv

\* What the threads other than t need, when huge and mem stay.
LEMMA Others ==
  ASSUME JeInv
  PROVE  /\ \A x \in exts : /\ ExtOK(x) /\ Chunks(x) \subseteq Usable
                            /\ x.z => Chunks(x) \subseteq mem
         /\ \A x \in huge : /\ ExtOK(x) /\ Chunks(x) \subseteq Usable
                            /\ x.z => Chunks(x) \subseteq mem
         /\ inarena \subseteq Usable \cap Nat
         /\ \A s \in Threads : Claim(th[s]) \subseteq huge
         /\ \A s \in Threads : /\ th[s].pc \in Moving /\ th[s].e.z => Chunks(th[s].e) \subseteq mem
                               /\ th[s].r # NoChunk /\ th[s].zero => Taken(th[s]) \subseteq mem
         /\ \A s \in Threads : Taken(th[s]) \subseteq Usable /\ Moved(th[s]) \subseteq Usable
  BY Zenon DEF JeInv, Shape, Claims, Inside, Zeroed

LEMMA BaseKept ==
  ASSUME JeInv, UNCHANGED <<base, used, ranges>>
  PROVE  BaseRest'
  BY DEF JeInv, BaseRest, Usable, BaseChunks

LEMMA TrailInsertKeeps ==
  ASSUME JeInv, NEW t \in Threads, TrailInsert(t)
  PROVE  JeInv'
  <1> DEFINE l == th[t]
  <1>m. /\ ThreadOK(l) /\ (l.pc # "idle" \/ live => ranges # {})
        /\ Claim(l) \subseteq huge /\ \A s \in Threads \ {t} : Claim(l) \cap Claim(th[s]) = {}
    BY Mine
  <1>u. UNCHANGED <<live, huge, base, ranges, inarena, mem, used, lost>>
    BY DEF TrailInsert
  <1>1. PICK q, m, h : /\ q = [l EXCEPT !.e = NoExt, !.held = h] /\ m = Return(q)
                       /\ l.pc = "trail_insert" /\ th' = [th EXCEPT ![t] = m] /\ exts' = exts \cup {l.e}
    BY Zenon DEF TrailInsert, Step, At
  <1>2. /\ DOMAIN q = Fields /\ q.k = l.k /\ q.n = l.n /\ q.al = l.al /\ q.r = l.r /\ q.e = NoExt
        /\ q.zero = l.zero /\ q.old = l.old /\ q.c = l.c
    BY <1>1, <1>m DEF ThreadOK, Fields
  <1>3. /\ TakeBack(l) /\ l.k \in Seq(Labels) /\ l.n \in Nat /\ l.al \in Nat \ {0}
        /\ l.r \in Nat \cup {NoChunk} /\ l.r # NoChunk /\ ExtOK(l.e)
    BY <1>1, <1>m DEF ThreadOK, Taking, Holding, Moving
  <1>4. TakeBack(q)
    BY <1>2, <1>3 DEF TakeBack, BaseSize
  <1>5. /\ ThreadOK(m) /\ Keeps(m, q) /\ Taken(m) = Taken(q) /\ Moved(m) = {}
        /\ m.pc \in {"huge_register", "arena_register", "base_pages"}
        /\ Claim(m) = {x \in {q.old} : x # NoExt}
    BY <1>1, <1>2, <1>3, <1>4, TakeReturns
  <1>6. /\ Taken(m) = Taken(l) /\ Claim(m) \subseteq Claim(l) /\ m.zero = l.zero
        /\ Moved(l) = Chunks(l.e) /\ m.r = l.r /\ m.pc \notin Moving
    BY <1>1, <1>2, <1>5 DEF Keeps, Taken, Claim, Moved, Moving
  <1>o. /\ \A x \in exts : /\ ExtOK(x) /\ Chunks(x) \subseteq Usable
                           /\ x.z => Chunks(x) \subseteq mem
        /\ \A x \in huge : /\ ExtOK(x) /\ Chunks(x) \subseteq Usable
                           /\ x.z => Chunks(x) \subseteq mem
        /\ inarena \subseteq Usable \cap Nat
        /\ \A s \in Threads : Claim(th[s]) \subseteq huge
        /\ \A s \in Threads : /\ th[s].pc \in Moving /\ th[s].e.z => Chunks(th[s].e) \subseteq mem
                              /\ th[s].r # NoChunk /\ th[s].zero => Taken(th[s]) \subseteq mem
        /\ \A s \in Threads : Taken(th[s]) \subseteq Usable /\ Moved(th[s]) \subseteq Usable
    BY Others, Zenon
  <1>7. Accounted'
    <2>0. PICK T : T = Chunks(l.e)
      OBVIOUS
    <2>1. ASSUME NEW c
          PROVE  /\ HugeAt(c)' = HugeAt(c) /\ ArenaAt(c)' = ArenaAt(c) /\ BaseAt(c)' = BaseAt(c)
                 /\ LostAt(c)' = LostAt(c)
      BY <1>u DEF HugeAt, ArenaAt, BaseAt, LostAt, BaseChunks
    <2>2. ASSUME NEW c PROVE FreeAt(c)' = IF c \in T THEN FreeAt(c) \cup {l.e} ELSE FreeAt(c)
      BY <1>1, <2>0 DEF FreeAt
    <2>3. ASSUME NEW c \in Usable \cap T PROVE OneOwner(c)'
      <3>1. /\ FreeAt(c) = {} /\ HugeAt(c) = {} /\ TakenAt(c) = {} /\ MovedAt(c) = {t}
            /\ ArenaAt(c) = {} /\ BaseAt(c) = {} /\ LostAt(c) = {}
        BY <1>6, <2>0, HandsOnly
      <3>2. FreeAt(c)' = {l.e}
        BY <2>2, <3>1
      <3>3. TakenAt(c)' = {} /\ MovedAt(c)' = {}
        BY <1>1, <1>5, <1>6, <3>1, Hands DEF JeInv
      <3> QED BY <2>1, <3>1, <3>2, <3>3 DEF OneOwner, Solo
    <2>4. \A c \in Usable \ T : /\ c \in Taken(m) <=> c \in Taken(th[t])
                                /\ c \in Moved(m) <=> c \in Moved(th[t])
      BY <1>5, <1>6, <2>0
    <2>5. \A c \in Usable \ T : /\ FreeAt(c)' = FreeAt(c) /\ HugeAt(c)' = HugeAt(c)
                                /\ ArenaAt(c)' = ArenaAt(c) /\ BaseAt(c)' = BaseAt(c)
                                /\ LostAt(c)' = LostAt(c)
      BY <2>1, <2>2
    <2> QED BY <1>1, <1>u, <2>3, <2>4, <2>5, OwnersMove
  <1>8. BaseRest'
    BY <1>u, BaseKept
  <1>9. (\A x \in exts' : ExtOK(x) /\ Chunks(x) \subseteq Usable) /\ \A x \in exts' : x.z => Chunks(x) \subseteq mem'
    <2>1. Chunks(l.e) \subseteq Usable /\ (l.e.z => Chunks(l.e) \subseteq mem)
      BY <1>o, <1>1, <1>6, Zenon DEF Moving
    <2> QED BY <1>o, <1>1, <1>3, <1>u, <2>1
  <1>10. Claim(m) \subseteq huge' /\ \A s \in Threads \ {t} : Claim(m) \cap Claim(th[s]) = {}
    BY <1>m, <1>6, <1>u
  <1>11. Taken(m) \subseteq Usable /\ Moved(m) \subseteq Usable /\ inarena' \subseteq Usable \cap Nat /\ ranges # {}
    BY <1>o, <1>5, <1>6, <1>u, <1>m, <1>1
  <1>12. m.r # NoChunk /\ m.zero => Taken(m) \subseteq mem'
    BY <1>o, <1>6, <1>u
  <1>13. th' = [th EXCEPT ![t] = m] /\ ThreadOK(m) /\ ranges' = ranges /\ live' = live
    BY <1>1, <1>5, <1>u
  <1>14. /\ \A x \in huge' : ExtOK(x) /\ Chunks(x) \subseteq Usable
         /\ \A x \in huge' : x.z => Chunks(x) \subseteq mem'
    BY <1>o, <1>u
  <1>15. \A s \in Threads \ {t} : Claim(th[s]) \subseteq huge'
    BY <1>o, <1>u
  <1>16. m.pc \in Moving /\ m.e.z => Chunks(m.e) \subseteq mem'
    BY <1>6
  <1>17. \A s \in Threads \ {t} : /\ th[s].pc \in Moving /\ th[s].e.z => Chunks(th[s].e) \subseteq mem'
                                  /\ th[s].r # NoChunk /\ th[s].zero => Taken(th[s]) \subseteq mem'
    BY <1>o, <1>u
  <1> HIDE DEF l
  <1> QED BY <1>7, <1>8, <1>9, <1>10, <1>11, <1>12, <1>13, <1>14, <1>15, <1>16, <1>17, HandOver

LEMMA TrailNodeKeeps ==
  ASSUME JeInv, NEW t \in Threads, TrailNode(t)
  PROVE  JeInv'
  <1> DEFINE l == th[t]
  <1>m. /\ ThreadOK(l) /\ (l.pc # "idle" \/ live => ranges # {})
        /\ Claim(l) \subseteq huge /\ \A s \in Threads \ {t} : Claim(l) \cap Claim(th[s]) = {}
    BY Mine
  <1>u. UNCHANGED <<live, exts, huge, base, ranges, inarena, mem, used>> /\ l.pc = "trail_node"
    BY DEF TrailNode, At
  <1>3. /\ TakeBack(l) /\ l.k \in Seq(Labels) /\ l.n \in Nat /\ l.al \in Nat \ {0} /\ l.n # 0
        /\ l.r \in Nat /\ l.r # NoChunk /\ ExtOK(l.e) /\ DOMAIN l = Fields /\ ranges # {}
    BY <1>u, <1>m DEF ThreadOK, Taking, Holding, Moving
  <1>1. CASE nodes > 0
    <2>1. PICK m, h : m = [l EXCEPT !.pc = "trail_insert", !.held = h] /\ th' = [th EXCEPT ![t] = m]
      BY <1>1, Zenon DEF TrailNode, Step
    <2>l. lost' = lost
      BY <1>1 DEF TrailNode
    <2>2. DOMAIN m = Fields /\ Keeps(m, l) /\ m.k = l.k /\ m.pc = "trail_insert"
      BY <2>1, <1>3 DEF Fields, Keeps
    <2>3. TakeBack(m)
      BY <2>2, <1>3 DEF TakeBack, BaseSize, Keeps
    <2>4. ThreadOK(m)
      BY <2>2, <2>3, <1>3 DEF ThreadOK, Labels, Taking, Giving, Moving, Holding, MayHold, Keeps
    <2>5. Taken(m) = Taken(l) /\ Moved(m) = Moved(l) /\ Claim(m) = Claim(l) /\ m.zero = l.zero
          /\ m.e = l.e /\ l.pc \in Moving
      BY <1>u, <2>2 DEF Taken, Moved, Claim, Keeps, Moving
    <2> QED BY <1>m, <1>u, <1>3, <2>1, <2>l, <2>4, <2>5, QuietStep
  <1>2. CASE ~(nodes > 0)
    <2>1. PICK m, x, z : /\ x = [a |-> l.r, n |-> l.n, z |-> z] /\ ~z
                         /\ m = [l EXCEPT !.pc = "dalloc", !.r = NoChunk, !.e = x]
                         /\ th' = [th EXCEPT ![t] = m] /\ lost' = lost \cup Chunks(l.e)
      BY <1>2, Zenon DEF TrailNode, Step
    <2>t. Shape /\ th' = [th EXCEPT ![t] = m]
      BY <2>1 DEF JeInv
    <2>2. /\ DOMAIN m = Fields /\ m.k = l.k /\ m.pc = "dalloc" /\ m.n = l.n /\ m.al = l.al
          /\ m.r = NoChunk /\ m.e = x /\ m.old = l.old /\ m.c = l.c
          /\ x.a = l.r /\ x.n = l.n /\ x.z = z /\ DOMAIN x = {"a", "n", "z"}
      BY <2>1, <1>3 DEF Fields
    <2>3. GiveBack(m) /\ ExtOK(x)
      BY <2>2, <1>3 DEF GiveBack, TakeBack, BaseSize, ExtOK
    <2>4. ThreadOK(m)
      BY <2>2, <2>3, <1>3 DEF ThreadOK, Labels, Taking, Giving, Moving, Holding, MayHold
    <2>5. Taken(m) = {} /\ Moved(m) = Taken(l) /\ Claim(m) = Claim(l) /\ Moved(l) = Chunks(l.e)
      BY <1>u, <2>2, <1>3 DEF Taken, Moved, Claim, Chunks
    <2>o. /\ \A y \in exts : /\ ExtOK(y) /\ Chunks(y) \subseteq Usable
                             /\ y.z => Chunks(y) \subseteq mem
          /\ \A y \in huge : /\ ExtOK(y) /\ Chunks(y) \subseteq Usable
                             /\ y.z => Chunks(y) \subseteq mem
          /\ inarena \subseteq Usable \cap Nat
          /\ \A s \in Threads : Claim(th[s]) \subseteq huge
          /\ \A s \in Threads : /\ th[s].pc \in Moving /\ th[s].e.z => Chunks(th[s].e) \subseteq mem
                                /\ th[s].r # NoChunk /\ th[s].zero => Taken(th[s]) \subseteq mem
          /\ \A s \in Threads : Taken(th[s]) \subseteq Usable /\ Moved(th[s]) \subseteq Usable
      BY Others, Zenon
    <2>7. Accounted'
      <3>0. PICK T : T = Taken(l) \cup Moved(l)
        OBVIOUS
      <3>1. ASSUME NEW c
            PROVE  /\ FreeAt(c)' = FreeAt(c) /\ HugeAt(c)' = HugeAt(c) /\ ArenaAt(c)' = ArenaAt(c)
                   /\ BaseAt(c)' = BaseAt(c)
        BY <1>u DEF FreeAt, HugeAt, ArenaAt, BaseAt, BaseChunks
      <3>2. ASSUME NEW c PROVE LostAt(c)' = IF c \in Moved(l) THEN {c} ELSE LostAt(c)
        BY <2>1, <2>5 DEF LostAt
      <3>3. ASSUME NEW c \in Usable \cap T PROVE OneOwner(c)'
        <4>1. CASE c \in Taken(l)
          <5>1. /\ FreeAt(c) = {} /\ HugeAt(c) = {} /\ TakenAt(c) = {t} /\ MovedAt(c) = {}
                /\ ArenaAt(c) = {} /\ BaseAt(c) = {} /\ LostAt(c) = {}
            BY <4>1, HandsOnly
          <5>2. c \notin Moved(l)
            BY <5>1, <2>t, Hands
          <5>3. TakenAt(c)' = {} /\ MovedAt(c)' = {t}
            <6>1. TakenAt(c) \subseteq {t} /\ MovedAt(c) \subseteq {t} /\ c \notin Taken(m) /\ c \in Moved(m)
              BY <4>1, <2>5, <5>1
            <6> QED BY <2>t, <6>1, HandsAfter
          <5> QED BY <3>1, <3>2, <5>1, <5>2, <5>3 DEF OneOwner, Solo
        <4>2. CASE c \in Moved(l)
          <5>1. /\ FreeAt(c) = {} /\ HugeAt(c) = {} /\ TakenAt(c) = {} /\ MovedAt(c) = {t}
                /\ ArenaAt(c) = {} /\ BaseAt(c) = {} /\ LostAt(c) = {}
            BY <4>2, HandsOnly
          <5>2. c \notin Taken(l)
            BY <5>1, <2>t, Hands
          <5>3. TakenAt(c)' = {} /\ MovedAt(c)' = {}
            <6>1. TakenAt(c) \subseteq {t} /\ MovedAt(c) \subseteq {t} /\ c \notin Taken(m) /\ c \notin Moved(m)
              BY <5>2, <2>5, <5>1
            <6> QED BY <2>t, <6>1, HandsAfter
          <5>4. LostAt(c)' = {c}
            BY <4>2, <3>2
          <5> QED BY <3>1, <5>1, <5>3, <5>4 DEF OneOwner, Solo
        <4> QED BY <3>0, <4>1, <4>2
      <3>4. \A c \in Usable \ T : /\ c \in Taken(m) <=> c \in Taken(th[t])
                                  /\ c \in Moved(m) <=> c \in Moved(th[t])
        BY <2>5, <3>0
      <3>5. \A c \in Usable \ T : /\ FreeAt(c)' = FreeAt(c) /\ HugeAt(c)' = HugeAt(c)
                                  /\ ArenaAt(c)' = ArenaAt(c) /\ BaseAt(c)' = BaseAt(c)
                                  /\ LostAt(c)' = LostAt(c)
        BY <3>0, <3>1, <3>2
      <3> QED BY <2>1, <1>u, <3>3, <3>4, <3>5, OwnersMove
    <2>8. BaseRest'
      BY <1>u, BaseKept
    <2>9. Taken(m) \subseteq Usable /\ Moved(m) \subseteq Usable /\ inarena' \subseteq Usable \cap Nat
      BY <2>o, <2>5, <1>u
    <2>10. ~(m.pc \in Moving /\ m.e.z) /\ m.r = NoChunk
      BY <2>1, <2>2
    <2>11. Claim(m) \subseteq huge' /\ \A s \in Threads \ {t} : Claim(m) \cap Claim(th[s]) = {}
      BY <1>m, <1>u, <2>5
    <2> QED BY <1>u, <1>3, <2>1, <2>4, <2>7, <2>8, <2>9, <2>10, <2>11, <2>o, HandOver
  <1> QED BY <1>1, <1>2

LEMMA HugeInsertKeeps ==
  ASSUME JeInv, NEW t \in Threads, HugeInsert(t)
  PROVE  JeInv'
  <1> DEFINE l == th[t]
  <1>m. /\ ThreadOK(l) /\ (l.pc # "idle" \/ live => ranges # {})
        /\ Claim(l) \subseteq huge /\ \A s \in Threads \ {t} : Claim(l) \cap Claim(th[s]) = {}
    BY Mine
  <1>u. /\ UNCHANGED <<live, exts, base, ranges, inarena, used, lost>>
        /\ l.pc = "huge_insert" /\ mem \ Taken(l) \subseteq mem'
    <2>1. l.pc = "huge_insert" /\ UNCHANGED <<live, exts, base, ranges, inarena, used, lost>>
      BY DEF HugeInsert, At
    <2>2. PICK h, z : h = [a |-> l.r, n |-> l.n, z |-> z] /\ mem' \in {mem, mem \ Chunks(h)}
      BY Zenon DEF HugeInsert
    <2>3. Chunks(h) = l.r .. (l.r + l.n - 1) /\ l.r # NoChunk
      BY <1>m, <2>1, <2>2 DEF Chunks, ThreadOK, Holding
    <2> QED BY <2>1, <2>2, <2>3 DEF Taken
  <1>3. /\ l.r \in Nat /\ l.r # NoChunk /\ l.n \in Nat \ {0} /\ l.e = NoExt /\ ranges # {}
    BY <1>u, <1>m DEF ThreadOK, Holding, MayHold, Moving
  <1>h. PICK h, z : /\ h = [a |-> l.r, n |-> l.n, z |-> z] /\ (z = (l.zero /\ l.old = NoExt))
                    /\ huge' = huge \cup {h}
    BY Zenon DEF HugeInsert
  <1>4. /\ DOMAIN h = {"a", "n", "z"} /\ h.a = l.r /\ h.n = l.n /\ h.z = z
    BY <1>h
  <1>5. ExtOK(h) /\ Chunks(h) = Taken(l)
    BY <1>3, <1>4 DEF ExtOK, Chunks, Taken
  <1>6. h.z => l.zero /\ mem' = mem
    <2>1. z => l.zero /\ l.old = NoExt
      BY <1>h, Zenon
    <2>2. l.old = NoExt => mem' = mem
      BY Zenon DEF HugeInsert
    <2> QED BY <1>4, <2>1, <2>2
  <1>7. PICK m : /\ th' = [th EXCEPT ![t] = m] /\ ThreadOK(m) /\ Taken(m) = {} /\ Moved(m) = {}
                 /\ Claim(m) \subseteq Claim(l) /\ m.pc \notin Moving /\ m.r = NoChunk
    <2>1. PICK q : q = Done(l)
      OBVIOUS
    <2>2. /\ DOMAIN q = Fields /\ q.pc = "idle" /\ q.k = <<>> /\ q.n = 0 /\ q.al = 1
          /\ q.r = NoChunk /\ q.e = NoExt /\ q.old = NoExt
      BY <2>1, DoneIs
    <2>k. q.k \in Seq(Labels) /\ q.n \in Nat /\ q.al \in Nat \ {0}
      BY <2>2
    <2>3. CASE l.old = NoExt
      <3>1. th' = [th EXCEPT ![t] = q]
        BY <2>1, <2>3 DEF HugeInsert, Step
      <3>2. ThreadOK(q) /\ Taken(q) = {} /\ Moved(q) = {} /\ Claim(q) = {}
        BY <2>2, <2>k, RestingOK
      <3> QED BY <2>2, <3>1, <3>2 DEF Moving
    <2>4. CASE l.old # NoExt
      <3>1. PICK m : m = [q EXCEPT !.pc = "free", !.e = l.old] /\ th' = [th EXCEPT ![t] = m]
        BY <2>1, <2>4 DEF HugeInsert, Step
      <3>2. /\ DOMAIN m = Fields /\ m.pc = "free" /\ m.k = q.k /\ m.n = q.n /\ m.al = q.al
            /\ m.r = NoChunk /\ m.e = l.old /\ m.old = NoExt
        BY <3>1, <2>2 DEF Fields
      <3>3. ThreadOK(m)
        BY <3>2, <2>k DEF ThreadOK, Labels, Taking, Giving, Moving, Holding, MayHold
      <3>4. Taken(m) = {} /\ Moved(m) = {} /\ Claim(m) \subseteq Claim(l)
        BY <2>4, <3>2 DEF Taken, Moved, Claim
      <3> QED BY <3>1, <3>2, <3>3, <3>4 DEF Moving
    <2> QED BY <2>3, <2>4
  <1>t. Shape /\ th' = [th EXCEPT ![t] = m]
    BY <1>7 DEF JeInv
  <1>o. /\ \A y \in exts : /\ ExtOK(y) /\ Chunks(y) \subseteq Usable
                           /\ y.z => Chunks(y) \subseteq mem
        /\ \A y \in huge : /\ ExtOK(y) /\ Chunks(y) \subseteq Usable
                           /\ y.z => Chunks(y) \subseteq mem
        /\ inarena \subseteq Usable \cap Nat
        /\ \A s \in Threads : Claim(th[s]) \subseteq huge
        /\ \A s \in Threads : /\ th[s].pc \in Moving /\ th[s].e.z => Chunks(th[s].e) \subseteq mem
                              /\ th[s].r # NoChunk /\ th[s].zero => Taken(th[s]) \subseteq mem
        /\ \A s \in Threads : Taken(th[s]) \subseteq Usable /\ Moved(th[s]) \subseteq Usable
    BY Others, Zenon
  <1>8. Accounted'
    <2>0. PICK T : T = Taken(l)
      OBVIOUS
    <2>1. ASSUME NEW c
          PROVE  /\ FreeAt(c)' = FreeAt(c) /\ ArenaAt(c)' = ArenaAt(c)
                 /\ BaseAt(c)' = BaseAt(c) /\ LostAt(c)' = LostAt(c)
      BY <1>u DEF FreeAt, ArenaAt, BaseAt, BaseChunks, LostAt
    <2>2. ASSUME NEW c PROVE HugeAt(c)' = IF c \in T THEN HugeAt(c) \cup {h} ELSE HugeAt(c)
      BY <1>h, <1>5, <2>0 DEF HugeAt
    <2>3. ASSUME NEW c \in Usable \cap T PROVE OneOwner(c)'
      <3>1. /\ FreeAt(c) = {} /\ HugeAt(c) = {} /\ TakenAt(c) = {t} /\ MovedAt(c) = {}
            /\ ArenaAt(c) = {} /\ BaseAt(c) = {} /\ LostAt(c) = {}
        BY <2>0, HandsOnly
      <3>2. TakenAt(c) \subseteq {t} /\ MovedAt(c) \subseteq {t} /\ c \notin Taken(m) /\ c \notin Moved(m)
        BY <1>7, <3>1
      <3>3. TakenAt(c)' = {} /\ MovedAt(c)' = {}
        BY <1>t, <3>2, HandsAfter
      <3>4. HugeAt(c)' = {h}
        BY <2>2, <3>1
      <3> QED BY <2>1, <3>1, <3>3, <3>4 DEF OneOwner, Solo
    <2>4. \A c \in Usable \ T : /\ c \in Taken(m) <=> c \in Taken(th[t])
                                /\ c \in Moved(m) <=> c \in Moved(th[t])
      <3>1. Moved(l) = {}
        BY <1>3 DEF Moved, Chunks, NoExt, NoChunk
      <3> QED BY <1>7, <2>0, <3>1
    <2>5. \A c \in Usable \ T : /\ FreeAt(c)' = FreeAt(c) /\ HugeAt(c)' = HugeAt(c)
                                /\ ArenaAt(c)' = ArenaAt(c) /\ BaseAt(c)' = BaseAt(c)
                                /\ LostAt(c)' = LostAt(c)
      BY <2>1, <2>2
    <2> QED BY <1>t, <1>u, <2>3, <2>4, <2>5, OwnersMove
  <1>9. /\ \A x \in exts : x.z => Chunks(x) \subseteq mem'
        /\ \A x \in huge \ {h} : x.z => Chunks(x) \subseteq mem'
        /\ \A s \in Threads \ {t} : /\ th[s].pc \in Moving /\ th[s].e.z => Chunks(th[s].e) \subseteq mem'
                                    /\ th[s].r # NoChunk /\ th[s].zero => Taken(th[s]) \subseteq mem'
    <2>0. PICK S : S = Taken(l)
      OBVIOUS
    <2>1. \A c \in S : /\ FreeAt(c) = {} /\ HugeAt(c) \subseteq {h}
                       /\ TakenAt(c) \subseteq {t} /\ MovedAt(c) \subseteq {t}
      <3>1. ASSUME NEW c \in S PROVE FreeAt(c) = {} /\ HugeAt(c) = {} /\ TakenAt(c) = {t} /\ MovedAt(c) = {}
        BY <2>0, HandsOnly
      <3> QED BY <3>1
    <2>2. mem \ S \subseteq mem'
      BY <1>u, <2>0
    <2> QED BY <2>1, <2>2, MemShrinks
  <1>10. (\A x \in huge' : ExtOK(x) /\ Chunks(x) \subseteq Usable) /\ \A x \in huge' : x.z => Chunks(x) \subseteq mem'
    <2>1. h.z => Chunks(h) \subseteq mem'
      BY <1>o, <1>3, <1>5, <1>6
    <2>2. ExtOK(h) /\ Chunks(h) \subseteq Usable
      BY <1>o, <1>5
    <2> QED BY <1>o, <1>h, <1>9, <2>1, <2>2
  <1>11. BaseRest'
    BY <1>u, BaseKept
  <1>12. /\ Claim(m) \subseteq huge' /\ \A s \in Threads \ {t} : Claim(m) \cap Claim(th[s]) = {}
         /\ \A s \in Threads \ {t} : Claim(th[s]) \subseteq huge'
    BY <1>m, <1>7, <1>h, <1>o
  <1>13. Taken(m) \subseteq Usable /\ Moved(m) \subseteq Usable /\ inarena' \subseteq Usable \cap Nat
    BY <1>7, <1>o, <1>u
  <1>14. /\ \A x \in exts' : ExtOK(x) /\ Chunks(x) \subseteq Usable
         /\ \A x \in exts' : x.z => Chunks(x) \subseteq mem'
    BY <1>o, <1>u, <1>9
  <1> QED BY <1>t, <1>u, <1>3, <1>7, <1>8, <1>9, <1>10, <1>11, <1>12, <1>13, <1>14, HandOver

LEMMA HugeDallocKeeps ==
  ASSUME JeInv, NEW t \in Threads, HugeDalloc(t)
  PROVE  JeInv'
  <1> DEFINE l == th[t]
  <1>m. /\ ThreadOK(l) /\ (l.pc # "idle" \/ live => ranges # {})
        /\ Claim(l) \subseteq huge /\ \A s \in Threads \ {t} : Claim(l) \cap Claim(th[s]) = {}
    BY Mine
  <1>o. /\ \A y \in exts : /\ ExtOK(y) /\ Chunks(y) \subseteq Usable
                           /\ y.z => Chunks(y) \subseteq mem
        /\ \A y \in huge : /\ ExtOK(y) /\ Chunks(y) \subseteq Usable
                           /\ y.z => Chunks(y) \subseteq mem
        /\ inarena \subseteq Usable \cap Nat
        /\ \A s \in Threads : Claim(th[s]) \subseteq huge
        /\ \A s \in Threads : /\ th[s].pc \in Moving /\ th[s].e.z => Chunks(th[s].e) \subseteq mem
                              /\ th[s].r # NoChunk /\ th[s].zero => Taken(th[s]) \subseteq mem
        /\ \A s \in Threads : Taken(th[s]) \subseteq Usable /\ Moved(th[s]) \subseteq Usable
    BY Others, Zenon
  <1>1. PICK q, m, x, y, z, g, p, b :
           /\ x = l.e /\ y = [x EXCEPT !.z = z] /\ ~z /\ q = [l EXCEPT !.held = g, !.e = y]
           /\ p = "dalloc" /\ b = "free_put" /\ m = Call(q, p, b) /\ th' = [th EXCEPT ![t] = m]
           /\ l.pc = "free" /\ huge' = huge \ {x} /\ mem' = mem \ Chunks(x)
    BY Zenon DEF HugeDalloc, Step, At
  <1>u. UNCHANGED <<live, exts, base, ranges, inarena, used, lost>>
    BY DEF HugeDalloc
  <1>2. /\ l.r = NoChunk /\ DOMAIN l = Fields /\ l.k \in Seq(Labels) /\ l.n \in Nat /\ l.al \in Nat \ {0}
        /\ l.old = NoExt /\ ranges # {}
    BY <1>1, <1>m DEF ThreadOK, MayHold, Holding
  <1>3. x \in huge /\ x \in Claim(l)
    BY <1>1, <1>m DEF Claim
  <1>4. DOMAIN x = {"a", "n", "z"} /\ x.a \in Nat /\ x.n \in Nat \ {0}
    BY <1>3, <1>o DEF ExtOK
  <1>5. DOMAIN y = {"a", "n", "z"} /\ y.a = x.a /\ y.n = x.n /\ y.z = z
    BY <1>1, <1>4
  <1>6. ExtOK(y) /\ Chunks(y) = Chunks(x)
    BY <1>4, <1>5 DEF ExtOK, Chunks
  <1>7. /\ DOMAIN q = Fields /\ q.k = l.k /\ q.n = l.n /\ q.al = l.al /\ q.r = NoChunk
        /\ q.e = y /\ q.old = NoExt
    BY <1>1, <1>2 DEF Fields
  <1>8. b \in Labels /\ q.k \in Seq(Labels)
    BY <1>1, <1>2, <1>7 DEF Labels
  <1>c. m = Call(q, p, b) /\ DOMAIN q = Fields
    BY <1>1, <1>7
  <1>9. /\ DOMAIN m = Fields /\ m.pc = p /\ m.k \in Seq(Labels) /\ m.k # <<>>
        /\ Head(m.k) = b /\ Tail(m.k) = q.k /\ Keeps(m, q)
    BY <1>c, <1>8, CallIs
  <1>10. /\ m.pc = "dalloc" /\ m.n = l.n /\ m.al = l.al /\ m.r = NoChunk /\ m.e = y /\ m.old = NoExt
         /\ GiveBack(m)
    BY <1>1, <1>7, <1>9 DEF Keeps, GiveBack
  <1>11. ThreadOK(m)
    BY <1>2, <1>6, <1>9, <1>10 DEF ThreadOK, Labels, Taking, Giving, Moving, Holding, MayHold
  <1>12. Taken(m) = {} /\ Moved(m) = Chunks(x) /\ Claim(m) = {} /\ Taken(l) = {} /\ Moved(l) = {}
    BY <1>1, <1>2, <1>6, <1>10 DEF Taken, Moved, Claim
  <1>t. Shape /\ th' = [th EXCEPT ![t] = m]
    BY <1>1 DEF JeInv
  <1>h. ASSUME NEW c \in Chunks(x)
        PROVE  /\ c \in Usable /\ FreeAt(c) = {} /\ HugeAt(c) = {x} /\ TakenAt(c) = {} /\ MovedAt(c) = {}
               /\ ArenaAt(c) = {} /\ BaseAt(c) = {} /\ LostAt(c) = {}
    <2>1. c \in Usable
      BY <1>3, <1>o
    <2>2. OneOwner(c)
      BY <2>1 DEF JeInv, Accounted
    <2>3. x \in HugeAt(c)
      BY <1>3 DEF HugeAt
    <2> QED BY <2>1, <2>2, <2>3, OwnerIs
  <1>13. Accounted'
    <2>0. PICK T : T = Chunks(x)
      OBVIOUS
    <2>1. ASSUME NEW c
          PROVE  /\ FreeAt(c)' = FreeAt(c) /\ ArenaAt(c)' = ArenaAt(c)
                 /\ BaseAt(c)' = BaseAt(c) /\ LostAt(c)' = LostAt(c)
      BY <1>u DEF FreeAt, ArenaAt, BaseAt, BaseChunks, LostAt
    <2>2. ASSUME NEW c PROVE HugeAt(c)' = HugeAt(c) \ {x} /\ (c \notin T => HugeAt(c)' = HugeAt(c))
      BY <1>1, <2>0 DEF HugeAt
    <2>3. ASSUME NEW c \in Usable \cap T PROVE OneOwner(c)'
      <3>1. /\ FreeAt(c) = {} /\ HugeAt(c) = {x} /\ TakenAt(c) = {} /\ MovedAt(c) = {}
            /\ ArenaAt(c) = {} /\ BaseAt(c) = {} /\ LostAt(c) = {}
        BY <2>0, <1>h
      <3>2. TakenAt(c) \subseteq {t} /\ MovedAt(c) \subseteq {t} /\ c \notin Taken(m) /\ c \in Moved(m)
        BY <1>12, <2>0, <3>1
      <3>3. TakenAt(c)' = {} /\ MovedAt(c)' = {t}
        BY <1>t, <3>2, HandsAfter
      <3>4. HugeAt(c)' = {}
        BY <2>2, <3>1
      <3> QED BY <2>1, <3>1, <3>3, <3>4 DEF OneOwner, Solo
    <2>4. \A c \in Usable \ T : /\ c \in Taken(m) <=> c \in Taken(th[t])
                                /\ c \in Moved(m) <=> c \in Moved(th[t])
      BY <1>12, <2>0
    <2>5. \A c \in Usable \ T : /\ FreeAt(c)' = FreeAt(c) /\ HugeAt(c)' = HugeAt(c)
                                /\ ArenaAt(c)' = ArenaAt(c) /\ BaseAt(c)' = BaseAt(c)
                                /\ LostAt(c)' = LostAt(c)
      BY <2>1, <2>2
    <2> QED BY <1>t, <1>u, <2>3, <2>4, <2>5, OwnersMove
  <1>14. /\ \A w \in exts : w.z => Chunks(w) \subseteq mem'
         /\ \A w \in huge \ {x} : w.z => Chunks(w) \subseteq mem'
         /\ \A s \in Threads \ {t} : /\ th[s].pc \in Moving /\ th[s].e.z => Chunks(th[s].e) \subseteq mem'
                                     /\ th[s].r # NoChunk /\ th[s].zero => Taken(th[s]) \subseteq mem'
    <2>0. PICK S : S = Chunks(x)
      OBVIOUS
    <2>1. \A c \in S : /\ FreeAt(c) = {} /\ HugeAt(c) \subseteq {x}
                       /\ TakenAt(c) \subseteq {t} /\ MovedAt(c) \subseteq {t}
      <3>1. ASSUME NEW c \in S PROVE FreeAt(c) = {} /\ HugeAt(c) = {x} /\ TakenAt(c) = {} /\ MovedAt(c) = {}
        BY <2>0, <1>h
      <3> QED BY <3>1
    <2>2. mem \ S \subseteq mem'
      BY <1>1, <2>0
    <2> QED BY <2>1, <2>2, MemShrinks
  <1>15. /\ \A w \in huge' : ExtOK(w) /\ Chunks(w) \subseteq Usable
         /\ \A w \in huge' : w.z => Chunks(w) \subseteq mem'
    BY <1>o, <1>1, <1>14
  <1>16. BaseRest'
    BY <1>u, BaseKept
  <1>17. \A s \in Threads \ {t} : Claim(th[s]) \subseteq huge'
    <2>1. \A s \in Threads \ {t} : x \notin Claim(th[s])
      BY <1>m, <1>3
    <2> QED BY <1>1, <1>o, <2>1
  <1>18. /\ Taken(m) \subseteq Usable /\ Moved(m) \subseteq Usable /\ inarena' \subseteq Usable \cap Nat
         /\ Claim(m) \subseteq huge' /\ \A s \in Threads \ {t} : Claim(m) \cap Claim(th[s]) = {}
    BY <1>12, <1>o, <1>u, <1>3
  <1>19. /\ \A w \in exts' : ExtOK(w) /\ Chunks(w) \subseteq Usable
         /\ \A w \in exts' : w.z => Chunks(w) \subseteq mem'
    BY <1>o, <1>u, <1>14
  <1>20. ~(m.pc \in Moving /\ m.e.z) /\ m.r = NoChunk
    BY <1>1, <1>5, <1>10
  <1> QED BY <1>t, <1>u, <1>2, <1>11, <1>13, <1>14, <1>15, <1>16, <1>17, <1>18, <1>19, <1>20, HandOver

LEMMA ArenaRegisterKeeps ==
  ASSUME JeInv, NEW t \in Threads, ArenaRegister(t)
  PROVE  JeInv'
  <1> DEFINE l == th[t]
  <1>m. /\ ThreadOK(l) /\ (l.pc # "idle" \/ live => ranges # {})
        /\ Claim(l) \subseteq huge /\ \A s \in Threads \ {t} : Claim(l) \cap Claim(th[s]) = {}
    BY Mine
  <1>u. UNCHANGED <<live, exts, huge, base, ranges, mem, used, lost>> /\ l.pc = "arena_register"
    BY DEF ArenaRegister, At
  <1>2. /\ l.e = NoExt /\ l.n = 1 /\ l.r \in Nat \cup {NoChunk} /\ ranges # {}
    BY <1>u, <1>m DEF ThreadOK, Moving
  <1>s. Step(t, Done(l))
    BY DEF ArenaRegister
  <1>3. CASE l.r = NoChunk
    <2>1. inarena' = inarena
      BY <1>3 DEF ArenaRegister
    <2> QED BY <1>u, <1>s, <1>2, <1>3, <2>1, DoneStep
  <1>4. CASE l.r # NoChunk
    <2>1. PICK m : m = Done(l) /\ th' = [th EXCEPT ![t] = m]
      BY <1>s DEF Step
    <2>2. /\ DOMAIN m = Fields /\ m.pc = "idle" /\ m.k = <<>> /\ m.n = 0 /\ m.al = 1
          /\ m.r = NoChunk /\ m.e = NoExt /\ m.old = NoExt
      BY <2>1, DoneIs
    <2>k. m.k \in Seq(Labels) /\ m.n \in Nat /\ m.al \in Nat \ {0}
      BY <2>2
    <2>3. ThreadOK(m) /\ Taken(m) = {} /\ Moved(m) = {} /\ Claim(m) = {}
      BY <2>2, <2>k, RestingOK
    <2>4. Taken(l) = {l.r} /\ l.r \in Nat /\ inarena' = inarena \cup {l.r}
      BY <1>2, <1>4 DEF Taken, ArenaRegister
    <2>5. Moved(l) = {}
      BY <1>2 DEF Moved, Chunks, NoExt, NoChunk
    <2>t. Shape /\ th' = [th EXCEPT ![t] = m]
      BY <2>1 DEF JeInv
    <2>o. /\ \A y \in exts : /\ ExtOK(y) /\ Chunks(y) \subseteq Usable
                             /\ y.z => Chunks(y) \subseteq mem
          /\ \A y \in huge : /\ ExtOK(y) /\ Chunks(y) \subseteq Usable
                             /\ y.z => Chunks(y) \subseteq mem
          /\ inarena \subseteq Usable \cap Nat
          /\ \A s \in Threads : Claim(th[s]) \subseteq huge
          /\ \A s \in Threads : /\ th[s].pc \in Moving /\ th[s].e.z => Chunks(th[s].e) \subseteq mem
                                /\ th[s].r # NoChunk /\ th[s].zero => Taken(th[s]) \subseteq mem
          /\ \A s \in Threads : Taken(th[s]) \subseteq Usable /\ Moved(th[s]) \subseteq Usable
      BY Others, Zenon
    <2>6. Accounted'
      <3>0. PICK T : T = Taken(l)
        OBVIOUS
      <3>1. ASSUME NEW c
            PROVE  /\ FreeAt(c)' = FreeAt(c) /\ HugeAt(c)' = HugeAt(c)
                   /\ BaseAt(c)' = BaseAt(c) /\ LostAt(c)' = LostAt(c)
        BY <1>u DEF FreeAt, HugeAt, BaseAt, BaseChunks, LostAt
      <3>2. ASSUME NEW c PROVE ArenaAt(c)' = IF c \in T THEN {c} ELSE ArenaAt(c)
        BY <2>4, <3>0 DEF ArenaAt
      <3>3. ASSUME NEW c \in Usable \cap T PROVE OneOwner(c)'
        <4>1. /\ FreeAt(c) = {} /\ HugeAt(c) = {} /\ TakenAt(c) = {t} /\ MovedAt(c) = {}
              /\ ArenaAt(c) = {} /\ BaseAt(c) = {} /\ LostAt(c) = {}
          BY <3>0, HandsOnly
        <4>2. TakenAt(c) \subseteq {t} /\ MovedAt(c) \subseteq {t} /\ c \notin Taken(m) /\ c \notin Moved(m)
          BY <2>3, <4>1
        <4>3. TakenAt(c)' = {} /\ MovedAt(c)' = {}
          BY <2>t, <4>2, HandsAfter
        <4>4. ArenaAt(c)' = {c}
          BY <3>2
        <4> QED BY <3>1, <4>1, <4>3, <4>4 DEF OneOwner, Solo
      <3>4. \A c \in Usable \ T : /\ c \in Taken(m) <=> c \in Taken(th[t])
                                  /\ c \in Moved(m) <=> c \in Moved(th[t])
        BY <2>3, <2>5, <3>0
      <3>5. \A c \in Usable \ T : /\ FreeAt(c)' = FreeAt(c) /\ HugeAt(c)' = HugeAt(c)
                                  /\ ArenaAt(c)' = ArenaAt(c) /\ BaseAt(c)' = BaseAt(c)
                                  /\ LostAt(c)' = LostAt(c)
        BY <3>1, <3>2
      <3> QED BY <2>t, <1>u, <3>3, <3>4, <3>5, OwnersMove
    <2>7. BaseRest'
      BY <1>u, BaseKept
    <2>8. /\ Taken(m) \subseteq Usable /\ Moved(m) \subseteq Usable /\ inarena' \subseteq Usable \cap Nat
          /\ Claim(m) \subseteq huge' /\ \A s \in Threads \ {t} : Claim(m) \cap Claim(th[s]) = {}
      <3>1. l.r \in Usable
        BY <2>o, <2>4
      <3> QED BY <2>3, <2>4, <2>o, <3>1
    <2>9. m.pc \notin Moving
      BY <2>2 DEF Moving
    <2> QED BY <2>t, <1>u, <1>2, <2>2, <2>3, <2>o, <2>6, <2>7, <2>8, <2>9, HandOver
  <1> QED BY <1>3, <1>4

LEMMA ArenaShrinkKeeps ==
  ASSUME JeInv, NEW t \in Threads, NEW d \in inarena, ArenaShrink(t, d)
  PROVE  JeInv'
  <1> DEFINE l == th[t]
  <1>m. /\ ThreadOK(l) /\ (l.pc # "idle" \/ live => ranges # {})
        /\ Claim(l) \subseteq huge /\ \A s \in Threads \ {t} : Claim(l) \cap Claim(th[s]) = {}
    BY Mine
  <1>o. /\ \A y \in exts : /\ ExtOK(y) /\ Chunks(y) \subseteq Usable
                           /\ y.z => Chunks(y) \subseteq mem
        /\ \A y \in huge : /\ ExtOK(y) /\ Chunks(y) \subseteq Usable
                           /\ y.z => Chunks(y) \subseteq mem
        /\ inarena \subseteq Usable \cap Nat
        /\ \A s \in Threads : Claim(th[s]) \subseteq huge
        /\ \A s \in Threads : /\ th[s].pc \in Moving /\ th[s].e.z => Chunks(th[s].e) \subseteq mem
                              /\ th[s].r # NoChunk /\ th[s].zero => Taken(th[s]) \subseteq mem
        /\ \A s \in Threads : Taken(th[s]) \subseteq Usable /\ Moved(th[s]) \subseteq Usable
    BY Others, Zenon
  <1>1. PICK q, m, y, z, g, p, b :
           /\ y = [a |-> d, n |-> 1, z |-> z] /\ ~z /\ q = [[l EXCEPT !.calls = g] EXCEPT !.e = y]
           /\ p = "dalloc" /\ b = "done" /\ m = Call(q, p, b) /\ th' = [th EXCEPT ![t] = m]
           /\ l.pc = "idle" /\ live /\ inarena' = inarena \ {d} /\ mem' = mem \ {d}
    BY Zenon DEF ArenaShrink, Step, At, Begin, Entered
  <1>u. UNCHANGED <<live, exts, huge, base, ranges, used, lost>>
    BY DEF ArenaShrink
  <1>2. /\ l.r = NoChunk /\ l.e = NoExt /\ DOMAIN l = Fields /\ l.k \in Seq(Labels)
        /\ l.n \in Nat /\ l.al \in Nat \ {0} /\ ThreadOK(l)
    BY <1>1, EmptyHands DEF Empty
  <1>3. l.old = NoExt /\ ranges # {} /\ d \in Nat /\ d \in Usable
    BY <1>1, <1>m, <1>o DEF ThreadOK
  <1>5. DOMAIN y = {"a", "n", "z"} /\ y.a = d /\ y.n = 1 /\ y.z = z
    BY <1>1
  <1>6. ExtOK(y) /\ Chunks(y) = {d}
    BY <1>3, <1>5 DEF ExtOK, Chunks
  <1>7. /\ DOMAIN q = Fields /\ q.k = l.k /\ q.n = l.n /\ q.al = l.al /\ q.r = NoChunk
        /\ q.e = y /\ q.old = NoExt
    BY <1>1, <1>2, <1>3 DEF Fields
  <1>8. b \in Labels /\ q.k \in Seq(Labels)
    BY <1>1, <1>2, <1>7 DEF Labels
  <1>c. m = Call(q, p, b) /\ DOMAIN q = Fields
    BY <1>1, <1>7
  <1>9. /\ DOMAIN m = Fields /\ m.pc = p /\ m.k \in Seq(Labels) /\ m.k # <<>>
        /\ Head(m.k) = b /\ Tail(m.k) = q.k /\ Keeps(m, q)
    BY <1>c, <1>8, CallIs
  <1>10. /\ m.pc = "dalloc" /\ m.n = l.n /\ m.al = l.al /\ m.r = NoChunk /\ m.e = y /\ m.old = NoExt
         /\ GiveBack(m)
    BY <1>1, <1>7, <1>9 DEF Keeps, GiveBack
  <1>11. ThreadOK(m)
    BY <1>2, <1>6, <1>9, <1>10 DEF ThreadOK, Labels, Taking, Giving, Moving, Holding, MayHold
  <1>12. Taken(m) = {} /\ Moved(m) = {d} /\ Claim(m) = {}
    BY <1>6, <1>10 DEF Taken, Moved, Claim
  <1>a. Taken(l) = {} /\ Moved(l) = {}
    BY <1>2, NoHands
  <1>t. Shape /\ th' = [th EXCEPT ![t] = m]
    BY <1>1 DEF JeInv
  <1>h. /\ FreeAt(d) = {} /\ HugeAt(d) = {} /\ TakenAt(d) = {} /\ MovedAt(d) = {}
        /\ BaseAt(d) = {} /\ LostAt(d) = {}
    <2>1. OneOwner(d)
      BY <1>3 DEF JeInv, Accounted
    <2> QED BY <2>1, OwnerIs
  <1>13. Accounted'
    <2>0. PICK T : T = {d}
      OBVIOUS
    <2>1. ASSUME NEW c
          PROVE  /\ FreeAt(c)' = FreeAt(c) /\ HugeAt(c)' = HugeAt(c)
                 /\ BaseAt(c)' = BaseAt(c) /\ LostAt(c)' = LostAt(c)
      BY <1>u DEF FreeAt, HugeAt, BaseAt, BaseChunks, LostAt
    <2>2. ASSUME NEW c PROVE (c \in T => ArenaAt(c)' = {}) /\ (c \notin T => ArenaAt(c)' = ArenaAt(c))
      BY <1>1, <2>0 DEF ArenaAt
    <2>3. ASSUME NEW c \in Usable \cap T PROVE OneOwner(c)'
      <3>1. /\ FreeAt(c) = {} /\ HugeAt(c) = {} /\ TakenAt(c) = {} /\ MovedAt(c) = {}
            /\ BaseAt(c) = {} /\ LostAt(c) = {}
        BY <2>0, <1>h
      <3>2. TakenAt(c) \subseteq {t} /\ MovedAt(c) \subseteq {t} /\ c \notin Taken(m) /\ c \in Moved(m)
        BY <1>12, <2>0, <3>1
      <3>3. TakenAt(c)' = {} /\ MovedAt(c)' = {t}
        BY <1>t, <3>2, HandsAfter
      <3> QED BY <2>1, <2>2, <3>1, <3>3 DEF OneOwner, Solo
    <2>4. \A c \in Usable \ T : /\ c \in Taken(m) <=> c \in Taken(th[t])
                                /\ c \in Moved(m) <=> c \in Moved(th[t])
      BY <1>12, <1>a, <2>0
    <2>5. \A c \in Usable \ T : /\ FreeAt(c)' = FreeAt(c) /\ HugeAt(c)' = HugeAt(c)
                                /\ ArenaAt(c)' = ArenaAt(c) /\ BaseAt(c)' = BaseAt(c)
                                /\ LostAt(c)' = LostAt(c)
      BY <2>1, <2>2
    <2> QED BY <1>t, <1>u, <2>3, <2>4, <2>5, OwnersMove
  <1>14. /\ \A w \in exts : w.z => Chunks(w) \subseteq mem'
         /\ \A w \in huge \ {NoExt} : w.z => Chunks(w) \subseteq mem'
         /\ \A s \in Threads \ {t} : /\ th[s].pc \in Moving /\ th[s].e.z => Chunks(th[s].e) \subseteq mem'
                                     /\ th[s].r # NoChunk /\ th[s].zero => Taken(th[s]) \subseteq mem'
    <2>0. PICK S, h : S = {d} /\ h = NoExt
      OBVIOUS
    <2>1. \A c \in S : /\ FreeAt(c) = {} /\ HugeAt(c) \subseteq {h}
                       /\ TakenAt(c) \subseteq {t} /\ MovedAt(c) \subseteq {t}
      BY <2>0, <1>h
    <2>2. mem \ S \subseteq mem'
      BY <1>1, <2>0
    <2> QED BY <2>0, <2>1, <2>2, MemShrinks
  <1>15. /\ \A w \in huge' : ExtOK(w) /\ Chunks(w) \subseteq Usable
         /\ \A w \in huge' : w.z => Chunks(w) \subseteq mem'
    <2>1. \A w \in huge : w # NoExt
      <3>1. \A w \in huge : w.a \in Nat
        BY <1>o DEF ExtOK
      <3>2. NoExt.a = NoChunk
        BY DEF NoExt
      <3> QED BY <3>1, <3>2 DEF NoChunk
    <2> QED BY <1>o, <1>u, <1>14, <2>1
  <1>16. BaseRest'
    BY <1>u, BaseKept
  <1>18. /\ Taken(m) \subseteq Usable /\ Moved(m) \subseteq Usable /\ inarena' \subseteq Usable \cap Nat
         /\ Claim(m) \subseteq huge' /\ \A s \in Threads \ {t} : Claim(m) \cap Claim(th[s]) = {}
         /\ \A s \in Threads \ {t} : Claim(th[s]) \subseteq huge'
    BY <1>1, <1>12, <1>o, <1>u, <1>3
  <1>19. /\ \A w \in exts' : ExtOK(w) /\ Chunks(w) \subseteq Usable
         /\ \A w \in exts' : w.z => Chunks(w) \subseteq mem'
    BY <1>o, <1>u, <1>14
  <1>20. ~(m.pc \in Moving /\ m.e.z) /\ m.r = NoChunk
    BY <1>1, <1>5, <1>10
  <1> QED BY <1>t, <1>u, <1>3, <1>11, <1>13, <1>14, <1>15, <1>16, <1>18, <1>19, <1>20, HandOver

\* Two adjacent extents in one.
LEMMA JoinIs ==
  ASSUME NEW x, NEW y, ExtOK(x), ExtOK(y), y.a = x.a + x.n, NEW j, j = Joined(x, y)
  PROVE  /\ ExtOK(j) /\ j.a = x.a /\ j.a + j.n = y.a + y.n
         /\ Chunks(j) = Chunks(x) \cup Chunks(y)
         /\ j.z => x.z /\ y.z
  <1>1. PICK z : j = [a |-> x.a, n |-> x.n + y.n, z |-> z] /\ (z = (x.z /\ y.z))
    BY Zenon DEF Joined
  <1>2. z => x.z /\ y.z
    BY <1>1, Zenon
  <1>3. DOMAIN j = {"a", "n", "z"} /\ j.a = x.a /\ j.n = x.n + y.n /\ j.z = z
    BY <1>1
  <1>4. PICK xa, xn, ya, yn : xa = x.a /\ xn = x.n /\ ya = y.a /\ yn = y.n
    OBVIOUS
  <1>5. xa \in Nat /\ xn \in Nat \ {0} /\ ya \in Nat /\ yn \in Nat \ {0} /\ ya = xa + xn
    BY <1>4 DEF ExtOK
  <1>6. ExtOK(j) /\ j.a + j.n = y.a + y.n
    BY <1>3, <1>4, <1>5 DEF ExtOK
  <1>7. xa .. (xa + (xn + yn) - 1) = (xa .. (xa + xn - 1)) \cup (ya .. (ya + yn - 1))
    BY <1>5
  <1>8. Chunks(j) = Chunks(x) \cup Chunks(y)
    BY <1>3, <1>4, <1>7 DEF Chunks
  <1> QED BY <1>2, <1>3, <1>6, <1>8

\* A free chunk is in one extent.
LEMMA OneExtent ==
  ASSUME JeInv, NEW x \in exts, NEW y \in exts, NEW c, c \in Chunks(x), c \in Chunks(y)
  PROVE  x = y
  <1>1. c \in Usable
    BY Others
  <1>2. OneOwner(c)
    BY <1>1 DEF JeInv, Accounted
  <1>3. x \in FreeAt(c) /\ y \in FreeAt(c)
    BY DEF FreeAt
  <1> QED BY <1>2, <1>3, OwnerIs

LEMMA FirstLast ==
  ASSUME NEW x, ExtOK(x)
  PROVE  x.a \in Chunks(x) /\ (x.a + x.n) - 1 \in Chunks(x)
  <1>1. PICK a, n : a = x.a /\ n = x.n
    OBVIOUS
  <1>2. a \in Nat /\ n \in Nat \ {0}
    BY <1>1 DEF ExtOK
  <1>3. a \in a .. (a + n - 1) /\ (a + n) - 1 \in a .. (a + n - 1)
    BY <1>2
  <1> QED BY <1>1, <1>3 DEF Chunks

\* An extent has at most one neighbour on each side.
LEMMA NeighboursAre ==
  ASSUME JeInv, NEW e, ExtOK(e)
  PROVE  /\ Following(e) \subseteq exts /\ Preceding(e) \subseteq exts
         /\ \A f \in Following(e) : Following(e) = {f} /\ f.a = e.a + e.n
         /\ \A p \in Preceding(e) : Preceding(e) = {p} /\ e.a = p.a + p.n
         /\ Following(e) \cap Preceding(e) = {}
  <1>o. \A x \in exts : ExtOK(x)
    BY Others
  <1> DEFINE F == Following(e)  P == Preceding(e)
  <1>1. F \subseteq exts /\ P \subseteq exts
    BY DEF Following, Preceding
  <1>2. ASSUME NEW f \in F PROVE F = {f} /\ f.a = e.a + e.n
    <2>1. ASSUME NEW g \in F PROVE g = f
      <3>1. f \in exts /\ g \in exts /\ f.a = g.a
        BY DEF Following
      <3>2. f.a \in Chunks(f) /\ g.a \in Chunks(g)
        BY <1>o, <3>1, FirstLast
      <3> QED BY <3>1, <3>2, OneExtent
    <2> QED BY <2>1 DEF Following
  <1>3. ASSUME NEW p \in P PROVE P = {p} /\ e.a = p.a + p.n
    <2>1. ASSUME NEW g \in P PROVE g = p
      <3>1. p \in exts /\ g \in exts /\ p.a + p.n = g.a + g.n
        BY DEF Preceding
      <3>2. (p.a + p.n) - 1 \in Chunks(p) /\ (g.a + g.n) - 1 \in Chunks(g)
        BY <1>o, <3>1, FirstLast
      <3> QED BY <3>1, <3>2, OneExtent
    <2> QED BY <2>1 DEF Preceding
  <1>4. ASSUME NEW x \in F, x \in P PROVE FALSE
    <2>1. x \in exts /\ x.a = e.a + e.n /\ e.a = x.a + x.n
      BY <1>1, <1>2, <1>3, <1>4
    <2>2. ExtOK(x)
      BY <1>o, <2>1
    <2> QED BY <2>1, <2>2 DEF ExtOK
  <1> QED BY <1>1, <1>2, <1>3, <1>4

\* chunk_record's extent: the chunks of the recorded one and of its neighbours.
LEMMA CoalescedIs ==
  ASSUME JeInv, NEW e, ExtOK(e)
  PROVE  \E j, S : /\ S \subseteq exts /\ Coalesced(e) = (exts \ S) \cup {j} /\ ExtOK(j)
                   /\ \A c : c \in Chunks(j) <=> (c \in Chunks(e) \/ \E f \in S : c \in Chunks(f))
                   /\ j.z => (e.z /\ \A f \in S : f.z)
  <1>o. \A x \in exts : ExtOK(x)
    BY Others
  <1> DEFINE F == Following(e)  P == Preceding(e)
  <1>1. F \subseteq exts /\ P \subseteq exts
    BY NeighboursAre
  <1>2. ASSUME NEW f \in F PROVE F = {f} /\ ExtOK(f) /\ f.a = e.a + e.n
    BY <1>1, <1>o, NeighboursAre
  <1>3. ASSUME NEW p \in P PROVE P = {p} /\ ExtOK(p) /\ e.a = p.a + p.n
    BY <1>1, <1>o, NeighboursAre
  <1>4. \E j : /\ j = JoinFollowing(e) /\ ExtOK(j) /\ j.a = e.a
               /\ \A c : c \in Chunks(j) <=> (c \in Chunks(e) \/ \E f \in F : c \in Chunks(f))
               /\ j.z => (e.z /\ \A f \in F : f.z)
    <2>1. CASE F = {}
      <3>1. JoinFollowing(e) = e
        BY <2>1 DEF JoinFollowing
      <3> QED BY <2>1, <3>1
    <2>2. CASE F # {}
      <3>1. PICK f \in F : f = CHOOSE x \in F : TRUE
        BY <2>2
      <3>2. JoinFollowing(e) = Joined(e, f)
        BY <2>2, <3>1 DEF JoinFollowing
      <3>3. F = {f} /\ ExtOK(f) /\ f.a = e.a + e.n
        BY <1>2
      <3>4. PICK j : j = Joined(e, f)
        OBVIOUS
      <3> HIDE DEF F
      <3>5. /\ ExtOK(j) /\ j.a = e.a /\ Chunks(j) = Chunks(e) \cup Chunks(f)
            /\ j.z => e.z /\ f.z
        BY <3>3, <3>4, JoinIs
      <3>6. \A c : c \in Chunks(j) <=> (c \in Chunks(e) \/ \E x \in F : c \in Chunks(x))
        BY <3>3, <3>5
      <3>7. j.z => (e.z /\ \A x \in F : x.z)
        BY <3>3, <3>5
      <3> QED BY <3>2, <3>4, <3>5, <3>6, <3>7
    <2> QED BY <2>1, <2>2
  <1>5. PICK g : /\ g = JoinFollowing(e) /\ ExtOK(g) /\ g.a = e.a
                 /\ \A c : c \in Chunks(g) <=> (c \in Chunks(e) \/ \E f \in F : c \in Chunks(f))
                 /\ g.z => (e.z /\ \A f \in F : f.z)
    BY <1>4
  <1>6. \E j : /\ j = JoinBoth(e) /\ ExtOK(j)
               /\ \A c : c \in Chunks(j) <=> (c \in Chunks(g) \/ \E p \in P : c \in Chunks(p))
               /\ j.z => (g.z /\ \A p \in P : p.z)
    <2>1. CASE P = {}
      <3>1. JoinBoth(e) = g
        BY <1>5, <2>1 DEF JoinBoth
      <3> QED BY <1>5, <2>1, <3>1
    <2>2. CASE P # {}
      <3>1. PICK p \in P : p = CHOOSE x \in P : TRUE
        BY <2>2
      <3>2. JoinBoth(e) = Joined(p, g)
        BY <1>5, <2>2, <3>1 DEF JoinBoth
      <3>3. P = {p} /\ ExtOK(p) /\ g.a = p.a + p.n
        BY <1>3, <1>5
      <3>4. PICK j : j = Joined(p, g)
        OBVIOUS
      <3> HIDE DEF P
      <3>5. /\ ExtOK(j) /\ Chunks(j) = Chunks(p) \cup Chunks(g)
            /\ j.z => p.z /\ g.z
        BY <1>5, <3>3, <3>4, JoinIs
      <3>6. \A c : c \in Chunks(j) <=> (c \in Chunks(g) \/ \E x \in P : c \in Chunks(x))
        BY <3>3, <3>5
      <3>7. j.z => (g.z /\ \A x \in P : x.z)
        BY <3>3, <3>5
      <3> QED BY <3>2, <3>4, <3>5, <3>6, <3>7
    <2> QED BY <2>1, <2>2
  <1>7. PICK j : /\ j = JoinBoth(e) /\ ExtOK(j)
                 /\ \A c : c \in Chunks(j) <=> (c \in Chunks(g) \/ \E p \in P : c \in Chunks(p))
                 /\ j.z => (g.z /\ \A p \in P : p.z)
    BY <1>6
  <1>8. PICK S : S = F \cup P
    OBVIOUS
  <1>9. Coalesced(e) = (exts \ S) \cup {j}
    BY <1>7, <1>8 DEF Coalesced
  <1> HIDE DEF F, P
  <1>10. \A c : c \in Chunks(j) <=> (c \in Chunks(e) \/ \E f \in S : c \in Chunks(f))
    BY <1>5, <1>7, <1>8
  <1>11. S \subseteq exts /\ (j.z => (e.z /\ \A f \in S : f.z))
    BY <1>1, <1>5, <1>7, <1>8
  <1> QED BY <1>7, <1>9, <1>10, <1>11

LEMMA RecordInsertKeeps ==
  ASSUME JeInv, NEW t \in Threads, RecordInsert(t)
  PROVE  JeInv'
  <1> DEFINE l == th[t]
  <1>m. /\ ThreadOK(l) /\ (l.pc # "idle" \/ live => ranges # {})
        /\ Claim(l) \subseteq huge /\ \A s \in Threads \ {t} : Claim(l) \cap Claim(th[s]) = {}
    BY Mine
  <1>o. /\ \A y \in exts : /\ ExtOK(y) /\ Chunks(y) \subseteq Usable
                           /\ y.z => Chunks(y) \subseteq mem
        /\ \A y \in huge : /\ ExtOK(y) /\ Chunks(y) \subseteq Usable
                           /\ y.z => Chunks(y) \subseteq mem
        /\ inarena \subseteq Usable \cap Nat
        /\ \A s \in Threads : Claim(th[s]) \subseteq huge
        /\ \A s \in Threads : /\ th[s].pc \in Moving /\ th[s].e.z => Chunks(th[s].e) \subseteq mem
                              /\ th[s].r # NoChunk /\ th[s].zero => Taken(th[s]) \subseteq mem
        /\ \A s \in Threads : Taken(th[s]) \subseteq Usable /\ Moved(th[s]) \subseteq Usable
    BY Others, Zenon
  <1>u. UNCHANGED <<live, huge, base, ranges, inarena, mem, used>> /\ l.pc = "rec_insert"
    BY DEF RecordInsert, At
  <1>1. /\ GiveBack(l) /\ l.k \in Seq(Labels) /\ l.n \in Nat /\ l.al \in Nat \ {0} /\ DOMAIN l = Fields
        /\ l.r = NoChunk /\ ExtOK(l.e) /\ ranges # {}
    BY <1>u, <1>m DEF ThreadOK, Giving, Holding, Moving, MayHold
  <1>2. Taken(l) = {} /\ Moved(l) = Chunks(l.e)
    BY <1>1, <1>u DEF Taken, Moved
  <1>g. ASSUME NEW q, DOMAIN q = Fields, Keeps([q EXCEPT !.e = l.e], l), q.k = l.k, q.e = NoExt,
               NEW m, m = Return(q) \/ m = [q EXCEPT !.pc = "rec_put"]
        PROVE  /\ ThreadOK(m) /\ Taken(m) = {} /\ Moved(m) = {} /\ Claim(m) \subseteq Claim(l)
               /\ m.pc \notin Moving /\ m.r = NoChunk
    <2>1. /\ q.n = l.n /\ q.al = l.al /\ q.r = NoChunk /\ q.old = l.old /\ q.c = l.c
      BY <1>g, <1>1 DEF Keeps, Fields
    <2>2. GiveBack(q)
      BY <1>g, <1>1, <2>1 DEF GiveBack, TakeBack, BaseSize
    <2>3. CASE m = Return(q)
      <3>1. q.k \in Seq(Labels) /\ q.n \in Nat /\ q.al \in Nat \ {0}
        BY <1>g, <1>1, <2>1
      <3>2. /\ ThreadOK(m) /\ Keeps(m, q) /\ Taken(m) = {} /\ Moved(m) = {}
            /\ m.pc \notin Moving \cup {"free"}
            /\ Claim(m) = {x \in {q.old} : x # NoExt}
        BY <1>g, <2>1, <2>2, <2>3, <3>1, GiveReturns
      <3>3. Claim(m) \subseteq Claim(l)
        BY <2>1, <3>2 DEF Claim
      <3> QED BY <3>2, <3>3, <2>1 DEF Keeps
    <2>4. CASE m = [q EXCEPT !.pc = "rec_put"]
      <3>1. /\ DOMAIN m = Fields /\ m.pc = "rec_put" /\ m.k = q.k /\ m.n = q.n /\ m.al = q.al
            /\ m.r = NoChunk /\ m.e = NoExt /\ m.old = q.old /\ m.c = q.c
        BY <1>g, <2>1, <2>4 DEF Fields
      <3>2. GiveBack(m)
        BY <2>2, <3>1 DEF GiveBack, TakeBack, BaseSize
      <3>3. ThreadOK(m)
        BY <1>g, <1>1, <2>1, <3>1, <3>2 DEF ThreadOK, Labels, Taking, Giving, Moving, Holding, MayHold
      <3>4. Taken(m) = {} /\ Moved(m) = {}
        BY <3>1, NoHands
      <3>5. Claim(m) \subseteq Claim(l) /\ m.pc \notin Moving
        BY <2>1, <3>1 DEF Claim, Moving
      <3> QED BY <3>1, <3>3, <3>4, <3>5
    <2> QED BY <1>g, <2>3, <2>4
  <1>3. CASE Following(l.e) = {} /\ ~l.got
    <2>1. PICK q, m : /\ q = [l EXCEPT !.e = NoExt] /\ m = Return(q) /\ th' = [th EXCEPT ![t] = m]
                      /\ lost' = lost \cup Chunks(l.e) /\ exts' = exts
      BY <1>3 DEF RecordInsert, Step
    <2>2. DOMAIN q = Fields /\ Keeps([q EXCEPT !.e = l.e], l) /\ q.k = l.k /\ q.e = NoExt
      BY <2>1, <1>1 DEF Fields, Keeps
    <2>3. /\ ThreadOK(m) /\ Taken(m) = {} /\ Moved(m) = {} /\ Claim(m) \subseteq Claim(l)
          /\ m.pc \notin Moving /\ m.r = NoChunk
      BY <2>1, <2>2, <1>g
    <2>t. Shape /\ th' = [th EXCEPT ![t] = m]
      BY <2>1 DEF JeInv
    <2>4. Accounted'
      <3>0. PICK T : T = Moved(l)
        OBVIOUS
      <3>1. ASSUME NEW c
            PROVE  /\ FreeAt(c)' = FreeAt(c) /\ HugeAt(c)' = HugeAt(c) /\ ArenaAt(c)' = ArenaAt(c)
                   /\ BaseAt(c)' = BaseAt(c)
        BY <1>u, <2>1 DEF FreeAt, HugeAt, ArenaAt, BaseAt, BaseChunks
      <3>2. ASSUME NEW c PROVE LostAt(c)' = IF c \in T THEN {c} ELSE LostAt(c)
        BY <2>1, <1>2, <3>0 DEF LostAt
      <3>3. ASSUME NEW c \in Usable \cap T PROVE OneOwner(c)'
        <4>1. /\ FreeAt(c) = {} /\ HugeAt(c) = {} /\ TakenAt(c) = {} /\ MovedAt(c) = {t}
              /\ ArenaAt(c) = {} /\ BaseAt(c) = {} /\ LostAt(c) = {}
          BY <3>0, HandsOnly
        <4>2. TakenAt(c) \subseteq {t} /\ MovedAt(c) \subseteq {t} /\ c \notin Taken(m) /\ c \notin Moved(m)
          BY <2>3, <4>1
        <4>3. TakenAt(c)' = {} /\ MovedAt(c)' = {}
          BY <2>t, <4>2, HandsAfter
        <4>4. LostAt(c)' = {c}
          BY <3>2
        <4> QED BY <3>1, <4>1, <4>3, <4>4 DEF OneOwner, Solo
      <3>4. \A c \in Usable \ T : /\ c \in Taken(m) <=> c \in Taken(th[t])
                                  /\ c \in Moved(m) <=> c \in Moved(th[t])
        BY <2>3, <1>2, <3>0
      <3>5. \A c \in Usable \ T : /\ FreeAt(c)' = FreeAt(c) /\ HugeAt(c)' = HugeAt(c)
                                  /\ ArenaAt(c)' = ArenaAt(c) /\ BaseAt(c)' = BaseAt(c)
                                  /\ LostAt(c)' = LostAt(c)
        BY <3>1, <3>2
      <3> QED BY <2>t, <1>u, <3>3, <3>4, <3>5, OwnersMove
    <2>5. BaseRest'
      BY <1>u, BaseKept
    <2>6. /\ Taken(m) \subseteq Usable /\ Moved(m) \subseteq Usable /\ inarena' \subseteq Usable \cap Nat
          /\ Claim(m) \subseteq huge' /\ \A s \in Threads \ {t} : Claim(m) \cap Claim(th[s]) = {}
      BY <1>m, <2>3, <1>o, <1>u
    <2> QED BY <2>t, <1>u, <1>1, <2>1, <2>3, <1>o, <2>4, <2>5, <2>6, HandOver
  <1>4. CASE ~(Following(l.e) = {} /\ ~l.got)
    <2>1. PICK q, m, u, h :
             /\ q = [l EXCEPT !.e = NoExt, !.put = u, !.held = h]
             /\ m = Return(q) \/ m = [q EXCEPT !.pc = "rec_put"]
             /\ th' = [th EXCEPT ![t] = m]
      BY <1>4, Zenon DEF RecordInsert, Step
    <2>x. exts' = Coalesced(l.e) /\ lost' = lost
      BY <1>4, Zenon DEF RecordInsert
    <2>2. DOMAIN q = Fields /\ Keeps([q EXCEPT !.e = l.e], l) /\ q.k = l.k /\ q.e = NoExt
      BY <2>1, <1>1 DEF Fields, Keeps
    <2>3. /\ ThreadOK(m) /\ Taken(m) = {} /\ Moved(m) = {} /\ Claim(m) \subseteq Claim(l)
          /\ m.pc \notin Moving /\ m.r = NoChunk
      BY <2>1, <2>2, <1>g
    <2>t. Shape /\ th' = [th EXCEPT ![t] = m]
      BY <2>1 DEF JeInv
    <2>j. PICK j, S : /\ S \subseteq exts /\ Coalesced(l.e) = (exts \ S) \cup {j} /\ ExtOK(j)
                      /\ \A c : c \in Chunks(j) <=> (c \in Chunks(l.e) \/ \E f \in S : c \in Chunks(f))
                      /\ j.z => (l.e.z /\ \A f \in S : f.z)
      BY <1>1, CoalescedIs
    <2>4. Accounted'
      <3>0. PICK T : T = Chunks(j)
        OBVIOUS
      <3>1. ASSUME NEW c
            PROVE  /\ LostAt(c)' = LostAt(c) /\ HugeAt(c)' = HugeAt(c) /\ ArenaAt(c)' = ArenaAt(c)
                   /\ BaseAt(c)' = BaseAt(c)
        BY <1>u, <2>x DEF LostAt, HugeAt, ArenaAt, BaseAt, BaseChunks
      <3>2. ASSUME NEW c
            PROVE  /\ c \notin T => FreeAt(c)' = FreeAt(c)
                   /\ c \in T /\ FreeAt(c) \subseteq S => FreeAt(c)' = {j}
        BY <2>x, <2>j, <3>0 DEF FreeAt
      <3>3. ASSUME NEW c \in Usable \cap T PROVE OneOwner(c)'
        <4>1. CASE c \in Moved(l)
          <5>1. /\ FreeAt(c) = {} /\ HugeAt(c) = {} /\ TakenAt(c) = {} /\ MovedAt(c) = {t}
                /\ ArenaAt(c) = {} /\ BaseAt(c) = {} /\ LostAt(c) = {}
            BY <4>1, HandsOnly
          <5>2. TakenAt(c) \subseteq {t} /\ MovedAt(c) \subseteq {t} /\ c \notin Taken(m) /\ c \notin Moved(m)
            BY <2>3, <5>1
          <5>3. TakenAt(c)' = {} /\ MovedAt(c)' = {}
            BY <2>t, <5>2, HandsAfter
          <5>4. FreeAt(c)' = {j}
            BY <3>2, <5>1
          <5> QED BY <3>1, <5>1, <5>3, <5>4 DEF OneOwner, Solo
        <4>2. CASE c \notin Moved(l)
          <5>0. PICK f \in S : c \in Chunks(f)
            BY <4>2, <1>2, <2>j, <3>0
          <5>1. f \in FreeAt(c) /\ OneOwner(c)
            BY <5>0, <2>j DEF FreeAt, JeInv, Accounted
          <5>2. /\ FreeAt(c) = {f} /\ HugeAt(c) = {} /\ TakenAt(c) = {} /\ MovedAt(c) = {}
                /\ ArenaAt(c) = {} /\ BaseAt(c) = {} /\ LostAt(c) = {}
            BY <5>1, OwnerIs
          <5>3. TakenAt(c) \subseteq {t} /\ MovedAt(c) \subseteq {t} /\ c \notin Taken(m) /\ c \notin Moved(m)
            BY <2>3, <5>2
          <5>4. TakenAt(c)' = {} /\ MovedAt(c)' = {}
            BY <2>t, <5>3, HandsAfter
          <5>5. FreeAt(c)' = {j}
            BY <3>2, <5>0, <5>2
          <5> QED BY <3>1, <5>2, <5>4, <5>5 DEF OneOwner, Solo
        <4> QED BY <4>1, <4>2
      <3>4. \A c \in Usable \ T : /\ c \in Taken(m) <=> c \in Taken(th[t])
                                  /\ c \in Moved(m) <=> c \in Moved(th[t])
        BY <2>3, <1>2, <2>j, <3>0
      <3>5. \A c \in Usable \ T : /\ FreeAt(c)' = FreeAt(c) /\ HugeAt(c)' = HugeAt(c)
                                  /\ ArenaAt(c)' = ArenaAt(c) /\ BaseAt(c)' = BaseAt(c)
                                  /\ LostAt(c)' = LostAt(c)
        BY <3>1, <3>2
      <3> QED BY <2>t, <1>u, <3>3, <3>4, <3>5, OwnersMove
    <2>5. BaseRest'
      BY <1>u, BaseKept
    <2>6. /\ Taken(m) \subseteq Usable /\ Moved(m) \subseteq Usable /\ inarena' \subseteq Usable \cap Nat
          /\ Claim(m) \subseteq huge' /\ \A s \in Threads \ {t} : Claim(m) \cap Claim(th[s]) = {}
      BY <1>m, <2>3, <1>o, <1>u
    <2>7. Chunks(j) \subseteq Usable /\ (j.z => Chunks(j) \subseteq mem)
      <3>1. Chunks(l.e) \subseteq Usable /\ (l.e.z => Chunks(l.e) \subseteq mem)
        BY <1>o, <1>u, <1>2 DEF Moving
      <3>2. \A f \in S : Chunks(f) \subseteq Usable /\ (f.z => Chunks(f) \subseteq mem)
        BY <1>o, <2>j
      <3> QED BY <2>j, <3>1, <3>2
    <2>8. (\A x \in exts' : ExtOK(x) /\ Chunks(x) \subseteq Usable) /\ \A x \in exts' : x.z => Chunks(x) \subseteq mem'
      BY <1>o, <1>u, <2>x, <2>j, <2>7
    <2> QED BY <2>t, <1>u, <1>1, <2>3, <1>o, <2>4, <2>5, <2>6, <2>8, HandOver
  <1> QED BY <1>3, <1>4

-----------------------------------------------------------------------------
(* chunk_recycle.                                                          *)

LEMMA HasLeast ==
  ASSUME NEW S \in SUBSET Nat, S # {}
  PROVE  \E x \in S : \A y \in S : x <= y
  <1>0. IsWellFoundedOn({p \in Nat \X Nat : p[1] < p[2]}, Nat)
    BY NatLessThanWellFounded DEF OpToRel
  <1>1. PICK R : R = {p \in Nat \X Nat : p[1] < p[2]} /\ IsWellFoundedOn(R, Nat)
    BY <1>0
  <1>2. PICK x \in S : \A y \in S : ~ (<<y, x>> \in R)
    <2>1. IsWellFoundedOn(R, Nat) /\ S \subseteq Nat
      BY <1>1
    <2> QED BY ONLY <2>1, S # {}, WFMin
  <1>3. \A y \in S : ~ (y < x)
    BY <1>1, <1>2
  <1> QED BY <1>3

LEMMA DivBound ==
  ASSUME NEW a \in Int, NEW b \in Nat \ {0}
  PROVE  a \div b \in Int /\ (a \div b) * b <= a /\ a < (a \div b) * b + b
  OBVIOUS

LEMMA Aligned ==
  ASSUME NEW x \in Nat, NEW al \in Nat \ {0}
  PROVE  ALIGNMENT_CEILING(x, al) - x \in 0 .. (al - 1)
  <1>1. x + al - 1 \in Int
    OBVIOUS
  <1> DEFINE d == (x + al - 1) \div al
  <1>2. d \in Int /\ d * al <= x + al - 1 /\ x + al - 1 < d * al + al
    BY <1>1, DivBound
  <1>3. ALIGNMENT_CEILING(x, al) = d * al
    BY DEF ALIGNMENT_CEILING
  <1> HIDE DEF d
  <1>4. d * al \in Int
    BY <1>2
  <1> QED BY <1>2, <1>3, <1>4

\* chunk_recycle finds an extent when one is large enough.
LEMMA FirstFitIs ==
  ASSUME \A x \in exts : ExtOK(x), NEW want \in Nat, NEW g \in exts, g.n >= want
  PROVE  FirstFit(want) \in exts /\ FirstFit(want).n >= want
  <1> DEFINE P(e) == /\ e.n >= want
                     /\ \A f \in exts : f.n >= want => (e.n < f.n \/ (e.n = f.n /\ e.a <= f.a))
  <1>1. \E e \in exts : P(e)
    <2> DEFINE E == {f \in exts : f.n >= want}   N == {f.n : f \in E}
    <2>1. N \in SUBSET Nat /\ N # {}
      BY DEF ExtOK
    <2>2. PICK n \in N : \A k \in N : n <= k
      BY <2>1, HasLeast
    <2> DEFINE A == {f.a : f \in {h \in E : h.n = n}}
    <2>3. A \in SUBSET Nat /\ A # {}
      BY <2>2 DEF ExtOK
    <2>4. PICK a \in A : \A k \in A : a <= k
      BY <2>3, HasLeast
    <2>5. PICK e \in exts : e.n = n /\ e.a = a /\ e.n >= want
      BY <2>4
    <2>6. ASSUME NEW f \in exts, f.n >= want PROVE e.n < f.n \/ (e.n = f.n /\ e.a <= f.a)
      <3>1. f.n \in N /\ f.n \in Nat /\ n \in Nat
        BY <2>1, <2>2, <2>6
      <3>2. n <= f.n
        BY <2>2, <3>1
      <3>3. CASE n = f.n
        <4>1. f.a \in A
          BY <2>6, <3>3
        <4>2. a <= f.a
          BY <2>4, <4>1
        <4> QED BY <2>5, <3>3, <4>2
      <3>4. CASE n # f.n
        BY <2>5, <3>1, <3>2, <3>4
      <3> QED BY <3>3, <3>4
    <2> QED BY <2>5, <2>6
  <1>2. FirstFit(want) = CHOOSE e \in exts : P(e)
    BY DEF FirstFit
  <1> HIDE DEF P
  <1>3. FirstFit(want) \in exts /\ P(FirstFit(want))
    BY <1>1, <1>2
  <1> QED BY <1>3 DEF P

LEMMA RecycleTakeKeeps ==
  ASSUME JeInv, NEW t \in Threads, RecycleTake(t)
  PROVE  JeInv'
  <1> DEFINE l == th[t]
  <1>m. /\ ThreadOK(l) /\ (l.pc # "idle" \/ live => ranges # {})
        /\ Claim(l) \subseteq huge /\ \A s \in Threads \ {t} : Claim(l) \cap Claim(th[s]) = {}
    BY Mine
  <1>o. /\ \A y \in exts : /\ ExtOK(y) /\ Chunks(y) \subseteq Usable
                           /\ y.z => Chunks(y) \subseteq mem
        /\ \A y \in huge : /\ ExtOK(y) /\ Chunks(y) \subseteq Usable
                           /\ y.z => Chunks(y) \subseteq mem
        /\ inarena \subseteq Usable \cap Nat
        /\ \A s \in Threads : Claim(th[s]) \subseteq huge
        /\ \A s \in Threads : /\ th[s].pc \in Moving /\ th[s].e.z => Chunks(th[s].e) \subseteq mem
                              /\ th[s].r # NoChunk /\ th[s].zero => Taken(th[s]) \subseteq mem
        /\ \A s \in Threads : Taken(th[s]) \subseteq Usable /\ Moved(th[s]) \subseteq Usable
    BY Others, Zenon
  <1>u. UNCHANGED <<live, huge, base, ranges, inarena, used, lost>> /\ l.pc = "recycle"
    BY DEF RecycleTake, At
  <1>1. /\ TakeBack(l) /\ l.k \in Seq(Labels) /\ l.n \in Nat \ {0} /\ l.al \in Nat \ {0}
        /\ DOMAIN l = Fields /\ l.r = NoChunk /\ l.e = NoExt /\ ranges # {}
    BY <1>u, <1>m DEF ThreadOK, Taking, Holding, Moving, MayHold
  <1>2. Taken(l) = {} /\ Moved(l) = {}
    BY <1>1, NoHands
  <1>3. CASE \A f \in exts : f.n < l.n + l.al - 1
    <2>1. PICK q, m : /\ q = [l EXCEPT !.r = NoChunk] /\ m = Return(q) /\ th' = [th EXCEPT ![t] = m]
                      /\ exts' = exts /\ mem' = mem
      BY <1>3, Zenon DEF RecycleTake, Step
    <2>2. DOMAIN q = Fields /\ Keeps(q, l) /\ q.k = l.k
      BY <2>1, <1>1 DEF Fields, Keeps
    <2>3. /\ q.k \in Seq(Labels) /\ q.n \in Nat /\ q.al \in Nat \ {0} /\ q.r = NoChunk /\ q.e = NoExt
          /\ q.old = l.old /\ q.r \in Nat \cup {NoChunk}
      BY <2>2, <1>1 DEF Keeps
    <2>4. TakeBack(q)
      BY <2>2, <1>1 DEF TakeBack, BaseSize, Keeps
    <2>5. /\ ThreadOK(m) /\ Keeps(m, q) /\ Taken(m) = Taken(q) /\ Moved(m) = {}
          /\ m.pc \in {"huge_register", "arena_register", "base_pages"}
          /\ Claim(m) = {x \in {q.old} : x # NoExt}
      BY <2>1, <2>2, <2>3, <2>4, TakeReturns
    <2>6. Taken(m) = {} /\ Claim(m) \subseteq Claim(l) /\ m.pc \notin Moving /\ m.r = NoChunk
      BY <2>3, <2>5 DEF Taken, Claim, Moving, Keeps
    <2>7. Claim(m) \subseteq huge /\ \A s \in Threads \ {t} : Claim(m) \cap Claim(th[s]) = {}
      BY <1>m, <2>6
    <2> QED BY <1>u, <1>1, <1>2, <2>1, <2>5, <2>6, <2>7, QuietStep
  <1>4. CASE ~ \A f \in exts : f.n < l.n + l.al - 1
    <2> DEFINE e == FirstFit(l.n + l.al - 1)
               ld == ALIGNMENT_CEILING(e.a, l.al) - e.a
               tr == e.n - ld - l.n
               w == l.zero \/ e.z
               q == [l EXCEPT !.r = e.a + ld, !.zero = w]
               le == [a |-> e.a, n |-> ld, z |-> e.z]
               te == [a |-> e.a + ld + l.n, n |-> tr, z |-> e.z]
    <2>2. /\ exts' = (exts \ {e}) \cup (IF ld # 0 THEN {le} ELSE {})
                        \cup (IF tr # 0 /\ ld = 0 THEN {te} ELSE {})
          /\ mem' = IF w THEN mem \cup Chunks([e EXCEPT !.a = e.a + ld, !.n = l.n])
                    ELSE mem
      BY <1>4, Zenon DEF RecycleTake
    <2>s. th' = [th EXCEPT ![t] =
                   CASE ld # 0 /\ tr # 0 -> [q EXCEPT !.pc = "trail_node", !.e = te]
                     [] ld = 0 /\ tr = 0 -> [q EXCEPT !.pc = "recycle_put", !.held = q.held + 1]
                     [] OTHER -> Return(q)]
      BY <1>4, Zenon DEF RecycleTake, Step
    <2>1. /\ e = FirstFit(l.n + l.al - 1) /\ ld = ALIGNMENT_CEILING(e.a, l.al) - e.a
          /\ tr = e.n - ld - l.n
          /\ le = [a |-> e.a, n |-> ld, z |-> e.z]
          /\ te = [a |-> e.a + ld + l.n, n |-> tr, z |-> e.z]
      BY Zenon
    <2>w. w => l.zero \/ e.z
      BY Zenon
    <2>q. q = [l EXCEPT !.r = e.a + ld, !.zero = w]
      BY Zenon
    <2> HIDE DEF e, ld, tr, w, q, le, te
    <2>3. PICK m, h :
             /\ th' = [th EXCEPT ![t] = m]
             /\ \/ ld # 0 /\ tr # 0 /\ m = [q EXCEPT !.pc = "trail_node", !.e = te]
                \/ ld = 0 /\ tr = 0 /\ m = [q EXCEPT !.pc = "recycle_put", !.held = h]
                \/ ~(ld # 0 /\ tr # 0) /\ ~(ld = 0 /\ tr = 0) /\ m = Return(q)
      <3>1. PICK m, a, b, c, h :
               /\ a = [q EXCEPT !.pc = "trail_node", !.e = te] /\ c = Return(q)
               /\ b = [q EXCEPT !.pc = "recycle_put", !.held = h]
               /\ m = CASE ld # 0 /\ tr # 0 -> a [] ld = 0 /\ tr = 0 -> b [] OTHER -> c
               /\ th' = [th EXCEPT ![t] = m]
        BY <2>s, Zenon
      <3>2. \/ ld # 0 /\ tr # 0 /\ m = a
            \/ ld = 0 /\ tr = 0 /\ m = b
            \/ ~(ld # 0 /\ tr # 0) /\ ~(ld = 0 /\ tr = 0) /\ m = c
        <4>1. m = CASE ld # 0 /\ tr # 0 -> a [] ld = 0 /\ tr = 0 -> b [] OTHER -> c
          BY <3>1
        <4> QED BY ONLY <4>1
      <3> QED BY <3>1, <3>2, Zenon
    <2>e. e \in exts /\ e.n >= l.n + l.al - 1
      <3>0. PICK want, n, al : want = n + al - 1 /\ n = l.n /\ al = l.al
        OBVIOUS
      <3>1. want \in Nat
        BY <1>1, <3>0
      <3>2. PICK g \in exts : ~(g.n < want)
        BY <1>4, <3>0
      <3>3. g.n >= want
        BY <1>o, <3>1, <3>2 DEF ExtOK
      <3>4. FirstFit(want) \in exts /\ FirstFit(want).n >= want
        BY <1>o, <3>1, <3>3, FirstFitIs
      <3> QED BY <2>1, <3>0, <3>4
    <2>n. PICK ea, en, n : ea = e.a /\ en = e.n /\ n = l.n
      OBVIOUS
    <2>4. /\ ea \in Nat /\ en \in Nat \ {0} /\ n \in Nat \ {0} /\ ld \in Nat /\ tr \in Nat
          /\ tr = en - ld - n
      <3>1. ea \in Nat /\ en \in Nat \ {0} /\ n \in Nat \ {0} /\ en >= n + l.al - 1
        BY <1>1, <1>o, <2>e, <2>n DEF ExtOK
      <3>2. ld \in 0 .. (l.al - 1)
        BY <1>1, <2>1, <2>n, <3>1, Aligned
      <3>3. tr = en - ld - n
        BY <2>1, <2>n
      <3>4. PICK al : al = l.al /\ al \in Nat \ {0} /\ en >= n + al - 1 /\ ld \in 0 .. (al - 1)
        BY <1>1, <3>1, <3>2
      <3>5. tr \in Nat
        BY <3>1, <3>3, <3>4
      <3> QED BY <3>1, <3>3, <3>4, <3>5
    <2> DEFINE CL == ea .. (ea + ld - 1)
               CM == (ea + ld) .. (ea + ld + n - 1)
               CT == (ea + ld + n) .. (ea + en - 1)
    <2>5. /\ Chunks(e) = CL \cup CM \cup CT /\ CL \cap CM = {} /\ CL \cap CT = {} /\ CM \cap CT = {}
          /\ (ld = 0 => CL = {}) /\ (tr = 0 => CT = {})
      <3>1. Chunks(e) = ea .. (ea + en - 1)
        BY <2>n DEF Chunks
      <3>2. ea .. (ea + en - 1) = CL \cup CM \cup CT
        BY <2>4
      <3>3. CL \cap CM = {} /\ CL \cap CT = {} /\ CM \cap CT = {}
        BY <2>4
      <3>4. (ld = 0 => CL = {}) /\ (tr = 0 => CT = {})
        BY <2>4
      <3> QED BY <3>1, <3>2, <3>3, <3>4
    <2>6. /\ le.a = ea /\ le.n = ld /\ le.z = e.z /\ DOMAIN le = {"a", "n", "z"}
          /\ te.a = ea + ld + n /\ te.n = tr /\ te.z = e.z /\ DOMAIN te = {"a", "n", "z"}
      BY <2>1, <2>n
    <2>7. /\ Chunks(le) = CL /\ Chunks(te) = CT /\ (ld # 0 => ExtOK(le)) /\ (tr # 0 => ExtOK(te))
      <3>1. (ea + ld + n) + tr - 1 = ea + en - 1 /\ ea + ld + n \in Nat
        BY <2>4
      <3> QED BY <2>4, <2>6, <3>1 DEF Chunks, ExtOK
    <2>8. Chunks([e EXCEPT !.a = e.a + ld, !.n = l.n]) = CM
      <3>1. DOMAIN e = {"a", "n", "z"}
        BY <1>o, <2>e DEF ExtOK
      <3>2. PICK x : x = [e EXCEPT !.a = e.a + ld, !.n = l.n]
        OBVIOUS
      <3>3. x.a = ea + ld /\ x.n = n
        BY <2>n, <3>1, <3>2
      <3>4. Chunks(x) = CM
        BY <3>3 DEF Chunks
      <3> QED BY <3>2, <3>4
    <2>9. mem \subseteq mem' /\ (w => CM \subseteq mem')
      BY <2>2, <2>8
    <2> HIDE DEF CL, CM, CT
    <2>10. /\ DOMAIN q = Fields /\ q.k = l.k /\ q.n = l.n /\ q.al = l.al /\ q.r = ea + ld /\ q.e = NoExt
           /\ q.old = l.old /\ q.c = l.c /\ q.zero = w /\ q.pc = l.pc
      BY <1>1, <2>q, <2>n DEF Fields
    <2>11. /\ TakeBack(q) /\ q.r \in Nat /\ q.r # NoChunk /\ q.n # 0 /\ Taken(q) = CM
      <3>1. TakeBack(q)
        BY <1>1, <2>10 DEF TakeBack, BaseSize
      <3>2. q.r \in Nat /\ q.r # NoChunk /\ q.n # 0
        BY <2>10, <2>4, <2>n DEF NoChunk
      <3>3. Taken(q) = CM
        BY <2>10, <2>n, <3>2 DEF Taken, CM
      <3> QED BY <3>1, <3>2, <3>3
    <2>12. /\ ThreadOK(m) /\ Taken(m) = CM /\ Claim(m) \subseteq Claim(l) /\ m.zero = w
           /\ (ld # 0 /\ tr # 0 => Moved(m) = CT /\ m.e = te)
           /\ (ld = 0 \/ tr = 0 => Moved(m) = {} /\ m.pc \notin Moving)
      <3>1. CASE ld # 0 /\ tr # 0
        <4>1. m = [q EXCEPT !.pc = "trail_node", !.e = te]
          BY <2>3, <3>1
        <4>2. /\ DOMAIN m = Fields /\ m.pc = "trail_node" /\ m.k = q.k /\ m.n = q.n /\ m.al = q.al
              /\ m.r = q.r /\ m.e = te /\ m.old = q.old /\ m.c = q.c /\ m.zero = w
          BY <2>10, <4>1 DEF Fields
        <4>3. TakeBack(m)
          BY <2>11, <4>2 DEF TakeBack, BaseSize
        <4>4. ThreadOK(m)
          BY <1>1, <2>7, <2>10, <2>11, <3>1, <4>2, <4>3
             DEF ThreadOK, Labels, Taking, Giving, Moving, Holding, MayHold
        <4>5. Taken(m) = CM /\ Moved(m) = CT
          BY <2>7, <2>11, <4>2 DEF Taken, Moved
        <4>6. Claim(m) \subseteq Claim(l)
          BY <2>10, <4>2 DEF Claim
        <4> QED BY <3>1, <4>2, <4>4, <4>5, <4>6
      <3>2. CASE ld = 0 /\ tr = 0
        <4>1. m = [q EXCEPT !.pc = "recycle_put", !.held = h]
          BY <2>3, <3>2
        <4>2. /\ DOMAIN m = Fields /\ m.pc = "recycle_put" /\ m.k = q.k /\ m.n = q.n /\ m.al = q.al
              /\ m.r = q.r /\ m.e = NoExt /\ m.old = q.old /\ m.c = q.c /\ m.zero = w
          BY <2>10, <4>1 DEF Fields
        <4>3. TakeBack(m)
          BY <2>11, <4>2 DEF TakeBack, BaseSize
        <4>4. ThreadOK(m)
          BY <1>1, <2>10, <2>11, <4>2, <4>3
             DEF ThreadOK, Labels, Taking, Giving, Moving, Holding, MayHold
        <4>5. Taken(m) = CM
          BY <2>11, <4>2 DEF Taken
        <4>6. Moved(m) = {} /\ m.pc \notin Moving
          BY <4>2 DEF Moved, Moving, Chunks, NoExt, NoChunk
        <4>7. Claim(m) \subseteq Claim(l)
          BY <2>10, <4>2 DEF Claim
        <4> QED BY <3>2, <4>2, <4>4, <4>5, <4>6, <4>7
      <3>3. CASE ~(ld # 0 /\ tr # 0) /\ ~(ld = 0 /\ tr = 0)
        <4>1. m = Return(q)
          BY <2>3, <3>3
        <4>2. q.k \in Seq(Labels) /\ q.n \in Nat /\ q.al \in Nat \ {0} /\ q.r \in Nat \cup {NoChunk}
          BY <1>1, <2>10, <2>11
        <4>3. /\ ThreadOK(m) /\ Keeps(m, q) /\ Taken(m) = Taken(q) /\ Moved(m) = {}
              /\ m.pc \in {"huge_register", "arena_register", "base_pages"}
              /\ Claim(m) = {x \in {q.old} : x # NoExt}
          BY <2>10, <2>11, <4>1, <4>2, TakeReturns
        <4>4. Claim(m) \subseteq Claim(l) /\ m.pc \notin Moving /\ m.zero = w
          BY <2>10, <4>3 DEF Claim, Moving, Keeps
        <4> QED BY <2>11, <3>3, <4>3, <4>4
      <3> QED BY <3>1, <3>2, <3>3
    <2>t. Shape /\ th' = [th EXCEPT ![t] = m]
      BY <2>3 DEF JeInv
    <2>13. Accounted'
      <3>0. PICK T : T = Chunks(e)
        OBVIOUS
      <3>1. ASSUME NEW c
            PROVE  /\ LostAt(c)' = LostAt(c) /\ HugeAt(c)' = HugeAt(c) /\ ArenaAt(c)' = ArenaAt(c)
                   /\ BaseAt(c)' = BaseAt(c)
        BY <1>u DEF LostAt, HugeAt, ArenaAt, BaseAt, BaseChunks
      <3>2. ASSUME NEW c
            PROVE  /\ c \notin T => FreeAt(c)' = FreeAt(c)
                   /\ FreeAt(c) = {e} /\ c \in CL => FreeAt(c)' = {le}
                   /\ FreeAt(c) = {e} /\ c \in CM => FreeAt(c)' = {}
                   /\ FreeAt(c) = {e} /\ c \in CT => FreeAt(c)' = IF ld = 0 THEN {te} ELSE {}
        <4>1. PICK A : A = exts' \ (exts \ {e})
          OBVIOUS
        <4>2. exts' = (exts \ {e}) \cup A
          BY <2>2, <4>1
        <4>3. A \subseteq (IF ld # 0 THEN {le} ELSE {}) \cup (IF tr # 0 /\ ld = 0 THEN {te} ELSE {})
          BY <2>2, <4>1
        <4>4. /\ ld # 0 => le \in exts'
              /\ tr # 0 /\ ld = 0 => te \in exts'
          BY <2>2
        <4>5. c \notin T => FreeAt(c)' = FreeAt(c)
          BY <2>5, <2>7, <3>0, <4>2, <4>3 DEF FreeAt
        <4>6. FreeAt(c) = {e} => {x \in exts \ {e} : c \in Chunks(x)} = {}
          BY DEF FreeAt
        <4>7. FreeAt(c)' = {x \in exts \ {e} : c \in Chunks(x)} \cup {x \in A : c \in Chunks(x)}
          BY <4>2 DEF FreeAt
        <4>8. c \in CL => ld # 0 /\ c \notin CT
          BY <2>5
        <4>9. c \in CT => tr # 0 /\ c \notin CL
          BY <2>5
        <4>10. c \in CM => c \notin CL /\ c \notin CT
          BY <2>5
        <4>11. ASSUME FreeAt(c) = {e}, c \in CL PROVE FreeAt(c)' = {le}
          <5>1. le \in FreeAt(c)'
            BY <2>7, <4>4, <4>8, <4>11 DEF FreeAt
          <5>2. \A x \in A : x = le
            BY <4>3, <4>8, <4>11
          <5> QED BY <4>6, <4>7, <4>11, <5>1, <5>2
        <4>12. ASSUME FreeAt(c) = {e}, c \in CM PROVE FreeAt(c)' = {}
          <5>1. \A x \in A : c \notin Chunks(x)
            BY <2>7, <4>3, <4>10, <4>12
          <5> QED BY <4>6, <4>7, <4>12, <5>1
        <4>13. ASSUME FreeAt(c) = {e}, c \in CT, ld = 0 PROVE FreeAt(c)' = {te}
          <5>1. te \in FreeAt(c)'
            BY <2>7, <4>4, <4>9, <4>13 DEF FreeAt
          <5>2. \A x \in A : x = te
            BY <4>3, <4>13
          <5> QED BY <4>6, <4>7, <4>13, <5>1, <5>2
        <4>14. ASSUME FreeAt(c) = {e}, c \in CT, ld # 0 PROVE FreeAt(c)' = {}
          <5>1. \A x \in A : c \notin Chunks(x)
            BY <2>7, <4>3, <4>9, <4>14
          <5> QED BY <4>6, <4>7, <4>14, <5>1
        <4> QED BY <4>5, <4>11, <4>12, <4>13, <4>14
      <3>3. ASSUME NEW c \in Usable \cap T PROVE OneOwner(c)'
        <4>1. e \in FreeAt(c) /\ OneOwner(c)
          BY <2>e, <3>0 DEF FreeAt, JeInv, Accounted
        <4>2. /\ FreeAt(c) = {e} /\ HugeAt(c) = {} /\ TakenAt(c) = {} /\ MovedAt(c) = {}
              /\ ArenaAt(c) = {} /\ BaseAt(c) = {} /\ LostAt(c) = {}
          BY <4>1, OwnerIs
        <4>3. TakenAt(c) \subseteq {t} /\ MovedAt(c) \subseteq {t}
          BY <4>2
        <4>4. /\ c \in Taken(m) => TakenAt(c)' = {t}
              /\ c \notin Taken(m) => TakenAt(c)' = {}
              /\ c \in Moved(m) => MovedAt(c)' = {t}
              /\ c \notin Moved(m) => MovedAt(c)' = {}
          BY <2>t, <4>3, HandsAfter
        <4>5. CASE c \in CL
          <5>1. c \notin Taken(m) /\ c \notin Moved(m)
            BY <2>5, <2>12, <4>5
          <5>2. FreeAt(c)' = {le} /\ TakenAt(c)' = {} /\ MovedAt(c)' = {}
            BY <3>2, <4>2, <4>4, <4>5, <5>1
          <5> QED BY <3>1, <4>2, <5>2 DEF OneOwner, Solo
        <4>6. CASE c \in CM
          <5>1. c \in Taken(m) /\ c \notin Moved(m)
            BY <2>5, <2>12, <4>6
          <5>2. FreeAt(c)' = {} /\ TakenAt(c)' = {t} /\ MovedAt(c)' = {}
            BY <3>2, <4>2, <4>4, <4>6, <5>1
          <5> QED BY <3>1, <4>2, <5>2 DEF OneOwner, Solo
        <4>7. CASE c \in CT /\ ld = 0
          <5>1. c \notin Taken(m) /\ c \notin Moved(m)
            BY <2>5, <2>12, <4>7
          <5>2. FreeAt(c)' = {te} /\ TakenAt(c)' = {} /\ MovedAt(c)' = {}
            BY <3>2, <4>2, <4>4, <4>7, <5>1
          <5> QED BY <3>1, <4>2, <5>2 DEF OneOwner, Solo
        <4>8. CASE c \in CT /\ ld # 0
          <5>1. c \notin Taken(m) /\ c \in Moved(m)
            BY <2>5, <2>12, <4>8
          <5>2. FreeAt(c)' = {} /\ TakenAt(c)' = {} /\ MovedAt(c)' = {t}
            BY <3>2, <4>2, <4>4, <4>8, <5>1
          <5> QED BY <3>1, <4>2, <5>2 DEF OneOwner, Solo
        <4> QED BY <2>5, <3>0, <4>5, <4>6, <4>7, <4>8
      <3>4. \A c \in Usable \ T : /\ c \in Taken(m) <=> c \in Taken(th[t])
                                  /\ c \in Moved(m) <=> c \in Moved(th[t])
        BY <1>2, <2>5, <2>12, <3>0
      <3>5. \A c \in Usable \ T : /\ FreeAt(c)' = FreeAt(c) /\ HugeAt(c)' = HugeAt(c)
                                  /\ ArenaAt(c)' = ArenaAt(c) /\ BaseAt(c)' = BaseAt(c)
                                  /\ LostAt(c)' = LostAt(c)
        BY <3>1, <3>2
      <3> QED BY <2>t, <1>u, <3>3, <3>4, <3>5, OwnersMove
    <2>14. BaseRest'
      BY <1>u, BaseKept
    <2>15. Chunks(e) \subseteq Usable /\ (e.z => Chunks(e) \subseteq mem)
      BY <1>o, <2>e
    <2>16. /\ Taken(m) \subseteq Usable /\ Moved(m) \subseteq Usable /\ inarena' \subseteq Usable \cap Nat
           /\ Claim(m) \subseteq huge' /\ \A s \in Threads \ {t} : Claim(m) \cap Claim(th[s]) = {}
      <3>1. Taken(m) \subseteq Usable /\ Moved(m) \subseteq Usable
        BY <2>5, <2>12, <2>15
      <3> QED BY <1>m, <1>o, <1>u, <2>12, <3>1
    <2>17. /\ \A x \in exts' : ExtOK(x) /\ Chunks(x) \subseteq Usable
           /\ \A x \in exts' : x.z => Chunks(x) \subseteq mem'
      <3>1. ASSUME NEW x \in exts' PROVE ExtOK(x) /\ Chunks(x) \subseteq Usable /\ (x.z => Chunks(x) \subseteq mem')
        <4>1. x \in exts \/ (x = le /\ ld # 0) \/ (x = te /\ tr # 0)
          BY <2>2
        <4>2. CASE x \in exts
          BY <1>o, <2>9, <4>2
        <4>3. CASE x = le /\ ld # 0
          BY <2>5, <2>6, <2>7, <2>9, <2>15, <4>3
        <4>4. CASE x = te /\ tr # 0
          BY <2>5, <2>6, <2>7, <2>9, <2>15, <4>4
        <4> QED BY <4>1, <4>2, <4>3, <4>4
      <3> QED BY <3>1
    <2>18. m.pc \in Moving /\ m.e.z => Chunks(m.e) \subseteq mem'
      BY <2>5, <2>6, <2>7, <2>9, <2>12, <2>15
    <2>19. m.r # NoChunk /\ m.zero => Taken(m) \subseteq mem'
      BY <2>9, <2>12
    <2>20. /\ \A x \in huge' : ExtOK(x) /\ Chunks(x) \subseteq Usable
           /\ \A x \in huge' : x.z => Chunks(x) \subseteq mem'
           /\ \A s \in Threads \ {t} : Claim(th[s]) \subseteq huge'
      BY <1>o, <1>u, <2>9
    <2>21. \A s \in Threads \ {t} : /\ th[s].pc \in Moving /\ th[s].e.z => Chunks(th[s].e) \subseteq mem'
                                    /\ th[s].r # NoChunk /\ th[s].zero => Taken(th[s]) \subseteq mem'
      BY <1>o, <2>9
    <2> QED BY <2>t, <1>u, <1>1, <2>12, <2>13, <2>14, <2>16, <2>17, <2>18, <2>19, <2>20, <2>21, HandOver
  <1> QED BY <1>3, <1>4

-----------------------------------------------------------------------------
(* Base memory.                                                            *)

LEMMA UnitsPositive == U \in Nat \ {0}
  BY JeAssumption

LEMMA TimesMono ==
  ASSUME NEW a \in Int, NEW b \in Int, NEW u \in Nat \ {0}
  PROVE  (a <= b <=> a * u <= b * u) /\ (a < b <=> a * u < b * u) /\ a * u \in Int /\ b * u \in Int
  OBVIOUS

LEMMA Distribute ==
  ASSUME NEW a \in Int, NEW b \in Int, NEW u \in Nat \ {0}
  PROVE  (a + b) * u = a * u + b * u
  OBVIOUS

\* The chunk a unit is in.
LEMMA ChunkOf ==
  ASSUME NEW x \in Int, NEW k \in Int
  PROVE  /\ x \div U \in Int
         /\ k * U <= x <=> k <= x \div U
         /\ x < k * U <=> x \div U < k
         /\ (k * U) \div U = k
  <1>u. U \in Nat \ {0}
    BY UnitsPositive
  <1> DEFINE d == x \div U
  <1>1. d \in Int /\ d * U <= x /\ x < d * U + U
    BY <1>u, DivBound
  <1> HIDE DEF d
  <1>2. d * U + U = (d + 1) * U
    BY <1>1, <1>u
  <1>3. k <= d => k * U <= x
    BY <1>1, <1>u, TimesMono
  <1>4. d < k => x < k * U
    <2>1. d < k => (d + 1) * U <= k * U
      BY <1>1, <1>u, TimesMono
    <2> QED BY <1>1, <1>2, <2>1, <1>u
  <1>5. (k * U) \div U = k
    <2>1. k * U \in Int
      BY <1>u
    <2> DEFINE e == (k * U) \div U
    <2>2. e \in Int /\ e * U <= k * U /\ k * U < e * U + U
      BY <2>1, <1>u, DivBound
    <2> HIDE DEF e
    <2>3. e <= k
      BY <2>2, <1>u, TimesMono
    <2>4. e * U + U = (e + 1) * U
      BY <2>2, <1>u
    <2>5. k < e + 1
      BY <2>2, <2>4, <1>u, TimesMono
    <2>6. e = k
      BY <2>2, <2>3, <2>5
    <2> QED BY <2>6 DEF e
  <1>6. k * U \in Int
    BY <1>u
  <1>7. /\ k * U <= x <=> k <= d
        /\ x < k * U <=> d < k
    BY <1>1, <1>3, <1>4, <1>6
  <1> QED BY <1>1, <1>5, <1>7 DEF d

\* The chunks base_pages_alloc takes for c units.
LEMMA PagesFor ==
  ASSUME NEW c \in Nat \ {0}, NEW n, n = CHUNK_CEILING(c) \div U
  PROVE  n \in Nat \ {0} /\ c <= n * U /\ (n - 1) * U < c
  <1>u. U \in Nat \ {0}
    BY UnitsPositive
  <1> DEFINE d == (c + U - 1) \div U
  <1>1. d \in Int /\ d * U <= c + U - 1 /\ c + U - 1 < d * U + U
    BY <1>u, DivBound
  <1>2. n = (d * U) \div U
    BY DEF CHUNK_CEILING
  <1> HIDE DEF d
  <1>3. n = d
    BY <1>1, <1>2, ChunkOf
  <1>4. (n - 1) * U = n * U - U /\ n * U \in Int
    BY <1>1, <1>3, <1>u
  <1>5. c <= n * U /\ (n - 1) * U < c
    BY <1>1, <1>3, <1>4, <1>u
  <1>6. n > 0
    <2>1. 0 * U < n * U
      BY <1>4, <1>5, <1>u
    <2> QED BY <2>1, <1>1, <1>3, <1>u, TimesMono
  <1> QED BY <1>1, <1>3, <1>5, <1>6

LEMMA ChunksOfUnits ==
  ASSUME NEW r \in Nat, NEW c \in Nat \ {0}, NEW n, n = CHUNK_CEILING(c) \div U
  PROVE  /\ {x \div U : x \in (r * U) .. (r * U + c - 1)} = r .. (r + n - 1)
         /\ \A x \in (r * U + c) .. ((r + n) * U - 1) : x \div U \in r .. (r + n - 1)
         /\ r * U \in Nat /\ (r + n) * U \in Nat /\ n \in Nat
  <1>u. U \in Nat \ {0}
    BY UnitsPositive
  <1>n. n \in Nat \ {0} /\ c <= n * U /\ (n - 1) * U < c
    BY PagesFor
  <1>0. /\ r * U \in Nat /\ n * U \in Nat /\ (r + n) * U = r * U + n * U
        /\ (r + n - 1) * U = r * U + (n - 1) * U /\ (n - 1) * U \in Int
    <2>1. n \in Int /\ n - 1 \in Int /\ r \in Int /\ r + n - 1 = r + (n - 1)
      BY <1>n
    <2>2. (r + n) * U = r * U + n * U /\ (r + (n - 1)) * U = r * U + (n - 1) * U
      BY <2>1, <1>u, Distribute
    <2>3. r * U \in Nat /\ n * U \in Nat /\ (n - 1) * U \in Int
      BY <1>u, <1>n
    <2> QED BY <2>1, <2>2, <2>3
  <1>1. ASSUME NEW x \in Int, r * U <= x, x < (r + n) * U PROVE x \div U \in r .. (r + n - 1)
    <2>1. x \div U \in Int /\ r <= x \div U
      BY <1>1, ChunkOf
    <2>2. x \div U < r + n
      BY <1>1, <1>n, ChunkOf
    <2> QED BY <2>1, <2>2, <1>n
  <1>2. ASSUME NEW x \in (r * U) .. (r * U + c - 1) PROVE x \div U \in r .. (r + n - 1)
    <2>1. x \in Int /\ r * U <= x /\ x < (r + n) * U
      BY <1>0, <1>n
    <2> QED BY <2>1, <1>1
  <1>3. ASSUME NEW x \in (r * U + c) .. ((r + n) * U - 1) PROVE x \div U \in r .. (r + n - 1)
    <2>1. x \in Int /\ r * U <= x /\ x < (r + n) * U
      BY <1>0, <1>n
    <2> QED BY <2>1, <1>1
  <1>4. ASSUME NEW k \in r .. (r + n - 1) PROVE \E x \in (r * U) .. (r * U + c - 1) : k = x \div U
    <2>1. k \in Int /\ r <= k /\ k <= r + n - 1 /\ r + n - 1 \in Int
      BY <1>n
    <2>2. r * U <= k * U /\ k * U <= (r + n - 1) * U /\ k * U \in Int
      BY <2>1, <1>u, TimesMono
    <2>3. k * U \in (r * U) .. (r * U + c - 1)
      BY <2>2, <1>0, <1>n
    <2>4. (k * U) \div U = k
      BY <2>1, ChunkOf
    <2> QED BY <2>3, <2>4
  <1>5. {x \div U : x \in (r * U) .. (r * U + c - 1)} = r .. (r + n - 1)
    BY <1>2, <1>4
  <1> QED BY <1>0, <1>n, <1>3, <1>5

LEMMA BaseReturns ==
  ASSUME NEW q, NEW m, m = Return(q), DOMAIN q = Fields, q.k \in Seq(Labels), BaseBack(q.k),
         q.n \in Nat, q.al \in Nat \ {0}, q.r = NoChunk, q.e = NoExt
  PROVE  /\ ThreadOK(m) /\ m.r = NoChunk /\ m.e = NoExt /\ m.old = q.old
         /\ m.pc \in {"arena_new", "arena_done"} /\ Taken(m) = {} /\ Moved(m) = {}
         /\ Claim(m) = {x \in {q.old} : x # NoExt}
  <1>1. q.k # <<>> /\ Head(q.k) \in {"arena_new", "arena_done"}
    BY DEF BaseBack
  <1>2. /\ DOMAIN m = Fields /\ m.pc = Head(q.k) /\ m.k = Tail(q.k) /\ m.k \in Seq(Labels)
        /\ Keeps(m, q)
    BY <1>1, ReturnIs
  <1>3. m.n = q.n /\ m.al = q.al /\ m.r = NoChunk /\ m.e = NoExt /\ m.old = q.old
    BY <1>2 DEF Keeps
  <1>4. m.pc \in {"arena_new", "arena_done"}
    BY <1>1, <1>2
  <1>5. ThreadOK(m)
    BY <1>2, <1>3, <1>4 DEF ThreadOK, Labels, Taking, Giving, Moving, Holding, MayHold
  <1>6. Taken(m) = {} /\ Moved(m) = {}
    BY <1>3, NoHands
  <1>7. Claim(m) = {x \in {q.old} : x # NoExt}
    BY <1>3, <1>4 DEF Claim
  <1> QED BY <1>3, <1>4, <1>5, <1>6, <1>7

LEMMA BaseAllocKeeps ==
  ASSUME JeInv, NEW t \in Threads, BaseAlloc(t)
  PROVE  JeInv'
  <1> DEFINE l == th[t]
  <1>m. /\ ThreadOK(l) /\ (l.pc # "idle" \/ live => ranges # {})
        /\ Claim(l) \subseteq huge /\ \A s \in Threads \ {t} : Claim(l) \cap Claim(th[s]) = {}
    BY Mine
  <1>u. UNCHANGED <<live, exts, huge, ranges, inarena, mem, lost>> /\ l.pc = "base"
    BY Zenon DEF BaseAlloc, At
  <1>2. /\ l.e = NoExt /\ l.r = NoChunk /\ DOMAIN l = Fields /\ l.k \in Seq(Labels)
        /\ l.n \in Nat /\ l.al \in Nat \ {0} /\ BaseBack(l.k) /\ l.c \in Nat \ {0} /\ ranges # {}
    BY <1>u, <1>m DEF ThreadOK, Moving, MayHold, Holding
  <1>3. CASE base.next + l.c <= base.past
    <2>1. PICK q, m : /\ q = [l EXCEPT !.b = base.next] /\ m = Return(q)
                      /\ th' = [th EXCEPT ![t] = m]
      BY <1>3, Zenon DEF BaseAlloc, Step
    <2>2. /\ DOMAIN q = Fields /\ q.k = l.k /\ q.n = l.n /\ q.al = l.al
          /\ q.r = NoChunk /\ q.e = NoExt /\ q.old = l.old
      BY <2>1, <1>2 DEF Fields
    <2>3. /\ ThreadOK(m) /\ m.r = NoChunk /\ m.e = NoExt /\ m.old = q.old
          /\ m.pc \in {"arena_new", "arena_done"} /\ Taken(m) = {} /\ Moved(m) = {}
          /\ Claim(m) = {x \in {q.old} : x # NoExt}
      <3>1. m = Return(q) /\ q.k \in Seq(Labels) /\ BaseBack(q.k) /\ q.n \in Nat /\ q.al \in Nat \ {0}
        BY <1>2, <2>1, <2>2
      <3> QED BY ONLY <3>1, <2>2, BaseReturns
    <2>t. Shape /\ th' = [th EXCEPT ![t] = m]
      BY <2>1 DEF JeInv
    <2>b. PICK next, past, c : next = base.next /\ past = base.past /\ c = l.c
      OBVIOUS
    <2>4. /\ next \in Nat /\ past \in Nat /\ c \in Nat \ {0} /\ next + c <= past
          /\ DOMAIN base = {"next", "past"} /\ used \subseteq Nat
      BY <2>b, <1>2, <1>3 DEF JeInv, BaseRest
    <2>5. base' = [base EXCEPT !.next = next + c] /\ used' = used \cup (next .. (next + c - 1))
      BY <1>3, <2>b DEF BaseAlloc
    <2>6. /\ base'.next = next + c /\ base'.past = past /\ DOMAIN base' = {"next", "past"}
          /\ used' \subseteq Nat
      BY <2>4, <2>5, <2>b
    <2>7. Usable' = Usable
      BY <1>u DEF Usable
    <2>8. \A x \in next .. (past - 1) : x \div U \in Usable => x \div U \in BaseChunks
      BY <2>b DEF JeInv, BaseRest
    <2>9. \A x \in used : x \in used'
      BY <2>5
    <2>10. \A y : y \in BaseChunks => y \in BaseChunks'
      BY <2>9 DEF BaseChunks
    <2>11. BaseRest'
      <3>1. ASSUME NEW x \in (next + c) .. (past - 1), x \div U \in Usable
            PROVE  x \div U \in BaseChunks'
        <4>1. x \in next .. (past - 1)
          BY <2>4
        <4> QED BY <3>1, <4>1, <2>8, <2>10
      <3> QED BY <2>4, <2>6, <2>7, <3>1 DEF BaseRest
    <2>12. ASSUME NEW d \in Usable PROVE BaseAt(d)' = BaseAt(d)
      <3>1. ASSUME d \in BaseChunks' PROVE d \in BaseChunks
        <4>1. PICK x \in used' : d = x \div U
          BY <3>1 DEF BaseChunks
        <4>2. CASE x \in used
          BY <4>1, <4>2 DEF BaseChunks
        <4>3. CASE x \in next .. (next + c - 1)
          <5>1. x \in next .. (past - 1)
            BY <2>4, <4>3
          <5> QED BY <4>1, <5>1, <2>8
        <4> QED BY <4>1, <4>2, <4>3, <2>5
      <3> QED BY <3>1, <2>10 DEF BaseAt
    <2>13. Accounted'
      <3>1. ASSUME NEW d
            PROVE  /\ FreeAt(d)' = FreeAt(d) /\ HugeAt(d)' = HugeAt(d)
                   /\ ArenaAt(d)' = ArenaAt(d) /\ LostAt(d)' = LostAt(d)
        BY <1>u DEF FreeAt, HugeAt, ArenaAt, LostAt
      <3>2. Taken(l) = {} /\ Moved(l) = {}
        BY <1>2, NoHands
      <3>0. PICK T : T = {}
        OBVIOUS
      <3>3. \A d \in Usable \ T : /\ d \in Taken(m) <=> d \in Taken(th[t])
                                  /\ d \in Moved(m) <=> d \in Moved(th[t])
        BY <2>3, <3>2
      <3>4. \A d \in Usable \ T : /\ FreeAt(d)' = FreeAt(d) /\ HugeAt(d)' = HugeAt(d)
                                  /\ ArenaAt(d)' = ArenaAt(d) /\ BaseAt(d)' = BaseAt(d)
                                  /\ LostAt(d)' = LostAt(d)
        BY <3>1, <2>12
      <3>5. \A d \in Usable \cap T : OneOwner(d)'
        BY <3>0
      <3> QED BY <2>t, <1>u, <3>3, <3>4, <3>5, OwnersMove
    <2>o. /\ \A y \in exts : /\ ExtOK(y) /\ Chunks(y) \subseteq Usable
                             /\ y.z => Chunks(y) \subseteq mem
          /\ \A y \in huge : /\ ExtOK(y) /\ Chunks(y) \subseteq Usable
                             /\ y.z => Chunks(y) \subseteq mem
          /\ inarena \subseteq Usable \cap Nat
          /\ \A s \in Threads : Claim(th[s]) \subseteq huge
          /\ \A s \in Threads : /\ th[s].pc \in Moving /\ th[s].e.z => Chunks(th[s].e) \subseteq mem
                                /\ th[s].r # NoChunk /\ th[s].zero => Taken(th[s]) \subseteq mem
          /\ \A s \in Threads : Taken(th[s]) \subseteq Usable /\ Moved(th[s]) \subseteq Usable
      BY Others, Zenon
    <2>14. Claim(m) \subseteq huge' /\ \A s \in Threads \ {t} : Claim(m) \cap Claim(th[s]) = {}
      <3>1. Claim(m) \subseteq Claim(l)
        BY <2>2, <2>3 DEF Claim
      <3> QED BY <3>1, <1>m, <1>u
    <2>15. m.pc \notin Moving
      BY <2>3 DEF Moving
    <2> QED BY <2>t, <1>u, <1>2, <2>3, <2>o, <2>11, <2>13, <2>14, <2>15, HandOver
  <1>4. CASE ~(base.next + l.c <= base.past)
    <2>1. PICK q, m, f : /\ q = [l EXCEPT !.n = CHUNK_CEILING(l.c) \div U, !.al = 1, !.zero = f]
                         /\ m = Call(q, "recycle", "base_pages") /\ th' = [th EXCEPT ![t] = m]
      BY <1>4, Zenon DEF BaseAlloc, Step
    <2>2. UNCHANGED <<live, exts, huge, base, ranges, inarena, mem, used, lost>>
      BY <1>4, <1>u DEF BaseAlloc
    <2>3. PICK n : n = CHUNK_CEILING(l.c) \div U
      OBVIOUS
    <2>4. n \in Nat \ {0}
      BY <2>3, <1>2, PagesFor
    <2>5. /\ DOMAIN q = Fields /\ q.k = l.k /\ q.n = n /\ q.al = 1 /\ q.c = l.c
          /\ q.r = NoChunk /\ q.e = NoExt /\ q.old = l.old
      BY <2>1, <2>3, <1>2 DEF Fields
    <2>6. /\ DOMAIN m = Fields /\ m.pc = "recycle" /\ m.k \in Seq(Labels) /\ m.k # <<>>
          /\ Head(m.k) = "base_pages" /\ Tail(m.k) = q.k /\ Keeps(m, q)
      <3>1. q.k \in Seq(Labels) /\ "base_pages" \in Labels
        BY <1>2, <2>5 DEF Labels, MayHold
      <3>2. PICK p, b : p = "recycle" /\ b = "base_pages" /\ m = Call(q, p, b)
        BY <2>1
      <3>3. b \in Labels
        BY <3>1, <3>2
      <3>4. /\ DOMAIN m = Fields /\ m.pc = p /\ m.k \in Seq(Labels) /\ m.k # <<>>
            /\ Head(m.k) = b /\ Tail(m.k) = q.k /\ Keeps(m, q)
        BY <2>5, <3>1, <3>2, <3>3, CallIs
      <3> QED BY <3>2, <3>4
    <2>7. /\ m.n = n /\ m.al = 1 /\ m.r = NoChunk /\ m.e = NoExt /\ m.old = l.old /\ m.c = l.c
      BY <2>5, <2>6 DEF Keeps
    <2>8. TakeBack(m)
      <3>1. BaseBack(Tail(m.k))
        BY <1>2, <2>5, <2>6
      <3>2. BaseSize(m)
        BY <1>2, <2>3, <2>7 DEF BaseSize
      <3> QED BY <2>4, <2>6, <2>7, <3>1, <3>2 DEF TakeBack
    <2>9. ThreadOK(m)
      BY <2>4, <2>6, <2>7, <2>8 DEF ThreadOK, Labels, Taking, Giving, Moving, Holding, MayHold
    <2> QED BY <1>u, <1>2, <2>1, <2>2, <2>6, <2>7, <2>9, EmptyStep DEF Moving
  <1> QED BY <1>3, <1>4

LEMMA BasePagesKeeps ==
  ASSUME JeInv, NEW t \in Threads, BasePages(t)
  PROVE  JeInv'
  <1> DEFINE l == th[t]
  <1>m. /\ ThreadOK(l) /\ (l.pc # "idle" \/ live => ranges # {})
        /\ Claim(l) \subseteq huge /\ \A s \in Threads \ {t} : Claim(l) \cap Claim(th[s]) = {}
    BY Mine
  <1>u. UNCHANGED <<live, exts, huge, ranges, inarena, mem, lost>> /\ l.pc = "base_pages"
    BY Zenon DEF BasePages, At
  <1>2. /\ l.e = NoExt /\ l.r \in Nat \cup {NoChunk} /\ DOMAIN l = Fields /\ l.k \in Seq(Labels)
        /\ l.n \in Nat /\ l.al \in Nat \ {0} /\ BaseBack(l.k) /\ BaseSize(l) /\ ranges # {}
    BY <1>u, <1>m DEF ThreadOK, Moving
  <1>s. PICK q, m, b : /\ q = [l EXCEPT !.b = b, !.r = NoChunk] /\ m = Return(q)
                       /\ th' = [th EXCEPT ![t] = m]
    <2>1. CASE l.r = NoChunk
      <3>1. PICK p : p = [l EXCEPT !.b = NoChunk] /\ th' = [th EXCEPT ![t] = Return(p)]
        BY <2>1, Zenon DEF BasePages, Step
      <3>2. p = [l EXCEPT !.b = NoChunk, !.r = NoChunk]
        BY <3>1, <2>1, <1>2 DEF Fields
      <3> QED BY <3>1, <3>2, Zenon
    <2>2. CASE l.r # NoChunk
      BY <2>2, Zenon DEF BasePages, Step
    <2> QED BY <2>1, <2>2, Zenon
  <1>q. /\ DOMAIN q = Fields /\ q.k = l.k /\ q.n = l.n /\ q.al = l.al
        /\ q.r = NoChunk /\ q.e = NoExt /\ q.old = l.old
    BY <1>s, <1>2 DEF Fields
  <1>3. /\ ThreadOK(m) /\ m.r = NoChunk /\ m.e = NoExt /\ m.old = q.old
        /\ m.pc \in {"arena_new", "arena_done"} /\ Taken(m) = {} /\ Moved(m) = {}
        /\ Claim(m) = {x \in {q.old} : x # NoExt}
    <2>1. m = Return(q)
      BY <1>s
    <2>2. /\ DOMAIN q = Fields /\ q.k \in Seq(Labels) /\ BaseBack(q.k)
          /\ q.n \in Nat /\ q.al \in Nat \ {0} /\ q.r = NoChunk /\ q.e = NoExt
      BY <1>2, <1>q
    <2> QED BY <2>1, <2>2, BaseReturns
  <1>4. m.pc \notin Moving \cup {"free"}
    BY <1>3 DEF Moving
  <1>5. CASE l.r = NoChunk
    <2>1. UNCHANGED <<live, exts, huge, base, ranges, inarena, mem, used, lost>>
      BY <1>5, <1>u DEF BasePages
    <2> QED BY <1>u, <1>2, <1>3, <1>4, <1>5, <1>s, <1>q, <2>1, EmptyStep
  <1>6. CASE l.r # NoChunk
    <2>t. Shape /\ th' = [th EXCEPT ![t] = m]
      BY <1>s DEF JeInv
    <2>b. PICK r, n, c : r = l.r /\ n = l.n /\ c = l.c
      OBVIOUS
    <2>1. r \in Nat /\ c \in Nat \ {0} /\ n = CHUNK_CEILING(c) \div U /\ used \subseteq Nat
      BY <1>2, <1>6, <2>b DEF BaseSize, JeInv, BaseRest
    <2>2. /\ base' = [next |-> r * U + c, past |-> (r + n) * U]
          /\ used' = used \cup ((r * U) .. (r * U + c - 1))
      BY <1>6, <2>b, Zenon DEF BasePages
    <2>3. /\ {x \div U : x \in (r * U) .. (r * U + c - 1)} = r .. (r + n - 1)
          /\ \A x \in (r * U + c) .. ((r + n) * U - 1) : x \div U \in r .. (r + n - 1)
          /\ r * U \in Nat /\ (r + n) * U \in Nat /\ n \in Nat
      BY <2>1, ChunksOfUnits
    <2>4. PICK T : T = r .. (r + n - 1)
      OBVIOUS
    <2>5. Taken(l) = T /\ Moved(l) = {}
      <3>1. Taken(l) = T
        BY <1>6, <2>b, <2>4 DEF Taken
      <3>2. Moved(l) = {}
        BY <1>2 DEF Moved, Chunks, NoExt, NoChunk
      <3> QED BY <3>1, <3>2
    <2>6. BaseChunks' = BaseChunks \cup T
      <3>1. BaseChunks' = BaseChunks \cup {x \div U : x \in (r * U) .. (r * U + c - 1)}
        BY <2>2 DEF BaseChunks
      <3> QED BY <3>1, <2>3, <2>4
    <2>7. Usable' = Usable
      BY <1>u DEF Usable
    <2>8. BaseRest'
      <3>0. PICK p, w : p = r * U /\ w = (r + n) * U
        OBVIOUS
      <3>1. base' = [next |-> p + c, past |-> w] /\ p \in Nat /\ w \in Nat
        BY <2>2, <2>3, <3>0
      <3>2. /\ base'.next \in Nat /\ base'.past \in Nat /\ DOMAIN base' = {"next", "past"}
            /\ base'.next = p + c /\ base'.past = w
        BY <3>1, <2>1
      <3>3. used' = used \cup (p .. (p + c - 1))
        BY <2>2, <3>0
      <3>4. used' \subseteq Nat
        BY <3>1, <3>3, <2>1
      <3>5. \A x \in (p + c) .. (w - 1) : x \div U \in BaseChunks'
        BY <3>0, <2>3, <2>4, <2>6
      <3> QED BY <3>2, <3>4, <3>5 DEF BaseRest
    <2>9. Accounted'
      <3>1. ASSUME NEW d
            PROVE  /\ FreeAt(d)' = FreeAt(d) /\ HugeAt(d)' = HugeAt(d)
                   /\ ArenaAt(d)' = ArenaAt(d) /\ LostAt(d)' = LostAt(d)
        BY <1>u DEF FreeAt, HugeAt, ArenaAt, LostAt
      <3>2. ASSUME NEW d PROVE BaseAt(d)' = IF d \in T THEN {d} ELSE BaseAt(d)
        BY <2>6 DEF BaseAt
      <3>3. ASSUME NEW d \in Usable \cap T PROVE OneOwner(d)'
        <4>1. /\ FreeAt(d) = {} /\ HugeAt(d) = {} /\ TakenAt(d) = {t} /\ MovedAt(d) = {}
              /\ ArenaAt(d) = {} /\ BaseAt(d) = {} /\ LostAt(d) = {}
          BY <2>5, HandsOnly
        <4>2. TakenAt(d) \subseteq {t} /\ MovedAt(d) \subseteq {t} /\ d \notin Taken(m) /\ d \notin Moved(m)
          BY <1>3, <4>1
        <4>3. TakenAt(d)' = {} /\ MovedAt(d)' = {}
          BY <2>t, <4>2, HandsAfter
        <4>4. BaseAt(d)' = {d}
          BY <3>2
        <4> QED BY <3>1, <4>1, <4>3, <4>4 DEF OneOwner, Solo
      <3>4. \A d \in Usable \ T : /\ d \in Taken(m) <=> d \in Taken(th[t])
                                  /\ d \in Moved(m) <=> d \in Moved(th[t])
        BY <1>3, <2>5
      <3>5. \A d \in Usable \ T : /\ FreeAt(d)' = FreeAt(d) /\ HugeAt(d)' = HugeAt(d)
                                  /\ ArenaAt(d)' = ArenaAt(d) /\ BaseAt(d)' = BaseAt(d)
                                  /\ LostAt(d)' = LostAt(d)
        BY <3>1, <3>2
      <3> QED BY <2>t, <1>u, <3>3, <3>4, <3>5, OwnersMove
    <2>o. /\ \A y \in exts : /\ ExtOK(y) /\ Chunks(y) \subseteq Usable
                             /\ y.z => Chunks(y) \subseteq mem
          /\ \A y \in huge : /\ ExtOK(y) /\ Chunks(y) \subseteq Usable
                             /\ y.z => Chunks(y) \subseteq mem
          /\ inarena \subseteq Usable \cap Nat
          /\ \A s \in Threads : Claim(th[s]) \subseteq huge
          /\ \A s \in Threads : /\ th[s].pc \in Moving /\ th[s].e.z => Chunks(th[s].e) \subseteq mem
                                /\ th[s].r # NoChunk /\ th[s].zero => Taken(th[s]) \subseteq mem
          /\ \A s \in Threads : Taken(th[s]) \subseteq Usable /\ Moved(th[s]) \subseteq Usable
      BY Others, Zenon
    <2>14. Claim(m) \subseteq huge' /\ \A s \in Threads \ {t} : Claim(m) \cap Claim(th[s]) = {}
      <3>1. Claim(m) \subseteq Claim(l)
        BY <1>q, <1>3 DEF Claim
      <3> QED BY <3>1, <1>m, <1>u
    <2> QED BY <2>t, <1>u, <1>2, <1>3, <1>4, <2>o, <2>8, <2>9, <2>14, HandOver
  <1> QED BY <1>5, <1>6

-----------------------------------------------------------------------------
(* Creating the pool.                                                      *)

\* The range that pool_new cuts: whole chunks, at least one, above what it
\* has taken for the pool itself.
LEMMA FirstRange ==
  ASSUME NEW next, NEW rg,
         next = Areas[1].addr + PoolUnits + ArenaUnits + 1 + Areas[1].size \div U + 1,
         rg = RangeOf(Areas[1], CHUNK_CEILING(next))
  PROVE  \E k \in Nat, w \in Nat \ {0} :
            /\ rg.u = k * U /\ rg.u \div U = k /\ (rg.uend - rg.u) \div U = w /\ rg.uend \div U = k + w
            /\ next <= k * U /\ next \in Nat /\ rg.u \in Nat /\ Areas[1].addr \in Nat
  <1>u. U \in Nat \ {0}
    BY UnitsPositive
  <1>1. PICK a, s, n, po, ar : /\ a = Areas[1].addr /\ s = Areas[1].size /\ n = s \div U
                               /\ po = PoolUnits /\ ar = ArenaUnits
    OBVIOUS
  <1>2. a \in Nat /\ s \in Nat /\ po \in Nat /\ ar \in Nat /\ n \in Int
    <2>1. a \in Nat /\ s \in Nat /\ po \in Nat /\ ar \in Nat
      BY <1>1, JeAssumption
    <2> QED BY <2>1, <1>1, <1>u, DivBound
  <1>n. n >= 0
    <2>1. 0 * U <= s /\ 0 \in Int /\ s \in Int
      BY <1>2, <1>u
    <2>2. 0 <= s \div U
      BY <2>1, ChunkOf
    <2> QED BY <2>2, <1>1
  <1>3. next = a + po + ar + 1 + n + 1 /\ po + ar + 2 + n + 2 * U <= s
    BY <1>1, MetadataFits
  <1>4. next \in Nat
    BY <1>2, <1>3, <1>n
  <1> DEFINE k == (next + U - 1) \div U
  <1>5. k \in Int /\ k * U <= next + U - 1 /\ next + U - 1 < k * U + U
    <2>1. PICK y : y = next + U - 1
      OBVIOUS
    <2>2. y \in Int
      BY <2>1, <1>4, <1>u
    <2>3. y \div U \in Int /\ (y \div U) * U <= y /\ y < (y \div U) * U + U
      BY <2>2, <1>u, DivBound
    <2> QED BY <2>1, <2>3
  <1>6. CHUNK_CEILING(next) = k * U
    BY DEF CHUNK_CEILING
  <1> HIDE DEF k
  <1>7. PICK u : u = k * U
    OBVIOUS
  <1>8. u \in Nat /\ next <= u /\ u < next + U
    BY <1>4, <1>5, <1>7, <1>u
  <1>9. k \in Nat
    <2>1. 0 * U <= k * U
      BY <1>7, <1>8, <1>u
    <2> QED BY <2>1, <1>5, <1>u, TimesMono
  <1> DEFINE w == (s - (u - a)) \div U
  <1>10. w \in Int /\ s - (u - a) \in Int /\ 1 <= w
    <2>1. s - (u - a) \in Int /\ 1 * U <= s - (u - a)
      BY <1>2, <1>3, <1>8, <1>u
    <2> QED BY <2>1, ChunkOf
  <1>11. rg = [addr |-> a, end |-> a + s, u |-> u, uend |-> u + w * U]
    BY <1>1, <1>6, <1>7 DEF RangeOf
  <1> HIDE DEF w
  <1>12. rg.u = u /\ rg.uend = u + w * U
    BY <1>11
  <1>13. PICK v : v = w * U
    OBVIOUS
  <1>14. v \in Int
    BY <1>13, <1>10, <1>u
  <1>15. (u + v) - u = v /\ u + v = (k + w) * U /\ k + w \in Int
    <2>1. (k + w) * U = k * U + w * U
      BY <1>5, <1>10, <1>u, Distribute
    <2> QED BY <2>1, <1>5, <1>7, <1>8, <1>10, <1>13, <1>14
  <1>16. v \div U = w /\ (u + v) \div U = k + w /\ u \div U = k
    <2>1. (w * U) \div U = w /\ (k * U) \div U = k /\ ((k + w) * U) \div U = k + w
      BY <1>5, <1>10, <1>15, ChunkOf
    <2> QED BY <2>1, <1>7, <1>13, <1>15
  <1>17. /\ rg.u = k * U /\ rg.u \div U = k /\ (rg.uend - rg.u) \div U = w /\ rg.uend \div U = k + w
         /\ next <= k * U /\ next \in Nat /\ rg.u \in Nat /\ Areas[1].addr \in Nat
    BY <1>1, <1>2, <1>4, <1>7, <1>8, <1>12, <1>13, <1>15, <1>16
  <1>18. w \in Nat \ {0}
    BY <1>10
  <1> QED BY <1>9, <1>17, <1>18

LEMMA CreateKeeps ==
  ASSUME JeInv, NEW z, je_pool_create(z)
  PROVE  JeInv'
  <1> DEFINE next == Areas[1].addr + PoolUnits + ArenaUnits + 1 + Areas[1].size \div U + 1
             rg == RangeOf(Areas[1], CHUNK_CEILING(next))
             x == ExtOf(rg, z)
  <1>1. /\ ranges = {} /\ ranges' = {rg} /\ exts' = {x} /\ base' = [next |-> next, past |-> rg.u]
        /\ used' = Areas[1].addr .. (next - 1) /\ UNCHANGED <<huge, inarena, th, lost>>
    BY Zenon DEF je_pool_create
  <1>2. z => mem' = Chunks(ExtOf(rg, TRUE))
    BY Zenon DEF je_pool_create
  <1>3. PICK k \in Nat, w \in Nat \ {0} :
            /\ rg.u = k * U /\ rg.u \div U = k /\ (rg.uend - rg.u) \div U = w /\ rg.uend \div U = k + w
            /\ next <= k * U /\ next \in Nat /\ rg.u \in Nat /\ Areas[1].addr \in Nat
    <2> HIDE DEF rg
    <2>1. rg = RangeOf(Areas[1], CHUNK_CEILING(next))
      BY DEF rg
    <2> QED BY <2>1, FirstRange
  <1>4. ASSUME NEW y PROVE ExtOf(rg, y) = [a |-> k, n |-> w, z |-> y]
    BY <1>3, Zenon DEF ExtOf
  <1>5. ASSUME NEW y, NEW e, e = [a |-> k, n |-> w, z |-> y]
        PROVE  /\ DOMAIN e = {"a", "n", "z"} /\ e.a = k /\ e.n = w /\ e.z = y
               /\ Chunks(e) = k .. (k + w - 1)
    BY <1>5 DEF Chunks
  <1> HIDE DEF x, rg, next
  <1>6. ASSUME NEW y, NEW e, e = ExtOf(rg, y)
        PROVE  DOMAIN e = {"a", "n", "z"} /\ e.a = k /\ e.n = w /\ e.z = y /\ Chunks(e) = k .. (k + w - 1)
    <2>1. e = [a |-> k, n |-> w, z |-> y]
      BY <1>6, <1>4
    <2> QED BY <2>1, <1>5
  <1>7. DOMAIN x = {"a", "n", "z"} /\ x.a = k /\ x.n = w /\ x.z = z /\ Chunks(x) = k .. (k + w - 1)
    BY <1>6, Zenon DEF x
  <1>8. x.z => Chunks(x) \subseteq mem'
    <2>1. PICK y, e : y = TRUE /\ e = ExtOf(rg, y) /\ (z => mem' = Chunks(e))
      BY <1>2, Zenon
    <2>2. Chunks(e) = k .. (k + w - 1)
      BY <2>1, <1>6
    <2>3. x.z => z
      BY <1>7, Zenon
    <2>4. PICK C : C = k .. (k + w - 1)
      OBVIOUS
    <2>5. Chunks(x) = C /\ Chunks(e) = C
      BY <2>2, <2>4, <1>7
    <2>6. C \subseteq C
      OBVIOUS
    <2> QED BY <2>1, <2>3, <2>5, <2>6, Zenon
  <1>9. Usable' = k .. (k + w - 1)
    <2>1. Usable' = (rg.u \div U) .. (rg.uend \div U - 1)
      BY <1>1 DEF Usable
    <2> QED BY <2>1, <1>3
  <1>10. /\ exts = {} /\ huge = {} /\ inarena = {} /\ lost = {}
         /\ \A t \in Threads : th[t].pc = "idle" /\ ThreadOK(th[t])
         /\ th = [t \in Threads |-> th[t]]
    BY <1>1 DEF JeInv, Shape
  <1>11. \A t \in Threads : /\ th[t].r = NoChunk /\ th[t].e = NoExt
                            /\ Taken(th[t]) = {} /\ Moved(th[t]) = {} /\ th[t].pc \notin Moving
    <2>1. ASSUME NEW t \in Threads
          PROVE  th[t].r = NoChunk /\ th[t].e = NoExt /\ th[t].pc \notin Moving
      BY <1>10 DEF ThreadOK, MayHold, Holding, Moving
    <2> QED BY <2>1, NoHands
  <1>12. ExtOK(x)
    BY <1>7 DEF ExtOK
  <1>13. Shape'
    BY <1>1, <1>10, <1>12 DEF Shape
  <1>14. Claims'
    <2>1. Claims
      BY DEF JeInv
    <2> QED BY <2>1, <1>1 DEF Claims
  <1>15. Inside'
    <2>1. Chunks(x) \subseteq Usable'
      BY <1>7, <1>9
    <2> QED BY <2>1, <1>1, <1>10, <1>11 DEF Inside
  <1>16. ASSUME NEW y \in Int, y < k * U PROVE y \div U < k
    BY <1>16, ChunkOf
  <1>17. /\ base'.next = next /\ base'.past = rg.u /\ DOMAIN base' = {"next", "past"}
    BY <1>1
  <1>18. BaseRest'
    <2>1. used' \subseteq Nat
      BY <1>1, <1>3
    <2>2. ASSUME NEW y \in next .. (rg.u - 1) PROVE y \div U \notin Usable'
      <3>1. y \in Int /\ y < k * U
        BY <1>3
      <3>2. y \div U < k
        BY <3>1, <1>16
      <3> QED BY <3>2, <1>9
    <2> QED BY <1>3, <1>17, <2>1, <2>2 DEF BaseRest
  <1>19. Accounted'
    <2> SUFFICES ASSUME NEW c \in Usable' PROVE OneOwner(c)'
      BY DEF Accounted
    <2>1. FreeAt(c)' = {x}
      <3>1. c \in Chunks(x)
        BY <1>7, <1>9
      <3> QED BY <3>1, <1>1 DEF FreeAt
    <2>2. HugeAt(c)' = {} /\ ArenaAt(c)' = {} /\ LostAt(c)' = {}
      BY <1>1, <1>10 DEF HugeAt, ArenaAt, LostAt
    <2>3. TakenAt(c)' = {} /\ MovedAt(c)' = {}
      BY <1>1, <1>11 DEF TakenAt, MovedAt, Moved, At
    <2>4. BaseAt(c)' = {}
      <3>1. ASSUME NEW y \in used' PROVE c # y \div U
        <4>1. y \in Int /\ y < k * U
          BY <1>1, <1>3
        <4>2. y \div U < k
          BY <4>1, <1>16
        <4> QED BY <4>2, <1>9
      <3> QED BY <3>1 DEF BaseAt, BaseChunks
    <2> QED BY <2>1, <2>2, <2>3, <2>4 DEF OneOwner, Solo
  <1>20. Zeroed'
    BY <1>1, <1>8, <1>10, <1>11 DEF Zeroed
  <1> QED BY <1>13, <1>14, <1>15, <1>18, <1>19, <1>20 DEF JeInv

LEMMA InitKeeps ==
  ASSUME Init
  PROVE  JeInv
  <1>1. /\ ~live /\ exts = {} /\ huge = {} /\ ranges = {} /\ inarena = {} /\ lost = {} /\ used = {}
        /\ base = [next |-> 0, past |-> 0] /\ th = [t \in Threads |-> Idle]
    BY Zenon DEF Init
  <1>2. /\ DOMAIN Idle = Fields /\ Idle.pc = "idle" /\ Idle.k = <<>> /\ Idle.n = 0 /\ Idle.al = 1
        /\ Idle.r = NoChunk /\ Idle.e = NoExt /\ Idle.old = NoExt
    BY IdleIs
  <1>k. Idle.k \in Seq(Labels) /\ Idle.n \in Nat /\ Idle.al \in Nat \ {0}
    BY <1>2
  <1>3. ThreadOK(Idle) /\ Taken(Idle) = {} /\ Moved(Idle) = {} /\ Claim(Idle) = {}
    BY <1>2, <1>k, RestingOK
  <1>4. \A t \in Threads : th[t] = Idle
    BY <1>1
  <1>5. Usable = {}
    BY <1>1 DEF Usable
  <1>6. Shape
    BY <1>1, <1>2, <1>3, <1>4 DEF Shape
  <1>7. Claims
    BY <1>1, <1>3, <1>4 DEF Claims
  <1>8. Inside
    BY <1>1, <1>3, <1>4 DEF Inside
  <1>9. BaseRest
    BY <1>1, <1>5 DEF BaseRest
  <1>10. Accounted
    BY <1>5 DEF Accounted
  <1>11. Zeroed
    BY <1>1, <1>2, <1>4 DEF Zeroed, Moving
  <1> QED BY <1>6, <1>7, <1>8, <1>9, <1>10, <1>11 DEF JeInv

-----------------------------------------------------------------------------
(* Sums over finite sets, as MapThenSumSet defines them.                   *)

Pick(s) == CHOOSE x \in s : TRUE

\* The recursion that h follows at s.
Adds(f, h, s) == h[s] = IF s = {} THEN 0 ELSE f[Pick(s)] + h[s \ {Pick(s)}]

IsSum(f, S, h) == h \in [SUBSET S -> Int] /\ \A s \in SUBSET S : Adds(f, h, s)

LEMMA PickIs ==
  ASSUME NEW S, IsFiniteSet(S), NEW s \in SUBSET S, s # {}
  PROVE  /\ Pick(s) \in s /\ Pick(s) \in S /\ s \ {Pick(s)} \in SUBSET S
         /\ IsFiniteSet(s) /\ Cardinality(s) \in Nat \ {0}
         /\ Cardinality(s \ {Pick(s)}) = Cardinality(s) - 1
  <1>1. Pick(s) \in s
    BY DEF Pick
  <1>2. IsFiniteSet(s)
    BY FS_Subset
  <1>3. Cardinality(s) \in Nat /\ Cardinality(s) # 0
    BY <1>2, FS_CardinalityType, FS_EmptySet
  <1>4. Cardinality(s \ {Pick(s)}) = Cardinality(s) - 1
    BY <1>1, <1>2, FS_RemoveElement
  <1> QED BY <1>1, <1>2, <1>3, <1>4

\* Two things that agree on the empty set, and on a set if they do on what is
\* left without its first element, agree on all subsets.
LEMMA SumsAgree ==
  ASSUME NEW S, IsFiniteSet(S), NEW h, NEW k,
         \A s \in SUBSET S : s = {} => h[s] = k[s],
         \A s \in SUBSET S : s # {} /\ h[s \ {Pick(s)}] = k[s \ {Pick(s)}] => h[s] = k[s]
  PROVE  \A s \in SUBSET S : h[s] = k[s]
  <1> SUFFICES ASSUME NEW a \in SUBSET S, h[a] # k[a] PROVE FALSE
    OBVIOUS
  <1> DEFINE N == {n \in Nat : \E s \in SUBSET S : Cardinality(s) = n /\ h[s] # k[s]}
  <1>1. IsFiniteSet(a) /\ Cardinality(a) \in Nat
    BY FS_Subset, FS_CardinalityType
  <1>2. N # {} /\ N \in SUBSET Nat
    BY <1>1
  <1>3. PICK n \in N : \A m \in N : n <= m
    BY <1>2, HasLeast
  <1>4. PICK s \in SUBSET S : Cardinality(s) = n /\ h[s] # k[s]
    BY <1>3
  <1>5. s # {}
    BY <1>4
  <1>6. s \ {Pick(s)} \in SUBSET S /\ Cardinality(s \ {Pick(s)}) = n - 1 /\ n \in Nat \ {0}
    BY <1>4, <1>5, PickIs
  <1> PICK r : r = s \ {Pick(s)}
    OBVIOUS
  <1>7. h[r] # k[r]
    BY <1>4, <1>5
  <1>8. n - 1 \in N
    BY <1>6, <1>7
  <1> QED BY <1>3, <1>6, <1>8

LEMMA SumExists ==
  ASSUME NEW S, IsFiniteSet(S), NEW f, \A x \in S : f[x] \in Int
  PROVE  \E h : IsSum(f, S, h)
  <1> DEFINE Upto(h, n) == /\ h \in [SUBSET S -> Int]
                           /\ \A s \in SUBSET S : Cardinality(s) <= n => Adds(f, h, s)
             N == {n \in Nat : \A h : ~Upto(h, n)}
  <1>1. \A s \in SUBSET S : IsFiniteSet(s) /\ Cardinality(s) \in Nat
    BY FS_Subset, FS_CardinalityType
  <1>2. 0 \notin N
    <2> DEFINE h == [s \in SUBSET S |-> 0]
    <2>1. h \in [SUBSET S -> Int]
      OBVIOUS
    <2>2. ASSUME NEW s \in SUBSET S, Cardinality(s) <= 0 PROVE Adds(f, h, s)
      <3>1. s = {}
        BY <2>2, <1>1, FS_EmptySet
      <3> QED BY <3>1 DEF Adds
    <2>3. Upto(h, 0)
      BY <2>1, <2>2
    <2> QED BY <2>3
  <1>3. ASSUME NEW n \in Nat, n \notin N PROVE n + 1 \notin N
    <2>1. PICK h : Upto(h, n)
      BY <1>3
    <2> DEFINE next(s) == IF s = {} THEN 0 ELSE f[Pick(s)] + h[s \ {Pick(s)}]
               g == [s \in SUBSET S |-> IF Cardinality(s) <= n THEN h[s] ELSE next(s)]
    <2>2. h \in [SUBSET S -> Int] /\ \A s \in SUBSET S : Cardinality(s) <= n => Adds(f, h, s)
      BY <2>1
    <2>3. \A s \in SUBSET S : next(s) \in Int
      <3> TAKE s \in SUBSET S
      <3>1. CASE s = {}
        BY <3>1
      <3>2. CASE s # {}
        <4>1. Pick(s) \in S /\ s \ {Pick(s)} \in SUBSET S
          BY <3>2, PickIs
        <4>2. f[Pick(s)] \in Int /\ h[s \ {Pick(s)}] \in Int
          BY <4>1, <2>2
        <4> QED BY <3>2, <4>2
      <3> QED BY <3>1, <3>2
    <2>4. g \in [SUBSET S -> Int]
      <3> HIDE DEF next
      <3> QED BY <2>2, <2>3
    <2>5. ASSUME NEW s \in SUBSET S, Cardinality(s) <= n + 1 PROVE Adds(f, g, s)
      <3>1. g[s] = next(s)
        <4>1. CASE Cardinality(s) <= n
          <5>1. h[s] = next(s)
            BY <4>1, <2>2 DEF Adds
          <5> HIDE DEF next
          <5> QED BY <4>1, <5>1
        <4>2. CASE ~(Cardinality(s) <= n)
          <5> HIDE DEF next
          <5> QED BY <4>2
        <4> QED BY <4>1, <4>2
      <3>2. s # {} => g[s \ {Pick(s)}] = h[s \ {Pick(s)}]
        <4> SUFFICES ASSUME s # {} PROVE g[s \ {Pick(s)}] = h[s \ {Pick(s)}]
          OBVIOUS
        <4> PICK r : r = s \ {Pick(s)}
          OBVIOUS
        <4>1. r \in SUBSET S /\ Cardinality(r) = Cardinality(s) - 1 /\ Cardinality(s) \in Nat
          BY PickIs
        <4>2. Cardinality(r) <= n
          BY <4>1, <2>5
        <4>3. g[r] = h[r]
          <5> HIDE DEF next
          <5> QED BY <4>1, <4>2
        <4> QED BY <4>3
      <3> HIDE DEF g
      <3> QED BY <3>1, <3>2 DEF Adds
    <2> HIDE DEF g
    <2>6. Upto(g, n + 1)
      BY <2>4, <2>5
    <2> QED BY <2>6
  <1>4. N = {}
    <2> HIDE DEF Upto
    <2> SUFFICES ASSUME N # {} PROVE FALSE
      OBVIOUS
    <2>1. N \in SUBSET Nat
      OBVIOUS
    <2>2. PICK n \in N : \A m \in N : n <= m
      BY <2>1, HasLeast
    <2>3. n \in Nat /\ n # 0
      BY <2>1, <1>2
    <2>4. n - 1 \in Nat /\ n - 1 \notin N
      BY <2>2, <2>3
    <2>5. (n - 1) + 1 \notin N
      BY <2>4, <1>3
    <2> QED BY <2>3, <2>5
  <1>5. Cardinality(S) \in Nat
    BY <1>1
  <1>6. PICK h : Upto(h, Cardinality(S))
    <2> HIDE DEF Upto
    <2> QED BY <1>4, <1>5
  <1>7. \A s \in SUBSET S : Cardinality(s) <= Cardinality(S)
    BY FS_Subset
  <1> QED BY <1>6, <1>7 DEF IsSum

\* A sum follows its recursion; what is left of a set without its first
\* element has a smaller one.
LEMMA SumIs ==
  ASSUME NEW S, IsFiniteSet(S), NEW f, NEW h, IsSum(f, S, h)
  PROVE  /\ h[{}] = 0
         /\ \A s \in SUBSET S : s # {} => /\ h[s] = f[Pick(s)] + h[s \ {Pick(s)}]
                                         /\ h[s \ {Pick(s)}] \in Int
  <1>1. {} \in SUBSET S /\ \A s \in SUBSET S : s \ {Pick(s)} \in SUBSET S
    OBVIOUS
  <1> QED BY <1>1 DEF IsSum, Adds

\* A sum of zeros.
LEMMA SumZero ==
  ASSUME NEW S, IsFiniteSet(S), NEW f, NEW h, IsSum(f, S, h), \A x \in S : f[x] = 0
  PROVE  h[S] = 0
  <1> PICK k : k = [s \in SUBSET S |-> 0]
    OBVIOUS
  <1>0. \A s \in SUBSET S : k[s] = 0
    OBVIOUS
  <1>s. /\ h[{}] = 0
         /\ \A s \in SUBSET S : s # {} => /\ h[s] = f[Pick(s)] + h[s \ {Pick(s)}]
                                         /\ h[s \ {Pick(s)}] \in Int
    BY ONLY IsFiniteSet(S), IsSum(f, S, h), SumIs
  <1>1. \A s \in SUBSET S : s = {} => h[s] = k[s]
    BY <1>0, <1>s
  <1>2. ASSUME NEW s \in SUBSET S, s # {}, h[s \ {Pick(s)}] = k[s \ {Pick(s)}] PROVE h[s] = k[s]
    <2>1. Pick(s) \in S /\ s \ {Pick(s)} \in SUBSET S
      BY <1>2, PickIs
    <2>2. h[s] = f[Pick(s)] + h[s \ {Pick(s)}]
      BY <1>2, <1>s
    <2>3. f[Pick(s)] = 0 /\ h[s \ {Pick(s)}] = 0
      BY <2>1, <1>2, <1>0
    <2> QED BY <2>2, <2>3, <1>0
  <1>a. \A s \in SUBSET S : s # {} /\ h[s \ {Pick(s)}] = k[s \ {Pick(s)}] => h[s] = k[s]
    BY <1>2
  <1>3. \A s \in SUBSET S : h[s] = k[s]
    BY ONLY IsFiniteSet(S), <1>1, <1>a, SumsAgree
  <1> QED BY <1>3, <1>0

\* The sum when one of the summands changes.
LEMMA SumChange ==
  ASSUME NEW S, IsFiniteSet(S), NEW f, NEW g, NEW h, NEW k, IsSum(f, S, h), IsSum(g, S, k),
         \A x \in S : f[x] \in Int /\ g[x] \in Int,
         NEW t \in S, \A x \in S \ {t} : g[x] = f[x]
  PROVE  h[S] \in Int /\ k[S] = h[S] + (g[t] - f[t])
  <1> PICK d \in Int : d = g[t] - f[t]
    OBVIOUS
  <1> PICK j : j = [s \in SUBSET S |-> IF t \in s THEN h[s] + d ELSE h[s]]
    OBVIOUS
  <1>0. \A s \in SUBSET S : h[s] \in Int /\ k[s] \in Int
    BY DEF IsSum
  <1>j. \A s \in SUBSET S : j[s] = IF t \in s THEN h[s] + d ELSE h[s]
    OBVIOUS
  <1>s. /\ h[{}] = 0
         /\ \A s \in SUBSET S : s # {} => /\ h[s] = f[Pick(s)] + h[s \ {Pick(s)}]
                                         /\ h[s \ {Pick(s)}] \in Int
    BY ONLY IsFiniteSet(S), IsSum(f, S, h), SumIs
  <1>t. /\ k[{}] = 0
         /\ \A s \in SUBSET S : s # {} => /\ k[s] = g[Pick(s)] + k[s \ {Pick(s)}]
                                         /\ k[s \ {Pick(s)}] \in Int
    BY ONLY IsFiniteSet(S), IsSum(g, S, k), SumIs
  <1>1. \A s \in SUBSET S : s = {} => j[s] = k[s]
    BY <1>j, <1>s, <1>t
  <1>2. ASSUME NEW s \in SUBSET S, s # {}, j[s \ {Pick(s)}] = k[s \ {Pick(s)}] PROVE j[s] = k[s]
    <2> PICK p : p = Pick(s)
      OBVIOUS
    <2> PICK r : r = s \ {p}
      OBVIOUS
    <2>1. p \in s /\ p \in S /\ r \in SUBSET S
      BY <1>2, PickIs
    <2>2. h[s] = f[p] + h[r] /\ k[s] = g[p] + k[r]
      BY <1>2, <1>s, <1>t
    <2>3. h[s] \in Int /\ h[r] \in Int /\ f[p] \in Int /\ g[p] \in Int /\ k[r] = j[r]
      BY <2>1, <1>0, <1>2
    <2>4. CASE p = t
      <3>1. t \in s /\ t \notin r
        BY <2>1, <2>4
      <3>2. j[s] = h[s] + d /\ j[r] = h[r]
        BY <3>1, <2>1, <1>j
      <3> QED BY <3>2, <2>2, <2>3, <2>4
    <2>5. CASE p # t
      <3>1. g[p] = f[p] /\ (t \in s <=> t \in r)
        BY <2>1, <2>5
      <3>2. (t \in s /\ j[s] = h[s] + d /\ j[r] = h[r] + d) \/ (j[s] = h[s] /\ j[r] = h[r])
        BY <3>1, <2>1, <1>j
      <3> QED BY <3>1, <3>2, <2>2, <2>3
    <2> QED BY <2>4, <2>5
  <1>a. \A s \in SUBSET S : s # {} /\ j[s \ {Pick(s)}] = k[s \ {Pick(s)}] => j[s] = k[s]
    BY <1>2
  <1>3. \A s \in SUBSET S : j[s] = k[s]
    BY ONLY IsFiniteSet(S), <1>1, <1>a, SumsAgree
  <1>4. S \in SUBSET S
    OBVIOUS
  <1> QED BY <1>3, <1>4, <1>0, <1>j

\* A sum over one element.
LEMMA SumOne ==
  ASSUME NEW x, NEW f, NEW h, f[x] \in Int, IsSum(f, {x}, h)
  PROVE  h[{x}] = f[x]
  <1>1. IsFiniteSet({x})
    BY FS_Singleton
  <1>2. Pick({x}) = x
    BY DEF Pick
  <1>3. {x} \ {x} = {}
    OBVIOUS
  <1>4. {x} \in SUBSET {x} /\ {x} # {}
    OBVIOUS
  <1> PICK S : S = {x}
    OBVIOUS
  <1>s. /\ h[{}] = 0
         /\ \A s \in SUBSET S : s # {} => /\ h[s] = f[Pick(s)] + h[s \ {Pick(s)}]
                                         /\ h[s \ {Pick(s)}] \in Int
    <2>1. IsFiniteSet(S) /\ IsSum(f, S, h)
      BY <1>1
    <2> QED BY ONLY <2>1, SumIs
  <1>5. h[{}] = 0
    BY <1>s
  <1>6. h[{x}] = f[Pick({x})] + h[{x} \ {Pick({x})}]
    BY <1>4, <1>s
  <1>7. h[{x}] = f[x] + h[{}]
    BY <1>6, <1>2, <1>3
  <1> QED BY <1>5, <1>7

\* The sizes of disjoint sets add up to the size of their union.
LEMMA SumSizes ==
  ASSUME NEW S, IsFiniteSet(S), NEW f, NEW h, IsSum(f, S, h), NEW C,
         \A x \in S : IsFiniteSet(C[x]) /\ Cardinality(C[x]) = f[x],
         \A x, y \in S : x # y => C[x] \cap C[y] = {}
  PROVE  h[S] = Cardinality(UNION {C[x] : x \in S}) /\ IsFiniteSet(UNION {C[x] : x \in S})
  <1> DEFINE Un(s) == UNION {C[x] : x \in s}
  <1> PICK k : k = [s \in SUBSET S |-> Cardinality(Un(s))]
    OBVIOUS
  <1> PICK b : b = [s \in SUBSET S |-> IsFiniteSet(Un(s))]
    OBVIOUS
  <1> PICK c : c = [s \in SUBSET S |-> TRUE]
    OBVIOUS
  <1>1. Un({}) = {} /\ IsFiniteSet(Un({})) /\ Cardinality(Un({})) = 0
    BY FS_EmptySet
  <1>2. ASSUME NEW s \in SUBSET S, s # {}
        PROVE  /\ Un(s) = C[Pick(s)] \cup Un(s \ {Pick(s)})
               /\ C[Pick(s)] \cap Un(s \ {Pick(s)}) = {}
    <2>1. Pick(s) \in s /\ Pick(s) \in S
      BY <1>2, PickIs
    <2> QED BY <2>1
  <1> HIDE DEF Un
  <1>3. \A s \in SUBSET S : IsFiniteSet(Un(s))
    <2>0. \A s \in SUBSET S : b[s] = IsFiniteSet(Un(s)) /\ c[s] = TRUE
      BY Zenon
    <2>1. \A s \in SUBSET S : s = {} => b[s] = c[s]
      BY <2>0, <1>1, Zenon
    <2>2. ASSUME NEW s \in SUBSET S, s # {}, b[s \ {Pick(s)}] = c[s \ {Pick(s)}] PROVE b[s] = c[s]
      <3>1. s \ {Pick(s)} \in SUBSET S /\ Pick(s) \in S
        BY <2>2, PickIs
      <3>2. IsFiniteSet(Un(s \ {Pick(s)}))
        BY <3>1, <2>0, <2>2, Zenon
      <3>3. IsFiniteSet(C[Pick(s)])
        BY <3>1
      <3>4. IsFiniteSet(C[Pick(s)] \cup Un(s \ {Pick(s)}))
        BY <3>2, <3>3, FS_Union
      <3>5. IsFiniteSet(Un(s))
        BY <3>4, <1>2, <2>2
      <3> QED BY <3>5, <2>0, Zenon
    <2>a. \A s \in SUBSET S : s # {} /\ b[s \ {Pick(s)}] = c[s \ {Pick(s)}] => b[s] = c[s]
      BY <2>2
    <2>3. \A s \in SUBSET S : b[s] = c[s]
      BY ONLY IsFiniteSet(S), <2>1, <2>a, SumsAgree
    <2> QED BY <2>0, <2>3, Zenon
  <1>4. \A s \in SUBSET S : k[s] = Cardinality(Un(s))
    OBVIOUS
  <1>s. /\ h[{}] = 0
         /\ \A s \in SUBSET S : s # {} => /\ h[s] = f[Pick(s)] + h[s \ {Pick(s)}]
                                         /\ h[s \ {Pick(s)}] \in Int
    BY ONLY IsFiniteSet(S), IsSum(f, S, h), SumIs
  <1>5. \A s \in SUBSET S : s = {} => h[s] = k[s]
    BY <1>4, <1>1, <1>s
  <1>6. ASSUME NEW s \in SUBSET S, s # {}, h[s \ {Pick(s)}] = k[s \ {Pick(s)}] PROVE h[s] = k[s]
    <2> PICK p : p = Pick(s)
      OBVIOUS
    <2> PICK r : r = s \ {p}
      OBVIOUS
    <2>1. p \in S /\ r \in SUBSET S
      BY <1>6, PickIs
    <2>2. h[s] = f[p] + h[r] /\ h[r] = k[r]
      BY <1>6, <1>s
    <2>3. Un(s) = C[p] \cup Un(r) /\ C[p] \cap Un(r) = {}
      BY <1>2, <1>6
    <2>4. IsFiniteSet(C[p]) /\ IsFiniteSet(Un(r)) /\ Cardinality(C[p]) = f[p]
      BY <2>1, <1>3
    <2>5. /\ Cardinality(C[p] \cup Un(r)) = Cardinality(C[p]) + Cardinality(Un(r))
                                               - Cardinality(C[p] \cap Un(r))
          /\ Cardinality(C[p]) \in Nat /\ Cardinality(Un(r)) \in Nat
      BY <2>4, FS_Union, FS_CardinalityType
    <2>6. Cardinality(C[p] \cap Un(r)) = 0
      BY <2>3, FS_EmptySet
    <2>7. k[s] = Cardinality(C[p] \cup Un(r)) /\ k[r] = Cardinality(Un(r))
      BY <2>1, <2>3, <1>4
    <2> QED BY <2>2, <2>4, <2>5, <2>6, <2>7
  <1>a. \A s \in SUBSET S : s # {} /\ h[s \ {Pick(s)}] = k[s \ {Pick(s)}] => h[s] = k[s]
    BY <1>6
  <1>7. \A s \in SUBSET S : h[s] = k[s]
    BY ONLY IsFiniteSet(S), <1>5, <1>a, SumsAgree
  <1>8. S \in SUBSET S
    OBVIOUS
  <1> QED BY <1>3, <1>4, <1>7, <1>8 DEF Un

\* The extent nodes in the hands of the threads T.
HeldBy(m, T) == MapThenSumSet(LAMBDA t : m[t].held, T)

LEMMA HeldSum ==
  ASSUME NEW T, IsFiniteSet(T), NEW m, \A t \in T : m[t].held \in Int
  PROVE  \E h : /\ IsSum([t \in T |-> m[t].held], T, h)
                /\ HeldBy(m, T) = h[T]
  <1> PICK f : f = [t \in T |-> m[t].held]
    OBVIOUS
  <1>1. \A t \in T : f[t] \in Int /\ f[t] = m[t].held
    OBVIOUS
  <1>2. PICK h : IsSum(f, T, h)
    BY <1>1, SumExists
  <1> DEFINE Rec(g) == g = [s \in SUBSET T |-> IF s = {} THEN 0
                              ELSE m[CHOOSE x \in s : TRUE].held + g[s \ {CHOOSE x \in s : TRUE}]]
  <1>s. \A s \in SUBSET T : s # {} => Pick(s) \in T /\ s \ {Pick(s)} \in SUBSET T
    BY PickIs
  <1>3. Rec(h)
    <2>1. h = [s \in SUBSET T |-> h[s]]
      BY <1>2 DEF IsSum
    <2>2. ASSUME NEW s \in SUBSET T
          PROVE  h[s] = IF s = {} THEN 0 ELSE m[Pick(s)].held + h[s \ {Pick(s)}]
      <3>1. h[s] = IF s = {} THEN 0 ELSE f[Pick(s)] + h[s \ {Pick(s)}]
        BY <1>2 DEF IsSum, Adds
      <3>2. s # {} => f[Pick(s)] = m[Pick(s)].held
        BY <1>s, <1>1
      <3> QED BY <3>1, <3>2
    <2> QED BY <2>1, <2>2 DEF Pick
  <1>4. PICK g : Rec(g) /\ HeldBy(m, T) = g[T]
    <2>1. \E g : Rec(g)
      BY <1>3
    <2>2. HeldBy(m, T) = (CHOOSE g : Rec(g))[T]
      BY Zenon DEF HeldBy, MapThenSumSet, MapThenFoldSet
    <2>3. Rec(CHOOSE g : Rec(g))
      BY <2>1, Zenon
    <2> HIDE DEF Rec
    <2> QED BY <2>2, <2>3
  <1>5. g[T] = h[T]
    <2>0. \A j : Rec(j) => \A s \in SUBSET T : j[s] = IF s = {} THEN 0 ELSE m[Pick(s)].held + j[s \ {Pick(s)}]
      BY DEF Pick
    <2>g. \A s \in SUBSET T : g[s] = IF s = {} THEN 0 ELSE m[Pick(s)].held + g[s \ {Pick(s)}]
      <3> HIDE DEF Rec
      <3> QED BY <2>0, <1>4
    <2>h. \A s \in SUBSET T : h[s] = IF s = {} THEN 0 ELSE m[Pick(s)].held + h[s \ {Pick(s)}]
      <3> HIDE DEF Rec
      <3> QED BY <2>0, <1>3
    <2>1. \A s \in SUBSET T : s = {} => g[s] = h[s]
      BY ONLY <2>g, <2>h
    <2>2. \A s \in SUBSET T : s # {} /\ g[s \ {Pick(s)}] = h[s \ {Pick(s)}] => g[s] = h[s]
      BY ONLY <2>g, <2>h
    <2>3. \A s \in SUBSET T : g[s] = h[s]
      BY ONLY IsFiniteSet(T), <2>1, <2>2, SumsAgree
    <2> QED BY <2>3
  <1> QED BY <1>2, <1>4, <1>5

-----------------------------------------------------------------------------
(* The books: extent nodes, locks, the threads of every arena.             *)

\* The extent nodes a thread must have in its hands: one for the huge
\* allocation that its call makes or frees, and those on their way between
\* the list and the trees.
ForHuge(l) ==
  IF \/ l.pc \in {"huge_register", "huge_insert", "free_put"}
     \/ l.pc \in Taking \cup Giving /\ Head(l.k) \in {"huge_register", "free_put"}
  THEN 1 ELSE 0
ForTrees(l) ==
  IF l.pc \in {"recycle_put", "trail_insert"} \/ (l.pc = "rec_insert" /\ l.got = TRUE) THEN 1
  ELSE IF l.pc = "rec_put" THEN l.put ELSE 0

HeldOK(l) == /\ l.held = ForHuge(l) + ForTrees(l)
             /\ l.pc = "rec_put" => l.put \in Nat \ {0}
             /\ l.pc = "rec_insert" => l.got \in BOOLEAN

NodesInv ==
  /\ IsFiniteSet(exts) /\ IsFiniteSet(huge) /\ nodes \in Nat /\ made \in Nat
  /\ \A t \in Threads : HeldOK(th[t])
  /\ NodesAccounted

\* Marks are TRUE or FALSE, also those on their way.
Marks ==
  /\ \A x \in exts : x.z \in BOOLEAN
  /\ \A x \in huge : x.z \in BOOLEAN
  /\ \A t \in Threads : th[t].pc \in Moving => th[t].e.z \in BOOLEAN

\* A thread that makes an arena holds arenas_lock from the moment it saw the
\* empty slot on, through the base memory it takes.
MakesArena(l) ==
  \/ l.pc \in {"base", "base_pages", "arena_new", "arena_done"}
  \/ l.pc \in Taking \cup Giving /\ Head(l.k) = "base_pages"

\* The threads of an arena are at most those that it counts.
ArenaInv ==
  /\ nthr \in [0 .. (NArenas - 1) -> Nat \cup {NoArena}]
  /\ ranges # {} <=> nthr[0] # NoArena
  /\ \A t \in Threads :
       /\ th[t].arena # NoArena => th[t].arena \in 0 .. (NArenas - 1) /\ nthr[th[t].arena] # NoArena
       /\ th[t].pc = "cleanup" => th[t].arena # NoArena
       /\ MakesArena(th[t]) => mtx["arenas"] = t /\ NullArenas # {}
  /\ \A i \in 0 .. (NArenas - 1) :
       nthr[i] # NoArena => Cardinality({t \in Threads : th[t].arena = i}) <= nthr[i]

\* There is one range, the one that je_pool_create made.
FirstNext == Areas[1].addr + PoolUnits + ArenaUnits + 1 + Areas[1].size \div U + 1
OneRange == ranges = {} \/ ranges = {RangeOf(Areas[1], CHUNK_CEILING(FirstNext))}

LockNames == {"chunks", "base", "nodes", "mr", "arenas", "pools"}
Locks == mtx \in [LockNames -> Threads \cup {NoThread}]

\* The outcomes of a check whose tests of ranges and chunks passed.
Passed == {1, ArenaReported}
Misc == live \in BOOLEAN /\ cur \in Int /\ lost \subseteq Nat /\ verdict \in Passed

BooksInv == NodesInv /\ Marks /\ ArenaInv /\ OneRange /\ Locks /\ Misc

LEMMA HeldIsInt ==
  ASSUME NEW l, HeldOK(l)
  PROVE  l.held \in Nat
  BY DEF HeldOK, ForHuge, ForTrees

\* One thread takes a step: the nodes it takes out of its hands are those it
\* puts somewhere else.
LEMMA NodesStep ==
  ASSUME NodesInv, th = [s \in Threads |-> th[s]], NEW t \in Threads, NEW m, th' = [th EXCEPT ![t] = m],
         HeldOK(m), IsFiniteSet(exts'), IsFiniteSet(huge'), nodes' \in Nat, made' = made,
         nodes' + Cardinality(exts') + Cardinality(huge') + m.held
           = nodes + Cardinality(exts) + Cardinality(huge) + th[t].held
  PROVE  NodesInv'
  <1> PICK w : w = th'
    OBVIOUS
  <1>1. w[t] = m /\ \A s \in Threads \ {t} : w[s] = th[s]
    OBVIOUS
  <1>2. \A s \in Threads : HeldOK(th[s])
    BY DEF NodesInv
  <1>3. \A s \in Threads : HeldOK(w[s])
    BY <1>1, <1>2
  <1>4. \A s \in Threads : th[s].held \in Int
    BY <1>2, HeldIsInt
  <1>5. \A s \in Threads : w[s].held \in Int
    BY <1>3, HeldIsInt
  <1>f. IsFiniteSet(Threads)
    BY JeAssumption
  <1> PICK f : f = [s \in Threads |-> th[s].held]
    OBVIOUS
  <1> PICK g : g = [s \in Threads |-> w[s].held]
    OBVIOUS
  <1>6. PICK h : IsSum(f, Threads, h) /\ HeldBy(th, Threads) = h[Threads]
    BY <1>4, <1>f, HeldSum
  <1>7. PICK k : IsSum(g, Threads, k) /\ HeldBy(w, Threads) = k[Threads]
    BY <1>5, <1>f, HeldSum
  <1>8. \A s \in Threads : f[s] \in Int /\ g[s] \in Int
    BY <1>4, <1>5
  <1>9. \A s \in Threads \ {t} : g[s] = f[s]
    BY <1>1
  <1>10. h[Threads] \in Int /\ k[Threads] = h[Threads] + (g[t] - f[t])
    BY ONLY <1>f, <1>6, <1>7, <1>8, <1>9, t \in Threads, SumChange
  <1>11. g[t] = m.held /\ f[t] = th[t].held
    BY <1>1
  <1>12. nodes + Cardinality(exts) + Cardinality(huge) + h[Threads] = made
    BY <1>6, Zenon DEF NodesInv, NodesAccounted, HeldBy
  <1>13. /\ Cardinality(exts) \in Nat /\ Cardinality(huge) \in Nat
         /\ Cardinality(exts') \in Nat /\ Cardinality(huge') \in Nat
         /\ nodes \in Nat /\ m.held \in Nat /\ th[t].held \in Nat
    BY <1>2, HeldIsInt, FS_CardinalityType DEF NodesInv
  <1>14. nodes' + Cardinality(exts') + Cardinality(huge') + k[Threads] = made'
    BY ONLY <1>10, <1>11, <1>12, <1>13, nodes' \in Nat, made' = made,
         nodes' + Cardinality(exts') + Cardinality(huge') + m.held
           = nodes + Cardinality(exts) + Cardinality(huge) + th[t].held
  <1>15. HeldBy(th', Threads) = k[Threads]
    BY <1>7
  <1>16. NodesAccounted'
    <2>1. NodesAccounted' <=> nodes' + Cardinality(exts') + Cardinality(huge') + HeldBy(th', Threads) = made'
      BY Zenon DEF NodesAccounted, HeldBy, MapThenSumSet, MapThenFoldSet
    <2> QED BY <1>14, <1>15, <2>1
  <1>17. (\A s \in Threads : HeldOK(th[s]))'
    BY <1>3 DEF HeldOK, ForHuge, ForTrees
  <1> QED BY <1>16, <1>17 DEF NodesInv

LEMMA MarksStep ==
  ASSUME Marks, NEW t \in Threads, NEW m, th = [s \in Threads |-> th[s]], th' = [th EXCEPT ![t] = m],
         \A x \in exts' : x.z \in BOOLEAN, \A x \in huge' : x.z \in BOOLEAN,
         m.pc \in Moving => m.e.z \in BOOLEAN
  PROVE  Marks'
  <1>1. th'[t] = m /\ \A s \in Threads \ {t} : th'[s] = th[s]
    OBVIOUS
  <1>2. ASSUME NEW s \in Threads PROVE th'[s].pc \in Moving => th'[s].e.z \in BOOLEAN
    <2>1. CASE s = t
      BY <1>1, <2>1, Zenon
    <2>2. CASE s # t
      <3>1. th'[s] = th[s]
        BY <1>1, <2>2
      <3> QED BY <3>1, Zenon DEF Marks
    <2> QED BY <2>1, <2>2
  <1> QED BY <1>2, Zenon DEF Marks

\* A step that leaves the arenas alone.
LEMMA ArenaStep ==
  ASSUME ArenaInv, NEW t \in Threads, NEW m, th = [s \in Threads |-> th[s]], th' = [th EXCEPT ![t] = m],
         nthr' = nthr, ranges' = ranges, m.arena = th[t].arena,
         \/ mtx'["arenas"] = mtx["arenas"]
         \/ mtx["arenas"] = NoThread,
         m.pc = "cleanup" => m.arena # NoArena,
         MakesArena(m) => mtx'["arenas"] = t /\ NullArenas # {}
  PROVE  ArenaInv'
  <1>1. th'[t] = m /\ \A s \in Threads \ {t} : th'[s] = th[s]
    OBVIOUS
  <1>2. \A s \in Threads : th'[s].arena = th[s].arena
    BY <1>1
  <1>3. \A i : {s \in Threads : th'[s].arena = i} = {s \in Threads : th[s].arena = i}
    BY <1>2
  <1>4. NullArenas' = NullArenas
    BY DEF NullArenas
  <1>n. NoThread \notin Threads
    BY JeAssumption
  <1>5. ASSUME NEW s \in Threads
        PROVE  /\ th'[s].arena # NoArena => th'[s].arena \in 0 .. (NArenas - 1) /\ nthr[th'[s].arena] # NoArena
               /\ th'[s].pc = "cleanup" => th'[s].arena # NoArena
               /\ MakesArena(th'[s]) => mtx'["arenas"] = s /\ NullArenas # {}
    <2>1. th'[s].arena # NoArena => th'[s].arena \in 0 .. (NArenas - 1) /\ nthr[th'[s].arena] # NoArena
      BY <1>2 DEF ArenaInv
    <2>2. CASE s = t
      BY <1>1, <2>1, <2>2
    <2>3. CASE s # t
      <3>1. th'[s] = th[s]
        BY <1>1, <2>3
      <3>2. /\ th[s].pc = "cleanup" => th[s].arena # NoArena
            /\ MakesArena(th[s]) => mtx["arenas"] = s /\ NullArenas # {}
        BY DEF ArenaInv
      <3> QED BY <2>1, <3>1, <3>2, <1>n
    <2> QED BY <2>2, <2>3
  <1>6. (\A s \in Threads : MakesArena(th[s]) => mtx["arenas"] = s /\ NullArenas # {})'
    BY <1>4, <1>5 DEF MakesArena
  <1>7. \A i \in 0 .. (NArenas - 1) :
          nthr[i] # NoArena => Cardinality({s \in Threads : th'[s].arena = i}) <= nthr[i]
    BY <1>3 DEF ArenaInv
  <1>8. nthr \in [0 .. (NArenas - 1) -> Nat \cup {NoArena}] /\ (ranges # {} <=> nthr[0] # NoArena)
    BY DEF ArenaInv
  <1> QED BY <1>5, <1>6, <1>7, <1>8 DEF ArenaInv

\* A step that leaves the arenas, the ranges and the verdict alone.
LEMMA BookStep ==
  ASSUME BooksInv, JeInv, NEW t \in Threads, NEW m, th' = [th EXCEPT ![t] = m],
         HeldOK(m), m.arena = th[t].arena, MakesArena(m) => MakesArena(th[t]),
         m.pc = "cleanup" => m.arena # NoArena, m.pc \in Moving => m.e.z \in BOOLEAN,
         IsFiniteSet(exts'), IsFiniteSet(huge'), nodes' \in Nat,
         nodes' + Cardinality(exts') + Cardinality(huge') + m.held
           = nodes + Cardinality(exts) + Cardinality(huge) + th[t].held,
         \A x \in exts' : x.z \in BOOLEAN, \A x \in huge' : x.z \in BOOLEAN,
         Locks', mtx'["arenas"] = mtx["arenas"], cur' \in Int, lost' \subseteq Nat,
         UNCHANGED <<live, made, nthr, ranges, verdict>>
  PROVE  BooksInv'
  <1>1. NodesInv /\ Marks /\ ArenaInv /\ OneRange /\ Misc
    BY DEF BooksInv
  <1>2. th = [s \in Threads |-> th[s]]
    BY DEF JeInv, Shape
  <1>u. made' = made /\ nthr' = nthr /\ ranges' = ranges
    OBVIOUS
  <1>3. NodesInv'
    BY <1>1, <1>2, <1>u, NodesStep
  <1>4. Marks'
    BY <1>1, <1>2, MarksStep
  <1>5. ArenaInv'
    <2>1. MakesArena(m) => mtx'["arenas"] = t /\ NullArenas # {}
      BY <1>1, Zenon DEF ArenaInv
    <2> QED BY ONLY <1>1, <1>2, <1>u, <2>1, t \in Threads, th' = [th EXCEPT ![t] = m], m.arena = th[t].arena,
                    mtx'["arenas"] = mtx["arenas"], m.pc = "cleanup" => m.arena # NoArena, ArenaStep
  <1>6. OneRange'
    BY <1>1 DEF OneRange
  <1>7. Misc'
    BY <1>1, Zenon DEF Misc
  <1> QED BY <1>3, <1>4, <1>5, <1>6, <1>7, Zenon DEF BooksInv

\* A step that leaves the trees alone too.
LEMMA HandStep ==
  ASSUME BooksInv, JeInv, NEW t \in Threads, NEW m, th' = [th EXCEPT ![t] = m],
         HeldOK(m), m.arena = th[t].arena, MakesArena(m) => MakesArena(th[t]),
         m.pc = "cleanup" => m.arena # NoArena, m.pc \in Moving => m.e.z \in BOOLEAN,
         nodes' \in Nat, nodes' + m.held = nodes + th[t].held,
         Locks', mtx'["arenas"] = mtx["arenas"], cur' \in Int, lost' \subseteq Nat,
         UNCHANGED <<live, exts, huge, made, nthr, ranges, verdict>>
  PROVE  BooksInv'
  <1>1. IsFiniteSet(exts) /\ IsFiniteSet(huge) /\ nodes \in Nat /\ HeldOK(th[t])
    BY DEF BooksInv, NodesInv
  <1>2. (\A x \in exts : x.z \in BOOLEAN) /\ \A x \in huge : x.z \in BOOLEAN
    BY Zenon DEF BooksInv, Marks
  <1>3. Cardinality(exts) \in Nat /\ Cardinality(huge) \in Nat /\ m.held \in Nat /\ th[t].held \in Nat
    BY <1>1, FS_CardinalityType, HeldIsInt
  <1>u. exts' = exts /\ huge' = huge
    OBVIOUS
  <1>4. nodes' + Cardinality(exts') + Cardinality(huge') + m.held
           = nodes + Cardinality(exts) + Cardinality(huge) + th[t].held
    BY ONLY <1>u, <1>3, <1>1, nodes' \in Nat, nodes' + m.held = nodes + th[t].held
  <1>5. IsFiniteSet(exts') /\ IsFiniteSet(huge')
    BY <1>u, <1>1
  <1>6. (\A x \in exts' : x.z \in BOOLEAN) /\ \A x \in huge' : x.z \in BOOLEAN
    BY <1>u, <1>2, Zenon
  <1>7. UNCHANGED <<live, made, nthr, ranges, verdict>>
    OBVIOUS
  <1> QED BY <1>4, <1>5, <1>6, <1>7, BookStep

LEMMA SameLocks ==
  ASSUME BooksInv, mtx' = mtx
  PROVE  Locks' /\ mtx'["arenas"] = mtx["arenas"]
  BY DEF BooksInv, Locks

LEMMA BooksAre ==
  ASSUME BooksInv, NEW t \in Threads
  PROVE  /\ HeldOK(th[t]) /\ th[t].held \in Nat /\ nodes \in Nat /\ cur \in Int /\ lost \subseteq Nat
         /\ IsFiniteSet(exts) /\ IsFiniteSet(huge) /\ Cardinality(exts) \in Nat /\ Cardinality(huge) \in Nat
         /\ th[t].pc = "cleanup" => th[t].arena # NoArena
         /\ th[t].pc \in Moving => th[t].e.z \in BOOLEAN
  <1>1. /\ HeldOK(th[t]) /\ nodes \in Nat /\ IsFiniteSet(exts) /\ IsFiniteSet(huge)
    BY DEF BooksInv, NodesInv
  <1>2. cur \in Int /\ lost \subseteq Nat
    BY DEF BooksInv, Misc
  <1>3. th[t].pc = "cleanup" => th[t].arena # NoArena
    BY DEF BooksInv, ArenaInv
  <1>4. th[t].pc \in Moving => th[t].e.z \in BOOLEAN
    BY Zenon DEF BooksInv, Marks
  <1> QED BY <1>1, <1>2, <1>3, <1>4, FS_CardinalityType, HeldIsInt

-----------------------------------------------------------------------------
(* What a thread's record says of its nodes and its arena.                 *)

\* At the other labels a thread has no node.
NodeLabels == Taking \cup Giving \cup {"huge_register", "huge_insert", "free_put"}

LEMMA NoNodes ==
  ASSUME NEW l, l.pc \notin NodeLabels
  PROVE  HeldOK(l) <=> l.held = 0
  BY DEF NodeLabels, Taking, Giving, HeldOK, ForHuge, ForTrees

LEMMA DoneBooks ==
  ASSUME NEW l, NEW m, m = Done(l)
  PROVE  /\ HeldOK(m) /\ m.held = 0 /\ m.arena = l.arena /\ ~MakesArena(m)
         /\ m.pc = "idle" /\ m.pc \notin Moving
  <1>1. Idle.held = 0 /\ "arena" \in DOMAIN Idle /\ "held" \in DOMAIN Idle /\ "pc" \in DOMAIN Idle /\ Idle.pc = "idle"
    <2>1. Idle.held = 0
      BY Zenon DEF Idle
    <2> QED BY <2>1, IdleIs DEF Fields
  <1>3. m.pc = "idle" /\ m.held = 0 /\ m.arena = l.arena
    BY <1>1, IdleIs DEF Done, Fields
  <1>4. HeldOK(m)
    BY <1>3, NoNodes DEF NodeLabels, Taking, Giving
  <1> QED BY <1>3, <1>4 DEF MakesArena, Moving, Taking, Giving

\* A call or a return leaves the books of a thread alone.
SameBooks(m, l) == m.held = l.held /\ m.arena = l.arena /\ m.put = l.put /\ m.got = l.got

LEMMA CallBooks ==
  ASSUME NEW l, NEW p, NEW b, NEW m, m = Call(l, p, b), DOMAIN l = Fields
  PROVE  SameBooks(m, l)
  BY DEF Call, Fields, SameBooks

LEMMA ReturnBooks ==
  ASSUME NEW l, NEW m, m = Return(l), DOMAIN l = Fields
  PROVE  SameBooks(m, l)
  BY DEF Return, Fields, SameBooks

\* chunk_recycle and chunk_record return with the node of the huge allocation
\* and no other.
LEMMA HeldReturns ==
  ASSUME NEW l, NEW q, NEW m, ThreadOK(l), l.pc \in Taking \cup Giving,
         DOMAIN q = Fields, q.k = l.k, q.held = ForHuge(l), q.arena = l.arena, m = Return(q)
  PROVE  /\ HeldOK(m) /\ m.held = ForHuge(l) /\ m.arena = l.arena
         /\ MakesArena(m) => MakesArena(l)
         /\ m.pc # "cleanup" /\ m.pc \notin Moving
  <1>1. GiveBack(l) /\ l.k \in Seq(Labels) /\ l.k # <<>>
    BY DEF ThreadOK, GiveBack, TakeBack
  <1>2. Head(l.k) \in {"huge_register", "arena_register", "base_pages", "free_put", "done"}
    BY <1>1 DEF GiveBack, TakeBack
  <1>3. m.pc = Head(l.k) /\ SameBooks(m, q)
    BY <1>1, ReturnBooks, ReturnIs
  <1>4. m.pc \notin Taking \cup Giving \cup Moving /\ m.pc # "cleanup" /\ m.pc # "rec_insert" /\ m.pc # "rec_put"
    BY <1>2, <1>3 DEF Taking, Giving, Moving
  <1>5. ForTrees(m) = 0
    BY <1>4 DEF ForTrees, Taking
  <1>6. ForHuge(m) = ForHuge(l)
    <2>1. l.pc \notin {"huge_register", "huge_insert", "free_put"}
      BY DEF Taking, Giving
    <2>2. m.pc # "huge_insert"
      BY <1>2, <1>3
    <2> QED BY <2>1, <2>2, <1>3, <1>4 DEF ForHuge
  <1>7. ForHuge(l) \in Nat
    BY DEF ForHuge
  <1>8. HeldOK(m)
    BY <1>3, <1>4, <1>5, <1>6, <1>7 DEF HeldOK, SameBooks
  <1>9. MakesArena(m) => MakesArena(l)
    BY <1>2, <1>3, <1>4 DEF MakesArena
  <1> QED BY <1>3, <1>4, <1>8, <1>9 DEF SameBooks

-----------------------------------------------------------------------------
(* The books: chunks and nodes on their way.                               *)

\* Inside chunk_recycle and chunk_record the caller stays the same.
LEMMA SameCaller ==
  ASSUME NEW l, NEW m, l.pc \in Taking \cup Giving, m.pc \in Taking \cup Giving, m.k = l.k
  PROVE  /\ ForHuge(m) = ForHuge(l) /\ ForHuge(l) \in Nat /\ MakesArena(m) = MakesArena(l)
         /\ m.pc # "cleanup"
  <1>1. \A p \in Taking \cup Giving : p \notin {"huge_register", "huge_insert", "free_put", "cleanup",
                                              "base", "base_pages", "arena_new", "arena_done"}
    BY DEF Taking, Giving
  <1>2. ForHuge(m) = ForHuge(l) /\ ForHuge(l) \in Nat
    BY <1>1 DEF ForHuge
  <1>3. MakesArena(m) <=> MakesArena(l)
    BY <1>1, Zenon DEF MakesArena
  <1>4. MakesArena(m) = MakesArena(l)
    BY <1>3 DEF MakesArena
  <1> QED BY <1>1, <1>2, <1>4

LEMMA BooksChunk ==
  ASSUME BooksInv, JeInv, NEW t \in Threads,
         RecyclePut(t) \/ Dalloc(t) \/ RecordNode(t) \/ RecordPut(t) \/ TrailNode(t)
  PROVE  BooksInv'
  <1> DEFINE l == th[t]
  <1>m. ThreadOK(l) /\ DOMAIN l = Fields
    BY Mine DEF ThreadOK
  <1>b. /\ HeldOK(l) /\ l.held \in Nat /\ nodes \in Nat /\ cur \in Int /\ lost \subseteq Nat
        /\ l.pc \in Moving => l.e.z \in BOOLEAN
    BY BooksAre
  <1>u. /\ UNCHANGED <<live, exts, huge, made, nthr, ranges, verdict>>
        /\ mtx' = mtx
    BY DEF RecyclePut, Dalloc, RecordNode, RecordPut, TrailNode
  <1>l. Locks' /\ mtx'["arenas"] = mtx["arenas"]
    BY <1>u, SameLocks
  <1>1. CASE RecyclePut(t)
    <2>1. PICK q, m : /\ q = [l EXCEPT !.held = l.held - 1] /\ m = Return(q)
                      /\ l.pc = "recycle_put" /\ th' = [th EXCEPT ![t] = m]
      BY <1>1 DEF RecyclePut, Step, At
    <2>2. nodes' = nodes + 1 /\ cur' = cur /\ lost' = lost
      BY <1>1 DEF RecyclePut
    <2>3. /\ DOMAIN q = Fields /\ q.k = l.k /\ q.held = l.held - 1 /\ q.arena = l.arena
      BY <2>1, <1>m DEF Fields
    <2>4. l.pc \in Taking \cup Giving /\ l.held = ForHuge(l) + 1 /\ ForHuge(l) \in Nat
      BY <2>1, <1>b DEF HeldOK, ForTrees, ForHuge, Taking
    <2>5. q.held = ForHuge(l) /\ m = Return(q)
      BY <2>1, <2>3, <2>4
    <2>6. /\ HeldOK(m) /\ m.held = ForHuge(l) /\ m.arena = l.arena
          /\ MakesArena(m) => MakesArena(l)
          /\ m.pc # "cleanup" /\ m.pc \notin Moving
      BY <2>3, <2>4, <2>5, <1>m, HeldReturns
    <2>7. nodes' \in Nat /\ nodes' + m.held = nodes + l.held
      BY <2>2, <2>4, <2>6, <1>b
    <2> QED BY <1>u, <1>l, <1>b, <2>1, <2>2, <2>6, <2>7, HandStep
  <1>2. CASE Dalloc(t)
    <2>1. PICK m : m = [l EXCEPT !.pc = "rec_node"] /\ th' = [th EXCEPT ![t] = m] /\ l.pc = "dalloc"
      BY <1>2 DEF Dalloc, Step, At
    <2>2. nodes' = nodes /\ cur' = cur - l.e.n /\ lost' = lost
      BY <1>2 DEF Dalloc
    <2>3. m.pc = "rec_node" /\ m.k = l.k /\ m.held = l.held /\ m.arena = l.arena /\ m.e = l.e
      BY <2>1, <1>m DEF Fields
    <2>4. l.pc \in Taking \cup Giving /\ m.pc \in Taking \cup Giving /\ l.pc \in Moving
      BY <2>1, <2>3 DEF Giving, Moving
    <2>5. /\ ForHuge(m) = ForHuge(l) /\ ForHuge(l) \in Nat /\ MakesArena(m) = MakesArena(l)
          /\ m.pc # "cleanup"
      BY <2>3, <2>4, SameCaller
    <2>6. HeldOK(m)
      BY <2>1, <2>3, <2>5, <1>b DEF HeldOK, ForTrees
    <2>7. cur' \in Int
      BY <2>2, <2>4, <1>b, <1>m DEF ThreadOK, ExtOK
    <2>8. m.pc \in Moving => m.e.z \in BOOLEAN
      BY <2>3, <2>4, <1>b, Zenon
    <2> QED BY <1>u, <1>l, <1>b, <2>1, <2>2, <2>3, <2>5, <2>6, <2>7, <2>8, HandStep
  <1>3. CASE RecordNode(t)
    <2>1. PICK m, g, h : /\ m = [l EXCEPT !.pc = "rec_insert", !.got = g, !.held = h]
                         /\ th' = [th EXCEPT ![t] = m] /\ l.pc = "rec_node"
                         /\ g = (nodes > 0) /\ h = l.held + (IF nodes > 0 THEN 1 ELSE 0)
                         /\ nodes' = IF nodes > 0 THEN nodes - 1 ELSE 0
      BY <1>3, Zenon DEF RecordNode, Step, At
    <2>2. cur' = cur /\ lost' = lost
      BY <1>3 DEF RecordNode
    <2>g. (nodes > 0 => g = TRUE) /\ (~(nodes > 0) => g = FALSE) /\ g \in BOOLEAN
      <3>2. (nodes > 0) \/ ~(nodes > 0)
        OBVIOUS
      <3>3. ASSUME nodes > 0 PROVE g = TRUE
        BY <2>1, <3>3
      <3>4. ASSUME ~(nodes > 0) PROVE g = FALSE
        <4>1. g = (nodes > 0)
          BY <2>1, Zenon
        <4>2. g \in BOOLEAN
          BY <4>1
        <4>3. g # TRUE
          BY <3>4, <4>1, Zenon
        <4> QED BY <4>2, <4>3, Zenon
      <3> QED BY <3>2, <3>3, <3>4, Zenon
    <2>3. m.pc = "rec_insert" /\ m.k = l.k /\ m.held = h /\ m.arena = l.arena /\ m.e = l.e /\ m.got = g
      BY <2>1, <1>m DEF Fields
    <2>4. l.pc \in Taking \cup Giving /\ m.pc \in Taking \cup Giving /\ l.pc \in Moving
      BY <2>1, <2>3 DEF Giving, Moving
    <2>5. /\ ForHuge(m) = ForHuge(l) /\ ForHuge(l) \in Nat /\ MakesArena(m) = MakesArena(l)
          /\ m.pc # "cleanup"
      BY <2>3, <2>4, SameCaller
    <2>6. l.held = ForHuge(l)
      BY <2>1, <2>5, <1>b DEF HeldOK, ForTrees
    <2>7. HeldOK(m)
      <3>1. m.held = ForHuge(m) + (IF g = TRUE THEN 1 ELSE 0)
        BY <2>1, <2>3, <2>5, <2>6, <2>g
      <3>2. ForTrees(m) = IF g = TRUE THEN 1 ELSE 0
        BY <2>3, Zenon DEF ForTrees
      <3>3. m.got \in BOOLEAN /\ m.pc # "rec_put"
        BY <2>3, <2>g
      <3> QED BY <3>1, <3>2, <3>3, Zenon DEF HeldOK
    <2>8. nodes' \in Nat /\ nodes' + m.held = nodes + l.held
      BY <2>1, <2>3, <1>b
    <2>9. m.pc \in Moving => m.e.z \in BOOLEAN
      BY <2>3, <2>4, <1>b, Zenon
    <2> QED BY <1>u, <1>l, <1>b, <2>1, <2>2, <2>3, <2>5, <2>7, <2>8, <2>9, HandStep
  <1>4. CASE RecordPut(t)
    <2>1. PICK q, m : /\ q = [l EXCEPT !.put = l.put - 1, !.held = l.held - 1]
                      /\ m = IF q.put = 0 THEN Return(q) ELSE q
                      /\ l.pc = "rec_put" /\ th' = [th EXCEPT ![t] = m]
      BY <1>4 DEF RecordPut, Step, At
    <2>2. nodes' = nodes + 1 /\ cur' = cur /\ lost' = lost
      BY <1>4 DEF RecordPut
    <2>3. /\ DOMAIN q = Fields /\ q.k = l.k /\ q.held = l.held - 1 /\ q.put = l.put - 1
          /\ q.arena = l.arena /\ q.pc = l.pc
      BY <2>1, <1>m DEF Fields
    <2>4. /\ l.pc \in Taking \cup Giving /\ l.held = ForHuge(l) + l.put /\ l.put \in Nat \ {0}
          /\ ForHuge(l) \in Nat
      BY <2>1, <1>b DEF HeldOK, ForTrees, ForHuge, Giving
    <2>5. CASE q.put = 0
      <3>1. q.held = ForHuge(l) /\ m = Return(q)
        BY <2>1, <2>3, <2>4, <2>5
      <3>2. /\ HeldOK(m) /\ m.held = ForHuge(l) /\ m.arena = l.arena
            /\ MakesArena(m) => MakesArena(l)
            /\ m.pc # "cleanup" /\ m.pc \notin Moving
        BY <2>3, <2>4, <3>1, <1>m, HeldReturns
      <3>3. nodes' \in Nat /\ nodes' + m.held = nodes + l.held
        BY <2>2, <2>3, <2>4, <2>5, <3>2, <1>b
      <3> QED BY <1>u, <1>l, <1>b, <2>1, <2>2, <3>2, <3>3, HandStep
    <2>6. CASE q.put # 0
      <3>1. m = q
        BY <2>1, <2>6
      <3>2. m.pc \in Taking \cup Giving /\ m.k = l.k /\ m.pc \notin Moving /\ m.pc = "rec_put"
        BY <2>1, <2>3, <3>1 DEF Giving, Moving
      <3>3. /\ ForHuge(m) = ForHuge(l) /\ ForHuge(l) \in Nat /\ MakesArena(m) = MakesArena(l)
            /\ m.pc # "cleanup"
        BY <2>4, <3>2, SameCaller
      <3>4. HeldOK(m)
        BY <2>3, <2>4, <2>6, <3>1, <3>2, <3>3 DEF HeldOK, ForTrees
      <3>5. nodes' \in Nat /\ nodes' + m.held = nodes + l.held /\ m.arena = l.arena
        BY <2>2, <2>3, <3>1, <1>b
      <3> QED BY <1>u, <1>l, <1>b, <2>1, <2>2, <3>2, <3>3, <3>4, <3>5, HandStep
    <2> QED BY <2>5, <2>6
  <1>5. CASE TrailNode(t)
    <2>1. l.pc = "trail_node" /\ l.pc \in Taking \cup Giving /\ cur' = cur /\ l.pc \in Moving
      BY <1>5 DEF TrailNode, At, Taking, Moving
    <2>2. l.held = ForHuge(l) /\ ForHuge(l) \in Nat
      BY <2>1, <1>b DEF HeldOK, ForTrees, ForHuge
    <2>3. CASE nodes > 0
      <3>1. PICK m : /\ m = [l EXCEPT !.pc = "trail_insert", !.held = l.held + 1]
                     /\ th' = [th EXCEPT ![t] = m] /\ nodes' = nodes - 1 /\ lost' = lost
        BY <1>5, <2>3 DEF TrailNode, Step
      <3>2. m.pc = "trail_insert" /\ m.k = l.k /\ m.held = l.held + 1 /\ m.arena = l.arena /\ m.e = l.e
        BY <3>1, <1>m DEF Fields
      <3>3. m.pc \in Taking \cup Giving
        BY <3>2 DEF Taking
      <3>4. /\ ForHuge(m) = ForHuge(l) /\ MakesArena(m) = MakesArena(l) /\ m.pc # "cleanup"
        BY <2>1, <3>2, <3>3, SameCaller
      <3>5. HeldOK(m)
        BY <2>2, <3>2, <3>4 DEF HeldOK, ForTrees
      <3>6. nodes' \in Nat /\ nodes' + m.held = nodes + l.held
        BY <2>3, <3>1, <3>2, <1>b
      <3>7. m.pc \in Moving => m.e.z \in BOOLEAN
        BY <2>1, <3>2, <1>b, Zenon
      <3> QED BY <1>u, <1>l, <1>b, <2>1, <3>1, <3>2, <3>4, <3>5, <3>6, <3>7, HandStep
    <2>4. CASE ~(nodes > 0)
      <3>1. PICK m, e, z : /\ m = [l EXCEPT !.pc = "dalloc", !.r = NoChunk, !.e = e]
                           /\ e = [a |-> l.r, n |-> l.n, z |-> z] /\ z = FALSE
                           /\ th' = [th EXCEPT ![t] = m] /\ nodes' = nodes /\ lost' = lost \cup Chunks(l.e)
        BY <1>5, <2>4, Zenon DEF TrailNode, Step
      <3>2. m.pc = "dalloc" /\ m.k = l.k /\ m.held = l.held /\ m.arena = l.arena /\ m.e = e
        BY <3>1, <1>m DEF Fields
      <3>3. m.pc \in Taking \cup Giving
        BY <3>2 DEF Giving
      <3>4. /\ ForHuge(m) = ForHuge(l) /\ MakesArena(m) = MakesArena(l) /\ m.pc # "cleanup"
        BY <2>1, <3>2, <3>3, SameCaller
      <3>5. HeldOK(m)
        BY <2>2, <3>2, <3>4 DEF HeldOK, ForTrees
      <3>6. nodes' \in Nat /\ nodes' + m.held = nodes + l.held
        BY <3>1, <3>2, <1>b
      <3>7. m.pc \in Moving => m.e.z \in BOOLEAN
        <4>1. e.z = z /\ z \in BOOLEAN
          BY <3>1, Zenon
        <4> QED BY <4>1, <3>2, Zenon
      <3>8. lost' \subseteq Nat
        <4>1. ExtOK(l.e)
          BY <2>1, <1>m DEF ThreadOK
        <4> QED BY <3>1, <4>1, <1>b DEF Chunks, ExtOK
      <3> QED BY <1>u, <1>l, <1>b, <2>1, <3>1, <3>2, <3>4, <3>5, <3>6, <3>7, <3>8, HandStep
    <2> QED BY <2>3, <2>4
  <1> QED BY <1>1, <1>2, <1>3, <1>4, <1>5

-----------------------------------------------------------------------------
(* The books: calls begin and end.                                         *)

\* A step between two labels at which a thread has no node.
LEMMA PlainStep ==
  ASSUME BooksInv, JeInv, NEW t \in Threads, NEW m, th' = [th EXCEPT ![t] = m],
         th[t].pc \notin NodeLabels, m.pc \notin NodeLabels, m.held = th[t].held, m.arena = th[t].arena,
         m.pc = "cleanup" => m.arena # NoArena, MakesArena(m) => MakesArena(th[t]),
         Locks', mtx'["arenas"] = mtx["arenas"], cur' \in Int,
         UNCHANGED <<live, exts, nodes, huge, made, nthr, ranges, verdict, lost>>
  PROVE  BooksInv'
  <1>1. HeldOK(th[t]) /\ nodes \in Nat /\ lost \subseteq Nat
    BY BooksAre
  <1>2. HeldOK(m)
    BY <1>1, NoNodes
  <1>3. m.pc \notin Moving
    BY DEF NodeLabels, Taking, Giving, Moving
  <1>4. nodes' \in Nat /\ nodes' + m.held = nodes + th[t].held /\ lost' \subseteq Nat
    BY <1>1
  <1>5. UNCHANGED <<live, exts, huge, made, nthr, ranges, verdict>>
    OBVIOUS
  <1> QED BY <1>2, <1>3, <1>4, <1>5, HandStep

\* A call is over: the node in the thread's hands goes to the list.
LEMMA DoneBook ==
  ASSUME BooksInv, JeInv, NEW t \in Threads, NEW x, x.arena = th[t].arena, th' = [th EXCEPT ![t] = Done(x)],
         nodes' = nodes + th[t].held, Locks', mtx'["arenas"] = mtx["arenas"], cur' \in Int,
         UNCHANGED <<live, exts, huge, made, nthr, ranges, verdict, lost>>
  PROVE  BooksInv'
  <1>1. PICK m : m = Done(x) /\ th' = [th EXCEPT ![t] = m]
    OBVIOUS
  <1>2. /\ HeldOK(m) /\ m.held = 0 /\ m.arena = th[t].arena /\ ~MakesArena(m)
        /\ m.pc = "idle" /\ m.pc \notin Moving
    BY <1>1, DoneBooks
  <1>3. nodes \in Nat /\ th[t].held \in Nat /\ lost \subseteq Nat
    BY BooksAre
  <1>4. nodes' \in Nat /\ nodes' + m.held = nodes + th[t].held /\ lost' \subseteq Nat
    BY <1>2, <1>3
  <1>5. UNCHANGED <<live, exts, huge, made, nthr, ranges, verdict>>
    OBVIOUS
  <1>6. m.pc # "cleanup"
    BY <1>2
  <1> QED BY <1>1, <1>2, <1>4, <1>5, <1>6, HandStep

LEMMA BooksEnds ==
  ASSUME BooksInv, JeInv, NEW t \in Threads, HugeFail(t) \/ HugeDallocPut(t) \/ CallDone(t) \/ ArenaRegister(t)
  PROVE  BooksInv'
  <1>1. /\ UNCHANGED <<live, exts, huge, made, nthr, ranges, verdict, lost>>
        /\ mtx' = mtx /\ th' = [th EXCEPT ![t] = Done(th[t])]
    BY DEF HugeFail, HugeDallocPut, CallDone, ArenaRegister, Step, pool
  <1>2. Locks' /\ mtx'["arenas"] = mtx["arenas"]
    BY <1>1, SameLocks
  <1>3. HeldOK(th[t]) /\ cur \in Int /\ nodes \in Nat
    BY BooksAre
  <1>4. cur' \in Int
    BY <1>3 DEF HugeFail, HugeDallocPut, CallDone, ArenaRegister, pool
  <1>5. nodes' = nodes + th[t].held
    <2>1. CASE HugeFail(t) \/ HugeDallocPut(t)
      <3>1. nodes' = nodes + 1 /\ th[t].pc \in {"huge_register", "free_put"}
        BY <2>1 DEF HugeFail, HugeDallocPut, At
      <3>2. th[t].held = 1
        BY <3>1, <1>3 DEF HeldOK, ForHuge, ForTrees
      <3> QED BY <3>1, <3>2
    <2>2. CASE CallDone(t) \/ ArenaRegister(t)
      <3>1. nodes' = nodes /\ th[t].pc \in {"done", "arena_register"}
        BY <2>2 DEF CallDone, ArenaRegister, At, pool
      <3>2. th[t].pc \notin NodeLabels
        BY <3>1 DEF NodeLabels, Taking, Giving
      <3>3. th[t].held = 0
        BY <3>2, <1>3, NoNodes
      <3> QED BY <3>1, <3>3, <1>3
    <2> QED BY <2>1, <2>2
  <1> QED BY <1>1, <1>2, <1>4, <1>5, DoneBook

\* The calls that a client starts.
LEMMA BooksCalls ==
  ASSUME BooksInv, JeInv, NEW t \in Threads
  PROVE  /\ \A o, z, n, a : HugeStart(t, o, n, a, z) => BooksInv'
         /\ \A h, n : je_pool_ralloc(t, h, n) => BooksInv'
         /\ \A h : je_pool_free(t, h) => BooksInv'
         /\ arenas_cleanup(t) => BooksInv'
         /\ CheckChunks(t) => BooksInv'
  <1> DEFINE l == th[t]
  <1>m. DOMAIN l = Fields
    BY Mine DEF ThreadOK
  <1>b. HeldOK(l) /\ cur \in Int /\ nodes \in Nat
    BY BooksAre
  <1>i. "idle" \notin NodeLabels /\ "check_chunks" \notin NodeLabels
    BY DEF NodeLabels, Taking, Giving
  <1>0. ASSUME NEW m, th' = [th EXCEPT ![t] = m], l.pc \notin NodeLabels, m.held = l.held, m.arena = l.arena,
               m.pc \in {"huge_node", "free", "check_arenas", "cleanup"},
               m.pc = "cleanup" => m.arena # NoArena,
               UNCHANGED <<live, exts, nodes, huge, made, nthr, ranges, verdict, lost, cur>>,
               Locks', mtx'["arenas"] = mtx["arenas"]
        PROVE  BooksInv'
    <2>1. m.pc \notin NodeLabels /\ ~MakesArena(m)
      BY <1>0 DEF NodeLabels, Taking, Giving, MakesArena
    <2>2. cur' \in Int
      BY <1>0, <1>b
    <2> QED BY <1>0, <2>1, <2>2, PlainStep
  <1>1. ASSUME NEW o, NEW z, NEW n, NEW a, HugeStart(t, o, n, a, z) PROVE BooksInv'
    <2>1. /\ UNCHANGED <<live, exts, nodes, huge, made, nthr, ranges, verdict, lost, cur>> /\ mtx' = mtx
          /\ l.pc = "idle"
      BY <1>1 DEF HugeStart, Begin, At, pool
    <2>2. PICK m, c : /\ m = [[l EXCEPT !.calls = c] EXCEPT !.pc = "huge_node", !.n = n, !.al = a, !.zero = z]
                      /\ th' = [th EXCEPT ![t] = m]
      BY <1>1, Zenon DEF HugeStart, Step, Entered
    <2>3. m.pc = "huge_node" /\ m.held = l.held /\ m.arena = l.arena
      BY <2>2, <1>m DEF Fields
    <2> QED BY <2>1, <2>2, <2>3, <1>i, <1>0, SameLocks
  <1>2. ASSUME NEW h, NEW n, je_pool_ralloc(t, h, n) PROVE BooksInv'
    <2>1. /\ UNCHANGED <<live, exts, nodes, huge, made, nthr, ranges, verdict, lost, cur>> /\ mtx' = mtx
          /\ l.pc = "idle"
      BY <1>2 DEF je_pool_ralloc, Begin, At, pool
    <2>2. PICK q, c : q = [l EXCEPT !.calls = c] /\ q = Entered(t)
      BY DEF Entered
    <2>3. DOMAIN q = Fields /\ q.held = l.held /\ q.arena = l.arena
      BY <2>2, <1>m DEF Fields
    <2>4. l.held = 0
      BY <2>1, <1>i, <1>b, NoNodes
    <2>5. CASE th' = [th EXCEPT ![t] = Done(q)]
      <3>1. nodes' = nodes + l.held /\ cur' \in Int
        BY <2>1, <2>4, <1>b
      <3>2. UNCHANGED <<live, exts, huge, made, nthr, ranges, verdict, lost>>
        BY <2>1
      <3>3. Locks' /\ mtx'["arenas"] = mtx["arenas"]
        BY <2>1, SameLocks
      <3> QED BY <2>3, <2>5, <3>1, <3>2, <3>3, DoneBook
    <2>6. CASE th' # [th EXCEPT ![t] = Done(q)]
      <3>1. PICK m : m = [q EXCEPT !.pc = "huge_node", !.n = n, !.old = h] /\ th' = [th EXCEPT ![t] = m]
        BY <1>2, <2>2, <2>6, Zenon DEF je_pool_ralloc, Step
      <3>2. m.pc = "huge_node" /\ m.held = l.held /\ m.arena = l.arena
        BY <3>1, <2>3 DEF Fields
      <3> QED BY <2>1, <3>1, <3>2, <1>i, <1>0, SameLocks
    <2> QED BY <2>5, <2>6
  <1>3. ASSUME NEW h, je_pool_free(t, h) PROVE BooksInv'
    <2>1. /\ UNCHANGED <<live, exts, nodes, huge, made, nthr, ranges, verdict, lost, cur>> /\ mtx' = mtx
          /\ l.pc = "idle"
      BY <1>3 DEF je_pool_free, Begin, At, pool
    <2>2. PICK m, c : /\ m = [[l EXCEPT !.calls = c] EXCEPT !.pc = "free", !.e = h]
                      /\ th' = [th EXCEPT ![t] = m]
      BY <1>3, Zenon DEF je_pool_free, Step, Entered
    <2>3. m.pc = "free" /\ m.held = l.held /\ m.arena = l.arena
      BY <2>2, <1>m DEF Fields
    <2> QED BY <2>1, <2>2, <2>3, <1>i, <1>0, SameLocks
  <1>4. ASSUME arenas_cleanup(t) PROVE BooksInv'
    <2>1. /\ UNCHANGED <<live, exts, nodes, huge, made, nthr, ranges, verdict, lost, cur>>
          /\ mtx' = [mtx EXCEPT !["pools"] = t] /\ l.pc = "idle" /\ l.arena # NoArena
      BY <1>4 DEF arenas_cleanup, At
    <2>2. PICK m : m = [l EXCEPT !.pc = "cleanup"] /\ th' = [th EXCEPT ![t] = m]
      BY <1>4 DEF arenas_cleanup, Step
    <2>3. m.pc = "cleanup" /\ m.held = l.held /\ m.arena = l.arena
      BY <2>2, <1>m DEF Fields
    <2>4. Locks' /\ mtx'["arenas"] = mtx["arenas"]
      BY <2>1 DEF BooksInv, Locks, LockNames
    <2> QED BY <2>1, <2>2, <2>3, <2>4, <1>i, <1>0
  <1>5. ASSUME CheckChunks(t) PROVE BooksInv'
    <2>1. /\ UNCHANGED <<live, exts, nodes, huge, made, nthr, ranges, verdict, lost, cur>>
          /\ mtx' = [mtx EXCEPT !["chunks"] = t] /\ l.pc = "check_chunks"
      BY <1>5 DEF CheckChunks, At
    <2>2. PICK m : m = [l EXCEPT !.pc = "check_arenas"] /\ th' = [th EXCEPT ![t] = m]
      BY <1>5 DEF CheckChunks, Step
    <2>3. m.pc = "check_arenas" /\ m.held = l.held /\ m.arena = l.arena
      BY <2>2, <1>m DEF Fields
    <2>4. Locks' /\ mtx'["arenas"] = mtx["arenas"]
      BY <2>1 DEF BooksInv, Locks, LockNames
    <2> QED BY <2>1, <2>2, <2>3, <2>4, <1>i, <1>0
  <1> QED BY <1>1, <1>2, <1>3, <1>4, <1>5, Zenon

\* The calls that go into chunk_recycle and chunk_record.
LEMMA BooksEnter ==
  ASSUME BooksInv, JeInv, NEW t \in Threads
  PROVE  /\ HugeNode(t) => BooksInv'
         /\ HugeRegister(t) => BooksInv'
         /\ ArenaGrow(t) => BooksInv'
         /\ \A c : ArenaShrink(t, c) => BooksInv'
  <1> DEFINE l == th[t]
  <1>m. DOMAIN l = Fields /\ l.k \in Seq(Labels)
    BY Mine DEF ThreadOK
  <1>b. HeldOK(l) /\ cur \in Int /\ nodes \in Nat /\ lost \subseteq Nat
    BY BooksAre
  <1>i. /\ "idle" \notin NodeLabels /\ "huge_node" \notin NodeLabels
        /\ "recycle" \notin Moving
        /\ {"huge_register", "arena_register", "done"} \subseteq Labels
    BY DEF NodeLabels, Taking, Giving, Moving, Labels, MayHold
  <1>1. ASSUME HugeNode(t) PROVE BooksInv'
    <2>1. /\ UNCHANGED <<live, exts, huge, made, nthr, ranges, verdict, lost, cur>> /\ mtx' = mtx
          /\ l.pc = "huge_node"
      BY <1>1 DEF HugeNode, At
    <2>2. Locks' /\ mtx'["arenas"] = mtx["arenas"] /\ cur' \in Int /\ lost' \subseteq Nat
      BY <2>1, <1>b, SameLocks
    <2>3. l.held = 0
      BY <2>1, <1>i, <1>b, NoNodes
    <2>4. CASE nodes = 0
      <3>1. th' = [th EXCEPT ![t] = Done(l)] /\ nodes' = nodes + l.held
        BY <1>1, <2>3, <2>4, <1>b DEF HugeNode, Step
      <3>2. UNCHANGED <<live, exts, huge, made, nthr, ranges, verdict, lost>>
        BY <2>1
      <3> QED BY <2>2, <3>1, <3>2, DoneBook
    <2>5. CASE nodes # 0
      <3>1. PICK q, m, p, b : /\ q = [l EXCEPT !.held = l.held + 1] /\ m = Call(q, p, b)
                              /\ p = "recycle" /\ b = "huge_register"
                              /\ th' = [th EXCEPT ![t] = m] /\ nodes' = nodes - 1
        BY <1>1, <2>5, Zenon DEF HugeNode, Step
      <3>2. DOMAIN q = Fields /\ q.held = 1 /\ q.arena = l.arena /\ q.k = l.k
        BY <3>1, <1>m, <2>3 DEF Fields
      <3>3. b \in Labels /\ q.k \in Seq(Labels)
        BY <3>1, <3>2, <1>i, <1>m
      <3>c. m = Call(q, p, b)
        BY <3>1
      <3>4. m.pc = p /\ Head(m.k) = b
        BY ONLY <3>c, <3>2, <3>3, CallIs
      <3>5. m.held = 1 /\ m.arena = l.arena
        BY ONLY <3>c, <3>2, CallBooks DEF SameBooks
      <3>6. HeldOK(m) /\ ~MakesArena(m) /\ m.pc # "cleanup" /\ m.pc \notin Moving
        BY <3>1, <3>4, <3>5, <1>i DEF HeldOK, ForHuge, ForTrees, Taking, MakesArena
      <3>7. nodes' \in Nat /\ nodes' + m.held = nodes + l.held
        BY <3>1, <3>5, <2>3, <2>5, <1>b
      <3>8. UNCHANGED <<live, exts, huge, made, nthr, ranges, verdict>>
        BY <2>1
      <3> QED BY <2>2, <3>1, <3>5, <3>6, <3>7, <3>8, HandStep
    <2> QED BY <2>4, <2>5
  <1>2. ASSUME HugeRegister(t) PROVE BooksInv'
    <2>1. /\ UNCHANGED <<live, exts, nodes, huge, made, nthr, ranges, verdict, lost>> /\ mtx' = mtx
          /\ l.pc = "huge_register" /\ cur' = cur + l.n
      BY <1>2 DEF HugeRegister, At
    <2>2. PICK m : /\ m = [l EXCEPT !.pc = "huge_insert"] /\ th' = [th EXCEPT ![t] = m]
      BY <1>2 DEF HugeRegister, Step
    <2>3. m.pc = "huge_insert" /\ m.held = l.held /\ m.arena = l.arena
      BY <2>2, <1>m DEF Fields
    <2>4. HeldOK(m) /\ ~MakesArena(m) /\ m.pc # "cleanup" /\ m.pc \notin Moving
      BY <2>1, <2>3, <1>b DEF HeldOK, ForHuge, ForTrees, MakesArena, Taking, Giving, Moving
    <2>5. Locks' /\ mtx'["arenas"] = mtx["arenas"] /\ lost' \subseteq Nat
      BY <2>1, <1>b, SameLocks
    <2>6. cur' \in Int
      BY <2>1, <1>b, Mine DEF ThreadOK
    <2>7. nodes' \in Nat /\ nodes' + m.held = nodes + l.held
      BY <2>1, <2>3, <1>b
    <2>8. UNCHANGED <<live, exts, huge, made, nthr, ranges, verdict>>
      BY <2>1
    <2> QED BY <2>2, <2>3, <2>4, <2>5, <2>6, <2>7, <2>8, HandStep
  <1>3. ASSUME NEW q, NEW m, NEW p \in {"recycle", "dalloc"}, NEW b \in {"arena_register", "done"}, m = Call(q, p, b),
               th' = [th EXCEPT ![t] = m], l.pc = "idle",
               DOMAIN q = Fields, q.k = l.k, q.held = l.held, q.arena = l.arena,
               p = "dalloc" => q.e.z \in BOOLEAN,
               UNCHANGED <<live, exts, nodes, huge, made, nthr, ranges, verdict, lost, cur>>, mtx' = mtx
        PROVE  BooksInv'
    <2>1. b \in Labels /\ q.k \in Seq(Labels)
      BY <1>3, <1>i, <1>m
    <2>2. m.pc = p /\ Head(m.k) = b /\ m.e = q.e
      BY <1>3, <2>1, CallIs DEF Keeps
    <2>3. m.held = l.held /\ m.arena = l.arena
      BY <1>3, CallBooks DEF SameBooks
    <2>4. l.held = 0
      BY <1>3, <1>i, <1>b, NoNodes
    <2>5. HeldOK(m) /\ ~MakesArena(m) /\ m.pc # "cleanup"
      BY <1>3, <2>2, <2>3, <2>4 DEF HeldOK, ForHuge, ForTrees, MakesArena
    <2>6. m.pc \in Moving => m.e.z \in BOOLEAN
      BY <1>3, <2>2, <1>i, Zenon
    <2>7. Locks' /\ mtx'["arenas"] = mtx["arenas"] /\ lost' \subseteq Nat /\ cur' \in Int
      BY <1>3, <1>b, SameLocks
    <2>8. nodes' \in Nat /\ nodes' + m.held = nodes + l.held
      BY <1>3, <2>3, <1>b
    <2>9. UNCHANGED <<live, exts, huge, made, nthr, ranges, verdict>>
      BY <1>3
    <2> QED BY <1>3, <2>3, <2>5, <2>6, <2>7, <2>8, <2>9, HandStep
  <1>4. ASSUME ArenaGrow(t) PROVE BooksInv'
    <2>1. /\ UNCHANGED <<live, exts, nodes, huge, made, nthr, ranges, verdict, lost, cur>> /\ mtx' = mtx
          /\ l.pc = "idle"
      BY <1>4 DEF ArenaGrow, Begin, At, pool
    <2>2. PICK q, m, c, p, b : /\ q = [[l EXCEPT !.calls = c] EXCEPT !.n = 1] /\ p = "recycle" /\ b = "arena_register"
                               /\ m = Call(q, p, b) /\ th' = [th EXCEPT ![t] = m]
      BY <1>4, Zenon DEF ArenaGrow, Step, Entered
    <2>3. DOMAIN q = Fields /\ q.k = l.k /\ q.held = l.held /\ q.arena = l.arena
      BY <2>2, <1>m DEF Fields
    <2>4. p \in {"recycle", "dalloc"} /\ b \in {"arena_register", "done"} /\ p # "dalloc"
      BY <2>2
    <2> QED BY <2>1, <2>2, <2>3, <2>4, <1>3
  <1>5. ASSUME NEW x, ArenaShrink(t, x) PROVE BooksInv'
    <2>1. /\ UNCHANGED <<live, exts, nodes, huge, made, nthr, ranges, verdict, lost, cur>> /\ mtx' = mtx
          /\ l.pc = "idle"
      BY <1>5 DEF ArenaShrink, Begin, At
    <2>2. PICK q, m, c, p, b, e, z :
             /\ q = [[l EXCEPT !.calls = c] EXCEPT !.e = e] /\ p = "dalloc" /\ b = "done"
             /\ e = [a |-> x, n |-> 1, z |-> z] /\ z = FALSE
             /\ m = Call(q, p, b) /\ th' = [th EXCEPT ![t] = m]
      BY <1>5, Zenon DEF ArenaShrink, Step, Entered
    <2>3. DOMAIN q = Fields /\ q.k = l.k /\ q.held = l.held /\ q.arena = l.arena /\ q.e = e
      BY <2>2, <1>m DEF Fields
    <2>4. p \in {"recycle", "dalloc"} /\ b \in {"arena_register", "done"}
      BY <2>2
    <2>5. q.e.z \in BOOLEAN
      <3>1. e.z = z /\ z \in BOOLEAN
        BY <2>2, Zenon
      <3> QED BY <2>3, <3>1, Zenon
    <2> QED BY <2>1, <2>2, <2>3, <2>4, <2>5, <1>3
  <1> QED BY <1>1, <1>2, <1>4, <1>5, Zenon

\* Base memory, for the arena that the thread makes.
LEMMA BooksBase ==
  ASSUME BooksInv, JeInv, NEW t \in Threads
  PROVE  /\ BaseAlloc(t) => BooksInv'
         /\ BasePages(t) => BooksInv'
  <1> DEFINE l == th[t]
  <1>m. ThreadOK(l) /\ DOMAIN l = Fields /\ l.k \in Seq(Labels)
    BY Mine DEF ThreadOK
  <1>b. HeldOK(l) /\ cur \in Int /\ nodes \in Nat /\ lost \subseteq Nat
    BY BooksAre
  <1>i. /\ "base" \notin NodeLabels /\ "base_pages" \notin NodeLabels /\ "recycle" \notin Moving
        /\ "base_pages" \in Labels
        /\ "arena_new" \notin NodeLabels /\ "arena_done" \notin NodeLabels
    BY DEF NodeLabels, Taking, Giving, Moving, Labels, MayHold
  <1>0. ASSUME l.pc \in {"base", "base_pages"}, NEW q, NEW m, m = Return(q), DOMAIN q = Fields,
               q.k = l.k, q.held = l.held, q.arena = l.arena, th' = [th EXCEPT ![t] = m], cur' \in Int,
               Locks', mtx'["arenas"] = mtx["arenas"],
               UNCHANGED <<live, exts, nodes, huge, made, nthr, ranges, verdict, lost>>
        PROVE  BooksInv'
    <2>1. l.k # <<>> /\ Head(l.k) \in {"arena_new", "arena_done"}
      BY <1>0, <1>m DEF ThreadOK, BaseBack
    <2>2. m.pc = Head(l.k)
      BY <1>0, <1>m, <2>1, ReturnIs
    <2>3. m.held = l.held /\ m.arena = l.arena
      BY <1>0, ReturnBooks DEF SameBooks
    <2>4. MakesArena(l) /\ m.pc \notin NodeLabels /\ l.pc \notin NodeLabels /\ m.pc # "cleanup"
      BY <1>0, <1>i, <2>1, <2>2 DEF MakesArena
    <2> QED BY <1>0, <2>3, <2>4, PlainStep
  <1>1. ASSUME BaseAlloc(t) PROVE BooksInv'
    <2>1. /\ UNCHANGED <<live, exts, nodes, huge, made, nthr, ranges, verdict, lost, cur>>
          /\ l.pc = "base" /\ cur' \in Int
      BY <1>1, <1>b DEF BaseAlloc, At
    <2>2. CASE mtx' = mtx /\ \E q : q = [l EXCEPT !.b = base.next] /\ th' = [th EXCEPT ![t] = Return(q)]
      <3>1. PICK q : q = [l EXCEPT !.b = base.next] /\ th' = [th EXCEPT ![t] = Return(q)]
        BY <2>2
      <3>2. DOMAIN q = Fields /\ q.k = l.k /\ q.held = l.held /\ q.arena = l.arena
        BY <3>1, <1>m DEF Fields
      <3>3. PICK m : m = Return(q) /\ th' = [th EXCEPT ![t] = m]
        BY <3>1
      <3>4. Locks' /\ mtx'["arenas"] = mtx["arenas"]
        BY <2>2, SameLocks
      <3>5. UNCHANGED <<live, exts, nodes, huge, made, nthr, ranges, verdict, lost>>
        BY <2>1
      <3> QED BY <2>1, <3>2, <3>3, <3>4, <3>5, <1>0
    <2>3. CASE ~(mtx' = mtx /\ \E q : q = [l EXCEPT !.b = base.next] /\ th' = [th EXCEPT ![t] = Return(q)])
      <3>1. PICK q, m, p, b, n, z :
               /\ q = [l EXCEPT !.n = n, !.al = 1, !.zero = z] /\ p = "recycle" /\ b = "base_pages"
               /\ m = Call(q, p, b) /\ th' = [th EXCEPT ![t] = m] /\ mtx' = [mtx EXCEPT !["base"] = t]
        BY <1>1, <2>3, Zenon DEF BaseAlloc, Step
      <3>2. DOMAIN q = Fields /\ q.k = l.k /\ q.held = l.held /\ q.arena = l.arena
        BY <3>1, <1>m DEF Fields
      <3>3. b \in Labels /\ q.k \in Seq(Labels)
        BY <3>1, <3>2, <1>i, <1>m
      <3>c. m = Call(q, p, b)
        BY <3>1
      <3>4. m.pc = p /\ Head(m.k) = b
        BY ONLY <3>c, <3>2, <3>3, CallIs
      <3>5. m.held = l.held /\ m.arena = l.arena
        BY ONLY <3>c, <3>2, CallBooks DEF SameBooks
      <3>6. l.held = 0 /\ MakesArena(l)
        BY <2>1, <1>i, <1>b, NoNodes DEF MakesArena
      <3>7. HeldOK(m) /\ m.pc # "cleanup" /\ m.pc \notin Moving
        BY <3>1, <3>4, <3>5, <3>6, <1>i DEF HeldOK, ForHuge, ForTrees
      <3>8. Locks' /\ mtx'["arenas"] = mtx["arenas"]
        BY <3>1 DEF BooksInv, Locks, LockNames
      <3>9. nodes' \in Nat /\ nodes' + m.held = nodes + l.held /\ lost' \subseteq Nat
        BY <2>1, <3>5, <1>b
      <3>10. UNCHANGED <<live, exts, huge, made, nthr, ranges, verdict>>
        BY <2>1
      <3> QED BY <2>1, <3>1, <3>5, <3>6, <3>7, <3>8, <3>9, <3>10, HandStep
    <2> QED BY <2>2, <2>3
  <1>2. ASSUME BasePages(t) PROVE BooksInv'
    <2>1. /\ UNCHANGED <<live, exts, nodes, huge, made, nthr, ranges, verdict, lost>>
          /\ l.pc = "base_pages" /\ mtx' = [mtx EXCEPT !["base"] = NoThread]
          /\ cur' \in {cur, cur + l.n}
      BY <1>2 DEF BasePages, At
    <2>2. PICK q, m, b : /\ q = [l EXCEPT !.b = b] \/ q = [l EXCEPT !.b = b, !.r = NoChunk]
                         /\ m = Return(q) /\ th' = [th EXCEPT ![t] = m]
      BY <1>2, Zenon DEF BasePages, Step
    <2>3. DOMAIN q = Fields /\ q.k = l.k /\ q.held = l.held /\ q.arena = l.arena
      BY <2>2, <1>m DEF Fields
    <2>4. cur' \in Int
      BY <2>1, <1>b, <1>m DEF ThreadOK
    <2>5. Locks' /\ mtx'["arenas"] = mtx["arenas"]
      BY <2>1 DEF BooksInv, Locks, LockNames
    <2> QED BY <2>1, <2>2, <2>3, <2>4, <2>5, <1>0
  <1> QED BY <1>1, <1>2, Zenon

-----------------------------------------------------------------------------
(* The books: the trees.                                                   *)

\* What a thread has in its hands is not in the trees.
LEMMA InHands ==
  ASSUME JeInv, NEW t \in Threads, NEW c
  PROVE  /\ th[t].pc # "free" /\ c \in Chunks(th[t].e) => FreeAt(c) = {}
         /\ c \in Taken(th[t]) => HugeAt(c) = {}
  <1>1. Taken(th[t]) \subseteq Usable /\ Moved(th[t]) \subseteq Usable
    BY Others
  <1>2. ASSUME th[t].pc # "free", c \in Chunks(th[t].e) PROVE FreeAt(c) = {}
    <2>1. c \in Usable /\ t \in MovedAt(c)
      BY <1>1, <1>2 DEF Moved, MovedAt, At
    <2> QED BY <2>1, OwnerIs DEF JeInv, Accounted
  <1>3. ASSUME c \in Taken(th[t]) PROVE HugeAt(c) = {}
    <2>1. c \in Usable /\ t \in TakenAt(c)
      BY <1>1, <1>3 DEF Taken, TakenAt
    <2> QED BY <2>1, OwnerIs DEF JeInv, Accounted
  <1> QED BY <1>2, <1>3

LEMMA TrailInsertBooks ==
  ASSUME BooksInv, JeInv, NEW t \in Threads, TrailInsert(t)
  PROVE  BooksInv'
  <1> DEFINE l == th[t]
  <1>m. ThreadOK(l) /\ DOMAIN l = Fields
    BY Mine DEF ThreadOK
  <1>b. /\ HeldOK(l) /\ l.held \in Nat /\ nodes \in Nat /\ cur \in Int /\ lost \subseteq Nat
        /\ IsFiniteSet(exts) /\ IsFiniteSet(huge) /\ Cardinality(exts) \in Nat /\ Cardinality(huge) \in Nat
        /\ l.pc \in Moving => l.e.z \in BOOLEAN
    BY BooksAre
  <1>z. (\A x \in exts : x.z \in BOOLEAN) /\ \A x \in huge : x.z \in BOOLEAN
    BY Zenon DEF BooksInv, Marks
  <1>u. /\ UNCHANGED <<live, made, nthr, ranges, verdict>> /\ mtx' = mtx
        /\ nodes' = nodes /\ huge' = huge /\ cur' = cur /\ lost' = lost
    BY DEF TrailInsert
  <1>l. Locks' /\ mtx'["arenas"] = mtx["arenas"]
    BY <1>u, SameLocks
  <1>1. PICK q, m : /\ q = [l EXCEPT !.e = NoExt, !.held = l.held - 1] /\ m = Return(q)
                    /\ l.pc = "trail_insert" /\ th' = [th EXCEPT ![t] = m] /\ exts' = exts \cup {l.e}
    BY Zenon DEF TrailInsert, Step, At
  <1>2. DOMAIN q = Fields /\ q.k = l.k /\ q.held = l.held - 1 /\ q.arena = l.arena
    BY <1>1, <1>m DEF Fields
  <1>3. l.pc \in Taking \cup Giving /\ l.held = ForHuge(l) + 1 /\ ForHuge(l) \in Nat /\ l.pc \in Moving
    BY <1>1, <1>b DEF HeldOK, ForTrees, ForHuge, Taking, Moving
  <1>4. q.held = ForHuge(l) /\ m = Return(q)
    BY <1>1, <1>2, <1>3
  <1>5. /\ HeldOK(m) /\ m.held = ForHuge(l) /\ m.arena = l.arena
        /\ MakesArena(m) => MakesArena(l)
        /\ m.pc # "cleanup" /\ m.pc \notin Moving
    BY <1>2, <1>3, <1>4, <1>m, HeldReturns
  <1>6. l.e \notin exts
    <2>1. ExtOK(l.e)
      BY <1>3, <1>m DEF ThreadOK
    <2>2. l.e.a \in Chunks(l.e) /\ l.pc # "free"
      BY <2>1, <1>1, FirstLast
    <2>3. FreeAt(l.e.a) = {}
      BY <2>2, InHands
    <2> QED BY <2>2, <2>3 DEF FreeAt
  <1>7. IsFiniteSet(exts') /\ Cardinality(exts') = Cardinality(exts) + 1
    BY <1>1, <1>6, <1>b, FS_AddElement
  <1>8. nodes' + Cardinality(exts') + Cardinality(huge') + m.held
           = nodes + Cardinality(exts) + Cardinality(huge) + l.held
    BY <1>u, <1>b, <1>3, <1>5, <1>7
  <1>9. \A x \in exts' : x.z \in BOOLEAN
    <2>1. l.e.z \in BOOLEAN
      BY <1>3, <1>b, Zenon
    <2>2. \A x \in exts' : x \in exts \/ x = l.e
      BY <1>1
    <2> QED BY <2>1, <2>2, <1>z, Zenon
  <1>10. IsFiniteSet(huge') /\ nodes' \in Nat /\ cur' \in Int /\ lost' \subseteq Nat /\ UNCHANGED <<live, made, nthr, ranges, verdict>>
    BY <1>u, <1>b
  <1>11. \A x \in huge' : x.z \in BOOLEAN
    BY <1>u, <1>z, Zenon
  <1> QED BY <1>l, <1>1, <1>5, <1>7, <1>8, <1>9, <1>10, <1>11, BookStep

LEMMA HugeBooks ==
  ASSUME BooksInv, JeInv, NEW t \in Threads
  PROVE  /\ HugeInsert(t) => BooksInv'
         /\ HugeDalloc(t) => BooksInv'
  <1> DEFINE l == th[t]
  <1>m. ThreadOK(l) /\ DOMAIN l = Fields /\ l.k \in Seq(Labels) /\ Claim(l) \subseteq huge
    BY Mine DEF ThreadOK
  <1>b. /\ HeldOK(l) /\ l.held \in Nat /\ nodes \in Nat /\ cur \in Int /\ lost \subseteq Nat
        /\ IsFiniteSet(exts) /\ IsFiniteSet(huge) /\ Cardinality(exts) \in Nat /\ Cardinality(huge) \in Nat
    BY BooksAre
  <1>z. (\A x \in exts : x.z \in BOOLEAN) /\ \A x \in huge : x.z \in BOOLEAN
    BY Zenon DEF BooksInv, Marks
  <1>1. ASSUME HugeInsert(t) PROVE BooksInv'
    <2>u. /\ UNCHANGED <<live, made, nthr, ranges, verdict>> /\ mtx' = mtx
          /\ nodes' = nodes /\ exts' = exts /\ cur' = cur /\ lost' = lost /\ l.pc = "huge_insert"
      BY <1>1 DEF HugeInsert, At
    <2>l. Locks' /\ mtx'["arenas"] = mtx["arenas"]
      BY <2>u, SameLocks
    <2>1. PICK h, z : /\ h = [a |-> l.r, n |-> l.n, z |-> z] /\ (z = (l.zero /\ l.old = NoExt))
                      /\ huge' = huge \cup {h}
      BY <1>1, Zenon DEF HugeInsert
    <2>2. h.a = l.r /\ h.n = l.n /\ h.z = z
      BY <2>1
    <2>3. z \in BOOLEAN
      BY <2>1
    <2>4. l.r \in Nat /\ l.r # NoChunk /\ l.n \in Nat \ {0}
      BY <2>u, <1>m DEF ThreadOK, Holding, MayHold
    <2>5. l.r \in Taken(l) /\ l.r \in Chunks(h)
      BY <2>2, <2>4 DEF Taken, Chunks
    <2>6. h \notin huge
      <3>1. HugeAt(l.r) = {}
        BY <2>5, InHands
      <3> QED BY <2>5, <3>1 DEF HugeAt
    <2>7. IsFiniteSet(huge') /\ Cardinality(huge') = Cardinality(huge) + 1
      BY <2>1, <2>6, <1>b, FS_AddElement
    <2>8. l.held = 1
      BY <2>u, <1>b DEF HeldOK, ForHuge, ForTrees
    <2>9. PICK m : /\ th' = [th EXCEPT ![t] = m] /\ m.held = 0 /\ m.arena = l.arena /\ m.pc \in {"idle", "free"}
      <3>1. PICK q : q = Done(l)
        OBVIOUS
      <3>2. q.held = 0 /\ q.arena = l.arena /\ q.pc = "idle" /\ DOMAIN q = Fields
        BY <3>1, DoneBooks, DoneIs
      <3>3. CASE l.old = NoExt
        <4>1. th' = [th EXCEPT ![t] = q]
          BY <1>1, <3>1, <3>3 DEF HugeInsert, Step
        <4> QED BY <3>2, <4>1
      <3>4. CASE l.old # NoExt
        <4>1. PICK m : m = [q EXCEPT !.pc = "free", !.e = l.old] /\ th' = [th EXCEPT ![t] = m]
          BY <1>1, <3>1, <3>4 DEF HugeInsert, Step
        <4>2. m.held = 0 /\ m.arena = l.arena /\ m.pc = "free"
          BY <3>2, <4>1 DEF Fields
        <4> QED BY <4>1, <4>2
      <3> QED BY <3>3, <3>4
    <2>10. HeldOK(m) /\ ~MakesArena(m) /\ m.pc # "cleanup" /\ m.pc \notin Moving
      <3>1. m.pc \notin NodeLabels
        BY <2>9 DEF NodeLabels, Taking, Giving
      <3>2. HeldOK(m)
        BY <2>9, <3>1, NoNodes
      <3> QED BY <2>9, <3>1, <3>2 DEF MakesArena, Moving, Taking, Giving
    <2>11. nodes' + Cardinality(exts') + Cardinality(huge') + m.held
             = nodes + Cardinality(exts) + Cardinality(huge) + l.held
      BY <2>u, <2>7, <2>8, <2>9, <1>b
    <2>12. \A x \in huge' : x.z \in BOOLEAN
      <3>1. \A x \in huge' : x \in huge \/ x = h
        BY <2>1
      <3> QED BY <2>2, <2>3, <3>1, <1>z, Zenon
    <2>13. \A x \in exts' : x.z \in BOOLEAN
      BY <2>u, <1>z, Zenon
    <2>14. IsFiniteSet(exts') /\ nodes' \in Nat /\ cur' \in Int /\ lost' \subseteq Nat /\ UNCHANGED <<live, made, nthr, ranges, verdict>>
      BY <2>u, <1>b
    <2> QED BY <2>l, <2>7, <2>9, <2>10, <2>11, <2>12, <2>13, <2>14, BookStep
  <1>2. ASSUME HugeDalloc(t) PROVE BooksInv'
    <2>u. /\ UNCHANGED <<live, made, nthr, ranges, verdict>> /\ mtx' = mtx
          /\ nodes' = nodes /\ exts' = exts /\ cur' = cur /\ lost' = lost /\ l.pc = "free"
      BY <1>2 DEF HugeDalloc, At
    <2>l. Locks' /\ mtx'["arenas"] = mtx["arenas"]
      BY <2>u, SameLocks
    <2>1. PICK q, m, x, y, z, p, b :
             /\ x = l.e /\ y = [x EXCEPT !.z = z] /\ z = FALSE /\ q = [l EXCEPT !.held = l.held + 1, !.e = y]
             /\ p = "dalloc" /\ b = "free_put" /\ m = Call(q, p, b) /\ th' = [th EXCEPT ![t] = m]
             /\ huge' = huge \ {x}
      BY <1>2, Zenon DEF HugeDalloc, Step
    <2>2. x \in huge
      BY <2>1, <2>u, <1>m DEF Claim
    <2>3. y.z = z /\ z \in BOOLEAN
      <3>1. DOMAIN x = {"a", "n", "z"}
        BY <2>2, Others DEF ExtOK
      <3>2. y = [x EXCEPT !.z = z]
        BY <2>1, Zenon
      <3>3. y.z = z
        BY ONLY <3>1, <3>2
      <3>4. z \in BOOLEAN
        BY <2>1, Zenon
      <3> QED BY <3>3, <3>4
    <2>4. l.held = 0
      <3>1. l.pc \notin NodeLabels
        BY <2>u DEF NodeLabels, Taking, Giving
      <3> QED BY <3>1, <1>b, NoNodes
    <2>5. DOMAIN q = Fields /\ q.k = l.k /\ q.held = 1 /\ q.arena = l.arena /\ q.e = y
      BY <2>1, <2>4, <1>m DEF Fields
    <2>6. b \in Labels /\ q.k \in Seq(Labels)
      BY <2>1, <2>5, <1>m DEF Labels
    <2>c. m = Call(q, p, b)
      BY <2>1
    <2>7. m.pc = p /\ Head(m.k) = b /\ m.e = q.e
      BY ONLY <2>c, <2>5, <2>6, CallIs DEF Keeps
    <2>8. m.held = 1 /\ m.arena = l.arena
      BY ONLY <2>c, <2>5, CallBooks DEF SameBooks
    <2>p. p = "dalloc" /\ b = "free_put" /\ huge' = huge \ {x} /\ th' = [th EXCEPT ![t] = m]
      BY <2>1, Zenon
    <2>9. HeldOK(m) /\ ~MakesArena(m) /\ m.pc # "cleanup"
      BY <2>p, <2>7, <2>8 DEF HeldOK, ForHuge, ForTrees, Taking, Giving, MakesArena
    <2>10. m.e.z \in BOOLEAN
      BY <2>3, <2>5, <2>7, Zenon
    <2>11. IsFiniteSet(huge') /\ Cardinality(huge') = Cardinality(huge) - 1
      BY <2>p, <2>2, <1>b, FS_RemoveElement
    <2>12. nodes' + Cardinality(exts') + Cardinality(huge') + m.held
             = nodes + Cardinality(exts) + Cardinality(huge) + l.held
      BY <2>u, <2>4, <2>8, <2>11, <1>b
    <2>13. \A w \in huge' : w.z \in BOOLEAN
      BY <2>p, <1>z, Zenon
    <2>14. \A w \in exts' : w.z \in BOOLEAN
      BY <2>u, <1>z, Zenon
    <2>15. IsFiniteSet(exts') /\ nodes' \in Nat /\ cur' \in Int /\ lost' \subseteq Nat /\ UNCHANGED <<live, made, nthr, ranges, verdict>>
      BY <2>u, <1>b
    <2> QED BY <2>l, <2>p, <2>8, <2>9, <2>10, <2>11, <2>12, <2>13, <2>14, <2>15, BookStep
  <1> QED BY <1>1, <1>2, Zenon

\* chunk_record adds one extent for the neighbours that it takes out.
LEMMA CoalescedSize ==
  ASSUME JeInv, NEW e, ExtOK(e), IsFiniteSet(exts), FreeAt(e.a) = {}
  PROVE  \E f, p \in {0, 1} :
            /\ f = 0 <=> Following(e) = {}
            /\ p = 0 <=> Preceding(e) = {}
            /\ IsFiniteSet(Coalesced(e)) /\ Cardinality(Coalesced(e)) = Cardinality(exts) - f - p + 1
  <1>1. PICK j, S : /\ S \subseteq exts /\ Coalesced(e) = (exts \ S) \cup {j}
                    /\ \A c : c \in Chunks(j) <=> (c \in Chunks(e) \/ \E x \in S : c \in Chunks(x))
    <2>1. \E j, S : /\ S \subseteq exts /\ Coalesced(e) = (exts \ S) \cup {j} /\ ExtOK(j)
                    /\ \A c : c \in Chunks(j) <=> (c \in Chunks(e) \/ \E f \in S : c \in Chunks(f))
                    /\ j.z => (e.z /\ \A f \in S : f.z)
      BY CoalescedIs, Zenon
    <2> QED BY <2>1
  <1>2. j \notin exts
    <2>1. e.a \in Chunks(j)
      BY <1>1, FirstLast
    <2> QED BY <2>1 DEF FreeAt
  <1>3. PICK F, P : F = Following(e) /\ P = Preceding(e)
    OBVIOUS
  <1>4. /\ F \subseteq exts /\ P \subseteq exts /\ (\A f \in F : F = {f}) /\ (\A p \in P : P = {p})
        /\ F \cap P = {}
    BY <1>3, NeighboursAre
  <1>5. Coalesced(e) = (exts \ (F \cup P)) \cup {j}
    <2>1. PICK k : k = JoinBoth(e)
      OBVIOUS
    <2>2. Coalesced(e) = (exts \ (F \cup P)) \cup {k}
      BY <1>3, <2>1 DEF Coalesced
    <2>3. k = j
      <3>1. j \in (exts \ (F \cup P)) \cup {k}
        BY <1>1, <2>2
      <3> QED BY <3>1, <1>2
    <2> QED BY <2>2, <2>3
  <1>6. Cardinality(exts) \in Nat
    BY FS_CardinalityType
  <1>7. PICK f \in {0, 1} : (f = 0 <=> F = {}) /\ IsFiniteSet(exts \ F) /\ Cardinality(exts \ F) = Cardinality(exts) - f
    <2>1. CASE F = {}
      <3>1. exts \ F = exts
        BY <2>1
      <3> QED BY <2>1, <3>1, <1>6
    <2>2. CASE F # {}
      <3>1. PICK x \in F : F = {x} /\ x \in exts
        BY <2>2, <1>4
      <3>2. IsFiniteSet(exts \ {x}) /\ Cardinality(exts \ {x}) = Cardinality(exts) - 1
        BY <3>1, FS_RemoveElement
      <3> QED BY <2>2, <3>1, <3>2
    <2> QED BY <2>1, <2>2
  <1>8. PICK G : G = exts \ F
    OBVIOUS
  <1>9. Cardinality(G) \in Nat /\ IsFiniteSet(G) /\ P \subseteq G /\ j \notin G \ P
    BY <1>2, <1>4, <1>7, <1>8, FS_CardinalityType
  <1>10. PICK p \in {0, 1} : (p = 0 <=> P = {}) /\ IsFiniteSet(G \ P) /\ Cardinality(G \ P) = Cardinality(G) - p
    <2>1. CASE P = {}
      <3>1. G \ P = G
        BY <2>1
      <3> QED BY <2>1, <3>1, <1>9
    <2>2. CASE P # {}
      <3>1. PICK x \in P : P = {x} /\ x \in G
        BY <2>2, <1>4, <1>9
      <3>2. IsFiniteSet(G \ {x}) /\ Cardinality(G \ {x}) = Cardinality(G) - 1
        BY <3>1, <1>9, FS_RemoveElement
      <3> QED BY <2>2, <3>1, <3>2
    <2> QED BY <2>1, <2>2
  <1>11. Coalesced(e) = (G \ P) \cup {j}
    BY <1>5, <1>8
  <1>12. IsFiniteSet(Coalesced(e)) /\ Cardinality(Coalesced(e)) = Cardinality(G \ P) + 1
    <2>1. PICK H : H = G \ P
      OBVIOUS
    <2>2. IsFiniteSet(H) /\ j \notin H
      BY <1>9, <1>10, <2>1
    <2>3. IsFiniteSet(H \cup {j}) /\ Cardinality(H \cup {j}) = Cardinality(H) + 1
      BY <2>2, FS_AddElement
    <2> QED BY <1>11, <2>1, <2>3
  <1> QED BY <1>3, <1>6, <1>7, <1>8, <1>10, <1>12

LEMMA CoalescedMarks ==
  ASSUME NEW e, e.z \in BOOLEAN, \A x \in exts : x.z \in BOOLEAN
  PROVE  \A x \in Coalesced(e) : x.z \in BOOLEAN
  <1>1. \A x, y : Joined(x, y).z \in BOOLEAN
    <2>1. ASSUME NEW x, NEW y PROVE Joined(x, y).z \in BOOLEAN
      <3>1. PICK a, b, w, r : /\ b = (x.z /\ y.z) /\ w = x.n + y.n /\ a = x.a /\ r = Joined(x, y)
                              /\ r = [a |-> a, n |-> w, z |-> b]
        BY Zenon DEF Joined
      <3>2. Joined(x, y).z = b
        <4>1. r = [a |-> a, n |-> w, z |-> b]
          BY <3>1
        <4>2. r.z = b
          BY ONLY <4>1
        <4> QED BY <3>1, <4>2
      <3>3. b \in BOOLEAN
        BY <3>1
      <3> QED BY <3>2, <3>3
    <2> QED BY <2>1
  <1>2. JoinFollowing(e).z \in BOOLEAN
    BY <1>1, Zenon DEF JoinFollowing
  <1>3. JoinBoth(e).z \in BOOLEAN
    BY <1>1, <1>2, Zenon DEF JoinBoth
  <1>4. \A x \in Coalesced(e) : x \in exts \/ x = JoinBoth(e)
    BY Zenon DEF Coalesced
  <1> QED BY <1>3, <1>4, Zenon

LEMMA RecordInsertBooks ==
  ASSUME BooksInv, JeInv, NEW t \in Threads, RecordInsert(t)
  PROVE  BooksInv'
  <1> DEFINE l == th[t]
  <1>m. ThreadOK(l) /\ DOMAIN l = Fields
    BY Mine DEF ThreadOK
  <1>b. /\ HeldOK(l) /\ l.held \in Nat /\ nodes \in Nat /\ cur \in Int /\ lost \subseteq Nat
        /\ IsFiniteSet(exts) /\ IsFiniteSet(huge) /\ Cardinality(exts) \in Nat /\ Cardinality(huge) \in Nat
        /\ l.pc \in Moving => l.e.z \in BOOLEAN
    BY BooksAre
  <1>z. (\A x \in exts : x.z \in BOOLEAN) /\ \A x \in huge : x.z \in BOOLEAN
    BY Zenon DEF BooksInv, Marks
  <1>u. /\ UNCHANGED <<live, made, nthr, ranges, verdict>> /\ mtx' = mtx
        /\ nodes' = nodes /\ huge' = huge /\ cur' = cur /\ l.pc = "rec_insert"
    BY DEF RecordInsert, At
  <1>l. Locks' /\ mtx'["arenas"] = mtx["arenas"]
    BY <1>u, SameLocks
  <1>1. l.pc \in Taking \cup Giving /\ l.pc \in Moving /\ l.pc # "free" /\ l.got \in BOOLEAN /\ ForHuge(l) \in Nat
    BY <1>u, <1>b DEF Giving, Moving, HeldOK, ForHuge
  <1>2. ExtOK(l.e) /\ l.e.z \in BOOLEAN
    <2>1. ExtOK(l.e)
      BY <1>1, <1>m DEF ThreadOK
    <2> QED BY <2>1, <1>1, <1>b, Zenon
  <1>3. PICK g \in {0, 1} : (g = 1 <=> l.got = TRUE) /\ l.held = ForHuge(l) + g
    <2>1. PICK g : g = IF l.got = TRUE THEN 1 ELSE 0
      OBVIOUS
    <2>2. g \in {0, 1} /\ (g = 1 <=> l.got = TRUE)
      BY <2>1
    <2>3. ForTrees(l) = g
      BY <2>1, <1>u DEF ForTrees
    <2> QED BY <2>2, <2>3, <1>b DEF HeldOK
  <1>4. CASE Following(l.e) = {} /\ ~l.got
    <2>1. PICK q, m : /\ q = [l EXCEPT !.e = NoExt] /\ m = Return(q) /\ th' = [th EXCEPT ![t] = m]
                      /\ exts' = exts /\ lost' = lost \cup Chunks(l.e)
      BY <1>4, Zenon DEF RecordInsert, Step
    <2>2. g = 0
      BY <1>3, <1>4, Zenon
    <2>3. DOMAIN q = Fields /\ q.k = l.k /\ q.held = l.held /\ q.arena = l.arena
      BY <2>1, <1>m DEF Fields
    <2>4. q.held = ForHuge(l) /\ m = Return(q)
      BY <1>1, <1>3, <2>1, <2>2, <2>3
    <2>5. /\ HeldOK(m) /\ m.held = ForHuge(l) /\ m.arena = l.arena
          /\ MakesArena(m) => MakesArena(l)
          /\ m.pc # "cleanup" /\ m.pc \notin Moving
      BY <1>1, <2>3, <2>4, <1>m, HeldReturns
    <2>6. lost' \subseteq Nat
      BY <2>1, <1>2, <1>b DEF Chunks, ExtOK
    <2>7. nodes' \in Nat /\ nodes' + m.held = nodes + l.held /\ cur' \in Int
      BY <1>u, <1>b, <2>3, <2>4, <2>5
    <2>8. UNCHANGED <<live, exts, huge, made, nthr, ranges, verdict>>
      BY <1>u, <2>1
    <2> QED BY <1>l, <2>1, <2>5, <2>6, <2>7, <2>8, HandStep
  <1>5. CASE ~(Following(l.e) = {} /\ ~l.got)
    <2>1. PICK n1, n2, d : /\ n1 = (IF Following(l.e) # {} /\ l.got THEN 1 ELSE 0)
                           /\ n2 = (IF Preceding(l.e) # {} THEN 1 ELSE 0)
                           /\ d = (IF l.got THEN 1 ELSE 0)
      OBVIOUS
    <2>2. /\ exts' = Coalesced(l.e) /\ lost' = lost
          /\ \E q : /\ q = [l EXCEPT !.e = NoExt, !.put = n1 + n2, !.held = l.held - d + n1 + n2]
                    /\ th' = [th EXCEPT ![t] = IF n1 + n2 = 0 THEN Return(q) ELSE [q EXCEPT !.pc = "rec_put"]]
      BY <1>5, <2>1, Zenon DEF RecordInsert, Step
    <2>3. PICK q : /\ q = [l EXCEPT !.e = NoExt, !.put = n1 + n2, !.held = l.held - d + n1 + n2]
                   /\ th' = [th EXCEPT ![t] = IF n1 + n2 = 0 THEN Return(q) ELSE [q EXCEPT !.pc = "rec_put"]]
      BY <2>2
    <2>4. FreeAt(l.e.a) = {}
      BY <1>1, <1>2, FirstLast, InHands
    <2>5. PICK f \in {0, 1}, p \in {0, 1} :
            /\ f = 0 <=> Following(l.e) = {}
            /\ p = 0 <=> Preceding(l.e) = {}
            /\ IsFiniteSet(exts') /\ Cardinality(exts') = Cardinality(exts) - f - p + 1
      BY <1>2, <1>b, <2>2, <2>4, CoalescedSize
    <2>6. d = g /\ n2 = p /\ n1 \in {0, 1} /\ n1 + 1 = f + g
      <3>1. CASE l.got = TRUE
        <4>1. g = 1 /\ d = 1
          BY <1>3, <2>1, <3>1
        <4>2. n1 = f
          BY <2>1, <2>5, <3>1
        <4> QED BY <4>1, <4>2, <2>1, <2>5
      <3>2. CASE l.got = FALSE
        <4>1. g = 0 /\ d = 0 /\ n1 = 0
          BY <1>3, <2>1, <3>2
        <4>2. f = 1
          BY <1>5, <2>5, <3>2
        <4> QED BY <4>1, <4>2, <2>1, <2>5
      <3> QED BY <1>1, <3>1, <3>2, Zenon
    <2>7. DOMAIN q = Fields /\ q.k = l.k /\ q.held = l.held - d + n1 + n2 /\ q.arena = l.arena /\ q.put = n1 + n2
      BY <2>3, <1>m DEF Fields
    <2>8. q.held = ForHuge(l) + q.put /\ q.put \in Nat
      BY <1>1, <1>3, <2>6, <2>7
    <2>9. PICK m : /\ th' = [th EXCEPT ![t] = m] /\ HeldOK(m) /\ m.held = q.held /\ m.arena = l.arena
                   /\ MakesArena(m) => MakesArena(l)
                   /\ m.pc # "cleanup" /\ m.pc \notin Moving
      <3>1. CASE n1 + n2 = 0
        <4>1. PICK m : m = Return(q) /\ th' = [th EXCEPT ![t] = m]
          BY <2>3, <3>1
        <4>2. q.held = ForHuge(l)
          BY <1>1, <2>7, <2>8, <3>1
        <4>3. /\ HeldOK(m) /\ m.held = ForHuge(l) /\ m.arena = l.arena
              /\ MakesArena(m) => MakesArena(l)
              /\ m.pc # "cleanup" /\ m.pc \notin Moving
          BY <1>1, <2>7, <4>1, <4>2, <1>m, HeldReturns
        <4> QED BY <4>1, <4>2, <4>3
      <3>2. CASE n1 + n2 # 0
        <4>1. PICK m : m = [q EXCEPT !.pc = "rec_put"] /\ th' = [th EXCEPT ![t] = m]
          BY <2>3, <3>2
        <4>2. m.pc = "rec_put" /\ m.k = l.k /\ m.held = q.held /\ m.arena = l.arena /\ m.put = q.put
          BY <4>1, <2>7 DEF Fields
        <4>3. m.pc \in Taking \cup Giving /\ m.pc \notin Moving
          BY <4>2 DEF Giving, Moving
        <4>4. /\ ForHuge(m) = ForHuge(l) /\ MakesArena(m) = MakesArena(l) /\ m.pc # "cleanup"
          BY <1>1, <4>2, <4>3, SameCaller
        <4>5. HeldOK(m)
          BY <2>7, <2>8, <3>2, <4>2, <4>4 DEF HeldOK, ForTrees
        <4> QED BY <4>1, <4>2, <4>3, <4>4, <4>5
      <3> QED BY <3>1, <3>2
    <2>10. nodes' + Cardinality(exts') + Cardinality(huge') + m.held
             = nodes + Cardinality(exts) + Cardinality(huge) + l.held
      BY <1>u, <1>b, <1>1, <1>3, <2>5, <2>6, <2>7, <2>9
    <2>11. \A x \in exts' : x.z \in BOOLEAN
      <3>1. \A x \in Coalesced(l.e) : x.z \in BOOLEAN
        BY <1>z, <1>2, CoalescedMarks
      <3> QED BY <2>2, <3>1, Zenon
    <2>12. \A x \in huge' : x.z \in BOOLEAN
      BY <1>u, <1>z, Zenon
    <2>13. /\ IsFiniteSet(huge') /\ nodes' \in Nat /\ cur' \in Int /\ lost' \subseteq Nat
           /\ UNCHANGED <<live, made, nthr, ranges, verdict>>
      BY <1>u, <1>b, <2>2
    <2> QED BY <1>l, <2>5, <2>9, <2>10, <2>11, <2>12, <2>13, BookStep
  <1> QED BY <1>4, <1>5

LEMMA RecycleTakeBooks ==
  ASSUME BooksInv, JeInv, NEW t \in Threads, RecycleTake(t)
  PROVE  BooksInv'
  <1> DEFINE l == th[t]
  <1>m. ThreadOK(l) /\ DOMAIN l = Fields
    BY Mine DEF ThreadOK
  <1>b. /\ HeldOK(l) /\ l.held \in Nat /\ nodes \in Nat /\ cur \in Int /\ lost \subseteq Nat
        /\ IsFiniteSet(exts) /\ IsFiniteSet(huge) /\ Cardinality(exts) \in Nat /\ Cardinality(huge) \in Nat
    BY BooksAre
  <1>z. (\A x \in exts : x.z \in BOOLEAN) /\ \A x \in huge : x.z \in BOOLEAN
    BY Zenon DEF BooksInv, Marks
  <1>o. \A x \in exts : ExtOK(x)
    BY Others
  <1>u. /\ UNCHANGED <<live, made, nthr, ranges, verdict>> /\ mtx' = mtx
        /\ nodes' = nodes /\ huge' = huge /\ cur' = cur /\ lost' = lost /\ l.pc = "recycle"
    BY DEF RecycleTake, At
  <1>l. Locks' /\ mtx'["arenas"] = mtx["arenas"]
    BY <1>u, SameLocks
  <1>1. /\ l.pc \in Taking \cup Giving /\ l.held = ForHuge(l) /\ ForHuge(l) \in Nat
        /\ l.n \in Nat \ {0} /\ l.al \in Nat \ {0}
    BY <1>u, <1>b, <1>m DEF Taking, HeldOK, ForHuge, ForTrees, ThreadOK
  <1>v. /\ IsFiniteSet(huge') /\ nodes' \in Nat /\ cur' \in Int /\ lost' \subseteq Nat
        /\ UNCHANGED <<live, made, nthr, ranges, verdict>>
    BY <1>u, <1>b
  <1>h. \A x \in huge' : x.z \in BOOLEAN
    BY <1>u, <1>z, Zenon
  <1>3. CASE \A f \in exts : f.n < l.n + l.al - 1
    <2>1. PICK q, m : /\ q = [l EXCEPT !.r = NoChunk] /\ m = Return(q) /\ th' = [th EXCEPT ![t] = m]
                      /\ exts' = exts
      BY <1>3, Zenon DEF RecycleTake, Step
    <2>2. DOMAIN q = Fields /\ q.k = l.k /\ q.held = ForHuge(l) /\ q.arena = l.arena
      BY <2>1, <1>m, <1>1 DEF Fields
    <2>3. m = Return(q)
      BY <2>1
    <2>4. /\ HeldOK(m) /\ m.held = ForHuge(l) /\ m.arena = l.arena
          /\ MakesArena(m) => MakesArena(l)
          /\ m.pc # "cleanup" /\ m.pc \notin Moving
      BY <1>1, <2>2, <2>3, <1>m, HeldReturns
    <2>5. nodes' + m.held = nodes + l.held
      BY <1>u, <1>1, <2>4
    <2>6. UNCHANGED <<live, exts, huge, made, nthr, ranges, verdict>>
      BY <1>u, <2>1
    <2> QED BY <1>l, <1>v, <2>1, <2>4, <2>5, <2>6, HandStep
  <1>4. CASE ~ \A f \in exts : f.n < l.n + l.al - 1
    <2> DEFINE e == FirstFit(l.n + l.al - 1)
               ld == ALIGNMENT_CEILING(e.a, l.al) - e.a
               tr == e.n - ld - l.n
               w == l.zero \/ e.z
               q == [l EXCEPT !.r = e.a + ld, !.zero = w]
               le == [a |-> e.a, n |-> ld, z |-> e.z]
               te == [a |-> e.a + ld + l.n, n |-> tr, z |-> e.z]
    <2>2. exts' = (exts \ {e}) \cup (IF ld # 0 THEN {le} ELSE {})
                        \cup (IF tr # 0 /\ ld = 0 THEN {te} ELSE {})
      BY <1>4, Zenon DEF RecycleTake
    <2>s. th' = [th EXCEPT ![t] =
                   CASE ld # 0 /\ tr # 0 -> [q EXCEPT !.pc = "trail_node", !.e = te]
                     [] ld = 0 /\ tr = 0 -> [q EXCEPT !.pc = "recycle_put", !.held = q.held + 1]
                     [] OTHER -> Return(q)]
      BY <1>4, Zenon DEF RecycleTake, Step
    <2>1. /\ e = FirstFit(l.n + l.al - 1) /\ ld = ALIGNMENT_CEILING(e.a, l.al) - e.a
          /\ tr = e.n - ld - l.n
      BY Zenon
    <2>x. PICK d, x, y : /\ d = e.z /\ x = le /\ x = [a |-> e.a, n |-> ld, z |-> d]
                         /\ y = te /\ y = [a |-> e.a + ld + l.n, n |-> tr, z |-> d]
      BY Zenon
    <2>q. q = [l EXCEPT !.r = e.a + ld, !.zero = w]
      BY Zenon
    <2> HIDE DEF e, ld, tr, w, q, le, te
    <2>3. PICK m, h :
             /\ th' = [th EXCEPT ![t] = m] /\ h = q.held + 1
             /\ \/ ld # 0 /\ tr # 0 /\ m = [q EXCEPT !.pc = "trail_node", !.e = y]
                \/ ld = 0 /\ tr = 0 /\ m = [q EXCEPT !.pc = "recycle_put", !.held = h]
                \/ ~(ld # 0 /\ tr # 0) /\ ~(ld = 0 /\ tr = 0) /\ m = Return(q)
      <3>1. PICK m, a, b, c, h :
               /\ a = [q EXCEPT !.pc = "trail_node", !.e = y] /\ c = Return(q)
               /\ b = [q EXCEPT !.pc = "recycle_put", !.held = h] /\ h = q.held + 1
               /\ m = CASE ld # 0 /\ tr # 0 -> a [] ld = 0 /\ tr = 0 -> b [] OTHER -> c
               /\ th' = [th EXCEPT ![t] = m]
        BY <2>s, <2>x, Zenon
      <3>2. \/ ld # 0 /\ tr # 0 /\ m = a
            \/ ld = 0 /\ tr = 0 /\ m = b
            \/ ~(ld # 0 /\ tr # 0) /\ ~(ld = 0 /\ tr = 0) /\ m = c
        <4>1. m = CASE ld # 0 /\ tr # 0 -> a [] ld = 0 /\ tr = 0 -> b [] OTHER -> c
          BY <3>1
        <4> QED BY ONLY <4>1
      <3> QED BY <3>1, <3>2, Zenon
    <2>e. e \in exts /\ e.n >= l.n + l.al - 1
      <3>0. PICK want, n, al : want = n + al - 1 /\ n = l.n /\ al = l.al
        OBVIOUS
      <3>1. want \in Nat
        BY <1>1, <3>0
      <3>2. PICK g \in exts : ~(g.n < want)
        BY <1>4, <3>0
      <3>3. g.n >= want
        BY <1>o, <3>1, <3>2 DEF ExtOK
      <3>4. FirstFit(want) \in exts /\ FirstFit(want).n >= want
        BY <1>o, <3>1, <3>3, FirstFitIs
      <3> QED BY <2>1, <3>0, <3>4
    <2>n. PICK ea, en, n : ea = e.a /\ en = e.n /\ n = l.n
      OBVIOUS
    <2>4. /\ ea \in Nat /\ en \in Nat \ {0} /\ n \in Nat \ {0} /\ ld \in Nat /\ tr \in Nat
          /\ tr = en - ld - n
      <3>1. ea \in Nat /\ en \in Nat \ {0} /\ n \in Nat \ {0} /\ en >= n + l.al - 1
        BY <1>1, <1>o, <2>e, <2>n DEF ExtOK
      <3>2. ld \in 0 .. (l.al - 1)
        BY <1>1, <2>1, <2>n, <3>1, Aligned
      <3>3. tr = en - ld - n
        BY <2>1, <2>n
      <3>4. PICK al : al = l.al /\ al \in Nat \ {0} /\ en >= n + al - 1 /\ ld \in 0 .. (al - 1)
        BY <1>1, <3>1, <3>2
      <3>5. tr \in Nat
        BY <3>1, <3>3, <3>4
      <3> QED BY <3>1, <3>3, <3>4, <3>5
    <2>5. /\ x.a = ea /\ x.n = ld /\ y.a = ea + ld + n /\ y.n = tr
      BY <2>x, <2>n
    <2>6. x.z = d /\ y.z = d /\ d \in BOOLEAN
      <3>1. d = e.z
        BY <2>x, Zenon
      <3>2. d \in BOOLEAN
        BY <3>1, <2>e, <1>z, Zenon
      <3>3. PICK a, b, c : x = [a |-> a, n |-> ld, z |-> d] /\ y = [a |-> b, n |-> c, z |-> d]
        BY <2>x, Zenon
      <3>4. x.z = d /\ y.z = d
        BY ONLY <3>3
      <3> QED BY <3>2, <3>4
    \* A part of the extent is not in the trees.
    <2>7. ASSUME NEW v, NEW c \in Chunks(v), c \in Chunks(e), v.n # en PROVE v \notin exts
      <3>1. v \in exts => v = e
        BY <2>e, <2>7, OneExtent
      <3> QED BY <3>1, <2>7, <2>n
    <2>8. ld # 0 => x \notin exts
      <3>1. ASSUME ld # 0 PROVE x \notin exts
        <4>1. ea \in Chunks(x) /\ ea \in Chunks(e) /\ x.n # en
          BY <3>1, <2>4, <2>5, <2>n DEF Chunks
        <4> QED BY <4>1, <2>7
      <3> QED BY <3>1
    <2>9. tr # 0 => y \notin exts
      <3>1. ASSUME tr # 0 PROVE y \notin exts
        <4>0. PICK k : k = ea + ld + n
          OBVIOUS
        <4>1. k \in k .. (k + tr - 1) /\ k \in ea .. (ea + en - 1) /\ tr # en
          BY <3>1, <4>0, <2>4
        <4>2. k \in Chunks(y) /\ k \in Chunks(e) /\ y.n # en
          BY <4>0, <4>1, <2>5, <2>n DEF Chunks
        <4> QED BY <4>2, <2>7
      <3> QED BY <3>1
    <2>f. PICK R : R = exts \ {e}
      OBVIOUS
    <2>g. IsFiniteSet(R) /\ Cardinality(R) = Cardinality(exts) - 1
      BY <2>e, <2>f, <1>b, FS_RemoveElement
    <2>t. /\ exts' = R \cup (IF ld # 0 THEN {x} ELSE {}) \cup (IF tr # 0 /\ ld = 0 THEN {y} ELSE {})
      BY <2>2, <2>f, <2>x
    <2>10. DOMAIN q = Fields /\ q.k = l.k /\ q.held = ForHuge(l) /\ q.arena = l.arena
      BY <2>q, <1>m, <1>1 DEF Fields
    <2>11. \A v \in exts' : v.z \in BOOLEAN
      <3>1. \A v \in exts' : v \in exts \/ v = x \/ v = y
        BY <2>t, <2>f
      <3> QED BY <3>1, <2>6, <1>z, Zenon
    <2>12. CASE ld # 0 /\ tr # 0
      <3>1. m = [q EXCEPT !.pc = "trail_node", !.e = y]
        BY <2>3, <2>12
      <3>2. m.pc = "trail_node" /\ m.k = l.k /\ m.held = ForHuge(l) /\ m.arena = l.arena /\ m.e = y
        BY <3>1, <2>10 DEF Fields
      <3>3. m.pc \in Taking \cup Giving
        BY <3>2 DEF Taking
      <3>4. ForHuge(m) = ForHuge(l) /\ MakesArena(m) = MakesArena(l) /\ m.pc # "cleanup"
        BY <1>1, <3>2, <3>3, SameCaller
      <3>5. HeldOK(m)
        BY <1>1, <3>2, <3>4 DEF HeldOK, ForTrees
      <3>6. m.e.z \in BOOLEAN
        BY <3>2, <2>6, Zenon
      <3>7. exts' = R \cup {x} /\ x \notin R
        BY <2>t, <2>f, <2>8, <2>12
      <3>8. IsFiniteSet(exts') /\ Cardinality(exts') = Cardinality(exts)
        <4>1. IsFiniteSet(R \cup {x}) /\ Cardinality(R \cup {x}) = Cardinality(R) + 1
          BY <2>g, <3>7, FS_AddElement
        <4> QED BY <4>1, <3>7, <2>g, <1>b
      <3>9. nodes' + Cardinality(exts') + Cardinality(huge') + m.held
             = nodes + Cardinality(exts) + Cardinality(huge) + l.held
        BY <1>u, <1>1, <3>2, <3>8
      <3> QED BY <1>l, <1>v, <1>h, <2>3, <2>11, <3>2, <3>4, <3>5, <3>6, <3>8, <3>9, BookStep
    <2>13. CASE ld = 0 /\ tr = 0
      <3>1. m = [q EXCEPT !.pc = "recycle_put", !.held = h] /\ h = ForHuge(l) + 1
        BY <2>3, <2>10, <2>13
      <3>2. m.pc = "recycle_put" /\ m.k = l.k /\ m.held = ForHuge(l) + 1 /\ m.arena = l.arena
        BY <3>1, <2>10 DEF Fields
      <3>3. m.pc \in Taking \cup Giving /\ m.pc \notin Moving
        BY <3>2 DEF Taking, Moving
      <3>4. ForHuge(m) = ForHuge(l) /\ MakesArena(m) = MakesArena(l) /\ m.pc # "cleanup"
        BY <1>1, <3>2, <3>3, SameCaller
      <3>5. HeldOK(m)
        BY <1>1, <3>2, <3>4 DEF HeldOK, ForTrees
      <3>7. exts' = R
        BY <2>t, <2>13
      <3>9. /\ IsFiniteSet(exts')
            /\ nodes' + Cardinality(exts') + Cardinality(huge') + m.held
                 = nodes + Cardinality(exts) + Cardinality(huge) + l.held
        BY <1>u, <1>1, <1>b, <2>g, <3>2, <3>7
      <3> QED BY <1>l, <1>v, <1>h, <2>3, <2>11, <3>2, <3>3, <3>4, <3>5, <3>9, BookStep
    <2>14. CASE ~(ld # 0 /\ tr # 0) /\ ~(ld = 0 /\ tr = 0)
      <3>1. m = Return(q)
        BY <2>3, <2>14
      <3>2. /\ HeldOK(m) /\ m.held = ForHuge(l) /\ m.arena = l.arena
            /\ MakesArena(m) => MakesArena(l)
            /\ m.pc # "cleanup" /\ m.pc \notin Moving
        BY <1>1, <2>10, <3>1, <1>m, HeldReturns
      <3>3. PICK v : exts' = R \cup {v} /\ v \notin R
        <4>1. CASE ld # 0
          BY <4>1, <2>t, <2>f, <2>8, <2>14
        <4>2. CASE ld = 0
          BY <4>2, <2>t, <2>f, <2>9, <2>14
        <4> QED BY <4>1, <4>2
      <3>4. IsFiniteSet(exts') /\ Cardinality(exts') = Cardinality(exts)
        <4>1. IsFiniteSet(R \cup {v}) /\ Cardinality(R \cup {v}) = Cardinality(R) + 1
          BY <2>g, <3>3, FS_AddElement
        <4> QED BY <4>1, <3>3, <2>g, <1>b
      <3>5. nodes' + Cardinality(exts') + Cardinality(huge') + m.held
             = nodes + Cardinality(exts) + Cardinality(huge) + l.held
        BY <1>u, <1>1, <3>2, <3>4
      <3> QED BY <1>l, <1>v, <1>h, <2>3, <2>11, <3>2, <3>4, <3>5, BookStep
    <2> QED BY <2>12, <2>13, <2>14
  <1> QED BY <1>3, <1>4

-----------------------------------------------------------------------------
(* The books: arenas.                                                      *)

\* A thread comes to an arena or leaves one.
LEMMA ArenaMove ==
  ASSUME ArenaInv, NEW t \in Threads, NEW m, th = [s \in Threads |-> th[s]], th' = [th EXCEPT ![t] = m],
         ranges # {}, ranges' = ranges, nthr' \in [0 .. (NArenas - 1) -> Nat \cup {NoArena}],
         \A i \in 0 .. (NArenas - 1) : nthr[i] # NoArena => nthr'[i] # NoArena,
         m.arena # NoArena => m.arena \in 0 .. (NArenas - 1) /\ nthr'[m.arena] # NoArena,
         m.pc # "cleanup", ~MakesArena(m), mtx["arenas"] \in {NoThread, t},
         \A i \in 0 .. (NArenas - 1) :
           nthr'[i] # NoArena => Cardinality({s \in Threads : th'[s].arena = i}) <= nthr'[i]
  PROVE  ArenaInv'
  <1>1. th'[t] = m /\ \A s \in Threads \ {t} : th'[s] = th[s]
    OBVIOUS
  <1>n. NoThread \notin Threads /\ NArenas \in Nat \ {0}
    BY JeAssumption
  <1>0. 0 \in 0 .. (NArenas - 1)
    BY <1>n
  <1>2. ranges' # {} /\ nthr'[0] # NoArena
    BY <1>0 DEF ArenaInv
  <1>3. ASSUME NEW s \in Threads
        PROVE  /\ th'[s].arena # NoArena => th'[s].arena \in 0 .. (NArenas - 1) /\ nthr'[th'[s].arena] # NoArena
               /\ th'[s].pc = "cleanup" => th'[s].arena # NoArena
               /\ ~MakesArena(th'[s])
    <2>1. CASE s = t
      BY <1>1, <2>1
    <2>2. CASE s # t
      <3>1. th'[s] = th[s]
        BY <1>1, <2>2
      <3>2. /\ th[s].pc = "cleanup" => th[s].arena # NoArena
            /\ MakesArena(th[s]) => mtx["arenas"] = s
            /\ th[s].arena # NoArena => th[s].arena \in 0 .. (NArenas - 1) /\ nthr[th[s].arena] # NoArena
        BY DEF ArenaInv
      <3>3. ~MakesArena(th[s])
        BY <3>2, <2>2, <1>n
      <3> QED BY <3>1, <3>2, <3>3
    <2> QED BY <2>1, <2>2
  <1>4. (\A s \in Threads : MakesArena(th[s]) => mtx["arenas"] = s /\ NullArenas # {})'
    BY <1>3 DEF MakesArena
  <1> QED BY <1>2, <1>3, <1>4 DEF ArenaInv

\* The threads of an arena when thread t comes to arena a, and when it leaves.
LEMMA ArenaCounts ==
  ASSUME ArenaInv, NEW t \in Threads, NEW m, th = [s \in Threads |-> th[s]], th' = [th EXCEPT ![t] = m],
         NEW i \in 0 .. (NArenas - 1)
  PROVE  /\ Cardinality({s \in Threads : th[s].arena = i}) \in Nat
         /\ Cardinality({s \in Threads : th'[s].arena = i}) \in Nat
         /\ Cardinality({s \in Threads : th'[s].arena = i}) <= Cardinality({s \in Threads : th[s].arena = i}) + 1
         /\ m.arena # i =>
              Cardinality({s \in Threads : th'[s].arena = i}) <= Cardinality({s \in Threads : th[s].arena = i})
         /\ th[t].arena = i => Cardinality({s \in Threads : th[s].arena = i}) # 0
         /\ th[t].arena = i /\ m.arena # i =>
              Cardinality({s \in Threads : th'[s].arena = i}) <= Cardinality({s \in Threads : th[s].arena = i}) - 1
         /\ nthr[i] = NoArena => Cardinality({s \in Threads : th[s].arena = i}) = 0
  <1>1. th'[t] = m /\ \A s \in Threads \ {t} : th'[s] = th[s]
    OBVIOUS
  <1>2. PICK A : A = {s \in Threads : th[s].arena = i}
    OBVIOUS
  <1>3. PICK B : B = {s \in Threads : th'[s].arena = i}
    OBVIOUS
  <1>f. IsFiniteSet(Threads)
    BY JeAssumption
  <1>4. A \subseteq Threads /\ B \subseteq Threads
    BY <1>2, <1>3
  <1>5. IsFiniteSet(A) /\ IsFiniteSet(B) /\ Cardinality(A) \in Nat /\ Cardinality(B) \in Nat
    BY <1>f, <1>4, FS_Subset, FS_CardinalityType
  <1>6. B \subseteq A \cup {t} /\ (m.arena # i => B \subseteq A \ {t}) /\ (th[t].arena = i => t \in A)
    BY <1>1, <1>2, <1>3
  <1>7. IsFiniteSet(A \cup {t}) /\ Cardinality(A \cup {t}) \in Nat /\ Cardinality(A \cup {t}) <= Cardinality(A) + 1
    <2>1. CASE t \in A
      <3>1. A \cup {t} = A
        BY <2>1
      <3> QED BY ONLY <3>1, <1>5
    <2>2. CASE t \notin A
      <3>1. IsFiniteSet(A \cup {t}) /\ Cardinality(A \cup {t}) = Cardinality(A) + 1
        BY <2>2, <1>5, FS_AddElement
      <3> QED BY ONLY <3>1, <1>5
    <2> QED BY <2>1, <2>2
  <1>8. Cardinality(B) <= Cardinality(A) + 1
    <2>1. Cardinality(B) <= Cardinality(A \cup {t})
      BY <1>6, <1>7, FS_Subset
    <2> QED BY <2>1, <1>7, <1>5
  <1>9. IsFiniteSet(A \ {t}) /\ Cardinality(A \ {t}) \in Nat
        /\ (t \in A => Cardinality(A \ {t}) = Cardinality(A) - 1)
        /\ Cardinality(A \ {t}) <= Cardinality(A)
    <2>1. IsFiniteSet(A \ {t}) /\ (t \in A => Cardinality(A \ {t}) = Cardinality(A) - 1)
      BY <1>5, FS_RemoveElement
    <2>2. t \notin A => A \ {t} = A
      OBVIOUS
    <2>3. Cardinality(A \ {t}) \in Nat
      BY <2>1, FS_CardinalityType
    <2> QED BY <2>1, <2>2, <2>3, <1>5
  <1>10. m.arena # i => Cardinality(B) <= Cardinality(A \ {t})
    BY <1>6, <1>9, FS_Subset
  <1>11. t \in A => Cardinality(A) # 0
    <2>1. t \in A => A # {}
      OBVIOUS
    <2> QED BY <2>1, <1>5, FS_EmptySet
  <1>12. nthr[i] = NoArena => Cardinality(A) = 0
    <2>1. ASSUME nthr[i] = NoArena PROVE A = {}
      <3>1. i # NoArena
        BY JeAssumption DEF NoArena
      <3>2. \A s \in Threads : th[s].arena # NoArena => nthr[th[s].arena] # NoArena
        BY DEF ArenaInv
      <3> QED BY <3>1, <3>2, <2>1, <1>2
    <2> QED BY <2>1, FS_EmptySet
  <1>13. /\ Cardinality(A) \in Nat /\ Cardinality(B) \in Nat /\ Cardinality(B) <= Cardinality(A) + 1
         /\ m.arena # i => Cardinality(B) <= Cardinality(A)
         /\ th[t].arena = i => Cardinality(A) # 0
         /\ th[t].arena = i /\ m.arena # i => Cardinality(B) <= Cardinality(A) - 1
         /\ nthr[i] = NoArena => Cardinality(A) = 0
    BY <1>5, <1>6, <1>8, <1>9, <1>10, <1>11, <1>12
  <1> QED BY <1>2, <1>3, <1>13, Zenon

\* choose_arena_hard and arena_new put thread t on arena a.
LEMMA ArenaTaken ==
  ASSUME ArenaInv, NEW t \in Threads, NEW m, th = [s \in Threads |-> th[s]], th' = [th EXCEPT ![t] = m],
         ranges # {}, ranges' = ranges, NEW a \in 0 .. (NArenas - 1), m.arena = a,
         nthr' = [nthr EXCEPT ![a] = IF @ = NoArena THEN 1 ELSE @ + 1],
         m.pc # "cleanup", ~MakesArena(m), mtx["arenas"] \in {NoThread, t}
  PROVE  ArenaInv'
  <1>1. PICK v : v = nthr'
    OBVIOUS
  <1>2. nthr \in [0 .. (NArenas - 1) -> Nat \cup {NoArena}]
    BY DEF ArenaInv
  <1>3. /\ v[a] = IF nthr[a] = NoArena THEN 1 ELSE nthr[a] + 1
        /\ \A i \in 0 .. (NArenas - 1) : i # a => v[i] = nthr[i]
        /\ v = [i \in 0 .. (NArenas - 1) |-> v[i]]
    BY <1>1, <1>2
  <1>4. v[a] \in Nat \ {0} /\ v[a] # NoArena
    BY <1>2, <1>3 DEF NoArena
  <1>5. v \in [0 .. (NArenas - 1) -> Nat \cup {NoArena}]
    BY <1>2, <1>3, <1>4
  <1>6. \A i \in 0 .. (NArenas - 1) : nthr[i] # NoArena => v[i] # NoArena
    BY <1>3, <1>4
  <1>7. ASSUME NEW i \in 0 .. (NArenas - 1), v[i] # NoArena
        PROVE  Cardinality({s \in Threads : th'[s].arena = i}) <= v[i]
    <2>1. PICK x : x = Cardinality({s \in Threads : th[s].arena = i})
      OBVIOUS
    <2>2. PICK y : y = Cardinality({s \in Threads : th'[s].arena = i})
      OBVIOUS
    <2>3. /\ x \in Nat /\ y \in Nat /\ y <= x + 1 /\ (m.arena # i => y <= x)
          /\ nthr[i] = NoArena => x = 0
      BY <2>1, <2>2, ArenaCounts
    <2>4. nthr[i] # NoArena => x <= nthr[i]
      BY <2>1 DEF ArenaInv
    <2>5. nthr[i] # NoArena => nthr[i] \in Nat
      BY <1>2
    <2>6. y <= v[i]
      <3>1. CASE i = a
        <4>1. CASE nthr[a] = NoArena
          BY <3>1, <4>1, <2>3, <1>3
        <4>2. CASE nthr[a] # NoArena
          BY <3>1, <4>2, <2>3, <2>4, <2>5, <1>3
        <4> QED BY <4>1, <4>2
      <3>2. CASE i # a
        BY <3>2, <2>3, <2>4, <2>5, <1>3, <1>7
      <3> QED BY <3>1, <3>2
    <2> QED BY <2>2, <2>6
  <1>8. m.arena # NoArena => m.arena \in 0 .. (NArenas - 1) /\ v[m.arena] # NoArena
    BY <1>4
  <1> QED BY <1>1, <1>5, <1>6, <1>7, <1>8, ArenaMove

\* arenas_cleanup takes thread t off its arena.
LEMMA ArenaLeft ==
  ASSUME ArenaInv, NEW t \in Threads, NEW m, th = [s \in Threads |-> th[s]], th' = [th EXCEPT ![t] = m],
         ranges # {}, ranges' = ranges, th[t].arena # NoArena, m.arena = NoArena,
         nthr' = [nthr EXCEPT ![th[t].arena] = @ - 1],
         m.pc # "cleanup", ~MakesArena(m), mtx["arenas"] \in {NoThread, t}
  PROVE  ArenaInv'
  <1>1. PICK v : v = nthr'
    OBVIOUS
  <1>0. PICK a : a = th[t].arena
    OBVIOUS
  <1>a. a \in 0 .. (NArenas - 1) /\ nthr[a] # NoArena
    BY <1>0 DEF ArenaInv
  <1>2. nthr \in [0 .. (NArenas - 1) -> Nat \cup {NoArena}]
    BY DEF ArenaInv
  <1>n. \A i \in 0 .. (NArenas - 1) : i # NoArena
    BY JeAssumption DEF NoArena
  <1>3. /\ v[a] = nthr[a] - 1
        /\ \A i \in 0 .. (NArenas - 1) : i # a => v[i] = nthr[i]
        /\ v = [i \in 0 .. (NArenas - 1) |-> v[i]]
    BY <1>0, <1>a, <1>1, <1>2
  <1>c. ASSUME NEW i \in 0 .. (NArenas - 1), nthr[i] # NoArena
        PROVE  /\ i = a => nthr[i] # 0
               /\ Cardinality({s \in Threads : th'[s].arena = i}) <= v[i]
    <2>1. PICK x : x = Cardinality({s \in Threads : th[s].arena = i})
      OBVIOUS
    <2>2. PICK y : y = Cardinality({s \in Threads : th'[s].arena = i})
      OBVIOUS
    <2>3. /\ x \in Nat /\ y \in Nat /\ (m.arena # i => y <= x)
          /\ th[t].arena = i => x # 0
          /\ th[t].arena = i /\ m.arena # i => y <= x - 1
      BY ONLY ArenaInv, t \in Threads, th = [s \in Threads |-> th[s]], th' = [th EXCEPT ![t] = m],
              i \in 0 .. (NArenas - 1), <2>1, <2>2, ArenaCounts
    <2>4. x <= nthr[i] /\ nthr[i] \in Nat
      BY <2>1, <1>2, <1>c DEF ArenaInv
    <2>5. (i = a => nthr[i] # 0) /\ y <= v[i]
      BY <2>3, <2>4, <1>0, <1>3, <1>n
    <2> QED BY <2>2, <2>5
  <1>4. v[a] \in Nat /\ v[a] # NoArena
    <2>1. nthr[a] # 0 /\ nthr[a] \in Nat
      BY <1>a, <1>c, <1>2
    <2> QED BY <2>1, <1>3 DEF NoArena
  <1>5. v \in [0 .. (NArenas - 1) -> Nat \cup {NoArena}]
    BY <1>2, <1>3, <1>4
  <1>6. \A i \in 0 .. (NArenas - 1) : nthr[i] # NoArena <=> v[i] # NoArena
    BY <1>3, <1>4, <1>a
  <1>7. \A i \in 0 .. (NArenas - 1) : v[i] # NoArena => Cardinality({s \in Threads : th'[s].arena = i}) <= v[i]
    BY <1>6, <1>c
  <1>8. m.arena # NoArena => m.arena \in 0 .. (NArenas - 1) /\ v[m.arena] # NoArena
    OBVIOUS
  <1> QED BY <1>1, <1>5, <1>6, <1>7, <1>8, ArenaMove

\* A step of a thread that has no node, on the arenas, the locks or the verdict.
LEMMA ArenaBooks ==
  ASSUME BooksInv, JeInv, NEW t \in Threads, NEW m, th' = [th EXCEPT ![t] = m],
         th[t].pc \notin NodeLabels, m.pc \notin NodeLabels, m.held = th[t].held,
         ArenaInv', Locks', verdict' \in Passed,
         UNCHANGED <<live, exts, nodes, huge, made, ranges, cur, lost>>
  PROVE  BooksInv'
  <1>1. NodesInv /\ Marks /\ OneRange /\ Misc
    BY DEF BooksInv
  <1>2. th = [s \in Threads |-> th[s]]
    BY DEF JeInv, Shape
  <1>b. /\ HeldOK(th[t]) /\ th[t].held \in Nat /\ nodes \in Nat /\ cur \in Int /\ lost \subseteq Nat
        /\ IsFiniteSet(exts) /\ IsFiniteSet(huge) /\ Cardinality(exts) \in Nat /\ Cardinality(huge) \in Nat
    BY BooksAre
  <1>u. made' = made /\ exts' = exts /\ huge' = huge /\ nodes' = nodes
    OBVIOUS
  <1>3. HeldOK(m)
    BY <1>b, NoNodes
  <1>4. NodesInv'
    <2>1. IsFiniteSet(exts') /\ IsFiniteSet(huge') /\ nodes' \in Nat
      BY <1>b
    <2>2. nodes' + Cardinality(exts') + Cardinality(huge') + m.held
           = nodes + Cardinality(exts) + Cardinality(huge) + th[t].held
      OBVIOUS
    <2> QED BY ONLY <1>1, <1>2, <1>3, <1>u, <2>1, <2>2, t \in Threads, th' = [th EXCEPT ![t] = m], NodesStep
  <1>5. Marks'
    <2>1. m.pc \notin Moving
      BY DEF NodeLabels, Taking, Giving, Moving
    <2>2. (\A x \in exts' : x.z \in BOOLEAN) /\ \A x \in huge' : x.z \in BOOLEAN
      BY <1>1, <1>u, Zenon DEF Marks
    <2> QED BY <1>1, <1>2, <2>1, <2>2, MarksStep
  <1>6. OneRange'
    BY <1>1 DEF OneRange
  <1>7. Misc'
    <2>1. live' = live /\ cur' = cur /\ lost' = lost
      OBVIOUS
    <2> QED BY <1>1, <2>1, Zenon DEF Misc
  <1> QED BY <1>4, <1>5, <1>6, <1>7, Zenon DEF BooksInv

\* choose_arena_hard finds the arena with fewest threads.
LEMMA LeastIs ==
  ASSUME ArenaInv, ranges # {}
  PROVE  LeastLoaded \in 0 .. (NArenas - 1) /\ nthr[LeastLoaded] # NoArena
  <1> DEFINE P(i) == /\ nthr[i] # NoArena
                     /\ \A j \in DOMAIN nthr : nthr[j] # NoArena =>
                          (nthr[i] < nthr[j] \/ (nthr[i] = nthr[j] /\ i <= j))
  <1>0. nthr \in [0 .. (NArenas - 1) -> Nat \cup {NoArena}] /\ nthr[0] # NoArena
    BY DEF ArenaInv
  <1>d. DOMAIN nthr = 0 .. (NArenas - 1) /\ NArenas \in Nat \ {0}
    BY <1>0, JeAssumption
  <1>1. \E i \in DOMAIN nthr : P(i)
    <2> DEFINE E == {i \in 0 .. (NArenas - 1) : nthr[i] # NoArena}   N == {nthr[i] : i \in E}
    <2>0. 0 \in E
      BY <1>0, <1>d
    <2>1. N \in SUBSET Nat /\ N # {}
      BY <1>0, <2>0
    <2>2. PICK n \in N : \A k \in N : n <= k
      BY <2>1, HasLeast
    <2> DEFINE A == {i \in E : nthr[i] = n}
    <2>3. A \in SUBSET Nat /\ A # {}
      BY <2>2
    <2>4. PICK a \in A : \A k \in A : a <= k
      BY <2>3, HasLeast
    <2>6. ASSUME NEW j \in DOMAIN nthr, nthr[j] # NoArena
          PROVE  nthr[a] < nthr[j] \/ (nthr[a] = nthr[j] /\ a <= j)
      <3>1. j \in E /\ nthr[j] \in N /\ nthr[j] \in Nat /\ n \in Nat
        BY <1>0, <1>d, <2>1, <2>2, <2>6
      <3>2. n <= nthr[j]
        BY <2>2, <3>1
      <3>3. CASE n = nthr[j]
        <4>1. j \in A
          BY <3>1, <3>3
        <4>2. a <= j
          BY <2>4, <4>1
        <4> QED BY <2>4, <3>3, <4>2
      <3>4. CASE n # nthr[j]
        BY <2>4, <3>1, <3>2, <3>4
      <3> QED BY <3>3, <3>4
    <2>7. a \in DOMAIN nthr /\ nthr[a] # NoArena
      BY <2>4, <1>d
    <2> QED BY <2>6, <2>7
  <1>2. LeastLoaded = CHOOSE i \in DOMAIN nthr : P(i)
    BY DEF LeastLoaded
  <1> HIDE DEF P
  <1>3. LeastLoaded \in DOMAIN nthr /\ P(LeastLoaded)
    BY <1>1, <1>2
  <1> QED BY <1>3, <1>d DEF P

\* arenas_extend finds the first empty slot.
LEMMA EmptySlot ==
  ASSUME ArenaInv, NullArenas # {}
  PROVE  Min(NullArenas) \in 0 .. (NArenas - 1)
  <1>1. NullArenas \subseteq 0 .. (NArenas - 1)
    BY DEF ArenaInv, NullArenas
  <1>2. NullArenas \in SUBSET Nat
    BY <1>1
  <1>3. \E x \in NullArenas : \A y \in NullArenas : x <= y
    BY <1>2, HasLeast
  <1>4. Min(NullArenas) \in NullArenas
    BY <1>3, Zenon DEF Min
  <1> QED BY <1>1, <1>4

\* A thread that is about to make an arena calls base_alloc.
LEMMA BaseCallBooks ==
  ASSUME BooksInv, JeInv, NEW t \in Threads, th[t].pc \in {"idle", "arena_new", "arena_done"},
         NEW c, NEW b \in {"arena_new", "arena_done"}, Step(t, Call([th[t] EXCEPT !.c = c], "base", b)),
         mtx'["arenas"] = mtx["arenas"] \/ mtx["arenas"] = NoThread,
         mtx'["arenas"] = t, NullArenas # {}, Locks', nthr' = nthr,
         UNCHANGED <<live, exts, nodes, huge, made, ranges, cur, lost, verdict>>
  PROVE  BooksInv'
  <1> DEFINE l == th[t]
  <1>1. PICK q, p, m : /\ q = [l EXCEPT !.c = c] /\ p = "base"
                       /\ m = Call(q, p, b) /\ th' = [th EXCEPT ![t] = m]
    BY Zenon DEF Step
  <1>m. DOMAIN l = Fields /\ l.k \in Seq(Labels)
    BY Mine DEF ThreadOK
  <1>2. DOMAIN q = Fields /\ q.k = l.k /\ q.held = l.held /\ q.arena = l.arena
    BY <1>1, <1>m DEF Fields
  <1>3. b \in Labels /\ q.k \in Seq(Labels)
    BY <1>2, <1>m DEF Labels
  <1>4. m = Call(q, p, b)
    BY <1>1
  <1>5. m.pc = p
    BY ONLY <1>4, <1>2, <1>3, CallIs
  <1>6. m.held = l.held /\ m.arena = l.arena
    BY ONLY <1>4, <1>2, CallBooks DEF SameBooks
  <1>7. l.pc \notin NodeLabels /\ m.pc \notin NodeLabels /\ m.pc # "cleanup"
    BY <1>1, <1>5 DEF NodeLabels, Taking, Giving
  <1>8. ArenaInv'
    <2>1. ArenaInv /\ th = [s \in Threads |-> th[s]]
      BY DEF BooksInv, JeInv, Shape
    <2>2. ranges' = ranges
      OBVIOUS
    <2>3. th' = [th EXCEPT ![t] = m]
      BY <1>1
    <2> QED BY ONLY <2>1, <2>2, <2>3, <1>6, <1>7, t \in Threads, nthr' = nthr, mtx'["arenas"] = t, NullArenas # {},
                    mtx'["arenas"] = mtx["arenas"] \/ mtx["arenas"] = NoThread, ArenaStep
  <1>9. verdict' \in Passed
    BY DEF BooksInv, Misc
  <1> QED BY <1>1, <1>6, <1>7, <1>8, <1>9, ArenaBooks

LEMMA ChooseBooks ==
  ASSUME BooksInv, JeInv, NEW t \in Threads, choose_arena_hard(t)
  PROVE  BooksInv'
  <1> DEFINE l == th[t]
  <1>1. /\ UNCHANGED <<live, exts, nodes, huge, made, ranges, cur, lost, verdict>>
        /\ l.pc = "idle" /\ live /\ mtx["arenas"] = NoThread
    BY DEF choose_arena_hard, Begin, At, Free
  <1>2. ArenaInv /\ ranges # {} /\ th = [s \in Threads |-> th[s]] /\ DOMAIN l = Fields
    BY <1>1 DEF BooksInv, JeInv, Shape, ThreadOK
  <1>l. Locks
    BY DEF BooksInv
  <1>3. PICK a : a = LeastLoaded
    OBVIOUS
  <1>4. a \in 0 .. (NArenas - 1) /\ nthr[a] # NoArena
    BY <1>2, <1>3, LeastIs
  <1>5. CASE nthr[a] = 0 \/ NullArenas = {}
    <2>1. PICK m : m = [l EXCEPT !.arena = a] /\ th' = [th EXCEPT ![t] = m]
      BY <1>3, <1>5 DEF choose_arena_hard, Step
    <2>2. nthr' = [nthr EXCEPT ![a] = @ + 1] /\ mtx' = mtx
      BY <1>3, <1>5 DEF choose_arena_hard
    <2>3. nthr' = [nthr EXCEPT ![a] = IF @ = NoArena THEN 1 ELSE @ + 1]
      BY <2>2, <1>4
    <2>4. m.pc = "idle" /\ m.held = l.held /\ m.arena = a
      BY <2>1, <1>1, <1>2 DEF Fields
    <2>5. m.pc # "cleanup" /\ ~MakesArena(m) /\ l.pc \notin NodeLabels /\ m.pc \notin NodeLabels
      BY <2>4, <1>1 DEF MakesArena, Taking, Giving, NodeLabels
    <2>6. ArenaInv'
      BY <2>1, <2>3, <2>4, <2>5, <1>1, <1>2, <1>4, ArenaTaken
    <2>7. Locks' /\ verdict' \in Passed
      BY <2>2, <1>1, SameLocks DEF BooksInv, Misc
    <2> QED BY <1>1, <2>1, <2>4, <2>5, <2>6, <2>7, ArenaBooks
  <1>6. CASE ~(nthr[a] = 0 \/ NullArenas = {})
    <2>1. /\ Step(t, Call([l EXCEPT !.c = ArenaUnits], "base", "arena_new"))
          /\ mtx' = [mtx EXCEPT !["arenas"] = t] /\ nthr' = nthr
      BY <1>3, <1>6, Zenon DEF choose_arena_hard
    <2>2. Locks' /\ mtx'["arenas"] = t
      BY <2>1, <1>l DEF Locks, LockNames
    <2>3. PICK b : b = "arena_new" /\ Step(t, Call([l EXCEPT !.c = ArenaUnits], "base", b))
      BY <2>1
    <2>4. PICK c : Step(t, Call([l EXCEPT !.c = c], "base", b))
      BY <2>3
    <2>5. b \in {"arena_new", "arena_done"} /\ l.pc \in {"idle", "arena_new", "arena_done"}
      BY <2>3, <1>1
    <2>6. NullArenas # {} /\ nthr' = nthr
      BY <1>6, <2>1
    <2> QED BY <1>1, <2>2, <2>4, <2>5, <2>6, BaseCallBooks
  <1> QED BY <1>5, <1>6

LEMMA ArenaNewBooks ==
  ASSUME BooksInv, JeInv, NEW t \in Threads, ArenaNew(t)
  PROVE  BooksInv'
  <1> DEFINE l == th[t]
  <1>1. /\ UNCHANGED <<live, exts, nodes, huge, made, ranges, cur, lost, verdict>>
        /\ l.pc \in {"arena_new", "arena_done"}
    BY DEF ArenaNew
  <1>2. ArenaInv /\ th = [s \in Threads |-> th[s]] /\ DOMAIN l = Fields /\ Locks
    BY DEF BooksInv, JeInv, Shape, ThreadOK
  <1>r. ranges # {}
    BY <1>1 DEF JeInv, Shape
  <1>3. mtx["arenas"] = t /\ NullArenas # {}
    <2>1. MakesArena(l)
      BY <1>1 DEF MakesArena
    <2> QED BY <2>1, <1>2 DEF ArenaInv
  <1>n. NArenas \in Nat \ {0}
    BY JeAssumption
  <1>5. CASE Step(t, Call([l EXCEPT !.c = 1], "base", "arena_done")) /\ nthr' = nthr /\ mtx' = mtx
    <2>1. Locks' /\ mtx'["arenas"] = t
      BY <1>3, <1>5, SameLocks
    <2>2. PICK b, c : b = "arena_done" /\ Step(t, Call([l EXCEPT !.c = c], "base", b))
      BY <1>5
    <2>3. b \in {"arena_new", "arena_done"} /\ l.pc \in {"idle", "arena_new", "arena_done"}
      BY <2>2, <1>1
    <2> QED BY <1>1, <1>3, <1>5, <2>1, <2>2, <2>3, BaseCallBooks
  <1>6. CASE ~(Step(t, Call([l EXCEPT !.c = 1], "base", "arena_done")) /\ nthr' = nthr /\ mtx' = mtx)
    <2>1. PICK a, q, m : /\ a = Min(NullArenas) \/ a = 0
                         /\ nthr' = [nthr EXCEPT ![a] = IF @ = NoArena THEN 1 ELSE @ + 1]
                         /\ mtx' = [mtx EXCEPT !["arenas"] = NoThread]
                         /\ q = Done(l) /\ m = [q EXCEPT !.arena = a] /\ th' = [th EXCEPT ![t] = m]
      BY <1>6, Zenon DEF ArenaNew, Step
    <2>2. a \in 0 .. (NArenas - 1)
      BY <2>1, <1>2, <1>3, <1>n, EmptySlot
    <2>3. q.held = 0 /\ q.pc = "idle"
      BY <2>1, DoneBooks
    <2>4. DOMAIN q = Fields
      BY <2>1, DoneIs
    <2>5. m.pc = "idle" /\ m.held = 0 /\ m.arena = a
      BY <2>1, <2>3, <2>4 DEF Fields
    <2>6. m.pc # "cleanup" /\ ~MakesArena(m) /\ l.pc \notin NodeLabels /\ m.pc \notin NodeLabels
      BY <2>5, <1>1 DEF MakesArena, Taking, Giving, NodeLabels
    <2>7. l.held = 0
      BY <2>6, BooksAre, NoNodes
    <2>8. ArenaInv'
      BY <2>1, <2>2, <2>5, <2>6, <1>1, <1>2, <1>3, <1>r, ArenaTaken
    <2>9. Locks' /\ verdict' \in Passed
      BY <2>1, <1>1, <1>2 DEF BooksInv, Misc, Locks, LockNames
    <2> QED BY <1>1, <2>1, <2>5, <2>6, <2>7, <2>8, <2>9, ArenaBooks
  <1> QED BY <1>5, <1>6

LEMMA CleanupBooks ==
  ASSUME BooksInv, JeInv, NEW t \in Threads, CleanupArena(t)
  PROVE  BooksInv'
  <1> DEFINE l == th[t]
  <1>1. /\ UNCHANGED <<live, exts, nodes, huge, made, ranges, cur, lost, verdict>>
        /\ l.pc = "cleanup" /\ mtx["arenas"] = NoThread /\ mtx' = [mtx EXCEPT !["pools"] = NoThread]
        /\ nthr' = [nthr EXCEPT ![th[t].arena] = @ - 1]
    BY DEF CleanupArena, At, Free
  <1>2. ArenaInv /\ th = [s \in Threads |-> th[s]] /\ Locks
    BY DEF BooksInv, JeInv, Shape
  <1>r. ranges # {}
    BY <1>1 DEF JeInv, Shape
  <1>3. l.arena # NoArena
    BY <1>1, <1>2 DEF ArenaInv
  <1>4. PICK q, m, c : q = Idle /\ m = [q EXCEPT !.pc = "exited", !.calls = c] /\ th' = [th EXCEPT ![t] = m]
    BY Zenon DEF CleanupArena, Step
  <1>5. DOMAIN q = Fields
    BY <1>4, IdleIs
  <1>6. q.held = 0 /\ q.arena = NoArena
    BY <1>4, Zenon DEF Idle
  <1>7. m.pc = "exited" /\ m.held = 0 /\ m.arena = NoArena
    BY <1>4, <1>5, <1>6 DEF Fields
  <1>8. m.pc # "cleanup" /\ ~MakesArena(m) /\ l.pc \notin NodeLabels /\ m.pc \notin NodeLabels
    BY <1>7, <1>1 DEF MakesArena, Taking, Giving, NodeLabels
  <1>9. l.held = 0
    BY <1>8, BooksAre, NoNodes
  <1>10. ArenaInv'
    BY <1>4, <1>7, <1>8, <1>1, <1>2, <1>3, <1>r, ArenaLeft
  <1>11. Locks' /\ verdict' \in Passed
    BY <1>1, <1>2 DEF BooksInv, Misc, Locks, LockNames
  <1> QED BY <1>1, <1>4, <1>7, <1>8, <1>9, <1>10, <1>11, ArenaBooks

-----------------------------------------------------------------------------
(* The books: je_pool_check.                                               *)

\* The chunks of the extents T, and the size of the ranges T.
LEMMA SizesSum ==
  ASSUME NEW T, IsFiniteSet(T), \A t \in T : t.n \in Int
  PROVE  \E h : /\ IsSum([t \in T |-> t.n], T, h)
                /\ TotalSize(T) = h[T]
  <1> PICK f : f = [t \in T |-> t.n]
    OBVIOUS
  <1>1. \A t \in T : f[t] \in Int /\ f[t] = t.n
    OBVIOUS
  <1>2. PICK h : IsSum(f, T, h)
    BY <1>1, SumExists
  <1> DEFINE Rec(g) == g = [s \in SUBSET T |-> IF s = {} THEN 0
                              ELSE (CHOOSE x \in s : TRUE).n + g[s \ {CHOOSE x \in s : TRUE}]]
  <1>s. \A s \in SUBSET T : s # {} => Pick(s) \in T /\ s \ {Pick(s)} \in SUBSET T
    BY PickIs
  <1>3. Rec(h)
    <2>1. h = [s \in SUBSET T |-> h[s]]
      BY <1>2 DEF IsSum
    <2>2. ASSUME NEW s \in SUBSET T
          PROVE  h[s] = IF s = {} THEN 0 ELSE Pick(s).n + h[s \ {Pick(s)}]
      <3>1. h[s] = IF s = {} THEN 0 ELSE f[Pick(s)] + h[s \ {Pick(s)}]
        BY <1>2 DEF IsSum, Adds
      <3>2. s # {} => f[Pick(s)] = Pick(s).n
        BY <1>s, <1>1
      <3> QED BY <3>1, <3>2
    <2> QED BY <2>1, <2>2 DEF Pick
  <1>4. PICK g : Rec(g) /\ TotalSize(T) = g[T]
    <2>1. \E g : Rec(g)
      BY <1>3
    <2>2. TotalSize(T) = (CHOOSE g : Rec(g))[T]
      BY Zenon DEF TotalSize, MapThenSumSet, MapThenFoldSet
    <2>3. Rec(CHOOSE g : Rec(g))
      BY <2>1, Zenon
    <2> HIDE DEF Rec
    <2> QED BY <2>2, <2>3
  <1>5. g[T] = h[T]
    <2>0. \A j : Rec(j) => \A s \in SUBSET T : j[s] = IF s = {} THEN 0 ELSE Pick(s).n + j[s \ {Pick(s)}]
      BY DEF Pick
    <2>g. \A s \in SUBSET T : g[s] = IF s = {} THEN 0 ELSE Pick(s).n + g[s \ {Pick(s)}]
      <3> HIDE DEF Rec
      <3> QED BY <2>0, <1>4
    <2>h. \A s \in SUBSET T : h[s] = IF s = {} THEN 0 ELSE Pick(s).n + h[s \ {Pick(s)}]
      <3> HIDE DEF Rec
      <3> QED BY <2>0, <1>3
    <2>1. \A s \in SUBSET T : s = {} => g[s] = h[s]
      BY ONLY <2>g, <2>h
    <2>2. \A s \in SUBSET T : s # {} /\ g[s \ {Pick(s)}] = h[s \ {Pick(s)}] => g[s] = h[s]
      BY ONLY <2>g, <2>h
    <2>3. \A s \in SUBSET T : g[s] = h[s]
      BY ONLY IsFiniteSet(T), <2>1, <2>2, SumsAgree
    <2> QED BY <2>3
  <1> QED BY <1>2, <1>4, <1>5
RangesSize(T) == MapThenSumSet(LAMBDA rg : rg.uend - rg.u, T)

LEMMA RangesSum ==
  ASSUME NEW T, IsFiniteSet(T), \A t \in T : t.uend - t.u \in Int
  PROVE  \E h : /\ IsSum([t \in T |-> t.uend - t.u], T, h)
                /\ RangesSize(T) = h[T]
  <1> PICK f : f = [t \in T |-> t.uend - t.u]
    OBVIOUS
  <1>1. \A t \in T : f[t] \in Int /\ f[t] = t.uend - t.u
    OBVIOUS
  <1>2. PICK h : IsSum(f, T, h)
    BY <1>1, SumExists
  <1> DEFINE Rec(g) == g = [s \in SUBSET T |-> IF s = {} THEN 0
                              ELSE ((CHOOSE x \in s : TRUE).uend - (CHOOSE x \in s : TRUE).u) + g[s \ {CHOOSE x \in s : TRUE}]]
  <1>s. \A s \in SUBSET T : s # {} => Pick(s) \in T /\ s \ {Pick(s)} \in SUBSET T
    BY PickIs
  <1>3. Rec(h)
    <2>1. h = [s \in SUBSET T |-> h[s]]
      BY <1>2 DEF IsSum
    <2>2. ASSUME NEW s \in SUBSET T
          PROVE  h[s] = IF s = {} THEN 0 ELSE (Pick(s).uend - Pick(s).u) + h[s \ {Pick(s)}]
      <3>1. h[s] = IF s = {} THEN 0 ELSE f[Pick(s)] + h[s \ {Pick(s)}]
        BY <1>2 DEF IsSum, Adds
      <3>2. s # {} => f[Pick(s)] = (Pick(s).uend - Pick(s).u)
        BY <1>s, <1>1
      <3> QED BY <3>1, <3>2
    <2> QED BY <2>1, <2>2 DEF Pick
  <1>4. PICK g : Rec(g) /\ RangesSize(T) = g[T]
    <2>1. \E g : Rec(g)
      BY <1>3
    <2>2. RangesSize(T) = (CHOOSE g : Rec(g))[T]
      BY Zenon DEF RangesSize, MapThenSumSet, MapThenFoldSet
    <2>3. Rec(CHOOSE g : Rec(g))
      BY <2>1, Zenon
    <2> HIDE DEF Rec
    <2> QED BY <2>2, <2>3
  <1>5. g[T] = h[T]
    <2>0. \A j : Rec(j) => \A s \in SUBSET T : j[s] = IF s = {} THEN 0 ELSE (Pick(s).uend - Pick(s).u) + j[s \ {Pick(s)}]
      BY DEF Pick
    <2>g. \A s \in SUBSET T : g[s] = IF s = {} THEN 0 ELSE (Pick(s).uend - Pick(s).u) + g[s \ {Pick(s)}]
      <3> HIDE DEF Rec
      <3> QED BY <2>0, <1>4
    <2>h. \A s \in SUBSET T : h[s] = IF s = {} THEN 0 ELSE (Pick(s).uend - Pick(s).u) + h[s \ {Pick(s)}]
      <3> HIDE DEF Rec
      <3> QED BY <2>0, <1>3
    <2>1. \A s \in SUBSET T : s = {} => g[s] = h[s]
      BY ONLY <2>g, <2>h
    <2>2. \A s \in SUBSET T : s # {} /\ g[s \ {Pick(s)}] = h[s \ {Pick(s)}] => g[s] = h[s]
      BY ONLY <2>g, <2>h
    <2>3. \A s \in SUBSET T : g[s] = h[s]
      BY ONLY IsFiniteSet(T), <2>1, <2>2, SumsAgree
    <2> QED BY <2>3
  <1> QED BY <1>2, <1>4, <1>5

\* The range that je_pool_create made: whole chunks inside the pool's memory.
LEMMA TheRange ==
  ASSUME BooksInv, ranges # {}
  PROVE  \E rg \in ranges, k \in Nat, w \in Nat \ {0} :
            /\ ranges = {rg} /\ Usable = k .. (k + w - 1)
            /\ rg.u = k * U /\ rg.uend = (k + w) * U /\ rg.uend - rg.u = w * U
            /\ rg.addr <= rg.u /\ rg.uend <= rg.end /\ rg.u < rg.uend
            /\ rg.addr = Areas[1].addr /\ rg.end = Areas[1].addr + Areas[1].size
  <1>u. U \in Nat \ {0}
    BY UnitsPositive
  <1>1. PICK next : next = FirstNext
    OBVIOUS
  <1>2. PICK v : v = CHUNK_CEILING(next)
    OBVIOUS
  <1>3. PICK rg : rg = RangeOf(Areas[1], CHUNK_CEILING(next)) /\ rg = RangeOf(Areas[1], v) /\ ranges = {rg}
    BY <1>1, <1>2 DEF BooksInv, OneRange
  <1>4. PICK k \in Nat, w \in Nat \ {0} :
            /\ rg.u = k * U /\ rg.u \div U = k /\ (rg.uend - rg.u) \div U = w /\ rg.uend \div U = k + w
            /\ next <= k * U /\ next \in Nat /\ rg.u \in Nat /\ Areas[1].addr \in Nat
    BY <1>1, <1>3, FirstRange DEF FirstNext
  <1>5. PICK a, s : a = Areas[1].addr /\ s = Areas[1].size /\ a \in Nat /\ s \in Nat
    BY JeAssumption
  <1>6. PICK d : d = (s - (v - a)) \div U
    OBVIOUS
  <1>7. rg = [addr |-> a, end |-> a + s, u |-> v, uend |-> v + d * U]
    BY <1>3, <1>5, <1>6 DEF RangeOf
  <1>8. rg.addr = a /\ rg.end = a + s /\ rg.u = v /\ rg.uend = v + d * U
    BY <1>7
  <1>9. v \in Nat
    BY <1>4, <1>8
  <1>10. d \in Int /\ d * U <= s - (v - a) /\ d * U \in Int
    <2>1. PICK y : y = s - (v - a)
      OBVIOUS
    <2>2. y \in Int
      BY <2>1, <1>5, <1>9
    <2>3. d \in Int /\ d * U <= y
      BY <2>1, <2>2, <1>6, <1>u, DivBound
    <2>4. d * U \in Int
      BY <2>3, <1>u
    <2> QED BY <2>1, <2>3, <2>4
  <1>11. PICK x : x = d * U
    OBVIOUS
  <1>12. rg.uend - rg.u = x /\ x \in Int /\ rg.uend = rg.u + x
    BY <1>8, <1>9, <1>10, <1>11
  <1>13. w = d
    <2>1. (d * U) \div U = d
      BY <1>10, ChunkOf
    <2> QED BY <2>1, <1>4, <1>11, <1>12
  <1>14. (k + w) * U = k * U + w * U /\ w * U = x
    BY <1>4, <1>u, <1>11, <1>13, Distribute
  <1>15. 0 < x
    <2>1. 0 * U < w * U
      BY <1>u, TimesMono
    <2> QED BY <2>1, <1>14, <1>u
  <1>16. a <= v
    <2>1. PICK po, ar, n : po = PoolUnits /\ ar = ArenaUnits /\ n = s \div U
      OBVIOUS
    <2>2. po \in Nat /\ ar \in Nat /\ n \in Int
      BY <2>1, <1>5, <1>u, JeAssumption, DivBound
    <2>3. 0 <= n
      <3>1. 0 * U <= s /\ 0 \in Int /\ s \in Int
        BY <1>5, <1>u
      <3>2. 0 <= s \div U
        BY <3>1, ChunkOf
      <3> QED BY <3>2, <2>1
    <2>4. next = a + po + ar + 1 + n + 1
      BY <2>1, <1>1, <1>5 DEF FirstNext
    <2>5. next <= v
      BY <1>4, <1>8
    <2> QED BY ONLY <2>2, <2>3, <2>4, <2>5, <1>5, <1>9
  <1>17. Usable = k .. (k + w - 1)
    <2>1. Usable = (rg.u \div U) .. (rg.uend \div U - 1)
      BY <1>3 DEF Usable
    <2> QED BY <2>1, <1>4
  <1>18. rg.uend <= rg.end /\ rg.u < rg.uend
    BY <1>5, <1>8, <1>9, <1>10, <1>11, <1>12, <1>15
  <1>19. /\ ranges = {rg} /\ Usable = k .. (k + w - 1)
         /\ rg.u = k * U /\ rg.uend = (k + w) * U /\ rg.uend - rg.u = w * U
         /\ rg.addr <= rg.u /\ rg.uend <= rg.end /\ rg.u < rg.uend
         /\ rg.addr = Areas[1].addr /\ rg.end = Areas[1].addr + Areas[1].size
    BY <1>3, <1>4, <1>5, <1>8, <1>12, <1>14, <1>16, <1>17, <1>18
  <1> QED BY <1>19

LEMMA RangesAreSound ==
  ASSUME BooksInv, ranges # {}
  PROVE  RangesSound
  <1>1. PICK rg \in ranges, k \in Nat, w \in Nat \ {0} :
            /\ ranges = {rg} /\ Usable = k .. (k + w - 1)
            /\ rg.u = k * U /\ rg.uend = (k + w) * U /\ rg.uend - rg.u = w * U
            /\ rg.addr <= rg.u /\ rg.uend <= rg.end /\ rg.u < rg.uend
            /\ rg.addr = Areas[1].addr /\ rg.end = Areas[1].addr + Areas[1].size
    BY TheRange
  <1>2. ASSUME NEW o \in OtherRanges PROVE ~(o.addr < rg.end /\ rg.addr < o.addr + o.size)
    <2>1. 1 \in DOMAIN Areas /\ Areas[1].addr \in Nat /\ Areas[1].size \in Nat
      BY JeAssumption
    <2>2. /\ o.addr \in Nat /\ o.size \in Nat
          /\ o.addr + o.size <= Areas[1].addr \/ Areas[1].addr + Areas[1].size <= o.addr
      BY <2>1, PoolsApart
    <2>3. rg.addr = Areas[1].addr /\ rg.end = Areas[1].addr + Areas[1].size
      BY ONLY <1>1
    <2> QED BY ONLY <2>1, <2>2, <2>3
  <1> QED BY <1>1, <1>2 DEF RangesSound

\* Every extent passes check_tree_binary_iter_cb.
LEMMA ExtentsAreSound ==
  ASSUME BooksInv, JeInv, ranges # {}
  PROVE  \A e \in exts : ExtentSound(e)
  <1>u. U \in Nat \ {0}
    BY UnitsPositive
  <1>1. PICK rg \in ranges, k \in Nat, w \in Nat \ {0} :
            /\ ranges = {rg} /\ Usable = k .. (k + w - 1)
            /\ rg.u = k * U /\ rg.uend = (k + w) * U /\ rg.uend - rg.u = w * U
            /\ rg.addr <= rg.u /\ rg.uend <= rg.end /\ rg.u < rg.uend
            /\ rg.addr = Areas[1].addr /\ rg.end = Areas[1].addr + Areas[1].size
    BY TheRange
  <1>2. ASSUME NEW e \in exts PROVE ExtentSound(e)
    <2>1. ExtOK(e) /\ Chunks(e) \subseteq Usable
      BY DEF JeInv, Shape, Inside
    <2>2. e.z => Chunks(e) \subseteq mem
      BY Zenon DEF JeInv, Zeroed
    <2>3. PICK a, n : a = e.a /\ n = e.n /\ a \in Nat /\ n \in Nat \ {0}
      BY <2>1 DEF ExtOK
    <2>4. a \in Usable /\ (a + n) - 1 \in Usable
      BY <2>1, <2>3, FirstLast
    <2>t. a \in k .. (k + w - 1) /\ (a + n) - 1 \in k .. (k + w - 1)
      BY <2>4, <1>1
    <2>5. k <= a /\ a + n <= k + w /\ a + n \in Int /\ k + w \in Int
      BY ONLY <2>3, <2>t, k \in Nat, w \in Nat \ {0}
    <2>6. k * U <= a * U /\ (a + n) * U <= (k + w) * U
      BY <2>3, <2>5, <1>u, TimesMono
    <2>7. \E r \in ranges : r.u <= e.a * U /\ (e.a + e.n) * U <= r.uend
      BY <2>3, <2>6, <1>1
    <2>8. e.n # 0
      BY <2>3
    <2> QED BY <2>2, <2>7, <2>8, Zenon DEF ExtentSound
  <1> QED BY <1>2

\* The free chunks and those of the arenas fit into the range.
LEMMA SizesFit ==
  ASSUME BooksInv, JeInv, ranges # {}
  PROVE  (TotalSize(exts) + Cardinality(inarena)) * U <= MapThenSumSet(LAMBDA rg : rg.uend - rg.u, ranges)
  <1>u. U \in Nat \ {0}
    BY UnitsPositive
  <1>1. PICK rg \in ranges, k \in Nat, w \in Nat \ {0} :
            /\ ranges = {rg} /\ Usable = k .. (k + w - 1)
            /\ rg.u = k * U /\ rg.uend = (k + w) * U /\ rg.uend - rg.u = w * U
            /\ rg.addr <= rg.u /\ rg.uend <= rg.end /\ rg.u < rg.uend
            /\ rg.addr = Areas[1].addr /\ rg.end = Areas[1].addr + Areas[1].size
    BY TheRange
  <1>2. MapThenSumSet(LAMBDA r : r.uend - r.u, ranges) = w * U
    <2>1. PICK T : T = {rg} /\ T = ranges
      BY <1>1
    <2>2. IsFiniteSet(T)
      BY <2>1, FS_Singleton
    <2>3. w * U \in Int
      BY <1>u
    <2>4. \A t \in T : t.uend - t.u \in Int
      BY <2>1, <2>3, <1>1
    <2>5. PICK h : IsSum([t \in T |-> t.uend - t.u], T, h) /\ RangesSize(T) = h[T]
      BY <2>2, <2>4, RangesSum
    <2>6. PICK f : f = [t \in T |-> t.uend - t.u]
      OBVIOUS
    <2>7. f[rg] = w * U /\ f[rg] \in Int
      BY <2>1, <2>3, <2>6, <1>1
    <2>8. IsSum(f, {rg}, h)
      BY <2>1, <2>5, <2>6
    <2>9. h[{rg}] = f[rg]
      BY ONLY <2>7, <2>8, SumOne
    <2>10. RangesSize(ranges) = w * U
      BY <2>1, <2>5, <2>7, <2>9
    <2> QED BY <2>10, Zenon DEF RangesSize
  <1>3. IsFiniteSet(exts)
    BY DEF BooksInv, NodesInv
  <1>x. \A x \in exts : ExtOK(x) /\ Chunks(x) \subseteq Usable
    BY DEF JeInv, Shape, Inside
  <1>i. \A x \in exts : x.n \in Int
    BY <1>x DEF ExtOK
  <1>4. PICK h : IsSum([t \in exts |-> t.n], exts, h) /\ TotalSize(exts) = h[exts]
    BY <1>3, <1>i, SizesSum
  <1>5. PICK f, C : f = [t \in exts |-> t.n] /\ C = [t \in exts |-> Chunks(t)]
    OBVIOUS
  <1>6. ASSUME NEW x \in exts PROVE IsFiniteSet(C[x]) /\ Cardinality(C[x]) = f[x]
    <2>1. PICK a, n : a = x.a /\ n = x.n /\ a \in Nat /\ n \in Nat \ {0}
      BY <1>x DEF ExtOK
    <2>2. PICK b : b = a + n - 1 /\ b \in Int /\ a <= b /\ b - a + 1 = n
      BY <2>1
    <2>3. IsFiniteSet(a .. b) /\ Cardinality(a .. b) = n
      <3>1. a \in Int /\ b \in Int /\ ~(a > b)
        BY ONLY <2>1, <2>2
      <3>2. IsFiniteSet(a .. b) /\ Cardinality(a .. b) = IF a > b THEN 0 ELSE b - a + 1
        BY ONLY <3>1, FS_Interval
      <3> QED BY <3>1, <3>2, <2>2
    <2>4. C[x] = a .. b /\ f[x] = n
      BY <2>1, <2>2, <1>5 DEF Chunks
    <2> QED BY <2>3, <2>4
  <1>7. ASSUME NEW x \in exts, NEW y \in exts, x # y PROVE C[x] \cap C[y] = {}
    <2>1. \A c : ~(c \in Chunks(x) /\ c \in Chunks(y))
      BY <1>7, OneExtent
    <2> QED BY <2>1, <1>5
  <1>8. PICK V : V = UNION {C[x] : x \in exts}
    OBVIOUS
  <1>9. h[exts] = Cardinality(V) /\ IsFiniteSet(V)
    <2>1. IsSum(f, exts, h)
      BY <1>4, <1>5
    <2>2. \A x \in exts : IsFiniteSet(C[x]) /\ Cardinality(C[x]) = f[x]
      BY <1>6
    <2>3. \A x, y \in exts : x # y => C[x] \cap C[y] = {}
      BY <1>7
    <2> QED BY ONLY <1>3, <2>1, <2>2, <2>3, <1>8, SumSizes
  <1>10. V \subseteq Usable /\ inarena \subseteq Usable
    <2>1. V \subseteq Usable
      BY <1>5, <1>8, <1>x
    <2> QED BY <2>1 DEF JeInv, Inside
  <1>11. V \cap inarena = {}
    <2> SUFFICES ASSUME NEW c \in inarena, NEW x \in exts, c \in Chunks(x) PROVE FALSE
      BY <1>5, <1>8
    <2>1. c \in Usable
      BY <1>10
    <2>2. OneOwner(c)
      BY <2>1 DEF JeInv, Accounted
    <2>3. FreeAt(c) = {}
      BY <2>2, OwnerIs
    <2> QED BY <2>3 DEF FreeAt
  <1>12. IsFiniteSet(Usable) /\ Cardinality(Usable) = w
    <2>1. PICK b : b = k + w - 1 /\ b \in Int /\ k <= b /\ b - k + 1 = w
      OBVIOUS
    <2>2. IsFiniteSet(k .. b) /\ Cardinality(k .. b) = w
      BY <2>1, FS_Interval
    <2> QED BY <2>1, <2>2, <1>1
  <1>13. IsFiniteSet(inarena) /\ Cardinality(inarena) \in Nat /\ Cardinality(V) \in Nat
    BY <1>9, <1>10, <1>12, FS_Subset, FS_CardinalityType
  <1>14. Cardinality(V \cup inarena) = Cardinality(V) + Cardinality(inarena)
    <2>1. Cardinality(V \cup inarena) = Cardinality(V) + Cardinality(inarena) - Cardinality(V \cap inarena)
      BY <1>9, <1>13, FS_Union
    <2>2. Cardinality(V \cap inarena) = 0
      BY <1>11, FS_EmptySet
    <2> QED BY <2>1, <2>2, <1>13
  <1>15. Cardinality(V \cup inarena) <= w
    <2>1. V \cup inarena \subseteq Usable
      BY <1>10
    <2> QED BY <2>1, <1>12, FS_Subset
  <1>16. PICK n : n = TotalSize(exts) + Cardinality(inarena)
    OBVIOUS
  <1>17. n \in Int /\ n <= w
    BY <1>4, <1>9, <1>13, <1>14, <1>15, <1>16
  <1>18. n * U <= w * U
    BY <1>17, <1>u, TimesMono
  <1> QED BY <1>2, <1>16, <1>18, Zenon

\* The steps of je_pool_check: they find a sound pool.
LEMMA CheckBooks ==
  ASSUME BooksInv, JeInv, NEW t \in Threads, je_pool_check(t) \/ CheckArenas(t)
  PROVE  BooksInv'
  <1> DEFINE l == th[t]
  <1>1. /\ UNCHANGED <<live, exts, nodes, huge, made, ranges, cur, lost>> /\ nthr' = nthr
        /\ (l.pc = "idle" /\ live) \/ l.pc = "check_arenas"
    BY DEF je_pool_check, CheckArenas, Begin, At
  <1>2. ArenaInv /\ th = [s \in Threads |-> th[s]] /\ DOMAIN l = Fields /\ Locks
    BY DEF BooksInv, JeInv, Shape, ThreadOK
  <1>r. ranges # {}
    BY <1>1 DEF JeInv, Shape
  <1>h. l.pc \notin NodeLabels
    BY <1>1 DEF NodeLabels, Taking, Giving
  <1>i. l.held = 0
    BY <1>h, BooksAre, NoNodes
  <1>v. verdict \in Passed
    BY DEF BooksInv, Misc
  <1>0. ASSUME NEW m, th' = [th EXCEPT ![t] = m], m.held = 0, m.arena = l.arena,
               m.pc \in {"idle", "check_chunks"}, verdict' \in Passed, Locks', mtx'["arenas"] = mtx["arenas"]
        PROVE  BooksInv'
    <2>1. m.pc \notin NodeLabels /\ ~MakesArena(m) /\ m.pc # "cleanup"
      BY <1>0 DEF NodeLabels, Taking, Giving, MakesArena
    <2>2. ranges' = ranges
      BY <1>1
    <2>3. ArenaInv'
      BY ONLY <1>0, <1>1, <1>2, <2>1, <2>2, t \in Threads, ArenaStep
    <2> QED BY <1>0, <1>1, <1>h, <1>i, <2>1, <2>3, ArenaBooks
  <1>3. CASE je_pool_check(t)
    <2>1. RangesSound
      BY <1>r, RangesAreSound
    <2>2. /\ mtx' = [mtx EXCEPT !["mr"] = t] /\ verdict' = verdict
          /\ th' = [th EXCEPT ![t] = [Entered(t) EXCEPT !.pc = "check_chunks"]]
      BY <2>1, <1>3 DEF je_pool_check, Step
    <2>3. PICK c, m : m = [[l EXCEPT !.calls = c] EXCEPT !.pc = "check_chunks"] /\ th' = [th EXCEPT ![t] = m]
      BY <2>2, Zenon DEF Entered
    <2>4. m.pc = "check_chunks" /\ m.held = l.held /\ m.arena = l.arena
      BY <2>3, <1>2 DEF Fields
    <2>5. Locks' /\ mtx'["arenas"] = mtx["arenas"]
      BY <2>2, <1>2 DEF Locks, LockNames
    <2> QED BY <2>2, <2>3, <2>4, <2>5, <1>i, <1>v, <1>0
  <1>4. CASE CheckArenas(t)
    <2>1. verdict' = ArenaReported \/ verdict' = 1
      <3>1. (\A e \in exts : ExtentSound(e)) /\ SizesSound
        BY <1>r, ExtentsAreSound, SizesFit, Zenon DEF SizesSound
      <3> QED BY <3>1, <1>4, Zenon DEF CheckArenas
    <2>6. verdict' \in Passed
      BY <2>1 DEF Passed
    <2>2. PICK m : m = Done(l) /\ th' = [th EXCEPT ![t] = m]
      BY <1>4 DEF CheckArenas, Step
    <2>3. m.held = 0 /\ m.arena = l.arena /\ m.pc = "idle"
      BY <2>2, DoneBooks
    <2>4. mtx' = [mtx EXCEPT !["mr"] = NoThread, !["chunks"] = NoThread]
      BY <1>4 DEF CheckArenas
    <2>5. Locks' /\ mtx'["arenas"] = mtx["arenas"]
      BY <2>4, <1>2 DEF Locks, LockNames
    <2> QED BY <2>2, <2>3, <2>5, <2>6, <1>0
  <1> QED BY <1>3, <1>4

\* Nobody has a node before the pool is made.
LEMMA NobodyHolds ==
  ASSUME NEW m, \A t \in Threads : m[t].held = 0
  PROVE  HeldBy(m, Threads) = 0
  <1>1. IsFiniteSet(Threads)
    BY JeAssumption
  <1>2. \A t \in Threads : m[t].held \in Int
    OBVIOUS
  <1>3. PICK f : f = [t \in Threads |-> m[t].held]
    OBVIOUS
  <1>4. PICK h : IsSum(f, Threads, h) /\ HeldBy(m, Threads) = h[Threads]
    BY <1>1, <1>2, <1>3, HeldSum
  <1>5. \A t \in Threads : f[t] = 0
    BY <1>3
  <1>6. h[Threads] = 0
    BY ONLY <1>1, <1>4, <1>5, SumZero
  <1> QED BY <1>4, <1>6

LEMMA InitBooks ==
  ASSUME Init
  PROVE  BooksInv
  <1>1. /\ live = FALSE /\ exts = {} /\ nodes = 0 /\ huge = {} /\ ranges = {} /\ cur = 0
        /\ nthr = [i \in 0 .. (NArenas - 1) |-> NoArena]
        /\ verdict = 1 /\ made = 0 /\ lost = {}
        /\ mtx = [x \in {"chunks", "base", "nodes", "mr", "arenas", "pools"} |-> NoThread]
        /\ th = [t \in Threads |-> Idle]
    BY Zenon DEF Init
  <1>2. \A t \in Threads : th[t] = Idle
    BY <1>1
  <1>3. Idle.held = 0 /\ Idle.arena = NoArena
    BY Zenon DEF Idle
  <1>4. Idle.pc = "idle"
    BY IdleIs
  <1>5. PICK m : m = Idle
    OBVIOUS
  <1>6. m.pc \notin NodeLabels /\ m.pc \notin Moving /\ ~MakesArena(m) /\ m.pc # "cleanup" /\ m.held = 0 /\ m.arena = NoArena
    BY <1>3, <1>4, <1>5 DEF NodeLabels, Taking, Giving, Moving, MakesArena
  <1>7. HeldOK(m)
    BY <1>6, NoNodes
  <1>8. NodesInv
    <2>1. HeldBy(th, Threads) = 0
      BY <1>2, <1>5, <1>6, NobodyHolds
    <2>2. IsFiniteSet({}) /\ Cardinality({}) = 0
      BY FS_EmptySet
    <2>3. nodes + Cardinality(exts) + Cardinality(huge) + HeldBy(th, Threads) = made
      BY <1>1, <2>1, <2>2
    <2>4. NodesAccounted
      BY <2>3, Zenon DEF NodesAccounted, HeldBy
    <2>5. IsFiniteSet(exts) /\ IsFiniteSet(huge) /\ nodes \in Nat /\ made \in Nat
      BY <1>1, <2>2
    <2>6. \A t \in Threads : HeldOK(th[t])
      BY <1>2, <1>5, <1>7
    <2> QED BY <2>4, <2>5, <2>6 DEF NodesInv
  <1>9. Marks
    BY <1>1, <1>2, <1>5, <1>6 DEF Marks
  <1>10. ArenaInv
    <2>1. nthr[0] = NoArena /\ NoArena = -1
      <3>1. 0 \in 0 .. (NArenas - 1)
        BY JeAssumption
      <3> QED BY <3>1, <1>1 DEF NoArena
    <2> QED BY <2>1, <1>1, <1>2, <1>5, <1>6 DEF ArenaInv
  <1>11. OneRange
    BY <1>1 DEF OneRange
  <1>12. Locks
    BY <1>1 DEF Locks, LockNames
  <1>13. Misc
    <2>1. live \in BOOLEAN
      BY <1>1, Zenon
    <2>2. cur \in Int /\ lost \subseteq Nat /\ verdict \in Passed
      BY <1>1 DEF Passed
    <2> QED BY <2>1, <2>2, Zenon DEF Misc
  <1> QED BY <1>8, <1>9, <1>10, <1>11, <1>12, <1>13 DEF BooksInv

\* Deleting the pool and doing nothing.
LEMMA QuietBooks ==
  ASSUME BooksInv, live' \in BOOLEAN,
         UNCHANGED <<exts, nodes, huge, ranges, cur, nthr, mtx, th, verdict, made, lost>>
  PROVE  BooksInv'
  <1>0. NodesInv /\ Marks /\ ArenaInv /\ OneRange /\ Locks /\ Misc
    BY DEF BooksInv
  <1>1. NodesInv'
    <2>1. NodesAccounted'
      <3>1. NodesAccounted
        BY <1>0 DEF NodesInv
      <3>2. NodesAccounted <=> nodes + Cardinality(exts) + Cardinality(huge) + HeldBy(th, Threads) = made
        BY Zenon DEF NodesAccounted, HeldBy
      <3>3. NodesAccounted' <=> nodes' + Cardinality(exts') + Cardinality(huge') + HeldBy(th', Threads) = made'
        BY Zenon DEF NodesAccounted, HeldBy, MapThenSumSet, MapThenFoldSet
      <3> QED BY <3>1, <3>2, <3>3
    <2> QED BY <1>0, <2>1 DEF NodesInv, HeldOK, ForHuge, ForTrees
  <1>2. Marks'
    BY <1>0, Zenon DEF Marks
  <1>3. ArenaInv'
    BY <1>0 DEF ArenaInv, MakesArena, NullArenas
  <1>4. OneRange' /\ Locks'
    BY <1>0 DEF OneRange, Locks
  <1>5. Misc'
    BY <1>0, Zenon DEF Misc
  <1> QED BY <1>1, <1>2, <1>3, <1>4, <1>5 DEF BooksInv

LEMMA CreateBooks ==
  ASSUME BooksInv, JeInv, NEW z \in BOOLEAN, je_pool_create(z)
  PROVE  BooksInv'
  <1>u. U \in Nat \ {0}
    BY UnitsPositive
  <1>1. PICK rg, x, n : /\ rg = RangeOf(Areas[1], CHUNK_CEILING(FirstNext)) /\ ranges' = {rg}
                        /\ x = ExtOf(rg, z) /\ exts' = {x}
                        /\ n = Areas[1].size \div U /\ nodes' = n - 1 /\ made' = n
                        /\ nthr' = [nthr EXCEPT ![0] = 0]
    BY Zenon DEF je_pool_create, FirstNext
  <1>2. ranges = {} /\ UNCHANGED <<huge, cur, mtx, th, verdict, lost>>
    BY DEF je_pool_create
  <1>3. huge = {} /\ \A t \in Threads : th[t].pc = "idle"
    BY <1>2 DEF JeInv, Shape
  <1>i. "idle" \notin NodeLabels /\ "idle" \notin Moving
    BY DEF NodeLabels, Taking, Giving, Moving
  <1>4. \A t \in Threads : th[t].held = 0 /\ HeldOK(th[t])
    <2>1. \A t \in Threads : HeldOK(th[t])
      BY BooksAre
    <2> QED BY <2>1, <1>3, <1>i, NoNodes
  <1>n. n \in Nat \ {0}
    <2>1. PICK s : s = Areas[1].size /\ s \in Nat /\ s >= 3 * U
      BY JeAssumption
    <2>2. 1 * U <= s
      BY <2>1, <1>u
    <2>3. 1 <= s \div U /\ s \div U \in Int
      BY <2>1, <2>2, ChunkOf
    <2> QED BY <2>1, <2>3, <1>1
  <1>5. NodesInv'
    <2>1. HeldBy(th', Threads) = 0
      BY <1>2, <1>4, NobodyHolds
    <2>2. IsFiniteSet(exts') /\ Cardinality(exts') = 1
      BY <1>1, FS_Singleton
    <2>3. IsFiniteSet(huge') /\ Cardinality(huge') = 0
      BY <1>2, <1>3, FS_EmptySet
    <2>4. NodesAccounted'
      <3>1. NodesAccounted' <=> nodes' + Cardinality(exts') + Cardinality(huge') + HeldBy(th', Threads) = made'
        BY Zenon DEF NodesAccounted, HeldBy, MapThenSumSet, MapThenFoldSet
      <3>2. nodes' + Cardinality(exts') + Cardinality(huge') + HeldBy(th', Threads) = made'
        BY ONLY <2>1, <2>2, <2>3, <1>1, <1>n
      <3> QED BY <3>1, <3>2
    <2>5. nodes' \in Nat /\ made' \in Nat
      BY ONLY <1>1, <1>n
    <2>6. (\A t \in Threads : HeldOK(th[t]))'
      BY <1>2, <1>4 DEF HeldOK, ForHuge, ForTrees
    <2> QED BY <2>2, <2>3, <2>4, <2>5, <2>6 DEF NodesInv
  <1>6. Marks'
    <2>1. x.z = z
      BY <1>1, Zenon DEF ExtOf
    <2>2. x.z \in BOOLEAN
      BY <2>1, Zenon
    <2>3. \A y \in exts' : y.z \in BOOLEAN
      <3>1. \A y \in exts' : y = x
        BY <1>1
      <3> QED BY <3>1, <2>2, Zenon
    <2>4. huge' = {} /\ \A t \in Threads : th'[t].pc \notin Moving
      BY <1>2, <1>3, <1>i
    <2>5. \A y \in huge' : y.z \in BOOLEAN
      BY <2>4
    <2> QED BY <2>3, <2>4, <2>5, Zenon DEF Marks
  <1>7. ArenaInv'
    <2>0. ArenaInv
      BY DEF BooksInv
    <2>1. nthr \in [0 .. (NArenas - 1) -> Nat \cup {NoArena}] /\ nthr[0] = NoArena
      BY <2>0, <1>2 DEF ArenaInv
    <2>n. 0 \in 0 .. (NArenas - 1) /\ NoArena = -1
      BY JeAssumption DEF NoArena
    <2>2. PICK v : v = nthr'
      OBVIOUS
    <2>3. /\ v \in [0 .. (NArenas - 1) -> Nat \cup {NoArena}] /\ v[0] = 0
          /\ \A i \in 0 .. (NArenas - 1) : i # 0 => v[i] = nthr[i]
      BY <1>1, <2>1, <2>2, <2>n
    <2>4. \A t \in Threads : th[t].arena # NoArena => th[t].arena \in 0 .. (NArenas - 1) /\ nthr[th[t].arena] # NoArena
      BY <2>0 DEF ArenaInv
    <2>5. \A t \in Threads : th[t].arena # 0
      BY <2>4, <2>1, <2>n
    <2>6. \A t \in Threads : th[t].arena # NoArena => th[t].arena \in 0 .. (NArenas - 1) /\ v[th[t].arena] # NoArena
      BY <2>3, <2>4, <2>5
    <2>7. \A i \in 0 .. (NArenas - 1) : v[i] # NoArena => Cardinality({t \in Threads : th[t].arena = i}) <= v[i]
      <3>1. {t \in Threads : th[t].arena = 0} = {}
        BY <2>5
      <3>2. Cardinality({t \in Threads : th[t].arena = 0}) = 0
        BY <3>1, FS_EmptySet
      <3>3. \A i \in 0 .. (NArenas - 1) : nthr[i] # NoArena => Cardinality({t \in Threads : th[t].arena = i}) <= nthr[i]
        BY <2>0 DEF ArenaInv
      <3>4. ASSUME NEW i \in 0 .. (NArenas - 1), v[i] # NoArena
            PROVE  Cardinality({t \in Threads : th[t].arena = i}) <= v[i]
        <4>1. CASE i = 0
          BY <4>1, <3>2, <2>3
        <4>2. CASE i # 0
          BY <4>2, <3>3, <3>4, <2>3
        <4> QED BY <4>1, <4>2
      <3> QED BY <3>4
    <2>8. \A t \in Threads : ~MakesArena(th[t]) /\ th[t].pc # "cleanup"
      BY <1>3 DEF MakesArena, Taking, Giving
    <2>9. (\A t \in Threads : MakesArena(th[t]) => mtx["arenas"] = t /\ NullArenas # {})'
      BY <2>8, <1>2 DEF MakesArena
    <2>10. th' = th /\ ranges' # {}
      BY <1>1, <1>2
    <2>11. v[0] # NoArena
      BY <2>3, <2>n
    <2> QED BY <2>2, <2>3, <2>6, <2>7, <2>8, <2>9, <2>10, <2>11 DEF ArenaInv
  <1>8. OneRange'
    BY <1>1 DEF OneRange, FirstNext
  <1>9. Locks'
    BY <1>2 DEF BooksInv, Locks
  <1>10. Misc'
    <2>1. live' \in BOOLEAN
      BY Zenon DEF je_pool_create
    <2>2. Misc
      BY DEF BooksInv
    <2> QED BY <2>1, <2>2, <1>2, Zenon DEF Misc
  <1> QED BY <1>5, <1>6, <1>7, <1>8, <1>9, <1>10 DEF BooksInv

-----------------------------------------------------------------------------
(* The theorems.                                                           *)

\* Nobody is at a label of je_pool_extend or of base_node_prealloc.
LEMMA NotExtending ==
  ASSUME JeInv, NEW t \in Threads
  PROVE  /\ ~Prealloc(t) /\ ~PreallocGot(t) /\ ~ExtendNode(t) /\ ~ExtendSwitch(t)
         /\ ~ExtendNode2(t) /\ ~ExtendRead(t) /\ ~ExtendPast(t) /\ ~ExtendAdd(t) /\ ~ExtendEnd(t)
  <1>1. th[t].pc \in Labels
    BY DEF JeInv, Shape, ThreadOK
  <1>2. th[t].pc \notin {"pre", "pre_got", "ext_node", "ext_switch", "ext_node2", "ext_read",
                         "ext_past", "ext_add", "ext_end"}
    BY <1>1 DEF Labels, Taking, Giving, MayHold, Holding
  <1>3. \A p \in {"pre", "pre_got", "ext_node", "ext_switch", "ext_node2", "ext_read",
                  "ext_past", "ext_add", "ext_end"} : ~At(t, p)
    BY <1>2 DEF At
  <1>4. /\ ~At(t, "pre") /\ ~At(t, "pre_got") /\ ~At(t, "ext_node") /\ ~At(t, "ext_switch")
        /\ ~At(t, "ext_node2") /\ ~At(t, "ext_read") /\ ~At(t, "ext_past") /\ ~At(t, "ext_add")
        /\ ~At(t, "ext_end")
    BY <1>3
  <1> QED BY <1>4, Zenon DEF Prealloc, PreallocGot, ExtendNode, ExtendSwitch, ExtendNode2,
                           ExtendRead, ExtendPast, ExtendAdd, ExtendEnd

LEMMA InnerKeeps ==
  ASSUME JeInv, NEW t \in Threads, Inner(t)
  PROVE  JeInv'
  <1>1. CASE RecyclePut(t) \/ Dalloc(t) \/ RecordNode(t) \/ RecordPut(t)
    BY <1>1, QuietChunk
  <1>2. CASE HugeFail(t) \/ HugeDallocPut(t) \/ CallDone(t) \/ CheckArenas(t)
    BY <1>2, QuietEnds
  <1>3. CASE HugeNode(t)
    BY <1>3, QuietHuge
  <1>4. CASE ArenaNew(t) \/ CleanupArena(t)
    BY <1>4, QuietArenas
  <1>5. CASE CheckChunks(t)
    BY <1>5, QuietCheck
  <1>6. CASE HugeRegister(t)
    BY <1>6, QuietClaims
  <1>7. CASE RecycleTake(t)
    BY <1>7, RecycleTakeKeeps
  <1>8. CASE TrailNode(t)
    BY <1>8, TrailNodeKeeps
  <1>9. CASE TrailInsert(t)
    BY <1>9, TrailInsertKeeps
  <1>10. CASE RecordInsert(t)
    BY <1>10, RecordInsertKeeps
  <1>11. CASE HugeInsert(t)
    BY <1>11, HugeInsertKeeps
  <1>12. CASE HugeDalloc(t)
    BY <1>12, HugeDallocKeeps
  <1>13. CASE ArenaRegister(t)
    BY <1>13, ArenaRegisterKeeps
  <1>14. CASE BaseAlloc(t)
    BY <1>14, BaseAllocKeeps
  <1>15. CASE BasePages(t)
    BY <1>15, BasePagesKeeps
  <1>16. /\ ~Prealloc(t) /\ ~PreallocGot(t) /\ ~ExtendNode(t) /\ ~ExtendSwitch(t)
         /\ ~ExtendNode2(t) /\ ~ExtendRead(t) /\ ~ExtendPast(t) /\ ~ExtendAdd(t) /\ ~ExtendEnd(t)
    BY NotExtending
  <1> QED BY <1>1, <1>2, <1>3, <1>4, <1>5, <1>6, <1>7, <1>8, <1>9, <1>10, <1>11, <1>12, <1>13,
             <1>14, <1>15, <1>16, Zenon DEF Inner

\* The calls that a thread starts.
LEMMA CallKeeps ==
  ASSUME NeverExtended, JeInv, NEW t \in Threads
  PROVE  /\ \A n \in Sizes : je_pool_malloc(t, n) \/ je_pool_calloc(t, n) => JeInv'
         /\ \A n \in Sizes, al \in Aligns : je_pool_aligned_alloc(t, n, al) => JeInv'
         /\ \A n \in Sizes, h \in huge : je_pool_ralloc(t, h, n) => JeInv'
         /\ \A h \in huge : je_pool_free(t, h) => JeInv'
         /\ ArenaGrow(t) => JeInv'
         /\ \A c \in inarena : ArenaShrink(t, c) => JeInv'
         /\ \A i : ~je_pool_extend(t, i)
         /\ choose_arena_hard(t) \/ arenas_cleanup(t) \/ je_pool_check(t) => JeInv'
  <1>1. \A o, z : \A n \in Sizes, a \in Aligns \cup {1} : HugeStart(t, o, n, a, z) => JeInv'
    BY QuietHuge, Zenon
  <1>a. 1 \in Aligns \cup {1} /\ \A al \in Aligns : al \in Aligns \cup {1}
    OBVIOUS
  <1>2. \A n \in Sizes : je_pool_malloc(t, n) \/ je_pool_calloc(t, n) => JeInv'
    BY <1>1, <1>a, Zenon DEF je_pool_malloc, je_pool_calloc
  <1>3. \A n \in Sizes, al \in Aligns : je_pool_aligned_alloc(t, n, al) => JeInv'
    BY <1>1, <1>a, Zenon DEF je_pool_aligned_alloc
  <1>4. \A n \in Sizes, h \in huge : je_pool_ralloc(t, h, n) => JeInv'
    BY QuietClaims, Zenon
  <1>5. \A h \in huge : je_pool_free(t, h) => JeInv'
    BY QuietClaims, Zenon
  <1>6. ArenaGrow(t) => JeInv'
    BY QuietHuge, Zenon
  <1>7. \A c \in inarena : ArenaShrink(t, c) => JeInv'
    BY ArenaShrinkKeeps, Zenon
  <1>8. \A i : ~je_pool_extend(t, i)
    BY Zenon DEF NeverExtended, je_pool_extend, Begin
  <1>9. choose_arena_hard(t) \/ arenas_cleanup(t) => JeInv'
    BY QuietArenas, Zenon
  <1>10. je_pool_check(t) => JeInv'
    BY QuietCheck, Zenon
  <1> QED BY <1>2, <1>3, <1>4, <1>5, <1>6, <1>7, <1>8, <1>9, <1>10, Zenon

LEMMA StepKeeps ==
  ASSUME NeverExtended, JeInv, [Next]_vars
  PROVE  JeInv'
  <1>1. ASSUME NEW z \in BOOLEAN, je_pool_create(z) PROVE JeInv'
    BY <1>1, CreateKeeps
  <1>2. CASE je_pool_delete
    <2>1. live' = FALSE /\ UNCHANGED <<exts, huge, base, ranges, inarena, mem, th, used, lost>>
      BY <1>2, Zenon DEF je_pool_delete, pool
    <2>2. live' => live
      BY <2>1, Zenon
    <2> QED BY <2>1, <2>2, QuietPool
  <1>3. ASSUME NEW t \in Threads,
               \/ Inner(t)
               \/ \E n \in Sizes :
                     \/ je_pool_malloc(t, n)
                     \/ je_pool_calloc(t, n)
                     \/ \E al \in Aligns : je_pool_aligned_alloc(t, n, al)
                     \/ \E h \in huge : je_pool_ralloc(t, h, n)
               \/ \E h \in huge : je_pool_free(t, h)
               \/ ArenaGrow(t)
               \/ \E c \in inarena : ArenaShrink(t, c)
               \/ \E i \in DOMAIN Areas \ {1} : je_pool_extend(t, i)
               \/ choose_arena_hard(t) \/ arenas_cleanup(t) \/ je_pool_check(t)
        PROVE  JeInv'
    <2>1. Inner(t) => JeInv'
      BY InnerKeeps, Zenon
    <2>2. /\ \A n \in Sizes : je_pool_malloc(t, n) \/ je_pool_calloc(t, n) => JeInv'
          /\ \A n \in Sizes, al \in Aligns : je_pool_aligned_alloc(t, n, al) => JeInv'
          /\ \A n \in Sizes, h \in huge : je_pool_ralloc(t, h, n) => JeInv'
          /\ \A h \in huge : je_pool_free(t, h) => JeInv'
          /\ ArenaGrow(t) => JeInv'
          /\ \A c \in inarena : ArenaShrink(t, c) => JeInv'
          /\ \A i : ~je_pool_extend(t, i)
          /\ choose_arena_hard(t) \/ arenas_cleanup(t) \/ je_pool_check(t) => JeInv'
      BY CallKeeps, Zenon
    <2> QED BY <1>3, <2>1, <2>2, Zenon
  <1>4. CASE UNCHANGED vars
    <2>1. live' = live /\ UNCHANGED <<exts, huge, base, ranges, inarena, mem, th, used, lost>>
      BY <1>4 DEF vars
    <2>2. live' => live
      BY <2>1, Zenon
    <2> QED BY <2>1, <2>2, QuietPool
  <1> QED BY <1>1, <1>2, <1>3, <1>4, Zenon DEF Next

LEMMA InnerBooks ==
  ASSUME BooksInv, JeInv, NEW t \in Threads, Inner(t)
  PROVE  BooksInv'
  <1>1. CASE RecyclePut(t) \/ Dalloc(t) \/ RecordNode(t) \/ RecordPut(t) \/ TrailNode(t)
    BY <1>1, BooksChunk
  <1>2. CASE HugeFail(t) \/ HugeDallocPut(t) \/ CallDone(t) \/ ArenaRegister(t)
    BY <1>2, BooksEnds
  <1>3. CASE HugeNode(t) \/ HugeRegister(t)
    BY <1>3, BooksEnter
  <1>4. CASE ArenaNew(t)
    BY <1>4, ArenaNewBooks
  <1>5. CASE CleanupArena(t)
    BY <1>5, CleanupBooks
  <1>6. CASE CheckChunks(t)
    BY <1>6, BooksCalls
  <1>7. CASE RecycleTake(t)
    BY <1>7, RecycleTakeBooks
  <1>8. CASE TrailInsert(t)
    BY <1>8, TrailInsertBooks
  <1>9. CASE RecordInsert(t)
    BY <1>9, RecordInsertBooks
  <1>10. CASE HugeInsert(t) \/ HugeDalloc(t)
    BY <1>10, HugeBooks
  <1>11. CASE BaseAlloc(t) \/ BasePages(t)
    BY <1>11, BooksBase
  <1>12. CASE CheckArenas(t)
    BY <1>12, CheckBooks
  <1>13. /\ ~Prealloc(t) /\ ~PreallocGot(t) /\ ~ExtendNode(t) /\ ~ExtendSwitch(t)
         /\ ~ExtendNode2(t) /\ ~ExtendRead(t) /\ ~ExtendPast(t) /\ ~ExtendAdd(t) /\ ~ExtendEnd(t)
    BY NotExtending
  <1> QED BY <1>1, <1>2, <1>3, <1>4, <1>5, <1>6, <1>7, <1>8, <1>9, <1>10, <1>11, <1>12, <1>13,
             Zenon DEF Inner

LEMMA StepBooks ==
  ASSUME NeverExtended, BooksInv, JeInv, [Next]_vars
  PROVE  BooksInv'
  <1>1. ASSUME NEW z \in BOOLEAN, je_pool_create(z) PROVE BooksInv'
    BY <1>1, CreateBooks
  <1>2. CASE je_pool_delete
    <2>1. UNCHANGED <<exts, nodes, huge, ranges, cur, nthr, mtx, th, verdict, made, lost>>
      BY <1>2, Zenon DEF je_pool_delete, pool
    <2>2. live' \in BOOLEAN
      BY <1>2, Zenon DEF je_pool_delete
    <2> QED BY <2>1, <2>2, QuietBooks
  <1>3. ASSUME NEW t \in Threads,
               \/ Inner(t)
               \/ \E n \in Sizes :
                     \/ je_pool_malloc(t, n)
                     \/ je_pool_calloc(t, n)
                     \/ \E al \in Aligns : je_pool_aligned_alloc(t, n, al)
                     \/ \E h \in huge : je_pool_ralloc(t, h, n)
               \/ \E h \in huge : je_pool_free(t, h)
               \/ ArenaGrow(t)
               \/ \E c \in inarena : ArenaShrink(t, c)
               \/ \E i \in DOMAIN Areas \ {1} : je_pool_extend(t, i)
               \/ choose_arena_hard(t) \/ arenas_cleanup(t) \/ je_pool_check(t)
        PROVE  BooksInv'
    <2>1. Inner(t) => BooksInv'
      BY InnerBooks, Zenon
    <2>2. /\ \A o, z, n, a : HugeStart(t, o, n, a, z) => BooksInv'
          /\ \A h, n : je_pool_ralloc(t, h, n) => BooksInv'
          /\ \A h : je_pool_free(t, h) => BooksInv'
          /\ arenas_cleanup(t) => BooksInv'
      BY BooksCalls, Zenon
    <2>3. /\ \A n : je_pool_malloc(t, n) \/ je_pool_calloc(t, n) => BooksInv'
          /\ \A n, al : je_pool_aligned_alloc(t, n, al) => BooksInv'
      BY <2>2, Zenon DEF je_pool_malloc, je_pool_calloc, je_pool_aligned_alloc
    <2>4. (ArenaGrow(t) => BooksInv') /\ \A c : ArenaShrink(t, c) => BooksInv'
      BY BooksEnter, Zenon
    <2>5. \A i : ~je_pool_extend(t, i)
      BY Zenon DEF NeverExtended, je_pool_extend, Begin
    <2>6. choose_arena_hard(t) => BooksInv'
      BY ChooseBooks, Zenon
    <2>7. je_pool_check(t) => BooksInv'
      BY CheckBooks, Zenon
    <2> QED BY <1>3, <2>1, <2>2, <2>3, <2>4, <2>5, <2>6, <2>7, Zenon
  <1>4. CASE UNCHANGED vars
    <2>1. UNCHANGED <<exts, nodes, huge, ranges, cur, nthr, mtx, th, verdict, made, lost>>
      BY <1>4 DEF vars
    <2>2. live' \in BOOLEAN
      <3>1. live \in BOOLEAN
        BY Zenon DEF BooksInv, Misc
      <3>2. live' = live
        BY <1>4 DEF vars
      <3> QED BY <3>1, <3>2, Zenon
    <2> QED BY <2>1, <2>2, QuietBooks
  <1> QED BY <1>1, <1>2, <1>3, <1>4, Zenon DEF Next

\* The inductive invariant holds in every state of a pool that is never
\* extended.
THEOREM PoolInvariant ==
  ASSUME NeverExtended
  PROVE  Spec => []JeInv
  <1>1. Init => JeInv
    BY InitKeeps
  <1>2. JeInv /\ [Next]_vars => JeInv'
    BY StepKeeps
  <1>3. Spec => Init /\ [][Next]_vars
    BY PTL DEF Spec
  <1> QED BY <1>1, <1>2, <1>3, PTL

\* What chunk_recycle hands out as zeroed, and what calloc returns, is zero:
\* joining, splitting, purging and reuse never leave a mark on memory that a
\* client has written to.
THEOREM ZeroedStaysZero ==
  ASSUME NeverExtended
  PROVE  Spec => []ZeroedIsZero
  <1>1. JeInv => ZeroedIsZero
    BY Zenon DEF JeInv, Zeroed, ZeroedIsZero
  <1> QED BY <1>1, PoolInvariant, PTL

\* The books of a pool that is never extended are right in every state.
THEOREM BooksInvariant ==
  ASSUME NeverExtended
  PROVE  Spec => []BooksInv
  <1>1. Init => BooksInv
    BY InitBooks
  <1>2. JeInv /\ BooksInv /\ [Next]_vars => BooksInv'
    BY StepBooks
  <1>3. Spec => Init /\ [][Next]_vars
    BY PTL DEF Spec
  <1>4. Spec => []JeInv
    BY PoolInvariant
  <1> QED BY <1>1, <1>2, <1>3, <1>4, PTL

\* Memory and extent nodes are accounted for at every step of every thread.
\* Each usable chunk of a live pool has exactly one owner, whatever sizes and
\* alignments are asked for and however many threads are in the middle of
\* splitting and joining extents (chunk_recycle and chunk_record drop
\* chunks_mtx and take it again), growing base memory or freeing.  The nodes
\* on base_nodes, in the trees of extents and of huge allocations and in the
\* hands of threads between two critical sections are all that
\* base_node_prealloc made.
THEOREM PoolStaysAccounted ==
  ASSUME NeverExtended
  PROVE  Spec => []PoolAccounted
  <1>1. JeInv /\ BooksInv => TypeOK
    <2> SUFFICES ASSUME JeInv, BooksInv PROVE TypeOK
      OBVIOUS
    <2>1. live \in BOOLEAN
      BY Zenon DEF BooksInv, Misc
    <2>2. nodes \in Nat /\ made \in Nat /\ cur \in Int /\ lost \subseteq Nat /\ verdict \in {0, 1, ArenaReported}
      BY DEF BooksInv, NodesInv, Misc, Passed
    <2>3. \A x \in exts \cup huge : x.a \in Nat /\ x.n \in Nat \ {0} /\ x.z \in BOOLEAN
      <3>1. \A x \in exts \cup huge : x.a \in Nat /\ x.n \in Nat \ {0}
        BY DEF JeInv, Shape, ExtOK
      <3>2. \A x \in exts \cup huge : x.z \in BOOLEAN
        BY Zenon DEF BooksInv, Marks
      <3> QED BY <3>1, <3>2, Zenon
    <2>4. nthr \in [0 .. (NArenas - 1) -> Nat \cup {NoArena}]
      BY DEF BooksInv, ArenaInv
    <2>5. mtx \in [{"chunks", "base", "nodes", "mr", "arenas", "pools"} -> Threads \cup {NoThread}]
      BY DEF BooksInv, Locks, LockNames
    <2>6. DOMAIN th = Threads
      BY DEF JeInv, Shape
    <2>7. inarena \subseteq Nat /\ used \subseteq Nat
      BY DEF JeInv, Inside, BaseRest
    <2> QED BY <2>1, <2>2, <2>3, <2>4, <2>5, <2>6, <2>7, Zenon DEF TypeOK
  <1>2. JeInv => ChunksAccounted
    BY OneOwnerCounts DEF JeInv, Accounted, ChunksAccounted
  <1>3. BooksInv => NodesAccounted
    BY Zenon DEF BooksInv, NodesInv
  <1>4. JeInv /\ BooksInv => PoolAccounted
    BY <1>1, <1>2, <1>3, Zenon DEF PoolAccounted
  <1>5. (Spec => []JeInv) /\ (Spec => []BooksInv)
    BY PoolInvariant, BooksInvariant
  <1> QED BY <1>4, <1>5, PTL

\* The tests that je_pool_check makes of the ranges, the extents and the sum
\* of sizes pass whenever it runs: every extent is inside the pool's range
\* and marked as it should be, and the range has room for the free chunks and
\* those of the arenas, although threads hold chunks and nodes in the middle
\* of their calls while it looks.  The tests of the inside of arenas are not
\* part of this.
THEOREM ChunkTestsAlwaysPass ==
  ASSUME NeverExtended
  PROVE  Spec => []ChunkTestsPass
  <1>1. BooksInv => ChunkTestsPass
    BY DEF BooksInv, Misc, Passed, ArenaReported, ChunkTestsPass
  <1> QED BY <1>1, BooksInvariant, PTL
=============================================================================
