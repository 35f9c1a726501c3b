--------------------------- MODULE BlkPoolProofs ---------------------------
(***************************************************************************)
(* Proofs about module BlkPool, for any number of pools, threads and lanes *)
(* and for files of any size.                                              *)
(***************************************************************************)
EXTENDS BlkPool, TLAPS, FiniteSetTheorems, WellFoundedInduction

PoolPCs  == {"create", "init", "init_zeroed", "init_hdr", "init_sync", "open", "check",
             "btt_init", "checking", "close"}
BlockPCs == {"erofs", "enter", "lock"} \cup InLane
BlockOps == {"read", "write", "set_zero", "set_error"}

BlkTypes ==
  /\ pc \in [Threads -> {"idle"} \cup PoolPCs \cup BlockPCs]
  /\ call \in [Threads -> Calls \cup {None}]
  /\ lane \in [Threads -> Nat]
  /\ handle = [p \in Pools |-> handle[p]] /\ locks = [p \in Pools |-> locks[p]]

\* A call that opens, checks or closes a pool has the pool to itself.
Sharing ==
  /\ \A t \in Threads : pc[t] # "idle" => call[t] \in Calls
  /\ \A t \in Threads : pc[t] \in PoolPCs => call[t].op \in PoolOps \cup {"close"}
  /\ \A t, u \in Threads :
       (t # u /\ pc[t] # "idle" /\ pc[u] # "idle" /\ P(t) = P(u)) => pc[t] \in BlockPCs

\* A handle says how many lanes the pool has, and the pool has their locks.
HandleSound(p) ==
  /\ {"nlane", "next_lane"} \subseteq DOMAIN handle[p]
  /\ handle[p].nlane \in Nat \ {0} /\ handle[p].next_lane \in Nat
  /\ locks[p] \in [0 .. handle[p].nlane - 1 -> Threads \cup {None}]

Handles ==
  /\ \A p \in Pools : handle[p] # None => HandleSound(p)
  /\ \A t \in Threads : pc[t] \in BlockPCs => HandleSound(P(t))

\* A call in a lane holds the lane's lock.
LaneHeld ==
  /\ \A t \in Threads : pc[t] \in {"lock"} \cup InLane => lane[t] \in 0 .. handle[P(t)].nlane - 1
  /\ \A t \in Threads : pc[t] \in InLane => locks[P(t)][lane[t]] = t

BlkInv == BlkTypes /\ Sharing /\ Handles /\ LaneHeld

LEMMA BlkStart == Init => BlkInv
  <1> SUFFICES ASSUME Init PROVE BlkInv
    OBVIOUS
  <1>1. BlkTypes
    BY DEF Init, BlkTypes
  <1>2. Sharing /\ Handles /\ LaneHeld
    BY DEF Init, Sharing, Handles, LaneHeld, PoolPCs, BlockPCs, InLane
  <1> QED BY <1>1, <1>2 DEF BlkInv

LEMMA CallPools == \A c \in Calls : c.pool \in Pools
  BY DEF Calls

\* A step of thread t within its call that keeps handles, locks and lanes.
LEMMA BlkFrame ==
  ASSUME BlkInv, NEW t \in Threads, NEW q,
         pc' = [pc EXCEPT ![t] = q],
         \/ pc[t] \in InLane /\ q \in InLane
         \/ pc[t] \in PoolPCs /\ q \in PoolPCs,
         UNCHANGED <<handle, locks, call, lane>>
  PROVE  BlkInv'
  <1> USE DEF BlkInv
  <1>1. BlkTypes'
    BY DEF BlkTypes, BlockPCs
  <1>2. /\ \A u \in Threads : u # t => pc'[u] = pc[u]
        /\ pc'[t] = q /\ pc[t] # "idle" /\ q # "idle"
        /\ (pc[t] \in BlockPCs <=> q \in BlockPCs) /\ (pc[t] \in PoolPCs <=> q \in PoolPCs)
    BY DEF BlkTypes, InLane, PoolPCs, BlockPCs
  <1>3. \A u \in Threads : /\ pc'[u] # "idle" <=> pc[u] # "idle"
                           /\ pc'[u] \in BlockPCs <=> pc[u] \in BlockPCs
                           /\ pc'[u] \in PoolPCs <=> pc[u] \in PoolPCs
                           /\ P(u)' = P(u)
    BY <1>2 DEF P
  <1>4. Sharing'
    BY <1>3 DEF Sharing
  <1>5. Handles'
    BY <1>3 DEF Handles, HandleSound
  <1>6. \A u \in Threads : /\ pc'[u] \in InLane => pc[u] \in InLane
                           /\ pc'[u] = "lock" => pc[u] = "lock"
    BY <1>2 DEF InLane, PoolPCs
  <1>7. LaneHeld'
    BY <1>3, <1>6 DEF LaneHeld
  <1> QED BY <1>1, <1>4, <1>5, <1>7

\* A call returns without having touched handles, locks or lanes.
LEMMA BlkReturn ==
  ASSUME BlkInv, NEW t \in Threads,
         pc' = [pc EXCEPT ![t] = "idle"], call' = [call EXCEPT ![t] = None],
         UNCHANGED <<handle, locks, lane>>
  PROVE  BlkInv'
  <1> USE DEF BlkInv
  <1>1. BlkTypes'
    BY DEF BlkTypes
  <1>2. /\ \A u \in Threads : u # t => pc'[u] = pc[u] /\ call'[u] = call[u] /\ P(u)' = P(u)
        /\ pc'[t] = "idle" /\ "idle" \notin PoolPCs \cup BlockPCs
    BY DEF BlkTypes, InLane, PoolPCs, BlockPCs, P
  <1>3. Sharing'
    BY <1>2 DEF Sharing
  <1>4. Handles'
    BY <1>2 DEF Handles, HandleSound
  <1>5. LaneHeld'
    BY <1>2 DEF LaneHeld, BlockPCs
  <1> QED BY <1>1, <1>3, <1>4, <1>5

\* A call that has the pool to itself replaces its handle and locks.
LEMMA BlkReplace ==
  ASSUME BlkInv, NEW t \in Threads, NEW q \in {"idle", "checking"}, NEW h, NEW k,
         NEW p0, p0 = P(t), pc[t] \in PoolPCs, pc' = [pc EXCEPT ![t] = q],
         \/ q = "idle" /\ call' = [call EXCEPT ![t] = None]
         \/ q = "checking" /\ UNCHANGED call,
         handle' = [handle EXCEPT ![p0] = h], locks' = [locks EXCEPT ![p0] = k],
         h # None => /\ {"nlane", "next_lane"} \subseteq DOMAIN h
                     /\ h.nlane \in Nat \ {0} /\ h.next_lane \in Nat
                     /\ k \in [0 .. h.nlane - 1 -> Threads \cup {None}],
         UNCHANGED lane
  PROVE  BlkInv'
  <1> USE DEF BlkInv
  <1>0. call[t] \in Calls /\ P(t) \in Pools /\ pc[t] # "idle" /\ pc[t] \notin BlockPCs
    BY CallPools DEF Sharing, PoolPCs, BlockPCs, InLane, P
  <1>1. BlkTypes'
    <2>1. pc' \in [Threads -> {"idle"} \cup PoolPCs \cup BlockPCs]
      BY DEF BlkTypes, PoolPCs
    <2>2. call' \in [Threads -> Calls \cup {None}]
      BY DEF BlkTypes
    <2>3. handle' = [p \in Pools |-> handle'[p]] /\ locks' = [p \in Pools |-> locks'[p]]
      BY DEF BlkTypes
    <2> QED BY <2>1, <2>2, <2>3 DEF BlkTypes
  <1>2. /\ \A u \in Threads : u # t => pc'[u] = pc[u] /\ call'[u] = call[u] /\ P(u)' = P(u)
        /\ pc'[t] = q /\ q \notin BlockPCs /\ q # "lock" /\ q \notin InLane
    BY DEF BlkTypes, InLane, PoolPCs, BlockPCs, P
  <1>3. q = "checking" => call'[t] = call[t] /\ P(t)' = P(t) /\ q \in PoolPCs
    BY DEF P, PoolPCs
  <1>4. Sharing'
    <2>1. \A u \in Threads : pc'[u] # "idle" => call'[u] \in Calls
      BY <1>0, <1>2, <1>3 DEF Sharing
    <2>2. \A u \in Threads : pc'[u] \in PoolPCs => call'[u].op \in PoolOps \cup {"close"}
      BY <1>0, <1>2, <1>3 DEF Sharing, PoolPCs
    <2>3. ASSUME NEW u \in Threads, NEW v \in Threads, u # v, pc'[u] # "idle", pc'[v] # "idle",
                 P(u)' = P(v)'
          PROVE  pc'[u] \in BlockPCs
      <3>1. P(u) = P(v) /\ pc[u] # "idle" /\ pc[v] # "idle"
        BY <2>3, <1>0, <1>2, <1>3
      <3>2. pc[u] \in BlockPCs /\ pc[v] \in BlockPCs
        BY <3>1, <2>3 DEF Sharing
      <3> QED BY <3>2, <1>0, <1>2
    <2> QED BY <2>1, <2>2, <2>3 DEF Sharing
  <1>5. \A u \in Threads : pc'[u] \in BlockPCs => u # t /\ P(u) # P(t) /\ P(u) \in Pools
    <2> SUFFICES ASSUME NEW u \in Threads, pc'[u] \in BlockPCs
                 PROVE  u # t /\ P(u) # P(t) /\ P(u) \in Pools
      OBVIOUS
    <2>1. u # t /\ pc[u] \in BlockPCs /\ pc[u] # "idle"
      BY <1>2 DEF BlockPCs, InLane
    <2>2. P(u) \in Pools
      BY <2>1, CallPools DEF Sharing, P
    <2> QED BY <2>1, <2>2, <1>0 DEF Sharing
  <1>6. Handles'
    <2>1. \A p \in Pools : p # p0 => handle'[p] = handle[p] /\ locks'[p] = locks[p]
      BY DEF BlkTypes
    <2>2. handle'[p0] = h /\ locks'[p0] = k
      BY <1>0 DEF BlkTypes
    <2>3. \A p \in Pools : p # p0 /\ HandleSound(p) => HandleSound(p)'
      BY <2>1 DEF HandleSound
    <2>4. handle'[p0] # None => HandleSound(p0)'
      BY <2>2 DEF HandleSound
    <2>5. \A p \in Pools : handle'[p] # None => HandleSound(p)'
      BY <2>1, <2>3, <2>4 DEF Handles
    <2>6. ASSUME NEW u \in Threads, pc'[u] \in BlockPCs PROVE HandleSound(P(u))'
      <3> DEFINE p == P(u)
      <3>1. p \in Pools /\ p # p0 /\ P(u)' = p /\ HandleSound(p)
        BY <2>6, <1>5, <1>2 DEF Handles
      <3> QED BY <3>1, <2>3
    <2> QED BY <2>5, <2>6 DEF Handles
  <1>7. LaneHeld'
    <2>1. ASSUME NEW u \in Threads, pc'[u] \in {"lock"} \cup InLane
          PROVE  /\ pc[u] = pc'[u] /\ lane'[u] = lane[u] /\ P(u)' = P(u)
                 /\ handle'[P(u)] = handle[P(u)] /\ locks'[P(u)] = locks[P(u)]
      <3>a. pc'[u] \in BlockPCs
        BY <2>1 DEF BlockPCs
      <3> QED BY <3>a, <1>5, <1>2 DEF BlkTypes
    <2> QED BY <2>1 DEF LaneHeld
  <1> QED BY <1>1, <1>4, <1>6, <1>7

LEMMA BlkCall ==
  ASSUME BlkInv, NEW t \in Threads, NEW c \in Calls, Call(t, c)
  PROVE  BlkInv'
  <1> USE DEF BlkInv
  <1> DEFINE q == pc'[t]
  <1>0. /\ UNCHANGED <<handle, locks, lane>> /\ c.pool \in Pools /\ pc[t] = "idle"
        /\ call'[t] = c /\ P(t)' = c.pool /\ call' \in [Threads -> Calls \cup {None}]
        /\ \A u \in Threads : u # t => pc'[u] = pc[u] /\ call'[u] = call[u] /\ P(u)' = P(u)
    BY CallPools DEF Call, handles, BlkTypes, P
  <1>1. \/ c.op \in PoolOps \cup {"close"} /\ q = c.op /\ Using(c.pool) = {}
        \/ /\ c.op \in BlockOps /\ q \in {"erofs", "enter"} /\ handle[c.pool] # None
           /\ \A u \in Using(c.pool) : call[u].op \notin PoolOps \cup {"close"}
    BY DEF Call, BlkTypes, BlockOps, PoolOps
  <1>2. /\ q \in PoolPCs \cup BlockPCs /\ q # "idle"
        /\ (q \in PoolPCs <=> c.op \in PoolOps \cup {"close"}) /\ q \notin {"lock"} \cup InLane
        /\ (q \in BlockPCs <=> c.op \in BlockOps)
    BY <1>1 DEF PoolPCs, BlockPCs, InLane, PoolOps, BlockOps
  <1>3. BlkTypes'
    <2>1. pc' = [pc EXCEPT ![t] = q]
      BY DEF Call, BlkTypes
    <2> HIDE DEF q
    <2>2. pc' \in [Threads -> {"idle"} \cup PoolPCs \cup BlockPCs]
      BY <2>1, <1>2 DEF BlkTypes
    <2> QED BY <2>2, <1>0 DEF BlkTypes
  <1>4. Sharing'
    <2>1. \A u \in Threads : pc'[u] # "idle" => call'[u] \in Calls
      BY <1>0 DEF Sharing
    <2>2. \A u \in Threads : pc'[u] \in PoolPCs => call'[u].op \in PoolOps \cup {"close"}
      BY <1>0, <1>2 DEF Sharing
    <2>3. ASSUME NEW u \in Threads, NEW v \in Threads, u # v, pc'[u] # "idle", pc'[v] # "idle",
                 P(u)' = P(v)'
          PROVE  pc'[u] \in BlockPCs
      <3>1. CASE u # t /\ v # t
        BY <3>1, <2>3, <1>0 DEF Sharing
      <3>2. CASE v = t
        <4>1. u \in Using(c.pool) /\ pc[u] # "idle"
          BY <3>2, <2>3, <1>0 DEF Using, P
        <4>2. call[u].op \notin PoolOps \cup {"close"}
          BY <4>1, <1>1
        <4>3. pc[u] \notin PoolPCs
          BY <4>2 DEF Sharing
        <4> QED BY <4>1, <4>3, <3>2, <2>3, <1>0 DEF BlkTypes
      <3>3. CASE u = t
        <4>1. v \in Using(c.pool)
          BY <3>3, <2>3, <1>0 DEF Using, P
        <4>2. c.op \in BlockOps
          BY <4>1, <1>1
        <4> QED BY <4>2, <1>2, <3>3
      <3> QED BY <3>1, <3>2, <3>3
    <2> QED BY <2>1, <2>2, <2>3 DEF Sharing
  <1>5. Handles'
    <2>1. \A p \in Pools : HandleSound(p) => HandleSound(p)'
      BY <1>0 DEF HandleSound
    <2>2. \A p \in Pools : handle'[p] # None => HandleSound(p)'
      BY <2>1, <1>0 DEF Handles
    <2>3. ASSUME NEW u \in Threads, pc'[u] \in BlockPCs PROVE HandleSound(P(u))'
      <3> DEFINE p == P(u)
      <3>1. CASE u = t
        <4>1. handle'[c.pool] # None
          BY <1>0, <1>1, <1>2, <2>3, <3>1 DEF PoolOps, BlockOps
        <4>2. HandleSound(c.pool)'
          BY <4>1, <2>2, <1>0
        <4> QED BY <4>2, <1>0, <3>1
      <3>2. CASE u # t
        <4>1. pc[u] \in BlockPCs /\ pc[u] # "idle" /\ P(u)' = p
          BY <3>2, <2>3, <1>0 DEF BlockPCs, InLane
        <4>2. p \in Pools /\ HandleSound(p)
          BY <4>1, CallPools DEF Sharing, Handles, P
        <4> QED BY <4>1, <4>2, <2>1
      <3> QED BY <3>1, <3>2
    <2> QED BY <2>2, <2>3 DEF Handles
  <1>6. LaneHeld'
    BY <1>0, <1>2 DEF LaneHeld
  <1> QED BY <1>3, <1>4, <1>5, <1>6

\* What the three lane operations have in common: thread t goes on from one
\* step of a block operation to another, and the other pools stay as they are.
LEMMA BlkLane ==
  ASSUME BlkInv, NEW t \in Threads, NEW q \in {"lock", "block", "idle"}, NEW p0, p0 = P(t),
         pc[t] \in BlockPCs, pc' = [pc EXCEPT ![t] = q],
         \/ q = "idle" /\ call' = [call EXCEPT ![t] = None]
         \/ q # "idle" /\ UNCHANGED call,
         BlkTypes', HandleSound(p0)', handle'[p0].nlane = handle[p0].nlane,
         \A p \in Pools \ {p0} : handle'[p] = handle[p] /\ locks'[p] = locks[p]
  PROVE  /\ Sharing' /\ Handles' /\ p0 \in Pools
         /\ \A u \in Threads : u # t => pc'[u] = pc[u] /\ P(u)' = P(u)
         /\ \A u \in Threads : pc[u] \in BlockPCs => P(u) \in Pools
  <1> USE DEF BlkInv
  <1>0. /\ \A u \in Threads : pc[u] \in BlockPCs => P(u) \in Pools
        /\ p0 \in Pools /\ pc[t] # "idle"
    BY CallPools DEF Sharing, P, BlockPCs, InLane
  <1>1. /\ \A u \in Threads : u # t => pc'[u] = pc[u] /\ call'[u] = call[u] /\ P(u)' = P(u)
        /\ pc'[t] = q /\ q \notin PoolPCs
        /\ q # "idle" => q \in BlockPCs /\ call'[t] = call[t] /\ P(t)' = P(t)
    BY DEF BlkTypes, PoolPCs, BlockPCs, InLane, P
  <1>2. Sharing'
    BY <1>0, <1>1 DEF Sharing
  <1>3. \A p \in Pools : HandleSound(p) => HandleSound(p)'
    BY DEF HandleSound
  <1>4. Handles'
    <2>1. \A p \in Pools : handle'[p] # None => HandleSound(p)'
      BY <1>3 DEF Handles
    <2>2. ASSUME NEW u \in Threads, pc'[u] \in BlockPCs PROVE HandleSound(P(u))'
      <3> DEFINE p == P(u)
      <3>1. pc[u] \in BlockPCs /\ P(u)' = p
        BY <1>1, <2>2 DEF BlockPCs, InLane
      <3>2. p \in Pools /\ HandleSound(p)
        BY <3>1, <1>0 DEF Handles
      <3> QED BY <3>1, <3>2, <1>3
    <2> QED BY <2>1, <2>2 DEF Handles
  <1> QED BY <1>0, <1>1, <1>2, <1>4

LEMMA BlkLaneEnter ==
  ASSUME BlkInv, NEW t \in Threads, LaneEnter(t)
  PROVE  BlkInv'
  <1> USE DEF BlkInv
  <1> DEFINE p0 == P(t)
  <1>1. /\ pc[t] \in BlockPCs /\ pc[t] = "enter" /\ pc' = [pc EXCEPT ![t] = "lock"]
        /\ UNCHANGED <<locks, call>>
        /\ lane' = [lane EXCEPT ![t] = handle[p0].next_lane % handle[p0].nlane]
        /\ handle' = [handle EXCEPT ![p0] = [handle[p0] EXCEPT !.next_lane = @ + 1]]
    BY DEF LaneEnter, Goto, BlockPCs, H
  <1>2. HandleSound(p0) /\ p0 \in Pools
    BY <1>1, CallPools DEF Sharing, Handles, P, BlockPCs, InLane
  <1>3. handle[p0].next_lane % handle[p0].nlane \in 0 .. handle[p0].nlane - 1
    BY <1>2 DEF HandleSound
  <1>4. /\ \A p \in Pools \ {p0} : handle'[p] = handle[p] /\ locks'[p] = locks[p]
        /\ handle'[p0].nlane = handle[p0].nlane /\ handle'[p0].next_lane = handle[p0].next_lane + 1
        /\ DOMAIN handle'[p0] = DOMAIN handle[p0]
    BY <1>1, <1>2 DEF BlkTypes, HandleSound
  <1>5. BlkTypes'
    <2>1. lane' \in [Threads -> Nat]
      BY <1>1, <1>3 DEF BlkTypes
    <2>2. pc' \in [Threads -> {"idle"} \cup PoolPCs \cup BlockPCs]
      BY <1>1 DEF BlkTypes, BlockPCs
    <2>3. handle' = [p \in Pools |-> handle'[p]]
      BY <1>1 DEF BlkTypes
    <2> QED BY <2>1, <2>2, <2>3, <1>1 DEF BlkTypes
  <1>6. ASSUME NEW p1, p1 = p0
        PROVE  HandleSound(p1)'
    BY <1>2, <1>4, <1>6, <1>1 DEF HandleSound
  <1>7. ASSUME NEW p1, p1 = p0
        PROVE  BlkInv'
    <2>1. /\ Sharing' /\ Handles'
          /\ \A u \in Threads : u # t => pc'[u] = pc[u] /\ P(u)' = P(u)
          /\ \A u \in Threads : pc[u] \in BlockPCs => P(u) \in Pools
      <3>1. HandleSound(p1)' /\ handle'[p1].nlane = handle[p1].nlane
        BY <1>6, <1>7, <1>4
      <3> QED BY <3>1, <1>1, <1>4, <1>5, <1>7, BlkLane
    <2>2. pc'[t] = "lock" /\ P(t)' = p0 /\ lane'[t] = handle[p0].next_lane % handle[p0].nlane
      BY <1>1 DEF BlkTypes, P
    <2>3. \A u \in Threads : u # t => lane'[u] = lane[u]
      BY <1>1 DEF BlkTypes
    <2>4. \A p \in Pools : handle'[p].nlane = handle[p].nlane
      BY <1>4
    <2>5. \A u \in Threads : pc'[u] \in {"lock"} \cup InLane => lane'[u] \in 0 .. handle'[P(u)'].nlane - 1
      BY <2>1, <2>2, <2>3, <2>4, <1>2, <1>3 DEF LaneHeld, BlockPCs
    <2>6. \A u \in Threads : pc'[u] \in InLane => locks'[P(u)'][lane'[u]] = u
      BY <2>1, <2>2, <2>3, <1>1 DEF LaneHeld, InLane
    <2> QED BY <2>1, <2>5, <2>6, <1>5 DEF LaneHeld
  <1> QED BY <1>7

\* LaneLock takes a lock that was free, LaneExit gives up the caller's own, so
\* the locks of the other calls stay theirs.
LEMMA BlkLaneLock ==
  ASSUME BlkInv, NEW t \in Threads, LaneLock(t) \/ LaneExit(t)
  PROVE  BlkInv'
  <1> USE BlkAssumption DEF BlkInv
  <1> DEFINE p0 == P(t)
             l0 == lane[t]
  <1>1. PICK q \in {"block", "idle"}, w \in Threads \cup {None} :
          /\ pc[t] \in BlockPCs /\ pc[t] \in {"lock"} \cup InLane /\ pc' = [pc EXCEPT ![t] = q]
          /\ \/ q = "idle" /\ call' = [call EXCEPT ![t] = None] /\ lane' = [lane EXCEPT ![t] = 0]
             \/ q = "block" /\ UNCHANGED <<call, lane>>
          /\ UNCHANGED handle
          /\ locks' = [locks EXCEPT ![p0] = [locks[p0] EXCEPT ![l0] = w]]
          /\ q = "block" => w = t
          /\ locks[p0][l0] \in {None, t}
    <2>1. CASE LaneLock(t)
      <3>1. pc[t] = "lock"
        BY <2>1 DEF LaneLock, Goto
      <3> QED BY <2>1, <3>1 DEF LaneLock, Goto, BlockPCs
    <2>2. CASE LaneExit(t)
      <3>1. pc[t] = "exit" /\ pc[t] \in InLane
        BY <2>2 DEF LaneExit, Goto, InLane
      <3>2. locks[p0][l0] = t
        BY <3>1 DEF LaneHeld
      <3> QED BY <2>2, <3>1, <3>2 DEF LaneExit, Goto, BlockPCs, Leave
    <2> QED BY <2>1, <2>2
  <1>2. HandleSound(p0) /\ p0 \in Pools
    BY <1>1, CallPools DEF Sharing, Handles, P, BlockPCs, InLane
  <1>3. l0 \in 0 .. handle[p0].nlane - 1
    BY <1>1 DEF LaneHeld
  <1>4. /\ \A p \in Pools \ {p0} : locks'[p] = locks[p]
        /\ locks'[p0] \in [0 .. handle[p0].nlane - 1 -> Threads \cup {None}]
        /\ locks'[p0][l0] = w
        /\ \A l \in 0 .. handle[p0].nlane - 1 : l # l0 => locks'[p0][l] = locks[p0][l]
    BY <1>1, <1>2, <1>3 DEF BlkTypes, HandleSound
  <1>5. BlkTypes'
    <2>1. lane' \in [Threads -> Nat] /\ call' \in [Threads -> Calls \cup {None}]
      BY <1>1 DEF BlkTypes
    <2>2. pc' \in [Threads -> {"idle"} \cup PoolPCs \cup BlockPCs]
      BY <1>1 DEF BlkTypes, BlockPCs, InLane
    <2>3. locks' = [p \in Pools |-> locks'[p]]
      BY <1>1 DEF BlkTypes
    <2> QED BY <2>1, <2>2, <2>3, <1>1 DEF BlkTypes
  <1>6. ASSUME NEW p1, p1 = p0
        PROVE  BlkInv'
    <2>1. HandleSound(p1)' /\ handle'[p1].nlane = handle[p1].nlane
      BY <1>1, <1>2, <1>4, <1>6 DEF HandleSound
    <2>2. /\ Sharing' /\ Handles'
          /\ \A u \in Threads : u # t => pc'[u] = pc[u] /\ P(u)' = P(u)
          /\ \A u \in Threads : pc[u] \in BlockPCs => P(u) \in Pools
      BY <2>1, <1>1, <1>4, <1>5, <1>6, BlkLane
    <2>3. pc'[t] = q /\ (q = "block" => P(t)' = p0 /\ lane'[t] = l0)
      BY <1>1 DEF BlkTypes, P
    <2>4. \A u \in Threads : u # t => lane'[u] = lane[u]
      BY <1>1 DEF BlkTypes
    <2>5. \A u \in Threads : pc'[u] \in {"lock"} \cup InLane => lane'[u] \in 0 .. handle'[P(u)'].nlane - 1
      BY <2>2, <2>3, <2>4, <1>1, <1>3 DEF LaneHeld, BlockPCs, InLane
    <2>6. ASSUME NEW u \in Threads, pc'[u] \in InLane PROVE locks'[P(u)'][lane'[u]] = u
      <3>1. CASE u = t
        BY <3>1, <2>6, <2>3, <1>1, <1>4 DEF InLane
      <3>2. CASE u # t
        <4>1. pc[u] \in InLane /\ P(u)' = P(u) /\ lane'[u] = lane[u] /\ P(u) \in Pools
          BY <3>2, <2>6, <2>2, <2>4 DEF BlockPCs
        <4>2. locks[P(u)][lane[u]] = u /\ lane[u] \in 0 .. handle[P(u)].nlane - 1
          BY <4>1 DEF LaneHeld
        <4>3. P(u) = p0 => lane[u] # l0
          BY <4>2, <3>2, <1>1
        <4> QED BY <4>1, <4>2, <4>3, <1>4
      <3> QED BY <3>1, <3>2
    <2> QED BY <2>2, <2>5, <2>6, <1>5 DEF LaneHeld
  <1> QED BY <1>6

\* btt_init makes a lane and a lock of every free block, at most maxlane.
LEMMA BlkBttInit ==
  ASSUME BlkInv, NEW t \in Threads, BttInit(t)
  PROVE  BlkInv'
  <1> USE BlkAssumption
  <1> DEFINE check == call[t].op = "check"
             h == ReadLayout(F(t), check \/ util_feature_check(F(t)) = 0)
             k == IF h = None THEN << >> ELSE [l \in 0 .. h.nlane - 1 |-> None]
             q == IF h # None /\ check THEN "checking" ELSE "idle"
  <1>1. /\ pc[t] = "btt_init" /\ pc' = [pc EXCEPT ![t] = q]
        /\ handle' = [handle EXCEPT ![P(t)] = h] /\ locks' = [locks EXCEPT ![P(t)] = k]
        /\ IF h # None /\ check THEN UNCHANGED call ELSE call' = [call EXCEPT ![t] = None]
        /\ UNCHANGED lane
    BY DEF BttInit, Goto, Leave
  <1>2. h # None => /\ {"nlane", "next_lane"} \subseteq DOMAIN h
                    /\ h.nlane \in Nat \ {0} /\ h.next_lane \in Nat
    BY DEF ReadLayout
  <1> HIDE DEF h
  <1>3. h # None => k \in [0 .. h.nlane - 1 -> Threads \cup {None}]
    OBVIOUS
  <1>4. pc[t] \in PoolPCs
    BY <1>1 DEF PoolPCs
  <1>5. /\ q \in {"idle", "checking"}
        /\ \/ q = "idle" /\ call' = [call EXCEPT ![t] = None]
           \/ q = "checking" /\ UNCHANGED call
    BY <1>1
  <1> HIDE DEF k, q
  <1> QED BY <1>1, <1>2, <1>3, <1>4, <1>5, BlkReplace

\* Closing a pool, at the end of a check too.
LEMMA BlkClose ==
  ASSUME BlkInv, NEW t \in Threads, CheckPool(t) \/ pmemblk_close(t)
  PROVE  BlkInv'
  <1>1. /\ pc[t] \in PoolPCs /\ pc' = [pc EXCEPT ![t] = "idle"]
        /\ call' = [call EXCEPT ![t] = None] /\ UNCHANGED lane
        /\ handle' = [handle EXCEPT ![P(t)] = None] /\ locks' = [locks EXCEPT ![P(t)] = << >>]
    BY DEF CheckPool, pmemblk_close, Goto, Leave, PoolPCs
  <1> QED BY <1>1, BlkReplace

\* The steps of create, open and check before btt_init, and their failures.
LEMMA BlkOpening ==
  ASSUME BlkInv, NEW t \in Threads,
         \/ RdonlyError(t) \/ OpenFile(t) \/ InitBsize(t) \/ InitZeroed(t) \/ InitHdr(t)
         \/ InitSync(t) \/ OpenHdr(t)
  PROVE  BlkInv'
  <1>1. UNCHANGED <<handle, locks, lane>>
    BY DEF RdonlyError, OpenFile, InitBsize, InitZeroed, InitHdr, InitSync, OpenHdr, Fail, handles
  <1>2. \/ pc' = [pc EXCEPT ![t] = "idle"] /\ call' = [call EXCEPT ![t] = None]
        \/ \E q \in PoolPCs : pc[t] \in PoolPCs /\ pc' = [pc EXCEPT ![t] = q] /\ UNCHANGED call
    <2>1. CASE RdonlyError(t)
      BY <2>1 DEF RdonlyError, Fail, Goto, Leave
    <2>2. CASE OpenFile(t)
      BY <2>2 DEF OpenFile, Fail, Goto, Leave, PoolPCs
    <2>3. CASE InitBsize(t)
      BY <2>3 DEF InitBsize, Fail, Goto, Leave, PoolPCs
    <2>4. CASE InitZeroed(t) \/ InitHdr(t) \/ InitSync(t)
      BY <2>4 DEF InitZeroed, InitHdr, InitSync, Goto, PoolPCs
    <2>5. CASE OpenHdr(t)
      BY <2>5 DEF OpenHdr, Fail, Goto, Leave, PoolPCs
    <2> QED BY <2>1, <2>2, <2>3, <2>4, <2>5
  <1>3. CASE pc' = [pc EXCEPT ![t] = "idle"] /\ call' = [call EXCEPT ![t] = None]
    BY <1>1, <1>3, BlkReturn
  <1>4. ASSUME NEW q \in PoolPCs, pc[t] \in PoolPCs, pc' = [pc EXCEPT ![t] = q], UNCHANGED call
        PROVE  BlkInv'
    BY <1>1, <1>4, BlkFrame
  <1> QED BY <1>2, <1>3, <1>4

\* The steps of a block operation within its lane.  Only read_arenas writes
\* to the handle, and it leaves the lanes alone.
LEMMA BlkInside ==
  ASSUME BlkInv, NEW t \in Threads,
         \/ Block(t) \/ Access(t) \/ LayoutLock(t) \/ ZeroMap(t) \/ WriteFlogs(t)
         \/ WriteInfo(t) \/ SyncInfo(t) \/ WriteBackup(t) \/ LayoutUnlock(t)
  PROVE  BlkInv'
  <1>1. UNCHANGED <<handle, locks, call, lane>> /\ \E q \in InLane : Goto(t, pc[t], q) /\ pc[t] \in InLane
    <2>1. CASE Block(t)
      <3> DEFINE q == IF call[t].lba >= H(t).nlba
                           \/ (~H(t).laidout /\ call[t].op \in {"read", "set_zero"})
                      THEN "exit" ELSE IF H(t).laidout THEN "access" ELSE "layout"
      <3>1. Goto(t, "block", q) /\ UNCHANGED <<handle, locks, call, lane>>
        BY <2>1 DEF Block, handles
      <3>2. q \in InLane /\ "block" \in InLane
        BY DEF InLane
      <3> HIDE DEF q
      <3> QED BY <3>1, <3>2 DEF Goto
    <2>2. CASE Access(t)
      <3>1. Goto(t, "access", "exit") /\ UNCHANGED <<handles, call, lane>>
        BY <2>2, Zenon DEF Access
      <3>2. UNCHANGED <<handle, locks>>
        BY <3>1 DEF handles
      <3> QED BY <3>1, <3>2 DEF Goto, InLane
    <2>3. CASE LayoutLock(t) \/ LayoutUnlock(t)
      <3>1. UNCHANGED <<handle, locks, call, lane>>
        BY <2>3 DEF LayoutLock, LayoutUnlock
      <3> QED BY <2>3, <3>1 DEF LayoutLock, LayoutUnlock, Goto, InLane
    <2>4. CASE ZeroMap(t)
      <3>1. Goto(t, "zero_map", "flogs") /\ UNCHANGED <<handle, locks, call, lane>>
        BY <2>4 DEF ZeroMap, handles
      <3> QED BY <3>1 DEF Goto, InLane
    <2>5. CASE WriteFlogs(t)
      <3>1. Goto(t, "flogs", "info") /\ UNCHANGED <<handle, locks, call, lane>>
        BY <2>5 DEF WriteFlogs, handles
      <3> QED BY <3>1 DEF Goto, InLane
    <2>6. CASE WriteInfo(t)
      <3>1. Goto(t, "info", "info_sync") /\ UNCHANGED <<handle, locks, call, lane>>
        BY <2>6 DEF WriteInfo, handles
      <3> QED BY <3>1 DEF Goto, InLane
    <2>7. CASE SyncInfo(t)
      <3>1. Goto(t, "info_sync", "backup") /\ UNCHANGED <<handle, locks, call, lane>>
        BY <2>7 DEF SyncInfo, handles
      <3> QED BY <3>1 DEF Goto, InLane
    <2>8. CASE WriteBackup(t)
      <3>1. /\ Goto(t, "backup", "zero_map") \/ Goto(t, "backup", "arenas")
            /\ UNCHANGED <<handle, locks, call, lane>>
        BY <2>8 DEF WriteBackup, handles
      <3> QED BY <3>1 DEF Goto, InLane
    <2> QED BY <2>1, <2>2, <2>3, <2>4, <2>5, <2>6, <2>7, <2>8
  <1>2. PICK q \in InLane : pc[t] \in InLane /\ pc' = [pc EXCEPT ![t] = q]
    BY <1>1 DEF Goto
  <1>3. (pc[t] \in InLane /\ q \in InLane) \/ (pc[t] \in PoolPCs /\ q \in PoolPCs)
    BY <1>2
  <1>4. UNCHANGED <<handle, locks, call, lane>>
    BY <1>1
  <1> QED BY <1>2, <1>3, <1>4, BlkFrame

LEMMA BlkReadArenas ==
  ASSUME BlkInv, NEW t \in Threads, ReadArenas(t)
  PROVE  BlkInv'
  <1> USE DEF BlkInv
  <1> DEFINE p0 == P(t)
             b0 == [handle[p0] EXCEPT !.laidout = TRUE]
  <1>1. /\ pc[t] = "arenas" /\ pc' = [pc EXCEPT ![t] = "unlock"] /\ UNCHANGED <<locks, call, lane>>
        /\ handle' = [handle EXCEPT ![p0] = b0]
    BY DEF ReadArenas, Goto
  <1>2. HandleSound(p0) /\ p0 \in Pools
    BY <1>1, CallPools DEF Sharing, Handles, P, BlockPCs, InLane
  <1>3. /\ b0.nlane = handle[p0].nlane /\ b0.next_lane = handle[p0].next_lane
        /\ DOMAIN b0 = DOMAIN handle[p0]
    BY <1>2 DEF HandleSound
  <1> HIDE DEF b0
  <1>4. /\ \A p \in Pools : p # p0 => handle'[p] = handle[p]
        /\ handle'[p0] = b0
    BY <1>1, <1>2 DEF BlkTypes
  <1>5. \A p \in Pools : /\ HandleSound(p) => HandleSound(p)'
                         /\ handle'[p].nlane = handle[p].nlane
    BY <1>1, <1>3, <1>4 DEF HandleSound
  <1>6. BlkTypes'
    <2>1. handle' = [p \in Pools |-> handle'[p]]
      BY <1>1 DEF BlkTypes
    <2> QED BY <2>1, <1>1 DEF BlkTypes, BlockPCs, InLane
  <1>7. \A u \in Threads : /\ pc'[u] # "idle" <=> pc[u] # "idle"
                           /\ pc'[u] \in BlockPCs <=> pc[u] \in BlockPCs
                           /\ pc'[u] \in PoolPCs <=> pc[u] \in PoolPCs
                           /\ pc'[u] \in InLane <=> pc[u] \in InLane
                           /\ pc'[u] = "lock" <=> pc[u] = "lock"
                           /\ P(u)' = P(u)
    BY <1>1 DEF BlkTypes, P, BlockPCs, InLane, PoolPCs
  <1>8. Sharing'
    BY <1>1, <1>7 DEF Sharing
  <1>9. \A u \in Threads : pc[u] \in BlockPCs => P(u) \in Pools
    BY CallPools DEF Sharing, P, BlockPCs, InLane
  <1>10. Handles'
    <2>1. \A p \in Pools : handle'[p] # None => HandleSound(p)'
      BY <1>2, <1>4, <1>5 DEF Handles
    <2>2. ASSUME NEW u \in Threads, pc'[u] \in BlockPCs PROVE HandleSound(P(u))'
      <3> DEFINE p == P(u)
      <3>1. p \in Pools /\ HandleSound(p) /\ P(u)' = p
        BY <2>2, <1>7, <1>9 DEF Handles
      <3> QED BY <3>1, <1>5
    <2> QED BY <2>1, <2>2 DEF Handles
  <1>11. LaneHeld'
    BY <1>1, <1>5, <1>7, <1>9 DEF LaneHeld, BlockPCs
  <1> QED BY <1>6, <1>8, <1>10, <1>11

LEMMA BlkCrash == ASSUME BlkInv, Crash PROVE BlkInv'
  <1>1. BlkTypes'
    BY DEF Crash, BlkTypes
  <1>2. Sharing' /\ Handles' /\ LaneHeld'
    BY DEF Crash, Sharing, Handles, LaneHeld, PoolPCs, BlockPCs, InLane
  <1> QED BY <1>1, <1>2 DEF BlkInv

LEMMA BlkStep == BlkInv /\ [Next]_vars => BlkInv'
  <1> SUFFICES ASSUME BlkInv, [Next]_vars PROVE BlkInv'
    OBVIOUS
  <1>1. ASSUME NEW t \in Threads, Step(t) PROVE BlkInv'
    BY <1>1, BlkOpening, BlkBttInit, BlkClose, BlkLaneEnter, BlkLaneLock, BlkInside,
       BlkReadArenas DEF Step
  <1>2. CASE UNCHANGED vars
    <2>1. UNCHANGED <<pc, call, lane, handle, locks>>
      BY <1>2 DEF vars, thread, handles
    <2> QED BY <2>1 DEF BlkInv, BlkTypes, Sharing, Handles, HandleSound, LaneHeld, P
  <1> QED BY <1>1, <1>2, BlkCall, BlkCrash DEF Next

\* No two calls of a pool work in one lane at the same time, however many
\* calls share how few lanes and whenever the pool was opened, closed or lost
\* to a power failure: what lane_enter and lane_exit promise (blk.c).
THEOREM LanesExclusive == Spec => []LaneExclusive
  <1>1. BlkInv => LaneExclusive
    BY DEF BlkInv, LaneHeld, LaneExclusive
  <1>2. Init /\ [][Next]_vars => []BlkInv
    BY BlkStart, BlkStep, PTL
  <1>3. Spec => Init /\ [][Next]_vars
    BY PTL DEF Spec
  <1> QED BY <1>1, <1>2, <1>3, PTL

-----------------------------------------------------------------------------
(* What the blocks of a pool hold.                                         *)

Flags   == {"initial", "zero", "error", "normal"}
Entries == [post : Nat, flag : Flags]
Fields  == DOMAIN NoFile

LBAsOf(f, a)   == 0 .. Infos(f)[a].external_nlba - 1
BlocksOf(f, a) == 0 .. Infos(f)[a].internal_nlba - 1
FlogLanes      == 0 .. NFREE - 1
Possible(f)    == LayoutPossible(Rawsize(f), f.bsize, NFREE)
LastArena(f)   == Narena(Rawsize(f))

\* The block that LBA x of arena a is mapped to.
PostOf(f, a, x) == IF f.map[a][x].flag = "initial" THEN x ELSE f.map[a][x].post

\* The areas of a file with block size.
ShapeOK(f) ==
  /\ DOMAIN f = Fields
  /\ f.size \in Sizes /\ f.size >= PMEMBLK_MIN_POOL /\ f.bsize \in Bsizes \ {0}
  /\ DOMAIN f.info = Arenas(f) /\ DOMAIN f.map = Arenas(f)
  /\ DOMAIN f.flog = Arenas(f) /\ DOMAIN f.data = Arenas(f)
  /\ \A a \in Arenas(f) :
       /\ f.info[a] \in {None, Infos(f)[a]}
       /\ f.map[a] \in [LBAsOf(f, a) -> Entries]
       /\ DOMAIN f.flog[a] = FlogLanes
       /\ DOMAIN f.data[a] = {DataBlockOff(Infos(f)[a], b) : b \in BlocksOf(f, a)}

FreshMap(f, a)  == \A x \in LBAsOf(f, a) : f.map[a][x] = InitialEntry
FreshFlog(f, a) == \A l \in FlogLanes : f.flog[a][l] = Infos(f)[a].external_nlba + l

\* Every block of the arena is mapped to by one LBA or free in one lane.
ArenaSound(f, a) ==
  /\ \A x \in LBAsOf(f, a) : PostOf(f, a, x) \in BlocksOf(f, a)
  /\ \A l \in FlogLanes : f.flog[a][l] \in BlocksOf(f, a)
  /\ \A x, y \in LBAsOf(f, a) : PostOf(f, a, x) = PostOf(f, a, y) => x = y
  /\ \A l, k \in FlogLanes : f.flog[a][l] = f.flog[a][k] => l = k
  /\ \A x \in LBAsOf(f, a), l \in FlogLanes : PostOf(f, a, x) # f.flog[a][l]
  /\ \A b \in BlocksOf(f, a) : \/ \E x \in LBAsOf(f, a) : PostOf(f, a, x) = b
                              \/ \E l \in FlogLanes : f.flog[a][l] = b

\* The blocks of f hold c.
Holds(f, c) == \A x \in LBAs : x < SumNlba(Infos(f)) => BlockOf(f, TRUE, x) = c[x]

\* Without a complete layout the last arena has no info block, and the map of
\* a file that was zeroed is still zero; with one the blocks hold c.
FileOK(f, c) ==
  /\ ShapeOK(f)
  /\ (\E a \in Arenas(f) : Valid(f, a)) => Possible(f)
  /\ Valid(f, LastArena(f)) => AllValid(f)
  /\ (~f.raw /\ ~AllValid(f)) => \A a \in Arenas(f) : FreshMap(f, a)
  /\ AllValid(f) => (\A a \in Arenas(f) : ArenaSound(f, a)) /\ Holds(f, c)

AllZero(c) == \A x \in LBAs : c[x] = Zero

\* What the handle of an open pool knows of its file.
HandleOK(p) ==
  /\ file[p].hdr = "valid"
  /\ {"laidout", "nlba", "narena", "nlane", "next_lane"} \subseteq DOMAIN handle[p]
  /\ handle[p].nlba = SumNlba(Infos(file[p])) /\ handle[p].narena = LastArena(file[p])
  /\ handle[p].nlane <= NFREE
  /\ handle[p].laidout => AllValid(file[p])
  /\ ~handle[p].laidout => /\ Possible(file[p]) /\ AllZero(contents[p])
                           /\ layout_lock[p] = None => ~AllValid(file[p])
  /\ file[p].raw => ~ns_is_zeroed

\* The file of a pool, and what its blocks should hold.
PoolOK(p) ==
  /\ DOMAIN file[p] = Fields
  /\ file[p].exists => file[p].size \in Sizes
  /\ ~file[p].exists => file[p].hdr = "zero"
  /\ file[p].raw => ~file[p].is_zeroed /\ \E k \in Files : k.kind = "raw" /\ k.size = file[p].size
  /\ file[p].hdr # "zero" => FileOK(file[p], contents[p])
  /\ contents[p] \in [LBAs -> Values \cup {Zero, EIO}]
  /\ (file[p].hdr # "valid" \/ ~AllValid(file[p])) => AllZero(contents[p])
  /\ handle[p] # None => HandleOK(p)

OpeningPCs == PoolPCs \ {"checking", "close"}
InitPCs    == {"init", "init_zeroed", "init_hdr"}

\* A call that creates, opens or checks a pool.
OpeningOK(t) ==
  /\ pc[t] \in OpeningPCs => handle[P(t)] = None
  /\ pc[t] \in InitPCs => /\ F(t).exists /\ F(t).size >= PMEMBLK_MIN_POOL
                          /\ call[t].size # 0 => ~F(t).raw
  /\ pc[t] \in {"init_zeroed", "init_hdr"} => FileOK(F(t), contents[P(t)]) /\ F(t).hdr = "zero"
  /\ pc[t] = "init_sync" => F(t).hdr = "torn"
  /\ pc[t] = "btt_init" => F(t).hdr = "valid"
  /\ pc[t] = "checking" => HandleOK(P(t))

LayingPCs == {"zero_map", "flogs", "info", "info_sync", "backup", "arenas"}

\* A call in write_layout works on arena at[t]; it has laid out those before.
Done(t) == IF pc[t] = "arenas" THEN 1 .. LastArena(F(t))
           ELSE IF pc[t] = "backup" THEN 1 .. at[t] ELSE 1 .. (at[t] - 1)
LayingOK(t) ==
  /\ ~H(t).laidout
  /\ at[t] \in 1 .. LastArena(F(t))
  /\ pc[t] = "arenas" => at[t] = 1
  /\ \A a \in Done(t) : Valid(F(t), a) /\ FreshMap(F(t), a) /\ FreshFlog(F(t), a)
  /\ pc[t] \in {"flogs", "info", "info_sync"} => FreshMap(F(t), at[t])
  /\ pc[t] \in {"info", "info_sync"} => FreshFlog(F(t), at[t])
  /\ LastArena(F(t)) \notin Done(t) => ~Valid(F(t), LastArena(F(t)))

\* A call on a block.
BlockOK(t) ==
  /\ HandleOK(P(t)) /\ call[t].op \in BlockOps
  /\ pc[t] \in LayingPCs \cup {"access", "layout", "unlock"} => call[t].lba < H(t).nlba
  /\ pc[t] \in {"access", "unlock"} => H(t).laidout
  /\ pc[t] \in LayingPCs \cup {"unlock"} => layout_lock[P(t)] = t
  /\ pc[t] \in LayingPCs => LayingOK(t)
  /\ pc[t] \notin LayingPCs => at[t] = 1

KeepTypes ==
  /\ file = [p \in Pools |-> file[p]] /\ contents = [p \in Pools |-> contents[p]]
  /\ layout_lock = [p \in Pools |-> layout_lock[p]] /\ at \in [Threads -> Nat]
  /\ ret = [t \in Threads |-> ret[t]]

\* What a thread is doing fits the pool that it works on.
ThreadOK(t) ==
  /\ OpeningOK(t)
  /\ pc[t] \in BlockPCs => BlockOK(t)
  /\ pc[t] \notin BlockPCs => at[t] = 1
  /\ ret[t] \notin {"inconsistent", "unreadable"}

\* The inductive invariant.
KeepInv ==
  /\ BlkInv /\ KeepTypes
  /\ \A p \in Pools : PoolOK(p)
  /\ \A t \in Threads : ThreadOK(t)

-----------------------------------------------------------------------------
(* The layout of a file.                                                   *)

\* A quotient is at most the dividend.
LEMMA DivBound ==
  ASSUME NEW a \in Int, NEW b \in Nat \ {0}
  PROVE  a \div b \in Int /\ (a \div b) * b <= a /\ a < (a \div b) * b + b
  OBVIOUS

\* A file of a pool has at least one arena.
LEMMA NarenaIs ==
  ASSUME NEW r \in Nat, r >= BTT_MIN_SIZE
  PROVE  /\ Narena(r) \in Nat \ {0}
         /\ r < BTT_MAX_ARENA + BTT_MIN_SIZE => Narena(r) = 1
  <1> USE FormatAssumption
  <1>0. BTT_MAX_ARENA \in Nat \ {0} /\ BTT_MIN_SIZE \in Nat \ {0} /\ BTT_MIN_SIZE <= BTT_MAX_ARENA
    OBVIOUS
  <1> DEFINE M == BTT_MAX_ARENA
             d == r \div M
             m == r % M
  <1>1. d \in Nat /\ m \in 0 .. M - 1 /\ r = M * d + m
    BY <1>0
  <1>2. Narena(r) = d + (IF m >= BTT_MIN_SIZE THEN 1 ELSE 0)
    BY DEF Narena
  <1> HIDE DEF d, m, M
  <1>3. CASE d = 0
    <2>1. m = r
      BY <1>1, <1>3, <1>0 DEF M
    <2> QED BY <2>1, <1>2, <1>3, <1>1
  <1>4. CASE d = 1
    <2>1. r = M + m
      BY <1>1, <1>4, <1>0 DEF M
    <2> QED BY <2>1, <1>2, <1>4, <1>1, <1>0 DEF M
  <1>5. CASE d >= 2
    <2>1. M * d >= M * 2
      BY <1>0, <1>1, <1>5 DEF M
    <2>2. r >= M * 2
      BY <2>1, <1>1, <1>0 DEF M
    <2> QED BY <2>2, <1>0, <1>1, <1>2, <1>5 DEF M
  <1> QED BY <1>3, <1>4, <1>5, <1>1

\* The table of layouts holds the layout of every file with a block size.
LEMMA InfosIs ==
  ASSUME NEW f, f.size \in Sizes, f.size >= PMEMBLK_MIN_POOL, f.bsize \in Bsizes \ {0}
  PROVE  /\ Rawsize(f) \in Nat /\ Rawsize(f) >= BTT_MIN_SIZE
         /\ LastArena(f) \in Nat \ {0} /\ Arenas(f) = 1 .. LastArena(f)
         /\ <<Rawsize(f), f.bsize>> \in DOMAIN LayoutTable
         /\ Infos(f) = Layout(Rawsize(f), f.bsize, NFREE)
         /\ \A a \in Arenas(f) : /\ Infos(f)[a] # None
                                 /\ Infos(f)[a] = ArenaInfo(Rawsize(f), f.bsize, NFREE, a)
  <1> USE BlkAssumption, FilesAssumption, FormatAssumption
  <1>1. f.size \in Nat
    BY DEF Sizes
  <1>2. Rawsize(f) \in Nat /\ Rawsize(f) >= BTT_MIN_SIZE
    BY <1>1 DEF Rawsize
  <1>3. LastArena(f) \in Nat \ {0}
    BY <1>2, NarenaIs DEF LastArena
  <1>4. Arenas(f) = 1 .. LastArena(f)
    BY <1>1 DEF Arenas, LastArena
  <1>5. <<Rawsize(f), f.bsize>> \in {<<n - DataOff, b>> : n \in Sizes, b \in Bsizes}
    <2>1. Rawsize(f) = f.size - DataOff /\ f.size \in Sizes /\ f.bsize \in Bsizes
      BY DEF Rawsize
    <2>2. \A k \in Sizes, c \in Bsizes : <<k - DataOff, c>> \in {<<n - DataOff, b>> : n \in Sizes, b \in Bsizes}
      BY SMT
    <2>3. <<f.size - DataOff, f.bsize>> \in {<<n - DataOff, b>> : n \in Sizes, b \in Bsizes}
      BY ONLY <2>1, <2>2
    <2> QED BY ONLY <2>1, <2>3
  <1>6. /\ <<Rawsize(f), f.bsize>> \in DOMAIN LayoutTable
        /\ LayoutTable[<<Rawsize(f), f.bsize>>] = Layout(Rawsize(f), f.bsize, NFREE)
    BY <1>5, <1>2 DEF LayoutTable
  <1>7. Infos(f) = Layout(Rawsize(f), f.bsize, NFREE)
    BY <1>6 DEF Infos
  <1>8. DOMAIN Infos(f) = Arenas(f)
    BY <1>7, <1>4 DEF Layout, LastArena
  <1>9. \A a \in Arenas(f) : Infos(f)[a] # None
    BY <1>6, <1>8, CodesApart DEF Infos
  <1>10. \A a \in Arenas(f) : Infos(f)[a] = ArenaInfo(Rawsize(f), f.bsize, NFREE, a)
    BY <1>7, <1>4 DEF Layout, LastArena
  <1> QED BY <1>2, <1>3, <1>4, <1>6, <1>7, <1>9, <1>10

\* Rounding up.
LEMMA RoundupIs ==
  ASSUME NEW x \in Nat, NEW y \in Nat \ {0}
  PROVE  roundup(x, y) \in Nat /\ roundup(x, y) >= x
  <1> DEFINE d == (x + y - 1) \div y
  <1>1. d \in Int /\ d * y <= x + y - 1 /\ x + y - 1 < d * y + y
    BY DivBound
  <1>2. roundup(x, y) = d * y
    BY DEF roundup
  <1> HIDE DEF d
  <1>3. d * y \in Int
    BY <1>1
  <1> QED BY <1>1, <1>2, <1>3

\* Products grow with a factor.
LEMMA TimesMono ==
  ASSUME NEW a \in Nat, NEW b \in Nat, a <= b, NEW c \in Nat
  PROVE  a * c \in Nat /\ b * c \in Nat /\ a * c <= b * c
  OBVIOUS

\* The size of a block in an arena.
LEMMA LbasizeIs ==
  ASSUME NEW b \in Nat
  PROVE  InternalLbasize(b) \in Nat \ {0}
  <1> USE FormatAssumption
  <1> DEFINE s == IF b < BTT_MIN_LBA_SIZE THEN BTT_MIN_LBA_SIZE ELSE b
  <1>1. s \in Nat \ {0} /\ BTT_INTERNAL_LBA_ALIGNMENT \in Nat \ {0}
    OBVIOUS
  <1>2. InternalLbasize(b) = roundup(s, BTT_INTERNAL_LBA_ALIGNMENT)
    BY DEF InternalLbasize
  <1> HIDE DEF s
  <1>3. roundup(s, BTT_INTERNAL_LBA_ALIGNMENT) \in Nat /\ roundup(s, BTT_INTERNAL_LBA_ALIGNMENT) >= s
    BY <1>1, RoundupIs
  <1> QED BY <1>1, <1>2, <1>3

\* An arena that can be laid out: its free blocks come on top of those for
\* callers, all within the raw size, and its map has room for its entries.
LEMMA ArenaIs ==
  ASSUME NEW f, f.size \in Sizes, f.size >= PMEMBLK_MIN_POOL, f.bsize \in Bsizes \ {0},
         Possible(f), NEW a \in Arenas(f)
  PROVE  /\ Infos(f)[a].external_nlba \in Nat \ {0}
         /\ Infos(f)[a].internal_nlba = Infos(f)[a].external_nlba + NFREE
         /\ Infos(f)[a].internal_lbasize \in Nat \ {0}
         /\ Infos(f)[a].mapoff \in Int /\ Infos(f)[a].mapsize \in Nat
         /\ Infos(f)[a].mapsize >= Infos(f)[a].external_nlba * BTT_MAP_ENTRY_SIZE
         /\ Infos(f)[a].internal_nlba * Infos(f)[a].internal_lbasize <= ArenaRawsize(Rawsize(f), a)
         /\ ArenaRawsize(Rawsize(f), a) <= BTT_MAX_ARENA /\ ArenaRawsize(Rawsize(f), a) <= Rawsize(f)
  <1> USE FormatAssumption, BlkAssumption
  <1>0. /\ Rawsize(f) \in Nat /\ Arenas(f) = 1 .. LastArena(f) /\ LastArena(f) \in Nat
        /\ Infos(f)[a] = ArenaInfo(Rawsize(f), f.bsize, NFREE, a)
    BY InfosIs
  <1> DEFINE r == Rawsize(f)
             raw == ArenaRawsize(r, a)
             L == InternalLbasize(f.bsize)
             m == BTT_MAP_ENTRY_SIZE
             I == InternalNlba(raw, f.bsize, NFREE)
             fl == FlogSize(NFREE)
             E == I - NFREE
             ms == roundup(E * m, BTT_ALIGNMENT)
  <1>1. a \in Nat \ {0} /\ r \in Nat
    BY <1>0
  <1>2. raw \in Int /\ raw <= BTT_MAX_ARENA /\ raw <= r
    <2>1. (a - 1) * BTT_MAX_ARENA \in Nat
      BY <1>1
    <2> HIDE DEF r
    <2> QED BY <1>1, <2>1 DEF ArenaRawsize
  <1>3. L \in Nat \ {0} /\ m \in Nat \ {0} /\ L + m \in Nat \ {0}
    <2>1. f.bsize \in Nat
      OBVIOUS
    <2>2. L \in Nat \ {0}
      BY <2>1, LbasizeIs
    <2> QED BY <2>2
  <1>4. fl \in Nat
    <2>1. NFREE * FlogPairSize \in Nat
      OBVIOUS
    <2> QED BY <2>1, RoundupIs DEF FlogSize
  <1> DEFINE avail == raw - 2 * InfoSize - fl - BTT_ALIGNMENT
  <1> HIDE DEF raw, L, m, fl
  <1>5. avail \in Int /\ avail <= raw
    BY <1>2, <1>4
  <1>6. I = avail \div (L + m)
    BY DEF InternalNlba, raw, L, m, fl
  <1>7. I \in Int /\ I * (L + m) <= avail
    <2> HIDE DEF avail
    <2> QED BY <1>5, <1>6, <1>3, DivBound
  <1>8. I >= 2 * NFREE
    BY <1>0 DEF Possible, LayoutPossible, LastArena, raw
  <1> HIDE DEF I, avail
  <1>9. I \in Nat /\ E \in Nat \ {0} /\ I = E + NFREE
    BY <1>7, <1>8
  <1>10. I * L \in Nat /\ I * m \in Nat /\ I * (L + m) = I * L + I * m
    BY <1>9, <1>3
  <1>11. I * L <= raw
    BY <1>10, <1>7, <1>5, <1>2
  <1>12. E * m \in Nat /\ ms \in Nat /\ ms >= E * m
    <2>1. E * m \in Nat
      BY <1>9, <1>3
    <2> HIDE DEF E
    <2> QED BY <2>1, RoundupIs
  <1> HIDE DEF r
  <1>13. /\ Infos(f)[a].external_nlba = E /\ Infos(f)[a].internal_nlba = I
         /\ Infos(f)[a].internal_lbasize = L /\ Infos(f)[a].mapsize = ms
         /\ Infos(f)[a].mapoff = raw - InfoSize - fl - ms
    BY <1>0 DEF ArenaInfo, r, raw, L, I, fl, m
  <1> HIDE DEF E, ms
  <1>14. raw = ArenaRawsize(Rawsize(f), a) /\ r = Rawsize(f) /\ m = BTT_MAP_ENTRY_SIZE
    BY DEF raw, r, m
  <1> QED BY <1>2, <1>3, <1>4, <1>9, <1>11, <1>12, <1>13, <1>14

\* Different blocks of an arena lie at different offsets.
LEMMA OffsetsApart ==
  ASSUME OffsetsFit, NEW f, f.size \in Sizes, f.size >= PMEMBLK_MIN_POOL, f.bsize \in Bsizes \ {0},
         Possible(f), NEW a \in Arenas(f), NEW b \in BlocksOf(f, a), NEW c \in BlocksOf(f, a),
         DataBlockOff(Infos(f)[a], b) = DataBlockOff(Infos(f)[a], c)
  PROVE  b = c
  <1> USE FormatAssumption, BlkAssumption
  <1> DEFINE L == Infos(f)[a].internal_lbasize
             I == Infos(f)[a].internal_nlba
  <1>1. /\ L \in Nat \ {0} /\ I \in Nat /\ I * L <= ArenaRawsize(Rawsize(f), a)
        /\ ArenaRawsize(Rawsize(f), a) <= BTT_MAX_ARENA /\ ArenaRawsize(Rawsize(f), a) <= Rawsize(f)
    BY ArenaIs
  <1>2. Rawsize(f) <= OffsetWrap \/ BTT_MAX_ARENA <= OffsetWrap
    BY DEF OffsetsFit, Rawsize
  <1>3. Rawsize(f) \in Nat
    BY InfosIs
  <1>4. I * L \in Nat /\ I * L <= OffsetWrap
    <2>1. ArenaRawsize(Rawsize(f), a) \in Int
      <3>0. Arenas(f) = 1 .. LastArena(f)
        BY InfosIs
      <3>1. a \in Int
        BY <3>0
      <3> QED BY <3>1, <1>3 DEF ArenaRawsize
    <2>2. I * L \in Nat
      BY <1>1
    <2> QED BY <2>1, <2>2, <1>1, <1>2, <1>3
  <1> HIDE DEF L, I
  <1>5. ASSUME NEW d \in 0 .. (I - 1) PROVE d * L \in 0 .. (OffsetWrap - 1) /\ (d * L) % OffsetWrap = d * L
    <2>1. (d + 1) * L <= I * L /\ (d + 1) * L \in Nat
      BY <1>1, TimesMono
    <2>2. (d + 1) * L = d * L + L /\ d * L \in Nat
      BY <1>1
    <2>3. d * L \in 0 .. (OffsetWrap - 1)
      BY <2>1, <2>2, <1>1, <1>4
    <2> HIDE DEF L
    <2> QED BY <2>3
  <1>6. b \in 0 .. (I - 1) /\ c \in 0 .. (I - 1) /\ (b * L) % OffsetWrap = (c * L) % OffsetWrap
    BY DEF BlocksOf, DataBlockOff, I, L
  <1>7. b * L = c * L
    BY <1>5, <1>6
  <1> QED BY <1>1, <1>6, <1>7

-----------------------------------------------------------------------------
(* The blocks of the arenas, one after the other: SumNlba and              *)
(* lba_to_arena_lba.                                                       *)

\* A set of naturals that is not empty has a least element.
LEMMA HasLeast ==
  ASSUME NEW S \in SUBSET Nat, S # {}
  PROVE  \E x \in S : \A y \in S : x <= y
  <1>0. IsWellFoundedOn({p \in Nat \X Nat : p[1] < p[2]}, Nat)
    BY NatLessThanWellFounded DEF OpToRel
  <1>1. PICK R : R = {p \in Nat \X Nat : p[1] < p[2]} /\ IsWellFoundedOn(R, Nat)
    BY <1>0
  <1>2. PICK x \in S : \A y \in S : ~ (<<y, x>> \in R)
    <2>1. IsWellFoundedOn(R, Nat) /\ S \subseteq Nat
      BY <1>1
    <2> QED BY ONLY <2>1, S # {}, WFMin
  <1>3. \A y \in S : ~ (y < x)
    BY <1>1, <1>2
  <1> QED BY <1>3

\* h has the sums of the first elements of e.
Running(e, n, h) ==
  h \in [0 .. n -> Int] /\ h[0] = 0 /\ \A i \in 1 .. n : h[i] = h[i - 1] + e[i]

\* There is a function of the running sums of e.
LEMMA RunningExists ==
  ASSUME NEW n \in Nat, NEW e, \A i \in 1 .. n : e[i] \in Int
  PROVE  \E h : Running(e, n, h)
  <1> DEFINE N == {k \in Nat : k <= n /\ \A h : ~Running(e, k, h)}
  <1>1. CASE n \notin N
    BY <1>1
  <1>2. CASE n \in N
    <2>1. N \in SUBSET Nat /\ N # {}
      BY <1>2
    <2>2. PICK k \in N : \A j \in N : k <= j
      BY <2>1, HasLeast
    <2>3. k # 0
      <3> DEFINE z == [i \in 0 .. 0 |-> 0]
      <3>1. Running(e, 0, z)
        BY DEF Running
      <3> QED BY <3>1
    <2>4. k - 1 \in Nat /\ k - 1 <= n /\ k \in 1 .. n /\ k - 1 \notin N
      BY <2>2, <2>3
    <2>5. PICK h : Running(e, k - 1, h)
      BY <2>4
    <2> DEFINE g == [i \in 0 .. k |-> IF i = k THEN h[k - 1] + e[k] ELSE h[i]]
    <2>6. g \in [0 .. k -> Int]
      <3>1. h[k - 1] \in Int /\ \A i \in 0 .. (k - 1) : h[i] \in Int
        BY <2>4, <2>5 DEF Running
      <3> QED BY <3>1, <2>4
    <2>7. g[0] = 0 /\ \A i \in 1 .. k : g[i] = g[i - 1] + e[i]
      BY <2>4, <2>5 DEF Running
    <2>8. Running(e, k, g)
      BY <2>6, <2>7 DEF Running
    <2> QED BY <2>8, <2>2
  <1> QED BY <1>1, <1>2

\* Two functions of running sums agree.
LEMMA RunningUnique ==
  ASSUME NEW n \in Nat, NEW e, NEW h, NEW g, g[0] = h[0],
         \A i \in 1 .. n : g[i] = g[i - 1] + e[i], \A i \in 1 .. n : h[i] = h[i - 1] + e[i]
  PROVE  \A i \in 0 .. n : g[i] = h[i]
  <1> SUFFICES ASSUME NEW k \in 0 .. n, g[k] # h[k] PROVE FALSE
    OBVIOUS
  <1> DEFINE N == {i \in 0 .. n : g[i] # h[i]}
  <1>1. N \in SUBSET Nat /\ N # {}
    OBVIOUS
  <1>2. PICK i \in N : \A j \in N : i <= j
    BY <1>1, HasLeast
  <1>3. i \in 1 .. n /\ i - 1 \in 0 .. n /\ i - 1 \notin N
    BY <1>2
  <1> QED BY <1>2, <1>3

\* The number of blocks of a file is the last running sum.
LEMMA SumNlbaIs ==
  ASSUME NEW n \in Nat, NEW s, Len(s) = n, NEW e, \A i \in 1 .. n : s[i].external_nlba = e[i],
         NEW h, Running(e, n, h)
  PROVE  SumNlba(s) = h[n]
  <1> DEFINE Sums(g) == g = [i \in 0 .. Len(s) |-> IF i = 0 THEN 0 ELSE g[i - 1] + s[i].external_nlba]
  <1>1. SumNlba(s) = (CHOOSE g : Sums(g))[Len(s)]
    BY Zenon DEF SumNlba
  <1>2. Sums(h)
    <2>1. h = [i \in 0 .. n |-> h[i]]
      BY DEF Running
    <2>2. \A i \in 0 .. n : h[i] = IF i = 0 THEN 0 ELSE h[i - 1] + s[i].external_nlba
      BY DEF Running
    <2> QED BY <2>1, <2>2
  <1>3. Sums(CHOOSE g : Sums(g))
    <2> HIDE DEF Sums
    <2> QED BY <1>2
  <1> PICK g : g = CHOOSE k : Sums(k)
    OBVIOUS
  <1>4. g = [i \in 0 .. n |-> IF i = 0 THEN 0 ELSE g[i - 1] + s[i].external_nlba]
    BY <1>3
  <1>5. g[0] = 0 /\ \A i \in 1 .. n : g[i] = g[i - 1] + e[i]
    <2> PICK w : w = [i \in 0 .. n |-> IF i = 0 THEN 0 ELSE g[i - 1] + s[i].external_nlba]
      OBVIOUS
    <2>1. w[0] = 0 /\ \A i \in 1 .. n : w[i] = g[i - 1] + e[i]
      OBVIOUS
    <2>2. g = w
      BY <1>4, Zenon
    <2> QED BY ONLY <2>1, <2>2
  <1>6. h[0] = 0 /\ \A i \in 1 .. n : h[i] = h[i - 1] + e[i]
    BY DEF Running
  <1>7. \A i \in 0 .. n : g[i] = h[i]
    <2>1. g[0] = h[0]
      BY <1>5, <1>6
    <2> QED BY ONLY n \in Nat, <2>1, <1>5, <1>6, RunningUnique
  <1> QED BY <1>1, <1>7

\* Every LBA below the sum is in one arena, at one place of it, and no other
\* LBA is there.
LEMMA PlaceIs ==
  ASSUME NEW n \in Nat, NEW s, s = [i \in 1 .. n |-> s[i]], \A i \in 1 .. n : s[i].external_nlba \in Nat
  PROVE  \E h : \A x \in Nat : x < SumNlba(s) =>
           /\ lba_to_arena_lba(s, x)[1] \in 1 .. n
           /\ lba_to_arena_lba(s, x)[2] \in 0 .. s[lba_to_arena_lba(s, x)[1]].external_nlba - 1
           /\ x = h[lba_to_arena_lba(s, x)[1]] + lba_to_arena_lba(s, x)[2]
           /\ h[lba_to_arena_lba(s, x)[1]] \in Int
  <1> DEFINE e == [i \in 1 .. n |-> s[i].external_nlba]
  <1>1. \A i \in 1 .. n : e[i] \in Nat /\ e[i] = s[i].external_nlba
    OBVIOUS
  <1> HIDE DEF e
  <1>2. PICK h : Running(e, n, h)
    <2>1. \A i \in 1 .. n : e[i] \in Int
      BY <1>1
    <2> QED BY <2>1, RunningExists
  <1>3. s \in Seq({s[i] : i \in 1 .. n}) /\ Len(s) = n
    OBVIOUS
  <1>4. SumNlba(s) = h[n]
    <2>1. \A i \in 1 .. n : s[i].external_nlba = e[i]
      BY <1>1
    <2>2. Len(s) = n
      BY <1>3
    <2> QED BY ONLY <2>1, <2>2, <1>2, n \in Nat, SumNlbaIs
  <1>5. ASSUME NEW j \in 0 .. n PROVE SumNlba(SubSeq(s, 1, j)) = h[j]
    <2> PICK q : q = SubSeq(s, 1, j)
      OBVIOUS
    <2>1. Len(q) = j /\ \A i \in 1 .. j : q[i] = s[i]
      BY <1>3
    <2>2. Running(e, j, [i \in 0 .. j |-> h[i]])
      BY <1>2 DEF Running
    <2> PICK g : g = [i \in 0 .. j |-> h[i]]
      OBVIOUS
    <2>3. Running(e, j, g) /\ g[j] = h[j]
      BY <2>2
    <2>4. \A i \in 1 .. j : q[i].external_nlba = e[i]
      BY <2>1, <1>1
    <2>5. j \in Nat /\ Len(q) = j
      BY <2>1
    <2>6. SumNlba(q) = g[j]
      BY ONLY <2>3, <2>4, <2>5, SumNlbaIs
    <2> QED BY <2>3, <2>6
  <1> DEFINE In(x, i) == SumNlba(SubSeq(s, 1, i - 1)) <= x
                           /\ x < SumNlba(SubSeq(s, 1, i - 1)) + s[i].external_nlba
             B == [i \in 1 .. n |-> h[i - 1]]
  <1>6. \A i \in 1 .. n : SumNlba(SubSeq(s, 1, i - 1)) = B[i] /\ B[i] \in Int
    <2> TAKE i \in 1 .. n
    <2>1. i - 1 \in 0 .. n
      OBVIOUS
    <2> QED BY <2>1, <1>5, <1>2 DEF Running
  <1>7. ASSUME NEW x \in Nat, x < SumNlba(s)
        PROVE  \E i \in 1 .. n : In(x, i)
    <2> DEFINE N == {j \in 0 .. n : x < h[j]}
    <2>1. N \in SUBSET Nat /\ N # {}
      BY <1>4, <1>7
    <2>2. PICK j \in N : \A k \in N : j <= k
      BY <2>1, HasLeast
    <2>3. j # 0
      BY <2>2, <1>2 DEF Running
    <2>4. j \in 1 .. n /\ j - 1 \in 0 .. n /\ j - 1 \notin N
      BY <2>2, <2>3
    <2>5. h[j - 1] <= x /\ x < h[j] /\ h[j] = h[j - 1] + e[j]
      BY <2>4, <2>2, <1>2 DEF Running
    <2>6. B[j] = h[j - 1] /\ e[j] = s[j].external_nlba
      BY <2>4, <1>1
    <2> QED BY <2>4, <2>5, <2>6, <1>6
  <1>8. ASSUME NEW x \in Nat, x < SumNlba(s)
        PROVE  /\ lba_to_arena_lba(s, x)[1] \in 1 .. n
               /\ lba_to_arena_lba(s, x)[2] \in 0 .. s[lba_to_arena_lba(s, x)[1]].external_nlba - 1
               /\ x = B[lba_to_arena_lba(s, x)[1]] + lba_to_arena_lba(s, x)[2]
               /\ B[lba_to_arena_lba(s, x)[1]] \in Int
    <2> PICK a : a = CHOOSE i \in 1 .. n : In(x, i)
      OBVIOUS
    <2>1. a \in 1 .. n /\ In(x, a)
      <3> HIDE DEF In
      <3> QED BY <1>7, <1>8
    <2>2. lba_to_arena_lba(s, x) = <<a, x - SumNlba(SubSeq(s, 1, a - 1))>>
      BY <1>3 DEF lba_to_arena_lba
    <2>3. SumNlba(SubSeq(s, 1, a - 1)) = B[a] /\ B[a] \in Int
      BY <2>1, <1>6
    <2>4. s[a].external_nlba \in Nat
      BY <2>1
    <2> PICK loc : loc = lba_to_arena_lba(s, x)
      OBVIOUS
    <2>5. loc = <<a, x - B[a]>>
      BY <2>2, <2>3
    <2> HIDE DEF B
    <2>6. loc[1] = a /\ loc[2] = x - B[a]
      BY <2>5
    <2>7. B[a] <= x /\ x < B[a] + s[a].external_nlba /\ a \in 1 .. n /\ B[a] \in Int
      BY <2>1, <2>3
    <2>8. loc[1] \in 1 .. n /\ loc[2] \in 0 .. s[loc[1]].external_nlba - 1 /\ x = B[loc[1]] + loc[2]
      BY ONLY <2>4, <2>6, <2>7, x \in Nat
    <2> HIDE DEF In
    <2> QED BY <2>8, <2>7, <2>6
  <1> HIDE DEF B
  <1> QED BY <1>8

\* Different LBAs are in different places, each in an arena of the file.
LEMMA Placed ==
  ASSUME NEW f, f.size \in Sizes, f.size >= PMEMBLK_MIN_POOL, f.bsize \in Bsizes \ {0}, Possible(f)
  PROVE  /\ \A x \in LBAs : x < SumNlba(Infos(f)) =>
              Place(f, x)[1] \in Arenas(f) /\ Place(f, x)[2] \in LBAsOf(f, Place(f, x)[1])
         /\ \A x, y \in LBAs :
              /\ x < SumNlba(Infos(f)) /\ y < SumNlba(Infos(f))
              /\ Place(f, x)[1] = Place(f, y)[1] /\ Place(f, x)[2] = Place(f, y)[2]
              => x = y
  <1> USE BlkAssumption
  <1>1. /\ <<Rawsize(f), f.bsize>> \in DOMAIN LayoutTable
        /\ LastArena(f) \in Nat /\ Arenas(f) = 1 .. LastArena(f)
        /\ Infos(f) = Layout(Rawsize(f), f.bsize, NFREE)
    BY InfosIs
  <1> DEFINE r == <<Rawsize(f), f.bsize>>
             n == LastArena(f)
  <1> PICK s : s = Infos(f)
    OBVIOUS
  <1>2. s = [i \in 1 .. n |-> s[i]]
    BY <1>1 DEF Layout, LastArena
  <1>3. \A i \in 1 .. n : s[i].external_nlba \in Nat
    BY <1>1, ArenaIs
  <1>4. PICK h : \A x \in Nat : x < SumNlba(s) =>
           /\ lba_to_arena_lba(s, x)[1] \in 1 .. n
           /\ lba_to_arena_lba(s, x)[2] \in 0 .. s[lba_to_arena_lba(s, x)[1]].external_nlba - 1
           /\ x = h[lba_to_arena_lba(s, x)[1]] + lba_to_arena_lba(s, x)[2]
           /\ h[lba_to_arena_lba(s, x)[1]] \in Int
    <2>1. n \in Nat
      BY <1>1
    <2> HIDE DEF n
    <2> QED BY ONLY <2>1, <1>2, <1>3, PlaceIs
  <1>5. \A x \in LBAs : x < SumNlba(s) => Place(f, x) = lba_to_arena_lba(s, x)
    <2> TAKE x \in LBAs
    <2>1. s = LayoutTable[r]
      BY DEF Infos
    <2>2. PlaceTable[r] = [y \in LBAs |->
            IF y < SumNlba(s) THEN lba_to_arena_lba(s, y) ELSE <<0, 0>>]
      <3>1. r \in DOMAIN LayoutTable
        BY <1>1
      <3> HIDE DEF r
      <3> QED BY <3>1, <2>1 DEF PlaceTable
    <2>3. Place(f, x) = PlaceTable[r][x]
      BY DEF Place
    <2> QED BY <2>2, <2>3
  <1>6. \A x \in LBAs : x \in Nat
    OBVIOUS
  <1>7. \A a : LBAsOf(f, a) = 0 .. s[a].external_nlba - 1
    BY DEF LBAsOf
  <1> HIDE DEF n
  <1>8. ASSUME NEW x \in LBAs, x < SumNlba(s)
        PROVE  /\ Place(f, x)[1] \in 1 .. n
               /\ Place(f, x)[2] \in 0 .. s[Place(f, x)[1]].external_nlba - 1
               /\ x = h[Place(f, x)[1]] + Place(f, x)[2] /\ h[Place(f, x)[1]] \in Int
    BY <1>4, <1>5, <1>6, <1>8
  <1>9. \A x \in LBAs : x < SumNlba(s) =>
          Place(f, x)[1] \in Arenas(f) /\ Place(f, x)[2] \in LBAsOf(f, Place(f, x)[1])
    BY <1>1, <1>7, <1>8 DEF n
  <1>10. \A x, y \in LBAs :
              /\ x < SumNlba(s) /\ y < SumNlba(s)
              /\ Place(f, x)[1] = Place(f, y)[1] /\ Place(f, x)[2] = Place(f, y)[2]
              => x = y
    <2> SUFFICES ASSUME NEW x \in LBAs, NEW y \in LBAs, x < SumNlba(s), y < SumNlba(s),
                        Place(f, x)[1] = Place(f, y)[1], Place(f, x)[2] = Place(f, y)[2]
                 PROVE  x = y
      OBVIOUS
    <2>1. x = h[Place(f, x)[1]] + Place(f, x)[2] /\ y = h[Place(f, y)[1]] + Place(f, y)[2]
      BY <1>8
    <2> QED BY <2>1
  <1> QED BY <1>9, <1>10

-----------------------------------------------------------------------------
(* The blocks of an arena.                                                 *)

\* A fresh map and fresh flogs name every block once.
LEMMA FreshIsSound ==
  ASSUME NEW f, f.size \in Sizes, f.size >= PMEMBLK_MIN_POOL, f.bsize \in Bsizes \ {0}, Possible(f),
         NEW a \in Arenas(f), FreshMap(f, a), FreshFlog(f, a)
  PROVE  ArenaSound(f, a)
  <1> USE BlkAssumption
  <1>1. /\ Infos(f)[a].external_nlba \in Nat \ {0}
        /\ Infos(f)[a].internal_nlba = Infos(f)[a].external_nlba + NFREE
    BY ArenaIs
  <1> PICK n : n = Infos(f)[a].external_nlba
    OBVIOUS
  <1>2. n \in Nat /\ LBAsOf(f, a) = 0 .. n - 1 /\ BlocksOf(f, a) = 0 .. n + NFREE - 1
    BY <1>1 DEF LBAsOf, BlocksOf
  <1>3. \A x \in 0 .. n - 1 : PostOf(f, a, x) = x
    BY <1>2 DEF FreshMap, PostOf, InitialEntry
  <1>4. \A l \in 0 .. NFREE - 1 : f.flog[a][l] = n + l
    BY DEF FreshFlog, FlogLanes
  <1>5. ASSUME NEW b \in 0 .. n + NFREE - 1
        PROVE  (\E x \in 0 .. n - 1 : PostOf(f, a, x) = b) \/ \E l \in 0 .. NFREE - 1 : f.flog[a][l] = b
    <2>1. CASE b < n
      BY <2>1, <1>2, <1>3
    <2>2. CASE b >= n
      <3>1. b - n \in 0 .. NFREE - 1
        BY <2>2, <1>2
      <3>2. f.flog[a][b - n] = n + (b - n)
        BY <3>1, <1>4
      <3>3. n + (b - n) = b
        BY <1>2
      <3> QED BY <3>1, <3>2, <3>3
    <2> QED BY <2>1, <2>2, <1>2
  <1>6. /\ \A x \in 0 .. n - 1 : PostOf(f, a, x) \in 0 .. n + NFREE - 1
        /\ \A l \in 0 .. NFREE - 1 : f.flog[a][l] \in 0 .. n + NFREE - 1
        /\ \A x, y \in 0 .. n - 1 : PostOf(f, a, x) = PostOf(f, a, y) => x = y
        /\ \A l, k \in 0 .. NFREE - 1 : f.flog[a][l] = f.flog[a][k] => l = k
        /\ \A x \in 0 .. n - 1, l \in 0 .. NFREE - 1 : PostOf(f, a, x) # f.flog[a][l]
    <2> DEFINE po(x) == PostOf(f, a, x)
    <2>1. n \in Nat
      BY <1>2
    <2>2. \A x \in 0 .. n - 1 : po(x) = x
      BY <1>3
    <2> HIDE DEF po
    <2>3. /\ \A x \in 0 .. n - 1 : po(x) \in 0 .. n + NFREE - 1
          /\ \A l \in 0 .. NFREE - 1 : f.flog[a][l] \in 0 .. n + NFREE - 1
          /\ \A x, y \in 0 .. n - 1 : po(x) = po(y) => x = y
          /\ \A l, k \in 0 .. NFREE - 1 : f.flog[a][l] = f.flog[a][k] => l = k
          /\ \A x \in 0 .. n - 1, l \in 0 .. NFREE - 1 : po(x) # f.flog[a][l]
      BY <2>1, <2>2, <1>4
    <2> QED BY <2>3 DEF po
  <1>7. \A b \in 0 .. n + NFREE - 1 : (\E x \in 0 .. n - 1 : PostOf(f, a, x) = b)
                                    \/ \E l \in 0 .. NFREE - 1 : f.flog[a][l] = b
    BY <1>5
  <1>8. LBAsOf(f, a) = 0 .. n - 1 /\ BlocksOf(f, a) = 0 .. n + NFREE - 1 /\ FlogLanes = 0 .. NFREE - 1
    BY <1>2 DEF FlogLanes
  <1> QED BY ONLY <1>6, <1>7, <1>8, Zenon DEF ArenaSound

\* btt_check counts the references to every block: one each.
LEMMA SoundChecks ==
  ASSUME NEW f, ShapeOK(f), Possible(f), NEW a \in Arenas(f), ArenaSound(f, a), f.info[a] = Infos(f)[a]
  PROVE  check_arena(f.info[a], f.map[a], f.flog[a]) = 1
  <1> PICK n : n = f.info[a].internal_nlba
    OBVIOUS
  <1> PICK map : map = f.map[a]
    OBVIOUS
  <1> PICK fl : fl = f.flog[a]
    OBVIOUS
  <1> DEFINE post(x) == IF map[x].flag = "initial" THEN x ELSE map[x].post
             inMap(b) == {x \in DOMAIN map : post(x) = b}
             inFlog(b) == {l \in DOMAIN fl : fl[l] = b}
  <1>1. DOMAIN map = LBAsOf(f, a) /\ DOMAIN fl = FlogLanes /\ BlocksOf(f, a) = 0 .. n - 1
    BY DEF ShapeOK, BlocksOf
  <1>2. \A x : post(x) = PostOf(f, a, x)
    BY DEF PostOf
  <1>3. n \in Nat
    BY ArenaIs, BlkAssumption DEF ShapeOK
  <1> HIDE DEF post
  <1>4. ~\E x \in DOMAIN map : post(x) >= n
    BY <1>1, <1>2, <1>3 DEF ArenaSound
  <1>5. ASSUME NEW b \in 0 .. n - 1
        PROVE  Cardinality(inMap(b)) + Cardinality(inFlog(b)) = 1
    <2>1. CASE \E x \in LBAsOf(f, a) : PostOf(f, a, x) = b
      <3>1. PICK x \in LBAsOf(f, a) : PostOf(f, a, x) = b
        BY <2>1
      <3>2. inMap(b) = {x} /\ inFlog(b) = {}
        BY <3>1, <1>1, <1>2 DEF ArenaSound
      <3>3. Cardinality({x}) = 1 /\ Cardinality({}) = 0
        BY FS_Singleton, FS_EmptySet
      <3>4. Cardinality(inMap(b)) = 1 /\ Cardinality(inFlog(b)) = 0
        BY ONLY <3>2, <3>3, Zenon
      <3> HIDE DEF inMap, inFlog
      <3> QED BY <3>4
    <2>2. CASE ~\E x \in LBAsOf(f, a) : PostOf(f, a, x) = b
      <3>1. PICK l \in FlogLanes : fl[l] = b
        BY <2>2, <1>1, <1>5 DEF ArenaSound
      <3>2. inMap(b) = {} /\ inFlog(b) = {l}
        BY <3>1, <2>2, <1>1, <1>2 DEF ArenaSound
      <3>3. Cardinality({l}) = 1 /\ Cardinality({}) = 0
        BY FS_Singleton, FS_EmptySet
      <3>4. Cardinality(inMap(b)) = 0 /\ Cardinality(inFlog(b)) = 1
        BY ONLY <3>2, <3>3, Zenon
      <3> HIDE DEF inMap, inFlog
      <3> QED BY <3>4
    <2> QED BY <2>1, <2>2
  <1>6. check_arena(f.info[a], f.map[a], f.flog[a]) =
          IF \E x \in DOMAIN map : post(x) >= n THEN -1
          ELSE IF \A b \in 0 .. n - 1 : Cardinality(inMap(b)) + Cardinality(inFlog(b)) = 1 THEN 1 ELSE 0
    BY Zenon DEF check_arena, post
  <1> HIDE DEF inMap, inFlog
  <1> QED BY <1>4, <1>5, <1>6

\* The same for functions: q has the mapped blocks, w the free ones.
OncePer(X, L, B, q, w) ==
  /\ \A x \in X : q[x] \in B
  /\ \A l \in L : w[l] \in B
  /\ \A x, y \in X : q[x] = q[y] => x = y
  /\ \A l, k \in L : w[l] = w[k] => l = k
  /\ \A x \in X, l \in L : q[x] # w[l]
  /\ \A b \in B : (\E x \in X : q[x] = b) \/ \E l \in L : w[l] = b

\* A lane that gives its free block to an LBA and takes the old one keeps every
\* block in one place.
LEMMA Exchange ==
  ASSUME NEW X, NEW L, NEW B, NEW q, NEW w, OncePer(X, L, B, q, w), NEW x \in X, NEW l \in L,
         NEW r, NEW v, \A y \in X : r[y] = IF y = x THEN w[l] ELSE q[y],
         \A k \in L : v[k] = IF k = l THEN q[x] ELSE w[k]
  PROVE  OncePer(X, L, B, r, v)
  <1>1. /\ \A y \in X : r[y] \in B
        /\ \A k \in L : v[k] \in B
    BY DEF OncePer
  <1>2. /\ \A y, z \in X : r[y] = r[z] => y = z
        /\ \A k, j \in L : v[k] = v[j] => k = j
    BY DEF OncePer
  <1>3. \A y \in X, k \in L : r[y] # v[k]
    BY DEF OncePer
  <1>4. \A b \in B : (\E y \in X : r[y] = b) \/ \E k \in L : v[k] = b
    <2> TAKE b \in B
    <2>1. CASE \E y \in X : q[y] = b
      <3>1. PICK y \in X : q[y] = b
        BY <2>1
      <3>2. CASE y = x
        BY <3>1, <3>2
      <3>3. CASE y # x
        BY <3>1, <3>3
      <3> QED BY <3>2, <3>3
    <2>2. CASE \E k \in L : w[k] = b
      <3>1. PICK k \in L : w[k] = b
        BY <2>2
      <3>2. CASE k = l
        BY <3>1, <3>2
      <3>3. CASE k # l
        BY <3>1, <3>3
      <3> QED BY <3>2, <3>3
    <2> QED BY <2>1, <2>2 DEF OncePer
  <1> QED BY <1>1, <1>2, <1>3, <1>4 DEF OncePer

\* A sound arena in those terms.
LEMMA SoundIsOnce ==
  ASSUME NEW f, NEW a, NEW q, \A x \in LBAsOf(f, a) : q[x] = PostOf(f, a, x)
  PROVE  ArenaSound(f, a) <=> OncePer(LBAsOf(f, a), FlogLanes, BlocksOf(f, a), q, f.flog[a])
  <1>1. \A x \in LBAsOf(f, a) : q[x] = PostOf(f, a, x)
    OBVIOUS
  <1>2. ArenaSound(f, a) => OncePer(LBAsOf(f, a), FlogLanes, BlocksOf(f, a), q, f.flog[a])
    BY <1>1 DEF ArenaSound, OncePer
  <1>3. OncePer(LBAsOf(f, a), FlogLanes, BlocksOf(f, a), q, f.flog[a]) => ArenaSound(f, a)
    BY <1>1 DEF ArenaSound, OncePer
  <1> QED BY <1>2, <1>3

-----------------------------------------------------------------------------
(* Stores to a file.                                                       *)

\* g is f with other bytes.
SameFormat(f, g) == DOMAIN g = Fields /\ g.size = f.size /\ g.bsize = f.bsize /\ (g.raw <=> f.raw)

\* What depends on the size and the block size alone.
LEMMA FormatKept ==
  ASSUME NEW f, NEW g, SameFormat(f, g)
  PROVE  /\ Rawsize(g) = Rawsize(f) /\ Infos(g) = Infos(f) /\ Arenas(g) = Arenas(f)
         /\ LastArena(g) = LastArena(f) /\ (Possible(g) <=> Possible(f))
         /\ \A x : Place(g, x) = Place(f, x)
         /\ \A a : LBAsOf(g, a) = LBAsOf(f, a) /\ BlocksOf(g, a) = BlocksOf(f, a)
  <1>1. Rawsize(g) = Rawsize(f) /\ g.bsize = f.bsize /\ g.size = f.size
    BY DEF SameFormat, Rawsize
  <1>2. Infos(g) = Infos(f) /\ \A x : Place(g, x) = Place(f, x)
    BY <1>1, Zenon DEF Infos, Place
  <1>3. Arenas(g) = Arenas(f) /\ LastArena(g) = LastArena(f) /\ (Possible(g) <=> Possible(f))
    BY <1>1, Zenon DEF Arenas, LastArena, Possible
  <1>4. \A a : LBAsOf(g, a) = LBAsOf(f, a) /\ BlocksOf(g, a) = BlocksOf(f, a)
    BY <1>2, Zenon DEF LBAsOf, BlocksOf
  <1> QED BY <1>1, <1>2, <1>3, <1>4

\* The arenas of a file.
LEMMA ShapeArenas ==
  ASSUME NEW f, ShapeOK(f)
  PROVE  /\ LastArena(f) \in Nat \ {0} /\ Arenas(f) = 1 .. LastArena(f) /\ LastArena(f) \in Arenas(f)
         /\ 1 \in Arenas(f) /\ \A a \in Arenas(f) : Infos(f)[a] # None
         /\ f.size \in Sizes /\ f.size >= PMEMBLK_MIN_POOL /\ f.bsize \in Bsizes \ {0}
  <1>1. f.size \in Sizes /\ f.size >= PMEMBLK_MIN_POOL /\ f.bsize \in Bsizes \ {0}
    BY DEF ShapeOK
  <1>2. /\ LastArena(f) \in Nat \ {0} /\ Arenas(f) = 1 .. LastArena(f)
        /\ \A a \in Arenas(f) : Infos(f)[a] # None
    BY <1>1, InfosIs
  <1> QED BY <1>1, <1>2

\* The stores of the header, and of the backup info blocks.
LEMMA BlocksKept ==
  ASSUME NEW f, NEW g, NEW c, FileOK(f, c), SameFormat(f, g),
         g.info = f.info, g.map = f.map, g.flog = f.flog, g.data = f.data
  PROVE  FileOK(g, c) /\ (AllValid(g) <=> AllValid(f))
  <1>0. /\ Infos(g) = Infos(f) /\ Arenas(g) = Arenas(f)
        /\ LastArena(g) = LastArena(f) /\ (Possible(g) <=> Possible(f))
        /\ \A x : Place(g, x) = Place(f, x)
        /\ \A a : LBAsOf(g, a) = LBAsOf(f, a) /\ BlocksOf(g, a) = BlocksOf(f, a)
    BY FormatKept
  <1>1. ShapeOK(g)
    <2>1. DOMAIN g = Fields /\ g.size = f.size /\ g.bsize = f.bsize
      BY DEF SameFormat
    <2> QED BY <1>0, <2>1 DEF ShapeOK, FileOK
  <1>2. \A a : Valid(g, a) <=> Valid(f, a)
    BY DEF Valid
  <1>3. AllValid(g) <=> AllValid(f)
    BY <1>0, <1>2 DEF AllValid
  <1>4. \A a : FreshMap(g, a) <=> FreshMap(f, a)
    BY <1>0, Zenon DEF FreshMap
  <1>5. \A a, x : PostOf(g, a, x) = PostOf(f, a, x)
    BY Zenon DEF PostOf
  <1>6. \A a : ArenaSound(g, a) <=> ArenaSound(f, a)
    <2> TAKE a
    <2>1. LBAsOf(g, a) = LBAsOf(f, a) /\ BlocksOf(g, a) = BlocksOf(f, a) /\ g.flog = f.flog
      BY <1>0
    <2> QED BY ONLY <2>1, <1>5 DEF ArenaSound
  <1>7. \A x : BlockOf(g, TRUE, x) = BlockOf(f, TRUE, x)
    BY <1>0, SMTT(30) DEF BlockOf
  <1>8. Holds(g, c) <=> Holds(f, c)
    BY <1>0, <1>7, Zenon DEF Holds
  <1>9. g.raw <=> f.raw
    BY DEF SameFormat
  <1> QED BY <1>0, <1>1, <1>2, <1>3, <1>4, <1>6, <1>8, <1>9, Zenon DEF FileOK

\* The fields of a file.
LEMMA FieldsAre ==
  Fields = {"exists", "size", "raw", "hdr", "feat", "bsize", "is_zeroed", "info", "info2",
            "map", "flog", "data"}
  BY DEF Fields, NoFile

\* Storing the block size: no arena has an info block.
LEMMA FormattedOK ==
  ASSUME NEW f, DOMAIN f = Fields, f.size \in Sizes, f.size >= PMEMBLK_MIN_POOL,
         NEW b \in Bsizes \ {0}, NEW c, NEW g, g = Formatted(f, b)
  PROVE  /\ FileOK(g, c) /\ DOMAIN g = Fields /\ ~AllValid(g)
         /\ g.hdr = f.hdr /\ g.size = f.size /\ (g.exists <=> f.exists) /\ (g.raw <=> f.raw)
         /\ (g.is_zeroed <=> f.is_zeroed)
  <1> USE FieldsAre
  <1> PICK h : h = [f EXCEPT !.bsize = b]
    OBVIOUS
  <1>1. /\ DOMAIN h = Fields /\ h.size = f.size /\ h.bsize = b /\ h.hdr = f.hdr
        /\ h.raw = f.raw /\ h.exists = f.exists /\ h.is_zeroed = f.is_zeroed
    OBVIOUS
  <1>2. PICK e, v : g = Fill(h, e, v) /\ e \in Entries /\ (~f.raw => e = InitialEntry)
    <2>1. CASE f.raw
      <3>1. g = Fill(h, GarbageEntry, Garbage)
        BY <2>1, Zenon DEF Formatted
      <3>2. GarbageEntry \in Entries
        BY DEF GarbageEntry, Entries, Flags
      <3> QED BY <3>1, <3>2, <2>1
    <2>2. CASE ~f.raw
      <3>1. g = Fill(h, InitialEntry, Zero)
        BY <2>2, Zenon DEF Formatted
      <3>2. InitialEntry \in Entries
        BY DEF InitialEntry, Entries, Flags
      <3> QED BY <3>1, <3>2
    <2> QED BY <2>1, <2>2
  <1>3. /\ DOMAIN g = Fields /\ g.size = h.size /\ g.bsize = b /\ g.hdr = h.hdr
        /\ g.raw = h.raw /\ g.exists = h.exists /\ g.is_zeroed = h.is_zeroed
        /\ g.info = [a \in Arenas(h) |-> None]
        /\ g.map = [a \in Arenas(h) |-> [x \in LBAsOf(h, a) |-> e]]
        /\ g.flog = [a \in Arenas(h) |-> [l \in FlogLanes |-> None]]
        /\ g.data = [a \in Arenas(h) |->
              [o \in {DataBlockOff(Infos(h)[a], k) : k \in BlocksOf(h, a)} |-> v]]
    <2> DEFINE i0 == [a \in Arenas(h) |-> None]
               m0 == [a \in Arenas(h) |-> [x \in LBAsOf(h, a) |-> e]]
               w0 == [a \in Arenas(h) |-> [l \in FlogLanes |-> None]]
               d0 == [a \in Arenas(h) |->
                       [o \in {DataBlockOff(Infos(h)[a], k) : k \in BlocksOf(h, a)} |-> v]]
    <2>1. g = [h EXCEPT !.info = i0, !.info2 = i0, !.map = m0, !.flog = w0, !.data = d0]
      BY <1>2, Zenon DEF Fill, LBAsOf, BlocksOf, FlogLanes
    <2>2. /\ DOMAIN g = Fields /\ g.size = h.size /\ g.bsize = h.bsize /\ g.hdr = h.hdr
          /\ g.raw = h.raw /\ g.exists = h.exists /\ g.is_zeroed = h.is_zeroed
          /\ g.info = i0 /\ g.map = m0 /\ g.flog = w0 /\ g.data = d0
      <3> HIDE DEF i0, m0, w0, d0
      <3> QED BY ONLY <2>1, <1>1, FieldsAre
    <2> QED BY <2>2, <1>1, Zenon
  <1>4. SameFormat(h, g)
    BY <1>1, <1>3 DEF SameFormat
  <1>5. /\ Infos(g) = Infos(h) /\ Arenas(g) = Arenas(h) /\ LastArena(g) = LastArena(h)
        /\ \A a : LBAsOf(g, a) = LBAsOf(h, a) /\ BlocksOf(g, a) = BlocksOf(h, a)
    BY <1>4, FormatKept
  <1>6. ShapeOK(g)
    <2>1. DOMAIN g = Fields /\ g.size \in Sizes /\ g.size >= PMEMBLK_MIN_POOL /\ g.bsize \in Bsizes \ {0}
      BY <1>1, <1>3
    <2>2. /\ DOMAIN g.info = Arenas(g) /\ DOMAIN g.map = Arenas(g)
          /\ DOMAIN g.flog = Arenas(g) /\ DOMAIN g.data = Arenas(g)
      BY <1>3, <1>5
    <2>3. ASSUME NEW a \in Arenas(g)
          PROVE  /\ g.info[a] \in {None, Infos(g)[a]}
                 /\ g.map[a] \in [LBAsOf(g, a) -> Entries]
                 /\ DOMAIN g.flog[a] = FlogLanes
                 /\ DOMAIN g.data[a] = {DataBlockOff(Infos(g)[a], k) : k \in BlocksOf(g, a)}
      <3>1. a \in Arenas(h)
        BY <1>5
      <3>2. g.info[a] = None /\ g.map[a] = [x \in LBAsOf(h, a) |-> e]
        BY <1>3, <3>1
      <3>3. g.flog[a] = [l \in FlogLanes |-> None]
        BY <1>3, <3>1
      <3>4. g.data[a] = [o \in {DataBlockOff(Infos(h)[a], k) : k \in BlocksOf(h, a)} |-> v]
        BY <1>3, <3>1
      <3>5. DOMAIN g.data[a] = {DataBlockOff(Infos(g)[a], k) : k \in BlocksOf(g, a)}
        BY <3>4, <1>5
      <3> QED BY <1>2, <3>2, <3>3, <3>5, <1>5
    <2> QED BY <2>1, <2>2, <2>3 DEF ShapeOK
  <1>7. \A a \in Arenas(g) : ~Valid(g, a)
    BY <1>3, <1>5 DEF Valid
  <1>8. LastArena(g) \in Arenas(g)
    BY <1>6, ShapeArenas
  <1>9. ~AllValid(g)
    BY <1>7, <1>8 DEF AllValid
  <1>10. ~g.raw => \A a \in Arenas(g) : FreshMap(g, a)
    <2> SUFFICES ASSUME ~g.raw, NEW a \in Arenas(g) PROVE FreshMap(g, a)
      OBVIOUS
    <2>1. e = InitialEntry
      BY <1>1, <1>2, <1>3
    <2>2. g.map[a] = [x \in LBAsOf(g, a) |-> e]
      BY <1>3, <1>5
    <2> QED BY <2>1, <2>2 DEF FreshMap
  <1>11. FileOK(g, c)
    BY <1>6, <1>7, <1>8, <1>9, <1>10 DEF FileOK
  <1> QED BY <1>1, <1>3, <1>9, <1>11

\* The stores of write_layout while the last arena has no info block: the map
\* may only become fresh, the info block of arena i may change.
LEMMA LayingKeeps ==
  ASSUME NEW f, NEW c, FileOK(f, c), NEW g, SameFormat(f, g), g.data = f.data,
         Possible(f), ~Valid(f, LastArena(f)), NEW i \in Arenas(f),
         DOMAIN g.info = Arenas(f), DOMAIN g.map = Arenas(f), DOMAIN g.flog = Arenas(f),
         \A a \in Arenas(f) : g.info[a] = f.info[a] \/ (a = i /\ g.info[a] \in {None, Infos(f)[a]}),
         \A a \in Arenas(f) : DOMAIN g.map[a] = LBAsOf(f, a) /\ g.map[a] \in [LBAsOf(f, a) -> Entries],
         \A a \in Arenas(f) : \A x \in LBAsOf(f, a) : g.map[a][x] \in {f.map[a][x], InitialEntry},
         \A a \in Arenas(f) : DOMAIN g.flog[a] = FlogLanes,
         ~Valid(g, LastArena(f))
  PROVE  FileOK(g, c) /\ ~AllValid(g) /\ ~AllValid(f)
  <1>0. /\ Infos(g) = Infos(f) /\ Arenas(g) = Arenas(f)
        /\ LastArena(g) = LastArena(f) /\ (Possible(g) <=> Possible(f))
        /\ \A a : LBAsOf(g, a) = LBAsOf(f, a) /\ BlocksOf(g, a) = BlocksOf(f, a)
    BY FormatKept
  <1>1. ShapeOK(f)
    BY DEF FileOK
  <1>2. LastArena(f) \in Arenas(f)
    BY <1>1, ShapeArenas
  <1>3. ~AllValid(f) /\ ~AllValid(g)
    BY <1>0, <1>2 DEF AllValid
  <1>4. ShapeOK(g)
    <2>1. DOMAIN g = Fields /\ g.size \in Sizes /\ g.size >= PMEMBLK_MIN_POOL /\ g.bsize \in Bsizes \ {0}
      BY <1>1 DEF SameFormat, ShapeOK
    <2>2. /\ DOMAIN g.info = Arenas(g) /\ DOMAIN g.map = Arenas(g)
          /\ DOMAIN g.flog = Arenas(g) /\ DOMAIN g.data = Arenas(g)
      BY <1>0, <1>1 DEF ShapeOK
    <2>3. ASSUME NEW a \in Arenas(g)
          PROVE  /\ g.info[a] \in {None, Infos(g)[a]}
                 /\ g.map[a] \in [LBAsOf(g, a) -> Entries]
                 /\ DOMAIN g.flog[a] = FlogLanes
                 /\ DOMAIN g.data[a] = {DataBlockOff(Infos(g)[a], k) : k \in BlocksOf(g, a)}
      <3>1. a \in Arenas(f) /\ f.info[a] \in {None, Infos(f)[a]}
        BY <1>0, <1>1, <2>3 DEF ShapeOK
      <3>2. DOMAIN f.data[a] = {DataBlockOff(Infos(f)[a], k) : k \in BlocksOf(f, a)}
        BY <3>1, <1>1 DEF ShapeOK
      <3> QED BY <3>1, <3>2, <1>0
    <2> QED BY <2>1, <2>2, <2>3 DEF ShapeOK
  <1>5. ~g.raw => \A a \in Arenas(g) : FreshMap(g, a)
    <2> SUFFICES ASSUME ~g.raw, NEW a \in Arenas(f) PROVE FreshMap(g, a)
      BY <1>0
    <2>1. FreshMap(f, a)
      BY <1>3 DEF FileOK, SameFormat
    <2> QED BY <2>1, <1>0 DEF FreshMap
  <1> QED BY <1>0, <1>3, <1>4, <1>5 DEF FileOK

\* A file with all info blocks, fresh maps and fresh flogs holds zeros.
LEMMA FreshHolds ==
  ASSUME NEW f, ShapeOK(f), Possible(f), AllValid(f), NEW c, AllZero(c),
         \A a \in Arenas(f) : FreshMap(f, a) /\ FreshFlog(f, a)
  PROVE  FileOK(f, c)
  <1>0. f.size \in Sizes /\ f.size >= PMEMBLK_MIN_POOL /\ f.bsize \in Bsizes \ {0}
    BY ShapeArenas
  <1>1. \A a \in Arenas(f) : ArenaSound(f, a)
    BY <1>0, FreshIsSound
  <1>2. ASSUME NEW x \in LBAs, x < SumNlba(Infos(f)) PROVE BlockOf(f, TRUE, x) = Zero
    <2> PICK a : a = Place(f, x)[1]
      OBVIOUS
    <2> PICK y : y = Place(f, x)[2]
      OBVIOUS
    <2>1. a \in Arenas(f) /\ y \in LBAsOf(f, a)
      BY <1>0, <1>2, Placed
    <2>2. f.map[a][y] = InitialEntry
      BY <2>1 DEF FreshMap
    <2>3. f.map[a][y].flag = "initial"
      BY <2>2 DEF InitialEntry
    <2> QED BY <2>3, Zenon DEF BlockOf, ZeroOrInitial
  <1>3. Holds(f, c)
    BY <1>2 DEF Holds, AllZero
  <1> QED BY <1>1, <1>3 DEF FileOK

\* A file f with a layout whose blocks hold c, and LBA x0 at y of arena a.
Accessed(f, c, x0, a, y) ==
  /\ c \in [LBAs -> Values \cup {Zero, EIO}] /\ FileOK(f, c) /\ AllValid(f)
  /\ x0 \in LBAs /\ x0 < SumNlba(Infos(f)) /\ a = Place(f, x0)[1] /\ y = Place(f, x0)[2]

\* g is f with entry e there, and with the block at offset q of arena a
\* changed, which no other entry names.
Updated(f, g, a, y, e, q) ==
  /\ SameFormat(f, g) /\ g.info = f.info
  /\ g.map = [f.map EXCEPT ![a] = [f.map[a] EXCEPT ![y] = e]]
  /\ DOMAIN g.flog = Arenas(f) /\ \A b \in Arenas(f) : b # a => g.flog[b] = f.flog[b]
  /\ DOMAIN g.flog[a] = FlogLanes
  /\ DOMAIN g.data = Arenas(f) /\ \A b \in Arenas(f) : b # a => g.data[b] = f.data[b]
  /\ DOMAIN g.data[a] = DOMAIN f.data[a]
  /\ \A b \in DOMAIN f.data[a] : b # q => g.data[a][b] = f.data[a][b]
  /\ \A z \in LBAsOf(f, a) : z # y => DataBlockOff(Infos(f)[a], PostOf(f, a, z)) # q

\* An update is seen where it was made and nowhere else.
LEMMA UpdateHolds ==
  ASSUME NEW f, NEW g, NEW c, NEW x0, NEW a, NEW y, NEW e, NEW q, NEW v,
         Accessed(f, c, x0, a, y), Updated(f, g, a, y, e, q), e \in Entries,
         ArenaSound(g, a), BlockOf(g, TRUE, x0) = v
  PROVE  FileOK(g, [c EXCEPT ![x0] = v]) /\ AllValid(g)
  <1> USE DEF Accessed, Updated
  <1>0. /\ Infos(g) = Infos(f) /\ Arenas(g) = Arenas(f)
        /\ LastArena(g) = LastArena(f) /\ (Possible(g) <=> Possible(f))
        /\ \A x : Place(g, x) = Place(f, x)
        /\ \A b : LBAsOf(g, b) = LBAsOf(f, b) /\ BlocksOf(g, b) = BlocksOf(f, b)
    BY FormatKept
  <1>1. ShapeOK(f)
    BY DEF FileOK
  <1>2. /\ f.size \in Sizes /\ f.size >= PMEMBLK_MIN_POOL /\ f.bsize \in Bsizes \ {0}
        /\ LastArena(f) \in Arenas(f)
    BY <1>1, ShapeArenas
  <1>3. Possible(f)
    BY <1>2 DEF FileOK, AllValid
  <1>4. a \in Arenas(f) /\ y \in LBAsOf(f, a)
    BY <1>2, <1>3, Placed
  <1>5. /\ \A b : Valid(g, b) <=> Valid(f, b)
        /\ AllValid(g)
    BY <1>0 DEF Valid, AllValid
  <1>6. /\ DOMAIN f.map = Arenas(f) /\ DOMAIN f.map[a] = LBAsOf(f, a)
        /\ \A b \in Arenas(f) : f.map[b] \in [LBAsOf(f, b) -> Entries]
    BY <1>1, <1>4 DEF ShapeOK
  <1>7. /\ DOMAIN g.map = Arenas(f) /\ g.map[a][y] = e
        /\ \A b \in Arenas(f) : b # a => g.map[b] = f.map[b]
        /\ \A z \in LBAsOf(f, a) : z # y => g.map[a][z] = f.map[a][z]
        /\ g.map[a] \in [LBAsOf(f, a) -> Entries]
    BY <1>4, <1>6
  <1>8. ShapeOK(g)
    <2>1. DOMAIN g = Fields /\ g.size \in Sizes /\ g.size >= PMEMBLK_MIN_POOL /\ g.bsize \in Bsizes \ {0}
      BY <1>1 DEF SameFormat, ShapeOK
    <2>2. /\ DOMAIN g.info = Arenas(g) /\ DOMAIN g.map = Arenas(g)
          /\ DOMAIN g.flog = Arenas(g) /\ DOMAIN g.data = Arenas(g)
      BY <1>0, <1>1, <1>7 DEF ShapeOK
    <2>3. ASSUME NEW b \in Arenas(g)
          PROVE  /\ g.info[b] \in {None, Infos(g)[b]}
                 /\ g.map[b] \in [LBAsOf(g, b) -> Entries]
                 /\ DOMAIN g.flog[b] = FlogLanes
                 /\ DOMAIN g.data[b] = {DataBlockOff(Infos(g)[b], k) : k \in BlocksOf(g, b)}
      <3>1. /\ b \in Arenas(f) /\ f.info[b] \in {None, Infos(f)[b]} /\ DOMAIN f.flog[b] = FlogLanes
        BY <1>0, <1>1, <2>3 DEF ShapeOK
      <3>2. DOMAIN f.data[b] = {DataBlockOff(Infos(f)[b], k) : k \in BlocksOf(f, b)}
        BY <3>1, <1>1 DEF ShapeOK
      <3>3. g.map[b] \in [LBAsOf(f, b) -> Entries]
        BY <3>1, <1>6, <1>7
      <3>4. DOMAIN g.data[b] = DOMAIN f.data[b] /\ DOMAIN g.flog[b] = FlogLanes
        BY <3>1
      <3> QED BY <3>1, <3>2, <3>3, <3>4, <1>0
    <2> QED BY <2>1, <2>2, <2>3 DEF ShapeOK
  <1>9. ASSUME NEW b \in Arenas(g) PROVE ArenaSound(g, b)
    <2>1. CASE b = a
      BY <2>1
    <2>2. CASE b # a
      <3>1. g.map[b] = f.map[b] /\ g.flog[b] = f.flog[b] /\ ArenaSound(f, b)
        BY <2>2, <1>0, <1>7, <1>9 DEF FileOK
      <3>2. \A x : PostOf(g, b, x) = PostOf(f, b, x)
        BY <3>1 DEF PostOf
      <3>3. LBAsOf(g, b) = LBAsOf(f, b) /\ BlocksOf(g, b) = BlocksOf(f, b)
        BY <1>0
      <3> QED BY ONLY <3>1, <3>2, <3>3 DEF ArenaSound
    <2> QED BY <2>1, <2>2
  <1>10. ASSUME NEW x \in LBAs, x < SumNlba(Infos(f)), x # x0
         PROVE  BlockOf(g, TRUE, x) = c[x]
    <2> PICK b : b = Place(f, x)[1]
      OBVIOUS
    <2> PICK z : z = Place(f, x)[2]
      OBVIOUS
    <2>1. b \in Arenas(f) /\ z \in LBAsOf(f, b) /\ (b # a \/ z # y)
      BY <1>10, <1>2, <1>3, Placed
    <2>2. BlockOf(f, TRUE, x) = c[x]
      BY <1>10 DEF FileOK, Holds
    <2>3. g.map[b][z] = f.map[b][z]
      BY <2>1, <1>7
    <2>4. f.map[b][z] \in Entries /\ ArenaSound(f, b)
      BY <2>1, <1>6 DEF FileOK
    <2> PICK m : m = f.map[b][z]
      OBVIOUS
    <2>5. m.flag = "normal" => PostOf(f, b, z) = m.post /\ m.post \in BlocksOf(f, b)
      BY <2>1, <2>4 DEF PostOf, ArenaSound
    <2>6. m.flag = "normal" =>
            g.data[b][DataBlockOff(Infos(f)[b], m.post)] = f.data[b][DataBlockOff(Infos(f)[b], m.post)]
      <3> SUFFICES ASSUME m.flag = "normal"
                   PROVE  g.data[b][DataBlockOff(Infos(f)[b], m.post)]
                            = f.data[b][DataBlockOff(Infos(f)[b], m.post)]
        OBVIOUS
      <3>1. CASE b # a
        BY <3>1, <2>1
      <3>2. CASE b = a
        <4> PICK o : o = DataBlockOff(Infos(f)[a], m.post)
          OBVIOUS
        <4>1. o \in DOMAIN f.data[a]
          BY <3>2, <2>5, <1>1, <1>4, SMTT(30) DEF ShapeOK
        <4>2. o # q
          BY <3>2, <2>1, <2>5, SMTT(30)
        <4> QED BY <4>1, <4>2, <3>2, ZenonT(40)
      <3> QED BY <3>1, <3>2
    <2>7. BlockOf(g, TRUE, x) =
            IF m.flag = "error" THEN EIO ELSE IF ZeroOrInitial(m) THEN Zero
            ELSE g.data[b][DataBlockOff(Infos(f)[b], m.post)]
      BY <2>3, <1>0 DEF BlockOf
    <2>8. BlockOf(f, TRUE, x) =
            IF m.flag = "error" THEN EIO ELSE IF ZeroOrInitial(m) THEN Zero
            ELSE f.data[b][DataBlockOff(Infos(f)[b], m.post)]
      BY DEF BlockOf
    <2>9. m.flag \in Flags
      BY <2>4 DEF Entries
    <2> QED BY <2>2, <2>6, <2>7, <2>8, <2>9 DEF ZeroOrInitial, Flags
  <1>11. Holds(g, [c EXCEPT ![x0] = v])
    BY <1>0, <1>10 DEF Holds
  <1> QED BY <1>0, <1>3, <1>5, <1>8, <1>9, <1>11 DEF FileOK

\* map_entry_setf: the entry keeps its block.
LEMMA FlagHolds ==
  ASSUME NEW f, NEW g, NEW c, NEW x0, NEW a, NEW y, Accessed(f, c, x0, a, y),
         SameFormat(f, g), g.info = f.info, NEW fl \in {"zero", "error"},
         NEW e, e = [post |-> PostOf(f, a, y), flag |-> fl],
         NEW v, v = IF fl = "zero" THEN Zero ELSE EIO,
         g.map = [f.map EXCEPT ![a] = [f.map[a] EXCEPT ![y] = e]],
         g.flog = f.flog, g.data = f.data
  PROVE  FileOK(g, [c EXCEPT ![x0] = v]) /\ AllValid(g)
  <1> USE DEF Accessed
  <1>0. /\ Infos(g) = Infos(f) /\ Arenas(g) = Arenas(f)
        /\ \A x : Place(g, x) = Place(f, x)
        /\ \A b : LBAsOf(g, b) = LBAsOf(f, b) /\ BlocksOf(g, b) = BlocksOf(f, b)
    BY FormatKept
  <1>1. ShapeOK(f)
    BY DEF FileOK
  <1>2. /\ f.size \in Sizes /\ f.size >= PMEMBLK_MIN_POOL /\ f.bsize \in Bsizes \ {0}
        /\ LastArena(f) \in Arenas(f)
    BY <1>1, ShapeArenas
  <1>3. Possible(f)
    BY <1>2 DEF FileOK, AllValid
  <1>4. a \in Arenas(f) /\ y \in LBAsOf(f, a)
    BY <1>2, <1>3, Placed
  <1>5. ArenaSound(f, a) /\ PostOf(f, a, y) \in BlocksOf(f, a)
    BY <1>4 DEF FileOK, ArenaSound
  <1>6. e \in Entries /\ e.post = PostOf(f, a, y) /\ e.flag = fl /\ fl # "initial"
    BY <1>5 DEF BlocksOf, Entries, Flags
  <1>7. /\ DOMAIN f.map = Arenas(f) /\ DOMAIN f.map[a] = LBAsOf(f, a)
        /\ DOMAIN f.flog = Arenas(f) /\ DOMAIN f.data = Arenas(f) /\ DOMAIN f.flog[a] = FlogLanes
    BY <1>1, <1>4 DEF ShapeOK
  <1>8. /\ g.map = [f.map EXCEPT ![a] = [f.map[a] EXCEPT ![y] = e]]
        /\ g.map[a][y] = e /\ \A z \in LBAsOf(f, a) : z # y => g.map[a][z] = f.map[a][z]
    BY <1>4, <1>7
  <1>9. \A z \in LBAsOf(f, a) : PostOf(g, a, z) = PostOf(f, a, z)
    <2> TAKE z \in LBAsOf(f, a)
    <2>1. CASE z = y
      BY <2>1, <1>6, <1>8 DEF PostOf
    <2>2. CASE z # y
      BY <2>2, <1>8 DEF PostOf
    <2> QED BY <2>1, <2>2
  <1>10. ArenaSound(g, a)
    <2>1. LBAsOf(g, a) = LBAsOf(f, a) /\ BlocksOf(g, a) = BlocksOf(f, a)
      BY <1>0
    <2> QED BY ONLY <2>1, <1>5, <1>9, g.flog = f.flog DEF ArenaSound
  <1>11. BlockOf(g, TRUE, x0) = v
    <2>1. BlockOf(g, TRUE, x0) =
            IF e.flag = "error" THEN EIO ELSE IF ZeroOrInitial(e) THEN Zero
            ELSE g.data[a][DataBlockOff(Infos(f)[a], e.post)]
      <3>1. Place(g, x0)[1] = a /\ Place(g, x0)[2] = y /\ g.map[a][y] = e /\ Infos(g) = Infos(f)
        BY <1>0, <1>8
      <3> QED BY ONLY <3>1 DEF BlockOf
    <2> QED BY <2>1, <1>6 DEF ZeroOrInitial
  <1> PICK q : q = -1
    OBVIOUS
  <1>a. \A z \in LBAsOf(f, a) : DataBlockOff(Infos(f)[a], PostOf(f, a, z)) # q
    <2> TAKE z \in LBAsOf(f, a)
    <2>1. PostOf(f, a, z) \in Nat /\ Infos(f)[a].internal_lbasize \in Nat
      BY <1>2, <1>3, <1>4, <1>5, ArenaIs DEF ArenaSound, BlocksOf
    <2>2. PostOf(f, a, z) * Infos(f)[a].internal_lbasize \in Int
      BY <2>1
    <2>3. OffsetWrap \in Nat \ {0}
      BY FormatAssumption
    <2> QED BY <2>2, <2>3 DEF DataBlockOff
  <1>12. FileOK(g, [c EXCEPT ![x0] = v]) /\ AllValid(g)
    <2>1. /\ \A b \in Arenas(f) : b # a => g.flog[b] = f.flog[b]
          /\ \A b \in Arenas(f) : b # a => g.data[b] = f.data[b]
      OBVIOUS
    <2>2. /\ g.map = [f.map EXCEPT ![a] = [f.map[a] EXCEPT ![y] = e]]
          /\ DOMAIN g.flog = Arenas(f) /\ DOMAIN g.flog[a] = FlogLanes
          /\ DOMAIN g.data = Arenas(f) /\ DOMAIN g.data[a] = DOMAIN f.data[a]
      BY <1>7, <1>8
    <2>3. \A b \in DOMAIN f.data[a] : b # q => g.data[a][b] = f.data[a][b]
      OBVIOUS
    <2>4. \A z \in LBAsOf(f, a) : z # y => DataBlockOff(Infos(f)[a], PostOf(f, a, z)) # q
      BY <1>a
    <2>5. e \in Entries
      BY <1>6
    <2>6. Updated(f, g, a, y, e, q)
      BY <2>1, <2>2, <2>3, <2>4 DEF Updated
    <2>7. Accessed(f, c, x0, a, y)
      OBVIOUS
    <2> HIDE DEF Accessed
    <2> QED BY ONLY <2>5, <2>6, <2>7, <1>10, <1>11, UpdateHolds
  <1> QED BY <1>12

\* btt_write: the lane's free block is written and takes the place of the one
\* that the entry names, which becomes free.
LEMMA WriteHolds ==
  ASSUME OffsetsFit, NEW f, NEW g, NEW c, NEW x0, NEW a, NEW y, Accessed(f, c, x0, a, y),
         NEW l \in FlogLanes, NEW v, g = Written(f, a, y, l, v)
  PROVE  FileOK(g, [c EXCEPT ![x0] = v]) /\ AllValid(g) /\ SameFormat(f, g)
         /\ g.hdr = f.hdr /\ (g.exists <=> f.exists) /\ (g.is_zeroed <=> f.is_zeroed)
  <1> USE DEF Accessed
  <1>1. ShapeOK(f)
    BY DEF FileOK
  <1>2. /\ f.size \in Sizes /\ f.size >= PMEMBLK_MIN_POOL /\ f.bsize \in Bsizes \ {0}
        /\ LastArena(f) \in Arenas(f) /\ DOMAIN f = Fields
    BY <1>1, ShapeArenas DEF ShapeOK
  <1>3. Possible(f)
    BY <1>2 DEF FileOK, AllValid
  <1>4. a \in Arenas(f) /\ y \in LBAsOf(f, a)
    BY <1>2, <1>3, Placed
  <1>5. ArenaSound(f, a)
    BY <1>4 DEF FileOK
  <1> PICK new : new = f.flog[a][l]
    OBVIOUS
  <1> PICK old : old = PostOf(f, a, y)
    OBVIOUS
  <1> PICK q : q = DataBlockOff(Infos(f)[a], new)
    OBVIOUS
  <1> PICK e : e = [post |-> new, flag |-> "normal"]
    OBVIOUS
  <1>6. new \in BlocksOf(f, a) /\ old \in BlocksOf(f, a)
    BY <1>4, <1>5 DEF ArenaSound
  <1>7. e \in Entries /\ e.post = new /\ e.flag = "normal"
    BY <1>6 DEF Entries, Flags, BlocksOf
  <1>8. g = [f EXCEPT !.data = [f.data EXCEPT ![a] = [f.data[a] EXCEPT ![q] = v]],
                      !.map = [f.map EXCEPT ![a] = [f.map[a] EXCEPT ![y] = e]],
                      !.flog = [f.flog EXCEPT ![a] = [f.flog[a] EXCEPT ![l] = old]]]
    BY DEF Written, PostOf
  <1> PICK d2 : d2 = [f.data EXCEPT ![a] = [f.data[a] EXCEPT ![q] = v]]
    OBVIOUS
  <1> PICK m2 : m2 = [f.map EXCEPT ![a] = [f.map[a] EXCEPT ![y] = e]]
    OBVIOUS
  <1> PICK w2 : w2 = [f.flog EXCEPT ![a] = [f.flog[a] EXCEPT ![l] = old]]
    OBVIOUS
  <1>9. g = [f EXCEPT !.data = d2, !.map = m2, !.flog = w2]
    BY <1>8
  <1>10. /\ g.data = d2 /\ g.map = m2 /\ g.flog = w2 /\ g.info = f.info /\ SameFormat(f, g)
         /\ g.hdr = f.hdr /\ (g.exists <=> f.exists) /\ (g.is_zeroed <=> f.is_zeroed)
    BY ONLY <1>9, <1>2, FieldsAre DEF SameFormat
  <1>11. /\ Infos(g) = Infos(f) /\ \A x : Place(g, x) = Place(f, x)
         /\ LBAsOf(g, a) = LBAsOf(f, a) /\ BlocksOf(g, a) = BlocksOf(f, a)
    BY <1>10, FormatKept
  <1>12. /\ DOMAIN f.map = Arenas(f) /\ DOMAIN f.map[a] = LBAsOf(f, a)
         /\ DOMAIN f.flog = Arenas(f) /\ DOMAIN f.data = Arenas(f) /\ DOMAIN f.flog[a] = FlogLanes
         /\ DOMAIN f.data[a] = {DataBlockOff(Infos(f)[a], b) : b \in BlocksOf(f, a)}
    BY <1>1, <1>4 DEF ShapeOK
  <1>13. q \in DOMAIN f.data[a]
    BY <1>12, <1>6
  <1>14. /\ DOMAIN g.data = Arenas(f) /\ \A b \in Arenas(f) : b # a => g.data[b] = f.data[b]
         /\ DOMAIN g.data[a] = DOMAIN f.data[a] /\ g.data[a][q] = v
         /\ \A b \in DOMAIN f.data[a] : b # q => g.data[a][b] = f.data[a][b]
    BY <1>10, <1>12, <1>13, <1>4, SMTT(30)
  <1>15. /\ DOMAIN g.flog = Arenas(f) /\ \A b \in Arenas(f) : b # a => g.flog[b] = f.flog[b]
         /\ DOMAIN g.flog[a] = FlogLanes
         /\ \A k \in FlogLanes : g.flog[a][k] = IF k = l THEN old ELSE f.flog[a][k]
    BY <1>10, <1>12, <1>4
  <1>16. /\ g.map[a][y] = e /\ \A z \in LBAsOf(f, a) : z # y => g.map[a][z] = f.map[a][z]
    BY <1>10, <1>12, <1>4
  <1>17. \A z \in LBAsOf(f, a) : PostOf(g, a, z) = IF z = y THEN new ELSE PostOf(f, a, z)
    <2> TAKE z \in LBAsOf(f, a)
    <2>1. CASE z = y
      BY <2>1, <1>7, <1>16 DEF PostOf
    <2>2. CASE z # y
      BY <2>2, <1>16 DEF PostOf
    <2> QED BY <2>1, <2>2
  <1>18. ArenaSound(g, a)
    <2> PICK X : X = LBAsOf(f, a)
      OBVIOUS
    <2> PICK B : B = BlocksOf(f, a)
      OBVIOUS
    <2> PICK r : r = [z \in X |-> PostOf(f, a, z)]
      OBVIOUS
    <2> PICK s : s = [z \in X |-> PostOf(g, a, z)]
      OBVIOUS
    <2> PICK w : w = f.flog[a]
      OBVIOUS
    <2> PICK w3 : w3 = g.flog[a]
      OBVIOUS
    <2>1. OncePer(X, FlogLanes, B, r, w)
      <3>1. \A x \in LBAsOf(f, a) : r[x] = PostOf(f, a, x)
        OBVIOUS
      <3> QED BY <3>1, <1>5, SoundIsOnce
    <2>2. /\ y \in X /\ \A z \in X : s[z] = IF z = y THEN w[l] ELSE r[z]
          /\ \A k \in FlogLanes : w3[k] = IF k = l THEN r[y] ELSE w[k]
      BY <1>4, <1>15, <1>17
    <2>3. OncePer(X, FlogLanes, B, s, w3)
      BY ONLY <2>1, <2>2, l \in FlogLanes, Exchange
    <2>4. \A x \in LBAsOf(g, a) : s[x] = PostOf(g, a, x)
      BY <1>11
    <2>5. OncePer(LBAsOf(g, a), FlogLanes, BlocksOf(g, a), s, g.flog[a])
      BY <2>3, <1>11
    <2> QED BY ONLY <2>4, <2>5, SoundIsOnce
  <1>19. BlockOf(g, TRUE, x0) = v
    <2>1. Place(g, x0)[1] = a /\ Place(g, x0)[2] = y /\ g.map[a][y] = e /\ Infos(g) = Infos(f)
      BY <1>11, <1>16
    <2>2. BlockOf(g, TRUE, x0) =
            IF e.flag = "error" THEN EIO ELSE IF ZeroOrInitial(e) THEN Zero
            ELSE g.data[a][DataBlockOff(Infos(f)[a], e.post)]
      BY ONLY <2>1 DEF BlockOf
    <2> QED BY <2>2, <1>7, <1>14 DEF ZeroOrInitial
  <1>20. \A z \in LBAsOf(f, a) : z # y => DataBlockOff(Infos(f)[a], PostOf(f, a, z)) # q
    <2> TAKE z \in LBAsOf(f, a)
    <2> PICK b : b = PostOf(f, a, z)
      OBVIOUS
    <2>1. b \in BlocksOf(f, a) /\ b # new
      BY <1>5 DEF ArenaSound
    <2>2. DataBlockOff(Infos(f)[a], b) # DataBlockOff(Infos(f)[a], new)
      BY <2>1, <1>6, <1>2, <1>3, <1>4, OffsetsApart
    <2> QED BY <2>2
  <1>21. FileOK(g, [c EXCEPT ![x0] = v]) /\ AllValid(g)
    <2>1. Updated(f, g, a, y, e, q)
      BY <1>10, <1>14, <1>15, <1>20 DEF Updated
    <2>2. Accessed(f, c, x0, a, y)
      OBVIOUS
    <2>3. e \in Entries
      BY <1>7
    <2> HIDE DEF Accessed
    <2> QED BY ONLY <2>1, <2>2, <2>3, <1>18, <1>19, UpdateHolds
  <1> QED BY <1>10, <1>21

-----------------------------------------------------------------------------
(* Steps.                                                                  *)

\* The file and what its blocks should hold stay as they are, and the handle
\* says the same.
SamePool(p) ==
  /\ file'[p] = file[p] /\ contents'[p] = contents[p]
  /\ DOMAIN handle'[p] = DOMAIN handle[p]
  /\ handle'[p].laidout <=> handle[p].laidout
  /\ handle'[p].nlba = handle[p].nlba /\ handle'[p].narena = handle[p].narena
  /\ handle'[p].nlane = handle[p].nlane
  /\ layout_lock'[p] = None => layout_lock[p] = None \/ handle[p].laidout

\* A pool that a step leaves alone is still sound.
LEMMA SamePoolOK ==
  ASSUME NEW p \in Pools, SamePool(p), file[p].raw /\ ns_is_zeroed' => ns_is_zeroed
  PROVE  /\ HandleOK(p) => HandleOK(p)'
         /\ PoolOK(p) /\ (handle'[p] # None => handle[p] # None \/ HandleOK(p)) => PoolOK(p)'
  <1>1. HandleOK(p) => HandleOK(p)'
    BY DEF SamePool, HandleOK
  <1>2. ASSUME PoolOK(p), handle'[p] # None => handle[p] # None \/ HandleOK(p)
        PROVE  PoolOK(p)'
    <2>1. handle'[p] # None => HandleOK(p)'
      BY <1>1, <1>2 DEF PoolOK
    <2> QED BY <2>1, <1>2 DEF PoolOK, SamePool
  <1> QED BY <1>1, <1>2

\* A thread whose call did not move and whose pool looks the same.
LEMMA SameThreadOK ==
  ASSUME NEW u \in Threads, ThreadOK(u), pc'[u] = pc[u], call'[u] = call[u], at'[u] = at[u],
         ret'[u] = ret[u],
         pc[u] # "idle" => /\ P(u) \in Pools /\ SamePool(P(u))
                           /\ file[P(u)].raw /\ ns_is_zeroed' => ns_is_zeroed,
         pc[u] \in OpeningPCs => handle'[P(u)] = handle[P(u)],
         pc[u] \in LayingPCs \cup {"unlock"} /\ layout_lock[P(u)] = u => layout_lock'[P(u)] = u
  PROVE  ThreadOK(u)'
  <1>1. CASE pc[u] = "idle"
    BY <1>1 DEF ThreadOK, OpeningOK, OpeningPCs, PoolPCs, InitPCs, BlockPCs, InLane
  <1>2. CASE pc[u] # "idle"
    <2> PICK p : p = P(u)
      OBVIOUS
    <2>0. p \in Pools /\ SamePool(p) /\ P(u)' = p /\ p = P(u)
      BY <1>2 DEF P
    <2>1. HandleOK(p) => HandleOK(p)'
      BY <2>0, <1>2, SamePoolOK
    <2>2. F(u)' = F(u) /\ contents'[p] = contents[p]
      BY <2>0 DEF F, SamePool
    <2>3. OpeningOK(u)'
      BY <2>0, <2>1, <2>2 DEF OpeningOK, ThreadOK
    <2>4. pc[u] \in BlockPCs => BlockOK(u)'
      <3> SUFFICES ASSUME pc[u] \in BlockPCs PROVE BlockOK(u)'
        OBVIOUS
      <3>1. BlockOK(u) /\ HandleOK(p)'
        BY <2>0, <2>1 DEF ThreadOK, BlockOK
      <3>2. /\ H(u)'.laidout <=> H(u).laidout
            /\ H(u)'.nlba = H(u).nlba
        BY <2>0 DEF SamePool, H
      <3>3. pc[u] \in LayingPCs => LayingOK(u)'
        <4> SUFFICES ASSUME pc[u] \in LayingPCs PROVE LayingOK(u)'
          OBVIOUS
        <4>1. LayingOK(u) /\ Done(u)' = Done(u)
          BY <3>1, <2>2 DEF BlockOK, Done
        <4> QED BY <4>1, <3>2, <2>2 DEF LayingOK
      <3>4. HandleOK(P(u))' /\ call'[u].op \in BlockOps
        BY <2>0, <3>1 DEF BlockOK
      <3>5. pc[u] \in LayingPCs \cup {"unlock"} => layout_lock'[P(u)'] = u
        BY <2>0, <3>1 DEF BlockOK
      <3> QED BY <3>1, <3>2, <3>3, <3>4, <3>5 DEF BlockOK
    <2> QED BY <2>3, <2>4 DEF ThreadOK
  <1> QED BY <1>1, <1>2

\* A step of thread t on pool p0 leaves the other pools and threads alone.
Elsewhere(t, p0) ==
  /\ \A u \in Threads : u # t => /\ pc'[u] = pc[u] /\ call'[u] = call[u]
                                 /\ at'[u] = at[u] /\ ret'[u] = ret[u]
  /\ \A p \in Pools : p # p0 => /\ file'[p] = file[p] /\ contents'[p] = contents[p]
                                /\ handle'[p] = handle[p] /\ layout_lock'[p] = layout_lock[p]
                                /\ (file[p].raw /\ ns_is_zeroed' => ns_is_zeroed)

\* A step of t on pool p0 has only t and p0, and who else is on p0, to answer for.
LEMMA StepKeeps ==
  ASSUME KeepInv, BlkInv', KeepTypes', NEW t \in Threads, NEW p0 \in Pools, Elsewhere(t, p0),
         PoolOK(p0)', ThreadOK(t)',
         \A u \in Threads : u # t /\ pc[u] # "idle" /\ P(u) = p0 => ThreadOK(u)'
  PROVE  KeepInv'
  <1>1. ASSUME NEW p \in Pools, p # p0
        PROVE  /\ SamePool(p) /\ (file[p].raw /\ ns_is_zeroed' => ns_is_zeroed)
               /\ PoolOK(p)' /\ handle'[p] = handle[p] /\ layout_lock'[p] = layout_lock[p]
    <2>1. /\ SamePool(p) /\ (file[p].raw /\ ns_is_zeroed' => ns_is_zeroed)
          /\ handle'[p] = handle[p] /\ layout_lock'[p] = layout_lock[p]
      BY <1>1 DEF Elsewhere, SamePool
    <2>2. PoolOK(p)
      BY DEF KeepInv
    <2> QED BY <2>1, <2>2, SamePoolOK
  <1>2. ASSUME NEW u \in Threads, u # t PROVE ThreadOK(u)'
    <2>1. CASE pc[u] # "idle" /\ P(u) = p0
      BY <1>2, <2>1
    <2>2. CASE pc[u] = "idle" \/ P(u) # p0
      <3>1. /\ ThreadOK(u) /\ pc'[u] = pc[u] /\ call'[u] = call[u]
            /\ at'[u] = at[u] /\ ret'[u] = ret[u]
        BY <1>2 DEF KeepInv, Elsewhere
      <3>2. pc[u] # "idle" => P(u) \in Pools /\ P(u) # p0
        BY <2>2, CallPools DEF KeepInv, BlkInv, Sharing, P
      <3>3. pc[u] # "idle" => /\ P(u) \in Pools /\ SamePool(P(u))
                              /\ (file[P(u)].raw /\ ns_is_zeroed' => ns_is_zeroed)
                              /\ handle'[P(u)] = handle[P(u)] /\ layout_lock'[P(u)] = layout_lock[P(u)]
        BY <3>2, <1>1
      <3>4. pc[u] \in OpeningPCs => handle'[P(u)] = handle[P(u)]
        BY <3>3 DEF OpeningPCs, PoolPCs
      <3>5. pc[u] \in LayingPCs \cup {"unlock"} /\ layout_lock[P(u)] = u => layout_lock'[P(u)] = u
        BY <3>3 DEF LayingPCs
      <3> QED BY <3>1, <3>3, <3>4, <3>5, SameThreadOK
    <2> QED BY <2>1, <2>2
  <1> QED BY <1>1, <1>2 DEF KeepInv

\* The step changes nothing that PoolOK speaks of.
LEMMA NeutralKeeps ==
  ASSUME KeepInv, BlkInv', KeepTypes', NEW t \in Threads, NEW p0 \in Pools, Elsewhere(t, p0),
         SamePool(p0), ns_is_zeroed' = ns_is_zeroed, ThreadOK(t)',
         handle'[p0] = handle[p0] \/ (handle'[p0] # None => HandleOK(p0)),
         \A u \in Threads : u # t /\ pc[u] # "idle" /\ P(u) = p0 =>
           /\ pc[u] \in OpeningPCs => handle'[p0] = handle[p0]
           /\ layout_lock[p0] = u => layout_lock'[p0] = u
  PROVE  KeepInv'
  <1>1. PoolOK(p0)'
    BY SamePoolOK DEF KeepInv
  <1>2. ASSUME NEW u \in Threads, u # t, pc[u] # "idle", P(u) = p0 PROVE ThreadOK(u)'
    <2>1. /\ ThreadOK(u) /\ pc'[u] = pc[u] /\ call'[u] = call[u]
          /\ at'[u] = at[u] /\ ret'[u] = ret[u]
      BY <1>2 DEF KeepInv, Elsewhere
    <2>2. pc[u] # "idle" => /\ P(u) \in Pools /\ SamePool(P(u))
                            /\ (file[P(u)].raw /\ ns_is_zeroed' => ns_is_zeroed)
      BY <1>2
    <2>3. pc[u] \in OpeningPCs => handle'[P(u)] = handle[P(u)]
      BY <1>2
    <2>4. pc[u] \in LayingPCs \cup {"unlock"} /\ layout_lock[P(u)] = u => layout_lock'[P(u)] = u
      BY <1>2
    <2> QED BY <2>1, <2>2, <2>3, <2>4, SameThreadOK
  <1> QED BY <1>1, <1>2, StepKeeps

\* A call that has the pool to itself.
LEMMA AloneKeeps ==
  ASSUME KeepInv, BlkInv', KeepTypes', NEW t \in Threads, pc[t] \in PoolPCs, NEW p0 \in Pools,
         p0 = P(t), Elsewhere(t, p0), PoolOK(p0)', ThreadOK(t)'
  PROVE  KeepInv'
  <1>1. pc[t] # "idle" /\ pc[t] \notin BlockPCs
    BY DEF PoolPCs, BlockPCs, InLane
  <1>2. \A u \in Threads : u # t /\ pc[u] # "idle" => P(u) # p0
    BY <1>1 DEF KeepInv, BlkInv, Sharing
  <1> QED BY <1>2, StepKeeps

\* A call on a block stores to the file or to the handle, and no other call is
\* in write_layout.
LEMMA BlockKeeps ==
  ASSUME KeepInv, BlkInv', KeepTypes', NEW t \in Threads, pc[t] \in BlockPCs, NEW p0 \in Pools,
         p0 = P(t), Elsewhere(t, p0), PoolOK(p0)', HandleOK(p0)', ThreadOK(t)',
         handle'[p0].nlba = handle[p0].nlba, handle[p0].laidout => handle'[p0].laidout,
         \A u \in Threads : u # t /\ P(u) = p0 => pc[u] \notin LayingPCs,
         \A u \in Threads : u # t /\ layout_lock[p0] = u => layout_lock'[p0] = u
  PROVE  KeepInv'
  <1>1. ASSUME NEW u \in Threads, u # t, pc[u] # "idle", P(u) = p0 PROVE ThreadOK(u)'
    <2>1. pc[t] # "idle"
      BY DEF BlockPCs, InLane
    <2>2. pc[u] \in BlockPCs /\ pc[u] \notin LayingPCs
      BY <1>1, <2>1 DEF KeepInv, BlkInv, Sharing
    <2>3. pc[u] \notin OpeningPCs \cup InitPCs \cup {"init_sync", "btt_init", "checking"}
      BY <2>2 DEF BlockPCs, InLane, OpeningPCs, PoolPCs, InitPCs
    <2>4. /\ ThreadOK(u) /\ BlockOK(u) /\ pc'[u] = pc[u] /\ call'[u] = call[u] /\ P(u)' = p0
          /\ at'[u] = at[u] /\ ret'[u] = ret[u] /\ at[u] = 1
      BY <1>1, <2>2 DEF KeepInv, Elsewhere, P, ThreadOK, BlockOK
    <2>5. OpeningOK(u)'
      BY <2>3, <2>4 DEF OpeningOK, InitPCs
    <2>6. BlockOK(u)'
      <3>1. HandleOK(P(u))'
        BY <2>4
      <3>2. H(u)'.nlba = H(u).nlba /\ (H(u).laidout => H(u)'.laidout)
        BY <1>1, <2>4 DEF H
      <3>3. pc[u] = "unlock" => layout_lock'[P(u)'] = u
        BY <1>1, <2>4 DEF BlockOK
      <3> QED BY <2>2, <2>4, <3>1, <3>2, <3>3 DEF BlockOK
    <2> QED BY <2>2, <2>4, <2>5, <2>6 DEF ThreadOK
  <1> QED BY <1>1, StepKeeps

\* The files at first, and the blocks of a pool that another version made.
LEMMA FirstFile ==
  ASSUME NEW k \in Files, NEW f, f = InitFile(k), NEW c \in [LBAs -> Values \cup {Zero, EIO}], AllZero(c)
  PROVE  /\ DOMAIN f = Fields /\ (f.exists => f.size \in Sizes) /\ (~f.exists => f.hdr = "zero")
         /\ (f.raw => ~f.is_zeroed /\ \E j \in Files : j.kind = "raw" /\ j.size = f.size)
         /\ (f.hdr # "zero" => FileOK(f, c))
  <1> USE FieldsAre
  <1>0. k.size \in Sizes /\ k.size \in Nat /\ k.kind \in {"absent", "raw", "pool"}
    BY FilesAssumption DEF Sizes
  <1>1. CASE k.kind = "absent"
    <2>1. f = NoFile
      BY <1>1, Zenon DEF InitFile
    <2>2. DOMAIN f = Fields /\ ~f.exists /\ ~f.raw /\ f.hdr = "zero"
      BY <2>1 DEF NoFile, Fields
    <2> QED BY <2>2
  <1>2. CASE k.kind = "raw"
    <2> PICK b : b = (k.kind = "raw") /\ b
      BY <1>2
    <2>1. f = [NoFile EXCEPT !.exists = TRUE, !.size = k.size, !.raw = b]
      <3>1. k.kind # "absent"
        BY <1>2
      <3> QED BY <1>2, <3>1, Zenon DEF InitFile
    <2>2. DOMAIN f = Fields /\ f.exists /\ f.size = k.size /\ f.hdr = "zero" /\ ~f.is_zeroed
      BY <2>1 DEF NoFile, Fields
    <2> QED BY <2>2, <1>0, <1>2
  <1>3. CASE k.kind = "pool"
    <2> PICK b \in BOOLEAN : b = (k.kind = "raw") /\ ~b
      BY <1>3
    <2> PICK h : h = [NoFile EXCEPT !.exists = TRUE, !.size = k.size, !.raw = b]
      OBVIOUS
    <2>1. DOMAIN h = Fields /\ h.exists /\ h.size = k.size /\ h.raw = b /\ h.hdr = "zero"
      BY DEF NoFile, Fields
    <2> PICK g : g = Formatted(h, Bsize)
      OBVIOUS
    <2>2. f = [g EXCEPT !.hdr = "valid", !.feat = k.feat, !.is_zeroed = TRUE]
      <3>1. k.kind # "absent" /\ k.kind # "raw"
        BY <1>3
      <3> QED BY <1>3, <3>1, Zenon DEF InitFile
    <2>3. Bsize \in Bsizes \ {0}
      BY BlkAssumption DEF Bsize
    <2>4. h.size >= PMEMBLK_MIN_POOL /\ h.size \in Sizes
      BY <1>0, <1>3, <2>1, FilesAssumption
    <2>5. FileOK(g, c) /\ DOMAIN g = Fields /\ ~AllValid(g) /\ g.size = h.size
          /\ (g.exists <=> h.exists) /\ (g.raw <=> h.raw)
      <3> PICK z : z = Bsize
        OBVIOUS
      <3>1. g = Formatted(h, z) /\ z \in Bsizes \ {0} /\ DOMAIN h = Fields
        BY <2>1, <2>3
      <3> QED BY ONLY <3>1, <2>4, FormattedOK
    <2>6. /\ DOMAIN f = Fields /\ f.size = g.size /\ f.bsize = g.bsize /\ f.raw = g.raw
          /\ f.exists = g.exists /\ f.info = g.info /\ f.map = g.map /\ f.flog = g.flog /\ f.data = g.data
      BY <2>2, <2>5
    <2>7. SameFormat(g, f)
      BY <2>6 DEF SameFormat
    <2>8. FileOK(f, c)
      BY <2>5, <2>6, <2>7, BlocksKept
    <2> QED BY <2>1, <2>4, <2>5, <2>6, <2>8
  <1> QED BY <1>0, <1>1, <1>2, <1>3

\* The invariant holds at first.
LEMMA KeepStart == Init => KeepInv
  <1> SUFFICES ASSUME Init PROVE KeepInv
    OBVIOUS
  <1>1. BlkInv
    BY BlkStart
  <1>2. KeepTypes
    BY DEF Init, KeepTypes
  <1>3. ASSUME NEW p \in Pools PROVE PoolOK(p)
    <2> PICK c : c = contents[p]
      OBVIOUS
    <2> PICK k \in Files : file[p] = InitFile(k)
      BY DEF Init
    <2> PICK f : f = file[p]
      OBVIOUS
    <2>1. c = [x \in LBAs |-> Zero] /\ handle[p] = None
      BY DEF Init
    <2>2. c \in [LBAs -> Values \cup {Zero, EIO}] /\ AllZero(c)
      BY <2>1 DEF AllZero
    <2>3. f = InitFile(k)
      OBVIOUS
    <2>4. /\ DOMAIN f = Fields /\ (f.exists => f.size \in Sizes) /\ (~f.exists => f.hdr = "zero")
          /\ (f.raw => ~f.is_zeroed /\ \E j \in Files : j.kind = "raw" /\ j.size = f.size)
          /\ (f.hdr # "zero" => FileOK(f, c))
      BY ONLY k \in Files, <2>2, <2>3, FirstFile
    <2> QED BY <2>1, <2>2, <2>4 DEF PoolOK
  <1>4. \A t \in Threads : ThreadOK(t)
    BY CodesApart DEF Init, ThreadOK, OpeningOK, OpeningPCs, InitPCs, PoolPCs, BlockPCs, InLane
  <1> QED BY <1>1, <1>2, <1>3, <1>4 DEF KeepInv

\* A call returns and touched nothing.
LEMMA KeepFail ==
  ASSUME KeepInv, BlkInv', NEW t \in Threads, pc[t] # "idle", pc' = [pc EXCEPT ![t] = "idle"], Leave(t),
         NEW r, r \notin {"inconsistent", "unreadable"}, Return(t, r), at[t] = 1,
         UNCHANGED <<file, handles, at, contents>>
  PROVE  KeepInv'
  <1> PICK p0 : p0 = P(t) /\ p0 \in Pools
    BY CallPools DEF KeepInv, BlkInv, Sharing, P
  <1>0. UNCHANGED <<file, handle, ns_is_zeroed, layout_lock, contents, at>>
    BY DEF handles
  <1>1. KeepTypes'
    BY <1>0 DEF KeepInv, KeepTypes, Return
  <1>2. Elsewhere(t, p0)
    BY <1>0 DEF Elsewhere, Return, Leave, KeepInv, KeepTypes, BlkInv, BlkTypes
  <1>3. SamePool(p0)
    BY <1>0 DEF SamePool
  <1>4. pc'[t] = "idle" /\ ret'[t] = r /\ at'[t] = 1
    BY <1>0 DEF Return, KeepInv, KeepTypes, BlkInv, BlkTypes
  <1>5. ThreadOK(t)'
    BY <1>4 DEF ThreadOK, OpeningOK, OpeningPCs, InitPCs, PoolPCs, BlockPCs, InLane
  <1> QED BY <1>0, <1>1, <1>2, <1>3, <1>5, NeutralKeeps

\* The number of blocks is a number.
LEMMA SumIsInt ==
  ASSUME NEW f, ShapeOK(f), Possible(f)
  PROVE  SumNlba(Infos(f)) \in Int
  <1>1. f.size \in Sizes /\ f.size >= PMEMBLK_MIN_POOL /\ f.bsize \in Bsizes \ {0}
    BY ShapeArenas
  <1> PICK n : n = LastArena(f)
    OBVIOUS
  <1>2. n \in Nat /\ Arenas(f) = 1 .. n /\ Infos(f) = Layout(Rawsize(f), f.bsize, NFREE)
    BY <1>1, InfosIs
  <1> PICK s : s = Infos(f)
    OBVIOUS
  <1>3. s = [i \in 1 .. n |-> s[i]]
    BY <1>2 DEF Layout, LastArena
  <1>4. Len(s) = n
    BY <1>2, <1>3
  <1> PICK e : e = [i \in 1 .. n |-> s[i].external_nlba]
    OBVIOUS
  <1>5. \A i \in 1 .. n : s[i].external_nlba = e[i] /\ e[i] \in Int
    BY <1>1, <1>2, ArenaIs
  <1>6. PICK h : Running(e, n, h)
    BY <1>2, <1>5, RunningExists
  <1>7. SumNlba(s) = h[n]
    BY ONLY <1>2, <1>4, <1>5, <1>6, SumNlbaIs, SMTT(30)
  <1> QED BY <1>2, <1>6, <1>7 DEF Running

\* An open pool has a file with room for its layout.
LEMMA OpenPool ==
  ASSUME NEW p \in Pools, PoolOK(p), HandleOK(p)
  PROVE  /\ FileOK(file[p], contents[p]) /\ ShapeOK(file[p]) /\ Possible(file[p])
         /\ handle[p].nlba \in Int
  <1>1. FileOK(file[p], contents[p]) /\ ShapeOK(file[p])
    BY DEF PoolOK, HandleOK, FileOK
  <1>2. LastArena(file[p]) \in Arenas(file[p])
    BY <1>1, ShapeArenas
  <1>3. Possible(file[p])
    BY <1>1, <1>2 DEF HandleOK, FileOK, AllValid
  <1>4. SumNlba(Infos(file[p])) \in Int
    BY <1>1, <1>3, SumIsInt
  <1> QED BY <1>1, <1>3, <1>4 DEF HandleOK

\* The fields of a call.
LEMMA CallFields ==
  \A c \in Calls : /\ c.lba \in LBAs \cup {0} /\ c.bsize \in Bsizes \cup {0}
                   /\ c.size \in PoolSizes \cup {0}
                   /\ c.op \in BlockOps => c.lba \in LBAs
                   /\ c.op = "write" => c.val \in Values
                   /\ c.op = "close" => c.size = 0
  BY DEF Calls, BlockOps, PoolOps

\* A step of a call on a block that stores nothing.
LEMMA KeepBlock ==
  ASSUME KeepInv, BlkInv', NEW t \in Threads, NEW p0, p0 = P(t), pc[t] \in BlockPCs, NEW q,
         pc' = [pc EXCEPT ![t] = q],
         q \in BlockPCs \ LayingPCs, at[t] = 1, NEW r, ret' = [ret EXCEPT ![t] = r],
         r \notin {"inconsistent", "unreadable"},
         UNCHANGED <<file, ns_is_zeroed, contents, call, at>>,
         SamePool(p0), \A p \in Pools : p # p0 => handle'[p] = handle[p] /\ layout_lock'[p] = layout_lock[p],
         \A u \in Threads : u # t /\ layout_lock[p0] = u => layout_lock'[p0] = u,
         layout_lock' = [p \in Pools |-> layout_lock'[p]],
         q \in {"access", "layout", "unlock"} => call[t].lba < H(t).nlba,
         q \in {"access", "unlock"} => H(t).laidout,
         q = "unlock" => layout_lock'[p0] = t
  PROVE  KeepInv'
  <1>0. p0 \in Pools /\ BlockOK(t) /\ ThreadOK(t) /\ HandleOK(p0) /\ pc[t] # "idle"
    BY CallPools DEF KeepInv, BlkInv, Sharing, P, BlockPCs, InLane, ThreadOK, BlockOK
  <1>1. KeepTypes'
    BY DEF KeepInv, KeepTypes
  <1>2. Elsewhere(t, p0)
    BY DEF Elsewhere, KeepInv, KeepTypes, BlkInv, BlkTypes
  <1>3. /\ pc'[t] = q /\ ret'[t] = r /\ at'[t] = 1 /\ call'[t] = call[t] /\ P(t)' = p0
    BY DEF KeepInv, KeepTypes, BlkInv, BlkTypes, P
  <1>4. HandleOK(p0)'
    BY <1>0, SamePoolOK
  <1>5. H(t)'.nlba = H(t).nlba /\ (H(t)'.laidout <=> H(t).laidout)
    BY <1>3 DEF H, SamePool
  <1>6. BlockOK(t)'
    BY <1>0, <1>3, <1>4, <1>5 DEF BlockOK
  <1>7. OpeningOK(t)'
    BY <1>3 DEF OpeningOK, OpeningPCs, InitPCs, PoolPCs, BlockPCs, InLane
  <1>8. ThreadOK(t)'
    BY <1>3, <1>6, <1>7 DEF ThreadOK
  <1>9. \A u \in Threads : u # t /\ pc[u] # "idle" /\ P(u) = p0 =>
          /\ pc[u] \in OpeningPCs => handle'[p0] = handle[p0]
          /\ layout_lock[p0] = u => layout_lock'[p0] = u
    <2>1. \A u \in Threads : u # t /\ pc[u] # "idle" /\ P(u) = p0 => pc[u] \in BlockPCs
      BY <1>0 DEF KeepInv, BlkInv, Sharing
    <2>2. OpeningPCs \cap BlockPCs = {}
      BY DEF OpeningPCs, PoolPCs, BlockPCs, InLane
    <2> QED BY <2>1, <2>2
  <1> QED BY <1>0, <1>1, <1>2, <1>8, <1>9, NeutralKeeps

\* The steps that choose, lock and leave a lane and check the LBA.
LEMMA KeepLaneSteps ==
  ASSUME KeepInv, BlkInv', NEW t \in Threads,
         LaneEnter(t) \/ LaneLock(t) \/ Block(t) \/ LayoutUnlock(t)
  PROVE  KeepInv'
  <1> PICK p0 : p0 = P(t)
    OBVIOUS
  <1>0. pc[t] \in {"enter", "lock", "block", "unlock"}
    BY DEF LaneEnter, LaneLock, Block, LayoutUnlock, Goto
  <1>1. /\ pc[t] \in BlockPCs /\ pc[t] \notin LayingPCs
    BY <1>0 DEF BlockPCs, InLane, LayingPCs
  <1>2. /\ p0 \in Pools /\ BlockOK(t) /\ ThreadOK(t) /\ HandleOK(p0) /\ at[t] = 1
        /\ ret[t] \notin {"inconsistent", "unreadable"}
    BY <1>1, CallPools DEF KeepInv, BlkInv, Sharing, P, BlockPCs, InLane, ThreadOK, BlockOK
  <1>3. /\ ret = [ret EXCEPT ![t] = ret[t]]
        /\ layout_lock = [p \in Pools |-> layout_lock[p]] /\ handle = [p \in Pools |-> handle[p]]
    BY DEF KeepInv, KeepTypes, BlkInv, BlkTypes
  <1>4. CASE LaneEnter(t)
    <2> PICK q : q = "lock"
      OBVIOUS
    <2> PICK h : h = [handle[p0] EXCEPT !.next_lane = @ + 1]
      OBVIOUS
    <2>1. /\ pc' = [pc EXCEPT ![t] = q] /\ handle' = [handle EXCEPT ![p0] = h]
          /\ UNCHANGED <<file, ns_is_zeroed, contents, call, at, layout_lock, ret>>
      BY <1>4 DEF LaneEnter, Goto
    <2>2. /\ DOMAIN h = DOMAIN handle[p0] /\ h.laidout = handle[p0].laidout /\ h.nlba = handle[p0].nlba
          /\ h.narena = handle[p0].narena /\ h.nlane = handle[p0].nlane
      BY <1>2 DEF HandleOK
    <2>0. q \notin {"access", "layout", "unlock"}
      OBVIOUS
    <2>3. SamePool(p0) /\ \A p \in Pools : p # p0 => handle'[p] = handle[p] /\ layout_lock'[p] = layout_lock[p]
      BY <1>2, <1>3, <2>1, <2>2 DEF SamePool
    <2>4. q \in BlockPCs \ LayingPCs
      BY DEF BlockPCs, LayingPCs
    <2>5. /\ ret' = [ret EXCEPT ![t] = ret[t]] /\ layout_lock' = [p \in Pools |-> layout_lock'[p]]
          /\ \A u \in Threads : u # t /\ layout_lock[p0] = u => layout_lock'[p0] = u
      BY <1>3, <2>1
    <2> QED BY ONLY KeepInv, BlkInv', t \in Threads, p0 = P(t), <2>0, <1>1, <1>2, <2>1, <2>3, <2>4, <2>5, KeepBlock, ZenonT(40)
  <1>5. CASE LaneLock(t)
    <2> PICK q : q = "block"
      OBVIOUS
    <2>1. /\ pc' = [pc EXCEPT ![t] = q]
          /\ UNCHANGED <<file, ns_is_zeroed, contents, call, at, layout_lock, ret, handle>>
      BY <1>5 DEF LaneLock, Goto
    <2>0. q \notin {"access", "layout", "unlock"}
      OBVIOUS
    <2>3. SamePool(p0) /\ \A p \in Pools : p # p0 => handle'[p] = handle[p] /\ layout_lock'[p] = layout_lock[p]
      BY <2>1 DEF SamePool
    <2>4. q \in BlockPCs \ LayingPCs
      BY DEF BlockPCs, LayingPCs, InLane
    <2>5. /\ ret' = [ret EXCEPT ![t] = ret[t]] /\ layout_lock' = [p \in Pools |-> layout_lock'[p]]
          /\ \A u \in Threads : u # t /\ layout_lock[p0] = u => layout_lock'[p0] = u
      BY <1>3, <2>1
    <2> QED BY ONLY KeepInv, BlkInv', t \in Threads, p0 = P(t), <2>0, <1>1, <1>2, <2>1, <2>3, <2>4, <2>5, KeepBlock
  <1>6. CASE Block(t)
    <2> DEFINE bad  == call[t].lba >= H(t).nlba
               done == bad \/ (~H(t).laidout /\ call[t].op \in {"read", "set_zero"})
    <2> PICK q : q = IF done THEN "exit" ELSE IF H(t).laidout THEN "access" ELSE "layout"
      OBVIOUS
    <2> PICK r : r = IF bad THEN EINVAL ELSE IF done /\ call[t].op = "read" THEN Zero ELSE ret[t]
      OBVIOUS
    <2>1. /\ pc' = [pc EXCEPT ![t] = q] /\ ret' = [ret EXCEPT ![t] = r]
          /\ UNCHANGED <<file, contents, call, at, handles>>
      BY <1>6 DEF Block, Goto, Return
    <2>2. UNCHANGED <<file, ns_is_zeroed, contents, call, at, layout_lock, handle>>
      BY <2>1 DEF handles
    <2>3. SamePool(p0) /\ \A p \in Pools : p # p0 => handle'[p] = handle[p] /\ layout_lock'[p] = layout_lock[p]
      BY <2>2 DEF SamePool
    <2>4. q \in BlockPCs \ LayingPCs /\ q # "unlock"
      BY DEF BlockPCs, LayingPCs, InLane
    <2>5. r \notin {"inconsistent", "unreadable"}
      BY <1>2, CodesApart
    <2>6. /\ q \in {"access", "layout", "unlock"} => call[t].lba < H(t).nlba
          /\ q \in {"access", "unlock"} => H(t).laidout
      <3>1. call[t].lba \in Nat /\ H(t).nlba \in Int
        <4>1. call[t] \in Calls
          BY <1>1 DEF KeepInv, BlkInv, Sharing, BlockPCs, InLane
        <4>2. call[t].lba \in Nat
          <5>1. call[t].lba \in LBAs \cup {0}
            BY <4>1, CallFields
          <5>2. LBAs \cup {0} \subseteq Nat
            BY BlkAssumption
          <5> QED BY <5>1, <5>2
        <4>3. H(t).nlba \in Int
          BY <1>2, OpenPool DEF H, KeepInv
        <4> QED BY <4>2, <4>3
      <3> QED BY <3>1
    <2>7. /\ layout_lock' = [p \in Pools |-> layout_lock'[p]]
          /\ \A u \in Threads : u # t /\ layout_lock[p0] = u => layout_lock'[p0] = u
      BY <1>3, <2>2
    <2> HIDE DEF done, bad
    <2> QED BY <1>1, <1>2, <2>1, <2>2, <2>3, <2>4, <2>5, <2>6, <2>7, KeepBlock
  <1>7. CASE LayoutUnlock(t)
    <2> PICK q : q = "access"
      OBVIOUS
    <2>1. /\ pc' = [pc EXCEPT ![t] = q] /\ layout_lock' = [layout_lock EXCEPT ![p0] = None]
          /\ pc[t] = "unlock"
          /\ UNCHANGED <<file, ns_is_zeroed, contents, call, at, ret, handle>>
      BY <1>7 DEF LayoutUnlock, Goto
    <2>2. H(t).laidout /\ layout_lock[p0] = t /\ call[t].lba < H(t).nlba
      BY <1>2, <2>1 DEF BlockOK
    <2>3. SamePool(p0) /\ \A p \in Pools : p # p0 => handle'[p] = handle[p] /\ layout_lock'[p] = layout_lock[p]
      BY <1>3, <2>1, <2>2 DEF SamePool, H
    <2>4. q \in BlockPCs \ LayingPCs
      BY DEF BlockPCs, LayingPCs, InLane
    <2>5. /\ ret' = [ret EXCEPT ![t] = ret[t]] /\ layout_lock' = [p \in Pools |-> layout_lock'[p]]
          /\ \A u \in Threads : u # t /\ layout_lock[p0] = u => layout_lock'[p0] = u
      BY <1>3, <2>1, <2>2
    <2>6. q # "unlock"
      OBVIOUS
    <2>7. pc' = [pc EXCEPT ![t] = q] /\ UNCHANGED <<file, ns_is_zeroed, contents, call, at>>
      BY <2>1
    <2>8. call[t].lba < H(t).nlba /\ H(t).laidout
      BY <2>2
    <2> QED BY ONLY KeepInv, BlkInv', t \in Threads, p0 = P(t), <1>1, <1>2, <2>7, <2>8, <2>3, <2>4,
                    <2>5, <2>6, KeepBlock
  <1> QED BY <1>4, <1>5, <1>6, <1>7

LEMMA KeepLayoutLock ==
  ASSUME KeepInv, BlkInv', NEW t \in Threads, LayoutLock(t)
  PROVE  KeepInv'
  <1> PICK p0 : p0 = P(t)
    OBVIOUS
  <1> PICK q : q = IF H(t).laidout THEN "unlock" ELSE "zero_map"
    OBVIOUS
  <1>0. /\ pc[t] = "layout" /\ pc' = [pc EXCEPT ![t] = q] /\ layout_lock[p0] = None
        /\ layout_lock' = [layout_lock EXCEPT ![p0] = t]
        /\ UNCHANGED <<file, ns_is_zeroed, handle, call, at, ret, contents>>
    BY DEF LayoutLock, Goto
  <1>1. /\ pc[t] \in BlockPCs /\ pc[t] \notin LayingPCs /\ q \in BlockPCs
    BY <1>0 DEF BlockPCs, InLane, LayingPCs
  <1>2. /\ p0 \in Pools /\ BlockOK(t) /\ ThreadOK(t) /\ HandleOK(p0) /\ PoolOK(p0) /\ at[t] = 1
        /\ ret[t] \notin {"inconsistent", "unreadable"} /\ call[t].lba < H(t).nlba
    BY <1>0, <1>1, CallPools DEF KeepInv, BlkInv, Sharing, P, BlockPCs, InLane, ThreadOK, BlockOK
  <1>3. KeepTypes'
    BY <1>0 DEF KeepInv, KeepTypes
  <1>4. Elsewhere(t, p0)
    BY <1>0 DEF Elsewhere, KeepInv, KeepTypes, BlkInv, BlkTypes
  <1>5. /\ pc'[t] = q /\ P(t)' = p0 /\ layout_lock'[p0] = t /\ t # None
        /\ \A u \in Threads : layout_lock[p0] # u
    BY <1>0, <1>2, BlkAssumption DEF KeepInv, KeepTypes, BlkInv, BlkTypes, P
  <1>6. SamePool(p0)
    BY <1>0, <1>5 DEF SamePool
  <1>7. HandleOK(p0)'
    BY <1>0, <1>2, <1>6, SamePoolOK
  <1>8. OpeningOK(t)'
    BY <1>1, <1>5 DEF OpeningOK, OpeningPCs, InitPCs, PoolPCs, BlockPCs, InLane
  <1>9. ASSUME q \in LayingPCs PROVE LayingOK(t)'
    <2>1. q = "zero_map" /\ ~H(t).laidout
      BY <1>9 DEF LayingPCs
    <2>2. H(t)' = H(t) /\ F(t)' = F(t) /\ F(t) = file[p0] /\ at'[t] = 1
      BY <1>0, <1>2, <1>5 DEF H, F
    <2>3. FileOK(file[p0], contents[p0]) /\ ShapeOK(file[p0])
      BY <1>2, OpenPool
    <2>4. LastArena(F(t)) \in Nat \ {0}
      BY <2>2, <2>3, ShapeArenas
    <2>5. ~Valid(F(t), LastArena(F(t)))
      BY <1>0, <1>2, <2>1, <2>2, <2>3 DEF HandleOK, FileOK, H
    <2>6. Done(t)' = {}
      BY <1>5, <2>1, <2>2 DEF Done
    <2>7. pc'[t] = "zero_map"
      BY <1>5, <2>1
    <2> QED BY <2>1, <2>2, <2>4, <2>5, <2>6, <2>7 DEF LayingOK
  <1>10. H(t)' = H(t) /\ q \in {"unlock", "zero_map"} /\ (q = "unlock" => H(t).laidout)
    BY <1>0, <1>5 DEF H
  <1>11. BlockOK(t)'
    BY <1>0, <1>2, <1>5, <1>7, <1>9, <1>10 DEF BlockOK
  <1>12. ThreadOK(t)'
    BY <1>0, <1>1, <1>2, <1>5, <1>8, <1>11 DEF ThreadOK
  <1>13. \A u \in Threads : u # t /\ pc[u] # "idle" /\ P(u) = p0 =>
           /\ pc[u] \in OpeningPCs => handle'[p0] = handle[p0]
           /\ layout_lock[p0] = u => layout_lock'[p0] = u
    BY <1>0, <1>5
  <1> QED BY <1>0, <1>2, <1>3, <1>4, <1>6, <1>12, <1>13, NeutralKeeps

LEMMA KeepReturns ==
  ASSUME KeepInv, BlkInv', NEW t \in Threads, RdonlyError(t) \/ LaneExit(t)
  PROVE  KeepInv'
  <1>0. pc[t] \in {"erofs", "exit"} /\ pc' = [pc EXCEPT ![t] = "idle"] /\ Leave(t)
    BY DEF RdonlyError, LaneExit, Goto, Fail
  <1>1. pc[t] # "idle" /\ pc[t] \in BlockPCs \ LayingPCs
    BY <1>0 DEF BlockPCs, InLane, LayingPCs
  <1>2. at[t] = 1 /\ ret[t] \notin {"inconsistent", "unreadable"} /\ ret = [ret EXCEPT ![t] = ret[t]]
    BY <1>1 DEF KeepInv, ThreadOK, BlockOK, KeepTypes
  <1>3. CASE RdonlyError(t)
    <2>1. Return(t, EROFS) /\ UNCHANGED <<file, handles, at, contents>>
      BY <1>3 DEF RdonlyError, Fail
    <2>2. EROFS \notin {"inconsistent", "unreadable"}
      BY CodesApart
    <2> QED BY <1>0, <1>1, <1>2, <2>1, <2>2, KeepFail
  <1>4. CASE LaneExit(t)
    <2>1. UNCHANGED <<file, ns_is_zeroed, handle, layout_lock, at, ret, contents>>
      BY <1>4 DEF LaneExit
    <2> PICK p0 : p0 = P(t) /\ p0 \in Pools
      BY <1>1, CallPools DEF KeepInv, BlkInv, Sharing, P
    <2>2. KeepTypes'
      BY <2>1 DEF KeepInv, KeepTypes
    <2>3. Elsewhere(t, p0)
      BY <1>0, <2>1 DEF Elsewhere, Leave, KeepInv, KeepTypes, BlkInv, BlkTypes
    <2>4. SamePool(p0)
      BY <2>1 DEF SamePool
    <2>5. pc'[t] = "idle"
      BY <1>0 DEF KeepInv, KeepTypes, BlkInv, BlkTypes
    <2>6. ThreadOK(t)'
      BY <1>2, <2>1, <2>5 DEF ThreadOK, OpeningOK, OpeningPCs, InitPCs, PoolPCs, BlockPCs, InLane
    <2> QED BY <2>1, <2>2, <2>3, <2>4, <2>6, NeutralKeeps
  <1> QED BY <1>3, <1>4

LEMMA KeepCall ==
  ASSUME KeepInv, BlkInv', NEW t \in Threads, NEW c \in Calls, Call(t, c)
  PROVE  KeepInv'
  <1> PICK q : q = IF c.op \in PoolOps \cup {"close"} THEN c.op
                   ELSE IF c.op # "read" /\ handle[c.pool].rdonly THEN "erofs" ELSE "enter"
    OBVIOUS
  <1> PICK p0 : p0 = c.pool /\ p0 \in Pools
    BY CallPools
  <1>0. /\ pc[t] = "idle" /\ pc' = [pc EXCEPT ![t] = q] /\ call' = [call EXCEPT ![t] = c]
        /\ ret' = [ret EXCEPT ![t] = None] /\ UNCHANGED <<file, handles, at, contents>>
    BY DEF Call
  <1>1. \/ c.op \in PoolOps /\ handle[p0] = None
        \/ c.op = "close"
        \/ c.op \in BlockOps /\ handle[p0] # None
    BY DEF Call, BlockOps
  <1>2. UNCHANGED <<file, handle, ns_is_zeroed, layout_lock, contents, at>>
    BY <1>0 DEF handles
  <1>3. KeepTypes'
    BY <1>0, <1>2 DEF KeepInv, KeepTypes
  <1>4. Elsewhere(t, p0)
    BY <1>0, <1>2 DEF Elsewhere, KeepInv, KeepTypes, BlkInv, BlkTypes
  <1>5. SamePool(p0)
    BY <1>2 DEF SamePool
  <1>6. ThreadOK(t) /\ at[t] = 1 /\ PoolOK(p0)
    BY <1>0 DEF KeepInv, ThreadOK, BlockPCs, InLane
  <1>7. /\ pc'[t] = q /\ call'[t] = c /\ P(t)' = p0 /\ at'[t] = 1 /\ ret'[t] = None
    BY <1>0, <1>2, <1>6 DEF KeepInv, KeepTypes, BlkInv, BlkTypes, P
  <1>8. None \notin {"inconsistent", "unreadable"}
    BY CodesApart
  <1>9. CASE c.op \in PoolOps \cup {"close"}
    <2>1. q = c.op /\ q \in {"create", "open", "check", "close"}
      BY <1>9 DEF PoolOps
    <2>2. q # "close" => handle[p0] = None
      BY <1>1, <2>1 DEF BlockOps
    <2>3. OpeningOK(t)'
      BY <1>2, <1>7, <2>1, <2>2 DEF OpeningOK, OpeningPCs, InitPCs
    <2>4. ThreadOK(t)'
      BY <1>7, <1>8, <2>1, <2>3 DEF ThreadOK, BlockPCs, InLane
    <2> QED BY <1>2, <1>3, <1>4, <1>5, <2>4, NeutralKeeps
  <1>10. CASE c.op \notin PoolOps \cup {"close"}
    <2>1. q \in {"erofs", "enter"} /\ c.op \in BlockOps /\ handle[p0] # None
      BY <1>1, <1>10
    <2>2. HandleOK(p0)
      BY <1>6, <2>1 DEF PoolOK
    <2>3. HandleOK(p0)'
      BY <1>2, <1>5, <2>2, SamePoolOK
    <2>4. BlockOK(t)'
      BY <1>7, <2>1, <2>3 DEF BlockOK, LayingPCs
    <2>5. OpeningOK(t)'
      BY <1>7, <2>1 DEF OpeningOK, OpeningPCs, InitPCs, PoolPCs
    <2>6. ThreadOK(t)'
      BY <1>7, <1>8, <2>1, <2>4, <2>5 DEF ThreadOK, BlockPCs
    <2> QED BY <1>2, <1>3, <1>4, <1>5, <2>6, NeutralKeeps
  <1> QED BY <1>9, <1>10

\* What PoolOK says of a file f whose blocks should hold c.
GoodFile(f, c) ==
  /\ DOMAIN f = Fields
  /\ f.exists => f.size \in Sizes
  /\ ~f.exists => f.hdr = "zero"
  /\ f.raw => ~f.is_zeroed /\ \E k \in Files : k.kind = "raw" /\ k.size = f.size
  /\ f.hdr # "zero" => FileOK(f, c)
  /\ c \in [LBAs -> Values \cup {Zero, EIO}]
  /\ (f.hdr # "valid" \/ ~AllValid(f)) => AllZero(c)

\* A pool with a header is a good file.
LEMMA PoolIsGood ==
  ASSUME NEW p \in Pools
  PROVE  /\ PoolOK(p) <=> GoodFile(file[p], contents[p]) /\ (handle[p] # None => HandleOK(p))
         /\ PoolOK(p)' <=> GoodFile(file'[p], contents'[p]) /\ (handle'[p] # None => HandleOK(p)')
  BY Zenon DEF PoolOK, GoodFile

\* What a call that opens pool p0 may rely on.
LEMMA OpeningCall ==
  ASSUME KeepInv, NEW t \in Threads, pc[t] \in PoolPCs
  PROVE  /\ P(t) \in Pools /\ pc[t] # "idle" /\ at[t] = 1 /\ call[t] \in Calls /\ OpeningOK(t)
         /\ GoodFile(F(t), contents[P(t)]) /\ (handle[P(t)] # None => HandleOK(P(t)))
  <1>1. pc[t] # "idle" /\ pc[t] \notin BlockPCs
    BY DEF PoolPCs, BlockPCs, InLane
  <1>2. call[t] \in Calls /\ P(t) \in Pools
    BY <1>1, CallPools DEF KeepInv, BlkInv, Sharing, P
  <1>3. at[t] = 1 /\ OpeningOK(t) /\ PoolOK(P(t))
    BY <1>1, <1>2 DEF KeepInv, ThreadOK
  <1> QED BY <1>1, <1>2, <1>3, PoolIsGood DEF F

\* A call that opens a pool stores g.
LEMMA KeepStore ==
  ASSUME KeepInv, BlkInv', NEW t \in Threads, pc[t] \in OpeningPCs, NEW p0, p0 = P(t),
         NEW q \in OpeningPCs, pc' = [pc EXCEPT ![t] = q], NEW g, file' = [file EXCEPT ![p0] = g],
         UNCHANGED <<handle, ns_is_zeroed, layout_lock, call, at, ret, contents>>,
         GoodFile(g, contents[p0]),
         q \in InitPCs => g.exists /\ g.size >= PMEMBLK_MIN_POOL /\ (call[t].size # 0 => ~g.raw),
         q \in {"init_zeroed", "init_hdr"} => FileOK(g, contents[p0]) /\ g.hdr = "zero",
         q = "init_sync" => g.hdr = "torn", q = "btt_init" => g.hdr = "valid"
  PROVE  KeepInv'
  <1>0. pc[t] \in PoolPCs /\ q \in PoolPCs /\ q # "checking" /\ q \notin BlockPCs
    BY DEF OpeningPCs, PoolPCs, BlockPCs, InLane
  <1>1. p0 \in Pools /\ at[t] = 1 /\ handle[p0] = None /\ ret[t] \notin {"inconsistent", "unreadable"}
    BY <1>0, OpeningCall DEF OpeningOK, KeepInv, ThreadOK
  <1>2. KeepTypes'
    BY DEF KeepInv, KeepTypes
  <1>3. Elsewhere(t, p0)
    BY DEF Elsewhere, KeepInv, KeepTypes, BlkInv, BlkTypes
  <1>4. /\ pc'[t] = q /\ P(t)' = p0 /\ file'[p0] = g /\ F(t)' = g /\ call'[t] = call[t]
    BY <1>1 DEF KeepInv, KeepTypes, BlkInv, BlkTypes, P, F
  <1>5. PoolOK(p0)'
    BY <1>1, <1>4, PoolIsGood
  <1>6. OpeningOK(t)'
    BY <1>0, <1>1, <1>4 DEF OpeningOK
  <1>7. ThreadOK(t)'
    BY <1>0, <1>1, <1>4, <1>6 DEF ThreadOK
  <1> QED BY <1>0, <1>1, <1>2, <1>3, <1>5, <1>7, AloneKeeps

\* A call that opens a pool and fails leaves the file as it is.
LEMMA OpeningFails ==
  ASSUME KeepInv, BlkInv', NEW t \in Threads, pc[t] \in PoolPCs, NEW s, Fail(t, s, EINVAL)
  PROVE  KeepInv'
  <1>1. pc[t] # "idle" /\ at[t] = 1
    BY OpeningCall
  <1>2. /\ pc' = [pc EXCEPT ![t] = "idle"] /\ Leave(t) /\ Return(t, EINVAL)
        /\ UNCHANGED <<file, handles, at, contents>>
    BY DEF Fail, Goto
  <1>3. EINVAL \notin {"inconsistent", "unreadable"}
    BY CodesApart
  <1> QED BY <1>1, <1>2, <1>3, KeepFail

LEMMA KeepOpenFile ==
  ASSUME KeepInv, BlkInv', NEW t \in Threads, OpenFile(t)
  PROVE  KeepInv'
  <1> USE FieldsAre
  <1> PICK p0 : p0 = P(t)
    OBVIOUS
  <1> PICK n : n = call[t].size
    OBVIOUS
  <1> PICK q : q = "init"
    OBVIOUS
  <1>0. pc[t] = "create"
    BY DEF OpenFile
  <1>1. pc[t] \in PoolPCs /\ pc[t] \in OpeningPCs
    BY <1>0 DEF PoolPCs, OpeningPCs
  <1>2. /\ p0 \in Pools /\ call[t] \in Calls /\ OpeningOK(t)
        /\ GoodFile(file[p0], contents[p0])
    BY <1>1, OpeningCall DEF F
  <1>3. CASE Fail(t, "create", EINVAL)
    BY <1>1, <1>3, OpeningFails
  <1>4. CASE ~Fail(t, "create", EINVAL)
    <2>1. /\ IF n # 0 THEN n >= PMEMBLK_MIN_POOL /\ ~file[p0].exists
                      ELSE file[p0].exists /\ file[p0].size >= PMEMBLK_MIN_POOL
          /\ pc' = [pc EXCEPT ![t] = q]
          /\ IF n = 0 THEN UNCHANGED file
             ELSE file' = [file EXCEPT ![p0] = [NoFile EXCEPT !.exists = TRUE, !.size = n]]
          /\ UNCHANGED <<handles, call, at, ret, contents>>
      BY <1>4, Zenon DEF OpenFile, Goto, Store, F
    <2>2. UNCHANGED <<handle, ns_is_zeroed, layout_lock, call, at, ret, contents>>
      BY <2>1 DEF handles
    <2>3. /\ q \in OpeningPCs /\ q \in InitPCs
          /\ q \notin {"init_zeroed", "init_hdr", "init_sync", "btt_init"}
      BY DEF OpeningPCs, PoolPCs, InitPCs
    <2>4. PICK g : /\ file' = [file EXCEPT ![p0] = g] /\ GoodFile(g, contents[p0])
                   /\ g.exists /\ g.size >= PMEMBLK_MIN_POOL /\ (n # 0 => ~g.raw)
      <3>1. CASE n = 0
        <4>1. file' = [file EXCEPT ![p0] = file[p0]]
          BY <1>2, <2>1, <3>1 DEF KeepInv, KeepTypes
        <4> QED BY <1>2, <2>1, <3>1, <4>1
      <3>2. CASE n # 0
        <4> PICK g : g = [NoFile EXCEPT !.exists = TRUE, !.size = n]
          OBVIOUS
        <4>1. DOMAIN g = Fields /\ g.exists /\ g.size = n /\ ~g.raw /\ g.hdr = "zero"
          BY DEF NoFile
        <4>2. n \in Sizes
          BY <1>2, <3>2, CallFields DEF Sizes
        <4>3. AllZero(contents[p0]) /\ contents[p0] \in [LBAs -> Values \cup {Zero, EIO}]
          BY <1>2, <2>1, <3>2 DEF GoodFile
        <4>4. GoodFile(g, contents[p0])
          BY <4>1, <4>2, <4>3 DEF GoodFile
        <4> QED BY <2>1, <3>2, <4>1, <4>4
      <3> QED BY <3>1, <3>2
    <2> QED BY <1>1, <2>1, <2>2, <2>3, <2>4, KeepStore
  <1> QED BY <1>3, <1>4

LEMMA KeepInitBsize ==
  ASSUME KeepInv, BlkInv', NEW t \in Threads, InitBsize(t)
  PROVE  KeepInv'
  <1> PICK p0 : p0 = P(t)
    OBVIOUS
  <1> PICK b : b = call[t].bsize
    OBVIOUS
  <1> PICK q : q = "init_zeroed"
    OBVIOUS
  <1> PICK f : f = file[p0]
    OBVIOUS
  <1> PICK c : c = contents[p0]
    OBVIOUS
  <1>0. pc[t] = "init"
    BY DEF InitBsize
  <1>1. pc[t] \in PoolPCs /\ pc[t] \in OpeningPCs /\ pc[t] \in InitPCs
    BY <1>0 DEF PoolPCs, OpeningPCs, InitPCs
  <1>2. /\ p0 \in Pools /\ call[t] \in Calls /\ OpeningOK(t) /\ GoodFile(f, c)
    BY <1>1, OpeningCall DEF F
  <1>3. CASE Fail(t, "init", EINVAL)
    BY <1>1, <1>3, OpeningFails
  <1>4. CASE ~Fail(t, "init", EINVAL)
    <2> PICK g : g = Formatted(f, b)
      OBVIOUS
    <2>1. /\ f.hdr = "zero" /\ b # 0 /\ pc' = [pc EXCEPT ![t] = q]
          /\ file' = [file EXCEPT ![p0] = g] /\ UNCHANGED <<handles, call, at, ret, contents>>
      BY <1>4, Zenon DEF InitBsize, Goto, Store, F
    <2>2. UNCHANGED <<handle, ns_is_zeroed, layout_lock, call, at, ret, contents>>
      BY <2>1 DEF handles
    <2>3. /\ q \in OpeningPCs /\ q \in {"init_zeroed", "init_hdr"} /\ q \notin {"init_sync", "btt_init"}
      BY DEF OpeningPCs, PoolPCs
    <2>4. b \in Bsizes \ {0}
      BY <1>2, <2>1, CallFields
    <2>5. /\ f.exists /\ f.size >= PMEMBLK_MIN_POOL /\ (call[t].size # 0 => ~f.raw)
          /\ DOMAIN f = Fields /\ f.size \in Sizes
      BY <1>1, <1>2 DEF OpeningOK, F, GoodFile
    <2>6. /\ FileOK(g, c) /\ DOMAIN g = Fields /\ ~AllValid(g)
          /\ g.hdr = f.hdr /\ g.size = f.size /\ (g.exists <=> f.exists) /\ (g.raw <=> f.raw)
          /\ (g.is_zeroed <=> f.is_zeroed)
      BY ONLY <2>4, <2>5, g = Formatted(f, b), FormattedOK
    <2>7. GoodFile(g, c)
      BY <1>2, <2>1, <2>5, <2>6 DEF GoodFile
    <2>8. g.hdr = "zero" /\ g.exists /\ g.size >= PMEMBLK_MIN_POOL /\ (call[t].size # 0 => ~g.raw)
      BY <2>1, <2>5, <2>6
    <2> QED BY <1>1, <2>1, <2>2, <2>3, <2>6, <2>7, <2>8, KeepStore
  <1> QED BY <1>3, <1>4

LEMMA KeepInitZeroed ==
  ASSUME KeepInv, BlkInv', NEW t \in Threads, InitZeroed(t)
  PROVE  KeepInv'
  <1> USE FieldsAre
  <1> PICK p0 : p0 = P(t)
    OBVIOUS
  <1> PICK z \in BOOLEAN : z = (call[t].size # 0)
    BY Zenon
  <1> PICK q : q = "init_hdr"
    OBVIOUS
  <1> PICK f : f = file[p0]
    OBVIOUS
  <1> PICK c : c = contents[p0]
    OBVIOUS
  <1> PICK g : g = [f EXCEPT !.is_zeroed = z]
    OBVIOUS
  <1>0. /\ pc[t] = "init_zeroed" /\ pc' = [pc EXCEPT ![t] = q]
        /\ file' = [file EXCEPT ![p0] = g] /\ UNCHANGED <<handles, call, at, ret, contents>>
    BY Zenon DEF InitZeroed, Goto, Store, F
  <1>1. /\ pc[t] \in PoolPCs /\ pc[t] \in OpeningPCs /\ pc[t] \in InitPCs
        /\ pc[t] \in {"init_zeroed", "init_hdr"}
    BY <1>0 DEF PoolPCs, OpeningPCs, InitPCs
  <1>2. /\ p0 \in Pools /\ OpeningOK(t) /\ GoodFile(f, c)
    BY <1>1, OpeningCall DEF F
  <1>3. /\ f.exists /\ f.size >= PMEMBLK_MIN_POOL /\ (call[t].size # 0 => ~f.raw)
        /\ DOMAIN f = Fields /\ f.size \in Sizes /\ f.hdr = "zero" /\ FileOK(f, c)
    BY <1>1, <1>2 DEF OpeningOK, F, GoodFile
  <1>4. UNCHANGED <<handle, ns_is_zeroed, layout_lock, call, at, ret, contents>>
    BY <1>0 DEF handles
  <1>5. /\ q \in OpeningPCs /\ q \in {"init_zeroed", "init_hdr"} /\ q \notin {"init_sync", "btt_init"}
    BY DEF OpeningPCs, PoolPCs
  <1>6. /\ DOMAIN g = Fields /\ g.size = f.size /\ g.bsize = f.bsize /\ g.raw = f.raw /\ g.hdr = f.hdr
        /\ g.exists = f.exists /\ g.info = f.info /\ g.map = f.map /\ g.flog = f.flog /\ g.data = f.data
        /\ g.is_zeroed = z
    BY <1>3
  <1>7. SameFormat(f, g)
    BY <1>6 DEF SameFormat
  <1>8. FileOK(g, c) /\ (AllValid(g) <=> AllValid(f))
    <2>1. /\ FileOK(f, c) /\ g.info = f.info /\ g.map = f.map /\ g.flog = f.flog
          /\ g.data = f.data
      BY <1>3, <1>6
    <2> QED BY ONLY <1>7, <2>1, BlocksKept
  <1>9. g.raw => ~g.is_zeroed
    BY <1>3, <1>6
  <1>10. GoodFile(g, c)
    BY <1>2, <1>3, <1>6, <1>8, <1>9 DEF GoodFile
  <1>11. g.hdr = "zero" /\ g.exists /\ g.size >= PMEMBLK_MIN_POOL /\ (call[t].size # 0 => ~g.raw)
    BY <1>3, <1>6
  <1> QED BY <1>0, <1>1, <1>4, <1>5, <1>8, <1>10, <1>11, KeepStore

LEMMA KeepInitHdr ==
  ASSUME KeepInv, BlkInv', NEW t \in Threads, InitHdr(t)
  PROVE  KeepInv'
  <1> USE FieldsAre
  <1> PICK p0 : p0 = P(t)
    OBVIOUS
  <1> PICK q : q = "init_sync"
    OBVIOUS
  <1> PICK f : f = file[p0]
    OBVIOUS
  <1> PICK c : c = contents[p0]
    OBVIOUS
  <1> PICK g : g = [f EXCEPT !.hdr = "torn", !.feat = "none"]
    OBVIOUS
  <1>0. /\ pc[t] = "init_hdr" /\ pc' = [pc EXCEPT ![t] = q]
        /\ file' = [file EXCEPT ![p0] = g] /\ UNCHANGED <<handles, call, at, ret, contents>>
    BY Zenon DEF InitHdr, Goto, Store, F
  <1>1. /\ pc[t] \in PoolPCs /\ pc[t] \in OpeningPCs /\ pc[t] \in InitPCs
        /\ pc[t] \in {"init_zeroed", "init_hdr"}
    BY <1>0 DEF PoolPCs, OpeningPCs, InitPCs
  <1>2. /\ p0 \in Pools /\ OpeningOK(t) /\ GoodFile(f, c)
    BY <1>1, OpeningCall DEF F
  <1>3. f.exists /\ DOMAIN f = Fields /\ f.size \in Sizes /\ f.hdr = "zero" /\ FileOK(f, c)
    BY <1>1, <1>2 DEF OpeningOK, F, GoodFile
  <1>4. UNCHANGED <<handle, ns_is_zeroed, layout_lock, call, at, ret, contents>>
    BY <1>0 DEF handles
  <1>5. q \in OpeningPCs /\ q \notin InitPCs /\ q \notin {"init_zeroed", "init_hdr"} /\ q # "btt_init"
    BY DEF OpeningPCs, PoolPCs, InitPCs
  <1>6. /\ DOMAIN g = Fields /\ g.size = f.size /\ g.bsize = f.bsize /\ g.raw = f.raw /\ g.hdr = "torn"
        /\ g.exists = f.exists /\ g.info = f.info /\ g.map = f.map /\ g.flog = f.flog /\ g.data = f.data
        /\ g.is_zeroed = f.is_zeroed
    BY <1>3
  <1>7. SameFormat(f, g)
    BY <1>6 DEF SameFormat
  <1>8. FileOK(g, c) /\ (AllValid(g) <=> AllValid(f))
    <2>1. /\ FileOK(f, c) /\ g.info = f.info /\ g.map = f.map /\ g.flog = f.flog
          /\ g.data = f.data
      BY <1>3, <1>6
    <2> QED BY ONLY <1>7, <2>1, BlocksKept
  <1>9. GoodFile(g, c)
    BY <1>2, <1>3, <1>6, <1>8 DEF GoodFile
  <1> QED BY <1>0, <1>1, <1>4, <1>5, <1>6, <1>9, KeepStore

LEMMA KeepInitSync ==
  ASSUME KeepInv, BlkInv', NEW t \in Threads, InitSync(t)
  PROVE  KeepInv'
  <1> USE FieldsAre
  <1> PICK p0 : p0 = P(t)
    OBVIOUS
  <1> PICK q : q = "btt_init"
    OBVIOUS
  <1> PICK f : f = file[p0]
    OBVIOUS
  <1> PICK c : c = contents[p0]
    OBVIOUS
  <1> PICK g : g = [f EXCEPT !.hdr = "valid"]
    OBVIOUS
  <1>0. /\ pc[t] = "init_sync" /\ pc' = [pc EXCEPT ![t] = q]
        /\ file' = [file EXCEPT ![p0] = g] /\ UNCHANGED <<handles, call, at, ret, contents>>
    BY Zenon DEF InitSync, Goto, Store, F
  <1>1. pc[t] \in PoolPCs /\ pc[t] \in OpeningPCs
    BY <1>0 DEF PoolPCs, OpeningPCs
  <1>2. /\ p0 \in Pools /\ OpeningOK(t) /\ GoodFile(f, c)
    BY <1>1, OpeningCall DEF F
  <1>3. f.exists /\ DOMAIN f = Fields /\ f.size \in Sizes /\ f.hdr = "torn" /\ FileOK(f, c)
    BY <1>0, <1>2 DEF OpeningOK, F, GoodFile
  <1>4. UNCHANGED <<handle, ns_is_zeroed, layout_lock, call, at, ret, contents>>
    BY <1>0 DEF handles
  <1>5. q \in OpeningPCs /\ q \notin InitPCs /\ q \notin {"init_zeroed", "init_hdr"} /\ q # "init_sync"
    BY DEF OpeningPCs, PoolPCs, InitPCs
  <1>6. /\ DOMAIN g = Fields /\ g.size = f.size /\ g.bsize = f.bsize /\ g.raw = f.raw /\ g.hdr = "valid"
        /\ g.exists = f.exists /\ g.info = f.info /\ g.map = f.map /\ g.flog = f.flog /\ g.data = f.data
        /\ g.is_zeroed = f.is_zeroed
    BY <1>3
  <1>7. SameFormat(f, g)
    BY <1>6 DEF SameFormat
  <1>8. FileOK(g, c) /\ (AllValid(g) <=> AllValid(f))
    <2>1. /\ FileOK(f, c) /\ g.info = f.info /\ g.map = f.map /\ g.flog = f.flog
          /\ g.data = f.data
      BY <1>3, <1>6
    <2> QED BY ONLY <1>7, <2>1, BlocksKept
  <1>9. GoodFile(g, c)
    BY <1>2, <1>3, <1>6, <1>8 DEF GoodFile
  <1> QED BY <1>0, <1>1, <1>4, <1>5, <1>6, <1>9, KeepStore

LEMMA KeepOpenHdr ==
  ASSUME KeepInv, BlkInv', NEW t \in Threads, OpenHdr(t)
  PROVE  KeepInv'
  <1> PICK p0 : p0 = P(t)
    OBVIOUS
  <1> PICK q : q = "btt_init"
    OBVIOUS
  <1> PICK s : s = call[t].op
    OBVIOUS
  <1>0. pc[t] \in {"open", "check"}
    BY DEF OpenHdr
  <1>1. pc[t] \in PoolPCs /\ pc[t] \in OpeningPCs
    BY <1>0 DEF PoolPCs, OpeningPCs
  <1>2. p0 \in Pools /\ OpeningOK(t) /\ GoodFile(file[p0], contents[p0])
    BY <1>1, OpeningCall DEF F
  <1>3. CASE Fail(t, s, EINVAL)
    BY <1>1, <1>3, OpeningFails
  <1>4. CASE ~Fail(t, s, EINVAL)
    <2>1. /\ util_convert_hdr(F(t)) /\ Goto(t, s, "btt_init")
          /\ UNCHANGED <<file, handles, call, at, ret, contents>>
      BY <1>4 DEF OpenHdr
    <2>2. /\ file[p0].hdr = "valid" /\ pc' = [pc EXCEPT ![t] = q]
          /\ UNCHANGED <<handle, ns_is_zeroed, layout_lock, call, at, ret, contents>>
      BY <2>1 DEF util_convert_hdr, F, Goto, handles
    <2>3. file' = [file EXCEPT ![p0] = file[p0]]
      BY <1>2, <2>1 DEF KeepInv, KeepTypes
    <2>4. q \in OpeningPCs /\ q \notin InitPCs /\ q \notin {"init_zeroed", "init_hdr"} /\ q # "init_sync"
      BY DEF OpeningPCs, PoolPCs, InitPCs
    <2> PICK g : g = file[p0]
      OBVIOUS
    <2> QED BY <1>1, <1>2, <2>2, <2>3, <2>4, KeepStore
  <1> QED BY <1>3, <1>4

\* read_layout gives a handle that says what the file is.
LEMMA ReadLayoutIs ==
  ASSUME NEW f, NEW rd, NEW h, h = ReadLayout(f, rd), h # None
  PROVE  /\ {"laidout", "nlba", "narena", "nlane", "next_lane"} \subseteq DOMAIN h
         /\ h.nlba = SumNlba(Infos(f)) /\ h.narena = LastArena(f) /\ h.nlane <= NFREE
         /\ (h.laidout <=> AllValid(f)) /\ (~AllValid(f) => Possible(f))
  <1> PICK v \in BOOLEAN : v = AllValid(f)
    <2>1. AllValid(f) \in BOOLEAN
      BY Zenon DEF AllValid, Valid
    <2> QED BY <2>1
  <1> PICK n : n = IF NFREE > maxlane THEN maxlane ELSE NFREE
    OBVIOUS
  <1> PICK s : s = SumNlba(Infos(f))
    OBVIOUS
  <1> PICK m : m = LastArena(f)
    OBVIOUS
  <1>1. /\ h = [laidout |-> v, nlba |-> s, narena |-> m, nfree |-> NFREE, rdonly |-> rd,
                next_lane |-> 0, nlane |-> n]
        /\ ~AllValid(f) => Possible(f)
    BY Zenon DEF ReadLayout, LastArena, Possible
  <1>2. n <= NFREE
    BY BlkAssumption
  <1> QED BY <1>1, <1>2

LEMMA KeepBttInit ==
  ASSUME ZeroingFits, KeepInv, BlkInv', NEW t \in Threads, BttInit(t)
  PROVE  KeepInv'
  <1> PICK p0 : p0 = P(t)
    OBVIOUS
  <1> PICK f : f = file[p0]
    OBVIOUS
  <1> PICK check \in BOOLEAN : check = (call[t].op = "check")
    BY Zenon
  <1> PICK h : h = ReadLayout(f, check \/ util_feature_check(f) = 0)
    OBVIOUS
  <1> PICK q : q = IF h # None /\ check THEN "checking" ELSE "idle"
    OBVIOUS
  <1> PICK r : r = IF h = None THEN EINVAL ELSE "ok"
    OBVIOUS
  <1>0. /\ pc[t] = "btt_init" /\ pc' = [pc EXCEPT ![t] = q] /\ ns_is_zeroed' = f.is_zeroed
        /\ handle' = [handle EXCEPT ![p0] = h] /\ ret' = [ret EXCEPT ![t] = r]
        /\ \/ q = "checking" /\ h # None /\ UNCHANGED call
           \/ q = "idle" /\ call' = [call EXCEPT ![t] = None]
        /\ UNCHANGED <<file, layout_lock, at, contents>>
    BY Zenon DEF BttInit, Goto, F, Return, Leave
  <1>1. pc[t] \in PoolPCs
    BY <1>0 DEF PoolPCs
  <1>2. /\ p0 \in Pools /\ OpeningOK(t) /\ GoodFile(f, contents[p0]) /\ at[t] = 1 /\ f.hdr = "valid"
    BY <1>0, <1>1, OpeningCall DEF F, OpeningOK
  <1>3. /\ pc'[t] = q /\ handle'[p0] = h /\ ret'[t] = r /\ at'[t] = 1
        /\ (q = "checking" => P(t)' = p0 /\ h # None)
    BY <1>0, <1>2 DEF KeepInv, KeepTypes, BlkInv, BlkTypes, P
  <1>4. KeepTypes'
    BY <1>0 DEF KeepInv, KeepTypes
  <1>5. Elsewhere(t, p0)
    <2>1. ASSUME NEW p \in Pools, p # p0 PROVE ~file[p].raw
      <3>1. \A k \in Files : k.kind # "raw"
        BY <2>1, <1>2 DEF ZeroingFits
      <3> QED BY <3>1 DEF KeepInv, PoolOK
    <2>2. \A p \in Pools : p # p0 => handle'[p] = handle[p]
      BY <1>0 DEF KeepInv, BlkInv, BlkTypes
    <2>3. \A u \in Threads : u # t => /\ pc'[u] = pc[u] /\ call'[u] = call[u]
                                      /\ at'[u] = at[u] /\ ret'[u] = ret[u]
      BY <1>0 DEF KeepInv, BlkInv, BlkTypes, KeepTypes
    <2> QED BY <1>0, <2>1, <2>2, <2>3 DEF Elsewhere
  <1>6. h # None => HandleOK(p0)'
    <2> SUFFICES ASSUME h # None PROVE HandleOK(p0)'
      OBVIOUS
    <2>1. /\ {"laidout", "nlba", "narena", "nlane", "next_lane"} \subseteq DOMAIN h
          /\ h.nlba = SumNlba(Infos(f)) /\ h.narena = LastArena(f) /\ h.nlane <= NFREE
          /\ (h.laidout <=> AllValid(f)) /\ (~AllValid(f) => Possible(f))
      <3> PICK rd : h = ReadLayout(f, rd)
        OBVIOUS
      <3>1. h # None
        OBVIOUS
      <3> QED BY ONLY <3>1, h = ReadLayout(f, rd), ReadLayoutIs
    <2>2. (~AllValid(f) => AllZero(contents[p0])) /\ (f.raw => ~f.is_zeroed)
      BY <1>2 DEF GoodFile
    <2>3. file'[p0] = f /\ contents'[p0] = contents[p0] /\ (f.raw => ~ns_is_zeroed')
      BY <1>0, <2>2
    <2> QED BY <1>2, <1>3, <2>1, <2>2, <2>3 DEF HandleOK
  <1>7. PoolOK(p0)'
    BY <1>0, <1>2, <1>3, <1>6, PoolIsGood
  <1>8. q \in {"checking", "idle"} /\ r \notin {"inconsistent", "unreadable"}
    BY CodesApart
  <1>9. OpeningOK(t)'
    BY <1>3, <1>6, <1>8 DEF OpeningOK, OpeningPCs, InitPCs, PoolPCs
  <1>10. ThreadOK(t)'
    BY <1>3, <1>8, <1>9 DEF ThreadOK, BlockPCs, InLane
  <1> QED BY <1>1, <1>2, <1>4, <1>5, <1>7, <1>10, AloneKeeps

\* A pool that is closed.
LEMMA KeepClosed ==
  ASSUME KeepInv, BlkInv', NEW t \in Threads, pc[t] \in PoolPCs, NEW p0, p0 = P(t),
         pc' = [pc EXCEPT ![t] = "idle"], call' = [call EXCEPT ![t] = None],
         NEW r, ret' = [ret EXCEPT ![t] = r], r \notin {"inconsistent", "unreadable"},
         handle' = [handle EXCEPT ![p0] = None],
         UNCHANGED <<file, ns_is_zeroed, layout_lock, at, contents>>
  PROVE  KeepInv'
  <1>2. p0 \in Pools /\ GoodFile(file[p0], contents[p0]) /\ at[t] = 1
    BY OpeningCall DEF F
  <1>3. pc'[t] = "idle" /\ handle'[p0] = None /\ ret'[t] = r /\ at'[t] = 1
    BY <1>2 DEF KeepInv, KeepTypes, BlkInv, BlkTypes
  <1>4. KeepTypes'
    BY DEF KeepInv, KeepTypes
  <1>5. Elsewhere(t, p0)
    BY DEF KeepInv, BlkInv, BlkTypes, KeepTypes, Elsewhere
  <1>6. PoolOK(p0)'
    BY <1>2, <1>3, PoolIsGood
  <1>7. ThreadOK(t)'
    BY <1>3 DEF ThreadOK, OpeningOK, OpeningPCs, InitPCs, PoolPCs, BlockPCs, InLane
  <1> QED BY <1>2, <1>4, <1>5, <1>6, <1>7, AloneKeeps

LEMMA KeepClose ==
  ASSUME KeepInv, BlkInv', NEW t \in Threads, pmemblk_close(t)
  PROVE  KeepInv'
  <1> PICK p0 : p0 = P(t)
    OBVIOUS
  <1> PICK r : r = "ok"
    OBVIOUS
  <1>1. /\ pc[t] = "close" /\ pc' = [pc EXCEPT ![t] = "idle"] /\ call' = [call EXCEPT ![t] = None]
        /\ ret' = [ret EXCEPT ![t] = r] /\ handle' = [handle EXCEPT ![p0] = None]
        /\ UNCHANGED <<file, ns_is_zeroed, layout_lock, at, contents>>
    BY DEF pmemblk_close, Goto, Return, Leave
  <1>2. pc[t] \in PoolPCs /\ r \notin {"inconsistent", "unreadable"}
    BY <1>1 DEF PoolPCs
  <1> QED BY <1>1, <1>2, KeepClosed

LEMMA KeepCheckPool ==
  ASSUME KeepInv, BlkInv', NEW t \in Threads, CheckPool(t)
  PROVE  KeepInv'
  <1> PICK p0 : p0 = P(t)
    OBVIOUS
  <1> PICK f : f = file[p0]
    OBVIOUS
  <1>0. pc[t] = "checking"
    BY DEF CheckPool, Goto
  <1>1. pc[t] \in PoolPCs
    BY <1>0 DEF PoolPCs
  <1>2. p0 \in Pools /\ HandleOK(p0) /\ PoolOK(p0)
    BY <1>0, <1>1, OpeningCall DEF OpeningOK, KeepInv
  <1>3. FileOK(f, contents[p0]) /\ ShapeOK(f) /\ Possible(f)
    BY <1>2, OpenPool
  <1>4. btt_check(f, handle[p0]) = 1
    <2>1. CASE ~handle[p0].laidout
      BY <2>1, Zenon DEF btt_check
    <2>2. CASE handle[p0].laidout
      <3>1. AllValid(f) /\ 1 \in Arenas(f)
        BY <1>2, <1>3, <2>2, ShapeArenas DEF HandleOK
      <3>2. ArenaSound(f, 1) /\ f.info[1] = Infos(f)[1]
        BY <1>3, <3>1 DEF FileOK, AllValid, Valid, ShapeOK
      <3> PICK a : a = 1
        OBVIOUS
      <3>3. a \in Arenas(f) /\ ArenaSound(f, a) /\ f.info[a] = Infos(f)[a]
        BY <3>1, <3>2
      <3>4. check_arena(f.info[a], f.map[a], f.flog[a]) = 1
        BY ONLY <1>3, <3>3, SoundChecks
      <3> QED BY <2>2, <3>4, Zenon DEF btt_check
    <2> QED BY <2>1, <2>2
  <1> PICK r : r = "consistent"
    OBVIOUS
  <1>5. /\ pc' = [pc EXCEPT ![t] = "idle"] /\ call' = [call EXCEPT ![t] = None]
        /\ ret' = [ret EXCEPT ![t] = r] /\ handle' = [handle EXCEPT ![p0] = None]
        /\ UNCHANGED <<file, ns_is_zeroed, layout_lock, at, contents>>
    <2>1. ret' = [ret EXCEPT ![t] = CASE btt_check(f, handle[p0]) = 1 -> "consistent"
                                      [] btt_check(f, handle[p0]) = 0 -> "inconsistent"
                                      [] OTHER -> "unreadable"]
      BY Zenon DEF CheckPool, Return, F
    <2>2. ret' = [ret EXCEPT ![t] = r]
      BY <2>1, <1>4
    <2> QED BY <2>2 DEF CheckPool, Goto, Leave
  <1>6. r \notin {"inconsistent", "unreadable"}
    OBVIOUS
  <1> QED BY <1>1, <1>5, <1>6, KeepClosed

\* A power failure takes the handles and leaves the files.
LEMMA KeepCrash == ASSUME KeepInv, BlkInv', Crash PROVE KeepInv'
  <1>0. /\ handle' = [p \in Pools |-> None] /\ layout_lock' = [p \in Pools |-> None]
        /\ pc' = [t \in Threads |-> "idle"] /\ ret' = [t \in Threads |-> None]
        /\ at' = [t \in Threads |-> 1] /\ UNCHANGED <<file, contents>>
    BY DEF Crash
  <1>1. KeepTypes'
    BY <1>0 DEF KeepInv, KeepTypes
  <1>2. ASSUME NEW p \in Pools PROVE PoolOK(p)'
    BY <1>0, PoolIsGood DEF KeepInv
  <1>3. ASSUME NEW t \in Threads PROVE ThreadOK(t)'
    <2>1. pc'[t] = "idle" /\ ret'[t] = None /\ at'[t] = 1
      BY <1>0
    <2> QED BY <2>1, CodesApart
            DEF ThreadOK, OpeningOK, OpeningPCs, InitPCs, PoolPCs, BlockPCs, InLane
  <1> QED BY <1>1, <1>2, <1>3 DEF KeepInv

\* A file that write_layout has laid out up to step s of arena i.
Laid(f, s, i) ==
  /\ i \in 1 .. LastArena(f)
  /\ s = "arenas" => i = 1
  /\ LET done == IF s = "arenas" THEN 1 .. LastArena(f)
                 ELSE IF s = "backup" THEN 1 .. i ELSE 1 .. (i - 1)
     IN  /\ \A a \in done : Valid(f, a) /\ FreshMap(f, a) /\ FreshFlog(f, a)
         /\ LastArena(f) \notin done => ~Valid(f, LastArena(f))
  /\ s \in {"flogs", "info", "info_sync"} => FreshMap(f, i)
  /\ s \in {"info", "info_sync"} => FreshFlog(f, i)

\* What a call in write_layout knows, about its file.
LEMMA LayingIs ==
  ASSUME NEW t \in Threads
  PROVE  /\ LayingOK(t) <=> ~H(t).laidout /\ Laid(F(t), pc[t], at[t])
         /\ LayingOK(t)' <=> ~H(t)'.laidout /\ Laid(F(t)', pc'[t], at'[t])
  <1>1. LayingOK(t) <=> ~H(t).laidout /\ Laid(F(t), pc[t], at[t])
    BY Zenon DEF LayingOK, Laid, Done
  <1>2. LayingOK(t)' <=> ~H(t)'.laidout /\ Laid(F(t)', pc'[t], at'[t])
    BY Zenon DEF LayingOK, Laid, Done
  <1> QED BY <1>1, <1>2

\* What a call in write_layout may rely on; no other call is in it.
LEMMA LayingCall ==
  ASSUME KeepInv, NEW t \in Threads, pc[t] \in LayingPCs
  PROVE  /\ P(t) \in Pools /\ pc[t] \in BlockPCs /\ BlockOK(t) /\ HandleOK(P(t)) /\ PoolOK(P(t))
         /\ ~handle[P(t)].laidout /\ Laid(F(t), pc[t], at[t]) /\ layout_lock[P(t)] = t /\ t # None
         /\ FileOK(F(t), contents[P(t)]) /\ ShapeOK(F(t)) /\ Possible(F(t)) /\ AllZero(contents[P(t)])
         /\ LastArena(F(t)) \in Nat \ {0} /\ Arenas(F(t)) = 1 .. LastArena(F(t))
         /\ GoodFile(F(t), contents[P(t)]) /\ ret[t] \notin {"inconsistent", "unreadable"}
         /\ \A u \in Threads : u # t /\ P(u) = P(t) => pc[u] \notin LayingPCs
  <1>1. pc[t] \in BlockPCs /\ pc[t] # "idle"
    BY DEF LayingPCs, BlockPCs, InLane
  <1>2. P(t) \in Pools
    BY <1>1, CallPools DEF KeepInv, BlkInv, Sharing, P
  <1>3. BlockOK(t) /\ HandleOK(P(t)) /\ PoolOK(P(t)) /\ ret[t] \notin {"inconsistent", "unreadable"}
    BY <1>1, <1>2 DEF KeepInv, ThreadOK, BlockOK
  <1>4. layout_lock[P(t)] = t /\ LayingOK(t) /\ t # None
    BY <1>3, BlkAssumption DEF BlockOK
  <1>5. ~handle[P(t)].laidout /\ Laid(F(t), pc[t], at[t])
    BY <1>4, LayingIs DEF H
  <1>6. FileOK(F(t), contents[P(t)]) /\ ShapeOK(F(t)) /\ Possible(F(t)) /\ AllZero(contents[P(t)])
    BY <1>2, <1>3, <1>5, OpenPool DEF F, HandleOK
  <1>7. LastArena(F(t)) \in Nat \ {0} /\ Arenas(F(t)) = 1 .. LastArena(F(t))
    BY <1>6, ShapeArenas
  <1>8. GoodFile(F(t), contents[P(t)])
    BY <1>2, <1>3, PoolIsGood DEF F
  <1>9. ASSUME NEW u \in Threads, u # t, P(u) = P(t) PROVE pc[u] \notin LayingPCs
    <2> SUFFICES ASSUME pc[u] \in LayingPCs PROVE FALSE
      OBVIOUS
    <2>1. pc[u] \in BlockPCs
      BY DEF LayingPCs, BlockPCs, InLane
    <2>2. layout_lock[P(u)] = u
      BY <2>1 DEF KeepInv, ThreadOK, BlockOK
    <2> QED BY <1>4, <1>9, <2>2
  <1> QED BY <1>1, <1>2, <1>3, <1>4, <1>5, <1>6, <1>7, <1>8, <1>9

\* A step of write_layout stores g.
LEMMA KeepLaying ==
  ASSUME KeepInv, BlkInv', NEW t \in Threads, NEW p0, p0 = P(t), pc[t] \in LayingPCs,
         NEW q \in LayingPCs, pc' = [pc EXCEPT ![t] = q], NEW i \in Nat, at' = [at EXCEPT ![t] = i],
         NEW g, file' = [file EXCEPT ![p0] = g],
         UNCHANGED <<handle, ns_is_zeroed, layout_lock, call, ret, contents>>,
         FileOK(g, contents[p0]), SameFormat(file[p0], g), g.hdr = file[p0].hdr,
         g.exists <=> file[p0].exists, g.is_zeroed <=> file[p0].is_zeroed, Laid(g, q, i)
  PROVE  KeepInv'
  <1> PICK f : f = file[p0]
    OBVIOUS
  <1>1. /\ p0 \in Pools /\ pc[t] \in BlockPCs /\ BlockOK(t) /\ HandleOK(p0)
        /\ ~handle[p0].laidout /\ layout_lock[p0] = t /\ t # None /\ AllZero(contents[p0])
        /\ Possible(f) /\ GoodFile(f, contents[p0]) /\ ret[t] \notin {"inconsistent", "unreadable"}
        /\ \A u \in Threads : u # t /\ P(u) = p0 => pc[u] \notin LayingPCs
    BY LayingCall DEF F
  <1>2. /\ Infos(g) = Infos(f) /\ LastArena(g) = LastArena(f) /\ (Possible(g) <=> Possible(f))
    BY FormatKept
  <1>3. KeepTypes'
    BY DEF KeepInv, KeepTypes
  <1>4. Elsewhere(t, p0)
    BY DEF KeepInv, BlkInv, BlkTypes, KeepTypes, Elsewhere
  <1>5. /\ file'[p0] = g /\ pc'[t] = q /\ at'[t] = i /\ P(t)' = p0 /\ F(t)' = g /\ H(t)' = H(t)
        /\ H(t) = handle[p0] /\ call'[t] = call[t]
    BY <1>1 DEF KeepInv, BlkInv, BlkTypes, KeepTypes, P, F, H
  <1>6. DOMAIN g = Fields /\ g.size = f.size /\ (g.raw <=> f.raw)
    BY DEF SameFormat
  <1>7. GoodFile(g, contents[p0])
    BY <1>1, <1>6 DEF GoodFile
  <1>8. HandleOK(p0)'
    BY <1>1, <1>2, <1>5, <1>6 DEF HandleOK
  <1>9. PoolOK(p0)'
    BY <1>1, <1>5, <1>7, <1>8, PoolIsGood
  <1>10. LayingOK(t)'
    BY <1>1, <1>5, LayingIs
  <1>11. BlockOK(t)'
    <2>1. call[t].lba < H(t).nlba /\ call[t].op \in BlockOps
      BY <1>1 DEF BlockOK
    <2>2. q \notin {"access", "unlock"}
      BY DEF LayingPCs
    <2>3. HandleOK(P(t))' /\ layout_lock'[P(t)'] = t
      BY <1>1, <1>5, <1>8
    <2> QED BY <1>5, <1>10, <2>1, <2>2, <2>3 DEF BlockOK
  <1>12. q \in BlockPCs /\ OpeningOK(t)'
    BY <1>5 DEF OpeningOK, OpeningPCs, InitPCs, PoolPCs, BlockPCs, InLane, LayingPCs
  <1>13. ThreadOK(t)'
    BY <1>1, <1>5, <1>11, <1>12 DEF ThreadOK
  <1>14. /\ handle'[p0].nlba = handle[p0].nlba /\ (handle[p0].laidout => handle'[p0].laidout)
         /\ \A u \in Threads : u # t /\ layout_lock[p0] = u => layout_lock'[p0] = u
    OBVIOUS
  <1> QED BY <1>1, <1>3, <1>4, <1>8, <1>9, <1>13, <1>14, BlockKeeps

\* Stores elsewhere leave an arena as it is.
LEMMA ArenaKept ==
  ASSUME NEW f, NEW g, SameFormat(f, g), NEW a
  PROVE  /\ g.info[a] = f.info[a] => (Valid(g, a) <=> Valid(f, a))
         /\ g.map[a] = f.map[a] => (FreshMap(g, a) <=> FreshMap(f, a))
         /\ g.flog[a] = f.flog[a] => (FreshFlog(g, a) <=> FreshFlog(f, a))
  <1>1. LBAsOf(g, a) = LBAsOf(f, a) /\ Infos(g) = Infos(f)
    BY FormatKept
  <1> QED BY <1>1, Zenon DEF Valid, FreshMap, FreshFlog

\* The map of arena a in g is that in f, some entries zeroed.
Fresher(f, g, a) ==
  /\ g.map[a] \in [LBAsOf(f, a) -> Entries]
  /\ \A x \in LBAsOf(f, a) : g.map[a][x] = f.map[a][x] \/ g.map[a][x] = InitialEntry

\* An arena that a step made fresher.
LEMMA FresherIs ==
  ASSUME NEW f, NEW g, SameFormat(f, g), NEW a, Fresher(f, g, a)
  PROVE  FreshMap(f, a) => FreshMap(g, a)
  <1>1. LBAsOf(g, a) = LBAsOf(f, a)
    BY FormatKept
  <1> QED BY <1>1 DEF Fresher, FreshMap

\* An arena that a step leaves alone.
LEMMA SameIsFresher ==
  ASSUME NEW f, ShapeOK(f), NEW g, g.map = f.map, NEW a \in Arenas(f)
  PROVE  Fresher(f, g, a)
  BY DEF ShapeOK, Fresher

\* The stores of write_layout before the last info block is valid.
LEMMA LaysFile ==
  ASSUME NEW f, NEW g, NEW c, NEW i, FileOK(f, c), Possible(f), i \in Arenas(f), SameFormat(f, g),
         g.data = f.data, ~Valid(f, LastArena(f)), ~Valid(g, LastArena(f)),
         DOMAIN g.info = Arenas(f), DOMAIN g.map = Arenas(f), DOMAIN g.flog = Arenas(f),
         \A a \in Arenas(f) : a # i => g.info[a] = f.info[a] /\ g.flog[a] = f.flog[a],
         g.info[i] \in {f.info[i], None, Infos(f)[i]}, DOMAIN g.flog[i] = FlogLanes,
         \A a \in Arenas(f) : Fresher(f, g, a)
  PROVE  FileOK(g, c)
  <1>1. ShapeOK(f)
    BY DEF FileOK
  <1>2. /\ \A a \in Arenas(f) : f.info[a] \in {None, Infos(f)[a]}
        /\ \A a \in Arenas(f) : DOMAIN f.flog[a] = FlogLanes
    BY <1>1 DEF ShapeOK
  <1>3. \A a \in Arenas(f) : DOMAIN g.map[a] = LBAsOf(f, a) /\ g.map[a] \in [LBAsOf(f, a) -> Entries]
    BY DEF Fresher
  <1>4. \A a \in Arenas(f) : \A x \in LBAsOf(f, a) : g.map[a][x] \in {f.map[a][x], InitialEntry}
    BY DEF Fresher
  <1>5. \A a \in Arenas(f) : DOMAIN g.flog[a] = FlogLanes
    BY <1>2
  <1>6. \A a \in Arenas(f) : g.info[a] = f.info[a] \/ (a = i /\ g.info[a] \in {None, Infos(f)[a]})
    OBVIOUS
  <1> QED BY <1>3, <1>4, <1>5, <1>6, LayingKeeps

LEMMA KeepZeroMap ==
  ASSUME ZeroingFits, KeepInv, BlkInv', NEW t \in Threads, ZeroMap(t)
  PROVE  KeepInv'
  <1> USE FieldsAre
  <1> PICK p0 : p0 = P(t)
    OBVIOUS
  <1> PICK f : f = file[p0]
    OBVIOUS
  <1> PICK c : c = contents[p0]
    OBVIOUS
  <1> PICK i : i = at[t]
    OBVIOUS
  <1> PICK q : q = "flogs"
    OBVIOUS
  <1> PICK g : g = IF ns_is_zeroed THEN f ELSE Zeroed(f, Infos(f)[i].mapoff, Infos(f)[i].mapsize)
    OBVIOUS
  <1>0. /\ pc[t] = "zero_map" /\ pc' = [pc EXCEPT ![t] = q]
        /\ UNCHANGED <<handles, call, ret, contents, at>>
    BY DEF ZeroMap, Goto
  <1>1. pc[t] \in LayingPCs /\ q \in LayingPCs
    BY <1>0 DEF LayingPCs
  <1>2. /\ p0 \in Pools /\ HandleOK(p0) /\ Laid(f, pc[t], i) /\ FileOK(f, c) /\ ShapeOK(f) /\ Possible(f)
        /\ LastArena(f) \in Nat \ {0} /\ Arenas(f) = 1 .. LastArena(f) /\ GoodFile(f, c)
    BY <1>1, LayingCall DEF F
  <1>3. /\ i \in 1 .. LastArena(f) /\ ~Valid(f, LastArena(f))
        /\ \A a \in 1 .. (i - 1) : Valid(f, a) /\ FreshMap(f, a) /\ FreshFlog(f, a)
    BY <1>0, <1>2 DEF Laid
  <1>4. file' = [file EXCEPT ![p0] = g]
    <2>1. CASE ns_is_zeroed
      <3>1. UNCHANGED file /\ g = f
        BY <2>1 DEF ZeroMap
      <3> QED BY <1>2, <3>1 DEF KeepInv, KeepTypes
    <2>2. CASE ~ns_is_zeroed
      BY <2>2, Zenon DEF ZeroMap, Store, F
    <2> QED BY <2>1, <2>2
  <1> DEFINE o(a, x) == ArenaOff(a) + Infos(f)[a].mapoff + x * BTT_MAP_ENTRY_SIZE
             Hit(a, x) == /\ Infos(f)[i].mapoff <= o(a, x)
                          /\ o(a, x) < Infos(f)[i].mapoff + Infos(f)[i].mapsize
             m0 == [a \in Arenas(f) |-> [x \in DOMAIN f.map[a] |->
                      IF Hit(a, x) THEN InitialEntry ELSE f.map[a][x]]]
  <1>5. /\ DOMAIN f = Fields /\ DOMAIN f.map = Arenas(f) /\ DOMAIN f.info = Arenas(f) /\ DOMAIN f.flog = Arenas(f)
        /\ \A a \in Arenas(f) : DOMAIN f.map[a] = LBAsOf(f, a) /\ f.map[a] \in [LBAsOf(f, a) -> Entries]
        /\ \A a \in Arenas(f) : DOMAIN f.flog[a] = FlogLanes
    BY <1>2 DEF ShapeOK
  <1>6. g = f \/ (~ns_is_zeroed /\ g = [f EXCEPT !.map = m0])
    <2>1. CASE ns_is_zeroed
      BY <2>1
    <2>2. CASE ~ns_is_zeroed
      <3>1. g = Zeroed(f, Infos(f)[i].mapoff, Infos(f)[i].mapsize)
        BY <2>2
      <3> QED BY <2>2, <3>1, Zenon DEF Zeroed
    <2> QED BY <2>1, <2>2
  <1>7. /\ DOMAIN g = Fields /\ g.size = f.size /\ g.bsize = f.bsize /\ (g.raw <=> f.raw) /\ g.hdr = f.hdr
        /\ (g.exists <=> f.exists) /\ g.info = f.info /\ g.flog = f.flog /\ g.data = f.data
        /\ (g.is_zeroed <=> f.is_zeroed) /\ (g.map = f.map \/ (~ns_is_zeroed /\ g.map = m0))
        /\ (ns_is_zeroed => g = f) /\ (~ns_is_zeroed => g.map = f.map \/ g.map = m0)
    <2> HIDE DEF m0
    <2> QED BY <1>5, <1>6, SMTT(30)
  <1>8. SameFormat(f, g)
    BY <1>7 DEF SameFormat
  <1>9. ASSUME NEW a \in Arenas(f) PROVE Fresher(f, g, a)
    <2>1. InitialEntry \in Entries
      BY DEF InitialEntry, Entries, Flags
    <2>2. CASE g.map = f.map
      BY <1>2, <2>2, SameIsFresher
    <2>3. CASE g.map = m0
      <3> HIDE DEF Hit
      <3>1. g.map[a] = [x \in DOMAIN f.map[a] |-> IF Hit(a, x) THEN InitialEntry ELSE f.map[a][x]]
        BY <2>3
      <3>2. g.map[a] = [x \in LBAsOf(f, a) |-> IF Hit(a, x) THEN InitialEntry ELSE f.map[a][x]]
        BY <1>5, <3>1
      <3>3. f.map[a] \in [LBAsOf(f, a) -> Entries]
        BY <1>5
      <3> QED BY ONLY <2>1, <3>2, <3>3 DEF Fresher
    <2> QED BY <1>7, <2>2, <2>3
  <1>10. LastArena(f) \in Arenas(f) /\ i \in Arenas(f) /\ i \in Nat
    BY <1>2, <1>3
  <1>11. ~Valid(g, LastArena(f))
    BY <1>3, <1>7 DEF Valid
  <1>12. FileOK(g, c)
    <2>1. /\ DOMAIN g.map = Arenas(f) /\ DOMAIN g.info = Arenas(f) /\ DOMAIN g.flog = Arenas(f)
      BY <1>5, <1>7
    <2>2. /\ g.info[i] \in {f.info[i], None, Infos(f)[i]} /\ DOMAIN g.flog[i] = FlogLanes
          /\ \A a \in Arenas(f) : a # i => g.info[a] = f.info[a] /\ g.flog[a] = f.flog[a]
          /\ g.data = f.data
      <3>1. g.info = f.info /\ g.flog = f.flog /\ g.data = f.data
        BY <1>7, Zenon
      <3> QED BY ONLY <3>1, <1>5, <1>10
    <2> QED BY ONLY <1>2, <1>3, <1>8, <1>9, <1>10, <1>11, <2>1, <2>2, LaysFile
  <1>13. /\ LastArena(g) = LastArena(f) /\ \A a : LBAsOf(g, a) = LBAsOf(f, a)
         /\ Infos(g) = Infos(f)
    BY <1>8, FormatKept
  <1>14. \A a \in Arenas(f) : FreshMap(f, a) => FreshMap(g, a)
    BY ONLY <1>8, <1>9, FresherIs
  <1>15. \A a \in Arenas(f) : (Valid(f, a) => Valid(g, a)) /\ (FreshFlog(f, a) => FreshFlog(g, a))
    <2>1. g.info = f.info /\ g.flog = f.flog
      BY <1>7, Zenon
    <2> QED BY ONLY <1>8, <2>1, ArenaKept
  <1>16. FreshMap(g, i)
    <2>1. CASE ~f.raw
      <3>1. ~AllValid(f)
        BY <1>3, <1>10 DEF AllValid
      <3>2. FreshMap(f, i)
        BY <1>2, <1>10, <2>1, <3>1 DEF FileOK
      <3> QED BY <1>10, <1>14, <3>2
    <2>2. CASE f.raw
      <3>1. ~ns_is_zeroed
        BY <1>2, <2>2 DEF HandleOK
      <3>2. PICK k \in Files : k.kind = "raw" /\ k.size = f.size
        BY <1>2, <2>2 DEF GoodFile
      <3>3. f.size < DataOff + BTT_MAX_ARENA + BTT_MIN_SIZE /\ f.size \in Nat
        BY <3>2, FilesAssumption DEF ZeroingFits
      <3>4. Rawsize(f) \in Nat /\ Rawsize(f) >= BTT_MIN_SIZE
        BY <1>2, InfosIs DEF ShapeOK
      <3>5. Rawsize(f) < BTT_MAX_ARENA + BTT_MIN_SIZE
        BY <3>3, BlkAssumption, FormatAssumption DEF Rawsize
      <3>6. i = 1
        BY <1>3, <3>4, <3>5, NarenaIs DEF LastArena
      <3>7. /\ Infos(f)[i].external_nlba \in Nat \ {0} /\ Infos(f)[i].mapoff \in Int
            /\ Infos(f)[i].mapsize \in Nat
            /\ Infos(f)[i].mapsize >= Infos(f)[i].external_nlba * BTT_MAP_ENTRY_SIZE
        BY <1>2, <1>10, ArenaIs, ShapeArenas
      <3>8. g.map = m0
        <4>1. g = Zeroed(f, Infos(f)[i].mapoff, Infos(f)[i].mapsize)
          BY <3>1
        <4>2. g = [f EXCEPT !.map = m0]
          BY <4>1, Zenon DEF Zeroed
        <4> HIDE DEF m0
        <4> QED BY <4>2, <1>5
      <3>9. ASSUME NEW x \in LBAsOf(f, i) PROVE Hit(i, x)
        <4> PICK n : n = Infos(f)[i].external_nlba
          OBVIOUS
        <4> PICK s : s = BTT_MAP_ENTRY_SIZE
          OBVIOUS
        <4> PICK mo : mo = Infos(f)[i].mapoff
          OBVIOUS
        <4>1. x \in Nat /\ x < n /\ n \in Nat /\ s \in Nat \ {0} /\ mo \in Int
          BY <3>7, FormatAssumption DEF LBAsOf
        <4>2. x * s \in Nat /\ x * s < n * s
          BY ONLY <4>1
        <4>3. ArenaOff(i) = 0
          BY <3>6, FormatAssumption DEF ArenaOff
        <4> QED BY <4>1, <4>2, <4>3, <3>7
      <3> HIDE DEF Hit
      <3>10. g.map[i] = [x \in LBAsOf(f, i) |-> IF Hit(i, x) THEN InitialEntry ELSE f.map[i][x]]
        BY <1>5, <1>10, <3>8
      <3> QED BY <1>13, <3>9, <3>10 DEF FreshMap
    <2> QED BY <2>1, <2>2
  <1>17. Laid(g, q, i)
    <2>1. \A a \in 1 .. (i - 1) : Valid(g, a) /\ FreshMap(g, a) /\ FreshFlog(g, a)
      BY <1>2, <1>3, <1>14, <1>15
    <2>2. q = "flogs"
      OBVIOUS
    <2> QED BY ONLY <1>3, <1>11, <1>13, <1>16, <2>1, <2>2 DEF Laid
  <1>18. at' = [at EXCEPT ![t] = i] /\ UNCHANGED <<handle, ns_is_zeroed, layout_lock, call, ret, contents>>
    BY <1>0 DEF handles, KeepInv, KeepTypes
  <1>19. g.hdr = f.hdr /\ (g.exists <=> f.exists) /\ (g.is_zeroed <=> f.is_zeroed)
    BY <1>7
  <1>20. pc' = [pc EXCEPT ![t] = q] /\ i \in Nat
    BY <1>0, <1>10
  <1> HIDE DEF m0
  <1> QED BY ONLY KeepInv, BlkInv', t \in Threads, p0 = P(t), f = file[p0], c = contents[p0], <1>1, <1>4, <1>8, <1>12,
                  <1>17, <1>18, <1>19, <1>20, KeepLaying

LEMMA KeepWriteFlogs ==
  ASSUME KeepInv, BlkInv', NEW t \in Threads, WriteFlogs(t)
  PROVE  KeepInv'
  <1> USE FieldsAre
  <1> PICK p0 : p0 = P(t)
    OBVIOUS
  <1> PICK f : f = file[p0]
    OBVIOUS
  <1> PICK c : c = contents[p0]
    OBVIOUS
  <1> PICK i : i = at[t]
    OBVIOUS
  <1> PICK q : q = "info"
    OBVIOUS
  <1> PICK w : w = [l \in FlogLanes |-> Infos(f)[i].external_nlba + l]
    OBVIOUS
  <1> PICK g : g = [f EXCEPT !.flog = [f.flog EXCEPT ![i] = w]]
    OBVIOUS
  <1>0. /\ pc[t] = "flogs" /\ pc' = [pc EXCEPT ![t] = q]
        /\ file' = [file EXCEPT ![p0] = g] /\ UNCHANGED <<handles, call, ret, contents, at>>
    <2>1. g = [f EXCEPT !.flog[i] = w]
      BY Zenon
    <2> QED BY <2>1, ZenonT(40) DEF WriteFlogs, Goto, Store, F, FlogLanes
  <1>1. pc[t] \in LayingPCs /\ q \in LayingPCs
    BY <1>0 DEF LayingPCs
  <1>2. /\ p0 \in Pools /\ Laid(f, pc[t], i) /\ FileOK(f, c) /\ ShapeOK(f) /\ Possible(f)
        /\ LastArena(f) \in Nat \ {0} /\ Arenas(f) = 1 .. LastArena(f)
    BY <1>1, LayingCall DEF F
  <1>3. /\ i \in 1 .. LastArena(f) /\ ~Valid(f, LastArena(f)) /\ FreshMap(f, i)
        /\ \A a \in 1 .. (i - 1) : Valid(f, a) /\ FreshMap(f, a) /\ FreshFlog(f, a)
    BY <1>0, <1>2 DEF Laid
  <1>5. /\ DOMAIN f = Fields /\ DOMAIN f.map = Arenas(f) /\ DOMAIN f.info = Arenas(f) /\ DOMAIN f.flog = Arenas(f)
    BY <1>2 DEF ShapeOK
  <1>7. /\ DOMAIN g = Fields /\ g.size = f.size /\ g.bsize = f.bsize /\ (g.raw <=> f.raw) /\ g.hdr = f.hdr
        /\ (g.exists <=> f.exists) /\ g.info = f.info /\ g.map = f.map /\ g.data = f.data
        /\ (g.is_zeroed <=> f.is_zeroed) /\ g.flog = [f.flog EXCEPT ![i] = w]
    BY <1>5
  <1>8. SameFormat(f, g)
    BY <1>7 DEF SameFormat
  <1>9. \A a \in Arenas(f) : Fresher(f, g, a)
    BY <1>2, <1>7, SameIsFresher
  <1>10. LastArena(f) \in Arenas(f) /\ i \in Arenas(f) /\ i \in Nat
    BY <1>2, <1>3
  <1>11. ~Valid(g, LastArena(f))
    BY <1>3, <1>7 DEF Valid
  <1>12. g.flog[i] = w /\ \A a \in Arenas(f) : a # i => g.flog[a] = f.flog[a]
    BY <1>5, <1>7, <1>10
  <1>13. FileOK(g, c)
    <2>1. /\ DOMAIN g.map = Arenas(f) /\ DOMAIN g.info = Arenas(f) /\ DOMAIN g.flog = Arenas(f)
      BY <1>5, <1>7
    <2>2. /\ g.info[i] \in {f.info[i], None, Infos(f)[i]} /\ DOMAIN g.flog[i] = FlogLanes
          /\ \A a \in Arenas(f) : a # i => g.info[a] = f.info[a] /\ g.flog[a] = f.flog[a]
          /\ g.data = f.data
      BY <1>7, <1>12
    <2> QED BY ONLY <1>2, <1>3, <1>8, <1>9, <1>10, <1>11, <2>1, <2>2, LaysFile
  <1>14. LastArena(g) = LastArena(f) /\ Infos(g) = Infos(f)
    BY <1>8, FormatKept
  <1>15. \A a \in Arenas(f) : a # i => (Valid(f, a) => Valid(g, a)) /\ (FreshFlog(f, a) => FreshFlog(g, a))
    <2>1. g.info = f.info
      BY <1>7
    <2> QED BY ONLY <1>8, <1>12, <2>1, ArenaKept
  <1>16. \A a \in Arenas(f) : FreshMap(f, a) => FreshMap(g, a)
    BY ONLY <1>8, <1>9, FresherIs
  <1>17. FreshFlog(g, i)
    BY <1>12, <1>14 DEF FreshFlog
  <1>18. Laid(g, q, i)
    <2>1. \A a \in 1 .. (i - 1) : Valid(g, a) /\ FreshMap(g, a) /\ FreshFlog(g, a)
      BY <1>2, <1>3, <1>15, <1>16
    <2>2. q = "info" /\ FreshMap(g, i)
      BY <1>3, <1>10, <1>16
    <2> QED BY ONLY <1>3, <1>11, <1>14, <1>17, <2>1, <2>2 DEF Laid
  <1>19. at' = [at EXCEPT ![t] = i] /\ UNCHANGED <<handle, ns_is_zeroed, layout_lock, call, ret, contents>>
    BY <1>0 DEF handles, KeepInv, KeepTypes
  <1>20. g.hdr = f.hdr /\ (g.exists <=> f.exists) /\ (g.is_zeroed <=> f.is_zeroed)
    BY <1>7
  <1>21. pc' = [pc EXCEPT ![t] = q] /\ i \in Nat /\ file' = [file EXCEPT ![p0] = g]
    BY <1>0, <1>10
  <1> QED BY ONLY KeepInv, BlkInv', t \in Threads, p0 = P(t), f = file[p0], c = contents[p0], <1>1,
                  <1>8, <1>13, <1>18, <1>19, <1>20, <1>21, KeepLaying

\* g is f with info block n at arena i.
OneInfo(f, g, i, n) ==
  /\ SameFormat(f, g) /\ g.hdr = f.hdr /\ (g.exists <=> f.exists) /\ (g.is_zeroed <=> f.is_zeroed)
  /\ g.map = f.map /\ g.flog = f.flog /\ g.data = f.data
  /\ DOMAIN g.info = Arenas(f) /\ g.info[i] = n
  /\ \A a \in Arenas(f) : a # i => g.info[a] = f.info[a]
  /\ LastArena(g) = LastArena(f) /\ Infos(g) = Infos(f) /\ Arenas(g) = Arenas(f)
  /\ \A a \in Arenas(f) : a # i => (Valid(g, a) <=> Valid(f, a))
  /\ \A a \in Arenas(f) : (FreshMap(g, a) <=> FreshMap(f, a)) /\ (FreshFlog(g, a) <=> FreshFlog(f, a))
  /\ ShapeOK(g)

\* An info block of arena i is stored: torn (None) or as it should be.
LEMMA InfoStored ==
  ASSUME NEW f, NEW g, NEW i, NEW n, ShapeOK(f), i \in Arenas(f), n \in {None, Infos(f)[i]},
         g = [f EXCEPT !.info = [f.info EXCEPT ![i] = n]]
  PROVE  OneInfo(f, g, i, n)
  <1> USE FieldsAre
  <1>1. DOMAIN f = Fields /\ DOMAIN f.info = Arenas(f)
    BY DEF ShapeOK
  <1>2. /\ DOMAIN g = Fields /\ g.size = f.size /\ g.bsize = f.bsize /\ (g.raw <=> f.raw) /\ g.hdr = f.hdr
        /\ (g.exists <=> f.exists) /\ g.map = f.map /\ g.data = f.data /\ g.flog = f.flog
        /\ (g.is_zeroed <=> f.is_zeroed) /\ g.info = [f.info EXCEPT ![i] = n]
    BY <1>1
  <1>3. SameFormat(f, g)
    BY <1>2 DEF SameFormat
  <1>4. DOMAIN g.info = Arenas(f) /\ g.info[i] = n /\ \A a \in Arenas(f) : a # i => g.info[a] = f.info[a]
    BY <1>1, <1>2
  <1>5. /\ LastArena(g) = LastArena(f) /\ Infos(g) = Infos(f) /\ Arenas(g) = Arenas(f)
        /\ \A a : LBAsOf(g, a) = LBAsOf(f, a) /\ BlocksOf(g, a) = BlocksOf(f, a)
    BY <1>3, FormatKept
  <1>6. \A a \in Arenas(f) : /\ a # i => (Valid(g, a) <=> Valid(f, a))
                             /\ (FreshMap(g, a) <=> FreshMap(f, a))
                             /\ (FreshFlog(g, a) <=> FreshFlog(f, a))
    <2>1. g.map = f.map /\ g.flog = f.flog
      BY <1>2
    <2> QED BY ONLY <1>3, <1>4, <2>1, ArenaKept
  <1>7. ShapeOK(g)
    <2>1. \A a \in Arenas(g) : g.info[a] \in {None, Infos(g)[a]}
      BY <1>4, <1>5 DEF ShapeOK
    <2>2. \A a \in Arenas(g) : /\ g.map[a] \in [LBAsOf(g, a) -> Entries]
                              /\ DOMAIN g.flog[a] = FlogLanes
                              /\ DOMAIN g.data[a] = {DataBlockOff(Infos(g)[a], b) : b \in BlocksOf(g, a)}
      <3>1. g.map = f.map /\ g.flog = f.flog /\ g.data = f.data
        BY <1>2
      <3>2. \A a \in Arenas(f) : /\ f.map[a] \in [LBAsOf(f, a) -> Entries]
                                /\ DOMAIN f.flog[a] = FlogLanes
                                /\ DOMAIN f.data[a] = {DataBlockOff(Infos(f)[a], b) : b \in BlocksOf(f, a)}
        BY Zenon DEF ShapeOK
      <3> QED BY ONLY <1>5, <3>1, <3>2
    <2>3. /\ DOMAIN g = Fields
          /\ g.size \in Sizes /\ g.size >= PMEMBLK_MIN_POOL /\ g.bsize \in Bsizes \ {0}
          /\ DOMAIN g.info = Arenas(g) /\ DOMAIN g.map = Arenas(g)
          /\ DOMAIN g.flog = Arenas(g) /\ DOMAIN g.data = Arenas(g)
      BY <1>2, <1>4, <1>5 DEF ShapeOK
    <2> QED BY <2>1, <2>2, <2>3 DEF ShapeOK
  <1> QED BY <1>2, <1>3, <1>4, <1>5, <1>6, <1>7 DEF OneInfo

LEMMA KeepWriteInfo ==
  ASSUME KeepInv, BlkInv', NEW t \in Threads, WriteInfo(t)
  PROVE  KeepInv'
  <1> PICK p0 : p0 = P(t)
    OBVIOUS
  <1> PICK f : f = file[p0]
    OBVIOUS
  <1> PICK c : c = contents[p0]
    OBVIOUS
  <1> PICK i : i = at[t]
    OBVIOUS
  <1> PICK q : q = "info_sync"
    OBVIOUS
  <1> PICK g : g = [f EXCEPT !.info = [f.info EXCEPT ![i] = None]]
    OBVIOUS
  <1>0. /\ pc[t] = "info" /\ pc' = [pc EXCEPT ![t] = q]
        /\ file' = [file EXCEPT ![p0] = g] /\ UNCHANGED <<handles, call, ret, contents, at>>
    <2>1. g = [f EXCEPT !.info[i] = None]
      BY Zenon
    <2> QED BY <2>1, Zenon DEF WriteInfo, Goto, Store, F
  <1>1. pc[t] \in LayingPCs /\ q \in LayingPCs
    BY <1>0 DEF LayingPCs
  <1>2. /\ p0 \in Pools /\ Laid(f, pc[t], i) /\ FileOK(f, c) /\ ShapeOK(f) /\ Possible(f)
        /\ LastArena(f) \in Nat \ {0} /\ Arenas(f) = 1 .. LastArena(f)
    BY <1>1, LayingCall DEF F
  <1>3. /\ i \in 1 .. LastArena(f) /\ ~Valid(f, LastArena(f)) /\ FreshMap(f, i) /\ FreshFlog(f, i)
        /\ \A a \in 1 .. (i - 1) : Valid(f, a) /\ FreshMap(f, a) /\ FreshFlog(f, a)
    BY <1>0, <1>2 DEF Laid
  <1>4. LastArena(f) \in Arenas(f) /\ i \in Arenas(f) /\ i \in Nat
    BY <1>2, <1>3
  <1>5. /\ SameFormat(f, g) /\ g.hdr = f.hdr /\ (g.exists <=> f.exists) /\ (g.is_zeroed <=> f.is_zeroed)
        /\ g.map = f.map /\ g.flog = f.flog /\ g.data = f.data
        /\ DOMAIN g.info = Arenas(f) /\ g.info[i] = None
        /\ \A a \in Arenas(f) : a # i => g.info[a] = f.info[a]
        /\ LastArena(g) = LastArena(f)
        /\ \A a \in Arenas(f) : /\ a # i => (Valid(g, a) <=> Valid(f, a))
                                /\ (FreshMap(g, a) <=> FreshMap(f, a))
                                /\ (FreshFlog(g, a) <=> FreshFlog(f, a))
    <2> PICK n : n = None
      OBVIOUS
    <2>1. n \in {None, Infos(f)[i]} /\ g = [f EXCEPT !.info = [f.info EXCEPT ![i] = n]]
      OBVIOUS
    <2>2. ShapeOK(f) /\ i \in Arenas(f)
      BY <1>2, <1>4
    <2>3. OneInfo(f, g, i, n)
      BY ONLY <2>1, <2>2, InfoStored
    <2> QED BY <2>3, Zenon DEF OneInfo
  <1>6. ~Valid(g, LastArena(f))
    BY <1>3, <1>4, <1>5 DEF Valid
  <1>7. \A a \in Arenas(f) : Fresher(f, g, a)
    BY <1>2, <1>5, SameIsFresher
  <1>8. FileOK(g, c)
    <2>1. DOMAIN f.map = Arenas(f) /\ DOMAIN f.flog = Arenas(f) /\ DOMAIN f.flog[i] = FlogLanes
      BY <1>2, <1>4 DEF ShapeOK
    <2>2. /\ DOMAIN g.map = Arenas(f) /\ DOMAIN g.info = Arenas(f) /\ DOMAIN g.flog = Arenas(f)
          /\ g.info[i] \in {f.info[i], None, Infos(f)[i]} /\ DOMAIN g.flog[i] = FlogLanes
          /\ \A a \in Arenas(f) : a # i => g.info[a] = f.info[a] /\ g.flog[a] = f.flog[a]
          /\ g.data = f.data /\ SameFormat(f, g)
      BY <1>5, <2>1
    <2> QED BY ONLY <1>2, <1>3, <1>4, <1>6, <1>7, <2>2, LaysFile
  <1>9. Laid(g, q, i)
    <2>1. \A a \in 1 .. (i - 1) : Valid(g, a) /\ FreshMap(g, a) /\ FreshFlog(g, a)
      <3>1. \A a \in 1 .. (i - 1) : a \in Arenas(f) /\ a # i
        BY <1>2, <1>3
      <3> QED BY <1>3, <1>5, <3>1
    <2>2. q = "info_sync" /\ FreshMap(g, i) /\ FreshFlog(g, i) /\ LastArena(g) = LastArena(f)
      BY <1>3, <1>4, <1>5
    <2> QED BY ONLY <1>3, <1>6, <2>1, <2>2 DEF Laid
  <1>10. at' = [at EXCEPT ![t] = i] /\ UNCHANGED <<handle, ns_is_zeroed, layout_lock, call, ret, contents>>
    BY <1>0 DEF handles, KeepInv, KeepTypes
  <1>11. /\ SameFormat(f, g) /\ g.hdr = f.hdr /\ (g.exists <=> f.exists) /\ (g.is_zeroed <=> f.is_zeroed)
         /\ pc' = [pc EXCEPT ![t] = q] /\ i \in Nat /\ file' = [file EXCEPT ![p0] = g]
    BY <1>0, <1>4, <1>5
  <1> QED BY ONLY KeepInv, BlkInv', t \in Threads, p0 = P(t), f = file[p0], c = contents[p0], <1>1,
                  <1>8, <1>9, <1>10, <1>11, KeepLaying

LEMMA KeepSyncInfo ==
  ASSUME KeepInv, BlkInv', NEW t \in Threads, SyncInfo(t)
  PROVE  KeepInv'
  <1> PICK p0 : p0 = P(t)
    OBVIOUS
  <1> PICK f : f = file[p0]
    OBVIOUS
  <1> PICK c : c = contents[p0]
    OBVIOUS
  <1> PICK i : i = at[t]
    OBVIOUS
  <1> PICK q : q = "backup"
    OBVIOUS
  <1> PICK n : n = Infos(f)[i]
    OBVIOUS
  <1> PICK g : g = [f EXCEPT !.info = [f.info EXCEPT ![i] = n]]
    OBVIOUS
  <1>0. /\ pc[t] = "info_sync" /\ pc' = [pc EXCEPT ![t] = q]
        /\ file' = [file EXCEPT ![p0] = g] /\ UNCHANGED <<handles, call, ret, contents, at>>
    <2>1. g = [f EXCEPT !.info[i] = n]
      BY Zenon
    <2> QED BY <2>1, Zenon DEF SyncInfo, Goto, Store, F
  <1>1. pc[t] \in LayingPCs /\ q \in LayingPCs
    BY <1>0 DEF LayingPCs
  <1>2. /\ p0 \in Pools /\ Laid(f, pc[t], i) /\ FileOK(f, c) /\ ShapeOK(f) /\ Possible(f) /\ AllZero(c)
        /\ LastArena(f) \in Nat \ {0} /\ Arenas(f) = 1 .. LastArena(f)
    BY <1>1, LayingCall DEF F
  <1>3. /\ i \in 1 .. LastArena(f) /\ ~Valid(f, LastArena(f)) /\ FreshMap(f, i) /\ FreshFlog(f, i)
        /\ \A a \in 1 .. (i - 1) : Valid(f, a) /\ FreshMap(f, a) /\ FreshFlog(f, a)
    BY <1>0, <1>2 DEF Laid
  <1>4. LastArena(f) \in Arenas(f) /\ i \in Arenas(f) /\ i \in Nat
    BY <1>2, <1>3
  <1>5. /\ SameFormat(f, g) /\ g.hdr = f.hdr /\ (g.exists <=> f.exists) /\ (g.is_zeroed <=> f.is_zeroed)
        /\ g.map = f.map /\ g.flog = f.flog /\ g.data = f.data
        /\ DOMAIN g.info = Arenas(f) /\ g.info[i] = n
        /\ \A a \in Arenas(f) : a # i => g.info[a] = f.info[a]
        /\ LastArena(g) = LastArena(f) /\ Arenas(g) = Arenas(f)
        /\ \A a \in Arenas(f) : a # i => (Valid(g, a) <=> Valid(f, a))
        /\ \A a \in Arenas(f) : (FreshMap(g, a) <=> FreshMap(f, a)) /\ (FreshFlog(g, a) <=> FreshFlog(f, a))
        /\ ShapeOK(g)
    <2>1. n \in {None, Infos(f)[i]} /\ g = [f EXCEPT !.info = [f.info EXCEPT ![i] = n]]
      OBVIOUS
    <2>2. ShapeOK(f) /\ i \in Arenas(f)
      BY <1>2, <1>4
    <2>3. OneInfo(f, g, i, n)
      BY ONLY <2>1, <2>2, InfoStored
    <2> QED BY <2>3, Zenon DEF OneInfo
  <1>6. Valid(g, i)
    BY <1>2, <1>4, <1>5, ShapeArenas DEF Valid
  <1>7. \A a \in 1 .. i : Valid(g, a) /\ FreshMap(g, a) /\ FreshFlog(g, a)
    <2>1. \A a \in 1 .. i : a = i \/ (a \in Arenas(f) /\ a # i /\ a \in 1 .. (i - 1))
      BY <1>2, <1>3
    <2> QED BY <1>3, <1>4, <1>5, <1>6, <2>1
  <1>8. i # LastArena(f) => ~Valid(g, LastArena(f))
    BY <1>3, <1>4, <1>5
  <1>9. FileOK(g, c)
    <2>1. CASE i = LastArena(f)
      <3>1. AllValid(g) /\ \A a \in Arenas(g) : FreshMap(g, a) /\ FreshFlog(g, a)
        BY <1>2, <1>5, <1>7, <2>1 DEF AllValid
      <3>2. Possible(g)
        BY <1>2, <1>5, FormatKept
      <3> QED BY <1>2, <1>5, <3>1, <3>2, FreshHolds
    <2>2. CASE i # LastArena(f)
      <3>0. \A a \in Arenas(f) : Fresher(f, g, a)
        BY <1>2, <1>5, SameIsFresher
      <3>1. DOMAIN f.map = Arenas(f) /\ DOMAIN f.flog = Arenas(f) /\ DOMAIN f.flog[i] = FlogLanes
        BY <1>2, <1>4 DEF ShapeOK
      <3>2. /\ DOMAIN g.map = Arenas(f) /\ DOMAIN g.info = Arenas(f) /\ DOMAIN g.flog = Arenas(f)
            /\ g.info[i] \in {f.info[i], None, Infos(f)[i]} /\ DOMAIN g.flog[i] = FlogLanes
            /\ \A a \in Arenas(f) : a # i => g.info[a] = f.info[a] /\ g.flog[a] = f.flog[a]
            /\ g.data = f.data /\ SameFormat(f, g)
        BY <1>5, <3>1
      <3>3. ~Valid(g, LastArena(f))
        BY <1>8, <2>2
      <3> QED BY ONLY <1>2, <1>3, <1>4, <3>0, <3>2, <3>3, LaysFile
    <2> QED BY <2>1, <2>2
  <1>10. Laid(g, q, i)
    <2>1. q = "backup" /\ LastArena(g) = LastArena(f) /\ (LastArena(f) \notin 1 .. i => i # LastArena(f))
      BY <1>3, <1>5
    <2> QED BY ONLY <1>3, <1>7, <1>8, <2>1 DEF Laid
  <1>11. at' = [at EXCEPT ![t] = i] /\ UNCHANGED <<handle, ns_is_zeroed, layout_lock, call, ret, contents>>
    BY <1>0 DEF handles, KeepInv, KeepTypes
  <1>12. /\ SameFormat(f, g) /\ g.hdr = f.hdr /\ (g.exists <=> f.exists) /\ (g.is_zeroed <=> f.is_zeroed)
         /\ pc' = [pc EXCEPT ![t] = q] /\ i \in Nat /\ file' = [file EXCEPT ![p0] = g]
    BY <1>0, <1>4, <1>5
  <1> QED BY ONLY KeepInv, BlkInv', t \in Threads, p0 = P(t), f = file[p0], c = contents[p0], <1>1,
                  <1>9, <1>10, <1>11, <1>12, KeepLaying

LEMMA KeepWriteBackup ==
  ASSUME KeepInv, BlkInv', NEW t \in Threads, WriteBackup(t)
  PROVE  KeepInv'
  <1> USE FieldsAre
  <1> PICK p0 : p0 = P(t)
    OBVIOUS
  <1> PICK f : f = file[p0]
    OBVIOUS
  <1> PICK c : c = contents[p0]
    OBVIOUS
  <1> PICK i : i = at[t]
    OBVIOUS
  <1> PICK w : w = [f.info2 EXCEPT ![i] = Infos(f)[i]]
    OBVIOUS
  <1> PICK g : g = [f EXCEPT !.info2 = w]
    OBVIOUS
  <1> PICK q : q = IF i < handle[p0].narena THEN "zero_map" ELSE "arenas"
    OBVIOUS
  <1> PICK j : j = IF i < handle[p0].narena THEN i + 1 ELSE 1
    OBVIOUS
  <1>0. /\ pc[t] = "backup" /\ pc' = [pc EXCEPT ![t] = q] /\ file' = [file EXCEPT ![p0] = g]
        /\ at' = [at EXCEPT ![t] = j] /\ UNCHANGED <<handles, call, ret, contents>>
    <2>1. g = [f EXCEPT !.info2[i] = Infos(f)[i]]
      BY Zenon
    <2>2. pc[t] = "backup" /\ pc' = [pc EXCEPT ![t] = q] /\ UNCHANGED <<handles, call, ret, contents>>
      BY Zenon DEF WriteBackup, Goto, H
    <2>3. at' = [at EXCEPT ![t] = j]
      BY DEF WriteBackup, H
    <2>4. file' = [file EXCEPT ![p0] = g]
      BY <2>1, Zenon DEF WriteBackup, Store, F
    <2> QED BY <2>2, <2>3, <2>4
  <1>1. pc[t] \in LayingPCs /\ q \in LayingPCs
    BY <1>0 DEF LayingPCs
  <1>2. /\ p0 \in Pools /\ HandleOK(p0) /\ Laid(f, pc[t], i) /\ FileOK(f, c) /\ ShapeOK(f)
        /\ LastArena(f) \in Nat \ {0} /\ Arenas(f) = 1 .. LastArena(f)
    BY <1>1, LayingCall DEF F
  <1>3. /\ i \in 1 .. LastArena(f)
        /\ \A a \in 1 .. i : Valid(f, a) /\ FreshMap(f, a) /\ FreshFlog(f, a)
        /\ LastArena(f) \notin 1 .. i => ~Valid(f, LastArena(f))
    BY <1>0, <1>2 DEF Laid
  <1>4. DOMAIN f = Fields /\ handle[p0].narena = LastArena(f)
    BY <1>2 DEF ShapeOK, HandleOK
  <1>5. /\ DOMAIN g = Fields /\ g.size = f.size /\ g.bsize = f.bsize /\ (g.raw <=> f.raw) /\ g.hdr = f.hdr
        /\ (g.exists <=> f.exists) /\ g.info = f.info /\ g.map = f.map /\ g.flog = f.flog
        /\ g.data = f.data /\ (g.is_zeroed <=> f.is_zeroed)
    BY <1>4
  <1>6. SameFormat(f, g)
    BY <1>5 DEF SameFormat
  <1>7. FileOK(g, c)
    <2>1. FileOK(f, c) /\ g.info = f.info /\ g.map = f.map /\ g.flog = f.flog /\ g.data = f.data
      BY <1>2, <1>5
    <2> QED BY ONLY <1>6, <2>1, BlocksKept
  <1>8. LastArena(g) = LastArena(f)
    BY <1>6, FormatKept
  <1>9. /\ \A a \in 1 .. i : Valid(g, a) /\ FreshMap(g, a) /\ FreshFlog(g, a)
        /\ LastArena(f) \notin 1 .. i => ~Valid(g, LastArena(f))
    <2>1. g.info = f.info /\ g.map = f.map /\ g.flog = f.flog
      BY <1>5
    <2>2. \A a : (Valid(g, a) <=> Valid(f, a)) /\ (FreshMap(g, a) <=> FreshMap(f, a))
                 /\ (FreshFlog(g, a) <=> FreshFlog(f, a))
      BY ONLY <1>6, <2>1, ArenaKept
    <2> QED BY <1>3, <2>2
  <1>10. Laid(g, q, j) /\ j \in Nat
    <2>1. CASE i < LastArena(f)
      <3>1. q = "zero_map" /\ j = i + 1
        BY <1>4, <2>1
      <3>2. j \in 1 .. LastArena(g) /\ 1 .. (j - 1) = 1 .. i /\ LastArena(f) \notin 1 .. i /\ j \in Nat
        BY <1>2, <1>3, <1>8, <2>1, <3>1
      <3> QED BY ONLY <1>8, <1>9, <3>1, <3>2 DEF Laid
    <2>2. CASE ~(i < LastArena(f))
      <3>1. q = "arenas" /\ j = 1
        BY <1>4, <2>2
      <3>2. i = LastArena(f) /\ j \in 1 .. LastArena(g) /\ LastArena(f) \in 1 .. LastArena(f)
        BY <1>2, <1>3, <1>8, <2>2, <3>1
      <3> QED BY ONLY <1>8, <1>9, <3>1, <3>2 DEF Laid
    <2> QED BY <2>1, <2>2
  <1>11. UNCHANGED <<handle, ns_is_zeroed, layout_lock, call, ret, contents>>
    BY <1>0 DEF handles
  <1>12. /\ g.hdr = f.hdr /\ (g.exists <=> f.exists) /\ (g.is_zeroed <=> f.is_zeroed)
         /\ pc' = [pc EXCEPT ![t] = q] /\ at' = [at EXCEPT ![t] = j] /\ file' = [file EXCEPT ![p0] = g]
    BY <1>0, <1>5
  <1> QED BY ONLY KeepInv, BlkInv', t \in Threads, p0 = P(t), f = file[p0], c = contents[p0], <1>1,
                  <1>6, <1>7, <1>10, <1>11, <1>12, KeepLaying

LEMMA KeepReadArenas ==
  ASSUME KeepInv, BlkInv', NEW t \in Threads, ReadArenas(t)
  PROVE  KeepInv'
  <1> PICK p0 : p0 = P(t)
    OBVIOUS
  <1> PICK f : f = file[p0]
    OBVIOUS
  <1> PICK h : h = [handle[p0] EXCEPT !.laidout = TRUE]
    OBVIOUS
  <1>0. /\ pc[t] = "arenas" /\ pc' = [pc EXCEPT ![t] = "unlock"] /\ handle' = [handle EXCEPT ![p0] = h]
        /\ UNCHANGED <<file, ns_is_zeroed, layout_lock, call, at, ret, contents>>
    BY DEF ReadArenas, Goto
  <1>1. pc[t] \in LayingPCs
    BY <1>0 DEF LayingPCs
  <1>2. /\ p0 \in Pools /\ pc[t] \in BlockPCs /\ BlockOK(t) /\ HandleOK(p0) /\ Laid(f, pc[t], at[t])
        /\ layout_lock[p0] = t /\ LastArena(f) \in Nat \ {0} /\ Arenas(f) = 1 .. LastArena(f)
        /\ GoodFile(f, contents[p0]) /\ ret[t] \notin {"inconsistent", "unreadable"}
        /\ \A u \in Threads : u # t /\ P(u) = p0 => pc[u] \notin LayingPCs
    BY <1>1, LayingCall DEF F
  <1>3. AllValid(f) /\ at[t] = 1
    BY <1>0, <1>2 DEF Laid, AllValid
  <1>4. /\ DOMAIN h = DOMAIN handle[p0] /\ h.laidout /\ h.nlba = handle[p0].nlba
        /\ h.narena = handle[p0].narena /\ h.nlane = handle[p0].nlane
    BY <1>2 DEF HandleOK
  <1>5. KeepTypes'
    BY <1>0 DEF KeepInv, KeepTypes
  <1>6. Elsewhere(t, p0)
    BY <1>0 DEF KeepInv, BlkInv, BlkTypes, KeepTypes, Elsewhere
  <1>7. /\ handle'[p0] = h /\ pc'[t] = "unlock" /\ P(t)' = p0 /\ H(t)' = h /\ H(t) = handle[p0]
    BY <1>0, <1>2 DEF KeepInv, BlkInv, BlkTypes, KeepTypes, P, H
  <1>8. HandleOK(p0)'
    BY <1>0, <1>2, <1>3, <1>4, <1>7 DEF HandleOK
  <1>9. PoolOK(p0)'
    BY <1>0, <1>2, <1>8, PoolIsGood
  <1>10. BlockOK(t)'
    <2>1. call[t].lba < H(t).nlba /\ call[t].op \in BlockOps
      BY <1>1, <1>2 DEF BlockOK
    <2>2. "unlock" \notin LayingPCs
      BY DEF LayingPCs
    <2>3. HandleOK(P(t))' /\ layout_lock'[P(t)'] = t
      BY <1>0, <1>2, <1>7, <1>8
    <2> QED BY <1>0, <1>3, <1>4, <1>7, <2>1, <2>2, <2>3 DEF BlockOK
  <1>11. OpeningOK(t)' /\ "unlock" \in BlockPCs
    BY <1>7 DEF OpeningOK, OpeningPCs, InitPCs, PoolPCs, BlockPCs, InLane
  <1>12. ThreadOK(t)'
    BY <1>0, <1>2, <1>7, <1>10, <1>11 DEF ThreadOK
  <1>13. /\ handle'[p0].nlba = handle[p0].nlba /\ (handle[p0].laidout => handle'[p0].laidout)
         /\ \A u \in Threads : u # t /\ layout_lock[p0] = u => layout_lock'[p0] = u
    BY <1>0, <1>4, <1>7
  <1> QED BY <1>2, <1>5, <1>6, <1>8, <1>9, <1>12, <1>13, BlockKeeps

\* An access to a block leaves file g and value v of block x0.
AccessDone(f, c, x0, g, v) ==
  /\ v \in Values \cup {Zero, EIO} /\ FileOK(g, [c EXCEPT ![x0] = v]) /\ AllValid(g) /\ SameFormat(f, g)
  /\ g.hdr = f.hdr /\ (g.exists <=> f.exists) /\ (g.is_zeroed <=> f.is_zeroed)

\* An access that stores nothing.
LEMMA NoStore ==
  ASSUME NEW f, NEW c, NEW x0, NEW a, NEW y, Accessed(f, c, x0, a, y), NEW v, v = c[x0]
  PROVE  AccessDone(f, c, x0, f, v)
  <1>1. [c EXCEPT ![x0] = v] = c /\ v \in Values \cup {Zero, EIO}
    BY DEF Accessed
  <1>2. SameFormat(f, f)
    BY DEF Accessed, FileOK, ShapeOK, SameFormat
  <1> QED BY <1>1, <1>2 DEF Accessed, AccessDone

\* The cases of btt_read, btt_write and map_entry_setf.
LEMMA AccessIs ==
  ASSUME OffsetsFit, NEW f, NEW c, NEW x0, NEW a, NEW y, Accessed(f, c, x0, a, y), NEW l \in FlogLanes,
         NEW op, NEW w \in Values \cup {Zero, EIO}, NEW g, NEW v,
         \/ op = "read" /\ g = f /\ v = c[x0]
         \/ op = "write" /\ g = Written(f, a, y, l, w) /\ v = w
         \/ op = "set_zero" /\ ZeroOrInitial(f.map[a][y]) /\ g = f /\ v = Zero
         \/ \E fl \in {"zero", "error"} :
              /\ g = [f EXCEPT !.map[a][y] = [post |-> PostOf(f, a, y), flag |-> fl]]
              /\ v = IF fl = "zero" THEN Zero ELSE EIO
  PROVE  AccessDone(f, c, x0, g, v)
  <1>1. CASE g = f /\ v = c[x0]
    <2>1. AccessDone(f, c, x0, f, v)
      BY <1>1, NoStore
    <2> QED BY <1>1, <2>1
  <1>2. CASE g = Written(f, a, y, l, w) /\ v = w
    <2>1. g = Written(f, a, y, l, w)
      BY <1>2
    <2>2. /\ FileOK(g, [c EXCEPT ![x0] = w]) /\ AllValid(g) /\ SameFormat(f, g)
          /\ g.hdr = f.hdr /\ (g.exists <=> f.exists) /\ (g.is_zeroed <=> f.is_zeroed)
      BY ONLY OffsetsFit, Accessed(f, c, x0, a, y), l \in FlogLanes, <2>1, WriteHolds
    <2> QED BY <1>2, <2>2 DEF AccessDone
  <1>3. CASE ZeroOrInitial(f.map[a][y]) /\ g = f /\ v = Zero
    <2>1. BlockOf(f, TRUE, x0) = Zero
      <3>1. f.map[Place(f, x0)[1]][Place(f, x0)[2]].flag # "error"
        BY <1>3 DEF Accessed, ZeroOrInitial
      <3> QED BY <1>3, <3>1, Zenon DEF BlockOf, Accessed
    <2>2. BlockOf(f, TRUE, x0) = c[x0]
      BY DEF Accessed, FileOK, Holds
    <2> QED BY <1>1, <1>3, <2>1, <2>2
  <1>4. ASSUME NEW fl \in {"zero", "error"},
               g = [f EXCEPT !.map[a][y] = [post |-> PostOf(f, a, y), flag |-> fl]],
               v = IF fl = "zero" THEN Zero ELSE EIO
        PROVE  AccessDone(f, c, x0, g, v)
    <2> USE FieldsAre
    <2> PICK e : e = [post |-> PostOf(f, a, y), flag |-> fl]
      OBVIOUS
    <2> PICK m : m = [f.map EXCEPT ![a] = [f.map[a] EXCEPT ![y] = e]]
      OBVIOUS
    <2>1. g = [f EXCEPT !.map = m]
      BY <1>4, Zenon
    <2>2. DOMAIN f = Fields
      BY DEF Accessed, FileOK, ShapeOK
    <2>3. /\ DOMAIN g = Fields /\ g.size = f.size /\ g.bsize = f.bsize /\ (g.raw <=> f.raw) /\ g.hdr = f.hdr
          /\ (g.exists <=> f.exists) /\ g.info = f.info /\ g.flog = f.flog /\ g.data = f.data
          /\ (g.is_zeroed <=> f.is_zeroed) /\ g.map = m
      BY ONLY <2>1, <2>2, FieldsAre
    <2>4. SameFormat(f, g)
      BY <2>3 DEF SameFormat
    <2>5. /\ g.map = [f.map EXCEPT ![a] = [f.map[a] EXCEPT ![y] = e]]
          /\ g.info = f.info /\ g.flog = f.flog /\ g.data = f.data
      BY <2>3
    <2>6. FileOK(g, [c EXCEPT ![x0] = v]) /\ AllValid(g)
      <3>1. v = IF fl = "zero" THEN Zero ELSE EIO
        BY <1>4
      <3> QED BY ONLY Accessed(f, c, x0, a, y), fl \in {"zero", "error"}, <3>1, <2>4, <2>5,
                      e = [post |-> PostOf(f, a, y), flag |-> fl], FlagHolds
    <2>7. v \in Values \cup {Zero, EIO}
      BY <1>4
    <2> QED BY <2>3, <2>4, <2>6, <2>7 DEF AccessDone
  <1> QED BY <1>1, <1>2, <1>3, <1>4

LEMMA KeepAccess ==
  ASSUME OffsetsFit, KeepInv, BlkInv', NEW t \in Threads, Access(t)
  PROVE  KeepInv'
  <1> PICK p0 : p0 = P(t)
    OBVIOUS
  <1> PICK f : f = file[p0]
    OBVIOUS
  <1> PICK c : c = contents[p0]
    OBVIOUS
  <1> PICK x0 : x0 = call[t].lba
    OBVIOUS
  <1> PICK a : a = Place(f, x0)[1]
    OBVIOUS
  <1> PICK y : y = Place(f, x0)[2]
    OBVIOUS
  <1> PICK l : l = lane[t]
    OBVIOUS
  <1> PICK op : op = call[t].op
    OBVIOUS
  <1>0. pc[t] = "access" /\ pc' = [pc EXCEPT ![t] = "exit"]
    BY Zenon DEF Access, Goto
  <1>1. UNCHANGED <<handle, ns_is_zeroed, layout_lock, call, at>>
    <2>1. UNCHANGED <<handles, call, at>>
      BY Zenon DEF Access
    <2> QED BY <2>1 DEF handles
  <1>2. pc[t] \in BlockPCs /\ pc[t] \in InLane /\ pc[t] # "idle" /\ pc[t] \notin LayingPCs
    BY <1>0 DEF BlockPCs, InLane, LayingPCs
  <1>3. call[t] \in Calls /\ p0 \in Pools
    BY <1>2, CallPools DEF KeepInv, BlkInv, Sharing, P
  <1>4. /\ BlockOK(t) /\ HandleOK(p0) /\ PoolOK(p0) /\ handle[p0].laidout /\ x0 < handle[p0].nlba
        /\ op \in BlockOps /\ at[t] = 1
    BY <1>0, <1>2, <1>3 DEF KeepInv, ThreadOK, BlockOK, H
  <1>5. GoodFile(f, c) /\ FileOK(f, c) /\ AllValid(f) /\ x0 < SumNlba(Infos(f)) /\ x0 \in LBAs
    BY <1>3, <1>4, PoolIsGood, OpenPool, CallFields DEF HandleOK
  <1>6. Accessed(f, c, x0, a, y)
    BY <1>5 DEF Accessed, GoodFile
  <1>7. l \in FlogLanes
    <2>1. l \in 0 .. handle[p0].nlane - 1 /\ handle[p0].nlane \in Nat
      BY <1>2 DEF KeepInv, BlkInv, LaneHeld, Handles, HandleSound
    <2>2. handle[p0].nlane <= NFREE
      BY <1>4 DEF HandleOK
    <2> QED BY <2>1, <2>2, BlkAssumption DEF FlogLanes
  <1>8. PICK g, v : /\ file' = [file EXCEPT ![p0] = g] /\ AccessDone(f, c, x0, g, v)
                    /\ contents' = [contents EXCEPT ![p0] = [c EXCEPT ![x0] = v]]
    <2> DEFINE val == CASE op = "write" -> call[t].val
                        [] op = "set_zero" -> Zero
                        [] op = "set_error" -> EIO
                        [] OTHER -> contents[p0][x0]
               e   == f.map[a][y]
               set == [post |-> IF e.flag = "initial" THEN y ELSE e.post,
                       flag |-> IF op = "set_zero" THEN "zero" ELSE "error"]
    <2>1. /\ CASE op = "read" -> UNCHANGED file
               [] op = "write" -> file' = [file EXCEPT ![p0] = Written(f, a, y, l, call[t].val)]
               [] op = "set_zero" /\ ZeroOrInitial(e) -> UNCHANGED file
               [] OTHER -> file' = [file EXCEPT ![p0] = [f EXCEPT !.map[a][y] = set]]
          /\ contents' = [contents EXCEPT ![p0][x0] = val]
      BY Zenon DEF Access, Store, F
    <2> PICK v : v = val
      OBVIOUS
    <2> HIDE DEF val
    <2>2. contents' = [contents EXCEPT ![p0] = [c EXCEPT ![x0] = v]]
      BY <2>1, Zenon
    <2>3. file = [file EXCEPT ![p0] = f]
      BY <1>3 DEF KeepInv, KeepTypes
    <2> PICK w : w = IF op = "write" THEN call[t].val ELSE Zero
      OBVIOUS
    <2>4. w \in Values \cup {Zero, EIO}
      BY <1>3, CallFields
    <2>5. CASE op = "read"
      <3>1. v = c[x0] /\ file' = [file EXCEPT ![p0] = f]
        BY <2>1, <2>3, <2>5 DEF val
      <3>2. AccessDone(f, c, x0, f, v)
        BY <1>6, <3>1, NoStore
      <3> QED BY <2>2, <3>1, <3>2
    <2>6. CASE op = "write"
      <3> PICK g : g = Written(f, a, y, l, w)
        OBVIOUS
      <3>1. v = w /\ file' = [file EXCEPT ![p0] = g]
        BY <2>1, <2>6 DEF val
      <3>2. AccessDone(f, c, x0, g, v)
        BY ONLY OffsetsFit, <1>6, <1>7, <2>4, <2>6, <3>1, g = Written(f, a, y, l, w), AccessIs
      <3> QED BY <2>2, <3>1, <3>2
    <2>7. CASE op = "set_zero" /\ ZeroOrInitial(e)
      <3>1. v = Zero /\ file' = [file EXCEPT ![p0] = f]
        BY <2>1, <2>3, <2>7 DEF val
      <3>2. op = "set_zero" /\ ZeroOrInitial(f.map[a][y]) /\ v = Zero
        BY <2>7, <3>1
      <3> PICK g : g = f
        OBVIOUS
      <3>3. AccessDone(f, c, x0, g, v)
        BY ONLY OffsetsFit, <1>6, <1>7, <2>4, <3>2, g = f, AccessIs
      <3> QED BY <2>2, <3>1, <3>3
    <2>8. CASE op \in {"set_zero", "set_error"} /\ ~(op = "set_zero" /\ ZeroOrInitial(e))
      <3> PICK fl \in {"zero", "error"} : fl = IF op = "set_zero" THEN "zero" ELSE "error"
        OBVIOUS
      <3> PICK g : g = [f EXCEPT !.map[a][y] = [post |-> PostOf(f, a, y), flag |-> fl]]
        OBVIOUS
      <3>1. set = [post |-> PostOf(f, a, y), flag |-> fl]
        BY DEF PostOf
      <3>2. file' = [file EXCEPT ![p0] = [f EXCEPT !.map[a][y] = set]]
        <4> HIDE DEF set, e
        <4> QED BY <2>1, <2>8
      <3> HIDE DEF set
      <3>3. file' = [file EXCEPT ![p0] = g]
        BY <3>1, <3>2, Zenon
      <3>4. v = IF fl = "zero" THEN Zero ELSE EIO
        BY <2>8 DEF val
      <3>5. \E fl1 \in {"zero", "error"} :
              /\ g = [f EXCEPT !.map[a][y] = [post |-> PostOf(f, a, y), flag |-> fl1]]
              /\ v = IF fl1 = "zero" THEN Zero ELSE EIO
        BY <3>4, Zenon
      <3>6. AccessDone(f, c, x0, g, v)
        BY ONLY OffsetsFit, <1>6, <1>7, <2>4, <3>5, AccessIs
      <3> QED BY <2>2, <3>3, <3>6
    <2> QED BY <1>4, <2>5, <2>6, <2>7, <2>8 DEF BlockOps
  <1> PICK d : d = [c EXCEPT ![x0] = v]
    OBVIOUS
  <1>9. /\ v \in Values \cup {Zero, EIO} /\ FileOK(g, d) /\ AllValid(g) /\ SameFormat(f, g)
        /\ g.hdr = f.hdr /\ (g.exists <=> f.exists) /\ (g.is_zeroed <=> f.is_zeroed)
    BY <1>8 DEF AccessDone
  <1> PICK r : r = IF op = "read" THEN BlockOf(f, TRUE, x0) ELSE "ok"
    OBVIOUS
  <1>10. ret' = [ret EXCEPT ![t] = r] /\ r \notin {"inconsistent", "unreadable"}
    <2>1. ret' = [ret EXCEPT ![t] = r]
      BY Zenon DEF Access, Return, F
    <2>2. BlockOf(f, TRUE, x0) = c[x0] /\ c[x0] \in Values \cup {Zero, EIO}
      BY <1>5 DEF FileOK, Holds, GoodFile
    <2>3. BlockOf(f, TRUE, x0) \notin {"inconsistent", "unreadable"}
      BY <2>2, CodesApart
    <2> QED BY <2>1, <2>3
  <1>11. KeepTypes'
    BY <1>1, <1>8, <1>10 DEF KeepInv, KeepTypes
  <1>12. Elsewhere(t, p0)
    BY <1>0, <1>1, <1>8, <1>10 DEF KeepInv, BlkInv, BlkTypes, KeepTypes, Elsewhere
  <1>13. /\ file'[p0] = g /\ contents'[p0] = d /\ pc'[t] = "exit" /\ P(t)' = p0 /\ ret'[t] = r
         /\ at'[t] = 1
    BY <1>0, <1>1, <1>3, <1>4, <1>8, <1>10 DEF KeepInv, BlkInv, BlkTypes, KeepTypes, P
  <1>14. GoodFile(g, d)
    <2>1. d \in [LBAs -> Values \cup {Zero, EIO}]
      BY <1>5, <1>9 DEF GoodFile
    <2>2. DOMAIN g = Fields /\ g.size = f.size /\ (g.raw <=> f.raw)
      BY <1>9 DEF SameFormat
    <2>3. f.hdr = "valid"
      BY <1>4 DEF HandleOK
    <2> QED BY <1>5, <1>9, <2>1, <2>2, <2>3 DEF GoodFile
  <1>15. HandleOK(p0)'
    <2>1. Infos(g) = Infos(f) /\ LastArena(g) = LastArena(f) /\ (g.raw <=> f.raw)
      BY <1>9, FormatKept DEF SameFormat
    <2> QED BY <1>1, <1>4, <1>9, <1>13, <2>1 DEF HandleOK
  <1>16. PoolOK(p0)'
    BY <1>3, <1>13, <1>14, <1>15, PoolIsGood
  <1>17. BlockOK(t)'
    BY <1>1, <1>4, <1>13, <1>15 DEF BlockOK, LayingPCs
  <1>18. OpeningOK(t)' /\ "exit" \in BlockPCs
    BY <1>13 DEF OpeningOK, OpeningPCs, InitPCs, PoolPCs, BlockPCs, InLane
  <1>19. ThreadOK(t)'
    BY <1>10, <1>13, <1>17, <1>18 DEF ThreadOK
  <1>20. ASSUME NEW u \in Threads, u # t, P(u) = p0 PROVE pc[u] \notin LayingPCs
    <2> SUFFICES ASSUME pc[u] \in LayingPCs PROVE FALSE
      OBVIOUS
    <2>1. ~handle[P(u)].laidout
      BY LayingCall
    <2> QED BY <1>4, <1>20, <2>1
  <1>21. /\ handle'[p0].nlba = handle[p0].nlba /\ (handle[p0].laidout => handle'[p0].laidout)
         /\ \A u \in Threads : u # t /\ layout_lock[p0] = u => layout_lock'[p0] = u
    BY <1>1
  <1> QED BY <1>2, <1>3, <1>11, <1>12, <1>15, <1>16, <1>19, <1>20, <1>21, BlockKeeps

-----------------------------------------------------------------------------
(* What calls find.                                                        *)

\* Every step keeps the invariant.
LEMMA KeepStep == ASSUME ZeroingFits, OffsetsFit PROVE KeepInv /\ [Next]_vars => KeepInv'
  <1> SUFFICES ASSUME KeepInv, [Next]_vars PROVE KeepInv'
    OBVIOUS
  <1>0. BlkInv'
    BY BlkStep DEF KeepInv
  <1>1. ASSUME NEW t \in Threads, Step(t) PROVE KeepInv'
    BY <1>0, <1>1, KeepReturns, KeepOpenFile, KeepInitBsize, KeepInitZeroed, KeepInitHdr,
       KeepInitSync, KeepOpenHdr, KeepBttInit, KeepCheckPool, KeepClose, KeepLaneSteps, KeepAccess,
       KeepLayoutLock, KeepZeroMap, KeepWriteFlogs, KeepWriteInfo, KeepSyncInfo, KeepWriteBackup,
       KeepReadArenas DEF Step
  <1>2. CASE UNCHANGED vars
    <2>1. UNCHANGED <<file, ns_is_zeroed, handle, locks, layout_lock, pc, call, lane, at, ret, contents>>
      BY <1>2 DEF vars, thread, handles
    <2>2. KeepTypes' /\ (\A p \in Pools : PoolOK(p)') /\ \A t \in Threads : ThreadOK(t)'
      <3>1. KeepTypes'
        BY <2>1 DEF KeepInv, KeepTypes
      <3>2. \A p \in Pools : SamePool(p)
        BY <2>1 DEF SamePool
      <3>3. \A p \in Pools : PoolOK(p)'
        BY <2>1, <3>2, SamePoolOK DEF KeepInv
      <3>4. ASSUME NEW t \in Threads PROVE ThreadOK(t)'
        <4>1. pc[t] # "idle" => P(t) \in Pools
          BY CallPools DEF KeepInv, BlkInv, Sharing, P
        <4>2. ThreadOK(t)
          BY DEF KeepInv
        <4> QED BY <2>1, <3>2, <4>1, <4>2, SameThreadOK
      <3> QED BY <3>1, <3>3, <3>4
    <2> QED BY <1>0, <2>2 DEF KeepInv
  <1> QED BY <1>0, <1>1, <1>2, KeepCall, KeepCrash DEF Next

\* The invariant says what calls find.
LEMMA KeepIs == KeepInv => ContentsKept /\ CheckFindsConsistent
  <1> SUFFICES ASSUME KeepInv PROVE ContentsKept /\ CheckFindsConsistent
    OBVIOUS
  <1>1. CheckFindsConsistent
    BY DEF KeepInv, ThreadOK, CheckFindsConsistent
  <1>2. ASSUME NEW p \in Pools, Usable(p), NEW x \in Addressable(p)
        PROVE  /\ BlockOf(file[p], AllValid(file[p]), x) = contents[p][x]
               /\ handle[p] # None => BlockOf(file[p], handle[p].laidout, x) = contents[p][x]
    <2> PICK f : f = file[p]
      OBVIOUS
    <2> PICK c : c = contents[p]
      OBVIOUS
    <2>1. /\ f.hdr = "valid" /\ GoodFile(f, c) /\ (handle[p] # None => HandleOK(p))
          /\ x \in LBAs /\ x < SumNlba(Infos(f))
      BY <1>2, PoolIsGood DEF KeepInv, Usable, util_convert_hdr, Addressable
    <2>2. AllValid(f) => BlockOf(f, TRUE, x) = c[x]
      BY <2>1 DEF GoodFile, FileOK, Holds
    <2>3. ~AllValid(f) => c[x] = Zero
      BY <2>1 DEF GoodFile, AllZero
    <2>4. \A b : /\ b => BlockOf(f, b, x) = BlockOf(f, TRUE, x)
                 /\ ~b => BlockOf(f, b, x) = Zero
      BY Zenon DEF BlockOf
    <2>5. handle[p] # None => /\ handle[p].laidout => AllValid(f)
                              /\ ~handle[p].laidout => c[x] = Zero
      BY <2>1 DEF HandleOK, AllZero
    <2> QED BY <2>2, <2>3, <2>4, <2>5
  <1>3. ContentsKept
    BY <1>2 DEF ContentsKept
  <1> QED BY <1>1, <1>3

\* What the next opening of a pool, and an open handle, find in a block is
\* what the last completed update left there (blk.c, btt.c), for any number of
\* pools, threads, lanes and arenas and whenever the power fails: on files
\* that fit the flag and the offset of write_layout's zeroing and the 32 bit
\* products of its block offsets.
THEOREM ContentsStay == ASSUME ZeroingFits, OffsetsFit PROVE Spec => []ContentsKept
  <1>1. Init => KeepInv
    BY KeepStart
  <1>2. KeepInv /\ [Next]_vars => KeepInv'
    BY KeepStep
  <1>3. KeepInv => ContentsKept
    BY KeepIs
  <1> QED BY <1>1, <1>2, <1>3, PTL DEF Spec

\* Under the same conditions pmemblk_check finds no pool inconsistent that the
\* library itself wrote (blk.c, btt.c: btt_check, check_arena).
THEOREM CheckStaysConsistent == ASSUME ZeroingFits, OffsetsFit PROVE Spec => []CheckFindsConsistent
  <1>1. Init => KeepInv
    BY KeepStart
  <1>2. KeepInv /\ [Next]_vars => KeepInv'
    BY KeepStep
  <1>3. KeepInv => CheckFindsConsistent
    BY KeepIs
  <1> QED BY <1>1, <1>2, <1>3, PTL DEF Spec
=============================================================================
