----------------------------- MODULE HeapProofs -----------------------------
(***************************************************************************)
(* Proofs about module Heap, for any number of threads, arenas, chunks and *)
(* power failures: what info slots and pool headers say of interrupted     *)
(* calls (SlotInv), what each step of a call knows (CallInv), and who owns *)
(* each chunk of the zone, in memory and on media (HeapInv).               *)
(***************************************************************************)
EXTENDS Heap, FiniteSetTheorems, TLAPS

SlotFields == {"type", "dest", "old"}

SlotTyped ==
  /\ slot = [a \in Arenas |-> slot[a]] /\ pslot = [a \in Arenas |-> pslot[a]]
  /\ \A a \in Arenas : DOMAIN slot[a] = SlotFields /\ DOMAIN pslot[a] = SlotFields
  /\ pc = [t \in Threads |-> pc[t]] /\ arena_id = [t \in Threads |-> arena_id[t]]
  /\ phdr \in {"bad", "open", "closed"} /\ bhdr \in {"bad", "open", "closed"}
  /\ pflush \in {"clean", "stored", "sum"} /\ rec \in Nat

\* The slot, or what was flushed of it, is in use.
Marked(a)  == slot[a] # EmptySlot
PMarked(a) == pslot[a] # EmptySlot
Pending    == \E a \in Arenas : Marked(a) \/ PMarked(a)

\* While a slot names an operation, opening the pool will find it open, now
\* and after a power failure at this moment.
FoundOpen ==
  Pending => /\ pflush # "stored"
             /\ \/ phdr = "open" /\ (pflush = "sum" => bhdr = "open")
                \/ phdr = "bad" /\ bhdr = "open" /\ pflush = "clean"

\* The steps of pool_open and pool_close at which no slot names an operation.
NothingPending == {"layout", "copy", "sum", "backup", "fill", "format"}

\* An open pool is marked open in all its headers.
Headers ==
  /\ mode \in NothingPending => ~ Pending
  /\ mode \in {"fill", "format", "open"} => phdr = "open" /\ bhdr = "open"
  /\ pflush = "stored" => mode = "sum"
  /\ mode \in {"copy", "state"} => phdr # "bad"

\* A slot names an operation because of a call that is between its guards, and
\* only until that call has cleared it.
Guarded(a) == \E t \in Threads : arena_id[t] = a /\ pc[t] \notin {"idle", "lock", "flush"}
Flushing(a) == \E t \in Threads : arena_id[t] = a /\ pc[t] \notin {"idle", "lock"}
Guards ==
  mode = "open" => \A a \in Arenas : (Marked(a) => Guarded(a)) /\ (PMarked(a) => Flushing(a))

\* Recovery works its way through the slots.
Recovering ==
  /\ mode \in {"down", "state", "rec", "unlink", "wipe"} =>
       \A a \in Arenas : PMarked(a) => Marked(a)
  /\ mode = "wiped" => ~ Marked(rec) /\ \A a \in Arenas : a # rec /\ PMarked(a) => Marked(a)
  /\ mode \in {"rec", "unlink", "wipe", "wiped"} =>
       \A a \in Arenas : a < rec => ~ Marked(a) /\ ~ PMarked(a)
  /\ mode \in {"unlink", "wipe", "wiped"} => rec \in Arenas

SlotInv == SlotTyped /\ FoundOpen /\ Headers /\ Guards /\ Recovering

LEMMA SlotStart == Init => SlotInv
  <1> SUFFICES ASSUME Init PROVE SlotInv
    OBVIOUS
  <1>1. /\ slot = [a \in Arenas |-> EmptySlot] /\ pslot = slot
        /\ DOMAIN EmptySlot = SlotFields /\ EmptySlot.type = "unknown"
    BY DEF Init, EmptySlot, SlotFields
  <1>2. \A a \in Arenas : ~ Marked(a) /\ ~ PMarked(a)
    BY <1>1 DEF Marked, PMarked
  <1>3. SlotTyped
    BY <1>1 DEF Init, SlotTyped
  <1>4. FoundOpen /\ Headers /\ Guards /\ Recovering
    BY <1>2 DEF Init, FoundOpen, Pending, Headers, NothingPending, Guards, Recovering
  <1> QED BY <1>3, <1>4 DEF SlotInv

\* Steps of pool_open that leave the slots alone.
LEMMA SlotOpening ==
  ASSUME SlotInv, UNCHANGED <<slot, pslot, pc, arena_id>>,
         \/ open_pmem_storage \/ write_pool_layout \/ get_pool_state \/ set_pool_state
         \/ write_backup_pool_headers \/ recover_info_slot \/ recover_slot_ptr \/ recovered
         \/ format_zone \/ persistent_fill_buckets
  PROVE  SlotInv'
  <1> USE DEF SlotInv, media, headers
  <1>1. (Pending' <=> Pending) /\ \A a : (Marked(a)' <=> Marked(a)) /\ (PMarked(a)' <=> PMarked(a))
    BY DEF Pending, Marked, PMarked
  <1>2. CASE open_pmem_storage
    BY <1>1, <1>2 DEF open_pmem_storage, OpenStep, SlotTyped, FoundOpen, Headers, Guards, Recovering, NothingPending
  <1>3. CASE write_pool_layout
    <2>1. mode = "copy" /\ mode' = "state" /\ UNCHANGED <<phdr, pflush, rec>> /\ bhdr' = phdr
      BY <1>3 DEF write_pool_layout, OpenStep
    <2>2. ~ Pending /\ ~ Pending'
      BY <1>1, <2>1 DEF Headers, NothingPending
    <2>3. SlotTyped' /\ FoundOpen' /\ Headers' /\ Guards'
      BY <1>1, <2>1, <2>2 DEF SlotTyped, FoundOpen, Headers, Guards, NothingPending
    <2>4. Recovering'
      BY <1>1, <2>1, <2>2 DEF Recovering, Pending
    <2> QED BY <2>3, <2>4
  <1>10. CASE set_pool_state
    <2>1. mode = "sum" /\ mode' = "backup" /\ UNCHANGED <<phdr, bhdr, rec>> /\ pflush' = "sum"
      BY <1>10 DEF set_pool_state, OpenStep
    <2>2. ~ Pending /\ ~ Pending'
      BY <1>1, <2>1 DEF Headers, NothingPending
    <2> QED BY <1>1, <2>1, <2>2 DEF SlotTyped, FoundOpen, Headers, Guards, NothingPending, Recovering
  <1>9. CASE write_backup_pool_headers
    <2>1. /\ mode = "backup" /\ UNCHANGED <<phdr, pflush, rec>> /\ bhdr' = phdr
          /\ \/ mode' = "fill" /\ phdr = "open"
             \/ mode' = "down"
      BY <1>9 DEF write_backup_pool_headers, OpenStep
    <2>2. ~ Pending /\ ~ Pending'
      BY <1>1, <2>1 DEF Headers, NothingPending
    <2>3. SlotTyped' /\ FoundOpen' /\ Headers' /\ Guards'
      BY <1>1, <2>1, <2>2 DEF SlotTyped, FoundOpen, Headers, Guards
    <2>4. Recovering'
      BY <1>1, <2>1, <2>2 DEF Recovering, Pending
    <2> QED BY <2>3, <2>4
  <1>4. CASE get_pool_state
    BY <1>1, <1>4 DEF get_pool_state, OpenStep, SlotTyped, FoundOpen, Headers, Guards, Recovering, NothingPending, Arenas
  <1>5. CASE format_zone \/ persistent_fill_buckets
    BY <1>1, <1>5 DEF format_zone, persistent_fill_buckets, OpenStep, SlotTyped, FoundOpen, Headers, Guards, Recovering, NothingPending, Pending
  <1>6. CASE recover_slot_ptr
    BY <1>1, <1>6 DEF recover_slot_ptr, OpenStep, SlotTyped, FoundOpen, Headers, Guards, Recovering, NothingPending, Pending
  <1>7. CASE recovered
    BY <1>1, <1>7, ArenaPerThread DEF recovered, OpenStep, SlotTyped, FoundOpen, Headers, Guards, Recovering, NothingPending, Pending, Arenas
  <1>8. CASE recover_info_slot
    <2>1. /\ mode = "rec" /\ rec < NArena /\ UNCHANGED <<phdr, bhdr, pflush>>
          /\ \/ mode' = "rec" /\ slot[rec] = EmptySlot /\ rec' = rec + 1
             \/ mode' \in {"wipe", "unlink", "wrecked"} /\ rec' = rec
      BY <1>8 DEF recover_info_slot, OpenStep
    <2>2. rec \in Arenas
      BY <2>1, ArenaPerThread DEF SlotTyped, Arenas
    <2>3. slot[rec] = EmptySlot => ~ Marked(rec) /\ ~ PMarked(rec)
      BY <2>1, <2>2 DEF Marked, EmptySlot, Recovering
    <2>4. SlotTyped' /\ FoundOpen' /\ Headers' /\ Guards'
      BY <1>1, <2>1 DEF SlotTyped, FoundOpen, Headers, Guards, NothingPending
    <2>5. Recovering'
      <3>1. CASE rec' = rec
        BY <1>1, <2>1, <2>2, <3>1 DEF Recovering
      <3>2. CASE mode' = "rec" /\ slot[rec] = EmptySlot /\ rec' = rec + 1
        <4>1. \A a \in Arenas : a < rec + 1 => a < rec \/ a = rec
          BY <2>2, ArenaPerThread DEF Arenas
        <4> QED BY <1>1, <2>1, <2>3, <3>2, <4>1 DEF Recovering
      <3> QED BY <2>1, <3>1, <3>2
    <2> QED BY <2>4, <2>5
  <1> QED BY <1>2, <1>3, <1>4, <1>5, <1>6, <1>7, <1>8, <1>9, <1>10

\* The steps of pool_open that write slots.
LEMMA SlotWriting ==
  ASSUME SlotInv, UNCHANGED <<pc, arena_id>>,
         open_pmem_storage \/ write_primary_pool_header \/ wipe_slot
  PROVE  SlotInv'
  <1> USE DEF SlotInv, headers
  <1>e. DOMAIN EmptySlot = SlotFields /\ EmptySlot.type = "unknown"
    BY DEF EmptySlot, SlotFields
  <1>1. CASE open_pmem_storage
    <2>1. CASE UNCHANGED slot
      <3>1. UNCHANGED <<slot, pslot>>
        BY <1>1, <2>1 DEF open_pmem_storage
      <3> QED BY <1>1, <3>1, SlotOpening
    <2>2. CASE slot' # slot
      <3>1. /\ mode = "down" /\ mode' = "layout" /\ UNCHANGED <<pslot, phdr, bhdr, pflush, rec>>
            /\ phdr = "bad" /\ bhdr = "bad" /\ slot' = [a \in Arenas |-> EmptySlot]
        BY <1>1, <2>2 DEF open_pmem_storage, OpenStep
      <3>2. ~ Pending
        BY <3>1 DEF FoundOpen
      <3>3. \A a \in Arenas : ~ Marked(a)' /\ ~ PMarked(a)'
        BY <3>1, <3>2, <1>e DEF Pending, Marked, PMarked
      <3>4. SlotTyped'
        BY <3>1, <1>e DEF SlotTyped
      <3>5. ~ Pending'
        BY <3>3 DEF Pending
      <3> QED BY <3>1, <3>4, <3>5 DEF FoundOpen, Headers, Guards, Recovering
    <2> QED BY <2>1, <2>2
  <1>2. CASE write_primary_pool_header
    <2>1. /\ mode = "layout" /\ mode' = "copy" /\ UNCHANGED <<slot, bhdr, rec>>
          /\ pslot' = slot /\ phdr' = "closed" /\ pflush' = "clean"
      BY <1>2 DEF write_primary_pool_header, OpenStep
    <2>2. ~ Pending'
      BY <2>1 DEF Headers, NothingPending, Pending, Marked, PMarked
    <2>3. SlotTyped'
      BY <2>1 DEF SlotTyped
    <2> QED BY <2>1, <2>2, <2>3 DEF FoundOpen, Headers, Guards, Recovering
  <1>3. CASE wipe_slot
    <2>0. UNCHANGED <<phdr, bhdr, pflush>>
      BY <1>3 DEF wipe_slot
    <2>1. CASE mode = "wipe"
      <3>1. /\ mode' = "wiped" /\ UNCHANGED <<pslot, rec>> /\ slot' = [slot EXCEPT ![rec] = EmptySlot]
            /\ rec \in Arenas
        BY <1>3, <2>1 DEF wipe_slot, OpenStep, Recovering
      <3>2. /\ \A a \in Arenas : (a # rec => (Marked(a)' <=> Marked(a))) /\ (PMarked(a)' <=> PMarked(a))
            /\ slot'[rec] = EmptySlot
        BY <3>1, <1>e DEF Marked, PMarked, SlotTyped
      <3>3. SlotTyped'
        BY <2>0, <3>1, <1>e DEF SlotTyped
      <3>4. Pending' => Pending
        BY <3>1, <3>2 DEF Pending, Marked
      <3>5. FoundOpen' /\ Headers' /\ Guards'
        BY <2>0, <2>1, <3>1, <3>4 DEF FoundOpen, Headers, Guards, NothingPending
      <3>6. Recovering'
        BY <2>1, <3>1, <3>2, ArenaPerThread DEF Recovering, Arenas, Marked
      <3> QED BY <3>3, <3>5, <3>6
    <2>2. CASE mode = "wiped"
      <3>1. /\ mode' = "rec" /\ UNCHANGED slot /\ rec' = rec + 1
            /\ pslot' = [pslot EXCEPT ![rec] = slot[rec]] /\ rec \in Arenas
        BY <1>3, <2>2 DEF wipe_slot, OpenStep, Recovering
      <3>2. /\ \A a \in Arenas : (Marked(a)' <=> Marked(a)) /\ (a # rec => (PMarked(a)' <=> PMarked(a)))
            /\ pslot'[rec] = slot[rec] /\ slot[rec] = EmptySlot
        BY <2>2, <3>1 DEF Marked, PMarked, SlotTyped, Recovering
      <3>3. SlotTyped'
        <4>1. rec' \in Nat
          BY <3>1 DEF SlotTyped
        <4>2. /\ pslot' = [a \in Arenas |-> pslot'[a]] /\ slot' = [a \in Arenas |-> slot'[a]]
              /\ \A a \in Arenas : DOMAIN slot'[a] = SlotFields /\ DOMAIN pslot'[a] = SlotFields
          BY <3>1 DEF SlotTyped
        <4> QED BY <2>0, <4>1, <4>2 DEF SlotTyped
      <3>4. Pending' => Pending
        BY <3>1, <3>2 DEF Pending, PMarked
      <3>5. FoundOpen' /\ Headers' /\ Guards'
        BY <2>0, <2>2, <3>1, <3>4 DEF FoundOpen, Headers, Guards, NothingPending
      <3>6. \A a \in Arenas : a < rec + 1 => a < rec \/ a = rec
        BY <3>1, ArenaPerThread DEF Arenas
      <3>8. \A a \in Arenas : PMarked(a)' => Marked(a)'
        BY <2>2, <3>1, <3>2 DEF Recovering, PMarked
      <3>9. \A a \in Arenas : a < rec + 1 => ~ Marked(a)' /\ ~ PMarked(a)'
        BY <2>2, <3>1, <3>2, <3>6 DEF Recovering, PMarked, Marked
      <3> QED BY <3>1, <3>3, <3>5, <3>8, <3>9 DEF Recovering
    <2> QED BY <1>3, <2>1, <2>2 DEF wipe_slot, OpenStep
  <1> QED BY <1>1, <1>2, <1>3

\* A pool is closed when no call is in progress, so when no slot is in use.
LEMMA SlotClosing == SlotInv /\ pool_close => SlotInv'
  <1> SUFFICES ASSUME SlotInv, pool_close PROVE SlotInv'
    OBVIOUS
  <1> USE DEF SlotInv
  <1>1. /\ mode = "open" /\ mode' = "sum" /\ phdr' = "closed" /\ pflush' = "stored"
        /\ UNCHANGED <<slot, pslot, bhdr, rec, pc, arena_id>> /\ \A t \in Threads : pc[t] = "idle"
    BY DEF pool_close, calls
  <1>2. \A a \in Arenas : ~ Marked(a) /\ ~ PMarked(a)
    BY <1>1 DEF Guards, Guarded, Flushing
  <1>3. ~ Pending'
    BY <1>1, <1>2 DEF Pending, Marked, PMarked
  <1>4. SlotTyped'
    BY <1>1 DEF SlotTyped
  <1> QED BY <1>1, <1>3, <1>4 DEF FoundOpen, Headers, Guards, Recovering

\* A call of a thread moves on, or ends the process.
Moves(t) ==
  /\ mode = "open" /\ UNCHANGED <<headers, rec>>
  /\ \/ mode' = "open"
     \/ mode' \in {"killed", "wrecked"} /\ UNCHANGED <<slot, pslot, pc, arena_id>>
  /\ pc' = [u \in Threads |-> pc'[u]] /\ arena_id' = [u \in Threads |-> arena_id'[u]]
  /\ \A u \in Threads \ {t} : pc'[u] = pc[u] /\ arena_id'[u] = arena_id[u]

\* A step of a call may only touch its arena's slot, and only between its guards.
SlotWork(t) ==
  LET a == arena_id[t]
  IN  \/ /\ UNCHANGED <<slot, pslot>>
         /\ \/ pc[t] \in {"idle", "lock"}
            \/ UNCHANGED arena_id /\ pc[t] # "flush" /\ pc'[t] \notin {"idle", "lock", "flush"}
            \/ UNCHANGED <<pc, arena_id>>
      \/ /\ UNCHANGED <<pslot, arena_id>> /\ (a \in Arenas => DOMAIN slot'[a] = SlotFields)
         /\ slot' = [slot EXCEPT ![a] = slot'[a]] /\ pc'[t] = "guard"
      \/ /\ UNCHANGED <<slot, arena_id>> /\ pslot' = [pslot EXCEPT ![a] = slot[a]]
         /\ \/ pc[t] = "guard" /\ pc'[t] \notin {"idle", "lock", "flush"}
            \/ pc[t] = "flush"
      \/ /\ UNCHANGED <<pslot, arena_id>> /\ slot' = [slot EXCEPT ![a] = EmptySlot]
         /\ pc[t] = "clear" /\ pc'[t] = "flush"

LEMMA SlotMoves ==
  ASSUME SlotInv, NEW t \in Threads, Moves(t), SlotWork(t)
  PROVE  SlotInv'
  <1> USE DEF SlotInv, headers
  <1>e. DOMAIN EmptySlot = SlotFields /\ EmptySlot.type = "unknown"
    BY DEF EmptySlot, SlotFields
  <1> DEFINE a0 == arena_id[t]
  <1>1. mode = "open" /\ UNCHANGED <<phdr, bhdr, pflush, rec>> /\ mode' \in {"open", "killed", "wrecked"}
    BY DEF Moves
  <1>2. FoundOpen' /\ Headers'
    BY <1>1 DEF FoundOpen, Headers, NothingPending
  <1>3. Recovering'
    BY <1>1 DEF Recovering
  <1>4. SlotTyped'
    <2>1. /\ slot' = [a \in Arenas |-> slot'[a]] /\ pslot' = [a \in Arenas |-> pslot'[a]]
      BY DEF SlotTyped, SlotWork
    <2>2. \A a \in Arenas : DOMAIN slot'[a] = SlotFields
      <3>1. CASE UNCHANGED slot
        BY <3>1 DEF SlotTyped
      <3>2. CASE slot' = [slot EXCEPT ![a0] = slot'[a0]] /\ (a0 \in Arenas => DOMAIN slot'[a0] = SlotFields)
        BY <3>2 DEF SlotTyped
      <3>3. CASE slot' = [slot EXCEPT ![a0] = EmptySlot]
        BY <3>3, <1>e DEF SlotTyped
      <3> QED BY <3>1, <3>2, <3>3 DEF SlotWork
    <2>3. \A a \in Arenas : DOMAIN pslot'[a] = SlotFields
      <3>1. CASE UNCHANGED pslot
        BY <3>1 DEF SlotTyped
      <3>2. CASE pslot' = [pslot EXCEPT ![a0] = slot[a0]]
        BY <3>2 DEF SlotTyped
      <3> QED BY <3>1, <3>2 DEF SlotWork
    <2> QED BY <1>1, <2>1, <2>2, <2>3 DEF SlotTyped, Moves
  <1>5. Guards'
    <2> SUFFICES ASSUME mode' = "open", NEW a \in Arenas
                 PROVE  (Marked(a)' => Guarded(a)') /\ (PMarked(a)' => Flushing(a)')
      BY DEF Guards
    <2>0. (Marked(a) => Guarded(a)) /\ (PMarked(a) => Flushing(a))
      BY <1>1 DEF Guards
    <2>1. \A u \in Threads \ {t} : pc'[u] = pc[u] /\ arena_id'[u] = arena_id[u]
      BY DEF Moves
    <2>2. CASE /\ UNCHANGED <<slot, pslot>>
               /\ \/ pc[t] \in {"idle", "lock"}
                  \/ UNCHANGED arena_id /\ pc[t] # "flush" /\ pc'[t] \notin {"idle", "lock", "flush"}
                  \/ UNCHANGED <<pc, arena_id>>
      <3>1. (Marked(a)' <=> Marked(a)) /\ (PMarked(a)' <=> PMarked(a))
        BY <2>2 DEF Marked, PMarked
      <3>2. (Guarded(a) => Guarded(a)') /\ (Flushing(a) => Flushing(a)')
        BY <2>1, <2>2 DEF Guarded, Flushing
      <3> QED BY <2>0, <3>1, <3>2
    <2>3. CASE UNCHANGED <<pslot, arena_id>> /\ slot' = [slot EXCEPT ![a0] = slot'[a0]] /\ pc'[t] = "guard"
      <3>1. CASE a = a0
        BY <2>3, <3>1 DEF Guarded, Flushing
      <3>2. CASE a # a0
        <4>1. (Marked(a)' <=> Marked(a)) /\ (PMarked(a)' <=> PMarked(a))
          BY <2>3, <3>2 DEF Marked, PMarked, SlotTyped
        <4>2. (Guarded(a) => Guarded(a)') /\ (Flushing(a) => Flushing(a)')
          BY <2>1, <2>3, <3>2 DEF Guarded, Flushing
        <4> QED BY <2>0, <4>1, <4>2
      <3> QED BY <3>1, <3>2
    <2>4. CASE /\ UNCHANGED <<slot, arena_id>> /\ pslot' = [pslot EXCEPT ![a0] = slot[a0]]
               /\ \/ pc[t] = "guard" /\ pc'[t] \notin {"idle", "lock", "flush"}
                  \/ pc[t] = "flush"
      <3>1. Guarded(a) => Guarded(a)'
        BY <2>1, <2>4 DEF Guarded
      <3>2. Marked(a)' <=> Marked(a)
        BY <2>4 DEF Marked
      <3>3. CASE a = a0
        <4>1. PMarked(a)' => Marked(a)
          BY <2>4, <3>3 DEF Marked, PMarked, SlotTyped
        <4>2. Guarded(a)' => Flushing(a)'
          BY DEF Guarded, Flushing
        <4> QED BY <2>0, <3>1, <3>2, <4>1, <4>2
      <3>4. CASE a # a0
        <4>1. PMarked(a)' <=> PMarked(a)
          BY <2>4, <3>4 DEF PMarked, SlotTyped
        <4>2. Flushing(a) => Flushing(a)'
          BY <2>1, <2>4, <3>4 DEF Flushing
        <4> QED BY <2>0, <3>1, <3>2, <4>1, <4>2
      <3> QED BY <3>3, <3>4
    <2>5. CASE /\ UNCHANGED <<pslot, arena_id>> /\ slot' = [slot EXCEPT ![a0] = EmptySlot]
               /\ pc[t] = "clear" /\ pc'[t] = "flush"
      <3>1. Flushing(a) => Flushing(a)'
        BY <2>1, <2>5 DEF Flushing
      <3>2. PMarked(a)' <=> PMarked(a)
        BY <2>5 DEF PMarked
      <3>3. CASE a = a0
        BY <2>0, <2>5, <3>1, <3>2, <3>3, <1>e DEF Marked, SlotTyped
      <3>4. CASE a # a0
        <4>1. Marked(a)' <=> Marked(a)
          BY <2>5, <3>4 DEF Marked, SlotTyped
        <4>2. Guarded(a) => Guarded(a)'
          BY <2>1, <2>5, <3>4 DEF Guarded
        <4> QED BY <2>0, <3>1, <3>2, <4>1, <4>2
      <3> QED BY <3>3, <3>4
    <2> QED BY <2>2, <2>3, <2>4, <2>5 DEF SlotWork
  <1> QED BY <1>2, <1>3, <1>4, <1>5

LEMMA SlotGoto ==
  ASSUME SlotTyped, NEW t \in Threads, NEW from, NEW to, Goto(t, from, to), UNCHANGED arena_id
  PROVE  /\ mode = "open" /\ pc[t] = from /\ pc'[t] = to
         /\ pc' = [u \in Threads |-> pc'[u]] /\ arena_id' = [u \in Threads |-> arena_id'[u]]
         /\ \A u \in Threads \ {t} : pc'[u] = pc[u] /\ arena_id'[u] = arena_id[u]
  BY DEF Goto, SlotTyped

\* A step of a call that leaves the slots alone.
LEMMA SlotWorks ==
  ASSUME SlotTyped, NEW t \in Threads, UNCHANGED <<slot, pslot, headers, rec, mode, arena_id>>,
         NEW from, NEW to, Goto(t, from, to),
         from \notin {"idle", "lock", "flush"}, to \notin {"idle", "lock", "flush"}
  PROVE  Moves(t) /\ SlotWork(t)
  BY SlotGoto DEF Moves, SlotWork

LEMMA SlotLeave ==
  ASSUME SlotTyped, NEW t \in Threads, NEW from, NEW to, NEW b, Leave(t, from, to, b),
         from \notin {"idle", "lock", "flush"}, to \notin {"idle", "lock", "flush"}
  PROVE  Moves(t) /\ SlotWork(t)
  <1>0. UNCHANGED <<slot, pslot, headers, rec, arena_id>>
    BY DEF Leave, media, headers
  <1>1. CASE Goto(t, from, to) /\ UNCHANGED mode
    BY <1>0, <1>1, SlotWorks
  <1>2. CASE mode = "open" /\ mode' = "killed" /\ UNCHANGED pc
    <2>1. Moves(t)
      BY <1>0, <1>2 DEF Moves, SlotTyped
    <2>2. SlotWork(t)
      BY <1>0, <1>2 DEF SlotWork
    <2> QED BY <2>1, <2>2
  <1> QED BY <1>1, <1>2 DEF Leave

LEMMA SlotSteps ==
  ASSUME SlotTyped, NEW t \in Threads, Step(t)
  PROVE  Moves(t) /\ SlotWork(t)
  <1> DEFINE inner == {"guard", "get", "take", "split", "magic", "shrink", "split_add", "split_link",
                       "put", "put_link", "init", "set", "mark", "copy", "free", "free_add",
                       "free_link", "null", "down", "clear"}
  <1>i. \A x \in inner : x \notin {"idle", "lock", "flush"}
    OBVIOUS
  <1>a. \A o : AfterAlloc(t, o) \in {"copy", "down"}
    BY DEF AfterAlloc
  <1>w. ASSUME UNCHANGED <<slot, pslot, headers, rec, mode, arena_id>>,
               NEW from \in inner, NEW to \in inner, Goto(t, from, to)
        PROVE  Moves(t) /\ SlotWork(t)
    BY <1>w, <1>i, SlotWorks
  <1>l. ASSUME NEW from \in inner, NEW to \in inner, NEW b, Leave(t, from, to, b)
        PROVE  Moves(t) /\ SlotWork(t)
    BY <1>l, <1>i, SlotLeave
  <1>1. CASE arena_guard_up(t)
    <2>1. /\ Goto(t, "lock", "guard") /\ UNCHANGED <<pslot, headers, mode, rec, arena_id>>
      BY <1>1 DEF arena_guard_up
    <2> DEFINE s == [slot[arena_id[t]] EXCEPT !.type = SlotType(op[t].kind), !.dest = op[t].p]
               v == IF s.type # "realloc" THEN s ELSE [s EXCEPT !.old = ptr[op[t].p]]
    <2>2. slot' = [slot EXCEPT ![arena_id[t]] = v]
      BY <1>1 DEF arena_guard_up
    <2>3. DOMAIN s = DOMAIN slot[arena_id[t]]
      OBVIOUS
    <2> HIDE DEF s
    <2>4. DOMAIN v = DOMAIN s
      OBVIOUS
    <2> HIDE DEF v
    <2>5. arena_id[t] \in Arenas => DOMAIN slot'[arena_id[t]] = SlotFields
      BY <2>2, <2>3, <2>4 DEF SlotTyped
    <2>6. slot' = [slot EXCEPT ![arena_id[t]] = slot'[arena_id[t]]]
      BY <2>2 DEF SlotTyped
    <2>7. Moves(t)
      BY <2>1, SlotGoto DEF Moves
    <2>8. SlotWork(t)
      BY <2>1, <2>5, <2>6, SlotGoto DEF SlotWork
    <2> QED BY <2>7, <2>8
  <1>2. CASE persistent_set_guard(t)
    <2> DEFINE to == IF op[t].kind = "pfree" THEN "free" ELSE "get"
    <2>1. /\ Goto(t, "guard", to) /\ UNCHANGED <<slot, headers, mode, rec, arena_id>>
          /\ pslot' = [pslot EXCEPT ![arena_id[t]] = slot[arena_id[t]]]
      BY <1>2 DEF persistent_set_guard, pool
    <2>2. to \notin {"idle", "lock", "flush"}
      OBVIOUS
    <2> HIDE DEF to
    <2>3. Moves(t)
      BY <2>1, SlotGoto DEF Moves
    <2>4. SlotWork(t)
      BY <2>1, <2>2, SlotGoto DEF SlotWork
    <2> QED BY <2>3, <2>4
  <1>3. CASE persistent_clear_guard(t)
    <2>0. UNCHANGED <<headers, mode, rec, arena_id>>
      BY <1>3 DEF persistent_clear_guard, pool
    <2>1. CASE Goto(t, "clear", "flush") /\ slot' = [slot EXCEPT ![arena_id[t]] = EmptySlot] /\ UNCHANGED pslot
      BY <2>0, <2>1, SlotGoto DEF Moves, SlotWork
    <2>2. CASE Goto(t, "flush", "idle") /\ pslot' = [pslot EXCEPT ![arena_id[t]] = slot[arena_id[t]]] /\ UNCHANGED slot
      BY <2>0, <2>2, SlotGoto DEF Moves, SlotWork
    <2> QED BY <1>3, <2>1, <2>2 DEF persistent_clear_guard
  <1>4. CASE arena_guard_down(t)
    <2>1. Goto(t, "down", "clear") /\ UNCHANGED <<slot, pslot, headers, rec, mode, arena_id>>
      BY <1>4 DEF arena_guard_down, media, headers
    <2> QED BY <1>w, <2>1
  <1>5. CASE bucket_get_object(t)
    <2>1. UNCHANGED <<slot, pslot, headers, rec, mode, arena_id>>
      BY <1>5 DEF bucket_get_object, media, headers
    <2>2. \E to \in inner : Goto(t, "get", to)
      BY <1>5, <1>a, Zenon DEF bucket_get_object
    <2> QED BY <1>w, <2>1, <2>2
  <1>6. CASE bst_remove(t)
    <2> DEFINE to == IF new[t].size < hdr[new[t].uid].size THEN "split" ELSE "init"
    <2>1. Leave(t, "take", to, bucket)
      BY <1>6 DEF bst_remove
    <2>2. to \in inner
      OBVIOUS
    <2> HIDE DEF to
    <2> QED BY <1>l, <2>1, <2>2
  <1>7. CASE persistent_init_bucket_obj(t)
    <2>1. UNCHANGED <<slot, pslot, headers, rec, mode, arena_id>>
      BY <1>7 DEF persistent_init_bucket_obj, media, headers, pool
    <2>2. Goto(t, "init", "set") \/ Goto(t, "init", "put")
      BY <1>7 DEF persistent_init_bucket_obj
    <2> QED BY <1>w, <2>1, <2>2
  <1>8. CASE write_chunk_header(t)
    <2>1. UNCHANGED <<slot, pslot, headers, rec, mode, arena_id>>
      BY <1>8 DEF write_chunk_header, pool
    <2>2. Goto(t, "split", "magic") \/ Goto(t, "magic", "shrink")
      BY <1>8 DEF write_chunk_header
    <2> QED BY <1>w, <2>1, <2>2
  <1>9. CASE set_chunk_size(t)
    BY <1>w, <1>9 DEF set_chunk_size, pool
  <1>10. CASE bst_add(t)
    <2>1. ASSUME NEW from \in inner, NEW to \in inner, bst_add_begin(t, from, to)
          PROVE  Moves(t) /\ SlotWork(t)
      <3>1. Goto(t, from, to) /\ UNCHANGED <<slot, pslot, headers, rec, mode, arena_id>>
        BY <2>1 DEF bst_add_begin, media, headers, pool
      <3> QED BY <1>w, <3>1
    <2>2. ASSUME NEW from \in inner, NEW to \in inner, NEW k, bst_add_end(t, from, to, k)
          PROVE  Moves(t) /\ SlotWork(t)
      BY <2>2, <1>l DEF bst_add_end
    <2>3. CASE \/ bst_add_begin(t, "split_add", "split_link") \/ bst_add_begin(t, "put", "put_link")
               \/ bst_add_begin(t, "free_add", "free_link")
      BY <2>1, <2>3
    <2>4. CASE bst_add_end(t, "split_link", "init", Key(NewChunk(t)))
      BY <2>2, <2>4
    <2>5. CASE bst_add_end(t, "put_link", AfterAlloc(t, new[t]), new[t])
      <3>1. AfterAlloc(t, new[t]) \in inner
        BY <1>a
      <3> QED BY <2>2, <2>5, <3>1
    <2>6. CASE bst_add_end(t, "free_link", IF op[t].kind = "pfree" THEN "null" ELSE "down", obj[t])
      <3> DEFINE to == IF op[t].kind = "pfree" THEN "null" ELSE "down"
      <3>1. to \in inner /\ bst_add_end(t, "free_link", to, obj[t])
        BY <2>6
      <3> HIDE DEF to
      <3> QED BY <2>2, <3>1
    <2> QED BY <1>10, <2>3, <2>4, <2>5, <2>6 DEF bst_add
  <1>11. CASE set_alloc_ptr(t)
    <2>1. UNCHANGED <<slot, pslot, headers, rec, mode, arena_id>>
      BY <1>11 DEF set_alloc_ptr, pool
    <2>2. Goto(t, "set", "mark") \/ Goto(t, "null", "down")
      BY <1>11 DEF set_alloc_ptr
    <2> QED BY <1>w, <2>1, <2>2
  <1>12. CASE bucket_mark_allocated(t)
    <2>1. UNCHANGED <<slot, pslot, headers, rec, mode, arena_id>>
      BY <1>12 DEF bucket_mark_allocated, pool
    <2>2. Goto(t, "mark", AfterAlloc(t, new[t])) /\ AfterAlloc(t, new[t]) \in inner
      BY <1>12, <1>a DEF bucket_mark_allocated
    <2> QED BY <1>w, <2>1, <2>2
  <1>13. CASE persistent_copy_content(t)
    <2>1. UNCHANGED <<slot, pslot, headers, rec, arena_id>> /\ mode = "open" /\ pc[t] = "copy"
      BY <1>13 DEF persistent_copy_content, media, headers
    <2>2. CASE Goto(t, "copy", "free") /\ UNCHANGED mode
      BY <1>w, <2>1, <2>2
    <2>3. CASE mode' = "wrecked" /\ UNCHANGED pc
      BY <2>1, <2>3 DEF Moves, SlotWork, SlotTyped
    <2> QED BY <1>13, <2>2, <2>3 DEF persistent_copy_content
  <1>14. CASE pool_recycle_object(t)
    <2>1. UNCHANGED <<slot, pslot, headers, rec, mode, arena_id>>
      BY <1>14 DEF pool_recycle_object, pool
    <2>2. Goto(t, "free", "free_add") \/ Goto(t, "free", "down")
      BY <1>14 DEF pool_recycle_object
    <2> QED BY <1>w, <2>1, <2>2
  <1> QED BY <1>1, <1>2, <1>3, <1>4, <1>5, <1>6, <1>7, <1>8, <1>9, <1>10, <1>11, <1>12, <1>13, <1>14
          DEF Step

LEMMA SlotCalls ==
  ASSUME SlotTyped, NEW t \in Threads, pmalloc(t) \/ pfree(t) \/ prealloc(t)
  PROVE  Moves(t) /\ SlotWork(t)
  <1>1. PICK kind, p, size, o : Call(t, kind, p, size, o)
    BY Zenon DEF pmalloc, pfree, prealloc
  <1> DEFINE id == IF arena_id[t] # -1 THEN arena_id[t] ELSE Min(Arenas \ arenas)
  <1>2. /\ UNCHANGED <<slot, pslot, headers, rec, mode>> /\ Goto(t, "idle", "lock")
        /\ arena_id' = [arena_id EXCEPT ![t] = id]
    BY <1>1 DEF Call, media, headers, pool_select_arena
  <1> HIDE DEF id
  <1> QED BY <1>2 DEF Goto, Moves, SlotWork, SlotTyped

\* After a power failure a slot names an operation only if it did before, and
\* then the headers that may have reached the media say that the pool is open.
LEMMA SlotCrash == SlotInv /\ Crash => SlotInv'
  <1> SUFFICES ASSUME SlotInv, Crash PROVE SlotInv'
    OBVIOUS
  <1> USE DEF SlotInv
  <1>1. PICK keep : pslot' = [a \in Arenas |-> [f \in SlotFields |->
                                IF f \in keep[a] THEN pslot[a][f] ELSE slot[a][f]]]
    BY DEF Crash, SlotFields
  <1>2. /\ slot' = pslot' /\ pflush' = "clean" /\ mode' = "down" /\ rec' = 0
        /\ pc' = [t \in Threads |-> "idle"] /\ arena_id' \in [Threads -> Foreign \cup {-1}]
    BY DEF Crash
  <1>3. phdr' \in CASE pflush = "clean"  -> {phdr}
                    [] pflush = "sum"    -> {phdr, "bad"}
                    [] pflush = "stored" -> {"open", "closed", "bad"}
    BY DEF Crash
  <1>4. bhdr' \in IF mode \in {"backup", "copy"} THEN {bhdr, "bad", phdr} ELSE {bhdr}
    BY DEF Crash
  <1>5. \A a \in Arenas : Marked(a)' \/ PMarked(a)' => Marked(a) \/ PMarked(a)
    <2> SUFFICES ASSUME NEW a \in Arenas, slot[a] = EmptySlot, pslot[a] = EmptySlot
                 PROVE  slot'[a] = EmptySlot /\ pslot'[a] = EmptySlot
      BY DEF Marked, PMarked
    <2>1. pslot'[a] = [f \in SlotFields |-> EmptySlot[f]]
      BY <1>1
    <2>2. [f \in SlotFields |-> EmptySlot[f]] = EmptySlot
      BY DEF EmptySlot, SlotFields
    <2> QED BY <1>2, <2>1, <2>2
  <1>6. Pending' => Pending
    BY <1>5 DEF Pending
  <1>7. SlotTyped'
    <2>1. phdr' \in {"bad", "open", "closed"} /\ bhdr' \in {"bad", "open", "closed"}
      BY <1>3, <1>4 DEF SlotTyped
    <2>2. /\ slot' = [a \in Arenas |-> slot'[a]] /\ pslot' = [a \in Arenas |-> pslot'[a]]
          /\ \A a \in Arenas : DOMAIN slot'[a] = SlotFields /\ DOMAIN pslot'[a] = SlotFields
      BY <1>1, <1>2
    <2> QED BY <1>2, <2>1, <2>2 DEF SlotTyped
  <1>8. FoundOpen'
    <2> SUFFICES ASSUME Pending'
                 PROVE  phdr' = "open" \/ (phdr' = "bad" /\ bhdr' = "open")
      BY <1>2 DEF FoundOpen
    <2>1. Pending /\ mode \notin {"backup", "copy"}
      BY <1>6 DEF Headers, NothingPending
    <2>2. bhdr' = bhdr
      BY <1>4, <2>1
    <2>3. CASE pflush = "clean"
      BY <1>3, <2>1, <2>2, <2>3 DEF FoundOpen
    <2>4. CASE pflush = "sum"
      BY <1>3, <2>1, <2>2, <2>4 DEF FoundOpen
    <2> QED BY <2>1, <2>3, <2>4 DEF FoundOpen, SlotTyped
  <1>9. Headers' /\ Guards'
    BY <1>2 DEF Headers, Guards, NothingPending
  <1>10. Recovering'
    BY <1>2 DEF Recovering, Marked, PMarked
  <1> QED BY <1>7, <1>8, <1>9, <1>10

LEMMA SlotStep == SlotInv /\ [Next]_vars => SlotInv'
  <1> SUFFICES ASSUME SlotInv, [Next]_vars PROVE SlotInv'
    OBVIOUS
  <1>1. CASE pool_open
    <2>1. UNCHANGED <<pc, arena_id>>
      BY <1>1 DEF pool_open, OpenStep, calls, open_pmem_storage, write_primary_pool_header, write_pool_layout,
         get_pool_state, set_pool_state, write_backup_pool_headers, recover_info_slot, recover_slot_ptr,
         wipe_slot, recovered, format_zone, persistent_fill_buckets
    <2>2. CASE open_pmem_storage \/ write_primary_pool_header \/ wipe_slot
      BY <2>1, <2>2, SlotWriting
    <2>3. CASE \/ write_pool_layout \/ get_pool_state \/ set_pool_state
               \/ write_backup_pool_headers \/ recover_info_slot \/ recover_slot_ptr \/ recovered
               \/ format_zone \/ persistent_fill_buckets
      <3>1. UNCHANGED <<slot, pslot>>
        BY <2>3 DEF write_pool_layout, get_pool_state, set_pool_state, write_backup_pool_headers,
           recover_info_slot, recover_slot_ptr, recovered, format_zone, persistent_fill_buckets, media
      <3> QED BY <2>1, <2>3, <3>1, SlotOpening
    <2> QED BY <1>1, <2>2, <2>3 DEF pool_open
  <1>2. CASE pool_close
    BY <1>2, SlotClosing
  <1>3. CASE Crash
    BY <1>3, SlotCrash
  <1>4. CASE \E t \in Threads : pmalloc(t) \/ pfree(t) \/ prealloc(t) \/ Step(t)
    <2>1. PICK t \in Threads : pmalloc(t) \/ pfree(t) \/ prealloc(t) \/ Step(t)
      BY <1>4
    <2>2. Moves(t) /\ SlotWork(t)
      BY <2>1, SlotCalls, SlotSteps DEF SlotInv
    <2> QED BY <2>2, SlotMoves
  <1>5. CASE UNCHANGED vars
    <2>1. UNCHANGED <<slot, pslot, phdr, bhdr, pflush, mode, rec, pc, arena_id>>
      BY <1>5 DEF vars, media, pool, calls
    <2> QED BY <2>1 DEF SlotInv, SlotTyped, FoundOpen, Pending, Marked, PMarked, Headers, Guards, Guarded,
               Flushing, Recovering
  <1> QED BY <1>1, <1>2, <1>3, <1>4, <1>5 DEF Next

LEMMA SlotAlways == Spec => []SlotInv
  BY SlotStart, SlotStep, PTL DEF Spec

\* Whatever the threads, the power failures during calls, recovery, opening and
\* closing, and the parts of info slots and headers that reach the media: the
\* pool is laid out anew, or taken for closed, only when no info slot names an
\* interrupted operation (open_pmem_storage, get_pool_state, set_pool_state).
THEOREM InterruptedCallsFound == Spec => []CleanClose
  <1>1. SlotInv => CleanClose
    <2> SUFFICES ASSUME SlotInv, (phdr = "bad" /\ bhdr = "bad") \/ (mode = "state" /\ phdr = "closed"),
                        NEW a \in Arenas
                 PROVE  slot[a].type = "unknown"
      BY DEF CleanClose
    <2>1. ~ Pending
      BY DEF SlotInv, FoundOpen
    <2> QED BY <2>1 DEF Pending, Marked, EmptySlot
  <1> QED BY <1>1, SlotAlways, PTL

-----------------------------------------------------------------------------
(* The tiles of a zone.                                                    *)

HdrType == [Chunks -> [magic : BOOLEAN, used : BOOLEAN, size : 0 .. NChunk]]

LEMMA TilesBasic ==
  ASSUME NEW h \in HdrType
  PROVE  /\ 0 \in TilesOf(h) /\ TilesOf(h) \subseteq 0 .. NChunk
         /\ \A j \in TilesOf(h) \ {NChunk} :
              /\ j \in Chunks /\ h[j].size \in 0 .. NChunk
              /\ j + h[j].size \in 0 .. NChunk => j + h[j].size \in TilesOf(h)
  <1>1. 0 \in TilesOf(h) /\ TilesOf(h) \subseteq 0 .. NChunk
    BY HeapAssumption DEF TilesOf, Closed
  <1>2. ASSUME NEW j \in TilesOf(h) \ {NChunk}, j + h[j].size \in 0 .. NChunk
        PROVE  j + h[j].size \in TilesOf(h)
    BY <1>2 DEF TilesOf, Closed
  <1>3. ASSUME NEW j \in TilesOf(h) \ {NChunk}
        PROVE  j \in Chunks /\ h[j].size \in 0 .. NChunk
    BY <1>1, HeapAssumption DEF Chunks, HdrType
  <1> QED BY <1>1, <1>2, <1>3

\* A set the way from header to header does not leave has all the tiles.
LEMMA TilesLeast ==
  ASSUME NEW h, NEW S \in SUBSET (0 .. NChunk), 0 \in S,
         \A j \in S \ {NChunk} : j + h[j].size \in 0 .. NChunk => j + h[j].size \in S
  PROVE  TilesOf(h) \subseteq S
  BY DEF TilesOf, Closed

\* The tiles depend on nothing but their sizes.
LEMMA TilesFrame ==
  ASSUME NEW h \in HdrType, NEW g \in HdrType,
         \A j \in TilesOf(h) \ {NChunk} : g[j].size = h[j].size
  PROVE  TilesOf(g) = TilesOf(h)
  <1>1. TilesOf(g) \subseteq TilesOf(h)
    BY TilesBasic, TilesLeast
  <1>2. TilesOf(h) \subseteq TilesOf(g)
    BY <1>1, TilesBasic, TilesLeast
  <1> QED BY <1>1, <1>2

Sound(h) == NChunk \in TilesOf(h) /\ \A c \in TilesOf(h) \ {NChunk} : h[c].size > 0

\* Tiles do not overlap.
LEMMA TilesApart ==
  ASSUME NEW h \in HdrType, \A c \in TilesOf(h) \ {NChunk} : h[c].size > 0,
         NEW i \in TilesOf(h), NEW j \in TilesOf(h), i < j
  PROVE  i + h[i].size <= j
  <1> DEFINE T == TilesOf(h)
             Apart(k) == \A m \in T : (m < k => m + h[m].size <= k) /\ (k < m => k + h[k].size <= m)
             S == {k \in T : Apart(k)}
  <1>0. /\ 0 \in T /\ T \subseteq 0 .. NChunk /\ NChunk \in Nat
        /\ \A k \in T \ {NChunk} : /\ h[k].size \in 0 .. NChunk /\ h[k].size > 0 /\ k \in 0 .. NChunk
                                   /\ k + h[k].size \in 0 .. NChunk => k + h[k].size \in T
    BY TilesBasic, HeapAssumption
  <1>1. Apart(0)
    <2> DEFINE R == {m \in T : 0 < m => h[0].size <= m}
    <2>1. R \in SUBSET (0 .. NChunk) /\ 0 \in R
      BY <1>0
    <2>2. ASSUME NEW m \in R \ {NChunk}, m + h[m].size \in 0 .. NChunk
          PROVE  m + h[m].size \in R
      BY <1>0, <2>2, HeapAssumption
    <2>3. T \subseteq R
      <3> HIDE DEF R
      <3> QED BY <2>1, <2>2, TilesLeast
    <2> QED BY <1>0, <2>3, HeapAssumption
  <1>2. ASSUME NEW k0 \in S \ {NChunk}, k0 + h[k0].size \in 0 .. NChunk
        PROVE  k0 + h[k0].size \in S
    <2> DEFINE k == k0 + h[k0].size
               R == {m \in T : k < m => k + h[k].size <= m}
    <2>1. k \in T /\ k \in 0 .. NChunk
      BY <1>0, <1>2
    <2>2. \A m \in T : m < k => m + h[m].size <= k
      BY <1>0, <1>2
    <2>3. \A m \in T : k < m => k + h[k].size <= m
      <3> HIDE DEF k
      <3>1. R \in SUBSET (0 .. NChunk) /\ 0 \in R
        BY <1>0, <2>1
      <3>2. ASSUME NEW m \in R \ {NChunk}, m + h[m].size \in 0 .. NChunk
            PROVE  m + h[m].size \in R
        <4>1. m \in T /\ m + h[m].size \in T /\ h[m].size \in Nat /\ m \in Nat
          BY <1>0, <3>2
        <4>2. CASE m < k
          BY <2>1, <2>2, <4>1, <4>2
        <4>3. CASE m = k
          BY <2>1, <4>1, <4>3
        <4>4. CASE k < m
          <5>1. k # NChunk
            BY <2>1, <4>1, <4>4, <1>0
          <5> QED BY <1>0, <2>1, <3>2, <4>1, <4>4, <5>1
        <4> QED BY <2>1, <4>1, <4>2, <4>3, <4>4
      <3>3. T \subseteq R
        <4> HIDE DEF R
        <4> QED BY <3>1, <3>2, TilesLeast
      <3> QED BY <3>3
    <2> QED BY <2>1, <2>2, <2>3
  <1>3. S \in SUBSET (0 .. NChunk) /\ 0 \in S
    BY <1>0, <1>1
  <1>4. T \subseteq S
    <2> HIDE DEF S
    <2> QED BY <1>2, <1>3, TilesLeast
  <1> QED BY <1>4

\* A tile ends where the next one begins.
LEMMA TilesEnd ==
  ASSUME NEW h \in HdrType, Sound(h), NEW c \in TilesOf(h) \ {NChunk}
  PROVE  /\ c \in Chunks /\ h[c].size \in 1 .. NChunk /\ c + h[c].size \in 0 .. NChunk
         /\ c + h[c].size \in TilesOf(h)
         /\ \A k \in Nat : c < k /\ k < c + h[c].size => k \in Chunks /\ k \notin TilesOf(h)
  <1>1. /\ c \in Chunks /\ h[c].size \in 0 .. NChunk /\ h[c].size > 0 /\ c < NChunk
        /\ NChunk \in TilesOf(h) /\ NChunk \in Nat
        /\ \A d \in TilesOf(h) \ {NChunk} : h[d].size > 0
    BY TilesBasic, HeapAssumption DEF Sound, Chunks
  <1>2. c + h[c].size <= NChunk
    BY <1>1, TilesApart
  <1>3. c + h[c].size \in 0 .. NChunk /\ c + h[c].size \in TilesOf(h)
    BY <1>1, <1>2, TilesBasic DEF Chunks
  <1>4. ASSUME NEW k \in Nat, c < k, k < c + h[c].size
        PROVE  k \in Chunks /\ k \notin TilesOf(h)
    <2>1. k \in Chunks
      BY <1>1, <1>2, <1>4 DEF Chunks
    <2>2. ASSUME k \in TilesOf(h) PROVE FALSE
      <3>1. c + h[c].size <= k
        BY <1>1, <1>4, <2>2, TilesApart
      <3> QED BY <1>1, <1>4, <3>1 DEF Chunks
    <2> QED BY <2>1, <2>2
  <1> QED BY <1>1, <1>3, <1>4

\* A split makes a tile of the rest.
LEMMA TilesSplit ==
  ASSUME NEW h \in HdrType, NEW g \in HdrType, Sound(h), NEW u \in TilesOf(h) \ {NChunk},
         NEW k \in Nat \ {0}, k < h[u].size, h[u + k].size = h[u].size - k,
         g[u].size = k, \A c \in Chunks \ {u} : g[c].size = h[c].size
  PROVE  /\ TilesOf(g) = TilesOf(h) \cup {u + k} /\ u + k \notin TilesOf(h) /\ u + k \in Chunks
         /\ Sound(g)
  <1> DEFINE n == u + k
  <1>1. /\ u \in Chunks /\ h[u].size \in 1 .. NChunk /\ u + h[u].size \in TilesOf(h)
        /\ u + h[u].size \in 0 .. NChunk
        /\ u \in Nat /\ NChunk \in Nat /\ NChunk \in TilesOf(h)
    BY TilesEnd, HeapAssumption DEF Chunks, Sound
  <1>2. n \in Nat /\ u < n /\ n < u + h[u].size
    BY <1>1
  <1>3. n \in Chunks /\ n \notin TilesOf(h) /\ n \in 0 .. NChunk /\ n # NChunk
    <2>1. n \in Chunks /\ n \notin TilesOf(h)
      BY <1>2, TilesEnd
    <2> QED BY <2>1, HeapAssumption DEF Chunks
  <1>4. g[n].size = h[u].size - k /\ n + g[n].size = u + h[u].size /\ g[n].size > 0
    BY <1>1, <1>2, <1>3
  <1> HIDE DEF n
  <1>5. TilesOf(g) \subseteq TilesOf(h) \cup {n}
    <2> DEFINE S == TilesOf(h) \cup {n}
    <2>1. S \in SUBSET (0 .. NChunk) /\ 0 \in S
      BY <1>3, TilesBasic
    <2>2. ASSUME NEW j \in S \ {NChunk}, j + g[j].size \in 0 .. NChunk
          PROVE  j + g[j].size \in S
      <3>1. CASE j = u
        BY <3>1 DEF n
      <3>2. CASE j = n
        BY <3>2, <1>1, <1>4
      <3>3. CASE j # u /\ j # n
        <4>1. j \in TilesOf(h) \ {NChunk} /\ g[j].size = h[j].size
          BY <3>3, <2>2, TilesBasic
        <4> QED BY <4>1, <2>2, TilesBasic
      <3> QED BY <3>1, <3>2, <3>3
    <2> HIDE DEF S
    <2>3. TilesOf(g) \subseteq S
      BY <2>1, <2>2, TilesLeast
    <2> QED BY <2>3 DEF S
  <1>6. u \in TilesOf(g) => n \in TilesOf(g) /\ u + h[u].size \in TilesOf(g)
    <2> HAVE u \in TilesOf(g)
    <2>1. u + g[u].size = n
      BY DEF n
    <2>2. n \in TilesOf(g)
      BY <1>3, <2>1, TilesBasic
    <2> QED BY <1>1, <1>3, <1>4, <2>2, TilesBasic
  <1>7. TilesOf(h) \subseteq TilesOf(g)
    <2>1. TilesOf(g) \in SUBSET (0 .. NChunk) /\ 0 \in TilesOf(g)
      BY TilesBasic
    <2>2. ASSUME NEW j \in TilesOf(g) \ {NChunk}, j + h[j].size \in 0 .. NChunk
          PROVE  j + h[j].size \in TilesOf(g)
      <3>1. CASE j = u
        BY <3>1, <1>6
      <3>2. CASE j # u
        <4>1. j \in Chunks /\ g[j].size = h[j].size
          BY <3>2, TilesBasic
        <4> QED BY <4>1, <2>2, TilesBasic
      <3> QED BY <3>1, <3>2
    <2> QED BY <2>1, <2>2, TilesLeast
  <1>8. TilesOf(g) = TilesOf(h) \cup {n}
    BY <1>5, <1>6, <1>7
  <1>9. Sound(g)
    <2>1. NChunk \in TilesOf(g)
      BY <1>1, <1>7
    <2>2. ASSUME NEW c \in TilesOf(g) \ {NChunk} PROVE g[c].size > 0
      <3>1. CASE c = u
        BY <3>1
      <3>2. CASE c = n
        BY <3>2, <1>4
      <3>3. CASE c # u /\ c # n
        <4>1. c \in TilesOf(h) \ {NChunk} /\ c \in Chunks
          BY <3>3, <1>8, TilesBasic
        <4> QED BY <4>1, <3>3 DEF Sound
      <3> QED BY <3>1, <3>2, <3>3
    <2> QED BY <2>1, <2>2 DEF Sound
  <1> QED BY <1>3, <1>8, <1>9 DEF n

\* A formatted zone is one chunk.
LEMMA TilesFormat ==
  ASSUME NEW h \in HdrType, h[0].size = NChunk
  PROVE  TilesOf(h) = {0, NChunk} /\ Sound(h)
  <1>1. 0 \in TilesOf(h) /\ 0 # NChunk /\ NChunk \in Nat
    BY TilesBasic, HeapAssumption
  <1>2. NChunk \in TilesOf(h)
    BY <1>1, TilesBasic
  <1>3. TilesOf(h) \subseteq {0, NChunk}
    <2> DEFINE S == {0, NChunk}
    <2>1. S \in SUBSET (0 .. NChunk) /\ 0 \in S
      BY <1>1
    <2>2. \A j \in S \ {NChunk} : j + h[j].size \in 0 .. NChunk => j + h[j].size \in S
      BY <1>1
    <2>3. TilesOf(h) \subseteq S
      BY <2>1, <2>2, TilesLeast
    <2> QED BY <2>3
  <1> QED BY <1>1, <1>2, <1>3 DEF Sound

-----------------------------------------------------------------------------
(* Calls, their arenas and their slots.                                    *)

Single  == \A t, u \in Threads : t = u
Online  == mode \in {"open", "killed"}
Offline == mode \notin {"open", "killed", "wrecked"}

Modes == {"down", "layout", "copy", "state", "sum", "backup", "rec", "unlink",
          "wipe", "wiped", "fill", "format", "open", "killed", "wrecked"}
Steps == {"idle", "lock", "guard", "get", "take", "split", "magic", "shrink", "split_add",
          "split_link", "put", "put_link", "init", "set", "mark", "copy", "free",
          "free_add", "free_link", "null", "down", "clear", "flush"}

CallTypes ==
  /\ mode \in Modes /\ rec \in 0 .. NArena /\ arenas \subseteq Arenas
  /\ lock \in [Arenas -> Threads \cup {NoThread}]
  /\ arena_id \in [Threads -> Arenas \cup {-1}]
  /\ pc \in [Threads -> Steps]
  /\ op \in [Threads -> [kind : Ops \cup {"idle"}, p : Ptrs \cup {NoPtr}, size : Sizes \cup {0}]]
  /\ sorted \in BOOLEAN /\ overlap \in [Threads -> BOOLEAN]
  /\ nops \in 0 .. MaxOps /\ ncrash \in 0 .. MaxCrash

ArenasUsed == \A a \in arenas : \E t \in Threads : arena_id[t] = a

\* What a call does at each of its steps.
Allocating == {"get", "take", "split", "magic", "shrink", "split_add", "split_link", "put",
               "put_link", "init", "set", "mark"}
CallFacts(t) ==
  /\ pc[t] = "idle" => op[t] = Idle
  /\ pc[t] # "idle" => op[t].p \in Ptrs /\ op[t].kind \in Ops /\ arena_id[t] \in Arenas
  /\ op[t].kind \in {"pmalloc", "prealloc"} => op[t].size \in Sizes
  /\ pc[t] \in Allocating => op[t].kind \in {"pmalloc", "prealloc"}
  /\ pc[t] = "copy" => op[t].kind = "prealloc"
  /\ pc[t] \in {"free", "free_add", "free_link"} => op[t].kind \in {"pfree", "prealloc"}
  /\ pc[t] = "null" => op[t].kind = "pfree"

\* No two calls work on one pointer.
OneCall == \A t, u \in Threads : t # u /\ op[t].p = op[u].p => op[t].p = NoPtr

\* A thread that is alone meets no other in the container, and its info slot
\* names its call from one guard to the other.
Names(s, t) == s.type = SlotType(op[t].kind) /\ s.dest = op[t].p
Alone ==
  Single =>
    /\ lost = {} /\ sorted
    /\ \A t \in Threads :
         /\ ~ overlap[t]
         /\ pc[t] \notin {"idle", "lock", "flush"} => Names(slot[arena_id[t]], t)
         /\ pc[t] \notin {"idle", "lock", "guard", "flush"} => Names(pslot[arena_id[t]], t)

Resting ==
  Offline => /\ \A t \in Threads : pc[t] = "idle"
             /\ bucket = {} /\ lost = {} /\ sorted /\ arenas = {}

\* Without power failures nothing is ever recovered.
NoRecovery == MaxCrash = 0 => (Offline => ~ Pending) /\ mode \notin {"unlink", "wipe", "wiped"}

SlotFacts ==
  /\ "prealloc" \notin Ops => \A a \in Arenas : slot[a].type # "realloc" /\ pslot[a].type # "realloc"
  /\ mode \in {"down", "state", "rec", "unlink", "wipe", "wiped"} =>
       \A a \in Arenas : (mode = "wiped" /\ a = rec) \/ slot[a] = pslot[a]

CallInv ==
  /\ CallTypes /\ ArenasUsed /\ OneCall /\ Alone /\ Resting /\ NoRecovery /\ SlotFacts
  /\ \A t \in Threads : CallFacts(t)

LEMMA MinOfNat ==
  ASSUME NEW S \in SUBSET Nat, S # {}
  PROVE  Min(S) \in S
  <1>1. \E x \in S : \A y \in S : ~ (<<y, x>> \in OpToRel(<, Nat))
    BY NatLessThanWellFounded, WFMin
  <1>2. \E x \in S : \A y \in S : x =< y
    <2>1. PICK x \in S : \A y \in S : ~ (<<y, x>> \in OpToRel(<, Nat))
      BY <1>1
    <2>2. \A y \in S : ~ (y < x)
      BY <2>1 DEF OpToRel
    <2> QED BY <2>2
  <1> QED BY <1>2 DEF Min

\* A thread without an arena finds one that does not exist yet.
LEMMA ArenaLeft ==
  ASSUME CallTypes, ArenasUsed, NEW t \in Threads, arena_id[t] = -1
  PROVE  Min(Arenas \ arenas) \in Arenas
  <1>1. Arenas \ arenas # {}
    <2> SUFFICES ASSUME Arenas \subseteq arenas PROVE FALSE
      OBVIOUS
    <2> DEFINE f == [a \in Arenas |-> CHOOSE u \in Threads : arena_id[u] = a]
    <2>1. \A a \in Arenas : f[a] \in Threads /\ arena_id[f[a]] = a
      BY DEF ArenasUsed
    <2>2. f \in [Arenas -> Threads \ {t}]
      BY <2>1 DEF Arenas
    <2>3. IsFiniteSet(Arenas) /\ Cardinality(Arenas) = NArena
      <3>1. 0 \in Int /\ NArena - 1 \in Int /\ NArena \in Nat
        BY ArenaPerThread
      <3>2. Cardinality(Threads) # 0 /\ Cardinality(Threads) \in Nat /\ Cardinality(Threads) <= NArena
        BY ArenaPerThread, FS_EmptySet, FS_CardinalityType
      <3>3. NArena > 0
        BY <3>1, <3>2
      <3>4. /\ IsFiniteSet(0 .. NArena - 1)
            /\ Cardinality(0 .. NArena - 1) = IF 0 > NArena - 1 THEN 0 ELSE (NArena - 1) - 0 + 1
        BY ONLY <3>1, FS_Interval
      <3>5. Cardinality(0 .. NArena - 1) = NArena
        BY <3>1, <3>3, <3>4
      <3> QED BY <3>4, <3>5 DEF Arenas
    <2>4. IsFiniteSet(Threads \ {t}) /\ Cardinality(Threads \ {t}) < NArena
      <3>1. IsFiniteSet(Threads) /\ Cardinality(Threads) <= NArena /\ NArena \in Nat
        BY ArenaPerThread
      <3>2. Cardinality(Threads) \in Nat
        BY <3>1, FS_CardinalityType
      <3>3. IsFiniteSet(Threads \ {t}) /\ Cardinality(Threads \ {t}) = Cardinality(Threads) - 1
        BY ONLY <3>1, t \in Threads, FS_RemoveElement
      <3> QED BY <3>1, <3>2, <3>3
    <2> HIDE DEF f
    <2>5. PICK a, b \in Arenas : a # b /\ f[a] = f[b]
      BY <2>2, <2>3, <2>4, FS_PigeonHole
    <2> QED BY <2>1, <2>5
  <1>2. Arenas \ arenas \in SUBSET Nat
    BY DEF Arenas
  <1> QED BY <1>1, <1>2, MinOfNat

LEMMA CallStart == Init => CallInv
  <1> SUFFICES ASSUME Init PROVE CallInv
    OBVIOUS
  <1>1. CallTypes
    <2>1. Idle \in [kind : Ops \cup {"idle"}, p : Ptrs \cup {NoPtr}, size : Sizes \cup {0}]
      BY DEF Idle
    <2>2. arena_id \in [Threads -> Arenas \cup {-1}]
      BY ArenaPerThread DEF Init, Arenas
    <2> QED BY <2>1, <2>2, ArenaPerThread, HeapBounds DEF Init, CallTypes, Modes, Steps
  <1>2. ArenasUsed /\ Resting
    BY DEF Init, ArenasUsed, Resting
  <1>3. \A t \in Threads : pc[t] = "idle" /\ op[t] = Idle
    BY DEF Init
  <1>4. OneCall
    BY <1>3 DEF OneCall, Idle
  <1>5. Alone
    BY <1>3 DEF Alone, Init
  <1>6. \A t \in Threads : CallFacts(t)
    BY <1>3 DEF CallFacts, Idle, Allocating
  <1>7. \A a \in Arenas : slot[a] = EmptySlot /\ pslot[a] = EmptySlot
    BY DEF Init
  <1>8. NoRecovery
    BY <1>7 DEF Init, NoRecovery, Pending, Marked, PMarked
  <1>9. SlotFacts
    BY <1>7 DEF SlotFacts, EmptySlot
  <1> QED BY <1>1, <1>2, <1>4, <1>5, <1>6, <1>8, <1>9 DEF CallInv

LEMMA NonePending ==
  ASSUME ~ Pending
  PROVE  \A a \in Arenas : slot[a] = EmptySlot /\ pslot[a] = EmptySlot
  BY DEF Pending, Marked, PMarked

\* The effect of every step of pool_open on what is not on media.
LEMMA OpeningEffect ==
  ASSUME pool_open, CallInv, SlotInv
  PROVE  /\ UNCHANGED <<arena_id, pc, op, obj, new, overlap, nops, ncrash, arenas, lock, lost, sorted>>
         /\ Offline /\ mode' \in Modes \ {"killed"} /\ rec' \in 0 .. NArena
         /\ Offline' => UNCHANGED bucket
  <1> USE DEF OpenStep, calls, bounds, container, Modes, Offline, media, headers
  <1>1. rec \in 0 .. NArena /\ mode \in Modes /\ NArena \in Nat
    BY ArenaPerThread DEF CallInv, CallTypes
  <1>2. CASE open_pmem_storage \/ write_primary_pool_header \/ write_pool_layout
    BY <1>1, <1>2 DEF open_pmem_storage, write_primary_pool_header, write_pool_layout
  <1>3. CASE get_pool_state \/ set_pool_state \/ write_backup_pool_headers
    BY <1>1, <1>3 DEF get_pool_state, set_pool_state, write_backup_pool_headers
  <1>4. CASE recover_info_slot
    BY <1>1, <1>4 DEF recover_info_slot
  <1>5. CASE recover_slot_ptr \/ recovered \/ format_zone
    BY <1>1, <1>5 DEF recover_slot_ptr, recovered, format_zone
  <1>6. CASE wipe_slot
    <2>1. mode \in {"wipe", "wiped"} => rec \in Arenas
      BY DEF SlotInv, Recovering
    <2> QED BY <1>1, <1>6, <2>1 DEF wipe_slot, Arenas
  <1>7. CASE persistent_fill_buckets
    <2>1. mode = "fill" /\ mode' \in {"open", "wrecked"} /\ UNCHANGED <<rec, lost, sorted, calls, bounds, arenas, lock>>
      BY <1>7 DEF persistent_fill_buckets
    <2> QED BY <1>1, <2>1
  <1> QED BY <1>2, <1>3, <1>4, <1>5, <1>6, <1>7 DEF pool_open

LEMMA CallOpening ==
  ASSUME pool_open, CallInv, SlotInv, SlotInv'
  PROVE  CallInv'
  <1>1. /\ UNCHANGED <<arena_id, pc, op, obj, new, overlap, nops, ncrash, arenas, lock, lost, sorted>>
        /\ Offline /\ mode' \in Modes \ {"killed"} /\ rec' \in 0 .. NArena
        /\ Offline' => UNCHANGED bucket
    BY OpeningEffect
  <1>2. CallTypes' /\ ArenasUsed' /\ OneCall' /\ \A t \in Threads : CallFacts(t)'
    <2>1. CallTypes'
      BY <1>1 DEF CallInv, CallTypes
    <2>2. ArenasUsed' /\ OneCall'
      BY <1>1 DEF CallInv, ArenasUsed, OneCall
    <2>3. \A t \in Threads : CallFacts(t)'
      BY <1>1 DEF CallInv, CallFacts
    <2> QED BY <2>1, <2>2, <2>3
  <1>3. Resting' /\ Alone'
    BY <1>1 DEF CallInv, Resting, Alone
  <1>4. NoRecovery'
    <2> SUFFICES ASSUME MaxCrash = 0
                 PROVE  ~ Pending' /\ mode' \notin {"unlink", "wipe", "wiped"}
      BY DEF NoRecovery
    <2>1. ~ Pending /\ mode \notin {"unlink", "wipe", "wiped"}
      BY <1>1 DEF CallInv, NoRecovery
    <2>2. \A a \in Arenas : slot[a] = EmptySlot /\ pslot[a] = EmptySlot
      BY <2>1, NonePending
    <2>3. ~ recover_slot_ptr /\ ~ wipe_slot
      BY <2>1 DEF recover_slot_ptr, wipe_slot, OpenStep
    <2>4. CASE recover_info_slot
      <3>1. mode = "rec" /\ rec < NArena /\ UNCHANGED <<slot, pslot>>
        BY <2>4 DEF recover_info_slot, OpenStep
      <3>2. rec \in Arenas
        BY <3>1, ArenaPerThread DEF CallInv, CallTypes, Arenas
      <3>3. slot[rec] = EmptySlot /\ slot[rec].type = "unknown"
        BY <2>2, <3>2 DEF EmptySlot
      <3>4. mode' = "rec"
        BY <2>4, <3>3 DEF recover_info_slot, OpenStep, Undo
      <3> QED BY <2>1, <3>1, <3>4 DEF Pending, Marked, PMarked
    <2>5. CASE open_pmem_storage
      <3>1. UNCHANGED pslot /\ mode' \in {"state", "layout"} /\ \A a \in Arenas : slot'[a] = EmptySlot
        BY <2>2, <2>5 DEF open_pmem_storage, OpenStep
      <3> QED BY <2>2, <3>1 DEF Pending, Marked, PMarked
    <2>6. CASE write_primary_pool_header
      <3>1. UNCHANGED slot /\ pslot' = slot /\ mode' = "copy"
        BY <2>6 DEF write_primary_pool_header, OpenStep
      <3> QED BY <2>2, <3>1 DEF Pending, Marked, PMarked
    <2>7. CASE write_pool_layout \/ get_pool_state \/ set_pool_state \/ write_backup_pool_headers
      <3>1. UNCHANGED <<slot, pslot>> /\ mode' \notin {"unlink", "wipe", "wiped"}
        BY <2>7 DEF write_pool_layout, get_pool_state, set_pool_state, write_backup_pool_headers, OpenStep
      <3> QED BY <2>1, <3>1 DEF Pending, Marked, PMarked
    <2>8. CASE recovered \/ format_zone \/ persistent_fill_buckets
      <3>1. UNCHANGED <<slot, pslot>> /\ mode' \notin {"unlink", "wipe", "wiped"}
        BY <2>8 DEF recovered, format_zone, persistent_fill_buckets, OpenStep, media
      <3> QED BY <2>1, <3>1 DEF Pending, Marked, PMarked
    <2> QED BY <2>3, <2>4, <2>5, <2>6, <2>7, <2>8 DEF pool_open
  <1>5. SlotFacts'
    <2> DEFINE Same == \A a \in Arenas : slot[a] = pslot[a]
    <2>e. EmptySlot.type = "unknown"
      BY DEF EmptySlot
    <2>0. /\ "prealloc" \notin Ops => \A a \in Arenas : slot[a].type # "realloc" /\ pslot[a].type # "realloc"
          /\ mode \in {"down", "state", "rec", "unlink", "wipe", "wiped"} =>
               \A a \in Arenas : (mode = "wiped" /\ a = rec) \/ slot[a] = pslot[a]
      BY DEF CallInv, SlotFacts
    <2>1. mode \in NothingPending => \A a \in Arenas : slot[a] = EmptySlot /\ pslot[a] = EmptySlot
      BY NonePending DEF SlotInv, Headers
    <2>2. CASE open_pmem_storage
      <3>1. CASE UNCHANGED slot
        BY <2>0, <2>2, <3>1 DEF open_pmem_storage, OpenStep, SlotFacts
      <3>2. CASE slot' = [a \in Arenas |-> EmptySlot] /\ mode' = "layout" /\ UNCHANGED pslot
        BY <2>0, <2>e, <3>2 DEF SlotFacts
      <3> QED BY <2>2, <3>1, <3>2 DEF open_pmem_storage, OpenStep
    <2>3. CASE write_primary_pool_header
      BY <2>0, <2>3 DEF write_primary_pool_header, OpenStep, SlotFacts
    <2>4. CASE write_pool_layout \/ write_backup_pool_headers \/ set_pool_state
      <3>1. UNCHANGED <<slot, pslot, rec>> /\ mode \in NothingPending /\ mode' \in {"state", "fill", "down", "backup"}
        BY <2>4 DEF write_pool_layout, write_backup_pool_headers, set_pool_state, OpenStep, NothingPending
      <3> QED BY <2>0, <2>1, <3>1 DEF SlotFacts
    <2>5. CASE get_pool_state
      BY <2>0, <2>5 DEF get_pool_state, OpenStep, SlotFacts
    <2>6. CASE recover_info_slot
      <3>1. UNCHANGED <<slot, pslot>> /\ mode = "rec" /\ mode' # "wiped"
        BY <2>6 DEF recover_info_slot, OpenStep
      <3> QED BY <2>0, <3>1 DEF SlotFacts
    <2>7. CASE recover_slot_ptr \/ recovered
      BY <2>0, <2>7 DEF recover_slot_ptr, recovered, OpenStep, SlotFacts, media
    <2>8. CASE format_zone \/ persistent_fill_buckets
      <3>1. UNCHANGED <<slot, pslot>> /\ mode' \in {"fill", "format", "open", "wrecked"}
        BY <2>8 DEF format_zone, persistent_fill_buckets, OpenStep, media
      <3> QED BY <2>0, <3>1 DEF SlotFacts
    <2>9. CASE wipe_slot
      <3>0. slot = [a \in Arenas |-> slot[a]] /\ pslot = [a \in Arenas |-> pslot[a]]
        BY DEF SlotInv, SlotTyped
      <3>1. CASE mode = "wipe" /\ mode' = "wiped" /\ slot' = [slot EXCEPT ![rec] = EmptySlot] /\ UNCHANGED <<pslot, rec>>
        BY <2>0, <2>e, <3>0, <3>1 DEF SlotFacts
      <3>2. CASE mode = "wiped" /\ mode' = "rec" /\ pslot' = [pslot EXCEPT ![rec] = slot[rec]] /\ UNCHANGED slot
        BY <2>0, <2>e, <3>0, <3>2 DEF SlotFacts
      <3> QED BY <2>9, <3>1, <3>2 DEF wipe_slot, OpenStep
    <2> QED BY <2>2, <2>3, <2>4, <2>5, <2>6, <2>7, <2>8, <2>9 DEF pool_open
  <1> QED BY <1>2, <1>3, <1>4, <1>5 DEF CallInv

LEMMA CallClosing ==
  ASSUME pool_close, CallInv, SlotInv, SlotInv'
  PROVE  CallInv'
  <1>1. /\ mode = "open" /\ mode' = "sum" /\ \A t \in Threads : pc[t] = "idle"
        /\ bucket' = {} /\ lost' = {} /\ sorted' = TRUE /\ arenas' = {}
        /\ UNCHANGED <<slot, pslot, rec, lock, arena_id, pc, op, overlap, nops, ncrash>>
    BY DEF pool_close, calls, bounds
  <1>2. CallTypes' /\ OneCall' /\ \A t \in Threads : CallFacts(t)'
    <2>1. CallTypes'
      BY <1>1 DEF CallInv, CallTypes, Modes
    <2>2. OneCall' /\ \A t \in Threads : CallFacts(t)'
      BY <1>1 DEF CallInv, OneCall, CallFacts
    <2> QED BY <2>1, <2>2
  <1>3. ArenasUsed' /\ Alone' /\ SlotFacts'
    BY <1>1 DEF CallInv, ArenasUsed, Alone, SlotFacts
  <1>4. NoRecovery'
    <2>1. ~ Pending'
      BY <1>1 DEF SlotInv, Headers, NothingPending
    <2> QED BY <1>1, <2>1 DEF NoRecovery
  <1>5. Resting'
    BY <1>1 DEF Resting
  <1> QED BY <1>2, <1>3, <1>4, <1>5 DEF CallInv

LEMMA CallCrash ==
  ASSUME Crash, CallInv, SlotInv, SlotInv'
  PROVE  CallInv'
  <1>1. /\ mode' = "down" /\ rec' = 0 /\ bucket' = {} /\ lost' = {} /\ sorted' = TRUE /\ arenas' = {}
        /\ lock' = [a \in Arenas |-> NoThread] /\ arena_id' \in [Threads -> Foreign \cup {-1}]
        /\ pc' = [t \in Threads |-> "idle"] /\ op' = [t \in Threads |-> Idle]
        /\ overlap' = [t \in Threads |-> FALSE] /\ nops' = nops
        /\ ncrash < MaxCrash /\ ncrash' = ncrash + 1 /\ slot' = pslot'
    BY DEF Crash
  <1>2. PICK keep : pslot' = [a \in Arenas |-> [f \in SlotFields |->
                                IF f \in keep[a] THEN pslot[a][f] ELSE slot[a][f]]]
    BY DEF Crash, SlotFields
  <1>3. MaxCrash # 0
    BY <1>1, HeapBounds DEF CallInv, CallTypes
  <1>4. CallTypes'
    <2>1. Idle \in [kind : Ops \cup {"idle"}, p : Ptrs \cup {NoPtr}, size : Sizes \cup {0}]
      BY DEF Idle
    <2>2. arena_id' \in [Threads -> Arenas \cup {-1}]
      BY <1>1, ArenaPerThread DEF Arenas
    <2>3. nops' \in 0 .. MaxOps /\ ncrash' \in 0 .. MaxCrash /\ rec' \in 0 .. NArena
      BY <1>1, HeapBounds, ArenaPerThread DEF CallInv, CallTypes
    <2> QED BY <1>1, <2>1, <2>2, <2>3 DEF CallTypes, Modes, Steps
  <1>5. \A t \in Threads : pc'[t] = "idle" /\ op'[t] = Idle
    BY <1>1
  <1>6. ArenasUsed' /\ OneCall' /\ Alone' /\ Resting' /\ NoRecovery'
    BY <1>1, <1>3, <1>5 DEF ArenasUsed, OneCall, Alone, Resting, NoRecovery, Idle
  <1>7. \A t \in Threads : CallFacts(t)'
    BY <1>5 DEF CallFacts, Idle, Allocating
  <1>8. SlotFacts'
    BY <1>1, <1>2 DEF CallInv, SlotFacts, SlotFields
  <1> QED BY <1>4, <1>6, <1>7, <1>8 DEF CallInv

\* The steps of a call that do not change its slot and go where its kind goes.
Proceeds(t) ==
  /\ mode = "open" /\ UNCHANGED <<slot, pslot, rec, arenas, arena_id, op, bounds>>
  /\ lock' \in [Arenas -> Threads \cup {NoThread}] /\ sorted' \in BOOLEAN
  /\ overlap' \in [Threads -> BOOLEAN]
  /\ Single => UNCHANGED <<sorted, lost>> /\ \A u \in Threads : ~ overlap'[u]
  /\ \/ UNCHANGED pc /\ mode' \in {"killed", "wrecked"}
     \/ \E to \in Steps \ {"idle", "lock", "guard", "flush"} :
          /\ mode' = "open" /\ pc' = [pc EXCEPT ![t] = to]
          /\ to \in Allocating => op[t].kind \in {"pmalloc", "prealloc"}
          /\ to = "copy" => op[t].kind = "prealloc"
          /\ to \in {"free", "free_add", "free_link"} => op[t].kind \in {"pfree", "prealloc"}
          /\ to = "null" => op[t].kind = "pfree"

LEMMA CallProceeds ==
  ASSUME CallInv, NEW t \in Threads, Proceeds(t), pc[t] \notin {"idle", "lock", "guard", "flush"}
  PROVE  CallInv'
  <1>1. /\ mode = "open" /\ UNCHANGED <<slot, pslot, rec, arenas, arena_id, op, nops, ncrash>>
        /\ lock' \in [Arenas -> Threads \cup {NoThread}] /\ sorted' \in BOOLEAN
        /\ overlap' \in [Threads -> BOOLEAN] /\ mode' \in {"open", "killed", "wrecked"}
        /\ Single => UNCHANGED <<sorted, lost>> /\ \A u \in Threads : ~ overlap'[u]
    BY DEF Proceeds, bounds
  <1>2. /\ pc' \in [Threads -> Steps] /\ \A u \in Threads \ {t} : pc'[u] = pc[u]
        /\ pc'[t] \notin {"idle", "lock", "guard", "flush"}
        /\ pc'[t] \in Allocating => op[t].kind \in {"pmalloc", "prealloc"}
        /\ pc'[t] = "copy" => op[t].kind = "prealloc"
        /\ pc'[t] \in {"free", "free_add", "free_link"} => op[t].kind \in {"pfree", "prealloc"}
        /\ pc'[t] = "null" => op[t].kind = "pfree"
    <2>0. pc \in [Threads -> Steps] /\ CallFacts(t)
      BY DEF CallInv, CallTypes
    <2>1. CASE UNCHANGED pc
      BY <2>0, <2>1 DEF CallFacts
    <2>2. CASE UNCHANGED pc => FALSE
      BY <2>0, <2>2 DEF Proceeds
    <2> QED BY <2>1, <2>2
  <1>3. CallTypes'
    BY <1>1, <1>2 DEF CallInv, CallTypes, Modes
  <1>4. ArenasUsed' /\ OneCall' /\ Resting' /\ NoRecovery' /\ SlotFacts'
    BY <1>1 DEF CallInv, ArenasUsed, OneCall, Resting, NoRecovery, SlotFacts, Offline
  <1>5. Alone'
    BY <1>1, <1>2 DEF CallInv, Alone, Names
  <1>6. ASSUME NEW u \in Threads PROVE CallFacts(u)'
    BY <1>1, <1>2 DEF CallInv, CallFacts
  <1> QED BY <1>3, <1>4, <1>5, <1>6 DEF CallInv

LEMMA EnterTyped ==
  ASSUME CallTypes, Alone, NEW t \in Threads, Enter(t)
  PROVE  overlap' \in [Threads -> BOOLEAN] /\ (Single => \A u \in Threads : ~ overlap'[u])
  <1>1. overlap' = [u \in Threads |-> IF u = t THEN {v \in Threads \ {t} : pc[v] \in Within} # {}
                                      ELSE overlap[u] \/ u \in {v \in Threads \ {t} : pc[v] \in Within}]
    BY DEF Enter
  <1>2. overlap' \in [Threads -> BOOLEAN]
    BY <1>1 DEF CallTypes
  <1>3. ASSUME Single, NEW u \in Threads PROVE ~ overlap'[u]
    <2>1. {v \in Threads \ {t} : pc[v] \in Within} = {} /\ u = t
      BY <1>3 DEF Single
    <2> QED BY <1>1, <2>1
  <1> QED BY <1>2, <1>3

LEMMA ProceedsGoto ==
  ASSUME CallInv, NEW t \in Threads, NEW from, NEW to \in Steps \ {"idle", "lock", "guard", "flush"},
         Goto(t, from, to),
         UNCHANGED <<mode, slot, pslot, rec, arenas, lock, arena_id, op, bounds, sorted, lost>>,
         UNCHANGED overlap \/ Enter(t),
         /\ to \in Allocating => op[t].kind \in {"pmalloc", "prealloc"}
         /\ to = "copy" => op[t].kind = "prealloc"
         /\ to \in {"free", "free_add", "free_link"} => op[t].kind \in {"pfree", "prealloc"}
         /\ to = "null" => op[t].kind = "pfree"
  PROVE  Proceeds(t)
  <1>1. overlap' \in [Threads -> BOOLEAN] /\ (Single => \A u \in Threads : ~ overlap'[u])
    BY EnterTyped DEF CallInv, CallTypes, Alone
  <1> QED BY <1>1 DEF Goto, Proceeds, CallInv, CallTypes

LEMMA ProceedsLeave ==
  ASSUME CallInv, NEW t \in Threads, NEW from, NEW to \in Steps \ {"idle", "lock", "guard", "flush"},
         NEW b, Leave(t, from, to, b),
         /\ to \in Allocating => op[t].kind \in {"pmalloc", "prealloc"}
         /\ to = "copy" => op[t].kind = "prealloc"
         /\ to \in {"free", "free_add", "free_link"} => op[t].kind \in {"pfree", "prealloc"}
         /\ to = "null" => op[t].kind = "pfree"
  PROVE  Proceeds(t) /\ pc[t] = from
  <1>1. /\ overlap' = [overlap EXCEPT ![t] = FALSE]
        /\ UNCHANGED <<slot, pslot, rec, arenas, lock, arena_id, op, bounds>>
        /\ mode = "open" /\ pc[t] = from
        /\ \/ Goto(t, from, to) /\ UNCHANGED <<mode, lost, sorted>>
           \/ Goto(t, from, to) /\ overlap[t] /\ sorted' = FALSE /\ UNCHANGED mode
           \/ overlap[t] /\ mode' = "killed" /\ UNCHANGED <<pc, lost, sorted>>
    BY DEF Leave, media, Goto, container
  <1>2. overlap' \in [Threads -> BOOLEAN] /\ (Single => ~ overlap[t] /\ \A u \in Threads : ~ overlap'[u])
    BY <1>1 DEF CallInv, CallTypes, Alone
  <1>3. sorted' \in BOOLEAN /\ lock' \in [Arenas -> Threads \cup {NoThread}]
    BY <1>1 DEF CallInv, CallTypes
  <1> QED BY <1>1, <1>2, <1>3 DEF Goto, Proceeds

LEMMA CallSteps ==
  ASSUME CallInv, SlotInv, NEW t \in Threads, Step(t)
  PROVE  CallInv'
  <1> DEFINE Inner == Steps \ {"idle", "lock", "guard", "flush"}
             Kinds(to) == /\ to \in Allocating => op[t].kind \in {"pmalloc", "prealloc"}
                          /\ to = "copy" => op[t].kind = "prealloc"
                          /\ to \in {"free", "free_add", "free_link"} => op[t].kind \in {"pfree", "prealloc"}
                          /\ to = "null" => op[t].kind = "pfree"
             Fixed == UNCHANGED <<mode, slot, pslot, rec, arenas, lock, arena_id, op, bounds, sorted, lost>>
  <1>0. CallTypes /\ Alone /\ SlotFacts /\ CallFacts(t) /\ SlotTyped
    BY DEF CallInv, SlotInv
  <1>a. \A o : AfterAlloc(t, o) \in {"copy", "down"} /\ Kinds(AfterAlloc(t, o))
    BY DEF AfterAlloc, Allocating
  <1>s. \A x \in {"take", "split", "magic", "shrink", "split_add", "split_link", "put", "put_link",
                  "init", "set", "mark", "copy", "free", "free_add", "free_link", "null", "down",
                  "clear", "get"} : x \in Inner
    BY DEF Steps
  <1>g. ASSUME NEW from, NEW to \in Inner, Goto(t, from, to), Fixed, UNCHANGED overlap \/ Enter(t), Kinds(to),
               from \notin {"idle", "lock", "guard", "flush"}
        PROVE  CallInv'
    <2>1. Proceeds(t)
      BY <1>g, ProceedsGoto
    <2>2. pc[t] \notin {"idle", "lock", "guard", "flush"}
      BY <1>g DEF Goto
    <2> QED BY <2>1, <2>2, CallProceeds
  <1>l. ASSUME NEW from, NEW to \in Inner, NEW b, Leave(t, from, to, b), Kinds(to),
               from \notin {"idle", "lock", "guard", "flush"}
        PROVE  CallInv'
    <2>1. Proceeds(t) /\ pc[t] = from
      BY <1>l, ProceedsLeave
    <2> QED BY <1>l, <2>1, CallProceeds
  <1>k. /\ pc[t] \in Allocating => op[t].kind \in {"pmalloc", "prealloc"}
        /\ pc[t] = "copy" => op[t].kind = "prealloc"
        /\ pc[t] \in {"free", "free_add", "free_link"} => op[t].kind \in {"pfree", "prealloc"}
        /\ \A x \in {"get", "take", "split", "magic", "shrink", "split_add", "split_link", "put",
                     "put_link", "init", "set", "mark"} : x \in Allocating
        /\ \A x \in {"copy", "free", "free_add", "free_link", "null", "down", "clear"} : x \notin Allocating
    BY <1>0 DEF CallFacts, Allocating
  <1>1. CASE arena_guard_up(t)
    <2> DEFINE a == arena_id[t]
               s == [slot[a] EXCEPT !.type = SlotType(op[t].kind), !.dest = op[t].p]
               v == IF s.type # "realloc" THEN s ELSE [s EXCEPT !.old = ptr[op[t].p]]
    <2>1. /\ Goto(t, "lock", "guard") /\ lock' = [lock EXCEPT ![a] = t] /\ slot' = [slot EXCEPT ![a] = v]
          /\ UNCHANGED <<pslot, mode, rec, bucket, lost, sorted, arenas, arena_id, op, overlap, nops, ncrash>>
      BY <1>1 DEF arena_guard_up, container, bounds
    <2>2. mode = "open" /\ pc[t] = "lock" /\ pc' = [pc EXCEPT ![t] = "guard"] /\ a \in Arenas /\ op[t].kind \in Ops
      BY <2>1, <1>0 DEF Goto, CallFacts
    <2>3. DOMAIN slot[a] = SlotFields
      BY <1>0, <2>2 DEF SlotTyped
    <2>4. s.type = SlotType(op[t].kind) /\ s.dest = op[t].p /\ DOMAIN s = SlotFields
      BY <2>3 DEF SlotFields
    <2> HIDE DEF s
    <2>5. v.type = SlotType(op[t].kind) /\ v.dest = op[t].p
      BY <2>4 DEF SlotFields
    <2> HIDE DEF v
    <2>6. slot'[a] = v /\ \A b \in Arenas \ {a} : slot'[b] = slot[b]
      BY <2>1, <2>2, <1>0 DEF SlotTyped
    <2>7. "prealloc" \notin Ops => SlotType(op[t].kind) # "realloc"
      <3>1. op[t].kind \in {"pmalloc", "pfree", "prealloc"}
        BY <2>2, HeapAssumption
      <3>2. ASSUME op[t].kind \in {"pmalloc", "pfree"} PROVE SlotType(op[t].kind) # "realloc"
        BY <3>2 DEF SlotType
      <3> QED BY <2>2, <3>1, <3>2
    <2>8. CallTypes'
      BY <1>0, <2>1, <2>2 DEF CallTypes, Steps
    <2>9. ArenasUsed' /\ OneCall' /\ Resting' /\ NoRecovery'
      BY <2>1, <2>2 DEF CallInv, ArenasUsed, OneCall, Resting, NoRecovery, Offline
    <2>10. SlotFacts'
      BY <1>0, <2>1, <2>2, <2>5, <2>6, <2>7 DEF SlotFacts
    <2>11. Alone'
      <3> SUFFICES ASSUME Single
                   PROVE  /\ lost' = {} /\ sorted' /\ \A u \in Threads : ~ overlap'[u]
                          /\ \A u \in Threads :
                               /\ pc'[u] \notin {"idle", "lock", "flush"} => Names(slot[arena_id[u]], u)'
                               /\ pc'[u] \notin {"idle", "lock", "guard", "flush"} => Names(pslot[arena_id[u]], u)'
        BY DEF Alone
      <3>1. \A u \in Threads : u = t
        BY DEF Single
      <3>2. pc'[t] = "guard" /\ arena_id'[t] = a
        BY <1>0, <2>1, <2>2 DEF CallTypes
      <3>3. slot'[arena_id'[t]].type = SlotType(op'[t].kind) /\ slot'[arena_id'[t]].dest = op'[t].p
        BY <2>1, <2>5, <2>6, <3>2
      <3> QED BY <1>0, <2>1, <3>1, <3>2, <3>3 DEF Alone, Names
    <2>12. ASSUME NEW u \in Threads PROVE CallFacts(u)'
      BY <2>1, <2>2 DEF CallInv, CallFacts, Allocating, CallTypes
    <2> QED BY <2>8, <2>9, <2>10, <2>11, <2>12 DEF CallInv
  <1>2. CASE persistent_set_guard(t)
    <2> DEFINE a == arena_id[t]
    <2>1. /\ mode = "open" /\ pc[t] = "guard" /\ pslot' = [pslot EXCEPT ![a] = slot[a]]
          /\ UNCHANGED <<slot, mode, rec, bucket, lost, sorted, arenas, lock, arena_id, op, overlap, nops, ncrash>>
          /\ \/ pc' = [pc EXCEPT ![t] = "free"] /\ op[t].kind = "pfree"
             \/ pc' = [pc EXCEPT ![t] = "get"] /\ op[t].kind # "pfree"
      BY <1>2 DEF persistent_set_guard, pool, container, bounds, Goto
    <2>2. a \in Arenas /\ op[t].kind \in {"pmalloc", "pfree", "prealloc"}
      BY <1>0, <2>1, HeapAssumption DEF CallFacts
    <2>3. pslot'[a] = slot[a] /\ \A b \in Arenas \ {a} : pslot'[b] = pslot[b]
      BY <1>0, <2>1, <2>2 DEF SlotTyped
    <2>4. CallTypes'
      BY <1>0, <2>1 DEF CallTypes, Steps
    <2>5. ArenasUsed' /\ OneCall' /\ Resting' /\ NoRecovery'
      BY <2>1 DEF CallInv, ArenasUsed, OneCall, Resting, NoRecovery, Offline
    <2>6. SlotFacts'
      BY <1>0, <2>1, <2>2, <2>3 DEF SlotFacts
    <2>7. Alone'
      <3> SUFFICES ASSUME Single
                   PROVE  /\ lost' = {} /\ sorted' /\ \A u \in Threads : ~ overlap'[u]
                          /\ Names(slot[arena_id[t]], t)' /\ Names(pslot[arena_id[t]], t)'
        BY DEF Alone, Single
      <3> QED BY <1>0, <2>1, <2>3 DEF Alone, Names
    <2>8. ASSUME NEW u \in Threads PROVE CallFacts(u)'
      BY <2>1, <2>2 DEF CallInv, CallFacts, Allocating, CallTypes
    <2> QED BY <2>4, <2>5, <2>6, <2>7, <2>8 DEF CallInv
  <1>3. CASE persistent_clear_guard(t)
    <2> DEFINE a == arena_id[t]
    <2>1. /\ mode = "open" /\ UNCHANGED <<mode, rec, bucket, lost, sorted, arenas, lock, arena_id, overlap, nops, ncrash>>
          /\ \/ /\ pc[t] = "clear" /\ pc' = [pc EXCEPT ![t] = "flush"]
                /\ slot' = [slot EXCEPT ![a] = EmptySlot] /\ UNCHANGED <<pslot, op>>
             \/ /\ pc[t] = "flush" /\ pc' = [pc EXCEPT ![t] = "idle"] /\ UNCHANGED slot
                /\ pslot' = [pslot EXCEPT ![a] = slot[a]] /\ op' = [op EXCEPT ![t] = Idle]
      BY <1>3 DEF persistent_clear_guard, pool, container, bounds, Goto
    <2>2. a \in Arenas /\ EmptySlot.type # "realloc"
      BY <1>0, <2>1 DEF CallFacts, EmptySlot
    <2>3. \A b \in Arenas : /\ slot'[b] = slot[b] \/ slot'[b] = EmptySlot
                            /\ pslot'[b] = pslot[b] \/ pslot'[b] = slot[b]
      BY <1>0, <2>1, <2>2 DEF SlotTyped
    <2>4. CallTypes'
      <3>1. Idle \in [kind : Ops \cup {"idle"}, p : Ptrs \cup {NoPtr}, size : Sizes \cup {0}]
        BY DEF Idle
      <3>2. op' \in [Threads -> [kind : Ops \cup {"idle"}, p : Ptrs \cup {NoPtr}, size : Sizes \cup {0}]]
        BY <1>0, <2>1, <3>1 DEF CallTypes
      <3>3. pc' \in [Threads -> Steps]
        BY <1>0, <2>1 DEF CallTypes, Steps
      <3> QED BY <1>0, <2>1, <3>2, <3>3 DEF CallTypes
    <2>5. ArenasUsed' /\ Resting' /\ NoRecovery'
      BY <2>1 DEF CallInv, ArenasUsed, Resting, NoRecovery, Offline
    <2>6. OneCall'
      <3>1. \A u \in Threads : op'[u] = op[u] \/ op'[u].p = NoPtr
        BY <1>0, <2>1 DEF CallTypes, Idle
      <3> QED BY <3>1 DEF CallInv, OneCall
    <2>7. SlotFacts'
      BY <1>0, <2>1, <2>2, <2>3 DEF SlotFacts
    <2>8. Alone'
      <3> SUFFICES ASSUME Single
                   PROVE  /\ lost' = {} /\ sorted' /\ \A u \in Threads : ~ overlap'[u]
                          /\ pc'[t] \in {"flush", "idle"}
        BY DEF Alone, Single
      <3> QED BY <1>0, <2>1 DEF Alone, CallTypes
    <2>9. ASSUME NEW u \in Threads PROVE CallFacts(u)'
      <3>1. CASE pc[t] = "clear"
        BY <2>1, <3>1 DEF CallInv, CallFacts, Allocating, CallTypes
      <3>2. CASE pc[t] = "flush" /\ u = t
        <4>1. pc'[u] = "idle" /\ op'[u] = Idle
          BY <1>0, <2>1, <3>2 DEF CallTypes
        <4> QED BY <4>1 DEF CallFacts, Idle, Allocating
      <3>3. CASE pc[t] = "flush" /\ u # t
        <4>1. UNCHANGED <<pc[u], op[u], arena_id[u]>>
          BY <1>0, <2>1, <3>3 DEF CallTypes
        <4> QED BY <4>1 DEF CallInv, CallFacts
      <3> QED BY <2>1, <3>1, <3>2, <3>3
    <2> QED BY <2>4, <2>5, <2>6, <2>7, <2>8, <2>9 DEF CallInv
  <1>4. CASE arena_guard_down(t)
    <2>1. /\ Goto(t, "down", "clear") /\ lock' = [lock EXCEPT ![arena_id[t]] = NoThread]
          /\ UNCHANGED <<slot, pslot, mode, rec, lost, sorted, arenas, arena_id, op, overlap, bounds>>
      BY <1>4 DEF arena_guard_down, media, container
    <2>2. Proceeds(t)
      <3>1. lock' \in [Arenas -> Threads \cup {NoThread}]
        BY <1>0, <2>1 DEF CallTypes
      <3>2. "clear" \in Inner /\ Kinds("clear") /\ pc' = [pc EXCEPT ![t] = "clear"] /\ mode = "open"
        BY <1>k, <1>s, <2>1 DEF Goto
      <3>3. sorted' \in BOOLEAN /\ overlap' \in [Threads -> BOOLEAN]
        BY <1>0, <2>1 DEF CallTypes
      <3>4. Single => \A u \in Threads : ~ overlap'[u]
        BY <1>0, <2>1 DEF Alone
      <3> QED BY <2>1, <3>1, <3>2, <3>3, <3>4 DEF Proceeds
    <2> QED BY <2>1, <2>2, CallProceeds DEF Goto
  <1>5. CASE bucket_get_object(t)
    <2>1. Fixed /\ (UNCHANGED overlap \/ Enter(t)) /\ pc[t] = "get"
      BY <1>5 DEF bucket_get_object, media, Goto
    <2>2. \E to \in {"take", "copy", "down"} : Goto(t, "get", to) /\ Kinds(to)
      <3>1. Goto(t, "get", "take") \/ \E o : Goto(t, "get", AfterAlloc(t, o))
        BY <1>5, Zenon DEF bucket_get_object
      <3> QED BY <1>a, <1>k, <2>1, <3>1
    <2>3. Fixed /\ (UNCHANGED overlap \/ Enter(t))
      BY <1>5 DEF bucket_get_object, media
    <2> HIDE DEF Fixed, Kinds, Inner
    <2> QED BY <1>g, <1>s, <2>2, <2>3
  <1>6. CASE bst_remove(t)
    <2> DEFINE to == IF new[t].size < hdr[new[t].uid].size THEN "split" ELSE "init"
    <2>1. Leave(t, "take", to, bucket) /\ pc[t] = "take"
      BY <1>6 DEF bst_remove, Leave, Goto
    <2>2. to \in Inner /\ Kinds(to)
      BY <1>k, <2>1 DEF Steps
    <2> HIDE DEF to, Kinds, Inner
    <2> QED BY <1>l, <2>1, <2>2
  <1>7. CASE persistent_init_bucket_obj(t)
    <2>1. Fixed /\ UNCHANGED overlap /\ pc[t] = "init" /\ (Goto(t, "init", "set") \/ Goto(t, "init", "put"))
      BY <1>7 DEF persistent_init_bucket_obj, media, pool, container, Goto
    <2>2. Kinds("set") /\ Kinds("put")
      BY <1>k, <2>1
    <2> HIDE DEF Fixed, Kinds, Inner
    <2> QED BY <1>g, <1>s, <2>1, <2>2
  <1>8. CASE write_chunk_header(t)
    <2>1. Fixed /\ UNCHANGED overlap /\ (Goto(t, "split", "magic") \/ Goto(t, "magic", "shrink"))
      BY <1>8 DEF write_chunk_header, pool, container
    <2>2. Kinds("magic") /\ Kinds("shrink")
      BY <1>k, <2>1 DEF Goto
    <2> HIDE DEF Fixed, Kinds, Inner
    <2> QED BY <1>g, <1>s, <2>1, <2>2
  <1>9. CASE set_chunk_size(t)
    <2>1. Fixed /\ UNCHANGED overlap /\ Goto(t, "shrink", "split_add")
      BY <1>9 DEF set_chunk_size, pool, container
    <2>2. Kinds("split_add")
      BY <1>k, <2>1 DEF Goto
    <2> HIDE DEF Fixed, Kinds, Inner
    <2> QED BY <1>g, <1>s, <2>1, <2>2
  <1>10. CASE bst_add(t)
    <2>b. ASSUME NEW from, NEW to, bst_add_begin(t, from, to)
          PROVE  Fixed /\ Enter(t) /\ Goto(t, from, to) /\ pc[t] = from
      BY <2>b DEF bst_add_begin, media, pool, container, Goto
    <2>e. ASSUME NEW from, NEW to, NEW k, bst_add_end(t, from, to, k)
          PROVE  Leave(t, from, to, bucket \cup {k}) /\ pc[t] = from
      BY <2>e DEF bst_add_end, Leave, Goto
    <2>1. CASE bst_add_begin(t, "split_add", "split_link") \/ bst_add_begin(t, "put", "put_link")
               \/ bst_add_begin(t, "free_add", "free_link")
      <3>1. PICK from \in {"split_add", "put", "free_add"}, to \in {"split_link", "put_link", "free_link"} :
              /\ bst_add_begin(t, from, to)
              /\ (from = "free_add") = (to = "free_link")
        BY <2>1
      <3>2. Fixed /\ Enter(t) /\ Goto(t, from, to) /\ pc[t] = from
        BY <2>b, <3>1
      <3>3. Kinds(to)
        BY <1>k, <3>1, <3>2
      <3>4. to \in Inner /\ from \notin {"idle", "lock", "guard", "flush"}
        BY <1>s
      <3> HIDE DEF Fixed, Kinds, Inner
      <3> QED BY <1>g, <3>2, <3>3, <3>4
    <2>2. CASE bst_add_end(t, "split_link", "init", Key(NewChunk(t)))
      <3>1. PICK k : bst_add_end(t, "split_link", "init", k)
        BY <2>2
      <3>2. Leave(t, "split_link", "init", bucket \cup {k}) /\ pc[t] = "split_link"
        BY <2>e, <3>1
      <3>3. Kinds("init") /\ "init" \in Inner
        BY <1>k, <1>s, <3>2
      <3> HIDE DEF Fixed, Kinds, Inner
      <3> QED BY <1>l, <3>2, <3>3
    <2>3. CASE bst_add_end(t, "put_link", AfterAlloc(t, new[t]), new[t])
      <3>1. PICK to : to = AfterAlloc(t, new[t])
        OBVIOUS
      <3>2. to \in {"copy", "down"} /\ Kinds(to)
        BY <1>a, <3>1
      <3>3. Leave(t, "put_link", to, bucket \cup {new[t]})
        BY <2>3, <3>1, <2>e
      <3>4. to \in Inner
        BY <1>s, <3>2
      <3> HIDE DEF Fixed, Kinds, Inner
      <3> QED BY <1>l, <3>2, <3>3, <3>4
    <2>4. CASE bst_add_end(t, "free_link", IF op[t].kind = "pfree" THEN "null" ELSE "down", obj[t])
      <3>1. PICK to : to = IF op[t].kind = "pfree" THEN "null" ELSE "down"
        OBVIOUS
      <3>2. Leave(t, "free_link", to, bucket \cup {obj[t]})
        BY <2>4, <3>1, <2>e
      <3>3. to \in {"null", "down"} /\ Kinds(to)
        BY <1>k, <3>1
      <3>4. to \in Inner
        BY <1>s, <3>3
      <3> HIDE DEF Fixed, Kinds, Inner
      <3> QED BY <1>l, <3>2, <3>3, <3>4
    <2> QED BY <1>10, <2>1, <2>2, <2>3, <2>4 DEF bst_add
  <1>11. CASE set_alloc_ptr(t)
    <2>1. Fixed /\ UNCHANGED overlap /\ (Goto(t, "set", "mark") \/ Goto(t, "null", "down"))
      BY <1>11 DEF set_alloc_ptr, pool, container
    <2>2. Goto(t, "set", "mark") => Kinds("mark")
      BY <1>k DEF Goto
    <2>3. Kinds("down")
      BY <1>k
    <2> HIDE DEF Fixed, Kinds, Inner
    <2> QED BY <1>g, <1>s, <2>1, <2>2, <2>3
  <1>12. CASE bucket_mark_allocated(t)
    <2>1. Fixed /\ UNCHANGED overlap /\ Goto(t, "mark", AfterAlloc(t, new[t]))
      BY <1>12 DEF bucket_mark_allocated, pool, container
    <2>2. \E to \in {"copy", "down"} : Goto(t, "mark", to) /\ Kinds(to)
      BY <1>a, <2>1
    <2> HIDE DEF Fixed, Kinds, Inner
    <2> QED BY <1>g, <1>s, <2>1, <2>2
  <1>13. CASE persistent_copy_content(t)
    <2>1. /\ UNCHANGED <<slot, pslot, rec, arenas, lock, arena_id, op, bounds, sorted, lost, overlap>>
          /\ pc[t] = "copy" /\ mode = "open"
          /\ (Goto(t, "copy", "free") /\ UNCHANGED mode) \/ (mode' = "wrecked" /\ UNCHANGED pc)
      BY <1>13 DEF persistent_copy_content, media, container
    <2>2. CASE Goto(t, "copy", "free") /\ UNCHANGED mode
      <3>1. Fixed /\ Kinds("free")
        BY <1>k, <2>1, <2>2
      <3> HIDE DEF Fixed, Kinds, Inner
      <3> QED BY <1>g, <1>s, <2>1, <2>2, <3>1
    <2>3. CASE mode' = "wrecked" /\ UNCHANGED pc
      <3>1. Proceeds(t)
        BY <1>0, <2>1, <2>3 DEF Proceeds, CallTypes, Alone
      <3> QED BY <2>1, <3>1, CallProceeds
    <2> QED BY <2>1, <2>2, <2>3
  <1>14. CASE pool_recycle_object(t)
    <2>1. /\ Fixed /\ UNCHANGED overlap /\ pc[t] = "free"
          /\ (Goto(t, "free", "free_add") \/ Goto(t, "free", "down"))
      BY <1>14 DEF pool_recycle_object, pool, container, Goto
    <2>2. Kinds("free_add") /\ Kinds("down")
      BY <1>k, <2>1
    <2> HIDE DEF Fixed, Kinds, Inner
    <2> QED BY <1>g, <1>s, <2>1, <2>2
  <1> QED BY <1>1, <1>2, <1>3, <1>4, <1>5, <1>6, <1>7, <1>8, <1>9, <1>10, <1>11, <1>12, <1>13, <1>14
          DEF Step

LEMMA CallCalls ==
  ASSUME CallInv, NEW t \in Threads, pmalloc(t) \/ pfree(t) \/ prealloc(t)
  PROVE  CallInv'
  <1>0. CallTypes /\ Alone /\ SlotFacts /\ ArenasUsed /\ OneCall
    BY DEF CallInv
  <1>1. PICK kind, p, size, o :
          /\ kind \in {"pmalloc", "pfree", "prealloc"} /\ p \in Ptrs /\ size \in Sizes \cup {0}
          /\ Call(t, kind, p, size, o) /\ (kind \in {"pmalloc", "prealloc"} => size \in Sizes)
    <2>1. CASE pmalloc(t)
      BY <2>1, Zenon DEF pmalloc
    <2>2. CASE pfree(t)
      <3>1. PICK p, o : p \in Ptrs /\ Call(t, "pfree", p, 0, o)
        BY <2>2, Zenon DEF pfree
      <3> QED BY <3>1
    <2>3. CASE prealloc(t)
      <3>1. PICK p, size, o : p \in Ptrs /\ size \in Sizes /\ Call(t, "prealloc", p, size, o)
        BY <2>3, Zenon DEF prealloc
      <3> QED BY <3>1
    <2> QED BY <2>1, <2>2, <2>3
  <1> DEFINE id == IF arena_id[t] # -1 THEN arena_id[t] ELSE Min(Arenas \ arenas)
             call == [kind |-> kind, p |-> p, size |-> size]
  <1>2. /\ kind \in Ops /\ nops < MaxOps /\ mode = "open" /\ pc[t] = "idle" /\ pc' = [pc EXCEPT ![t] = "lock"]
        /\ \A u \in Threads : op[u].p # p
        /\ arena_id' = [arena_id EXCEPT ![t] = id] /\ arenas' = arenas \cup {id}
        /\ op' = [op EXCEPT ![t] = call] /\ nops' = nops + 1
        /\ UNCHANGED <<slot, pslot, mode, rec, bucket, lost, sorted, lock, overlap, ncrash>>
    BY <1>1 DEF Call, Goto, pool_select_arena, media, container
  <1>3. id \in Arenas
    BY <1>0, ArenaLeft DEF CallTypes
  <1>4. /\ call \in [kind : Ops \cup {"idle"}, p : Ptrs \cup {NoPtr}, size : Sizes \cup {0}]
        /\ call.p = p /\ call.kind = kind /\ call.size = size
    BY <1>1, <1>2
  <1> HIDE DEF id, call
  <1>5. CallTypes'
    <2>1. nops' \in 0 .. MaxOps
      BY <1>0, <1>2, HeapBounds DEF CallTypes
    <2> QED BY <1>0, <1>2, <1>3, <1>4, <2>1 DEF CallTypes, Steps
  <1>6. ArenasUsed'
    <2>1. arena_id'[t] = id /\ \A u \in Threads \ {t} : arena_id'[u] = arena_id[u]
      BY <1>0, <1>2 DEF CallTypes
    <2>2. ASSUME NEW a \in arenas PROVE \E u \in Threads : arena_id'[u] = a
      <3>1. PICK u \in Threads : arena_id[u] = a
        BY <1>0 DEF ArenasUsed
      <3>2. CASE u # t
        BY <2>1, <3>1, <3>2
      <3>3. CASE u = t
        <4>1. a # -1
          BY <1>0 DEF CallTypes, Arenas
        <4> QED BY <2>1, <3>1, <3>3, <4>1 DEF id
      <3> QED BY <3>2, <3>3
    <2> QED BY <1>2, <2>1, <2>2 DEF ArenasUsed
  <1>7. OneCall'
    <2>1. op'[t].p = p /\ \A u \in Threads \ {t} : op'[u] = op[u]
      BY <1>0, <1>2, <1>4 DEF CallTypes
    <2> QED BY <1>0, <1>2, <2>1 DEF OneCall
  <1>8. Alone'
    <2> SUFFICES ASSUME Single
                 PROVE  /\ lost' = {} /\ sorted' /\ \A u \in Threads : ~ overlap'[u]
                        /\ pc'[t] = "lock"
      BY DEF Alone, Single
    <2> QED BY <1>0, <1>2 DEF Alone, CallTypes
  <1>9. Resting' /\ NoRecovery' /\ SlotFacts'
    BY <1>2 DEF CallInv, Resting, NoRecovery, SlotFacts, Offline
  <1>10. ASSUME NEW u \in Threads PROVE CallFacts(u)'
    <2>1. CASE u = t
      <3>1. pc'[u] = "lock" /\ op'[u] = call /\ arena_id'[u] = id
        BY <1>0, <1>2, <2>1 DEF CallTypes
      <3> QED BY <1>1, <1>2, <1>3, <1>4, <3>1 DEF CallFacts, Allocating
    <2>2. CASE u # t
      <3>1. UNCHANGED <<pc[u], op[u], arena_id[u]>>
        BY <1>0, <1>2, <2>2 DEF CallTypes
      <3> QED BY <3>1 DEF CallInv, CallFacts
    <2> QED BY <2>1, <2>2
  <1> QED BY <1>5, <1>6, <1>7, <1>8, <1>9, <1>10 DEF CallInv

LEMMA CallStep == CallInv /\ SlotInv /\ SlotInv' /\ [Next]_vars => CallInv'
  <1> SUFFICES ASSUME CallInv, SlotInv, SlotInv', [Next]_vars PROVE CallInv'
    OBVIOUS
  <1>1. CASE pool_open
    BY <1>1, CallOpening
  <1>2. CASE pool_close
    BY <1>2, CallClosing
  <1>3. CASE Crash
    BY <1>3, CallCrash
  <1>4. CASE \E t \in Threads : pmalloc(t) \/ pfree(t) \/ prealloc(t) \/ Step(t)
    BY <1>4, CallCalls, CallSteps
  <1>5. CASE UNCHANGED vars
    <2>1. UNCHANGED <<slot, pslot, mode, rec, bucket, lost, sorted, arenas, lock, arena_id, pc, op, overlap, nops, ncrash>>
      BY <1>5 DEF vars, media, pool, container, calls, bounds
    <2>2. CallTypes' /\ ArenasUsed' /\ OneCall' /\ \A t \in Threads : CallFacts(t)'
      BY <2>1 DEF CallInv, CallTypes, ArenasUsed, OneCall, CallFacts
    <2>3. Alone' /\ Resting' /\ NoRecovery' /\ SlotFacts'
      BY <2>1 DEF CallInv, Alone, Names, Resting, NoRecovery, SlotFacts, Offline, Pending, Marked, PMarked
    <2> QED BY <2>2, <2>3 DEF CallInv
  <1> QED BY <1>1, <1>2, <1>3, <1>4, <1>5 DEF Next

LEMMA CallAlways == Spec => [](SlotInv /\ CallInv)
  <1>1. Init => CallInv
    BY CallStart
  <1>2. Spec => []SlotInv
    BY SlotAlways
  <1>3. CallInv /\ SlotInv /\ SlotInv' /\ [Next]_vars => CallInv'
    BY CallStep
  <1> QED BY <1>1, <1>2, <1>3, PTL DEF Spec

-----------------------------------------------------------------------------
(* Who owns a chunk.                                                       *)

\* What the theorems ask of the calls.  A request for up to one chunk is one
\* for no chunks; a prealloc that finds only a chunk larger than the object and
\* smaller than the request recycles the object; and a slot that a call of
\* another thread has cleared, or that prealloc left, makes recovery undo what
\* was done.  Each is a disagreement of the code with itself, see the README.
SoundUse ==
  /\ \A s \in Sizes : s > ChunkSize
  /\ "prealloc" \in Ops => \A r, s \in Sizes : bucket_calc_units(r) = bucket_calc_units(s)
  /\ MaxCrash = 0 \/ (Single /\ "prealloc" \notin Ops)

Zone == Tiles \ {NChunk}

\* A call is giving its pointer a chunk, or taking it from the pointer.
Loosens(t) == pc[t] = "mark" \/ (op[t].kind = "pfree" /\ pc[t] \in {"free_add", "free_link", "null"})
Loose(p) == \E t \in Threads : op[t].p = p /\ Loosens(t)

\* The chunks that a pointer, a call and the container own.
OwnedBy(p) == IF ptr[p] # Null /\ ~ Loose(p) THEN {ptr[p]} ELSE {}
Taken(t) == IF pc[t] \in Allocating \ {"get"} THEN {new[t].uid} ELSE {}
Rest(t)  == IF pc[t] \in {"split_add", "split_link"} THEN {NewChunk(t)} ELSE {}
Freed(t) == IF pc[t] \in {"free_add", "free_link"} THEN {obj[t].uid} ELSE {}
Old(t) ==   \* the object that prealloc has moved
  IF op[t].kind = "prealloc" /\ pc[t] \in {"mark", "copy", "free"} /\ ptr[op[t].p] # obj[t].uid
  THEN {obj[t].uid} ELSE {}
HeldBy(t) == Taken(t) \cup Rest(t) \cup Freed(t) \cup Old(t)
Free == {k.uid : k \in bucket \cup lost}

Parts(Z, F, H, O) ==
  /\ \A c \in Z : c \in F \/ (\E t \in Threads : c \in H[t]) \/ (\E p \in Ptrs : c \in O[p])
  /\ \A c \in F : c \in Z
  /\ \A t \in Threads : \A c \in H[t] : c \in Z /\ c \notin F
  /\ \A t, u \in Threads : t # u => \A c \in H[t] : c \notin H[u]
  /\ \A p \in Ptrs : \A c \in O[p] : c \in Z /\ c \notin F
  /\ \A p, q \in Ptrs : p # q => \A c \in O[p] : c \notin O[q]
  /\ \A t \in Threads, p \in Ptrs : \A c \in H[t] : c \notin O[p]

\* A step moves chunks between a call, its pointer and the container, or adds some.
MovesParts(Z, F, H, O, Z2, F2, H2, O2, N, t, p) ==
  /\ Parts(Z, F, H, O)
  /\ \A u \in Threads \ {t} : H2[u] = H[u]
  /\ \A q \in Ptrs \ {p} : O2[q] = O[q]
  /\ Z2 = Z \cup N /\ N \cap Z = {} /\ F2 \cup H2[t] \cup O2[p] = F \cup H[t] \cup O[p] \cup N
  /\ H2[t] \cap F2 = {} /\ O2[p] \cap F2 = {} /\ H2[t] \cap O2[p] = {}
LEMMA PartsMove ==
  ASSUME NEW Z, NEW F, NEW H, NEW O, NEW Z2, NEW F2, NEW H2, NEW O2, NEW N,
         NEW t \in Threads, NEW p \in Ptrs, MovesParts(Z, F, H, O, Z2, F2, H2, O2, N, t, p)
  PROVE  Parts(Z2, F2, H2, O2)
  <1> USE DEF MovesParts
  <1> DEFINE W == F \cup H[t] \cup O[p] \cup N
  <1>0. \A c : c \in W <=> c \in F \/ c \in H[t] \/ c \in O[p] \/ c \in N
    OBVIOUS
  <1>1. \A c : c \in F2 \/ c \in H2[t] \/ c \in O2[p] <=> c \in W
    OBVIOUS
  <1>2. \A u \in Threads \ {t} : \A c \in H[u] : c \in Z /\ c \notin W
    BY DEF Parts
  <1>3. \A q \in Ptrs \ {p} : \A c \in O[q] : c \in Z /\ c \notin W
    BY DEF Parts
  <1>4. \A c \in W : c \in Z2
    BY DEF Parts
  <1> HIDE DEF W
  <1>5. \A c \in Z2 : c \in F2 \/ (\E u \in Threads : c \in H2[u]) \/ (\E q \in Ptrs : c \in O2[q])
    <2> SUFFICES ASSUME NEW c \in Z2, c \notin W
                 PROVE  (\E u \in Threads : c \in H2[u]) \/ (\E q \in Ptrs : c \in O2[q])
      BY <1>1
    <2>1. c \in Z /\ c \notin F /\ c \notin H[t] /\ c \notin O[p]
      BY <1>0
    <2>2. CASE \E u \in Threads : c \in H[u]
      BY <2>1, <2>2
    <2>3. CASE \E q \in Ptrs : c \in O[q]
      BY <2>1, <2>3
    <2> QED BY <2>1, <2>2, <2>3 DEF Parts
  <1>6. /\ \A c \in F2 : c \in Z2
        /\ \A u \in Threads : \A c \in H2[u] : c \in Z2 /\ c \notin F2
        /\ \A q \in Ptrs : \A c \in O2[q] : c \in Z2 /\ c \notin F2
    BY <1>1, <1>2, <1>3, <1>4
  <1>7. \A u, v \in Threads : u # v => \A c \in H2[u] : c \notin H2[v]
    BY <1>1, <1>2 DEF Parts
  <1>8. \A q, r \in Ptrs : q # r => \A c \in O2[q] : c \notin O2[r]
    BY <1>1, <1>3 DEF Parts
  <1>9. \A u \in Threads, q \in Ptrs : \A c \in H2[u] : c \notin O2[q]
    BY <1>1, <1>2, <1>3 DEF Parts
  <1> QED BY <1>5, <1>6, <1>7, <1>8, <1>9 DEF Parts

\* The flags follow if they do for the chunks that move.
Flagged(Z, O, L, V) ==
  \A c \in Z : c \in V <=> (\E q \in Ptrs : c \in O[q]) \/ (\E u \in Threads : c \in L[u])
MovesFlags(Z, F, H, O, L, V, Z2, F2, H2, O2, L2, V2, N, t, p) ==
  /\ Parts(Z, F, H, O) /\ Parts(Z2, F2, H2, O2)
  /\ \A u \in Threads \ {t} : L2[u] = L[u]
  /\ \A q \in Ptrs \ {p} : O2[q] = O[q]
  /\ \A u \in Threads : L[u] \subseteq H[u] /\ L2[u] \subseteq H2[u]
  /\ Z2 = Z \cup N /\ F2 \cup H2[t] \cup O2[p] = F \cup H[t] \cup O[p] \cup N
  /\ Flagged(Z, O, L, V)
  /\ \A c \in Z2 : IF c \in F \cup H[t] \cup O[p] \cup N THEN c \in V2 <=> c \in O2[p] \cup L2[t]
                    ELSE c \in V2 <=> c \in V
LEMMA FlagsMove ==
  ASSUME NEW Z, NEW F, NEW H, NEW O, NEW L, NEW V, NEW Z2, NEW F2, NEW H2, NEW O2, NEW L2, NEW V2, NEW N,
         NEW t \in Threads, NEW p \in Ptrs, MovesFlags(Z, F, H, O, L, V, Z2, F2, H2, O2, L2, V2, N, t, p)
  PROVE  Flagged(Z2, O2, L2, V2)
  <1> USE DEF MovesFlags, Flagged
  <1> SUFFICES \A c \in Z2 : c \in V2 <=> (\E q \in Ptrs : c \in O2[q]) \/ (\E u \in Threads : c \in L2[u])
    OBVIOUS
  <1> TAKE c \in Z2
  <1>1. c \in F \cup H[t] \cup O[p] \cup N <=> c \in F2 \/ c \in H2[t] \/ c \in O2[p]
    OBVIOUS
  <1>2. CASE c \in F \cup H[t] \cup O[p] \cup N
    <2>1. c \in V2 <=> c \in O2[p] \cup L2[t]
      BY <1>2
    <2>2. \A q \in Ptrs \ {p} : c \notin O2[q]
      BY <1>1, <1>2 DEF Parts
    <2>3. \A u \in Threads \ {t} : c \notin L2[u]
      BY <1>1, <1>2 DEF Parts
    <2> QED BY <2>1, <2>2, <2>3
  <1>3. CASE c \notin F \cup H[t] \cup O[p] \cup N
    <2>1. c \in V2 <=> c \in V
      BY <1>3
    <2>2. c \in Z /\ c \notin O[p] /\ c \notin L[t] /\ c \notin O2[p] /\ c \notin L2[t]
      BY <1>1, <1>3
    <2> QED BY <2>1, <2>2
  <1> QED BY <1>2, <1>3

Held   == [t \in Threads |-> HeldBy(t)]
Moved  == [t \in Threads |-> Old(t)]
Owners == [p \in Ptrs |-> OwnedBy(p)]
Used   == {c \in Zone : hdr[c].used}

Partition == Parts(Zone, Free, Held, Owners)
Flags ==
  /\ Flagged(Zone, Owners, Moved, Used)
  /\ "prealloc" \in Ops => \A c \in Used : \A s \in Sizes : hdr[c].size >= bucket_calc_units(s)

IsKey(k) == k.uid \in Zone /\ k = Key(k.uid)
Keys == (\A k \in bucket \cup lost : IsKey(k)) /\ bucket \cap lost = {}

\* What a call knows at each of its steps, of its pointer, of the object it
\* frees or moves, and of the chunk it allocates.
Late == {"null", "down", "clear", "flush"}
PtrFacts(t) ==
  /\ op[t].kind = "pmalloc" /\ pc[t] \notin Late \cup {"mark"} => ptr[op[t].p] = Null
  /\ op[t].kind = "pfree" /\ pc[t] \notin {"down", "clear", "flush"} => ptr[op[t].p] = obj[t].uid
  /\ op[t].kind = "prealloc" /\ pc[t] \in {"lock", "guard"} \cup (Allocating \ {"mark"}) => ptr[op[t].p] = obj[t].uid
  /\ pc[t] = "mark" => ptr[op[t].p] = new[t].uid
  /\ op[t].kind = "prealloc" /\ pc[t] \in {"mark", "copy", "free"} =>
       \/ ptr[op[t].p] = new[t].uid /\ new[t].uid # obj[t].uid /\ new[t].uid # Null
       \/ pc[t] = "copy" /\ ptr[op[t].p] = obj[t].uid /\ (new[t].uid = Null \/ new[t].size < obj[t].size)
ObjFacts(t) ==
  op[t].kind \in {"pfree", "prealloc"} /\ pc[t] \notin Late => IsKey(obj[t])
NewFacts(t) ==
  /\ pc[t] \in {"take", "split", "magic", "shrink"} => new[t].size = bucket_calc_units(op[t].size)
  /\ pc[t] \in {"split", "magic", "shrink"} => new[t].size < hdr[new[t].uid].size
  /\ pc[t] \in {"magic", "shrink"} =>
       hdr[NewChunk(t)].size = hdr[new[t].uid].size - new[t].size /\ ~ hdr[NewChunk(t)].used
  /\ pc[t] = "shrink" => hdr[NewChunk(t)].magic
  /\ pc[t] \in {"split_add", "split_link", "put", "put_link", "set", "mark"} => new[t] = Key(new[t].uid)
  /\ pc[t] \in {"put", "put_link"} => new[t].size < bucket_calc_units(op[t].size)
  /\ pc[t] \in {"set", "mark"} => new[t].size >= bucket_calc_units(op[t].size)
NullFact(t) == Single /\ pc[t] = "null" => obj[t].uid \in Free

Live ==
  /\ hdr[0].magic /\ Partition /\ Flags /\ Keys
  /\ \A t \in Threads : PtrFacts(t) /\ ObjFacts(t) /\ NewFacts(t) /\ NullFact(t)

HeapTypes ==
  /\ hdr \in HdrType
  /\ ptr \in [Ptrs -> Chunks \cup {Null}]
  /\ bucket \subseteq Object /\ lost \subseteq Object
  /\ obj \in [Threads -> Object] /\ new \in [Threads -> [uid : Chunks \cup {Null}, size : Nat]]
SlotsTyped ==
  /\ slot \in [Arenas -> [type : SlotTypes, dest : Ptrs \cup {NoPtr}, old : Chunks \cup {Null}]]
  /\ pslot \in [Arenas -> [type : SlotTypes, dest : Ptrs \cup {NoPtr}, old : Chunks \cup {Null}]]

\* Between a power failure, or the closing of the pool, and its next opening an
\* info slot names the pointer whose chunk is in doubt.
Doubt(p) == \E a \in Arenas :
  slot[a].type # "unknown" /\ slot[a].dest = p /\ (mode \in {"wipe", "wiped"} => a # rec)
Unused == ~ hdr[0].magic => \A p \in Ptrs : ptr[p] = Null
Stored ==
  /\ \A p \in Ptrs : ptr[p] # Null => ptr[p] \in Zone /\ (Doubt(p) \/ hdr[ptr[p]].used)
  /\ \A p, q \in Ptrs : p # q /\ ptr[p] # Null => ptr[p] # ptr[q]
  /\ hdr[0].magic => \A c \in Used : \E p \in Ptrs : ptr[p] = c
  /\ hdr[0].magic /\ "prealloc" \in Ops => \A c \in Used : \A s \in Sizes : hdr[c].size >= bucket_calc_units(s)
  /\ mode = "unlink" => /\ slot[rec].type = "alloc" /\ slot[rec].dest \in Ptrs
                        /\ ptr[slot[rec].dest] # Null /\ ~ hdr[ptr[slot[rec].dest]].used
  /\ mode = "format" => ~ hdr[0].magic /\ hdr[0].size = NChunk /\ ~ hdr[0].used

HeapInv ==
  /\ HeapTypes /\ SlotsTyped /\ check_zone /\ Unused
  /\ Online => Live
  /\ Offline => Stored
  /\ mode = "wrecked" => Owned

LEMMA UnitsPositive ==
  ASSUME NEW s \in Sizes, s > ChunkSize
  PROVE  bucket_calc_units(s) \in Nat \ {0}
  <1> DEFINE x == s - 1
             d == x \div ChunkSize
  <1>1. x \in Nat /\ ChunkSize \in Nat \ {0} /\ ChunkSize <= x
    BY HeapAssumption
  <1> HIDE DEF x
  <1>2. d \in Nat /\ d >= 1
    BY <1>1, Z3
  <1> QED BY <1>2 DEF bucket_calc_units, x

LEMMA LooseIff == CallInv => \A t \in Threads : op[t].p \in Ptrs => (Loose(op[t].p) <=> Loosens(t))
  <1> SUFFICES ASSUME CallInv, NEW t \in Threads, op[t].p \in Ptrs
               PROVE  Loose(op[t].p) <=> Loosens(t)
    OBVIOUS
  <1>1. \A u \in Threads : op[u].p = op[t].p => u = t
    BY HeapAssumption DEF CallInv, OneCall
  <1> QED BY <1>1 DEF Loose

LEMMA ZoneFacts ==
  (HeapTypes /\ check_zone /\ hdr[0].magic) =>
     /\ Sound(hdr) /\ Zone \subseteq Chunks /\ Zone = TilesOf(hdr) \ {NChunk} /\ 0 \in Zone
     /\ \A c \in Zone : hdr[c].magic /\ hdr[c].size \in 1 .. NChunk
  <1> SUFFICES ASSUME HeapTypes, check_zone, hdr[0].magic
               PROVE  /\ Sound(hdr) /\ Zone \subseteq Chunks /\ Zone = TilesOf(hdr) \ {NChunk} /\ 0 \in Zone
                      /\ \A c \in Zone : hdr[c].magic /\ hdr[c].size \in 1 .. NChunk
    OBVIOUS
  <1>1. Sound(hdr) /\ \A c \in Zone : hdr[c].magic
    BY DEF check_zone, Sound, Tiles, Zone
  <1>2. hdr \in HdrType
    BY DEF HeapTypes
  <1>3. Zone \subseteq Chunks /\ Zone = TilesOf(hdr) \ {NChunk} /\ 0 \in Zone
    BY <1>2, TilesBasic, HeapAssumption DEF Zone, Tiles
  <1>4. \A c \in Zone : hdr[c].size \in 1 .. NChunk
    BY <1>1, <1>2, <1>3, TilesEnd
  <1> QED BY <1>1, <1>3, <1>4

\* The rest that a split cuts off is no tile yet, and inside the chunk that is split.
Splitting == {"split", "magic", "shrink"}
LEMMA SplitFacts ==
  ASSUME SoundUse, CallInv, HeapTypes, check_zone, Live, NEW t \in Threads, pc[t] \in Splitting
  PROVE  /\ new[t].uid \in Zone /\ new[t].size \in Nat \ {0} /\ new[t].size < hdr[new[t].uid].size
         /\ NewChunk(t) \in Chunks /\ NewChunk(t) \notin Tiles /\ NewChunk(t) = new[t].uid + new[t].size
         /\ new[t].uid < NewChunk(t) /\ NewChunk(t) < new[t].uid + hdr[new[t].uid].size
         /\ new[t].uid + hdr[new[t].uid].size <= NChunk
  <1>1. new[t].uid \in Zone
    <2>1. new[t].uid \in Held[t]
      BY DEF Held, HeldBy, Taken, Splitting, Allocating
    <2> QED BY <2>1 DEF Live, Partition, Parts
  <1>2. new[t].size \in Nat \ {0}
    <2>1. op[t].size \in Sizes
      BY DEF CallInv, CallFacts, Splitting, Allocating
    <2>2. new[t].size = bucket_calc_units(op[t].size)
      BY DEF Live, NewFacts, Splitting
    <2> QED BY <2>1, <2>2, UnitsPositive DEF SoundUse
  <1>3. new[t].size < hdr[new[t].uid].size
    BY DEF Live, NewFacts, Splitting
  <1>4. Sound(hdr) /\ hdr \in HdrType /\ Zone = TilesOf(hdr) \ {NChunk}
    BY ZoneFacts DEF Live, HeapTypes
  <1>5. PICK u, k : u = new[t].uid /\ k = new[t].size
    OBVIOUS
  <1>6. /\ u \in Chunks /\ hdr[u].size \in 1 .. NChunk /\ u + hdr[u].size \in 0 .. NChunk
        /\ \A m \in Nat : u < m /\ m < u + hdr[u].size => m \in Chunks /\ m \notin TilesOf(hdr)
    BY <1>1, <1>4, <1>5, TilesEnd
  <1>7. u + k \in Nat /\ u < u + k /\ u + k < u + hdr[u].size /\ u + hdr[u].size <= NChunk
    BY <1>2, <1>3, <1>5, <1>6, HeapAssumption DEF Chunks
  <1>8. u + k \in Chunks /\ u + k \notin TilesOf(hdr)
    BY <1>6, <1>7
  <1> QED BY <1>1, <1>2, <1>3, <1>5, <1>7, <1>8 DEF NewChunk, Tiles

\* Two calls split different chunks.
LEMMA SplitApart ==
  ASSUME SoundUse, CallInv, HeapTypes, check_zone, Live,
         NEW t \in Threads, pc[t] \in Splitting, NEW u \in Threads, pc[u] \in Splitting, t # u
  PROVE  NewChunk(t) # NewChunk(u)
  <1>1. new[t].uid # new[u].uid
    <2>1. new[t].uid \in Held[t] /\ new[u].uid \in Held[u]
      BY DEF Held, HeldBy, Taken, Splitting, Allocating
    <2> QED BY <2>1 DEF Live, Partition, Parts
  <1>2. Sound(hdr) /\ hdr \in HdrType /\ Zone = TilesOf(hdr) \ {NChunk} /\ Zone \subseteq Chunks
    BY ZoneFacts DEF Live, HeapTypes
  <1>3. PICK i, j, m, n, x, y : /\ i = new[t].uid /\ j = new[u].uid /\ m = NewChunk(t) /\ n = NewChunk(u)
                                /\ x = hdr[i].size /\ y = hdr[j].size
    OBVIOUS
  <1>4. /\ i \in Zone /\ i < m /\ m < i + x /\ j \in Zone /\ j < n /\ n < j + y /\ m \in Chunks /\ n \in Chunks
    BY <1>3, SplitFacts
  <1>5. (i < j => i + x <= j) /\ (j < i => j + y <= i)
    BY <1>2, <1>3, <1>4, TilesApart DEF Sound
  <1>6. i \in Int /\ j \in Int /\ m \in Int /\ n \in Int /\ x \in Int /\ y \in Int /\ i # j
    BY <1>1, <1>2, <1>3, <1>4 DEF Chunks, HdrType
  <1>7. m # n
    BY ONLY <1>4, <1>5, <1>6
  <1> QED BY <1>3, <1>7

\* The object of a call is its pointer's, or the call's own.
LEMMA ObjOwned ==
  ASSUME CallInv, HeapTypes, Live, NEW t \in Threads, op[t].kind \in {"pfree", "prealloc"}, pc[t] \notin Late
  PROVE  obj[t].uid \in HeldBy(t) \/ obj[t].uid \in OwnedBy(op[t].p)
  <1>1. CallFacts(t) /\ PtrFacts(t)
    BY DEF CallInv, Live
  <1>2. pc[t] # "idle" /\ op[t].p \in Ptrs
    BY <1>1 DEF CallFacts, Idle
  <1>3. Loose(op[t].p) <=> Loosens(t)
    BY <1>2, LooseIff
  <1>4. obj[t].uid # Null
    BY DEF HeapTypes, Object, Chunks, Null
  <1>5. CASE pc[t] \in {"free_add", "free_link"}
    BY <1>5 DEF HeldBy, Freed
  <1>6. CASE pc[t] \notin {"free_add", "free_link"} /\ ptr[op[t].p] = obj[t].uid /\ pc[t] # "mark"
    <2>1. ~ Loosens(t)
      BY <1>6 DEF Loosens, Late
    <2> QED BY <1>3, <1>4, <1>6, <2>1 DEF OwnedBy
  <1>7. CASE op[t].kind = "prealloc" /\ pc[t] \in {"mark", "copy", "free"} /\ ptr[op[t].p] # obj[t].uid
    BY <1>7 DEF HeldBy, Old
  <1>8. pc[t] \in {"lock", "guard"} \cup Allocating \cup {"copy", "free", "free_add", "free_link"}
    BY <1>2 DEF CallInv, CallTypes, Steps, Late, Allocating
  <1>9. CASE op[t].kind = "pfree"
    <2>1. pc[t] \notin Allocating /\ pc[t] # "mark"
      BY <1>1, <1>9 DEF CallFacts, Allocating
    <2>2. ptr[op[t].p] = obj[t].uid
      BY <1>1, <1>9 DEF PtrFacts, Late
    <2> QED BY <1>5, <1>6, <2>1, <2>2
  <1>10. CASE op[t].kind = "prealloc"
    <2>1. CASE pc[t] \in {"mark", "copy", "free"}
      BY <1>1, <1>6, <1>7, <1>10, <2>1 DEF PtrFacts
    <2>2. CASE pc[t] \in {"lock", "guard"} \cup (Allocating \ {"mark"})
      <3>1. ptr[op[t].p] = obj[t].uid
        BY <1>1, <1>10, <2>2 DEF PtrFacts
      <3>2. pc[t] \notin {"free_add", "free_link"} /\ pc[t] # "mark"
        BY <2>2 DEF Allocating
      <3> QED BY <1>6, <3>1, <3>2
    <2> QED BY <1>5, <1>8, <2>1, <2>2
  <1> QED BY <1>9, <1>10

\* A step of a call leaves the other calls and their pointers alone ...
Works(t, p) ==
  /\ op[t].p \in {p, NoPtr} /\ op'[t].p \in {p, NoPtr}
  /\ \A u \in Threads \ {t} : UNCHANGED <<pc[u], op[u], obj[u], new[u]>> /\ op[u].p # p
  /\ \A q \in Ptrs \ {p} : ptr'[q] = ptr[q]
\* ... and writes no header but those of its own chunks.
Mine(t, p) == HeldBy(t) \cup OwnedBy(p) \cup (IF pc[t] \in Splitting THEN {NewChunk(t)} ELSE {})

LEMMA OthersKeep ==
  ASSUME CallInv, NEW t \in Threads, NEW p \in Ptrs, Works(t, p)
  PROVE  /\ \A u \in Threads \ {t} : HeldBy(u)' = HeldBy(u) /\ Old(u)' = Old(u)
         /\ \A q \in Ptrs \ {p} : OwnedBy(q)' = OwnedBy(q)
  <1>1. ASSUME NEW u \in Threads \ {t} PROVE HeldBy(u)' = HeldBy(u) /\ Old(u)' = Old(u)
    <2>1. UNCHANGED <<pc[u], op[u], obj[u], new[u]>> /\ op[u].p # p
      BY DEF Works
    <2>2. Old(u)' = Old(u)
      <3>1. CASE pc[u] = "idle"
        BY <2>1, <3>1 DEF Old
      <3>2. CASE pc[u] # "idle"
        <4>1. op[u].p \in Ptrs \ {p}
          BY <2>1, <3>2 DEF CallInv, CallFacts
        <4>2. ptr'[op'[u].p] = ptr[op[u].p]
          BY <2>1, <4>1 DEF Works
        <4> QED BY <2>1, <4>2 DEF Old
      <3> QED BY <3>1, <3>2
    <2>3. Taken(u)' = Taken(u) /\ Rest(u)' = Rest(u) /\ Freed(u)' = Freed(u)
      BY <2>1 DEF Taken, Rest, Freed, NewChunk
    <2> QED BY <2>2, <2>3 DEF HeldBy
  <1>2. ASSUME NEW q \in Ptrs \ {p} PROVE OwnedBy(q)' = OwnedBy(q)
    <2>1. op[t].p # q /\ op'[t].p # q
      BY HeapAssumption DEF Works
    <2>2. \A u \in Threads \ {t} : op'[u] = op[u] /\ (Loosens(u)' <=> Loosens(u))
      BY DEF Works, Loosens
    <2>3. Loose(q)' <=> Loose(q)
      BY <2>1, <2>2 DEF Loose
    <2>4. ptr'[q] = ptr[q]
      BY DEF Works
    <2> QED BY <2>3, <2>4 DEF OwnedBy
  <1> QED BY <1>1, <1>2

LEMMA LiveStep ==
  ASSUME SoundUse, CallInv, HeapTypes, check_zone, Live, NEW t \in Threads, NEW p \in Ptrs, Works(t, p), NEW N,
         HeapTypes', hdr'[0].magic, Zone' = Zone \cup N, N \cap Zone = {},
         Free' \cup HeldBy(t)' \cup OwnedBy(p)' = Free \cup HeldBy(t) \cup OwnedBy(p) \cup N,
         HeldBy(t)' \cap Free' = {}, OwnedBy(p)' \cap Free' = {}, HeldBy(t)' \cap OwnedBy(p)' = {},
         \A c \in Chunks : c \notin Mine(t, p) => hdr'[c] = hdr[c],
         \A c \in Free \cup HeldBy(t) \cup OwnedBy(p) \cup N : hdr'[c].used <=> c \in OwnedBy(p)' \cup Old(t)',
         "prealloc" \in Ops => \A c \in OwnedBy(p)' \cup Old(t)' : \A s \in Sizes : hdr'[c].size >= bucket_calc_units(s),
         \A k \in bucket' \cup lost' : k \in bucket \cup lost \/ IsKey(k)',
         bucket' \cap lost' = {},
         PtrFacts(t)', ObjFacts(t)', NewFacts(t)', NullFact(t)'
  PROVE  Live'
  <1>1. /\ \A u \in Threads \ {t} : HeldBy(u)' = HeldBy(u) /\ Old(u)' = Old(u)
        /\ \A q \in Ptrs \ {p} : OwnedBy(q)' = OwnedBy(q)
    BY OthersKeep
  <1>2. /\ \A u \in Threads : Held[u] = HeldBy(u) /\ Moved[u] = Old(u) /\ Held'[u] = HeldBy(u)' /\ Moved'[u] = Old(u)'
        /\ \A q \in Ptrs : Owners[q] = OwnedBy(q) /\ Owners'[q] = OwnedBy(q)'
    BY DEF Held, Moved, Owners
  <1>3. Partition'
    <2>1. Parts(Zone, Free, Held, Owners)
      BY DEF Live, Partition
    <2>2. /\ \A u \in Threads \ {t} : Held'[u] = Held[u]
      BY <1>1, <1>2
    <2>3. \A q \in Ptrs \ {p} : Owners'[q] = Owners[q]
      BY <1>1, <1>2
    <2>4. Free' \cup Held'[t] \cup Owners'[p] = Free \cup Held[t] \cup Owners[p] \cup N
      BY <1>2
    <2>5. Held'[t] \cap Free' = {} /\ Owners'[p] \cap Free' = {} /\ Held'[t] \cap Owners'[p] = {}
      BY <1>2
    <2>6. PICK Z, F, H, O, Z2, F2, H2, O2 :
            /\ Z = Zone /\ F = Free /\ H = Held /\ O = Owners
            /\ Z2 = Zone' /\ F2 = Free' /\ H2 = Held' /\ O2 = Owners'
      OBVIOUS
    <2>7. Parts(Z2, F2, H2, O2)
      <3>1. Parts(Z, F, H, O) /\ Z2 = Z \cup N /\ N \cap Z = {}
        BY <2>1, <2>6
      <3>2. (\A u \in Threads \ {t} : H2[u] = H[u]) /\ (\A q \in Ptrs \ {p} : O2[q] = O[q])
        BY <2>2, <2>3, <2>6
      <3>3. F2 \cup H2[t] \cup O2[p] = F \cup H[t] \cup O[p] \cup N
        BY <2>4, <2>6
      <3>4. H2[t] \cap F2 = {} /\ O2[p] \cap F2 = {} /\ H2[t] \cap O2[p] = {}
        BY <2>5, <2>6
      <3>5. MovesParts(Z, F, H, O, Z2, F2, H2, O2, N, t, p)
        BY ONLY <3>1, <3>2, <3>3, <3>4 DEF MovesParts
      <3> QED BY ONLY t \in Threads, p \in Ptrs, <3>5, PartsMove
    <2> QED BY <2>6, <2>7 DEF Partition
  <1>4. \A c \in Zone : c \in Chunks
    BY ZoneFacts DEF Live
  <1>5. \A c \in Zone : c \notin HeldBy(t) \cup OwnedBy(p) => c \notin Mine(t, p)
    BY SplitFacts DEF Mine, Zone
  <1>6. \A c \in Zone : c \notin HeldBy(t) \cup OwnedBy(p) => hdr'[c] = hdr[c]
    BY <1>4, <1>5
  <1>7. \A c \in Free : c \in Zone /\ c \notin HeldBy(t) /\ c \notin OwnedBy(p)
    BY <1>2 DEF Live, Partition, Parts
  <1>8. Flags'
    <2>1. ASSUME NEW c \in Zone' PROVE
            IF c \in Free \cup Held[t] \cup Owners[p] \cup N THEN c \in Used' <=> c \in Owners'[p] \cup Moved'[t]
            ELSE c \in Used' <=> c \in Used
      <3>1. c \in Used' <=> hdr'[c].used
        BY DEF Used
      <3>2. CASE c \in Free \cup HeldBy(t) \cup OwnedBy(p) \cup N
        BY <1>2, <3>1, <3>2
      <3>3. CASE c \notin Free \cup HeldBy(t) \cup OwnedBy(p) \cup N
        <4>1. c \in Zone /\ hdr'[c] = hdr[c]
          BY <1>6, <3>3
        <4> QED BY <1>2, <3>1, <3>3, <4>1 DEF Used
      <3> QED BY <3>2, <3>3
    <2>2. \A u \in Threads : Moved[u] \subseteq Held[u] /\ Moved'[u] \subseteq Held'[u]
      BY <1>2 DEF HeldBy
    <2>3. /\ \A u \in Threads \ {t} : Moved'[u] = Moved[u]
          /\ \A q \in Ptrs \ {p} : Owners'[q] = Owners[q]
          /\ Free' \cup Held'[t] \cup Owners'[p] = Free \cup Held[t] \cup Owners[p] \cup N
      BY <1>1, <1>2
    <2>4. Flagged(Zone, Owners, Moved, Used)
      BY DEF Live, Flags
    <2>5. PICK Z, F, H, O, L, V, Z2, F2, H2, O2, L2, V2 :
            /\ Z = Zone /\ F = Free /\ H = Held /\ O = Owners /\ L = Moved /\ V = Used
            /\ Z2 = Zone' /\ F2 = Free' /\ H2 = Held' /\ O2 = Owners' /\ L2 = Moved' /\ V2 = Used'
      OBVIOUS
    <2>6. Flagged(Z2, O2, L2, V2)
      <3>1. Parts(Z, F, H, O) /\ Parts(Z2, F2, H2, O2)
        BY <1>3, <2>5 DEF Live, Partition
      <3>2. \A c \in Z2 : IF c \in F \cup H[t] \cup O[p] \cup N THEN c \in V2 <=> c \in O2[p] \cup L2[t]
                          ELSE c \in V2 <=> c \in V
        BY ONLY <2>1, <2>5
      <3>3. \A u \in Threads : L[u] \subseteq H[u] /\ L2[u] \subseteq H2[u]
        BY ONLY <2>2, <2>5
      <3>4. (\A u \in Threads \ {t} : L2[u] = L[u]) /\ (\A q \in Ptrs \ {p} : O2[q] = O[q])
        BY ONLY <2>3, <2>5
      <3>5. Z2 = Z \cup N
        BY <2>5
      <3>6. F2 \cup H2[t] \cup O2[p] = F \cup H[t] \cup O[p] \cup N
        BY ONLY <2>3, <2>5
      <3>7. Flagged(Z, O, L, V)
        BY ONLY <2>4, <2>5
      <3>8. MovesFlags(Z, F, H, O, L, V, Z2, F2, H2, O2, L2, V2, N, t, p)
        BY ONLY <3>1, <3>2, <3>3, <3>4, <3>5, <3>6, <3>7 DEF MovesFlags
      <3> QED BY ONLY t \in Threads, p \in Ptrs, <3>8, FlagsMove
    <2>7. Flagged(Zone, Owners, Moved, Used)'
      BY <2>5, <2>6
    <2>8. ASSUME "prealloc" \in Ops, NEW c \in Used', NEW s \in Sizes PROVE hdr'[c].size >= bucket_calc_units(s)
      <3>1. c \in Zone' /\ hdr'[c].used
        BY DEF Used
      <3>2. CASE c \in Free \cup HeldBy(t) \cup OwnedBy(p) \cup N
        BY <2>8, <3>1, <3>2
      <3>3. CASE c \notin Free \cup HeldBy(t) \cup OwnedBy(p) \cup N
        <4>1. c \in Zone /\ hdr'[c] = hdr[c]
          BY <1>6, <3>1, <3>3
        <4>2. c \in Used
          BY <3>1, <4>1 DEF Used
        <4> QED BY <2>8, <4>1, <4>2 DEF Live, Flags
      <3> QED BY <3>2, <3>3
    <2> QED BY <2>7, <2>8 DEF Flags
  <1>9. Keys'
    <2> SUFFICES ASSUME NEW k \in bucket \cup lost PROVE IsKey(k)'
      BY DEF Keys
    <2>1. k.uid \in Zone /\ k = [uid |-> k.uid, size |-> hdr[k.uid].size]
      BY DEF Live, Keys, IsKey, Key
    <2>2. k.uid \in Free
      BY DEF Free
    <2>3. hdr'[k.uid] = hdr[k.uid] /\ k.uid \in Zone'
      BY <1>6, <1>7, <2>1, <2>2
    <2> QED BY <2>1, <2>3 DEF IsKey, Key
  <1>10. ASSUME NEW u \in Threads \ {t} PROVE PtrFacts(u)' /\ ObjFacts(u)' /\ NewFacts(u)' /\ NullFact(u)'
    <2>0. PtrFacts(u) /\ ObjFacts(u) /\ NewFacts(u) /\ CallFacts(u)
      BY DEF Live, CallInv
    <2>1. UNCHANGED <<pc[u], op[u], obj[u], new[u]>> /\ op[u].p # p /\ (op[u].p \in Ptrs => ptr'[op[u].p] = ptr[op[u].p])
      BY DEF Works
    <2>2. PtrFacts(u)'
      <3>1. CASE pc[u] = "idle"
        BY <2>0, <2>1, <3>1 DEF PtrFacts, CallFacts, Idle, Allocating
      <3>2. CASE pc[u] # "idle"
        BY <2>0, <2>1, <3>2 DEF PtrFacts, CallFacts
      <3> QED BY <3>1, <3>2
    <2>h. \A c \in HeldBy(u) : c \in Zone /\ c \notin HeldBy(t) \cup OwnedBy(p)
      BY <1>2 DEF Live, Partition, Parts
    <2>3. ObjFacts(u)'
      <3> SUFFICES ASSUME op[u].kind \in {"pfree", "prealloc"}, pc[u] \notin Late PROVE IsKey(obj[u])'
        BY <2>1 DEF ObjFacts
      <3>1. IsKey(obj[u])
        BY <2>0 DEF ObjFacts
      <3>2. obj[u].uid \in HeldBy(u) \/ obj[u].uid \in OwnedBy(op[u].p)
        BY ObjOwned
      <3>3. obj[u].uid \notin HeldBy(t) \cup OwnedBy(p)
        <4>1. CASE obj[u].uid \in HeldBy(u)
          BY <2>h, <4>1
        <4>2. CASE obj[u].uid \in OwnedBy(op[u].p)
          <5>1. op[u].p \in Ptrs
            BY <2>0 DEF CallFacts, Idle
          <5> QED BY <1>2, <2>1, <4>2, <5>1 DEF Live, Partition, Parts
        <4> QED BY <3>2, <4>1, <4>2
      <3>4. obj[u].uid \in Zone /\ obj[u] = [uid |-> obj[u].uid, size |-> hdr[obj[u].uid].size]
        BY <3>1 DEF IsKey, Key
      <3>5. hdr'[obj[u].uid] = hdr[obj[u].uid] /\ obj[u].uid \in Zone'
        BY <1>6, <3>3, <3>4
      <3>6. obj'[u].uid \in Zone' /\ obj'[u] = [uid |-> obj'[u].uid, size |-> hdr'[obj'[u].uid].size]
        BY <2>1, <3>4, <3>5
      <3> QED BY <3>6 DEF IsKey, Key
    <2>4. NewFacts(u)'
      <3>1. pc[u] \in Allocating \ {"get"} => hdr'[new[u].uid] = hdr[new[u].uid]
        BY <1>6, <2>h DEF HeldBy, Taken
      <3>2. pc[u] \in {"magic", "shrink"} => hdr'[NewChunk(u)] = hdr[NewChunk(u)]
        <4> SUFFICES ASSUME pc[u] \in Splitting PROVE hdr'[NewChunk(u)] = hdr[NewChunk(u)]
          BY DEF Splitting
        <4>1. NewChunk(u) \in Chunks /\ NewChunk(u) \notin Zone
          BY SplitFacts DEF Zone
        <4>2. \A c \in HeldBy(t) \cup OwnedBy(p) : c \in Zone
          BY <1>2 DEF Live, Partition, Parts
        <4>3. pc[t] \in Splitting => NewChunk(t) # NewChunk(u)
          BY SplitApart
        <4>4. NewChunk(u) \notin Mine(t, p)
          BY <4>1, <4>2, <4>3 DEF Mine
        <4> QED BY <4>1, <4>4
      <3>3. NewChunk(u)' = NewChunk(u)
        BY <2>1 DEF NewChunk
      <3>4. pc[u] \in Allocating \ {"get"} => Key(new[u].uid)' = Key(new[u].uid)
        BY <2>1, <3>1 DEF Key
      <3> QED BY <2>0, <2>1, <3>1, <3>2, <3>3, <3>4 DEF NewFacts, Allocating, bucket_calc_units
    <2>5. NullFact(u)'
      BY DEF NullFact, Single
    <2> QED BY <2>2, <2>3, <2>4, <2>5
  <1> QED BY <1>3, <1>8, <1>9, <1>10 DEF Live

\* What the partition says of one call and its pointer.
LEMMA LiveParts ==
  ASSUME Live, NEW t \in Threads, NEW p \in Ptrs
  PROVE  /\ HeldBy(t) \cap Free = {} /\ OwnedBy(p) \cap Free = {} /\ HeldBy(t) \cap OwnedBy(p) = {}
         /\ HeldBy(t) \subseteq Zone /\ OwnedBy(p) \subseteq Zone /\ Free \subseteq Zone
         /\ \A c \in Free \cup HeldBy(t) \cup OwnedBy(p) : hdr[c].used <=> c \in OwnedBy(p) \cup Old(t)
         /\ "prealloc" \in Ops =>
              \A c \in OwnedBy(p) \cup Old(t) : \A s \in Sizes : hdr[c].size >= bucket_calc_units(s)
  <1>1. Held[t] = HeldBy(t) /\ Owners[p] = OwnedBy(p) /\ Moved[t] = Old(t)
    BY DEF Held, Owners, Moved
  <1>2. /\ HeldBy(t) \cap Free = {} /\ OwnedBy(p) \cap Free = {} /\ HeldBy(t) \cap OwnedBy(p) = {}
        /\ HeldBy(t) \subseteq Zone /\ OwnedBy(p) \subseteq Zone /\ Free \subseteq Zone
    BY <1>1 DEF Live, Partition, Parts
  <1>3. ASSUME NEW c \in Free \cup HeldBy(t) \cup OwnedBy(p) PROVE hdr[c].used <=> c \in OwnedBy(p) \cup Old(t)
    <2>1. c \in Zone
      BY <1>2
    <2>2. hdr[c].used <=> (\E q \in Ptrs : c \in Owners[q]) \/ (\E u \in Threads : c \in Moved[u])
      BY <2>1 DEF Live, Flags, Flagged, Used
    <2>3. \A u \in Threads : Moved[u] \subseteq Held[u]
      BY DEF Moved, Held, HeldBy
    <2>4. (\E q \in Ptrs : c \in Owners[q]) => c \in Owners[p]
      BY <1>1 DEF Live, Partition, Parts
    <2>5. (\E u \in Threads : c \in Moved[u]) => c \in Moved[t]
      BY <1>1, <2>3 DEF Live, Partition, Parts
    <2> QED BY <1>1, <2>2, <2>4, <2>5
  <1>4. ASSUME "prealloc" \in Ops, NEW c \in OwnedBy(p) \cup Old(t), NEW s \in Sizes PROVE hdr[c].size >= bucket_calc_units(s)
    <2>1. c \in Zone /\ hdr[c].used
      BY <1>2, <1>3 DEF HeldBy
    <2> QED BY <1>4, <2>1 DEF Live, Flags, Used
  <1> QED BY <1>2, <1>3, <1>4

\* A step that writes no header.
LEMMA LiveKeep ==
  ASSUME SoundUse, CallInv, HeapTypes, check_zone, Live, NEW t \in Threads, NEW p \in Ptrs, Works(t, p),
         HeapTypes', UNCHANGED hdr, OwnedBy(p)' \cup Old(t)' = OwnedBy(p) \cup Old(t),
         Free' \cup HeldBy(t)' \cup OwnedBy(p)' = Free \cup HeldBy(t) \cup OwnedBy(p),
         HeldBy(t)' \cap Free' = {}, OwnedBy(p)' \cap Free' = {}, HeldBy(t)' \cap OwnedBy(p)' = {},
         \A k \in bucket' \cup lost' : k \in bucket \cup lost \/ IsKey(k)',
         bucket' \cap lost' = {},
         PtrFacts(t)', ObjFacts(t)', NewFacts(t)', NullFact(t)'
  PROVE  Live'
  <1>1. hdr'[0].magic /\ Zone' = Zone
    BY DEF Live, Zone, Tiles, TilesOf
  <1>2. \A c \in Free \cup HeldBy(t) \cup OwnedBy(p) : hdr'[c].used <=> c \in OwnedBy(p)' \cup Old(t)'
    BY LiveParts
  <1>3. "prealloc" \in Ops => \A c \in OwnedBy(p)' \cup Old(t)' : \A s \in Sizes : hdr'[c].size >= bucket_calc_units(s)
    BY LiveParts
  <1>4. \A c \in Chunks : c \notin Mine(t, p) => hdr'[c] = hdr[c]
    OBVIOUS
  <1>5. PICK N : N = {}
    OBVIOUS
  <1>6. /\ Zone' = Zone \cup N /\ N \cap Zone = {}
        /\ Free' \cup HeldBy(t)' \cup OwnedBy(p)' = Free \cup HeldBy(t) \cup OwnedBy(p) \cup N
        /\ \A c \in Free \cup HeldBy(t) \cup OwnedBy(p) \cup N : hdr'[c].used <=> c \in OwnedBy(p)' \cup Old(t)'
    BY <1>1, <1>2, <1>5
  <1> QED BY <1>1, <1>3, <1>4, <1>6, LiveStep

LEMMA LiveSame ==
  ASSUME SoundUse, CallInv, HeapTypes, check_zone, Live, NEW t \in Threads, NEW p \in Ptrs, Works(t, p),
         HeapTypes', UNCHANGED hdr, OwnedBy(p)' = OwnedBy(p), HeldBy(t)' = HeldBy(t), Old(t)' = Old(t),
         bucket' \cup lost' = bucket \cup lost, bucket' \cap lost' = {},
         PtrFacts(t)', ObjFacts(t)', NewFacts(t)', NullFact(t)'
  PROVE  Live'
  <1>1. Free' = Free
    BY DEF Free
  <1>2. \A k \in bucket' \cup lost' : k \in bucket \cup lost \/ IsKey(k)'
    OBVIOUS
  <1>3. HeldBy(t)' \cap Free' = {} /\ OwnedBy(p)' \cap Free' = {} /\ HeldBy(t)' \cap OwnedBy(p)' = {}
    BY <1>1, LiveParts
  <1> QED BY <1>1, <1>2, <1>3, LiveKeep

\* A step of a call: it may move on, change its new object and store its pointer.
Turn(t) ==
  /\ pc[t] # "idle" /\ UNCHANGED <<op, obj>>
  /\ pc' = pc \/ \E to : pc' = [pc EXCEPT ![t] = to]
  /\ new' = new \/ \E o : new' = [new EXCEPT ![t] = o]
  /\ ptr' = ptr \/ \E c : ptr' = [ptr EXCEPT ![op[t].p] = c]

LEMMA OwnLoose ==
  CallInv => \A t \in Threads, p \in Ptrs : op[t].p = p =>
               OwnedBy(p) = IF ptr[p] # Null /\ ~ Loosens(t) THEN {ptr[p]} ELSE {}
  BY LooseIff DEF OwnedBy

LEMMA OwnLooseNext ==
  (CallInv => \A t \in Threads, p \in Ptrs : op[t].p = p =>
               OwnedBy(p) = IF ptr[p] # Null /\ ~ Loosens(t) THEN {ptr[p]} ELSE {})'
  BY OwnLoose, PTL

LEMMA TurnWorks ==
  ASSUME CallInv, CallInv', HeapTypes, NEW t \in Threads, Turn(t), NEW p, op[t].p = p
  PROVE  /\ p \in Ptrs /\ Works(t, p)
         /\ OwnedBy(p) = IF ptr[p] # Null /\ ~ Loosens(t) THEN {ptr[p]} ELSE {}
         /\ OwnedBy(p)' = IF ptr'[p] # Null /\ ~ Loosens(t)' THEN {ptr'[p]} ELSE {}
  <1>1. p \in Ptrs /\ op' = op
    BY DEF CallInv, CallFacts, Turn
  <1>2. \A u \in Threads \ {t} : UNCHANGED <<pc[u], op[u], obj[u], new[u]>>
    <2>1. \A u \in Threads \ {t} : pc'[u] = pc[u]
      BY DEF Turn, CallInv, CallTypes
    <2>2. \A u \in Threads \ {t} : new'[u] = new[u]
      BY DEF Turn, HeapTypes
    <2> QED BY <2>1, <2>2 DEF Turn
  <1>3. \A u \in Threads \ {t} : op[u].p # p
    BY <1>1, HeapAssumption DEF CallInv, OneCall
  <1>4. \A q \in Ptrs \ {p} : ptr'[q] = ptr[q]
    BY <1>1 DEF Turn, HeapTypes
  <1>5. Works(t, p)
    BY <1>1, <1>2, <1>3, <1>4 DEF Works
  <1>6. OwnedBy(p) = IF ptr[p] # Null /\ ~ Loosens(t) THEN {ptr[p]} ELSE {}
    BY <1>1, OwnLoose
  <1>7. OwnedBy(p)' = IF ptr'[p] # Null /\ ~ Loosens(t)' THEN {ptr'[p]} ELSE {}
    BY <1>1, OwnLooseNext
  <1> QED BY <1>1, <1>5, <1>6, <1>7

\* A step that only moves a call on.
LEMMA LiveTurn ==
  ASSUME SoundUse, CallInv, CallInv', HeapTypes, check_zone, Live, NEW t \in Threads, Turn(t),
         HeapTypes', UNCHANGED <<hdr, ptr>>, HeldBy(t)' = HeldBy(t), Old(t)' = Old(t), Loosens(t)' <=> Loosens(t),
         bucket' \cup lost' = bucket \cup lost, bucket' \cap lost' = {},
         PtrFacts(t)', ObjFacts(t)', NewFacts(t)', NullFact(t)'
  PROVE  Live'
  <1>1. PICK p : op[t].p = p
    OBVIOUS
  <1>2. p \in Ptrs /\ Works(t, p) /\ OwnedBy(p)' = OwnedBy(p)
    BY <1>1, TurnWorks
  <1> QED BY <1>2, LiveSame

\* Without any chunk of its own.
LEMMA LiveBare ==
  ASSUME SoundUse, CallInv, CallInv', HeapTypes, check_zone, Live, NEW t \in Threads, Turn(t),
         HeapTypes', UNCHANGED <<hdr, ptr, new, bucket, lost>>,
         \/ pc[t] = "lock" /\ pc'[t] = "guard"
         \/ pc[t] = "guard" /\ pc'[t] = "free" /\ op[t].kind = "pfree"
         \/ pc[t] = "guard" /\ pc'[t] = "get" /\ op[t].kind # "pfree"
         \/ pc[t] = "down" /\ pc'[t] = "clear"
         \/ pc[t] = "clear" /\ pc'[t] = "flush"
  PROVE  Live'
  <1>1. op' = op /\ obj' = obj
    BY DEF Turn
  <1>2. HeldBy(t)' = HeldBy(t) /\ Old(t)' = Old(t) /\ (Loosens(t)' <=> Loosens(t))
    BY <1>1 DEF HeldBy, Taken, Rest, Freed, Old, Loosens, Allocating
  <1>3. PtrFacts(t) /\ ObjFacts(t) /\ CallFacts(t)
    BY DEF Live, CallInv
  <1>4. PtrFacts(t)'
    BY <1>1, <1>3 DEF PtrFacts, Late, Allocating
  <1>5. ObjFacts(t)'
    <2>1. \A k : IsKey(k)' <=> IsKey(k)
      BY DEF IsKey, Key, Zone, Tiles, TilesOf
    <2> QED BY <1>1, <1>3, <2>1 DEF ObjFacts, Late
  <1>6. NewFacts(t)' /\ NullFact(t)'
    BY DEF NewFacts, NullFact
  <1>7. bucket' \cap lost' = {}
    BY DEF Live, Keys
  <1> QED BY <1>2, <1>4, <1>5, <1>6, <1>7, LiveTurn

LEMMA LiveStutter ==
  ASSUME Live, UNCHANGED <<hdr, ptr, bucket, lost, pc, op, obj, new>>
  PROVE  Live'
  <1>1. Zone' = Zone /\ Free' = Free /\ Used' = Used
    BY DEF Zone, Tiles, TilesOf, Free, Used
  <1>2. Held' = Held /\ Moved' = Moved
    BY DEF Held, Moved, HeldBy, Taken, Rest, Freed, Old, NewChunk
  <1>3. Owners' = Owners
    BY DEF Owners, OwnedBy, Loose, Loosens
  <1>4. Partition' /\ Flags'
    BY <1>1, <1>2, <1>3 DEF Live, Partition, Flags
  <1>5. \A k : IsKey(k)' <=> IsKey(k)
    BY <1>1 DEF IsKey, Key
  <1>6. Keys'
    BY <1>5 DEF Live, Keys
  <1>7. ASSUME NEW t \in Threads PROVE PtrFacts(t)' /\ ObjFacts(t)' /\ NewFacts(t)' /\ NullFact(t)'
    <2>1. PtrFacts(t)'
      BY DEF Live, PtrFacts
    <2>2. ObjFacts(t)'
      BY <1>5 DEF Live, ObjFacts
    <2>3. NewFacts(t)'
      BY DEF Live, NewFacts, Key, NewChunk
    <2>4. NullFact(t)'
      BY <1>1 DEF Live, NullFact
    <2> QED BY <2>1, <2>2, <2>3, <2>4
  <1> QED BY <1>4, <1>6, <1>7 DEF Live

\* The end of an operation on the container: the process dies, or what the
\* operation leaves is in the container or lost.
LEMMA LeaveEffect ==
  ASSUME NEW t, NEW from, NEW to, NEW b, Leave(t, from, to, b), b \cap lost = {}
  PROVE  /\ mode = "open" /\ pc[t] = from /\ UNCHANGED <<hdr, ptr, op, obj, new, slot, pslot, ncrash>>
         /\ \/ mode' = "killed" /\ UNCHANGED <<pc, bucket, lost>>
            \/ /\ mode' = "open" /\ pc' = [pc EXCEPT ![t] = to]
               /\ bucket' \cup lost' = b \cup lost /\ bucket' \cap lost' = {}
  <1>1. /\ mode = "open" /\ pc[t] = from /\ UNCHANGED <<hdr, ptr, op, obj, new, slot, pslot, ncrash>>
    BY DEF Leave, Goto, media, bounds
  <1>2. \/ pc' = [pc EXCEPT ![t] = to] /\ bucket' = b /\ UNCHANGED <<mode, lost>>
        \/ /\ pc' = [pc EXCEPT ![t] = to] /\ UNCHANGED mode
           /\ \E left \in SUBSET (b \cup lost) : bucket' = left /\ lost' = (b \cup lost) \ left
        \/ mode' = "killed" /\ UNCHANGED <<pc, bucket, lost>>
    BY Zenon DEF Leave, Goto, container
  <1>3. ASSUME NEW left \in SUBSET (b \cup lost), bucket' = left, lost' = (b \cup lost) \ left
        PROVE  bucket' \cup lost' = b \cup lost /\ bucket' \cap lost' = {}
    BY <1>3
  <1> QED BY <1>1, <1>2, <1>3

LEMMA LeaveTypes ==
  ASSUME HeapTypes, UNCHANGED <<hdr, ptr, obj, new>>, NEW b, b \subseteq Object,
         bucket' \cup lost' = b \cup lost
  PROVE  HeapTypes'
  BY DEF HeapTypes

LEMMA LiveRemove ==
  ASSUME SoundUse, CallInv, CallInv', HeapTypes, check_zone, Live, NEW t \in Threads, bst_remove(t)
  PROVE  HeapTypes' /\ Live'
  <1> DEFINE to == IF new[t].size < hdr[new[t].uid].size THEN "split" ELSE "init"
  <1>0. to \in {"split", "init"} /\ (to = "split" => new[t].size < hdr[new[t].uid].size)
    OBVIOUS
  <1>1. Leave(t, "take", to, bucket) /\ bucket \cap lost = {}
    BY DEF bst_remove, Live, Keys
  <1> HIDE DEF to
  <1>2. /\ mode = "open" /\ pc[t] = "take" /\ UNCHANGED <<hdr, ptr, op, obj, new, slot, pslot, ncrash>>
        /\ \/ mode' = "killed" /\ UNCHANGED <<pc, bucket, lost>>
           \/ /\ mode' = "open" /\ pc' = [pc EXCEPT ![t] = to]
              /\ bucket' \cup lost' = bucket \cup lost /\ bucket' \cap lost' = {}
    BY <1>1, LeaveEffect
  <1>3. CASE mode' = "killed" /\ UNCHANGED <<pc, bucket, lost>>
    BY <1>2, <1>3, LiveStutter DEF HeapTypes
  <1>4. CASE /\ mode' = "open" /\ pc' = [pc EXCEPT ![t] = to]
             /\ bucket' \cup lost' = bucket \cup lost /\ bucket' \cap lost' = {}
    <2>1. HeapTypes'
      BY <1>2, <1>4 DEF HeapTypes
    <2>2. pc'[t] = to /\ Turn(t)
      BY <1>2, <1>4 DEF CallInv, CallTypes, Turn
    <2>3. HeldBy(t)' = HeldBy(t) /\ Old(t)' = Old(t) /\ (Loosens(t)' <=> Loosens(t))
      BY <1>0, <1>2, <2>2 DEF HeldBy, Taken, Rest, Freed, Old, Loosens, Allocating
    <2>4. PtrFacts(t) /\ ObjFacts(t) /\ NewFacts(t)
      BY DEF Live
    <2>5. PtrFacts(t)'
      BY <1>0, <1>2, <2>2, <2>4 DEF PtrFacts, Late, Allocating
    <2>6. ObjFacts(t)'
      <3>1. \A k : IsKey(k)' <=> IsKey(k)
        BY <1>2 DEF IsKey, Key, Zone, Tiles, TilesOf
      <3> QED BY <1>0, <1>2, <2>2, <2>4, <3>1 DEF ObjFacts, Late
    <2>7. NewFacts(t)' /\ NullFact(t)'
      BY <1>0, <1>2, <2>2, <2>4 DEF NewFacts, NullFact, bucket_calc_units
    <2> QED BY <1>2, <1>4, <2>1, <2>2, <2>3, <2>5, <2>6, <2>7, LiveTurn
  <1> QED BY <1>2, <1>3, <1>4

LEMMA UnitsOf ==
  ASSUME SoundUse, CallInv, NEW t \in Threads, pc[t] \in Allocating
  PROVE  op[t].size \in Sizes /\ bucket_calc_units(op[t].size) \in Nat \ {0}
  <1>1. op[t].size \in Sizes
    BY DEF CallInv, CallFacts
  <1> QED BY <1>1, UnitsPositive DEF SoundUse

LEMMA LiveGet ==
  ASSUME SoundUse, CallInv, CallInv', HeapTypes, check_zone, Live, NEW t \in Threads, bucket_get_object(t)
  PROVE  HeapTypes' /\ Live'
  <1>1. PICK units : units = bucket_calc_units(op[t].size)
    OBVIOUS
  <1> DEFINE none == [uid |-> Null, size |-> units]
  <1>2. /\ pc[t] = "get" /\ UNCHANGED <<hdr, ptr, op, obj, lost>>
        /\ \/ \E to : /\ to = AfterAlloc(t, none) /\ pc' = [pc EXCEPT ![t] = to]
                      /\ new' = [new EXCEPT ![t] = none] /\ UNCHANGED bucket
           \/ \E k \in Found(units) :
                /\ pc' = [pc EXCEPT ![t] = "take"] /\ bucket' = bucket \ {k}
                /\ new' = [new EXCEPT ![t] = [uid |-> k.uid, size |-> units]]
    BY <1>1, Zenon DEF bucket_get_object, Goto, media
  <1>3. units \in Nat \ {0} /\ op[t].size \in Sizes
    BY <1>1, <1>2, UnitsOf DEF Allocating
  <1>4. PtrFacts(t) /\ ObjFacts(t) /\ CallFacts(t)
    BY DEF Live, CallInv
  <1>5. \A c : IsKey(c)' <=> IsKey(c)
    BY <1>2 DEF IsKey, Key, Zone, Tiles, TilesOf
  <1>6. CASE \E to : /\ to = AfterAlloc(t, none) /\ pc' = [pc EXCEPT ![t] = to]
                     /\ new' = [new EXCEPT ![t] = none] /\ UNCHANGED bucket
    <2>1. PICK to, o : /\ to \in {"copy", "down"} /\ (to = "copy" => op[t].kind = "prealloc")
                       /\ pc' = [pc EXCEPT ![t] = to] /\ new' = [new EXCEPT ![t] = o] /\ UNCHANGED bucket
                       /\ o \in [uid : Chunks \cup {Null}, size : Nat] /\ o.uid = Null
      <3>1. none \in [uid : Chunks \cup {Null}, size : Nat] /\ none.uid = Null
        BY <1>3
      <3>2. AfterAlloc(t, none) \in {"copy", "down"} /\ (AfterAlloc(t, none) = "copy" => op[t].kind = "prealloc")
        BY DEF AfterAlloc
      <3> QED BY <1>6, <3>1, <3>2
    <2>2. HeapTypes'
      BY <1>2, <2>1 DEF HeapTypes
    <2>3. pc'[t] = to /\ new'[t] = o /\ Turn(t)
      BY <1>2, <2>1 DEF CallInv, CallTypes, Turn, HeapTypes
    <2>4. HeldBy(t)' = HeldBy(t) /\ Old(t)' = Old(t) /\ (Loosens(t)' <=> Loosens(t))
      BY <1>2, <1>4, <2>1, <2>3 DEF HeldBy, Taken, Rest, Freed, Old, Loosens, Allocating, PtrFacts
    <2>5. PtrFacts(t)'
      BY <1>2, <1>4, <2>1, <2>3 DEF PtrFacts, Late, Allocating, CallFacts
    <2>6. ObjFacts(t)'
      BY <1>2, <1>4, <1>5, <2>1, <2>3 DEF ObjFacts, Late
    <2>7. NewFacts(t)' /\ NullFact(t)'
      BY <2>1, <2>3 DEF NewFacts, NullFact
    <2>8. bucket' \cup lost' = bucket \cup lost /\ bucket' \cap lost' = {}
      BY <1>2, <2>1 DEF Live, Keys
    <2> QED BY <1>2, <2>2, <2>3, <2>4, <2>5, <2>6, <2>7, <2>8, LiveTurn
  <1>7. CASE \E k \in Found(units) :
                /\ pc' = [pc EXCEPT ![t] = "take"] /\ bucket' = bucket \ {k}
                /\ new' = [new EXCEPT ![t] = [uid |-> k.uid, size |-> units]]
    <2>1. PICK k, o : /\ k \in bucket /\ pc' = [pc EXCEPT ![t] = "take"] /\ bucket' = bucket \ {k}
                      /\ new' = [new EXCEPT ![t] = o] /\ o = [uid |-> k.uid, size |-> units]
      BY <1>7, Zenon DEF Found
    <2>2. k.uid \in Chunks /\ o \in [uid : Chunks \cup {Null}, size : Nat] /\ o.uid = k.uid /\ o.size = units
      BY <1>3, <2>1 DEF HeapTypes, Object
    <2>3. HeapTypes'
      BY <1>2, <2>1, <2>2 DEF HeapTypes
    <2>4. pc'[t] = "take" /\ new'[t] = o /\ Turn(t)
      BY <1>2, <2>1 DEF CallInv, CallTypes, Turn, HeapTypes
    <2>5. PICK p : op[t].p = p
      OBVIOUS
    <2>6. p \in Ptrs /\ Works(t, p) /\ OwnedBy(p)' = OwnedBy(p) /\ HeldBy(t) = {} /\ HeldBy(t)' = {k.uid}
          /\ Old(t) = {} /\ Old(t)' = {}
      <3>1. ~ Loosens(t) /\ ~ Loosens(t)'
        BY <1>2, <2>4 DEF Loosens
      <3>2. HeldBy(t) = {} /\ Old(t) = {}
        BY <1>2 DEF HeldBy, Taken, Rest, Freed, Old
      <3>3. HeldBy(t)' = {k.uid} /\ Old(t)' = {}
        BY <2>2, <2>4 DEF HeldBy, Taken, Rest, Freed, Old, Allocating
      <3> QED BY <1>2, <2>4, <2>5, <3>1, <3>2, <3>3, TurnWorks
    <2>7. \A j \in bucket \cup lost : j.uid = k.uid => j = k
      BY <2>1 DEF Live, Keys, IsKey
    <2>8. Free' = Free \ {k.uid} /\ k.uid \in Free
      BY <1>2, <2>1, <2>7 DEF Free, Live, Keys
    <2>9. /\ OwnedBy(p)' \cup Old(t)' = OwnedBy(p) \cup Old(t)
          /\ Free' \cup HeldBy(t)' \cup OwnedBy(p)' = Free \cup HeldBy(t) \cup OwnedBy(p)
          /\ HeldBy(t)' \cap Free' = {} /\ OwnedBy(p)' \cap Free' = {} /\ HeldBy(t)' \cap OwnedBy(p)' = {}
      BY <2>6, <2>8, LiveParts
    <2>10. bucket' \cap lost' = {} /\ \A j \in bucket' \cup lost' : j \in bucket \cup lost \/ IsKey(j)'
      BY <1>2, <2>1 DEF Live, Keys
    <2>11. PtrFacts(t)'
      BY <1>2, <1>4, <2>4 DEF PtrFacts, Late, Allocating
    <2>12. ObjFacts(t)'
      BY <1>2, <1>4, <1>5, <2>4 DEF ObjFacts, Late
    <2>13. NewFacts(t)' /\ NullFact(t)'
      BY <1>1, <1>2, <2>2, <2>4 DEF NewFacts, NullFact, bucket_calc_units
    <2> QED BY <1>2, <2>3, <2>6, <2>9, <2>10, <2>11, <2>12, <2>13, LiveKeep
  <1> QED BY <1>2, <1>6, <1>7

LEMMA LiveInit ==
  ASSUME SoundUse, CallInv, CallInv', HeapTypes, check_zone, Live, NEW t \in Threads, persistent_init_bucket_obj(t)
  PROVE  HeapTypes' /\ Live'
  <1>1. PICK size : size = hdr[new[t].uid].size
    OBVIOUS
  <1>2. PICK units : units = bucket_calc_units(op[t].size)
    OBVIOUS
  <1>3. /\ pc[t] = "init" /\ UNCHANGED <<hdr, ptr, op, obj, bucket, lost>>
        /\ pc' = [pc EXCEPT ![t] = IF size >= units THEN "set" ELSE "put"]
        /\ new' = [new EXCEPT ![t].size = size]
    BY <1>1, <1>2 DEF persistent_init_bucket_obj, Goto, media, pool, container
  <1>4. new[t].uid \in Chunks /\ size \in 0 .. NChunk
    <2>1. new[t].uid \in HeldBy(t)
      BY <1>3 DEF HeldBy, Taken, Allocating
    <2>2. new[t].uid \in Chunks
      BY <2>1, ZoneFacts DEF Live, Partition, Parts, Held
    <2> QED BY <1>1, <2>2 DEF HeapTypes, HdrType
  <1>5. new'[t].uid = new[t].uid /\ new'[t].size = size /\ new'[t] = [uid |-> new[t].uid, size |-> size]
    BY <1>3 DEF HeapTypes
  <1>6. HeapTypes'
    <2>1. new' \in [Threads -> [uid : Chunks \cup {Null}, size : Nat]]
      BY <1>3, <1>4 DEF HeapTypes
    <2> QED BY <1>3, <2>1 DEF HeapTypes
  <1>7. PICK to \in {"set", "put"} : /\ pc' = [pc EXCEPT ![t] = to]
                                     /\ (to = "set" => size >= units) /\ (to = "put" => ~ size >= units)
    BY <1>3
  <1>8. units \in Nat \ {0}
    BY <1>2, <1>3, UnitsOf DEF Allocating
  <1>9. pc'[t] = to /\ Turn(t)
    <2>1. \E o : new' = [new EXCEPT ![t] = o]
      BY <1>3
    <2> QED BY <1>3, <1>7, <2>1 DEF CallInv, CallTypes, Turn, HeapTypes
  <1>10. HeldBy(t)' = HeldBy(t) /\ Old(t)' = Old(t) /\ (Loosens(t)' <=> Loosens(t))
    BY <1>3, <1>5, <1>9 DEF HeldBy, Taken, Rest, Freed, Old, Loosens, Allocating
  <1>11. PtrFacts(t)'
    BY <1>3, <1>9 DEF Live, PtrFacts, Late, Allocating
  <1>12. ObjFacts(t)'
    <2>1. \A c : IsKey(c)' <=> IsKey(c)
      BY <1>3 DEF IsKey, Key, Zone, Tiles, TilesOf
    <2> QED BY <1>3, <1>9, <2>1 DEF Live, ObjFacts, Late
  <1>13. NewFacts(t)' /\ NullFact(t)'
    <2>1. new'[t] = Key(new[t].uid)'
      BY <1>1, <1>3, <1>5 DEF Key
    <2>2. size < units <=> ~ size >= units
      BY <1>4, <1>8
    <2> QED BY <1>2, <1>3, <1>5, <1>7, <1>9, <2>1, <2>2 DEF NewFacts, NullFact, bucket_calc_units
  <1>14. bucket' \cap lost' = {} /\ bucket' \cup lost' = bucket \cup lost
    BY <1>3 DEF Live, Keys
  <1> QED BY <1>3, <1>6, <1>9, <1>10, <1>11, <1>12, <1>13, <1>14, LiveTurn

LEMMA LiveAddBegin ==
  ASSUME SoundUse, CallInv, CallInv', HeapTypes, check_zone, Live, NEW t \in Threads,
         \/ bst_add_begin(t, "split_add", "split_link")
         \/ bst_add_begin(t, "put", "put_link")
         \/ bst_add_begin(t, "free_add", "free_link")
  PROVE  HeapTypes' /\ Live'
  <1>1. /\ UNCHANGED <<hdr, ptr, op, obj, new, bucket, lost>>
        /\ \/ pc[t] = "split_add" /\ pc' = [pc EXCEPT ![t] = "split_link"]
           \/ pc[t] = "put" /\ pc' = [pc EXCEPT ![t] = "put_link"]
           \/ pc[t] = "free_add" /\ pc' = [pc EXCEPT ![t] = "free_link"]
    BY DEF bst_add_begin, Goto, media, pool, container
  <1>2. HeapTypes'
    BY <1>1 DEF HeapTypes
  <1>3. Turn(t) /\ \/ pc[t] = "split_add" /\ pc'[t] = "split_link"
                   \/ pc[t] = "put" /\ pc'[t] = "put_link"
                   \/ pc[t] = "free_add" /\ pc'[t] = "free_link"
    BY <1>1 DEF CallInv, CallTypes, Turn
  <1>4. HeldBy(t)' = HeldBy(t) /\ Old(t)' = Old(t) /\ (Loosens(t)' <=> Loosens(t))
    BY <1>1, <1>3 DEF HeldBy, Taken, Rest, Freed, Old, Loosens, Allocating, NewChunk
  <1>5. PtrFacts(t)'
    BY <1>1, <1>3 DEF Live, PtrFacts, Late, Allocating
  <1>6. ObjFacts(t)'
    <2>1. \A c : IsKey(c)' <=> IsKey(c)
      BY <1>1 DEF IsKey, Key, Zone, Tiles, TilesOf
    <2> QED BY <1>1, <1>3, <2>1 DEF Live, ObjFacts, Late
  <1>7. NewFacts(t)' /\ NullFact(t)'
    BY <1>1, <1>3 DEF Live, NewFacts, NullFact, bucket_calc_units, Key
  <1>8. bucket' \cap lost' = {} /\ bucket' \cup lost' = bucket \cup lost
    BY <1>1 DEF Live, Keys
  <1> QED BY <1>1, <1>2, <1>3, <1>4, <1>5, <1>6, <1>7, <1>8, LiveTurn

\* The end of bst_add: the container gets a chunk of the call's.
LEMMA LiveAddEnd ==
  ASSUME SoundUse, CallInv, CallInv', HeapTypes, check_zone, Live, NEW t \in Threads,
         NEW from, NEW to, NEW k, bst_add_end(t, from, to, k), from # "idle",
         IsKey(k), k.uid \in HeldBy(t), to = "null" => k.uid = obj[t].uid,
         pc'[t] = to => /\ HeldBy(t)' = HeldBy(t) \ {k.uid} /\ Old(t)' = Old(t) /\ (Loosens(t)' <=> Loosens(t))
                        /\ PtrFacts(t)' /\ ObjFacts(t)' /\ NewFacts(t)'
  PROVE  HeapTypes' /\ Live'
  <1>0. k.uid \notin Free /\ k.uid \in Chunks /\ k \in Object
    <2>1. k.uid \notin Free /\ k.uid \in Zone
      BY DEF Live, Partition, Parts, Held
    <2>2. Zone \subseteq Chunks /\ hdr \in HdrType
      BY ZoneFacts DEF Live, HeapTypes
    <2>3. k.uid \in Chunks /\ hdr[k.uid].size \in 0 .. NChunk /\ k = [uid |-> k.uid, size |-> hdr[k.uid].size]
      BY <2>1, <2>2 DEF HdrType, IsKey, Key
    <2> QED BY <2>1, <2>3 DEF Object
  <1> DEFINE b == bucket \cup {k}
  <1>1. Leave(t, from, to, b) /\ b \cap lost = {}
    BY <1>0 DEF bst_add_end, Live, Keys, Free
  <1>2. b \cup lost = (bucket \cup lost) \cup {k} /\ b \subseteq Object
    BY <1>0 DEF HeapTypes
  <1> HIDE DEF b
  <1>3. /\ mode = "open" /\ pc[t] = from /\ UNCHANGED <<hdr, ptr, op, obj, new, slot, pslot, ncrash>>
        /\ \/ mode' = "killed" /\ UNCHANGED <<pc, bucket, lost>>
           \/ /\ mode' = "open" /\ pc' = [pc EXCEPT ![t] = to]
              /\ bucket' \cup lost' = b \cup lost /\ bucket' \cap lost' = {}
    BY <1>1, LeaveEffect
  <1>4. CASE mode' = "killed" /\ UNCHANGED <<pc, bucket, lost>>
    BY <1>3, <1>4, LiveStutter DEF HeapTypes
  <1>5. CASE /\ mode' = "open" /\ pc' = [pc EXCEPT ![t] = to]
             /\ bucket' \cup lost' = b \cup lost /\ bucket' \cap lost' = {}
    <2>1. HeapTypes'
      BY <1>2, <1>3, <1>5, LeaveTypes
    <2>2. pc'[t] = to /\ Turn(t)
      BY <1>3, <1>5 DEF CallInv, CallTypes, Turn
    <2>3. /\ HeldBy(t)' = HeldBy(t) \ {k.uid} /\ Old(t)' = Old(t) /\ (Loosens(t)' <=> Loosens(t))
          /\ PtrFacts(t)' /\ ObjFacts(t)' /\ NewFacts(t)'
      BY <2>2
    <2>4. Free' = Free \cup {k.uid}
      BY <1>2, <1>5 DEF Free
    <2>5. PICK p : op[t].p = p
      OBVIOUS
    <2>6. p \in Ptrs /\ Works(t, p) /\ OwnedBy(p)' = OwnedBy(p)
      BY <1>3, <2>2, <2>3, <2>5, TurnWorks
    <2>7. /\ OwnedBy(p)' \cup Old(t)' = OwnedBy(p) \cup Old(t)
          /\ Free' \cup HeldBy(t)' \cup OwnedBy(p)' = Free \cup HeldBy(t) \cup OwnedBy(p)
          /\ HeldBy(t)' \cap Free' = {} /\ OwnedBy(p)' \cap Free' = {} /\ HeldBy(t)' \cap OwnedBy(p)' = {}
      BY <2>3, <2>4, <2>6, LiveParts
    <2>8. \A j \in bucket' \cup lost' : j \in bucket \cup lost \/ IsKey(j)'
      <3>1. \A j : IsKey(j)' <=> IsKey(j)
        BY <1>3 DEF IsKey, Key, Zone, Tiles, TilesOf
      <3> QED BY <1>2, <1>5, <3>1
    <2>9. NullFact(t)'
      <3>1. pc'[t] = "null" => obj'[t].uid \in Free'
        BY <1>3, <2>2, <2>4
      <3> QED BY <3>1 DEF NullFact
    <2> QED BY <1>3, <1>5, <2>1, <2>3, <2>6, <2>7, <2>8, <2>9, LiveKeep
  <1> QED BY <1>3, <1>4, <1>5

LEMMA LiveAdd ==
  ASSUME SoundUse, CallInv, CallInv', HeapTypes, check_zone, Live, NEW t \in Threads, bst_add(t)
  PROVE  HeapTypes' /\ Live'
  <1>0. PtrFacts(t) /\ ObjFacts(t) /\ NewFacts(t) /\ CallFacts(t)
    BY DEF Live, CallInv
  <1>k. ASSUME UNCHANGED hdr, NEW c PROVE IsKey(c)' <=> IsKey(c)
    BY <1>k DEF IsKey, Key, Zone, Tiles, TilesOf
  <1>f. ASSUME NEW from, NEW to, NEW k, bst_add_end(t, from, to, k)
        PROVE  pc[t] = from /\ UNCHANGED <<hdr, ptr, op, obj, new>>
    BY <1>f DEF bst_add_end, Leave, Goto, media
  <1>1. CASE \/ bst_add_begin(t, "split_add", "split_link") \/ bst_add_begin(t, "put", "put_link")
             \/ bst_add_begin(t, "free_add", "free_link")
    BY <1>1, LiveAddBegin
  <1>2. CASE bst_add_end(t, "split_link", "init", Key(NewChunk(t)))
    <2>1. PICK k, n, from, to : k = Key(n) /\ n = NewChunk(t) /\ from = "split_link" /\ to = "init"
      OBVIOUS
    <2>2. bst_add_end(t, from, to, k)
      BY <1>2, <2>1
    <2>3. pc[t] = "split_link" /\ UNCHANGED <<hdr, ptr, op, obj, new>> /\ k.uid = n
      BY <1>f, <2>1, <2>2 DEF Key
    <2>4. HeldBy(t) = {new[t].uid, n} /\ Old(t) = {} /\ ~ Loosens(t)
      BY <2>1, <2>3 DEF HeldBy, Taken, Rest, Freed, Old, Loosens, Allocating
    <2>5. new[t].uid \in Zone /\ n \in Zone
      BY <2>4, LiveParts, <1>0, <2>3 DEF CallFacts
    <2>6. new[t].uid # n
      <3>1. PICK u, m : u = new[t].uid /\ m = new[t].size
        OBVIOUS
      <3>2. new[t] = [uid |-> u, size |-> hdr[u].size]
        BY <1>0, <2>3, <3>1 DEF NewFacts, Key
      <3>3. m = hdr[u].size /\ n = u + m
        BY <2>1, <3>1, <3>2 DEF NewChunk
      <3>4. m \in 1 .. NChunk /\ u \in Chunks
        BY <2>5, <3>1, <3>3, ZoneFacts DEF Live
      <3>5. u # u + m
        BY <3>4, HeapAssumption DEF Chunks
      <3> QED BY <3>1, <3>3, <3>5
    <2>7. IsKey(k) /\ k.uid \in HeldBy(t)
      BY <2>1, <2>3, <2>4, <2>5 DEF IsKey, Key
    <2>8. ASSUME pc'[t] = to
          PROVE  /\ HeldBy(t)' = HeldBy(t) \ {k.uid} /\ Old(t)' = Old(t) /\ (Loosens(t)' <=> Loosens(t))
                 /\ PtrFacts(t)' /\ ObjFacts(t)' /\ NewFacts(t)'
      <3>1. HeldBy(t)' = {new[t].uid} /\ Old(t)' = {} /\ ~ Loosens(t)'
        BY <2>1, <2>3, <2>8 DEF HeldBy, Taken, Rest, Freed, Old, Loosens, Allocating
      <3>2. PtrFacts(t)'
        BY <1>0, <2>1, <2>3, <2>8 DEF PtrFacts, Late, Allocating
      <3>3. ObjFacts(t)'
        BY <1>0, <1>k, <2>1, <2>3, <2>8 DEF ObjFacts, Late
      <3>4. NewFacts(t)'
        BY <2>1, <2>8 DEF NewFacts
      <3> QED BY <2>3, <2>4, <2>6, <3>1, <3>2, <3>3, <3>4
    <2>9. from # "idle" /\ to # "null"
      BY <2>1
    <2> QED BY <2>2, <2>7, <2>8, <2>9, LiveAddEnd
  <1>3. CASE bst_add_end(t, "put_link", AfterAlloc(t, new[t]), new[t])
    <2>1. PICK k, from, to : k = new[t] /\ from = "put_link" /\ to = AfterAlloc(t, new[t])
      OBVIOUS
    <2>2. bst_add_end(t, from, to, k)
      BY <1>3, <2>1
    <2>3. pc[t] = "put_link" /\ UNCHANGED <<hdr, ptr, op, obj, new>>
      BY <1>f, <2>1, <2>2
    <2>4. to \in {"copy", "down"} /\ (to = "copy" => op[t].kind = "prealloc")
      BY <2>1 DEF AfterAlloc
    <2>5. HeldBy(t) = {k.uid} /\ Old(t) = {} /\ ~ Loosens(t)
      BY <2>1, <2>3 DEF HeldBy, Taken, Rest, Freed, Old, Loosens, Allocating
    <2>6. k.uid \in Zone /\ IsKey(k)
      <3>1. k.uid \in Zone
        BY <2>5, LiveParts, <1>0, <2>3 DEF CallFacts
      <3> QED BY <1>0, <2>1, <2>3, <3>1 DEF NewFacts, IsKey
    <2>7. ASSUME to = "copy" PROVE ptr[op[t].p] = obj[t].uid /\ new[t].size < obj[t].size
      <3>1. op[t].kind = "prealloc" /\ "prealloc" \in Ops /\ op[t].p \in Ptrs /\ op[t].size \in Sizes
        BY <1>0, <2>3, <2>4, <2>7 DEF CallFacts, Allocating
      <3>2. ptr[op[t].p] = obj[t].uid
        BY <1>0, <2>3, <3>1 DEF PtrFacts, Allocating
      <3>3. obj[t].uid # Null
        BY DEF HeapTypes, Object, Chunks, Null
      <3>4. obj[t].uid \in OwnedBy(op[t].p)
        BY <2>5, <3>1, <3>2, <3>3, LooseIff DEF OwnedBy
      <3>5. hdr[obj[t].uid].size >= bucket_calc_units(op[t].size)
        BY <3>1, <3>4, LiveParts
      <3>6. obj[t] = Key(obj[t].uid)
        BY <1>0, <2>3, <3>1 DEF ObjFacts, IsKey, Late
      <3>7. obj[t].size = hdr[obj[t].uid].size
        BY <3>6 DEF Key
      <3>8. new[t].size < bucket_calc_units(op[t].size)
        BY <1>0, <2>3 DEF NewFacts
      <3>9. PICK x, y, z : x = new[t].size /\ y = bucket_calc_units(op[t].size) /\ z = obj[t].size
        OBVIOUS
      <3>10. x \in Nat /\ y \in Nat /\ z \in Nat
        BY <2>3, <3>9, UnitsOf DEF HeapTypes, Object, Allocating
      <3>11. x < z
        BY ONLY <3>5, <3>7, <3>8, <3>9, <3>10
      <3> QED BY <3>2, <3>9, <3>11
    <2>8. ASSUME pc'[t] = to
          PROVE  /\ HeldBy(t)' = HeldBy(t) \ {k.uid} /\ Old(t)' = Old(t) /\ (Loosens(t)' <=> Loosens(t))
                 /\ PtrFacts(t)' /\ ObjFacts(t)' /\ NewFacts(t)'
      <3>1. HeldBy(t)' = {} /\ Old(t)' = {} /\ ~ Loosens(t)'
        BY <2>3, <2>4, <2>7, <2>8 DEF HeldBy, Taken, Rest, Freed, Old, Loosens, Allocating
      <3>2. PtrFacts(t)'
        BY <1>0, <2>3, <2>4, <2>7, <2>8 DEF PtrFacts, Late, Allocating, CallFacts
      <3>3. ObjFacts(t)'
        BY <1>0, <1>k, <2>3, <2>4, <2>8 DEF ObjFacts, Late
      <3>4. NewFacts(t)'
        BY <2>4, <2>8 DEF NewFacts
      <3> QED BY <2>5, <3>1, <3>2, <3>3, <3>4
    <2>9. from # "idle" /\ to # "null" /\ k.uid \in HeldBy(t)
      BY <2>1, <2>4, <2>5
    <2> QED BY <2>2, <2>6, <2>8, <2>9, LiveAddEnd
  <1>4. CASE bst_add_end(t, "free_link", IF op[t].kind = "pfree" THEN "null" ELSE "down", obj[t])
    <2>1. PICK k, from, to : k = obj[t] /\ from = "free_link" /\ to = IF op[t].kind = "pfree" THEN "null" ELSE "down"
      OBVIOUS
    <2>2. bst_add_end(t, from, to, k)
      BY <1>4, <2>1
    <2>3. pc[t] = "free_link" /\ UNCHANGED <<hdr, ptr, op, obj, new>>
      BY <1>f, <2>1, <2>2
    <2>4. (op[t].kind = "pfree" /\ to = "null") \/ (op[t].kind = "prealloc" /\ to = "down")
      BY <1>0, <2>1, <2>3 DEF CallFacts
    <2>5. HeldBy(t) = {k.uid} /\ Old(t) = {} /\ (Loosens(t) <=> op[t].kind = "pfree")
      BY <2>1, <2>3 DEF HeldBy, Taken, Rest, Freed, Old, Loosens, Allocating
    <2>6. IsKey(k)
      BY <1>0, <2>1, <2>3, <2>4 DEF ObjFacts, Late
    <2>7. ASSUME pc'[t] = to
          PROVE  /\ HeldBy(t)' = HeldBy(t) \ {k.uid} /\ Old(t)' = Old(t) /\ (Loosens(t)' <=> Loosens(t))
                 /\ PtrFacts(t)' /\ ObjFacts(t)' /\ NewFacts(t)'
      <3>1. HeldBy(t)' = {} /\ Old(t)' = {} /\ (Loosens(t)' <=> op[t].kind = "pfree")
        BY <2>3, <2>4, <2>7 DEF HeldBy, Taken, Rest, Freed, Old, Loosens, Allocating
      <3>2. PtrFacts(t)'
        BY <1>0, <2>3, <2>4, <2>7 DEF PtrFacts, Late, Allocating
      <3>3. ObjFacts(t)'
        BY <2>4, <2>7 DEF ObjFacts, Late
      <3>4. NewFacts(t)'
        BY <2>4, <2>7 DEF NewFacts
      <3> QED BY <2>5, <3>1, <3>2, <3>3, <3>4
    <2>8. from # "idle" /\ (to = "null" => k.uid = obj[t].uid) /\ k.uid \in HeldBy(t)
      BY <2>1, <2>5
    <2> QED BY <2>2, <2>6, <2>7, <2>8, LiveAddEnd
  <1> QED BY <1>1, <1>2, <1>3, <1>4 DEF bst_add

\* Headers that are no tiles, and flags, do not move the tiles.
LEMMA SameTiles ==
  ASSUME HeapTypes, hdr' \in HdrType, check_zone,
         \A c \in Zone : hdr'[c].size = hdr[c].size /\ hdr'[c].magic = hdr[c].magic
  PROVE  Tiles' = Tiles /\ Zone' = Zone /\ check_zone' /\ hdr'[0].magic = hdr[0].magic
  <1>1. PICK h \in HdrType, g \in HdrType : h = hdr /\ g = hdr'
    BY DEF HeapTypes
  <1>2. \A j \in TilesOf(h) \ {NChunk} : g[j].size = h[j].size /\ g[j].magic = h[j].magic
    BY <1>1 DEF Zone, Tiles
  <1>3. TilesOf(g) = TilesOf(h)
    BY <1>2, TilesFrame
  <1>4. Tiles' = Tiles
    BY <1>1, <1>3 DEF Tiles
  <1>5. Zone' = Zone
    BY <1>4 DEF Zone
  <1>6. 0 \in Zone
    BY <1>1, TilesBasic, HeapAssumption DEF Zone, Tiles
  <1>7. hdr'[0].magic = hdr[0].magic
    BY <1>6
  <1> HIDE DEF Zone
  <1>8. check_zone' <=> (hdr'[0].magic => NChunk \in Tiles' /\ \A c \in Tiles' \ {NChunk} : hdr'[c].magic /\ hdr'[c].size > 0)
    BY DEF check_zone
  <1>9. check_zone'
    BY <1>4, <1>7, <1>8 DEF check_zone, Zone
  <1> QED BY <1>4, <1>5, <1>7, <1>9

LEMMA FlagWrite ==
  ASSUME HeapTypes, check_zone, NEW c \in Chunks, NEW b \in BOOLEAN, hdr' = [hdr EXCEPT ![c].used = b]
  PROVE  /\ hdr' \in HdrType /\ Tiles' = Tiles /\ Zone' = Zone /\ check_zone' /\ hdr'[0].magic = hdr[0].magic
         /\ \A d \in Chunks : hdr'[d].size = hdr[d].size /\ hdr'[d].magic = hdr[d].magic
         /\ \A d \in Chunks \ {c} : hdr'[d] = hdr[d]
         /\ hdr'[c].used = b /\ \A k : k.uid \in Chunks => (IsKey(k)' <=> IsKey(k))
  <1>1. hdr' \in HdrType
    BY DEF HeapTypes, HdrType
  <1>2. \A d \in Chunks : hdr'[d].size = hdr[d].size /\ hdr'[d].magic = hdr[d].magic
    BY DEF HeapTypes, HdrType
  <1>3. \A d \in Chunks \ {c} : hdr'[d] = hdr[d]
    BY DEF HeapTypes, HdrType
  <1>4. hdr'[c].used = b
    BY DEF HeapTypes, HdrType
  <1>5. \A d \in Zone : d \in Chunks
    <2>1. PICK h \in HdrType : h = hdr
      BY DEF HeapTypes
    <2> QED BY <2>1, TilesBasic DEF Zone, Tiles
  <1>6. Tiles' = Tiles /\ Zone' = Zone /\ check_zone' /\ hdr'[0].magic = hdr[0].magic
    BY <1>1, <1>2, <1>5, SameTiles
  <1>7. ASSUME NEW k, k.uid \in Chunks PROVE IsKey(k)' <=> IsKey(k)
    <2>1. PICK u : u = k.uid /\ u \in Chunks
      BY <1>7
    <2>2. hdr'[u].size = hdr[u].size
      BY <1>2, <2>1
    <2> QED BY <1>6, <2>1, <2>2 DEF IsKey, Key
  <1> QED BY <1>1, <1>2, <1>3, <1>4, <1>6, <1>7

LEMMA LiveMark ==
  ASSUME SoundUse, CallInv, CallInv', HeapTypes, check_zone, Live, NEW t \in Threads, bucket_mark_allocated(t)
  PROVE  HeapTypes' /\ check_zone' /\ Live'
  <1>1. PICK u, to, b : u = new[t].uid /\ to = AfterAlloc(t, new[t]) /\ b = TRUE
    OBVIOUS
  <1>2. /\ pc[t] = "mark" /\ pc' = [pc EXCEPT ![t] = to] /\ hdr' = [hdr EXCEPT ![u].used = b]
        /\ UNCHANGED <<ptr, op, obj, new, bucket, lost>>
    BY <1>1 DEF bucket_mark_allocated, Goto, pool, container
  <1>3. PtrFacts(t) /\ ObjFacts(t) /\ NewFacts(t) /\ CallFacts(t)
    BY DEF Live, CallInv
  <1>4. pc'[t] = to /\ Turn(t)
    BY <1>2 DEF CallInv, CallTypes, Turn
  <1>5. PICK p : op[t].p = p
    OBVIOUS
  <1>6. ptr[p] = u /\ u \in HeldBy(t) /\ Loosens(t)
    BY <1>1, <1>2, <1>3, <1>5 DEF PtrFacts, HeldBy, Taken, Allocating, Loosens
  <1>7. /\ p \in Ptrs /\ Works(t, p)
        /\ OwnedBy(p) = IF ptr[p] # Null /\ ~ Loosens(t) THEN {ptr[p]} ELSE {}
        /\ OwnedBy(p)' = IF ptr'[p] # Null /\ ~ Loosens(t)' THEN {ptr'[p]} ELSE {}
    BY <1>4, <1>5, TurnWorks
  <1>8. u \in Zone /\ u \in Chunks /\ u # Null
    BY <1>6, <1>7, LiveParts, ZoneFacts DEF Live, Chunks, Null
  <1>9. u = new[t].uid /\ new[t].size = hdr[u].size
    BY <1>1, <1>2, <1>3 DEF NewFacts, Key
  <1>10. hdr[u].size \in 1 .. NChunk
    BY <1>8, ZoneFacts DEF Live
  <1>11. op[t].kind \in {"pmalloc", "prealloc"} /\ to = IF op[t].kind = "prealloc" THEN "copy" ELSE "down"
    BY <1>1, <1>2, <1>3, <1>9, <1>10 DEF CallFacts, Allocating, AfterAlloc
  <1>12. ~ Loosens(t)' /\ OwnedBy(p) = {} /\ OwnedBy(p)' = {u}
    BY <1>2, <1>4, <1>6, <1>7, <1>8, <1>11 DEF Loosens
  <1>13. Old(t)' = Old(t) /\ HeldBy(t) = {u} \cup Old(t) /\ HeldBy(t)' = Old(t) /\ u \notin Old(t)
    <2>1. Old(t)' = Old(t)
      BY <1>2, <1>4, <1>11 DEF Old
    <2>2. HeldBy(t) = {u} \cup Old(t)
      BY <1>1, <1>2 DEF HeldBy, Taken, Rest, Freed, Allocating
    <2>3. HeldBy(t)' = Old(t)'
      BY <1>4, <1>11 DEF HeldBy, Taken, Rest, Freed, Allocating
    <2>4. u \notin Old(t)
      BY <1>5, <1>6 DEF Old
    <2> QED BY <2>1, <2>2, <2>3, <2>4
  <1>14. /\ hdr' \in HdrType /\ Zone' = Zone /\ check_zone' /\ hdr'[0].magic = hdr[0].magic
         /\ \A d \in Chunks : hdr'[d].size = hdr[d].size /\ hdr'[d].magic = hdr[d].magic
         /\ \A d \in Chunks \ {u} : hdr'[d] = hdr[d]
         /\ hdr'[u].used = b /\ \A k : k.uid \in Chunks => (IsKey(k)' <=> IsKey(k))
    <2>1. b \in BOOLEAN
      BY <1>1
    <2> QED BY <1>2, <1>8, <2>1, FlagWrite
  <1>15. HeapTypes'
    BY <1>2, <1>14 DEF HeapTypes
  <1>16. Free' = Free
    BY <1>2 DEF Free
  <1>p. /\ HeldBy(t) \cap Free = {} /\ OwnedBy(p) \cap Free = {} /\ HeldBy(t) \cap OwnedBy(p) = {}
        /\ HeldBy(t) \subseteq Zone /\ OwnedBy(p) \subseteq Zone /\ Free \subseteq Zone
        /\ \A c \in Free \cup HeldBy(t) \cup OwnedBy(p) : hdr[c].used <=> c \in OwnedBy(p) \cup Old(t)
        /\ "prealloc" \in Ops =>
              \A c \in OwnedBy(p) \cup Old(t) : \A s \in Sizes : hdr[c].size >= bucket_calc_units(s)
    BY <1>7, LiveParts
  <1>z. Zone \subseteq Chunks
    BY ZoneFacts DEF Live
  <1>17. \A c \in Free \cup HeldBy(t) \cup OwnedBy(p) : hdr'[c].used <=> c \in OwnedBy(p)' \cup Old(t)'
    <2> TAKE c \in Free \cup HeldBy(t) \cup OwnedBy(p)
    <2>1. CASE c = u
      BY <1>1, <1>12, <1>14, <2>1
    <2>2. CASE c # u
      BY <1>12, <1>13, <1>14, <1>p, <1>z, <2>2
    <2> QED BY <2>1, <2>2
  <1>18. "prealloc" \in Ops => \A c \in OwnedBy(p)' \cup Old(t)' : \A s \in Sizes : hdr'[c].size >= bucket_calc_units(s)
    <2> SUFFICES ASSUME "prealloc" \in Ops, NEW c \in OwnedBy(p)' \cup Old(t)', NEW s \in Sizes
                 PROVE  hdr'[c].size >= bucket_calc_units(s)
      OBVIOUS
    <2>1. CASE c = u
      <3>1. hdr'[u].size >= bucket_calc_units(op[t].size)
        BY <1>2, <1>3, <1>8, <1>9, <1>14 DEF NewFacts
      <3>2. bucket_calc_units(op[t].size) = bucket_calc_units(s)
        BY <1>2, UnitsOf DEF SoundUse, Allocating
      <3> QED BY <2>1, <3>1, <3>2
    <2>2. CASE c # u
      <3>1. c \in Old(t) /\ c \in Chunks
        BY <1>12, <1>13, <1>p, <1>z, <2>2
      <3> QED BY <1>14, <1>p, <3>1
    <2> QED BY <2>1, <2>2
  <1>19. \A c \in Chunks : c \notin Mine(t, p) => hdr'[c] = hdr[c]
    BY <1>6, <1>14 DEF Mine
  <1>20. PICK N : N = {}
    OBVIOUS
  <1>21. /\ Zone' = Zone \cup N /\ N \cap Zone = {}
         /\ Free' \cup HeldBy(t)' \cup OwnedBy(p)' = Free \cup HeldBy(t) \cup OwnedBy(p) \cup N
         /\ HeldBy(t)' \cap Free' = {} /\ OwnedBy(p)' \cap Free' = {} /\ HeldBy(t)' \cap OwnedBy(p)' = {}
         /\ \A c \in Free \cup HeldBy(t) \cup OwnedBy(p) \cup N : hdr'[c].used <=> c \in OwnedBy(p)' \cup Old(t)'
    BY <1>12, <1>13, <1>14, <1>16, <1>17, <1>20, <1>p
  <1>22. bucket' \cap lost' = {} /\ \A k \in bucket' \cup lost' : k \in bucket \cup lost \/ IsKey(k)'
    BY <1>2 DEF Live, Keys
  <1>23. PtrFacts(t)'
    BY <1>2, <1>3, <1>4, <1>11 DEF PtrFacts, Late, Allocating
  <1>24. ObjFacts(t)'
    <2>1. obj[t].uid \in Chunks
      BY DEF HeapTypes, Object
    <2> QED BY <1>2, <1>3, <1>4, <1>11, <1>14, <2>1 DEF ObjFacts, Late
  <1>25. NewFacts(t)' /\ NullFact(t)'
    BY <1>4, <1>11 DEF NewFacts, NullFact
  <1>26. hdr'[0].magic
    BY <1>14 DEF Live
  <1> QED BY <1>7, <1>14, <1>15, <1>18, <1>19, <1>21, <1>22, <1>23, <1>24, <1>25, <1>26, LiveStep

LEMMA LiveRecycle ==
  ASSUME SoundUse, CallInv, CallInv', HeapTypes, check_zone, Live, NEW t \in Threads, pool_recycle_object(t)
  PROVE  HeapTypes' /\ check_zone' /\ Live'
  <1>1. PICK u, to, b : u = obj[t].uid /\ to = (IF hdr[u].used THEN "free_add" ELSE "down") /\ b = FALSE
    OBVIOUS
  <1>2. /\ pc[t] = "free" /\ pc' = [pc EXCEPT ![t] = to] /\ hdr' = [hdr EXCEPT ![u].used = b]
        /\ UNCHANGED <<ptr, op, obj, new, bucket, lost>>
    BY <1>1 DEF pool_recycle_object, Goto, pool, container
  <1>3. PtrFacts(t) /\ ObjFacts(t) /\ CallFacts(t)
    BY DEF Live, CallInv
  <1>4. pc'[t] = to /\ Turn(t)
    BY <1>2 DEF CallInv, CallTypes, Turn
  <1>5. PICK p : op[t].p = p
    OBVIOUS
  <1>6. op[t].kind \in {"pfree", "prealloc"} /\ ~ Loosens(t)
    BY <1>2, <1>3 DEF CallFacts, Loosens
  <1>7. /\ p \in Ptrs /\ Works(t, p)
        /\ OwnedBy(p) = IF ptr[p] # Null /\ ~ Loosens(t) THEN {ptr[p]} ELSE {}
        /\ OwnedBy(p)' = IF ptr'[p] # Null /\ ~ Loosens(t)' THEN {ptr'[p]} ELSE {}
    BY <1>4, <1>5, TurnWorks
  <1>8. u \in Chunks /\ u # Null
    BY <1>1 DEF HeapTypes, Object, Chunks, Null
  <1>9. IF op[t].kind = "pfree" THEN OwnedBy(p) = {u} /\ Old(t) = {}
        ELSE OwnedBy(p) = {ptr[p]} /\ ptr[p] # u /\ ptr[p] # Null /\ Old(t) = {u}
    <2>1. CASE op[t].kind = "pfree"
      <3>1. ptr[p] = u
        BY <1>1, <1>2, <1>3, <1>5, <2>1 DEF PtrFacts
      <3> QED BY <1>6, <1>7, <1>8, <2>1, <3>1 DEF Old
    <2>2. CASE op[t].kind = "prealloc"
      <3>1. ptr[p] # u /\ ptr[p] # Null
        BY <1>1, <1>2, <1>3, <1>5, <2>2 DEF PtrFacts
      <3> QED BY <1>1, <1>2, <1>5, <1>6, <1>7, <2>2, <3>1 DEF Old
    <2> QED BY <1>6, <2>1, <2>2
  <1>10. HeldBy(t) = Old(t)
    BY <1>2 DEF HeldBy, Taken, Rest, Freed, Allocating
  <1>p. /\ HeldBy(t) \cap Free = {} /\ OwnedBy(p) \cap Free = {} /\ HeldBy(t) \cap OwnedBy(p) = {}
        /\ HeldBy(t) \subseteq Zone /\ OwnedBy(p) \subseteq Zone /\ Free \subseteq Zone
        /\ \A c \in Free \cup HeldBy(t) \cup OwnedBy(p) : hdr[c].used <=> c \in OwnedBy(p) \cup Old(t)
        /\ "prealloc" \in Ops =>
              \A c \in OwnedBy(p) \cup Old(t) : \A s \in Sizes : hdr[c].size >= bucket_calc_units(s)
    BY <1>7, LiveParts
  <1>z. Zone \subseteq Chunks
    BY ZoneFacts DEF Live
  <1>11. hdr[u].used /\ to = "free_add"
    <2>1. u \in OwnedBy(p) \cup Old(t) /\ u \in Free \cup HeldBy(t) \cup OwnedBy(p)
      BY <1>9, <1>10
    <2> QED BY <1>1, <1>p, <2>1
  <1>12. HeldBy(t)' = {u} /\ Old(t)' = {} /\ (Loosens(t)' <=> op[t].kind = "pfree")
    BY <1>1, <1>2, <1>4, <1>11 DEF HeldBy, Taken, Rest, Freed, Old, Allocating, Loosens
  <1>13. OwnedBy(p)' = IF op[t].kind = "pfree" THEN {} ELSE {ptr[p]}
    BY <1>2, <1>7, <1>9, <1>12
  <1>14. /\ hdr' \in HdrType /\ Zone' = Zone /\ check_zone' /\ hdr'[0].magic = hdr[0].magic
         /\ \A d \in Chunks : hdr'[d].size = hdr[d].size /\ hdr'[d].magic = hdr[d].magic
         /\ \A d \in Chunks \ {u} : hdr'[d] = hdr[d]
         /\ hdr'[u].used = b /\ \A k : k.uid \in Chunks => (IsKey(k)' <=> IsKey(k))
    <2>1. b \in BOOLEAN
      BY <1>1
    <2> QED BY <1>2, <1>8, <2>1, FlagWrite
  <1>15. HeapTypes'
    BY <1>2, <1>14 DEF HeapTypes
  <1>16. Free' = Free
    BY <1>2 DEF Free
  <1>17. \A c \in Free \cup HeldBy(t) \cup OwnedBy(p) : hdr'[c].used <=> c \in OwnedBy(p)' \cup Old(t)'
    <2> TAKE c \in Free \cup HeldBy(t) \cup OwnedBy(p)
    <2>1. CASE c = u
      BY <1>1, <1>9, <1>12, <1>13, <1>14, <2>1
    <2>2. CASE c # u
      <3>1. c \in Chunks /\ hdr'[c] = hdr[c]
        BY <1>14, <1>p, <1>z, <2>2
      <3>2. hdr[c].used <=> c \in OwnedBy(p) \cup Old(t)
        BY <1>p
      <3> QED BY <1>9, <1>12, <1>13, <2>2, <3>1, <3>2
    <2> QED BY <2>1, <2>2
  <1>18. "prealloc" \in Ops => \A c \in OwnedBy(p)' \cup Old(t)' : \A s \in Sizes : hdr'[c].size >= bucket_calc_units(s)
    <2>1. \A c \in OwnedBy(p)' \cup Old(t)' : c \in OwnedBy(p) \cup Old(t) /\ c \in Chunks
      BY <1>9, <1>10, <1>12, <1>13, <1>p, <1>z
    <2> QED BY <1>14, <1>p, <2>1
  <1>19. \A c \in Chunks : c \notin Mine(t, p) => hdr'[c] = hdr[c]
    BY <1>9, <1>10, <1>14 DEF Mine
  <1>20. PICK N : N = {}
    OBVIOUS
  <1>21. /\ Zone' = Zone \cup N /\ N \cap Zone = {}
         /\ Free' \cup HeldBy(t)' \cup OwnedBy(p)' = Free \cup HeldBy(t) \cup OwnedBy(p) \cup N
         /\ HeldBy(t)' \cap Free' = {} /\ OwnedBy(p)' \cap Free' = {} /\ HeldBy(t)' \cap OwnedBy(p)' = {}
         /\ \A c \in Free \cup HeldBy(t) \cup OwnedBy(p) \cup N : hdr'[c].used <=> c \in OwnedBy(p)' \cup Old(t)'
    BY <1>9, <1>10, <1>12, <1>13, <1>14, <1>16, <1>17, <1>20, <1>p
  <1>22. bucket' \cap lost' = {} /\ \A k \in bucket' \cup lost' : k \in bucket \cup lost \/ IsKey(k)'
    BY <1>2 DEF Live, Keys
  <1>23. PtrFacts(t)'
    BY <1>2, <1>3, <1>4, <1>6, <1>11 DEF PtrFacts, Late, Allocating
  <1>24. ObjFacts(t)'
    <2>1. obj[t].uid \in Chunks
      BY DEF HeapTypes, Object
    <2> QED BY <1>2, <1>3, <1>4, <1>11, <1>14, <2>1 DEF ObjFacts, Late
  <1>25. NewFacts(t)' /\ NullFact(t)'
    BY <1>4, <1>11 DEF NewFacts, NullFact
  <1>26. hdr'[0].magic
    BY <1>14 DEF Live
  <1> QED BY <1>7, <1>14, <1>15, <1>18, <1>19, <1>21, <1>22, <1>23, <1>24, <1>25, <1>26, LiveStep

LEMMA LiveSetPtr ==
  ASSUME SoundUse, CallInv, CallInv', HeapTypes, check_zone, Live, NEW t \in Threads, set_alloc_ptr(t)
  PROVE  HeapTypes' /\ Live'
  <1>1. PICK p, u : op[t].p = p /\ u = new[t].uid
    OBVIOUS
  <1>2. /\ UNCHANGED <<hdr, op, obj, new, bucket, lost>>
        /\ \/ pc[t] = "set" /\ pc' = [pc EXCEPT ![t] = "mark"] /\ ptr' = [ptr EXCEPT ![p] = u]
           \/ pc[t] = "null" /\ pc' = [pc EXCEPT ![t] = "down"] /\ ptr' = [ptr EXCEPT ![p] = Null]
    BY <1>1 DEF set_alloc_ptr, Goto, pool, container
  <1>3. PtrFacts(t) /\ ObjFacts(t) /\ NewFacts(t) /\ CallFacts(t)
    BY DEF Live, CallInv
  <1>4. Turn(t)
    BY <1>1, <1>2 DEF Turn
  <1>5. /\ p \in Ptrs /\ Works(t, p)
        /\ OwnedBy(p) = IF ptr[p] # Null /\ ~ Loosens(t) THEN {ptr[p]} ELSE {}
        /\ OwnedBy(p)' = IF ptr'[p] # Null /\ ~ Loosens(t)' THEN {ptr'[p]} ELSE {}
    BY <1>1, <1>4, TurnWorks
  <1>6. \A k : IsKey(k)' <=> IsKey(k)
    BY <1>2 DEF IsKey, Key, Zone, Tiles, TilesOf
  <1>7. bucket' \cap lost' = {} /\ (\A k \in bucket' \cup lost' : k \in bucket \cup lost \/ IsKey(k)') /\ Free' = Free
    BY <1>2 DEF Live, Keys, Free
  <1>8. CASE pc[t] = "set" /\ pc' = [pc EXCEPT ![t] = "mark"] /\ ptr' = [ptr EXCEPT ![p] = u]
    <2>1. pc'[t] = "mark" /\ ptr'[p] = u
      BY <1>5, <1>8 DEF CallInv, CallTypes, HeapTypes
    <2>2. Taken(t) = {u} /\ HeldBy(t) = {u} /\ Old(t) = {}
      BY <1>1, <1>8 DEF HeldBy, Taken, Rest, Freed, Old, Allocating
    <2>3. u \in Chunks /\ u # Null /\ ~ Loosens(t) /\ Loosens(t)'
      BY <1>5, <1>8, <2>1, <2>2, LiveParts, ZoneFacts DEF Live, Chunks, Null, Loosens
    <2>4. HeapTypes'
      BY <1>2, <1>8, <2>3 DEF HeapTypes
    <2>5. op[t].kind \in {"pmalloc", "prealloc"}
      BY <1>3, <1>8 DEF CallFacts, Allocating
    <2>6. OwnedBy(p)' = {} /\ OwnedBy(p) = IF ptr[p] # Null THEN {ptr[p]} ELSE {}
      BY <1>5, <2>3
    <2>7. CASE op[t].kind = "pmalloc"
      <3>1. ptr[p] = Null /\ Old(t)' = {} /\ HeldBy(t)' = {u}
        <4>1. Old(t)' = {}
          BY <1>2, <2>7 DEF Old
        <4> QED BY <1>1, <1>2, <1>3, <1>8, <2>1, <2>7, <4>1 DEF PtrFacts, Late, HeldBy, Taken, Rest, Freed, Allocating
      <3>2. PtrFacts(t)'
        BY <1>1, <1>2, <2>1, <2>7 DEF PtrFacts, Late, Allocating
      <3>3. ObjFacts(t)'
        BY <1>2, <2>7 DEF ObjFacts
      <3>4. NewFacts(t)' /\ NullFact(t)'
        BY <1>2, <1>3, <1>8, <2>1 DEF NewFacts, NullFact, Key, bucket_calc_units
      <3>5. OwnedBy(p)' = OwnedBy(p) /\ HeldBy(t)' = HeldBy(t) /\ Old(t)' = Old(t)
        BY <2>2, <2>6, <3>1
      <3>6. bucket' \cup lost' = bucket \cup lost
        BY <1>2
      <3> QED BY <1>2, <1>5, <1>7, <2>4, <3>2, <3>3, <3>4, <3>5, <3>6, LiveSame
    <2>8. CASE op[t].kind = "prealloc"
      <3>1. PICK o : o = obj[t].uid
        OBVIOUS
      <3>2. ptr[p] = o /\ o # Null
        BY <1>1, <1>3, <1>8, <2>8, <3>1 DEF PtrFacts, Allocating, HeapTypes, Object, Chunks, Null
      <3>3. OwnedBy(p) = {o}
        BY <2>6, <3>2
      <3>4. o # u
        BY <1>5, <2>2, <3>3, LiveParts
      <3>5. Old(t)' = {o}
        BY <1>1, <1>2, <2>1, <2>8, <3>1, <3>4 DEF Old
      <3>6. HeldBy(t)' = {u, o}
        BY <1>1, <1>2, <2>1, <3>5 DEF HeldBy, Taken, Rest, Freed, Allocating
      <3>7. PtrFacts(t)'
        BY <1>1, <1>2, <2>1, <2>3, <2>8, <3>1, <3>4 DEF PtrFacts, Late, Allocating
      <3>8. ObjFacts(t)'
        BY <1>2, <1>3, <1>6, <1>8, <2>1 DEF ObjFacts, Late
      <3>9. NewFacts(t)' /\ NullFact(t)'
        BY <1>2, <1>3, <1>8, <2>1 DEF NewFacts, NullFact, Key, bucket_calc_units
      <3>10. /\ OwnedBy(p)' \cup Old(t)' = OwnedBy(p) \cup Old(t)
             /\ Free' \cup HeldBy(t)' \cup OwnedBy(p)' = Free \cup HeldBy(t) \cup OwnedBy(p)
             /\ HeldBy(t)' \cap Free' = {} /\ OwnedBy(p)' \cap Free' = {} /\ HeldBy(t)' \cap OwnedBy(p)' = {}
        BY <1>5, <1>7, <2>2, <2>6, <3>3, <3>5, <3>6, LiveParts
      <3> QED BY <1>2, <1>5, <1>7, <2>4, <3>7, <3>8, <3>9, <3>10, LiveKeep
    <2> QED BY <2>5, <2>7, <2>8
  <1>9. CASE pc[t] = "null" /\ pc' = [pc EXCEPT ![t] = "down"] /\ ptr' = [ptr EXCEPT ![p] = Null]
    <2>1. pc'[t] = "down" /\ ptr'[p] = Null /\ op[t].kind = "pfree"
      BY <1>3, <1>5, <1>9 DEF CallInv, CallTypes, HeapTypes, CallFacts
    <2>2. HeapTypes'
      BY <1>2, <1>9 DEF HeapTypes
    <2>3. OwnedBy(p)' = OwnedBy(p)
      BY <1>5, <1>9, <2>1 DEF Loosens
    <2>4. HeldBy(t)' = HeldBy(t) /\ Old(t)' = Old(t)
      BY <1>9, <2>1 DEF HeldBy, Taken, Rest, Freed, Old, Allocating
    <2>5. PtrFacts(t)' /\ ObjFacts(t)'
      BY <2>1 DEF PtrFacts, Late, Allocating, ObjFacts
    <2>6. NewFacts(t)' /\ NullFact(t)'
      BY <2>1 DEF NewFacts, NullFact
    <2>7. bucket' \cup lost' = bucket \cup lost
      BY <1>2
    <2> QED BY <1>2, <1>5, <1>7, <2>2, <2>3, <2>4, <2>5, <2>6, <2>7, LiveSame
  <1> QED BY <1>2, <1>8, <1>9

LEMMA LiveCopy ==
  ASSUME SoundUse, CallInv, CallInv', HeapTypes, check_zone, Live, NEW t \in Threads,
         persistent_copy_content(t), mode' # "wrecked"
  PROVE  HeapTypes' /\ Live'
  <1>1. PICK room : room = IF new[t].uid = Null THEN 0 ELSE new[t].size
    OBVIOUS
  <1>2. /\ pc[t] = "copy" /\ UNCHANGED <<hdr, ptr, op, obj, new, bucket, lost>>
        /\ obj[t].size <= room /\ pc' = [pc EXCEPT ![t] = "free"]
    BY <1>1 DEF persistent_copy_content, Goto, media, container
  <1>3. PtrFacts(t) /\ ObjFacts(t) /\ CallFacts(t)
    BY DEF Live, CallInv
  <1>4. pc'[t] = "free" /\ Turn(t) /\ op[t].kind = "prealloc"
    BY <1>2, <1>3 DEF CallInv, CallTypes, Turn, CallFacts
  <1>5. obj[t].size \in 1 .. NChunk
    <2>1. IsKey(obj[t])
      BY <1>2, <1>3, <1>4 DEF ObjFacts, Late
    <2>2. PICK u : u = obj[t].uid
      OBVIOUS
    <2>3. u \in Zone /\ obj[t] = [uid |-> u, size |-> hdr[u].size]
      BY <2>1, <2>2 DEF IsKey, Key
    <2>4. hdr[u].size \in 1 .. NChunk
      BY <2>3, ZoneFacts DEF Live
    <2> QED BY <2>3, <2>4
  <1>6. ptr[op[t].p] = new[t].uid /\ new[t].uid # obj[t].uid /\ new[t].uid # Null
    <2>1. new[t].size \in Nat
      BY DEF HeapTypes
    <2>2. PICK x, y : x = obj[t].size /\ y = new[t].size
      OBVIOUS
    <2>3. x <= room => ~ (y < x /\ room = y) /\ room # 0
      BY <1>5, <2>1, <2>2
    <2>4. new[t].uid # Null /\ ~ new[t].size < obj[t].size
      BY <1>1, <1>2, <2>2, <2>3
    <2> QED BY <1>2, <1>3, <1>4, <2>4 DEF PtrFacts
  <1>7. HeapTypes'
    BY <1>2 DEF HeapTypes
  <1>8. HeldBy(t)' = HeldBy(t) /\ Old(t)' = Old(t) /\ (Loosens(t)' <=> Loosens(t))
    BY <1>2, <1>4 DEF HeldBy, Taken, Rest, Freed, Old, Loosens, Allocating
  <1>9. PtrFacts(t)'
    BY <1>2, <1>4, <1>6 DEF PtrFacts, Late, Allocating
  <1>10. ObjFacts(t)'
    <2>1. \A c : IsKey(c)' <=> IsKey(c)
      BY <1>2 DEF IsKey, Key, Zone, Tiles, TilesOf
    <2> QED BY <1>2, <1>3, <1>4, <2>1 DEF ObjFacts, Late
  <1>11. NewFacts(t)' /\ NullFact(t)'
    BY <1>4 DEF NewFacts, NullFact
  <1>12. bucket' \cap lost' = {} /\ bucket' \cup lost' = bucket \cup lost
    BY <1>2 DEF Live, Keys
  <1> QED BY <1>2, <1>4, <1>7, <1>8, <1>9, <1>10, <1>11, <1>12, LiveTurn

LEMMA LiveWrite ==
  ASSUME SoundUse, CallInv, CallInv', HeapTypes, check_zone, Live, NEW t \in Threads, write_chunk_header(t)
  PROVE  HeapTypes' /\ check_zone' /\ Live'
  <1>1. PICK n, u, k, p, F, T : /\ n = NewChunk(t) /\ u = new[t].uid /\ k = new[t].size /\ op[t].p = p
                                /\ F = FALSE /\ T = TRUE /\ F \in BOOLEAN /\ T \in BOOLEAN
    OBVIOUS
  <1>2. /\ UNCHANGED <<ptr, op, obj, new, bucket, lost>>
        /\ \/ /\ pc[t] = "split" /\ pc' = [pc EXCEPT ![t] = "magic"]
              /\ hdr' = [hdr EXCEPT ![n] = [magic |-> F, used |-> F, size |-> hdr[u].size - k]]
           \/ /\ pc[t] = "magic" /\ pc' = [pc EXCEPT ![t] = "shrink"]
              /\ hdr' = [hdr EXCEPT ![n].magic = T]
    BY <1>1, Zenon DEF write_chunk_header, Goto, pool, container
  <1>3. PtrFacts(t) /\ ObjFacts(t) /\ NewFacts(t)
    BY DEF Live
  <1>4. /\ pc[t] \in Splitting /\ u \in Zone /\ k \in Nat \ {0} /\ k < hdr[u].size
        /\ n \in Chunks /\ n \notin Tiles
    BY <1>1, <1>2, SplitFacts DEF Splitting
  <1>5. hdr \in HdrType /\ Zone \subseteq Chunks /\ hdr[u].size \in 1 .. NChunk
    BY <1>4, ZoneFacts DEF Live, HeapTypes
  <1>6. hdr' \in HdrType /\ \A c \in Chunks \ {n} : hdr'[c] = hdr[c]
    <2>1. hdr[u].size - k \in 0 .. NChunk
      BY <1>4, <1>5, HeapAssumption
    <2>2. PICK d \in 0 .. NChunk : d = hdr[u].size - k
      BY <2>1
    <2>3. CASE hdr' = [hdr EXCEPT ![n] = [magic |-> F, used |-> F, size |-> hdr[u].size - k]]
      <3>1. F \in BOOLEAN /\ hdr' = [hdr EXCEPT ![n] = [magic |-> F, used |-> F, size |-> d]]
        BY <1>1, <2>2, <2>3
      <3> QED BY ONLY <1>4, <1>5, <3>1, d \in 0 .. NChunk DEF HdrType
    <2>4. CASE hdr' = [hdr EXCEPT ![n].magic = T]
      <3>1. T \in BOOLEAN
        BY <1>1
      <3> QED BY ONLY <1>4, <1>5, <2>4, <3>1 DEF HdrType
    <2> QED BY <1>2, <2>3, <2>4
  <1>7. \A c \in Zone : hdr'[c] = hdr[c]
    BY <1>4, <1>5, <1>6 DEF Zone
  <1>8. Tiles' = Tiles /\ Zone' = Zone /\ check_zone' /\ hdr'[0].magic = hdr[0].magic
    BY <1>6, <1>7, SameTiles
  <1>9. HeapTypes'
    BY <1>2, <1>6 DEF HeapTypes
  <1>10. Turn(t) /\ \/ pc[t] = "split" /\ pc'[t] = "magic"
                    \/ pc[t] = "magic" /\ pc'[t] = "shrink"
    BY <1>2 DEF CallInv, CallTypes, Turn
  <1>11. HeldBy(t)' = HeldBy(t) /\ Old(t)' = Old(t) /\ (Loosens(t)' <=> Loosens(t))
    BY <1>2, <1>10 DEF HeldBy, Taken, Rest, Freed, Old, Loosens, Allocating
  <1>12. p \in Ptrs /\ Works(t, p) /\ OwnedBy(p)' = OwnedBy(p)
    BY <1>1, <1>2, <1>10, <1>11, TurnWorks
  <1>13. Free' = Free /\ bucket' \cap lost' = {} /\ \A j \in bucket' \cup lost' : j \in bucket \cup lost \/ IsKey(j)'
    BY <1>2 DEF Live, Keys, Free
  <1>p. /\ HeldBy(t) \cap Free = {} /\ OwnedBy(p) \cap Free = {} /\ HeldBy(t) \cap OwnedBy(p) = {}
        /\ HeldBy(t) \subseteq Zone /\ OwnedBy(p) \subseteq Zone /\ Free \subseteq Zone
        /\ \A c \in Free \cup HeldBy(t) \cup OwnedBy(p) : hdr[c].used <=> c \in OwnedBy(p) \cup Old(t)
        /\ "prealloc" \in Ops =>
              \A c \in OwnedBy(p) \cup Old(t) : \A s \in Sizes : hdr[c].size >= bucket_calc_units(s)
    BY <1>12, LiveParts
  <1>14. \A c \in Chunks : c \notin Mine(t, p) => hdr'[c] = hdr[c]
    BY <1>1, <1>4, <1>6 DEF Mine
  <1>15. PICK N : N = {}
    OBVIOUS
  <1>16. /\ Zone' = Zone \cup N /\ N \cap Zone = {}
         /\ Free' \cup HeldBy(t)' \cup OwnedBy(p)' = Free \cup HeldBy(t) \cup OwnedBy(p) \cup N
         /\ HeldBy(t)' \cap Free' = {} /\ OwnedBy(p)' \cap Free' = {} /\ HeldBy(t)' \cap OwnedBy(p)' = {}
    BY <1>8, <1>11, <1>12, <1>13, <1>15, <1>p
  <1>17. \A c \in Free \cup HeldBy(t) \cup OwnedBy(p) \cup N : hdr'[c].used <=> c \in OwnedBy(p)' \cup Old(t)'
    BY <1>7, <1>11, <1>12, <1>15, <1>p
  <1>18. "prealloc" \in Ops => \A c \in OwnedBy(p)' \cup Old(t)' : \A s \in Sizes : hdr'[c].size >= bucket_calc_units(s)
    BY <1>7, <1>11, <1>12, <1>p DEF HeldBy
  <1>19. PtrFacts(t)'
    BY <1>2, <1>3, <1>10 DEF PtrFacts, Late, Allocating
  <1>20. ObjFacts(t)'
    <2>1. \A c : IsKey(c) => IsKey(c)'
      BY <1>7, <1>8 DEF IsKey, Key
    <2> QED BY <1>2, <1>3, <1>10, <2>1 DEF ObjFacts, Late
  <1>21. NewFacts(t)' /\ NullFact(t)'
    <2>1. hdr'[u] = hdr[u] /\ new'[t].uid = u /\ new'[t].size = k /\ NewChunk(t)' = n
      BY <1>1, <1>2, <1>4, <1>7 DEF NewChunk
    <2>2. k = bucket_calc_units(op[t].size) /\ bucket_calc_units(op[t].size)' = bucket_calc_units(op[t].size)
      BY <1>1, <1>2, <1>3, <1>10 DEF NewFacts, bucket_calc_units
    <2>3. hdr'[n].size = hdr[u].size - k /\ ~ hdr'[n].used
      <3>1. CASE pc[t] = "split"
        BY <1>1, <1>2, <1>4, <1>5, <3>1 DEF HdrType
      <3>2. CASE pc[t] = "magic"
        <4>1. hdr[n].size = hdr[u].size - k /\ ~ hdr[n].used
          BY <1>1, <1>3, <3>2 DEF NewFacts
        <4>2. hdr'[n].size = hdr[n].size /\ hdr'[n].used = hdr[n].used
          BY <1>2, <1>4, <1>5, <3>2 DEF HdrType
        <4> QED BY <4>1, <4>2
      <3> QED BY <1>10, <3>1, <3>2
    <2>4. pc'[t] = "shrink" => hdr'[n].magic
      <3>1. pc'[t] = "shrink" => hdr'[n].magic = T
        BY <1>2, <1>4, <1>5, <1>10 DEF HdrType
      <3> QED BY <1>1, <3>1
    <2>5. NewFacts(t)'
      BY <1>4, <1>10, <2>1, <2>2, <2>3, <2>4 DEF NewFacts
    <2> QED BY <1>10, <2>5 DEF NullFact
  <1>22. hdr'[0].magic
    BY <1>8 DEF Live
  <1> QED BY <1>8, <1>9, <1>12, <1>13, <1>14, <1>16, <1>17, <1>18, <1>19, <1>20, <1>21, <1>22, LiveStep

LEMMA LiveShrink ==
  ASSUME SoundUse, CallInv, CallInv', HeapTypes, check_zone, Live, NEW t \in Threads, set_chunk_size(t)
  PROVE  HeapTypes' /\ check_zone' /\ Live'
  <1>1. PICK n, u, k, p : n = NewChunk(t) /\ u = new[t].uid /\ k = new[t].size /\ op[t].p = p
    OBVIOUS
  <1>2. /\ UNCHANGED <<ptr, op, obj, new, bucket, lost>>
        /\ pc[t] = "shrink" /\ pc' = [pc EXCEPT ![t] = "split_add"]
        /\ hdr' = [hdr EXCEPT ![u].size = k]
    BY <1>1 DEF set_chunk_size, Goto, pool, container
  <1>3. PtrFacts(t) /\ ObjFacts(t) /\ NewFacts(t) /\ CallFacts(t)
    BY DEF Live, CallInv
  <1>4. /\ u \in Zone /\ k \in Nat \ {0} /\ k < hdr[u].size /\ n = u + k
        /\ n \in Chunks /\ n \notin Tiles
    BY <1>1, <1>2, SplitFacts DEF Splitting
  <1>5. /\ hdr \in HdrType /\ Zone \subseteq Chunks /\ hdr[u].size \in 1 .. NChunk /\ Sound(hdr)
        /\ Zone = TilesOf(hdr) \ {NChunk} /\ 0 \in Zone /\ \A c \in Zone : hdr[c].magic
    BY <1>4, ZoneFacts DEF Live, HeapTypes
  <1>6. k \in 0 .. NChunk /\ u \in Chunks
    BY <1>4, <1>5, HeapAssumption
  <1>7. /\ hdr' \in HdrType /\ \A c \in Chunks \ {u} : hdr'[c] = hdr[c]
        /\ hdr'[u].size = k /\ hdr'[u].magic = hdr[u].magic /\ hdr'[u].used = hdr[u].used
    BY <1>2, <1>5, <1>6 DEF HdrType
  <1>8. n # u /\ hdr'[n] = hdr[n] /\ hdr[n].size = hdr[u].size - k /\ ~ hdr[n].used /\ hdr[n].magic
    <2>1. n # u
      BY <1>4, <1>5 DEF Zone
    <2> QED BY <1>1, <1>2, <1>3, <1>4, <1>7, <2>1 DEF NewFacts
  <1>9. PICK g \in HdrType : g = hdr'
    BY <1>7
  <1>10. TilesOf(g) = TilesOf(hdr) \cup {u + k} /\ Sound(g)
    <2>1. g[u].size = k /\ \A c \in Chunks \ {u} : g[c].size = hdr[c].size
      BY <1>7, <1>9
    <2>2. hdr[u + k].size = hdr[u].size - k /\ u \in TilesOf(hdr) \ {NChunk}
      BY <1>4, <1>5, <1>8
    <2> QED BY <1>4, <1>5, <2>1, <2>2, TilesSplit
  <1>11. PICK N : N = {n}
    OBVIOUS
  <1>12. Zone' = Zone \cup N /\ N \cap Zone = {}
    <2>1. Tiles' = Tiles \cup {n}
      BY <1>4, <1>9, <1>10 DEF Tiles
    <2>2. n # NChunk
      BY <1>4, HeapAssumption DEF Chunks
    <2> QED BY <1>4, <1>11, <2>1, <2>2 DEF Zone
  <1>13. check_zone' /\ hdr'[0].magic
    <2>1. \A c \in Zone' : hdr'[c].magic
      BY <1>5, <1>7, <1>8, <1>11, <1>12
    <2>2. NChunk \in Tiles' /\ \A c \in Zone' : hdr'[c].size > 0
      BY <1>9, <1>10 DEF Sound, Zone, Tiles
    <2>3. Zone' = Tiles' \ {NChunk}
      BY DEF Zone
    <2> QED BY <1>5, <1>12, <2>1, <2>2, <2>3 DEF check_zone
  <1>14. HeapTypes'
    BY <1>2, <1>7 DEF HeapTypes
  <1>15. pc'[t] = "split_add" /\ Turn(t)
    BY <1>2 DEF CallInv, CallTypes, Turn
  <1>16. /\ HeldBy(t) = {u} /\ HeldBy(t)' = {u, n} /\ Old(t) = {} /\ Old(t)' = {} /\ ~ Loosens(t) /\ ~ Loosens(t)'
    BY <1>1, <1>2, <1>15 DEF HeldBy, Taken, Rest, Freed, Old, Loosens, Allocating, NewChunk
  <1>17. /\ p \in Ptrs /\ Works(t, p) /\ OwnedBy(p)' = OwnedBy(p)
         /\ OwnedBy(p) = IF ptr[p] # Null THEN {ptr[p]} ELSE {}
    BY <1>1, <1>2, <1>15, <1>16, TurnWorks
  <1>18. Free' = Free /\ bucket' \cap lost' = {} /\ \A j \in bucket' \cup lost' : j \in bucket \cup lost \/ IsKey(j)'
    BY <1>2 DEF Live, Keys, Free
  <1>p. /\ HeldBy(t) \cap Free = {} /\ OwnedBy(p) \cap Free = {} /\ HeldBy(t) \cap OwnedBy(p) = {}
        /\ HeldBy(t) \subseteq Zone /\ OwnedBy(p) \subseteq Zone /\ Free \subseteq Zone
        /\ \A c \in Free \cup HeldBy(t) \cup OwnedBy(p) : hdr[c].used <=> c \in OwnedBy(p) \cup Old(t)
        /\ "prealloc" \in Ops =>
              \A c \in OwnedBy(p) \cup Old(t) : \A s \in Sizes : hdr[c].size >= bucket_calc_units(s)
    BY <1>17, LiveParts
  <1>19. \A c \in Chunks : c \notin Mine(t, p) => hdr'[c] = hdr[c]
    BY <1>7, <1>16 DEF Mine
  <1>20. /\ Free' \cup HeldBy(t)' \cup OwnedBy(p)' = Free \cup HeldBy(t) \cup OwnedBy(p) \cup N
         /\ HeldBy(t)' \cap Free' = {} /\ OwnedBy(p)' \cap Free' = {} /\ HeldBy(t)' \cap OwnedBy(p)' = {}
    BY <1>11, <1>12, <1>16, <1>17, <1>18, <1>p
  <1>21. \A c \in Free \cup HeldBy(t) \cup OwnedBy(p) \cup N : hdr'[c].used <=> c \in OwnedBy(p)' \cup Old(t)'
    <2> TAKE c \in Free \cup HeldBy(t) \cup OwnedBy(p) \cup N
    <2>1. CASE c = n
      BY <1>8, <1>11, <1>12, <1>16, <1>17, <1>p, <2>1
    <2>2. CASE c # n
      <3>1. c \in Free \cup HeldBy(t) \cup OwnedBy(p) /\ c \in Chunks
        BY <1>5, <1>11, <1>p, <2>2
      <3>2. hdr'[c].used = hdr[c].used
        BY <1>7, <3>1
      <3> QED BY <1>16, <1>17, <1>p, <3>1, <3>2
    <2> QED BY <2>1, <2>2
  <1>22. "prealloc" \in Ops => \A c \in OwnedBy(p)' \cup Old(t)' : \A s \in Sizes : hdr'[c].size >= bucket_calc_units(s)
    <2>1. \A c \in OwnedBy(p)' \cup Old(t)' : c \in OwnedBy(p) /\ hdr'[c] = hdr[c]
      BY <1>5, <1>7, <1>16, <1>17, <1>p
    <2> QED BY <1>p, <2>1
  <1>23. PtrFacts(t)'
    BY <1>2, <1>3, <1>15 DEF PtrFacts, Late, Allocating
  <1>24. ObjFacts(t)'
    <2> SUFFICES ASSUME op[t].kind \in {"pfree", "prealloc"} PROVE IsKey(obj[t])'
      BY <1>2 DEF ObjFacts
    <2>1. PICK o : o = obj[t].uid
      OBVIOUS
    <2>2. o \in Zone /\ obj[t] = [uid |-> o, size |-> hdr[o].size] /\ ptr[p] = o
      BY <1>1, <1>2, <1>3, <2>1 DEF ObjFacts, IsKey, Key, Late, PtrFacts, Allocating, CallFacts
    <2>3. o # u /\ o # Null
      BY <1>5, <1>16, <1>17, <1>p, <2>2 DEF Chunks, Null
    <2>4. hdr'[o] = hdr[o] /\ o \in Zone'
      BY <1>5, <1>7, <1>12, <2>2, <2>3
    <2> QED BY <1>2, <2>1, <2>2, <2>4 DEF IsKey, Key
  <1>25. NewFacts(t)' /\ NullFact(t)'
    <2>1. new'[t] = [uid |-> u, size |-> k]
      BY <1>1, <1>2 DEF HeapTypes
    <2>2. new'[t] = Key(new[t].uid)'
      BY <1>1, <1>2, <1>7, <2>1 DEF Key
    <2> QED BY <1>2, <1>15, <2>2 DEF NewFacts, NullFact
  <1> QED BY <1>12, <1>13, <1>14, <1>17, <1>18, <1>19, <1>20, <1>21, <1>22, <1>23, <1>24, <1>25, LiveStep

\* The end of a call.
LEMMA LiveEnd ==
  ASSUME SoundUse, CallInv, CallInv', HeapTypes, check_zone, Live, NEW t \in Threads, persistent_clear_guard(t)
  PROVE  HeapTypes' /\ Live'
  <1>0. UNCHANGED <<hdr, ptr, bucket, lost>>
    BY DEF persistent_clear_guard, pool, container
  <1>1. CASE Goto(t, "clear", "flush") /\ UNCHANGED <<op, obj, new>>
    <2>1. HeapTypes'
      BY <1>0, <1>1 DEF HeapTypes
    <2>2. pc[t] = "clear" /\ pc'[t] = "flush" /\ Turn(t)
      BY <1>0, <1>1 DEF Goto, CallInv, CallTypes, Turn
    <2> QED BY <1>0, <1>1, <2>1, <2>2, LiveBare
  <1>2. CASE /\ Goto(t, "flush", "idle") /\ op' = [op EXCEPT ![t] = Idle]
             /\ obj' = [obj EXCEPT ![t] = NoObj] /\ new' = [new EXCEPT ![t] = NoObj]
    <2>1. PICK p : op[t].p = p
      OBVIOUS
    <2>2. p \in Ptrs /\ pc[t] = "flush"
      BY <1>2, <2>1 DEF Goto, CallInv, CallFacts
    <2>3. /\ pc'[t] = "idle" /\ op'[t] = Idle /\ obj'[t] = NoObj /\ new'[t] = NoObj
          /\ \A u \in Threads \ {t} : UNCHANGED <<pc[u], op[u], obj[u], new[u]>>
      BY <1>2 DEF Goto, CallInv, CallTypes, HeapTypes
    <2>4. NoObj \in Object /\ NoObj \in [uid : Chunks \cup {Null}, size : Nat]
      BY HeapAssumption DEF NoObj, Object, Chunks
    <2>5. HeapTypes'
      BY <1>0, <1>2, <2>4 DEF HeapTypes
    <2>6. \A u \in Threads \ {t} : op[u].p # p
      BY <2>1, <2>2, HeapAssumption DEF CallInv, OneCall
    <2>7. Works(t, p)
      BY <1>0, <2>1, <2>3, <2>6 DEF Works, Idle
    <2>8. HeldBy(t)' = HeldBy(t) /\ Old(t)' = Old(t)
      BY <2>2, <2>3 DEF HeldBy, Taken, Rest, Freed, Old, Allocating
    <2>9. OwnedBy(p)' = OwnedBy(p)
      <3>1. ~ Loose(p)
        BY <2>1, <2>2, <2>6 DEF Loose, Loosens
      <3>2. ~ Loose(p)'
        BY <2>2, <2>3, <2>6, HeapAssumption DEF Loose, Idle
      <3> QED BY <1>0, <3>1, <3>2 DEF OwnedBy
    <2>10. PtrFacts(t)' /\ ObjFacts(t)' /\ NewFacts(t)' /\ NullFact(t)'
      BY <2>3 DEF PtrFacts, ObjFacts, NewFacts, NullFact, Idle, Allocating, Late
    <2>11. bucket' \cap lost' = {} /\ bucket' \cup lost' = bucket \cup lost
      BY <1>0 DEF Live, Keys
    <2> QED BY <1>0, <2>2, <2>5, <2>7, <2>8, <2>9, <2>10, <2>11, LiveSame
  <1> QED BY <1>1, <1>2 DEF persistent_clear_guard

LEMMA LiveCall ==
  ASSUME SoundUse, CallInv, CallInv', HeapTypes, check_zone, Live, NEW t \in Threads,
         NEW kind \in {"pmalloc", "pfree", "prealloc"}, NEW p \in Ptrs, NEW size, NEW o \in Object,
         Call(t, kind, p, size, o), kind = "pmalloc" => ptr[p] = Null,
         kind # "pmalloc" => IsKey(o) /\ ptr[p] = o.uid
  PROVE  HeapTypes' /\ Live'
  <1>1. PICK call : call = [kind |-> kind, p |-> p, size |-> size]
    OBVIOUS
  <1>2. /\ pc[t] = "idle" /\ pc' = [pc EXCEPT ![t] = "lock"] /\ \A u \in Threads : op[u].p # p
        /\ op' = [op EXCEPT ![t] = call] /\ obj' = [obj EXCEPT ![t] = o]
        /\ UNCHANGED <<hdr, ptr, bucket, lost, new>>
    BY <1>1 DEF Call, Goto, media, container
  <1>3. /\ pc'[t] = "lock" /\ op'[t] = call /\ obj'[t] = o /\ call.p = p /\ call.kind = kind
        /\ \A u \in Threads \ {t} : UNCHANGED <<pc[u], op[u], obj[u], new[u]>>
    BY <1>1, <1>2 DEF CallInv, CallTypes, HeapTypes
  <1>4. op[t] = Idle
    BY <1>2 DEF CallInv, CallFacts
  <1>5. Works(t, p)
    BY <1>2, <1>3, <1>4 DEF Works, Idle
  <1>6. HeapTypes'
    BY <1>2 DEF HeapTypes
  <1>7. HeldBy(t)' = HeldBy(t) /\ Old(t)' = Old(t)
    BY <1>2, <1>3 DEF HeldBy, Taken, Rest, Freed, Old, Allocating
  <1>8. OwnedBy(p)' = OwnedBy(p)
    <2>1. ~ Loose(p)
      BY <1>2 DEF Loose
    <2>2. \A u \in Threads \ {t} : op'[u].p # p
      BY <1>2, <1>3
    <2>3. ~ Loosens(t)'
      BY <1>3 DEF Loosens
    <2>4. ~ Loose(p)'
      BY <2>2, <2>3 DEF Loose
    <2> QED BY <1>2, <2>1, <2>4 DEF OwnedBy
  <1>9. PtrFacts(t)'
    BY <1>2, <1>3 DEF PtrFacts, Late, Allocating
  <1>10. ObjFacts(t)'
    <2>1. \A c : IsKey(c)' <=> IsKey(c)
      BY <1>2 DEF IsKey, Key, Zone, Tiles, TilesOf
    <2> QED BY <1>3, <2>1 DEF ObjFacts
  <1>11. NewFacts(t)' /\ NullFact(t)'
    BY <1>3 DEF NewFacts, NullFact
  <1>12. bucket' \cap lost' = {} /\ bucket' \cup lost' = bucket \cup lost
    BY <1>2 DEF Live, Keys
  <1> QED BY <1>2, <1>5, <1>6, <1>7, <1>8, <1>9, <1>10, <1>11, <1>12, LiveSame

\* A pointer that no call is using holds a chunk that is in use.
LEMMA LiveFirm ==
  ASSUME CallInv, HeapTypes, check_zone, Live, NEW p \in Ptrs, ptr[p] # Null, \A u \in Threads : op[u].p # p
  PROVE  ptr[p] \in Zone /\ Located(ptr[p]) = {Key(ptr[p])} /\ Key(ptr[p]) \in Object /\ IsKey(Key(ptr[p]))
  <1>1. PICK c : c = ptr[p]
    OBVIOUS
  <1>2. Owners[p] = {c}
    BY <1>1 DEF Owners, OwnedBy, Loose
  <1>3. c \in Zone
    BY <1>2 DEF Live, Partition, Parts
  <1>4. hdr[c].used
    BY <1>2, <1>3 DEF Live, Flags, Flagged, Used
  <1>5. hdr[c].magic /\ c \in Chunks
    BY <1>3, ZoneFacts DEF Live
  <1>6. Key(c) \in Object /\ Key(c).uid = c
    BY <1>5 DEF HeapTypes, HdrType, Key, Object
  <1> QED BY <1>1, <1>3, <1>4, <1>5, <1>6 DEF Located, IsKey

LEMMA LiveCalls ==
  ASSUME SoundUse, CallInv, CallInv', HeapTypes, check_zone, Live, NEW t \in Threads,
         pmalloc(t) \/ pfree(t) \/ prealloc(t)
  PROVE  HeapTypes' /\ Live'
  <1>1. CASE pmalloc(t)
    <2>1. PICK p, size : p \in Ptrs /\ ptr[p] = Null /\ Call(t, "pmalloc", p, size, NoObj)
      BY <1>1, Zenon DEF pmalloc
    <2>2. PICK kind, o : kind = "pmalloc" /\ o = NoObj
      OBVIOUS
    <2>3. o \in Object
      BY <2>2, HeapAssumption DEF NoObj, Object, Chunks
    <2>4. Call(t, kind, p, size, o)
      BY <2>1, <2>2
    <2>5. kind \in {"pmalloc", "pfree", "prealloc"}
      BY <2>2
    <2> QED BY <2>1, <2>2, <2>3, <2>4, <2>5, LiveCall
  <1>2. CASE pfree(t)
    <2>1. PICK p, o : p \in Ptrs /\ o \in Located(ptr[p]) /\ ptr[p] # Null /\ Call(t, "pfree", p, 0, o)
      BY <1>2, Zenon DEF pfree
    <2>2. PICK kind, size : kind = "pfree" /\ size = 0
      OBVIOUS
    <2>3. \A u \in Threads : op[u].p # p
      BY <2>1 DEF Call
    <2>4. o = Key(ptr[p]) /\ o \in Object /\ IsKey(o)
      BY <2>1, <2>3, LiveFirm
    <2>5. o.uid = ptr[p]
      BY <2>4 DEF Key
    <2>6. kind \in {"pmalloc", "pfree", "prealloc"} /\ Call(t, kind, p, size, o)
      BY <2>1, <2>2
    <2>7. p \in Ptrs
      BY <2>1
    <2> QED BY <2>2, <2>4, <2>5, <2>6, <2>7, LiveCall
  <1>3. CASE prealloc(t)
    <2>1. PICK p, size, o :
            /\ p \in Ptrs /\ o \in IF Located(ptr[p]) # {} THEN Located(ptr[p]) ELSE {NoObj}
            /\ ptr[p] # Null /\ Call(t, "prealloc", p, size, o)
      BY <1>3, Zenon DEF prealloc
    <2>2. PICK kind : kind = "prealloc"
      OBVIOUS
    <2>3. \A u \in Threads : op[u].p # p
      BY <2>1 DEF Call
    <2>4. o = Key(ptr[p]) /\ o \in Object /\ IsKey(o)
      BY <2>1, <2>3, LiveFirm
    <2>5. o.uid = ptr[p]
      BY <2>4 DEF Key
    <2>6. kind \in {"pmalloc", "pfree", "prealloc"} /\ Call(t, kind, p, size, o)
      BY <2>1, <2>2
    <2>7. p \in Ptrs
      BY <2>1
    <2> QED BY <2>2, <2>4, <2>5, <2>6, <2>7, LiveCall
  <1> QED BY <1>1, <1>2, <1>3

LEMMA LiveSteps ==
  ASSUME SoundUse, CallInv, CallInv', HeapTypes, check_zone, Live, NEW t \in Threads, Step(t), mode' # "wrecked"
  PROVE  HeapTypes' /\ check_zone' /\ Live'
  <1>z. UNCHANGED hdr => check_zone'
    BY DEF check_zone, Tiles, TilesOf
  <1>1. CASE arena_guard_up(t) \/ persistent_set_guard(t) \/ arena_guard_down(t)
    <2>1. /\ UNCHANGED <<hdr, ptr, bucket, lost, op, obj, new>>
          /\ \/ Goto(t, "lock", "guard")
             \/ Goto(t, "guard", IF op[t].kind = "pfree" THEN "free" ELSE "get")
             \/ Goto(t, "down", "clear")
      BY <1>1 DEF arena_guard_up, persistent_set_guard, arena_guard_down, pool, container, media
    <2>2. HeapTypes'
      BY <2>1 DEF HeapTypes
    <2>3. /\ Turn(t)
          /\ \/ pc[t] = "lock" /\ pc'[t] = "guard"
             \/ pc[t] = "guard" /\ pc'[t] = "free" /\ op[t].kind = "pfree"
             \/ pc[t] = "guard" /\ pc'[t] = "get" /\ op[t].kind # "pfree"
             \/ pc[t] = "down" /\ pc'[t] = "clear"
      BY <2>1 DEF Goto, CallInv, CallTypes, Turn
    <2>4. Live'
      BY <2>1, <2>2, <2>3, LiveBare
    <2> QED BY <1>z, <2>1, <2>2, <2>4
  <1>2. CASE bucket_get_object(t)
    <2>1. UNCHANGED hdr
      BY <1>2 DEF bucket_get_object, media
    <2> QED BY <1>2, <1>z, <2>1, LiveGet
  <1>3. CASE bst_remove(t)
    <2>1. UNCHANGED hdr
      BY <1>3 DEF bst_remove, Leave, media
    <2> QED BY <1>3, <1>z, <2>1, LiveRemove
  <1>4. CASE persistent_init_bucket_obj(t)
    <2>1. UNCHANGED hdr
      BY <1>4 DEF persistent_init_bucket_obj, media
    <2> QED BY <1>4, <1>z, <2>1, LiveInit
  <1>5. CASE bst_add(t)
    <2>1. UNCHANGED hdr
      BY <1>5 DEF bst_add, bst_add_begin, bst_add_end, Leave, media
    <2> QED BY <1>5, <1>z, <2>1, LiveAdd
  <1>6. CASE set_alloc_ptr(t)
    <2>1. UNCHANGED hdr
      BY <1>6 DEF set_alloc_ptr
    <2> QED BY <1>6, <1>z, <2>1, LiveSetPtr
  <1>7. CASE persistent_copy_content(t)
    <2>1. UNCHANGED hdr
      BY <1>7 DEF persistent_copy_content, media
    <2> QED BY <1>7, <1>z, <2>1, LiveCopy
  <1>8. CASE persistent_clear_guard(t)
    <2>1. UNCHANGED hdr
      BY <1>8 DEF persistent_clear_guard
    <2> QED BY <1>8, <1>z, <2>1, LiveEnd
  <1>9. CASE write_chunk_header(t) \/ set_chunk_size(t) \/ bucket_mark_allocated(t) \/ pool_recycle_object(t)
    BY <1>9, LiveWrite, LiveShrink, LiveMark, LiveRecycle
  <1> QED BY <1>1, <1>2, <1>3, <1>4, <1>5, <1>6, <1>7, <1>8, <1>9 DEF Step

-----------------------------------------------------------------------------
(* What the partition means.                                               *)

LEMMA LiveOwned ==
  ASSUME HeapTypes, check_zone, Live
  PROVE  Owned
  <1> SUFFICES ASSUME NEW p \in Ptrs, ptr[p] # Null, ~ Busy(p)
               PROVE  /\ hdr[0].magic /\ ptr[p] \in Tiles /\ hdr[ptr[p]].used
                      /\ \A q \in Ptrs \ {p} : ~ Busy(q) => ptr[q] # ptr[p]
                      /\ \A k \in bucket : k.uid # ptr[p]
    BY DEF Owned
  <1>1. \A q \in Ptrs : ~ Busy(q) /\ ptr[q] # Null => Owners[q] = {ptr[q]}
    BY DEF Busy, Owners, OwnedBy, Loose
  <1>2. Owners[p] = {ptr[p]}
    BY <1>1
  <1>3. ptr[p] \in Zone /\ ptr[p] \notin Free
    BY <1>2 DEF Live, Partition, Parts
  <1>4. hdr[ptr[p]].used
    BY <1>2, <1>3 DEF Live, Flags, Flagged, Used
  <1>5. ASSUME NEW q \in Ptrs \ {p}, ~ Busy(q) PROVE ptr[q] # ptr[p]
    BY <1>1, <1>2, <1>5 DEF Live, Partition, Parts
  <1>6. \A k \in bucket : k.uid # ptr[p]
    BY <1>3 DEF Free
  <1> QED BY <1>3, <1>4, <1>5, <1>6 DEF Live, Zone

LEMMA LiveUsed ==
  ASSUME HeapTypes, Live, CallInv
  PROVE  UsedArePointedTo
  <1> SUFFICES ASSUME \A t \in Threads : pc[t] = "idle", NEW c \in Zone
               PROVE  hdr[c].used <=> \E p \in Ptrs : ptr[p] = c
    BY DEF UsedArePointedTo, Quiet, Zone
  <1>1. \A t \in Threads : Moved[t] = {} /\ ~ Loosens(t)
    BY DEF Moved, Old, Loosens
  <1>2. \A p \in Ptrs : Owners[p] = IF ptr[p] # Null THEN {ptr[p]} ELSE {}
    BY <1>1 DEF Owners, OwnedBy, Loose
  <1>3. hdr[c].used <=> \E p \in Ptrs : c \in Owners[p]
    BY <1>1 DEF Live, Flags, Flagged, Used
  <1>4. c # Null
    <2>1. PICK h \in HdrType : h = hdr
      BY DEF HeapTypes
    <2>2. c \in 0 .. NChunk
      BY <2>1, TilesBasic DEF Zone, Tiles
    <2> QED BY <2>2 DEF Null
  <1> QED BY <1>2, <1>3, <1>4

LEMMA LiveComplete ==
  ASSUME HeapTypes, Live, CallInv, Single
  PROVE  BucketComplete
  <1> SUFFICES ASSUME \A t \in Threads : pc[t] = "idle"
               PROVE  bucket = {Key(c) : c \in {d \in Zone : ~ hdr[d].used}}
    BY DEF BucketComplete, Quiet, Zone
  <1>1. \A t \in Threads : Moved[t] = {} /\ Held[t] = {}
    BY DEF Moved, Held, HeldBy, Taken, Rest, Freed, Old, Allocating
  <1>2. lost = {}
    BY DEF CallInv, Alone
  <1>3. ASSUME NEW c \in Zone PROVE c \in Free <=> ~ hdr[c].used
    <2>1. hdr[c].used <=> \E p \in Ptrs : c \in Owners[p]
      BY <1>1 DEF Live, Flags, Flagged, Used
    <2> QED BY <1>1, <2>1 DEF Live, Partition, Parts
  <1>4. ASSUME NEW k \in bucket PROVE k \in {Key(c) : c \in {d \in Zone : ~ hdr[d].used}}
    <2>1. k.uid \in Zone /\ k = Key(k.uid) /\ k.uid \in Free
      BY DEF Live, Keys, IsKey, Free
    <2>2. ~ hdr[k.uid].used
      BY <1>3, <2>1
    <2> QED BY <2>1, <2>2
  <1>5. ASSUME NEW c \in Zone, ~ hdr[c].used PROVE Key(c) \in bucket
    <2>1. c \in Free
      BY <1>3, <1>5
    <2>2. PICK k \in bucket : k.uid = c
      BY <1>2, <2>1 DEF Free
    <2>3. k = Key(k.uid)
      BY DEF Live, Keys, IsKey
    <2> QED BY <2>2, <2>3
  <1> QED BY <1>4, <1>5

LEMMA StoredOwned ==
  ASSUME CallInv, Offline, Unused, Stored
  PROVE  Owned
  <1> SUFFICES ASSUME NEW p \in Ptrs, ptr[p] # Null, ~ Busy(p)
               PROVE  /\ hdr[0].magic /\ ptr[p] \in Tiles /\ hdr[ptr[p]].used
                      /\ \A q \in Ptrs \ {p} : ~ Busy(q) => ptr[q] # ptr[p]
                      /\ \A k \in bucket : k.uid # ptr[p]
    BY DEF Owned
  <1>1. ~ Doubt(p)
    BY DEF Busy, Doubt
  <1>2. bucket = {}
    BY DEF CallInv, Resting
  <1> QED BY <1>1, <1>2 DEF Stored, Unused, Zone

-----------------------------------------------------------------------------
(* Opening the pool.                                                       *)

LEMMA SameHeaders == ASSUME UNCHANGED hdr PROVE Zone' = Zone /\ Used' = Used /\ (check_zone' <=> check_zone)
  <1>1. Tiles' = Tiles
    BY DEF Tiles, TilesOf
  <1> QED BY <1>1 DEF Zone, Used, check_zone

LEMMA StoredKeep ==
  ASSUME Stored, UNCHANGED <<hdr, ptr>>, mode' \notin {"unlink", "format"},
         \A p \in Ptrs : ptr[p] # Null /\ Doubt(p) => Doubt(p)'
  PROVE  Stored'
  <1>1. Zone' = Zone /\ Used' = Used
    BY SameHeaders
  <1> QED BY <1>1 DEF Stored

\* The call that a slot names was an allocation or a free.
LEMMA NoRealloc ==
  ASSUME SoundUse, SlotInv, CallInv, Offline, NEW a \in Arenas
  PROVE  slot[a].type # "realloc"
  <1>1. CASE MaxCrash = 0
    BY <1>1, NonePending DEF CallInv, NoRecovery, EmptySlot
  <1>2. CASE MaxCrash # 0
    BY <1>2 DEF CallInv, SlotFacts, SoundUse
  <1> QED BY <1>1, <1>2

LEMMA StoredRecover ==
  ASSUME SoundUse, SlotInv, CallInv, CallInv', HeapTypes, SlotsTyped, check_zone, Unused, Stored, recover_info_slot
  PROVE  /\ HeapTypes' /\ SlotsTyped' /\ check_zone' /\ Unused'
         /\ mode' # "wrecked" => Stored'
         /\ mode' = "wrecked" => Owned'
  <1>1. PICK s : s = slot[rec]
    OBVIOUS
  <1>2. /\ mode = "rec" /\ UNCHANGED <<slot, pslot, ptr, bucket, lost, op, pc, obj, new>> /\ rec < NArena
        /\ \/ mode' = "rec" /\ rec' = rec + 1 /\ UNCHANGED hdr
           \/ mode' = "wipe" /\ ~ Undo(s) /\ UNCHANGED <<hdr, rec>>
           \/ mode' = "wrecked" /\ UNCHANGED hdr
           \/ /\ mode' = IF s.type = "free" THEN "wipe" ELSE "unlink"
              /\ Undo(s) /\ s.dest # NoPtr /\ UNCHANGED rec
              /\ hdr' = [hdr EXCEPT ![ptr[s.dest]].used = (s.type = "free")]
    BY <1>1, Zenon DEF recover_info_slot, OpenStep, calls, container
  <1>3. Offline /\ rec \in Arenas
    <2>1. rec \in Nat
      BY DEF SlotInv, SlotTyped
    <2> QED BY <1>2, <2>1, ArenaPerThread DEF Offline, Arenas
  <1>4. s \in [type : SlotTypes, dest : Ptrs \cup {NoPtr}, old : Chunks \cup {Null}] /\ s.type # "realloc"
    BY <1>1, <1>3, NoRealloc DEF SlotsTyped
  <1>5. SlotsTyped'
    BY <1>2 DEF SlotsTyped
  <1>6. CASE mode' = "rec" /\ rec' = rec + 1 /\ UNCHANGED hdr
    <2>1. Stored'
      BY <1>2, <1>6, StoredKeep DEF Doubt
    <2> QED BY <1>2, <1>5, <1>6, <2>1, SameHeaders DEF HeapTypes, Unused
  <1>7. CASE mode' = "wipe" /\ ~ Undo(s) /\ UNCHANGED <<hdr, rec>>
    <2>1. s.type = "unknown" \/ (s.dest \in Ptrs /\ ptr[s.dest] = Null)
      <3>1. CASE s.dest = NoPtr
        BY <1>4, <1>7, <3>1 DEF Undo, Signature, Null
      <3>2. CASE s.dest # NoPtr
        BY <1>4, <1>7, <3>2 DEF Undo
      <3> QED BY <3>1, <3>2
    <2>2. ASSUME NEW p \in Ptrs, ptr[p] # Null, Doubt(p) PROVE Doubt(p)'
      <3>1. PICK a \in Arenas : slot[a].type # "unknown" /\ slot[a].dest = p
        BY <2>2 DEF Doubt
      <3>2. a # rec
        BY <1>1, <2>1, <2>2, <3>1
      <3> QED BY <1>2, <1>7, <3>1, <3>2 DEF Doubt
    <2>3. Stored'
      BY <1>2, <1>7, <2>2, StoredKeep
    <2> QED BY <1>2, <1>5, <1>7, <2>3, SameHeaders DEF HeapTypes, Unused
  <1>8. CASE mode' = "wrecked" /\ UNCHANGED hdr
    <2>1. Owned
      BY <1>3, StoredOwned
    <2>2. Owned'
      BY <1>2, <1>8, <2>1 DEF Owned, Busy, Tiles, TilesOf
    <2> QED BY <1>2, <1>5, <1>8, <2>2, SameHeaders DEF HeapTypes, Unused
  <1>9. CASE /\ mode' = IF s.type = "free" THEN "wipe" ELSE "unlink"
             /\ Undo(s) /\ s.dest # NoPtr /\ UNCHANGED rec
             /\ hdr' = [hdr EXCEPT ![ptr[s.dest]].used = (s.type = "free")]
    <2>1. PICK q, c, b : q = s.dest /\ c = ptr[s.dest] /\ b = (s.type = "free") /\ b \in BOOLEAN
      OBVIOUS
    <2>2. /\ mode' = (IF s.type = "free" THEN "wipe" ELSE "unlink") /\ UNCHANGED rec
          /\ hdr' = [hdr EXCEPT ![c].used = b]
      BY <1>9, <2>1
    <2>3. q \in Ptrs /\ c = ptr[q] /\ c # Null /\ s.type \in {"alloc", "free"}
      BY <1>4, <1>9, <2>1 DEF Undo, SlotTypes
    <2>4. c \in Chunks
      BY <2>3 DEF HeapTypes
    <2>5. /\ hdr' \in HdrType /\ Tiles' = Tiles /\ Zone' = Zone /\ check_zone' /\ hdr'[0].magic = hdr[0].magic
          /\ \A d \in Chunks : hdr'[d].size = hdr[d].size /\ hdr'[d].magic = hdr[d].magic
          /\ \A d \in Chunks \ {c} : hdr'[d] = hdr[d]
          /\ hdr'[c].used = b
      BY <2>1, <2>2, <2>4, FlagWrite
    <2>6. HeapTypes' /\ Unused'
      BY <1>2, <2>5 DEF HeapTypes, Unused
    <2>7. hdr[0].magic
      BY <2>3 DEF Unused
    <2>8. \A d \in Zone : d \in Chunks
      BY <2>7, ZoneFacts
    <2>9. "prealloc" \notin Ops
      BY <2>2 DEF CallInv, NoRecovery, SoundUse
    <2>10. ASSUME NEW p \in Ptrs, ptr[p] # Null PROVE ptr[p] \in Zone' /\ (Doubt(p)' \/ hdr'[ptr[p]].used)
      <3>1. ptr[p] \in Zone /\ ptr[p] \in Chunks
        BY <2>8, <2>10 DEF Stored
      <3>2. CASE p = q /\ s.type = "free"
        BY <2>1, <2>3, <2>5, <3>1, <3>2
      <3>3. CASE p = q /\ s.type = "alloc"
        BY <1>1, <1>2, <1>3, <2>1, <2>2, <2>5, <3>1, <3>3 DEF Doubt
      <3>4. CASE p # q
        <4>1. ptr[p] # c /\ hdr'[ptr[p]] = hdr[ptr[p]]
          BY <2>3, <2>5, <2>10, <3>1, <3>4 DEF Stored
        <4>2. CASE hdr[ptr[p]].used
          BY <2>5, <3>1, <4>1, <4>2
        <4>3. CASE Doubt(p)
          <5>1. PICK a \in Arenas : slot[a].type # "unknown" /\ slot[a].dest = p
            BY <4>3 DEF Doubt
          <5>2. a # rec
            BY <1>1, <2>1, <3>4, <5>1
          <5> QED BY <1>2, <2>2, <2>5, <3>1, <5>1, <5>2 DEF Doubt
        <4> QED BY <2>10, <4>2, <4>3 DEF Stored
      <3> QED BY <2>3, <3>2, <3>3, <3>4
    <2>11. \A p, r \in Ptrs : p # r /\ ptr[p] # Null => ptr[p] # ptr[r]
      BY DEF Stored
    <2>12. ASSUME NEW d \in Used' PROVE \E p \in Ptrs : ptr[p] = d
      <3>1. d \in Zone /\ hdr'[d].used
        BY <2>5 DEF Used
      <3>2. CASE d = c
        BY <2>3, <3>2
      <3>3. CASE d # c
        <4>1. d \in Used
          BY <2>5, <2>8, <3>1, <3>3 DEF Used
        <4> QED BY <2>7, <4>1 DEF Stored
      <3> QED BY <3>2, <3>3
    <2>13. mode' = "unlink" => /\ slot[rec].type = "alloc" /\ slot[rec].dest \in Ptrs
                               /\ ptr[slot[rec].dest] # Null /\ ~ hdr'[ptr[slot[rec].dest]].used
      BY <1>1, <2>1, <2>2, <2>3, <2>5
    <2>14. mode' # "format" /\ mode' # "wrecked"
      BY <2>2
    <2>15. Stored'
      BY <1>2, <2>2, <2>9, <2>10, <2>11, <2>12, <2>13, <2>14 DEF Stored
    <2> QED BY <1>5, <2>5, <2>6, <2>14, <2>15
  <1> QED BY <1>2, <1>6, <1>7, <1>8, <1>9

LEMMA StoredUnlink ==
  ASSUME SlotInv, CallInv, CallInv', SoundUse, HeapTypes, SlotsTyped, check_zone, Unused, Stored, recover_slot_ptr
  PROVE  HeapTypes' /\ SlotsTyped' /\ check_zone' /\ Unused' /\ Stored' /\ mode' = "wipe"
  <1>1. PICK q : q = slot[rec].dest
    OBVIOUS
  <1>2. /\ slot[rec].type = "alloc" /\ q \in Ptrs /\ ptr[q] # Null /\ ~ hdr[ptr[q]].used
        /\ mode = "unlink" /\ mode' = "wipe"
    BY <1>1 DEF recover_slot_ptr, OpenStep, Stored
  <1>3. /\ UNCHANGED <<hdr, slot, pslot, bucket, lost, obj, new, rec>>
        /\ ptr' = [ptr EXCEPT ![q] = Null]
    BY <1>1, <1>2 DEF recover_slot_ptr, OpenStep, calls, container
  <1>4. ptr'[q] = Null /\ \A p \in Ptrs \ {q} : ptr'[p] = ptr[p]
    BY <1>2, <1>3 DEF HeapTypes
  <1>5. HeapTypes' /\ SlotsTyped' /\ Unused'
    BY <1>3, <1>4 DEF HeapTypes, SlotsTyped, Unused
  <1>6. Zone' = Zone /\ Used' = Used /\ check_zone'
    BY <1>3, SameHeaders
  <1>7. "prealloc" \notin Ops
    BY <1>2 DEF CallInv, NoRecovery, SoundUse
  <1>8. ASSUME NEW p \in Ptrs, ptr'[p] # Null PROVE ptr'[p] \in Zone' /\ (Doubt(p)' \/ hdr'[ptr'[p]].used)
    <2>1. p # q /\ ptr'[p] = ptr[p]
      BY <1>4, <1>8
    <2>2. ASSUME Doubt(p) PROVE Doubt(p)'
      <3>1. PICK a \in Arenas : slot[a].type # "unknown" /\ slot[a].dest = p
        BY <2>2 DEF Doubt
      <3>2. a # rec
        BY <1>1, <2>1, <3>1
      <3> QED BY <1>3, <3>1, <3>2 DEF Doubt
    <2> QED BY <1>3, <1>6, <1>8, <2>1, <2>2 DEF Stored
  <1>9. ASSUME NEW p \in Ptrs, NEW r \in Ptrs, p # r, ptr'[p] # Null PROVE ptr'[p] # ptr'[r]
    BY <1>4, <1>9 DEF Stored
  <1>10. ASSUME hdr[0].magic, NEW c \in Used PROVE \E p \in Ptrs : ptr'[p] = c
    <2>1. PICK p \in Ptrs : ptr[p] = c
      BY <1>10 DEF Stored
    <2>2. p # q
      BY <1>2, <2>1 DEF Used
    <2> QED BY <1>4, <2>1, <2>2
  <1>11. Stored'
    BY <1>2, <1>3, <1>6, <1>7, <1>8, <1>9, <1>10 DEF Stored
  <1> QED BY <1>2, <1>5, <1>6, <1>11

\* Steps of pool_open that touch no more than the slots and the pool headers.
LEMMA StoredOpening ==
  ASSUME SlotInv, CallInv, HeapTypes, SlotsTyped, check_zone, Unused, Stored, Offline,
         \/ open_pmem_storage \/ write_primary_pool_header \/ write_pool_layout
         \/ get_pool_state \/ set_pool_state \/ write_backup_pool_headers
         \/ wipe_slot \/ recovered
  PROVE  HeapTypes' /\ SlotsTyped' /\ check_zone' /\ Unused' /\ Stored' /\ Offline'
  <1>e. EmptySlot \in [type : SlotTypes, dest : Ptrs \cup {NoPtr}, old : Chunks \cup {Null}] /\ EmptySlot.type = "unknown"
    BY DEF EmptySlot, SlotTypes
  <1>1. UNCHANGED <<hdr, ptr, bucket, lost, obj, new>> /\ mode' \in Modes \ {"unlink", "format", "open", "killed", "wrecked", "wipe"}
    BY DEF open_pmem_storage, write_primary_pool_header, write_pool_layout, get_pool_state, set_pool_state,
           write_backup_pool_headers, wipe_slot, recovered, OpenStep, calls, container, media, Modes
  <1>2. HeapTypes' /\ check_zone' /\ Unused' /\ Offline'
    BY <1>1, SameHeaders DEF HeapTypes, Unused, Offline
  <1>3. SlotsTyped' /\ \A p \in Ptrs : Doubt(p) => Doubt(p)'
    <2>1. CASE open_pmem_storage /\ slot' = [a \in Arenas |-> EmptySlot] /\ phdr = "bad" /\ bhdr = "bad"
      <3>1. ~ Pending
        BY <2>1 DEF SlotInv, FoundOpen
      <3>2. \A p \in Ptrs : ~ Doubt(p)
        BY <1>e, <3>1, NonePending DEF Doubt
      <3>3. UNCHANGED pslot
        BY <2>1 DEF open_pmem_storage
      <3> QED BY <1>e, <2>1, <3>2, <3>3 DEF SlotsTyped
    <2>2. CASE \/ open_pmem_storage /\ UNCHANGED slot
               \/ write_primary_pool_header \/ write_pool_layout
               \/ get_pool_state \/ set_pool_state \/ write_backup_pool_headers \/ recovered
      <3>1. UNCHANGED slot /\ (pslot' = pslot \/ pslot' = slot) /\ mode \notin {"wipe", "wiped"}
        BY <2>2 DEF open_pmem_storage, write_primary_pool_header, write_pool_layout, get_pool_state, set_pool_state,
           write_backup_pool_headers, recovered, OpenStep, media
      <3>2. mode' \notin {"wipe", "wiped"}
        BY <2>2 DEF open_pmem_storage, write_primary_pool_header, write_pool_layout, get_pool_state, set_pool_state,
           write_backup_pool_headers, recovered, OpenStep
      <3> QED BY <3>1, <3>2 DEF SlotsTyped, Doubt
    <2>3. CASE wipe_slot
      <3>1. \/ /\ mode = "wipe" /\ mode' = "wiped" /\ slot' = [slot EXCEPT ![rec] = EmptySlot]
               /\ UNCHANGED <<pslot, rec>>
            \/ /\ mode = "wiped" /\ mode' = "rec" /\ pslot' = [pslot EXCEPT ![rec] = slot[rec]]
               /\ UNCHANGED slot
        BY <2>3 DEF wipe_slot, OpenStep
      <3>2. SlotsTyped'
        <4>1. rec \in Arenas
          BY <3>1 DEF SlotInv, Recovering
        <4> QED BY <1>e, <3>1, <4>1 DEF SlotsTyped
      <3>3. \A a \in Arenas : a # rec => slot'[a] = slot[a]
        BY <3>1 DEF SlotsTyped
      <3> QED BY <3>1, <3>2, <3>3 DEF Doubt
    <2> QED BY <2>1, <2>2, <2>3 DEF open_pmem_storage
  <1>4. Stored'
    BY <1>1, <1>3, StoredKeep
  <1> QED BY <1>2, <1>3, <1>4

\* The zone is formatted when it was never used.
LEMMA StoredFormat ==
  ASSUME SlotInv, CallInv, HeapTypes, SlotsTyped, check_zone, Unused, Stored, Offline, format_zone
  PROVE  HeapTypes' /\ SlotsTyped' /\ check_zone' /\ Unused' /\ Stored' /\ Offline'
  <1>1. PICK F, T : F = FALSE /\ T = TRUE /\ F \in BOOLEAN /\ T \in BOOLEAN
    OBVIOUS
  <1>2. /\ UNCHANGED <<slot, pslot, ptr, bucket, lost, obj, new>>
        /\ \/ /\ mode = "fill" /\ mode' = "format" /\ ~ hdr[0].magic
              /\ hdr' = [hdr EXCEPT ![0] = [magic |-> F, used |-> F, size |-> NChunk]]
           \/ /\ mode = "format" /\ mode' = "fill"
              /\ hdr' = [hdr EXCEPT ![0].magic = T]
    BY <1>1, Zenon DEF format_zone, OpenStep, calls, container
  <1>3. SlotsTyped' /\ Offline'
    BY <1>2 DEF SlotsTyped, Offline
  <1>4. ~ hdr[0].magic /\ \A p \in Ptrs : ptr'[p] = Null
    BY <1>2 DEF Stored, Unused
  <1>5. hdr \in HdrType /\ 0 \in Chunks /\ NChunk \in 0 .. NChunk
    BY HeapAssumption DEF HeapTypes, Chunks
  <1>6. hdr' \in HdrType
    <2>1. CASE hdr' = [hdr EXCEPT ![0] = [magic |-> F, used |-> F, size |-> NChunk]]
      BY ONLY <1>1, <1>5, <2>1 DEF HdrType
    <2>2. CASE hdr' = [hdr EXCEPT ![0].magic = T]
      BY ONLY <1>1, <1>5, <2>2 DEF HdrType
    <2> QED BY <1>2, <2>1, <2>2
  <1>7. HeapTypes' /\ Unused'
    BY <1>2, <1>4, <1>6 DEF HeapTypes, Unused
  <1>8. hdr'[0].size = NChunk /\ hdr'[0].used = F
    <2>1. CASE mode = "fill"
      BY <1>2, <1>5, <2>1 DEF HdrType
    <2>2. CASE mode = "format"
      <3>1. hdr[0].size = NChunk /\ hdr[0].used = F
        BY <1>1, <1>5, <2>2 DEF Stored, HdrType
      <3> QED BY <1>2, <1>5, <2>2, <3>1 DEF HdrType
    <2> QED BY <1>2, <2>1, <2>2
  <1>9. mode' = "format" => hdr'[0].magic = F
    BY <1>2, <1>5 DEF HdrType
  <1>10. Tiles' = {0, NChunk} /\ Zone' = {0}
    <2>1. PICK g \in HdrType : g = hdr'
      BY <1>6
    <2>2. TilesOf(g) = {0, NChunk}
      BY <1>8, <2>1, TilesFormat
    <2>3. 0 # NChunk
      BY HeapAssumption
    <2> QED BY <2>1, <2>2, <2>3 DEF Tiles, Zone
  <1>11. check_zone'
    <2>1. NChunk > 0
      BY HeapAssumption
    <2>2. \A c \in Tiles' \ {NChunk} : c = 0
      BY <1>10
    <2> QED BY <1>8, <1>10, <2>1, <2>2 DEF check_zone
  <1>12. Used' = {}
    BY <1>1, <1>8, <1>10 DEF Used
  <1>13. Stored'
    BY <1>1, <1>2, <1>4, <1>8, <1>9, <1>12 DEF Stored
  <1> QED BY <1>3, <1>7, <1>11, <1>13

\* While no call is in progress the pointers own what they hold.
LEMMA AtRest ==
  ASSUME CallInv, \A t \in Threads : pc[t] = "idle"
  PROVE  /\ \A t \in Threads : HeldBy(t) = {} /\ Old(t) = {}
         /\ \A p \in Ptrs : OwnedBy(p) = IF ptr[p] # Null THEN {ptr[p]} ELSE {}
         /\ \A t \in Threads : PtrFacts(t) /\ ObjFacts(t) /\ NewFacts(t) /\ NullFact(t)
  <1>1. \A t \in Threads : op[t] = Idle
    BY DEF CallInv, CallFacts
  <1>2. \A t \in Threads : HeldBy(t) = {} /\ Old(t) = {}
    BY DEF HeldBy, Taken, Rest, Freed, Old, Allocating
  <1>3. \A p \in Ptrs : ~ Loose(p)
    BY DEF Loose, Loosens
  <1>4. ASSUME NEW t \in Threads PROVE PtrFacts(t) /\ ObjFacts(t) /\ NewFacts(t) /\ NullFact(t)
    BY <1>1 DEF PtrFacts, ObjFacts, NewFacts, NullFact, Idle, Late, Allocating
  <1> QED BY <1>2, <1>3, <1>4 DEF OwnedBy

LEMMA AtRestNext ==
  (CallInv /\ (\A t \in Threads : pc[t] = "idle") =>
     /\ \A t \in Threads : HeldBy(t) = {} /\ Old(t) = {}
     /\ \A p \in Ptrs : OwnedBy(p) = IF ptr[p] # Null THEN {ptr[p]} ELSE {}
     /\ \A t \in Threads : PtrFacts(t) /\ ObjFacts(t) /\ NewFacts(t) /\ NullFact(t))'
  <1>1. CallInv /\ (\A t \in Threads : pc[t] = "idle") =>
           /\ \A t \in Threads : HeldBy(t) = {} /\ Old(t) = {}
           /\ \A p \in Ptrs : OwnedBy(p) = IF ptr[p] # Null THEN {ptr[p]} ELSE {}
           /\ \A t \in Threads : PtrFacts(t) /\ ObjFacts(t) /\ NewFacts(t) /\ NullFact(t)
    BY AtRest
  <1> QED BY <1>1, PTL

LEMMA LiveFill ==
  ASSUME SoundUse, SlotInv, CallInv, CallInv', HeapTypes, SlotsTyped, check_zone, Unused, Stored, Offline,
         persistent_fill_buckets
  PROVE  HeapTypes' /\ SlotsTyped' /\ check_zone' /\ Unused' /\ mode' = "open" /\ Live'
  <1>1. /\ mode = "fill" /\ mode' = "open" /\ hdr[0].magic
        /\ UNCHANGED <<hdr, slot, pslot, ptr, lost, pc, op, obj, new>>
        /\ bucket' = {Key(c) : c \in {d \in Zone : ~ hdr[d].used}}
    BY DEF persistent_fill_buckets, OpenStep, media, calls, Zone
  <1>2. Zone \subseteq Chunks
    BY <1>1, ZoneFacts
  <1>3. HeapTypes'
    <2>1. ASSUME NEW c \in Zone PROVE Key(c) \in Object
      BY <1>2 DEF HeapTypes, HdrType, Object, Key
    <2> QED BY <1>1, <2>1 DEF HeapTypes
  <1>4. Zone' = Zone /\ Used' = Used /\ check_zone'
    BY <1>1, SameHeaders
  <1>5. \A t \in Threads : pc'[t] = "idle"
    BY <1>1 DEF CallInv, Resting
  <1>6. /\ \A t \in Threads : HeldBy(t)' = {} /\ Old(t)' = {}
        /\ \A p \in Ptrs : OwnedBy(p)' = IF ptr'[p] # Null THEN {ptr'[p]} ELSE {}
        /\ \A t \in Threads : PtrFacts(t)' /\ ObjFacts(t)' /\ NewFacts(t)' /\ NullFact(t)'
    BY <1>5, AtRestNext
  <1>7. /\ \A t \in Threads : Held'[t] = {} /\ Moved'[t] = {}
        /\ \A p \in Ptrs : Owners'[p] = IF ptr[p] # Null THEN {ptr[p]} ELSE {}
    BY <1>1, <1>6 DEF Held, Moved, Owners
  <1>8. lost' = {}
    BY <1>1 DEF CallInv, Resting
  <1>9. \A c : c \in Free' <=> c \in Zone /\ ~ hdr[c].used
    <2>1. \A c : Key(c).uid = c
      BY DEF Key
    <2> QED BY <1>1, <1>8, <2>1 DEF Free
  <1>10. \A p \in Ptrs : ~ Doubt(p)
    <2>1. ~ Pending
      BY <1>1 DEF SlotInv, Headers, NothingPending
    <2> QED BY <2>1, NonePending DEF Doubt, EmptySlot
  <1>11. \A p \in Ptrs : ptr[p] # Null => ptr[p] \in Zone /\ hdr[ptr[p]].used
    BY <1>10 DEF Stored
  <1>12. \A c \in Zone : hdr[c].used => \E p \in Ptrs : ptr[p] = c
    BY <1>1 DEF Stored, Used
  <1>13. \A c \in Zone : c # Null
    BY <1>2 DEF Chunks, Null
  <1>14. Partition'
    <2>1. \A c \in Zone : c \in Free' \/ (\E p \in Ptrs : c \in Owners'[p])
      BY <1>7, <1>9, <1>12, <1>13
    <2>2. \A p \in Ptrs : \A c \in Owners'[p] : c = ptr[p] /\ ptr[p] # Null
      BY <1>7
    <2>3. \A p \in Ptrs : \A c \in Owners'[p] : c \in Zone /\ c \notin Free'
      BY <1>9, <1>11, <2>2
    <2>4. \A p, q \in Ptrs : p # q => \A c \in Owners'[p] : c \notin Owners'[q]
      BY <2>2 DEF Stored
    <2> QED BY <1>4, <1>7, <1>9, <2>1, <2>3, <2>4 DEF Partition, Parts
  <1>15. Flags'
    <2>1. Flagged(Zone, Owners, Moved, Used)'
      <3>1. ASSUME NEW c \in Zone PROVE c \in Used <=> \E p \in Ptrs : c \in Owners'[p]
        <4>1. c \in Used <=> hdr[c].used
          BY DEF Used
        <4>2. ASSUME NEW p \in Ptrs, c \in Owners'[p] PROVE hdr[c].used
          BY <1>7, <1>11, <4>2
        <4>3. ASSUME hdr[c].used PROVE \E p \in Ptrs : c \in Owners'[p]
          BY <1>7, <1>12, <1>13, <4>3
        <4> QED BY <4>1, <4>2, <4>3
      <3> QED BY <1>4, <1>7, <3>1 DEF Flagged
    <2>2. ASSUME "prealloc" \in Ops, NEW c \in Used', NEW s \in Sizes PROVE hdr'[c].size >= bucket_calc_units(s)
      BY <1>1, <1>4, <2>2 DEF Stored
    <2> QED BY <2>1, <2>2 DEF Flags
  <1>16. Keys'
    <2>1. ASSUME NEW k \in bucket' PROVE IsKey(k)'
      <3>1. PICK c \in Zone : k = Key(c)
        BY <1>1
      <3> QED BY <1>1, <1>4, <3>1 DEF IsKey, Key
    <2> QED BY <1>8, <2>1 DEF Keys
  <1>17. Live'
    BY <1>1, <1>6, <1>14, <1>15, <1>16 DEF Live
  <1>18. SlotsTyped' /\ Unused'
    BY <1>1 DEF SlotsTyped, Unused
  <1> QED BY <1>1, <1>3, <1>4, <1>17, <1>18

LEMMA StoredClose ==
  ASSUME SlotInv, CallInv, HeapTypes, SlotsTyped, check_zone, Unused, Live, pool_close
  PROVE  HeapTypes' /\ SlotsTyped' /\ check_zone' /\ Unused' /\ mode' = "sum" /\ Stored'
  <1>1. /\ mode' = "sum" /\ (\A t \in Threads : pc[t] = "idle") /\ bucket' = {} /\ lost' = {}
        /\ UNCHANGED <<hdr, slot, pslot, ptr, obj, new>>
    BY DEF pool_close, calls
  <1>2. Zone' = Zone /\ Used' = Used /\ check_zone'
    BY <1>1, SameHeaders
  <1>3. /\ \A t \in Threads : HeldBy(t) = {} /\ Old(t) = {}
        /\ \A p \in Ptrs : OwnedBy(p) = IF ptr[p] # Null THEN {ptr[p]} ELSE {}
    BY <1>1, AtRest
  <1>4. \A p \in Ptrs : Owners[p] = IF ptr[p] # Null THEN {ptr[p]} ELSE {}
    BY <1>3 DEF Owners
  <1>5. \A t \in Threads : Moved[t] = {}
    BY <1>3 DEF Moved
  <1>6. ASSUME NEW p \in Ptrs, ptr[p] # Null PROVE ptr[p] \in Zone /\ hdr[ptr[p]].used
    <2>1. ptr[p] \in Owners[p]
      BY <1>4, <1>6
    <2>2. ptr[p] \in Zone
      BY <2>1 DEF Live, Partition, Parts
    <2> QED BY <2>1, <2>2 DEF Live, Flags, Flagged, Used
  <1>7. ASSUME NEW p \in Ptrs, NEW q \in Ptrs, p # q, ptr[p] # Null PROVE ptr[p] # ptr[q]
    <2>1. ptr[p] = ptr[q] => ptr[p] \in Owners[p] /\ ptr[p] \in Owners[q]
      BY <1>4, <1>7
    <2>2. \A c \in Owners[p] : c \notin Owners[q]
      BY <1>7 DEF Live, Partition, Parts
    <2> QED BY <2>1, <2>2
  <1>8. \A c \in Used : \E p \in Ptrs : ptr[p] = c
    <2>1. \A c \in Used : \E p \in Ptrs : c \in Owners[p]
      BY <1>5 DEF Live, Flags, Flagged, Used
    <2>2. ASSUME NEW c \in Used PROVE \E p \in Ptrs : ptr[p] = c
      <3>1. PICK p \in Ptrs : c \in Owners[p]
        BY <2>1
      <3>2. ptr[p] = c
        BY <1>4, <3>1
      <3> QED BY <3>2
    <2> QED BY <2>2
  <1>9. Stored'
    BY <1>1, <1>2, <1>6, <1>7, <1>8 DEF Stored, Live, Flags
  <1>10. HeapTypes' /\ SlotsTyped' /\ Unused'
    BY <1>1 DEF HeapTypes, SlotsTyped, Unused
  <1> QED BY <1>1, <1>2, <1>9, <1>10

-----------------------------------------------------------------------------
(* Power failures.                                                         *)

LEMMA CrashEffect ==
  ASSUME Crash, CallInv, SlotsTyped, HeapTypes, check_zone, Unused
  PROVE  /\ mode' = "down" /\ mode # "wrecked" /\ MaxCrash # 0
         /\ UNCHANGED <<hdr, ptr>>
         /\ HeapTypes' /\ SlotsTyped' /\ check_zone' /\ Unused'
         /\ \A a \in Arenas : /\ slot'[a].type \in {slot[a].type, pslot[a].type}
                              /\ slot'[a].dest \in {slot[a].dest, pslot[a].dest}
  <1>1. PICK keep \in [Arenas -> SUBSET {"type", "dest", "old"}] :
          pslot' = [a \in Arenas |-> [f \in {"type", "dest", "old"} |->
                      IF f \in keep[a] THEN pslot[a][f] ELSE slot[a][f]]]
    BY Zenon DEF Crash
  <1>2. /\ mode' = "down" /\ mode # "wrecked" /\ ncrash < MaxCrash /\ UNCHANGED <<hdr, ptr>> /\ slot' = pslot'
        /\ bucket' = {} /\ lost' = {}
        /\ obj' = [t \in Threads |-> NoObj] /\ new' = [t \in Threads |-> NoObj]
    BY Zenon DEF Crash
  <1>3. ASSUME NEW a \in Arenas
        PROVE  /\ pslot'[a].type \in {slot[a].type, pslot[a].type}
               /\ pslot'[a].dest \in {slot[a].dest, pslot[a].dest}
               /\ pslot'[a].old \in {slot[a].old, pslot[a].old}
               /\ pslot'[a] = [type |-> pslot'[a].type, dest |-> pslot'[a].dest, old |-> pslot'[a].old]
    BY <1>1
  <1>4. ASSUME NEW a \in Arenas
        PROVE  pslot'[a] \in [type : SlotTypes, dest : Ptrs \cup {NoPtr}, old : Chunks \cup {Null}]
    <2>1. /\ slot[a] \in [type : SlotTypes, dest : Ptrs \cup {NoPtr}, old : Chunks \cup {Null}]
          /\ pslot[a] \in [type : SlotTypes, dest : Ptrs \cup {NoPtr}, old : Chunks \cup {Null}]
      BY DEF SlotsTyped
    <2>2. PICK x, y, z : x = pslot'[a].type /\ y = pslot'[a].dest /\ z = pslot'[a].old
      OBVIOUS
    <2>3. x \in SlotTypes /\ y \in Ptrs \cup {NoPtr} /\ z \in Chunks \cup {Null}
      BY <1>3, <2>1, <2>2
    <2>4. pslot'[a] = [type |-> x, dest |-> y, old |-> z]
      BY <1>3, <2>2
    <2> QED BY <2>3, <2>4
  <1>5. SlotsTyped'
    BY <1>1, <1>2, <1>4 DEF SlotsTyped
  <1>6. NoObj \in Object /\ NoObj \in [uid : Chunks \cup {Null}, size : Nat]
    BY HeapAssumption DEF NoObj, Object, Chunks
  <1>7. HeapTypes' /\ check_zone' /\ Unused'
    BY <1>2, <1>6, SameHeaders DEF HeapTypes, Unused
  <1>8. MaxCrash # 0
    BY <1>2, HeapBounds DEF CallInv, CallTypes
  <1> QED BY <1>2, <1>3, <1>5, <1>7, <1>8

\* The pool as a power failure finds it: a pointer that a call was giving a
\* chunk, or taking it from, is named by the call's slot.
LEMMA StoredCrashLive ==
  ASSUME SoundUse, CallInv, SlotsTyped, HeapTypes, check_zone, Unused, Live, Crash
  PROVE  Stored'
  <1>1. /\ mode' = "down" /\ MaxCrash # 0 /\ UNCHANGED <<hdr, ptr>>
        /\ \A a \in Arenas : /\ slot'[a].type \in {slot[a].type, pslot[a].type}
                             /\ slot'[a].dest \in {slot[a].dest, pslot[a].dest}
    BY CrashEffect
  <1>2. Single /\ "prealloc" \notin Ops
    BY <1>1 DEF SoundUse
  <1>3. Zone' = Zone /\ Used' = Used
    BY <1>1, SameHeaders
  <1>4. \A p \in Ptrs : ptr[p] # Null /\ ~ Loose(p) => Owners[p] = {ptr[p]}
    BY DEF Owners, OwnedBy
  <1>5. ASSUME NEW p \in Ptrs, ptr[p] # Null, Loose(p)
        PROVE  /\ ptr[p] \in Zone /\ Doubt(p)'
               /\ \A q \in Ptrs \ {p} : ~ Loose(q) /\ ptr[p] \notin Owners[q]
    <2>1. PICK t \in Threads : op[t].p = p /\ Loosens(t)
      BY <1>5 DEF Loose
    <2>2. /\ PtrFacts(t) /\ NullFact(t) /\ CallFacts(t)
          /\ pc[t] = "mark" \/ (op[t].kind = "pfree" /\ pc[t] \in {"free_add", "free_link", "null"})
      BY <2>1 DEF Live, CallInv, Loosens
    <2>3. ptr[p] \in Held[t] \/ ptr[p] \in Free
      <3>1. CASE pc[t] = "mark"
        <4>1. ptr[p] = new[t].uid
          BY <2>1, <2>2, <3>1 DEF PtrFacts
        <4> QED BY <3>1, <4>1 DEF Held, HeldBy, Taken, Allocating
      <3>2. CASE pc[t] \in {"free_add", "free_link"}
        <4>1. ptr[p] = obj[t].uid
          BY <2>1, <2>2, <3>2 DEF PtrFacts
        <4> QED BY <3>2, <4>1 DEF Held, HeldBy, Freed
      <3>3. CASE pc[t] = "null"
        BY <1>2, <2>1, <2>2, <3>3 DEF PtrFacts, NullFact
      <3> QED BY <2>2, <3>1, <3>2, <3>3
    <2>4. ptr[p] \in Zone /\ \A q \in Ptrs : ptr[p] \notin Owners[q]
      BY <2>3 DEF Live, Partition, Parts
    <2>5. ASSUME NEW q \in Ptrs \ {p} PROVE ~ Loose(q)
      BY <1>2, <2>1 DEF Loose, Single
    <2>6. PICK a \in Arenas : a = arena_id[t]
      BY <2>2 DEF CallFacts
    <2>7. pc[t] \notin {"idle", "lock", "guard", "flush"}
      BY <2>2
    <2>8. Names(slot[a], t) /\ Names(pslot[a], t)
      BY <1>2, <2>6, <2>7 DEF CallInv, Alone
    <2>9. slot'[a].type = SlotType(op[t].kind) /\ slot'[a].dest = p
      BY <1>1, <2>1, <2>8 DEF Names
    <2>10. SlotType(op[t].kind) # "unknown"
      <3>1. op[t].kind \in {"pmalloc", "pfree"}
        BY <1>2, <2>2, HeapAssumption DEF CallFacts, Allocating
      <3> QED BY <3>1 DEF SlotType
    <2>11. Doubt(p)'
      BY <1>1, <2>9, <2>10 DEF Doubt
    <2> QED BY <2>4, <2>5, <2>11
  <1>6. ASSUME NEW p \in Ptrs, ptr[p] # Null PROVE ptr[p] \in Zone /\ (Doubt(p)' \/ hdr[ptr[p]].used)
    <2>1. CASE Loose(p)
      BY <1>5, <1>6, <2>1
    <2>2. CASE ~ Loose(p)
      <3>1. ptr[p] \in Owners[p]
        BY <1>4, <1>6, <2>2
      <3>2. ptr[p] \in Zone
        BY <3>1 DEF Live, Partition, Parts
      <3> QED BY <3>1, <3>2 DEF Live, Flags, Flagged, Used
    <2> QED BY <2>1, <2>2
  <1>7. ASSUME NEW p \in Ptrs, NEW q \in Ptrs, p # q, ptr[p] # Null PROVE ptr[p] # ptr[q]
    <2>1. CASE Loose(p)
      BY <1>4, <1>5, <1>7, <2>1
    <2>2. CASE Loose(q)
      BY <1>4, <1>5, <1>7, <2>2
    <2>3. CASE ~ Loose(p) /\ ~ Loose(q)
      <3>1. ptr[p] = ptr[q] => ptr[p] \in Owners[p] /\ ptr[p] \in Owners[q]
        BY <1>4, <1>7, <2>3
      <3>2. \A c \in Owners[p] : c \notin Owners[q]
        BY <1>7 DEF Live, Partition, Parts
      <3> QED BY <3>1, <3>2
    <2> QED BY <2>1, <2>2, <2>3
  <1>8. \A c \in Used : \E p \in Ptrs : ptr[p] = c
    <2>1. \A t \in Threads : Moved[t] = {}
      <3> SUFFICES ASSUME NEW t \in Threads PROVE Old(t) = {}
        BY DEF Moved
      <3>1. op[t].kind # "prealloc"
        BY <1>2 DEF CallInv, CallFacts, CallTypes
      <3> QED BY <3>1 DEF Old
    <2>2. \A c \in Used : \E p \in Ptrs : c \in Owners[p]
      BY <2>1 DEF Live, Flags, Flagged, Used
    <2> QED BY <2>2 DEF Owners, OwnedBy
  <1> QED BY <1>1, <1>2, <1>3, <1>6, <1>7, <1>8 DEF Stored

LEMMA StoredCrash ==
  ASSUME SoundUse, SlotInv, CallInv, SlotsTyped, HeapTypes, check_zone, Unused, Offline, Stored, Crash
  PROVE  Stored'
  <1>1. /\ mode' = "down" /\ UNCHANGED <<hdr, ptr>>
        /\ \A a \in Arenas : /\ slot'[a].type \in {slot[a].type, pslot[a].type}
                             /\ slot'[a].dest \in {slot[a].dest, pslot[a].dest}
    BY CrashEffect
  <1>2. ASSUME NEW p \in Ptrs, Doubt(p) PROVE Doubt(p)'
    <2>1. PICK a \in Arenas : /\ slot[a].type # "unknown" /\ slot[a].dest = p
                              /\ mode \in {"wipe", "wiped"} => a # rec
      BY <1>2 DEF Doubt
    <2>2. mode \notin NothingPending
      BY <2>1, NonePending DEF SlotInv, Headers, EmptySlot
    <2>3. mode \in {"down", "state", "rec", "unlink", "wipe", "wiped"}
      BY <2>2 DEF NothingPending, Offline, CallInv, CallTypes, Modes
    <2>4. slot[a] = pslot[a]
      BY <2>1, <2>3 DEF CallInv, SlotFacts
    <2>5. slot'[a].type = slot[a].type /\ slot'[a].dest = slot[a].dest
      BY <1>1, <2>4
    <2> QED BY <1>1, <2>1, <2>5 DEF Doubt
  <1> QED BY <1>1, <1>2, StoredKeep

-----------------------------------------------------------------------------
(* The invariant of the heap.                                              *)

\* An info slot holds what a call or a recovery put there.
LEMMA SlotsTypedCall ==
  ASSUME CallInv, HeapTypes, SlotsTyped, NEW t \in Threads,
         pmalloc(t) \/ pfree(t) \/ prealloc(t) \/ Step(t)
  PROVE  SlotsTyped'
  <1> DEFINE T == [type : SlotTypes, dest : Ptrs \cup {NoPtr}, old : Chunks \cup {Null}]
  <1>0. slot \in [Arenas -> T] /\ pslot \in [Arenas -> T]
    BY DEF SlotsTyped
  <1>1. CASE UNCHANGED <<slot, pslot>>
    BY <1>1 DEF SlotsTyped
  <1>2. CASE persistent_set_guard(t) \/ persistent_clear_guard(t)
    <2>1. EmptySlot \in T
      BY DEF EmptySlot, SlotTypes
    <2>2. pc[t] # "idle"
      BY <1>2 DEF persistent_set_guard, persistent_clear_guard, Goto
    <2>3. PICK a \in Arenas : a = arena_id[t]
      BY <2>2 DEF CallInv, CallFacts
    <2>4. /\ slot' = slot \/ slot' = [slot EXCEPT ![a] = EmptySlot]
          /\ pslot' = pslot \/ pslot' = [pslot EXCEPT ![a] = slot[a]]
      BY <1>2, <2>3 DEF persistent_set_guard, persistent_clear_guard
    <2> HIDE DEF T
    <2>5. slot' \in [Arenas -> T] /\ pslot' \in [Arenas -> T]
      BY <1>0, <2>1, <2>4
    <2> QED BY <2>5 DEF SlotsTyped, T
  <1>3. CASE arena_guard_up(t)
    <2>1. /\ pc[t] # "idle" /\ UNCHANGED pslot
          /\ \E v : slot' = [slot EXCEPT ![arena_id[t]] = v]
      BY <1>3 DEF arena_guard_up, Goto
    <2>2. PICK a \in Arenas : a = arena_id[t]
      BY <2>1 DEF CallInv, CallFacts
    <2>3. PICK p \in Ptrs : p = op[t].p
      BY <2>1 DEF CallInv, CallFacts
    <2>4. PICK k \in SlotTypes : k = SlotType(op[t].kind)
      <3>1. op[t].kind \in {"pmalloc", "pfree", "prealloc"}
        BY <2>1, HeapAssumption DEF CallInv, CallFacts
      <3>2. SlotType(op[t].kind) \in SlotTypes
        BY <3>1 DEF SlotType, SlotTypes
      <3> QED BY <3>2
    <2>5. PICK s : s = [slot[a] EXCEPT !.type = k, !.dest = p]
      OBVIOUS
    <2>6. s \in T
      BY <1>0, <2>5
    <2>7. ptr[p] \in Chunks \cup {Null}
      BY DEF HeapTypes
    <2>8. PICK r : r = [s EXCEPT !.old = ptr[p]]
      OBVIOUS
    <2>9. r \in T
      BY <2>6, <2>7, <2>8
    <2>10. slot' = [slot EXCEPT ![a] = s] \/ slot' = [slot EXCEPT ![a] = r]
      BY <1>3, <2>2, <2>3, <2>4, <2>5, <2>8 DEF arena_guard_up
    <2> HIDE DEF T
    <2>11. slot' \in [Arenas -> T] /\ pslot' \in [Arenas -> T]
      BY <1>0, <2>1, <2>6, <2>9, <2>10
    <2> QED BY <2>11 DEF SlotsTyped, T
  <1>4. CASE pmalloc(t) \/ pfree(t) \/ prealloc(t)
    <2>1. UNCHANGED <<slot, pslot>>
      <3>1. PICK kind, p, size, o : Call(t, kind, p, size, o)
        BY <1>4, Zenon DEF pmalloc, pfree, prealloc
      <3> QED BY <3>1 DEF Call, media
    <2> QED BY <1>1, <2>1
  <1>5. CASE \/ bucket_get_object(t) \/ bst_remove(t) \/ persistent_init_bucket_obj(t)
             \/ write_chunk_header(t) \/ set_chunk_size(t) \/ bst_add(t)
             \/ set_alloc_ptr(t) \/ bucket_mark_allocated(t) \/ persistent_copy_content(t)
             \/ pool_recycle_object(t) \/ arena_guard_down(t)
    <2>1. UNCHANGED <<slot, pslot>>
      BY <1>5 DEF bucket_get_object, bst_remove, persistent_init_bucket_obj, write_chunk_header,
         set_chunk_size, bst_add, bst_add_begin, bst_add_end, Leave, set_alloc_ptr,
         bucket_mark_allocated, persistent_copy_content, pool_recycle_object, arena_guard_down, media
    <2> QED BY <1>1, <2>1
  <1> QED BY <1>2, <1>3, <1>4, <1>5 DEF Step

\* A call leaves the pool open, or its process dies, or it overwrote the pool.
LEMMA CallMode ==
  ASSUME NEW t \in Threads, pmalloc(t) \/ pfree(t) \/ prealloc(t) \/ Step(t)
  PROVE  /\ mode = "open" /\ mode' \in {"open", "killed", "wrecked"}
         /\ mode' = "wrecked" => persistent_copy_content(t)
  <1>1. CASE pmalloc(t) \/ pfree(t) \/ prealloc(t)
    <2>1. PICK kind, p, size, o : Call(t, kind, p, size, o)
      BY <1>1, Zenon DEF pmalloc, pfree, prealloc
    <2> QED BY <2>1 DEF Call, Goto
  <1>2. CASE persistent_copy_content(t)
    BY <1>2 DEF persistent_copy_content, Goto
  <1>3. CASE arena_guard_up(t) \/ persistent_set_guard(t) \/ arena_guard_down(t) \/ persistent_clear_guard(t)
    BY <1>3 DEF arena_guard_up, persistent_set_guard, arena_guard_down, persistent_clear_guard, Goto, pool
  <1>4. CASE bucket_get_object(t)
    BY <1>4 DEF bucket_get_object, Goto
  <1>5. CASE persistent_init_bucket_obj(t) \/ set_alloc_ptr(t)
    BY <1>5 DEF persistent_init_bucket_obj, set_alloc_ptr, Goto, pool
  <1>6. CASE write_chunk_header(t) \/ set_chunk_size(t) \/ bucket_mark_allocated(t) \/ pool_recycle_object(t)
    BY <1>6 DEF write_chunk_header, set_chunk_size, bucket_mark_allocated, pool_recycle_object, Goto, pool
  <1>7. ASSUME NEW from, NEW to, NEW b, Leave(t, from, to, b)
        PROVE  mode = "open" /\ mode' \in {"open", "killed"}
    BY <1>7 DEF Leave, Goto
  <1>8. CASE bst_remove(t)
    BY <1>7, <1>8 DEF bst_remove
  <1>9. CASE bst_add(t)
    <2>1. ASSUME NEW from, NEW to, bst_add_begin(t, from, to)
          PROVE  mode = "open" /\ mode' = "open"
      BY <2>1 DEF bst_add_begin, Goto, pool
    <2>2. ASSUME NEW from, NEW to, NEW k, bst_add_end(t, from, to, k)
          PROVE  mode = "open" /\ mode' \in {"open", "killed"}
      BY <1>7, <2>2 DEF bst_add_end
    <2> QED BY <1>9, <2>1, <2>2 DEF bst_add
  <1> QED BY <1>1, <1>2, <1>3, <1>4, <1>5, <1>6, <1>8, <1>9 DEF Step

\* A call that overwrites the pool has changed none of what the allocator stored.
LEMMA OwnedKeep ==
  ASSUME Owned, UNCHANGED <<hdr, slot, pslot, ptr, op, bucket>>
  PROVE  Owned'
  <1>1. Tiles' = Tiles
    BY DEF Tiles, TilesOf
  <1>2. \A p \in Ptrs : Busy(p)' <=> Busy(p)
    BY DEF Busy
  <1> QED BY <1>1, <1>2 DEF Owned

LEMMA HeapCall ==
  ASSUME SoundUse, CallInv, CallInv', HeapInv, NEW t \in Threads,
         pmalloc(t) \/ pfree(t) \/ prealloc(t) \/ Step(t)
  PROVE  HeapInv'
  <1>1. mode = "open" /\ mode' \in {"open", "killed", "wrecked"}
    BY CallMode
  <1>2. HeapTypes /\ SlotsTyped /\ check_zone /\ Unused /\ Live
    BY <1>1 DEF HeapInv, Online
  <1>3. SlotsTyped'
    BY <1>2, SlotsTypedCall
  <1>4. CASE mode' = "wrecked"
    <2>1. UNCHANGED <<hdr, slot, pslot, ptr, bucket, lost, op, obj, new>>
      BY <1>4, CallMode DEF persistent_copy_content, media, container
    <2>2. HeapTypes' /\ check_zone' /\ Unused'
      BY <1>2, <2>1, SameHeaders DEF HeapTypes, Unused
    <2>3. Owned'
      BY <1>2, <2>1, LiveOwned, OwnedKeep
    <2> QED BY <1>3, <1>4, <2>2, <2>3 DEF HeapInv, Online, Offline
  <1>5. CASE mode' # "wrecked"
    <2>1. HeapTypes' /\ check_zone' /\ Live'
      <3>1. CASE Step(t)
        BY <1>2, <1>5, <3>1, LiveSteps
      <3>2. CASE pmalloc(t) \/ pfree(t) \/ prealloc(t)
        <4>1. UNCHANGED hdr
          <5>1. PICK kind, p, size, o : Call(t, kind, p, size, o)
            BY <3>2, Zenon DEF pmalloc, pfree, prealloc
          <5> QED BY <5>1 DEF Call, media
        <4> QED BY <1>2, <3>2, <4>1, LiveCalls, SameHeaders
      <3> QED BY <3>1, <3>2
    <2>2. Unused'
      BY <2>1 DEF Unused, Live
    <2> QED BY <1>1, <1>3, <1>5, <2>1, <2>2 DEF HeapInv, Offline
  <1> QED BY <1>4, <1>5

LEMMA HeapOpening ==
  ASSUME SoundUse, SlotInv, CallInv, CallInv', HeapInv, pool_open
  PROVE  HeapInv'
  <1>1. Offline
    BY OpeningEffect
  <1>2. HeapTypes /\ SlotsTyped /\ check_zone /\ Unused /\ Stored
    BY <1>1 DEF HeapInv
  <1>3. CASE recover_info_slot
    <2>1. mode' # "open" /\ mode' # "killed"
      BY <1>3 DEF recover_info_slot, OpenStep
    <2>2. /\ HeapTypes' /\ SlotsTyped' /\ check_zone' /\ Unused'
          /\ mode' # "wrecked" => Stored'
          /\ mode' = "wrecked" => Owned'
      BY <1>2, <1>3, StoredRecover
    <2> QED BY <2>1, <2>2 DEF HeapInv, Online, Offline
  <1>4. CASE recover_slot_ptr
    <2>1. HeapTypes' /\ SlotsTyped' /\ check_zone' /\ Unused' /\ Stored' /\ mode' = "wipe"
      BY <1>2, <1>4, StoredUnlink
    <2> QED BY <2>1 DEF HeapInv, Online, Offline
  <1>5. CASE persistent_fill_buckets
    <2>1. HeapTypes' /\ SlotsTyped' /\ check_zone' /\ Unused' /\ mode' = "open" /\ Live'
      BY <1>1, <1>2, <1>5, LiveFill
    <2> QED BY <2>1 DEF HeapInv, Online, Offline
  <1>6. CASE \/ open_pmem_storage \/ write_primary_pool_header \/ write_pool_layout
             \/ get_pool_state \/ set_pool_state \/ write_backup_pool_headers
             \/ wipe_slot \/ recovered
    <2>1. HeapTypes' /\ SlotsTyped' /\ check_zone' /\ Unused' /\ Stored' /\ Offline'
      BY <1>1, <1>2, <1>6, StoredOpening
    <2> QED BY <2>1 DEF HeapInv, Online, Offline
  <1>7. CASE format_zone
    <2>1. HeapTypes' /\ SlotsTyped' /\ check_zone' /\ Unused' /\ Stored' /\ Offline'
      BY <1>1, <1>2, <1>7, StoredFormat
    <2> QED BY <2>1 DEF HeapInv, Online, Offline
  <1> QED BY <1>3, <1>4, <1>5, <1>6, <1>7 DEF pool_open

LEMMA HeapStep ==
  SoundUse /\ SlotInv /\ CallInv /\ CallInv' /\ HeapInv /\ [Next]_vars => HeapInv'
  <1> SUFFICES ASSUME SoundUse, SlotInv, CallInv, CallInv', HeapInv, [Next]_vars PROVE HeapInv'
    OBVIOUS
  <1>1. CASE pool_open
    BY <1>1, HeapOpening
  <1>2. CASE pool_close
    <2>1. mode = "open"
      BY <1>2 DEF pool_close
    <2>2. HeapTypes' /\ SlotsTyped' /\ check_zone' /\ Unused' /\ mode' = "sum" /\ Stored'
      BY <1>2, <2>1, StoredClose DEF HeapInv, Online
    <2> QED BY <2>2 DEF HeapInv, Online, Offline
  <1>3. CASE Crash
    <2>1. mode' = "down" /\ mode # "wrecked" /\ HeapTypes' /\ SlotsTyped' /\ check_zone' /\ Unused'
      BY <1>3, CrashEffect DEF HeapInv
    <2>2. CASE Online
      BY <1>3, <2>1, <2>2, StoredCrashLive DEF HeapInv, Online, Offline
    <2>3. CASE Offline
      BY <1>3, <2>1, <2>3, StoredCrash DEF HeapInv, Online, Offline
    <2> QED BY <2>1, <2>2, <2>3 DEF Online, Offline
  <1>4. CASE \E t \in Threads : pmalloc(t) \/ pfree(t) \/ prealloc(t) \/ Step(t)
    BY <1>4, HeapCall
  <1>5. CASE UNCHANGED vars
    <2>1. UNCHANGED <<hdr, slot, pslot, ptr, mode, rec, bucket, lost, pc, op, obj, new>>
      BY <1>5 DEF vars, media, pool, container, calls
    <2>2. HeapTypes' /\ SlotsTyped' /\ check_zone' /\ Unused'
      BY <2>1, SameHeaders DEF HeapInv, HeapTypes, SlotsTyped, Unused
    <2>3. Online' => Live'
      BY <2>1, LiveStutter DEF HeapInv, Online
    <2>4. Offline' => Stored'
      <3>1. Zone' = Zone /\ Used' = Used
        BY <2>1, SameHeaders
      <3>2. \A p \in Ptrs : Doubt(p)' <=> Doubt(p)
        BY <2>1 DEF Doubt
      <3> QED BY <2>1, <3>1, <3>2 DEF HeapInv, Offline, Stored
    <2>5. mode' = "wrecked" => Owned'
      BY <2>1, OwnedKeep DEF HeapInv
    <2> QED BY <2>2, <2>3, <2>4, <2>5 DEF HeapInv
  <1> QED BY <1>1, <1>2, <1>3, <1>4, <1>5 DEF Next

LEMMA HeapStart == Init => HeapInv
  <1> SUFFICES ASSUME Init PROVE HeapInv
    OBVIOUS
  <1>1. PICK F \in BOOLEAN : F = FALSE
    OBVIOUS
  <1>2. /\ hdr = [c \in Chunks |-> [magic |-> F, used |-> F, size |-> 0]]
        /\ slot = [a \in Arenas |-> EmptySlot] /\ pslot = slot
        /\ ptr = [p \in Ptrs |-> Null] /\ mode = "down" /\ bucket = {} /\ lost = {}
        /\ obj = [t \in Threads |-> NoObj] /\ new = obj
    BY <1>1, Zenon DEF Init
  <1>3. EmptySlot \in [type : SlotTypes, dest : Ptrs \cup {NoPtr}, old : Chunks \cup {Null}]
    BY DEF EmptySlot, SlotTypes
  <1>4. NoObj \in Object /\ NoObj \in [uid : Chunks \cup {Null}, size : Nat]
    BY HeapAssumption DEF NoObj, Object, Chunks
  <1>5. hdr \in HdrType
    BY <1>2, HeapAssumption DEF HdrType
  <1>6. HeapTypes /\ SlotsTyped
    BY <1>2, <1>3, <1>4, <1>5 DEF HeapTypes, SlotsTyped
  <1>7. ~ hdr[0].magic
    BY <1>1, <1>2, HeapAssumption DEF Chunks
  <1>8. Stored
    BY <1>2, <1>7 DEF Stored
  <1> QED BY <1>2, <1>6, <1>7, <1>8 DEF HeapInv, check_zone, Unused, Online, Offline

LEMMA HeapAlways == SoundUse => (Spec => [](SlotInv /\ CallInv /\ HeapInv))
  <1> SUFFICES ASSUME SoundUse PROVE Spec => [](SlotInv /\ CallInv /\ HeapInv)
    OBVIOUS
  <1>1. Init => HeapInv
    BY HeapStart
  <1>2. Spec => [](SlotInv /\ CallInv)
    BY CallAlways
  <1>3. SlotInv /\ CallInv /\ CallInv' /\ HeapInv /\ [Next]_vars => HeapInv'
    BY HeapStep
  <1> QED BY <1>1, <1>2, <1>3, PTL DEF Spec

\* With calls as SoundUse has them, at every moment, during calls, power
\* failures, recovery, opening and closing: a pointer that no call and no info
\* slot is working on holds a chunk of its own, in use, not held by another such
\* pointer and not in the bucket (pmalloc, pfree, prealloc, recover_info_slot,
\* persistent_fill_buckets).
THEOREM PointersOwnChunks == SoundUse => (Spec => []Owned)
  <1> SUFFICES ASSUME SoundUse PROVE Spec => []Owned
    OBVIOUS
  <1>1. SlotInv /\ CallInv /\ HeapInv => Owned
    <2> SUFFICES ASSUME CallInv, HeapInv PROVE Owned
      OBVIOUS
    <2>1. CASE Online
      BY <2>1, LiveOwned DEF HeapInv
    <2>2. CASE Offline
      BY <2>2, StoredOwned DEF HeapInv
    <2> QED BY <2>1, <2>2 DEF HeapInv, Online, Offline
  <1> QED BY <1>1, HeapAlways, PTL

\* With calls as SoundUse has them, and whatever was interrupted and recovered
\* before: when no call is in progress the chunks marked in use are the chunks
\* that pointers hold, so none is leaked (bucket_mark_allocated,
\* pool_recycle_object, recover_slot_alloc, recover_slot_free).
THEOREM NoChunkLeaked == SoundUse => (Spec => []UsedArePointedTo)
  <1> SUFFICES ASSUME SoundUse PROVE Spec => []UsedArePointedTo
    OBVIOUS
  <1>1. SlotInv /\ CallInv /\ HeapInv => UsedArePointedTo
    <2> SUFFICES ASSUME CallInv, HeapInv, Quiet PROVE UsedArePointedTo
      BY DEF UsedArePointedTo
    <2> QED BY LiveUsed DEF HeapInv, Online, Quiet
  <1> QED BY <1>1, HeapAlways, PTL

\* With calls as SoundUse has them the zone passes check_zone at every moment,
\* whatever the threads do (write_chunk_header, set_chunk_size, format_zone).
THEOREM ZoneConsistent == SoundUse => (Spec => [](TypeOK /\ check_zone))
  <1> SUFFICES ASSUME SoundUse PROVE Spec => [](TypeOK /\ check_zone)
    OBVIOUS
  <1>1. SlotInv /\ CallInv /\ HeapInv => TypeOK /\ check_zone
    BY DEF SlotInv, SlotTyped, CallInv, CallTypes, Modes, Steps, HeapInv, HeapTypes, HdrType, SlotsTyped, TypeOK
  <1> QED BY <1>1, HeapAlways, PTL

\* With calls as SoundUse has them, made by one thread, the zone passes
\* check_zone at every moment and the bucket holds exactly the free chunks
\* whenever no call is in progress (add_chunk, bucket_add_object).
THEOREM ZoneAlwaysSound == SoundUse /\ Single => (Spec => []ZoneSound)
  <1> SUFFICES ASSUME SoundUse, Single PROVE Spec => []ZoneSound
    OBVIOUS
  <1>1. SlotInv /\ CallInv /\ HeapInv => BucketComplete
    <2> SUFFICES ASSUME CallInv, HeapInv, Quiet PROVE BucketComplete
      BY DEF BucketComplete
    <2> QED BY LiveComplete DEF HeapInv, Online, Quiet
  <1>2. (TypeOK /\ check_zone) /\ BucketComplete => ZoneSound
    BY DEF ZoneSound
  <1> QED BY <1>1, <1>2, ZoneConsistent, HeapAlways, PTL
=============================================================================
