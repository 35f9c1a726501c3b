---------------------------- MODULE BlockDevice ----------------------------
(***************************************************************************)
(* What a block memory pool promises the threads that use it, free of      *)
(* maps, flogs and lanes' free blocks: every LBA holds one whole value,    *)
(* an operation takes effect at one instant between its call and its       *)
(* return, a completed update survives a crash, and an update that a crash *)
(* interrupts is all there or not there at all.                            *)
(*                                                                         *)
(* dev is what a reader sees, dur what a crash at this moment would leave. *)
(* They differ only while an update of that LBA is in progress.            *)
(***************************************************************************)
CONSTANTS Lanes, LBAs, Values, Zero, EIO

VARIABLES dev,  \* [LBAs -> Contents]: visible contents
          dur,  \* [LBAs -> Contents]: contents that survive a crash
          req   \* [Lanes -> Request]: the operation in progress on a lane

vars == <<dev, dur, req>>

Contents == Values \cup {Zero, EIO}

\* An update stores val; a read has no val of its own and returns res.
Idle == [kind |-> "idle", lba |-> 0, val |-> Zero, seen |-> FALSE,
         hard |-> FALSE, res |-> Zero]

Init ==
  /\ dev = [x \in LBAs |-> Zero]
  /\ dur = dev
  /\ req = [l \in Lanes |-> Idle]

Call(l) ==
  /\ req[l].kind = "idle"
  /\ \E x \in LBAs, kv \in {<<"read", Zero>>} \cup {<<"update", v>> : v \in Contents} :
       req' = [req EXCEPT ![l] = [kind |-> kv[1], lba |-> x, val |-> kv[2],
                                  seen |-> FALSE, hard |-> FALSE, res |-> Zero]]
  /\ UNCHANGED <<dev, dur>>

\* A read takes the contents of its LBA at one instant.
Observe(l) ==
  /\ req[l].kind = "read"
  /\ ~req[l].seen
  /\ req' = [req EXCEPT ![l].seen = TRUE, ![l].res = dev[req[l].lba]]
  /\ UNCHANGED <<dev, dur>>

\* An update becomes visible.
Show(l) ==
  /\ ~req[l].seen
  /\ dev' = [dev EXCEPT ![req[l].lba] = req[l].val]
  /\ req' = [req EXCEPT ![l].seen = TRUE]
  /\ UNCHANGED dur

\* An update becomes durable.
Harden(l) ==
  /\ ~req[l].hard
  /\ dur' = [dur EXCEPT ![req[l].lba] = req[l].val]
  /\ req' = [req EXCEPT ![l].hard = TRUE]
  /\ UNCHANGED dev

\* An update that changes nothing is visible and durable at once.
Skip(l) ==
  /\ ~req[l].seen /\ ~req[l].hard
  /\ dev[req[l].lba] = req[l].val
  /\ dur[req[l].lba] = req[l].val
  /\ req' = [req EXCEPT ![l].seen = TRUE, ![l].hard = TRUE]
  /\ UNCHANGED <<dev, dur>>

Update(l) ==
  /\ req[l].kind = "update"
  /\ Show(l) \/ Harden(l) \/ Skip(l)

Return(l) ==
  /\ req[l].kind # "idle"
  /\ req[l].seen
  /\ req[l].kind = "update" => req[l].hard
  /\ req' = [req EXCEPT ![l] = Idle]
  /\ UNCHANGED <<dev, dur>>

\* A crash forgets every operation in progress; each LBA keeps its visible
\* or its durable contents, which are the same unless an update of it was
\* in progress.
Crash ==
  /\ \A x \in LBAs : dev'[x] \in {dev[x], dur[x]}
  /\ DOMAIN dev' = LBAs
  /\ dur' = dev'
  /\ req' = [l \in Lanes |-> Idle]

Next ==
  \/ \E l \in Lanes : Call(l) \/ Observe(l) \/ Update(l) \/ Return(l)
  \/ Crash

Spec == Init /\ [][Next]_vars
=============================================================================
