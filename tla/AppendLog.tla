----------------------------- MODULE AppendLog -----------------------------
(***************************************************************************)
(* What a log memory pool promises the threads that use it: one sequence   *)
(* of bytes of bounded length.  An append adds all of its bytes or none, a *)
(* rewind empties the log, a walk sees the log of one instant; a completed *)
(* append or rewind survives a crash, and one that a crash interrupts took *)
(* effect entirely or not at all.                                          *)
(***************************************************************************)
EXTENDS Naturals, Sequences

CONSTANTS Threads, Byte, Capacity

VARIABLES log,  \* what a walk sees
          dur,  \* what a crash would leave
          req   \* [Threads -> Request]: the call in progress on a thread

vars == <<log, dur, req>>

Idle == [kind |-> "idle", val |-> <<>>, stop |-> FALSE, seen |-> FALSE, hard |-> FALSE,
         res |-> <<>>]

Init ==
  /\ log = <<>> /\ dur = <<>>
  /\ req = [t \in Threads |-> Idle]

Call(t) ==
  /\ req[t].kind = "idle"
  /\ \/ req'[t].kind = "append" /\ req'[t].val \in Seq(Byte) /\ ~req'[t].stop
     \/ req'[t].kind \in {"rewind", "tell"} /\ req'[t].val = <<>> /\ ~req'[t].stop
     \/ req'[t].kind = "walk" /\ req'[t].val = <<>> /\ req'[t].stop \in BOOLEAN
  /\ req' = [req EXCEPT ![t] = [Idle EXCEPT !.kind = req'[t].kind, !.val = req'[t].val,
                                            !.stop = req'[t].stop]]
  /\ UNCHANGED <<log, dur>>

Full(v) == Len(log) >= Capacity \/ Len(v) > Capacity - Len(log)

\* An append or a rewind becomes visible ...
Show(t) ==
  /\ ~req[t].seen
  /\ \/ req[t].kind = "append" /\ ~Full(req[t].val) /\ log' = log \o req[t].val
     \/ req[t].kind = "rewind" /\ log' = <<>>
  /\ req' = [req EXCEPT ![t].seen = TRUE, ![t].res = <<0>>]
  /\ UNCHANGED dur

\* ... and then durable.
Harden(t) ==
  /\ req[t].kind \in {"append", "rewind"}
  /\ req[t].seen /\ ~req[t].hard
  /\ dur' = log
  /\ req' = [req EXCEPT ![t].hard = TRUE]
  /\ UNCHANGED log

\* An append that does not fit changes nothing.
Refuse(t) ==
  /\ req[t].kind = "append" /\ ~req[t].seen
  /\ Full(req[t].val)
  /\ req' = [req EXCEPT ![t].seen = TRUE, ![t].hard = TRUE]
  /\ UNCHANGED <<log, dur>>

\* A walk passes the whole log to its callback, or less if that stops it.
Walk(t) ==
  /\ req[t].kind = "walk" /\ ~req[t].seen
  /\ \E n \in 0 .. Len(log) :
       /\ ~req[t].stop => n = Len(log)
       /\ req' = [req EXCEPT ![t].seen = TRUE, ![t].hard = TRUE,
                             ![t].res = SubSeq(log, 1, n)]
  /\ UNCHANGED <<log, dur>>

Tell(t) ==
  /\ req[t].kind = "tell" /\ ~req[t].seen
  /\ req' = [req EXCEPT ![t].seen = TRUE, ![t].hard = TRUE, ![t].res = <<Len(log)>>]
  /\ UNCHANGED <<log, dur>>

Return(t) ==
  /\ req[t].seen /\ req[t].hard
  /\ req' = [req EXCEPT ![t] = Idle]
  /\ UNCHANGED <<log, dur>>

Crash ==
  /\ log' \in {log, dur}
  /\ dur' = log'
  /\ req' = [t \in Threads |-> Idle]

Next ==
  \/ \E t \in Threads : Call(t) \/ Show(t) \/ Harden(t) \/ Refuse(t) \/ Walk(t) \/ Tell(t) \/ Return(t)
  \/ Crash

Spec == Init /\ [][Next]_vars
=============================================================================
