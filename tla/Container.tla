----------------------------- MODULE Container -----------------------------
(***************************************************************************)
(* What the container of a bucket (container.h) gives the allocator: a set *)
(* of keys to which threads add keys they own and from which they take the *)
(* smallest one that is large enough.  That is what it is as long as no    *)
(* two operations overlap.  Operations that overlap may lose keys, disturb *)
(* the order, or end the process, but never hand a key to two threads.     *)
(***************************************************************************)
EXTENDS Integers

CONSTANTS Threads, Keys, NoKey

VARIABLES held,    \* the keys that can be taken
          out,     \* the keys the threads own
          sorted,  \* the search for a key is reliable
          key,     \* [Threads -> Keys \cup {NoKey}]: the key being added or taken
          inside,  \* [Threads -> {"no", "alone", "overlap"}]
          dead     \* the process has ended

vars == <<held, out, sorted, key, inside, dead>>

Init ==
  /\ held = {} /\ out = Keys /\ sorted = TRUE /\ dead = FALSE
  /\ key = [t \in Threads |-> NoKey] /\ inside = [t \in Threads |-> "no"]

\* Thread t begins an operation; it and those in progress overlap.
Enter(t) ==
  /\ ~ dead /\ inside[t] = "no"
  /\ inside' = [u \in Threads |->
       IF u = t THEN IF \E v \in Threads : inside[v] # "no" THEN "overlap" ELSE "alone"
       ELSE IF inside[u] = "no" THEN "no" ELSE "overlap"]

\* The keys no thread owns, adds or takes.
Idle == Keys \ (out \cup {key[t] : t \in Threads})

\* Thread t ends its operation, with h the keys the container ought to hold.
Leave(t, h) ==
  /\ ~ dead /\ dead' = FALSE
  /\ inside' = [inside EXCEPT ![t] = "no"]
  /\ key' = [key EXCEPT ![t] = NoKey]
  /\ \/ inside[t] = "alone" /\ held' = h /\ sorted' \in {TRUE, sorted}
     \/ inside[t] = "overlap" /\ held' \in SUBSET Idle' /\ sorted' \in BOOLEAN

BeginAdd(t) ==
  \E k \in out :
    /\ Enter(t) /\ key' = [key EXCEPT ![t] = k] /\ out' = out \ {k}
    /\ UNCHANGED <<held, sorted, dead>>

EndAdd(t) == out' = out /\ Leave(t, held \cup {key[t]})

\* The keys that a search among fit may find.
Found(fit) == IF sorted THEN {k \in fit : \A j \in fit : k <= j} ELSE fit

BeginTake(t) ==
  \E low \in Keys :
    \E k \in Found({j \in held : j >= low}) \cup Found(held \cap {low}) :
      /\ Enter(t) /\ key' = [key EXCEPT ![t] = k] /\ held' = held \ {k}
      /\ UNCHANGED <<out, sorted, dead>>

EndTake(t) == out' = out \cup {key[t]} /\ Leave(t, held)

\* Overlapping operations may disturb the order, or end the process.
Disturb(t) ==
  /\ inside[t] = "overlap" \/ ~ sorted
  /\ sorted' \in BOOLEAN
  /\ UNCHANGED <<held, out, key, inside, dead>>

Die(t) ==
  /\ inside[t] = "overlap" /\ dead' = TRUE
  /\ UNCHANGED <<held, out, sorted, key, inside>>

Next ==
  \E t \in Threads :
    \/ BeginAdd(t) \/ EndAdd(t) \/ BeginTake(t) \/ EndTake(t)
    \/ Disturb(t) \/ Die(t)

Spec == Init /\ [][Next]_vars
=============================================================================
