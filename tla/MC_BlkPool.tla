----------------------------- MODULE MC_BlkPool -----------------------------
(* Two threads on pool files of one and of two arenas; sizes are scaled so *)
(* that an arena holds two or three blocks for callers.                    *)
EXTENDS BlkPool

OneArena  == DataOff + BTT_MAX_ARENA
TwoArenas == OneArena + BTT_MIN_SIZE

MCFiles ==
  {[kind |-> "absent", size |-> 0, feat |-> "none"],
   [kind |-> "raw", size |-> OneArena, feat |-> "none"],
   [kind |-> "pool", size |-> OneArena, feat |-> "ro_compat"],
   [kind |-> "pool", size |-> OneArena, feat |-> "incompat"]}
MCPoolSizes == {0, TwoArenas}

\* The conditions of the theorems on contents hold of this instance.
ASSUME InstanceFits == ZeroingFits /\ OffsetsFit
=============================================================================
