SPECIFICATION FairSpec
CONSTANTS
  Threads = {t1, t2}
  Ptrs = {p1, p2}
  NChunk = 4
  ChunkSize = 2
  NArena = 2
  Foreign = {0, 1}
  Sizes = {3}
  Ops = {"pmalloc", "pfree", "prealloc"}
  MaxOps = 4
  MaxCrash = 0
INVARIANT Owned
PROPERTY HeapCallsReturn
CHECK_DEADLOCK FALSE
