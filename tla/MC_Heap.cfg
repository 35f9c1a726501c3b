SPECIFICATION Spec
CONSTANTS
  Threads = {t1}
  Ptrs = {p1, p2}
  NChunk = 4
  ChunkSize = 2
  NArena = 1
  Foreign = {}
  Sizes = {3, 5}
  Ops = {"pmalloc", "pfree"}
  MaxOps = 6
  MaxCrash = 2
INVARIANTS ZoneSound CleanClose Owned UsedArePointedTo
CHECK_DEADLOCK FALSE
