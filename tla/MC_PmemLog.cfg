SPECIFICATION FairSpec
CONSTANTS
  Threads = {t1, t2}
  Start = 1
  PoolSize = 4
  OffsetMod = 8
  a = a
  b = b
  Byte = {a, b}
  Meta = Meta
  Bufs <- MC_Bufs
  ChunkSizes = {0, 1, 2}
  MaxOps = 4
  MaxCrash = 1
INVARIANTS TypeOK PoolReopens WalkSeesLog
PROPERTIES ImplementsLog LogCallsReturn
