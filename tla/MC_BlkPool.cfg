SPECIFICATION Spec
CONSTANTS
  BTT_MIN_SIZE = 28
  BTT_MAX_ARENA = 32
  BTT_ALIGNMENT = 4
  BTT_MIN_LBA_SIZE = 2
  BTT_INTERNAL_LBA_ALIGNMENT = 2
  BTT_MAP_ENTRY_SIZE = 1
  InfoSize = 4
  FlogPairSize = 2
  OffsetWrap = 64
  Pools = {p1}
  Threads = {t1, t2}
  Files <- MCFiles
  PoolSizes <- MCPoolSizes
  PMEMBLK_MIN_POOL = 36
  DataOff = 4
  Bsizes = {0, 2, 4}
  NFREE = 2
  maxlane = 2
  LBAs = {0, 3}
  Values = {v1}
  Zero = Zero
  Garbage = Garbage
  EIO = EIO
  EINVAL = EINVAL
  EROFS = EROFS
  None = None
  Ops = {"create", "open", "check", "close", "read", "write", "set_zero", "set_error"}
  MaxOps = 4
  MaxCrash = 1
INVARIANTS ContentsKept CheckFindsConsistent LaneExclusive
PROPERTY CallsReturn
CHECK_DEADLOCK FALSE
