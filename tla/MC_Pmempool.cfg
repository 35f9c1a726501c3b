SPECIFICATION MCSpec
CONSTANTS
  BTT_MIN_SIZE = 28
  BTT_MAX_ARENA = 32
  BTT_ALIGNMENT = 4
  BTT_MIN_LBA_SIZE = 2
  BTT_INTERNAL_LBA_ALIGNMENT = 2
  BTT_MAP_ENTRY_SIZE = 1
  InfoSize = 4
  FlogPairSize = 2
  OffsetWrap = 64
  NArenas = 2
  ExtNlba = 2
  NFree = 2
  LibSeqs <- MCLibSeqs
  LogSize = 3
  LogStart = 1
  MaxFaults = 2
  MaxCrash = 1
  W = 16
  Invocations <- MCInvocations
  FsInit <- MCFs
  FsAvail = 70
  MinLog = 10
  MinBlk = 32
  MinBlkSize = 2
  BlkHdr = 4
  NFREE = 1
INVARIANTS RepairSound MapRepaired RepairKeepsData RangesExact CreateSound
CHECK_DEADLOCK FALSE
