SPECIFICATION PmemSpec
CONSTANTS
  FLUSH_ALIGN = 8
  CHUNK_SIZE = 16
  MOVNT_SIZE = 4
  DWORD_SIZE = 2
  PageSize = 16
  MemSize = 64
  AddrSpace = 256
  Cpus <- MCCpus
  Envs <- MCEnvs
  Dests = {8, 9, 10, 11, 13, 14, 15}
  Srcs = {0, 7, 9, 10, 15, 24, 30}
  Lens = {0, 1, 2, 3, 5, 9, 16, 24, 31}
  Pattern = 99
INVARIANTS RangeStored RangeDurable
CHECK_DEADLOCK FALSE
