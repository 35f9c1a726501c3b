SPECIFICATION PmemSpec
CONSTANTS
  FLUSH_ALIGN = 8
  CHUNK_SIZE = 16
  MOVNT_SIZE = 4
  DWORD_SIZE = 2
  PageSize = 16
  MemSize = 64
  AddrSpace = 256
  Cpus = {{"clflush", "clwb", "sse2"}}
  Envs = {{}}
  Dests = {9, 11}
  Srcs = {0, 24}
  Lens = {9, 24}
  Pattern = 99
INVARIANT PersistDurable
CHECK_DEADLOCK FALSE
