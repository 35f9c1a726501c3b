------------------------------ MODULE MC_Pmem ------------------------------
(* Sizes are scaled: a cache line has 8 bytes, the streaming loops move 16, *)
(* 4 and 2 bytes at a time.                                                 *)
EXTENDS Pmem

MCCpus ==
  {{"clflush"}, {"clflush", "sse2"}, {"clflush", "clwb", "sse2", "pcommit"},
   {"clflush", "clwb", "clflushopt", "sse2"}, {"clflush", "sse2", "pcommit"}}
MCEnvs == {{}, {"PMEM_NO_MOVNT", "PMEM_NO_CLFLUSHOPT"}, {"PMEM_NO_CLWB", "PMEM_NO_PCOMMIT"}}
=============================================================================
