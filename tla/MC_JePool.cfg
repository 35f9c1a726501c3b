SPECIFICATION Spec
CONSTANTS
    ta = ta
    tb = tb
    NoThread = NoThread
    Threads = {ta, tb}
    U = 10
    Areas <- MCAreas
    OtherRanges <- MCOther
    PoolUnits = 1
    ArenaUnits = 2
    NArenas = 2
    Sizes = {1, 2}
    Aligns = {2}
    Ops <- MCOps
    MaxCalls <- MCCalls
INVARIANTS PoolAccounted ZeroedIsZero ChunkTestsPass
CHECK_DEADLOCK FALSE
