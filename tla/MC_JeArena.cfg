SPECIFICATION MCSpec
CONSTANTS
    ta = ta
    tb = tb
    NoThread = NoThread
    Threads = {ta, tb}
    NumChunks = 2
    Pages = 3
    Sizes = {1, 2}
    Aligns = {1, 2}
    BinPages = 2
    NRegs = 2
    RegsPerPage = 1
    LgDirtyMult = 1
    SizeMod = 256
    Ops <- MCOps
    MaxCalls <- MCCalls
    PAGE = 4096
    LG_RUN_MAXREGS = 11
    RUN_BFP = 12
    RUN_MAX_OVRHD = 61
    RUN_MAX_OVRHD_RELAX = 6144
    REDZONE_MINSIZE = 16
    SizeofLong = 8
    SizeofRun = 16
    MapOffset = 48
    SizeofMapelm = 24
    UnsignedBits = 32
    ChunkPages = {512, 1024}
    SIZE_CLASSES <- MCClasses
    GroupBits = 2
    Nbits = {1, 2, 3, 4, 5, 6, 7, 8, 9}
    MaxLevels = 4
    NNodes = 8
INVARIANTS PageMapSound CleanIsZero BinComplete RunsLaidOut BitmapSound TreesSound
CHECK_DEADLOCK FALSE
