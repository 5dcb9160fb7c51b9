SPECIFICATION MCSpec
CONSTANTS
    PAGES = 7
    PAGE = 2
    CACHE = 4
    ENTRIES = 1
    FD_NUM = 2
    MAX_SIZE = 5
    Lengths = {5}
    Places = {3}
    Files <- MCFiles
    Dirs <- MCDirs
    ROM_PAGES = 4
    ROM_PAGE = 2
    SLOTS = 3
    MAX_DATA = 3
    Names <- MCNames
    Lines <- MCLines
    BLOCKS = 2
    BLOCK = 4
    PAGE_SE = 2
    TIMEOVER = 2
    CYCLE = 2
    Data <- MCPages
    Passes = {TRUE, FALSE}
    Faults = {"reset", "missed"}
CONSTRAINT NoLeak
VIEW Seen
INVARIANTS
    ChainsApart
    ReadBack
    CacheTrue
    RomApart
    KernelReads
    PageRead
CHECK_DEADLOCK FALSE
