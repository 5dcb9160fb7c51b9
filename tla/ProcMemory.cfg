\* Three tasks whose pids wrap, two segments, and a memory that runs full.
\* Programs that could not be started may take all memory for good.
CHECK_DEADLOCK FALSE
SPECIFICATION MCSpec
CONSTANTS
    MEMSIZE = 72
    SECSIZE = 8
    MAX_PID = 4
    MAX_TASK = 3
    SHM_NUM = 2
    Keys = {0, 7, 9}
    ShmSizes = {0, 8}
    ProgSizes = {8}
    StackSizes = {8}
    DataSizes <- NoneOrTwo
    KernelSize = 8
INVARIANTS LedgerTrue ShmBacked
