\* Two callers, full and fragmented memory, requests for nothing.
SPECIFICATION Spec
CONSTANTS
    MEMSIZE = 80
    SECSIZE = 8
    IDS = {1, 2}
    BYTES <- Sizes
    PTRS <- Pointers
INVARIANTS NoOrphan
PROPERTIES KeepsPromise
