SPECIFICATION Spec
CONSTANTS
    UDPNUM = 2
    Servers = {s1, s2}
    Addresses = {a1, a2}
    BLOCKS = 3
    TRIES = 4
    RESENDS = 2
    MAX_NET = 10
    MAX_OLD = 1
SYMMETRY Alike
INVARIANTS
    LeaseAcked
    SavedWhole
    LoadedNoGap
CHECK_DEADLOCK FALSE
