SPECIFICATION MCSpec
CONSTANTS
    TCP_NUM = 2
    Tasks = {t1, t2}
    Peers = {p}
    LowPorts = {1}
    HighPorts = {2}
    DataPorts = {1}
    RETRIES = 2
    FlagSets <- Flags
    MAX_SEQ = 2
    MAX_LEN = 2
    MAX_ITEM = 2
    MAX_MEM = 3
INVARIANTS
    StreamHeld
    PacketLive
PROPERTIES
    AckTried
    SenderGoesOn
CHECK_DEADLOCK FALSE
