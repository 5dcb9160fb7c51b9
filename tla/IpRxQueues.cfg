\* More packets than the fifos and the ring of the card hold; more packets in
\* pieces than lists, more fragments than flaginfo blocks.
SPECIFICATION MCSpec
CONSTANTS
    MAXPKT = 2
    WAIT = 2
    MaxArrived = 4
    RX_PAGES = 4
    MAX_PAGES = 2
    MAX_FRAMES = 3
    Packets = {p1, p2, p3}
    Pieces = 3
    FLAGNUM = 2
    MAX_FLAG = 5
    TIMEOUT = 1
    None = none
INVARIANTS MemoryFollowsQueue NearInOrder ReadWhole NoneHidden WholePackets
PROPERTIES EveryoneLeaves ListsEnd
