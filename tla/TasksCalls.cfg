\* exec, exit, kill and wait in every interleaving; and the calls that wait
\* for the network: recvfrom, sendto and accept.
SPECIFICATION MCSpec
CONSTANTS
    MAX_TASK = 4
    MAX_PID = 4
    NET_COUNT = 2
    SLEEPS <- NoNaps
    COUNTER = 1
    CALLS <- Calls
    PIDS <- KillPids
    MAX_TIME = 0
    MAX_EXEC = 3
    MAX_PKT = 2
VIEW Seen
INVARIANTS RingHolds RingReaches WaitsForLive AnswerTrue
PROPERTIES WaitIsOver ExitIsFinal RecvInOrder
