\* Everything that must eventually happen, under the fairness of the timer.
SPECIFICATION FairSpec
CONSTANTS
    MAX_TASK = 3
    MAX_PID = 30000
    NET_COUNT = 1
    SLEEPS <- Naps
    COUNTER = 1
    CALLS <- LiveCalls
    PIDS <- OnePid
    MAX_TIME = 1
    MAX_EXEC = 1
    MAX_PKT = 1
PROPERTIES RequestTaken TimersEnd EveryoneRuns
