--------------------------- MODULE MCTasksCalls ---------------------------
(* Instance of Tasks for the system calls.  The tasks of a behaviour start,  *)
(* kill and wait for each other, or they call for the network; their load    *)
(* says which.                                                               *)
EXTENDS MCTasks

VARIABLE load

Calls == ProcessCalls \cup NetCalls
Requests == {req'[t] : t \in Slot} \ {"none"}

MCInit == Init /\ load \in {"process", "net"}

MCNext ==
    /\ Next
    /\ \/ load = "process" /\ Requests \subseteq ProcessCalls /\ net' = net
       \/ load = "net" /\ Requests \subseteq NetCalls /\ execs' <= 1
    /\ UNCHANGED load

MCSpec == MCInit /\ [][MCNext]_<<vars, load>>

Seen == <<Relevant, load>>
=============================================================================
