----------------------------- MODULE MCProcMem -----------------------------
(* Instance of ProcMem for model checking.  The tasks of a behaviour are     *)
(* three at most, without data and segments, or two starts with both.  It is *)
(* followed up to the first step that spoils it, behind which nothing is     *)
(* claimed.                                                                  *)
EXTENDS ProcMem

\* Nothing, and one byte more than a section.
NoneOrTwo == {0, 9}

VARIABLE load

MCInit == Init /\ load \in {"tasks", "data"}

MCNext ==
    /\ \/ ~ spoilt /\ Next
       \/ spoilt /\ UNCHANGED vars
    /\ \/ load = "tasks" /\ sharemem' = sharemem /\ \A l \in ledger' : l.use # "data"
       \/ load = "data" /\ pid_count' >= pid_count
    /\ UNCHANGED load

MCSpec == MCInit /\ [][MCNext]_<<vars, load>>
=============================================================================
