------------------------------- MODULE MCSci -------------------------------
(* Instance of Ring and of Sci.  A behaviour shows one ring, with every order *)
(* of its calls, or the serial line, whose two rings are queues.             *)
EXTENDS Ring, Sci

CONSTANTS x, nl, cr, none

AllChars == {x, nl, cr}

VARIABLE part

MCInit == Init /\ SciInit /\ part \in {"ring", "line"}

MCNext ==
    /\ \/ part = "ring" /\ Next /\ UNCHANGED sciVars
       \/ part = "line" /\ SciNext /\ UNCHANGED vars
    /\ UNCHANGED part

\* The line is clocked and its interrupts are taken: they outrank the timer,
\* and no call keeps them masked for ever.
MCSpec ==
    /\ MCInit /\ [][MCNext]_<<vars, sciVars, part>>
    /\ WF_sciVars(part = "line" /\ Txi) /\ WF_sciVars(part = "line" /\ Shift)
    /\ WF_sciVars(part = "line" /\ Rxi) /\ WF_sciVars(part = "line" /\ Eri)
=============================================================================
