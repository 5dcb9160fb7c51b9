-------------------------------- MODULE Put --------------------------------
(***************************************************************************)
(* The host program src/tool/put.c with the option -r, and the monitor     *)
(* CoreCom at the other end of the serial line.  It makes a file of the    *)
(* size of a program and sends the program line by line.  The monitor may  *)
(* miss characters of what it gets, and the host characters of the echo.   *)
(* Names of files are those of CoreCom; a line is <<position, cells>>,     *)
(* without cells when it is not a data record, and a program has at least  *)
(* one that is.                                                            *)
(***************************************************************************)
EXTENDS CoreCom

CONSTANTS
    Lines,  \* the lines of each program
    Faults  \* bound: which of "reset" and "missed" happen

ASSUME PutAssumption ==
    /\ \A n \in Names : /\ Lines[n] \in Seq(Nat \X Nat)
                        /\ \E k \in DOMAIN Lines[n] : Lines[n][k][2] > 0
    /\ Faults \subseteq {"reset", "missed"}

VARIABLE
    host   \* the program that is sent, and the line that is next

putVars == <<host, rom, filed, cmd, stray, short, sent>>

PutInit == MonInit /\ host = [pc |-> "end", name |-> "00", line |-> 0]

Records(n) == {k \in DOMAIN Lines[n] : Lines[n][k][2] > 0}

\* get_mem_size: from the lowest to the highest position.
MemSize(n) ==
    LET from == {Lines[n][k][1] : k \in Records(n)}
        to == {Lines[n][k][1] + Lines[n][k][2] : k \in Records(n)}
    IN  Greatest(to) - Least(from)

\* What the monitor may take a line for when characters of it are missing.
Missed ==
    \/ "missed" \in Faults /\ UNCHANGED monVars
    \/ /\ "missed" \in Faults
       /\ \E n \in Names : \E k \in Records(n) : \E answer \in {"@", "."} :
             EepData("junk", Lines[n][k][1], Lines[n][k][2], answer)

\* send_mem_data makes the file and does not look at the answer.  The first
\* line was read before and the second takes its place.
Begin(n) ==
    /\ host.pc = "end" /\ Ready
    /\ host' = [pc |-> "send", name |-> n, line |-> 2]
    /\ \/ NewFile(n, MemSize(n))
       \/ Missed
       \/ "missed" \in Faults /\ \E size \in 0 .. MemSize(n) : NewFile(n, size)

\* The line counts as written when a full stop came and the echo was right;
\* the answer "@" of eepdata has none, the messages of errors have.
Accepted(heard, answer) == heard /\ answer = "."

\* A data record is sent, and again until it is accepted.
Send ==
    /\ host.pc = "send" /\ Ready /\ host.line \in Records(host.name)
    /\ \/ \E answer \in {"@", "."}, heard \in {TRUE, "missed" \notin Faults} :
             /\ EepData(host.name, Lines[host.name][host.line][1],
                        Lines[host.name][host.line][2], answer)
             /\ host' = [host EXCEPT !.line = IF Accepted(heard, answer) THEN @ + 1 ELSE @]
       \/ Missed /\ UNCHANGED host

\* Other lines are passed over; behind the last one the program ends.
PassOver ==
    /\ host.pc = "send" /\ Ready /\ host.line \notin Records(host.name)
    /\ host' = IF host.line \in DOMAIN Lines[host.name] THEN [host EXCEPT !.line = @ + 1]
               ELSE [host EXCEPT !.pc = "end"]
    /\ UNCHANGED monVars

\* The operator, when the line is free.
Operator ==
    /\ host.pc = "end"
    /\ EraseFirst \/ \E n \in Names : DelFile(n)
    /\ UNCHANGED host

\* The monitor goes on with a command, or is reset: its prompt then ends the
\* wait of the host, which sends the line again.
Monitor ==
    /\ NewFileDel \/ NewFileAdd \/ EraseRest \/ ("reset" \in Faults /\ Reset)
    /\ UNCHANGED host

PutNext == Send \/ PassOver \/ Operator \/ Monitor \/ \E n \in Names : Begin(n)

PutSpec == PutInit /\ [][PutNext]_putVars

-----------------------------------------------------------------------------
\* put.c: "-r:  write to seeprom."  When all lines of a program were passed
\* the file holds all the data of them.
UploadWritten ==
    host.pc = "send" /\ host.line > Len(Lines[host.name]) =>
        \A k \in Records(host.name) :
            Lines[host.name][k][1] .. Lines[host.name][k][1] + Lines[host.name][k][2] - 1
                \subseteq sent[host.name]
=============================================================================
