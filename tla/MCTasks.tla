------------------------------ MODULE MCTasks ------------------------------
(* Values of the constants of Tasks for model checking. *)
EXTENDS Tasks

ProcessCalls == {"exec", "kill", "wait"}
NetCalls == {"exec", "kill", "bind", "recv", "send", "accept"}
LiveCalls == {"exec", "kill", "send", "accept"}
Naps == {2}
NoNaps == {}
KillPids == {3, 4}
OnePid == {3}

\* States that differ only in what nothing reads any more count once: the
\* request and its answer after the stub has returned, the fields of a free
\* block.  (Runs of safety properties only.)
Awaited(t) == Live(t) /\ (upc[t] # "run" \/ net_count[t] > 0 \/ state[t] # {})
Relevant ==
    <<pid, next, prev, pid_count, wrapped, curtask, time_count, kpc,
      IF kpc = "loop" THEN K ELSE taskptr, net, execs,
      [t \in Slot |-> IF Live(t) THEN <<state[t], count[t], net_count[t], upc[t]>> ELSE <<>>],
      [t \in Slot |-> IF Awaited(t) THEN <<req[t], arg[t], retval[t], done[t]>> ELSE <<>>],
      [t \in Slot |-> IF Live(t) /\ "WAIT" \in state[t] THEN wait_pid[t] ELSE 0]>>
=============================================================================
