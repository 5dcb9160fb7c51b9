------------------------------- MODULE MCTcp -------------------------------
(* Instance of Tcp: a table of two sockets, two programs and one peer.  The  *)
(* flags are those the handlers tell apart.  The programs of a behaviour     *)
(* are servers or clients, which their load says, and segments go to their   *)
(* ports; data comes with an ACK.                                            *)
EXTENDS Tcp

VARIABLE load

Flags == {{"syn"}, {"syn", "ack"}, {"ack"}, {"ack", "fin"}, {"fin"}, {"rst"}}

Arriving(ports) ==
    {g \in Segments : g.dst \in ports /\ (g.len > 0 => "ack" \in g.flags)}

Servers ==
    \/ \E g \in Arriving(LowPorts) : Segment(g)
    \/ \E t \in Tasks, i \in Sock : ServerCall(t, i)

Clients ==
    \/ \E g \in Arriving(HighPorts) : Segment(g)
    \/ \E t \in Tasks, i \in Sock : ClientCall(t, i)

MCInit == Init /\ load \in {"server", "client"}

MCNext ==
    /\ ~down
    /\ Common \/ (load = "server" /\ Servers) \/ (load = "client" /\ Clients)
    /\ UNCHANGED load

MCSpec == MCInit /\ [][MCNext]_<<vars, load>> /\ WF_vars(Interval)
=============================================================================
