------------------------------ MODULE MCIpRx ------------------------------
(* Instance of IpRx, of Ne and of Reassembly.  A behaviour shows the card    *)
(* and its driver, or what the kernel does with the packets, or how the      *)
(* fragments of packets are put together.                                    *)
EXTENDS IpRx, Ne, Reassembly

VARIABLE part

MCInit == Init /\ NeInit /\ FlagInit /\ part \in {"card", "kernel", "fragments"}

MCNext ==
    /\ \/ part = "card" /\ NeNext /\ UNCHANGED <<vars, flagVars>>
       \/ part = "kernel" /\ Next /\ UNCHANGED <<neVars, flagVars>>
       \/ part = "fragments" /\ FlagNext /\ UNCHANGED <<vars, neVars>>
    /\ UNCHANGED part

MCSpec ==
    /\ MCInit /\ [][MCNext]_<<vars, neVars, flagVars, part>>
    /\ WF_vars(part = "kernel" /\ Start) /\ WF_vars(part = "kernel" /\ Handle)
    /\ WF_flagVars(part = "fragments" /\ Second)

=============================================================================
