------------------------------- MODULE MCArp -------------------------------
(* Values of the constants of Arp for model checking. *)
EXTENDS Arp, TLC

CONSTANTS zero, a, b, none

\* Two hosts of two networks, and the address of a host that has none yet.
Hosts == {zero, a, b}
Networks == [ip \in Hosts |-> IF ip = zero THEN "0" ELSE IF ip = a THEN "A" ELSE "B"]

\* The MACs are alike, and so are the devices.
Alike == Permutations(Macs) \cup Permutations(Names)
=============================================================================
