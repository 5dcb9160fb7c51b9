------------------------------ MODULE MCClients ------------------------------
(* Instance of Clients: two DHCP servers and two addresses, a file of three     *)
(* blocks.                                                                    *)
EXTENDS Clients, TLC

\* The servers and the addresses are all alike.
Alike == Permutations(Servers) \cup Permutations(Addresses)
==============================================================================
