-------------------------------- MODULE Udp --------------------------------
(***************************************************************************)
(* The socket table of src/MES/udp.c: what each call does to the table.    *)
(***************************************************************************)
EXTENDS Integers, FiniteSets

CONSTANT UDPNUM  \* sockets

ASSUME UdpAssumption == UDPNUM \in Nat \ {0}

NoOne == "none"
NoWhere == <<"0.0.0.0", 0>>
FreeSocket == [id |-> NoOne, bound |-> FALSE, at |-> NoWhere, packet |-> {}]

UdpSocks == 1 .. UDPNUM

\* udp_init
UdpInit == [s \in UdpSocks |-> FreeSocket]

Smallest(S) == CHOOSE s \in S : \A r \in S : s <= r

\* udpsocket: the first socket without owner, 0 when there is none.
UdpSocket(tab) ==
    LET unowned == {s \in UdpSocks : tab[s].id = NoOne}
    IN  IF unowned = {} THEN 0 ELSE Smallest(unowned)

\* The socket belongs to its caller from then on.
Owned(tab, s, id) == [tab EXCEPT ![s] = [@ EXCEPT !.id = id, !.packet = {}, !.bound = FALSE]]

\* udpbind refuses the socket of another program and an address in use.
MayBind(tab, s, id, at) ==
    tab[s].id = id /\ \A r \in UdpSocks : ~(tab[r].bound /\ tab[r].at = at)
Bound(tab, s, at) == [tab EXCEPT ![s] = [@ EXCEPT !.at = at, !.bound = TRUE]]

\* udpfree, of a socket of the caller
UdpFree(tab, s, id) == IF tab[s].id = id THEN [tab EXCEPT ![s] = FreeSocket] ELSE tab

\* udp: the first socket with the address of the datagram, 0 when there is none.
Addressed(tab, d) ==
    LET there == {s \in UdpSocks : tab[s].at = d.dst}
    IN  IF there = {} THEN 0 ELSE Smallest(there)

\* udp, when nobody waits: the datagram replaces the one that was not read,
\* also when there is no memory for it.
Kept(tab, s, d, memory) == [tab EXCEPT ![s].packet = IF memory THEN {d} ELSE {}]

\* udp_recv takes the datagram that is kept.
Taken(tab, s) == [tab EXCEPT ![s].packet = {}]
=============================================================================
