-------------------------------- MODULE Arp --------------------------------
(***************************************************************************)
(* The interfaces and the MAC address table of MES: netinfo of MES/ip.c    *)
(* and mac_Table of MES/arp.c.  Both belong to the kernel's scan, which    *)
(* runs with interrupts off, so a call is one step.                        *)
(***************************************************************************)
EXTENDS Integers, FiniteSetsExt

CONSTANTS
    IPNUM,           \* interfaces that netinfo has room for
    Names,           \* the network devices
    IPs, Zero,       \* IP addresses; Zero is 0.0.0.0
    NetOf,           \* IP address -> its network, under a mask of 24 bits
    Macs,
    MAX_IP_TABLE,    \* entries of mac_Table
    ARP_LIVETIME,    \* rounds of gc_mac that an entry lives
    None

ASSUME ArpAssumption ==
    /\ IPNUM \in Nat /\ MAX_IP_TABLE \in Nat \ {0} /\ ARP_LIVETIME \in Nat \ {0}
    /\ Zero \in IPs /\ None \notin IPs \cup Macs \cup Names
    /\ DOMAIN NetOf = IPs

VARIABLES
    netinfo,     \* the interfaces: device, address, is there a mask, enabled
    gateway_ip,
    mac_Table,   \* the entries: address, MAC, rounds left to live
    heard        \* ghost: the MAC that each address was heard with last

arpVars == <<netinfo, gateway_ip, mac_Table, heard>>

Slot == 0 .. IPNUM - 1
Entry == 0 .. MAX_IP_TABLE - 1
Unused == [name |-> None, ip |-> Zero, mask |-> FALSE, flag |-> FALSE]

\* ip_init, arp_init (with memory for the table)
ArpInit ==
    /\ netinfo = [i \in Slot |-> Unused]
    /\ gateway_ip = Zero
    /\ mac_Table = [i \in Entry |-> [ip |-> Zero, mac |-> None, timeout |-> 0]]
    /\ heard = [ip \in IPs |-> None]

Up(i) == netinfo[i].name # None

\* select_net finds an interface: one on the network of ip, or one that has
\* no mask yet, which matches everything.
OnNet(ip) == \E i \in Slot : Up(i) /\ (netinfo[i].mask => NetOf[ip] = NetOf[netinfo[i].ip])

-----------------------------------------------------------------------------
(* The table. *)

Live(i) == mac_Table[i].timeout > 0
With(ip) == {i \in Entry : Live(i) /\ mac_Table[i].ip = ip}
Dead == {i \in Entry : ~ Live(i)}

\* The live entries with the least time left, if that is less than a new one
\* gets.
Oldest ==
    {i \in Entry : /\ mac_Table[i].timeout < ARP_LIVETIME
                   /\ \A j \in Entry : mac_Table[i].timeout <= mac_Table[j].timeout}

\* The index that set_mac computes: the entry of the address, else the last
\* dead one, else the oldest; -1 when all are as fresh as can be.
Place(ip) ==
    IF With(ip) # {} THEN Min(With(ip))
    ELSE IF Dead # {} THEN Max(Dead) ELSE IF Oldest # {} THEN Min(Oldest) ELSE -1

\* set_mac, for an ARP packet or an IP packet from ip.  Index -1 is written
\* in front of the table: no entry changes.
SetMac(ip, mac) ==
    /\ OnNet(ip)
    /\ heard' = [heard EXCEPT ![ip] = mac]
    /\ mac_Table' = [i \in Entry |-> IF i = Place(ip)
                        THEN [ip |-> ip, mac |-> mac, timeout |-> ARP_LIVETIME] ELSE mac_Table[i]]
    /\ UNCHANGED <<netinfo, gateway_ip>>

\* (mutant of Usable) An entry that ran out still answers.
UsableAny(ip) == {i \in Entry : mac_Table[i].ip = ip}
\* The entries that get_mac looks at.
Usable(ip) == With(ip)

\* get_mac: 1 with a MAC, or -1.  An address on no network of ours is looked
\* up as the gateway.  (0 is returned when there is no table; the broadcast
\* address, which is answered at once, is left out.)
GetMac(ip) ==
    LET q == IF OnNet(ip) THEN ip ELSE gateway_ip
        found == Usable(q)
    IN  IF found # {}
        THEN [ret |-> 1, for |-> q, mac |-> mac_Table[Min(found)].mac]
        ELSE [ret |-> -1, for |-> q, mac |-> None]

Aged(t) == IF t > 0 THEN t - 1 ELSE 0

\* gc_mac, called once in 400 scans
Gc ==
    /\ mac_Table' = [i \in Entry |-> [mac_Table[i] EXCEPT !.timeout = Aged(@)]]
    /\ UNCHANGED <<netinfo, gateway_ip, heard>>

-----------------------------------------------------------------------------
(* The interfaces. *)

Free == {i \in Slot : ~ Up(i)}
Named(name) == {i \in Slot : netinfo[i].name = name}

\* (mutant of Chosen) A free slot is used before the one of the device, and
\* the device may be opened twice.
ChosenFree(name) == IF Free # {} THEN {Min(Free)} ELSE Named(name)
\* The slot that if_config2 sets: the first that is free or the device's.  A
\* free one in front of the device's is no good: the device is open already.
Chosen(name) ==
    LET i == Min(Free \cup Named(name))
    IN  IF Free \cup Named(name) = {} \/ (i \in Free /\ Named(name) # {}) THEN {} ELSE {i}

\* if_config, and if_up with neither address nor mask
IfConfig(name, ip, mask, flag) ==
    /\ \E i \in Chosen(name) :
          netinfo' = [netinfo EXCEPT ![i] = [name |-> name, ip |-> ip, mask |-> mask, flag |-> flag]]
    /\ UNCHANGED <<gateway_ip, mac_Table, heard>>

\* if_down: the first slot of the device; address and mask stay behind.
IfDown(name) ==
    /\ Named(name) # {}
    /\ netinfo' = [netinfo EXCEPT ![Min(Named(name))].name = None, ![Min(Named(name))].flag = FALSE]
    /\ UNCHANGED <<gateway_ip, mac_Table, heard>>

\* set_ip_addr, for an IP packet to the MAC of interface i: the interface
\* takes the address that the packet is for.
Adopt(i, ip) ==
    /\ Up(i)
    /\ netinfo[i].ip # Zero \/ ~ netinfo[i].flag
    /\ netinfo' = [netinfo EXCEPT ![i].ip = ip, ![i].mask = TRUE, ![i].flag = TRUE]
    /\ UNCHANGED <<gateway_ip, mac_Table, heard>>

IfGateway(ip) ==
    /\ gateway_ip' = ip
    /\ UNCHANGED <<netinfo, mac_Table, heard>>

ArpNext ==
    \/ \E ip \in IPs, mac \in Macs : SetMac(ip, mac)
    \/ Gc
    \/ \E name \in Names :
          \/ \E ip \in IPs, mask \in BOOLEAN : IfConfig(name, ip, mask, TRUE)
          \/ IfConfig(name, Zero, FALSE, FALSE)
          \/ IfDown(name)
    \/ \E i \in Slot, ip \in IPs \ {Zero} : Adopt(i, ip)
    \/ \E ip \in IPs : IfGateway(ip)

ArpSpec == ArpInit /\ [][ArpNext]_arpVars

-----------------------------------------------------------------------------
(* Properties. *)

\* A device is in one slot at most, in whatever order devices go up and down:
\* if_down and the receive interrupt would only see one of two.
OneSlotPerDevice ==
    \A i, j \in Slot : i # j /\ Up(i) => netinfo[i].name # netinfo[j].name

\* What get_mac finds is the MAC that the address, or the gateway in its
\* place, was heard with last, however entries were given up and reused.
AnswersNewest ==
    \A ip \in IPs : GetMac(ip).ret = 1 => GetMac(ip).mac = heard[GetMac(ip).for]

\* MES/arp.c:170-172: get_mac returns 0 when there is no NIC.
NoNicIsZero == (\A i \in Slot : ~ Up(i)) => \A ip \in IPs : GetMac(ip).ret = 0
=============================================================================
