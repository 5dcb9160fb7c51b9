------------------------------- MODULE IpRx -------------------------------
(***************************************************************************)
(* The way of a packet into MES: the receive interrupt of MES/ip.c, the    *)
(* two fifos of src/que.c that it fills and that ip_request empties in     *)
(* turn, and the packets of far senders that wait there for the MAC of the *)
(* gateway.  ip_request runs with interrupts off, one packet after the     *)
(* other; the interrupt runs between two scans.  A packet is its number in *)
(* the order of arrival.                                                   *)
(***************************************************************************)
EXTENDS Integers, Sequences

CONSTANTS
    MAXPKT,      \* packets in a fifo (256)
    WAIT,        \* scans that a packet waits for a MAC (2000)
    MaxArrived   \* bound: packets that arrive in a behaviour

ASSUME IpRxAssumption ==
    MAXPKT \in Nat \ {0} /\ WAIT \in Nat \ {0} /\ MaxArrived \in Nat

\* An ARP packet of the gateway, an IP packet of a host on a network of ours,
\* an IP packet of a host beyond the gateway.
Kinds == {"arp", "near", "far"}

VARIABLES
    rcv_fifo,    \* the two fifos of packets, the oldest first
    rcv_index,   \* the fifo that the interrupt fills
    todo,        \* packets that the current ip_request still has to look at
    known,       \* is the MAC of the gateway in the table
    kind,        \* ghost: the kinds of the packets that arrived, in order
    blocks,      \* ghost: the packets whose memory is allocated
    lost,        \* ghost: the packets that receive could not push
    delivered    \* ghost: the packets that went on to tcpip, in order

vars == <<rcv_fifo, rcv_index, todo, known, kind, blocks, lost, delivered>>

Init ==
    /\ rcv_fifo = [k \in {0, 1} |-> <<>>]
    /\ rcv_index = 0 /\ todo = 0 /\ known = FALSE
    /\ kind = <<>> /\ blocks = {} /\ lost = {} /\ delivered = <<>>

\* (mutant of Push) The packet goes to the end that pop_fifo takes from.
PushFront(q, p) == IF Len(q) < MAXPKT THEN <<p>> \o q ELSE q
\* push_fifo: a full fifo refuses.
Push(q, p) == IF Len(q) < MAXPKT THEN Append(q, p) ELSE q

\* receive, one packet: it gets memory (without memory it is dropped and
\* nothing remains) and is pushed; the answer of push_fifo is not looked at.
Receive(k) ==
    /\ todo = 0
    /\ Len(kind) < MaxArrived
    /\ kind' = Append(kind, k)
    /\ LET n == Len(kind')
           q == Push(rcv_fifo[rcv_index], [pkt |-> n, count |-> 0])
       IN  /\ rcv_fifo' = [rcv_fifo EXCEPT ![rcv_index] = q]
           /\ blocks' = blocks \cup {n}
           /\ lost' = IF q = rcv_fifo[rcv_index] THEN lost \cup {n} ELSE lost
    /\ UNCHANGED <<rcv_index, todo, known, delivered>>

\* ip_request: the fifos change their parts.
Start ==
    /\ todo = 0
    /\ rcv_index' = 1 - rcv_index
    /\ todo' = Len(rcv_fifo[rcv_index'])
    /\ UNCHANGED <<rcv_fifo, known, kind, blocks, lost, delivered>>

\* (mutant of Again) The count starts anew every time.
AgainFresh(count) == WAIT
\* A far packet whose gateway is not known goes back with a new count, until
\* the count is 1.
Again(count) == IF count = 0 THEN WAIT ELSE count - 1

\* (mutant of Freed) The memory stays allocated.
FreedNot(p) == blocks
\* free_mem of the packet.
Freed(p) == blocks \ {p}

\* One turn of the loop of ip_request: pop_fifo and what the packet calls for.
\* (A fragment goes on with its memory, to the lists of Reassembly.)
Handle ==
    /\ todo > 0
    /\ todo' = todo - 1
    /\ LET q == rcv_fifo[rcv_index]
           info == Head(q)
           p == info.pkt
           Left(s) == rcv_fifo' = [rcv_fifo EXCEPT ![rcv_index] = s]
           waits == kind[p] = "far" /\ ~ known
       IN  \/ /\ kind[p] = "arp"
              /\ known' = TRUE /\ blocks' = Freed(p) /\ Left(Tail(q))
              /\ UNCHANGED delivered
           \/ /\ kind[p] # "arp" /\ ~ waits
              /\ delivered' = Append(delivered, p) /\ blocks' = Freed(p) /\ Left(Tail(q))
              /\ UNCHANGED known
           \/ /\ waits /\ info.count = 1
              /\ blocks' = Freed(p) /\ Left(Tail(q))
              /\ UNCHANGED <<known, delivered>>
           \/ /\ waits /\ info.count # 1
              /\ Left(Push(Tail(q), [info EXCEPT !.count = Again(@)]))
              /\ UNCHANGED <<known, blocks, delivered>>
    /\ UNCHANGED <<rcv_index, kind, lost>>

\* gc_mac drops the entry of the gateway.
Forget ==
    /\ todo = 0 /\ known
    /\ known' = FALSE
    /\ UNCHANGED <<rcv_fifo, rcv_index, todo, kind, blocks, lost, delivered>>

Next == (\E k \in Kinds : Receive(k)) \/ Start \/ Handle \/ Forget

Spec == Init /\ [][Next]_vars

\* The kernel scans again and again; TasksLive shows that it does.
FairSpec == Spec /\ WF_vars(Start) /\ WF_vars(Handle)

-----------------------------------------------------------------------------
(* Properties. *)

Queued(k) == {rcv_fifo[k][i].pkt : i \in 1 .. Len(rcv_fifo[k])}

\* The memory of a packet is allocated exactly as long as the packet waits in
\* one of the fifos; only a packet that came while the fifo was full keeps
\* its memory for ever.  A packet that goes back always finds room.
MemoryFollowsQueue ==
    /\ blocks = Queued(0) \cup Queued(1) \cup lost
    /\ Queued(0) \cap Queued(1) = {}
    /\ \A k \in {0, 1}, i, j \in 1 .. MAXPKT :
          i < j /\ j <= Len(rcv_fifo[k]) => rcv_fifo[k][i].pkt # rcv_fifo[k][j].pkt
    /\ todo <= Len(rcv_fifo[rcv_index])

\* The packets of near senders go on in the order in which they came, though
\* two fifos take turns and far packets go back in between.
NearInOrder ==
    \A i, j \in 1 .. Len(delivered) :
        i < j /\ kind[delivered[i]] = "near" /\ kind[delivered[j]] = "near"
            => delivered[i] < delivered[j]

\* Every packet leaves its fifo, whatever its sender and even if the gateway
\* never answers.
EveryoneLeaves ==
    \A n \in 1 .. MaxArrived :
        n \in Queued(0) \cup Queued(1) ~> n \notin Queued(0) \cup Queued(1)
=============================================================================
