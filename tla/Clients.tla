------------------------------ MODULE Clients ------------------------------
(***************************************************************************)
(* A program that talks to a server over UDP: if_dhcp of                   *)
(* src/MES/libsys/dhcp.c or tftp_save and tftp_load of                     *)
(* src/MES/libsys/tftp.c, with the calls of src/MES/libsys/net.c and the   *)
(* kernel's udp.c behind them.  The net loses, delays, reorders and        *)
(* repeats datagrams, and may still hold replies to an earlier call: the   *)
(* numbers of the DHCP transactions come from the MAC and tftp_common binds*)
(* port 1025, in every call.  The servers are external: they do what the   *)
(* client expects of the protocol.                                         *)
(***************************************************************************)
EXTENDS Udp, Sequences

CONSTANTS
    Servers,   \* hosts with a DHCP server
    Addresses, \* addresses that they give away
    BLOCKS,    \* blocks of the file, the last one is short
    TRIES,     \* times that tftp_save sends a block, 4
    RESENDS,   \* times that dhcp_getip sends a message again, 3
    MAX_NET,   \* bound: datagrams that arrive anywhere
    MAX_OLD    \* bound: different replies to an earlier call in the net

ASSUME ClientsAssumption ==
    /\ UDPNUM >= 2 /\ BLOCKS \in Nat \ {0}
    /\ TRIES \in Nat \ {0} /\ RESENDS \in Nat /\ MAX_NET \in Nat /\ MAX_OLD \in Nat

VARIABLES
    tab,    \* udp_table
    prog,   \* the program
    net,    \* the datagrams that were sent
    moved,  \* how many arrivals there were
    serv    \* external: what the servers acknowledged, and the file they hold

vars == <<tab, prog, net, moved, serv>>

SELF == "client"
BROADCAST == "255.255.255.255"
TFTPD == "tftpd"
DHCP_SERVER == <<BROADCAST, 67>>
TFTP_SERVER == <<TFTPD, 69>>

\* pc: run until the next recvfrom, recv before it, wait in it, end.
\* buf: what is in s_dhcpbuf before an offer.  call (ghost): "earlier" when the
\* PACK, the acknowledgement of the last block or a block of the file was a reply
\* to an earlier call.
Program(kind) ==
    [kind |-> kind, pc |-> "run", phase |-> NoOne, sock |-> 0, target |-> NoWhere,
     n |-> 0, pnum |-> 0, ip |-> 0, file |-> <<>>, ret |-> -1, buf |-> "unset",
     call |-> "this"]

\* sendto.  call (ghost): the call that it is of or answers.
Datagram(src, dst, kind, x, ip, no) ==
    [src |-> src, dst |-> dst, kind |-> kind, xid |-> x, ip |-> ip, no |-> no, to |-> NoOne,
     call |-> "this"]
Here == <<SELF, 1025>>
ToClient == <<BROADCAST, 68>>

\* The replies to an earlier call of the same program: of the servers and their
\* addresses, or of a transfer from another port of the TFTP server.
OldReplies(kind) ==
    {[d EXCEPT !.call = "earlier"] : d \in
        IF kind = "dhcp"
        THEN {Datagram(<<s, 67>>, ToClient, reply[1], reply[2], a, 0) :
                 s \in Servers, a \in Addresses, reply \in {<<"offer", 1>>, <<"pack", 2>>, <<"nak", 2>>}}
        ELSE {Datagram(<<TFTPD, 1999>>, Here, reply, 0, 0, no) :
                 reply \in {"ack", "data"}, no \in 0 .. BLOCKS}}

Init ==
    /\ tab = UdpInit
    /\ \E kind \in {"dhcp", "save", "load"} :
          /\ prog = Program(kind)
          /\ \E few \in SUBSET OldReplies(kind) : Cardinality(few) <= MAX_OLD /\ net = few
    /\ moved = 0
    /\ serv = [acked |-> {}, file |-> <<>>]

\* The DHCP messages; xid|=0x1000000 tells the two transactions of a call apart,
\* not those of two calls.
Discover == Datagram(<<SELF, 68>>, DHCP_SERVER, "discover", 1, 0, 0)
Request(p) == [Datagram(<<SELF, 68>>, DHCP_SERVER, "request", 2, p.ip, 0)
                 EXCEPT !.to = p.target[1]]

\* The TFTP messages.
Wrq == Datagram(Here, TFTP_SERVER, "wrq", 0, 0, 0)
Rrq == Datagram(Here, TFTP_SERVER, "rrq", 0, 0, 0)
Block(p) == Datagram(Here, p.target, "data", 0, 0, p.pnum)
AckPut(dst, no) == Datagram(Here, dst, "ack", 0, 0, no)

\* What a program does next, and what it sends before.
Go(p, out) == [prog |-> p, out |-> out]
End(p, ret) == [p EXCEPT !.pc = "end", !.ret = ret]
Again(p) == [p EXCEPT !.pc = "recv"]

-----------------------------------------------------------------------------
(* dhcp_getip and if_dhcp                                                   *)

\* (mutant of OwnReply) The number of the transaction is not compared.
OwnReplyAny(d, x) == d.kind \in {"offer", "pack", "nak"}
\* The reply has the number of the transaction and the client's MAC.
OwnReply(d, x) == d.kind \in {"offer", "pack", "nak"} /\ d.xid = x

\* An offer is requested of the server that it came from.
Offered(p, ip, from) ==
    [Again(p) EXCEPT !.phase = "ack", !.n = 0, !.ip = ip, !.target = from]

OnOffer(p, d) ==
    LET q == Offered(p, d.ip, d.src)
    IN  IF ~OwnReply(d, 1) THEN Go([Again(p) EXCEPT !.buf = "other"], {}) ELSE Go(q, {Request(q)})

\* The acknowledgement ends the call: if_dhcp sets the address (and a gateway,
\* which is left out).
OnAck(p, d) ==
    IF ~OwnReply(d, 2) THEN Go(Again(p), {})
    ELSE Go([End(p, IF d.kind = "pack" THEN p.ip ELSE 0) EXCEPT !.call = d.call], {})

\* A buffer that nothing was received into holds anything, an offer of an earlier
\* call too, and so does the address of the sender.
Leftovers == [ip : Addresses \cup {0}, src : {NoWhere} \cup (Servers \X {67})]
Requested(p, d) ==
    LET q == Offered(p, d.ip, d.src) IN Go(q, {Discover, Request(q)})

\* recvfrom of dhcp_getip failed: it gives up, or the message is sent again and
\* the buffer compared all the same.  What was received before is no reply to
\* the message: it was compared then, and an offer has the other number.
Unanswered(p) ==
    IF p.n >= RESENDS THEN {Go(End(p, 0), {})}
    ELSE {Go([Again(p) EXCEPT !.n = @ + 1],
             {IF p.phase = "offer" THEN Discover ELSE Request(p)})}
         \cup IF p.phase = "offer" /\ p.buf = "unset"
              THEN {Requested(p, d) : d \in Leftovers} ELSE {}

-----------------------------------------------------------------------------
(* tftp_common                                                              *)

\* The next block of the file is sent.
NextBlock(p) ==
    LET q == [Again(p) EXCEPT !.phase = "put", !.n = 1, !.pnum = @ + 1]
    IN  Go(q, {Block(q)})

\* ack_get after the request to write
OnWrq(p, d) ==
    LET q == [p EXCEPT !.target = d.src]
    IN  IF d.kind = "ack" /\ d.no = 0 THEN NextBlock(q) ELSE Go(End(q, -1), {})

\* (mutant of Answers) Any acknowledgement moves to the next block.
AnswersAny(p, d) == TRUE
\* The acknowledgement is the one of the block.
Answers(p, d) == d.no = p.pnum

\* ack_get after a block: an acknowledgement of another block makes it send
\* the block again, TRIES times in all; a short block is the last.
OnBlock(p, d) ==
    LET q == [p EXCEPT !.target = d.src]
    IN  IF d.kind # "ack" THEN Go(End(q, -1), {})
        ELSE IF Answers(p, d)
        THEN IF p.pnum < BLOCKS THEN NextBlock(q)
             ELSE Go([End(q, 0) EXCEPT !.call = d.call], {})
        ELSE IF p.n = TRIES THEN Go(End(q, -1), {})
        ELSE Go([Again(q) EXCEPT !.n = @ + 1], {Block(q)})

\* (mutant of Acked) The block after the one that came is acknowledged.
AckedNext(d) == AckPut(d.src, d.no + 1)
\* The header goes back with the number it came with.
Acked(d) == AckPut(d.src, d.no)

\* tftp_load writes what comes and acknowledges it; a short datagram is the last.
OnData(p, d) ==
    LET q == [p EXCEPT !.target = d.src, !.file = Append(@, d.no),
                        !.call = IF d.call = "earlier" THEN d.call ELSE @]
    IN  Go(IF d.kind = "data" /\ d.no < BLOCKS THEN Again(q) ELSE End(q, 0), {Acked(d)})

-----------------------------------------------------------------------------
(* The program and the kernel.                                              *)

\* What the program does with a datagram, and may do when recvfrom failed.
\* tftp_load then writes nothing, acknowledges block 0 and reports success.
Handled(p, d) ==
    CASE p.phase = "offer" -> OnOffer(p, d)
      [] p.phase = "ack" -> OnAck(p, d)
      [] p.phase = "wrq" -> OnWrq(p, d)
      [] p.phase = "put" -> OnBlock(p, d)
      [] p.phase = "get" -> OnData(p, d)
TimedOut(p) ==
    CASE p.phase \in {"offer", "ack"} -> Unanswered(p)
      [] p.phase \in {"wrq", "put"} -> {Go(End(p, -1), {})}
      [] p.phase = "get" -> {Go(End(p, 0), {AckPut(p.target, 0)})}

\* The sockets are freed at the end.
Freed(t, p) ==
    IF p.pc = "end" THEN [s \in UdpSocks |-> UdpFree(t, s, SELF)[s]] ELSE t

Step(t, r) ==
    /\ prog' = r.prog
    /\ tab' = Freed(t, r.prog)
    /\ net' = net \cup r.out

\* The sockets are made and bound and the first message is sent.
Start ==
    /\ prog.pc = "run"
    /\ LET one == UdpSocket(tab)
           t1 == Owned(tab, one, SELF)
           ports == {p \in 1025 .. 1025 + UDPNUM : MayBind(t1, one, SELF, <<SELF, p>>)}
           t2 == Bound(t1, one, <<SELF, Smallest(ports)>>)
           d1 == Bound(t1, one, <<"0.0.0.0", 68>>)
           two == UdpSocket(d1)
           d2 == Bound(Owned(d1, two, SELF), two, ToClient)
           p == Again([prog EXCEPT !.sock = one, !.target = TFTP_SERVER])
       IN  CASE prog.kind = "dhcp" ->
                  Step(d2, Go([p EXCEPT !.phase = "offer", !.sock = two], {Discover}))
             [] prog.kind = "save" -> Step(t2, Go([p EXCEPT !.phase = "wrq"], {Wrq}))
             [] prog.kind = "load" -> Step(t2, Go([p EXCEPT !.phase = "get"], {Rrq}))
    /\ UNCHANGED <<moved, serv>>

\* recvfrom, udp_recv: a datagram that is kept is taken, else the program waits.
RecvFrom ==
    /\ prog.pc = "recv"
    /\ \/ \E d \in tab[prog.sock].packet :
             Step(Taken(tab, prog.sock), Handled([prog EXCEPT !.pc = "run"], d))
       \/ /\ tab[prog.sock].packet = {}
          /\ prog' = [prog EXCEPT !.pc = "wait"] /\ UNCHANGED <<tab, net>>
    /\ UNCHANGED <<moved, serv>>

\* udp: the datagram goes to the program that waits for it, or is kept.
Arrive(d) ==
    /\ moved < MAX_NET /\ moved' = moved + 1
    /\ LET s == Addressed(tab, d)
       IN  /\ s # 0
           /\ IF prog.pc = "wait" /\ prog.sock = s
              THEN Step(tab, Handled([prog EXCEPT !.pc = "run"], d))
              ELSE /\ \E memory \in BOOLEAN : tab' = Kept(tab, s, d, memory)
                   /\ UNCHANGED <<prog, net>>
    /\ UNCHANGED serv

\* net_count of recvfrom ran out.
Timeout ==
    /\ prog.pc = "wait"
    /\ \E r \in TimedOut([prog EXCEPT !.pc = "run"]) : Step(tab, r)
    /\ UNCHANGED <<moved, serv>>

-----------------------------------------------------------------------------
(* External: the servers.                                                   *)

Reply(d) == moved < MAX_NET /\ moved' = moved + 1 /\ net' = net \cup {d}

\* A DHCP server offers an address, and acknowledges or refuses the one that
\* is requested of it.
DhcpServer(s, d) ==
    /\ \/ /\ d.kind = "discover"
          /\ \E a \in Addresses :
                Reply(Datagram(<<s, 67>>, ToClient, "offer", d.xid, a, 0))
          /\ UNCHANGED serv
       \/ /\ d.kind = "request" /\ d.to = s
          /\ \/ /\ Reply(Datagram(<<s, 67>>, ToClient, "pack", d.xid, d.ip, 0))
                /\ serv' = [serv EXCEPT !.acked = @ \cup {d.ip}]
             \/ /\ Reply(Datagram(<<s, 67>>, ToClient, "nak", d.xid, 0, 0))
                /\ UNCHANGED serv
    /\ UNCHANGED <<tab, prog>>

\* A reply to another client is broadcast; what it says does not matter.
Stranger(s) ==
    /\ Reply(Datagram(<<s, 67>>, ToClient, "pack", 0, 0, 0))
    /\ UNCHANGED <<tab, prog, serv>>

\* A TFTP server stores the block it waits for, acknowledges any it has, and
\* sends the block after the one that is acknowledged.
TftpServer(d) ==
    LET from == <<TFTPD, 2000>>
    IN  /\ \/ d.kind = "wrq" /\ Reply(Datagram(from, d.src, "ack", 0, 0, 0)) /\ UNCHANGED serv
           \/ /\ d.kind = "data" /\ d.dst = from /\ d.no <= Len(serv.file) + 1
              /\ Reply(Datagram(from, d.src, "ack", 0, 0, d.no))
              /\ serv' = [serv EXCEPT !.file = IF d.no > Len(@) THEN Append(@, d.no) ELSE @]
           \/ /\ d.kind = "rrq" \/ (d.kind = "ack" /\ d.src = Here /\ d.no < BLOCKS)
              /\ Reply(Datagram(from, d.src, "data", 0, 0, d.no + 1)) /\ UNCHANGED serv
        /\ UNCHANGED <<tab, prog>>

ProgramStep == Start \/ RecvFrom \/ Timeout

Next ==
    \/ ProgramStep
    \/ \E d \in net : Arrive(d) \/ TftpServer(d) \/ \E s \in Servers : DhcpServer(s, d)
    \/ prog.kind = "dhcp" /\ \E s \in Servers : Stranger(s)

Spec == Init /\ [][Next]_vars

-----------------------------------------------------------------------------
(* What the programs promise.                                               *)

\* The address that if_dhcp sets was acknowledged by a server in this call,
\* however replies are lost, repeated or reordered, with several servers that
\* answer and replies to other clients and to earlier calls in between; unless
\* the PACK that it takes was sent to an earlier call, which has the same number
\* and may have been for another address.
LeaseAcked ==
    prog.kind = "dhcp" /\ prog.pc = "end" /\ prog.ret # 0 =>
        prog.call = "earlier" \/ prog.ret \in serv.acked

\* When tftp_save reports success the server has the whole file, unless the
\* acknowledgement that it took for the one of the last block was sent to an
\* earlier call.
SavedWhole ==
    prog.kind = "save" /\ prog.pc = "end" /\ prog.ret = 0 =>
        prog.call = "earlier" \/ serv.file = [k \in 1 .. BLOCKS |-> k]

\* What tftp_load wrote has no gap: a block comes behind all before it, though
\* one that arrives twice is written twice; unless one of them was sent to an
\* earlier call.
LoadedNoGap ==
    prog.kind = "load" /\ prog.call = "this" =>
        \A k \in DOMAIN prog.file : \A b \in 1 .. prog.file[k] - 1 :
            \E j \in 1 .. k - 1 : prog.file[j] = b
=============================================================================
