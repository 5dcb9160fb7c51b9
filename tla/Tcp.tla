-------------------------------- MODULE Tcp --------------------------------
(***************************************************************************)
(* The TCP layer, src/MES/tcp.c, with the calls of programs that reach it  *)
(* through request and net_request (src/MES/request.c) and tcp_interval,   *)
(* which the kernel task runs once a second.  Handlers run in the kernel   *)
(* task with interrupts off, so each is one action.  What arrives from the *)
(* net is any segment: the net may lose, repeat and reorder, and a peer    *)
(* may be silent.  The byte number n of a peer has the value n; sequence   *)
(* numbers sent to it are kept as far as the code compares them.           *)
(***************************************************************************)
EXTENDS TcpList

CONSTANTS
    TCP_NUM,    \* sockets
    Tasks,      \* programs
    Peers,      \* remote addresses and ports
    LowPorts,   \* local ports on which servers listen
    HighPorts,  \* local ports of clients, named or given out
    RETRIES,    \* TCP_DEF_RETRIES
    FlagSets,   \* the flags that segments carry
    DataPorts,  \* bound: the local ports whose peers send data
    MAX_SEQ,    \* bound: bytes that a peer sends over one connection
    MAX_LEN     \* bound: bytes of a segment and of a read

NONE == "none"

ASSUME TcpAssumption ==
    /\ TCP_NUM \in Nat \ {0} /\ RETRIES \in Nat \ {0}
    /\ MAX_SEQ \in Nat /\ MAX_LEN \in Nat
    /\ NONE \notin Tasks \cup Peers /\ 0 \notin LowPorts \cup HighPorts
    /\ FlagSets \subseteq SUBSET {"syn", "ack", "fin", "rst"}

VARIABLES
    sock,    \* tcp_socket
    task,    \* what a program waits for, and whether it runs
    down     \* undefined from here on: the links of a list lead round or past
             \* items, or a pointer is used that is null or was never assigned

vars == <<sock, task, down>>

Sock == 1 .. TCP_NUM

\* A RST is taken whatever its number; a peer that sends no data has a SYN and
\* a FIN to count.
Segments ==
    {g \in [src : Peers, dst : LowPorts \cup HighPorts, flags : FlagSets,
            seq : 0 .. MAX_SEQ + 1, acks : BOOLEAN, len : 0 .. MAX_LEN] :
        /\ "syn" \in g.flags <=> g.seq = 0
        /\ "syn" \in g.flags => g.len = 0
        /\ "rst" \in g.flags => g.seq = 1 /\ g.len = 0
        /\ g.len > 0 => g.dst \in DataPorts /\ g.seq + g.len <= MAX_SEQ + 1
        /\ g.dst \notin DataPorts => g.seq <= 2
        /\ "ack" \in g.flags \/ ~g.acks}

\* acks: the acknowledgement is send_next.
Data(g) == [k \in 1 .. g.len |-> g.seq + k - 1]

\* unack: send_unacked differs from send_next; pkt: what packet points to, a
\* block that it keeps, null when alloc_mem refused one (the code does not look,
\* and address 0 is ROM, which a store leaves as it is), or none.
\* Ghosts: owed, receive_next was given to no process_tcp_out yet; got, the
\* bytes read.
FreeSock ==
    [state |-> "free", type |-> NONE, id |-> NONE, rem |-> NONE, loc |-> 0,
     unack |-> FALSE, rnext |-> 0, retry |-> 0, ackt |-> 0, fin |-> 0,
     close |-> 0, pkt |-> "none", list |-> NewList(0), owed |-> FALSE, got |-> <<>>]

\* What alloc_mem gives for a packet.
Blocks == {"kept", "null"}

Idle == [wait |-> NONE, on |-> 0, to |-> NONE]
Waiting(w, i) == [wait |-> w, on |-> i, to |-> NONE]

Init ==
    /\ sock = [i \in Sock |-> FreeSock]
    /\ task = [t \in Tasks |-> Idle]
    /\ down = FALSE

\* process_tcp_out is called, which takes the acknowledgement into its segment.
\* Whether frames leave with it is up to tmpmem and the interfaces, which the
\* callers do not learn, and to the net.
Sent(s) == [s EXCEPT !.owed = FALSE]

\* The owner waits in tcp_send; a free socket has no owner.
OwnerSends(s) == s.id # NONE /\ task[s.id].wait = "send"

\* The record of a socket whose connection ended: nothing reads its list, its
\* bytes and its sequence numbers before the next connection sets them anew.
Left(s) == [s EXCEPT !.list = NewList(0), !.got = <<>>, !.rnext = 0, !.unack = FALSE,
                     !.owed = FALSE]

\* What alloc_mem gives for the next packet; without one it is not asked.
NextBlocks(s) == IF OwnerSends(s) THEN Blocks ELSE {"kept"}

\* (mutant of Confirmed) The packet is given up and its timer goes on.
ConfirmedKeepsTimer(s, block) == [s EXCEPT !.pkt = "none"]
\* The packet in flight is given up; when the owner waits for that, the next
\* one is sent, with whatever alloc_mem gives for it.
Confirmed(s, block) ==
    IF OwnerSends(s)
    THEN Sent([s EXCEPT !.pkt = block, !.retry = RETRIES, !.unack = TRUE])
    ELSE [s EXCEPT !.pkt = "none", !.retry = 0]

\* tcp_newstate to CONNECTED.  A connection that goes on is confirmed by any
\* segment in order, even one that acknowledges nothing.
Connected(s, block) ==
    [(IF s.retry > 0 THEN Confirmed(s, block) ELSE s) EXCEPT !.state = "connected"]

\* The tasks after that.
Served(s) ==
    IF s.retry > 0 /\ OwnerSends(s) THEN [task EXCEPT ![s.id] = Idle] ELSE task

\* tcp_newstate to any other state.
NewState(s, new) ==
    LET n == IF new \in {"syn_sent", "syn_received"} THEN s ELSE Left(s)
    IN  [n EXCEPT !.state = new,
                  !.close = IF new = "timed_wait" /\ s.state # new THEN 1 ELSE @,
                  !.fin = IF new = "closed" THEN 0 ELSE @]

\* A connection that ends: a server listens again.
Ended(s) == NewState(s, IF s.type = "server" THEN "listening" ELSE "closed")

\* tcp_releasesocket: the owner releases its socket in any state.
Releasable(s, t) == s.id = t \/ s.state \in {"free", "reserved", "closed"}

\* tcp_getfreeport: the next local port that no open socket uses.
GetFreePort ==
    {p \in HighPorts :
        \A i \in Sock : sock[i].state \notin {"free", "reserved", "closed"} => sock[i].loc # p}

SetSock(i, s) == sock' = [sock EXCEPT ![i] = s]

\* A program that runs calls on a socket on which no other program waits.
MayCall(t, i) ==
    ~down /\ task[t].wait = NONE
    /\ \A u \in Tasks : task[u].wait # NONE => task[u].on # i

-----------------------------------------------------------------------------
(* Calls of programs.                                                       *)

\* tcpsocket
Socket(t) ==
    /\ ~down /\ task[t].wait = NONE
    /\ \E i \in Sock :
          /\ sock[i].state = "free" /\ \A j \in 1 .. i - 1 : sock[j].state # "free"
          /\ SetSock(i, [FreeSock EXCEPT !.state = "reserved", !.id = t])
    /\ UNCHANGED <<task, down>>

\* tcpbind
Bind(t, i, p) ==
    /\ MayCall(t, i) /\ sock[i].state # "free"
    /\ SetSock(i, [sock[i] EXCEPT !.id = t, !.loc = p])
    /\ UNCHANGED <<task, down>>

\* tcp_listen
Listen(t, i, p) ==
    /\ MayCall(t, i)
    /\ sock[i].state \in {"reserved", "listening", "closed", "timed_wait"}
    /\ \A j \in Sock : ~(sock[j].id # NONE /\ sock[j].type = "server" /\ sock[j].loc = p)
    /\ SetSock(i, [sock[i] EXCEPT !.id = t, !.type = "server", !.state = "listening",
                                  !.loc = p, !.rem = NONE, !.unack = TRUE, !.rnext = 0])
    /\ UNCHANGED <<task, down>>

\* TCP_ACCEPT_REQ
Accept(t, i) ==
    /\ MayCall(t, i) /\ sock[i].state = "listening"
    /\ SetSock(i, [sock[i] EXCEPT !.id = t])
    /\ task' = [task EXCEPT ![t] = Waiting("accept", i)]
    /\ UNCHANGED down

\* tcpconnect: the caller becomes the owner and gets a port even when the
\* state of the socket refuses the call.
TcpConnect(t, i, peer) ==
    \E p \in IF sock[i].loc = 0 THEN GetFreePort ELSE {sock[i].loc} :
        LET s == [sock[i] EXCEPT !.id = t, !.loc = p]
        IN  SetSock(i, IF s.state \in {"reserved", "listening", "closed"}
                       THEN Sent([s EXCEPT !.type = "client", !.rem = peer,
                                           !.unack = TRUE, !.state = "syn_sent"])
                       ELSE s)

\* TCP_CONN_REQ: the caller waits whether tcpconnect took the socket or not;
\* when the address is not known yet it waits for the answer of arp first.
Connect(t, i, peer) ==
    /\ MayCall(t, i)
    /\ TcpConnect(t, i, peer) \/ UNCHANGED sock
    /\ task' = [task EXCEPT ![t] = [Waiting("conn", i) EXCEPT !.to = peer]]
    /\ UNCHANGED down

\* net_request for TCP_CONN_REQ, in every scan while net_count lasts: a
\* connection wakes the caller, a refused one is tried again.
ConnScan(t) ==
    /\ ~down /\ task[t].wait = "conn"
    /\ LET i == task[t].on
       IN  \/ /\ sock[i].state = "connected"
              /\ task' = [task EXCEPT ![t] = Idle] /\ UNCHANGED sock
           \/ /\ sock[i].state \in {"reserved", "listening", "closed"}
              /\ TcpConnect(t, i, task[t].to) /\ UNCHANGED task
    /\ UNCHANGED down

\* net_count ran out.
ConnTimeout(t) ==
    /\ ~down /\ task[t].wait = "conn"
    /\ sock[task[t].on].state # "connected"
    /\ task' = [task EXCEPT ![t] = Idle]
    /\ UNCHANGED <<sock, down>>

\* tcpsend with nothing in flight: the packet is copied for resending.
Packet(s, block) == Sent([s EXCEPT !.pkt = block, !.unack = TRUE, !.retry = RETRIES])

\* tcpsend: while a packet is resent the caller waits with the next one.
TcpSend(t, i) ==
    LET s == [sock[i] EXCEPT !.id = t]
    IN  IF s.state # "connected"
        THEN UNCHANGED sock /\ task' = [task EXCEPT ![t] = Idle]
        ELSE IF s.retry > 0
        THEN SetSock(i, s) /\ task' = [task EXCEPT ![t] = Waiting("send", i)]
        ELSE /\ \E block \in Blocks :
                  SetSock(i, IF s.unack THEN s ELSE Packet(s, block))
             /\ task' = [task EXCEPT ![t] = Idle]

\* TCP_SEND_REQ, when arp knows the peer and when it has to ask.
Send(t, i) ==
    /\ MayCall(t, i) /\ sock[i].state = "connected"
    /\ \/ TcpSend(t, i)
       \/ /\ task' = [task EXCEPT ![t] = Waiting("arp", i)]
          /\ UNCHANGED sock
    /\ UNCHANGED down

\* net_request for TCP_SEND_REQ: the answer of arp came, or net_count ran out.
ArpSend(t) ==
    /\ ~down /\ task[t].wait = "arp"
    /\ \/ sock[task[t].on].state = "connected" /\ TcpSend(t, task[t].on)
       \/ task' = [task EXCEPT ![t] = Idle] /\ UNCHANGED sock
    /\ UNCHANGED down

\* tcprecv
Recv(t, i, size) ==
    /\ MayCall(t, i) /\ sock[i].state = "connected" /\ size > 0
    /\ LET u == Unread(sock[i].list)
           n == IF size < Len(u) THEN size ELSE Len(u)
       IN  SetSock(i, [sock[i] EXCEPT !.id = t, !.list = Read(@, size),
                                      !.got = @ \o SubSeq(u, 1, n)])
    /\ UNCHANGED <<task, down>>

\* tcp_close: the caller becomes the owner, a FIN is sent when nothing is in
\* flight.
Closed(s0, t) ==
    LET s == [s0 EXCEPT !.id = t]
    IN  CASE s.state \in {"listening", "syn_sent"} -> NewState(s, "closed")
          [] s.state = "syn_received" -> Sent(NewState(s, "finw1"))
          [] s.state = "connected" /\ ~s.unack ->
               Sent(NewState([s EXCEPT !.unack = TRUE], "finw1"))
          [] OTHER -> s

\* tcpfree: the close, and then the socket is released.  A socket that can
\* not be released makes the caller wait for its fin_timer.
Free(t, i) ==
    /\ MayCall(t, i)
    /\ LET s == Closed(sock[i], t)
       IN  IF Releasable(s, t)
           THEN SetSock(i, FreeSock) /\ UNCHANGED task
           ELSE /\ SetSock(i, [s EXCEPT !.fin = 2])
                /\ task' = [task EXCEPT ![t] = Waiting("free", i)]
    /\ UNCHANGED down

\* tcpfreeid: each socket of the task is reset and released.
FreeId(t) == [i \in Sock |-> IF sock[i].id = t THEN FreeSock ELSE sock[i]]

\* A program ends or is killed, whatever it waits for.
Exit(t) ==
    /\ ~down /\ task[t].wait # "dead"
    /\ sock' = FreeId(t)
    /\ task' = [task EXCEPT ![t] = Waiting("dead", 0)]
    /\ UNCHANGED down

-----------------------------------------------------------------------------
(* Segments that arrive.                                                    *)

\* tcp_mapsocket: the first socket of the connection, else, for a SYN alone,
\* the first one that listens; 0 for none.
Mapped(g) ==
    LET first(S) == IF S = {} THEN 0 ELSE CHOOSE i \in S : \A j \in S : i <= j
        of == {i \in Sock : sock[i].state # "listening"
                              /\ sock[i].rem = g.src /\ sock[i].loc = g.dst}
    IN  IF of # {} THEN first(of)
        ELSE IF g.flags = {"syn"}
        THEN first({i \in Sock : sock[i].state = "listening" /\ sock[i].loc = g.dst})
        ELSE 0

Has(g, f) == f \in g.flags

\* What is in flight is acknowledged.
Acknowledged(s, g) == IF Has(g, "ack") /\ g.acks THEN [s EXCEPT !.unack = FALSE] ELSE s

\* A RST ends the connection or its opening.
Abort(i, g) ==
    /\ Has(g, "rst")
    /\ SetSock(i, Ended(sock[i])) /\ UNCHANGED <<task, down>>

\* The segment begins with the byte that is expected.
Continues(s, g) == s.rnext = g.seq

\* (mutant of Received) The expected byte moves over data that was refused.
ReceivedAnyway(s, list, g) == [s EXCEPT !.list = list, !.rnext = @ + g.len, !.owed = TRUE]
\* The data is in the list, or was refused; receive_next follows the list.
Received(s, list, g) == [s EXCEPT !.list = list, !.rnext = list.complete,
                                      !.owed = @ \/ list.complete > s.rnext]

\* ack_timer: the data is acknowledged at the next tcp_interval.
DueAck(s, g) == IF g.len > 0 THEN [s EXCEPT !.ackt = 1] ELSE s

\* tcp, TCP_STATE_CONNECTED, data or FIN that continue the stream: memory
\* says whether the list gets a block for the data.  The second copy of the
\* data, recv_packet, is read by nobody.
InOrder(i, g, memory, block) ==
    LET s0 == Acknowledged(sock[i], g)
        a == IF g.len = 0 THEN [list |-> s0.list, twice |-> FALSE]
             ELSE SetRData(s0.list, s0.rnext, Data(g), memory)
        s == Received(s0, a.list, g)
    IN  /\ Continues(sock[i], g)
        /\ IF a.twice THEN down' = TRUE /\ UNCHANGED <<sock, task>>
           ELSE /\ UNCHANGED down
                /\ \/ /\ Has(g, "fin") /\ ~s.unack
                      /\ SetSock(i, Sent([NewState(s, "last_ack") EXCEPT
                                            !.rnext = @ + 1, !.unack = TRUE]))
                      /\ UNCHANGED task
                   \/ /\ ~Has(g, "fin") \/ s.unack
                      /\ SetSock(i, Connected(DueAck(s, g), block))
                      /\ task' = Served(s)

\* tcp, TCP_STATE_CONNECTED.  Memory is asked for when there is data.
SegConnected(i, g) ==
    /\ sock[i].state = "connected"
    /\ \/ Abort(i, g)
       \/ /\ ~Has(g, "rst") /\ {"syn", "ack"} \subseteq g.flags
          /\ SetSock(i, IF g.seq + 1 = sock[i].rnext /\ g.acks THEN Sent(sock[i]) ELSE sock[i])
          /\ UNCHANGED <<task, down>>
       \/ /\ ~Has(g, "rst") /\ ~({"syn", "ack"} \subseteq g.flags)
          /\ ~sock[i].unack \/ Has(g, "ack")
          /\ \/ /\ ~Continues(sock[i], g)
                /\ SetSock(i, Sent(Acknowledged(sock[i], g))) /\ UNCHANGED <<task, down>>
             \/ \E memory \in {TRUE, g.len = 0}, block \in NextBlocks(sock[i]) :
                   InOrder(i, g, memory, block)

\* tcp_listener, TCP_EVENT_CONREQ: the owner waits in tcp_accept for this socket.
Accepts(s, i) ==
    /\ s.type = "server" /\ s.id # NONE
    /\ task[s.id].wait = "accept" /\ task[s.id].on = i

\* tcp, TCP_STATE_LISTENING: a SYN that nobody waits for is reset.  A SYN|ACK
\* is sent once, no timer repeats it.
SegListening(i, g) ==
    /\ sock[i].state = "listening"
    /\ LET s == [sock[i] EXCEPT !.rem = g.src]
       IN  SetSock(i, IF Accepts(s, i)
                      THEN Sent([NewState(s, "syn_received") EXCEPT
                                    !.rnext = g.seq + 1, !.unack = TRUE])
                      ELSE s)
    /\ UNCHANGED <<task, down>>

\* InitTCPSock for a connection that is established.
InitTCPSock(s) == [s EXCEPT !.list = NewList(s.rnext), !.got = <<>>]

\* tcp_dupsocket: the connection goes to the first free socket and the server
\* listens again.
Dup(i, s) ==
    LET n == CHOOSE j \in Sock : sock[j].state = "free"
                                   /\ \A k \in 1 .. j - 1 : sock[k].state # "free"
    IN  [sock EXCEPT ![n] = InitTCPSock([s EXCEPT !.type = "client"]),
                     ![i] = NewState([s EXCEPT !.rem = NONE], "listening")]

\* tcp_newstate to CONNECTED and tcp_listener, TCP_EVENT_CONNECTED.  With no
\* free socket the list is set up through an address that was never assigned,
\* and with no memory for it through null.
Established(i, s0) ==
    \E block \in NextBlocks(s0) :
        LET c == [s0 EXCEPT !.unack = FALSE]
            s == Connected(c, block)
            w == Served(c)
        IN  \/ UNCHANGED <<sock, task>> /\ down' = TRUE
            \/ /\ Accepts(s, i) /\ \E j \in Sock : sock[j].state = "free"
               /\ sock' = Dup(i, s) /\ task' = [w EXCEPT ![s.id] = Idle]
               /\ UNCHANGED down
            \/ /\ ~Accepts(s, i)
               /\ SetSock(i, InitTCPSock(s)) /\ task' = w
               /\ UNCHANGED down

\* tcp, TCP_STATE_SYN_RECEIVED
SegSynReceived(i, g) ==
    /\ sock[i].state = "syn_received"
    /\ \/ Abort(i, g)
       \/ /\ ~Has(g, "rst") /\ g.acks
          /\ \/ Has(g, "syn")
                /\ Established(i, Sent([sock[i] EXCEPT !.rnext = g.seq + 1]))
             \/ ~Has(g, "syn") /\ Continues(sock[i], g) /\ Established(i, sock[i])

\* tcp, TCP_STATE_SYN_SENT
SegSynSent(i, g) ==
    /\ sock[i].state = "syn_sent"
    /\ \/ Abort(i, g)
       \/ /\ ~Has(g, "rst") /\ Has(g, "syn")
          /\ LET s == Sent([sock[i] EXCEPT !.rnext = g.seq + 1])
             IN  \/ g.acks /\ Established(i, s)
                 \/ /\ ~Has(g, "ack")
                    /\ SetSock(i, NewState(s, "syn_received")) /\ UNCHANGED <<task, down>>

\* tcp, the states in which the connection is being closed.
Closing(s, g) ==
    LET fin == Sent([s EXCEPT !.rnext = g.seq + 1 + g.len])
        acked == [s EXCEPT !.unack = FALSE]
        next(x, new) == NewState(x, new)
    IN  CASE Has(g, "rst") -> Ended(s)
          [] ~Has(g, "rst") /\ s.state = "finw1" ->
               IF Has(g, "fin") /\ Has(g, "ack")
               THEN IF g.acks THEN next([fin EXCEPT !.unack = FALSE], "timed_wait") ELSE s
               ELSE IF Has(g, "fin") THEN next(fin, "closing")
               ELSE IF g.acks THEN next(acked, "finw2") ELSE s
          [] ~Has(g, "rst") /\ s.state = "finw2" ->
               IF Has(g, "fin") THEN next(fin, "timed_wait") ELSE s
          [] ~Has(g, "rst") /\ s.state = "closing" ->
               IF Has(g, "ack") THEN IF g.acks THEN next(acked, "timed_wait") ELSE s
               ELSE IF Has(g, "fin") THEN fin ELSE s
          [] ~Has(g, "rst") /\ s.state = "last_ack" ->
               IF Has(g, "ack") THEN IF g.acks THEN Ended(acked) ELSE s
               ELSE IF Has(g, "fin") THEN fin ELSE s
          [] ~Has(g, "rst") /\ s.state = "timed_wait" ->
               IF Has(g, "fin") THEN fin ELSE s

SegClosing(i, g) ==
    /\ sock[i].state \in {"finw1", "finw2", "closing", "last_ack", "timed_wait"}
    /\ SetSock(i, Closing(sock[i], g)) /\ UNCHANGED <<task, down>>

\* tcp: a segment that some socket takes; FREE, CLOSED and RESERVED sockets
\* answer with a RST.
Segment(g) ==
    /\ ~down
    /\ \E i \in {Mapped(g)} \ {0} :
          \/ SegConnected(i, g)
          \/ SegListening(i, g)
          \/ SegSynReceived(i, g)
          \/ SegSynSent(i, g)
          \/ SegClosing(i, g)

-----------------------------------------------------------------------------
\* (mutant of Tick) The acknowledgement is not sent while a packet is resent.
TickEither(s) ==
    IF s.state = "connected" /\ s.retry > 0 THEN Sent([s EXCEPT !.retry = @ - 1])
    ELSE IF s.state = "connected" /\ s.ackt > 0 THEN [s EXCEPT !.ackt = 0]
    ELSE s
\* tcp_interval for one socket whose resend timer does not run out.
Tick(s) ==
    LET r == IF s.state = "connected" /\ s.retry > 0 THEN Sent([s EXCEPT !.retry = @ - 1]) ELSE s
        u == CASE s.state = "connected" /\ s.ackt > 0 -> Sent([r EXCEPT !.ackt = 0])
               [] s.state = "timed_wait" /\ s.close = 1 -> Ended([s EXCEPT !.close = 0])
               [] OTHER -> r
    IN  IF u.fin = 1 THEN FreeSock ELSE [u EXCEPT !.fin = IF @ > 0 THEN @ - 1 ELSE 0]

\* (mutant of Expired) The timer runs out below zero.
ExpiredNever(s) == FALSE
\* The last resend was not acknowledged.
Expired(s) == s.state = "connected" /\ s.retry = 1

\* tcp_interval: the first socket whose timer runs out is reset and released,
\* its owner goes on, and the sockets behind it wait for the next second.
Interval ==
    /\ ~down
    /\ LET out == {i \in Sock : Expired(sock[i])}
           last == IF out = {} THEN TCP_NUM + 1 ELSE CHOOSE i \in out : \A j \in out : i <= j
       IN  /\ sock' = [i \in Sock |-> IF i < last THEN Tick(sock[i])
                                      ELSE IF i = last THEN FreeSock ELSE sock[i]]
           /\ task' = [t \in Tasks |->
                 IF /\ out # {} /\ sock[last].id = t
                    /\ task[t].wait \in {"accept", "send", "free"}
                 THEN Idle ELSE task[t]]
    /\ UNCHANGED down

ServerCall(t, i) == Accept(t, i) \/ \E p \in LowPorts : Listen(t, i, p)

ClientCall(t, i) ==
    \/ \E p \in HighPorts : Bind(t, i, p)
    \/ \E peer \in Peers : Connect(t, i, peer)

DataCall(t, i) == Send(t, i) \/ Free(t, i) \/ \E n \in 1 .. MAX_LEN : Recv(t, i, n)

Scan(t) == ConnScan(t) \/ ConnTimeout(t) \/ ArpSend(t)

\* What goes on whatever kind of connections programs make.
Common ==
    \/ \E t \in Tasks : Socket(t) \/ Exit(t) \/ Scan(t)
    \/ \E t \in Tasks, i \in Sock : DataCall(t, i)
    \/ Interval

Next ==
    \/ Common
    \/ \E g \in Segments : Segment(g)
    \/ \E t \in Tasks, i \in Sock : ServerCall(t, i) \/ ClientCall(t, i)

\* The kernel task counts seconds as long as it runs.
Spec == Init /\ [][Next]_vars /\ WF_vars(Interval)

-----------------------------------------------------------------------------
(* What the layer promises.                                                 *)

TypeOK ==
    /\ \A i \in Sock :
          /\ sock[i].state \in {"free", "reserved", "closed", "listening", "syn_received",
                 "syn_sent", "finw1", "finw2", "closing", "last_ack", "timed_wait", "connected"}
          /\ sock[i].type \in {NONE, "server", "client"}
          /\ sock[i].id \in Tasks \cup {NONE} /\ sock[i].rem \in Peers \cup {NONE}
          /\ sock[i].retry \in 0 .. RETRIES /\ sock[i].ackt \in 0 .. 1
    /\ \A t \in Tasks :
          /\ task[t].wait \in {NONE, "accept", "conn", "arp", "send", "free", "dead"}
          /\ task[t].on \in Sock \cup {0}
    /\ down \in BOOLEAN

\* What programs read of a connection and what its list holds for them is
\* what the peer sent up to receive_next: in order, no byte lost or repeated,
\* however segments are lost, repeated or reordered and whatever items and
\* packets alloc_mem refuses.  Nothing is said when the kernel is down, which it
\* is when the list itself is refused, when no socket is free for a connection
\* that is accepted, and when an item that was refused is linked a second time.
StreamHeld ==
    ~down => \A i \in Sock : sock[i].state = "connected" =>
        /\ Stream(sock[i].list, sock[i].got) = [k \in 1 .. sock[i].rnext - 1 |-> k]
        /\ sock[i].list.complete = sock[i].rnext

\* A block that is resent was not given back to the heap, whatever order
\* acknowledgements, timeouts, closes and new connections come in.  A packet
\* that alloc_mem refused is resent from address 0.
PacketLive == \A i \in Sock : sock[i].retry > 0 => sock[i].pkt # "none"

\* When a connection took data, process_tcp_out is called with its
\* acknowledgement, by tcp_interval if by nothing else, unless the connection
\* ends.  That call may still find no memory or no interface.
AckTried ==
    \A i \in Sock :
        sock[i].state = "connected" /\ sock[i].owed
          ~> ~sock[i].owed \/ down

\* A program that waits in tcp_send goes on when the peer is silent: resending
\* ends, with an answer or with the connection.  Of a sender whose connection
\* ends while it waits, by a RST or a FIN of the peer or by its close, nothing
\* is said.
SenderGoesOn ==
    \A t \in Tasks :
        task[t].wait = "send"
          ~> task[t].wait # "send" \/ sock[task[t].on].state # "connected" \/ down
=============================================================================
