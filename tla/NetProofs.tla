----------------------------- MODULE NetProofs -----------------------------
(***************************************************************************)
(* Two parts of the net side.  What holds of the interfaces and of the MAC *)
(* table for any number of devices, entries and addresses.  And what the   *)
(* programs that talk to DHCP and TFTP servers promise, for any number of  *)
(* servers and addresses, files of any length and a net that loses,        *)
(* delays, repeats and reorders what it likes.                             *)
(***************************************************************************)
EXTENDS Arp, Clients, SequenceTheorems, WellFoundedInduction, TLAPS

-----------------------------------------------------------------------------
(* The interfaces and the MAC table.                                         *)

\* The least number of a set: the first index that a search finds.
LEMMA MinIn ==
    ASSUME NEW S, S \subseteq Nat, S # {}
    PROVE  Min(S) \in S /\ \A y \in S : Min(S) <= y
<1> DEFINE R == OpToRel(<, Nat)
<1>1. \E x \in S : \A y \in S : ~ (<<y, x>> \in R)
  BY NatLessThanWellFounded, WFMin
<1>2. \A x, y \in S : <<y, x>> \in R <=> y < x
  BY DEF OpToRel
<1> HIDE DEF R
<1>3. PICK x \in S : \A y \in S : ~ (<<y, x>> \in R)
  BY <1>1
<1>4. \A y \in S : ~ (y < x)
  BY <1>2, <1>3
<1>5. \A y \in S : x <= y
  BY <1>4
<1> QED BY <1>5 DEF Min

\* The numbers of slots and entries.
LEMMA Indices == Slot \subseteq Nat /\ Entry \subseteq Nat
  BY ArpAssumption DEF Slot, Entry

-----------------------------------------------------------------------------
(* The interfaces.                                                           *)

NetType ==
    netinfo \in [Slot -> [name : Names \cup {None}, ip : IPs, mask : BOOLEAN, flag : BOOLEAN]]

NetInv == NetType /\ OneSlotPerDevice

\* The slot that if_config2 sets is free and the device has none, or it is
\* the device's.
LEMMA ChosenSlot ==
    ASSUME NEW name \in Names, NEW i \in Chosen(name)
    PROVE  i \in Slot /\ (i \in Named(name) \/ Named(name) = {})
<1>1. Free \cup Named(name) \subseteq Nat /\ Free \cup Named(name) \subseteq Slot
  BY Indices DEF Free, Named
<1>2. Free \cup Named(name) # {} /\ i = Min(Free \cup Named(name))
      /\ ~ (i \in Free /\ Named(name) # {})
  BY DEF Chosen
<1>3. i \in Free \cup Named(name)
  BY <1>1, <1>2, MinIn
<1> QED BY <1>1, <1>2, <1>3

LEMMA NetStep == ASSUME NetInv, [ArpNext]_arpVars PROVE NetInv'
<1> USE DEF NetInv, NetType, OneSlotPerDevice, Up
<1>1. CASE UNCHANGED netinfo
  BY <1>1
<1>2. ASSUME NEW name \in Names, NEW ip \in IPs, NEW mask \in BOOLEAN, NEW flag \in BOOLEAN,
             IfConfig(name, ip, mask, flag)
      PROVE  NetInv'
  <2>1. PICK i \in Chosen(name) :
          netinfo' = [netinfo EXCEPT ![i] = [name |-> name, ip |-> ip, mask |-> mask, flag |-> flag]]
    BY <1>2 DEF IfConfig
  <2>2. i \in Slot /\ (netinfo[i].name = name \/ \A j \in Slot : netinfo[j].name # name)
    BY <2>1, ChosenSlot DEF Named
  <2>3. NetType'
    BY <2>1, <2>2
  <2>4. \A j \in Slot : netinfo'[j].name = IF j = i THEN name ELSE netinfo[j].name
    BY <2>1, <2>2
  <2> QED BY <2>2, <2>3, <2>4
<1>3. ASSUME NEW name \in Names, IfDown(name) PROVE NetInv'
  <2> DEFINE i == Min(Named(name))
  <2>1. i \in Slot
    BY <1>3, MinIn, Indices DEF IfDown, Named
  <2>2. netinfo' = [netinfo EXCEPT ![i].name = None, ![i].flag = FALSE]
    BY <1>3 DEF IfDown
  <2> HIDE DEF i
  <2>3. NetType'
    <3> DEFINE n == [netinfo[i] EXCEPT !.name = None, !.flag = FALSE]
    <3>1. n \in [name : Names \cup {None}, ip : IPs, mask : BOOLEAN, flag : BOOLEAN]
      BY <2>1
    <3>2. netinfo' = [netinfo EXCEPT ![i] = n]
      BY <2>1, <2>2
    <3> HIDE DEF n
    <3> QED BY ONLY NetType, <2>1, <3>1, <3>2
  <2>4. \A j \in Slot : netinfo'[j].name = IF j = i THEN None ELSE netinfo[j].name
    BY <2>1, <2>2
  <2> QED BY <2>1, <2>3, <2>4
<1>4. ASSUME NEW i \in Slot, NEW ip \in IPs, Adopt(i, ip) PROVE NetInv'
  <2>1. netinfo' = [netinfo EXCEPT ![i].ip = ip, ![i].mask = TRUE, ![i].flag = TRUE]
    BY <1>4 DEF Adopt
  <2>2. NetType'
    <3> DEFINE n == [netinfo[i] EXCEPT !.ip = ip, !.mask = TRUE, !.flag = TRUE]
    <3>1. n \in [name : Names \cup {None}, ip : IPs, mask : BOOLEAN, flag : BOOLEAN]
      OBVIOUS
    <3>2. netinfo' = [netinfo EXCEPT ![i] = n]
      BY <2>1
    <3> HIDE DEF n
    <3> QED BY ONLY NetType, i \in Slot, <3>1, <3>2
  <2>3. \A j \in Slot : netinfo'[j].name = netinfo[j].name
    BY <2>1
  <2> QED BY <2>2, <2>3
<1>5. CASE UNCHANGED arpVars
  BY <1>5, <1>1 DEF arpVars
<1>6. ASSUME NEW ip \in IPs, NEW mac \in Macs, SetMac(ip, mac) PROVE NetInv'
  BY <1>6, <1>1 DEF SetMac
<1>7. CASE Gc
  BY <1>7, <1>1 DEF Gc
<1>8. ASSUME NEW ip \in IPs, IfGateway(ip) PROVE NetInv'
  BY <1>8, <1>1 DEF IfGateway
<1>9. Zero \in IPs
  BY ArpAssumption
<1> QED BY <1>2, <1>3, <1>4, <1>5, <1>6, <1>7, <1>8, <1>9 DEF ArpNext

\* A device is never in two slots of netinfo, in whatever order if_config,
\* if_up and if_down are called and packets give an interface its address.
THEOREM SlotsCorrect == ArpSpec => []OneSlotPerDevice
<1>1. ArpInit => NetInv
  BY ArpAssumption DEF ArpInit, Unused, NetInv, NetType, OneSlotPerDevice, Up
<1>2. NetInv => OneSlotPerDevice
  BY DEF NetInv
<1> QED BY <1>1, <1>2, NetStep, PTL DEF ArpSpec

-----------------------------------------------------------------------------
(* The table.                                                                *)

TableType ==
    /\ mac_Table \in [Entry -> [ip : IPs, mac : Macs \cup {None}, timeout : Nat]]
    /\ heard \in [IPs -> Macs \cup {None}]
    /\ gateway_ip \in IPs

\* No address has two entries that are live, and a live entry has the MAC that
\* its address was heard with last.
OneEntry ==
    \A i, j \in Entry : Live(i) /\ Live(j) /\ i # j => mac_Table[i].ip # mac_Table[j].ip
Newest == \A i \in Entry : Live(i) => mac_Table[i].mac = heard[mac_Table[i].ip]

TableInv == TableType /\ OneEntry /\ Newest

\* set_mac takes the entry of the address when there is one.
LEMMA PlaceOfAddress ==
    ASSUME NEW ip, With(ip) # {}
    PROVE  Place(ip) \in Entry /\ Live(Place(ip)) /\ mac_Table[Place(ip)].ip = ip
<1>1. With(ip) \subseteq Nat
  BY Indices DEF With
<1>2. Min(With(ip)) \in With(ip)
  BY <1>1, MinIn
<1> QED BY <1>2 DEF Place, With

LEMMA TableStep == ASSUME TableInv, [ArpNext]_arpVars PROVE TableInv'
<1> USE DEF TableInv, TableType, OneEntry, Newest, Live
<1>1. CASE UNCHANGED <<mac_Table, heard>> /\ gateway_ip' \in IPs
  BY <1>1
<1>2. ASSUME NEW ip \in IPs, NEW mac \in Macs, SetMac(ip, mac) PROVE TableInv'
  <2> DEFINE p == Place(ip)
             new == [ip |-> ip, mac |-> mac, timeout |-> ARP_LIVETIME]
  <2>1. /\ heard' = [heard EXCEPT ![ip] = mac]
        /\ mac_Table' = [i \in Entry |-> IF i = p THEN new ELSE mac_Table[i]]
        /\ gateway_ip' = gateway_ip
    BY <1>2 DEF SetMac
  <2>2. ASSUME NEW i \in Entry, Live(i), i # p PROVE mac_Table[i].ip # ip
    <3> SUFFICES ASSUME mac_Table[i].ip = ip PROVE FALSE
      OBVIOUS
    <3>1. With(ip) # {}
      BY <2>2 DEF With
    <3>2. p \in Entry /\ Live(p) /\ mac_Table[p].ip = ip
      BY <3>1, PlaceOfAddress
    <3> QED BY <2>2, <3>2
  <2> HIDE DEF p
  <2>3. \A i \in Entry : mac_Table'[i] = IF i = p THEN new ELSE mac_Table[i]
    BY <2>1
  <2>4. \A x \in IPs : heard'[x] = IF x = ip THEN mac ELSE heard[x]
    BY <2>1
  <2>5. TableType'
    BY <2>1, ArpAssumption
  <2>6. OneEntry'
    BY <2>2, <2>3
  <2>7. Newest'
    BY <2>2, <2>3, <2>4
  <2> QED BY <2>5, <2>6, <2>7
<1>3. CASE Gc
  <2>1. \A i \in Entry : /\ mac_Table'[i].ip = mac_Table[i].ip
                         /\ mac_Table'[i].mac = mac_Table[i].mac
                         /\ mac_Table'[i].timeout = Aged(mac_Table[i].timeout)
    BY <1>3 DEF Gc
  <2>2. \A t \in Nat : Aged(t) \in Nat /\ (Aged(t) > 0 => t > 0)
    BY DEF Aged
  <2>3. heard' = heard /\ gateway_ip' = gateway_ip
    BY <1>3 DEF Gc
  <2>4. TableType'
    BY <1>3, <2>2, <2>3 DEF Gc
  <2>5. \A i \in Entry : mac_Table[i].timeout \in Nat
    OBVIOUS
  <2> QED BY <2>1, <2>2, <2>3, <2>4, <2>5
<1>4. ASSUME NEW name, NEW ip, NEW mask, NEW flag, IfConfig(name, ip, mask, flag) PROVE TableInv'
  BY <1>4, <1>1 DEF IfConfig
<1>5. ASSUME NEW name, IfDown(name) PROVE TableInv'
  BY <1>5, <1>1 DEF IfDown
<1>6. ASSUME NEW i, NEW ip, Adopt(i, ip) PROVE TableInv'
  BY <1>6, <1>1 DEF Adopt
<1>7. ASSUME NEW ip \in IPs, IfGateway(ip) PROVE TableInv'
  BY <1>7, <1>1 DEF IfGateway
<1>8. CASE UNCHANGED arpVars
  BY <1>8, <1>1 DEF arpVars
<1> QED BY <1>2, <1>3, <1>4, <1>5, <1>6, <1>7, <1>8 DEF ArpNext

\* get_mac answers with an entry of the invariant.
LEMMA AnswerOfTable == ASSUME TableInv PROVE AnswersNewest
<1> SUFFICES ASSUME NEW ip \in IPs, GetMac(ip).ret = 1
             PROVE  GetMac(ip).mac = heard[GetMac(ip).for]
  BY DEF AnswersNewest
<1> DEFINE q == IF OnNet(ip) THEN ip ELSE gateway_ip
<1>1. Usable(q) # {} /\ GetMac(ip).for = q /\ GetMac(ip).mac = mac_Table[Min(Usable(q))].mac
  BY DEF GetMac
<1>2. Usable(q) \subseteq Nat
  BY Indices DEF Usable, With
<1>3. Min(Usable(q)) \in Usable(q)
  BY <1>1, <1>2, MinIn
<1> HIDE DEF q
<1> QED BY <1>1, <1>3 DEF Usable, With, TableInv, Newest

\* What get_mac finds is what the address was heard with last: set_mac never
\* leaves a second live entry behind, however entries run out and are reused.
THEOREM AnswersCorrect == ArpSpec => []AnswersNewest
<1>1. ArpInit => TableInv
  BY ArpAssumption DEF ArpInit, TableInv, TableType, OneEntry, Newest, Live
<1> QED BY <1>1, AnswerOfTable, TableStep, PTL DEF ArpSpec

-----------------------------------------------------------------------------
(* The programs that talk to servers.                                        *)

From == <<TFTPD, 2000>>

\* A reply to an earlier call.
OldReply(d) ==
    /\ d.call = "earlier" /\ d.kind \in {"offer", "pack", "nak", "ack", "data"} /\ d.no \in Nat
    /\ d.src # Here /\ d.dst \in {Here, ToClient}

\* The fields of the program and of the ghost of the servers.
Rec(p) ==
    p = [kind |-> p.kind, pc |-> p.pc, phase |-> p.phase, sock |-> p.sock, target |-> p.target,
         n |-> p.n, pnum |-> p.pnum, ip |-> p.ip, file |-> p.file, ret |-> p.ret,
         buf |-> p.buf, call |-> p.call]

\* Every request asks for the address of the client, and every acknowledgement
\* of the second transaction of this call is of that address.
Dhcp(p, N, sv) ==
    /\ Rec(p) /\ p.kind = "dhcp" /\ p.phase \in {"offer", "ack"}
    /\ \A d \in N : d.kind = "discover" => d.xid # 2
    /\ \A d \in N : d.kind = "request" => p.phase = "ack" /\ d.ip = p.ip
    /\ \A d \in N : d.kind = "pack" /\ d.xid = 2 =>
          d.call = "earlier" \/ (p.phase = "ack" /\ d.ip = p.ip /\ d.ip \in sv.acked)
    /\ p.pc = "end" /\ p.ret # 0 => p.call = "earlier" \/ p.ret \in sv.acked

\* The server has a beginning of the file, up to the block that is being sent
\* at most, and has acknowledged in this call no more than it has.
Save(p, N, sv) ==
    /\ Rec(p) /\ p.kind = "save" /\ p.phase \in {"wrq", "put"}
    /\ p.pnum \in 0 .. BLOCKS /\ (p.phase = "wrq" => p.pnum = 0)
    /\ sv.file \in Seq(Nat) /\ Len(sv.file) <= p.pnum
    /\ \A k \in 1 .. Len(sv.file) : sv.file[k] = k
    /\ \A d \in N : d.no \in Nat /\ d.kind # "rrq"
    /\ \A d \in N : d.kind = "ack" => d.src # Here /\ (d.call = "earlier" \/ d.no <= Len(sv.file))
    /\ \A d \in N : d.kind = "data" /\ d.dst = From => d.no <= p.pnum
    /\ p.pc = "end" /\ p.ret = 0 => p.call = "earlier" \/ Len(sv.file) = BLOCKS

\* As long as no block of an earlier call was written, a block comes from the
\* server only when the one before it was written.
Written(p) == {p.file[i] : i \in 1 .. Len(p.file)}
Gapless(f) == \A k \in 1 .. Len(f) : \A b \in 1 .. f[k] - 1 : \E j \in 1 .. k - 1 : f[j] = b
Grows(p, N) ==
    /\ \A d \in N : d.call # "earlier" => \A b \in 1 .. d.no - 1 : b \in Written(p)
    /\ \A d \in N : d.call # "earlier" /\ d.kind = "ack" /\ d.no > 0 => d.no \in Written(p)
    /\ Gapless(p.file)
Load(p, N, sv) ==
    /\ Rec(p) /\ p.kind = "load" /\ p.phase = "get" /\ p.file \in Seq(Nat)
    /\ \A d \in N : d.no \in Nat /\ (d.call = "earlier" => d.src # Here)
    /\ \A d \in N : d.kind = "rrq" => d.no = 0 /\ d.src = Here
    /\ \A d \in N : d.kind = "data" => d.dst # From
    /\ p.call = "earlier" \/ Grows(p, N)

Talks(p, N, sv) == Dhcp(p, N, sv) \/ Save(p, N, sv) \/ Load(p, N, sv)

\* What the sockets keep was sent.
Held(t, N) ==
    /\ t = [s \in UdpSocks |-> t[s]]
    /\ \A s \in UdpSocks :
          /\ t[s] = [id |-> t[s].id, bound |-> t[s].bound, at |-> t[s].at, packet |-> t[s].packet]
          /\ t[s].packet \subseteq N

Begun ==
    /\ prog.pc \in {"recv", "wait", "end"} /\ prog.sock \in UdpSocks
    /\ Held(tab, net) /\ Talks(prog, net, serv)
    /\ serv = [acked |-> serv.acked, file |-> serv.file]

\* Before the first message there are only replies to earlier calls and what a
\* server says to others.
Fresh ==
    /\ tab = UdpInit /\ \E kind \in {"dhcp", "save", "load"} : prog = Program(kind)
    /\ \A d \in net : \/ OldReply(d)
                      \/ prog.kind = "dhcp" /\ d.kind = "pack" /\ d.xid = 0 /\ d.dst = ToClient
    /\ serv = [acked |-> {}, file |-> <<>>]

CInv == Fresh \/ Begun

\* What a program does next with its socket.
Goes(p, r) == Rec(r.prog) /\ r.prog.sock = p.sock /\ r.prog.pc \in {"recv", "end"}

\* The end of a program changes its position and its result only.
LEMMA Ended ==
    ASSUME NEW p, Rec(p), NEW w
    PROVE  [p EXCEPT !.pc = "end", !.ret = w] =
               [kind |-> p.kind, pc |-> "end", phase |-> p.phase, sock |-> p.sock,
                target |-> p.target, n |-> p.n, pnum |-> p.pnum, ip |-> p.ip, file |-> p.file,
                ret |-> w,
                buf |-> p.buf, call |-> p.call]
<1> DEFINE q == [p EXCEPT !.pc = "end", !.ret = w]
<1>1. q = [p EXCEPT !.pc = "end", !.ret = w]
  OBVIOUS
<1> HIDE DEF q
<1>2. q = [kind |-> p.kind, pc |-> "end", phase |-> p.phase, sock |-> p.sock,
           target |-> p.target, n |-> p.n, pnum |-> p.pnum, ip |-> p.ip, file |-> p.file,
           ret |-> w,
           buf |-> p.buf, call |-> p.call]
  BY <1>1 DEF Rec
<1> QED BY <1>2, Zenon DEF q

LEMMA SameTarget == ASSUME NEW p, Rec(p) PROVE p = [p EXCEPT !.target = p.target]
<1> DEFINE t == p.target
<1>1. p = [kind |-> p.kind, pc |-> p.pc, phase |-> p.phase, sock |-> p.sock, target |-> t,
           n |-> p.n, pnum |-> p.pnum, ip |-> p.ip, file |-> p.file, ret |-> p.ret,
           buf |-> p.buf, call |-> p.call]
  BY DEF Rec
<1> HIDE DEF t
<1>2. p = [p EXCEPT !.target = t]
  BY ONLY <1>1
<1> QED BY <1>2, Zenon DEF t

-----------------------------------------------------------------------------
(* One datagram or one timeout of each program. *)

\* An offer is requested, whatever it says.
LEMMA OfferedKeeps ==
    ASSUME NEW p, NEW N, NEW sv, Dhcp(p, N, sv), p.phase = "offer", NEW ip, NEW from,
           NEW q, q = Offered(p, ip, from), NEW M \in SUBSET {Discover},
           NEW r, r = Go(q, M \cup {Request(q)})
    PROVE  Goes(p, r) /\ Dhcp(r.prog, N \cup r.out, sv)
<1>1. q = [kind |-> p.kind, pc |-> "recv", phase |-> "ack", sock |-> p.sock, target |-> from,
           n |-> 0, pnum |-> p.pnum, ip |-> ip, file |-> p.file, ret |-> p.ret,
           buf |-> p.buf, call |-> p.call]
  <2> DEFINE a == Again(p)
  <2>1. a = [kind |-> p.kind, pc |-> "recv", phase |-> p.phase, sock |-> p.sock,
             target |-> p.target, n |-> p.n, pnum |-> p.pnum, ip |-> p.ip, file |-> p.file,
             ret |-> p.ret, buf |-> p.buf, call |-> p.call]
    BY DEF Dhcp, Rec, Again
  <2>2. q = [a EXCEPT !.phase = "ack", !.n = 0, !.ip = ip, !.target = from]
    BY DEF Offered
  <2> HIDE DEF a
  <2> QED BY ONLY <2>1, <2>2
<1>2. q.kind = "dhcp" /\ q.phase = "ack" /\ q.pc = "recv" /\ q.sock = p.sock /\ Rec(q)
  BY <1>1 DEF Dhcp, Rec
<1> DEFINE x == Request(q)
<1>3. x.kind = "request" /\ x.ip = q.ip
  BY DEF Request, Datagram
<1>4. \A y \in M : y.kind = "discover" /\ y.xid = 1
  BY DEF Discover, Datagram
<1> HIDE DEF x
<1>5. \A y \in N : /\ y.kind # "request" /\ (y.kind = "discover" => y.xid # 2)
                   /\ y.kind = "pack" /\ y.xid = 2 => y.call = "earlier"
  BY DEF Dhcp
<1>6. r.prog = q /\ r.out = M \cup {x}
  BY DEF Go, x
<1>7. \A y \in N \cup (M \cup {x}) : /\ y.kind = "discover" => y.xid # 2
                                     /\ y.kind = "request" => y.ip = q.ip
                                     /\ y.kind = "pack" /\ y.xid = 2 => y.call = "earlier"
  BY ONLY <1>3, <1>4, <1>5
<1>8. r.prog = q /\ N \cup r.out = N \cup (M \cup {x})
  BY <1>6
<1>9. Dhcp(q, N \cup (M \cup {x}), sv)
  BY ONLY <1>2, <1>7, SMTT(20) DEF Dhcp
<1> QED BY ONLY <1>2, <1>8, <1>9 DEF Goes

LEMMA DhcpHandled ==
    ASSUME NEW p, NEW N, NEW sv, Dhcp(p, N, sv), NEW d \in N, NEW r, r = Handled(p, d)
    PROVE  Goes(p, r) /\ Dhcp(r.prog, N \cup r.out, sv)
<1>1. CASE p.phase = "offer"
  <2>1. r = OnOffer(p, d)
    BY <1>1 DEF Handled
  <2>2. CASE ~OwnReply(d, 1)
    <3>1. r.prog = [Again(p) EXCEPT !.buf = "other"] /\ r.out = {}
      BY <2>1, <2>2 DEF OnOffer, Go
    <3>2. r.prog = [kind |-> p.kind, pc |-> "recv", phase |-> p.phase, sock |-> p.sock,
                    target |-> p.target, n |-> p.n, pnum |-> p.pnum, ip |-> p.ip, file |-> p.file,
                    ret |-> p.ret, buf |-> "other", call |-> p.call]
      BY <3>1 DEF Again, Dhcp, Rec
    <3>3. /\ Rec(r.prog) /\ r.prog.kind = p.kind /\ r.prog.phase = "offer" /\ r.prog.pc = "recv"
          /\ r.prog.sock = p.sock
      BY ONLY <1>1, <3>2 DEF Rec
    <3> QED BY <1>1, <3>1, <3>3 DEF Dhcp, Goes
  <2>3. CASE OwnReply(d, 1)
    <3> DEFINE q == Offered(p, d.ip, d.src)
    <3>1. r = Go(q, {} \cup {Request(q)}) /\ {} \in SUBSET {Discover}
      BY <2>1, <2>3 DEF OnOffer
    <3> HIDE DEF q
    <3> QED BY <1>1, <3>1, OfferedKeeps DEF q
  <2> QED BY <2>2, <2>3
<1>2. CASE p.phase = "ack"
  <2>1. r = OnAck(p, d)
    BY <1>2 DEF Handled
  <2>2. CASE ~OwnReply(d, 2)
    <3>1. r.prog = [p EXCEPT !.pc = "recv"] /\ r.out = {}
      BY <2>1, <2>2 DEF OnAck, Go, Again
    <3> QED BY <1>2, <3>1 DEF Dhcp, Rec, Goes
  <2>3. CASE OwnReply(d, 2)
    <3> DEFINE w == IF d.kind = "pack" THEN p.ip ELSE 0
               e == End(p, w)
    <3>1. r.prog = [e EXCEPT !.call = d.call] /\ r.out = {}
      BY <2>1, <2>3 DEF OnAck, Go
    <3>2. w # 0 => d.call = "earlier" \/ w \in sv.acked
      BY <2>3 DEF OwnReply, Dhcp
    <3> HIDE DEF w
    <3>3. e = [kind |-> p.kind, pc |-> "end", phase |-> p.phase, sock |-> p.sock,
               target |-> p.target, n |-> p.n, pnum |-> p.pnum, ip |-> p.ip, file |-> p.file,
               ret |-> w, buf |-> p.buf, call |-> p.call]
      <4>1. Rec(p) /\ e = [p EXCEPT !.pc = "end", !.ret = w]
        BY Zenon DEF Dhcp, End
      <4> HIDE DEF e
      <4> QED BY ONLY <4>1, Ended, Zenon
    <3> HIDE DEF e
    <3> DEFINE q == r.prog
    <3>4. q = [kind |-> p.kind, pc |-> "end", phase |-> p.phase, sock |-> p.sock,
               target |-> p.target, n |-> p.n, pnum |-> p.pnum, ip |-> p.ip, file |-> p.file,
               ret |-> w, buf |-> p.buf, call |-> d.call]
      BY ONLY <3>1, <3>3
    <3> HIDE DEF q
    <3>5. /\ Rec(q) /\ q.sock = p.sock /\ q.pc = "end" /\ q.kind = p.kind /\ q.phase = p.phase
          /\ q.ip = p.ip /\ q.ret = w /\ q.call = d.call
      BY ONLY <3>4 DEF Rec
    <3>6. Goes(p, r) /\ N \cup r.out = N
      BY <3>1, <3>5 DEF Goes, q
    <3>7. q.ret # 0 => q.call = "earlier" \/ q.ret \in sv.acked
      BY ONLY <3>2, <3>5
    <3>8. Dhcp(q, N, sv)
      BY <1>2, <3>5, <3>7, Zenon DEF Dhcp
    <3> QED BY <3>6, <3>8, Zenon DEF q
  <2> QED BY <2>2, <2>3
<1> QED BY <1>1, <1>2 DEF Dhcp

LEMMA DhcpTimeout ==
    ASSUME NEW p, NEW N, NEW sv, Dhcp(p, N, sv), NEW r \in TimedOut(p)
    PROVE  Goes(p, r) /\ Dhcp(r.prog, N \cup r.out, sv)
<1>0. r \in Unanswered(p)
  BY DEF TimedOut, Dhcp
<1> DEFINE resent == Go([Again(p) EXCEPT !.n = @ + 1],
                        {IF p.phase = "offer" THEN Discover ELSE Request(p)})
           gives == Go(End(p, 0), {})
<1>1. \/ r = gives
      \/ r = resent
      \/ p.phase = "offer" /\ \E d \in Leftovers : r = Requested(p, d)
  <2> HIDE DEF gives, resent
  <2>1. Unanswered(p) = IF p.n >= RESENDS THEN {gives}
                        ELSE {resent} \cup IF p.phase = "offer" /\ p.buf = "unset"
                                           THEN {Requested(p, d) : d \in Leftovers} ELSE {}
    BY DEF Unanswered, gives, resent
  <2> QED BY <1>0, <2>1
<1>2. CASE r = gives
  <2>1. r.prog = [p EXCEPT !.pc = "end", !.ret = 0] /\ r.out = {}
    BY <1>2 DEF Go, End
  <2> DEFINE q == [p EXCEPT !.pc = "end", !.ret = 0]
  <2>2. q = [kind |-> p.kind, pc |-> "end", phase |-> p.phase, sock |-> p.sock,
             target |-> p.target, n |-> p.n, pnum |-> p.pnum, ip |-> p.ip, file |-> p.file,
             ret |-> 0,
             buf |-> p.buf, call |-> p.call]
    <3>1. Rec(p)
      BY Zenon DEF Dhcp
    <3> QED BY ONLY <3>1, Ended, Zenon
  <2> HIDE DEF q
  <2>3. /\ Rec(q) /\ q.sock = p.sock /\ q.pc = "end" /\ q.kind = p.kind /\ q.phase = p.phase
        /\ q.ip = p.ip /\ q.ret = 0
    BY ONLY <2>2 DEF Rec
  <2>4. Goes(p, r) /\ r.prog = q /\ N \cup r.out = N
    BY <2>1, <2>3 DEF Goes, q
  <2>5. Dhcp(q, N, sv)
    BY <2>3, Zenon DEF Dhcp
  <2> QED BY ONLY <2>4, <2>5, Zenon
<1>3. CASE r = resent
  <2> DEFINE m == p.n + 1
             x == IF p.phase = "offer" THEN Discover ELSE Request(p)
  <2>1. r.prog = [Again(p) EXCEPT !.n = @ + 1] /\ r.out = {x}
    BY <1>3 DEF Go
  <2>2. r.prog = [kind |-> p.kind, pc |-> "recv", phase |-> p.phase, sock |-> p.sock,
                  target |-> p.target, n |-> m, pnum |-> p.pnum, ip |-> p.ip, file |-> p.file,
                  ret |-> p.ret,
                  buf |-> p.buf, call |-> p.call]
    <3> DEFINE a == Again(p)
    <3>1. a = [kind |-> p.kind, pc |-> "recv", phase |-> p.phase, sock |-> p.sock,
               target |-> p.target, n |-> p.n, pnum |-> p.pnum, ip |-> p.ip, file |-> p.file,
               ret |-> p.ret,
               buf |-> p.buf, call |-> p.call]
      BY DEF Dhcp, Rec, Again
    <3> HIDE DEF a
    <3>2. r.prog = [a EXCEPT !.n = m]
      BY <2>1, <3>1 DEF a
    <3> HIDE DEF m
    <3> QED BY <3>1, <3>2
  <2>3. /\ x.kind = "discover" => x.xid # 2
        /\ x.kind = "request" => p.phase = "ack" /\ x.ip = p.ip
        /\ x.kind # "pack"
    <3>1. CASE p.phase = "offer"
      <4>1. x = Discover
        BY <3>1
      <4> HIDE DEF x
      <4> QED BY <4>1 DEF Discover, Datagram
    <3>2. CASE p.phase = "ack"
      <4>1. x = Request(p)
        BY <3>2
      <4> HIDE DEF x
      <4>2. x.kind = "request" /\ x.ip = p.ip
        BY <4>1 DEF Request, Datagram
      <4> QED BY <3>2, <4>2
    <3> QED BY <3>1, <3>2 DEF Dhcp
  <2> HIDE DEF m, x
  <2>4. /\ r.prog.kind = p.kind /\ r.prog.phase = p.phase /\ r.prog.ip = p.ip /\ r.prog.pc = "recv"
        /\ r.prog.sock = p.sock /\ Rec(r.prog)
    BY <2>1, <2>2 DEF Dhcp, Rec
  <2> QED BY <2>1, <2>3, <2>4 DEF Dhcp, Goes
<1>4. CASE p.phase = "offer" /\ \E d \in Leftovers : r = Requested(p, d)
  <2>1. PICK d \in Leftovers : r = Requested(p, d)
    BY <1>4
  <2> DEFINE q == Offered(p, d.ip, d.src)
  <2>2. r = Go(q, {Discover} \cup {Request(q)}) /\ {Discover} \in SUBSET {Discover}
    BY <2>1 DEF Requested
  <2> HIDE DEF q
  <2> QED BY <1>4, <2>2, OfferedKeeps DEF q
<1> HIDE DEF resent, gives
<1> QED BY <1>1, <1>2, <1>3, <1>4

\* ack_get and what it makes tftp_save do.
LEMMA NextBlockKeeps ==
    ASSUME NEW p, NEW N, NEW sv, Save(p, N, sv), p.pc # "end", NEW at, p.pnum < BLOCKS,
           NEW q, q = [p EXCEPT !.target = at], NEW r, r = NextBlock(q)
    PROVE  Goes(p, r) /\ Save(r.prog, N \cup r.out, sv)
<1> DEFINE m == p.pnum + 1
           x == Datagram(Here, at, "data", 0, 0, m)
<1>1. q = [kind |-> p.kind, pc |-> p.pc, phase |-> p.phase, sock |-> p.sock, target |-> at,
           n |-> p.n, pnum |-> p.pnum, ip |-> p.ip, file |-> p.file, ret |-> p.ret,
           buf |-> p.buf, call |-> p.call]
  BY DEF Save, Rec
<1> DEFINE a == Again(q)
<1>2. a = [kind |-> p.kind, pc |-> "recv", phase |-> p.phase, sock |-> p.sock, target |-> at,
           n |-> p.n, pnum |-> p.pnum, ip |-> p.ip, file |-> p.file, ret |-> p.ret,
           buf |-> p.buf, call |-> p.call]
  BY ONLY <1>1 DEF Again
<1> DEFINE b == [a EXCEPT !.phase = "put", !.n = 1, !.pnum = @ + 1]
<1>3. r = Go(b, {Block(b)})
  BY DEF NextBlock
<1> HIDE DEF a
<1>4. b = [kind |-> p.kind, pc |-> "recv", phase |-> "put", sock |-> p.sock, target |-> at,
           n |-> 1, pnum |-> m, ip |-> p.ip, file |-> p.file, ret |-> p.ret,
           buf |-> p.buf, call |-> p.call]
  <2>1. a.pnum + 1 = m
    BY ONLY <1>2
  <2> HIDE DEF m
  <2>2. b = [a EXCEPT !.phase = "put", !.n = 1, !.pnum = m]
    BY ONLY <2>1
  <2> HIDE DEF b
  <2> QED BY ONLY <1>2, <2>2
<1> HIDE DEF b, m
<1>5. Block(b) = x
  BY <1>4 DEF Block
<1>6. r.prog = b /\ r.out = {x}
  BY <1>3, <1>5 DEF Go
<1>7. x.kind = "data" /\ x.no = m
  BY DEF Datagram
<1> HIDE DEF x
<1>8. m \in 0 .. BLOCKS /\ p.pnum < m /\ m \in Nat /\ p.pnum \in Nat
  BY ClientsAssumption DEF m, Save
<1>9. /\ r.prog.kind = "save" /\ r.prog.phase = "put" /\ r.prog.pnum = m /\ r.prog.pc = "recv"
      /\ r.prog.sock = p.sock /\ Rec(r.prog)
  BY <1>4, <1>6 DEF Rec, Save
<1>10. Len(sv.file) \in Nat /\ Len(sv.file) <= m
  BY <1>8, LenProperties DEF Save
<1>11. \A d \in N : d.kind = "data" /\ d.dst = From => d.no <= m
  BY <1>8 DEF Save
<1>12. \A d \in N \cup {x} : /\ d.no \in Nat /\ d.kind # "rrq"
                             /\ d.kind = "ack" => d.src # Here /\ (d.call = "earlier" \/ d.no <= Len(sv.file))
                             /\ d.kind = "data" /\ d.dst = From => d.no <= m
  BY <1>7, <1>8, <1>11 DEF Save
<1> QED BY <1>6, <1>8, <1>9, <1>10, <1>12 DEF Save, Goes

\* tftp_save gives up, or reports success for the last block.
Aims(p, q) == \E at : q = [p EXCEPT !.target = at]
Ends(q, r, sv) ==
    /\ \E ret, old : /\ ret = 0 => old = "earlier" \/ Len(sv.file) = BLOCKS
                     /\ r.prog = [End(q, ret) EXCEPT !.call = old]
    /\ r.out = {}

LEMMA SaveEnds ==
    ASSUME NEW p, NEW N, NEW sv, Save(p, N, sv), NEW q, Aims(p, q), NEW r, Ends(q, r, sv)
    PROVE  Goes(p, r) /\ Save(r.prog, N \cup r.out, sv)
<1>1. PICK at : q = [p EXCEPT !.target = at]
  BY Zenon DEF Aims
<1>2. PICK ret, old : /\ ret = 0 => old = "earlier" \/ Len(sv.file) = BLOCKS
                      /\ r.prog = [End(q, ret) EXCEPT !.call = old]
  BY Zenon DEF Ends
<1>3. q = [kind |-> p.kind, pc |-> p.pc, phase |-> p.phase, sock |-> p.sock, target |-> at,
           n |-> p.n, pnum |-> p.pnum, ip |-> p.ip, file |-> p.file, ret |-> p.ret,
           buf |-> p.buf, call |-> p.call]
  BY <1>1 DEF Save, Rec
<1> DEFINE e == End(q, ret)
<1>4. e = [kind |-> p.kind, pc |-> "end", phase |-> p.phase, sock |-> p.sock, target |-> at,
           n |-> p.n, pnum |-> p.pnum, ip |-> p.ip, file |-> p.file, ret |-> ret,
           buf |-> p.buf, call |-> p.call]
  <2>1. e = [q EXCEPT !.pc = "end", !.ret = ret]
    BY DEF End
  <2> HIDE DEF e
  <2> QED BY ONLY <1>3, <2>1
<1>5. r.prog = [e EXCEPT !.call = old]
  BY <1>2
<1> HIDE DEF e
<1>6. r.prog = [kind |-> p.kind, pc |-> "end", phase |-> p.phase, sock |-> p.sock, target |-> at,
                n |-> p.n, pnum |-> p.pnum, ip |-> p.ip, file |-> p.file, ret |-> ret,
                buf |-> p.buf, call |-> old]
  BY ONLY <1>4, <1>5
<1>7. /\ Rec(r.prog) /\ r.prog.kind = p.kind /\ r.prog.pc = "end" /\ r.prog.phase = p.phase
      /\ r.prog.sock = p.sock /\ r.prog.pnum = p.pnum /\ r.prog.ret = ret /\ r.prog.call = old
  BY ONLY <1>6 DEF Rec
<1>8. r.prog.ret = 0 => r.prog.call = "earlier" \/ Len(sv.file) = BLOCKS
  BY ONLY <1>2, <1>7
<1>9. r.out = {}
  BY DEF Ends
<1> QED BY <1>7, <1>8, <1>9 DEF Save, Goes

LEMMA SaveFails ==
    ASSUME NEW p, NEW N, NEW sv, Save(p, N, sv), NEW at, NEW q, q = [p EXCEPT !.target = at],
           NEW r, r = Go(End(q, -1), {})
    PROVE  Goes(p, r) /\ Save(r.prog, N \cup r.out, sv)
<1> DEFINE e == End(q, -1)
           old == q.call
<1>1. q = [kind |-> p.kind, pc |-> p.pc, phase |-> p.phase, sock |-> p.sock, target |-> at,
           n |-> p.n, pnum |-> p.pnum, ip |-> p.ip, file |-> p.file, ret |-> p.ret,
           buf |-> p.buf, call |-> p.call]
  BY DEF Save, Rec
<1>2. e = [kind |-> p.kind, pc |-> "end", phase |-> p.phase, sock |-> p.sock, target |-> at,
           n |-> p.n, pnum |-> p.pnum, ip |-> p.ip, file |-> p.file, ret |-> -1,
           buf |-> p.buf, call |-> p.call]
  <2>1. e = [q EXCEPT !.pc = "end", !.ret = -1]
    BY DEF End
  <2> HIDE DEF e
  <2> QED BY ONLY <1>1, <2>1
<1>3. old = p.call
  BY ONLY <1>1
<1> HIDE DEF old
<1>4. e = [e EXCEPT !.call = old]
  <2> HIDE DEF e
  <2> QED BY ONLY <1>2, <1>3
<1> DEFINE w == -1
<1>5. r.prog = [End(q, w) EXCEPT !.call = old] /\ r.out = {}
  BY <1>4 DEF Go
<1>6. w = 0 => old = "earlier" \/ Len(sv.file) = BLOCKS
  BY ONLY SMT
<1> HIDE DEF w, e
<1>7. Ends(q, r, sv) /\ Aims(p, q)
  BY <1>5, <1>6, Zenon DEF Ends, Aims
<1> QED BY ONLY Save(p, N, sv), <1>7, SaveEnds

LEMMA SaveHandled ==
    ASSUME NEW p, NEW N, NEW sv, Save(p, N, sv), p.pc # "end", NEW d \in N, NEW r, r = Handled(p, d)
    PROVE  Goes(p, r) /\ Save(r.prog, N \cup r.out, sv)
<1> DEFINE q == [p EXCEPT !.target = d.src]
<1>1. q.pnum = p.pnum /\ q.n = p.n
  BY DEF Save, Rec
<1>2. -1 # 0 /\ BLOCKS > 0
  BY ClientsAssumption
<1>3. CASE p.phase = "wrq"
  <2>1. r = IF d.kind = "ack" /\ d.no = 0 THEN NextBlock(q) ELSE Go(End(q, -1), {})
    BY <1>3 DEF Handled, OnWrq
  <2>2. p.pnum < BLOCKS
    BY <1>2, <1>3 DEF Save
  <2> HIDE DEF q
  <2>3. CASE r = NextBlock(q)
    BY <2>2, <2>3, NextBlockKeeps DEF q
  <2>4. CASE r = Go(End(q, -1), {})
    BY <2>4, SaveFails DEF q
  <2> QED BY <2>1, <2>3, <2>4
<1>4. CASE p.phase = "put"
  <2>1. r = OnBlock(p, d)
    BY <1>4 DEF Handled
  <2>2. CASE d.kind = "ack" /\ d.no = p.pnum /\ p.pnum < BLOCKS
    <3>1. r = NextBlock(q)
      BY <1>1, <2>1, <2>2 DEF OnBlock, Answers
    <3> QED BY <2>2, <3>1, NextBlockKeeps
  <2>3. CASE d.kind = "ack" /\ d.no = p.pnum /\ ~ (p.pnum < BLOCKS)
    <3> DEFINE old == d.call
    <3>1. r = Go([End(q, 0) EXCEPT !.call = old], {})
      BY <1>1, <2>1, <2>3 DEF OnBlock, Answers
    <3>2. Len(sv.file) \in Nat
      BY LenProperties DEF Save
    <3>3. d.call = "earlier" \/ Len(sv.file) = BLOCKS
      BY <2>3, <3>2, ClientsAssumption DEF Save
    <3> DEFINE w == 0
    <3>4. r.prog = [End(q, w) EXCEPT !.call = old] /\ r.out = {}
      BY <3>1 DEF Go
    <3>5. w = 0 => old = "earlier" \/ Len(sv.file) = BLOCKS
      BY <3>3
    <3> HIDE DEF w, old
    <3>6. Ends(q, r, sv) /\ Aims(p, q)
      BY <3>4, <3>5, Zenon DEF Ends, Aims
    <3> QED BY ONLY Save(p, N, sv), <3>6, SaveEnds
  <2>4. CASE r = Go(End(q, -1), {})
    BY <2>4, SaveFails
  <2>5. CASE d.kind = "ack" /\ ~Answers(p, d) /\ p.n # TRIES
    <3>1. r = Go([Again(q) EXCEPT !.n = @ + 1], {Block(q)})
      BY <1>1, <2>1, <2>5 DEF OnBlock
    <3>2. q = [kind |-> p.kind, pc |-> p.pc, phase |-> p.phase, sock |-> p.sock, target |-> d.src,
               n |-> p.n, pnum |-> p.pnum, ip |-> p.ip, file |-> p.file, ret |-> p.ret,
               buf |-> p.buf, call |-> p.call]
      BY DEF Save, Rec
    <3> DEFINE m == p.n + 1
               a == Again(q)
    <3> HIDE DEF q
    <3>3. a = [kind |-> p.kind, pc |-> "recv", phase |-> p.phase, sock |-> p.sock, target |-> d.src,
               n |-> p.n, pnum |-> p.pnum, ip |-> p.ip, file |-> p.file, ret |-> p.ret,
               buf |-> p.buf, call |-> p.call]
      BY <3>2 DEF Again
    <3>4. r.prog = [a EXCEPT !.n = @ + 1] /\ r.out = {Block(q)}
      BY <3>1 DEF Go
    <3> HIDE DEF a
    <3>5. r.prog = [kind |-> p.kind, pc |-> "recv", phase |-> p.phase, sock |-> p.sock,
                    target |-> d.src, n |-> m, pnum |-> p.pnum, ip |-> p.ip, file |-> p.file,
                    ret |-> p.ret,
                    buf |-> p.buf, call |-> p.call]
      BY <3>3, <3>4
    <3> HIDE DEF m
    <3>6. /\ r.prog.kind = "save" /\ r.prog.phase = p.phase /\ r.prog.pnum = p.pnum
          /\ r.prog.pc = "recv" /\ r.prog.sock = p.sock /\ Rec(r.prog)
      BY <3>5 DEF Save, Rec
    <3> DEFINE x == Block(q)
    <3>7. x.kind = "data" /\ x.no = p.pnum
      BY <1>1 DEF Block, Datagram, q
    <3>8. p.pnum \in Nat /\ p.pnum <= p.pnum
      BY DEF Save
    <3> HIDE DEF x
    <3>9. r.out = {x}
      BY <3>4 DEF x
    <3>10. \A y \in N \cup {x} : /\ y.no \in Nat /\ y.kind # "rrq"
                                 /\ y.kind = "ack" => y.src # Here /\ (y.call = "earlier" \/ y.no <= Len(sv.file))
                                 /\ y.kind = "data" /\ y.dst = From => y.no <= p.pnum
      BY <3>7, <3>8 DEF Save
    <3> QED BY <3>6, <3>9, <3>10 DEF Save, Goes
  <2> QED BY <1>1, <2>1, <2>2, <2>3, <2>4, <2>5 DEF OnBlock, Answers
<1> QED BY <1>3, <1>4 DEF Save

LEMMA SaveTimeout ==
    ASSUME NEW p, NEW N, NEW sv, Save(p, N, sv), NEW r \in TimedOut(p)
    PROVE  Goes(p, r) /\ Save(r.prog, N \cup r.out, sv)
<1>1. r = Go(End(p, -1), {})
  BY DEF TimedOut, Save
<1>2. p = [p EXCEPT !.target = p.target]
  <2>1. Rec(p)
    BY Zenon DEF Save
  <2> QED BY ONLY <2>1, SameTarget, Zenon
<1> QED BY ONLY Save(p, N, sv), <1>1, <1>2, SaveFails

\* tftp_load writes what came: a block of the file with all before it, or one of
\* an earlier call.
LEMMA LoadHandled ==
    ASSUME NEW p, NEW N, NEW sv, Load(p, N, sv), NEW d \in N, NEW r, r = Handled(p, d)
    PROVE  Goes(p, r) /\ Load(r.prog, N \cup r.out, sv)
<1> DEFINE f == Append(p.file, d.no)
           x == Datagram(Here, d.src, "ack", 0, 0, d.no)
           n == Len(p.file)
           o == IF d.call = "earlier" THEN d.call ELSE p.call
<1>1. /\ f \in Seq(Nat) /\ Len(f) = n + 1 /\ f[n + 1] = d.no /\ n \in Nat
      /\ \A i \in 1 .. n : f[i] = p.file[i]
  BY AppendProperties, LenProperties DEF Load
<1> DEFINE q == [p EXCEPT !.target = d.src, !.file = Append(@, d.no), 
                   !.call = IF d.call = "earlier" THEN d.call ELSE @]
<1>2. q = [kind |-> p.kind, pc |-> p.pc, phase |-> p.phase, sock |-> p.sock, target |-> d.src,
           n |-> p.n, pnum |-> p.pnum, ip |-> p.ip, file |-> f, ret |-> p.ret,
           buf |-> p.buf, call |-> o]
  <2>1. Rec(p)
    BY DEF Load
  <2>2. Append(p.file, d.no) = f /\ o = IF d.call = "earlier" THEN d.call ELSE p.call
    OBVIOUS
  <2> HIDE DEF f, o
  <2>3. q = [p EXCEPT !.target = d.src, !.file = f, !.call = o]
    BY ONLY <2>1, <2>2 DEF q, Rec
  <2> HIDE DEF q
  <2> QED BY ONLY <2>1, <2>3 DEF Rec
<1>3. r = Go(IF d.kind = "data" /\ d.no < BLOCKS THEN Again(q) ELSE End(q, 0), {Acked(d)})
  BY DEF Handled, OnData, Load
<1>0. o = IF d.call = "earlier" THEN d.call ELSE p.call
  OBVIOUS
<1> HIDE DEF f, q, o
<1>4. Acked(d) = x
  BY DEF Acked, AckPut
<1>5. r.out = {x} /\ (r.prog = Again(q) \/ r.prog = End(q, 0))
  BY <1>3, <1>4 DEF Go
<1>6. x.kind = "ack" /\ x.no = d.no /\ x.call = "this"
  BY DEF Datagram
<1> HIDE DEF x
<1>7. /\ r.prog.kind = "load" /\ r.prog.phase = "get" /\ r.prog.sock = p.sock
      /\ r.prog.file = f /\ r.prog.call = o /\ r.prog.pc \in {"recv", "end"} /\ Rec(r.prog)
  <2>1. \/ r.prog = [kind |-> p.kind, pc |-> "recv", phase |-> p.phase, sock |-> p.sock,
                     target |-> d.src, n |-> p.n, pnum |-> p.pnum, ip |-> p.ip, file |-> f,
                     ret |-> p.ret, buf |-> p.buf, call |-> o]
        \/ r.prog = [kind |-> p.kind, pc |-> "end", phase |-> p.phase, sock |-> p.sock,
                     target |-> d.src, n |-> p.n, pnum |-> p.pnum, ip |-> p.ip, file |-> f,
                     ret |-> 0, buf |-> p.buf, call |-> o]
    BY ONLY <1>2, <1>5 DEF Again, End
  <2>2. p.kind = "load" /\ p.phase = "get"
    BY DEF Load
  <2> QED BY ONLY <2>1, <2>2 DEF Rec
<1>8. Written(r.prog) = Written(p) \cup {d.no}
  <2>1. \A i \in 1 .. n + 1 : i \in 1 .. n \/ i = n + 1
    BY <1>1
  <2>2. Written(r.prog) = {f[i] : i \in 1 .. n + 1}
    BY <1>1, <1>7 DEF Written
  <2>3. n + 1 \in 1 .. n + 1 /\ \A i \in 1 .. n : i \in 1 .. n + 1
    BY <1>1
  <2> HIDE DEF n
  <2>4. {f[i] : i \in 1 .. n + 1} = {p.file[i] : i \in 1 .. n} \cup {d.no}
    BY <1>1, <2>1, <2>3
  <2> QED BY <2>2, <2>4 DEF Written, n
<1>9. o = "earlier" \/ Grows(r.prog, N \cup {x})
  <2> SUFFICES ASSUME p.call # "earlier", d.call # "earlier"
               PROVE  Grows(r.prog, N \cup {x})
    BY <1>0
  <2>0. Grows(p, N)
    BY DEF Load
  <2>1. d.no \in Nat /\ \A b \in 1 .. d.no - 1 : b \in Written(p)
    BY <2>0 DEF Load, Grows
  <2>2. \A k \in 1 .. Len(f) : \A b \in 1 .. f[k] - 1 : \E j \in 1 .. k - 1 : f[j] = b
    <3> SUFFICES ASSUME NEW k \in 1 .. n + 1, NEW b \in 1 .. f[k] - 1
                 PROVE  \E j \in 1 .. k - 1 : f[j] = b
      BY <1>1
    <3>1. CASE k \in 1 .. n
      <4>1. f[k] = p.file[k]
        BY <1>1, <3>1
      <4>2. PICK j \in 1 .. k - 1 : p.file[j] = b
        BY <2>0, <3>1, <4>1 DEF Grows, Gapless
      <4>3. j \in 1 .. n
        BY <1>1, <3>1
      <4> QED BY <1>1, <4>2, <4>3
    <3>2. CASE k = n + 1
      <4>1. b \in Written(p)
        BY <1>1, <2>1, <3>2
      <4>2. PICK j \in 1 .. n : p.file[j] = b
        BY <4>1 DEF Written
      <4>3. j \in 1 .. k - 1
        BY <1>1, <3>2
      <4> QED BY <1>1, <4>2, <4>3
    <3> QED BY <1>1, <3>1, <3>2
  <2>3. Gapless(r.prog.file)
    BY ONLY <1>7, <2>2, Zenon DEF Gapless
  <2>4. /\ \A y \in N \cup {x} : y.call # "earlier" => \A b \in 1 .. y.no - 1 : b \in Written(r.prog)
        /\ \A y \in N \cup {x} : y.call # "earlier" /\ y.kind = "ack" /\ y.no > 0 => y.no \in Written(r.prog)
    BY <1>6, <1>8, <2>0, <2>1 DEF Grows
  <2> QED BY ONLY <2>3, <2>4, Zenon DEF Grows
<1>10. /\ \A y \in N \cup {x} : y.no \in Nat /\ (y.call = "earlier" => y.src # Here)
       /\ \A y \in N \cup {x} : y.kind = "rrq" => y.no = 0 /\ y.src = Here
       /\ \A y \in N \cup {x} : y.kind = "data" => y.dst # From
  BY <1>6 DEF Load
<1>11. Goes(p, r) /\ f \in Seq(Nat) /\ N \cup r.out = N \cup {x}
  BY ONLY <1>1, <1>5, <1>7 DEF Goes
<1>12. r.prog.file \in Seq(Nat) /\ (r.prog.call = "earlier" \/ Grows(r.prog, N \cup {x}))
  BY ONLY <1>7, <1>9, <1>11, Zenon
<1>13. Load(r.prog, N \cup {x}, sv)
  BY ONLY <1>7, <1>10, <1>12, Zenon DEF Load
<1> QED BY ONLY <1>11, <1>13, Zenon

\* The same position of the file with another datagram that says nothing new.
LEMMA GrowsSame ==
    ASSUME NEW p, NEW N, Grows(p, N), NEW q, q.file = p.file, NEW M,
           \A y \in M : y \in N \/ y.no = 0
    PROVE  Grows(q, M)
<1>1. Written(q) = Written(p)
  BY DEF Written
<1>2. Gapless(q.file)
  BY Zenon DEF Grows
<1>3. \A y : y.no = 0 => (\A b : b \notin 1 .. y.no - 1) /\ ~ (y.no > 0)
  OBVIOUS
<1> HIDE DEF Written, Gapless
<1> QED BY <1>1, <1>2, <1>3 DEF Grows

LEMMA LoadTimeout ==
    ASSUME NEW p, NEW N, NEW sv, Load(p, N, sv), NEW r \in TimedOut(p)
    PROVE  Goes(p, r) /\ Load(r.prog, N \cup r.out, sv)
<1> DEFINE x == AckPut(p.target, 0)
<1>1. r = Go(End(p, 0), {x})
  BY DEF TimedOut, Load
<1>2. x.kind = "ack" /\ x.no = 0 /\ x.call = "this"
  BY DEF AckPut, Datagram
<1> HIDE DEF x
<1>3. /\ r.out = {x}
      /\ r.prog = [kind |-> p.kind, pc |-> "end", phase |-> p.phase, sock |-> p.sock,
                   target |-> p.target, n |-> p.n, pnum |-> p.pnum, ip |-> p.ip, file |-> p.file,
                   ret |-> 0, buf |-> p.buf, call |-> p.call]
  <2>1. r.prog = End(p, 0) /\ r.out = {x}
    BY <1>1 DEF Go
  <2>2. Rec(p)
    BY DEF Load
  <2>3. r.prog = [p EXCEPT !.pc = "end", !.ret = 0]
    BY <2>1 DEF End
  <2>4. r.prog = [kind |-> p.kind, pc |-> "end", phase |-> p.phase, sock |-> p.sock,
                  target |-> p.target, n |-> p.n, pnum |-> p.pnum, ip |-> p.ip, file |-> p.file,
                  ret |-> 0, buf |-> p.buf, call |-> p.call]
    BY ONLY <2>2, <2>3 DEF Rec
  <2> QED BY <2>1, <2>4
<1>4. /\ r.prog.kind = "load" /\ r.prog.phase = "get" /\ r.prog.sock = p.sock
      /\ r.prog.file = p.file /\ r.prog.call = p.call /\ r.prog.pc = "end" /\ Rec(r.prog)
  BY <1>3 DEF Load, Rec
<1>5. p.call = "earlier" \/ Grows(r.prog, N \cup {x})
  <2>1. \A y \in N \cup {x} : y \in N \/ y.no = 0
    BY <1>2
  <2> QED BY <1>4, <2>1, GrowsSame DEF Load
<1>6. /\ \A y \in N \cup {x} : y.no \in Nat /\ (y.call = "earlier" => y.src # Here)
      /\ \A y \in N \cup {x} : y.kind = "rrq" => y.no = 0 /\ y.src = Here
      /\ \A y \in N \cup {x} : y.kind = "data" => y.dst # From
  BY <1>2 DEF Load
<1>7. Goes(p, r) /\ N \cup r.out = N \cup {x}
  BY ONLY <1>3, <1>4 DEF Goes
<1>8. r.prog.file \in Seq(Nat) /\ (r.prog.call = "earlier" \/ Grows(r.prog, N \cup {x}))
  <2>1. p.file \in Seq(Nat)
    BY DEF Load
  <2> QED BY ONLY <1>4, <1>5, <2>1, Zenon
<1>9. Load(r.prog, N \cup {x}, sv)
  BY ONLY <1>4, <1>6, <1>8, Zenon DEF Load
<1> QED BY ONLY <1>7, <1>9, Zenon

\* The same for whichever program it is, and while the program waits.
LEMMA TalksHandled ==
    ASSUME NEW p, NEW N, NEW sv, Talks(p, N, sv), p.pc # "end", NEW d \in N,
           NEW r, r = Handled(p, d)
    PROVE  Goes(p, r) /\ Talks(r.prog, N \cup r.out, sv)
BY DhcpHandled, SaveHandled, LoadHandled DEF Talks

LEMMA TalksTimedOut ==
    ASSUME NEW p, NEW N, NEW sv, Talks(p, N, sv), NEW r \in TimedOut(p)
    PROVE  Goes(p, r) /\ Talks(r.prog, N \cup r.out, sv)
BY DhcpTimeout, SaveTimeout, LoadTimeout DEF Talks

LEMMA TalksWaiting ==
    ASSUME NEW p, NEW N, NEW sv, Talks(p, N, sv), NEW c, c # "end",
           NEW q, q = [p EXCEPT !.pc = c]
    PROVE  Talks(q, N, sv) /\ q.pc = c /\ q.sock = p.sock
<1>1. Rec(p)
  BY DEF Talks, Dhcp, Save, Load
<1>2. q = [kind |-> p.kind, pc |-> c, phase |-> p.phase, sock |-> p.sock, target |-> p.target,
           n |-> p.n, pnum |-> p.pnum, ip |-> p.ip, file |-> p.file, ret |-> p.ret,
           buf |-> p.buf, call |-> p.call]
  BY ONLY <1>1, q = [p EXCEPT !.pc = c] DEF Rec
<1>3. /\ q.kind = p.kind /\ q.pc = c /\ q.phase = p.phase /\ q.sock = p.sock /\ q.pnum = p.pnum
      /\ q.ip = p.ip /\ q.file = p.file /\ q.call = p.call /\ Rec(q)
  BY ONLY <1>2 DEF Rec
<1>4. Grows(p, N) => Grows(q, N)
  BY <1>3, GrowsSame
<1>5. Dhcp(p, N, sv) => Dhcp(q, N, sv)
  BY <1>3 DEF Dhcp
<1>6. Save(p, N, sv) => Save(q, N, sv)
  BY <1>3 DEF Save
<1>7. Load(p, N, sv) => Load(q, N, sv)
  BY <1>3, <1>4 DEF Load
<1> QED BY <1>3, <1>5, <1>6, <1>7 DEF Talks

-----------------------------------------------------------------------------
(* The sockets. *)

LEMMA HeldMore ==
    ASSUME NEW t, NEW N, NEW M, Held(t, N), N \subseteq M
    PROVE  Held(t, M)
BY DEF Held

\* One socket is replaced by another record.
Changed(t, s, w) == [t EXCEPT ![s] = w]
Sock(w) == w = [id |-> w.id, bound |-> w.bound, at |-> w.at, packet |-> w.packet]

LEMMA HeldSet ==
    ASSUME NEW t, NEW N, Held(t, N), NEW s \in UdpSocks, NEW w, Sock(w), w.packet \subseteq N,
           NEW u, u = Changed(t, s, w)
    PROVE  /\ Held(u, N) /\ u[s] = w
           /\ \A r \in UdpSocks : r # s => u[r] = t[r]
<1>1. t = [r \in UdpSocks |-> t[r]]
  BY DEF Held
<1>2. u = [r \in UdpSocks |-> u[r]] /\ u[s] = w /\ \A r \in UdpSocks : r # s => u[r] = t[r]
  BY ONLY <1>1, u = Changed(t, s, w), s \in UdpSocks DEF Changed
<1>3. \A r \in UdpSocks : Sock(u[r]) /\ u[r].packet \subseteq N
  BY <1>2 DEF Held, Sock
<1> QED BY <1>2, <1>3 DEF Held, Sock

LEMMA SockOwned ==
    ASSUME NEW v, Sock(v), NEW i, NEW w, w = [v EXCEPT !.id = i, !.packet = {}, !.bound = FALSE]
    PROVE  Sock(w) /\ w.id = i /\ w.packet = {}
<1>1. w = [id |-> i, bound |-> FALSE, at |-> v.at, packet |-> {}]
  BY DEF Sock
<1> QED BY ONLY <1>1 DEF Sock

LEMMA SockBound ==
    ASSUME NEW v, Sock(v), NEW a, NEW w, w = [v EXCEPT !.at = a, !.bound = TRUE]
    PROVE  Sock(w) /\ w.id = v.id /\ w.packet = v.packet
<1>1. w = [id |-> v.id, bound |-> TRUE, at |-> a, packet |-> v.packet]
  BY DEF Sock
<1> QED BY ONLY <1>1 DEF Sock

LEMMA SockKeep ==
    ASSUME NEW v, Sock(v), NEW k, NEW w, w = [v EXCEPT !.packet = k]
    PROVE  Sock(w) /\ w.packet = k
<1>1. w = [id |-> v.id, bound |-> v.bound, at |-> v.at, packet |-> k]
  BY DEF Sock
<1> QED BY ONLY <1>1 DEF Sock

LEMMA HeldOwned ==
    ASSUME NEW t, NEW N, Held(t, N), NEW s \in UdpSocks, NEW i, NEW u, u = Owned(t, s, i)
    PROVE  Held(u, N) /\ u[s].id = i /\ \A r \in UdpSocks : r # s => u[r] = t[r]
<1> DEFINE v == t[s]
           w == [v EXCEPT !.id = i, !.packet = {}, !.bound = FALSE]
<1>1. u = Changed(t, s, w) /\ Sock(v)
  BY DEF Owned, Held, Sock, Changed
<1> HIDE DEF v
<1>2. Sock(w) /\ w.id = i /\ w.packet = {}
  BY <1>1, SockOwned
<1> HIDE DEF w
<1>3. w.packet \subseteq N
  BY <1>2
<1> QED BY <1>1, <1>2, <1>3, HeldSet

LEMMA HeldBound ==
    ASSUME NEW t, NEW N, Held(t, N), NEW s \in UdpSocks, NEW a, NEW u, u = Bound(t, s, a)
    PROVE  Held(u, N) /\ u[s].id = t[s].id /\ \A r \in UdpSocks : r # s => u[r] = t[r]
<1> DEFINE v == t[s]
           w == [v EXCEPT !.at = a, !.bound = TRUE]
<1>1. u = Changed(t, s, w) /\ Sock(v) /\ v.packet \subseteq N
  BY DEF Bound, Held, Sock, Changed
<1> HIDE DEF v
<1>2. Sock(w) /\ w.id = v.id /\ w.packet = v.packet
  BY <1>1, SockBound
<1> HIDE DEF w
<1>3. w.packet \subseteq N
  BY <1>1, <1>2
<1>4. Held(u, N) /\ u[s] = w /\ \A r \in UdpSocks : r # s => u[r] = t[r]
  BY <1>1, <1>2, <1>3, HeldSet
<1> QED BY <1>2, <1>4 DEF v

LEMMA HeldKeep ==
    ASSUME NEW t, NEW N, Held(t, N), NEW s \in UdpSocks, NEW k \in SUBSET N,
           NEW u, u = [t EXCEPT ![s].packet = k]
    PROVE  Held(u, N)
<1> DEFINE v == t[s]
           w == [v EXCEPT !.packet = k]
<1>1. u = Changed(t, s, w) /\ Sock(v)
  BY DEF Held, Sock, Changed
<1> HIDE DEF v
<1>2. Sock(w) /\ w.packet = k
  BY <1>1, SockKeep
<1> HIDE DEF w
<1>3. w.packet \subseteq N /\ u = Changed(t, s, w)
  BY <1>1, <1>2
<1> QED BY ONLY <1>1, <1>2, <1>3, Held(t, N), s \in UdpSocks, HeldSet

LEMMA HeldFreed ==
    ASSUME NEW t, NEW N, Held(t, N), NEW p
    PROVE  Held(Freed(t, p), N)
<1>1. CASE p.pc # "end"
  BY <1>1 DEF Freed
<1>2. CASE p.pc = "end"
  <2> DEFINE u == [s \in UdpSocks |-> UdpFree(t, s, SELF)[s]]
  <2>1. Freed(t, p) = u
    BY <1>2 DEF Freed
  <2>2. ASSUME NEW s \in UdpSocks
        PROVE  u[s] = t[s] \/ u[s] = FreeSocket
    <3>1. u[s] = UdpFree(t, s, SELF)[s]
      OBVIOUS
    <3> HIDE DEF u
    <3>2. CASE t[s].id = SELF
      <4>1. UdpFree(t, s, SELF) = [t EXCEPT ![s] = FreeSocket]
        BY <3>2 DEF UdpFree
      <4>2. t = [x \in UdpSocks |-> t[x]]
        BY DEF Held
      <4> QED BY ONLY <3>1, <4>1, <4>2, s \in UdpSocks
    <3>3. CASE t[s].id # SELF
      BY <3>1, <3>3 DEF UdpFree
    <3> QED BY <3>2, <3>3
  <2>3. u = [s \in UdpSocks |-> u[s]]
    OBVIOUS
  <2> HIDE DEF u
  <2>4. FreeSocket = [id |-> FreeSocket.id, bound |-> FreeSocket.bound, at |-> FreeSocket.at,
                      packet |-> FreeSocket.packet] /\ FreeSocket.packet = {}
    BY DEF FreeSocket
  <2> QED BY <2>1, <2>2, <2>3, <2>4 DEF Held
<1> QED BY <1>1, <1>2

-----------------------------------------------------------------------------
(* The steps. *)

\* A step of the program.
LEMMA StepKeeps ==
    ASSUME NEW t, NEW r, Held(t, net), r.prog.pc \in {"recv", "end"}, r.prog.sock \in UdpSocks,
           Talks(r.prog, net \cup r.out, serv), serv = [acked |-> serv.acked, file |-> serv.file],
           Step(t, r), UNCHANGED serv
    PROVE  Begun'
<1> DEFINE M == net \cup r.out
<1>1. Held(Freed(t, r.prog), M)
  BY HeldFreed, HeldMore
<1>2. prog' = r.prog /\ tab' = Freed(t, r.prog) /\ net' = M
  BY DEF Step
<1> HIDE DEF M
<1> QED BY <1>1, <1>2 DEF Begun, M

LEMMA SmallestIs ==
    ASSUME NEW S \in SUBSET Int, NEW m \in S, \A r \in S : m <= r
    PROVE  Smallest(S) = m
<1>1. \E s \in S : \A r \in S : s <= r
  OBVIOUS
<1>2. Smallest(S) \in S /\ \A r \in S : Smallest(S) <= r
  BY <1>1 DEF Smallest
<1>3. m <= Smallest(S) /\ Smallest(S) <= m /\ Smallest(S) \in Int /\ m \in Int
  BY <1>2
<1> QED BY ONLY <1>3

\* The program as Start leaves it.
Aim(p, sock, at) == [p EXCEPT !.sock = sock, !.target = at]
Phase(p, phase) == [p EXCEPT !.phase = phase]
PhaseAt(p, phase, sock) == [p EXCEPT !.phase = phase, !.sock = sock]

LEMMA Aimed ==
    ASSUME NEW p, Rec(p), NEW sock, NEW at, NEW b, b = Again(Aim(p, sock, at))
    PROVE  /\ Rec(b) /\ b.kind = p.kind /\ b.pc = "recv" /\ b.sock = sock /\ b.pnum = p.pnum
           /\ b.file = p.file
<1> DEFINE a == Aim(p, sock, at)
<1>0. a = [p EXCEPT !.sock = sock, !.target = at]
  BY DEF Aim
<1> HIDE DEF a
<1>1. a = [kind |-> p.kind, pc |-> p.pc, phase |-> p.phase, sock |-> sock, target |-> at,
           n |-> p.n, pnum |-> p.pnum, ip |-> p.ip, file |-> p.file, ret |-> p.ret,
           buf |-> p.buf, call |-> p.call]
  BY ONLY <1>0, Rec(p) DEF Rec
<1>2. b = [kind |-> p.kind, pc |-> "recv", phase |-> p.phase, sock |-> sock, target |-> at,
           n |-> p.n, pnum |-> p.pnum, ip |-> p.ip, file |-> p.file, ret |-> p.ret,
           buf |-> p.buf, call |-> p.call]
  <2>1. b = Again(a)
    BY DEF a
  <2> QED BY ONLY <1>1, <2>1 DEF Again
<1> QED BY ONLY <1>2 DEF Rec

LEMMA Phased ==
    ASSUME NEW p, Rec(p), NEW phase, NEW q, q = Phase(p, phase)
    PROVE  /\ Rec(q) /\ q.kind = p.kind /\ q.pc = p.pc /\ q.phase = phase /\ q.sock = p.sock
           /\ q.pnum = p.pnum /\ q.file = p.file
<1>1. q = [kind |-> p.kind, pc |-> p.pc, phase |-> phase, sock |-> p.sock, target |-> p.target,
           n |-> p.n, pnum |-> p.pnum, ip |-> p.ip, file |-> p.file, ret |-> p.ret,
           buf |-> p.buf, call |-> p.call]
  BY DEF Rec, Phase
<1> QED BY ONLY <1>1 DEF Rec

LEMMA PhasedAt ==
    ASSUME NEW p, Rec(p), NEW phase, NEW sock, NEW q, q = PhaseAt(p, phase, sock)
    PROVE  /\ Rec(q) /\ q.kind = p.kind /\ q.pc = p.pc /\ q.phase = phase /\ q.sock = sock
<1>1. q = [kind |-> p.kind, pc |-> p.pc, phase |-> phase, sock |-> sock, target |-> p.target,
           n |-> p.n, pnum |-> p.pnum, ip |-> p.ip, file |-> p.file, ret |-> p.ret,
           buf |-> p.buf, call |-> p.call]
  BY DEF Rec, PhaseAt
<1> QED BY ONLY <1>1 DEF Rec

\* The message is sent from a socket of the program.
LEMMA StartKeeps ==
    ASSUME Fresh, Start
    PROVE  Begun'
<1> DEFINE one == UdpSocket(tab)
           t1 == Owned(tab, one, SELF)
           ports == {x \in 1025 .. 1025 + UDPNUM : MayBind(t1, one, SELF, <<SELF, x>>)}
           at == <<SELF, Smallest(ports)>>
           t2 == Bound(t1, one, at)
           d1 == Bound(t1, one, <<"0.0.0.0", 68>>)
           two == UdpSocket(d1)
           d2 == Bound(Owned(d1, two, SELF), two, ToClient)
           p == Again([prog EXCEPT !.sock = one, !.target = TFTP_SERVER])
           D == Go([p EXCEPT !.phase = "offer", !.sock = two], {Discover})
           W == Go([p EXCEPT !.phase = "wrq"], {Wrq})
           R == Go([p EXCEPT !.phase = "get"], {Rrq})
<1>1. 1 \in UdpSocks /\ 2 \in UdpSocks /\ UdpSocks \subseteq Int
  BY UdpAssumption, ClientsAssumption DEF UdpSocks
<1>2. Held(tab, net) /\ \A s \in UdpSocks : tab[s].id = NoOne
  BY DEF Fresh, UdpInit, FreeSocket, Held
<1>3. one = 1
  <2>1. {s \in UdpSocks : tab[s].id = NoOne} = UdpSocks
    BY <1>2
  <2>2. \A s \in UdpSocks : 1 <= s
    BY DEF UdpSocks
  <2>3. Smallest(UdpSocks) = 1
    BY <1>1, <2>2, SmallestIs
  <2> QED BY <1>1, <2>1, <2>3 DEF UdpSocket
<1>4. one \in UdpSocks
  BY <1>1, <1>3
<1>5. prog.kind = "dhcp" => Step(d2, D)
  BY DEF Start
<1>6. prog.kind = "save" => Step(t2, W)
  BY DEF Start
<1>7. prog.kind = "load" => Step(t2, R)
  BY DEF Start
<1> HIDE DEF one, at
<1>8. Held(t1, net) /\ t1[1].id = SELF /\ \A s \in UdpSocks : s # 1 => t1[s] = tab[s]
  BY <1>2, <1>3, <1>4, HeldOwned
<1> HIDE DEF t1
<1>9. Held(t2, net)
  BY <1>4, <1>8, HeldBound
<1>10. Held(d1, net) /\ d1[1].id = SELF /\ \A s \in UdpSocks : s # 1 => d1[s].id = NoOne
  BY <1>2, <1>3, <1>4, <1>8, HeldBound
<1> HIDE DEF d1, t2
<1>11. two = 2
  <2> DEFINE S == {s \in UdpSocks : d1[s].id = NoOne}
  <2>1. 2 \in S /\ \A s \in S : 2 <= s
    BY <1>1, <1>10 DEF SELF, NoOne, UdpSocks
  <2>2. S \in SUBSET Int
    BY <1>1
  <2>3. two = IF S = {} THEN 0 ELSE Smallest(S)
    BY DEF UdpSocket
  <2> HIDE DEF S
  <2>4. Smallest(S) = 2
    BY <2>1, <2>2, SmallestIs
  <2> QED BY <2>1, <2>3, <2>4
<1> HIDE DEF two
<1>12. Held(d2, net)
  <2>1. Held(Owned(d1, two, SELF), net)
    BY <1>1, <1>10, <1>11, HeldOwned
  <2> QED BY <1>1, <1>11, <2>1, HeldBound
<1> HIDE DEF d2
<1>13. PICK kind \in {"dhcp", "save", "load"} : prog = Program(kind)
  BY DEF Fresh
<1>14. prog.kind = kind
  BY ONLY <1>13 DEF Program
<1>15. Rec(prog) /\ prog.pnum = 0 /\ prog.file = <<>>
  BY ONLY <1>13 DEF Program, Rec
<1>16. /\ Rec(p) /\ p.kind = kind /\ p.pc = "recv" /\ p.sock = 1 /\ p.pnum = 0 /\ p.file = <<>>
  <2>1. p = Again(Aim(prog, one, TFTP_SERVER))
    BY DEF Aim
  <2> HIDE DEF p
  <2> QED BY ONLY <2>1, <1>3, <1>14, <1>15, Aimed
<1> HIDE DEF p
<1>17. serv = [acked |-> serv.acked, file |-> serv.file] /\ serv.file = <<>> /\ UNCHANGED serv
  BY DEF Fresh, Start
<1>18. CASE prog.kind = "dhcp"
  <2> DEFINE q == [p EXCEPT !.phase = "offer", !.sock = two]
  <2>1. D = Go(q, {Discover}) /\ Step(d2, D)
    BY <1>5, <1>18
  <2>2. q.kind = "dhcp" /\ q.pc = "recv" /\ q.phase = "offer" /\ q.sock = 2 /\ Rec(q)
    <3>1. q = PhaseAt(p, "offer", two)
      BY DEF PhaseAt
    <3> HIDE DEF q
    <3> QED BY ONLY <3>1, <1>11, <1>14, <1>16, <1>18, PhasedAt
  <2> HIDE DEF q, D
  <2>3. D.prog = q /\ D.out = {Discover}
    BY ONLY <2>1 DEF Go
  <2>4. Discover.kind = "discover" /\ Discover.xid = 1
    BY DEF Discover, Datagram
  <2>5. \A d \in net \cup {Discover} : /\ d.kind = "discover" => d.xid # 2
                                       /\ d.kind # "request"
                                       /\ d.kind = "pack" /\ d.xid = 2 => d.call = "earlier"
    BY <2>4 DEF Fresh, OldReply
  <2>6. Talks(q, net \cup {Discover}, serv)
    BY <2>2, <2>5 DEF Talks, Dhcp
  <2> QED BY <1>1, <1>12, <1>17, <2>1, <2>2, <2>3, <2>6, StepKeeps
<1>19. CASE prog.kind = "save"
  <2> DEFINE q == [p EXCEPT !.phase = "wrq"]
  <2>1. W = Go(q, {Wrq}) /\ Step(t2, W)
    BY <1>6, <1>19
  <2>2. /\ q.kind = "save" /\ q.pc = "recv" /\ q.phase = "wrq" /\ q.sock = 1 /\ q.pnum = 0
        /\ Rec(q)
    <3>1. q = Phase(p, "wrq")
      BY DEF Phase
    <3> HIDE DEF q
    <3> QED BY ONLY <3>1, <1>14, <1>16, <1>19, Phased
  <2> HIDE DEF q, W
  <2>3. W.prog = q /\ W.out = {Wrq}
    BY ONLY <2>1 DEF Go
  <2>4. Wrq.kind = "wrq" /\ Wrq.no = 0
    BY DEF Wrq, Datagram
  <2>5. \A d \in net : OldReply(d)
    BY <1>19 DEF Fresh
  <2>6. /\ serv.file \in Seq(Nat) /\ Len(serv.file) = 0
        /\ \A k \in 1 .. Len(serv.file) : serv.file[k] = k
    BY <1>17
  <2>7. 0 \in 0 .. BLOCKS
    BY ClientsAssumption
  <2>8. Talks(q, net \cup {Wrq}, serv)
    <3>1. Here # From
      BY DEF Here, From, SELF, TFTPD
    <3>2. ToClient # From
      BY DEF ToClient, From, BROADCAST, TFTPD
    <3>3. \A d \in net \cup {Wrq} : /\ d.no \in Nat /\ d.kind # "rrq"
                                    /\ d.kind = "ack" => d.src # Here /\ d.call = "earlier"
                                    /\ d.kind = "data" => d.dst # From
      BY <2>4, <2>5, <3>1, <3>2 DEF OldReply
    <3>4. Save(q, net \cup {Wrq}, serv)
      BY <2>2, <2>6, <2>7, <3>3 DEF Save
    <3> QED BY <3>4 DEF Talks
  <2> QED BY <1>1, <1>9, <1>17, <2>1, <2>2, <2>3, <2>8, StepKeeps
<1>20. CASE prog.kind = "load"
  <2> DEFINE q == [p EXCEPT !.phase = "get"]
  <2>1. R = Go(q, {Rrq}) /\ Step(t2, R)
    BY <1>7, <1>20
  <2>2. /\ q.kind = "load" /\ q.pc = "recv" /\ q.phase = "get" /\ q.sock = 1 /\ q.file = <<>>
        /\ Rec(q)
    <3>1. q = Phase(p, "get")
      BY DEF Phase
    <3> HIDE DEF q
    <3> QED BY ONLY <3>1, <1>14, <1>16, <1>20, Phased
  <2> HIDE DEF q, R
  <2>3. R.prog = q /\ R.out = {Rrq}
    BY ONLY <2>1 DEF Go
  <2>4. Rrq.kind = "rrq" /\ Rrq.no = 0 /\ Rrq.src = Here /\ Rrq.call = "this"
    BY DEF Rrq, Datagram
  <2>5. \A d \in net : OldReply(d)
    BY <1>20 DEF Fresh
  <2>6. q.file \in Seq(Nat) /\ 1 .. Len(q.file) = {} /\ \A b : b \notin 1 .. 0 - 1
    BY <2>2
  <2>7. Talks(q, net \cup {Rrq}, serv)
    <3>1. Here # From
      BY DEF Here, From, SELF, TFTPD
    <3>2. ToClient # From
      BY DEF ToClient, From, BROADCAST, TFTPD
    <3>3. \A d \in net \cup {Rrq} : /\ d.no \in Nat /\ (d.call = "earlier" => d.src # Here)
                                    /\ d.kind = "rrq" => d.no = 0 /\ d.src = Here
                                    /\ d.kind = "data" => d.dst # From
                                    /\ d.call # "earlier" => d.no = 0
      BY <2>4, <2>5, <3>1, <3>2 DEF OldReply
    <3>4. Grows(q, net \cup {Rrq})
      BY <2>6, <3>3 DEF Grows, Gapless
    <3>5. Load(q, net \cup {Rrq}, serv)
      BY <2>2, <2>6, <3>3, <3>4 DEF Load
    <3> QED BY <3>5 DEF Talks
  <2> QED BY <1>1, <1>9, <1>17, <2>1, <2>2, <2>3, <2>7, StepKeeps
<1> QED BY <1>13, <1>14, <1>18, <1>19, <1>20

LEMMA RecvFromKeeps ==
    ASSUME Begun, RecvFrom
    PROVE  Begun'
<1>1. prog.pc = "recv" /\ UNCHANGED serv
  BY DEF RecvFrom
<1>2. CASE \E d \in tab[prog.sock].packet :
             Step(Taken(tab, prog.sock), Handled([prog EXCEPT !.pc = "run"], d))
  <2> DEFINE p == [prog EXCEPT !.pc = "run"]
             t == Taken(tab, prog.sock)
  <2>1. PICK d \in tab[prog.sock].packet : Step(t, Handled(p, d))
    BY <1>2
  <2>2. d \in net
    BY DEF Begun, Held
  <2>3. Talks(p, net, serv) /\ p.pc = "run" /\ p.sock = prog.sock
    BY TalksWaiting DEF Begun
  <2> DEFINE r == Handled(p, d)
  <2> HIDE DEF p
  <2>4. Goes(p, r) /\ Talks(r.prog, net \cup r.out, serv)
    BY <2>2, <2>3, TalksHandled
  <2>5. Held(t, net)
    BY HeldKeep DEF Taken, Begun
  <2> HIDE DEF r, t
  <2> QED BY <1>1, <2>1, <2>3, <2>4, <2>5, StepKeeps DEF Begun, Goes, r
<1>3. CASE prog' = [prog EXCEPT !.pc = "wait"] /\ UNCHANGED <<tab, net>>
  <2>1. Talks(prog', net, serv) /\ prog'.pc = "wait" /\ prog'.sock = prog.sock
    BY <1>3, TalksWaiting DEF Begun
  <2> QED BY <1>1, <1>3, <2>1 DEF Begun
<1> QED BY <1>2, <1>3 DEF RecvFrom

LEMMA TimeoutKeeps ==
    ASSUME Begun, Timeout
    PROVE  Begun'
<1> DEFINE p == [prog EXCEPT !.pc = "run"]
<1>1. PICK r \in TimedOut(p) : Step(tab, r)
  BY DEF Timeout
<1>2. Talks(p, net, serv) /\ p.sock = prog.sock /\ UNCHANGED serv
  BY TalksWaiting DEF Begun, Timeout
<1> HIDE DEF p
<1>3. Goes(p, r) /\ Talks(r.prog, net \cup r.out, serv)
  BY <1>2, TalksTimedOut
<1> QED BY <1>1, <1>2, <1>3, StepKeeps DEF Begun, Goes

LEMMA ArriveKeeps ==
    ASSUME Begun, NEW d \in net, Arrive(d)
    PROVE  Begun'
<1> DEFINE s == Addressed(tab, d)
           p == [prog EXCEPT !.pc = "run"]
           r == Handled(p, d)
<1>1. s # 0 /\ UNCHANGED serv
  BY DEF Arrive
<1>2. CASE prog.pc = "wait" /\ prog.sock = s
  <2>1. Step(tab, r)
    BY <1>2 DEF Arrive
  <2>2. Talks(p, net, serv) /\ p.pc = "run" /\ p.sock = prog.sock
    BY TalksWaiting DEF Begun
  <2> HIDE DEF p
  <2>3. Goes(p, r) /\ Talks(r.prog, net \cup r.out, serv)
    BY <2>2, TalksHandled
  <2> HIDE DEF r
  <2> QED BY <1>1, <2>1, <2>2, <2>3, StepKeeps DEF Begun, Goes
<1>3. CASE ~ (prog.pc = "wait" /\ prog.sock = s)
  <2>1. PICK memory \in BOOLEAN : tab' = Kept(tab, s, d, memory) /\ UNCHANGED <<prog, net>>
    BY <1>3 DEF Arrive
  <2> HIDE DEF s
  <2> DEFINE k == IF memory THEN {d} ELSE {}
  <2>2. tab' = [tab EXCEPT ![s].packet = k] /\ k \in SUBSET net
    BY <2>1 DEF Kept
  <2> HIDE DEF k
  <2>3. Held(tab', net)
    <3>1. CASE s \in UdpSocks
      BY <2>2, <3>1, HeldKeep DEF Begun
    <3>2. CASE s \notin UdpSocks
      <4>1. tab = [x \in UdpSocks |-> tab[x]]
        BY DEF Begun, Held
      <4>2. tab' = tab
        BY ONLY <2>2, <3>2, <4>1
      <4> QED BY <4>2 DEF Begun
    <3> QED BY <3>1, <3>2
  <2> QED BY <1>1, <2>1, <2>3 DEF Begun
<1> QED BY <1>2, <1>3

\* A server answers: what the program knows goes on to hold.
LEMMA ServKeeps ==
    ASSUME Begun, UNCHANGED <<tab, prog>>, NEW y, Reply(y), Talks(prog, net \cup {y}, serv'),
           serv' = [acked |-> serv'.acked, file |-> serv'.file]
    PROVE  Begun'
<1>1. net' = net \cup {y}
  BY DEF Reply
<1>2. Held(tab, net')
  BY <1>1, HeldMore DEF Begun
<1> QED BY <1>1, <1>2 DEF Begun

\* Offers and refusals say nothing that the programs depend on; an acknowledgement
\* of a request says that its address was given.
Promise(y) == y.kind \in {"offer", "nak"} /\ y.no = 0 /\ y.call = "this"

LEMMA OffersKeep ==
    ASSUME NEW p, NEW N, NEW sv, Talks(p, N, sv), NEW y, Promise(y)
    PROVE  Talks(p, N \cup {y}, sv)
<1>1. y.kind \notin {"discover", "request", "pack", "ack", "data", "rrq"} /\ y.no \in Nat
      /\ y.no = 0 /\ y.call = "this" /\ \A b : b \notin 1 .. y.no - 1
  BY DEF Promise
<1>2. Dhcp(p, N, sv) => Dhcp(p, N \cup {y}, sv)
  BY <1>1 DEF Dhcp
<1>3. Save(p, N, sv) => Save(p, N \cup {y}, sv)
  BY <1>1 DEF Save
<1>4. Load(p, N, sv) => Load(p, N \cup {y}, sv)
  BY <1>1, GrowsSame DEF Load
<1> QED BY <1>2, <1>3, <1>4 DEF Talks

LEMMA PackKeeps ==
    ASSUME NEW p, NEW N, NEW sv, Talks(p, N, sv), NEW d \in N, d.kind = "request",
           NEW y, y.kind = "pack", y.no = 0, y.ip = d.ip, y.call = "this",
           NEW w, w.acked = sv.acked \cup {d.ip}, w.file = sv.file
    PROVE  Talks(p, N \cup {y}, w)
<1>1. y.kind \notin {"discover", "request", "ack", "data", "rrq"} /\ y.no \in Nat
      /\ \A b : b \notin 1 .. y.no - 1
  OBVIOUS
<1>2. Dhcp(p, N, sv) => Dhcp(p, N \cup {y}, w)
  BY <1>1 DEF Dhcp
<1>3. Save(p, N, sv) => Save(p, N \cup {y}, w)
  BY <1>1 DEF Save
<1>4. Load(p, N, sv) => Load(p, N \cup {y}, w)
  BY <1>1, GrowsSame DEF Load
<1> QED BY <1>2, <1>3, <1>4 DEF Talks

\* A DHCP server acknowledges only the address that was asked for.
LEMMA DhcpServerKeeps ==
    ASSUME Begun, NEW s, NEW d \in net, DhcpServer(s, d)
    PROVE  Begun'
<1>0. UNCHANGED <<tab, prog>>
  BY DEF DhcpServer
<1>1. CASE /\ d.kind = "discover"
           /\ \E a \in Addresses :
                Reply(Datagram(<<s, 67>>, ToClient, "offer", d.xid, a, 0))
           /\ UNCHANGED serv
  <2>1. PICK a \in Addresses :
            Reply(Datagram(<<s, 67>>, ToClient, "offer", d.xid, a, 0))
    BY <1>1
  <2> DEFINE y == Datagram(<<s, 67>>, ToClient, "offer", d.xid, a, 0)
  <2>2. Promise(y)
    BY DEF Promise, Datagram
  <2>3. Reply(y)
    BY <2>1
  <2> HIDE DEF y
  <2>4. Talks(prog, net \cup {y}, serv)
    BY <2>2, OffersKeep DEF Begun
  <2> QED BY <1>0, <1>1, <2>3, <2>4, ServKeeps DEF Begun
<1>2. CASE /\ d.kind = "request"
           /\ Reply(Datagram(<<s, 67>>, ToClient, "nak", d.xid, 0, 0))
           /\ UNCHANGED serv
  <2> DEFINE y == Datagram(<<s, 67>>, ToClient, "nak", d.xid, 0, 0)
  <2>1. Promise(y)
    BY DEF Promise, Datagram
  <2>2. Reply(y)
    BY <1>2
  <2> HIDE DEF y
  <2>3. Talks(prog, net \cup {y}, serv)
    BY <2>1, OffersKeep DEF Begun
  <2> QED BY <1>0, <1>2, <2>2, <2>3, ServKeeps DEF Begun
<1>3. CASE /\ d.kind = "request"
           /\ Reply(Datagram(<<s, 67>>, ToClient, "pack", d.xid, d.ip, 0))
           /\ serv' = [serv EXCEPT !.acked = @ \cup {d.ip}]
  <2> DEFINE y == Datagram(<<s, 67>>, ToClient, "pack", d.xid, d.ip, 0)
  <2>1. y.kind = "pack" /\ y.no = 0 /\ y.ip = d.ip /\ y.call = "this"
    BY DEF Datagram
  <2>2. Reply(y)
    BY <1>3
  <2> HIDE DEF y
  <2>3. serv' = [acked |-> serv.acked \cup {d.ip}, file |-> serv.file]
    BY <1>3 DEF Begun
  <2>4. serv'.acked = serv.acked \cup {d.ip} /\ serv'.file = serv.file
        /\ serv' = [acked |-> serv'.acked, file |-> serv'.file]
    BY ONLY <2>3
  <2>5. Talks(prog, net \cup {y}, serv')
    BY <1>3, <2>1, <2>4, PackKeeps DEF Begun
  <2> QED BY <1>0, <2>2, <2>4, <2>5, ServKeeps
<1> QED BY <1>1, <1>2, <1>3 DEF DhcpServer

LEMMA StrangerKeeps ==
    ASSUME Begun, prog.kind = "dhcp", NEW s, Stranger(s)
    PROVE  Begun'
<1> DEFINE y == Datagram(<<s, 67>>, ToClient, "pack", 0, 0, 0)
<1>2. y.kind = "pack" /\ y.xid = 0
  BY DEF Datagram
<1>3. Reply(y) /\ UNCHANGED <<tab, prog, serv>>
  BY DEF Stranger
<1> HIDE DEF y
<1>4. Dhcp(prog, net, serv)
  BY DEF Begun, Talks, Save, Load
<1>5. Talks(prog, net \cup {y}, serv)
  BY <1>2, <1>4 DEF Dhcp, Talks
<1> QED BY <1>3, <1>5, ServKeeps DEF Begun

\* The server of TFTP: an acknowledgement of a block that it has, and a block
\* that follows one the program has written.
AckFrom(y, no) == y.kind = "ack" /\ y.no = no /\ y.src = From /\ y.call = "this"
DataFrom(y, no, dst) ==
    y.kind = "data" /\ y.no = no /\ y.src = From /\ y.dst = dst /\ y.call = "this"

LEMMA AckKeeps ==
    ASSUME NEW p, NEW N, NEW sv, Talks(p, N, sv), NEW y, AckFrom(y, 0)
    PROVE  Talks(p, N \cup {y}, sv)
<1>1. y.kind = "ack" /\ y.no = 0 /\ From # Here
  BY DEF AckFrom, From, Here, TFTPD, SELF
<1>2. \A b : b \notin 1 .. y.no - 1
  BY <1>1
<1>3. Dhcp(p, N, sv) => Dhcp(p, N \cup {y}, sv)
  BY <1>1 DEF Dhcp
<1>4. ASSUME Save(p, N, sv)
      PROVE  Save(p, N \cup {y}, sv)
  <2>1. Len(sv.file) \in Nat
    BY <1>4, LenProperties DEF Save
  <2>2. y.no \in Nat /\ y.no <= Len(sv.file) /\ y.src # Here /\ y.call = "this"
    BY <1>1, <2>1 DEF AckFrom
  <2> QED BY <1>1, <1>4, <2>2 DEF Save
<1>5. Load(p, N, sv) => Load(p, N \cup {y}, sv)
  <2>1. y.call = "this" /\ \A z \in N \cup {y} : z \in N \/ z.no = 0
    BY <1>1 DEF AckFrom
  <2> QED BY <1>1, <2>1, GrowsSame DEF Load
<1> QED BY <1>3, <1>4, <1>5 DEF Talks

LEMMA BlockKeeps ==
    ASSUME NEW p, NEW N, NEW sv, Talks(p, N, sv), NEW d \in N, d.kind = "data", d.dst = From,
           d.no <= Len(sv.file) + 1, NEW y, AckFrom(y, d.no), NEW w, w.acked = sv.acked,
           w.file = IF d.no > Len(sv.file) THEN Append(sv.file, d.no) ELSE sv.file
    PROVE  Talks(p, N \cup {y}, w)
<1>1. y.kind = "ack" /\ y.no = d.no /\ y.src # Here
  BY DEF AckFrom, From, Here, TFTPD, SELF
<1>2. Dhcp(p, N, sv) => Dhcp(p, N \cup {y}, w)
  BY <1>1 DEF Dhcp
<1>3. ASSUME Save(p, N, sv)
      PROVE  Save(p, N \cup {y}, w)
  <2> DEFINE f == sv.file
             g == w.file
  <2>1. f \in Seq(Nat) /\ Len(f) \in Nat /\ d.no \in Nat /\ p.pnum \in 0 .. BLOCKS /\ d.no <= p.pnum
        /\ Len(f) <= p.pnum /\ BLOCKS \in Nat /\ \A k \in 1 .. Len(f) : f[k] = k
    BY <1>3, LenProperties, ClientsAssumption DEF Save
  <2>2. /\ g \in Seq(Nat) /\ Len(g) \in Nat /\ Len(f) <= Len(g) /\ d.no <= Len(g)
        /\ Len(g) <= p.pnum /\ \A k \in 1 .. Len(g) : g[k] = k
    <3>1. CASE d.no > Len(f)
      <4>1. g = Append(f, d.no) /\ d.no = Len(f) + 1
        BY <2>1, <3>1
      <4> HIDE DEF f, g
      <4>2. g \in Seq(Nat) /\ Len(g) = Len(f) + 1 /\ g[Len(f) + 1] = d.no
            /\ \A k \in 1 .. Len(f) : g[k] = f[k]
        BY <2>1, <4>1, AppendProperties
      <4>3. \A k \in 1 .. Len(f) + 1 : k \in 1 .. Len(f) \/ k = Len(f) + 1
        BY <2>1
      <4>4. \A k \in 1 .. Len(g) : g[k] = k
        BY <2>1, <4>1, <4>2, <4>3
      <4> QED BY <2>1, <4>1, <4>2, <4>4
    <3>2. CASE ~ (d.no > Len(f))
      BY <2>1, <3>2
    <3> QED BY <3>1, <3>2
  <2> HIDE DEF f, g
  <2>3. /\ Rec(p) /\ p.kind = "save" /\ p.phase \in {"wrq", "put"} /\ (p.phase = "wrq" => p.pnum = 0)
        /\ \A x \in N : x.no \in Nat /\ x.kind # "rrq"
        /\ \A x \in N : x.kind = "ack" => x.src # Here /\ (x.call = "earlier" \/ x.no <= Len(f))
        /\ \A x \in N : x.kind = "data" /\ x.dst = From => x.no <= p.pnum
        /\ p.pc = "end" /\ p.ret = 0 => p.call = "earlier" \/ Len(f) = BLOCKS
    BY <1>3 DEF Save, f
  <2>4. \A x \in N \cup {y} : /\ x.no \in Nat /\ x.kind # "rrq"
                              /\ x.kind = "ack" => x.src # Here /\ (x.call = "earlier" \/ x.no <= Len(g))
                              /\ x.kind = "data" /\ x.dst = From => x.no <= p.pnum
    BY <1>1, <2>1, <2>2, <2>3
  <2>5. p.pc = "end" /\ p.ret = 0 => p.call = "earlier" \/ Len(g) = BLOCKS
    BY <2>1, <2>2, <2>3
  <2> QED BY <2>1, <2>2, <2>3, <2>4, <2>5 DEF Save, g
<1>4. ~Load(p, N, sv)
  BY DEF Load
<1> QED BY <1>2, <1>3, <1>4 DEF Talks

LEMMA DataKeeps ==
    ASSUME NEW p, NEW N, NEW sv, Talks(p, N, sv), NEW d \in N,
           d.kind = "rrq" \/ (d.kind = "ack" /\ d.src = Here), NEW y, DataFrom(y, d.no + 1, d.src)
    PROVE  Talks(p, N \cup {y}, sv)
<1>1. y.kind = "data" /\ y.no = d.no + 1 /\ y.dst = d.src /\ Here # From
  BY DEF DataFrom, From, Here, TFTPD, SELF
<1>2. Dhcp(p, N, sv) => Dhcp(p, N \cup {y}, sv)
  BY <1>1 DEF Dhcp
<1>3. ~Save(p, N, sv)
  BY DEF Save
<1>4. ASSUME Load(p, N, sv)
      PROVE  Load(p, N \cup {y}, sv)
  <2>1. d.no \in Nat /\ (d.kind = "rrq" => d.no = 0 /\ d.src = Here) /\ d.src = Here /\ d.call # "earlier"
    BY <1>4 DEF Load
  <2>2. y.no \in Nat /\ y.dst # From /\ y.call = "this"
    BY <1>1, <2>1 DEF DataFrom
  <2>3. p.call = "earlier" \/ Grows(p, N \cup {y})
    <3> SUFFICES ASSUME Grows(p, N)
                 PROVE  Grows(p, N \cup {y})
      BY <1>4 DEF Load
    <3>1. \A b \in 1 .. d.no - 1 : b \in Written(p)
      BY <2>1 DEF Grows
    <3>2. d.kind = "ack" /\ d.no > 0 => d.no \in Written(p)
      BY <2>1 DEF Grows
    <3>3. \A b \in 1 .. y.no - 1 : b \in Written(p)
      <4> SUFFICES ASSUME NEW b \in 1 .. y.no - 1
                   PROVE  b \in Written(p)
        OBVIOUS
      <4>1. b \in 1 .. d.no - 1 \/ (b = d.no /\ d.no > 0)
        BY <1>1, <2>1
      <4> QED BY <2>1, <3>1, <3>2, <4>1
    <3> QED BY <1>1, <3>3 DEF Grows
  <2> QED BY <1>1, <1>4, <2>2, <2>3 DEF Load
<1> QED BY <1>2, <1>3, <1>4 DEF Talks

LEMMA TftpServerKeeps ==
    ASSUME Begun, NEW d \in net, TftpServer(d)
    PROVE  Begun'
<1>0. UNCHANGED <<tab, prog>> /\ Talks(prog, net, serv)
  BY DEF TftpServer, Begun
<1>1. CASE Reply(Datagram(From, d.src, "ack", 0, 0, 0)) /\ UNCHANGED serv
  <2> DEFINE y == Datagram(From, d.src, "ack", 0, 0, 0)
  <2>1. AckFrom(y, 0) /\ Reply(y)
    BY <1>1 DEF Datagram, AckFrom
  <2> HIDE DEF y
  <2>2. Talks(prog, net \cup {y}, serv')
    BY <1>0, <1>1, <2>1, AckKeeps
  <2> QED BY <1>0, <1>1, <2>1, <2>2, ServKeeps DEF Begun
<1>2. CASE /\ d.kind = "data" /\ d.dst = From /\ d.no <= Len(serv.file) + 1
           /\ Reply(Datagram(From, d.src, "ack", 0, 0, d.no))
           /\ serv' = [serv EXCEPT !.file = IF d.no > Len(@) THEN Append(@, d.no) ELSE @]
  <2> DEFINE y == Datagram(From, d.src, "ack", 0, 0, d.no)
             f == IF d.no > Len(serv.file) THEN Append(serv.file, d.no) ELSE serv.file
  <2>1. AckFrom(y, d.no) /\ Reply(y)
    BY <1>2 DEF Datagram, AckFrom
  <2> HIDE DEF y
  <2>2. serv' = [acked |-> serv.acked, file |-> f]
    BY <1>2 DEF Begun
  <2> HIDE DEF f
  <2>3. serv'.acked = serv.acked /\ serv'.file = f
        /\ serv' = [acked |-> serv'.acked, file |-> serv'.file]
    BY ONLY <2>2
  <2>4. Talks(prog, net \cup {y}, serv')
    BY <1>0, <1>2, <2>1, <2>3, BlockKeeps DEF f
  <2> QED BY <1>0, <2>1, <2>3, <2>4, ServKeeps
<1>3. CASE /\ d.kind = "rrq" \/ (d.kind = "ack" /\ d.src = Here)
           /\ Reply(Datagram(From, d.src, "data", 0, 0, d.no + 1)) /\ UNCHANGED serv
  <2> DEFINE y == Datagram(From, d.src, "data", 0, 0, d.no + 1)
  <2>1. DataFrom(y, d.no + 1, d.src) /\ Reply(y)
    BY <1>3 DEF Datagram, DataFrom
  <2> HIDE DEF y
  <2>2. Talks(prog, net \cup {y}, serv')
    BY <1>0, <1>3, <2>1, DataKeeps
  <2> QED BY <1>0, <1>3, <2>1, <2>2, ServKeeps DEF Begun
<1> QED BY <1>1, <1>2, <1>3 DEF TftpServer, From

-----------------------------------------------------------------------------
(* Before the first message, and the theorems. *)

LEMMA FreshKeeps ==
    ASSUME Fresh, Next
    PROVE  CInv'
<1>1. prog.pc = "run" /\ prog.kind \in {"dhcp", "save", "load"}
  BY DEF Fresh, Program
<1>2. CASE Start
  BY <1>2, StartKeeps DEF CInv
<1>3. ~RecvFrom /\ ~Timeout
  BY <1>1 DEF RecvFrom, Timeout
<1>4. ASSUME NEW d \in net
      PROVE  ~Arrive(d) /\ ~TftpServer(d) /\ \A s : ~DhcpServer(s, d)
  <2>1. d.kind \in {"offer", "pack", "nak", "ack", "data"} /\ d.dst # NoWhere
    BY <1>4 DEF Fresh, OldReply, BROADCAST, NoWhere, ToClient, Here, SELF
  <2>2. {s \in UdpSocks : tab[s].at = d.dst} = {}
    BY <2>1 DEF Fresh, UdpInit, FreeSocket
  <2>3. Addressed(tab, d) = 0
    BY <2>2 DEF Addressed
  <2>4. d.dst # <<TFTPD, 2000>> /\ (d.kind = "ack" => d.src # Here)
    BY <1>4 DEF Fresh, OldReply, BROADCAST, TFTPD, ToClient, Here, SELF
  <2> QED BY <2>1, <2>3, <2>4 DEF Arrive, TftpServer, DhcpServer
<1>5. ASSUME prog.kind = "dhcp", NEW s \in Servers, Stranger(s)
      PROVE  Fresh'
  <2> DEFINE y == Datagram(<<s, 67>>, ToClient, "pack", 0, 0, 0)
  <2>2. y.kind = "pack" /\ y.xid = 0 /\ y.dst = ToClient
    BY DEF Datagram
  <2>3. net' = net \cup {y} /\ UNCHANGED <<tab, prog, serv>>
    BY <1>5 DEF Stranger, Reply
  <2> HIDE DEF y
  <2> QED BY <1>5, <2>2, <2>3 DEF Fresh
<1> QED BY <1>2, <1>3, <1>4, <1>5 DEF Next, ProgramStep, CInv

LEMMA CInvInit == Init => CInv
<1> SUFFICES ASSUME Init
             PROVE  Fresh
  BY DEF CInv
<1>1. PICK kind \in {"dhcp", "save", "load"} :
          prog = Program(kind) /\ net \in SUBSET OldReplies(kind)
  BY DEF Init
<1>2. ASSUME NEW d \in net
      PROVE  OldReply(d)
  <2>1. BLOCKS \in Nat /\ 0 .. BLOCKS \subseteq Nat /\ 0 \in Nat
    BY ClientsAssumption
  <2>2. d \in OldReplies(kind)
    BY <1>1
  <2>3. CASE kind = "dhcp"
    <3>1. PICK s \in Servers, a \in Addresses,
              reply \in {<<"offer", 1>>, <<"pack", 2>>, <<"nak", 2>>} :
              d = [Datagram(<<s, 67>>, ToClient, reply[1], reply[2], a, 0) EXCEPT !.call = "earlier"]
      BY <2>2, <2>3 DEF OldReplies
    <3>2. /\ d.call = "earlier" /\ d.kind = reply[1] /\ d.no = 0 /\ d.dst = ToClient /\ d.src[2] = 67
      BY ONLY <3>1 DEF Datagram
    <3>3. reply[1] \in {"offer", "pack", "nak"}
      OBVIOUS
    <3>4. d.src # Here
      BY <3>2 DEF Here
    <3> QED BY <3>2, <3>3, <3>4 DEF OldReply
  <2>4. CASE kind # "dhcp"
    <3>1. PICK reply \in {"ack", "data"}, no \in 0 .. BLOCKS :
              d = [Datagram(<<TFTPD, 1999>>, Here, reply, 0, 0, no) EXCEPT !.call = "earlier"]
      BY <2>2, <2>4 DEF OldReplies
    <3>2. d.call = "earlier" /\ d.kind = reply /\ d.no = no /\ d.dst = Here /\ d.src = <<TFTPD, 1999>>
      BY ONLY <3>1 DEF Datagram
    <3>3. d.src # Here
      BY <3>2 DEF Here
    <3> QED BY <2>1, <3>2, <3>3 DEF OldReply
  <2> QED BY <2>3, <2>4
<1> QED BY <1>1, <1>2 DEF Init, Fresh

LEMMA CInvNext == CInv /\ [Next]_vars => CInv'
<1> SUFFICES ASSUME CInv, [Next]_vars
             PROVE  CInv'
  OBVIOUS
<1>1. CASE Fresh /\ Next
  BY <1>1, FreshKeeps
<1>2. CASE Begun /\ Next
  <2>1. ~Start
    BY <1>2 DEF Begun, Start
  <2>2. CASE RecvFrom \/ Timeout
    BY <1>2, <2>2, RecvFromKeeps, TimeoutKeeps DEF CInv
  <2>3. ASSUME NEW d \in net, Arrive(d) \/ TftpServer(d) \/ \E s \in Servers : DhcpServer(s, d)
        PROVE  CInv'
    BY <1>2, <2>3, ArriveKeeps, TftpServerKeeps, DhcpServerKeeps DEF CInv
  <2>4. ASSUME prog.kind = "dhcp", NEW s \in Servers, Stranger(s)
        PROVE  CInv'
    BY <1>2, <2>4, StrangerKeeps DEF CInv
  <2> QED BY <1>2, <2>1, <2>2, <2>3, <2>4 DEF Next, ProgramStep
<1>3. CASE UNCHANGED vars
  BY <1>3 DEF vars, CInv, Fresh, Begun
<1> QED BY <1>1, <1>2, <1>3 DEF CInv

LEMMA CInvAlways == Spec => []CInv
BY CInvInit, CInvNext, PTL DEF Spec

\* The address that if_dhcp sets was acknowledged by a server in this call, or the
\* PACK that it took was sent to an earlier call; for any number of servers and
\* replies to earlier calls, however replies are lost, repeated or reordered.
THEOREM LeaseCorrect == Spec => []LeaseAcked
<1>1. CInv => LeaseAcked
  <2>1. Fresh => prog.pc = "run"
    BY DEF Fresh, Program
  <2>2. Begun => LeaseAcked
    BY DEF Begun, Talks, Dhcp, Save, Load, LeaseAcked
  <2> QED BY <2>1, <2>2 DEF CInv, LeaseAcked
<1> QED BY <1>1, CInvAlways, PTL

\* When tftp_save reports success the server has the whole file, whatever its
\* length and however often a block or an acknowledgement is repeated, or the
\* acknowledgement of the last block was sent to an earlier call.
THEOREM SaveCorrect == Spec => []SavedWhole
<1>1. CInv => SavedWhole
  <2>1. Fresh => prog.pc = "run"
    BY DEF Fresh, Program
  <2>2. ASSUME Begun, prog.kind = "save", prog.pc = "end", prog.ret = 0, prog.call # "earlier"
        PROVE  serv.file = [k \in 1 .. BLOCKS |-> k]
    <3>1. Save(prog, net, serv)
      BY <2>2 DEF Begun, Talks, Dhcp, Load
    <3> DEFINE f == serv.file
    <3>2. f \in Seq(Nat) /\ Len(f) = BLOCKS /\ \A k \in 1 .. BLOCKS : f[k] = k
      BY <2>2, <3>1 DEF Save
    <3> HIDE DEF f
    <3>3. f = [k \in 1 .. Len(f) |-> f[k]]
      BY <3>2
    <3> QED BY <3>2, <3>3 DEF f
  <2> QED BY <2>1, <2>2 DEF CInv, SavedWhole
<1> QED BY <1>1, CInvAlways, PTL

\* What tftp_load wrote has no gap as long as it took no block of an earlier
\* call: each block comes behind all before it.
THEOREM LoadCorrect == Spec => []LoadedNoGap
<1>1. CInv => LoadedNoGap
  <2>1. Fresh => DOMAIN prog.file = {}
    BY DEF Fresh, Program
  <2>2. ASSUME Begun, prog.kind = "load", prog.call = "this"
        PROVE  LoadedNoGap
    <3>1. Load(prog, net, serv)
      BY <2>2 DEF Begun, Talks, Dhcp, Save
    <3>2. DOMAIN prog.file = 1 .. Len(prog.file)
      BY <3>1, LenProperties DEF Load
    <3> QED BY <2>2, <3>1, <3>2 DEF Load, Grows, Gapless, LoadedNoGap
  <2> QED BY <2>1, <2>2 DEF CInv, LoadedNoGap
<1> QED BY <1>1, CInvAlways, PTL
=============================================================================
