---------------------------- MODULE IpRxProofs ----------------------------
(***************************************************************************)
(* The receive path of IP: the memory and the order of packets on their    *)
(* way through the two fifos, for fifos of any size and any number of      *)
(* packets, what is put together from fragments, for any number of         *)
(* packets, pieces and lists, and the packets in the ring of the network   *)
(* card, for rings and packets of any size.                                *)
(***************************************************************************)
EXTENDS IpRx, Reassembly, Ne, SequenceTheorems, WellFoundedInduction, TLAPS

(***************************************************************************)
(* Memory: one place for every packet.                                     *)
(***************************************************************************)

Entry == [pkt : Nat, count : Int]

\* The packets of a fifo, and that each has one place there.
PacketsOf(s) == {s[i].pkt : i \in 1 .. Len(s)}
Once(s) == \A i, j \in 1 .. Len(s) : i # j => s[i].pkt # s[j].pkt

TypeOK ==
    /\ rcv_fifo \in [{0, 1} -> Seq(Entry)]
    /\ \A k \in {0, 1} : Len(rcv_fifo[k]) <= MAXPKT
    /\ rcv_index \in {0, 1} /\ todo \in Nat /\ todo <= Len(rcv_fifo[rcv_index])
    /\ kind \in Seq(Kinds)

\* Every packet that holds memory has one place: in one of the fifos or among
\* those that met a full one.
Placed ==
    /\ \A k \in {0, 1} : Once(rcv_fifo[k])
    /\ \A k \in {0, 1} : PacketsOf(rcv_fifo[k]) \cap lost = {}
    /\ PacketsOf(rcv_fifo[0]) \cap PacketsOf(rcv_fifo[1]) = {}
    /\ \A k \in {0, 1} : \A p \in PacketsOf(rcv_fifo[k]) : p <= Len(kind)
    /\ \A p \in lost : p \in Nat /\ p <= Len(kind)
    /\ blocks = PacketsOf(rcv_fifo[0]) \cup PacketsOf(rcv_fifo[1]) \cup lost

IInv == TypeOK /\ Placed

\* pop_fifo takes one packet out.
LEMMA PopTakes ==
    ASSUME NEW s \in Seq(Entry), s # <<>>, Once(s)
    PROVE  /\ Head(s) \in Entry /\ Tail(s) \in Seq(Entry) /\ Len(Tail(s)) = Len(s) - 1
           /\ Once(Tail(s)) /\ Head(s).pkt \in PacketsOf(s)
           /\ PacketsOf(Tail(s)) = PacketsOf(s) \ {Head(s).pkt}
<1>1. /\ Head(s) \in Entry /\ Tail(s) \in Seq(Entry) /\ Len(Tail(s)) = Len(s) - 1
      /\ \A i \in 1 .. Len(s) - 1 : Tail(s)[i] = s[i + 1]
  BY HeadTailProperties
<1>2. Len(s) \in Nat /\ Len(s) > 0 /\ Head(s) = s[1]
  BY EmptySeq
<1>3. Once(Tail(s))
  <2> SUFFICES ASSUME NEW i \in 1 .. Len(s) - 1, NEW j \in 1 .. Len(s) - 1, i # j
               PROVE  Tail(s)[i].pkt # Tail(s)[j].pkt
    BY <1>1 DEF Once
  <2>1. i + 1 \in 1 .. Len(s) /\ j + 1 \in 1 .. Len(s) /\ i + 1 # j + 1
    BY <1>2
  <2> QED BY <1>1, <2>1 DEF Once
<1>4. Head(s).pkt \in PacketsOf(s)
  BY <1>2 DEF PacketsOf
<1>5. ASSUME NEW p \in PacketsOf(Tail(s)) PROVE p \in PacketsOf(s) \ {Head(s).pkt}
  <2>1. PICK i \in 1 .. Len(s) - 1 : p = s[i + 1].pkt
    BY <1>1 DEF PacketsOf
  <2>2. i + 1 \in 1 .. Len(s) /\ 1 \in 1 .. Len(s) /\ i + 1 # 1
    BY <1>2
  <2> QED BY <1>2, <2>1, <2>2 DEF PacketsOf, Once
<1>6. ASSUME NEW p \in PacketsOf(s), p # Head(s).pkt PROVE p \in PacketsOf(Tail(s))
  <2>1. PICK i \in 1 .. Len(s) : p = s[i].pkt
    BY DEF PacketsOf
  <2>2. i # 1
    BY <1>2, <1>6, <2>1
  <2>3. i - 1 \in 1 .. Len(s) - 1 /\ (i - 1) + 1 = i
    BY <1>2, <2>2
  <2>4. Tail(s)[i - 1] = s[i]
    BY <1>1, <2>3
  <2> QED BY <1>1, <2>1, <2>3, <2>4 DEF PacketsOf
<1> QED BY <1>1, <1>3, <1>4, <1>5, <1>6

\* push_fifo with room adds one packet.
LEMMA PushAdds ==
    ASSUME NEW s \in Seq(Entry), NEW e \in Entry, Len(s) < MAXPKT, Once(s), e.pkt \notin PacketsOf(s)
    PROVE  /\ Push(s, e) \in Seq(Entry) /\ Len(Push(s, e)) = Len(s) + 1
           /\ Once(Push(s, e)) /\ PacketsOf(Push(s, e)) = PacketsOf(s) \cup {e.pkt}
<1> DEFINE t == Push(s, e)
<1>1. /\ t \in Seq(Entry) /\ Len(t) = Len(s) + 1
      /\ \A i \in 1 .. Len(s) : t[i] = s[i]
      /\ t[Len(s) + 1] = e
  BY AppendProperties DEF Push
<1>2. Len(s) \in Nat
  BY LenProperties
<1> HIDE DEF t
<1>3. \A i \in 1 .. Len(s) : s[i].pkt # e.pkt
  BY DEF PacketsOf
<1>4. Once(t)
  <2> SUFFICES ASSUME NEW i \in 1 .. Len(s) + 1, NEW j \in 1 .. Len(s) + 1, i # j
               PROVE  t[i].pkt # t[j].pkt
    BY <1>1 DEF Once
  <2>1. CASE i \in 1 .. Len(s) /\ j \in 1 .. Len(s)
    BY <1>1, <2>1 DEF Once
  <2>2. CASE i = Len(s) + 1
    <3>1. j \in 1 .. Len(s)
      BY <1>2, <2>2
    <3> QED BY <1>1, <1>3, <2>2, <3>1
  <2>3. CASE j = Len(s) + 1
    <3>1. i \in 1 .. Len(s)
      BY <1>2, <2>3
    <3> QED BY <1>1, <1>3, <2>3, <3>1
  <2> QED BY <1>2, <2>1, <2>2, <2>3
<1>5. PacketsOf(t) = PacketsOf(s) \cup {e.pkt}
  <2>1. ASSUME NEW i \in 1 .. Len(t) PROVE t[i].pkt \in PacketsOf(s) \cup {e.pkt}
    <3>1. i \in 1 .. Len(s) \/ i = Len(s) + 1
      BY <1>1, <1>2
    <3> QED BY <1>1, <3>1 DEF PacketsOf
  <2>2. \A i \in 1 .. Len(s) : i \in 1 .. Len(t) /\ s[i].pkt = t[i].pkt
    BY <1>1, <1>2
  <2>3. Len(s) + 1 \in 1 .. Len(t) /\ e.pkt = t[Len(s) + 1].pkt
    BY <1>1, <1>2
  <2> QED BY <2>1, <2>2, <2>3 DEF PacketsOf
<1> QED BY <1>1, <1>4, <1>5 DEF t

\* The fifo k becomes s: the other one stays.
LEMMA Replaced ==
    ASSUME TypeOK, NEW k \in {0, 1}, NEW s \in Seq(Entry), rcv_fifo' = [rcv_fifo EXCEPT ![k] = s]
    PROVE  /\ rcv_fifo'[k] = s /\ rcv_fifo'[1 - k] = rcv_fifo[1 - k]
           /\ 1 - k \in {0, 1} /\ 1 - k # k
           /\ rcv_fifo' \in [{0, 1} -> Seq(Entry)]
  BY DEF TypeOK

\* Both fifos, as the one that changes and the other.
LEMMA TheOther ==
    ASSUME NEW k \in {0, 1}
    PROVE  /\ {0, 1} = {k, 1 - k}
           /\ PacketsOf(rcv_fifo[0]) \cup PacketsOf(rcv_fifo[1])
                = PacketsOf(rcv_fifo[k]) \cup PacketsOf(rcv_fifo[1 - k])
           /\ PacketsOf(rcv_fifo[0]) \cap PacketsOf(rcv_fifo[1])
                = PacketsOf(rcv_fifo[k]) \cap PacketsOf(rcv_fifo[1 - k])
<1>1. CASE k = 0
  BY <1>1
<1>2. CASE k = 1
  BY <1>2
<1> QED BY <1>1, <1>2

\* The interrupt pushes a packet that is newer than all, or loses it.
LEMMA ReceiveKeeps == ASSUME IInv, NEW c \in Kinds, Receive(c) PROVE IInv'
<1> DEFINE n == Len(kind) + 1
           s == rcv_fifo[rcv_index]
           e == [pkt |-> n, count |-> 0]
<1>1. /\ kind' = Append(kind, c) /\ todo = 0 /\ todo' = 0 /\ rcv_index' = rcv_index
      /\ Len(kind') = n /\ kind' \in Seq(Kinds) /\ Len(kind) \in Nat
  BY AppendProperties, LenProperties DEF Receive, IInv, TypeOK
<1>2. /\ rcv_fifo' = [rcv_fifo EXCEPT ![rcv_index] = Push(s, e)]
      /\ blocks' = blocks \cup {n}
      /\ lost' = IF Push(s, e) = s THEN lost \cup {n} ELSE lost
  BY <1>1 DEF Receive
<1>3. /\ s \in Seq(Entry) /\ Len(s) \in Nat /\ Len(s) <= MAXPKT /\ e \in Entry
      /\ rcv_index \in {0, 1} /\ MAXPKT \in Nat
  BY <1>1, LenProperties, IpRxAssumption DEF IInv, TypeOK, Entry
<1>4. /\ \A k \in {0, 1} : n \notin PacketsOf(rcv_fifo[k])
      /\ n \notin lost /\ Once(s)
  <2>1. \A k \in {0, 1} : \A p \in PacketsOf(rcv_fifo[k]) : p # n
    <3> SUFFICES ASSUME NEW k \in {0, 1}, NEW p \in PacketsOf(rcv_fifo[k]) PROVE p # n
      OBVIOUS
    <3>1. p \in Nat
      <4>1. PICK i \in 1 .. Len(rcv_fifo[k]) : p = rcv_fifo[k][i].pkt
        BY DEF PacketsOf
      <4>2. rcv_fifo[k] \in Seq(Entry)
        BY DEF IInv, TypeOK
      <4>3. rcv_fifo[k][i] \in Entry
        BY <4>2, ElementOfSeq
      <4> QED BY <4>1, <4>3 DEF Entry
    <3>2. p <= Len(kind)
      BY DEF IInv, Placed
    <3> QED BY <1>1, <3>1, <3>2
  <2>2. \A p \in lost : p # n
    BY <1>1 DEF IInv, Placed
  <2> QED BY <1>3, <2>1, <2>2 DEF IInv, Placed
<1>5. /\ \A k \in {0, 1} : \A p \in PacketsOf(rcv_fifo[k]) : p <= n
      /\ \A p \in lost : p \in Nat /\ p <= n
  <2>1. ASSUME NEW k \in {0, 1}, NEW p \in PacketsOf(rcv_fifo[k]) PROVE p <= n
    <3>1. PICK i \in 1 .. Len(rcv_fifo[k]) : p = rcv_fifo[k][i].pkt
      BY DEF PacketsOf
    <3>2. rcv_fifo[k] \in Seq(Entry)
      BY DEF IInv, TypeOK
    <3>5. rcv_fifo[k][i] \in Entry
      BY <3>2, ElementOfSeq
    <3>3. p \in Nat
      BY <3>1, <3>5 DEF Entry
    <3>4. p <= Len(kind)
      BY DEF IInv, Placed
    <3> QED BY <1>1, <3>3, <3>4
  <2>2. ASSUME NEW p \in lost PROVE p \in Nat /\ p <= n
    BY <1>1 DEF IInv, Placed
  <2> QED BY <2>1, <2>2
<1> DEFINE k == rcv_index
           o == 1 - rcv_index
<1>6. CASE Len(s) < MAXPKT
  <2>1. /\ Push(s, e) \in Seq(Entry) /\ Len(Push(s, e)) = Len(s) + 1
        /\ Once(Push(s, e)) /\ PacketsOf(Push(s, e)) = PacketsOf(s) \cup {n}
    BY <1>3, <1>4, <1>6, PushAdds
  <2>2. lost' = lost
    BY <1>2, <1>3, <2>1
  <2>3. /\ rcv_fifo'[k] = Push(s, e) /\ rcv_fifo'[o] = rcv_fifo[o]
        /\ o \in {0, 1} /\ o # k /\ rcv_fifo' \in [{0, 1} -> Seq(Entry)]
    BY <1>2, <1>3, <2>1, Replaced DEF IInv
  <2>4. {0, 1} = {k, o} /\ k \in {0, 1}
    BY <1>3, TheOther
  <2> HIDE DEF o, n, s, e
  <2>5. TypeOK'
    <3>1. Len(rcv_fifo'[k]) <= MAXPKT /\ Len(rcv_fifo'[o]) <= MAXPKT /\ 0 <= Len(rcv_fifo'[k])
      BY <1>3, <1>6, <2>1, <2>3 DEF IInv, TypeOK
    <3> QED BY <1>1, <1>3, <2>3, <2>4, <3>1 DEF TypeOK
  <2>6. Placed'
    <3>1. /\ PacketsOf(rcv_fifo'[k]) = PacketsOf(rcv_fifo[k]) \cup {n}
          /\ PacketsOf(rcv_fifo'[o]) = PacketsOf(rcv_fifo[o])
      BY <2>1, <2>3 DEF s
    <3>2. Once(rcv_fifo'[k]) /\ Once(rcv_fifo'[o])
      BY <2>1, <2>3 DEF IInv, Placed
    <3>3. /\ PacketsOf(rcv_fifo'[k]) \cap lost' = {} /\ PacketsOf(rcv_fifo'[o]) \cap lost' = {}
          /\ PacketsOf(rcv_fifo'[k]) \cap PacketsOf(rcv_fifo'[o]) = {}
      <4>1. PacketsOf(rcv_fifo[k]) \cap PacketsOf(rcv_fifo[o]) = {}
        BY <1>3, TheOther DEF IInv, Placed, o
      <4> QED BY <1>4, <2>2, <2>3, <2>4, <3>1, <4>1 DEF IInv, Placed
    <3>4. /\ \A p \in PacketsOf(rcv_fifo'[k]) \cup PacketsOf(rcv_fifo'[o]) : p <= Len(kind')
          /\ \A p \in lost' : p \in Nat /\ p <= Len(kind')
      <4>1. n <= n
        BY <1>1 DEF n
      <4> QED BY <1>1, <1>5, <2>2, <2>3, <2>4, <3>1, <4>1
    <3>5. blocks' = PacketsOf(rcv_fifo'[k]) \cup PacketsOf(rcv_fifo'[o]) \cup lost'
      <4>1. blocks = PacketsOf(rcv_fifo[k]) \cup PacketsOf(rcv_fifo[o]) \cup lost
        BY <1>3, TheOther DEF IInv, Placed, o
      <4> QED BY <1>2, <2>2, <3>1, <4>1
    <3> QED BY <2>4, <3>2, <3>3, <3>4, <3>5 DEF Placed
  <2> QED BY <2>5, <2>6 DEF IInv
<1>7. CASE ~(Len(s) < MAXPKT)
  <2>1. Push(s, e) = s
    BY <1>7 DEF Push
  <2>2. lost' = lost \cup {n} /\ rcv_fifo' = rcv_fifo
    BY <1>2, <1>3, <2>1 DEF IInv, TypeOK
  <2> HIDE DEF o, n, s, e
  <2>3. TypeOK'
    BY <1>1, <2>2 DEF IInv, TypeOK
  <2>4. Placed'
    <3>1. n \in Nat /\ n <= n
      BY <1>1 DEF n
    <3>2. \A q \in {0, 1} : PacketsOf(rcv_fifo[q]) \cap (lost \cup {n}) = {}
      BY <1>4 DEF IInv, Placed
    <3> QED BY <1>1, <1>2, <1>5, <2>2, <3>1, <3>2 DEF IInv, Placed
  <2> QED BY <2>3, <2>4 DEF IInv
<1> QED BY <1>6, <1>7

\* One turn of ip_request: the oldest packet leaves with its memory, or goes
\* back to the end, where it finds room.
LEMMA HandleKeeps == ASSUME IInv, Handle PROVE IInv'
<1> DEFINE q == rcv_fifo[rcv_index]
           info == Head(q)
           p == info.pkt
           k == rcv_index
           o == 1 - rcv_index
<1>1. /\ k \in {0, 1} /\ q \in Seq(Entry) /\ Len(q) \in Nat /\ Len(q) <= MAXPKT
      /\ todo \in Nat /\ todo > 0 /\ todo <= Len(q) /\ todo' = todo - 1
      /\ rcv_index' = rcv_index /\ kind' = kind /\ lost' = lost
      /\ Once(q) /\ MAXPKT \in Nat
  BY LenProperties, IpRxAssumption DEF IInv, TypeOK, Placed, Handle
<1>2. q # <<>>
  BY <1>1, EmptySeq
<1>3. /\ info \in Entry /\ Tail(q) \in Seq(Entry) /\ Len(Tail(q)) = Len(q) - 1
      /\ Once(Tail(q)) /\ p \in PacketsOf(q) /\ PacketsOf(Tail(q)) = PacketsOf(q) \ {p}
  BY <1>1, <1>2, PopTakes
<1>4. {0, 1} = {k, o} /\ o \in {0, 1} /\ o # k
  BY <1>1, TheOther
<1>5. /\ PacketsOf(q) \cap PacketsOf(rcv_fifo[o]) = {}
      /\ blocks = PacketsOf(q) \cup PacketsOf(rcv_fifo[o]) \cup lost
      /\ PacketsOf(q) \cap lost = {}
  BY <1>1, TheOther DEF IInv, Placed
<1>6. ASSUME NEW s \in Seq(Entry), Once(s), todo - 1 <= Len(s), Len(s) <= MAXPKT,
             PacketsOf(s) \subseteq PacketsOf(q),
             rcv_fifo' = [rcv_fifo EXCEPT ![k] = s],
             blocks' = PacketsOf(s) \cup PacketsOf(rcv_fifo[o]) \cup lost
      PROVE  IInv'
  <2>1. rcv_fifo'[k] = s /\ rcv_fifo'[o] = rcv_fifo[o] /\ rcv_fifo' \in [{0, 1} -> Seq(Entry)]
    BY <1>1, <1>6, Replaced DEF IInv
  <2>2. TypeOK'
    <3>1. todo' \in Nat /\ todo' <= Len(rcv_fifo'[k])
      BY <1>1, <1>6, <2>1
    <3>2. Len(rcv_fifo'[k]) <= MAXPKT /\ Len(rcv_fifo'[o]) <= MAXPKT
      BY <1>4, <1>6, <2>1 DEF IInv, TypeOK
    <3>3. kind' \in Seq(Kinds)
      BY <1>1 DEF IInv, TypeOK
    <3> QED BY <1>1, <1>4, <2>1, <3>1, <3>2, <3>3 DEF TypeOK
  <2>3. Placed'
    <3>1. Once(rcv_fifo'[k]) /\ Once(rcv_fifo'[o])
      BY <1>4, <1>6, <2>1 DEF IInv, Placed
    <3>2. /\ PacketsOf(rcv_fifo'[k]) \cap lost' = {} /\ PacketsOf(rcv_fifo'[o]) \cap lost' = {}
          /\ PacketsOf(rcv_fifo'[k]) \cap PacketsOf(rcv_fifo'[o]) = {}
      BY <1>1, <1>4, <1>5, <1>6, <2>1 DEF IInv, Placed
    <3>3. /\ \A x \in PacketsOf(rcv_fifo'[k]) \cup PacketsOf(rcv_fifo'[o]) : x <= Len(kind')
          /\ \A x \in lost' : x \in Nat /\ x <= Len(kind')
      BY <1>1, <1>4, <1>6, <2>1 DEF IInv, Placed
    <3>4. blocks' = PacketsOf(rcv_fifo'[k]) \cup PacketsOf(rcv_fifo'[o]) \cup lost'
      BY <1>1, <1>6, <2>1
    <3> QED BY <1>4, <3>1, <3>2, <3>3, <3>4 DEF Placed
  <2> QED BY <2>2, <2>3 DEF IInv
<1>7. CASE rcv_fifo' = [rcv_fifo EXCEPT ![k] = Tail(q)] /\ blocks' = Freed(p)
  <2>1. blocks' = PacketsOf(Tail(q)) \cup PacketsOf(rcv_fifo[o]) \cup lost
    BY <1>3, <1>5, <1>7 DEF Freed
  <2>2. todo - 1 <= Len(Tail(q)) /\ Len(Tail(q)) <= MAXPKT
    BY <1>1, <1>3
  <2>3. PacketsOf(Tail(q)) \subseteq PacketsOf(q)
    BY <1>3
  <2> QED BY <1>3, <1>6, <1>7, <2>1, <2>2, <2>3
<1>8. CASE /\ blocks' = blocks
           /\ rcv_fifo' = [rcv_fifo EXCEPT ![k] = Push(Tail(q), [info EXCEPT !.count = Again(@)])]
  <2> DEFINE e == [info EXCEPT !.count = Again(@)]
             s == Push(Tail(q), e)
  <2>1. e \in Entry /\ e.pkt = p
    <3>1. info.pkt \in Nat /\ info.count \in Int /\ info.pkt = p
      BY <1>3 DEF Entry
    <3>2. Again(info.count) \in Int
      BY <3>1, IpRxAssumption DEF Again
    <3>3. info = [pkt |-> info.pkt, count |-> info.count]
      BY <1>3 DEF Entry
    <3>4. e = [pkt |-> info.pkt, count |-> Again(info.count)]
      BY <3>3
    <3> QED BY <3>1, <3>2, <3>4 DEF Entry
  <2>2. e.pkt \notin PacketsOf(Tail(q)) /\ Len(Tail(q)) < MAXPKT
    BY <1>1, <1>3, <2>1
  <2>3. /\ s \in Seq(Entry) /\ Len(s) = Len(Tail(q)) + 1
        /\ Once(s) /\ PacketsOf(s) = PacketsOf(Tail(q)) \cup {p}
    BY <1>3, <2>1, <2>2, PushAdds
  <2>4. PacketsOf(s) = PacketsOf(q)
    BY <1>3, <2>3
  <2>5. Len(s) = Len(q) /\ todo - 1 <= Len(s) /\ Len(s) <= MAXPKT
    BY <1>1, <1>3, <2>3
  <2>6. rcv_fifo' = [rcv_fifo EXCEPT ![k] = s]
    BY <1>8
  <2>7. blocks' = PacketsOf(s) \cup PacketsOf(rcv_fifo[o]) \cup lost
    BY <1>5, <1>8, <2>4
  <2> HIDE DEF s
  <2> QED BY <1>6, <2>3, <2>4, <2>5, <2>6, <2>7
<1> QED BY <1>7, <1>8 DEF Handle

\* ip_request takes the fifo that was filled.
LEMMA StartKeeps == ASSUME IInv, Start PROVE IInv'
<1>1. /\ rcv_index' = 1 - rcv_index /\ todo' = Len(rcv_fifo[rcv_index'])
      /\ rcv_fifo' = rcv_fifo /\ kind' = kind /\ blocks' = blocks /\ lost' = lost
  BY DEF Start
<1>2. rcv_index' \in {0, 1}
  BY <1>1 DEF IInv, TypeOK
<1>3. rcv_fifo[rcv_index'] \in Seq(Entry)
  BY <1>2 DEF IInv, TypeOK
<1>4. todo' \in Nat /\ todo' <= Len(rcv_fifo'[rcv_index'])
  BY <1>1, <1>3, LenProperties
<1> QED BY <1>1, <1>2, <1>4 DEF IInv, TypeOK, Placed

\* The invariant is what the property says of both fifos.
LEMMA PlacedFollows == ASSUME IInv PROVE MemoryFollowsQueue
<1>1. \A k \in {0, 1} : Queued(k) = PacketsOf(rcv_fifo[k])
  BY DEF Queued, PacketsOf
<1>2. ASSUME NEW k \in {0, 1}, NEW i \in 1 .. MAXPKT, NEW j \in 1 .. MAXPKT,
             i < j, j <= Len(rcv_fifo[k])
      PROVE  rcv_fifo[k][i].pkt # rcv_fifo[k][j].pkt
  <2>1. rcv_fifo[k] \in Seq(Entry)
    BY DEF IInv, TypeOK
  <2>2. Len(rcv_fifo[k]) \in Nat /\ MAXPKT \in Nat
    BY <2>1, LenProperties, IpRxAssumption
  <2>3. i \in 1 .. Len(rcv_fifo[k]) /\ j \in 1 .. Len(rcv_fifo[k]) /\ i # j
    BY <1>2, <2>2
  <2> QED BY <2>3 DEF IInv, Placed, Once
<1> QED BY <1>1, <1>2 DEF MemoryFollowsQueue, IInv, TypeOK, Placed

\* Both fifos are empty at first.
LEMMA IInvInit == ASSUME Init PROVE IInv
<1>1. /\ rcv_fifo = [k \in {0, 1} |-> <<>>] /\ rcv_index = 0 /\ todo = 0
      /\ kind = <<>> /\ blocks = {} /\ lost = {}
  BY DEF Init
<1>2. <<>> \in Seq(Entry) /\ <<>> \in Seq(Kinds) /\ Len(<<>>) = 0 /\ MAXPKT \in Nat
  BY EmptySeq, IpRxAssumption
<1>3. \A k \in {0, 1} : rcv_fifo[k] = <<>>
  BY <1>1
<1>4. PacketsOf(<<>>) = {} /\ Once(<<>>)
  BY <1>2 DEF PacketsOf, Once
<1>5. TypeOK
  BY <1>1, <1>2, <1>3 DEF TypeOK
<1>6. Placed
  BY <1>1, <1>3, <1>4 DEF Placed
<1> QED BY <1>5, <1>6 DEF IInv

LEMMA IInvStep == ASSUME IInv, [Next]_vars PROVE IInv'
<1>1. CASE UNCHANGED <<rcv_fifo, rcv_index, todo, kind, blocks, lost>>
  BY <1>1 DEF IInv, TypeOK, Placed
<1>2. ASSUME NEW k \in Kinds, Receive(k) PROVE IInv'
  BY <1>2, ReceiveKeeps
<1>3. CASE Start
  BY <1>3, StartKeeps
<1>4. CASE Handle
  BY <1>4, HandleKeeps
<1>5. CASE Forget
  BY <1>1, <1>5 DEF Forget
<1>6. CASE UNCHANGED vars
  BY <1>1, <1>6 DEF vars
<1> QED BY <1>2, <1>3, <1>4, <1>5, <1>6 DEF Next

\* For fifos of any size and any traffic: the memory of a packet is allocated
\* exactly as long as the packet is in one of the two fifos of ip.c, and a
\* packet that ip_request puts back always finds room; only a packet that the
\* receive interrupt could not push keeps its memory for ever.
THEOREM MemoryCorrect == Spec => []MemoryFollowsQueue
<1> QED BY IInvInit, IInvStep, PlacedFollows, PTL DEF Spec

(***************************************************************************)
(* Order: near packets never pass each other.                              *)
(***************************************************************************)

\* The packets of near senders.
Near == {p \in 1 .. Len(kind) : kind[p] = "near"}

\* The packets of S that are in N came before those of T; those of a fifo are
\* in the order of arrival.
Precede(S, T, N) == \A p \in S \cap N, q \in T \cap N : p < q
Rising(s, N) ==
    \A i, j \in 1 .. Len(s) : i < j /\ s[i].pkt \in N /\ s[j].pkt \in N => s[i].pkt < s[j].pkt
Out == {delivered[i] : i \in 1 .. Len(delivered)}

\* The fifo at rcv_index is behind the other one until ip_request takes the
\* other; then it is before the other, up to the packet where the loop ends,
\* and far packets follow.
Order ==
    /\ delivered \in Seq(1 .. Len(kind))
    /\ \A i, j \in 1 .. Len(delivered) :
          i < j /\ delivered[i] \in Near /\ delivered[j] \in Near => delivered[i] < delivered[j]
    /\ \A k \in {0, 1} : /\ Rising(rcv_fifo[k], Near)
                         /\ PacketsOf(rcv_fifo[k]) \subseteq 1 .. Len(kind)
                         /\ Precede(Out, PacketsOf(rcv_fifo[k]), Near)
    /\ todo = 0 => Precede(PacketsOf(rcv_fifo[1 - rcv_index]), PacketsOf(rcv_fifo[rcv_index]), Near)
    /\ todo > 0 =>
        /\ Precede(PacketsOf(rcv_fifo[rcv_index]), PacketsOf(rcv_fifo[1 - rcv_index]), Near)
        /\ \A i \in 1 .. Len(rcv_fifo[rcv_index]) :
              i > todo => rcv_fifo[rcv_index][i].pkt \notin Near

OInv == IInv /\ Order

\* Types that every action needs.
LEMMA FifoTypes ==
    ASSUME IInv, NEW k \in {0, 1}
    PROVE  /\ rcv_fifo[k] \in Seq(Entry) /\ Len(rcv_fifo[k]) \in Nat
           /\ 1 - k \in {0, 1} /\ {0, 1} = {k, 1 - k}
           /\ PacketsOf(rcv_fifo[k]) \subseteq Nat
<1>1. rcv_fifo[k] \in Seq(Entry) /\ Len(rcv_fifo[k]) \in Nat
  BY LenProperties DEF IInv, TypeOK
<1>2. \A i \in 1 .. Len(rcv_fifo[k]) : rcv_fifo[k][i] \in Entry
  BY <1>1, ElementOfSeq
<1>3. PacketsOf(rcv_fifo[k]) \subseteq Nat
  BY <1>2 DEF PacketsOf, Entry
<1> QED BY <1>1, <1>3

LEMMA OutTypes ==
    ASSUME Order
    PROVE  /\ delivered \in Seq(1 .. Len(kind))
           /\ Len(delivered) \in Nat /\ Out \subseteq 1 .. Len(kind)
           /\ \A i \in 1 .. Len(delivered) : delivered[i] \in Out
<1>1. delivered \in Seq(1 .. Len(kind))
  BY DEF Order
<1> QED BY <1>1, LenProperties, ElementOfSeq DEF Out

\* The packet that comes in is newer than all.
LEMMA ReceiveOrder == ASSUME OInv, NEW c \in Kinds, Receive(c) PROVE Order'
<1> DEFINE n == Len(kind) + 1
           k == rcv_index
           s == rcv_fifo[k]
           e == [pkt |-> n, count |-> 0]
           t == Push(s, e)
           u == rcv_fifo[1 - k]
           N == Near'
<1>1. /\ kind' = Append(kind, c) /\ todo = 0 /\ todo' = 0 /\ rcv_index' = k
      /\ Len(kind') = n /\ kind \in Seq(Kinds) /\ Len(kind) \in Nat /\ k \in {0, 1}
      /\ \A p \in 1 .. Len(kind) : kind'[p] = kind[p]
  BY AppendProperties, LenProperties DEF Receive, OInv, IInv, TypeOK
<1>2. /\ rcv_fifo' = [rcv_fifo EXCEPT ![k] = t] /\ delivered' = delivered
  BY <1>1 DEF Receive
<1>3. /\ s \in Seq(Entry) /\ Len(s) \in Nat /\ e \in Entry
      /\ 1 - k \in {0, 1} /\ {0, 1} = {k, 1 - k} /\ 1 - k # k
  BY <1>1, FifoTypes DEF OInv, Entry
<1>4. /\ \A p \in 1 .. Len(kind) : p \in N <=> p \in Near
      /\ \A p \in N : p \in 1 .. n
  BY <1>1 DEF Near
<1>5. /\ Out' = Out /\ Out \subseteq 1 .. Len(kind)
      /\ PacketsOf(s) \subseteq 1 .. Len(kind) /\ PacketsOf(u) \subseteq 1 .. Len(kind)
  BY <1>1, <1>2, <1>3, OutTypes DEF OInv, Order, Out
<1>6. rcv_fifo'[k] = t /\ rcv_fifo'[1 - k] = u
  BY <1>1, <1>2, <1>3 DEF OInv, IInv, TypeOK
<1>7. /\ \A i \in 1 .. Len(s) : t[i] = s[i]
      /\ Len(t) = Len(s) \/ (Len(t) = Len(s) + 1 /\ t[Len(t)] = e)
  BY <1>3, AppendProperties DEF Push
<1>8. /\ Rising(s, Near) /\ Rising(u, Near)
      /\ Precede(Out, PacketsOf(s), Near) /\ Precede(Out, PacketsOf(u), Near)
      /\ Precede(PacketsOf(u), PacketsOf(s), Near)
  BY <1>1, <1>3 DEF OInv, Order
<1>9. /\ \A i \in 1 .. Len(s) : s[i].pkt \in 1 .. Len(kind)
      /\ \A i \in 1 .. Len(u) : u[i].pkt \in 1 .. Len(kind)
  BY <1>5 DEF PacketsOf
<1>10. /\ delivered \in Seq(1 .. Len(kind)) /\ Len(delivered) \in Nat
       /\ \A i \in 1 .. Len(delivered) : delivered[i] \in 1 .. Len(kind)
  BY <1>5, OutTypes DEF OInv
<1> HIDE DEF t, N, n
<1>11. PacketsOf(t) \subseteq PacketsOf(s) \cup {n}
  <2> SUFFICES ASSUME NEW i \in 1 .. Len(t) PROVE t[i].pkt \in PacketsOf(s) \cup {n}
    BY DEF PacketsOf
  <2>1. i \in 1 .. Len(s) \/ t[i] = e
    BY <1>3, <1>7
  <2> QED BY <1>7, <2>1 DEF PacketsOf
<1>12. Rising(u, N)
  BY <1>4, <1>8, <1>9 DEF Rising
<1>13. Rising(t, N)
  <2> SUFFICES ASSUME NEW i \in 1 .. Len(t), NEW j \in 1 .. Len(t), i < j,
                      t[i].pkt \in N, t[j].pkt \in N
               PROVE  t[i].pkt < t[j].pkt
    BY DEF Rising
  <2>1. i \in 1 .. Len(s) /\ t[i] = s[i] /\ s[i].pkt \in 1 .. Len(kind)
    BY <1>3, <1>7, <1>9
  <2>2. CASE j \in 1 .. Len(s)
    BY <1>4, <1>7, <1>8, <1>9, <2>1, <2>2 DEF Rising
  <2>3. CASE t[j] = e
    BY <1>1, <2>1, <2>3 DEF n
  <2> QED BY <1>3, <1>7, <2>2, <2>3
<1>14. \A p \in 1 .. Len(kind) : p < n
  BY <1>1 DEF n
<1>15. ASSUME NEW S, S \subseteq 1 .. Len(kind), Precede(S, PacketsOf(s), Near)
       PROVE  Precede(S, PacketsOf(t), N)
  BY <1>4, <1>5, <1>11, <1>14, <1>15 DEF Precede
<1>16. Precede(Out, PacketsOf(t), N) /\ Precede(PacketsOf(u), PacketsOf(t), N)
  BY <1>5, <1>8, <1>15
<1>17. Precede(Out, PacketsOf(u), N)
  BY <1>4, <1>5, <1>8 DEF Precede
<1>18. PacketsOf(t) \subseteq 1 .. n /\ PacketsOf(u) \subseteq 1 .. n /\ 1 .. Len(kind) \subseteq 1 .. n
  BY <1>1, <1>5, <1>11 DEF n
<1>19. /\ delivered' \in Seq(1 .. Len(kind'))
       /\ \A i, j \in 1 .. Len(delivered') :
             i < j /\ delivered'[i] \in N /\ delivered'[j] \in N => delivered'[i] < delivered'[j]
  <2>1. delivered' \in Seq(1 .. Len(kind'))
    BY <1>1, <1>2, <1>10, <1>18, SeqMonotonic
  <2> QED BY <1>2, <1>4, <1>10, <2>1 DEF OInv, Order
<1>20. \A x \in {0, 1} : /\ Rising(rcv_fifo'[x], N)
                         /\ PacketsOf(rcv_fifo'[x]) \subseteq 1 .. Len(kind')
                         /\ Precede(Out', PacketsOf(rcv_fifo'[x]), N)
  BY <1>1, <1>3, <1>5, <1>6, <1>12, <1>13, <1>16, <1>17, <1>18
<1>21. Precede(PacketsOf(rcv_fifo'[1 - rcv_index']), PacketsOf(rcv_fifo'[rcv_index']), N)
  BY <1>1, <1>6, <1>16
<1> QED BY <1>1, <1>19, <1>20, <1>21 DEF Order, N

\* ip_request takes the fifo with the older packets.
LEMMA StartOrder == ASSUME OInv, Start PROVE Order'
<1> DEFINE k == rcv_index'
<1>1. /\ k = 1 - rcv_index /\ rcv_fifo' = rcv_fifo /\ kind' = kind /\ delivered' = delivered
      /\ todo = 0 /\ todo' = Len(rcv_fifo[k])
  BY DEF Start
<1>2. rcv_index \in {0, 1}
  BY DEF OInv, IInv, TypeOK
<1>3. k \in {0, 1} /\ 1 - k = rcv_index /\ 1 - rcv_index = k
  BY <1>1, <1>2
<1>4. Near' = Near /\ Out' = Out
  BY <1>1 DEF Near, Out
<1>5. Precede(PacketsOf(rcv_fifo[k]), PacketsOf(rcv_fifo[1 - k]), Near)
  BY <1>1, <1>3 DEF OInv, Order
<1>6. Len(rcv_fifo[k]) \in Nat
  BY <1>3, FifoTypes DEF OInv
<1>7. todo' = 0 => PacketsOf(rcv_fifo[k]) = {}
  BY <1>1 DEF PacketsOf
<1>8. todo' = 0 => Precede(PacketsOf(rcv_fifo[1 - k]), PacketsOf(rcv_fifo[k]), Near)
  BY <1>7 DEF Precede
<1>9. \A i \in 1 .. Len(rcv_fifo[k]) : ~ (i > todo')
  BY <1>1, <1>6
<1>10. \A x \in {0, 1} : /\ Rising(rcv_fifo[x], Near)
                         /\ PacketsOf(rcv_fifo[x]) \subseteq 1 .. Len(kind)
                         /\ Precede(Out, PacketsOf(rcv_fifo[x]), Near)
  BY DEF OInv, Order
<1>11. /\ delivered \in Seq(1 .. Len(kind))
       /\ \A i, j \in 1 .. Len(delivered) :
             i < j /\ delivered[i] \in Near /\ delivered[j] \in Near => delivered[i] < delivered[j]
  BY DEF OInv, Order
<1> HIDE DEF k
<1> QED BY <1>1, <1>4, <1>5, <1>8, <1>9, <1>10, <1>11 DEF Order, k

\* ip_request takes the oldest packet: it goes on, is freed, or goes back when
\* it is a far one.
LEMMA HandleOrder == ASSUME OInv, Handle PROVE Order'
<1> DEFINE k == rcv_index
           q == rcv_fifo[k]
           info == Head(q)
           p == info.pkt
           r == Tail(q)
           u == rcv_fifo[1 - k]
           t == rcv_fifo'[k]
<1>1. /\ k \in {0, 1} /\ todo \in Nat /\ todo > 0 /\ todo' = todo - 1 /\ rcv_index' = k
      /\ kind' = kind /\ MAXPKT \in Nat /\ todo <= Len(q)
  BY IpRxAssumption DEF OInv, IInv, TypeOK, Handle
<1>2. /\ q \in Seq(Entry) /\ Len(q) \in Nat /\ Len(q) > 0
      /\ 1 - k \in {0, 1} /\ {0, 1} = {k, 1 - k} /\ 1 - k # k
  BY <1>1, FifoTypes DEF OInv
<1>3. /\ info = q[1] /\ r \in Seq(Entry) /\ Len(r) = Len(q) - 1
      /\ \A i \in 1 .. Len(r) : r[i] = q[i + 1]
      /\ info \in Entry /\ p \in PacketsOf(q)
  <2>1. q # <<>>
    BY <1>2, EmptySeq
  <2>2. info = q[1]
    BY <1>2, <2>1
  <2> QED BY <1>2, <2>1, <2>2, HeadTailProperties DEF PacketsOf
<1>4. /\ Rising(q, Near) /\ Rising(u, Near)
      /\ PacketsOf(q) \subseteq 1 .. Len(kind) /\ PacketsOf(u) \subseteq 1 .. Len(kind)
      /\ Precede(Out, PacketsOf(q), Near) /\ Precede(Out, PacketsOf(u), Near)
      /\ Precede(PacketsOf(q), PacketsOf(u), Near)
      /\ \A i \in 1 .. Len(q) : i > todo => q[i].pkt \notin Near
  BY <1>1, <1>2 DEF OInv, Order
<1>5. /\ delivered \in Seq(1 .. Len(kind)) /\ Len(delivered) \in Nat
      /\ \A i \in 1 .. Len(delivered) : delivered[i] \in Out
      /\ \A i, j \in 1 .. Len(delivered) :
            i < j /\ delivered[i] \in Near /\ delivered[j] \in Near => delivered[i] < delivered[j]
  BY OutTypes DEF OInv, Order
<1>6. Near' = Near
  BY <1>1 DEF Near
<1>7. rcv_fifo'[1 - k] = u
  BY <1>1, <1>2 DEF Handle, OInv, IInv, TypeOK
\* What is left of the fifo: the tail, and perhaps a far packet at its end.
<1>8. ASSUME Len(t) = Len(r) \/ (Len(t) = Len(r) + 1 /\ t[Len(t)].pkt = p /\ p \notin Near),
             \A i \in 1 .. Len(r) : t[i] = r[i]
      PROVE  /\ Rising(t, Near)
             /\ PacketsOf(t) \subseteq PacketsOf(q)
             /\ \A i \in 1 .. Len(t) : i > todo' => t[i].pkt \notin Near
  <2>1. Len(r) \in Nat /\ Len(t) \in Nat
    BY <1>2, <1>3, <1>8
  <2>2. ASSUME NEW i \in 1 .. Len(t)
        PROVE  \/ i \in 1 .. Len(r) /\ i + 1 \in 1 .. Len(q) /\ t[i].pkt = q[i + 1].pkt
               \/ i = Len(t) /\ t[i].pkt = p /\ p \notin Near
    BY <1>2, <1>3, <1>8, <2>1
  <2>3. PacketsOf(t) \subseteq PacketsOf(q)
    BY <1>3, <2>2 DEF PacketsOf
  <2>4. \A i \in 1 .. Len(t) : i > todo' => t[i].pkt \notin Near
    <3> SUFFICES ASSUME NEW i \in 1 .. Len(t), i > todo' PROVE t[i].pkt \notin Near
      OBVIOUS
    <3>1. i \in Nat /\ i + 1 > todo
      BY <1>1, <2>1
    <3> HIDE DEF t, p, q, r
    <3> QED BY <1>4, <2>2, <3>1
  <2>5. Rising(t, Near)
    <3> SUFFICES ASSUME NEW i \in 1 .. Len(t), NEW j \in 1 .. Len(t), i < j,
                        t[i].pkt \in Near, t[j].pkt \in Near
                 PROVE  t[i].pkt < t[j].pkt
      BY DEF Rising
    <3>1. i + 1 \in 1 .. Len(q) /\ t[i].pkt = q[i + 1].pkt /\ j + 1 \in 1 .. Len(q) /\ t[j].pkt = q[j + 1].pkt
      BY <2>2
    <3> QED BY <1>4, <3>1 DEF Rising
  <2> QED BY <2>3, <2>4, <2>5
\* What goes on to tcpip: nothing, or the packet, which is older than all that
\* is left.
<1>9. ASSUME NEW d \in Seq(1 .. Len(kind)), d = delivered', 
             d = delivered \/ d = Append(delivered, p),
             PacketsOf(t) \subseteq PacketsOf(q),
             d # delivered => t = r
      PROVE  /\ \A i, j \in 1 .. Len(d) : i < j /\ d[i] \in Near /\ d[j] \in Near => d[i] < d[j]
             /\ Precede(Out', PacketsOf(t), Near) /\ Precede(Out', PacketsOf(u), Near)
  <2>1. CASE d = delivered
    <3>1. Out' = Out
      BY <1>9, <2>1 DEF Out
    <3> QED BY <1>4, <1>5, <1>9, <2>1, <3>1 DEF Precede
  <2>2. CASE d # delivered
    <3>1. d = Append(delivered, p) /\ t = r
      BY <1>9, <2>2
    <3>2. p \in 1 .. Len(kind)
      BY <1>3, <1>4
    <3>3. /\ Len(d) = Len(delivered) + 1 /\ d[Len(d)] = p
          /\ \A i \in 1 .. Len(delivered) : d[i] = delivered[i]
      BY <1>5, <3>1, <3>2, AppendProperties
    <3>4. Out' \subseteq Out \cup {p}
      <4>1. \A i \in 1 .. Len(d) : i \in 1 .. Len(delivered) \/ i = Len(d)
        BY <1>5, <3>3
      <4> QED BY <1>5, <1>9, <3>3, <4>1 DEF Out
    <3>5. \A x \in PacketsOf(r) : p \in Near /\ x \in Near => p < x
      <4> SUFFICES ASSUME NEW i \in 1 .. Len(r), p \in Near, r[i].pkt \in Near
                   PROVE  p < r[i].pkt
        BY DEF PacketsOf
      <4>1. 1 \in 1 .. Len(q) /\ i + 1 \in 1 .. Len(q) /\ 1 < i + 1 /\ r[i] = q[i + 1] /\ p = q[1].pkt
        BY <1>2, <1>3
      <4> QED BY <1>4, <4>1 DEF Rising
    <3>6. Precede(Out', PacketsOf(t), Near)
      BY <1>4, <1>9, <3>1, <3>4, <3>5 DEF Precede
    <3>7. Precede(Out', PacketsOf(u), Near)
      BY <1>3, <1>4, <3>4 DEF Precede
    <3>8. ASSUME NEW i \in 1 .. Len(d), NEW j \in 1 .. Len(d), i < j, d[i] \in Near, d[j] \in Near
          PROVE  d[i] < d[j]
      <4>1. i \in 1 .. Len(delivered) /\ d[i] = delivered[i] /\ d[i] \in Out
        BY <1>5, <3>3, <3>8
      <4>2. CASE j \in 1 .. Len(delivered)
        BY <1>5, <3>3, <3>8, <4>1, <4>2
      <4>3. CASE j = Len(d)
        BY <1>3, <1>4, <3>3, <3>8, <4>1, <4>3 DEF Precede
      <4> QED BY <1>5, <3>3, <4>2, <4>3
    <3> QED BY <3>6, <3>7, <3>8
  <2> QED BY <2>1, <2>2
<1>10. ASSUME Rising(t, Near), PacketsOf(t) \subseteq PacketsOf(q),
              \A i \in 1 .. Len(t) : i > todo' => t[i].pkt \notin Near,
              NEW d \in Seq(1 .. Len(kind)), d = delivered',
              d = delivered \/ d = Append(delivered, p),
              d # delivered => t = r
       PROVE  Order'
  <2>1. /\ \A i, j \in 1 .. Len(d) : i < j /\ d[i] \in Near /\ d[j] \in Near => d[i] < d[j]
        /\ Precede(Out', PacketsOf(t), Near) /\ Precede(Out', PacketsOf(u), Near)
    BY <1>9, <1>10
  <2>2. Precede(PacketsOf(t), PacketsOf(u), Near)
    BY <1>4, <1>10 DEF Precede
  <2>3. todo' = 0 => Precede(PacketsOf(u), PacketsOf(t), Near)
    <3> SUFFICES ASSUME todo' = 0, NEW i \in 1 .. Len(t) PROVE t[i].pkt \notin Near
      BY DEF Precede, PacketsOf
    <3> QED BY <1>10
  <2>4. \A x \in {0, 1} : /\ Rising(rcv_fifo'[x], Near)
                          /\ PacketsOf(rcv_fifo'[x]) \subseteq 1 .. Len(kind)
                          /\ Precede(Out', PacketsOf(rcv_fifo'[x]), Near)
    BY <1>1, <1>2, <1>4, <1>7, <1>10, <2>1
  <2> HIDE DEF t
  <2>5. Precede(PacketsOf(rcv_fifo'[1 - rcv_index']), PacketsOf(rcv_fifo'[rcv_index']), Near) \/ todo' # 0
    BY <1>1, <1>7, <2>3 DEF t
  <2>6. Precede(PacketsOf(rcv_fifo'[rcv_index']), PacketsOf(rcv_fifo'[1 - rcv_index']), Near)
    BY <1>1, <1>7, <2>2 DEF t
  <2>7. \A i \in 1 .. Len(rcv_fifo'[rcv_index']) :
            i > todo' => rcv_fifo'[rcv_index'][i].pkt \notin Near
    BY <1>1, <1>10 DEF t
  <2> QED BY <1>1, <1>6, <1>10, <2>1, <2>4, <2>5, <2>6, <2>7 DEF Order
<1>11. CASE rcv_fifo' = [rcv_fifo EXCEPT ![k] = r] /\ (delivered' = delivered \/ delivered' = Append(delivered, p))
  <2>1. t = r
    BY <1>1, <1>11 DEF OInv, IInv, TypeOK
  <2>2. p \in 1 .. Len(kind)
    BY <1>3, <1>4
  <2>3. delivered' \in Seq(1 .. Len(kind))
    <3>1. CASE delivered' = delivered
      BY <1>5, <3>1
    <3>2. CASE delivered' = Append(delivered, p)
      <4> HIDE DEF p
      <4>1. Append(delivered, p) \in Seq(1 .. Len(kind))
        BY <1>5, <2>2, AppendProperties
      <4> QED BY <3>2, <4>1
    <3> QED BY <1>11, <3>1, <3>2
  <2>4. Len(r) \in Nat
    BY <1>2, <1>3
  <2> QED BY <1>8, <1>10, <1>11, <2>1, <2>3
<1>12. CASE /\ kind[p] = "far" /\ delivered' = delivered
            /\ rcv_fifo' = [rcv_fifo EXCEPT ![k] = Push(r, [info EXCEPT !.count = Again(@)])]
  <2> DEFINE e == [info EXCEPT !.count = Again(@)]
  <2>1. e.pkt = p
    BY <1>3 DEF Entry
  <2>2. t = Push(r, e)
    BY <1>1, <1>12 DEF OInv, IInv, TypeOK
  <2>3. p \notin Near
    BY <1>12 DEF Near
  <2> HIDE DEF e
  <2>4. \/ Push(r, e) = r
        \/ /\ Len(Push(r, e)) = Len(r) + 1 /\ Push(r, e)[Len(r) + 1] = e
           /\ \A i \in 1 .. Len(r) : Push(r, e)[i] = r[i]
    BY <1>3 DEF Push
  <2>5. Len(r) \in Nat
    BY <1>2, <1>3
  <2> QED BY <1>5, <1>8, <1>10, <1>12, <2>1, <2>2, <2>3, <2>4, <2>5
<1> QED BY <1>11, <1>12 DEF Handle

LEMMA OrderStep == ASSUME OInv, [Next]_vars PROVE Order'
<1>1. CASE UNCHANGED <<rcv_fifo, rcv_index, todo, kind, delivered>>
  <2>1. Near' = Near /\ Out' = Out
    BY <1>1 DEF Near, Out
  <2> QED BY <1>1, <2>1 DEF OInv, Order
<1>2. CASE Forget
  BY <1>1, <1>2 DEF Forget
<1>3. CASE UNCHANGED vars
  BY <1>1, <1>3 DEF vars
<1> QED BY <1>2, <1>3, ReceiveOrder, StartOrder, HandleOrder DEF Next

\* What IInv says of the order of what was delivered.
LEMMA OrderFollows == ASSUME Order PROVE NearInOrder
<1>1. \A i \in 1 .. Len(delivered) : delivered[i] \in Near <=> kind[delivered[i]] = "near"
  BY OutTypes DEF Near
<1> QED BY <1>1 DEF Order, NearInOrder

\* Nothing has come in at first.
LEMMA OrderInit == ASSUME Init PROVE Order
<1>1. /\ rcv_fifo = [k \in {0, 1} |-> <<>>] /\ rcv_index = 0 /\ todo = 0 /\ kind = <<>>
      /\ delivered = <<>>
  BY DEF Init
<1>2. \A k \in {0, 1} : rcv_fifo[k] = <<>>
  BY <1>1
<1>3. /\ PacketsOf(<<>>) = {} /\ Rising(<<>>, Near) /\ Out = {} /\ Len(delivered) = 0
      /\ delivered \in Seq(1 .. Len(kind))
  BY <1>1 DEF PacketsOf, Rising, Out
<1> QED BY <1>1, <1>2, <1>3 DEF Order, Precede

\* For fifos of any size and any traffic: packets whose senders are near go on
\* to tcpip in the order in which they came in, through the swap of the two
\* fifos and past the far packets that ip_request puts back.
THEOREM NearCorrect == Spec => []NearInOrder
<1>1. OInv /\ [Next]_vars => OInv'
  BY IInvStep, OrderStep DEF OInv
<1>2. Init => OInv
  BY IInvInit, OrderInit DEF OInv
<1>3. OInv => NearInOrder
  BY OrderFollows DEF OInv
<1> QED BY <1>1, <1>2, <1>3, PTL DEF Spec

(***************************************************************************)
(* Reassembly: a packet that goes on is whole.                             *)
(***************************************************************************)

FlagSpec == FlagInit /\ [][FlagNext]_flagVars

\* The least number of a set: the first index that a search finds.
LEMMA MinIn ==
    ASSUME NEW S, S \subseteq Nat, S # {}
    PROVE  Min(S) \in S /\ \A y \in S : Min(S) <= y
<1> DEFINE R == OpToRel(<, Nat)
<1>1. PICK x \in S : \A y \in S : ~ (<<y, x>> \in R)
  BY NatLessThanWellFounded, WFMin
<1>2. \A y \in S : <<y, x>> \in R <=> y < x
  BY DEF OpToRel
<1> HIDE DEF R
<1>3. \A y \in S : ~ (y < x)
  BY <1>1, <1>2
<1>4. \A y \in S : x <= y
  BY <1>3
<1> QED BY <1>4 DEF Min

\* The fragments of a packet.
FragmentsOf(id) ==
    {f \in [pkt : {id}, off : Piece, more : BOOLEAN] : f.more <=> f.off < Pieces - 1}

\* A list in use has fragments of its packet only.
ListOK(list) ==
    list = NoList \/
        /\ list.identifer \in Packets /\ list.age \in Nat
        /\ list.data \in Seq(FragmentsOf(list.identifer)) /\ list.data # <<>>
        /\ list = [identifer |-> list.identifer, age |-> list.age, data |-> list.data]

Lists(r) ==
    /\ r = [i \in Root |-> r[i]]
    /\ \A i \in Root : ListOK(r[i])
    \* no packet has two lists
    /\ \A i, j \in Root : i # j /\ r[i] # NoList => r[i].identifer # r[j].identifer

FlagInv == Lists(flagroot) /\ WholePackets

LEMMA FlagConstants ==
    /\ Pieces \in Nat /\ Pieces > 1 /\ None \notin Packets
    /\ Root \subseteq Nat /\ Piece \subseteq Nat
  BY ReassemblyAssumption DEF Root, Piece

\* The new fragment goes behind one that is there, or before all.
LEMMA PositionIn ==
    ASSUME NEW S, NEW list \in Seq(S), list # <<>>, NEW off
    PROVE  Position(list, off) \in 0 .. Len(list)
<1> DEFINE T == {Len(list)} \cup {k \in 1 .. Len(list) : off < list[k].off}
<1>1. Len(list) \in Nat /\ T \subseteq 0 .. Len(list) /\ T \subseteq Nat /\ T # {}
  BY LenProperties
<1>2. Min(T) \in T
  BY <1>1, MinIn
<1>3. Position(list, off) = 0 \/ Position(list, off) = Min(T)
  BY DEF Position
<1> QED BY <1>1, <1>2, <1>3

LEMMA InsertedOK ==
    ASSUME NEW S, NEW list \in Seq(S), list # <<>>, NEW f \in S
    PROVE  Inserted(list, f) \in Seq(S) /\ Inserted(list, f) # <<>>
<1> DEFINE k == Position(list, f.off)
           a == SubSeq(list, 1, k)
           b == SubSeq(list, k + 1, Len(list))
<1>1. k \in 0 .. Len(list) /\ Len(list) \in Nat
  BY PositionIn, LenProperties
<1> HIDE DEF k
<1>2. a \in Seq(S) /\ Len(a) \in Nat
  BY <1>1, SubSeqProperties, LenProperties
<1>3. b \in Seq(S) /\ Len(b) \in Nat
  BY <1>1, SubSeqProperties, LenProperties
<1> HIDE DEF a, b
<1>4. <<f>> \in Seq(S) /\ Len(<<f>>) = 1
  OBVIOUS
<1>5. a \o <<f>> \in Seq(S) /\ Len(a \o <<f>>) = Len(a) + 1
  BY <1>2, <1>4, ConcatProperties
<1>6. (a \o <<f>>) \o b \in Seq(S) /\ Len((a \o <<f>>) \o b) = Len(a) + 1 + Len(b)
  BY <1>3, <1>5, ConcatProperties
<1>7. (a \o <<f>>) \o b # <<>>
  BY <1>2, <1>3, <1>6
<1> QED BY <1>6, <1>7 DEF Inserted, a, b, k

\* Lists are freed as a whole.
LEMMA FreeListsOK == ASSUME NEW r, Lists(r), NEW S PROVE Lists(FreeLists(r, S))
<1>1. \A i \in Root : FreeLists(r, S)[i] = NoList \/ FreeLists(r, S)[i] = r[i]
  BY DEF FreeLists
<1>2. FreeLists(r, S) = [i \in Root |-> FreeLists(r, S)[i]]
  BY DEF FreeLists
<1> DEFINE q == FreeLists(r, S)
<1>3. \A i \in Root : ListOK(q[i])
  <2>1. \A i \in Root : ListOK(r[i])
    BY Zenon DEF Lists
  <2>2. ListOK(NoList)
    BY Zenon DEF ListOK
  <2> QED BY ONLY <1>1, <2>1, <2>2, Zenon
<1>4. ASSUME NEW i \in Root, NEW j \in Root, i # j, q[i] # NoList
      PROVE  q[i].identifer # q[j].identifer
  <2>1. q[i] = r[i] /\ r[i] # NoList
    BY <1>1, <1>4
  <2>2. CASE q[j] = r[j]
    BY <1>4, <2>1, <2>2, Zenon DEF Lists
  <2>3. CASE q[j] = NoList
    <3>1. r[i].identifer \in Packets
      BY <2>1, Zenon DEF Lists, ListOK
    <3>2. NoList.identifer = None
      BY ONLY Zenon DEF NoList
    <3> QED BY ONLY <2>1, <2>3, <3>1, <3>2, FlagConstants, Zenon
  <2> QED BY <1>1, <2>2, <2>3
<1> HIDE DEF q
<1>5. Lists(q)
  BY <1>2, <1>3, <1>4, Zenon DEF Lists, q
<1> QED BY ONLY <1>5, Zenon DEF q

LEMMA ClearedOK == ASSUME NEW r, Lists(r) PROVE Lists(Cleared(r))
  BY FreeListsOK DEF Cleared

\* ip_flag_save keeps the lists.
LEMMA SavedOK ==
    ASSUME NEW r, Lists(r), NEW id \in Packets, NEW f \in FragmentsOf(id)
    PROVE  Lists(Saved(r, id, f))
<1>1. CASE Of(r, id) # {}
  <2> DEFINE s == Saved(r, id, f)
  <2>1. s = [i \in Root |-> IF i \in Of(r, id) THEN [r[i] EXCEPT !.data = Inserted(@, f)] ELSE r[i]]
    BY <1>1 DEF Saved
  <2> HIDE DEF s
  <2>2. ASSUME NEW i \in Of(r, id)
        PROVE  /\ i \in Root /\ r[i] # NoList
               /\ s[i] # NoList /\ s[i].identifer = id /\ r[i].identifer = id /\ ListOK(s[i])
    <3>1. i \in Root /\ r[i].identifer = id /\ ListOK(r[i]) /\ r[i] # NoList
      BY FlagConstants DEF Of, Lists, NoList
    <3>2. /\ r[i].age \in Nat /\ r[i].data \in Seq(FragmentsOf(id)) /\ r[i].data # <<>>
          /\ r[i] = [identifer |-> id, age |-> r[i].age, data |-> r[i].data]
      BY <3>1 DEF ListOK
    <3> DEFINE d == Inserted(r[i].data, f)
    <3>3. d \in Seq(FragmentsOf(id)) /\ d # <<>>
      BY <3>2, InsertedOK
    <3> HIDE DEF d
    <3>4. s[i] = [r[i] EXCEPT !.data = d]
      BY <2>1, <3>1 DEF d
    <3>5. s[i] = [identifer |-> id, age |-> r[i].age, data |-> d]
      BY <3>2, <3>4
    <3>6. s[i] # NoList
      BY <3>5, FlagConstants DEF NoList
    <3> QED BY <3>1, <3>2, <3>3, <3>5, <3>6 DEF ListOK
  <2>3. \A i \in Root \ Of(r, id) : s[i] = r[i] /\ r[i].identifer # id
    BY <2>1 DEF Of
  <2> QED BY <2>1, <2>2, <2>3 DEF Lists, s
<1>2. CASE Of(r, id) = {}
  <2> DEFINE c == Cleared(r)
             n == Fresh(r)
             new == [identifer |-> id, age |-> 0, data |-> <<f>>]
  <2>1. Lists(c)
    BY ClearedOK
  <2>2. \A i \in Root : r[i].identifer # id
    BY <1>2 DEF Of
  <2>3. \A i \in Root : c[i] = r[i] \/ c[i] = NoList
    BY DEF Cleared, FreeLists
  <2>4. \A i \in Root : c[i].identifer # id
    BY <2>2, <2>3, FlagConstants DEF NoList
  <2>5. Saved(r, id, f) = [c EXCEPT ![n] = new]
    BY <1>2 DEF Saved
  <2> HIDE DEF c, n
  <2>6. ListOK(new) /\ new.identifer = id
    <3>1. <<f>> \in Seq(FragmentsOf(id)) /\ <<f>> # <<>>
      OBVIOUS
    <3> QED BY <3>1 DEF ListOK
  <2>7. c = [i \in Root |-> c[i]]
    BY <2>1 DEF Lists
  <2> DEFINE s == [c EXCEPT ![n] = new]
  <2>8. s = [i \in Root |-> s[i]] /\ \A i \in Root : s[i] = IF i = n THEN new ELSE c[i]
    BY <2>7
  <2> HIDE DEF s, new
  <2>9. Lists(s)
    BY <2>1, <2>4, <2>6, <2>8 DEF Lists
  <2> QED BY <2>5, <2>9 DEF s
<1> QED BY <1>1, <1>2

\* A list that check_flag accepts is a whole packet.
LEMMA CompleteWhole ==
    ASSUME NEW id \in Packets, NEW list \in Seq(FragmentsOf(id)), list # <<>>, Complete(list)
    PROVE  Len(list) = Pieces /\ \A k \in 1 .. Pieces : list[k].off = k - 1 /\ list[k].pkt = id
<1> DEFINE n == Len(list)
<1>1. n \in Nat /\ n > 0
  BY LenProperties, EmptySeq
<1>2. \A k \in 1 .. n : list[k] \in FragmentsOf(id)
  BY ElementOfSeq
<1>3. \A k \in 1 .. n : list[k].off = k - 1 /\ list[k].off \in Piece /\ list[k].pkt = id
                        /\ (list[k].more <=> list[k].off < Pieces - 1)
  BY <1>2 DEF Complete, FragmentsOf
<1>4. n - 1 \in Piece /\ ~ (n - 1 < Pieces - 1)
  BY <1>1, <1>3 DEF Complete
<1>5. n = Pieces
  BY <1>1, <1>4, FlagConstants DEF Piece
<1> QED BY <1>3, <1>5

LEMMA CheckOK ==
    ASSUME NEW r, Lists(r), NEW id \in Packets, WholePackets, Check(r, id)
    PROVE  FlagInv'
<1>1. CASE flagroot' = r /\ UNCHANGED whole
  BY <1>1 DEF FlagInv, WholePackets
<1>2. ASSUME NEW j \in Of(r, id), Complete(r[j].data), NEW i \in Of(r, id),
             flagroot' = FreeLists(r, {i}), whole' \in {whole, r[i].data}
      PROVE  FlagInv'
  <2>1. i \in Root /\ r[i].identifer = id /\ j \in Root /\ r[j].identifer = id
    BY DEF Of
  <2>2. r[i] # NoList /\ r[j] # NoList
    BY <2>1, FlagConstants DEF NoList
  <2>3. i = j
    BY <2>1, <2>2 DEF Lists
  <2>4. r[i].data \in Seq(FragmentsOf(id)) /\ r[i].data # <<>>
    BY <2>1, <2>2 DEF Lists, ListOK
  <2>5. Len(r[i].data) = Pieces
        /\ \A k \in 1 .. Pieces : r[i].data[k].off = k - 1 /\ r[i].data[k].pkt = id
    BY <1>2, <2>3, <2>4, CompleteWhole
  <2>6. WholePackets'
    BY <1>2, <2>5, FlagConstants DEF WholePackets
  <2> QED BY <1>2, <2>6, FreeListsOK DEF FlagInv
<1> QED BY <1>1, <1>2 DEF Check

LEMMA FlagStep == ASSUME FlagInv, [FlagNext]_flagVars PROVE FlagInv'
<1>1. ASSUME NEW id \in Packets, NEW k \in Piece, Fragment(id, k) PROVE FlagInv'
  <2> DEFINE f == [pkt |-> id, off |-> k, more |-> k < Pieces - 1]
  <2>1. f \in FragmentsOf(id)
    <3> DEFINE m == k < Pieces - 1
    <3>1. m \in BOOLEAN
      OBVIOUS
    <3>2. f = [pkt |-> id, off |-> k, more |-> m] /\ (m <=> f.off < Pieces - 1)
      OBVIOUS
    <3> HIDE DEF m, f
    <3>3. f \in [pkt : {id}, off : Piece, more : BOOLEAN] /\ (f.more <=> m)
      BY <3>1, <3>2
    <3> QED BY <3>2, <3>3, Zenon DEF FragmentsOf
  <2>2. Lists(Saved(flagroot, id, f)) /\ Lists(flagroot) /\ WholePackets
    BY <2>1, SavedOK DEF FlagInv
  <2>3. Check(Saved(flagroot, id, f), id) \/ Check(flagroot, id)
    BY <1>1 DEF Fragment
  <2> QED BY <2>2, <2>3, CheckOK
<1>2. CASE Second
  <2> DEFINE r == FreeLists(flagroot, Old(flagroot))
  <2>1. Lists(r)
    BY FreeListsOK DEF FlagInv
  <2>2. /\ flagroot' = [i \in Root |-> IF r[i].data = <<>> THEN r[i] ELSE [r[i] EXCEPT !.age = Older(@)]]
        /\ whole' = whole
    BY <1>2 DEF Second
  <2> HIDE DEF r
  <2>3. ASSUME NEW i \in Root
        PROVE  /\ ListOK(flagroot'[i]) /\ flagroot'[i].identifer = r[i].identifer
               /\ r[i] = NoList => flagroot'[i] = NoList
    <3>1. CASE r[i].data = <<>>
      BY <2>1, <2>2, <3>1 DEF Lists
    <3>2. CASE r[i].data # <<>>
      <4>1. /\ r[i].identifer \in Packets /\ r[i].age \in Nat
            /\ r[i].data \in Seq(FragmentsOf(r[i].identifer))
            /\ r[i] = [identifer |-> r[i].identifer, age |-> r[i].age, data |-> r[i].data]
        BY <2>1, <3>2 DEF Lists, ListOK, NoList
      <4> DEFINE a == Older(r[i].age)
      <4>2. a \in Nat
        BY <4>1, ReassemblyAssumption DEF Older
      <4> HIDE DEF a
      <4>3. flagroot'[i] = [r[i] EXCEPT !.age = a]
        BY <2>2, <3>2 DEF a
      <4>4. flagroot'[i] = [identifer |-> r[i].identifer, age |-> a, data |-> r[i].data]
        BY <4>1, <4>3
      <4> QED BY <3>2, <4>1, <4>2, <4>4 DEF ListOK, NoList
    <3> QED BY <3>1, <3>2
  <2>4. flagroot' = [i \in Root |-> flagroot'[i]]
    BY <2>2
  <2>5. Lists(flagroot')
    BY <2>1, <2>3, <2>4 DEF Lists
  <2> QED BY <2>2, <2>5 DEF FlagInv, WholePackets
<1>3. CASE UNCHANGED flagVars
  BY <1>3 DEF FlagInv, WholePackets, flagVars
<1> QED BY <1>1, <1>2, <1>3 DEF FlagNext

\* Only whole packets go on to tcpip: check_flag never puts together what
\* belongs to two packets, lacks a piece, or has one twice, however fragments
\* come and lists are given up.
THEOREM WholeCorrect == FlagSpec => []WholePackets
<1>1. FlagInit => FlagInv
  BY DEF FlagInit, FlagInv, Lists, ListOK, WholePackets
<1>2. FlagInv => WholePackets
  BY DEF FlagInv
<1> QED BY <1>1, <1>2, FlagStep, PTL DEF FlagSpec

(***************************************************************************)
(* The network card: the packets in its receive ring.                      *)
(***************************************************************************)

\* The card and its driver, without fairness.
NeSpec == NeInit /\ [][NeNext]_neVars

\* Page k of those behind the boundary b, and how many of them are in use.
Place(b, k) == RxNext(Following(b), k)
Used(c, b) == (c - Following(b)) % RX_PAGES

\* What the constants allow.
LEMMA RingConstants ==
    /\ RX_PAGES \in Nat /\ RX_PAGES > 2 /\ RxPage = 0 .. RX_PAGES - 1
    /\ MAX_PAGES \in Nat /\ MAX_PAGES <= RX_PAGES
  BY NeAssumption DEF RxPage

\* The remainder of what lies less than two turns ahead.
LEMMA Around ==
    ASSUME NEW x \in 0 .. 2 * RX_PAGES - 1
    PROVE  x % RX_PAGES = IF x >= RX_PAGES THEN x - RX_PAGES ELSE x
<1> DEFINE y == x % RX_PAGES
           d == x \div RX_PAGES
<1>1. x \in Int /\ RX_PAGES \in Nat \ {0} /\ x >= 0 /\ x < 2 * RX_PAGES
  BY RingConstants
<1>2. y \in 0 .. RX_PAGES - 1 /\ d \in Int /\ x = RX_PAGES * d + y
  BY <1>1
<1> HIDE DEF y, d
<1>3. d \in {0, 1}
  BY <1>1, <1>2
<1>4. x = (IF d = 0 THEN 0 ELSE RX_PAGES) + y
  BY <1>1, <1>2, <1>3
<1> QED BY <1>1, <1>2, <1>3, <1>4 DEF y

\* The remainder of what lies less than a turn back or ahead.
LEMMA AroundBack ==
    ASSUME NEW x \in 1 - RX_PAGES .. RX_PAGES - 1
    PROVE  x % RX_PAGES = IF x >= 0 THEN x ELSE x + RX_PAGES
<1> DEFINE y == x % RX_PAGES
           d == x \div RX_PAGES
<1>1. x \in Int /\ RX_PAGES \in Nat \ {0} /\ x > - RX_PAGES /\ x < RX_PAGES
  BY RingConstants
<1>2. y \in 0 .. RX_PAGES - 1 /\ d \in Int /\ x = RX_PAGES * d + y
  BY <1>1
<1> HIDE DEF y, d
<1>3. d \in {-1, 0}
  BY <1>1, <1>2
<1>4. x = (IF d = 0 THEN 0 ELSE 0 - RX_PAGES) + y
  BY <1>1, <1>2, <1>3
<1> QED BY <1>1, <1>2, <1>3, <1>4 DEF y

\* k pages on from page p.
LEMMA Forward ==
    ASSUME NEW p \in RxPage, NEW k \in 0 .. RX_PAGES
    PROVE  /\ RxNext(p, k) \in RxPage
           /\ RxNext(p, k) = IF p + k >= RX_PAGES THEN p + k - RX_PAGES ELSE p + k
<1>1. p + k \in 0 .. 2 * RX_PAGES - 1
  BY RingConstants
<1>2. (p + k) % RX_PAGES = IF p + k >= RX_PAGES THEN p + k - RX_PAGES ELSE p + k
  <2> DEFINE x == p + k
  <2>1. x \in 0 .. 2 * RX_PAGES - 1
    BY <1>1
  <2> HIDE DEF x
  <2>2. x % RX_PAGES = IF x >= RX_PAGES THEN x - RX_PAGES ELSE x
    BY <2>1, Around
  <2> QED BY <2>2, RingConstants DEF x
<1>3. (IF p + k >= RX_PAGES THEN p + k - RX_PAGES ELSE p + k) \in RxPage
  BY RingConstants
<1> QED BY <1>2, <1>3, Zenon DEF RxNext

\* From page c to page p.
LEMMA Distance ==
    ASSUME NEW p \in RxPage, NEW c \in RxPage
    PROVE  (p - c) % RX_PAGES = IF p >= c THEN p - c ELSE p - c + RX_PAGES
<1>1. p - c \in 1 - RX_PAGES .. RX_PAGES - 1
  BY RingConstants
<1>2. (p - c) % RX_PAGES = IF p - c >= 0 THEN p - c ELSE p - c + RX_PAGES
  BY <1>1, AroundBack, Zenon
<1>3. p - c >= 0 <=> p >= c
  BY RingConstants
<1> QED BY <1>2, <1>3, Zenon

\* Following and Before lead from the boundary to the next page and back.
LEMMA Boundary ==
    ASSUME NEW p \in RxPage
    PROVE  /\ Following(p) \in RxPage /\ Before(p) \in RxPage
           /\ Following(Before(p)) = p
           /\ Following(p) = IF p = RX_PAGES - 1 THEN 0 ELSE p + 1
  BY RingConstants DEF Following, Before

\* The pages behind the boundary b up to CURR, c, are in use, the others free.
LEMMA Places ==
    ASSUME NEW b \in RxPage, NEW c \in RxPage
    PROVE  /\ Used(c, b) \in RxPage
           /\ \A k \in 0 .. RX_PAGES : Place(b, k) \in RxPage
           /\ Place(b, 0) = Following(b)
           /\ (b - c) % RX_PAGES = RX_PAGES - 1 - Used(c, b)
           /\ \A k \in RxPage :
                 (Place(b, k) - c) % RX_PAGES =
                     IF k >= Used(c, b) THEN k - Used(c, b) ELSE k - Used(c, b) + RX_PAGES
           /\ \A k \in 0 .. RX_PAGES - Used(c, b) : RxNext(c, k) = Place(b, Used(c, b) + k)
           /\ \A k \in RxPage : Place(b, k) = c <=> k = Used(c, b)
<1> DEFINE f == Following(b)
           U == Used(c, b)
<1>1. f \in RxPage /\ f = IF b = RX_PAGES - 1 THEN 0 ELSE b + 1
  BY Boundary
<1>2. U = IF c >= f THEN c - f ELSE c - f + RX_PAGES
  BY <1>1, Distance DEF Used
<1>3. \A k \in 0 .. RX_PAGES : /\ Place(b, k) \in RxPage
                               /\ Place(b, k) = IF f + k >= RX_PAGES THEN f + k - RX_PAGES ELSE f + k
  BY <1>1, Forward DEF Place
<1> HIDE DEF f, U
<1>4. U \in RxPage
  BY <1>1, <1>2, RingConstants
<1>5. Place(b, 0) = f
  BY <1>1, <1>3, RingConstants
<1>6. (b - c) % RX_PAGES = RX_PAGES - 1 - U
  <2>1. (b - c) % RX_PAGES = IF b >= c THEN b - c ELSE b - c + RX_PAGES
    BY ONLY b \in RxPage, c \in RxPage, Distance, Zenon
  <2> DEFINE m == (b - c) % RX_PAGES
  <2> HIDE DEF m
  <2>2. m = IF b >= c THEN b - c ELSE b - c + RX_PAGES
    BY ONLY <2>1, Zenon DEF m
  <2>3. b \in Nat /\ c \in Nat /\ b < RX_PAGES /\ c < RX_PAGES /\ RX_PAGES \in Nat
    BY ONLY b \in RxPage, c \in RxPage, RingConstants
  <2>4. CASE b = RX_PAGES - 1
    BY ONLY <1>1, <1>2, <2>2, <2>3, <2>4
  <2>5. CASE b # RX_PAGES - 1
    BY ONLY <1>1, <1>2, <2>2, <2>3, <2>5
  <2> QED BY ONLY <2>4, <2>5, Zenon DEF m
<1>7. ASSUME NEW k \in RxPage
      PROVE  /\ (Place(b, k) - c) % RX_PAGES = IF k >= U THEN k - U ELSE k - U + RX_PAGES
             /\ Place(b, k) = c <=> k = U
  <2>1. k \in 0 .. RX_PAGES
    BY RingConstants
  <2>2. (Place(b, k) - c) % RX_PAGES =
           IF Place(b, k) >= c THEN Place(b, k) - c ELSE Place(b, k) - c + RX_PAGES
    BY <1>3, <2>1, Distance
  <2> DEFINE g == Place(b, k)
  <2>3. g \in RxPage /\ g = IF f + k >= RX_PAGES THEN f + k - RX_PAGES ELSE f + k
    BY <1>3, <2>1
  <2> HIDE DEF g
  <2>4. (IF g >= c THEN g - c ELSE g - c + RX_PAGES) = IF k >= U THEN k - U ELSE k - U + RX_PAGES
    BY <1>1, <1>2, <2>3, RingConstants
  <2>5. g = c <=> k = U
    BY <1>1, <1>2, <2>3, RingConstants
  <2> QED BY <2>2, <2>4, <2>5 DEF g
<1>8. ASSUME NEW k \in 0 .. RX_PAGES - U PROVE RxNext(c, k) = Place(b, U + k)
  <2>1. k \in 0 .. RX_PAGES /\ U + k \in 0 .. RX_PAGES
    BY <1>4, RingConstants
  <2>2. RxNext(c, k) = IF c + k >= RX_PAGES THEN c + k - RX_PAGES ELSE c + k
    BY <2>1, Forward
  <2>3. Place(b, U + k) =
            IF f + (U + k) >= RX_PAGES THEN f + (U + k) - RX_PAGES ELSE f + (U + k)
    BY <1>3, <2>1
  <2>4. (IF c + k >= RX_PAGES THEN c + k - RX_PAGES ELSE c + k)
            = IF f + (U + k) >= RX_PAGES THEN f + (U + k) - RX_PAGES ELSE f + (U + k)
    BY <1>1, <1>2, <1>4, RingConstants
  <2> QED BY <2>2, <2>3, <2>4
<1> QED BY <1>3, <1>4, <1>5, <1>6, <1>7, <1>8 DEF f, U

\* The boundary moves over d pages.
LEMMA Moved ==
    ASSUME NEW b \in RxPage, NEW c \in RxPage, NEW d \in 0 .. Used(c, b)
    PROVE  LET e == Before(Place(b, d))
           IN  /\ e \in RxPage /\ Used(c, e) = Used(c, b) - d
               /\ \A k \in 0 .. Used(c, b) - d : Place(e, k) = Place(b, d + k)
<1> DEFINE e == Before(Place(b, d))
           f == Following(b)
           g == Place(b, d)
           U == Used(c, b)
<1>1. f \in RxPage /\ U \in RxPage
  BY Boundary, Places
<1>2. d \in 0 .. RX_PAGES
  BY <1>1, RingConstants
<1>3. g \in RxPage /\ g = IF f + d >= RX_PAGES THEN f + d - RX_PAGES ELSE f + d
  BY <1>1, <1>2, Forward DEF Place
<1>4. e \in RxPage /\ Following(e) = g
  BY <1>3, Boundary
<1>5. U = IF c >= f THEN c - f ELSE c - f + RX_PAGES
  BY <1>1, Distance DEF Used
<1>6. Used(c, e) = IF c >= g THEN c - g ELSE c - g + RX_PAGES
  BY <1>3, <1>4, Distance DEF Used
<1>7. Used(c, e) = U - d
  <2> HIDE DEF f, g, U, e
  <2>1. d \in 0 .. U
    BY DEF U
  <2> QED BY <1>1, <1>3, <1>5, <1>6, <2>1, RingConstants
<1>8. ASSUME NEW k \in 0 .. U - d PROVE Place(e, k) = Place(b, d + k)
  <2>1. k \in 0 .. RX_PAGES /\ d + k \in 0 .. RX_PAGES
    BY <1>1, <1>2, RingConstants
  <2>2. Place(e, k) = IF g + k >= RX_PAGES THEN g + k - RX_PAGES ELSE g + k
    BY <1>3, <1>4, <2>1, Forward DEF Place
  <2>3. Place(b, d + k) = IF f + (d + k) >= RX_PAGES THEN f + (d + k) - RX_PAGES ELSE f + (d + k)
    BY <1>1, <2>1, Forward DEF Place
  <2> HIDE DEF f, g, U, e
  <2>4. d + k <= RX_PAGES - 1
    <3>1. d \in 0 .. U
      BY DEF U
    <3> QED BY <1>1, <3>1, RingConstants
  <2> QED BY <1>1, <1>2, <1>3, <2>1, <2>2, <2>3, <2>4, RingConstants
<1> QED BY <1>4, <1>7, <1>8

\* Where the card and the driver keep what they keep.
Frame == [len : 1 .. MAX_PAGES, odd : BOOLEAN, dropped : BOOLEAN]
NeType ==
    /\ chip \in [on : BOOLEAN, curr : RxPage, bnry : RxPage, isr : SUBSET {"prx", "ovw", "rxe"},
                 good : BOOLEAN]
    /\ pages \in [RxPage -> [frame : Nat, part : Nat, len : Nat, next : RxPage, odd : BOOLEAN]]
    /\ frames \in Seq(Frame)
    /\ got \in Seq(Seq([frame : Nat, part : Nat]))

\* The frames q lie one behind the other behind the boundary b: frame i from
\* page o[i - 1] on, the last one up to CURR, c.
Stored(q, o, pg, c, b, fr) ==
    /\ q \in Seq(Nat) /\ o[0] = 0 /\ o[Len(q)] = Used(c, b)
    /\ \A i \in 0 .. Len(q) : o[i] \in 0 .. Used(c, b)
    /\ \A i \in 1 .. Len(q) :
          /\ q[i] \in DOMAIN fr /\ o[i] = o[i - 1] + fr[q[i]].len
          /\ \A j \in 0 .. fr[q[i]].len - 1 :
                pg[Place(b, o[i - 1] + j)] =
                    [frame |-> q[i], part |-> j + 1, len |-> fr[q[i]].len,
                     next |-> Place(b, o[i]), odd |-> fr[q[i]].odd]

\* They are those that wait, in the order in which they came and later than
\* all that were read.
Unread(fr, g) == {n \in DOMAIN fr : ~fr[n].dropped /\ \A k \in DOMAIN g : g[k][1].frame # n}
InOrder(q, fr, g) ==
    /\ {q[i] : i \in 1 .. Len(q)} = Unread(fr, g)
    /\ \A i, j \in 1 .. Len(q) : i < j => q[i] < q[j]
    /\ \A i \in 1 .. Len(q), k \in DOMAIN g : g[k][1].frame < q[i]

\* What was read is whole.
ReadOf(fr, g) ==
    \A k \in DOMAIN g :
        /\ g[k][1].frame \in DOMAIN fr
        /\ g[k] = [j \in 1 .. fr[g[k][1].frame].len |-> [frame |-> g[k][1].frame, part |-> j]]
        /\ k > 1 => g[k - 1][1].frame < g[k][1].frame

\* The frames that wait lie behind the boundary, and what was read is whole.
NeInv ==
    /\ NeType /\ ReadOf(frames, got)
    /\ \E q, o : Stored(q, o, pages, chip.curr, chip.bnry, frames) /\ InOrder(q, frames, got)

\* Steps that change neither the ring nor the frames.
LEMMA RingStays ==
    ASSUME NeInv, UNCHANGED <<pages, frames, got>>,
           chip' \in [on : BOOLEAN, curr : {chip.curr}, bnry : {chip.bnry},
                      isr : SUBSET {"prx", "ovw", "rxe"}, good : BOOLEAN]
    PROVE  NeInv'
<1>1. chip'.curr = chip.curr /\ chip'.bnry = chip.bnry
  OBVIOUS
<1>2. NeType'
  BY DEF NeInv, NeType
<1>3. PICK q, o : Stored(q, o, pages, chip.curr, chip.bnry, frames) /\ InOrder(q, frames, got)
  BY DEF NeInv
<1>4. Stored(q, o, pages', chip'.curr, chip'.bnry, frames') /\ InOrder(q, frames', got')
  BY <1>1, <1>3
<1> QED BY <1>2, <1>4 DEF NeInv

\* A reset drops all that wait and empties the ring.
LEMMA ResetKeeps ==
    ASSUME NeInv, Reset, UNCHANGED <<pages, got>>
    PROVE  NeInv'
<1>1. frames \in Seq(Frame) /\ got \in Seq(Seq([frame : Nat, part : Nat]))
  BY DEF NeInv, NeType
<1>2. /\ frames' \in Seq(Frame) /\ DOMAIN frames' = DOMAIN frames
      /\ \A n \in DOMAIN frames : /\ frames'[n].len = frames[n].len
                                  /\ ~frames'[n].dropped =>
                                        \E k \in DOMAIN got : got[k][1].frame = n
  <2>1. DOMAIN frames = 1 .. Len(frames) /\ Len(frames) \in Nat
    BY <1>1
  <2>2. ASSUME NEW n \in DOMAIN frames
        PROVE  /\ frames'[n] \in Frame /\ frames'[n].len = frames[n].len
               /\ ~frames'[n].dropped => \E k \in DOMAIN got : got[k][1].frame = n
    <3> DEFINE read == \A k \in DOMAIN got : got[k][1].frame # n
               d == frames[n].dropped \/ read
    <3>1. frames'[n] = [frames[n] EXCEPT !.dropped = d]
      <4>1. frames' = [m \in DOMAIN frames |->
                          [frames[m] EXCEPT !.dropped =
                              @ \/ \A k \in DOMAIN got : got[k][1].frame # m]]
        BY Zenon DEF Reset, Dropped
      <4> QED BY <4>1, <2>2, Zenon
    <3>2. frames[n] \in Frame
      BY <1>1, <2>1, ElementOfSeq
    <3>3. d \in BOOLEAN /\ (~d => \E k \in DOMAIN got : got[k][1].frame = n)
      OBVIOUS
    <3> HIDE DEF d
    <3>4. frames'[n] = [len |-> frames[n].len, odd |-> frames[n].odd, dropped |-> d]
      BY <3>1, <3>2 DEF Frame
    <3> QED BY <3>2, <3>3, <3>4 DEF Frame
  <2>3. frames' = [n \in 1 .. Len(frames) |-> frames'[n]]
    BY <2>1 DEF Reset, Dropped
  <2>4. frames' \in Seq(Frame)
    BY <2>1, <2>2, <2>3
  <2> QED BY <2>1, <2>2, <2>3, <2>4
<1>3. chip' = Running /\ Used(1, 0) = 0
  <2>1. 1 \in RxPage /\ 0 \in RxPage /\ Following(0) = 1
    BY RingConstants, Boundary
  <2>2. Used(1, 0) = 0
    BY <2>1, Distance, RingConstants DEF Used
  <2> QED BY <2>2, Zenon DEF Reset
<1>4. NeType'
  <2>1. 1 \in RxPage /\ 0 \in RxPage
    BY RingConstants
  <2> QED BY <1>2, <1>3, <2>1 DEF NeInv, NeType, Running
<1>5. ReadOf(frames', got')
  <2> SUFFICES ASSUME NEW k \in DOMAIN got
               PROVE  /\ got[k][1].frame \in DOMAIN frames'
                      /\ got[k] = [j \in 1 .. frames'[got[k][1].frame].len |->
                                      [frame |-> got[k][1].frame, part |-> j]]
                      /\ k > 1 => got[k - 1][1].frame < got[k][1].frame
    BY DEF ReadOf
  <2>1. /\ got[k][1].frame \in DOMAIN frames
        /\ got[k] = [j \in 1 .. frames[got[k][1].frame].len |->
                                      [frame |-> got[k][1].frame, part |-> j]]
        /\ k > 1 => got[k - 1][1].frame < got[k][1].frame
    BY DEF NeInv, ReadOf
  <2>2. frames'[got[k][1].frame].len = frames[got[k][1].frame].len
    BY <1>2, <2>1
  <2> QED BY <1>2, <2>1, <2>2, Zenon
<1>6. Stored(<<>>, [i \in {0} |-> 0], pages', chip'.curr, chip'.bnry, frames')
  BY <1>3 DEF Stored, Running
<1>7. InOrder(<<>>, frames', got')
  <2>1. Unread(frames', got') = {}
    BY <1>2 DEF Unread
  <2> QED BY <2>1 DEF InOrder
<1> QED BY <1>4, <1>5, <1>6, <1>7 DEF NeInv

\* What was read stays whole while frames are added and marked.
LEMMA ReadStays ==
    ASSUME NEW fr, NEW g, NEW fr2, ReadOf(fr, g),
           \A n \in DOMAIN fr : n \in DOMAIN fr2 /\ fr2[n].len = fr[n].len
    PROVE  ReadOf(fr2, g)
<1> SUFFICES ASSUME NEW k \in DOMAIN g
             PROVE  /\ g[k][1].frame \in DOMAIN fr2
                    /\ g[k] = [j \in 1 .. fr2[g[k][1].frame].len |->
                                      [frame |-> g[k][1].frame, part |-> j]]
                    /\ k > 1 => g[k - 1][1].frame < g[k][1].frame
  BY DEF ReadOf
<1>1. /\ g[k][1].frame \in DOMAIN fr
      /\ g[k] = [j \in 1 .. fr[g[k][1].frame].len |-> [frame |-> g[k][1].frame, part |-> j]]
      /\ k > 1 => g[k - 1][1].frame < g[k][1].frame
  BY DEF ReadOf
<1>2. fr2[g[k][1].frame].len = fr[g[k][1].frame].len
  BY <1>1
<1> QED BY <1>1, <1>2, Zenon

\* A packet is stored in free pages behind the others.
LEMMA StoreKeeps ==
    ASSUME NeInv, NEW n \in 1 .. MAX_PAGES, NEW odd \in BOOLEAN, Store(n, odd)
    PROVE  NeInv'
<1> DEFINE b == chip.bnry
           c == chip.curr
           U == Used(c, b)
           L == Len(frames) + 1
           new == [len |-> n, odd |-> odd, dropped |-> FALSE]
<1>1. /\ frames \in Seq(Frame) /\ Len(frames) \in Nat /\ DOMAIN frames = 1 .. Len(frames)
      /\ b \in RxPage /\ c \in RxPage
  BY DEF NeInv, NeType
<1>2. new \in Frame
  BY DEF Frame
<1>3. /\ frames' = Append(frames, new) /\ frames' \in Seq(Frame) /\ Len(frames') = L
      /\ DOMAIN frames' = DOMAIN frames \cup {L} /\ L \notin DOMAIN frames /\ frames'[L] = new
      /\ \A m \in DOMAIN frames : frames'[m] = frames[m]
  <2>1. frames' = Append(frames, new)
    BY DEF Store
  <2> HIDE DEF new
  <2> QED BY <1>1, <1>2, <2>1, AppendProperties
<1>4. U \in RxPage /\ U + n <= RX_PAGES - 1 /\ n \in Nat /\ n > 0
  <2>1. n <= (b - c) % RX_PAGES
    BY DEF Store
  <2> HIDE DEF b, c, U
  <2>2. U \in RxPage /\ (b - c) % RX_PAGES = RX_PAGES - 1 - U
    BY <1>1, Places DEF U
  <2>3. n <= RX_PAGES - 1 - U
    BY <2>1, <2>2
  <2> QED BY <2>2, <2>3, RingConstants
<1>5. /\ chip'.curr = RxNext(c, n) /\ chip'.bnry = b
      /\ chip' \in [on : BOOLEAN, curr : {RxNext(c, n)}, bnry : {b}, isr : SUBSET {"prx", "ovw", "rxe"},
                    good : BOOLEAN]
  BY DEF Store, Raise, NeInv, NeType
<1>6. RxNext(c, n) = Place(b, U + n) /\ RxNext(c, n) \in RxPage
  <2> HIDE DEF b, c, U
  <2>1. n \in 0 .. RX_PAGES - U /\ n \in 0 .. RX_PAGES
    BY <1>4, RingConstants
  <2> QED BY <1>1, <2>1, Places, Forward DEF U
<1>7. Used(RxNext(c, n), b) = U + n
  <2> HIDE DEF b, c, U
  <2>1. U + n \in RxPage
    BY <1>4, RingConstants
  <2> QED BY <1>1, <1>6, <2>1, Places
<1>8. \A p \in RxPage :
          pages'[p] = LET k == (p - c) % RX_PAGES
                      IN  IF k < n THEN [frame |-> L, part |-> k + 1, len |-> n,
                                         next |-> RxNext(c, n), odd |-> odd]
                          ELSE pages[p]
  BY <1>3 DEF Store
<1>9. \A k \in 0 .. U - 1 : pages'[Place(b, k)] = pages[Place(b, k)]
  <2> TAKE k \in 0 .. U - 1
  <2>1. k \in RxPage /\ k \in 0 .. RX_PAGES /\ ~(k >= U)
    BY <1>4, RingConstants
  <2>2. Place(b, k) \in RxPage /\ (Place(b, k) - c) % RX_PAGES = k - U + RX_PAGES
    BY <1>1, <2>1, Places
  <2> HIDE DEF b, c, U
  <2>3. ~(k - U + RX_PAGES < n)
    BY <1>4, <2>1, RingConstants
  <2> QED BY <1>8, <2>2, <2>3
<1>10. \A j \in 0 .. n - 1 :
          pages'[Place(b, U + j)] = [frame |-> L, part |-> j + 1, len |-> n,
                                     next |-> RxNext(c, n), odd |-> odd]
  <2> TAKE j \in 0 .. n - 1
  <2> HIDE DEF b, c, U
  <2>1. U + j \in RxPage /\ U + j \in 0 .. RX_PAGES /\ U + j >= U /\ (U + j) - U = j /\ j < n
    BY <1>4, RingConstants
  <2>2. Place(b, U + j) \in RxPage /\ (Place(b, U + j) - c) % RX_PAGES = j
    BY <1>1, <2>1, Places DEF U
  <2> QED BY <1>8, <2>1, <2>2
<1>11. NeType'
  <2>1. pages' = [p \in RxPage |-> pages'[p]]
    BY DEF Store
  <2>2. \A p \in RxPage : pages'[p] \in [frame : Nat, part : Nat, len : Nat, next : RxPage, odd : BOOLEAN]
    <3> TAKE p \in RxPage
    <3>1. pages[p] \in [frame : Nat, part : Nat, len : Nat, next : RxPage, odd : BOOLEAN]
      BY DEF NeInv, NeType
    <3>2. (p - c) % RX_PAGES \in Nat /\ L \in Nat
      BY <1>1, Distance, RingConstants
    <3>3. CASE (p - c) % RX_PAGES < n
      <4> HIDE DEF c, L
      <4> DEFINE k == (p - c) % RX_PAGES
      <4>1. k \in Nat /\ pages'[p] = [frame |-> L, part |-> k + 1, len |-> n,
                                      next |-> RxNext(c, n), odd |-> odd]
        BY <1>8, <3>2, <3>3
      <4> HIDE DEF k
      <4>2. k + 1 \in Nat
        BY <4>1
      <4> QED BY <1>4, <1>6, <3>2, <4>1, <4>2
    <3>4. CASE ~((p - c) % RX_PAGES < n)
      BY <1>8, <3>1, <3>4
    <3> QED BY <3>3, <3>4
  <2>3. got' = got
    BY DEF Store
  <2> QED BY <1>3, <1>5, <1>6, <1>1, <2>1, <2>2, <2>3 DEF NeInv, NeType
<1>12. got' = got /\ ReadOf(frames', got)
  BY <1>3, ReadStays DEF Store, NeInv
<1>13. PICK q, o : Stored(q, o, pages, c, b, frames) /\ InOrder(q, frames, got)
  BY DEF NeInv
<1> DEFINE q2 == Append(q, L)
           o2 == [i \in 0 .. Len(q) + 1 |-> IF i = Len(q) + 1 THEN U + n ELSE o[i]]
<1>14. /\ q \in Seq(Nat) /\ Len(q) \in Nat /\ L \in Nat /\ q2 \in Seq(Nat) /\ Len(q2) = Len(q) + 1
       /\ \A i \in 1 .. Len(q) : q2[i] = q[i] /\ q[i] \in DOMAIN frames /\ q[i] < L
       /\ q2[Len(q) + 1] = L
  <2>1. q \in Seq(Nat) /\ \A i \in 1 .. Len(q) : q[i] \in DOMAIN frames
    BY <1>13 DEF Stored
  <2>2. L \in Nat /\ \A m \in DOMAIN frames : m < L
    BY <1>1
  <2> HIDE DEF L
  <2> QED BY <2>1, <2>2, AppendProperties
<1>15. Stored(q2, o2, pages', RxNext(c, n), b, frames')
  <2> HIDE DEF L, b, c, U, q2
  <2>1. o2[0] = 0 /\ o2[Len(q2)] = U + n /\ o2[Len(q)] = U
        /\ \A i \in 0 .. Len(q) : o2[i] = o[i] /\ o[i] \in 0 .. U
    BY <1>13, <1>14 DEF Stored, U
  <2> HIDE DEF o2
  <2>7. U \in Nat /\ n \in Nat
    BY <1>4, RingConstants
  <2>2. \A i \in 0 .. Len(q2) : o2[i] \in 0 .. U + n
    <3> TAKE i \in 0 .. Len(q2)
    <3>1. CASE i \in 0 .. Len(q)
      <4>1. o2[i] \in 0 .. U
        BY <2>1, <3>1
      <4> QED BY <2>7, <4>1
    <3>2. CASE i = Len(q2)
      BY <1>4, <2>1, <3>2, RingConstants
    <3> QED BY <1>14, <3>1, <3>2
  <2>3. ASSUME NEW i \in 1 .. Len(q2)
        PROVE  /\ q2[i] \in DOMAIN frames' /\ o2[i] = o2[i - 1] + frames'[q2[i]].len
               /\ \A j \in 0 .. frames'[q2[i]].len - 1 :
                     pages'[Place(b, o2[i - 1] + j)] =
                         [frame |-> q2[i], part |-> j + 1, len |-> frames'[q2[i]].len,
                          next |-> Place(b, o2[i]), odd |-> frames'[q2[i]].odd]
    <3>1. CASE i \in 1 .. Len(q)
      <4>1. /\ q[i] \in DOMAIN frames /\ o[i] = o[i - 1] + frames[q[i]].len
            /\ \A j \in 0 .. frames[q[i]].len - 1 :
                  pages[Place(b, o[i - 1] + j)] =
                      [frame |-> q[i], part |-> j + 1, len |-> frames[q[i]].len,
                       next |-> Place(b, o[i]), odd |-> frames[q[i]].odd]
        BY <1>13, <3>1 DEF Stored
      <4>2. i \in 0 .. Len(q) /\ i - 1 \in 0 .. Len(q)
        BY <1>14, <3>1
      <4>3. o2[i] = o[i] /\ o2[i - 1] = o[i - 1] /\ o[i] \in 0 .. U /\ o[i - 1] \in 0 .. U
        BY <2>1, <4>2
      <4>4. q2[i] = q[i] /\ frames'[q[i]] = frames[q[i]] /\ q[i] \in DOMAIN frames'
        BY <1>3, <1>14, <3>1, <4>1
      <4>5. frames[q[i]].len \in Nat
        <5>1. frames[q[i]] \in Frame
          BY <1>1, <4>1, ElementOfSeq
        <5> QED BY <5>1, RingConstants DEF Frame
      <4>6. ASSUME NEW j \in 0 .. frames[q[i]].len - 1 PROVE o[i - 1] + j \in 0 .. U - 1
        <5> DEFINE x == o[i - 1]
                   y == o[i]
                   l == frames[q[i]].len
        <5>1. x \in 0 .. U /\ y \in 0 .. U /\ l \in Nat /\ y = x + l /\ j \in 0 .. l - 1
          BY <4>1, <4>3, <4>5, <4>6
        <5> HIDE DEF x, y, l
        <5>2. x + j \in 0 .. U - 1
          BY <2>7, <5>1
        <5> QED BY <5>2 DEF x
      <4> QED BY <1>9, <4>1, <4>3, <4>4, <4>6
    <3>2. CASE i = Len(q) + 1
      <4>1. i - 1 = Len(q) /\ o2[i] = U + n /\ o2[i - 1] = U /\ q2[i] = L
        BY <1>14, <2>1, <3>2
      <4>2. L \in DOMAIN frames' /\ frames'[L].len = n /\ frames'[L].odd = odd
        BY <1>3
      <4>3. q2[i] \in DOMAIN frames' /\ o2[i] = o2[i - 1] + frames'[q2[i]].len
        BY <4>1, <4>2
      <4>4. ASSUME NEW j \in 0 .. n - 1
            PROVE  pages'[Place(b, U + j)] = [frame |-> L, part |-> j + 1, len |-> n,
                                              next |-> Place(b, U + n), odd |-> odd]
        BY <1>6, <1>10, Zenon
      <4> QED BY <4>1, <4>2, <4>3, <4>4
    <3> QED BY <1>14, <3>1, <3>2
  <2> QED BY <1>7, <1>14, <2>1, <2>2, <2>3 DEF Stored
<1>16. InOrder(q2, frames', got)
  <2> HIDE DEF L, b, c, U, q2
  <2>1. \A k \in DOMAIN got : got[k][1].frame \in DOMAIN frames
    BY DEF NeInv, ReadOf
  <2>2. \A m \in DOMAIN frames : m < L
    BY <1>1 DEF L
  <2>3. Unread(frames', got) = Unread(frames, got) \cup {L}
    BY <1>3, <2>1 DEF Unread
  <2>4. {q2[i] : i \in 1 .. Len(q2)} = {q[i] : i \in 1 .. Len(q)} \cup {L}
    <3>1. 1 .. Len(q2) = (1 .. Len(q)) \cup {Len(q) + 1}
      BY <1>14
    <3>2. \A i \in 1 .. Len(q) : q2[i] = q[i]
      BY ONLY <1>14
    <3>3. q2[Len(q) + 1] = L
      BY ONLY <1>14
    <3>4. \A i \in 1 .. Len(q2) : q2[i] \in {q[k] : k \in 1 .. Len(q)} \cup {L}
      BY ONLY <3>1, <3>2, <3>3
    <3>5. \A i \in 1 .. Len(q) : q[i] \in {q2[k] : k \in 1 .. Len(q2)}
      BY ONLY <3>1, <3>2
    <3>6. L \in {q2[k] : k \in 1 .. Len(q2)}
      BY ONLY <3>1, <3>3
    <3> QED BY ONLY <3>4, <3>5, <3>6
  <2>5. \A i, j \in 1 .. Len(q2) : i < j => q2[i] < q2[j]
    <3> SUFFICES ASSUME NEW i \in 1 .. Len(q2), NEW j \in 1 .. Len(q2), i < j PROVE q2[i] < q2[j]
      OBVIOUS
    <3>1. i \in 1 .. Len(q)
      BY <1>14
    <3>2. CASE j \in 1 .. Len(q)
      BY <1>13, <1>14, <3>1, <3>2 DEF InOrder
    <3>3. CASE j = Len(q) + 1
      <4>1. q2[j] = L
        BY ONLY <1>14, <3>3
      <4>2. q2[i] = q[i] /\ q[i] < L
        BY ONLY <1>14, <3>1
      <4> QED BY ONLY <4>1, <4>2, Zenon
    <3>4. j \in 1 .. Len(q) \/ j = Len(q) + 1
      BY ONLY <1>14, j \in 1 .. Len(q2)
    <3> QED BY ONLY <3>2, <3>3, <3>4, Zenon
  <2>6. \A i \in 1 .. Len(q2), k \in DOMAIN got : got[k][1].frame < q2[i]
    <3> TAKE i \in 1 .. Len(q2), k \in DOMAIN got
    <3>1. CASE i \in 1 .. Len(q)
      BY <1>13, <1>14, <3>1 DEF InOrder
    <3>2. CASE i = Len(q) + 1
      BY <1>14, <2>1, <2>2, <3>2
    <3> QED BY <1>14, <3>1, <3>2
  <2> QED BY <1>13, <2>3, <2>4, <2>5, <2>6 DEF InOrder
<1> QED BY <1>5, <1>11, <1>12, <1>15, <1>16 DEF NeInv

\* The parts of a packet, one after the other.
LEMMA PartsSeq ==
    ASSUME NEW n \in Nat, NEW f \in Nat
    PROVE  [k \in 1 .. n |-> [frame |-> f, part |-> k]] \in Seq([frame : Nat, part : Nat])
<1>1. \A k \in 1 .. n : [frame |-> f, part |-> k] \in [frame : Nat, part : Nat]
  OBVIOUS
<1> QED BY <1>1

\* read_ne takes the oldest frame, and moves the boundary behind it.
LEMMA TakeKeeps ==
    ASSUME NeInv, chip.curr # Following(chip.bnry), UNCHANGED pages,
           chip' = [chip EXCEPT !.bnry = Before(pages[Following(chip.bnry)].next)],
           IF pages[Following(chip.bnry)].odd
           THEN /\ frames' = [frames EXCEPT ![pages[Following(chip.bnry)].frame].dropped = TRUE]
                /\ got' = got
           ELSE got' = Append(got, Parts(Following(chip.bnry))) /\ frames' = frames
    PROVE  NeInv'
<1> DEFINE b == chip.bnry
           c == chip.curr
           bound == Following(b)
           U == Used(c, b)
<1>1. /\ b \in RxPage /\ c \in RxPage /\ U \in RxPage /\ Place(b, 0) = bound
      /\ bound \in RxPage
  <2>1. b \in RxPage /\ c \in RxPage
    BY DEF NeInv, NeType
  <2> QED BY <2>1, Places, Boundary
<1>2. PICK q, o : Stored(q, o, pages, c, b, frames) /\ InOrder(q, frames, got)
  BY DEF NeInv
<1>3. q \in Seq(Nat) /\ Len(q) \in Nat /\ Len(q) > 0
  <2>1. q \in Seq(Nat) /\ Len(q) \in Nat /\ o[0] = 0 /\ o[Len(q)] = U
    BY <1>2 DEF Stored
  <2>2. 0 \in RxPage
    BY RingConstants
  <2>3. U # 0
    BY <1>1, <2>2, Places
  <2> HIDE DEF U
  <2> QED BY <2>1, <2>3
<1> DEFINE f == q[1]
           n == frames[f].len
<1>4. /\ f \in DOMAIN frames /\ f \in Nat /\ o[1] = n /\ n \in 1 .. U /\ n \in Nat /\ frames[f] \in Frame
      /\ frames \in Seq(Frame) /\ got \in Seq(Seq([frame : Nat, part : Nat]))
  <2>1. /\ f \in DOMAIN frames /\ o[1] = o[0] + n /\ o[0] = 0 /\ o[1] \in 0 .. U
    <3>1. 1 \in 1 .. Len(q) /\ 1 \in 0 .. Len(q) /\ 1 - 1 = 0
      BY <1>3
    <3> QED BY <1>2, <3>1 DEF Stored
  <2>2. frames \in Seq(Frame) /\ got \in Seq(Seq([frame : Nat, part : Nat]))
    BY DEF NeInv, NeType
  <2>3. frames[f] \in Frame
    BY <2>1, <2>2, ElementOfSeq
  <2>4. n \in Nat /\ n >= 1
    BY <2>3, RingConstants DEF Frame
  <2>5. f \in Nat
    BY <1>3, ElementOfSeq
  <2> HIDE DEF U, n, f
  <2> QED BY <1>1, <2>1, <2>2, <2>3, <2>4, <2>5, RingConstants
<1>5. \A j \in 0 .. n - 1 :
          pages[Place(b, j)] = [frame |-> f, part |-> j + 1, len |-> n,
                                next |-> Place(b, n), odd |-> frames[f].odd]
  <2> TAKE j \in 0 .. n - 1
  <2>1. 1 \in 1 .. Len(q) /\ 1 - 1 = 0 /\ o[0] + j = j
    BY <1>2, <1>3, <1>4 DEF Stored
  <2>2. pages[Place(b, o[0] + j)] = [frame |-> f, part |-> j + 1, len |-> n,
                                     next |-> Place(b, o[1]), odd |-> frames[f].odd]
    BY <1>2, <2>1 DEF Stored
  <2> QED BY <1>4, <2>1, <2>2
<1>6. /\ pages[bound].frame = f /\ pages[bound].len = n /\ pages[bound].next = Place(b, n)
      /\ pages[bound].odd = frames[f].odd
  <2>1. 0 \in 0 .. n - 1
    BY <1>4
  <2>2. pages[bound] = [frame |-> f, part |-> 0 + 1, len |-> n,
                        next |-> Place(b, n), odd |-> frames[f].odd]
    BY <1>1, <1>5, <2>1
  <2> HIDE DEF f, n
  <2> QED BY <2>2
<1> DEFINE e == Before(Place(b, n))
<1>7. /\ e \in RxPage /\ Used(c, e) = U - n /\ \A k \in 0 .. U - n : Place(e, k) = Place(b, n + k)
  <2>1. n \in 0 .. U
    BY <1>4
  <2> HIDE DEF n
  <2> QED BY <1>1, <2>1, Moved
<1>8. chip' = [chip EXCEPT !.bnry = e] /\ chip'.curr = c /\ chip'.bnry = e
  BY <1>6 DEF NeInv, NeType
<1>9. /\ Parts(bound) = [k \in 1 .. n |-> [frame |-> f, part |-> k]]
      /\ Parts(bound) \in Seq([frame : Nat, part : Nat])
  <2>1. ASSUME NEW k \in 1 .. n
        PROVE  [frame |-> pages[RxNext(bound, k - 1)].frame, part |-> pages[RxNext(bound, k - 1)].part]
                   = [frame |-> f, part |-> k]
    <3>1. k - 1 \in 0 .. n - 1 /\ (k - 1) + 1 = k
      BY <1>4
    <3>2. pages[RxNext(bound, k - 1)] = [frame |-> f, part |-> (k - 1) + 1, len |-> n,
                                         next |-> Place(b, n), odd |-> frames[f].odd]
      BY <1>5, <3>1 DEF Place
    <3> HIDE DEF f, n, bound
    <3> QED BY <3>1, <3>2
  <2>2. Parts(bound) = [k \in 1 .. n |-> [frame |-> f, part |-> k]]
    BY <1>6, <2>1 DEF Parts
  <2>3. n \in Nat /\ f \in Nat
    BY <1>4
  <2> HIDE DEF f, n
  <2> QED BY <2>2, <2>3, PartsSeq
<1>10. /\ frames' \in Seq(Frame) /\ DOMAIN frames' = DOMAIN frames
       /\ \A m \in DOMAIN frames : frames'[m].len = frames[m].len /\ frames'[m].odd = frames[m].odd
       /\ frames[f].odd => frames' = [frames EXCEPT ![f].dropped = TRUE] /\ got' = got
       /\ ~frames[f].odd => frames' = frames /\ got' = Append(got, Parts(bound))
  <2>1. /\ frames[f].odd => frames' = [frames EXCEPT ![f].dropped = TRUE] /\ got' = got
        /\ ~frames[f].odd => frames' = frames /\ got' = Append(got, Parts(bound))
    BY <1>6
  <2>2. CASE frames[f].odd
    <3> DEFINE g == [frames[f] EXCEPT !.dropped = TRUE]
    <3>1. g \in Frame /\ g.len = frames[f].len /\ g.odd = frames[f].odd
      BY <1>4 DEF Frame
    <3>2. frames' = [frames EXCEPT ![f] = g]
      BY <2>1, <2>2
    <3> HIDE DEF g, f
    <3>3. f \in 1 .. Len(frames) /\ DOMAIN frames = 1 .. Len(frames)
      BY <1>4
    <3>4. /\ frames' \in Seq(Frame) /\ Len(frames') = Len(frames)
          /\ \A m \in 1 .. Len(frames) : frames'[m] = IF m = f THEN g ELSE frames[m]
      BY <1>4, <3>1, <3>2, <3>3, ExceptSeq
    <3>5. DOMAIN frames' = DOMAIN frames
      BY <3>2
    <3> QED BY <2>1, <3>1, <3>3, <3>4, <3>5
  <2>3. CASE ~frames[f].odd
    BY <1>4, <2>1, <2>3
  <2> QED BY <2>2, <2>3
<1>11. NeType'
  <2>1. got' \in Seq(Seq([frame : Nat, part : Nat]))
    <3> DEFINE x == Parts(bound)
               T == Seq([frame : Nat, part : Nat])
    <3>1. x \in T /\ got \in Seq(T) /\ (got' = got \/ got' = Append(got, x))
      BY <1>4, <1>9, <1>10
    <3> HIDE DEF x, T
    <3>2. got' \in Seq(T)
      BY <3>1
    <3> QED BY <3>2 DEF T
  <2>2. chip' \in [on : BOOLEAN, curr : RxPage, bnry : RxPage, isr : SUBSET {"prx", "ovw", "rxe"},
                   good : BOOLEAN]
    <3> HIDE DEF e
    <3> QED BY <1>7, <1>8 DEF NeInv, NeType
  <2> QED BY <1>10, <2>1, <2>2 DEF NeInv, NeType
<1>12. ReadOf(frames', got')
  <2>1. ReadOf(frames', got)
    BY <1>10, ReadStays DEF NeInv
  <2>2. CASE frames[f].odd
    BY <1>10, <2>1, <2>2
  <2>3. CASE ~frames[f].odd
    <3> DEFINE x == Parts(bound)
    <3>1. x[1].frame = f /\ x = [j \in 1 .. frames'[f].len |-> [frame |-> f, part |-> j]]
      <4>1. 1 \in 1 .. n
        BY <1>4
      <4>2. frames'[f].len = n
        BY <1>4, <1>10
      <4> HIDE DEF f, n
      <4> QED BY <1>9, <4>1, <4>2
    <3>2. x \in Seq([frame : Nat, part : Nat])
      BY <1>9
    <3>3. \A k \in DOMAIN got : got[k][1].frame < f
      <4>1. 1 \in 1 .. Len(q)
        BY <1>3
      <4> QED BY <1>2, <4>1 DEF InOrder
    <3> HIDE DEF x
    <3>4. /\ Len(got) \in Nat /\ DOMAIN got = 1 .. Len(got) /\ DOMAIN got' = 1 .. Len(got) + 1
          /\ \A k \in 1 .. Len(got) : got'[k] = got[k]
          /\ got'[Len(got) + 1] = x
      <4>1. got' = Append(got, x)
        BY <1>10, <2>3 DEF x
      <4> QED BY <1>4, <3>2, <4>1, AppendProperties
    <3>5. ASSUME NEW k \in DOMAIN got'
          PROVE  /\ got'[k][1].frame \in DOMAIN frames'
                 /\ got'[k] = [j \in 1 .. frames'[got'[k][1].frame].len |->
                                  [frame |-> got'[k][1].frame, part |-> j]]
                 /\ k > 1 => got'[k - 1][1].frame < got'[k][1].frame
      <4>1. CASE k \in 1 .. Len(got)
        <5>1. k > 1 => k - 1 \in 1 .. Len(got)
          BY <3>4, <4>1
        <5>2. /\ got[k][1].frame \in DOMAIN frames'
              /\ got[k] = [j \in 1 .. frames'[got[k][1].frame].len |->
                                  [frame |-> got[k][1].frame, part |-> j]]
              /\ k > 1 => got[k - 1][1].frame < got[k][1].frame
          BY <2>1, <3>4, <4>1, Zenon DEF ReadOf
        <5> QED BY <3>4, <4>1, <5>1, <5>2
      <4>2. CASE k = Len(got) + 1
        <5>1. k > 1 => k - 1 \in 1 .. Len(got)
          BY <3>4, <4>2
        <5>2. k > 1 => got'[k - 1][1].frame < f
          BY <3>3, <3>4, <5>1
        <5>3. got'[k] = x /\ got'[k][1].frame = f /\ f \in DOMAIN frames'
          BY <1>4, <1>10, <3>1, <3>4, <4>2
        <5> QED BY <3>1, <5>2, <5>3
      <4> QED BY <3>4, <3>5, <4>1, <4>2
    <3> QED BY <3>5, Zenon DEF ReadOf
  <2> QED BY <2>2, <2>3
<1> DEFINE q2 == Tail(q)
           o2 == [i \in 0 .. Len(q) - 1 |-> o[i + 1] - n]
<1>13. /\ q2 \in Seq(Nat) /\ Len(q2) = Len(q) - 1 /\ Len(q2) \in Nat
       /\ \A i \in 1 .. Len(q2) : q2[i] = q[i + 1] /\ i + 1 \in 1 .. Len(q)
  <2>1. q # <<>>
    BY <1>3
  <2> QED BY <1>3, <2>1, HeadTailProperties
<1>14. Stored(q2, o2, pages', c, e, frames')
  <2> HIDE DEF q2
  <2>1. /\ \A i \in 0 .. Len(q2) : o2[i] = o[i + 1] - n /\ i + 1 \in 0 .. Len(q) /\ i + 1 \in 1 .. Len(q)
        /\ \A i \in 0 .. Len(q) : o[i] \in 0 .. U
        /\ o[Len(q)] = U
    BY <1>2, <1>3, <1>13 DEF Stored
  <2> HIDE DEF o2, b, c, U, e, bound, n, f
  <2>2. n \in Nat /\ U \in Nat /\ n <= U
    BY <1>1, <1>4, RingConstants
  <2>3. \A i \in 1 .. Len(q) : frames[q[i]].len \in Nat /\ frames[q[i]].len > 0 /\ q[i] \in DOMAIN frames
    <3> TAKE i \in 1 .. Len(q)
    <3>1. q[i] \in DOMAIN frames
      BY <1>2 DEF Stored
    <3>2. frames[q[i]] \in Frame
      BY <1>4, <3>1, ElementOfSeq
    <3> QED BY <3>1, <3>2, RingConstants DEF Frame
  \* no frame lies before the first
  <2>4. \A i \in 1 .. Len(q) : o[i] >= n
    <3> DEFINE S == {i \in 1 .. Len(q) : ~(o[i] >= n)}
    <3> SUFFICES ASSUME S # {} PROVE FALSE
      OBVIOUS
    <3>1. PICK i \in S : \A y \in S : i <= y
      <4>1. S \subseteq Nat
        OBVIOUS
      <4> HIDE DEF S
      <4> QED BY <4>1, MinIn
    <3>2. i \in 1 .. Len(q) /\ ~(o[i] >= n)
      BY <3>1
    <3>3. i # 1
      BY <1>4, <2>2, <3>2
    <3>4. i - 1 \in 1 .. Len(q) /\ ~(i <= i - 1) /\ i - 1 \in 0 .. Len(q) /\ i \in 0 .. Len(q)
      BY <1>3, <3>2, <3>3
    <3>5. o[i - 1] >= n
      BY <3>1, <3>4
    <3>6. o[i] = o[i - 1] + frames[q[i]].len
      BY <1>2, <3>2 DEF Stored
    <3>7. o[i - 1] \in 0 .. U /\ frames[q[i]].len \in Nat
      BY <2>1, <2>3, <3>2, <3>4
    <3> HIDE DEF S
    <3> QED BY <2>2, <3>2, <3>5, <3>6, <3>7
  <2>5. o2[0] = 0 /\ o2[Len(q2)] = U - n
    <3>1. 0 \in 0 .. Len(q2) /\ Len(q2) \in 0 .. Len(q2) /\ 0 + 1 = 1 /\ Len(q2) + 1 = Len(q)
      BY <1>3, <1>13
    <3>2. o2[0] = o[1] - n /\ o2[Len(q2)] = o[Len(q)] - n
      BY <2>1, <3>1
    <3> QED BY <1>4, <2>1, <2>2, <3>2
  <2>6. \A i \in 0 .. Len(q2) : o2[i] \in 0 .. U - n
    <3> TAKE i \in 0 .. Len(q2)
    <3> DEFINE x == o[i + 1]
    <3>1. o2[i] = x - n /\ x \in 0 .. U /\ x >= n
      BY <2>1, <2>4
    <3> HIDE DEF x
    <3> QED BY <2>2, <3>1
  <2>7. ASSUME NEW i \in 1 .. Len(q2)
        PROVE  /\ q2[i] \in DOMAIN frames' /\ o2[i] = o2[i - 1] + frames'[q2[i]].len
               /\ \A j \in 0 .. frames'[q2[i]].len - 1 :
                     pages'[Place(e, o2[i - 1] + j)] =
                         [frame |-> q2[i], part |-> j + 1, len |-> frames'[q2[i]].len,
                          next |-> Place(e, o2[i]), odd |-> frames'[q2[i]].odd]
    <3> DEFINE x == o[i]
               y == o[i + 1]
               m == q[i + 1]
               l == frames[m].len
    <3>1. /\ i + 1 \in 1 .. Len(q) /\ q2[i] = m /\ i - 1 \in 0 .. Len(q2) /\ i \in 0 .. Len(q2)
          /\ (i - 1) + 1 = i /\ (i + 1) - 1 = i /\ i \in 1 .. Len(q)
      <4>1. q2[i] = m /\ i + 1 \in 1 .. Len(q)
        BY ONLY i \in 1 .. Len(q2), <1>13, Zenon DEF m
      <4>2. Len(q2) \in Nat /\ i \in 1 .. Len(q2)
        BY <1>13
      <4>3. i - 1 \in 0 .. Len(q2) /\ i \in 0 .. Len(q2) /\ (i - 1) + 1 = i /\ (i + 1) - 1 = i
        BY ONLY <4>2
      <4>4. Len(q) \in Nat
        BY LenProperties, <1>3
      <4>5. i \in 1 .. Len(q)
        BY ONLY <4>1, <4>2, <4>4
      <4> QED BY ONLY <4>1, <4>3, <4>5, Zenon
    <3>2. o2[i] = y - n /\ o2[i - 1] = x - n /\ x >= n /\ y >= n /\ x \in 0 .. U /\ y \in 0 .. U
      BY <2>1, <2>4, <3>1
    <3>3. /\ m \in DOMAIN frames /\ y = x + l
          /\ \A j \in 0 .. l - 1 :
                pages[Place(b, x + j)] = [frame |-> m, part |-> j + 1, len |-> l,
                                          next |-> Place(b, y), odd |-> frames[m].odd]
      BY <1>2, <3>1 DEF Stored
    <3>4. l \in Nat /\ m \in DOMAIN frames' /\ frames'[m].len = l /\ frames'[m].odd = frames[m].odd
      BY <1>10, <2>3, <3>1
    <3> HIDE DEF x, y, l, m
    <3>5. o2[i] = o2[i - 1] + l
      BY <2>2, <3>2, <3>3, <3>4
    <3>6. Place(e, o2[i]) = Place(b, y)
      <4>1. y - n \in 0 .. U - n /\ n + (y - n) = y
        BY <2>2, <3>2
      <4> QED BY <1>7, <3>2, <4>1
    <3>7. ASSUME NEW j \in 0 .. l - 1 PROVE Place(e, o2[i - 1] + j) = Place(b, x + j)
      <4>1. (x - n) + j \in 0 .. U - n /\ n + ((x - n) + j) = x + j
        BY <2>2, <3>2, <3>3, <3>4
      <4> QED BY <1>7, <3>2, <4>1
    <3> QED BY <3>1, <3>3, <3>4, <3>5, <3>6, <3>7
  <2> QED BY <1>7, <1>13, <2>5, <2>6, <2>7 DEF Stored
<1>15. InOrder(q2, frames', got')
  <2> HIDE DEF b, c, U, e, n
  <2>1. \A i, j \in 1 .. Len(q) : i < j => q[i] < q[j]
    BY <1>2 DEF InOrder
  <2>2. {q[i] : i \in 1 .. Len(q)} = Unread(frames, got)
    BY <1>2 DEF InOrder
  <2>3. {q2[i] : i \in 1 .. Len(q2)} = Unread(frames, got) \ {f}
    <3>1. ASSUME NEW i \in 1 .. Len(q2) PROVE q2[i] \in Unread(frames, got) \ {f}
      <4>1. i + 1 \in 1 .. Len(q) /\ 1 \in 1 .. Len(q) /\ 1 < i + 1 /\ q2[i] = q[i + 1]
        BY <1>13
      <4>2. q[1] < q[i + 1] /\ q[i + 1] \in Unread(frames, got)
        BY <2>1, <2>2, <4>1
      <4>3. q[i + 1] \in Nat /\ q[1] \in Nat
        BY <1>3, <4>1, ElementOfSeq
      <4> QED BY <4>1, <4>2, <4>3
    <3>2. ASSUME NEW m \in Unread(frames, got) \ {f} PROVE \E i \in 1 .. Len(q2) : q2[i] = m
      <4>1. PICK i \in 1 .. Len(q) : q[i] = m
        BY <2>2
      <4>2. i # 1
        BY <3>2, <4>1
      <4>3. i - 1 \in 1 .. Len(q2) /\ (i - 1) + 1 = i
        BY <1>3, <1>13, <4>1, <4>2
      <4>4. q2[i - 1] = m
        BY <1>13, <4>1, <4>3
      <4> QED BY <4>3, <4>4
    <3> HIDE DEF q2
    <3> QED BY <3>1, <3>2
  <2>4. \A i, j \in 1 .. Len(q2) : i < j => q2[i] < q2[j]
    <3> SUFFICES ASSUME NEW i \in 1 .. Len(q2), NEW j \in 1 .. Len(q2), i < j PROVE q2[i] < q2[j]
      OBVIOUS
    <3>1. i + 1 \in 1 .. Len(q) /\ j + 1 \in 1 .. Len(q) /\ i + 1 < j + 1
      BY <1>13
    <3> QED BY <1>13, <2>1, <3>1
  <2>5. ASSUME NEW i \in 1 .. Len(q2) PROVE f < q2[i]
    <3>1. i + 1 \in 1 .. Len(q) /\ 1 \in 1 .. Len(q) /\ 1 < i + 1
      BY <1>13
    <3> QED BY <1>13, <2>1, <3>1
  <2>6. \A i \in 1 .. Len(q2), k \in DOMAIN got : got[k][1].frame < q2[i]
    BY <1>2, <1>13 DEF InOrder
  <2>7. CASE frames[f].odd
    <3>1. /\ got' = got /\ frames'[f].dropped
          /\ \A m \in DOMAIN frames : m # f => frames'[m] = frames[m]
      <4>1. frames' = [frames EXCEPT ![f].dropped = TRUE] /\ got' = got
        BY <1>10, <2>7
      <4> HIDE DEF f
      <4> QED BY <1>4, <4>1 DEF Frame
    <3>2. Unread(frames', got') = Unread(frames, got) \ {f}
      <4> HIDE DEF f
      <4> QED BY <1>10, <3>1 DEF Unread
    <3> QED BY <2>3, <2>4, <2>6, <3>1, <3>2 DEF InOrder
  <2>8. CASE ~frames[f].odd
    <3> DEFINE x == Parts(bound)
    <3>1. x[1].frame = f /\ x \in Seq([frame : Nat, part : Nat])
      <4>1. 1 \in 1 .. n
        BY <1>4
      <4>2. x = [k \in 1 .. n |-> [frame |-> f, part |-> k]]
            /\ x \in Seq([frame : Nat, part : Nat])
        BY <1>9
      <4> HIDE DEF f, x
      <4> QED BY <4>1, <4>2
    <3> HIDE DEF x
    <3>2. /\ frames' = frames /\ DOMAIN got = 1 .. Len(got) /\ DOMAIN got' = 1 .. Len(got) + 1
          /\ Len(got) \in Nat /\ \A k \in 1 .. Len(got) : got'[k] = got[k]
          /\ got'[Len(got) + 1] = x
      <4>1. got' = Append(got, x) /\ frames' = frames
        BY <1>10, <2>8 DEF x
      <4> QED BY <1>4, <3>1, <4>1, AppendProperties
    <3>3. \A m : (\A k \in DOMAIN got' : got'[k][1].frame # m)
                 <=> (\A k \in DOMAIN got : got[k][1].frame # m) /\ m # f
      <4> HIDE DEF f
      <4>1. \A k \in DOMAIN got' : k \in DOMAIN got \/ k = Len(got) + 1
        BY <3>2
      <4>2. DOMAIN got \subseteq DOMAIN got' /\ Len(got) + 1 \in DOMAIN got'
        BY <3>2
      <4>3. got'[Len(got) + 1][1].frame = f
        BY <3>1, <3>2
      <4> QED BY <3>2, <4>1, <4>2, <4>3
    <3>4. Unread(frames', got') = Unread(frames, got) \ {f}
      <4> HIDE DEF f
      <4>1. frames' = frames
        BY <3>2
      <4> QED BY ONLY <3>3, <4>1, Zenon DEF Unread
    <3>5. \A i \in 1 .. Len(q2), k \in DOMAIN got' : got'[k][1].frame < q2[i]
      <4> TAKE i \in 1 .. Len(q2), k \in DOMAIN got'
      <4>1. CASE k \in DOMAIN got
        BY <2>6, <3>2, <4>1
      <4>2. CASE k = Len(got) + 1
        BY <2>5, <3>1, <3>2, <4>2
      <4> HIDE DEF q2
      <4> QED BY <3>2, <4>1, <4>2
    <3> HIDE DEF q2, f
    <3> QED BY <2>3, <2>4, <3>4, <3>5 DEF InOrder
  <2> QED BY <2>7, <2>8
<1> QED BY <1>8, <1>11, <1>12, <1>14, <1>15 DEF NeInv

\* A walk from every page over at most m frames, to CURR, c.
Walk(pg, c, m, w) ==
    w = [k \in 0 .. m |->
            [p \in RxPage |->
                IF k = 0 \/ p = c THEN <<>> ELSE <<pg[p].frame>> \o w[k - 1][pg[p].next]]]

\* There is one.
LEMMA Walks ==
    ASSUME NEW pg, NEW c, NEW m \in Nat
    PROVE  \E w : Walk(pg, c, m, w)
<1> DEFINE S == {i \in Nat : ~ \E w : Walk(pg, c, i, w)}
<1> SUFFICES ASSUME S # {} PROVE FALSE
  OBVIOUS
<1>1. PICK i \in S : \A y \in S : i <= y
  <2>1. S \subseteq Nat
    OBVIOUS
  <2> HIDE DEF S
  <2> QED BY <2>1, MinIn
<1>2. i \in Nat /\ ~ \E w : Walk(pg, c, i, w)
  BY <1>1
<1>3. i # 0
  <2> DEFINE w == [k \in 0 .. 0 |-> [p \in RxPage |-> <<>>]]
  <2>1. w = [k \in 0 .. 0 |->
                [p \in RxPage |->
                    IF k = 0 \/ p = c THEN <<>> ELSE <<pg[p].frame>> \o w[k - 1][pg[p].next]]]
    OBVIOUS
  <2> HIDE DEF w
  <2>2. Walk(pg, c, 0, w)
    BY <2>1, Zenon DEF Walk
  <2> QED BY <1>2, <2>2
<1>4. PICK w : Walk(pg, c, i - 1, w)
  <2>1. i - 1 \in Nat /\ ~(i <= i - 1)
    BY <1>2, <1>3
  <2>2. i - 1 \notin S
    BY <1>1, <2>1
  <2> QED BY <2>1, <2>2
<1> DEFINE Row(v, k) == [p \in RxPage |->
                            IF k = 0 \/ p = c THEN <<>> ELSE <<pg[p].frame>> \o v[k - 1][pg[p].next]]
           x == [k \in 0 .. i |-> IF k = i THEN Row(w, i) ELSE w[k]]
<1>5. \A k \in 0 .. i - 1 : w[k] = Row(w, k)
  BY <1>4, Zenon DEF Walk
<1>6. \A k \in 0 .. i : x[k] = Row(x, k)
  <2> TAKE k \in 0 .. i
  <2>1. k # 0 => k - 1 \in 0 .. i /\ k - 1 # i
    BY <1>2
  <2>2. k # 0 => x[k - 1] = w[k - 1]
    BY <2>1
  <2> HIDE DEF x
  <2>3. Row(x, k) = Row(w, k)
    <3>1. CASE k = 0
      BY <3>1
    <3>2. CASE k # 0
      BY <2>2, <3>2
    <3> QED BY <3>1, <3>2
  <2>4. x[k] = IF k = i THEN Row(w, i) ELSE w[k]
    BY DEF x
  <2>5. k # i => k \in 0 .. i - 1
    BY <1>2
  <2> HIDE DEF Row
  <2> QED BY <1>5, <2>3, <2>4, <2>5
<1>7. x = [k \in 0 .. i |-> Row(x, k)]
  <2> DEFINE y == [k \in 0 .. i |-> Row(x, k)]
  <2>1. \A k \in 0 .. i : x[k] = y[k]
    <3> HIDE DEF x, Row
    <3> QED BY <1>6
  <2>2. DOMAIN x = 0 .. i /\ DOMAIN y = 0 .. i
    OBVIOUS
  <2>3. x = [k \in 0 .. i |-> x[k]]
    OBVIOUS
  <2>4. y = [k \in 0 .. i |-> y[k]]
    OBVIOUS
  <2> HIDE DEF x, y
  <2>5. x = y
    BY <2>1, <2>3, <2>4
  <2> QED BY <2>5 DEF y
<1>8. Walk(pg, c, i, x)
  <2> HIDE DEF x
  <2> QED BY <1>7, Zenon DEF Walk
<1> QED BY <1>2, <1>8

\* The walk that the property speaks of.
LEMMA HeldWalk ==
    ASSUME NEW first
    PROVE  \E w : Walk(pages, chip.curr, RX_PAGES, w) /\ Held(first) = w[RX_PAGES][first]
<1>1. \E w : Walk(pages, chip.curr, RX_PAGES, w)
  BY Walks, RingConstants
<1> DEFINE W == CHOOSE w : Walk(pages, chip.curr, RX_PAGES, w)
<1>2. Walk(pages, chip.curr, RX_PAGES, W)
  BY <1>1, Zenon
<1>3. Held(first) = W[RX_PAGES][first]
  BY Zenon DEF Held, Walk
<1> QED BY <1>2, <1>3

\* A frame and those behind it.
LEMMA OneMore ==
    ASSUME NEW q \in Seq(Nat), NEW i \in 0 .. Len(q) - 1
    PROVE  <<q[i + 1]>> \o SubSeq(q, i + 2, Len(q)) = SubSeq(q, i + 1, Len(q))
<1> DEFINE a == <<q[i + 1]>>
           s == SubSeq(q, i + 2, Len(q))
           t == SubSeq(q, i + 1, Len(q))
<1>1. /\ i + 1 \in 1 .. Len(q) /\ i + 2 \in 1 .. Len(q) + 1 /\ q[i + 1] \in Nat
      /\ i \in Nat /\ Len(q) \in Nat
  BY ElementOfSeq
<1>2. /\ s \in Seq(Nat) /\ Len(s) = Len(q) - (i + 1)
      /\ \A j \in 1 .. Len(s) : s[j] = q[j + (i + 1)]
  BY <1>1
<1>3. /\ t \in Seq(Nat) /\ Len(t) = Len(q) - i
      /\ \A j \in 1 .. Len(t) : t[j] = q[j + i]
  BY <1>1
<1>4. a \in Seq(Nat) /\ Len(a) = 1 /\ a[1] = q[i + 1]
  BY <1>1
<1> HIDE DEF a, s, t
<1> DEFINE x == a \o s
<1>5. /\ x \in Seq(Nat) /\ Len(x) = Len(a) + Len(s)
      /\ \A j \in 1 .. Len(a) + Len(s) : x[j] = IF j <= Len(a) THEN a[j] ELSE s[j - Len(a)]
  <2>1. a \in Seq(Nat) /\ s \in Seq(Nat)
    BY <1>2, <1>4
  <2> QED BY <2>1, ConcatProperties, Zenon
<1> HIDE DEF x
<1>6. Len(x) = Len(t) /\ \A j \in 1 .. Len(t) : x[j] = t[j]
  <2>1. Len(x) = Len(t) /\ Len(a) + Len(s) = Len(t)
    BY <1>1, <1>2, <1>3, <1>4, <1>5
  <2>2. ASSUME NEW j \in 1 .. Len(t) PROVE x[j] = t[j]
    <3>1. x[j] = IF j <= Len(a) THEN a[j] ELSE s[j - Len(a)]
      BY <1>5, <2>1
    <3>2. CASE j = 1
      BY <1>1, <1>3, <1>4, <3>1, <3>2
    <3>3. CASE j # 1
      <4>1. j - 1 \in 1 .. Len(s) /\ (j - 1) + (i + 1) = j + i /\ ~(j <= 1)
        BY <1>1, <1>2, <1>3, <3>3
      <4>2. x[j] = s[j - 1]
        BY <1>4, <3>1, <4>1
      <4> QED BY <1>2, <1>3, <4>1, <4>2
    <3> QED BY <3>2, <3>3
  <2> QED BY <2>1, <2>2
<1>7. x = t
  BY <1>3, <1>5, <1>6, SeqEqual
<1> QED BY <1>7 DEF a, s, t, x

\* The walk from the boundary meets the frames that are stored.
LEMMA WalkStored ==
    ASSUME NEW q, NEW o, NEW pg, NEW c \in RxPage, NEW b \in RxPage, NEW fr \in Seq(Frame),
           NEW w, Stored(q, o, pg, c, b, fr), Walk(pg, c, RX_PAGES, w)
    PROVE  w[RX_PAGES][Following(b)] = q
<1> DEFINE U == Used(c, b)
           l == Len(q)
           S == {k \in 0 .. RX_PAGES : \E i \in 0 .. l :
                    k >= U - o[i] /\ w[k][Place(b, o[i])] # SubSeq(q, i + 1, l)}
<1>1. /\ q \in Seq(Nat) /\ l \in Nat /\ o[0] = 0 /\ o[l] = U
      /\ U \in RxPage /\ U \in Nat /\ U < RX_PAGES /\ \A i \in 0 .. l : o[i] \in 0 .. U
  <2>1. U \in RxPage
    BY Places
  <2> QED BY <2>1, RingConstants DEF Stored
<1>2. \A k \in 0 .. RX_PAGES, p \in RxPage :
          w[k][p] = IF k = 0 \/ p = c THEN <<>> ELSE <<pg[p].frame>> \o w[k - 1][pg[p].next]
  <2> TAKE k \in 0 .. RX_PAGES, p \in RxPage
  <2>1. w[k] = [x \in RxPage |->
                   IF k = 0 \/ x = c THEN <<>> ELSE <<pg[x].frame>> \o w[k - 1][pg[x].next]]
    BY Zenon DEF Walk
  <2> QED BY <2>1, Zenon
<1>3. \A k \in RxPage : Place(b, k) \in RxPage /\ (Place(b, k) = c <=> k = U)
  <2>1. RxPage \subseteq 0 .. RX_PAGES
    BY RingConstants
  <2> QED BY <2>1, Places
<1>4. S = {}
  <2> SUFFICES ASSUME S # {} PROVE FALSE
    OBVIOUS
  <2>1. PICK k \in S : \A y \in S : k <= y
    <3>1. S \subseteq Nat
      BY RingConstants
    <3> HIDE DEF S
    <3> QED BY <3>1, MinIn
  <2>2. PICK i \in 0 .. l : k >= U - o[i] /\ w[k][Place(b, o[i])] # SubSeq(q, i + 1, l)
    OBVIOUS
  <2>3. k \in 0 .. RX_PAGES /\ k \in Nat /\ \A y \in 0 .. RX_PAGES : y < k => y \notin S
    <3>1. k \in 0 .. RX_PAGES
      OBVIOUS
    <3>2. \A y \in S : k <= y
      BY <2>1
    <3> HIDE DEF S
    <3> QED BY <3>1, <3>2, RingConstants
  <2>4. o[i] \in 0 .. U /\ o[i] \in RxPage
    <3>1. o[i] \in 0 .. U
      BY <1>1
    <3> HIDE DEF U
    <3> QED BY <1>1, <3>1, RingConstants
  <2>5. CASE i = l
    <3>1. w[k][Place(b, o[i])] = <<>>
      BY <1>1, <1>2, <1>3, <2>3, <2>4, <2>5
    <3>2. SubSeq(q, i + 1, l) = <<>>
      BY <1>1, <2>5
    <3> QED BY <2>2, <3>1, <3>2
  <2>6. CASE i # l
    <3> DEFINE n == fr[q[i + 1]].len
    <3>1. i + 1 \in 1 .. l /\ i + 1 \in 0 .. l /\ (i + 1) - 1 = i /\ i \in 0 .. l - 1
      BY <1>1, <2>6
    <3>2. /\ q[i + 1] \in DOMAIN fr /\ o[i + 1] = o[i] + n /\ o[i + 1] \in 0 .. U
          /\ \A j \in 0 .. n - 1 :
                pg[Place(b, o[i] + j)] = [frame |-> q[i + 1], part |-> j + 1, len |-> n,
                                          next |-> Place(b, o[i + 1]), odd |-> fr[q[i + 1]].odd]
      BY <1>1, <3>1 DEF Stored
    <3>3. n \in Nat /\ n > 0
      <4>1. fr[q[i + 1]] \in Frame
        BY <3>2, ElementOfSeq
      <4> HIDE DEF S
      <4>2. n \in 1 .. MAX_PAGES
        BY <4>1 DEF Frame
      <4> QED BY <4>2, RingConstants
    <3>4. pg[Place(b, o[i])].frame = q[i + 1] /\ pg[Place(b, o[i])].next = Place(b, o[i + 1])
      <4> HIDE DEF n
      <4>1. 0 \in 0 .. n - 1 /\ o[i] + 0 = o[i]
        BY <1>1, <2>4, <3>3
      <4>2. pg[Place(b, o[i])] = [frame |-> q[i + 1], part |-> 0 + 1, len |-> n,
                                  next |-> Place(b, o[i + 1]), odd |-> fr[q[i + 1]].odd]
        BY <3>2, <4>1
      <4> HIDE DEF S
      <4> QED BY <4>2
    <3> HIDE DEF n
    <3>5. o[i] # U /\ k # 0 /\ k - 1 \in 0 .. RX_PAGES /\ k - 1 < k /\ k - 1 >= U - o[i + 1]
      <4> HIDE DEF U, S
      <4>1. U \in Nat /\ o[i] \in Nat /\ k >= U - o[i] /\ o[i + 1] = o[i] + n /\ o[i + 1] <= U
        BY <1>1, <2>2, <2>4, <3>2
      <4>2. k \in 0 .. RX_PAGES /\ RX_PAGES \in Nat
        BY <2>3, RingConstants
      <4> QED BY ONLY <3>3, <4>1, <4>2
    <3>6. w[k - 1][Place(b, o[i + 1])] = SubSeq(q, i + 2, l)
      <4>1. k - 1 \notin S
        BY <2>3, <3>5
      <4>2. (i + 1) + 1 = i + 2
        BY <1>1
      <4> QED BY <3>1, <3>5, <4>1, <4>2
    <3>7. w[k][Place(b, o[i])] = <<q[i + 1]>> \o w[k - 1][Place(b, o[i + 1])]
      <4>1. Place(b, o[i]) \in RxPage /\ Place(b, o[i]) # c
        BY <1>3, <2>4, <3>5
      <4>2. k \in 0 .. RX_PAGES
        BY ONLY <2>3
      <4>3. w[k][Place(b, o[i])] = IF k = 0 \/ Place(b, o[i]) = c THEN <<>>
                ELSE <<pg[Place(b, o[i])].frame>> \o w[k - 1][pg[Place(b, o[i])].next]
        BY ONLY <1>2, <4>1, <4>2, Zenon
      <4> QED BY ONLY <3>4, <3>5, <4>1, <4>3, Zenon
    <3>8. w[k][Place(b, o[i])] = SubSeq(q, i + 1, l)
      BY <1>1, <3>1, <3>6, <3>7, OneMore
    <3> QED BY <2>2, <3>8
  <2> QED BY <2>5, <2>6
<1>5. w[RX_PAGES][Place(b, o[0])] = SubSeq(q, 1, l)
  <2>1. RX_PAGES \in 0 .. RX_PAGES /\ 0 \in 0 .. l /\ 0 + 1 = 1 /\ RX_PAGES >= U - o[0]
    <3> HIDE DEF U
    <3> QED BY <1>1, RingConstants
  <2>2. ~ \E i \in 0 .. l : RX_PAGES >= U - o[i] /\ w[RX_PAGES][Place(b, o[i])] # SubSeq(q, i + 1, l)
    BY <1>4, <2>1
  <2> HIDE DEF S, U
  <2> QED BY <2>1, <2>2
<1>6. Place(b, o[0]) = Following(b) /\ SubSeq(q, 1, l) = q
  BY <1>1, Places
<1> QED BY <1>5, <1>6

\* What the state gives: the pages behind the boundary hold the frames that
\* wait, and what was read is whole.
LEMMA NeHolds ==
    ASSUME NeInv
    PROVE  ReadWhole /\ NoneHidden
<1>1. ReadWhole
  <2>1. ReadOf(frames, got)
    BY DEF NeInv
  <2> QED BY <2>1, Zenon DEF ReadOf, ReadWhole
<1>2. PICK q, o : Stored(q, o, pages, chip.curr, chip.bnry, frames) /\ InOrder(q, frames, got)
  BY DEF NeInv
<1>3. chip.curr \in RxPage /\ chip.bnry \in RxPage /\ frames \in Seq(Frame)
  BY DEF NeInv, NeType
<1> DEFINE held == Held(Following(chip.bnry))
<1>4. held = q
  <2>1. PICK w : /\ Walk(pages, chip.curr, RX_PAGES, w)
                 /\ Held(Following(chip.bnry)) = w[RX_PAGES][Following(chip.bnry)]
    BY HeldWalk
  <2>2. w[RX_PAGES][Following(chip.bnry)] = q
    BY <1>2, <1>3, <2>1, WalkStored
  <2> QED BY <2>1, <2>2
<1> HIDE DEF held
<1>5. q \in Seq(Nat) /\ DOMAIN q = 1 .. Len(q) /\ Len(q) \in Nat
  BY <1>2 DEF Stored
<1>6. {held[i] : i \in DOMAIN held} = Waiting
  BY <1>2, <1>4, <1>5 DEF InOrder, Unread, Waiting
<1>7. \A i \in 2 .. Len(held) : held[i - 1] < held[i]
  <2> TAKE i \in 2 .. Len(held)
  <2>1. i - 1 \in 1 .. Len(q) /\ i \in 1 .. Len(q) /\ i - 1 < i
    BY <1>4, <1>5
  <2> QED BY <1>2, <1>4, <2>1 DEF InOrder
<1>8. NoneHidden
  BY <1>6, <1>7 DEF NoneHidden, held
<1> QED BY <1>1, <1>8

\* An empty ring holds what waits, nothing.
LEMMA NeStarts ==
    ASSUME NeInit
    PROVE  NeInv
<1>1. 1 \in RxPage /\ 0 \in RxPage /\ Following(0) = 1
  BY RingConstants, Boundary
<1>2. Used(1, 0) = 0
  BY <1>1, Distance, RingConstants DEF Used
<1>3. chip.curr = 1 /\ chip.bnry = 0
  BY DEF NeInit, Stopped, Running
<1>4. NeType
  <2>1. chip = [on |-> FALSE, curr |-> 1, bnry |-> 0, isr |-> {}, good |-> FALSE]
    BY DEF NeInit, Stopped, Running
  <2>2. pages = [p \in RxPage |-> [frame |-> 0, part |-> 0, len |-> 0, next |-> 0, odd |-> FALSE]]
    BY DEF NeInit, Nothing
  <2>3. pages \in [RxPage -> [frame : Nat, part : Nat, len : Nat, next : RxPage, odd : BOOLEAN]]
    BY <1>1, <2>2
  <2>4. frames = <<>> /\ got = <<>>
    BY DEF NeInit
  <2> QED BY <1>1, <2>1, <2>3, <2>4 DEF NeType
<1>5. ReadOf(frames, got)
  BY DEF NeInit, ReadOf
<1>6. Stored(<<>>, [i \in {0} |-> 0], pages, chip.curr, chip.bnry, frames)
  BY <1>2, <1>3 DEF Stored
<1>7. InOrder(<<>>, frames, got)
  BY DEF NeInit, InOrder, Unread
<1> QED BY <1>4, <1>5, <1>6, <1>7 DEF NeInv

\* Every step of the driver and of the card keeps the ring in order.
LEMMA NeStep ==
    ASSUME NeInv, [NeNext]_neVars
    PROVE  NeInv'
<1>1. chip \in [on : BOOLEAN, curr : RxPage, bnry : RxPage, isr : SUBSET {"prx", "ovw", "rxe"},
                good : BOOLEAN]
  BY DEF NeInv, NeType
<1>2. CASE NeOpen
  BY <1>2, ResetKeeps DEF NeOpen
<1>3. CASE SetHandle
  BY <1>1, <1>3, RingStays DEF SetHandle
<1>4. CASE NeClose
  BY <1>1, <1>4, RingStays DEF NeClose
<1>5. CASE \E n \in 1 .. MAX_PAGES, odd \in BOOLEAN : Store(n, odd)
  BY <1>5, StoreKeeps
<1>6. CASE Refuse
  <2>1. /\ UNCHANGED <<pages, frames, got>>
        /\ \/ Raise("ovw", [chip EXCEPT !.good = FALSE])
           \/ Raise("rxe", [chip EXCEPT !.good = FALSE])
    BY <1>6 DEF Refuse
  <2>2. chip' \in [on : BOOLEAN, curr : {chip.curr}, bnry : {chip.bnry},
                   isr : SUBSET {"prx", "ovw", "rxe"}, good : BOOLEAN]
    BY <1>1, <2>1 DEF Raise
  <2> QED BY <2>1, <2>2, RingStays
<1>7. CASE Enter
  <2>1. UNCHANGED <<pages, got>> /\ (Reset \/ UNCHANGED <<chip, frames>>)
    BY <1>7 DEF Enter
  <2>2. CASE Reset
    BY <2>1, <2>2, ResetKeeps
  <2>3. CASE UNCHANGED <<chip, frames>>
    BY <1>1, <2>1, <2>3, RingStays
  <2> QED BY <2>1, <2>2, <2>3
<1>8. CASE ReadNe
  <2> DEFINE bound == Following(chip.bnry)
  <2>1. CASE Reset /\ UNCHANGED got
    BY <1>8, <2>1, ResetKeeps DEF ReadNe
  <2>2. CASE UNCHANGED <<chip, frames, got>>
    BY <1>1, <1>8, <2>2, RingStays DEF ReadNe
  <2>3. CASE /\ chip.curr # bound
             /\ chip' = [chip EXCEPT !.bnry = Before(pages[bound].next)]
             /\ IF pages[bound].odd
                THEN /\ frames' = [frames EXCEPT ![pages[bound].frame].dropped = TRUE]
                     /\ got' = got
                ELSE got' = Append(got, Parts(bound)) /\ frames' = frames
    <3>1. UNCHANGED pages
      BY <1>8 DEF ReadNe
    <3> QED BY <2>3, <3>1, TakeKeeps, Zenon
  <2>4. \/ Reset /\ UNCHANGED got
        \/ UNCHANGED <<chip, frames, got>>
        \/ /\ chip.curr # bound
           /\ chip' = [chip EXCEPT !.bnry = Before(pages[bound].next)]
           /\ IF pages[bound].odd
              THEN /\ frames' = [frames EXCEPT ![pages[bound].frame].dropped = TRUE]
                   /\ got' = got
              ELSE got' = Append(got, Parts(bound)) /\ frames' = frames
    BY <1>8, Zenon DEF ReadNe
  <2> HIDE DEF bound
  <2> QED BY <2>1, <2>2, <2>3, <2>4
<1>9. CASE Clear
  <2>1. UNCHANGED <<pages, frames, got>> /\ chip' = [chip EXCEPT !.isr = {}]
    BY <1>9 DEF Clear
  <2> QED BY <1>1, <2>1, RingStays
<1>10. CASE UNCHANGED neVars
  <2>1. UNCHANGED <<pages, frames, got>> /\ chip' = chip
    BY <1>10 DEF neVars
  <2> QED BY <1>1, <2>1, RingStays
<1> QED BY <1>2, <1>3, <1>4, <1>5, <1>6, <1>7, <1>8, <1>9, <1>10 DEF NeNext

\* What read_ne returns is a packet that arrived, whole and in order: no page of
\* another packet is read for its own wherever the ring wraps around, and no
\* packet is read twice or before an older one.
THEOREM ReadCorrect == NeSpec => []ReadWhole
<1>1. NeInit => NeInv
  BY NeStarts
<1>2. NeInv /\ [NeNext]_neVars => NeInv'
  BY NeStep
<1>3. NeInv => ReadWhole
  BY NeHolds
<1> QED BY <1>1, <1>2, <1>3, PTL DEF NeSpec

\* The packets behind the boundary are those that wait, in the order of their
\* arrival: no packet is hidden between BNRY and CURR, however the card stores
\* and refuses between the steps of the handler and whenever it is reset.
THEOREM HiddenCorrect == NeSpec => []NoneHidden
<1>1. NeInit => NeInv
  BY NeStarts
<1>2. NeInv /\ [NeNext]_neVars => NeInv'
  BY NeStep
<1>3. NeInv => NoneHidden
  BY NeHolds
<1> QED BY <1>1, <1>2, <1>3, PTL DEF NeSpec

=============================================================================
