----------------------------- MODULE TcpProofs -----------------------------
(***************************************************************************)
(* What holds of the TCP layer for every number of sockets, programs and   *)
(* peers, every length of the stream and of a segment, and every size of   *)
(* the list of received data.                                              *)
(***************************************************************************)
EXTENDS Tcp, SequenceTheorems, WellFoundedInduction, TLAPS

-----------------------------------------------------------------------------
(* Numbers and counted sequences.                                            *)

\* A set of numbers has a least one.
LEMMA LeastIn ==
    ASSUME NEW S, S \subseteq Nat, S # {}
    PROVE  \E x \in S : \A y \in S : x <= y
<1> DEFINE R == OpToRel(<, Nat)
<1>1. PICK x \in S : \A y \in S : ~ (<<y, x>> \in R)
  BY NatLessThanWellFounded, WFMin
<1>2. \A y \in S : <<y, x>> \in R <=> y < x
  BY DEF OpToRel
<1> HIDE DEF R
<1>3. \A y \in S : ~ (y < x)
  BY <1>1, <1>2
<1>4. \A y \in S : x <= y
  BY <1>3
<1> QED BY <1>4

\* A set of numbers with a bound has a greatest one.
LEMMA GreatestIn ==
    ASSUME NEW S, S \subseteq Nat, S # {}, NEW b \in Nat, \A x \in S : x <= b
    PROVE  \E x \in S : \A y \in S : y <= x
<1> DEFINE T == {b - x : x \in S}
<1>1. T \subseteq Nat /\ T # {}
  <2>1. \A x \in S : b - x \in Nat
    <3> TAKE x \in S
    <3>1. x \in Nat /\ x <= b
      OBVIOUS
    <3> QED BY <3>1
  <2> QED BY <2>1
<1> HIDE DEF T
<1>2. PICK t \in T : \A y \in T : t <= y
  BY <1>1, LeastIn
<1>3. PICK x \in S : t = b - x
  BY <1>2 DEF T
<1>4. \A y \in S : b - y \in T /\ b - x <= b - y
  BY <1>2, <1>3 DEF T
<1>5. \A y \in S : y <= x
  BY <1>4
<1> QED BY <1>5

\* A set with 0 that goes on up to m has all numbers up to m.
LEMMA Upwards ==
    ASSUME NEW S, NEW m \in Nat, 0 \in S,
           \A k \in Nat : k < m /\ k \in S => k + 1 \in S
    PROVE  \A k \in 0 .. m : k \in S
<1> DEFINE T == {k \in 0 .. m : k \notin S}
<1>1. ASSUME T # {} PROVE FALSE
  <2>1. T \subseteq Nat
    OBVIOUS
  <2>2. PICK k \in T : \A y \in T : k <= y
    <3> HIDE DEF T
    <3> QED BY <1>1, <2>1, LeastIn
  <2>3. k \in Nat /\ k # 0 /\ k <= m /\ k \notin S
    BY <2>2
  <2>4. k - 1 \in Nat /\ k - 1 \in 0 .. m /\ ~(k <= k - 1) /\ k - 1 < m /\ k - 1 + 1 = k
    BY <2>3
  <2>5. k - 1 \in S
    BY <2>2, <2>4
  <2> QED BY <2>3, <2>4, <2>5
<1> QED BY <1>1

\* The n bytes of the stream from byte a on.
From(a, n) == [j \in 1 .. n |-> a + j - 1]

LEMMA FromSeq ==
    ASSUME NEW a \in Nat, NEW n \in Nat
    PROVE  /\ From(a, n) \in Seq(Int) /\ Len(From(a, n)) = n
           /\ \A j \in 1 .. n : From(a, n)[j] = a + j - 1
<1>1. \A j \in 1 .. n : a + j - 1 \in Int
  OBVIOUS
<1> QED BY <1>1 DEF From

\* Bytes that follow one another.
LEMMA FromConcat ==
    ASSUME NEW a \in Nat, NEW n \in Nat, NEW m \in Nat
    PROVE  From(a, n) \o From(a + n, m) = From(a, n + m)
<1> DEFINE u == From(a, n)
           v == From(a + n, m)
           w == From(a, n + m)
<1>1. u \in Seq(Int) /\ Len(u) = n /\ \A j \in 1 .. n : u[j] = a + j - 1
  BY FromSeq
<1>2. v \in Seq(Int) /\ Len(v) = m /\ \A j \in 1 .. m : v[j] = a + n + j - 1
  <2>1. a + n \in Nat
    OBVIOUS
  <2> QED BY <2>1, FromSeq
<1>3. w \in Seq(Int) /\ Len(w) = n + m /\ \A j \in 1 .. n + m : w[j] = a + j - 1
  <2>1. n + m \in Nat
    OBVIOUS
  <2> QED BY <2>1, FromSeq
<1> HIDE DEF u, v, w
<1>4. /\ u \o v \in Seq(Int) /\ Len(u \o v) = n + m
      /\ \A j \in 1 .. n + m : (u \o v)[j] = IF j <= n THEN u[j] ELSE v[j - n]
  BY <1>1, <1>2, ConcatProperties
<1>5. ASSUME NEW j \in 1 .. n + m PROVE (u \o v)[j] = w[j]
  <2>1. CASE j <= n
    BY <1>1, <1>3, <1>4, <2>1
  <2>2. CASE ~(j <= n)
    <3>1. j - n \in 1 .. m
      BY <2>2
    <3>2. v[j - n] = a + n + (j - n) - 1
      BY <1>2, <3>1
    <3>3. (u \o v)[j] = v[j - n]
      BY <1>4, <2>2
    <3>4. w[j] = a + j - 1
      BY <1>3
    <3> QED BY <3>2, <3>3, <3>4
  <2> QED BY <2>1, <2>2
<1>6. u \o v = w
  BY <1>3, <1>4, <1>5, SeqEqual
<1> QED BY <1>6 DEF u, v, w

\* A part of bytes that follow one another.
Cut(a, n, j, k) == SubSeq(From(a, n), j, k)

LEMMA FromSub ==
    ASSUME NEW a \in Nat, NEW n \in Nat, NEW j \in Nat, NEW k \in Nat,
           1 <= j, j <= k + 1, k <= n,
           NEW e \in Nat, e = a + j - 1, NEW d \in Nat, d = k - j + 1
    PROVE  Cut(a, n, j, k) = From(e, d)
<1> DEFINE w == From(a, n)
           u == SubSeq(w, j, k)
           v == From(e, d)
<1>1. w \in Seq(Int) /\ Len(w) = n /\ \A x \in 1 .. n : w[x] = a + x - 1
  BY FromSeq
<1>2. v \in Seq(Int) /\ Len(v) = d /\ \A x \in 1 .. d : v[x] = e + x - 1
  BY FromSeq
<1> HIDE DEF w, v
<1>3. /\ u \in Seq(Int)
      /\ Len(u) = IF j <= k THEN k - j + 1 ELSE 0
      /\ \A x \in 1 .. k - j + 1 : u[x] = w[j + x - 1]
  <2>1. \A x \in j .. k : w[x] \in Int
    BY <1>1
  <2>2. j \in Int /\ k \in Int
    OBVIOUS
  <2> HIDE DEF u
  <2> QED BY <2>1, <2>2, SubSeqProperties DEF u
<1> HIDE DEF u
<1>4. Len(u) = d
  BY <1>3
<1>5. ASSUME NEW x \in 1 .. d PROVE u[x] = v[x]
  <2>1. x \in 1 .. k - j + 1 /\ j + x - 1 \in 1 .. n
    OBVIOUS
  <2>2. u[x] = w[j + x - 1] /\ w[j + x - 1] = a + (j + x - 1) - 1
    BY <1>1, <1>3, <2>1
  <2>3. v[x] = e + x - 1
    BY <1>2
  <2> QED BY <2>2, <2>3
<1>6. u = v
  BY <1>2, <1>3, <1>4, <1>5, SeqEqual
<1> QED BY <1>6 DEF u, v, w, Cut

-----------------------------------------------------------------------------
(* The list of received data.                                                *)

\* An item, whose data is the bytes of the stream up to its next one.
Items == [slot : Nat, next : Nat, data : Seq(Int),
          used : BOOLEAN, complete : BOOLEAN, read : BOOLEAN]
InPlace(it) == /\ Len(it.data) <= it.next
               /\ it.data = From(it.next - Len(it.data), Len(it.data))

IsList(L) ==
    /\ L = [items |-> L.items, count |-> L.count, complete |-> L.complete,
            readpos |-> L.readpos, total |-> L.total]
    /\ L.items \in Seq({it \in Items : InPlace(it)})
    /\ L.complete \in Nat /\ L.readpos \in Nat

\* The byte behind item k of a list that begins with byte b.
Edge(L, b, k) == IF k = 0 THEN b ELSE L.items[k].next

\* The first c items hold the bytes from b on, one where the other ends.
Chain(L, c, b) ==
    /\ b \in Nat /\ b >= 1 /\ c \in 0 .. Len(L.items)
    /\ \A k \in 1 .. c : L.items[k].next - Len(L.items[k].data) = Edge(L, b, k - 1)

\* These are complete, and no other item is; the first r of them are read.
Prefix(L, r, c, b) ==
    /\ Chain(L, c, b) /\ r \in 0 .. c
    /\ \A k \in 1 .. Len(L.items) :
          (L.items[k].complete <=> k <= c) /\ (L.items[k].read <=> k <= r)
    /\ Edge(L, b, c) = L.complete
    /\ Edge(L, b, r) + L.readpos <= L.complete

\* What was read, got, and what the list holds are the bytes from 1 on.
Held(L, got) ==
    \E r, c, b \in Nat :
        Prefix(L, r, c, b) /\ got = From(1, Edge(L, b, r) + L.readpos - 1)

\* What is known of an item of a list.
LEMMA ItemOf ==
    ASSUME NEW L, IsList(L), NEW k \in 1 .. Len(L.items)
    PROVE  /\ L.items[k] \in Items /\ InPlace(L.items[k])
           /\ L.items[k].next \in Nat /\ L.items[k].data \in Seq(Int)
           /\ Len(L.items[k].data) \in Nat
<1>1. L.items \in Seq({it \in Items : InPlace(it)})
  BY DEF IsList
<1>2. L.items[k] \in {it \in Items : InPlace(it)}
  BY <1>1, ElementOfSeq
<1>3. L.items[k] \in Items /\ InPlace(L.items[k])
  BY <1>2
<1>4. L.items[k].next \in Nat /\ L.items[k].data \in Seq(Int)
  BY <1>3 DEF Items
<1>5. Len(L.items[k].data) \in Nat
  BY <1>4, LenProperties
<1> QED BY <1>3, <1>4, <1>5

LEMMA ListParts ==
    ASSUME NEW L, IsList(L)
    PROVE  /\ L.items \in Seq({it \in Items : InPlace(it)}) /\ Len(L.items) \in Nat
           /\ L.complete \in Nat /\ L.readpos \in Nat
<1>1. L.items \in Seq({it \in Items : InPlace(it)}) /\ L.complete \in Nat /\ L.readpos \in Nat
  BY DEF IsList
<1> QED BY <1>1, LenProperties

\* The edges of the complete items grow.
LEMMA Edges ==
    ASSUME NEW L, IsList(L), NEW c, NEW b, Chain(L, c, b)
    PROVE  /\ \A k \in 0 .. c : Edge(L, b, k) \in Nat
           /\ \A j, k \in 0 .. c : j <= k => Edge(L, b, j) <= Edge(L, b, k)
<1>1. /\ b \in Nat /\ c \in Nat /\ c <= Len(L.items) /\ Len(L.items) \in Nat
      /\ \A k \in 1 .. c : L.items[k].next - Len(L.items[k].data) = Edge(L, b, k - 1)
  <2>1. Len(L.items) \in Nat
    BY ListParts
  <2>2. /\ b \in Nat /\ c \in 0 .. Len(L.items)
        /\ \A k \in 1 .. c : L.items[k].next - Len(L.items[k].data) = Edge(L, b, k - 1)
    BY DEF Chain
  <2> QED BY <2>1, <2>2
<1>2. \A k \in 0 .. c : Edge(L, b, k) \in Nat
  <2> TAKE k \in 0 .. c
  <2>1. CASE k = 0
    BY <1>1, <2>1 DEF Edge
  <2>2. CASE k # 0
    <3>1. k \in 1 .. Len(L.items)
      BY <1>1, <2>2
    <3> QED BY <2>2, <3>1, ItemOf DEF Edge
  <2> QED BY <2>1, <2>2
<1>3. ASSUME NEW k \in 1 .. c PROVE Edge(L, b, k - 1) <= Edge(L, b, k)
  <2>1. k \in 1 .. Len(L.items) /\ k # 0
    BY <1>1
  <2>2. L.items[k].next \in Nat /\ Len(L.items[k].data) \in Nat
    BY <2>1, ItemOf
  <2>3. Edge(L, b, k) = L.items[k].next
    BY <2>1 DEF Edge
  <2>4. Edge(L, b, k - 1) = L.items[k].next - Len(L.items[k].data)
    BY <1>1
  <2> QED BY <2>2, <2>3, <2>4
<1>4. ASSUME NEW j \in 0 .. c PROVE \A k \in 0 .. c : j <= k => Edge(L, b, j) <= Edge(L, b, k)
  <2> DEFINE S == {i \in Nat : j + i <= c => Edge(L, b, j) <= Edge(L, b, j + i)}
  <2>1. 0 \in S
    <3>1. Edge(L, b, j) \in Nat /\ j + 0 = j
      BY <1>2
    <3> QED BY <3>1
  <2>2. \A i \in Nat : i < c /\ i \in S => i + 1 \in S
    <3> SUFFICES ASSUME NEW i \in Nat, i \in S, j + (i + 1) <= c
                 PROVE  Edge(L, b, j) <= Edge(L, b, j + (i + 1))
      OBVIOUS
    <3>1. j + i <= c /\ j + i \in 0 .. c /\ j + (i + 1) \in 1 .. c /\ (j + (i + 1)) - 1 = j + i
          /\ j + (i + 1) \in 0 .. c
      BY <1>1
    <3>2. Edge(L, b, j) <= Edge(L, b, j + i)
      BY <3>1
    <3>3. Edge(L, b, j + i) <= Edge(L, b, j + (i + 1))
      BY <1>3, <3>1
    <3>4. Edge(L, b, j) \in Nat /\ Edge(L, b, j + i) \in Nat /\ Edge(L, b, j + (i + 1)) \in Nat
      BY <1>2, <3>1
    <3> QED BY <3>2, <3>3, <3>4
  <2>3. \A i \in 0 .. c : i \in S
    <3> HIDE DEF S
    <3> QED BY <1>1, <2>1, <2>2, Upwards
  <2> TAKE k \in 0 .. c
  <2> HAVE j <= k
  <2>4. k - j \in 0 .. c /\ j + (k - j) = k /\ j + (k - j) <= c
    BY <1>1
  <2>5. k - j \in S
    BY <2>3, <2>4
  <2> QED BY <2>4, <2>5
<1> QED BY <1>2, <1>4

\* The bytes of New items, collected item by item.
Walk(L, n, w) ==
    w = [k \in 0 .. n |->
            IF k = 0 THEN <<>>
            ELSE IF New(L.items[k]) THEN w[k - 1] \o L.items[k].data ELSE w[k - 1]]

LEMMA Walks ==
    ASSUME NEW L, NEW n \in Nat
    PROVE  \E w : Walk(L, n, w)
<1> DEFINE Row(v, k) == IF k = 0 THEN <<>>
                        ELSE IF New(L.items[k]) THEN v[k - 1] \o L.items[k].data ELSE v[k - 1]
           S == {i \in Nat : \E w : w = [k \in 0 .. i |-> Row(w, k)]}
<1>1. 0 \in S
  <2> DEFINE w == [k \in 0 .. 0 |-> <<>>]
  <2>1. w = [k \in 0 .. 0 |-> Row(w, k)]
    OBVIOUS
  <2> QED BY <2>1
<1>2. ASSUME NEW i \in Nat, i \in S PROVE i + 1 \in S
  <2>1. PICK w : w = [k \in 0 .. i |-> Row(w, k)]
    BY <1>2
  <2> DEFINE x == [k \in 0 .. i + 1 |-> IF k = i + 1 THEN Row(w, i + 1) ELSE w[k]]
  <2>2. \A k \in 0 .. i : w[k] = Row(w, k)
    <3> HIDE DEF Row
    <3> QED BY <2>1, Zenon
  <2>3. \A k \in 0 .. i + 1 : x[k] = Row(x, k)
    <3> TAKE k \in 0 .. i + 1
    <3>1. k # 0 => k - 1 \in 0 .. i + 1 /\ k - 1 # i + 1
      OBVIOUS
    <3>2. k # 0 => x[k - 1] = w[k - 1]
      BY <3>1
    <3>3. x[k] = IF k = i + 1 THEN Row(w, i + 1) ELSE w[k]
      OBVIOUS
    <3> HIDE DEF x
    <3>4. Row(x, k) = Row(w, k)
      <4>1. CASE k = 0
        BY <4>1
      <4>2. CASE k # 0
        BY <3>2, <4>2
      <4> QED BY <4>1, <4>2
    <3>5. k # i + 1 => k \in 0 .. i
      OBVIOUS
    <3> HIDE DEF Row
    <3> QED BY <2>2, <3>3, <3>4, <3>5
  <2>4. x = [k \in 0 .. i + 1 |-> Row(x, k)]
    <3> DEFINE y == [k \in 0 .. i + 1 |-> Row(x, k)]
    <3>1. \A k \in 0 .. i + 1 : x[k] = y[k]
      <4> HIDE DEF x, Row
      <4> QED BY <2>3
    <3>2. x = [k \in 0 .. i + 1 |-> x[k]] /\ y = [k \in 0 .. i + 1 |-> y[k]]
      OBVIOUS
    <3> HIDE DEF x, y
    <3>3. x = y
      BY <3>1, <3>2
    <3> QED BY <3>3 DEF y
  <2> HIDE DEF x, Row
  <2> QED BY <2>4
<1>3. \A i \in 0 .. n : i \in S
  <2> HIDE DEF S
  <2> QED BY <1>1, <1>2, Upwards
<1>4. n \in S
  <2> HIDE DEF S
  <2> QED BY <1>3
<1> HIDE DEF Row
<1>5. PICK w : w = [k \in 0 .. n |-> Row(w, k)]
  BY <1>4
<1>6. Walk(L, n, w)
  BY <1>5, Zenon DEF Walk, Row
<1> QED BY <1>6

\* Bytes collects them.
LEMMA BytesWalk ==
    ASSUME NEW L, IsList(L)
    PROVE  /\ Bytes(L)[0] = <<>>
           /\ \A k \in 1 .. Len(L.items) :
                 Bytes(L)[k] = IF New(L.items[k]) THEN Bytes(L)[k - 1] \o L.items[k].data
                               ELSE Bytes(L)[k - 1]
<1> DEFINE W == CHOOSE w : Walk(L, Len(L.items), w)
<1>1. Walk(L, Len(L.items), W)
  <2>1. \E w : Walk(L, Len(L.items), w)
    BY ListParts, Walks
  <2> QED BY <2>1, Zenon
<1>2. Bytes(L) = W
  BY Zenon DEF Bytes, Walk
<1> HIDE DEF W
<1>3. W[0] = <<>>
  <2>1. 0 \in 0 .. Len(L.items)
    BY ListParts
  <2> QED BY <1>1, <2>1 DEF Walk
<1>4. ASSUME NEW k \in 1 .. Len(L.items)
      PROVE  W[k] = IF New(L.items[k]) THEN W[k - 1] \o L.items[k].data ELSE W[k - 1]
  <2>1. k \in 0 .. Len(L.items) /\ k # 0
    BY ListParts
  <2>2. W[k] = IF k = 0 THEN <<>>
               ELSE IF New(L.items[k]) THEN W[k - 1] \o L.items[k].data ELSE W[k - 1]
    BY <1>1, <2>1, Zenon DEF Walk
  <2> QED BY <2>1, <2>2
<1> QED BY <1>2, <1>3, <1>4

LEMMA FromNone ==
    ASSUME NEW a
    PROVE  From(a, 0) = <<>>
  BY DEF From

\* The bytes that are complete and not read are those behind the read ones.
LEMMA BytesUpTo ==
    ASSUME NEW L, IsList(L), NEW r, NEW c, NEW b, Prefix(L, r, c, b)
    PROVE  /\ \A k \in 0 .. r : Bytes(L)[k] = <<>>
           /\ \A k \in r .. c :
                 Bytes(L)[k] = From(Edge(L, b, r), Edge(L, b, k) - Edge(L, b, r))
           /\ \A k \in c .. Len(L.items) : Bytes(L)[k] = Bytes(L)[c]
<1> DEFINE B == Bytes(L)
           n == Len(L.items)
           a == Edge(L, b, r)
<1>1. /\ n \in Nat /\ c \in Nat /\ r \in Nat /\ r <= c /\ c <= n
      /\ \A k \in 1 .. n :
            (L.items[k].complete <=> k <= c) /\ (L.items[k].read <=> k <= r)
      /\ \A k \in 1 .. c : L.items[k].next - Len(L.items[k].data) = Edge(L, b, k - 1)
  BY ListParts DEF Prefix, Chain
<1>2. /\ B[0] = <<>>
      /\ \A k \in 1 .. n : B[k] = IF New(L.items[k]) THEN B[k - 1] \o L.items[k].data
                                ELSE B[k - 1]
  BY BytesWalk
<1> HIDE DEF B, n
<1>3. \A k \in 1 .. n : New(L.items[k]) <=> r < k /\ k <= c
  BY <1>1 DEF New
<1>4. \A k \in 0 .. r : k \in {i \in Nat : i <= r => B[i] = <<>>}
  <2> DEFINE S == {i \in Nat : i <= r => B[i] = <<>>}
  <2>1. 0 \in S
    BY <1>2
  <2>2. ASSUME NEW i \in Nat, i < r, i \in S PROVE i + 1 \in S
    <3>1. i + 1 \in 1 .. n /\ ~(r < i + 1) /\ (i + 1) - 1 = i /\ i <= r
      BY <1>1, <2>2
    <3>2. B[i + 1] = B[i]
      BY <1>2, <1>3, <3>1
    <3> QED BY <2>2, <3>1, <3>2
  <2> HIDE DEF S
  <2>3. \A k \in 0 .. r : k \in S
    BY <1>1, <2>1, <2>2, Upwards
  <2> QED BY <2>3 DEF S
<1>5. \A k \in 0 .. r : B[k] = <<>>
  BY <1>4
<1>6. /\ \A k \in 0 .. c : Edge(L, b, k) \in Nat
      /\ \A j, k \in 0 .. c : j <= k => Edge(L, b, j) <= Edge(L, b, k)
  BY Edges DEF Prefix
<1>7. a \in Nat
  BY <1>1, <1>6
<1> HIDE DEF a
<1> DEFINE Good(k) == B[k] = From(a, Edge(L, b, k) - a)
<1>8. \A k \in r .. c : Good(k)
  <2> DEFINE S == {i \in Nat : i <= c - r => Good(r + i)}
  <2>1. 0 \in S
    <3>1. r + 0 = r /\ r \in 0 .. r /\ Edge(L, b, r) - a = 0
      BY <1>1, <1>7 DEF a
    <3>2. B[r] = From(a, 0)
      BY <1>5, <3>1, FromNone
    <3> QED BY <3>1, <3>2
  <2>2. ASSUME NEW i \in Nat, i < c - r, i \in S PROVE i + 1 \in S
    <3> DEFINE k == r + (i + 1)
               e == Edge(L, b, k)
               d == Edge(L, b, k - 1)
    <3>1. /\ k \in 1 .. n /\ k \in 1 .. c /\ r < k /\ k <= c /\ k - 1 = r + i /\ k # 0
          /\ i <= c - r /\ r \in 0 .. c /\ k \in 0 .. c /\ k - 1 \in 0 .. c /\ r <= k - 1 /\ k - 1 <= k
      BY <1>1, <2>2
    <3> HIDE DEF k
    <3>2. B[k - 1] = From(a, d - a)
      BY <2>2, <3>1
    <3>3. d \in Nat /\ e \in Nat /\ a <= d /\ d <= e
      BY <1>6, <3>1 DEF a
    <3>4. L.items[k].next = e
      BY <3>1 DEF Edge
    <3>5. /\ Len(L.items[k].data) \in Nat /\ Len(L.items[k].data) = e - d
          /\ L.items[k].data = From(d, e - d)
      <4>1. Len(L.items[k].data) \in Nat /\ InPlace(L.items[k])
        BY <3>1, ItemOf DEF n
      <4>2. e - Len(L.items[k].data) = d
        BY <1>1, <3>1, <3>4
      <4> HIDE DEF d, e
      <4>3. Len(L.items[k].data) = e - d
        BY <3>3, <4>1, <4>2
      <4>4. L.items[k].data = From(d, Len(L.items[k].data))
        BY <3>4, <4>1, <4>2 DEF InPlace
      <4> QED BY <4>1, <4>3, <4>4
    <3> HIDE DEF d, e
    <3>6. B[k] = B[k - 1] \o L.items[k].data
      BY <1>2, <1>3, <3>1
    <3>7. d - a \in Nat /\ e - d \in Nat /\ a + (d - a) = d /\ (d - a) + (e - d) = e - a
      BY <1>7, <3>3
    <3>8. From(a, d - a) \o From(d, e - d) = From(a, e - a)
      <4>1. From(a, d - a) \o From(a + (d - a), e - d) = From(a, (d - a) + (e - d))
        BY ONLY <1>7, <3>7, FromConcat
      <4> QED BY ONLY <3>7, <4>1
    <3>9. Good(k)
      BY <3>2, <3>5, <3>6, <3>8 DEF e
    <3> QED BY <3>9 DEF k
  <2>3. \A i \in 0 .. c - r : i \in S
    <3>1. c - r \in Nat
      BY <1>1
    <3> HIDE DEF S
    <3> QED BY <2>1, <2>2, <3>1, Upwards
  <2> TAKE k \in r .. c
  <2>4. k - r \in 0 .. c - r /\ r + (k - r) = k
    BY <1>1
  <2> HIDE DEF Good
  <2>5. k - r \in S
    BY <2>3, <2>4
  <2>6. k - r <= c - r
    BY <2>4
  <2> QED BY <2>4, <2>5, <2>6
<1>9. \A k \in c .. n : B[k] = B[c]
  <2> DEFINE S == {i \in Nat : i <= n - c => B[c + i] = B[c]}
  <2>1. 0 \in S
    BY <1>1
  <2>2. ASSUME NEW i \in Nat, i < n - c, i \in S PROVE i + 1 \in S
    <3>1. /\ c + (i + 1) \in 1 .. n /\ ~(c + (i + 1) <= c) /\ (c + (i + 1)) - 1 = c + i /\ i <= n - c
      BY <1>1, <2>2
    <3>2. B[c + (i + 1)] = B[c + i]
      BY <1>2, <1>3, <3>1
    <3> QED BY <2>2, <3>1, <3>2
  <2>3. \A i \in 0 .. n - c : i \in S
    <3>1. n - c \in Nat
      BY <1>1
    <3> HIDE DEF S
    <3> QED BY <2>1, <2>2, <3>1, Upwards
  <2> TAKE k \in c .. n
  <2>4. k - c \in 0 .. n - c /\ c + (k - c) = k
    BY <1>1
  <2>5. k - c \in S
    BY <2>3, <2>4
  <2>6. k - c <= n - c
    BY <2>4
  <2> QED BY <2>4, <2>5, <2>6
<1> QED BY <1>5, <1>8, <1>9 DEF B, n, a

\* What a program can read.
LEMMA UnreadBytes ==
    ASSUME NEW L, IsList(L), NEW r, NEW c, NEW b, Prefix(L, r, c, b)
    PROVE  LET p == Edge(L, b, r) + L.readpos
           IN  p \in Nat /\ p >= 1 /\ p <= L.complete /\ Unread(L) = From(p, L.complete - p)
<1> DEFINE n == Len(L.items)
           a == Edge(L, b, r)
           e == L.complete
           i == L.readpos
           m == e - a
<1>1. /\ n \in Nat /\ c \in Nat /\ r \in Nat /\ r <= c /\ c <= n /\ i \in Nat
      /\ b >= 1 /\ b \in Nat /\ Edge(L, b, c) = e /\ a + i <= e /\ e \in Nat
  <2>1. n \in Nat /\ i \in Nat /\ e \in Nat
    BY ListParts
  <2>2. c \in 0 .. n /\ r \in 0 .. c /\ b \in Nat /\ b >= 1 /\ Edge(L, b, c) = e /\ a + i <= e
    BY DEF Prefix, Chain
  <2> QED BY <2>1, <2>2
<1>2. a \in Nat /\ b <= a
  <2>1. r \in 0 .. c /\ 0 \in 0 .. c /\ 0 <= r
    BY <1>1
  <2>2. Edge(L, b, 0) = b
    BY DEF Edge
  <2> QED BY <2>1, <2>2, Edges DEF Prefix
<1>3. Bytes(L)[n] = From(a, m)
  <2>1. c \in r .. c /\ n \in c .. n
    BY <1>1
  <2>2. Bytes(L)[n] = Bytes(L)[c]
    BY <2>1, BytesUpTo
  <2>3. Bytes(L)[c] = From(a, Edge(L, b, c) - a)
    BY <2>1, BytesUpTo
  <2> QED BY <1>1, <2>2, <2>3
<1>4. m \in Nat /\ i <= m /\ a + i \in Nat /\ a + i >= 1 /\ m - i = e - (a + i)
  BY <1>1, <1>2
<1>5. Unread(L) = SubSeq(Bytes(L)[n], i + 1, Len(Bytes(L)[n]))
  BY DEF Unread
<1> HIDE DEF n, a, e, i, m
<1>6. Len(From(a, m)) = m
  BY <1>2, <1>4, FromSeq
<1>7. SubSeq(From(a, m), i + 1, m) = From(a + i, m - i)
  <2>1. a \in Nat /\ m \in Nat /\ i \in Nat /\ i <= m
    BY <1>1, <1>2, <1>4
  <2>2. PICK j \in Nat, x \in Nat, d \in Nat : j = i + 1 /\ x = a + i /\ d = m - i
    BY ONLY <2>1
  <2>3. 1 <= j /\ j <= m + 1 /\ m <= m /\ x = a + j - 1 /\ d = m - j + 1
    BY ONLY <2>1, <2>2
  <2>4. Cut(a, m, j, m) = From(x, d)
    BY ONLY <2>1, <2>3, j \in Nat, x \in Nat, d \in Nat, FromSub
  <2> QED BY ONLY <2>2, <2>4, Zenon DEF Cut
<1>8. Unread(L) = From(a + i, e - (a + i))
  BY <1>3, <1>4, <1>5, <1>6, <1>7
<1> QED BY <1>1, <1>4, <1>8 DEF a, e, i

Placed == {it \in Items : InPlace(it)}

\* A part of a sequence.
LEMMA Part ==
    ASSUME NEW S, NEW s \in Seq(S), NEW i \in Nat, NEW j \in Nat,
           1 <= i, i <= j + 1, j <= Len(s)
    PROVE  /\ SubSeq(s, i, j) \in Seq(S) /\ Len(SubSeq(s, i, j)) = j - i + 1
           /\ \A k \in 1 .. j - i + 1 : SubSeq(s, i, j)[k] = s[k + i - 1]
<1> DEFINE u == SubSeq(s, i, j)
<1>1. i \in Int /\ j \in Int /\ \A k \in i .. j : s[k] \in S
  <2>1. Len(s) \in Nat
    BY LenProperties
  <2>2. ASSUME NEW k \in i .. j PROVE s[k] \in S
    <3>1. k \in 1 .. Len(s)
      BY <2>1
    <3> QED BY <3>1, ElementOfSeq
  <2> QED BY <2>2
<1>2. /\ u \in Seq(S) /\ Len(u) = IF i <= j THEN j - i + 1 ELSE 0
      /\ \A k \in 1 .. j - i + 1 : u[k] = s[i + k - 1]
  BY <1>1, SubSeqProperties
<1> HIDE DEF u
<1>3. Len(u) = j - i + 1
  BY <1>2
<1>4. ASSUME NEW k \in 1 .. j - i + 1 PROVE u[k] = s[k + i - 1]
  <2>1. i + k - 1 = k + i - 1
    OBVIOUS
  <2> QED BY <1>2, <2>1
<1> QED BY <1>2, <1>3, <1>4 DEF u

\* The list without the items from i to j.
LEMMA Released ==
    ASSUME NEW L, IsList(L), NEW i \in Nat, NEW j \in Nat, NEW d \in Nat,
           1 <= i, i <= j, j <= Len(L.items), d = j - i + 1,
           NEW R, R = Release(L, i, j)
    PROVE  /\ IsList(R) /\ Len(R.items) = Len(L.items) - d
           /\ R.complete = L.complete /\ R.readpos = L.readpos
           /\ \A k \in 1 .. Len(L.items) - d :
                 R.items[k] = IF k < i THEN L.items[k] ELSE L.items[k + d]
<1> DEFINE n == Len(L.items)
           u == SubSeq(L.items, 1, i - 1)
           v == SubSeq(L.items, j + 1, n)
<1>1. /\ L.items \in Seq(Placed) /\ n \in Nat
      /\ \A k \in 1 .. n : L.items[k] \in Placed
  <2>1. L.items \in Seq(Placed) /\ n \in Nat
    BY ListParts DEF Placed
  <2>2. \A k \in 1 .. n : L.items[k] \in Placed
    BY <2>1, ElementOfSeq
  <2> QED BY <2>1, <2>2
<1>2. /\ i \in Nat /\ j \in Nat /\ 1 <= i /\ i <= j /\ j <= n /\ d \in Nat /\ d = j - i + 1
      /\ i - 1 \in Nat /\ n - d \in Nat /\ n - j \in Nat
  BY <1>1
<1>3. /\ R.items = u \o v /\ R.complete = L.complete /\ R.readpos = L.readpos
      /\ R = [items |-> R.items, count |-> R.count, complete |-> R.complete,
              readpos |-> R.readpos, total |-> R.total]
  <2> DEFINE x == L.count - (j - i + 1)
             y == L.total - Size(SubSeq(L.items, i, j))
  <2>1. R = [L EXCEPT !.items = u \o v, !.count = x, !.total = y]
    BY DEF Release
  <2>2. L = [items |-> L.items, count |-> L.count, complete |-> L.complete,
             readpos |-> L.readpos, total |-> L.total]
    BY DEF IsList
  <2> HIDE DEF u, v, x, y
  <2> QED BY ONLY <2>1, <2>2
<1>4. /\ u \in Seq(Placed) /\ Len(u) = i - 1 /\ \A k \in 1 .. i - 1 : u[k] = L.items[k]
  <2>1. /\ 1 \in Nat /\ i - 1 \in Nat /\ 1 <= 1 /\ 1 <= i - 1 + 1 /\ i - 1 <= n
        /\ i - 1 - 1 + 1 = i - 1
    BY <1>1, <1>2
  <2>2. /\ u \in Seq(Placed) /\ Len(u) = i - 1 - 1 + 1
        /\ \A k \in 1 .. i - 1 - 1 + 1 : u[k] = L.items[k + 1 - 1]
    BY <1>1, <2>1, Part
  <2> HIDE DEF u
  <2> QED BY <2>1, <2>2
<1>5. /\ v \in Seq(Placed) /\ Len(v) = n - j /\ \A k \in 1 .. n - j : v[k] = L.items[k + j]
  <2>1. j + 1 \in Nat /\ 1 <= j + 1 /\ j + 1 <= n + 1 /\ n <= n /\ n - (j + 1) + 1 = n - j
    BY <1>1, <1>2
  <2>2. /\ v \in Seq(Placed) /\ Len(v) = n - (j + 1) + 1
        /\ \A k \in 1 .. n - (j + 1) + 1 : v[k] = L.items[k + (j + 1) - 1]
    BY <1>1, <2>1, Part
  <2> HIDE DEF v, n
  <2>3. ASSUME NEW k \in 1 .. n - j PROVE v[k] = L.items[k + j]
    <3>1. k + (j + 1) - 1 = k + j
      BY <1>1, <1>2
    <3> QED BY <2>1, <2>2, <3>1
  <2> QED BY <2>1, <2>2, <2>3
<1> HIDE DEF u, v, n
<1>6. /\ u \o v \in Seq(Placed) /\ Len(u \o v) = (i - 1) + (n - j)
      /\ \A k \in 1 .. (i - 1) + (n - j) :
            (u \o v)[k] = IF k <= i - 1 THEN u[k] ELSE v[k - (i - 1)]
  <2>1. /\ u \o v \in Seq(Placed) /\ Len(u \o v) = Len(u) + Len(v)
        /\ \A k \in 1 .. Len(u) + Len(v) : (u \o v)[k] = IF k <= Len(u) THEN u[k] ELSE v[k - Len(u)]
    BY ONLY <1>4, <1>5, ConcatProperties, Zenon
  <2> QED BY ONLY <1>4, <1>5, <2>1
<1>7. (i - 1) + (n - j) = n - d
  BY <1>1, <1>2
<1>8. ASSUME NEW k \in 1 .. n - d
      PROVE  R.items[k] = IF k < i THEN L.items[k] ELSE L.items[k + d]
  <2>1. (u \o v)[k] = IF k <= i - 1 THEN u[k] ELSE v[k - (i - 1)]
    BY <1>6, <1>7
  <2>2. CASE k < i
    <3>1. k \in 1 .. i - 1 /\ k <= i - 1
      BY <1>2, <2>2
    <3> QED BY <1>3, <1>4, <2>1, <2>2, <3>1
  <2>3. CASE ~(k < i)
    <3>0. /\ n \in Nat /\ i \in Nat /\ j \in Nat /\ i <= j /\ j <= n /\ d = j - i + 1
          /\ k \in Nat /\ 1 <= k /\ k <= n - d /\ i <= k
      BY <1>1, <1>2, <2>3
    <3>1. k - (i - 1) \in 1 .. n - j /\ ~(k <= i - 1) /\ k - (i - 1) + j = k + d
      BY ONLY <3>0
    <3>2. v[k - (i - 1)] = L.items[k + d]
      BY <1>5, <3>1
    <3> QED BY <1>3, <2>1, <2>3, <3>1, <3>2
  <2> QED BY <2>2, <2>3
<1>9. IsList(R)
  <2>1. R.items \in Seq(Placed)
    BY <1>3, <1>6
  <2>2. R.complete \in Nat /\ R.readpos \in Nat
    BY <1>3, ListParts
  <2> QED BY <1>3, <2>1, <2>2 DEF IsList, Placed
<1> QED BY <1>3, <1>6, <1>7, <1>8, <1>9 DEF n

\* GCTCPDataList gives back what was read and nothing else.
LEMMA GCKeeps ==
    ASSUME NEW L, IsList(L), NEW got, Held(L, got)
    PROVE  IsList(GC(L)) /\ Held(GC(L), got) /\ GC(L).complete = L.complete
<1>1. PICK r, c, b \in Nat : Prefix(L, r, c, b) /\ got = From(1, Edge(L, b, r) + L.readpos - 1)
  BY DEF Held
<1> DEFINE front == {k \in 0 .. Len(L.items) : \A j \in 1 .. k : L.items[j].read}
           R == Release(L, 1, r)
<1>2. /\ Len(L.items) \in Nat /\ r \in Nat /\ c \in Nat /\ b \in Nat
      /\ r <= c /\ c <= Len(L.items) /\ b >= 1
      /\ \A k \in 1 .. Len(L.items) :
            (L.items[k].complete <=> k <= c) /\ (L.items[k].read <=> k <= r)
      /\ \A k \in 1 .. c : L.items[k].next - Len(L.items[k].data) = Edge(L, b, k - 1)
      /\ Edge(L, b, c) = L.complete /\ Edge(L, b, r) + L.readpos <= L.complete
  <2>1. Len(L.items) \in Nat
    BY ListParts
  <2>2. c \in 0 .. Len(L.items) /\ r \in 0 .. c
    BY <1>1 DEF Prefix, Chain
  <2>3. r <= c /\ c <= Len(L.items)
    BY <2>1, <2>2
  <2> QED BY <1>1, <2>1, <2>3 DEF Prefix, Chain
<1>3. r \in front /\ \A j \in front : j <= r
  <2>1. r \in front
    BY <1>2
  <2>2. ASSUME NEW j \in front, ~(j <= r) PROVE FALSE
    <3>1. r + 1 \in 1 .. j /\ r + 1 \in 1 .. Len(L.items) /\ ~(r + 1 <= r)
      BY <1>2, <2>2
    <3>2. L.items[r + 1].read
      BY <2>2, <3>1
    <3> QED BY <1>2, <3>1, <3>2
  <2> QED BY <2>1, <2>2
<1>4. GC(L) = IF r = 0 THEN L ELSE R
  <2> DEFINE n == CHOOSE k \in front : \A j \in front : j <= k
  <2>1. n \in front /\ \A j \in front : j <= n
    BY <1>3
  <2>2. GC(L) = IF n = 0 THEN L ELSE Release(L, 1, n)
    BY DEF GC
  <2> HIDE DEF n
  <2>3. n = r
    <3>1. n <= r /\ r <= n /\ n \in Nat
      BY <1>3, <2>1
    <3> QED BY <1>2, <3>1
  <2> HIDE DEF R
  <2> QED BY <2>2, <2>3 DEF R
<1> HIDE DEF front
<1>5. CASE r = 0
  BY <1>4, <1>5
<1>6. CASE r # 0
  <2> DEFINE a == Edge(L, b, r)
  <2>1. /\ IsList(R) /\ Len(R.items) = Len(L.items) - r
        /\ R.complete = L.complete /\ R.readpos = L.readpos
        /\ \A k \in 1 .. Len(L.items) - r : R.items[k] = L.items[k + r]
    <3>0. \A k \in 1 .. Len(L.items) - r : ~(k < 1)
      BY <1>2
    <3>1. 1 <= 1 /\ 1 <= r /\ r <= Len(L.items) /\ r = r - 1 + 1 /\ 1 \in Nat /\ r \in Nat
      BY <1>2, <1>6
    <3>2. /\ IsList(R) /\ Len(R.items) = Len(L.items) - r
          /\ R.complete = L.complete /\ R.readpos = L.readpos
          /\ \A k \in 1 .. Len(L.items) - r :
                R.items[k] = IF k < 1 THEN L.items[k] ELSE L.items[k + r]
      BY <3>1, Released
    <3> HIDE DEF R
    <3> QED BY <3>0, <3>2, Zenon
  <2> HIDE DEF R
  <2>2. a \in Nat /\ a >= 1
    <3>1. r \in 0 .. c /\ 0 \in 0 .. c /\ 0 <= r /\ Edge(L, b, 0) = b
      BY <1>2 DEF Edge
    <3>2. a \in Nat /\ b <= a
      BY <1>1, <3>1, Edges DEF Prefix
    <3> QED BY <1>2, <3>2
  <2>3. ASSUME NEW k \in 0 .. c - r PROVE Edge(R, a, k) = Edge(L, b, k + r)
    <3>1. CASE k = 0
      BY <3>1 DEF Edge
    <3>2. CASE k # 0
      <4>1. k \in 1 .. Len(L.items) - r /\ k + r # 0
        BY <1>2, <3>2
      <4> QED BY <2>1, <3>2, <4>1 DEF Edge
    <3> QED BY <3>1, <3>2
  <2>4. c - r \in Nat /\ c - r \in 0 .. Len(R.items) /\ 0 \in 0 .. c - r /\ c - r + r = c /\ 0 + r = r
    BY <1>2, <2>1
  <2>5. ASSUME NEW k \in 1 .. c - r
        PROVE  R.items[k].next - Len(R.items[k].data) = Edge(R, a, k - 1)
    <3>1. /\ k \in 1 .. Len(L.items) - r /\ k + r \in 1 .. c /\ k - 1 \in 0 .. c - r
          /\ k + r - 1 = k - 1 + r
      BY <1>2
    <3>2. R.items[k] = L.items[k + r]
      BY <2>1, <3>1
    <3>3. Edge(R, a, k - 1) = Edge(L, b, k + r - 1)
      BY <2>3, <3>1
    <3> QED BY <1>2, <3>1, <3>2, <3>3
  <2>6. ASSUME NEW k \in 1 .. Len(R.items)
        PROVE  (R.items[k].complete <=> k <= c - r) /\ (R.items[k].read <=> k <= 0)
    <3>1. /\ k \in 1 .. Len(L.items) - r /\ k + r \in 1 .. Len(L.items)
          /\ (k + r <= c <=> k <= c - r) /\ (k + r <= r <=> k <= 0)
      BY <1>2, <2>1
    <3> QED BY <1>2, <2>1, <3>1
  <2>7. Edge(R, a, c - r) = L.complete /\ Edge(R, a, 0) = a
    <3>1. c - r \in 0 .. c - r
      BY <2>4
    <3>2. Edge(R, a, c - r) = Edge(L, b, c - r + r)
      BY <2>3, <3>1
    <3> QED BY <1>2, <2>4, <3>2 DEF Edge
  <2>8. Prefix(R, 0, c - r, a)
    <3>1. Chain(R, c - r, a)
      BY <2>2, <2>4, <2>5 DEF Chain
    <3> HIDE DEF a
    <3> QED BY <1>2, <2>1, <2>4, <2>6, <2>7, <3>1 DEF Prefix, a
  <2>9. Held(R, got)
    <3>1. got = From(1, Edge(R, a, 0) + R.readpos - 1)
      BY <1>1, <2>1, <2>7
    <3>2. 0 \in Nat
      OBVIOUS
    <3> HIDE DEF a
    <3> QED BY <2>2, <2>4, <2>8, <3>1, <3>2 DEF Held
  <2> QED BY <1>4, <1>6, <2>1, <2>9
<1> QED BY <1>5, <1>6

\* What Prefix says.
LEMMA PrefixParts ==
    ASSUME NEW L, IsList(L), NEW r, NEW c, NEW b, Prefix(L, r, c, b)
    PROVE  /\ Len(L.items) \in Nat /\ r \in Nat /\ c \in Nat /\ b \in Nat
           /\ r <= c /\ c <= Len(L.items) /\ b >= 1
           /\ L.readpos \in Nat /\ L.complete \in Nat
           /\ \A k \in 1 .. Len(L.items) :
                 (L.items[k].complete <=> k <= c) /\ (L.items[k].read <=> k <= r)
           /\ \A k \in 1 .. c : L.items[k].next - Len(L.items[k].data) = Edge(L, b, k - 1)
           /\ Edge(L, b, c) = L.complete /\ Edge(L, b, r) + L.readpos <= L.complete
           /\ \A k \in 0 .. c : Edge(L, b, k) \in Nat /\ b <= Edge(L, b, k)
                                 /\ Edge(L, b, k) <= L.complete
<1>1. Len(L.items) \in Nat /\ L.readpos \in Nat /\ L.complete \in Nat
  BY ListParts
<1>2. /\ c \in 0 .. Len(L.items) /\ r \in 0 .. c /\ b \in Nat /\ b >= 1
      /\ \A k \in 1 .. Len(L.items) :
            (L.items[k].complete <=> k <= c) /\ (L.items[k].read <=> k <= r)
      /\ \A k \in 1 .. c : L.items[k].next - Len(L.items[k].data) = Edge(L, b, k - 1)
      /\ Edge(L, b, c) = L.complete /\ Edge(L, b, r) + L.readpos <= L.complete
  BY DEF Prefix, Chain
<1>3. r \in Nat /\ c \in Nat /\ r <= c /\ c <= Len(L.items)
  BY <1>1, <1>2
<1>4. ASSUME NEW k \in 0 .. c
      PROVE  Edge(L, b, k) \in Nat /\ b <= Edge(L, b, k) /\ Edge(L, b, k) <= L.complete
  <2>1. 0 \in 0 .. c /\ c \in 0 .. c /\ 0 <= k /\ k <= c /\ Edge(L, b, 0) = b
    BY <1>3 DEF Edge
  <2>2. Chain(L, c, b)
    BY DEF Prefix
  <2>3. /\ Edge(L, b, k) \in Nat /\ Edge(L, b, 0) <= Edge(L, b, k)
        /\ Edge(L, b, k) <= Edge(L, b, c)
    BY <2>1, <2>2, Edges
  <2> QED BY <1>2, <2>1, <2>3
<1> QED BY <1>1, <1>2, <1>3, <1>4

\* The item that a full list gives up is not complete.
LEMMA DropKeeps ==
    ASSUME NEW L, IsList(L), NEW got, Held(L, got), NEW rnext \in Nat
    PROVE  /\ IsList(DropLast(L, rnext)) /\ Held(DropLast(L, rnext), got)
           /\ DropLast(L, rnext).complete = L.complete
<1>0. PICK n \in Nat : n = Len(L.items)
  BY ListParts
<1> DEFINE R == Release(L, n, n)
<1>1. CASE ~(L.items # <<>> /\ L.count >= MAX_ITEM
             /\ Last(L.items).next > rnext /\ L.complete < rnext)
  BY <1>1 DEF DropLast
<1>2. CASE /\ L.items # <<>> /\ L.count >= MAX_ITEM
           /\ Last(L.items).next > rnext /\ L.complete < rnext
  <2>1. DropLast(L, rnext) = R
    BY <1>0, <1>2 DEF DropLast
  <2>2. PICK r, c, b : Prefix(L, r, c, b) /\ got = From(1, Edge(L, b, r) + L.readpos - 1)
    BY DEF Held
  <2>3. /\ n \in Nat /\ r \in Nat /\ c \in Nat /\ b \in Nat /\ r <= c /\ c <= n /\ b >= 1
        /\ L.readpos \in Nat /\ L.complete \in Nat
        /\ \A k \in 1 .. n : (L.items[k].complete <=> k <= c) /\ (L.items[k].read <=> k <= r)
        /\ \A k \in 1 .. c : L.items[k].next - Len(L.items[k].data) = Edge(L, b, k - 1)
        /\ Edge(L, b, c) = L.complete /\ Edge(L, b, r) + L.readpos <= L.complete
    BY <1>0, <2>2, PrefixParts
  <2>4. n >= 1 /\ n \in 1 .. n
    <3>1. n # 0
      <4>1. L.items \in Seq(Placed)
        BY ListParts DEF Placed
      <4> QED BY <1>0, <1>2, <4>1, EmptySeq
    <3> QED BY <3>1
  <2>5. L.items[n].next > rnext /\ L.complete < rnext
    BY <1>0, <1>2 DEF Last
  <2>6. c <= n - 1
    <3>1. CASE c = n
      <4>1. L.complete = L.items[n].next
        BY <2>3, <2>4, <3>1 DEF Edge
      <4> QED BY <2>3, <2>5, <4>1
    <3>2. CASE c # n
      BY <2>3, <3>2
    <3> QED BY <3>1, <3>2
  <2>7. /\ IsList(R) /\ Len(R.items) = n - 1
        /\ R.complete = L.complete /\ R.readpos = L.readpos
        /\ \A k \in 1 .. n - 1 : R.items[k] = L.items[k]
    <3>1. n \in Nat /\ 1 <= n /\ n <= n /\ n - n + 1 = 1 /\ 1 \in Nat
      BY <2>3, <2>4
    <3>2. /\ IsList(R) /\ Len(R.items) = n - 1
          /\ R.complete = L.complete /\ R.readpos = L.readpos
          /\ \A k \in 1 .. n - 1 :
                R.items[k] = IF k < n THEN L.items[k] ELSE L.items[k + 1]
      <4>1. n <= Len(L.items) /\ R = Release(L, n, n)
        BY <1>0
      <4> HIDE DEF R
      <4>2. /\ IsList(R) /\ Len(R.items) = Len(L.items) - 1
            /\ R.complete = L.complete /\ R.readpos = L.readpos
            /\ \A k \in 1 .. Len(L.items) - 1 :
                  R.items[k] = IF k < n THEN L.items[k] ELSE L.items[k + 1]
        BY ONLY <3>1, <4>1, IsList(L), n \in Nat, Released
      <4> QED BY <1>0, <4>2
    <3> HIDE DEF R
    <3> QED BY <2>3, <3>1, <3>2
  <2> HIDE DEF R
  <2>8. ASSUME NEW k \in 0 .. c PROVE Edge(R, b, k) = Edge(L, b, k)
    <3>1. k # 0 => k \in 1 .. n - 1
      BY <2>3, <2>6
    <3> QED BY <2>7, <3>1 DEF Edge
  <2>9. Prefix(R, r, c, b)
    <3>1. Chain(R, c, b)
      <4>1. c \in 0 .. Len(R.items)
        BY <2>3, <2>6, <2>7
      <4>2. ASSUME NEW k \in 1 .. c
            PROVE  R.items[k].next - Len(R.items[k].data) = Edge(R, b, k - 1)
        <5>1. k \in 1 .. n - 1 /\ k - 1 \in 0 .. c
          BY <2>3, <2>6
        <5> QED BY <2>3, <2>7, <2>8, <5>1
      <4> QED BY <2>3, <4>1, <4>2 DEF Chain
    <3>2. ASSUME NEW k \in 1 .. Len(R.items)
          PROVE  (R.items[k].complete <=> k <= c) /\ (R.items[k].read <=> k <= r)
      <4>1. k \in 1 .. n - 1 /\ k \in 1 .. n
        BY <2>3, <2>7
      <4>2. R.items[k] = L.items[k]
        BY <2>7, <4>1
      <4> QED BY <2>3, <4>1, <4>2
    <3>3. r \in 0 .. c /\ c \in 0 .. c
      BY <2>3
    <3>4. Edge(R, b, c) = R.complete /\ Edge(R, b, r) + R.readpos <= R.complete
      BY <2>3, <2>7, <2>8, <3>3
    <3> QED BY <3>1, <3>2, <3>3, <3>4 DEF Prefix
  <2>10. got = From(1, Edge(R, b, r) + R.readpos - 1)
    <3>1. r \in 0 .. c
      BY <2>3
    <3> QED BY <2>2, <2>7, <2>8, <3>1
  <2>11. Held(R, got)
    BY <2>3, <2>9, <2>10 DEF Held
  <2> QED BY <2>1, <2>7, <2>11
<1> QED BY <1>1, <1>2

\* One sequence is the other with an element more at place i.
Widened(t, s, i) ==
    /\ Len(t) = Len(s) + 1
    /\ \A k \in 1 .. Len(s) + 1 : k # i => t[k] = IF k < i THEN s[k] ELSE s[k - 1]

LEMMA Inserted ==
    ASSUME NEW S, NEW s \in Seq(S), NEW e \in S, NEW i \in Nat, 1 <= i, i <= Len(s),
           NEW t, t = InsertAt(s, i, e)
    PROVE  t \in Seq(S) /\ t[i] = e /\ Widened(t, s, i)
<1> DEFINE n == Len(s)
           u == SubSeq(s, 1, i - 1)
           w == <<e>>
           v == SubSeq(s, i, n)
           x == u \o w
<1>1. n \in Nat
  BY LenProperties
<1>2. t = x \o v
  BY DEF InsertAt
<1>3. u \in Seq(S) /\ Len(u) = i - 1 /\ \A k \in 1 .. i - 1 : u[k] = s[k]
  <2>1. 1 <= i - 1 + 1 /\ 1 <= 1 /\ 1 \in Nat /\ i - 1 \in Nat /\ i - 1 <= n /\ i - 1 - 1 + 1 = i - 1
        /\ \A k \in 1 .. i - 1 : k + 1 - 1 = k
    BY <1>1
  <2>2. /\ u \in Seq(S) /\ Len(u) = i - 1 - 1 + 1
        /\ \A k \in 1 .. i - 1 - 1 + 1 : u[k] = s[k + 1 - 1]
    BY <2>1, Part
  <2> HIDE DEF u
  <2> QED BY <2>1, <2>2
<1>4. v \in Seq(S) /\ Len(v) = n - i + 1 /\ \A k \in 1 .. n - i + 1 : v[k] = s[k + i - 1]
  <2>1. i <= n + 1 /\ n <= n
    BY <1>1
  <2> QED BY <1>1, <2>1, Part
<1>5. w \in Seq(S) /\ Len(w) = 1 /\ w[1] = e
  OBVIOUS
<1> HIDE DEF u, v, w, n
<1>6. /\ x \in Seq(S) /\ Len(x) = i
      /\ \A k \in 1 .. i : x[k] = IF k <= i - 1 THEN u[k] ELSE w[k - (i - 1)]
  <2>1. /\ u \o w \in Seq(S) /\ Len(u \o w) = Len(u) + Len(w)
        /\ \A k \in 1 .. Len(u) + Len(w) : (u \o w)[k] = IF k <= Len(u) THEN u[k] ELSE w[k - Len(u)]
    BY ONLY <1>3, <1>5, ConcatProperties, Zenon
  <2>2. Len(u) + Len(w) = i /\ Len(u) = i - 1
    BY <1>3, <1>5
  <2> QED BY <2>1, <2>2
<1> HIDE DEF x
<1>7. /\ t \in Seq(S) /\ Len(t) = n + 1
      /\ \A k \in 1 .. n + 1 : t[k] = IF k <= i THEN x[k] ELSE v[k - i]
  <2>1. /\ x \o v \in Seq(S) /\ Len(x \o v) = Len(x) + Len(v)
        /\ \A k \in 1 .. Len(x) + Len(v) : (x \o v)[k] = IF k <= Len(x) THEN x[k] ELSE v[k - Len(x)]
    BY ONLY <1>4, <1>6, ConcatProperties, Zenon
  <2>2. Len(x) + Len(v) = n + 1 /\ Len(x) = i
    BY <1>1, <1>4, <1>6
  <2> QED BY <1>2, <2>1, <2>2
<1>8. t[i] = e
  <2>1. i \in 1 .. n + 1 /\ i <= i /\ i \in 1 .. i /\ ~(i <= i - 1) /\ i - (i - 1) = 1
    BY <1>1 DEF n
  <2>2. t[i] = x[i] /\ x[i] = w[i - (i - 1)]
    BY <1>6, <1>7, <2>1
  <2> QED BY <1>5, <2>1, <2>2
<1>9. ASSUME NEW k \in 1 .. n + 1, k # i
      PROVE  t[k] = IF k < i THEN s[k] ELSE s[k - 1]
  <2>1. t[k] = IF k <= i THEN x[k] ELSE v[k - i]
    BY <1>7
  <2>2. CASE k < i
    <3>1. k \in 1 .. i /\ k <= i /\ k <= i - 1 /\ k \in 1 .. i - 1
      BY <2>2
    <3>2. x[k] = u[k] /\ u[k] = s[k]
      BY <1>3, <1>6, <3>1
    <3> QED BY <2>1, <2>2, <3>1, <3>2
  <2>3. CASE ~(k < i)
    <3>1. ~(k <= i) /\ k - i \in 1 .. n - i + 1 /\ k - i + i - 1 = k - 1
      BY <1>1, <1>9, <2>3
    <3>2. v[k - i] = s[k - 1]
      BY <1>4, <3>1
    <3> QED BY <2>1, <2>3, <3>1, <3>2
  <2> QED BY <2>2, <2>3
<1> QED BY <1>7, <1>8, <1>9 DEF n, Widened

\* The item that Add links, which holds no data yet.
Fresh(it, slot) ==
    it \in Placed /\ it.slot = slot /\ ~it.complete /\ ~it.read

\* A segment whose data goes beyond what is complete is linked behind that.
LEMMA LinkedPlace ==
    ASSUME NEW L, IsList(L), NEW r, NEW c, NEW b, Prefix(L, r, c, b),
           NEW it, NEW slot, Fresh(it, slot), it.data = <<>>,
           NEW rnext \in Nat, L.complete < rnext,
           LinkedIn(L.items, it, rnext) # L.items
    PROVE  LET items == LinkedIn(L.items, it, rnext)
               n == Len(L.items)
           IN  /\ items \in Seq(Placed) /\ Len(items) = n + 1
               /\ \E p \in c + 1 .. n + 1 :
                     /\ Fresh(items[p], slot)
                     /\ \A k \in 1 .. n + 1 : k # p =>
                           items[k] = IF k < p THEN L.items[k] ELSE L.items[k - 1]
<1> DEFINE items == LinkedIn(L.items, it, rnext)
           n == Len(L.items)
<1>1. L.items \in Seq(Placed) /\ it \in Placed
  BY ListParts DEF Placed, Fresh
<1>2. /\ n \in Nat /\ c \in Nat /\ c <= n /\ L.complete \in Nat
      /\ \A k \in 1 .. c : Edge(L, b, k) \in Nat /\ Edge(L, b, k) <= L.complete
  <2>1. \A k \in 1 .. c : k \in 0 .. c
    OBVIOUS
  <2> QED BY <2>1, PrefixParts
<1>3. ASSUME NEW k \in 1 .. n, rnext < L.items[k].next PROVE k >= c + 1
  <2>1. CASE k <= c
    <3>1. k \in 1 .. c /\ k # 0
      BY <1>2, <2>1
    <3>2. L.items[k].next \in Nat /\ L.items[k].next <= L.complete
      BY <1>2, <3>1 DEF Edge
    <3> QED BY <1>2, <1>3, <3>2
  <2>2. CASE ~(k <= c)
    BY <1>2, <2>2
  <2> QED BY <2>1, <2>2
<1> DEFINE one == [it EXCEPT !.next = rnext]
<1>4. Fresh(one, slot)
  <2>1. it \in Items
    BY <1>1 DEF Placed
  <2>2. one \in Items /\ one.next = rnext /\ one.data = <<>> /\ one.slot = slot /\ ~one.complete /\ ~one.read
    BY <2>1 DEF Items, Fresh
  <2> HIDE DEF one
  <2>3. InPlace(one)
    <3>1. Len(one.data) = 0 /\ rnext - 0 \in Nat /\ 0 <= rnext
      BY <2>2
    <3> QED BY <2>2, <3>1, FromNone DEF InPlace
  <2> QED BY <2>2, <2>3 DEF Fresh, Placed
<1>5. CASE L.items = <<>>
  <2>1. items = <<one>>
    BY <1>5 DEF LinkedIn
  <2>2. n = 0 /\ c = 0
    BY <1>2, <1>5
  <2>3. one \in Placed
    BY <1>4 DEF Fresh
  <2> HIDE DEF one, items, n
  <2>4. items \in Seq(Placed) /\ Len(items) = n + 1 /\ items[1] = one
    BY <2>1, <2>2, <2>3
  <2>5. 1 \in c + 1 .. n + 1 /\ \A k \in 1 .. n + 1 : k = 1
    BY <2>2
  <2> QED BY <1>4, <2>4, <2>5 DEF items, n
<1>6. CASE L.items # <<>> /\ rnext > Last(L.items).next
  <2>1. items = Append(L.items, it)
    BY <1>6 DEF LinkedIn
  <2> HIDE DEF items
  <2>2. /\ items \in Seq(Placed) /\ Len(items) = n + 1 /\ items[n + 1] = it
        /\ \A k \in 1 .. n : items[k] = L.items[k]
    BY <1>1, <2>1, AppendProperties
  <2> HIDE DEF n
  <2>3. n + 1 \in c + 1 .. n + 1
    BY <1>2
  <2>4. \A k \in 1 .. n + 1 : k # n + 1 => k \in 1 .. n /\ k < n + 1
    BY <1>2
  <2> QED BY <2>2, <2>3, <2>4 DEF items, n
<1>7. CASE L.items # <<>> /\ ~(rnext > Last(L.items).next) /\ rnext < Head(L.items).next
  <2>1. items = <<it>> \o L.items
    BY <1>7 DEF LinkedIn
  <2>2. n >= 1 /\ Head(L.items) = L.items[1]
    <3>1. n # 0
      BY <1>1, <1>7, EmptySeq
    <3> QED BY <1>1, <1>2, <3>1
  <2>3. c = 0
    <3>1. 1 \in 1 .. n /\ rnext < L.items[1].next
      BY <1>2, <1>7, <2>2
    <3>2. 1 >= c + 1
      BY <1>3, <3>1
    <3> QED BY <1>2, <3>2
  <2> HIDE DEF items
  <2>4. <<it>> \in Seq(Placed) /\ Len(<<it>>) = 1 /\ <<it>>[1] = it
    BY <1>1
  <2>5. /\ items \in Seq(Placed) /\ Len(items) = 1 + n
        /\ \A k \in 1 .. 1 + n : items[k] = IF k <= 1 THEN <<it>>[k] ELSE L.items[k - 1]
    <3> DEFINE u == <<it>>
    <3>1. u \in Seq(Placed) /\ Len(u) = 1
      BY <2>4
    <3> HIDE DEF u
    <3>2. items = u \o L.items
      BY <2>1 DEF u
    <3>3. /\ u \o L.items \in Seq(Placed) /\ Len(u \o L.items) = Len(u) + Len(L.items)
          /\ \A k \in 1 .. Len(u) + Len(L.items) :
                (u \o L.items)[k] = IF k <= Len(u) THEN u[k] ELSE L.items[k - Len(u)]
      BY ONLY <1>1, <3>1, ConcatProperties, Zenon
    <3>4. /\ items \in Seq(Placed) /\ Len(items) = 1 + n
          /\ \A k \in 1 .. 1 + n : items[k] = IF k <= 1 THEN u[k] ELSE L.items[k - 1]
      BY ONLY <3>1, <3>2, <3>3
    <3> QED BY <3>4 DEF u
  <2> HIDE DEF n
  <2>6. 1 \in c + 1 .. n + 1 /\ 1 + n = n + 1 /\ \A k \in 1 .. n + 1 : k # 1 => ~(k <= 1) /\ ~(k < 1)
    BY <1>2, <2>3
  <2>7. items[1] = it
    <3>1. 1 \in 1 .. 1 + n /\ 1 <= 1
      BY <1>2
    <3> QED BY <2>4, <2>5, <3>1
  <2> QED BY <2>5, <2>6, <2>7 DEF items, n
<1>8. CASE L.items # <<>> /\ ~(rnext > Last(L.items).next) /\ ~(rnext < Head(L.items).next)
  <2> DEFINE after == {k \in 1 .. n - 1 : L.items[k].next < rnext /\ rnext < L.items[k + 1].next}
             q == CHOOSE k \in after : \A j \in after : k <= j
  <2>1. items = IF after = {} THEN L.items ELSE InsertAt(L.items, q + 1, it)
    BY <1>8 DEF LinkedIn
  <2>2. after # {}
    BY <2>1
  <2>3. q \in after
    <3>1. after \subseteq Nat /\ \E k \in after : TRUE
      BY <2>2
    <3> HIDE DEF after
    <3> QED BY <3>1, LeastIn
  <2>4. q \in 1 .. n - 1 /\ rnext < L.items[q + 1].next
    BY <2>3
  <2> HIDE DEF after, q, items
  <2>0. PICK i \in Nat : i = q + 1
    BY <1>2, <2>4
  <2>5. items = InsertAt(L.items, i, it)
    BY <2>0, <2>1, <2>2
  <2>6. /\ i \in Nat /\ 1 <= i /\ i <= n /\ i \in 1 .. n /\ rnext < L.items[i].next
    BY <1>2, <2>0, <2>4
  <2>7. i \in c + 1 .. n + 1
    <3>1. i >= c + 1
      BY <1>3, <2>6
    <3> QED BY <1>2, <2>6, <3>1
  <2>8. /\ items \in Seq(Placed) /\ Len(items) = n + 1 /\ items[i] = it
        /\ \A k \in 1 .. n + 1 : k # i => items[k] = IF k < i THEN L.items[k] ELSE L.items[k - 1]
    <3>1. i <= Len(L.items)
      BY <2>6
    <3> HIDE DEF n
    <3>2. L.items \in Seq(Placed) /\ it \in Placed /\ 1 <= i
      BY <1>1, <2>6
    <3>3. PICK z : z = L.items
      OBVIOUS
    <3>4. items = InsertAt(z, i, it) /\ i <= Len(z) /\ z \in Seq(Placed)
      BY <2>5, <3>1, <3>2, <3>3
    <3>5. items \in Seq(Placed) /\ items[i] = it /\ Widened(items, z, i)
      BY ONLY <3>2, <3>4, i \in Nat, Inserted
    <3> QED BY <3>3, <3>5 DEF n, Widened
  <2> HIDE DEF n
  <2> QED BY <2>7, <2>8 DEF items, n
<1> QED BY <1>5, <1>6, <1>7, <1>8

\* What a list has of the stream depends on its complete items only.
LEMMA SamePrefix ==
    ASSUME NEW L, IsList(L), NEW r, NEW c, NEW b, Prefix(L, r, c, b),
           NEW M, IsList(M), M.complete = L.complete, M.readpos = L.readpos,
           c <= Len(M.items),
           \A k \in 1 .. c : M.items[k].next = L.items[k].next /\ M.items[k].data = L.items[k].data,
           \A k \in 1 .. Len(M.items) :
              (M.items[k].complete <=> k <= c) /\ (M.items[k].read <=> k <= r)
    PROVE  Prefix(M, r, c, b) /\ Edge(M, b, r) = Edge(L, b, r)
<1>1. Len(M.items) \in Nat
  BY ListParts
<1>2. /\ r \in Nat /\ c \in Nat /\ b \in Nat /\ r <= c /\ b >= 1
      /\ \A k \in 1 .. c : L.items[k].next - Len(L.items[k].data) = Edge(L, b, k - 1)
      /\ Edge(L, b, c) = L.complete /\ Edge(L, b, r) + L.readpos <= L.complete
  BY PrefixParts
<1>3. ASSUME NEW k \in 0 .. c PROVE Edge(M, b, k) = Edge(L, b, k)
  <2>1. k # 0 => k \in 1 .. c
    BY <1>2
  <2> QED BY <2>1 DEF Edge
<1>4. ASSUME NEW k \in 1 .. c
      PROVE  M.items[k].next - Len(M.items[k].data) = Edge(M, b, k - 1)
  <2>1. k - 1 \in 0 .. c
    BY <1>2
  <2> QED BY <1>2, <1>3, <2>1
<1>5. c \in 0 .. Len(M.items) /\ r \in 0 .. c /\ c \in 0 .. c
  BY <1>1, <1>2
<1>6. Chain(M, c, b)
  BY <1>2, <1>4, <1>5 DEF Chain
<1>7. Edge(M, b, c) = M.complete /\ Edge(M, b, r) = Edge(L, b, r)
  BY <1>2, <1>3, <1>5
<1>8. Edge(M, b, r) + M.readpos <= M.complete
  BY <1>2, <1>7
<1> QED BY <1>5, <1>6, <1>7, <1>8 DEF Prefix

\* The items of L with one more at place p.
OneMore(L, items, p, slot) ==
    /\ items \in Seq(Placed) /\ Len(items) = Len(L.items) + 1
    /\ p <= Len(L.items) + 1 /\ Fresh(items[p], slot)
    /\ \A k \in 1 .. Len(L.items) + 1 : k # p =>
          items[k] = IF k < p THEN L.items[k] ELSE L.items[k - 1]

\* The slot of the item at place p, and of no other one.
SlotAt(L, slot, p) == \A k \in 1 .. Len(L.items) : L.items[k].slot = slot <=> k = p

\* An item without data linked behind what is complete changes nothing.
LEMMA LinkKeeps ==
    ASSUME NEW L, IsList(L), NEW r, NEW c, NEW b, Prefix(L, r, c, b),
           NEW items, NEW slot, NEW p \in Nat, c + 1 <= p, OneMore(L, items, p, slot),
           NEW M, M = [L EXCEPT !.items = items]
    PROVE  /\ IsList(M) /\ Prefix(M, r, c, b) /\ Edge(M, b, r) = Edge(L, b, r)
           /\ M.items = items /\ M.complete = L.complete /\ M.readpos = L.readpos
<1>0. /\ items \in Seq(Placed) /\ Len(items) = Len(L.items) + 1
      /\ p <= Len(L.items) + 1 /\ Fresh(items[p], slot)
      /\ \A k \in 1 .. Len(L.items) + 1 : k # p =>
            items[k] = IF k < p THEN L.items[k] ELSE L.items[k - 1]
  BY DEF OneMore
<1>1. /\ M.items = items /\ M.complete = L.complete /\ M.readpos = L.readpos
      /\ M = [items |-> M.items, count |-> M.count, complete |-> M.complete,
              readpos |-> M.readpos, total |-> M.total]
  <2>1. L = [items |-> L.items, count |-> L.count, complete |-> L.complete,
             readpos |-> L.readpos, total |-> L.total]
    BY DEF IsList
  <2> QED BY ONLY <2>1, M = [L EXCEPT !.items = items]
<1>2. IsList(M)
  BY <1>0, <1>1, ListParts DEF IsList, Placed
<1>3. /\ Len(L.items) \in Nat /\ r \in Nat /\ c \in Nat /\ r <= c /\ c <= Len(L.items)
      /\ \A k \in 1 .. Len(L.items) :
            (L.items[k].complete <=> k <= c) /\ (L.items[k].read <=> k <= r)
  BY PrefixParts
<1>4. ASSUME NEW k \in 1 .. c PROVE items[k] = L.items[k]
  <2>1. k \in 1 .. Len(L.items) + 1 /\ k # p /\ k < p
    BY <1>3
  <2> QED BY <1>0, <2>1
<1>5. ASSUME NEW k \in 1 .. Len(items)
      PROVE  (items[k].complete <=> k <= c) /\ (items[k].read <=> k <= r)
  <2>1. k \in 1 .. Len(L.items) + 1
    BY <1>0, <1>3
  <2>2. CASE k = p
    <3>1. ~(k <= c) /\ ~(k <= r)
      BY <1>3, <2>2
    <3> QED BY <1>0, <2>2, <3>1 DEF Fresh
  <2>3. CASE k < p
    <3>1. k \in 1 .. Len(L.items) /\ k # p
      BY <1>0, <1>3, <2>3
    <3>2. items[k] = L.items[k]
      BY <1>0, <2>1, <2>3, <3>1
    <3> QED BY <1>3, <3>1, <3>2
  <2>4. CASE k > p
    <3>1. /\ k - 1 \in 1 .. Len(L.items) /\ k # p /\ ~(k < p)
          /\ ~(k - 1 <= c) /\ ~(k <= c) /\ ~(k - 1 <= r) /\ ~(k <= r)
      BY <1>0, <1>3, <2>4
    <3>2. items[k] = L.items[k - 1]
      BY <1>0, <2>1, <3>1
    <3> QED BY <1>3, <3>1, <3>2
  <2> QED BY <2>2, <2>3, <2>4
<1>6. c <= Len(M.items)
  BY <1>0, <1>1, <1>3
<1>7. \A k \in 1 .. c : M.items[k].next = L.items[k].next /\ M.items[k].data = L.items[k].data
  BY <1>1, <1>4
<1>8. \A k \in 1 .. Len(M.items) :
         (M.items[k].complete <=> k <= c) /\ (M.items[k].read <=> k <= r)
  BY <1>1, <1>5
<1>9. Prefix(M, r, c, b) /\ Edge(M, b, r) = Edge(L, b, r)
  BY ONLY IsList(L), Prefix(L, r, c, b), <1>1, <1>2, <1>6, <1>7, <1>8, SamePrefix
<1> QED BY <1>1, <1>2, <1>9

\* Completed in three steps: the item that was linked gets its data, what is
\* complete goes on up to the first gap, and the items say so.
WithData(L, slot, rnext, data) ==
    [k \in DOMAIN L.items |->
        IF L.items[k].slot = slot
        THEN [L.items[k] EXCEPT !.used = TRUE, !.next = rnext, !.data = data]
        ELSE L.items[k]]
Joins(L, items, k) ==
    \/ items[k].complete
    \/ (IF k = 1 THEN L.complete ELSE items[k - 1].next) = items[k].next - Len(items[k].data)
Reached(L, items) == {k \in 0 .. Len(items) : \A j \in 1 .. k : Joins(L, items, j)}
Joined(L, items, n, data) ==
    [L EXCEPT !.items = [k \in DOMAIN items |-> [items[k] EXCEPT !.complete = @ \/ k <= n]],
              !.complete = IF n = 0 THEN @ ELSE items[n].next,
              !.count = @ + 1,
              !.total = @ + Len(data)]

LEMMA CompletedSteps ==
    ASSUME NEW L, NEW slot, NEW rnext, NEW data,
           NEW items, items = WithData(L, slot, rnext, data),
           NEW n, n = CHOOSE k \in Reached(L, items) : \A j \in Reached(L, items) : j <= k
    PROVE  Completed(L, slot, rnext, data) = Joined(L, items, n, data)
<1> DEFINE i == WithData(L, slot, rnext, data)
           m == CHOOSE k \in Reached(L, i) : \A j \in Reached(L, i) : j <= k
<1>1. Completed(L, slot, rnext, data) = Joined(L, i, m, data)
  BY Zenon DEF Completed, Joined, WithData, Reached, Joins
<1> QED BY <1>1, Zenon

\* The item that was linked gets its data, and what is complete now goes on
\* up to the first gap.
LEMMA CompletedKeeps ==
    ASSUME NEW M, IsList(M), NEW r, NEW c, NEW b, Prefix(M, r, c, b),
           NEW slot, NEW p, p \in c + 1 .. Len(M.items),
           SlotAt(M, slot, p), NEW rnext \in Nat, NEW data \in Seq(Int), Len(data) <= rnext,
           data = From(rnext - Len(data), Len(data)),
           NEW N, N = Completed(M, slot, rnext, data)
    PROVE  /\ IsList(N) /\ N.readpos = M.readpos
           /\ \E e : Prefix(N, r, e, b) /\ Edge(N, b, r) = Edge(M, b, r)
<1>1. /\ Len(M.items) \in Nat /\ r \in Nat /\ c \in Nat /\ b \in Nat
      /\ r <= c /\ c <= Len(M.items) /\ b >= 1
      /\ M.readpos \in Nat /\ M.complete \in Nat
      /\ \A k \in 1 .. Len(M.items) :
            (M.items[k].complete <=> k <= c) /\ (M.items[k].read <=> k <= r)
      /\ \A k \in 1 .. c : M.items[k].next - Len(M.items[k].data) = Edge(M, b, k - 1)
      /\ Edge(M, b, c) = M.complete /\ Edge(M, b, r) + M.readpos <= M.complete
  BY PrefixParts
<1>2. PICK m \in Nat : m = Len(M.items)
  BY <1>1
<1>3. PICK u : u = WithData(M, slot, rnext, data)
  OBVIOUS
<1>4. DOMAIN u = 1 .. m
  <2>1. DOMAIN M.items = 1 .. m
    BY <1>2, ListParts, LenProperties
  <2> QED BY <1>3, <2>1 DEF WithData
<1>5. ASSUME NEW k \in 1 .. m
      PROVE  /\ u[k] \in Placed
             /\ k # p => u[k] = M.items[k]
             /\ u[k].complete <=> k <= c
             /\ u[k].read <=> k <= r
  <2>1. /\ M.items[k] \in Items /\ InPlace(M.items[k])
        /\ (M.items[k].complete <=> k <= c) /\ (M.items[k].read <=> k <= r)
        /\ (M.items[k].slot = slot <=> k = p)
    BY <1>1, <1>2, ItemOf DEF SlotAt
  <2>2. u[k] = IF M.items[k].slot = slot
               THEN [M.items[k] EXCEPT !.used = TRUE, !.next = rnext, !.data = data]
               ELSE M.items[k]
    BY <1>3, <1>4 DEF WithData
  <2>3. CASE k # p
    <3>1. u[k] = M.items[k]
      BY <2>1, <2>2, <2>3
    <3> QED BY <2>1, <3>1 DEF Placed
  <2>4. CASE k = p
    <3>1. u[k] = [M.items[k] EXCEPT !.used = TRUE, !.next = rnext, !.data = data]
      BY <2>1, <2>2, <2>4
    <3>2. /\ u[k] \in Items /\ u[k].next = rnext /\ u[k].data = data
          /\ u[k].complete = M.items[k].complete /\ u[k].read = M.items[k].read
      BY ONLY <2>1, <3>1, rnext \in Nat, data \in Seq(Int) DEF Items
    <3>3. InPlace(u[k])
      BY <3>2 DEF InPlace
    <3> QED BY <2>1, <2>4, <3>2, <3>3 DEF Placed
  <2> QED BY <2>3, <2>4
<1>6. u \in Seq(Placed) /\ Len(u) = m
  <2>1. u = [k \in 1 .. m |-> u[k]]
    BY <1>3, <1>4 DEF WithData
  <2>2. u \in [1 .. m -> Placed]
    BY <1>5, <2>1
  <2> QED BY <2>2
<1> DEFINE goes(k) == Joins(M, u, k)
           reach == Reached(M, u)
<1>7. PICK n \in Nat : n = CHOOSE k \in reach : \A j \in reach : j <= k
  <2>1. 0 \in reach
    BY <1>6 DEF Reached
  <2>2. reach \subseteq Nat /\ \A x \in reach : x <= m
    BY <1>6 DEF Reached
  <2> HIDE DEF reach
  <2>3. \E k \in reach : \A j \in reach : j <= k
    BY <2>1, <2>2, GreatestIn
  <2>4. (CHOOSE k \in reach : \A j \in reach : j <= k) \in reach
    BY <2>3
  <2> QED BY <2>2, <2>4
<1>8. n <= m /\ c <= n /\ \A j \in 1 .. n : goes(j)
  <2>1. c \in reach
    <3>1. c \in 0 .. Len(u)
      BY <1>1, <1>2, <1>6
    <3>2. \A j \in 1 .. c : u[j].complete
      BY <1>1, <1>2, <1>5
    <3> QED BY <3>1, <3>2 DEF Reached, Joins
  <2>2. reach \subseteq Nat /\ \A x \in reach : x <= m /\ \A j \in 1 .. x : goes(j)
    BY <1>6 DEF Reached
  <2> HIDE DEF reach, goes
  <2>3. \E k \in reach : \A j \in reach : j <= k
    BY <2>1, <2>2, GreatestIn
  <2>4. n \in reach /\ \A j \in reach : j <= n
    BY <1>7, <2>3
  <2> QED BY <2>1, <2>2, <2>4
<1>9. PICK v : v = [k \in DOMAIN u |-> [u[k] EXCEPT !.complete = @ \/ k <= n]]
  OBVIOUS
<1>10. PICK e : e = IF n = 0 THEN M.complete ELSE u[n].next
  OBVIOUS
<1>11. N = [M EXCEPT !.items = v, !.complete = e, !.count = @ + 1, !.total = @ + Len(data)]
  <2>1. N = Joined(M, u, n, data)
    BY <1>3, <1>7, CompletedSteps
  <2> QED BY ONLY <1>9, <1>10, <2>1 DEF Joined
<1> DEFINE from(k) == IF k = 1 THEN M.complete ELSE u[k - 1].next
<1> HIDE DEF from, goes, reach
<1>12. /\ N.items = v /\ N.complete = e /\ N.readpos = M.readpos
       /\ N = [items |-> N.items, count |-> N.count, complete |-> N.complete,
               readpos |-> N.readpos, total |-> N.total]
  <2>1. M = [items |-> M.items, count |-> M.count, complete |-> M.complete,
             readpos |-> M.readpos, total |-> M.total]
    BY DEF IsList
  <2> QED BY ONLY <1>11, <2>1
<1>13. ASSUME NEW k \in 1 .. m
       PROVE  /\ v[k] \in Placed /\ v[k].next = u[k].next /\ v[k].data = u[k].data
              /\ v[k].complete <=> k <= n
              /\ v[k].read <=> k <= r
  <2>1. u[k] \in Items /\ InPlace(u[k])
    BY <1>5 DEF Placed
  <2>2. v[k] = [u[k] EXCEPT !.complete = u[k].complete \/ k <= n]
    BY <1>4, <1>9
  <2>3. /\ v[k] \in Items /\ v[k].next = u[k].next /\ v[k].data = u[k].data
        /\ v[k].read = u[k].read /\ v[k].complete = (u[k].complete \/ k <= n)
    BY ONLY <2>1, <2>2 DEF Items
  <2>4. InPlace(v[k])
    BY <2>1, <2>3 DEF InPlace
  <2>5. u[k].complete \/ k <= n <=> k <= n
    BY <1>1, <1>5, <1>8
  <2> QED BY <1>5, <2>3, <2>4, <2>5 DEF Placed
<1>14. v \in Seq(Placed) /\ Len(v) = m
  <2>1. v = [k \in 1 .. m |-> v[k]]
    BY <1>4, <1>9
  <2>2. v \in [1 .. m -> Placed]
    BY <1>13, <2>1
  <2> QED BY <2>2
<1>15. e \in Nat
  <2>1. n # 0 => n \in 1 .. m
    BY <1>8
  <2>2. n # 0 => u[n].next \in Nat
    BY <1>5, <2>1 DEF Placed, Items
  <2> QED BY <1>1, <1>10, <2>2
<1>16. IsList(N)
  BY <1>1, <1>12, <1>14, <1>15 DEF IsList, Placed
<1>17. ASSUME NEW k \in 0 .. c PROVE Edge(N, b, k) = Edge(M, b, k)
  <2>1. k # 0 => k \in 1 .. m /\ k # p
    BY <1>1, <1>2
  <2>2. k # 0 => N.items[k].next = M.items[k].next
    BY <1>5, <1>12, <1>13, <2>1
  <2> QED BY <2>2 DEF Edge
<1>18. ASSUME NEW k \in 1 .. n
       PROVE  N.items[k].next - Len(N.items[k].data) = Edge(N, b, k - 1)
  <2>1. k \in 1 .. m
    BY <1>8
  <2>2. N.items[k].next = u[k].next /\ N.items[k].data = u[k].data
    BY <1>12, <1>13, <2>1
  <2>3. CASE k <= c
    <3>1. k \in 1 .. c /\ k # p /\ k - 1 \in 0 .. c
      BY <1>1, <2>3
    <3>2. u[k] = M.items[k]
      BY <1>5, <2>1, <3>1
    <3> QED BY <1>1, <1>17, <2>2, <3>1, <3>2
  <2>4. CASE ~(k <= c)
    <3>1. from(k) = u[k].next - Len(u[k].data)
      BY <1>5, <1>8, <2>1, <2>4 DEF goes, Joins, from
    <3>2. CASE k = 1
      <4>1. c = 0 /\ k - 1 = 0 /\ 0 \in 0 .. c
        BY <1>1, <2>4, <3>2
      <4>2. from(k) = M.complete /\ Edge(N, b, k - 1) = M.complete
        BY <1>1, <1>17, <3>2, <4>1 DEF from
      <4> QED BY <2>2, <3>1, <4>2
    <3>3. CASE k # 1
      <4>1. k - 1 \in 1 .. m /\ k - 1 # 0
        BY <2>1, <3>3
      <4>2. from(k) = u[k - 1].next
        BY <3>3 DEF from
      <4>3. Edge(N, b, k - 1) = N.items[k - 1].next
        BY <4>1 DEF Edge
      <4>4. N.items[k - 1].next = u[k - 1].next
        BY <1>12, <1>13, <4>1
      <4> QED BY <2>2, <3>1, <4>2, <4>3, <4>4
    <3> QED BY <3>2, <3>3
  <2> QED BY <2>3, <2>4
<1>19. Chain(N, n, b)
  <2>1. n \in 0 .. Len(N.items)
    BY <1>8, <1>12, <1>14
  <2> QED BY <1>1, <1>18, <2>1 DEF Chain
<1>20. Edge(N, b, n) = N.complete
  <2>1. CASE n = 0
    <3>1. c = 0 /\ 0 \in 0 .. c
      BY <1>1, <1>8, <2>1
    <3>2. Edge(N, b, 0) = M.complete
      BY <1>1, <1>17, <3>1
    <3> QED BY <1>10, <1>12, <2>1, <3>2
  <2>2. CASE n # 0
    <3>1. n \in 1 .. m
      BY <1>8, <2>2
    <3>2. Edge(N, b, n) = N.items[n].next
      BY <2>2 DEF Edge
    <3> QED BY <1>10, <1>12, <1>13, <2>2, <3>1, <3>2
  <2> QED BY <2>1, <2>2
<1>21. Edge(N, b, r) = Edge(M, b, r) /\ Edge(N, b, r) + N.readpos <= N.complete
  <2>1. r \in 0 .. c /\ c \in 0 .. c /\ c \in 0 .. n /\ n \in 0 .. n /\ r \in 0 .. n
    BY <1>1, <1>8
  <2>2. Edge(N, b, r) = Edge(M, b, r) /\ Edge(N, b, c) = M.complete
    BY <1>1, <1>17, <2>1
  <2>3. Edge(N, b, c) <= Edge(N, b, n) /\ Edge(N, b, r) \in Nat
    BY <1>8, <1>16, <1>19, <2>1, Edges
  <2>4. M.complete <= N.complete /\ N.complete \in Nat
    BY <1>12, <1>15, <1>20, <2>2, <2>3
  <2> QED BY <1>1, <1>12, <2>2, <2>3, <2>4
<1>22. Prefix(N, r, n, b)
  <2>1. r \in 0 .. n
    BY <1>1, <1>8
  <2>2. \A k \in 1 .. Len(N.items) :
           (N.items[k].complete <=> k <= n) /\ (N.items[k].read <=> k <= r)
    BY <1>12, <1>13, <1>14
  <2> QED BY <1>19, <1>20, <1>21, <2>1, <2>2 DEF Prefix
<1> QED BY <1>12, <1>16, <1>21, <1>22
\* The slot of a list that FindUnuse gives.
LEMMA FoundUnuse ==
    ASSUME NEW L
    PROVE  FindUnuse(L) \in Nat
<1> DEFINE used == {L.items[k].slot : k \in {j \in DOMAIN L.items : L.items[j].used}}
           left == (1 .. MAX_ITEM) \ used
<1>1. FindUnuse(L) = IF left = {} THEN 0 ELSE CHOOSE k \in left : \A j \in left : k <= j
  BY DEF FindUnuse
<1>2. left \subseteq Nat
  OBVIOUS
<1> HIDE DEF left
<1>3. CASE left = {}
  BY <1>1, <1>3
<1>4. CASE left # {}
  <2>1. \E k \in left : \A j \in left : k <= j
    BY <1>2, <1>4, LeastIn
  <2>2. (CHOOSE k \in left : \A j \in left : k <= j) \in left
    BY <2>1
  <2> QED BY <1>1, <1>2, <1>4, <2>2
<1> QED BY <1>3, <1>4

\* Add to a list that gave up its last item, if it had to.
Blank(slot) == [slot |-> slot, next |-> 0, data |-> <<>>,
                used |-> FALSE, complete |-> FALSE, read |-> FALSE]
Twice(L, slot) == \E k \in DOMAIN L.items : L.items[k].slot = slot
AddTo(L, slot, items, rnext, data, memory) ==
    IF L.count >= MAX_ITEM \/ L.total + Len(data) >= MAX_MEM
       \/ L.complete >= rnext \/ slot = 0 \/ items = L.items
    THEN [list |-> L, twice |-> FALSE]
    ELSE IF Twice(L, slot) THEN [list |-> L, twice |-> TRUE]
    ELSE [list |-> IF memory
                   THEN Completed([L EXCEPT !.items = items], slot, rnext, data)
                   ELSE [L EXCEPT !.items = items],
          twice |-> FALSE]

LEMMA AddSteps ==
    ASSUME NEW L0, NEW rnext, NEW data, NEW memory,
           NEW L, L = DropLast(L0, rnext),
           NEW slot, slot = FindUnuse(L),
           NEW items, items = LinkedIn(L.items, Blank(slot), rnext)
    PROVE  Add(L0, rnext, data, memory) = AddTo(L, slot, items, rnext, data, memory)
<1> DEFINE l == DropLast(L0, rnext)
           s == FindUnuse(l)
           i == LinkedIn(l.items, Blank(s), rnext)
<1>1. Add(L0, rnext, data, memory) = AddTo(l, s, i, rnext, data, memory)
  BY Zenon DEF Add, AddTo, Twice, Blank
<1> QED BY <1>1, Zenon

\* Data that belongs where it says it does, linked, refused or left without a
\* block: what was read and what can be read stays.
LEMMA AddKeeps ==
    ASSUME NEW L0, IsList(L0), NEW got, Held(L0, got),
           NEW rnext \in Nat, NEW data \in Seq(Int), Len(data) <= rnext,
           data = From(rnext - Len(data), Len(data)), NEW memory \in BOOLEAN,
           NEW N, N = Add(L0, rnext, data, memory).list
    PROVE  IsList(N) /\ Held(N, got)
<1>1. PICK L : L = DropLast(L0, rnext)
  OBVIOUS
<1>2. IsList(L) /\ Held(L, got)
  BY <1>1, DropKeeps
<1>3. PICK slot \in Nat : slot = FindUnuse(L)
  BY FoundUnuse
<1>4. PICK items : items = LinkedIn(L.items, Blank(slot), rnext)
  OBVIOUS
<1>5. N = AddTo(L, slot, items, rnext, data, memory).list
  BY <1>1, <1>3, <1>4, AddSteps
<1>6. CASE \/ L.count >= MAX_ITEM \/ L.total + Len(data) >= MAX_MEM
           \/ L.complete >= rnext \/ slot = 0 \/ items = L.items \/ Twice(L, slot)
  <2>1. N = L
    BY <1>5, <1>6 DEF AddTo
  <2> QED BY <1>2, <2>1
<1>7. CASE /\ ~(L.count >= MAX_ITEM \/ L.total + Len(data) >= MAX_MEM
                 \/ L.complete >= rnext \/ slot = 0)
           /\ items # L.items
           /\ ~Twice(L, slot)
  <2>1. PICK M : M = [L EXCEPT !.items = items]
    OBVIOUS
  <2>2. N = IF memory THEN Completed(M, slot, rnext, data) ELSE M
    BY <1>5, <1>7, <2>1 DEF AddTo
  <2>3. PICK r, c, b : Prefix(L, r, c, b) /\ got = From(1, Edge(L, b, r) + L.readpos - 1)
                       /\ r \in Nat /\ c \in Nat /\ b \in Nat
    BY <1>2 DEF Held
  <2>4. PICK n \in Nat : n = Len(L.items)
    BY <1>2, ListParts
  <2>5. Fresh(Blank(slot), slot) /\ Blank(slot).data = <<>>
    <3>1. Blank(slot) \in Items
      BY DEF Blank, Items
    <3>2. /\ Blank(slot).data = <<>> /\ Blank(slot).next = 0 /\ Blank(slot).slot = slot
          /\ ~Blank(slot).complete /\ ~Blank(slot).read
      BY DEF Blank
    <3>3. InPlace(Blank(slot))
      <4>1. Len(<<>>) = 0 /\ 0 <= 0
        OBVIOUS
      <4> QED BY <3>2, <4>1, FromNone DEF InPlace
    <3> QED BY <3>1, <3>2, <3>3 DEF Fresh, Placed
  <2>6. L.complete < rnext
    <3>1. L.complete \in Nat
      BY <1>2, ListParts
    <3> QED BY <1>7, <3>1
  <2>7. /\ items \in Seq(Placed) /\ Len(items) = n + 1
        /\ \E p \in c + 1 .. n + 1 :
              /\ Fresh(items[p], slot)
              /\ \A k \in 1 .. n + 1 : k # p =>
                    items[k] = IF k < p THEN L.items[k] ELSE L.items[k - 1]
    <3>1. PICK it : it = Blank(slot)
      OBVIOUS
    <3>2. Fresh(it, slot) /\ it.data = <<>> /\ LinkedIn(L.items, it, rnext) # L.items
      BY <1>4, <1>7, <2>5, <3>1
    <3>3. /\ LinkedIn(L.items, it, rnext) \in Seq(Placed)
          /\ Len(LinkedIn(L.items, it, rnext)) = Len(L.items) + 1
          /\ \E p \in c + 1 .. Len(L.items) + 1 :
                /\ Fresh(LinkedIn(L.items, it, rnext)[p], slot)
                /\ \A k \in 1 .. Len(L.items) + 1 : k # p =>
                      LinkedIn(L.items, it, rnext)[k] = IF k < p THEN L.items[k] ELSE L.items[k - 1]
      BY ONLY <1>2, <2>3, <2>6, <3>2, rnext \in Nat, LinkedPlace
    <3> QED BY ONLY <1>4, <2>4, <3>1, <3>3
  <2>8. PICK p \in c + 1 .. n + 1 :
              /\ Fresh(items[p], slot)
              /\ \A k \in 1 .. n + 1 : k # p =>
                    items[k] = IF k < p THEN L.items[k] ELSE L.items[k - 1]
    BY <2>7
  <2>9. c \in Nat /\ c <= n /\ p \in Nat /\ c + 1 <= p /\ p <= n + 1
    <3>1. c \in Nat /\ c <= n
      BY <1>2, <2>3, <2>4, PrefixParts
    <3> QED BY <3>1
  <2>10. /\ IsList(M) /\ Prefix(M, r, c, b) /\ Edge(M, b, r) = Edge(L, b, r)
         /\ M.items = items /\ M.complete = L.complete /\ M.readpos = L.readpos
    <3>1. p \in Nat /\ c + 1 <= p /\ OneMore(L, items, p, slot)
      BY ONLY <2>4, <2>7, <2>8, <2>9 DEF OneMore
    <3>2. IsList(L) /\ Prefix(L, r, c, b) /\ M = [L EXCEPT !.items = items]
      BY <1>2, <2>1, <2>3
    <3> QED BY ONLY <3>1, <3>2, LinkKeeps
  <2>11. Held(M, got)
    BY <2>3, <2>10 DEF Held
  <2>12. ASSUME memory PROVE IsList(N) /\ Held(N, got)
    <3>1. N = Completed(M, slot, rnext, data)
      BY <2>2, <2>12
    <3>2. ASSUME NEW k \in 1 .. n + 1 PROVE items[k].slot = slot <=> k = p
      <4>1. DOMAIN L.items = 1 .. n
        BY <1>2, <2>4, ListParts, LenProperties
      <4>2. CASE k = p
        BY <2>8, <4>2 DEF Fresh
      <4>3. CASE k # p
        <5>1. \E j \in DOMAIN L.items : items[k] = L.items[j]
          <6>1. CASE k < p
            <7>1. k \in DOMAIN L.items
              BY <2>4, <2>9, <4>1, <6>1
            <7> QED BY <2>8, <4>3, <6>1, <7>1
          <6>2. CASE ~(k < p)
            <7>1. k - 1 \in DOMAIN L.items
              BY <2>4, <2>9, <4>1, <4>3, <6>2
            <7> QED BY <2>8, <4>3, <6>2, <7>1
          <6> QED BY <6>1, <6>2
        <5> QED BY <1>7, <4>3, <5>1 DEF Twice
      <4> QED BY <4>2, <4>3
    <3>3. p \in c + 1 .. Len(M.items) /\ SlotAt(M, slot, p)
      BY <2>7, <2>10, <3>2 DEF SlotAt
    <3>4. /\ IsList(N) /\ N.readpos = M.readpos
          /\ \E e : Prefix(N, r, e, b) /\ Edge(N, b, r) = Edge(M, b, r)
      <4>1. /\ rnext \in Nat /\ data \in Seq(Int) /\ Len(data) <= rnext
            /\ data = From(rnext - Len(data), Len(data))
        OBVIOUS
      <4>2. IsList(M) /\ Prefix(M, r, c, b)
        BY <2>10
      <4> QED BY ONLY <3>1, <3>3, <4>1, <4>2, CompletedKeeps
    <3>5. PICK e : Prefix(N, r, e, b) /\ Edge(N, b, r) = Edge(M, b, r)
      BY <3>4
    <3>6. e \in Nat
      BY <3>4, <3>5, PrefixParts
    <3> QED BY <2>3, <2>10, <3>4, <3>5, <3>6 DEF Held
  <2> QED BY <2>2, <2>10, <2>11, <2>12
<1> QED BY <1>6, <1>7

\* SetTCPRData: data of a segment that begins with byte a.
LEMMA SetKeeps ==
    ASSUME NEW L, IsList(L), NEW got, Held(L, got), NEW a \in Nat, NEW n \in Nat,
           NEW data, data = From(a, n), NEW memory \in BOOLEAN,
           NEW N, N = SetRData(L, a, data, memory).list
    PROVE  IsList(N) /\ Held(N, got)
<1>1. data \in Seq(Int) /\ Len(data) = n
  BY FromSeq
<1>2. PICK e \in Nat : e = a + Len(data)
  BY <1>1
<1>3. PICK G : G = GC(L)
  OBVIOUS
<1>4. IsList(G) /\ Held(G, got)
  BY <1>3, GCKeeps
<1>5. N = Add(G, e, data, memory).list
  BY <1>2, <1>3 DEF SetRData
<1>6. Len(data) <= e /\ data = From(e - Len(data), Len(data))
  <2>1. e - n = a /\ n <= e
    BY <1>1, <1>2
  <2> QED BY <1>1, <2>1
<1> QED BY ONLY <1>1, <1>4, <1>5, <1>6, e \in Nat, memory \in BOOLEAN, AddKeeps
\* Read with the items that are read to their end, and the place behind them.
Done(L, n) == {k \in DOMAIN L.items : New(L.items[k]) /\ Len(Bytes(L)[k]) <= L.readpos + n}
Passed(L, done) ==
    IF done = {} THEN 0 ELSE Len(Bytes(L)[CHOOSE k \in done : \A j \in done : j <= k])
After(L, n, done) ==
    [L EXCEPT !.items = [k \in DOMAIN L.items |-> [L.items[k] EXCEPT !.read = @ \/ k \in done]],
              !.readpos = @ + n - Passed(L, done)]

LEMMA ReadSteps ==
    ASSUME NEW L, NEW size,
           NEW n, n = IF size < Len(Unread(L)) THEN size ELSE Len(Unread(L))
    PROVE  Read(L, size) = After(L, n, Done(L, n))
<1> DEFINE m == IF size < Len(Unread(L)) THEN size ELSE Len(Unread(L))
<1>1. Read(L, size) = After(L, m, Done(L, m))
  BY Zenon DEF Read, After, Passed, Done
<1> QED BY <1>1, Zenon

\* What is read to its end are the next items, up to the place that the read
\* reaches.
LEMMA DoneUpTo ==
    ASSUME NEW L, IsList(L), NEW r, NEW c, NEW b, Prefix(L, r, c, b),
           NEW n \in Nat, Edge(L, b, r) + L.readpos + n <= L.complete
    PROVE  \E d \in r .. c :
              /\ Done(L, n) = r + 1 .. d
              /\ Passed(L, Done(L, n)) = Edge(L, b, d) - Edge(L, b, r)
              /\ Edge(L, b, d) <= Edge(L, b, r) + L.readpos + n
<1> DEFINE m == Len(L.items)
<1>1. PICK a : a = Edge(L, b, r)
  OBVIOUS
<1>2. PICK i \in Nat : i = L.readpos
  BY ListParts
<1>3. /\ m \in Nat /\ r \in Nat /\ c \in Nat /\ r <= c /\ c <= m
      /\ \A k \in 1 .. m : (L.items[k].complete <=> k <= c) /\ (L.items[k].read <=> k <= r)
      /\ \A k \in 0 .. c : Edge(L, b, k) \in Nat
      /\ DOMAIN L.items = 1 .. m
  BY PrefixParts, ListParts, LenProperties
<1>4. a \in Nat /\ \A j, k \in 0 .. c : j <= k => Edge(L, b, j) <= Edge(L, b, k)
  <2>1. r \in 0 .. c
    BY <1>3
  <2> QED BY <1>1, <1>3, <2>1, Edges DEF Prefix
<1>5. ASSUME NEW k \in r .. c PROVE Len(Bytes(L)[k]) = Edge(L, b, k) - a
  <2>1. k \in 0 .. c /\ r \in 0 .. c /\ r <= k
    BY <1>3
  <2>2. PICK e \in Nat : e = Edge(L, b, k)
    BY <1>3, <2>1
  <2>3. e - a \in Nat
    BY <1>1, <1>4, <2>1, <2>2
  <2>4. Bytes(L)[k] = From(a, e - a)
    BY <1>1, <2>2, BytesUpTo
  <2>5. Len(From(a, e - a)) = e - a
    BY ONLY <1>4, <2>3, FromSeq
  <2> QED BY <2>2, <2>4, <2>5
<1> DEFINE S == {k \in r .. c : Edge(L, b, k) <= a + i + n}
<1>6. PICK d \in S : \A k \in S : k <= d
  <2>1. r \in S
    <3>1. r \in r .. c
      BY <1>3
    <3>2. Edge(L, b, r) <= a + i + n
      BY <1>1, <1>2, <1>4
    <3> QED BY <3>1, <3>2
  <2>2. S \subseteq Nat /\ \A k \in S : k <= c
    BY <1>3
  <2> HIDE DEF S
  <2> QED BY <1>3, <2>1, <2>2, GreatestIn
<1>7. d \in r .. c /\ Edge(L, b, d) <= a + i + n
  BY <1>6
<1>8. ASSUME NEW k \in r .. c PROVE k \in S <=> k <= d
  <2>1. k \in 0 .. c /\ d \in 0 .. c
    BY <1>3, <1>7
  <2>2. k <= d => Edge(L, b, k) <= Edge(L, b, d) /\ Edge(L, b, k) \in Nat /\ Edge(L, b, d) \in Nat
    BY <1>3, <1>4, <2>1
  <2>3. k <= d => Edge(L, b, k) <= a + i + n
    BY <1>4, <1>7, <2>2
  <2> QED BY <1>6, <2>3
<1>9. ASSUME NEW k \in 1 .. m PROVE k \in Done(L, n) <=> k \in r + 1 .. d
  <2>1. k \in Done(L, n) <=> /\ L.items[k].complete /\ ~L.items[k].read
                             /\ Len(Bytes(L)[k]) <= i + n
    BY <1>2, <1>3 DEF Done, New
  <2>2. CASE k <= r \/ c < k
    <3>1. ~(k \in r + 1 .. d)
      BY <1>3, <1>7, <2>2
    <3>2. ~(L.items[k].complete /\ ~L.items[k].read)
      BY <1>3, <2>2
    <3> QED BY <2>1, <3>1, <3>2
  <2>3. CASE r < k /\ k <= c
    <3>1. k \in r .. c /\ k \in 0 .. c
      BY <1>3, <2>3
    <3>2. Edge(L, b, k) \in Nat /\ Len(Bytes(L)[k]) = Edge(L, b, k) - a
      BY <1>3, <1>5, <3>1
    <3>3. Len(Bytes(L)[k]) <= i + n <=> Edge(L, b, k) <= a + i + n
      BY <1>4, <3>2
    <3>4. k \in S <=> Edge(L, b, k) <= a + i + n
      BY <3>1
    <3>5. k \in r + 1 .. d <=> k <= d
      BY <1>3, <1>7, <2>3
    <3>6. L.items[k].complete /\ ~L.items[k].read
      BY <1>3, <2>3
    <3> QED BY <1>8, <2>1, <3>1, <3>3, <3>4, <3>5, <3>6
  <2> QED BY <1>3, <2>2, <2>3
<1>10. Done(L, n) = r + 1 .. d
  <2>1. Done(L, n) \subseteq 1 .. m
    BY <1>3 DEF Done
  <2>2. r + 1 .. d \subseteq 1 .. m
    BY <1>3, <1>7
  <2> QED BY <1>9, <2>1, <2>2
<1>11. Passed(L, Done(L, n)) = Edge(L, b, d) - a
  <2>1. CASE d = r
    <3>1. r + 1 .. d = {}
      BY <1>3, <2>1
    <3>2. Passed(L, Done(L, n)) = 0
      BY <1>10, <3>1 DEF Passed
    <3> QED BY <1>1, <1>4, <2>1, <3>2
  <2>2. CASE d # r
    <3>1. PICK D : D = r + 1 .. d
      OBVIOUS
    <3>0. d \in Nat /\ r + 1 <= d
      BY <1>3, <1>7, <2>2
    <3>2. d \in D /\ D # {} /\ D \subseteq Nat /\ \A j \in D : j <= d
      <4>1. \A j \in r + 1 .. d : j \in Nat /\ j <= d
        BY ONLY <1>3, <3>0
      <4>2. d \in r + 1 .. d
        BY ONLY <1>3, <3>0
      <4> QED BY <3>1, <4>1, <4>2
    <3>3. PICK q : q = CHOOSE k \in D : \A j \in D : j <= k
      OBVIOUS
    <3>4. q \in D /\ \A j \in D : j <= q
      BY <3>2, <3>3
    <3>5. q = d
      BY <3>2, <3>4
    <3>6. Passed(L, Done(L, n)) = Len(Bytes(L)[d])
      BY <1>10, <3>1, <3>2, <3>3, <3>5 DEF Passed
    <3> QED BY <1>5, <1>7, <3>6
  <2> QED BY <2>1, <2>2
<1> QED BY <1>1, <1>2, <1>7, <1>10, <1>11

\* A read takes the next bytes of the stream.
LEMMA ReadKeeps ==
    ASSUME NEW L, IsList(L), NEW got, Held(L, got), NEW size \in Nat,
           NEW n, n = IF size < Len(Unread(L)) THEN size ELSE Len(Unread(L)),
           NEW N, N = Read(L, size)
    PROVE  /\ IsList(N) /\ N.complete = L.complete
           /\ Held(N, got \o SubSeq(Unread(L), 1, n))
<1>1. PICK r, c, b : Prefix(L, r, c, b) /\ got = From(1, Edge(L, b, r) + L.readpos - 1)
                     /\ r \in Nat /\ c \in Nat /\ b \in Nat
  BY DEF Held
<1>2. PICK a : a = Edge(L, b, r)
  OBVIOUS
<1>3. /\ L.readpos \in Nat /\ L.complete \in Nat /\ r <= c /\ c <= Len(L.items) /\ b >= 1
      /\ Len(L.items) \in Nat
      /\ \A k \in 1 .. Len(L.items) :
            (L.items[k].complete <=> k <= c) /\ (L.items[k].read <=> k <= r)
      /\ \A k \in 0 .. c : Edge(L, b, k) \in Nat /\ b <= Edge(L, b, k)
      /\ Edge(L, b, c) = L.complete
      /\ \A k \in 1 .. c : L.items[k].next - Len(L.items[k].data) = Edge(L, b, k - 1)
  <2>1. Prefix(L, r, c, b) /\ IsList(L)
    BY <1>1
  <2>2. L.readpos \in Nat /\ L.complete \in Nat /\ Len(L.items) \in Nat
    BY ONLY <2>1, ListParts
  <2>3. r <= c /\ c <= Len(L.items) /\ b >= 1
    BY ONLY <2>1, PrefixParts
  <2>4. /\ \A k \in 1 .. Len(L.items) :
              (L.items[k].complete <=> k <= c) /\ (L.items[k].read <=> k <= r)
        /\ Edge(L, b, c) = L.complete
        /\ \A k \in 1 .. c : L.items[k].next - Len(L.items[k].data) = Edge(L, b, k - 1)
    BY ONLY <2>1 DEF Prefix, Chain
  <2>5. \A k \in 0 .. c : Edge(L, b, k) \in Nat /\ b <= Edge(L, b, k)
    BY ONLY <2>1, PrefixParts
  <2> QED BY ONLY <2>2, <2>3, <2>4, <2>5
<1>4. a \in Nat /\ a >= 1
  <2>1. r \in 0 .. c
    BY <1>1, <1>3
  <2> QED BY <1>1, <1>2, <1>3, <2>1
<1>5. PICK p \in Nat : p = a + L.readpos
  BY <1>3, <1>4
<1>6. p >= 1 /\ p <= L.complete /\ Unread(L) = From(p, L.complete - p)
  BY <1>1, <1>2, <1>5, UnreadBytes
<1>7. PICK w \in Nat : w = L.complete - p
  <2>1. L.complete \in Nat /\ p <= L.complete
    BY <1>3, <1>6
  <2> QED BY ONLY <2>1, p \in Nat
<1>8. Len(Unread(L)) = w
  <2>1. Len(From(p, w)) = w
    BY ONLY p \in Nat, w \in Nat, FromSeq
  <2> QED BY <1>6, <1>7, <2>1
<1>9. n \in Nat /\ n <= w
  BY <1>8
<1>10. SubSeq(Unread(L), 1, n) = From(p, n)
  <2>1. SubSeq(From(p, w), 1, n) = From(p, n)
    <3>1. PICK j \in Nat : j = 1
      OBVIOUS
    <3>2. 1 <= j /\ j <= n + 1 /\ p = p + j - 1 /\ n = n - j + 1
      BY <1>9, <3>1
    <3>3. Cut(p, w, j, n) = From(p, n)
      BY ONLY <1>9, <3>2, j \in Nat, p \in Nat, w \in Nat, FromSub
    <3> QED BY ONLY <3>1, <3>3, Zenon DEF Cut
  <2> QED BY <1>6, <1>7, <2>1
<1>11. got \o SubSeq(Unread(L), 1, n) = From(1, p + n - 1)
  <2>1. PICK x \in Nat : x = p - 1
    BY <1>6
  <2>2. got = From(1, x)
    BY <1>1, <1>2, <1>3, <1>4, <1>5, <2>1
  <2>3. 1 \in Nat /\ 1 + x = p /\ x + n = p + n - 1
    BY <1>9, <2>1
  <2>4. From(1, x) \o From(1 + x, n) = From(1, x + n)
    BY ONLY <1>9, <2>1, <2>3, FromConcat
  <2> QED BY <1>10, <2>2, <2>3, <2>4
<1>12. N = After(L, n, Done(L, n))
  BY ReadSteps
<1>13. PICK d \in r .. c :
              /\ Done(L, n) = r + 1 .. d
              /\ Passed(L, Done(L, n)) = Edge(L, b, d) - a
              /\ Edge(L, b, d) <= p + n
  <2>1. Edge(L, b, r) + L.readpos + n <= L.complete
    BY <1>2, <1>3, <1>5, <1>6, <1>7, <1>9
  <2>2. \E d \in r .. c :
              /\ Done(L, n) = r + 1 .. d
              /\ Passed(L, Done(L, n)) = Edge(L, b, d) - Edge(L, b, r)
              /\ Edge(L, b, d) <= Edge(L, b, r) + L.readpos + n
    BY ONLY <1>1, <1>9, <2>1, IsList(L), DoneUpTo
  <2> QED BY <1>2, <1>5, <2>2
<1>14. PICK e \in Nat : e = Edge(L, b, d)
  <2>1. d \in 0 .. c
    BY <1>1, <1>3, <1>13
  <2> QED BY <1>3, <2>1
<1>15. PICK v : v = [k \in DOMAIN L.items |->
                        [L.items[k] EXCEPT !.read = @ \/ k \in r + 1 .. d]]
  OBVIOUS
<1>16. PICK y : y = L.readpos + n - (e - a)
  OBVIOUS
<1>17. N = [L EXCEPT !.items = v, !.readpos = y]
  BY <1>12, <1>13, <1>14, <1>15, <1>16 DEF After
<1>18. /\ N.items = v /\ N.complete = L.complete /\ N.readpos = y
       /\ N = [items |-> N.items, count |-> N.count, complete |-> N.complete,
               readpos |-> N.readpos, total |-> N.total]
  <2>1. L = [items |-> L.items, count |-> L.count, complete |-> L.complete,
             readpos |-> L.readpos, total |-> L.total]
    BY DEF IsList
  <2> QED BY ONLY <1>17, <2>1
<1>19. y \in Nat /\ e + y = p + n
  <2>1. e <= p + n /\ L.readpos \in Nat
    BY <1>3, <1>13, <1>14
  <2> QED BY ONLY <1>4, <1>5, <1>9, <1>16, <2>1, p \in Nat, e \in Nat
<1>20. PICK m \in Nat : m = Len(L.items)
  BY <1>3
<1>21. DOMAIN L.items = 1 .. m
  BY <1>20, ListParts, LenProperties
<1>22. ASSUME NEW k \in 1 .. m
       PROVE  /\ v[k] \in Placed /\ v[k].next = L.items[k].next /\ v[k].data = L.items[k].data
              /\ v[k].complete <=> k <= c
              /\ v[k].read <=> k <= d
  <2>1. L.items[k] \in Items /\ InPlace(L.items[k])
    BY <1>20, ItemOf
  <2>2. v[k] = [L.items[k] EXCEPT !.read = L.items[k].read \/ k \in r + 1 .. d]
    BY <1>15, <1>21
  <2>3. /\ v[k] \in Items /\ v[k].next = L.items[k].next /\ v[k].data = L.items[k].data
        /\ v[k].complete = L.items[k].complete
        /\ v[k].read = (L.items[k].read \/ k \in r + 1 .. d)
    BY ONLY <2>1, <2>2 DEF Items
  <2>4. InPlace(v[k])
    BY <2>1, <2>3 DEF InPlace
  <2>5. k <= r \/ k \in r + 1 .. d <=> k <= d
    BY <1>1, <1>3, <1>13
  <2> QED BY <1>3, <1>20, <2>3, <2>4, <2>5 DEF Placed
<1>23. v \in Seq(Placed) /\ Len(v) = m
  <2>1. v = [k \in 1 .. m |-> v[k]]
    BY <1>15, <1>21
  <2>2. v \in [1 .. m -> Placed]
    BY <1>22, <2>1
  <2> QED BY <2>2
<1>24. IsList(N)
  BY <1>3, <1>18, <1>19, <1>23 DEF IsList, Placed
<1>25. ASSUME NEW k \in 0 .. c PROVE Edge(N, b, k) = Edge(L, b, k)
  <2>1. k # 0 => k \in 1 .. m
    BY <1>1, <1>3, <1>20
  <2> QED BY <1>18, <1>22, <2>1 DEF Edge
<1>26. Prefix(N, d, c, b)
  <2>1. d \in 0 .. c /\ c \in 0 .. c /\ c \in 0 .. Len(N.items) /\ d \in Nat
    BY <1>1, <1>3, <1>13, <1>18, <1>20, <1>23
  <2>2. ASSUME NEW k \in 1 .. c
        PROVE  N.items[k].next - Len(N.items[k].data) = Edge(N, b, k - 1)
    <3>1. k \in 1 .. m /\ k - 1 \in 0 .. c
      BY <1>1, <1>3, <1>20
    <3> QED BY <1>3, <1>18, <1>22, <1>25, <3>1
  <2>3. Chain(N, c, b)
    BY <1>1, <1>3, <2>1, <2>2 DEF Chain
  <2>4. Edge(N, b, c) = N.complete /\ Edge(N, b, d) + N.readpos <= N.complete
    <3>1. Edge(N, b, c) = N.complete /\ Edge(N, b, d) = e
      BY <1>3, <1>14, <1>18, <1>25, <2>1
    <3>2. p + n <= L.complete
      BY <1>3, <1>6, <1>7, <1>9
    <3> QED BY <1>18, <1>19, <3>1, <3>2
  <2>5. \A k \in 1 .. Len(N.items) :
           (N.items[k].complete <=> k <= c) /\ (N.items[k].read <=> k <= d)
    BY <1>18, <1>22, <1>23
  <2> QED BY <2>1, <2>3, <2>4, <2>5 DEF Prefix
<1>27. Held(N, got \o SubSeq(Unread(L), 1, n))
  <2>1. d \in Nat /\ d \in 0 .. c
    BY <1>1, <1>3, <1>13
  <2>2. Edge(N, b, d) + N.readpos - 1 = p + n - 1
    BY <1>14, <1>18, <1>19, <1>25, <2>1
  <2>3. PICK all : all = got \o SubSeq(Unread(L), 1, n)
    OBVIOUS
  <2>4. all = From(1, Edge(N, b, d) + N.readpos - 1)
    BY <1>11, <2>2, <2>3
  <2>5. c \in Nat /\ b \in Nat
    BY <1>1
  <2>6. Held(N, all)
    BY ONLY <1>26, <2>1, <2>4, <2>5 DEF Held
  <2> QED BY <2>3, <2>6
<1> QED BY <1>18, <1>24, <1>27

\* The list of a new connection waits for byte 1.
LEMMA NewHeld ==
    IsList(NewList(1)) /\ Held(NewList(1), <<>>) /\ NewList(1).complete = 1
<1>1. PICK L : L = NewList(1)
  OBVIOUS
<1>2. /\ L = [items |-> <<>>, count |-> 0, complete |-> 1, readpos |-> 0, total |-> 0]
      /\ Len(L.items) = 0
  BY <1>1 DEF NewList
<1>3. IsList(L)
  <2>1. <<>> \in Seq({it \in Items : InPlace(it)})
    BY EmptySeq
  <2> QED BY <1>2, <2>1 DEF IsList
<1>4. Edge(L, 1, 0) = 1
  BY DEF Edge
<1>5. Prefix(L, 0, 0, 1)
  <2>1. Chain(L, 0, 1)
    BY <1>2 DEF Chain
  <2> QED BY <1>2, <1>4, <2>1 DEF Prefix
<1>6. Held(L, <<>>)
  <2>1. <<>> = From(1, Edge(L, 1, 0) + L.readpos - 1)
    <3>1. Edge(L, 1, 0) + L.readpos - 1 = 0
      BY <1>2, <1>4
    <3> QED BY <3>1, FromNone
  <2>2. 0 \in Nat /\ 1 \in Nat
    OBVIOUS
  <2> QED BY <1>5, <2>1, <2>2 DEF Held
<1> QED BY <1>1, <1>2, <1>3, <1>6

\* The bytes of the stream that a connection has.
LEMMA HeldStream ==
    ASSUME NEW L, IsList(L), NEW got, Held(L, got)
    PROVE  Stream(L, got) = [k \in 1 .. L.complete - 1 |-> k]
<1>1. PICK r, c, b : Prefix(L, r, c, b) /\ got = From(1, Edge(L, b, r) + L.readpos - 1)
  BY DEF Held
<1>2. PICK p : p = Edge(L, b, r) + L.readpos
  OBVIOUS
<1>3. p \in Nat /\ p >= 1 /\ p <= L.complete /\ Unread(L) = From(p, L.complete - p)
  BY <1>1, <1>2, UnreadBytes
<1>0. PICK z \in Nat : z = L.complete
  BY ListParts
<1>4. PICK x \in Nat : x = p - 1
  BY <1>3
<1>5. PICK w \in Nat : w = z - p
  BY <1>0, <1>3
<1>6. 1 \in Nat /\ 1 + x = p /\ x + w = z - 1
  BY <1>0, <1>3, <1>4, <1>5
<1>7. From(1, x) \o From(1 + x, w) = From(1, x + w)
  BY ONLY <1>4, <1>5, <1>6, FromConcat
<1>8. Stream(L, got) = From(1, z - 1)
  <2>1. got = From(1, x)
    <3>1. Edge(L, b, r) + L.readpos - 1 = x
      <4>1. Edge(L, b, r) \in Nat /\ L.readpos \in Nat
        <5>1. r \in Nat /\ c \in Nat /\ r <= c /\ L.readpos \in Nat
          BY ONLY IsList(L), <1>1, PrefixParts
        <5>2. r \in 0 .. c
          BY <5>1
        <5> QED BY ONLY IsList(L), <1>1, <5>1, <5>2, PrefixParts
      <4> QED BY ONLY <1>2, <1>4, <4>1
    <3> QED BY ONLY <1>1, <3>1
  <2>2. Unread(L) = From(1 + x, w)
    BY <1>0, <1>3, <1>5, <1>6
  <2> QED BY <1>6, <1>7, <2>1, <2>2 DEF Stream
<1>9. \A k \in 1 .. z - 1 : 1 + k - 1 = k
  OBVIOUS
<1> QED BY <1>0, <1>8, <1>9 DEF From
-----------------------------------------------------------------------------
(* One socket.                                                               *)

IsSock(s) ==
    s = [state |-> s.state, type |-> s.type, id |-> s.id, rem |-> s.rem, loc |-> s.loc,
         unack |-> s.unack, rnext |-> s.rnext, retry |-> s.retry, ackt |-> s.ackt,
         fin |-> s.fin, close |-> s.close, pkt |-> s.pkt, list |-> s.list,
         owed |-> s.owed, got |-> s.got]

\* A packet that is resent is there.
Resends(s) == IsSock(s) /\ s.retry \in Nat /\ (s.retry > 0 => s.pkt # "none")

\* A connection has the stream up to receive_next, one that is being opened
\* expects byte 1.
Streams(s) ==
    /\ s.state = "syn_received" => s.rnext = 1
    /\ s.state = "connected" =>
          /\ IsList(s.list) /\ Held(s.list, s.got) /\ s.list.complete = s.rnext
          /\ s.rnext \in Nat

Good(s) == Resends(s) /\ Streams(s)

\* What the properties are about is the same in both.
Alike(s, x) ==
    /\ IsSock(x) /\ x.state = s.state /\ x.rnext = s.rnext /\ x.list = s.list /\ x.got = s.got
    /\ x.retry = s.retry /\ x.pkt = s.pkt

LEMMA AlikeGood ==
    ASSUME NEW s, NEW x, Alike(s, x)
    PROVE  (Resends(s) => Resends(x)) /\ (Good(s) => Good(x))
  BY DEF Alike, Good, Resends, Streams

LEMMA AlikeTwice ==
    ASSUME NEW s, NEW x, NEW y, Alike(s, x), Alike(x, y)
    PROVE  Alike(s, y)
  BY DEF Alike

\* A socket whose state the streams are not about.
LEMMA OtherGood ==
    ASSUME NEW s, Resends(s), s.state \notin {"syn_received", "connected"}
    PROVE  Good(s)
  BY DEF Good, Streams

LEMMA FreeGood ==
    /\ Good(FreeSock) /\ FreeSock.state = "free"
    /\ \A t : Good([FreeSock EXCEPT !.state = "reserved", !.id = t])
<1>1. Resends(FreeSock) /\ FreeSock.state = "free"
  BY DEF FreeSock, Resends, IsSock
<1>2. ASSUME NEW t PROVE Good([FreeSock EXCEPT !.state = "reserved", !.id = t])
  <2>1. PICK s : s = [FreeSock EXCEPT !.state = "reserved", !.id = t]
    OBVIOUS
  <2>2. /\ IsSock(s) /\ s.state = "reserved"
        /\ s.retry = FreeSock.retry /\ s.pkt = FreeSock.pkt
    BY ONLY <1>1, <2>1 DEF Resends, IsSock
  <2>3. Good(s)
    BY <1>1, <2>2, OtherGood DEF Resends
  <2> QED BY <2>1, <2>3
<1> QED BY <1>1, <1>2, OtherGood

LEMMA SentAlike ==
    ASSUME NEW s, IsSock(s)
    PROVE  Alike(s, Sent(s))
<1>1. PICK x : x = [s EXCEPT !.owed = FALSE]
  OBVIOUS
<1>2. IsSock(x)
  BY ONLY IsSock(s), <1>1 DEF IsSock
<1>3. /\ x.state = s.state /\ x.rnext = s.rnext /\ x.list = s.list /\ x.got = s.got
      /\ x.retry = s.retry /\ x.pkt = s.pkt
  BY ONLY IsSock(s), <1>1 DEF IsSock
<1> QED BY <1>1, <1>2, <1>3 DEF Alike, Sent

\* Changes of fields that the properties are not about.
LEMMA IdAlike ==
    ASSUME NEW s, IsSock(s), NEW t
    PROVE  Alike(s, [s EXCEPT !.id = t])
  BY DEF IsSock, Alike

LEMMA IdLocAlike ==
    ASSUME NEW s, IsSock(s), NEW t, NEW p
    PROVE  Alike(s, [s EXCEPT !.id = t, !.loc = p])
<1>1. PICK x : x = [s EXCEPT !.id = t, !.loc = p]
  OBVIOUS
<1>2. IsSock(x)
  BY ONLY IsSock(s), <1>1 DEF IsSock
<1>3. /\ x.state = s.state /\ x.rnext = s.rnext /\ x.list = s.list /\ x.got = s.got
      /\ x.retry = s.retry /\ x.pkt = s.pkt
  BY ONLY IsSock(s), <1>1 DEF IsSock
<1> QED BY <1>1, <1>2, <1>3 DEF Alike

LEMMA UnackAlike ==
    ASSUME NEW s, IsSock(s), NEW u
    PROVE  Alike(s, [s EXCEPT !.unack = u])
  BY DEF IsSock, Alike

LEMMA RemAlike ==
    ASSUME NEW s, IsSock(s), NEW a
    PROVE  Alike(s, [s EXCEPT !.rem = a])
  BY DEF IsSock, Alike

LEMMA AcktAlike ==
    ASSUME NEW s, IsSock(s), NEW a
    PROVE  Alike(s, [s EXCEPT !.ackt = a])
  BY DEF IsSock, Alike

LEMMA FinAlike ==
    ASSUME NEW s, IsSock(s), NEW a
    PROVE  Alike(s, [s EXCEPT !.fin = a])
  BY DEF IsSock, Alike

LEMMA NextGiven ==
    ASSUME NEW s, NEW block \in NextBlocks(s)
    PROVE  block \in Blocks
  BY DEF NextBlocks, Blocks

\* tcp_newstate to CONNECTED keeps what is resent and the stream.
LEMMA ConnectedParts ==
    ASSUME NEW s, Resends(s), NEW block \in Blocks, NEW x, x = Connected(s, block)
    PROVE  /\ Resends(x) /\ x.state = "connected"
           /\ x.rnext = s.rnext /\ x.list = s.list /\ x.got = s.got
<1>1. PICK y : y = IF s.retry > 0 THEN Confirmed(s, block) ELSE s
  OBVIOUS
<1>2. Resends(y) /\ y.rnext = s.rnext /\ y.list = s.list /\ y.got = s.got
  <2>1. CASE s.retry > 0 /\ OwnerSends(s)
    <3>1. PICK z : z = [s EXCEPT !.pkt = block, !.retry = RETRIES, !.unack = TRUE]
      OBVIOUS
    <3>2. y = Sent(z)
      BY <1>1, <2>1, <3>1 DEF Confirmed
    <3>3. /\ IsSock(z) /\ z.retry = RETRIES /\ z.pkt = block
          /\ z.rnext = s.rnext /\ z.list = s.list /\ z.got = s.got
      BY <3>1 DEF Resends, IsSock
    <3>4. block # "none"
      BY DEF Blocks
    <3>5. Resends(z)
      BY <3>3, <3>4, TcpAssumption DEF Resends
    <3>6. Alike(z, y)
      BY <3>2, <3>3, SentAlike
    <3> QED BY <3>3, <3>5, <3>6, AlikeGood DEF Alike
  <2>2. CASE s.retry > 0 /\ ~OwnerSends(s)
    <3>1. y = [s EXCEPT !.pkt = "none", !.retry = 0]
      BY <1>1, <2>2 DEF Confirmed
    <3>2. IsSock(y) /\ y.retry = 0 /\ y.rnext = s.rnext /\ y.list = s.list /\ y.got = s.got
      BY <3>1 DEF Resends, IsSock
    <3> QED BY <3>2 DEF Resends
  <2>3. CASE ~(s.retry > 0)
    BY <1>1, <2>3
  <2> QED BY <2>1, <2>2, <2>3
<1>3. x = [y EXCEPT !.state = "connected"]
  BY <1>1 DEF Connected
<1>4. /\ IsSock(x) /\ x.state = "connected" /\ x.rnext = y.rnext /\ x.list = y.list
      /\ x.got = y.got /\ x.retry = y.retry /\ x.pkt = y.pkt
  BY ONLY <1>2, <1>3 DEF Resends, IsSock
<1> QED BY <1>2, <1>4 DEF Resends

\* tcp_newstate to another state keeps what is resent.
LEMMA NewStateParts ==
    ASSUME NEW s, Resends(s), NEW new, NEW x, x = NewState(s, new)
    PROVE  /\ Resends(x) /\ x.state = new
           /\ new \in {"syn_sent", "syn_received"} =>
                x.rnext = s.rnext /\ x.list = s.list /\ x.got = s.got
<1>1. PICK n : n = IF new \in {"syn_sent", "syn_received"} THEN s ELSE Left(s)
  OBVIOUS
<1>2. /\ IsSock(n) /\ n.retry = s.retry /\ n.pkt = s.pkt
      /\ new \in {"syn_sent", "syn_received"} => n = s
  BY <1>1 DEF Left, Resends, IsSock
<1>3. PICK a : a = IF new = "timed_wait" /\ s.state # new THEN 1 ELSE n.close
  OBVIOUS
<1>4. PICK b : b = IF new = "closed" THEN 0 ELSE n.fin
  OBVIOUS
<1>5. x = [n EXCEPT !.state = new, !.close = a, !.fin = b]
  BY <1>1, <1>3, <1>4 DEF NewState
<1>6. /\ IsSock(x) /\ x.state = new /\ x.rnext = n.rnext /\ x.list = n.list /\ x.got = n.got
      /\ x.retry = n.retry /\ x.pkt = n.pkt
  BY ONLY <1>2, <1>5 DEF IsSock
<1> QED BY <1>2, <1>6 DEF Resends

LEMMA NewStateOther ==
    ASSUME NEW s, Resends(s), NEW new, new \notin {"syn_received", "connected"}
    PROVE  Good(NewState(s, new)) /\ NewState(s, new).state = new
<1>1. Resends(NewState(s, new)) /\ NewState(s, new).state = new
  BY NewStateParts
<1> QED BY <1>1, OtherGood

\* A connection that goes on.
LEMMA ConnectedSame ==
    ASSUME NEW s, Good(s), s.state = "connected", NEW block \in Blocks
    PROVE  Good(Connected(s, block))
<1>1. PICK x : x = Connected(s, block)
  OBVIOUS
<1>2. Resends(x) /\ x.state = "connected" /\ x.rnext = s.rnext /\ x.list = s.list /\ x.got = s.got
  BY <1>1, ConnectedParts DEF Good
<1> QED BY <1>1, <1>2 DEF Good, Streams

LEMMA EndedGood ==
    ASSUME NEW s, Resends(s)
    PROVE  Good(Ended(s))
  BY NewStateOther DEF Ended

\* The packet of tcpsend.
LEMMA PacketGood ==
    ASSUME NEW s, Good(s), NEW block \in Blocks
    PROVE  Good(Packet(s, block))
<1>1. PICK z : z = [s EXCEPT !.pkt = block, !.unack = TRUE, !.retry = RETRIES]
  OBVIOUS
<1>2. /\ IsSock(z) /\ z.retry = RETRIES /\ z.pkt = block /\ z.state = s.state
      /\ z.rnext = s.rnext /\ z.list = s.list /\ z.got = s.got
  BY <1>1 DEF Good, Resends, IsSock
<1>3. block # "none"
  BY DEF Blocks
<1>4. Good(z)
  BY <1>2, <1>3, TcpAssumption DEF Good, Resends, Streams
<1> QED BY <1>1, <1>2, <1>4, SentAlike, AlikeGood DEF Packet

\* The close of a socket in any state.
LEMMA ClosedGood ==
    ASSUME NEW s0, Good(s0), NEW t
    PROVE  Good(Closed(s0, t))
<1>1. PICK s : s = [s0 EXCEPT !.id = t]
  OBVIOUS
<1>2. Good(s) /\ Resends(s) /\ IsSock(s)
  <2>1. IsSock(s0)
    BY DEF Good, Resends
  <2>2. Good(s)
    BY <1>1, <2>1, IdAlike, AlikeGood
  <2> QED BY <2>2 DEF Good, Resends
<1>3. Good(NewState(s, "closed"))
  BY <1>2, NewStateOther
<1>4. ASSUME NEW x, Resends(x) PROVE Good(Sent(NewState(x, "finw1")))
  <2>1. Good(NewState(x, "finw1"))
    BY <1>4, NewStateOther
  <2>2. IsSock(NewState(x, "finw1"))
    BY <2>1 DEF Good, Resends
  <2> QED BY <2>1, <2>2, SentAlike, AlikeGood
<1>5. Resends([s EXCEPT !.unack = TRUE])
  BY <1>2, UnackAlike, AlikeGood
<1>6. Closed(s0, t) =
        CASE s.state \in {"listening", "syn_sent"} -> NewState(s, "closed")
          [] s.state = "syn_received" -> Sent(NewState(s, "finw1"))
          [] s.state = "connected" /\ ~s.unack ->
               Sent(NewState([s EXCEPT !.unack = TRUE], "finw1"))
          [] OTHER -> s
  BY <1>1 DEF Closed
<1> QED BY <1>2, <1>3, <1>4, <1>5, <1>6

\* What arrives for a connection that is being closed.
LEMMA ClosingGood ==
    ASSUME NEW s, Good(s), NEW g,
           s.state \in {"finw1", "finw2", "closing", "last_ack", "timed_wait"}
    PROVE  Good(Closing(s, g))
<1>1. PICK fin : fin = Sent([s EXCEPT !.rnext = g.seq + 1 + g.len])
  OBVIOUS
<1>2. PICK acked : acked = [s EXCEPT !.unack = FALSE]
  OBVIOUS
<1>3. PICK both : both = [fin EXCEPT !.unack = FALSE]
  OBVIOUS
<1>4. IsSock(s) /\ Resends(s)
  BY DEF Good, Resends
<1>5. Resends(fin) /\ Good(fin) /\ IsSock(fin)
  <2>1. PICK n : n = g.seq + 1 + g.len
    OBVIOUS
  <2>2. PICK z : z = [s EXCEPT !.rnext = n]
    OBVIOUS
  <2>3. IsSock(z) /\ z.retry = s.retry /\ z.pkt = s.pkt /\ z.state = s.state
    BY ONLY <1>4, <2>2 DEF IsSock
  <2>4. Good(z)
    BY <1>4, <2>3, OtherGood DEF Resends
  <2>5. Good(fin)
    BY <1>1, <2>1, <2>2, <2>3, <2>4, SentAlike, AlikeGood
  <2> QED BY <2>5 DEF Good, Resends
<1>6. Resends(acked) /\ Resends(both)
  BY <1>2, <1>3, <1>4, <1>5, UnackAlike, AlikeGood
<1>7. /\ Good(Ended(s)) /\ Good(Ended(acked))
      /\ Good(NewState(both, "timed_wait")) /\ Good(NewState(fin, "closing"))
      /\ Good(NewState(acked, "finw2")) /\ Good(NewState(fin, "timed_wait"))
      /\ Good(NewState(acked, "timed_wait"))
  BY <1>4, <1>5, <1>6, EndedGood, NewStateOther
<1> QED BY <1>1, <1>2, <1>3, <1>5, <1>7 DEF Closing

\* A second passes.
LEMMA TickGood ==
    ASSUME NEW s, Good(s)
    PROVE  Good(Tick(s))
<1>1. IsSock(s) /\ Resends(s)
  BY DEF Good, Resends
<1>2. PICK r : r = IF s.state = "connected" /\ s.retry > 0
                   THEN Sent([s EXCEPT !.retry = @ - 1]) ELSE s
  OBVIOUS
<1>3. Good(r) /\ IsSock(r)
  <2>1. CASE s.state = "connected" /\ s.retry > 0
    <3>1. PICK z : z = [s EXCEPT !.retry = s.retry - 1]
      OBVIOUS
    <3>2. /\ IsSock(z) /\ z.retry = s.retry - 1 /\ z.pkt = s.pkt /\ z.state = s.state
          /\ z.rnext = s.rnext /\ z.list = s.list /\ z.got = s.got
      BY ONLY <1>1, <3>1 DEF IsSock
    <3>3. Good(z)
      BY <1>1, <2>1, <3>2 DEF Good, Resends, Streams
    <3>4. r = Sent(z)
      BY <1>2, <2>1, <3>1
    <3>5. Good(r)
      BY <3>2, <3>3, <3>4, SentAlike, AlikeGood
    <3> QED BY <3>5 DEF Good, Resends
  <2>2. CASE ~(s.state = "connected" /\ s.retry > 0)
    BY <1>1, <1>2, <2>2
  <2> QED BY <2>1, <2>2
<1>4. PICK z : z = [s EXCEPT !.close = 0]
  OBVIOUS
<1>5. Resends(z)
  <2>1. IsSock(z) /\ z.retry = s.retry /\ z.pkt = s.pkt
    BY ONLY <1>1, <1>4 DEF IsSock
  <2> QED BY <1>1, <2>1 DEF Resends
<1>6. PICK a : a = Sent([r EXCEPT !.ackt = 0])
  OBVIOUS
<1>7. Good(a)
  <2>1. PICK y : y = [r EXCEPT !.ackt = 0]
    OBVIOUS
  <2>2. Alike(r, y)
    BY <1>3, <2>1, AcktAlike
  <2>3. Good(y) /\ IsSock(y)
    BY <1>3, <2>2, AlikeGood DEF Alike
  <2> QED BY <1>6, <2>1, <2>3, SentAlike, AlikeGood
<1>8. PICK u : u = CASE s.state = "connected" /\ s.ackt > 0 -> a
                     [] s.state = "timed_wait" /\ s.close = 1 -> Ended(z)
                     [] OTHER -> r
  OBVIOUS
<1>9. Good(u) /\ IsSock(u)
  <2>1. Good(u)
    BY <1>3, <1>5, <1>7, <1>8, EndedGood
  <2> QED BY <2>1 DEF Good, Resends
<1>10. PICK f : f = IF u.fin > 0 THEN u.fin - 1 ELSE 0
  OBVIOUS
<1>11. Tick(s) = IF u.fin = 1 THEN FreeSock ELSE [u EXCEPT !.fin = f]
  BY <1>2, <1>4, <1>6, <1>8, <1>10 DEF Tick
<1> QED BY <1>9, <1>11, FreeGood, FinAlike, AlikeGood

\* Data that a connection takes.
LEMMA ReceivedGood ==
    ASSUME NEW s, Good(s), s.state = "connected", NEW g, NEW list,
           IsList(list), Held(list, s.got)
    PROVE  Good(Received(s, list, g)) /\ Received(s, list, g).state = "connected"
<1>1. PICK a : a = (s.owed \/ list.complete > s.rnext)
  OBVIOUS
<1>2. PICK x : x = [s EXCEPT !.list = list, !.rnext = list.complete, !.owed = a]
  OBVIOUS
<1>3. Received(s, list, g) = x
  BY <1>1, <1>2 DEF Received
<1>4. /\ IsSock(x) /\ x.retry = s.retry /\ x.pkt = s.pkt /\ x.state = s.state
      /\ x.rnext = list.complete /\ x.list = list /\ x.got = s.got
  BY ONLY <1>2, Good(s) DEF Good, Resends, IsSock
<1>5. list.complete \in Nat
  BY ListParts
<1>6. Good(x)
  BY <1>4, <1>5 DEF Good, Resends, Streams
<1> QED BY <1>3, <1>4, <1>6

\* What a program reads.
LEMMA RecvGood ==
    ASSUME NEW s, Good(s), s.state = "connected", NEW t, NEW size \in Nat,
           NEW n, n = IF size < Len(Unread(s.list)) THEN size ELSE Len(Unread(s.list)),
           NEW x, x = [s EXCEPT !.id = t, !.list = Read(@, size),
                                !.got = @ \o SubSeq(Unread(s.list), 1, n)]
    PROVE  Good(x)
<1>1. PICK l : l = Read(s.list, size)
  OBVIOUS
<1>2. PICK w : w = s.got \o SubSeq(Unread(s.list), 1, n)
  OBVIOUS
<1>3. x = [s EXCEPT !.id = t, !.list = l, !.got = w]
  BY <1>1, <1>2
<1>4. /\ IsSock(x) /\ x.retry = s.retry /\ x.pkt = s.pkt /\ x.state = s.state
      /\ x.rnext = s.rnext /\ x.list = l /\ x.got = w
  BY ONLY <1>3, Good(s) DEF Good, Resends, IsSock
<1>5. /\ IsList(s.list) /\ Held(s.list, s.got) /\ s.list.complete = s.rnext /\ s.rnext \in Nat
  BY DEF Good, Streams
<1>6. IsList(l) /\ l.complete = s.list.complete /\ Held(l, w)
  BY <1>1, <1>2, <1>5, ReadKeeps
<1> QED BY <1>4, <1>5, <1>6 DEF Good, Resends, Streams

\* A connection that is established.
LEMMA InitGood ==
    ASSUME NEW s, Resends(s), s.rnext = 1
    PROVE  Good(InitTCPSock(s))
<1>1. PICK x : x = [s EXCEPT !.list = NewList(1), !.got = <<>>]
  OBVIOUS
<1>2. InitTCPSock(s) = x
  BY <1>1 DEF InitTCPSock
<1>3. /\ IsSock(x) /\ x.retry = s.retry /\ x.pkt = s.pkt /\ x.state = s.state
      /\ x.rnext = 1 /\ x.list = NewList(1) /\ x.got = <<>>
  BY ONLY <1>1, Resends(s), s.rnext = 1 DEF Resends, IsSock
<1> QED BY <1>2, <1>3, NewHeld DEF Good, Resends, Streams
-----------------------------------------------------------------------------
(* The table of sockets.                                                     *)

Inv == sock = [i \in Sock |-> sock[i]] /\ \A i \in Sock : Good(sock[i])

LEMMA SetGood ==
    ASSUME Inv, NEW i, NEW s, i \in Sock => Good(s), SetSock(i, s)
    PROVE  Inv'
<1>1. sock' = [sock EXCEPT ![i] = s]
  BY DEF SetSock
<1>2. sock = [j \in Sock |-> sock[j]] /\ \A j \in Sock : Good(sock[j])
  BY DEF Inv
<1>3. DOMAIN sock' = Sock /\ \A j \in Sock : sock'[j] = IF j = i THEN s ELSE sock[j]
  BY <1>1, <1>2
<1>4. sock' = [j \in Sock |-> sock'[j]]
  BY <1>1, <1>2
<1>5. \A j \in Sock : Good(sock'[j])
  BY <1>2, <1>3
<1>6. Inv' <=> sock' = [j \in Sock |-> sock'[j]] /\ \A j \in Sock : Good(sock'[j])
  BY DEF Inv, Good, Resends, Streams, IsSock, IsList, Held, Prefix, Chain, Edge, Sock
<1> QED BY <1>4, <1>5, <1>6

LEMMA SameGood ==
    ASSUME Inv, UNCHANGED sock
    PROVE  Inv'
<1>1. Inv' <=> sock' = [j \in Sock |-> sock'[j]] /\ \A j \in Sock : Good(sock'[j])
  BY DEF Inv, Good, Resends, Streams, IsSock, IsList, Held, Prefix, Chain, Edge, Sock
<1> QED BY <1>1 DEF Inv
LEMMA GoodOf ==
    ASSUME Inv, NEW i \in Sock
    PROVE  Good(sock[i]) /\ Resends(sock[i]) /\ IsSock(sock[i])
  BY DEF Inv, Good, Resends

\* Calls of programs.
LEMMA TcpConnectStep ==
    ASSUME Inv, NEW t, NEW i, NEW peer, TcpConnect(t, i, peer)
    PROVE  Inv'
<1>1. PICK p : LET s == [sock[i] EXCEPT !.id = t, !.loc = p]
               IN  SetSock(i, IF s.state \in {"reserved", "listening", "closed"}
                              THEN Sent([s EXCEPT !.type = "client", !.rem = peer,
                                                  !.unack = TRUE, !.state = "syn_sent"])
                              ELSE s)
  BY DEF TcpConnect
<1>2. PICK s : s = [sock[i] EXCEPT !.id = t, !.loc = p]
  OBVIOUS
<1>3. PICK x : x = [s EXCEPT !.type = "client", !.rem = peer, !.unack = TRUE, !.state = "syn_sent"]
  OBVIOUS
<1>4. PICK y : y = IF s.state \in {"reserved", "listening", "closed"} THEN Sent(x) ELSE s
  OBVIOUS
<1>5. SetSock(i, y)
  BY <1>1, <1>2, <1>3, <1>4
<1>6. ASSUME i \in Sock PROVE Good(y)
  <2>1. Good(s) /\ IsSock(s) /\ Resends(s)
    <3>1. Good(s)
      BY <1>2, <1>6, GoodOf, IdLocAlike, AlikeGood
    <3> QED BY <3>1 DEF Good, Resends
  <2>2. IsSock(x) /\ x.retry = s.retry /\ x.pkt = s.pkt /\ x.state = "syn_sent"
    BY ONLY <1>3, <2>1 DEF IsSock
  <2>3. Good(x)
    BY <2>1, <2>2, OtherGood DEF Resends
  <2>4. Good(Sent(x))
    BY <2>2, <2>3, SentAlike, AlikeGood
  <2> QED BY <1>4, <2>1, <2>4
<1> QED BY <1>5, <1>6, SetGood

LEMMA TcpSendStep ==
    ASSUME Inv, NEW t, NEW i, TcpSend(t, i)
    PROVE  Inv'
<1>1. PICK s : s = [sock[i] EXCEPT !.id = t]
  OBVIOUS
<1>2. UNCHANGED sock \/ SetSock(i, s) \/ \E block \in Blocks : SetSock(i, Packet(s, block))
  BY <1>1 DEF TcpSend
<1>3. i \in Sock => Good(s) /\ \A block \in Blocks : Good(Packet(s, block))
  BY <1>1, GoodOf, IdAlike, AlikeGood, PacketGood
<1> QED BY <1>2, <1>3, SetGood, SameGood

LEMMA CallStep ==
    ASSUME Inv, NEW t \in Tasks, NEW i \in Sock, ServerCall(t, i) \/ ClientCall(t, i)
    PROVE  Inv'
<1>1. CASE Accept(t, i)
  BY <1>1, GoodOf, IdAlike, AlikeGood, SetGood DEF Accept
<1>2. CASE \E p \in LowPorts : Listen(t, i, p)
  <2>1. PICK p : Listen(t, i, p)
    BY <1>2
  <2>2. PICK x : x = [sock[i] EXCEPT !.id = t, !.type = "server", !.state = "listening",
                                     !.loc = p, !.rem = NONE, !.unack = TRUE, !.rnext = 0]
    OBVIOUS
  <2>3. SetSock(i, x)
    BY <2>1, <2>2 DEF Listen
  <2>4. Resends(sock[i])
    BY GoodOf
  <2>5. IsSock(x) /\ x.retry = sock[i].retry /\ x.pkt = sock[i].pkt /\ x.state = "listening"
    BY ONLY <2>2, <2>4 DEF Resends, IsSock
  <2>6. Good(x)
    BY <2>4, <2>5, OtherGood DEF Resends
  <2> QED BY <2>3, <2>6, SetGood
<1>3. CASE \E p \in HighPorts : Bind(t, i, p)
  BY <1>3, GoodOf, IdLocAlike, AlikeGood, SetGood DEF Bind
<1>4. CASE \E peer \in Peers : Connect(t, i, peer)
  BY <1>4, TcpConnectStep, SameGood DEF Connect
<1> QED BY <1>1, <1>2, <1>3, <1>4 DEF ServerCall, ClientCall

LEMMA RecvStep ==
    ASSUME Inv, NEW t, NEW i \in Sock, NEW size \in Nat, Recv(t, i, size)
    PROVE  Inv'
<1>1. PICK n : n = IF size < Len(Unread(sock[i].list)) THEN size ELSE Len(Unread(sock[i].list))
  OBVIOUS
<1>2. PICK x : x = [sock[i] EXCEPT !.id = t, !.list = Read(@, size),
                                   !.got = @ \o SubSeq(Unread(sock[i].list), 1, n)]
  OBVIOUS
<1>3. SetSock(i, x)
  BY <1>1, <1>2 DEF Recv
<1>4. sock[i].state = "connected"
  BY DEF Recv
<1>5. Good(x)
  BY <1>1, <1>2, <1>4, GoodOf, RecvGood
<1> QED BY <1>3, <1>5, SetGood

LEMMA DataCallStep ==
    ASSUME Inv, NEW t \in Tasks, NEW i \in Sock, DataCall(t, i)
    PROVE  Inv'
<1>1. CASE Send(t, i)
  BY <1>1, TcpSendStep, SameGood DEF Send
<1>2. CASE Free(t, i)
  <2>1. PICK s : s = Closed(sock[i], t)
    OBVIOUS
  <2>2. Good(s) /\ IsSock(s)
    <3>1. Good(s)
      BY <2>1, GoodOf, ClosedGood
    <3> QED BY <3>1 DEF Good, Resends
  <2>3. SetSock(i, FreeSock) \/ SetSock(i, [s EXCEPT !.fin = 2])
    BY <1>2, <2>1 DEF Free
  <2>4. Good([s EXCEPT !.fin = 2])
    BY <2>2, FinAlike, AlikeGood
  <2> QED BY <2>3, <2>4, FreeGood, SetGood
<1>3. CASE \E n \in 1 .. MAX_LEN : Recv(t, i, n)
  <2>1. \A n \in 1 .. MAX_LEN : n \in Nat
    OBVIOUS
  <2> QED BY <1>3, <2>1, RecvStep
<1> QED BY <1>1, <1>2, <1>3 DEF DataCall

\* Every socket changes on its own.
LEMMA AllGood ==
    ASSUME sock' = [i \in Sock |-> sock'[i]], \A i \in Sock : Good(sock'[i])
    PROVE  Inv'
<1>1. Inv' <=> sock' = [j \in Sock |-> sock'[j]] /\ \A j \in Sock : Good(sock'[j])
  BY DEF Inv, Good, Resends, Streams, IsSock, IsList, Held, Prefix, Chain, Edge, Sock
<1> QED BY <1>1

LEMMA ProgramStep ==
    ASSUME Inv, NEW t \in Tasks, Socket(t) \/ Exit(t) \/ Scan(t)
    PROVE  Inv'
<1>1. CASE Socket(t)
  <2>1. PICK i \in Sock : SetSock(i, [FreeSock EXCEPT !.state = "reserved", !.id = t])
    BY <1>1 DEF Socket
  <2> QED BY <2>1, FreeGood, SetGood
<1>2. CASE Exit(t)
  <2>1. sock' = [i \in Sock |-> IF sock[i].id = t THEN FreeSock ELSE sock[i]]
    BY <1>2 DEF Exit, FreeId
  <2>2. \A i \in Sock : Good(sock'[i])
    BY <2>1, FreeGood, GoodOf
  <2>3. sock' = [i \in Sock |-> sock'[i]]
    BY <2>1
  <2> QED BY <2>2, <2>3, AllGood
<1>3. CASE ConnScan(t)
  BY <1>3, TcpConnectStep, SameGood DEF ConnScan
<1>4. CASE ConnTimeout(t)
  BY <1>4, SameGood DEF ConnTimeout
<1>5. CASE ArpSend(t)
  BY <1>5, TcpSendStep, SameGood DEF ArpSend
<1> QED BY <1>1, <1>2, <1>3, <1>4, <1>5 DEF Scan

LEMMA IntervalStep ==
    ASSUME Inv, Interval
    PROVE  Inv'
<1> DEFINE out == {i \in Sock : Expired(sock[i])}
<1>1. PICK last : last = IF out = {} THEN TCP_NUM + 1 ELSE CHOOSE i \in out : \A j \in out : i <= j
  OBVIOUS
<1>2. sock' = [i \in Sock |-> IF i < last THEN Tick(sock[i])
                              ELSE IF i = last THEN FreeSock ELSE sock[i]]
  BY <1>1 DEF Interval
<1>3. \A i \in Sock : Good(sock'[i])
  BY <1>2, FreeGood, GoodOf, TickGood
<1>4. sock' = [i \in Sock |-> sock'[i]]
  BY <1>2
<1> QED BY <1>3, <1>4, AllGood
\* Segments that arrive.
LEMMA SegmentOf ==
    ASSUME NEW g \in Segments
    PROVE  /\ g.seq \in Nat /\ g.len \in Nat
           /\ Has(g, "syn") => g.seq + 1 = 1
  BY TcpAssumption DEF Segments, Has

LEMMA AbortStep ==
    ASSUME Inv, NEW i \in Sock, NEW g, Abort(i, g)
    PROVE  Inv'
  BY GoodOf, EndedGood, SetGood DEF Abort

LEMMA AcknowledgedAlike ==
    ASSUME NEW s, Good(s), NEW g
    PROVE  Alike(s, Acknowledged(s, g)) /\ Good(Acknowledged(s, g))
<1>1. IsSock(s)
  BY DEF Good, Resends
<1>2. Alike(s, s)
  BY <1>1 DEF Alike
<1>3. Alike(s, Acknowledged(s, g))
  BY <1>1, <1>2, UnackAlike DEF Acknowledged
<1> QED BY <1>3, AlikeGood

LEMMA InOrderStep ==
    ASSUME Inv, NEW i \in Sock, NEW g \in Segments, NEW memory \in BOOLEAN,
           NEW block \in Blocks, sock[i].state = "connected", InOrder(i, g, memory, block)
    PROVE  Inv'
<1>1. PICK s0 : s0 = Acknowledged(sock[i], g)
  OBVIOUS
<1>2. Good(s0) /\ s0.state = "connected"
  BY <1>1, GoodOf, AcknowledgedAlike DEF Alike
<1>3. IsList(s0.list) /\ Held(s0.list, s0.got) /\ s0.rnext \in Nat
  BY <1>2 DEF Good, Streams
<1>4. PICK a : a = IF g.len = 0 THEN [list |-> s0.list, twice |-> FALSE]
                   ELSE SetRData(s0.list, s0.rnext, Data(g), memory)
  OBVIOUS
<1>5. PICK s : s = Received(s0, a.list, g)
  OBVIOUS
<1>6. /\ Continues(sock[i], g)
      /\ \/ UNCHANGED sock
         \/ SetSock(i, Sent([NewState(s, "last_ack") EXCEPT !.rnext = @ + 1, !.unack = TRUE]))
         \/ SetSock(i, Connected(DueAck(s, g), block))
  BY <1>1, <1>4, <1>5 DEF InOrder
<1>7. IsList(a.list) /\ Held(a.list, s0.got)
  <2>1. CASE g.len = 0
    BY <1>3, <1>4, <2>1
  <2>2. CASE g.len # 0
    <3>1. s0.rnext = g.seq
      BY <1>1, <1>6, GoodOf, AcknowledgedAlike DEF Alike, Continues
    <3>2. g.seq \in Nat /\ g.len \in Nat
      BY SegmentOf
    <3>3. Data(g) = From(g.seq, g.len)
      BY DEF Data, From
    <3>4. PICK l : l = s0.list
      OBVIOUS
    <3>5. PICK got : got = s0.got
      OBVIOUS
    <3>6. PICK N : N = SetRData(l, g.seq, Data(g), memory).list
      OBVIOUS
    <3>7. IsList(N) /\ Held(N, got)
      BY <1>3, <3>2, <3>3, <3>4, <3>5, <3>6, SetKeeps
    <3>8. a.list = N
      BY <1>4, <2>2, <3>1, <3>4, <3>6
    <3> QED BY <3>5, <3>7, <3>8
  <2> QED BY <2>1, <2>2
<1>8. Good(s) /\ s.state = "connected" /\ IsSock(s) /\ Resends(s)
  <2>1. Good(s) /\ s.state = "connected"
    BY <1>2, <1>5, <1>7, ReceivedGood
  <2> QED BY <2>1 DEF Good, Resends
<1>9. Good(Sent([NewState(s, "last_ack") EXCEPT !.rnext = @ + 1, !.unack = TRUE]))
  <2>1. PICK n : n = NewState(s, "last_ack")
    OBVIOUS
  <2>2. Resends(n) /\ n.state = "last_ack"
    BY <1>8, <2>1, NewStateParts
  <2>3. PICK e : e = n.rnext + 1
    OBVIOUS
  <2>4. PICK x : x = [n EXCEPT !.rnext = e, !.unack = TRUE]
    OBVIOUS
  <2>5. IsSock(x) /\ x.retry = n.retry /\ x.pkt = n.pkt /\ x.state = "last_ack"
    BY ONLY <2>2, <2>4 DEF Resends, IsSock
  <2>6. Good(x)
    BY <2>2, <2>5, OtherGood DEF Resends
  <2>7. Good(Sent(x))
    BY <2>5, <2>6, SentAlike, AlikeGood
  <2> QED BY <2>1, <2>3, <2>4, <2>7
<1>10. Good(Connected(DueAck(s, g), block))
  <2>1. PICK x : x = DueAck(s, g)
    OBVIOUS
  <2>2. Alike(s, x)
    <3>1. Alike(s, s)
      BY <1>8 DEF Alike
    <3> QED BY <1>8, <2>1, <3>1, AcktAlike DEF DueAck
  <2>3. Good(x) /\ x.state = "connected"
    BY <1>8, <2>2, AlikeGood DEF Alike
  <2> QED BY <2>1, <2>3, ConnectedSame
<1> QED BY <1>6, <1>9, <1>10, SetGood, SameGood

LEMMA SegConnectedStep ==
    ASSUME Inv, NEW i \in Sock, NEW g \in Segments, SegConnected(i, g)
    PROVE  Inv'
<1>1. sock[i].state = "connected"
  BY DEF SegConnected
<1>2. Good(sock[i]) /\ Good(Sent(sock[i])) /\ Good(Sent(Acknowledged(sock[i], g)))
  <2>1. Good(sock[i]) /\ IsSock(sock[i])
    BY GoodOf
  <2>2. Good(Acknowledged(sock[i], g)) /\ IsSock(Acknowledged(sock[i], g))
    BY <2>1, AcknowledgedAlike DEF Alike
  <2> QED BY <2>1, <2>2, SentAlike, AlikeGood
<1>3. CASE Abort(i, g)
  BY <1>3, AbortStep
<1>4. CASE SetSock(i, IF g.seq + 1 = sock[i].rnext /\ g.acks THEN Sent(sock[i]) ELSE sock[i])
  BY <1>2, <1>4, SetGood
<1>5. CASE SetSock(i, Sent(Acknowledged(sock[i], g)))
  BY <1>2, <1>5, SetGood
<1>6. CASE \E memory \in {TRUE, g.len = 0}, block \in NextBlocks(sock[i]) :
               InOrder(i, g, memory, block)
  <2>1. PICK memory \in {TRUE, g.len = 0} :
               \E block \in NextBlocks(sock[i]) : InOrder(i, g, memory, block)
    BY <1>6
  <2>2. PICK block \in NextBlocks(sock[i]) : InOrder(i, g, memory, block)
    BY <2>1
  <2>3. block \in Blocks /\ memory \in BOOLEAN
    BY <2>1, <2>2, NextGiven
  <2> QED BY <1>1, <2>2, <2>3, InOrderStep
<1> QED BY <1>3, <1>4, <1>5, <1>6 DEF SegConnected

\* The first socket of some.
First(S) == IF S = {} THEN 0 ELSE CHOOSE i \in S : \A j \in S : i <= j

LEMMA FirstOf ==
    ASSUME NEW S, S \subseteq Sock
    PROVE  (S = {} => First(S) = 0) /\ (S # {} => First(S) \in S)
<1>1. S \subseteq Nat
  BY TcpAssumption DEF Sock
<1>2. ASSUME S # {} PROVE First(S) \in S
  <2>1. \E i \in S : \A j \in S : i <= j
    BY <1>1, <1>2, LeastIn
  <2> QED BY <1>2, <2>1 DEF First
<1> QED BY <1>2 DEF First

\* tcp_mapsocket gives a socket or 0, and one that listens for a SYN alone.
LEMMA MappedSock ==
    ASSUME NEW g, Mapped(g) # 0
    PROVE  Mapped(g) \in Sock /\ (sock[Mapped(g)].state = "listening" => Has(g, "syn"))
<1>1. PICK of : of = {i \in Sock : sock[i].state # "listening"
                                     /\ sock[i].rem = g.src /\ sock[i].loc = g.dst}
  OBVIOUS
<1>2. PICK wait : wait = {i \in Sock : sock[i].state = "listening" /\ sock[i].loc = g.dst}
  OBVIOUS
<1>3. Mapped(g) = IF of # {} THEN First(of)
                  ELSE IF g.flags = {"syn"} THEN First(wait) ELSE 0
  BY <1>1, <1>2 DEF Mapped, First
<1>4. of \subseteq Sock /\ wait \subseteq Sock
  BY <1>1, <1>2
<1>5. CASE of # {}
  <2>1. Mapped(g) \in of
    BY <1>3, <1>4, <1>5, FirstOf
  <2> QED BY <1>1, <2>1
<1>6. CASE of = {}
  <2>1. g.flags = {"syn"} /\ Mapped(g) = First(wait)
    BY <1>3, <1>6
  <2>2. Mapped(g) \in wait
    BY <1>4, <2>1, FirstOf
  <2> QED BY <1>4, <2>1, <2>2 DEF Has
<1> QED BY <1>5, <1>6

LEMMA SegListeningStep ==
    ASSUME Inv, NEW i \in Sock, NEW g \in Segments, Has(g, "syn"), SegListening(i, g)
    PROVE  Inv'
<1>1. PICK s : s = [sock[i] EXCEPT !.rem = g.src]
  OBVIOUS
<1>2. Good(s) /\ Resends(s) /\ s.state = "listening"
  <2>1. Alike(sock[i], s)
    BY <1>1, GoodOf, RemAlike
  <2>2. sock[i].state = "listening"
    BY DEF SegListening
  <2> QED BY <2>1, <2>2, GoodOf, AlikeGood DEF Alike
<1>3. PICK n : n = NewState(s, "syn_received")
  OBVIOUS
<1>4. Resends(n) /\ n.state = "syn_received"
  BY <1>2, <1>3, NewStateParts
<1>5. PICK x : x = [n EXCEPT !.rnext = g.seq + 1, !.unack = TRUE]
  OBVIOUS
<1>6. /\ IsSock(x) /\ x.retry = n.retry /\ x.pkt = n.pkt /\ x.state = "syn_received"
      /\ x.rnext = 1
  <2>1. x = [n EXCEPT !.rnext = 1, !.unack = TRUE]
    BY <1>5, SegmentOf
  <2> QED BY ONLY <1>4, <2>1 DEF Resends, IsSock
<1>7. Good(x)
  BY <1>4, <1>6 DEF Good, Resends, Streams
<1>8. Good(Sent(x))
  BY <1>6, <1>7, SentAlike, AlikeGood
<1>9. PICK y : y = IF Accepts(s, i) THEN Sent(x) ELSE s
  OBVIOUS
<1>10. SetSock(i, y)
  BY <1>1, <1>3, <1>5, <1>9 DEF SegListening
<1> QED BY <1>2, <1>8, <1>9, <1>10, SetGood

\* A connection of which byte 1 is expected is established.
LEMMA EstablishedStep ==
    ASSUME Inv, NEW i \in Sock, NEW s0, Resends(s0), s0.rnext = 1, Established(i, s0)
    PROVE  Inv'
<1>1. PICK u : u = [s0 EXCEPT !.unack = FALSE]
  OBVIOUS
<1>2. Resends(u) /\ u.rnext = 1
  <2>1. Alike(s0, u)
    BY <1>1, UnackAlike DEF Resends
  <2> QED BY <2>1, AlikeGood DEF Alike
<1>0. PICK block \in NextBlocks(s0) :
          LET c == [s0 EXCEPT !.unack = FALSE]
          IN  \/ UNCHANGED sock
              \/ (\E j \in Sock : sock[j].state = "free") /\ sock' = Dup(i, Connected(c, block))
              \/ SetSock(i, InitTCPSock(Connected(c, block)))
  BY DEF Established
<1>3. PICK s : s = Connected(u, block)
  OBVIOUS
<1>4. Resends(s) /\ s.rnext = 1
  BY <1>0, <1>2, <1>3, NextGiven, ConnectedParts
<1>5. \/ (\E j \in Sock : sock[j].state = "free") /\ sock' = Dup(i, s)
      \/ UNCHANGED sock
      \/ SetSock(i, InitTCPSock(s))
  BY <1>0, <1>1, <1>3
<1>6. CASE (\E j \in Sock : sock[j].state = "free") /\ sock' = Dup(i, s)
  <2>1. PICK c : c = [s EXCEPT !.type = "client"]
    OBVIOUS
  <2>2. IsSock(c) /\ c.retry = s.retry /\ c.pkt = s.pkt /\ c.rnext = s.rnext
    BY ONLY <1>4, <2>1 DEF Resends, IsSock
  <2>3. Good(InitTCPSock(c))
    <3>1. Resends(c) /\ c.rnext = 1
      BY <1>4, <2>2 DEF Resends
    <3> QED BY <3>1, InitGood
  <2>4. PICK l : l = NewState([s EXCEPT !.rem = NONE], "listening")
    OBVIOUS
  <2>5. Good(l)
    <3>1. Resends([s EXCEPT !.rem = NONE])
      BY <1>4, RemAlike, AlikeGood DEF Resends
    <3> QED BY <2>4, <3>1, NewStateOther
  <2>6. PICK n : sock' = [sock EXCEPT ![n] = InitTCPSock(c), ![i] = l]
    BY <1>6, <2>1, <2>4 DEF Dup
  <2>7. PICK d : d = InitTCPSock(c)
    OBVIOUS
  <2>8. sock' = [sock EXCEPT ![n] = d, ![i] = l]
    BY <2>6, <2>7
  <2>9. sock = [j \in Sock |-> sock[j]]
    BY DEF Inv
  <2>10. \A j \in Sock : sock'[j] = IF j = i THEN l ELSE IF j = n THEN d ELSE sock[j]
    BY ONLY <2>8, <2>9
  <2>11. sock' = [j \in Sock |-> sock'[j]]
    BY ONLY <2>8, <2>9
  <2>12. \A j \in Sock : Good(sock'[j])
    BY <2>3, <2>5, <2>7, <2>10, GoodOf
  <2> QED BY <2>11, <2>12, AllGood
<1>7. CASE UNCHANGED sock
  BY <1>7, SameGood
<1>8. CASE SetSock(i, InitTCPSock(s))
  BY <1>4, <1>8, InitGood, SetGood
<1> QED BY <1>5, <1>6, <1>7, <1>8

\* A socket of which the SYN of the peer was read.
LEMMA SynRead ==
    ASSUME NEW s, Resends(s), NEW g \in Segments, Has(g, "syn"),
           NEW x, x = Sent([s EXCEPT !.rnext = g.seq + 1])
    PROVE  Resends(x) /\ x.rnext = 1
<1>1. PICK y : y = [s EXCEPT !.rnext = 1]
  OBVIOUS
<1>2. x = Sent(y)
  BY <1>1, SegmentOf
<1>3. IsSock(y) /\ y.retry = s.retry /\ y.pkt = s.pkt /\ y.rnext = 1
  BY ONLY <1>1, Resends(s) DEF Resends, IsSock
<1>4. Resends(y)
  BY <1>3 DEF Resends
<1>5. Alike(y, x)
  BY <1>2, <1>3, SentAlike
<1> QED BY <1>3, <1>4, <1>5, AlikeGood DEF Alike

LEMMA SegSynReceivedStep ==
    ASSUME Inv, NEW i \in Sock, NEW g \in Segments, SegSynReceived(i, g)
    PROVE  Inv'
<1>1. Good(sock[i]) /\ Resends(sock[i]) /\ sock[i].state = "syn_received"
  BY GoodOf DEF SegSynReceived
<1>2. sock[i].rnext = 1
  BY <1>1 DEF Good, Streams
<1>3. CASE Abort(i, g)
  BY <1>3, AbortStep
<1>4. CASE Has(g, "syn") /\ Established(i, Sent([sock[i] EXCEPT !.rnext = g.seq + 1]))
  <2>1. PICK x : x = Sent([sock[i] EXCEPT !.rnext = g.seq + 1])
    OBVIOUS
  <2>2. Resends(x) /\ x.rnext = 1
    BY <1>1, <1>4, <2>1, SynRead
  <2> QED BY <1>4, <2>1, <2>2, EstablishedStep
<1>5. CASE Established(i, sock[i])
  BY <1>1, <1>2, <1>5, EstablishedStep
<1> QED BY <1>3, <1>4, <1>5 DEF SegSynReceived

LEMMA SegSynSentStep ==
    ASSUME Inv, NEW i \in Sock, NEW g \in Segments, SegSynSent(i, g)
    PROVE  Inv'
<1>1. CASE Abort(i, g)
  BY <1>1, AbortStep
<1>2. PICK s : s = Sent([sock[i] EXCEPT !.rnext = g.seq + 1])
  OBVIOUS
<1>3. CASE Has(g, "syn") /\ (Established(i, s) \/ SetSock(i, NewState(s, "syn_received")))
  <2>1. Resends(s) /\ s.rnext = 1
    BY <1>2, <1>3, GoodOf, SynRead
  <2>2. PICK n : n = NewState(s, "syn_received")
    OBVIOUS
  <2>3. Resends(n) /\ n.rnext = 1 /\ n.state = "syn_received"
    BY <2>1, <2>2, NewStateParts
  <2>4. Good(n)
    BY <2>3 DEF Good, Streams
  <2> QED BY <1>3, <2>1, <2>2, <2>4, EstablishedStep, SetGood
<1> QED BY <1>1, <1>2, <1>3 DEF SegSynSent

LEMMA SegmentStep ==
    ASSUME Inv, NEW g \in Segments, Segment(g)
    PROVE  Inv'
<1>1. PICK i \in {Mapped(g)} \ {0} :
          \/ SegConnected(i, g) \/ SegListening(i, g) \/ SegSynReceived(i, g)
          \/ SegSynSent(i, g) \/ SegClosing(i, g)
  BY DEF Segment
<1>2. i = Mapped(g) /\ i # 0
  BY <1>1
<1>3. i \in Sock
  BY <1>2, MappedSock
<1>4. CASE SegConnected(i, g)
  BY <1>3, <1>4, SegConnectedStep
<1>5. CASE SegListening(i, g)
  <2>1. Has(g, "syn")
    BY <1>2, <1>5, MappedSock DEF SegListening
  <2> QED BY <1>3, <1>5, <2>1, SegListeningStep
<1>6. CASE SegSynReceived(i, g)
  BY <1>3, <1>6, SegSynReceivedStep
<1>7. CASE SegSynSent(i, g)
  BY <1>3, <1>7, SegSynSentStep
<1>8. CASE SegClosing(i, g)
  BY <1>3, <1>8, GoodOf, ClosingGood, SetGood DEF SegClosing
<1> QED BY <1>1, <1>4, <1>5, <1>6, <1>7, <1>8

-----------------------------------------------------------------------------
(* The invariant and what follows from it.                                   *)

LEMMA InvInit ==
    ASSUME Init
    PROVE  Inv
<1>1. sock = [i \in Sock |-> FreeSock]
  BY DEF Init
<1> QED BY <1>1, FreeGood DEF Inv

LEMMA InvNext ==
    ASSUME Inv, [Next]_vars
    PROVE  Inv'
<1>1. CASE \E t \in Tasks : Socket(t) \/ Exit(t) \/ Scan(t)
  BY <1>1, ProgramStep
<1>2. CASE \E t \in Tasks, i \in Sock : DataCall(t, i)
  BY <1>2, DataCallStep
<1>3. CASE \E g \in Segments : Segment(g)
  BY <1>3, SegmentStep
<1>4. CASE Interval
  BY <1>4, IntervalStep
<1>5. CASE \E t \in Tasks, i \in Sock : ServerCall(t, i) \/ ClientCall(t, i)
  BY <1>5, CallStep
<1>6. CASE UNCHANGED vars
  BY <1>6, SameGood DEF vars
<1> QED BY <1>1, <1>2, <1>3, <1>4, <1>5, <1>6 DEF Next, Common

LEMMA InvStream ==
    ASSUME Inv
    PROVE  StreamHeld
<1> SUFFICES ASSUME NEW i \in Sock, sock[i].state = "connected"
             PROVE  /\ Stream(sock[i].list, sock[i].got) = [k \in 1 .. sock[i].rnext - 1 |-> k]
                    /\ sock[i].list.complete = sock[i].rnext
  BY DEF StreamHeld
<1>1. /\ IsList(sock[i].list) /\ Held(sock[i].list, sock[i].got)
      /\ sock[i].list.complete = sock[i].rnext
  BY GoodOf DEF Good, Streams
<1>2. Stream(sock[i].list, sock[i].got) = [k \in 1 .. sock[i].list.complete - 1 |-> k]
  BY <1>1, HeldStream
<1> QED BY <1>1, <1>2

LEMMA InvPacket ==
    ASSUME Inv
    PROVE  PacketLive
  BY GoodOf DEF PacketLive, Resends

LEMMA InvAlways == Spec => []Inv
<1>1. Init => Inv
  BY InvInit
<1>2. Inv /\ [Next]_vars => Inv'
  BY InvNext
<1> QED BY <1>1, <1>2, PTL DEF Spec

\* What programs read of a connection and what its list holds for them is what
\* the peer sent, in order and without a gap, for every order in which
\* segments arrive, are lost or repeated and whatever items and packets
\* alloc_mem refuses, until the kernel is down: tcp, InitTCPSock, SetTCPRData,
\* ReadTCPRData and GCTCPDataList.
THEOREM StreamCorrect == Spec => []StreamHeld
<1>1. Inv => StreamHeld
  BY InvStream
<1> QED BY <1>1, InvAlways, PTL

\* tcp_interval resends no block that was given back to the heap, whatever
\* alloc_mem gave for the packet.
THEOREM PacketCorrect == Spec => []PacketLive
<1>1. Inv => PacketLive
  BY InvPacket
<1> QED BY <1>1, InvAlways, PTL
=============================================================================
