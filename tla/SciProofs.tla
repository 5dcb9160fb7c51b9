----------------------------- MODULE SciProofs -----------------------------
(***************************************************************************)
(* What holds of a byte ring of any size, and of a serial line with rings  *)
(* of any size, any callers and any bytes.                                 *)
(***************************************************************************)
EXTENDS Ring, Sci, SequenceTheorems, TLAPS

(***************************************************************************)
(* The byte ring.                                                          *)
(***************************************************************************)

\* The indices as numbers, what Wrap returns.
LEMMA Indices ==
    /\ maxsize \in Nat /\ maxsize > 0
    /\ Index \subseteq Nat
    /\ \A i \in Nat : i \in Index <=> i < maxsize
    /\ \A i \in Nat : i < 2 * maxsize => Wrap(i) \in Index
  BY RingAssumption DEF Index, Wrap

\* A sequence over Bytes by its length and elements.
LEMMA SeqOf ==
    ASSUME NEW n \in Nat, NEW d \in [1 .. n -> Bytes]
    PROVE  d \in Seq(Bytes) /\ Len(d) = n
  OBVIOUS

\* write_ring keeps the indices inside the area.
LEMMA WriteType ==
    ASSUME TypeOK, NEW n \in Nat, NEW d \in [1 .. n -> Bytes], Write(d)
    PROVE  TypeOK'
<1> USE Indices
<1>1. d \in Seq(Bytes) /\ Len(d) = n
  BY SeqOf
<1>2. got' \in Seq(Bytes)
  BY DEF Write
<1>3. CASE n > maxsize
  BY <1>1, <1>2, <1>3 DEF Write, TypeOK
<1>4. CASE n <= maxsize
  <2>1. /\ area' = Copied(Wrap(start + datasize), d)
        /\ datasize' = Held(datasize + n)
        /\ start' = Advanced(datasize + n)
    BY <1>1, <1>4 DEF Write
  <2>2. start \in Nat /\ start < maxsize /\ datasize \in Nat /\ datasize <= maxsize
    BY DEF TypeOK
  <2>3. datasize' \in 0 .. maxsize
    BY <1>4, <2>1, <2>2 DEF Held
  <2>4. start' \in Index
    BY <1>4, <2>1, <2>2 DEF Advanced, TypeOK
  <2>5. area' \in [Index -> Bytes]
    <3> DEFINE i == Wrap(start + datasize)
    <3>1. i \in Nat /\ i < maxsize
      <4>1. start + datasize \in Nat /\ start + datasize < 2 * maxsize
        BY <2>2
      <4> QED BY <4>1
    <3> HIDE DEF i
    <3>2. \A k \in Index : (i <= k /\ k < i + n) => d[k - i + 1] \in Bytes
      BY <1>1, <3>1
    <3>3. \A k \in Index : (~ (i <= k /\ k < i + n) /\ k + maxsize < i + n)
                              => d[k + maxsize - i + 1] \in Bytes
      BY <1>1, <3>1
    <3>4. \A k \in Index : area[k] \in Bytes
      BY DEF TypeOK
    <3>5. area' = Copied(i, d)
      BY <2>1 DEF i
    <3> QED BY <1>1, <3>2, <3>3, <3>4, <3>5 DEF Copied
  <2> QED BY <1>2, <2>3, <2>4, <2>5 DEF TypeOK
<1> QED BY <1>3, <1>4

\* read_ring keeps the indices inside the area.
LEMMA ReadType ==
    ASSUME TypeOK, NEW n \in Nat, Read(n)
    PROVE  TypeOK'
<1> USE Indices
<1> DEFINE count == IF n > maxsize THEN 0 ELSE IF n > datasize THEN datasize ELSE n
<1>1. start \in Nat /\ start < maxsize /\ datasize \in Nat /\ datasize <= maxsize
  BY DEF TypeOK
<1>2. count \in Nat /\ count <= datasize
  BY <1>1
<1>3. /\ got' = [j \in 1 .. count |-> area[Wrap(start + j - 1)]]
      /\ datasize' = datasize - count
      /\ start' = Wrap(start + count)
      /\ UNCHANGED area
  BY DEF Read
<1> HIDE DEF count
<1>4. \A j \in 1 .. count : area[Wrap(start + j - 1)] \in Bytes
  <2> SUFFICES ASSUME NEW j \in 1 .. count PROVE Wrap(start + j - 1) \in Index
    BY DEF TypeOK
  <2>1. start + j - 1 \in Nat /\ start + j - 1 < 2 * maxsize
    BY <1>1, <1>2
  <2> QED BY <2>1
<1>5. got' \in Seq(Bytes)
  BY <1>2, <1>3, <1>4
<1>6. start' \in Index /\ datasize' \in 0 .. maxsize
  BY <1>1, <1>2, <1>3
<1> QED BY <1>3, <1>5, <1>6 DEF TypeOK

\* The indices of the ring stay inside its area.
THEOREM TypeCorrect == Spec => []TypeOK
<1>1. Init => TypeOK
  BY Indices, RingAssumption DEF Init, TypeOK
<1>2. TypeOK /\ [Next]_vars => TypeOK'
  <2> SUFFICES ASSUME TypeOK, [Next]_vars PROVE TypeOK'
    OBVIOUS
  <2>1. CASE UNCHANGED vars
    BY <2>1 DEF TypeOK, vars
  <2>2. CASE Next
    BY <2>2, WriteType, ReadType, Indices DEF Next
  <2> QED BY <2>1, <2>2
<1> QED BY <1>1, <1>2, PTL DEF Spec

-----------------------------------------------------------------------------
(* The ring implements the queue. *)

\* Where the two memcpy of write_ring leave the byte at offset p from start:
\* an old byte for p < datasize, a new one behind them.  The bytes that are
\* kept are the last maxsize of both.
LEMMA CopiedAt ==
    ASSUME TypeOK, NEW n \in Nat, n <= maxsize, NEW d \in [1 .. n -> Bytes],
           NEW p \in Nat, p < datasize + n, datasize + n - maxsize <= p,
           NEW k \in Index, k = start + p \/ k = start + p - maxsize \/ k = start + p - 2 * maxsize
    PROVE  Copied(Wrap(start + datasize), d)[k]
              = IF p < datasize THEN area[k] ELSE d[p - datasize + 1]
<1> USE Indices
<1>1. start \in Nat /\ start < maxsize /\ datasize \in Nat /\ datasize <= maxsize /\ k \in Nat /\ k < maxsize
  BY DEF TypeOK
<1>2. Len(d) = n
  BY SeqOf
<1> DEFINE i == Wrap(start + datasize)
<1>3. /\ start + datasize >= maxsize => i = start + datasize - maxsize
      /\ start + datasize < maxsize => i = start + datasize
  BY <1>1 DEF Wrap
<1> HIDE DEF i
<1>4. Copied(i, d)[k] = IF i <= k /\ k < i + n THEN d[k - i + 1]
                        ELSE IF k + maxsize < i + n THEN d[k + maxsize - i + 1] ELSE area[k]
  BY <1>2 DEF Copied
<1>5. CASE p < datasize
  <2>1. ~ (i <= k /\ k < i + n) /\ ~ (k + maxsize < i + n)
    BY <1>1, <1>3, <1>5
  <2> QED BY <1>4, <1>5, <2>1 DEF i
<1>6. CASE p >= datasize /\ i <= k /\ k < i + n
  <2>1. k - i + 1 = p - datasize + 1
    BY <1>1, <1>3, <1>6
  <2> QED BY <1>1, <1>4, <1>6, <2>1 DEF i
<1>7. CASE p >= datasize /\ ~ (i <= k /\ k < i + n)
  <2>1. k + maxsize < i + n /\ k + maxsize - i + 1 = p - datasize + 1
    BY <1>1, <1>3, <1>7
  <2> QED BY <1>1, <1>4, <1>7, <2>1 DEF i
<1> QED BY <1>1, <1>5, <1>6, <1>7

\* Wrap is the remainder for what the code passes to it.
LEMMA WrapIs ==
    ASSUME NEW i \in Nat, i < 2 * maxsize
    PROVE  Wrap(i) \in Index /\ (Wrap(i) = i \/ Wrap(i) = i - maxsize)
  BY Indices DEF Wrap

LEMMA ContentIs ==
    ASSUME TypeOK
    PROVE  /\ Content \in Seq(Bytes) /\ Len(Content) = datasize
           /\ \A j \in 1 .. datasize : Content[j] = area[Wrap(start + j - 1)]
<1> USE Indices
<1>1. start \in Nat /\ start < maxsize /\ datasize \in Nat /\ datasize <= maxsize
  BY DEF TypeOK
<1>2. ASSUME NEW j \in 1 .. datasize PROVE area[Wrap(start + j - 1)] \in Bytes
  <2>1. start + j - 1 \in Nat /\ start + j - 1 < 2 * maxsize
    BY <1>1
  <2>2. Wrap(start + j - 1) \in Index
    BY <2>1
  <2> QED BY <2>2 DEF TypeOK
<1>3. Content \in [1 .. datasize -> Bytes]
  BY <1>2 DEF Content
<1> QED BY <1>1, <1>3, SeqOf DEF Content

\* write_ring appends to the queue and forgets what does not fit.
LEMMA WriteQueue ==
    ASSUME TypeOK, TypeOK', NEW n \in Nat, NEW d \in [1 .. n -> Bytes], Write(d)
    PROVE  Queue!Write(d)
<1> USE Indices
<1>1. start \in Nat /\ start < maxsize /\ datasize \in Nat /\ datasize <= maxsize
  BY DEF TypeOK
<1>2. Len(d) = n /\ d \in Seq(Bytes)
  BY SeqOf
<1>3. Len(Content) = datasize /\ Content \in Seq(Bytes)
  BY ContentIs
<1>4. CASE n > maxsize
  <2>1. Content' = Content
    BY <1>2, <1>4 DEF Write, Content
  <2> QED BY <1>2, <1>4, <2>1 DEF Write, Queue!Write
<1>5. CASE n <= maxsize
  <2>1. /\ area' = Copied(Wrap(start + datasize), d)
        /\ datasize' = IF datasize + n > maxsize THEN maxsize ELSE datasize + n
        /\ start' = IF datasize + n > maxsize THEN Wrap(start + datasize + n - maxsize) ELSE start
    <3>1. datasize' = Held(datasize + n) /\ start' = Advanced(datasize + n)
          /\ area' = Copied(Wrap(start + datasize), d)
      BY <1>2, <1>5 DEF Write
    <3>2. start + (datasize + n) - maxsize = start + datasize + n - maxsize
      BY <1>1
    <3> QED BY <3>1, <3>2 DEF Held, Advanced
  <2> DEFINE over == IF datasize + n > maxsize THEN datasize + n - maxsize ELSE 0
             c == Content \o d
  <2>2. /\ over \in Nat /\ over <= datasize /\ datasize' = datasize + n - over
        /\ datasize + n > maxsize => over = datasize + n - maxsize
        /\ datasize + n <= maxsize => over = 0
    BY <1>1, <1>5, <2>1
  <2>3. Len(c) = datasize + n
        /\ \A j \in 1 .. datasize + n : c[j] = IF j <= datasize THEN Content[j] ELSE d[j - datasize]
    BY <1>1, <1>2, <1>3
  <2>4. c \in Seq(Bytes)
    BY <1>2, <1>3
  <2> HIDE DEF c, over
  <2>5. Queue!Newest(c, maxsize) = [j \in 1 .. datasize' |-> c[over + j]]
    <3>1. CASE datasize + n > maxsize
      <4>1. Len(c) > maxsize /\ Len(c) - maxsize = over /\ datasize' = maxsize
        BY <1>1, <2>1, <2>2, <2>3, <3>1
      <4>2. Queue!Newest(c, maxsize) = [j \in 1 .. maxsize |-> c[Len(c) - maxsize + j]]
        <5>1. ~ (Len(c) <= maxsize)
          BY <1>1, <2>3, <4>1
        <5> QED BY ONLY <5>1 DEF Queue!Newest
      <4> QED BY ONLY <4>1, <4>2
    <3>2. CASE datasize + n <= maxsize
      <4>1. over = 0 /\ datasize' = datasize + n /\ Queue!Newest(c, maxsize) = c
        BY <1>1, <2>1, <2>2, <2>3, <3>2 DEF Queue!Newest
      <4>3. c = [j \in 1 .. Len(c) |-> c[j]]
        <5>1. c \in [1 .. Len(c) -> Bytes]
          BY ONLY <2>4
        <5> QED BY ONLY <5>1
      <4>4. \A j \in 1 .. Len(c) : over + j = j
        BY <2>3, <4>1
      <4>5. Len(c) = datasize'
        BY <2>3, <4>1
      <4>6. [j \in 1 .. Len(c) |-> c[j]] = [j \in 1 .. Len(c) |-> c[over + j]]
        BY ONLY <4>4
      <4> QED BY ONLY <4>1, <4>3, <4>5, <4>6
    <3> QED BY <1>1, <3>1, <3>2
  <2>6. ASSUME NEW j \in 1 .. datasize'
        PROVE  area'[Wrap(start' + j - 1)] = c[over + j]
    <3> DEFINE p == over + j - 1
               k == Wrap(start' + j - 1)
    <3>1. p \in Nat /\ p < datasize + n /\ datasize + n - maxsize <= p
      BY <1>1, <2>1, <2>2, <2>6
    <3>2. start' \in Nat /\ start' < maxsize /\ (start' = start + over \/ start' = start + over - maxsize)
      <4>2. CASE datasize + n > maxsize
        <5>1. PICK x \in Nat : x = start + datasize + n - maxsize
          BY <1>1, <4>2
        <5>2. x < 2 * maxsize /\ x = start + over
          BY <1>1, <1>5, <2>2, <4>2, <5>1
        <5>3. Wrap(x) \in Index /\ (Wrap(x) = x \/ Wrap(x) = x - maxsize)
          BY <5>2, WrapIs
        <5>4. start' = Wrap(x)
          BY <1>1, <2>1, <4>2, <5>1
        <5>5. start' \in Nat /\ start' < maxsize
          BY DEF TypeOK
        <5>6. start' = start + over \/ start' = start + over - maxsize
          <6>1. start' = x \/ start' = x - maxsize
            BY ONLY <5>3, <5>4
          <6>2. start + over = x
            BY ONLY <5>2
          <6> QED BY ONLY <1>1, <2>2, <5>5, <6>1, <6>2, Indices
        <5> QED BY ONLY <5>5, <5>6
      <4>3. CASE datasize + n <= maxsize
        BY <1>1, <2>1, <2>2, <4>3
      <4> QED BY <1>1, <4>2, <4>3
    <3>3. start' + j - 1 \in Nat /\ start' + j - 1 < 2 * maxsize
      BY <1>1, <2>1, <2>6, <3>2
    <3>4. k \in Index /\ (k = start' + j - 1 \/ k = start' + j - 1 - maxsize)
      <4>1. PICK x \in Nat : x = start' + j - 1
        BY <3>3
      <4>2. x < 2 * maxsize
        BY <3>3, <4>1
      <4>3. Wrap(x) \in Index /\ (Wrap(x) = x \/ Wrap(x) = x - maxsize)
        BY ONLY <1>1, <4>1, <4>2, WrapIs
      <4>4. k = Wrap(x)
        BY ONLY <4>1 DEF k
      <4> QED BY ONLY <1>1, <3>2, <2>6, <3>3, <4>1, <4>3, <4>4, Indices
    <3>5. k = start + p \/ k = start + p - maxsize \/ k = start + p - 2 * maxsize
      BY <1>1, <2>2, <3>2, <3>4
    <3> HIDE DEF k
    <3>6. area'[k] = IF p < datasize THEN area[k] ELSE d[p - datasize + 1]
      BY <1>5, <2>1, <3>1, <3>4, <3>5, CopiedAt
    <3>7. CASE p < datasize
      <4>1. start + p \in Nat /\ start + p < 2 * maxsize /\ p + 1 \in 1 .. datasize
        BY <1>1, <3>1, <3>7
      <4>2. k = Wrap(start + p)
        <5>1. maxsize \in Nat /\ k \in Nat /\ k < maxsize
          BY ONLY <3>4, Indices
        <5>2. k = IF start + p >= maxsize THEN start + p - maxsize ELSE start + p
          <6>1. PICK b \in Nat : b = start + p /\ b < 2 * maxsize
            BY ONLY <4>1
          <6>2. start \in Nat /\ p \in Nat
            BY ONLY <1>1, <3>1
          <6>3. k = b \/ k = b - maxsize \/ k = b - 2 * maxsize
            BY ONLY <3>5, <5>1, <6>1, <6>2
          <6>4. k = IF b >= maxsize THEN b - maxsize ELSE b
            BY ONLY <5>1, <6>1, <6>3
          <6> QED BY ONLY <5>1, <6>1, <6>2, <6>4
        <5> QED BY ONLY <1>1, <3>1, <5>1, <5>2 DEF Wrap
      <4>3. Content[p + 1] = area[Wrap(start + (p + 1) - 1)]
        BY <4>1, ContentIs
      <4>4. start + (p + 1) - 1 = start + p /\ over + j = p + 1
        BY <1>1, <2>2, <3>1
      <4> QED BY <2>3, <3>1, <3>6, <3>7, <4>1, <4>2, <4>3, <4>4 DEF k
    <3>8. CASE p >= datasize
      <4>1. over + j \in 1 .. datasize + n /\ ~ (over + j <= datasize) /\ over + j - datasize = p - datasize + 1
        BY <1>1, <2>2, <3>1, <3>8
      <4>2. c[over + j] = d[p - datasize + 1]
        <5>1. PICK y \in 1 .. datasize + n : y = over + j
          BY ONLY <4>1
        <5>2. c[y] = IF y <= datasize THEN Content[y] ELSE d[y - datasize]
          BY ONLY <2>3
        <5>3. c[y] = d[y - datasize]
          BY ONLY <4>1, <5>1, <5>2
        <5>4. y - datasize = p - datasize + 1
          BY <1>1, <2>2, <3>1, <4>1, <5>1
        <5> QED BY ONLY <5>1, <5>3, <5>4
      <4>3. ~ (p < datasize)
        BY <1>1, <3>1, <3>8
      <4>4. area'[k] = d[p - datasize + 1]
        BY ONLY <3>6, <4>3
      <4> QED BY <4>2, <4>4 DEF k
    <3> QED BY <1>1, <3>1, <3>7, <3>8
  <2>7. Content' = [j \in 1 .. datasize' |-> c[over + j]]
    BY ONLY <2>6 DEF Content
  <2> QED BY <1>2, <1>5, <2>5, <2>7 DEF Queue!Write, Write, c
<1> QED BY <1>4, <1>5

\* read_ring takes the oldest bytes out of the queue.
LEMMA ReadQueue ==
    ASSUME TypeOK, TypeOK', NEW n \in Nat, Read(n)
    PROVE  Queue!Read(n)
<1> USE Indices
<1>1. start \in Nat /\ start < maxsize /\ datasize \in Nat /\ datasize <= maxsize
  BY DEF TypeOK
<1>2. Len(Content) = datasize
  BY ContentIs
<1> DEFINE count == IF n > maxsize THEN 0 ELSE IF n > datasize THEN datasize ELSE n
<1>3. count \in Nat /\ count <= datasize
  BY <1>1
<1>4. /\ got' = [j \in 1 .. count |-> area[Wrap(start + j - 1)]]
      /\ datasize' = datasize - count
      /\ start' = Wrap(start + count)
      /\ area' = area
  BY DEF Read
<1>5. count = IF n > maxsize THEN 0 ELSE IF n > Len(Content) THEN Len(Content) ELSE n
  BY <1>2
<1> HIDE DEF count
<1>6. got' = [j \in 1 .. count |-> Content[j]]
  <2>1. \A j \in 1 .. count : j \in 1 .. datasize
    BY <1>1, <1>3
  <2>2. \A j \in 1 .. count : Content[j] = area[Wrap(start + j - 1)]
    BY <2>1, ContentIs
  <2> QED BY ONLY <1>4, <2>2
<1>7. Content' = [j \in 1 .. Len(Content) - count |-> Content[count + j]]
  <2>1. ASSUME NEW j \in 1 .. datasize - count
        PROVE  area[Wrap(start' + j - 1)] = Content[count + j]
    <3>1. count + j \in 1 .. datasize
      BY <1>1, <1>3
    <3>2. Content[count + j] = area[Wrap(start + (count + j) - 1)]
      BY <3>1, ContentIs
    <3>3. /\ start + count >= maxsize => start' = start + count - maxsize
          /\ start + count < maxsize => start' = start + count
      BY <1>1, <1>3, <1>4 DEF Wrap
    <3>4. Wrap(start' + j - 1) = Wrap(start + (count + j) - 1)
      BY <1>1, <1>3, <2>1, <3>3 DEF Wrap
    <3> QED BY <3>2, <3>4
  <2>2. Content' = [j \in 1 .. datasize - count |-> area[Wrap(start' + j - 1)]]
    BY ONLY <1>4 DEF Content
  <2> QED BY ONLY <1>2, <2>1, <2>2
<1> QED BY <1>5, <1>6, <1>7 DEF Read, Queue!Read

\* A byte ring of any size is a queue that forgets its oldest bytes: nothing
\* is lost or reordered when the indices wrap around the end of the area.
THEOREM RingImplementsFifo == Spec => FifoSpec
<1>1. Init => TypeOK
  BY Indices, RingAssumption DEF Init, TypeOK
<1>2. Init => Queue!Init
  BY DEF Init, Queue!Init, Content
<1>3. TypeOK /\ [Next]_vars => TypeOK'
  <2> SUFFICES ASSUME TypeOK, [Next]_vars PROVE TypeOK'
    OBVIOUS
  <2>1. CASE UNCHANGED vars
    BY <2>1 DEF TypeOK, vars
  <2>2. CASE Next
    BY <2>2, WriteType, ReadType, Indices DEF Next
  <2> QED BY <2>1, <2>2
<1>4. TypeOK /\ TypeOK' /\ [Next]_vars => [Queue!Next]_<<Content, call, got>>
  <2> SUFFICES ASSUME TypeOK, TypeOK', [Next]_vars
               PROVE  [Queue!Next]_<<Content, call, got>>
    OBVIOUS
  <2>1. CASE UNCHANGED vars
    BY <2>1 DEF vars, Content
  <2>2. CASE Next
    <3>1. PICK n \in 0 .. maxsize + 1 : Read(n) \/ \E d \in [1 .. n -> Bytes] : Write(d)
      BY <2>2 DEF Next
    <3>2. n \in Nat
      BY Indices
    <3> QED BY <3>1, <3>2, WriteQueue, ReadQueue DEF Queue!Next
  <2> QED BY <2>1, <2>2
<1> QED BY <1>1, <1>2, <1>3, <1>4, PTL DEF Spec, FifoSpec, Queue!Spec

(***************************************************************************)
(* The serial line, whose rings are the queues of Fifo.                    *)
(***************************************************************************)

LineSpec == SciInit /\ [][SciNext]_sciVars

\* The transmit side: what its variables hold.
TxType ==
    /\ winfo \in Seq(Chars) /\ accepted \in Seq(Chars) /\ sent \in Seq(Chars)
    /\ Len(winfo) <= WBUFSIZ
    /\ TDRE \in BOOLEAN /\ TDR \in Chars \cup {CR, None} /\ added \in BOOLEAN
    /\ ~TDRE /\ ~added => TDR \in Chars

TxInv == TxType /\ NoneLostInOrder

\* A sequence is its first byte and the others.
LEMMA HeadAndTail ==
    ASSUME NEW S, NEW s \in Seq(S), s # <<>>
    PROVE  /\ Head(s) \in S /\ Tail(s) \in Seq(S) /\ Len(Tail(s)) = Len(s) - 1
           /\ <<Head(s)>> \o Tail(s) = s
<1>1. Head(s) \in S /\ Tail(s) \in Seq(S) /\ Len(Tail(s)) = Len(s) - 1
      /\ \A i \in 1 .. Len(Tail(s)) : Tail(s)[i] = s[i + 1]
  BY HeadTailProperties
<1>2. <<Head(s)>> \in Seq(S) /\ Len(<<Head(s)>>) = 1 /\ Len(s) \in Nat \ {0}
  BY <1>1, EmptySeq
<1> DEFINE t == <<Head(s)>> \o Tail(s)
<1>3. t \in Seq(S) /\ Len(t) = Len(s)
      /\ \A i \in 1 .. Len(s) : t[i] = IF i <= 1 THEN <<Head(s)>>[i] ELSE Tail(s)[i - 1]
  BY <1>1, <1>2, ConcatProperties
<1>4. \A i \in 1 .. Len(s) : t[i] = s[i]
  BY <1>1, <1>2, <1>3
<1> HIDE DEF t
<1>5. t = s
  BY <1>3, <1>4, SeqEqual
<1> QED BY <1>1, <1>5 DEF t

\* The bytes on the way, when the transmit register holds one or not.
LEMMA Way ==
    ASSUME TxType
    PROVE  /\ OnTheWay \in Seq(Chars)
           /\ TDRE \/ added => OnTheWay = winfo
           /\ ~TDRE /\ ~added => TDR \in Chars /\ OnTheWay = <<TDR>> \o winfo
<1>1. <<>> \o winfo = winfo /\ winfo \in Seq(Chars)
  BY ConcatEmptySeq DEF TxType
<1>2. CASE TDRE \/ added
  BY <1>1, <1>2 DEF OnTheWay
<1>3. CASE ~TDRE /\ ~added
  <2>1. TDR \in Chars
    BY <1>3 DEF TxType
  <2>2. <<TDR>> \in Seq(Chars)
    BY <2>1
  <2>3. OnTheWay = <<TDR>> \o winfo
    BY <1>3 DEF OnTheWay
  <2> QED BY <1>1, <1>3, <2>1, <2>2, <2>3, ConcatProperties
<1> QED BY <1>2, <1>3

\* Sending the oldest byte of w: it goes to the register, the others stay.
LEMMA Sending ==
    ASSUME NEW w \in Seq(Chars), w # <<>>, Transmit(Head(w)), winfo' = Rest(w), added' = FALSE
    PROVE  /\ OnTheWay' = w
           /\ winfo' \in Seq(Chars) /\ Len(winfo') = Len(w) - 1
           /\ TDRE' = FALSE /\ TDR' \in Chars
<1>1. /\ Head(w) \in Chars /\ Tail(w) \in Seq(Chars) /\ Len(Tail(w)) = Len(w) - 1
      /\ <<Head(w)>> \o Tail(w) = w
  BY HeadAndTail
<1>2. TDR' = Head(w) /\ TDRE' = FALSE /\ winfo' = Tail(w)
  BY DEF Transmit, Rest
<1> QED BY <1>1, <1>2 DEF OnTheWay

\* write_sci takes what the ring has room for, at the end of what is there.
LEMMA WriteKeeps ==
    ASSUME TxInv, NEW n \in Nat, n > 0, NEW d \in [1 .. n -> Chars], WriteSci(d)
    PROVE  TxInv'
<1> DEFINE size == Smaller(Len(d), WBUFSIZ - Len(winfo))
           taken == SubSeq(d, 1, size)
           w == winfo \o taken
<1>1. d \in Seq(Chars) /\ Len(d) = n
  OBVIOUS
<1>2. Len(winfo) \in Nat /\ Len(winfo) <= WBUFSIZ /\ WBUFSIZ \in Nat /\ WBUFSIZ > 0
  BY SciAssumption, LenProperties DEF TxInv, TxType
<1>3. size \in 0 .. n /\ size <= WBUFSIZ - Len(winfo) /\ (size = 0 => Len(winfo) > 0)
  BY <1>1, <1>2 DEF Smaller
<1>4. /\ accepted' = accepted \o taken /\ sent' = sent /\ TIE' = TRUE
      /\ \/ TDRE /\ Transmit(Head(w)) /\ winfo' = Rest(w) /\ added' = FALSE
         \/ ~TDRE /\ winfo' = w /\ TDR' = TDR /\ TDRE' = TDRE /\ added' = added
  BY DEF WriteSci, Enable
<1> HIDE DEF size
<1>5. taken \in Seq(Chars) /\ Len(taken) = size
  <2>1. \A i \in 1 .. size : d[i] \in Chars
    BY <1>1, <1>3
  <2>2. Len(taken) = IF 1 <= size THEN size - 1 + 1 ELSE 0
    BY <1>3, <2>1, SubSeqProperties
  <2>3. taken \in Seq(Chars)
    BY <1>3, <2>1, SubSeqProperties
  <2> QED BY <1>3, <2>2, <2>3
<1> HIDE DEF taken
<1>6. winfo \in Seq(Chars) /\ accepted \in Seq(Chars) /\ sent \in Seq(Chars)
  BY DEF TxInv, TxType
<1>7. w \in Seq(Chars) /\ Len(w) = Len(winfo) + size
  BY <1>5, <1>6, ConcatProperties
<1>8. w # <<>> /\ Len(w) <= WBUFSIZ
  <2>1. Len(w) > 0
    BY <1>2, <1>3, <1>5, <1>6, <1>7, EmptySeq
  <2> QED BY <1>2, <1>3, <1>7, <2>1, EmptySeq
<1>9. sent \o OnTheWay = accepted /\ OnTheWay \in Seq(Chars)
  BY Way DEF TxInv, NoneLostInOrder
<1> HIDE DEF w
<1>10. OnTheWay' = OnTheWay \o taken
  <2>1. CASE TDRE
    BY <1>4, <1>7, <1>8, <2>1, Sending, Way DEF TxInv, w
  <2>2. CASE ~TDRE /\ added
    <3>1. OnTheWay = winfo /\ OnTheWay' = <<>> \o w
      BY <1>4, <2>2, Way DEF TxInv, OnTheWay
    <3> QED BY <1>7, <3>1, ConcatEmptySeq DEF w
  <2>3. CASE ~TDRE /\ ~added
    <3>1. TDR \in Chars /\ OnTheWay = <<TDR>> \o winfo /\ OnTheWay' = <<TDR>> \o w
      BY <1>4, <2>3, Way DEF TxInv, OnTheWay
    <3>2. <<TDR>> \in Seq(Chars)
      BY <3>1
    <3>3. (<<TDR>> \o winfo) \o taken = <<TDR>> \o (winfo \o taken)
      BY <1>5, <1>6, <3>2, ConcatAssociative
    <3> QED BY <3>1, <3>3 DEF w
  <2> QED BY <2>1, <2>2, <2>3
<1>11. NoneLostInOrder'
  <2>1. sent \in Seq(Chars) /\ OnTheWay \in Seq(Chars) /\ taken \in Seq(Chars)
    BY <1>5, <1>6, <1>9
  <2>2. (sent \o OnTheWay) \o taken = sent \o (OnTheWay \o taken)
    BY <2>1, ConcatAssociative
  <2> QED BY <1>4, <1>9, <1>10, <2>2 DEF NoneLostInOrder
<1>12. accepted' \in Seq(Chars) /\ sent' \in Seq(Chars)
  BY <1>4, <1>5, <1>6, ConcatProperties
<1>13. TxType'
  <2>1. CASE TDRE
    <3>1. /\ winfo' \in Seq(Chars) /\ Len(winfo') = Len(w) - 1
          /\ TDRE' = FALSE /\ TDR' \in Chars
      BY <1>4, <1>7, <1>8, <2>1, Sending
    <3>2. Len(winfo') <= WBUFSIZ
      BY <1>2, <1>3, <1>7, <1>8, <3>1
    <3>3. added' = FALSE
      BY <1>4, <2>1
    <3> QED BY <1>12, <3>1, <3>2, <3>3 DEF TxType
  <2>2. CASE ~TDRE
    BY <1>4, <1>7, <1>8, <1>12, <2>2 DEF TxInv, TxType
  <2> QED BY <2>1, <2>2
<1> QED BY <1>11, <1>13 DEF TxInv

\* int_txi sends the CR that is due, or the oldest byte, or stops.
LEMMA TxiKeeps == ASSUME TxInv, Txi PROVE TxInv'
<1>1. winfo \in Seq(Chars) /\ sent \in Seq(Chars) /\ accepted' = accepted /\ sent' = sent
      /\ TDRE /\ OnTheWay = winfo /\ Len(winfo) \in Nat
  BY Way, LenProperties DEF TxInv, TxType, Txi
<1>2. CASE CrDue
  <2>1. TDR' = CR /\ TDRE' = FALSE /\ winfo' = winfo /\ added' = TRUE
    BY <1>2 DEF Txi, Transmit
  <2>2. OnTheWay' = winfo
    BY <1>1, <2>1, ConcatEmptySeq DEF OnTheWay
  <2> QED BY <1>1, <2>1, <2>2 DEF TxInv, TxType, NoneLostInOrder
<1>3. CASE ~CrDue /\ winfo # <<>>
  <2>1. Transmit(Head(winfo)) /\ winfo' = Rest(winfo) /\ added' = FALSE
    BY <1>3 DEF Txi
  <2>2. /\ OnTheWay' = winfo /\ winfo' \in Seq(Chars) /\ Len(winfo') = Len(winfo) - 1
        /\ TDRE' = FALSE /\ TDR' \in Chars
    BY <1>1, <1>3, <2>1, Sending
  <2>3. WBUFSIZ \in Nat /\ Len(winfo') <= WBUFSIZ
    BY <1>1, <2>2, SciAssumption DEF TxInv, TxType
  <2>4. added' = FALSE
    BY <2>1
  <2> QED BY <1>1, <2>2, <2>3, <2>4 DEF TxInv, TxType, NoneLostInOrder
<1>4. CASE ~CrDue /\ winfo = <<>>
  <2>1. winfo' = winfo /\ TDR' = TDR /\ TDRE' = TDRE /\ added' = added
    BY <1>4 DEF Txi
  <2> QED BY <1>1, <2>1 DEF TxInv, TxType, NoneLostInOrder, OnTheWay
<1> QED BY <1>2, <1>3, <1>4

\* The line takes the byte of the register.
LEMMA ShiftKeeps == ASSUME TxInv, Shift PROVE TxInv'
<1>1. /\ winfo \in Seq(Chars) /\ sent \in Seq(Chars) /\ accepted \in Seq(Chars)
      /\ accepted' = accepted /\ winfo' = winfo /\ TDR' = TDR /\ added' = added
      /\ ~TDRE /\ TDRE' = TRUE
  BY DEF TxInv, TxType, Shift
<1>2. OnTheWay' = winfo
  BY <1>1, ConcatEmptySeq DEF OnTheWay
<1>3. CASE added
  <2>1. sent' = sent /\ OnTheWay = winfo
    BY <1>3, Way DEF TxInv, Shift
  <2> QED BY <1>1, <1>2, <2>1 DEF TxInv, TxType, NoneLostInOrder
<1>4. CASE ~added
  <2>1. TDR \in Chars /\ OnTheWay = <<TDR>> \o winfo /\ sent' = Append(sent, TDR)
    BY <1>1, <1>4, Way DEF TxInv, Shift
  <2>2. <<TDR>> \in Seq(Chars) /\ sent' = sent \o <<TDR>> /\ sent' \in Seq(Chars)
    BY <1>1, <2>1, AppendIsConcat, AppendProperties
  <2>3. sent' \o winfo = sent \o (<<TDR>> \o winfo)
    BY <1>1, <2>2, ConcatAssociative
  <2> QED BY <1>1, <1>2, <2>1, <2>2, <2>3 DEF TxInv, TxType, NoneLostInOrder
<1> QED BY <1>3, <1>4

\* For rings of any size, any callers and any bytes they write, CRs among
\* them (core_com.c writes "\r\n"): but for the CRs that int_txi adds, the line
\* carries exactly the bytes that write_sci took, in their order, whether
\* write_sci or int_txi sent them (src/sci.c).
THEOREM LineInOrder == LineSpec => []NoneLostInOrder
<1>1. SciInit => TxInv
  <2> SUFFICES ASSUME SciInit PROVE TxInv
    OBVIOUS
  <2>1. /\ winfo = <<>> /\ accepted = <<>> /\ sent = <<>> /\ TDRE = TRUE /\ TDR = None /\ added = FALSE
    BY DEF SciInit
  <2>2. <<>> \in Seq(Chars) /\ Len(<<>>) = 0 /\ WBUFSIZ \in Nat
    BY EmptySeq, SciAssumption
  <2>3. <<>> \o <<>> = <<>>
    BY <2>2, ConcatEmptySeq
  <2>4. TxType
    <3>1. Len(winfo) <= WBUFSIZ
      BY <2>1, <2>2
    <3>2. TDRE = TRUE /\ None \in Chars \cup {CR, None}
      BY <2>1
    <3> QED BY <2>1, <2>2, <3>1, <3>2, Zenon DEF TxType
  <2>5. NoneLostInOrder
    BY <2>1, <2>3 DEF NoneLostInOrder, OnTheWay
  <2> QED BY <2>4, <2>5 DEF TxInv
<1>2. TxInv /\ [SciNext]_sciVars => TxInv'
  <2> SUFFICES ASSUME TxInv, [SciNext]_sciVars PROVE TxInv'
    OBVIOUS
  <2>1. ASSUME UNCHANGED txVars PROVE TxInv'
    BY <2>1 DEF txVars, TxInv, TxType, NoneLostInOrder, OnTheWay
  <2>2. ASSUME NEW n \in 1 .. Smaller(MaxWrite, MaxAccepted - Len(accepted)),
               NEW d \in [1 .. n -> Chars], WriteSci(d)
        PROVE  TxInv'
    <3>1. n \in Nat /\ n > 0
      <4>1. Smaller(MaxWrite, MaxAccepted - Len(accepted)) \in Int
        BY SciAssumption, LenProperties DEF TxInv, TxType, Smaller
      <4> QED BY <4>1
    <3> QED BY <2>2, <3>1, WriteKeeps
  <2>3. CASE Txi
    BY <2>3, TxiKeeps
  <2>4. CASE Shift
    BY <2>4, ShiftKeeps
  <2>5. CASE Arrive \/ Rxi \/ Eri
    BY <2>1, <2>5 DEF Arrive, Rxi, Eri
  <2>6. ASSUME NEW n \in 1 .. RBUFSIZ, ReadSci(n) PROVE TxInv'
    BY <2>1, <2>6 DEF ReadSci
  <2>7. ASSUME NEW pid \in Ids, Open(pid) \/ Close(pid) PROVE TxInv'
    BY <2>1, <2>7 DEF Open, Close
  <2>8. CASE UNCHANGED sciVars
    BY <2>1, <2>8 DEF sciVars
  <2> QED BY <2>2, <2>3, <2>4, <2>5, <2>6, <2>7, <2>8 DEF SciNext
<1>3. TxInv => NoneLostInOrder
  BY DEF TxInv
<1> QED BY <1>1, <1>2, <1>3, PTL DEF LineSpec

-----------------------------------------------------------------------------
(* The receive side. *)

\* What its variables hold.
RxType ==
    /\ rinfo \in Seq(Nat) /\ Len(rinfo) <= RBUFSIZ
    /\ RDRF \in BOOLEAN /\ RDR \in Nat /\ arrived \in Nat /\ gotLast \in Nat

\* The byte read last, the ring and the register are in the order of arrival.
RxOrder ==
    /\ gotLast <= arrived
    /\ \A i \in 1 .. Len(rinfo) : gotLast < rinfo[i] /\ rinfo[i] <= arrived
    /\ \A i, j \in 1 .. Len(rinfo) : i < j => rinfo[i] < rinfo[j]
    /\ RDRF => /\ gotLast < RDR /\ RDR <= arrived
               /\ \A i \in 1 .. Len(rinfo) : rinfo[i] < RDR

\* Where the byte n is, or why it is nowhere.
Accounted(n) ==
    \/ n \in lost \/ n <= gotLast \/ (RDRF /\ n = RDR)
    \/ \E m \in 1 .. Len(rinfo) : n <= rinfo[m]

RxInv == RxType /\ RxOrder /\ \A n \in 1 .. arrived : Accounted(n)

\* The invariant says what the property says of the ring and the register.
LEMMA RxInOrder == ASSUME RxInv PROVE ReadInOrder
<1> DEFINE reg == IF RDRF THEN <<RDR>> ELSE <<>>
<1>1. rinfo \in Seq(Nat) /\ Len(rinfo) \in Nat /\ RDR \in Nat /\ gotLast \in Nat
      /\ \A i \in 1 .. Len(rinfo) : rinfo[i] \in Nat
  BY LenProperties, ElementOfSeq DEF RxInv, RxType
<1>2. /\ Len(Pending) = IF RDRF THEN Len(rinfo) + 1 ELSE Len(rinfo)
      /\ \A i \in 1 .. Len(rinfo) : Pending[i] = rinfo[i]
      /\ RDRF => Pending[Len(rinfo) + 1] = RDR
  <2>1. CASE RDRF
    <3>1. <<RDR>> \in Seq(Nat) /\ Len(<<RDR>>) = 1 /\ <<RDR>>[1] = RDR
      BY <1>1
    <3>2. Pending = rinfo \o <<RDR>>
      BY <2>1 DEF Pending
    <3>3. Len(rinfo \o <<RDR>>) = Len(rinfo) + 1
          /\ \A i \in 1 .. Len(rinfo) + 1 : (rinfo \o <<RDR>>)[i] =
                IF i <= Len(rinfo) THEN rinfo[i] ELSE <<RDR>>[i - Len(rinfo)]
      BY <1>1, <3>1, ConcatProperties
    <3> QED BY <1>1, <2>1, <3>1, <3>2, <3>3
  <2>2. CASE ~RDRF
    <3>1. Pending = rinfo
      BY <1>1, <2>2, ConcatEmptySeq DEF Pending
    <3> QED BY <2>2, <3>1
  <2> QED BY <2>1, <2>2
<1>3. ASSUME NEW i \in 1 .. Len(Pending)
      PROVE  Pending[i] > IF i = 1 THEN gotLast ELSE Pending[i - 1]
  <2>1. CASE i <= Len(rinfo)
    <3>1. i \in 1 .. Len(rinfo) /\ Pending[i] = rinfo[i]
      BY <1>1, <1>2, <2>1
    <3>2. i # 1 => i - 1 \in 1 .. Len(rinfo) /\ Pending[i - 1] = rinfo[i - 1] /\ i - 1 < i
      BY <1>1, <1>2, <3>1
    <3>3. gotLast < rinfo[i] /\ (i # 1 => rinfo[i - 1] < rinfo[i])
      BY <3>1, <3>2 DEF RxInv, RxOrder
    <3> QED BY <1>1, <3>1, <3>2, <3>3
  <2>2. CASE ~(i <= Len(rinfo))
    <3>1. RDRF /\ i = Len(rinfo) + 1 /\ Pending[i] = RDR
      BY <1>1, <1>2, <2>2
    <3>2. i # 1 => i - 1 \in 1 .. Len(rinfo) /\ Pending[i - 1] = rinfo[i - 1]
      BY <1>1, <1>2, <3>1
    <3>3. gotLast < RDR /\ (i # 1 => rinfo[i - 1] < RDR)
      BY <3>1, <3>2 DEF RxInv, RxOrder
    <3> QED BY <1>1, <3>1, <3>2, <3>3
  <2> QED BY <2>1, <2>2
<1>4. ASSUME NEW n \in 1 .. arrived
      PROVE  n \in Kept \cup lost \/ n <= gotLast \/ \E m \in 1 .. Len(rinfo) : n < rinfo[m]
  <2>1. Accounted(n) /\ n \in Int
    BY DEF RxInv
  <2>2. \A i \in 1 .. Len(rinfo) : rinfo[i] \in Kept
    BY <1>1, <1>2 DEF Kept
  <2>3. RDRF => RDR \in Kept
    BY <1>1, <1>2 DEF Kept
  <2>4. ASSUME NEW m \in 1 .. Len(rinfo), n <= rinfo[m] PROVE n = rinfo[m] \/ n < rinfo[m]
    BY <1>1, <2>1, <2>4
  <2> QED BY <2>1, <2>2, <2>3, <2>4 DEF Accounted
<1> QED BY <1>3, <1>4 DEF ReadInOrder

\* A byte that comes in is the newest, or it is lost.
LEMMA ArriveKeeps == ASSUME RxInv, Arrive PROVE RxInv'
<1>1. /\ rinfo \in Seq(Nat) /\ RDR \in Nat /\ arrived \in Nat /\ gotLast \in Nat
      /\ \A i \in 1 .. Len(rinfo) : rinfo[i] \in Nat
      /\ rinfo' = rinfo /\ gotLast' = gotLast /\ arrived' = arrived + 1
  BY ElementOfSeq DEF RxInv, RxType, Arrive
<1>2. CASE ~RDRF /\ RDRF' = TRUE /\ RDR' = arrived' /\ lost' = lost
  <2>1. RxType'
    BY <1>1, <1>2 DEF RxInv, RxType
  <2>2. RxOrder'
    BY <1>1, <1>2 DEF RxInv, RxOrder
  <2>3. ASSUME NEW n \in 1 .. arrived' PROVE Accounted(n)'
    <3>1. n \in 1 .. arrived \/ n = arrived'
      BY <1>1
    <3> QED BY <1>1, <1>2, <3>1 DEF RxInv, Accounted
  <2> QED BY <2>1, <2>2, <2>3 DEF RxInv
<1>3. CASE lost' = lost \cup {arrived'} /\ RDRF' = RDRF /\ RDR' = RDR
  <2>1. RxType'
    BY <1>1, <1>3 DEF RxInv, RxType
  <2>2. RxOrder'
    BY <1>1, <1>3 DEF RxInv, RxOrder
  <2>3. ASSUME NEW n \in 1 .. arrived' PROVE Accounted(n)'
    <3>1. n \in 1 .. arrived \/ n = arrived'
      BY <1>1
    <3> QED BY <1>1, <1>3, <3>1 DEF RxInv, Accounted
  <2> QED BY <2>1, <2>2, <2>3 DEF RxInv
<1> QED BY <1>2, <1>3 DEF Arrive

\* int_rxi moves the byte to the end of the ring, which may forget its oldest.
LEMMA RxiKeeps == ASSUME RxInv, Rxi PROVE RxInv'
<1> DEFINE k == Len(rinfo)
<1>1. /\ rinfo \in Seq(Nat) /\ k \in Nat /\ k <= RBUFSIZ
      /\ RDR \in Nat /\ arrived \in Nat /\ gotLast \in Nat
      /\ \A i \in 1 .. k : rinfo[i] \in Nat
      /\ RBUFSIZ \in Nat /\ RBUFSIZ > 0
  BY LenProperties, ElementOfSeq, SciAssumption DEF RxInv, RxType
<1>2. /\ RDRF /\ RDRF' = FALSE /\ rinfo' = Stored(rinfo, RDR)
      /\ RDR' = RDR /\ arrived' = arrived /\ lost' = lost /\ gotLast' = gotLast
  BY DEF Rxi
<1>3. /\ gotLast < RDR /\ RDR <= arrived /\ gotLast <= arrived
      /\ \A i \in 1 .. k : gotLast < rinfo[i] /\ rinfo[i] <= arrived /\ rinfo[i] < RDR
      /\ \A i, j \in 1 .. k : i < j => rinfo[i] < rinfo[j]
  BY <1>2 DEF RxInv, RxOrder
<1>4. CASE k < RBUFSIZ
  <2>1. /\ rinfo' \in Seq(Nat) /\ Len(rinfo') = k + 1
        /\ \A i \in 1 .. k : rinfo'[i] = rinfo[i]
        /\ rinfo'[k + 1] = RDR
    BY <1>1, <1>2, <1>4, AppendProperties DEF Stored
  <2> HIDE DEF k
  <2>2. RxType'
    <3>1. Len(rinfo') <= RBUFSIZ
      BY <1>1, <1>4, <2>1
    <3>2. RDRF' \in BOOLEAN /\ RDR' \in Nat /\ arrived' \in Nat /\ gotLast' \in Nat
      BY <1>1, <1>2
    <3> QED BY <2>1, <3>1, <3>2 DEF RxType
  <2>3. RxOrder'
    <3>1. ASSUME NEW i \in 1 .. Len(rinfo')
          PROVE  gotLast < rinfo'[i] /\ rinfo'[i] <= arrived
      <4>1. i \in 1 .. k \/ i = k + 1
        BY <1>1, <2>1
      <4> QED BY <1>3, <2>1, <4>1
    <3>2. ASSUME NEW i \in 1 .. Len(rinfo'), NEW j \in 1 .. Len(rinfo'), i < j
          PROVE  rinfo'[i] < rinfo'[j]
      <4>1. i \in 1 .. k /\ (j \in 1 .. k \/ j = k + 1)
        BY <1>1, <2>1, <3>2
      <4> QED BY <1>3, <2>1, <3>2, <4>1
    <3> QED BY <1>2, <1>3, <3>1, <3>2 DEF RxOrder
  <2>4. ASSUME NEW n \in 1 .. arrived PROVE Accounted(n)'
    <3>1. Accounted(n)
      BY DEF RxInv
    <3>2. k + 1 \in 1 .. Len(rinfo') /\ RDR <= rinfo'[k + 1]
      BY <1>1, <2>1
    <3>3. ASSUME NEW m \in 1 .. k, n <= rinfo[m] PROVE m \in 1 .. Len(rinfo') /\ n <= rinfo'[m]
      BY <1>1, <2>1, <3>3
    <3> QED BY <1>2, <3>1, <3>2, <3>3 DEF Accounted, k
  <2> QED BY <1>2, <2>2, <2>3, <2>4 DEF RxInv
<1>5. CASE k = RBUFSIZ
  <2>0. rinfo # <<>>
    BY <1>1, <1>5
  <2>1. /\ Tail(rinfo) \in Seq(Nat) /\ Len(Tail(rinfo)) = k - 1
        /\ \A i \in 1 .. k - 1 : Tail(rinfo)[i] = rinfo[i + 1]
    BY <1>1, <2>0, HeadTailProperties
  <2>2. /\ rinfo' \in Seq(Nat) /\ Len(rinfo') = k
        /\ \A i \in 1 .. k - 1 : rinfo'[i] = rinfo[i + 1]
        /\ rinfo'[k] = RDR
    <3>1. rinfo' = Append(Tail(rinfo), RDR)
      BY <1>1, <1>2, <1>5 DEF Stored
    <3>2. /\ Append(Tail(rinfo), RDR) \in Seq(Nat)
          /\ Len(Append(Tail(rinfo), RDR)) = k - 1 + 1
          /\ \A i \in 1 .. k - 1 : Append(Tail(rinfo), RDR)[i] = Tail(rinfo)[i]
          /\ Append(Tail(rinfo), RDR)[k - 1 + 1] = RDR
      BY <1>1, <2>1, AppendProperties
    <3>3. k - 1 + 1 = k
      BY <1>1
    <3> QED BY <2>1, <3>1, <3>2, <3>3
  <2> HIDE DEF k
  <2>3. RxType'
    BY <1>1, <1>2, <1>5, <2>2 DEF RxType
  <2>4. RxOrder'
    <3>1. ASSUME NEW i \in 1 .. Len(rinfo')
          PROVE  gotLast < rinfo'[i] /\ rinfo'[i] <= arrived
      <4>1. (i \in 1 .. k - 1 /\ i + 1 \in 1 .. k) \/ i = k
        BY <1>1, <2>2
      <4> QED BY <1>3, <2>2, <4>1
    <3>2. ASSUME NEW i \in 1 .. Len(rinfo'), NEW j \in 1 .. Len(rinfo'), i < j
          PROVE  rinfo'[i] < rinfo'[j]
      <4>1. i \in 1 .. k - 1 /\ i + 1 \in 1 .. k
            /\ ((j \in 1 .. k - 1 /\ j + 1 \in 1 .. k /\ i + 1 < j + 1) \/ j = k)
        BY <1>1, <2>2, <3>2
      <4> QED BY <1>3, <2>2, <4>1
    <3> QED BY <1>2, <1>3, <3>1, <3>2 DEF RxOrder
  <2>5. ASSUME NEW n \in 1 .. arrived PROVE Accounted(n)'
    <3>1. Accounted(n)
      BY DEF RxInv
    <3>2. k \in 1 .. Len(rinfo') /\ RDR <= rinfo'[k]
      BY <1>1, <1>5, <2>2
    <3>3. ASSUME NEW m \in 1 .. k, n <= rinfo[m] PROVE n <= rinfo'[k]
      BY <1>1, <1>3, <2>2, <3>3
    <3> QED BY <1>2, <3>1, <3>2, <3>3 DEF Accounted, k
  <2> QED BY <1>2, <2>3, <2>4, <2>5 DEF RxInv
<1> QED BY <1>1, <1>4, <1>5

\* read_sci takes the oldest bytes.
LEMMA ReadKeeps == ASSUME RxInv, NEW n \in Nat, ReadSci(n) PROVE RxInv'
<1> DEFINE k == Len(rinfo)
           c == Smaller(n, Len(rinfo))
<1>1. /\ rinfo \in Seq(Nat) /\ k \in Nat /\ k <= RBUFSIZ
      /\ RDR \in Nat /\ arrived \in Nat /\ gotLast \in Nat /\ RBUFSIZ \in Nat
      /\ \A i \in 1 .. k : rinfo[i] \in Nat
  BY LenProperties, ElementOfSeq, SciAssumption DEF RxInv, RxType
<1>2. /\ c > 0 /\ gotLast' = rinfo[c] /\ rinfo' = SubSeq(rinfo, c + 1, k)
      /\ RDRF' = RDRF /\ RDR' = RDR /\ arrived' = arrived /\ lost' = lost
  BY DEF ReadSci, Left
<1>3. c \in 1 .. k
  BY <1>1, <1>2 DEF Smaller
<1>4. /\ gotLast <= arrived
      /\ \A i \in 1 .. k : gotLast < rinfo[i] /\ rinfo[i] <= arrived
      /\ \A i, j \in 1 .. k : i < j => rinfo[i] < rinfo[j]
      /\ RDRF => gotLast < RDR /\ RDR <= arrived /\ \A i \in 1 .. k : rinfo[i] < RDR
  BY DEF RxInv, RxOrder
<1> HIDE DEF c, k
<1>5. /\ rinfo' \in Seq(Nat) /\ Len(rinfo') = k - c
      /\ \A i \in 1 .. k - c : rinfo'[i] = rinfo[c + i]
  <2>1. \A i \in c + 1 .. k : rinfo[i] \in Nat
    BY <1>1, <1>3
  <2>2. /\ SubSeq(rinfo, c + 1, k) \in Seq(Nat)
        /\ Len(SubSeq(rinfo, c + 1, k)) = IF c + 1 <= k THEN k - (c + 1) + 1 ELSE 0
        /\ \A i \in 1 .. k - (c + 1) + 1 : SubSeq(rinfo, c + 1, k)[i] = rinfo[c + 1 + i - 1]
    <3>1. c + 1 \in Int /\ k \in Int
      BY <1>1, <1>3
    <3> QED BY <2>1, <3>1, SubSeqProperties
  <2> QED BY <1>1, <1>2, <1>3, <2>2
<1>6. RxType'
  BY <1>1, <1>2, <1>3, <1>5 DEF RxInv, RxType
<1>7. RxOrder'
  BY <1>1, <1>2, <1>3, <1>4, <1>5 DEF RxOrder
<1>8. ASSUME NEW x \in 1 .. arrived PROVE Accounted(x)'
  <2>1. Accounted(x)
    BY DEF RxInv
  <2>2. gotLast <= gotLast'
    BY <1>1, <1>2, <1>3, <1>4
  <2>3. ASSUME NEW m \in 1 .. k, x <= rinfo[m]
        PROVE  x <= gotLast' \/ \E j \in 1 .. Len(rinfo') : x <= rinfo'[j]
    <3>1. CASE m <= c
      <4>1. rinfo[m] <= rinfo[c] /\ rinfo[m] \in Nat /\ rinfo[c] \in Nat
        <5>1. m = c \/ m < c
          BY <1>1, <1>3, <3>1
        <5> QED BY <1>1, <1>3, <1>4, <5>1
      <4>2. x \in Int /\ gotLast' = rinfo[c]
        BY <1>2
      <4> QED BY <2>3, <4>1, <4>2
    <3>2. CASE m > c
      <4>1. m - c \in 1 .. k - c /\ rinfo'[m - c] = rinfo[m]
        BY <1>1, <1>3, <1>5, <3>2
      <4> QED BY <1>5, <2>3, <4>1
    <3> QED BY <1>1, <1>3, <3>1, <3>2
  <2>4. x <= gotLast => x <= gotLast'
    BY <1>1, <1>2, <1>3, <2>2
  <2> QED BY <1>2, <2>1, <2>3, <2>4 DEF Accounted, k
<1> QED BY <1>2, <1>6, <1>7, <1>8 DEF RxInv

\* For rings of any size: the bytes that came in reach the readers in the
\* order of arrival, and one is missing only because it met a full register
\* or was the oldest of a full ring (src/sci.c, int_rxi and read_sci).
THEOREM ReadersInOrder == LineSpec => []ReadInOrder
<1>1. SciInit => RxInv
  <2> SUFFICES ASSUME SciInit PROVE RxInv
    OBVIOUS
  <2>1. rinfo = <<>> /\ RDRF = FALSE /\ RDR = 0 /\ arrived = 0 /\ gotLast = 0
    BY DEF SciInit
  <2>2. rinfo \in Seq(Nat) /\ Len(rinfo) = 0 /\ RBUFSIZ \in Nat
    BY <2>1, EmptySeq, SciAssumption
  <2>3. RxType
    <3>1. Len(rinfo) <= RBUFSIZ
      BY <2>2
    <3>2. 0 \in Nat /\ FALSE \in BOOLEAN
      OBVIOUS
    <3> QED BY <2>1, <2>2, <3>1, <3>2 DEF RxType
  <2>4. RxOrder
    BY <2>1, <2>2 DEF RxOrder
  <2> QED BY <2>1, <2>3, <2>4 DEF RxInv
<1>2. RxInv /\ [SciNext]_sciVars => RxInv'
  <2> SUFFICES ASSUME RxInv, [SciNext]_sciVars PROVE RxInv'
    OBVIOUS
  <2>1. ASSUME UNCHANGED <<rinfo, RDRF, RDR, arrived, lost, gotLast>> PROVE RxInv'
    BY <2>1 DEF RxInv, RxType, RxOrder, Accounted
  <2>2. ASSUME UNCHANGED rxVars PROVE RxInv'
    BY <2>1, <2>2 DEF rxVars
  <2>3. ASSUME NEW n \in Int, NEW d \in [1 .. n -> Chars], WriteSci(d) PROVE RxInv'
    BY <2>2, <2>3 DEF WriteSci
  <2>4. CASE Txi \/ Shift
    BY <2>2, <2>4 DEF Txi, Shift
  <2>5. CASE Arrive
    BY <2>5, ArriveKeeps
  <2>6. CASE Rxi
    BY <2>6, RxiKeeps
  <2>7. CASE Eri
    BY <2>1, <2>7 DEF Eri
  <2>8. ASSUME NEW n \in 1 .. RBUFSIZ, ReadSci(n) PROVE RxInv'
    <3>1. n \in Nat
      BY SciAssumption
    <3> QED BY <2>8, <3>1, ReadKeeps
  <2>9. ASSUME NEW pid \in Ids, Open(pid) \/ Close(pid) PROVE RxInv'
    BY <2>2, <2>9 DEF Open, Close
  <2>10. CASE UNCHANGED sciVars
    BY <2>2, <2>10 DEF sciVars
  <2> QED BY <2>3, <2>4, <2>5, <2>6, <2>7, <2>8, <2>9, <2>10 DEF SciNext
<1> QED BY <1>1, <1>2, RxInOrder, PTL DEF LineSpec

=============================================================================
