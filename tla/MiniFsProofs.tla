--------------------------- MODULE MiniFsProofs ---------------------------
(***************************************************************************)
(* The chains of MiniFS and what its files hold, for a disk of any number  *)
(* of pages, directory pages and caches of any size, any files and         *)
(* directories and any number of open files, while the programs keep the  *)
(* rule of sharing: the invariants are about behaviours that kept it so    *)
(* far, and the only uses of it are in MayDeleteIs, MayOpenIs and          *)
(* MayFormatIs.                                                            *)
(*                                                                         *)
(* An open file keeps a copy of its entry with the first page of its       *)
(* chain, and a call writes that copy back long after it was taken.  The   *)
(* invariant is that there is a book which the table, the pages and all    *)
(* the copies agree with (Booked): it says of the first page of each chain *)
(* to which place of which directory the chain belongs, and the chains in  *)
(* the book are apart.  One lemma per call writes the new book.            *)
(*                                                                         *)
(* The second half says where the cells are: each file that must hold its  *)
(* cells has a directory, an entry that no open file will write over and a *)
(* chain (HeldAt), and its cells are in the chain or in the window of the  *)
(* one open file that writes it (Fit).  One lemma per call keeps it, with  *)
(* what directories and open files know of each other (Agree).             *)
(***************************************************************************)
EXTENDS MiniFs, FiniteSetTheorems, SequenceTheorems, WellFoundedInduction, TLAPS

-----------------------------------------------------------------------------
(* Numbers.                                                                  *)

\* A set of numbers has a first one.
LEMMA FirstIn ==
    ASSUME NEW S, S \subseteq Nat, S # {}
    PROVE  FirstOf(S) \in S /\ \A y \in S : FirstOf(S) <= y
<1> DEFINE R == OpToRel(<, Nat)
<1>1. PICK x \in S : \A y \in S : ~ (<<y, x>> \in R)
  BY NatLessThanWellFounded, WFMin
<1>2. \A y \in S : <<y, x>> \in R <=> y < x
  BY DEF OpToRel
<1> HIDE DEF R
<1>3. \A y \in S : ~ (y < x)
  BY <1>1, <1>2
<1>4. \A y \in S : x <= y
  BY <1>3
<1> QED BY <1>4 DEF FirstOf

\* A set with 0 that goes on up to m has all numbers up to m.
LEMMA Upwards ==
    ASSUME NEW S, NEW m \in Nat, 0 \in S,
           \A k \in Nat : k < m /\ k \in S => k + 1 \in S
    PROVE  \A k \in 0 .. m : k \in S
<1> DEFINE T == {k \in 0 .. m : k \notin S}
<1>1. ASSUME T # {} PROVE FALSE
  <2>1. T \subseteq Nat
    OBVIOUS
  <2>2. PICK k \in T : \A y \in T : k <= y
    <3> HIDE DEF T
    <3> QED BY <1>1, <2>1, FirstIn
  <2>3. k \in Nat /\ k # 0 /\ k <= m /\ k \notin S
    BY <2>2
  <2>4. k - 1 \in Nat /\ k - 1 \in 0 .. m /\ ~(k <= k - 1) /\ k - 1 < m /\ k - 1 + 1 = k
    BY <2>3
  <2>5. k - 1 \in S
    BY <2>2, <2>4
  <2> QED BY <2>3, <2>4, <2>5
<1> QED BY <1>1

\* What is known of the constants.
LEMMA FsConstants ==
    /\ PAGES \in Nat /\ PAGES > 2 /\ PAGE \in Nat \ {0} /\ CACHE \in Nat \ {0}
    /\ CACHE % PAGE = 0 /\ ENTRIES \in Nat \ {0} /\ FD_NUM \in Nat \ {0}
    /\ Lengths \subseteq Nat /\ Places \subseteq Nat
    /\ FREE = -1 /\ TAIL = -2 /\ ROOT = 1 /\ Page = 0 .. PAGES - 1
  BY MiniFsAssumption DEF FREE, TAIL, ROOT, Page

\* A number, seen as rows of e: where the i-th of n rows is.
LEMMA RowOf ==
    ASSUME NEW e \in Nat \ {0}, NEW n \in Nat, NEW i \in 1 .. n * e
    PROVE  /\ (i - 1) \div e + 1 \in 1 .. n /\ ((i - 1) % e) + 1 \in 1 .. e
           /\ ((i - 1) \div e + 1 - 1) * e + (((i - 1) % e) + 1) = i
<1> DEFINE q == (i - 1) \div e
           r == (i - 1) % e
<1>1. n * e \in Nat
  OBVIOUS
<1>2. i \in Nat /\ i - 1 \in Nat /\ i - 1 < n * e
  BY <1>1
<1>3. q \in Nat /\ r \in 0 .. e - 1 /\ i - 1 = e * q + r
  BY <1>2
<1> HIDE DEF q, r
<1>4. e * q < e * n
  BY <1>2, <1>3
<1>5. q < n
  BY <1>3, <1>4
<1>6. (q + 1 - 1) * e + (r + 1) = i
  BY <1>2, <1>3
<1>7. q + 1 \in 1 .. n /\ r + 1 \in 1 .. e
  BY <1>3, <1>5
<1> QED BY <1>6, <1>7 DEF q, r

\* As many rows as there are.
LEMMA RowsIn ==
    ASSUME NEW e \in Nat \ {0}, NEW n \in Nat
    PROVE  n * e \in Nat /\ (n * e) \div e = n
<1> DEFINE q == (n * e) \div e
           r == (n * e) % e
<1>1. n * e \in Nat
  OBVIOUS
<1>2. q \in Nat /\ r \in 0 .. e - 1 /\ n * e = e * q + r
  BY <1>1
<1> HIDE DEF q, r
<1>3. e * n < e * (q + 1) /\ e * q < e * (n + 1)
  BY <1>2
<1>4. n < q + 1 /\ q < n + 1
  BY <1>2, <1>3
<1> QED BY <1>1, <1>2, <1>4 DEF q

-----------------------------------------------------------------------------
(* Chains.                                                                   *)

\* A table links pages to pages or ends a chain.
Ends == Page \cup {FREE, TAIL}
Table(f) == f \in [Page -> Ends]

\* A chain of different pages that follows the links up to a tail.
Goes(f, c) ==
    /\ c \in Seq(1 .. PAGES - 1) /\ Len(c) >= 1
    /\ \A i \in 1 .. Len(c) - 1 : f[c[i]] = c[i + 1]
    /\ f[c[Len(c)]] = TAIL
    /\ \A i, j \in 1 .. Len(c) : c[i] = c[j] => i = j

Walk(f, m, w) ==
    w = [k \in 0 .. m |->
            [p \in Ends |-> IF k = 0 \/ p \notin Page THEN <<>> ELSE <<p>> \o w[k - 1][f[p]]]]

\* The pages of a chain up to any number of steps.
LEMMA Walks ==
    ASSUME NEW f, NEW m \in Nat
    PROVE  \E w : Walk(f, m, w)
<1> DEFINE Row(v, k) == [p \in Ends |->
                            IF k = 0 \/ p \notin Page THEN <<>> ELSE <<p>> \o v[k - 1][f[p]]]
           S == {i \in Nat : \E w : w = [k \in 0 .. i |-> Row(w, k)]}
<1>1. 0 \in S
  <2> DEFINE w == [k \in 0 .. 0 |-> [p \in Ends |-> <<>>]]
  <2>1. w = [k \in 0 .. 0 |-> Row(w, k)]
    OBVIOUS
  <2> QED BY <2>1
<1>2. ASSUME NEW i \in Nat, i \in S PROVE i + 1 \in S
  <2>1. PICK w : w = [k \in 0 .. i |-> Row(w, k)]
    BY <1>2
  <2> DEFINE x == [k \in 0 .. i + 1 |-> IF k = i + 1 THEN Row(w, i + 1) ELSE w[k]]
  <2>2. \A k \in 0 .. i : w[k] = Row(w, k)
    <3> HIDE DEF Row
    <3> QED BY <2>1, Zenon
  <2>3. \A k \in 0 .. i + 1 : x[k] = Row(x, k)
    <3> TAKE k \in 0 .. i + 1
    <3>1. k # 0 => k - 1 \in 0 .. i + 1 /\ k - 1 # i + 1
      OBVIOUS
    <3>2. k # 0 => x[k - 1] = w[k - 1]
      BY <3>1
    <3>3. x[k] = IF k = i + 1 THEN Row(w, i + 1) ELSE w[k]
      OBVIOUS
    <3> HIDE DEF x
    <3>4. Row(x, k) = Row(w, k)
      <4>1. CASE k = 0
        BY <4>1
      <4>2. CASE k # 0
        BY <3>2, <4>2
      <4> QED BY <4>1, <4>2
    <3>5. k # i + 1 => k \in 0 .. i
      OBVIOUS
    <3> HIDE DEF Row
    <3> QED BY <2>2, <3>3, <3>4, <3>5
  <2>4. x = [k \in 0 .. i + 1 |-> Row(x, k)]
    <3> DEFINE y == [k \in 0 .. i + 1 |-> Row(x, k)]
    <3>1. \A k \in 0 .. i + 1 : x[k] = y[k]
      <4> HIDE DEF x, Row
      <4> QED BY <2>3
    <3>2. x = [k \in 0 .. i + 1 |-> x[k]] /\ y = [k \in 0 .. i + 1 |-> y[k]]
      OBVIOUS
    <3> HIDE DEF x, y
    <3>3. x = y
      BY <3>1, <3>2
    <3> QED BY <3>3 DEF y
  <2> HIDE DEF x, Row
  <2> QED BY <2>4
<1>3. \A i \in 0 .. m : i \in S
  <2> HIDE DEF S
  <2> QED BY <1>1, <1>2, Upwards
<1>4. m \in S
  <2> HIDE DEF S
  <2> QED BY <1>3
<1> HIDE DEF Row
<1>5. PICK w : w = [k \in 0 .. m |-> Row(w, k)]
  BY <1>4
<1>6. Walk(f, m, w)
  BY <1>5, Zenon DEF Walk, Row
<1> QED BY <1>6

\* A chain is no longer than the disk.
LEMMA ChainFits ==
    ASSUME NEW f, NEW c, Goes(f, c)
    PROVE  Len(c) <= PAGES - 1
<1>1. PICK n \in Nat : n = Len(c)
  BY DEF Goes
<1>2. PICK m \in Nat : m = PAGES - 1
  BY FsConstants
<1>3. c \in [1 .. n -> 1 .. m] /\ \A i, j \in 1 .. n : c[i] = c[j] => i = j
  <2>1. c \in Seq(1 .. m) /\ \A i, j \in 1 .. Len(c) : c[i] = c[j] => i = j
    BY <1>2 DEF Goes
  <2> QED BY <1>1, <2>1
<1>4. c \in Injection(1 .. n, 1 .. m)
  BY <1>3, Zenon DEF Injection, IsInjective
<1>5. 1 \in Int /\ m \in Int /\ n \in Int
  BY <1>1, <1>2
<1>6. /\ IsFiniteSet(1 .. m)
      /\ Cardinality(1 .. m) = IF 1 > m THEN 0 ELSE m - 1 + 1
      /\ Cardinality(1 .. n) = IF 1 > n THEN 0 ELSE n - 1 + 1
  BY <1>5, FS_Interval, Zenon
<1>7. Cardinality(1 .. n) <= Cardinality(1 .. m)
  BY <1>4, <1>6, FS_Injection, Zenon
<1> QED BY <1>1, <1>2, <1>6, <1>7

\* The pages of a chain.
LEMMA GoesParts ==
    ASSUME NEW f, NEW c, Goes(f, c)
    PROVE  /\ Len(c) \in Nat /\ c \in [1 .. Len(c) -> Int]
           /\ \A i \in 1 .. Len(c) :
                 c[i] \in 1 .. PAGES - 1 /\ c[i] \in Page /\ c[i] \in Ends /\ c[i] \in Nat
<1>1. PICK m \in Nat : m = PAGES - 1
  BY FsConstants
<1>2. c \in Seq(1 .. m)
  BY <1>1 DEF Goes
<1>3. PICK n \in Nat : n = Len(c)
  BY <1>2
<1>4. c \in [1 .. n -> 1 .. m]
  BY ONLY <1>2, <1>3
<1>5. \A p \in 1 .. m : p \in Nat /\ p \in Int /\ p \in Page /\ p \in Ends
  BY <1>1, FsConstants DEF Ends
<1>6. c \in [1 .. n -> Int] /\ \A i \in 1 .. n : c[i] \in 1 .. m
  BY ONLY <1>4
<1> QED BY <1>1, <1>3, <1>5, <1>6

\* A function on the first numbers is a sequence.
LEMMA SeqByFun ==
    \A n \in Nat : \A S, c :
        c \in [1 .. n -> S] => c \in Seq(S) /\ Len(c) = n /\ DOMAIN c = 1 .. n
  OBVIOUS

\* The chain from the i-th page on.
Rest(c, i) == [j \in 1 .. Len(c) - i + 1 |-> c[i + j - 1]]

\* The rest of a chain from its first page, from its last one, and from any other.
LEMMA RestOf ==
    ASSUME NEW f, NEW c, Goes(f, c)
    PROVE  /\ Rest(c, 1) = c /\ Rest(c, Len(c)) = <<c[Len(c)]>>
           /\ \A i \in 1 .. Len(c) - 1 : Rest(c, i) = <<c[i]>> \o Rest(c, i + 1)
<1>1. PICK n \in Nat : n = Len(c)
  BY DEF Goes
<1>2. n >= 1 /\ c = [j \in 1 .. n |-> c[j]] /\ c \in Seq(Int) /\ \A j \in 1 .. n : c[j] \in Int
  <2>1. c \in [1 .. n -> Int] /\ n >= 1
    BY <1>1, GoesParts DEF Goes
  <2> QED BY ONLY <2>1
<1>3. Rest(c, 1) = c
  <2>1. Rest(c, 1) = [j \in 1 .. n |-> c[1 + j - 1]]
    <3>1. Len(c) - 1 + 1 = n
      BY <1>1
    <3> QED BY <3>1 DEF Rest
  <2>2. \A j \in 1 .. n : 1 + j - 1 = j
    OBVIOUS
  <2> QED BY <1>2, <2>1, <2>2
<1>4. Rest(c, n) = <<c[n]>>
  <2>1. n - n + 1 = 1 /\ \A j \in 1 .. 1 : n + j - 1 = n
    BY <1>1
  <2>2. Rest(c, n) = [j \in 1 .. 1 |-> c[n + j - 1]]
    BY <1>1, <2>1 DEF Rest
  <2>3. Rest(c, n) = [j \in 1 .. 1 |-> c[n]]
    BY <2>1, <2>2
  <2> QED BY <2>3
<1>5. ASSUME NEW i \in 1 .. n - 1 PROVE Rest(c, i) = <<c[i]>> \o Rest(c, i + 1)
  <2>1. PICK t : t = Rest(c, i + 1)
    OBVIOUS
  <2>2. PICK s : s = Rest(c, i)
    OBVIOUS
  <2>3. t = [j \in 1 .. n - i |-> c[i + j]]
    <3>1. Len(c) - (i + 1) + 1 = n - i /\ \A j \in 1 .. n - i : i + 1 + j - 1 = i + j
      BY <1>1
    <3> QED BY <2>1, <3>1 DEF Rest
  <2>4. s = [j \in 1 .. n - i + 1 |-> c[i + j - 1]]
    BY <1>1, <2>2 DEF Rest
  <2>5. n - i \in Nat /\ \A j \in 1 .. n - i : i + j \in 1 .. n
    BY <1>1
  <2>6. t \in Seq(Int) /\ Len(t) = n - i
    <3>1. t \in [1 .. n - i -> Int]
      BY ONLY <1>2, <2>3, <2>5
    <3> QED BY <2>5, <3>1, SeqByFun, Zenon
  <2>7. \A j \in 1 .. n - i + 1 : i + j - 1 \in 1 .. n
    BY <1>1
  <2>8. s \in Seq(Int) /\ Len(s) = n - i + 1
    <3>1. s \in [1 .. n - i + 1 -> Int] /\ n - i + 1 \in Nat
      BY ONLY <1>2, <2>4, <2>5, <2>7
    <3> QED BY <3>1, SeqByFun, Zenon
  <2>9. <<c[i]>> \in Seq(Int) /\ Len(<<c[i]>>) = 1 /\ <<c[i]>>[1] = c[i]
    BY <1>2, <2>5
  <2>10. PICK u : u = <<c[i]>> \o t
    OBVIOUS
  <2>11. /\ u \in Seq(Int) /\ Len(u) = n - i + 1
         /\ \A j \in 1 .. n - i + 1 : u[j] = IF j <= 1 THEN <<c[i]>>[j] ELSE t[j - 1]
    <3>1. PICK a : a = <<c[i]>>
      OBVIOUS
    <3>2. a \in Seq(Int) /\ Len(a) = 1 /\ u = a \o t
      BY <2>9, <2>10, <3>1
    <3>3. /\ a \o t \in Seq(Int) /\ Len(a \o t) = Len(a) + Len(t)
          /\ \A j \in 1 .. Len(a) + Len(t) : (a \o t)[j] = IF j <= Len(a) THEN a[j] ELSE t[j - Len(a)]
      BY <2>6, <3>2, ConcatProperties, Zenon
    <3>4. 1 + (n - i) = n - i + 1
      BY <2>5
    <3> QED BY <2>6, <3>1, <3>2, <3>3, <3>4
  <2>12. ASSUME NEW j \in 1 .. n - i + 1 PROVE u[j] = s[j]
    <3>1. s[j] = c[i + j - 1]
      BY <2>4
    <3>2. CASE j = 1
      <4>1. i + j - 1 = i
        BY <3>2
      <4> QED BY <2>9, <2>11, <3>1, <3>2, <4>1
    <3>3. CASE j # 1
      <4>1. j - 1 \in 1 .. n - i /\ i + (j - 1) = i + j - 1 /\ ~(j <= 1)
        BY <2>5, <3>3
      <4>2. t[j - 1] = c[i + j - 1]
        BY <2>3, <4>1
      <4> QED BY <2>11, <3>1, <4>1, <4>2
    <3> QED BY <3>2, <3>3
  <2>13. u = s
    BY <2>8, <2>11, <2>12, SeqEqual
  <2> QED BY <2>1, <2>2, <2>10, <2>13
<1> QED BY <1>1, <1>3, <1>4, <1>5

\* Chain finds such a chain.
LEMMA ChainIs ==
    ASSUME NEW f, NEW c, Goes(f, c)
    PROVE  Chain(f, c[1]) = c
<1> DEFINE W == CHOOSE w : Walk(f, PAGES, w)
<1>1. Walk(f, PAGES, W)
  <2>1. \E w : Walk(f, PAGES, w)
    BY Walks, FsConstants
  <2> QED BY <2>1, Zenon
<1>2. Chain(f, c[1]) = W[PAGES][c[1]]
  BY Zenon DEF Chain, Walk, Ends
<1> HIDE DEF W
<1>3. \A k \in 0 .. PAGES, p \in Ends :
          W[k][p] = IF k = 0 \/ p \notin Page THEN <<>> ELSE <<p>> \o W[k - 1][f[p]]
  <2> TAKE k \in 0 .. PAGES, p \in Ends
  <2>1. W[k] = [x \in Ends |-> IF k = 0 \/ x \notin Page THEN <<>> ELSE <<x>> \o W[k - 1][f[x]]]
    BY <1>1, Zenon DEF Walk
  <2> QED BY <2>1, Zenon
<1>4. PICK n \in Nat : n = Len(c)
  BY DEF Goes
<1>5. /\ n >= 1 /\ n <= PAGES - 1 /\ f[c[n]] = TAIL
      /\ \A i \in 1 .. n - 1 : f[c[i]] = c[i + 1]
      /\ \A i \in 1 .. n : c[i] \in Page /\ c[i] \in Ends
  <2>1. \A i \in 1 .. n : c[i] \in Page /\ c[i] \in Ends
    BY <1>4, GoesParts
  <2>3. n <= PAGES - 1
    BY <1>4, ChainFits
  <2> QED BY <1>4, <2>1, <2>3 DEF Goes
<1> DEFINE S == {m \in 0 .. n - 1 : \A k \in m + 1 .. PAGES : W[k][c[n - m]] = Rest(c, n - m)}
<1>6. 0 \in S
  <2>1. ASSUME NEW k \in 1 .. PAGES PROVE W[k][c[n]] = Rest(c, n)
    <3>1. k \in 0 .. PAGES /\ k - 1 \in 0 .. PAGES /\ k # 0 /\ n \in 1 .. n
      BY FsConstants, <1>5
    <3>2. W[k][c[n]] = <<c[n]>> \o W[k - 1][TAIL]
      BY <1>3, <1>5, <3>1
    <3>3. TAIL \in Ends /\ TAIL \notin Page
      BY FsConstants DEF Ends
    <3>4. W[k - 1][TAIL] = <<>>
      BY <1>3, <3>1, <3>3
    <3>5. c[n] \in Int
      BY <1>5, <3>1, FsConstants
    <3>6. <<c[n]>> \o <<>> = <<c[n]>>
      BY <3>5, ConcatEmptySeq
    <3> QED BY <1>4, <3>2, <3>4, <3>6, RestOf
  <2>2. n - 0 = n /\ 0 + 1 = 1 /\ 0 \in 0 .. n - 1
    BY <1>5
  <2> QED BY <2>1, <2>2
<1>7. ASSUME NEW m \in Nat, m < n - 1, m \in S PROVE m + 1 \in S
  <2>1. PICK i \in Nat : i = n - (m + 1)
    BY <1>7
  <2>2. i \in 1 .. n - 1 /\ i \in 1 .. n /\ i + 1 = n - m /\ m + 1 \in 0 .. n - 1
    BY <1>7, <2>1
  <2>3. ASSUME NEW k \in (m + 1) + 1 .. PAGES PROVE W[k][c[i]] = Rest(c, i)
    <3>1. k \in 0 .. PAGES /\ k - 1 \in m + 1 .. PAGES /\ k # 0
      BY FsConstants
    <3>2. W[k][c[i]] = <<c[i]>> \o W[k - 1][c[i + 1]]
      BY <1>3, <1>5, <2>2, <3>1
    <3>3. W[k - 1][c[i + 1]] = Rest(c, i + 1)
      BY <1>7, <2>2, <3>1
    <3> QED BY <1>4, <2>2, <3>2, <3>3, RestOf
  <2> QED BY <2>1, <2>2, <2>3
<1>8. \A m \in 0 .. n - 1 : m \in S
  <2>1. n - 1 \in Nat
    BY <1>5
  <2> HIDE DEF S
  <2> QED BY <1>6, <1>7, <2>1, Upwards
<1>9. W[PAGES][c[1]] = Rest(c, 1)
  <2>1. n - 1 \in 0 .. n - 1 /\ n - (n - 1) = 1 /\ PAGES \in (n - 1) + 1 .. PAGES
    BY <1>5, FsConstants
  <2>2. n - 1 \in S
    BY <1>8, <2>1
  <2> QED BY <2>1, <2>2
<1> QED BY <1>2, <1>9, RestOf

\* The pages of a chain that begins at h and is proper; chains that share
\* no page.
Pages(f, h) == {Chain(f, h)[i] : i \in 1 .. Len(Chain(f, h))}
Proper(f, h) == Goes(f, Chain(f, h)) /\ Chain(f, h)[1] = h
Apart(f, H) ==
    /\ Table(f)
    /\ \A h \in H : Proper(f, h)
    /\ \A g, h \in H : g # h => Pages(f, g) \cap Pages(f, h) = {}

\* The links of a chain are the same in two tables; the chain is the same; the
\* pages c are a chain that begins at h, and share no page with a chain.
SameLinks(f, g, h) == \A p \in Pages(f, h) : g[p] = f[p]
Stays(f, g, h) == Chain(g, h) = Chain(f, h) /\ Pages(g, h) = Pages(f, h)
Begins(f, c, h) == Goes(f, c) /\ c[1] = h
Beside(f, c, h) == \A p \in Pages(f, h) : \A i \in 1 .. Len(c) : c[i] # p

Spared(f, g, c, F) == \A r \in F : SameLinks(f, g, r) /\ Beside(f, c, r)

\* A sequence of pages that goes to its end is the chain of its first page.
LEMMA ProperIs ==
    ASSUME NEW f, NEW c, Goes(f, c)
    PROVE  /\ Chain(f, c[1]) = c /\ Proper(f, c[1])
           /\ Pages(f, c[1]) = {c[i] : i \in 1 .. Len(c)}
  BY ChainIs, Zenon DEF Proper, Pages

\* The pages of a chain are pages of the table that are not free, but never page 0.
LEMMA PagesOf ==
    ASSUME NEW f, NEW h, Table(f), Proper(f, h)
    PROVE  /\ h \in Pages(f, h) /\ h \in 1 .. PAGES - 1 /\ h \in Page
           /\ \A p \in Pages(f, h) : p \in 1 .. PAGES - 1 /\ p \in Page /\ f[p] # FREE
<1>1. PICK c : c = Chain(f, h)
  OBVIOUS
<1>2. Goes(f, c) /\ c[1] = h /\ Pages(f, h) = {c[i] : i \in 1 .. Len(c)}
  BY <1>1, Zenon DEF Proper, Pages
<1>3. PICK n \in Nat : n = Len(c)
  BY <1>2, GoesParts
<1>4. n >= 1 /\ \A i \in 1 .. n : c[i] \in 1 .. PAGES - 1 /\ c[i] \in Page
  BY <1>2, <1>3, GoesParts DEF Goes
<1>5. ASSUME NEW i \in 1 .. n PROVE f[c[i]] # FREE
  <2>1. CASE i = n
    BY <1>2, <1>3, <2>1, FsConstants DEF Goes
  <2>2. CASE i # n
    <3>1. i \in 1 .. n - 1 /\ i + 1 \in 1 .. n
      BY <2>2
    <3>2. f[c[i]] = c[i + 1] /\ c[i + 1] \in 1 .. PAGES - 1
      BY <1>2, <1>3, <1>4, <3>1 DEF Goes
    <3> QED BY <3>2, FsConstants
  <2> QED BY <2>1, <2>2
<1>6. 1 \in 1 .. n
  BY <1>3, <1>4
<1> QED BY <1>2, <1>3, <1>4, <1>5, <1>6

\* A chain stays what it is in a table with the same links.
LEMMA Keeps ==
    ASSUME NEW f, NEW g, NEW h, Proper(f, h), SameLinks(f, g, h)
    PROVE  Proper(g, h) /\ Stays(f, g, h)
<1>1. PICK c : c = Chain(f, h)
  OBVIOUS
<1>2. Goes(f, c) /\ c[1] = h /\ Pages(f, h) = {c[i] : i \in 1 .. Len(c)}
  BY <1>1, Zenon DEF Proper, Pages
<1>3. PICK n \in Nat : n = Len(c)
  BY <1>2, GoesParts
<1>4. \A i \in 1 .. n : g[c[i]] = f[c[i]]
  BY <1>2, <1>3 DEF SameLinks
<1>5. n >= 1 /\ n \in 1 .. n /\ \A i \in 1 .. n - 1 : i \in 1 .. n
  BY <1>2, <1>3 DEF Goes
<1>6. Goes(g, c)
  BY <1>2, <1>3, <1>4, <1>5 DEF Goes
<1> QED BY <1>1, <1>2, <1>6, ProperIs, Zenon DEF Stays

\* Some chains of a table, in a table that has the same links there.
LEMMA ApartLess ==
    ASSUME NEW f, NEW g, NEW H, NEW G, Apart(f, H), G \subseteq H, Table(g),
           \A h \in G : SameLinks(f, g, h)
    PROVE  Apart(g, G) /\ \A h \in G : Stays(f, g, h)
<1>1. \A h \in G : h \in H /\ Proper(g, h) /\ Stays(f, g, h)
  BY Keeps DEF Apart
<1>2. \A x, y \in G : x # y => Pages(g, x) \cap Pages(g, y) = {}
  BY <1>1, Zenon DEF Apart, Stays
<1> QED BY <1>1, <1>2, Zenon DEF Apart

\* A chain that is new or changed, beside the others.
LEMMA ApartWith ==
    ASSUME NEW f, NEW g, NEW H, NEW G, NEW c, NEW h, Apart(f, H), Table(g), Begins(g, c, h),
           Spared(f, g, c, H \ {h}), G = H \cup {h}
    PROVE  /\ Apart(g, G) /\ Chain(g, h) = c
           /\ \A r \in H \ {h} : Stays(f, g, r)
<1>1. PICK F : F = H \ {h}
  OBVIOUS
<1>2. Apart(g, F) /\ \A r \in F : Stays(f, g, r)
  <2>1. F \subseteq H /\ \A r \in F : SameLinks(f, g, r)
    BY <1>1, Zenon DEF Spared
  <2> QED BY <2>1, ApartLess, Zenon
<1>3. Chain(g, h) = c /\ Proper(g, h) /\ Pages(g, h) = {c[i] : i \in 1 .. Len(c)}
  BY ProperIs, Zenon DEF Begins
<1>4. \A r \in F : Pages(g, r) \cap Pages(g, h) = {}
  BY <1>1, <1>2, <1>3 DEF Beside, Stays, Spared
<1>5. \A r \in G : r \in F \/ r = h
  BY <1>1
<1>6. \A r \in G : Proper(g, r)
  BY <1>2, <1>3, <1>5 DEF Apart
<1>7. \A x, y \in G : x # y => Pages(g, x) \cap Pages(g, y) = {}
  <2> TAKE x, y \in G
  <2>1. CASE x \in F /\ y \in F
    BY <1>2, <2>1, Zenon DEF Apart
  <2>2. CASE x = h /\ y \in F
    BY <1>4, <2>2
  <2>3. CASE x \in F /\ y = h
    BY <1>4, <2>3
  <2> QED BY <1>5, <2>1, <2>2, <2>3
<1> QED BY <1>1, <1>2, <1>3, <1>6, <1>7, Zenon DEF Apart

\* The first free page is one, and free.
LEMMA FreePage ==
    ASSUME NEW f, FreeFat(f) # {}
    PROVE  LET p == FirstOf(FreeFat(f)) IN
               p \in 1 .. PAGES - 1 /\ p \in Page /\ p \in Ends /\ p \in Nat /\ f[p] = FREE
<1>1. FreeFat(f) \subseteq Nat
  BY FsConstants DEF FreeFat
<1>2. FirstOf(FreeFat(f)) \in FreeFat(f)
  BY <1>1, FirstIn
<1> QED BY <1>2, FsConstants DEF FreeFat, Ends

\* The chain d is the chain c with m pages more; the chain gets the first free
\* page, if there is one.
Longer(c, d, m) == Len(d) = Len(c) + m /\ \A i \in 1 .. Len(c) : d[i] = c[i]
Adds(f, g, h) ==
    FreeFat(f) # {} => /\ Longer(Chain(f, h), Chain(g, h), 1)
                       /\ FreeFat(g) = FreeFat(f) \ {FirstOf(FreeFat(f))}

\* A chain gets a page: the other chains stay.
LEMMA LinkedApart ==
    ASSUME NEW f, NEW H, NEW h \in H, Apart(f, H)
    PROVE  /\ Apart(Linked(f, h), H)
           /\ \A r \in H \ {h} : Stays(f, Linked(f, h), r)
           /\ Adds(f, Linked(f, h), h)
<1>1. CASE FreeFat(f) = {}
  <2>1. Linked(f, h) = f
    BY <1>1, Zenon DEF Linked
  <2> QED BY <1>1, <2>1 DEF Stays, Adds
<1>2. CASE FreeFat(f) # {}
  <2>1. PICK new : new = FirstOf(FreeFat(f))
    OBVIOUS
  <2>2. new \in 1 .. PAGES - 1 /\ new \in Page /\ new \in Ends /\ f[new] = FREE
    BY <1>2, <2>1, FreePage
  <2>3. PICK c : c = Chain(f, h)
    OBVIOUS
  <2>4. Goes(f, c) /\ c[1] = h /\ Pages(f, h) = {c[i] : i \in 1 .. Len(c)} /\ Proper(f, h) /\ Table(f)
    BY <2>3, Zenon DEF Apart, Proper, Pages
  <2>5. PICK n \in Nat : n = Len(c)
    BY <2>4, GoesParts
  <2>6. /\ n >= 1 /\ \A i \in 1 .. n : c[i] \in 1 .. PAGES - 1 /\ c[i] \in Page
        /\ \A i \in 1 .. n : c[i] \in Pages(f, h)
        /\ \A i \in 1 .. n : c[i] # new
    <3>1. \A i \in 1 .. n : c[i] \in Pages(f, h)
      BY <2>4, <2>5
    <3>2. \A i \in 1 .. n : c[i] # new
      BY <2>2, <2>4, <3>1, PagesOf
    <3> QED BY <2>4, <2>5, <3>1, <3>2, GoesParts DEF Goes
  <2>7. PICK g : g = [f EXCEPT ![c[n]] = new, ![new] = TAIL]
    OBVIOUS
  <2>8. Linked(f, h) = g
    BY <1>2, <2>1, <2>3, <2>5, <2>7, Zenon DEF Linked
  <2>9. /\ Table(g) /\ g[c[n]] = new /\ g[new] = TAIL
        /\ \A p \in Page : p # c[n] /\ p # new => g[p] = f[p]
    <3>1. c[n] \in Page /\ c[n] # new /\ TAIL \in Ends
      BY <2>6 DEF Ends
    <3> QED BY <2>2, <2>4, <2>7, <3>1 DEF Table
  <2>10. PICK d : d = [i \in 1 .. n + 1 |-> IF i = n + 1 THEN new ELSE c[i]]
    OBVIOUS
  <2>11. d \in Seq(1 .. PAGES - 1) /\ Len(d) = n + 1 /\ \A i \in 1 .. n : d[i] = c[i]
    <3>1. d \in [1 .. n + 1 -> 1 .. PAGES - 1]
      <4>1. \A i \in 1 .. n + 1 : i = n + 1 \/ i \in 1 .. n
        BY <2>5
      <4> QED BY <2>2, <2>6, <2>10, <4>1
    <3>2. n + 1 \in Nat /\ \A i \in 1 .. n : i \in 1 .. n + 1 /\ i # n + 1
      BY <2>5
    <3>3. \A i \in 1 .. n : d[i] = c[i]
      BY <2>10, <3>2
    <3> QED BY <3>1, <3>2, <3>3, SeqByFun
  <2>12. d[n + 1] = new /\ d[1] = h /\ n + 1 >= 1
    BY <2>4, <2>5, <2>6, <2>10
  <2>13. \A i \in 1 .. n : \A j \in 1 .. n : c[i] = c[j] => i = j
    BY <2>4, <2>5 DEF Goes
  <2>14. Goes(g, d)
    <3>1. \A i \in 1 .. n : g[d[i]] = d[i + 1]
      <4> TAKE i \in 1 .. n
      <4>1. CASE i = n
        BY <2>9, <2>11, <2>12, <4>1
      <4>2. CASE i # n
        <5>1. i \in 1 .. n - 1 /\ i + 1 \in 1 .. n /\ n \in 1 .. n
          BY <2>5, <2>6, <4>2
        <5>2. c[i] # c[n] /\ c[i] # new /\ c[i] \in Page
          BY <2>6, <2>13, <4>2, <5>1
        <5>3. f[c[i]] = c[i + 1]
          BY <2>4, <2>5, <5>1 DEF Goes
        <5> QED BY <2>9, <2>11, <5>1, <5>2, <5>3
      <4> QED BY <4>1, <4>2
    <3>2. \A i, j \in 1 .. n + 1 : d[i] = d[j] => i = j
      <4> TAKE i, j \in 1 .. n + 1
      <4>1. (i = n + 1 \/ i \in 1 .. n) /\ (j = n + 1 \/ j \in 1 .. n)
        BY <2>5
      <4> QED BY <2>6, <2>11, <2>12, <2>13, <4>1
    <3>3. n + 1 - 1 = n
      BY <2>5
    <3> QED BY <2>9, <2>11, <2>12, <3>1, <3>2, <3>3 DEF Goes
  <2>15. ASSUME NEW r \in H \ {h}, NEW p \in Pages(f, r)
         PROVE  g[p] = f[p] /\ \A i \in 1 .. Len(d) : d[i] # p
    <3>1. Pages(f, r) \cap Pages(f, h) = {} /\ Proper(f, r)
      BY DEF Apart
    <3>2. p \in Page /\ p # new
      BY <2>2, <2>4, <3>1, PagesOf
    <3>3. \A i \in 1 .. n : p # c[i]
      BY <2>6, <3>1
    <3>4. n \in 1 .. n /\ \A i \in 1 .. n + 1 : i = n + 1 \/ i \in 1 .. n
      BY <2>5, <2>6
    <3> QED BY <2>9, <2>11, <2>12, <3>2, <3>3, <3>4
  <2>16. H = H \cup {h}
    OBVIOUS
  <2>17. Spared(f, g, d, H \ {h}) /\ Apart(f, H)
    BY <2>15, Zenon DEF SameLinks, Beside, Spared
  <2>18. Begins(g, d, h)
    BY <2>12, <2>14 DEF Begins
  <2>19. Apart(g, H) /\ Chain(g, h) = d /\ \A r \in H \ {h} : Stays(f, g, r)
    BY ONLY <2>9, <2>16, <2>17, <2>18, ApartWith, Zenon
  <2>20. Longer(c, d, 1)
    BY <2>5, <2>11 DEF Longer
  <2>21. FreeFat(g) = FreeFat(f) \ {new}
    <3>1. g[new] # FREE /\ g[c[n]] # FREE /\ f[c[n]] # FREE
      BY <2>2, <2>4, <2>5, <2>6, <2>9, FsConstants DEF Goes
    <3>2. \A p \in ROOT .. PAGES - 1 : p \in Page
      BY FsConstants
    <3> QED BY <2>9, <3>1, <3>2 DEF FreeFat
  <2> QED BY <2>1, <2>3, <2>8, <2>19, <2>20, <2>21, Zenon DEF Adds
<1> QED BY <1>1, <1>2

\* A free page begins a chain of its own.
LEMMA NewApart ==
    ASSUME NEW f, NEW H, Apart(f, H), FreeFat(f) # {}, NEW new, new = FirstOf(FreeFat(f)),
           NEW g, g = [f EXCEPT ![new] = TAIL]
    PROVE  /\ new \notin H /\ new \in 1 .. PAGES - 1
           /\ Apart(g, H \cup {new}) /\ Chain(g, new) = <<new>>
           /\ \A r \in H : Stays(f, g, r) /\ new \notin Pages(f, r)
<1>1. new \in 1 .. PAGES - 1 /\ new \in Page /\ f[new] = FREE
  BY FreePage
<1>2. ASSUME NEW r \in H PROVE new \notin Pages(f, r) /\ new # r
  <2>1. Table(f) /\ Proper(f, r)
    BY DEF Apart
  <2> QED BY <1>1, <2>1, PagesOf
<1>3. Table(g) /\ g[new] = TAIL /\ \A p \in Page : p # new => g[p] = f[p]
  BY <1>1 DEF Apart, Table, Ends
<1>4. PICK c : c = <<new>>
  OBVIOUS
<1>5. c[1] = new /\ Len(c) = 1 /\ c \in Seq(1 .. PAGES - 1)
  BY <1>1, <1>4
<1>6. Goes(g, c)
  BY <1>3, <1>5 DEF Goes
<1>7. ASSUME NEW r \in H, r # c[1], NEW p \in Pages(f, r)
      PROVE  g[p] = f[p] /\ \A i \in 1 .. Len(c) : c[i] # p
  <2>1. Table(f) /\ Proper(f, r)
    BY DEF Apart
  <2>2. p \in Page /\ p # new
    BY <1>2, <2>1, PagesOf
  <2> QED BY <1>3, <1>5, <2>2
<1>8. Spared(f, g, c, H \ {new})
  BY <1>5, <1>7, Zenon DEF SameLinks, Beside, Spared
<1>9. Apart(f, H) /\ Table(g) /\ Begins(g, c, new)
  BY <1>3, <1>5, <1>6 DEF Begins
<1>10. Apart(g, H \cup {new}) /\ \A r \in H \ {new} : Stays(f, g, r)
  BY ONLY <1>8, <1>9, ApartWith, Zenon
<1>11. Chain(g, new) = c
  BY <1>5, <1>6, ProperIs
<1> QED BY <1>1, <1>2, <1>4, <1>10, <1>11

\* A directory grows: its chain is its first page and the new one.
GrowsTo(f, root, add, g) ==
    /\ FreeFat(f) # {} /\ add = FirstOf(FreeFat(f))
    /\ g = [f EXCEPT ![root] = add, ![add] = TAIL]

\* A second page for the root directory leaves the chains apart.
LEMMA RootApart ==
    ASSUME NEW f, NEW H, Apart(f, H), NEW add, NEW root, root \in H, NEW g,
           GrowsTo(f, root, add, g)
    PROVE  /\ Apart(g, H) /\ Chain(g, root) = <<root, add>>
           /\ \A r \in H : add \notin Pages(f, r)
           /\ \A r \in H \ {root} : Stays(f, g, r)
<1>1. add \in 1 .. PAGES - 1 /\ add \in Page /\ f[add] = FREE /\ add \in Ends
  BY FreePage DEF GrowsTo
<1>2. ASSUME NEW r \in H
      PROVE  /\ add \notin Pages(f, r) /\ add # r /\ r \in 1 .. PAGES - 1
             /\ r \in Page /\ r \in Pages(f, r)
  <2>1. Table(f) /\ Proper(f, r)
    BY DEF Apart
  <2> QED BY <1>1, <2>1, PagesOf
<1>3. /\ Table(g) /\ g[root] = add /\ g[add] = TAIL
      /\ \A p \in Page : p # root /\ p # add => g[p] = f[p]
  BY <1>1, <1>2 DEF Apart, Table, Ends, GrowsTo
<1>4. PICK c : c = <<root, add>>
  OBVIOUS
<1>5. c[1] = root /\ c[2] = add /\ Len(c) = 2 /\ c \in Seq(1 .. PAGES - 1)
  BY <1>1, <1>2, <1>4
<1>6. Goes(g, c)
  <2>1. \A i \in 1 .. 2 : i = 1 \/ i = 2
    OBVIOUS
  <2>2. \A i \in 1 .. 2 - 1 : i = 1 /\ i + 1 = 2
    OBVIOUS
  <2> QED BY <1>2, <1>3, <1>5, <2>1, <2>2 DEF Goes
<1>7. ASSUME NEW r \in H, r # c[1], NEW p \in Pages(f, r)
      PROVE  g[p] = f[p] /\ \A i \in 1 .. Len(c) : c[i] # p
  <2>1. Table(f) /\ Proper(f, r) /\ Pages(f, r) \cap Pages(f, root) = {}
    <3>1. r # root
      BY <1>5, <1>7
    <3> QED BY <3>1, Zenon DEF Apart
  <2>2. p \in Page /\ p # root /\ p # add
    BY <1>2, <2>1, PagesOf
  <2>3. \A i \in 1 .. 2 : i = 1 \/ i = 2
    OBVIOUS
  <2>4. \A i \in 1 .. 2 : c[i] # p
    BY <1>5, <2>2, <2>3
  <2>5. g[p] = f[p]
    BY <1>3, <2>2
  <2> QED BY <1>5, <2>4, <2>5
<1>8. Spared(f, g, c, H \ {root})
  BY <1>5, <1>7, Zenon DEF SameLinks, Beside, Spared
<1>9. H = H \cup {root} /\ Apart(f, H) /\ Table(g) /\ Begins(g, c, root)
  BY <1>3, <1>5, <1>6 DEF Begins
<1>10. Apart(g, H) /\ \A r \in H \ {root} : Stays(f, g, r)
  BY ONLY <1>8, <1>9, ApartWith, Zenon
<1>11. Chain(g, root) = c
  BY <1>5, <1>6, ProperIs
<1> QED BY <1>2, <1>4, <1>10, <1>11

\* A chain is given back, or nothing is: the other chains stay.
LEMMA ReleasedApart ==
    ASSUME NEW f, NEW H, Apart(f, H), NEW h \in H, NEW tail \in BOOLEAN
    PROVE  /\ Apart(Released(f, h, tail), H \ {h})
           /\ \A r \in H \ {h} : Stays(f, Released(f, h, tail), r)
<1>1. PICK c : c = Chain(f, h)
  OBVIOUS
<1>2. Goes(f, c) /\ Pages(f, h) = {c[i] : i \in 1 .. Len(c)} /\ Table(f)
  BY <1>1, Zenon DEF Apart, Proper, Pages
<1>3. DOMAIN c = 1 .. Len(c)
  BY <1>2 DEF Goes
<1>4. PICK g : g = [p \in Page |-> IF ~tail /\ \E k \in DOMAIN c : c[k] = p THEN FREE ELSE f[p]]
  OBVIOUS
<1>5. Released(f, h, tail) = g
  BY <1>1, <1>4, Zenon DEF Released
<1>6. \A p \in Page : p \notin Pages(f, h) => g[p] = f[p]
  BY <1>2, <1>3, <1>4
<1>7. Table(g)
  BY <1>2, <1>4 DEF Table, Ends
<1>8. ASSUME NEW r \in H \ {h}, NEW p \in Pages(f, r) PROVE g[p] = f[p]
  <2>1. Pages(f, r) \cap Pages(f, h) = {} /\ Proper(f, r)
    BY DEF Apart
  <2>2. p \in Page
    BY <1>2, <2>1, PagesOf
  <2> QED BY <1>6, <2>1, <2>2
<1>9. H \ {h} \subseteq H /\ \A r \in H \ {h} : SameLinks(f, g, r)
  BY <1>8, Zenon DEF SameLinks
<1> QED BY <1>5, <1>7, <1>9, ApartLess, Zenon

-----------------------------------------------------------------------------
(* Directories.                                                              *)

\* The pages of a directory that fit into the buffer, and its i-th entry.
Rows(f, r) == IF Len(Chain(f, r)) < CACHE \div PAGE THEN Len(Chain(f, r)) ELSE CACHE \div PAGE
RowAt(i) == (i - 1) \div ENTRIES + 1
ColAt(i) == ((i - 1) % ENTRIES) + 1
At(c, P, i) == ReadPage(P, c[RowAt(i)]).ents[ColAt(i)]
Slots(f, r) == 1 .. Rows(f, r) * ENTRIES

\* The entries of a directory are those of its rows.
LEMMA DirIs ==
    ASSUME NEW f, NEW P, NEW r
    PROVE  LoadDir(f, P, r) = [i \in Slots(f, r) |-> At(Chain(f, r), P, i)]
  BY Zenon DEF LoadDir, Rows, At, RowAt, ColAt, Slots

\* The rows of a directory are pages of its chain, and each place is in one of them.
LEMMA RowsAre ==
    ASSUME NEW f, NEW r, Proper(f, r)
    PROVE  /\ Rows(f, r) \in Nat /\ Rows(f, r) >= 1 /\ Rows(f, r) <= Len(Chain(f, r))
           /\ Len(Chain(f, r)) \in Nat
           /\ \A i \in Slots(f, r) :
                 /\ RowAt(i) \in 1 .. Rows(f, r) /\ RowAt(i) \in 1 .. Len(Chain(f, r))
                 /\ ColAt(i) \in 1 .. ENTRIES /\ (RowAt(i) - 1) * ENTRIES + ColAt(i) = i
<1>1. PICK n \in Nat : n = Len(Chain(f, r))
  BY GoesParts DEF Proper
<1>2. n >= 1
  BY <1>1 DEF Proper, Goes
<1>3. PICK m \in Nat : m = CACHE \div PAGE /\ m >= 1
  <2>1. PICK q : q = CACHE \div PAGE
    OBVIOUS
  <2>2. PICK z : z = CACHE % PAGE
    OBVIOUS
  <2>3. q \in Nat /\ z = 0 /\ CACHE = PAGE * q + z
    BY <2>1, <2>2, FsConstants
  <2>4. q # 0
    BY <2>3, FsConstants
  <2> QED BY <2>1, <2>3, <2>4
<1>4. PICK w \in Nat : w = Rows(f, r) /\ w >= 1 /\ w <= n
  BY <1>1, <1>2, <1>3 DEF Rows
<1>5. \A i \in 1 .. w * ENTRIES : /\ RowAt(i) \in 1 .. w /\ ColAt(i) \in 1 .. ENTRIES
                                   /\ (RowAt(i) - 1) * ENTRIES + ColAt(i) = i
  BY <1>4, RowOf, FsConstants DEF RowAt, ColAt
<1>6. \A k \in 1 .. w : k \in 1 .. n
  BY <1>4
<1> QED BY <1>1, <1>4, <1>5, <1>6 DEF Slots

\* A directory of the same pages is the same.
LEMMA SameDir ==
    ASSUME NEW f, NEW g, NEW P, NEW Q, NEW r, Proper(f, r), Stays(f, g, r),
           \A p \in Pages(f, r) : Q[p] = P[p]
    PROVE  LoadDir(g, Q, r) = LoadDir(f, P, r)
<1>1. PICK c : c = Chain(f, r)
  OBVIOUS
<1>2. Chain(g, r) = c /\ Slots(g, r) = Slots(f, r)
  BY <1>1, Zenon DEF Stays, Slots, Rows
<1>3. ASSUME NEW i \in Slots(f, r) PROVE At(c, Q, i) = At(c, P, i)
  <2>1. PICK k : k = RowAt(i)
    OBVIOUS
  <2>2. k \in 1 .. Len(c)
    BY <1>1, <2>1, RowsAre
  <2>3. Q[c[k]] = P[c[k]]
    BY <1>1, <2>2 DEF Pages
  <2>4. ReadPage(Q, c[k]) = ReadPage(P, c[k])
    BY <2>3, Zenon DEF ReadPage
  <2> QED BY <2>1, <2>4, Zenon DEF At
<1>4. [i \in Slots(f, r) |-> At(c, Q, i)] = [i \in Slots(f, r) |-> At(c, P, i)]
  BY <1>3, Zenon
<1>5. LoadDir(f, P, r) = [i \in Slots(f, r) |-> At(c, P, i)]
  BY <1>1, DirIs, Zenon
<1>6. LoadDir(g, Q, r) = [i \in Slots(f, r) |-> At(c, Q, i)]
  BY <1>2, DirIs, Zenon
<1> QED BY <1>4, <1>5, <1>6, Zenon

\* Entries as they are in a page that was never written or that can not be read.
LEMMA BlankAt ==
    ASSUME NEW P, NEW p, P[p] = Blank \/ ~Reachable(p), NEW j \in 1 .. ENTRIES
    PROVE  ReadPage(P, p).ents[j] \in {NoEnt, ZeroEnt}
<1>1. CASE Reachable(p)
  <2>1. ReadPage(P, p) = Blank
    BY <1>1, Zenon DEF ReadPage
  <2> QED BY <2>1 DEF Blank
<1>2. CASE ~Reachable(p)
  <2>1. PICK c : ReadPage(P, p) = DataPage(c)
    BY <1>2, Zenon DEF ReadPage
  <2> QED BY <2>1 DEF DataPage
<1> QED BY <1>1, <1>2

\* A directory of one page that is blank.
LEMMA BlankDir ==
    ASSUME NEW f, NEW P, NEW r, Proper(f, r), Chain(f, r) = <<r>>, P[r] = Blank \/ ~Reachable(r)
    PROVE  \A i \in DOMAIN LoadDir(f, P, r) : LoadDir(f, P, r)[i] \in {NoEnt, ZeroEnt}
<1>1. PICK c : c = Chain(f, r)
  OBVIOUS
<1>2. LoadDir(f, P, r) = [i \in Slots(f, r) |-> At(c, P, i)]
  BY <1>1, DirIs, Zenon
<1>3. ASSUME NEW i \in Slots(f, r) PROVE At(c, P, i) \in {NoEnt, ZeroEnt}
  <2>1. PICK k : k = RowAt(i)
    OBVIOUS
  <2>2. PICK j : j = ColAt(i)
    OBVIOUS
  <2>3. k \in 1 .. Len(c) /\ j \in 1 .. ENTRIES
    BY <1>1, <2>1, <2>2, RowsAre
  <2>4. Len(c) = 1 /\ c[1] = r
    BY <1>1
  <2>5. c[k] = r
    BY <2>3, <2>4
  <2>6. ReadPage(P, c[k]).ents[j] \in {NoEnt, ZeroEnt}
    BY <2>3, <2>5, BlankAt
  <2> QED BY <2>1, <2>2, <2>6, Zenon DEF At
<1> QED BY <1>2, <1>3

\* A directory whose chain became its first page and a new one: its entries
\* are entries that it had, at their places, or unused.
LEMMA GrownDir ==
    ASSUME NEW f, NEW g, NEW P, NEW Q, NEW r, NEW add, Proper(f, r), Proper(g, r),
           Chain(g, r) = <<r, add>>, Q[r] = P[r], Q[add] = Blank \/ ~Reachable(add)
    PROVE  \A i \in DOMAIN LoadDir(g, Q, r) :
               \/ i \in DOMAIN LoadDir(f, P, r) /\ LoadDir(g, Q, r)[i] = LoadDir(f, P, r)[i]
               \/ LoadDir(g, Q, r)[i] \in {NoEnt, ZeroEnt}
<1>1. PICK c : c = Chain(f, r)
  OBVIOUS
<1>2. PICK d : d = Chain(g, r)
  OBVIOUS
<1>3. LoadDir(f, P, r) = [i \in Slots(f, r) |-> At(c, P, i)]
  BY <1>1, DirIs, Zenon
<1>4. LoadDir(g, Q, r) = [i \in Slots(g, r) |-> At(d, Q, i)]
  BY <1>2, DirIs, Zenon
<1>5. ASSUME NEW i \in Slots(g, r)
      PROVE  \/ i \in Slots(f, r) /\ At(d, Q, i) = At(c, P, i)
             \/ At(d, Q, i) \in {NoEnt, ZeroEnt}
  <2>1. PICK k : k = RowAt(i)
    OBVIOUS
  <2>2. PICK j : j = ColAt(i)
    OBVIOUS
  <2>3. k \in 1 .. Len(d) /\ j \in 1 .. ENTRIES /\ (k - 1) * ENTRIES + j = i
    <3>1. /\ RowAt(i) \in 1 .. Len(Chain(g, r)) /\ ColAt(i) \in 1 .. ENTRIES
          /\ (RowAt(i) - 1) * ENTRIES + ColAt(i) = i
      BY ONLY <1>5, Proper(g, r), RowsAre
    <3> QED BY <1>2, <2>1, <2>2, <3>1
  <2>4. Len(d) = 2 /\ d[1] = r /\ d[2] = add
    BY <1>2
  <2>5. CASE k = 1
    <3>1. c[1] = r /\ d[1] = r
      BY <1>1, <2>4 DEF Proper
    <3>2. ReadPage(Q, d[k]) = ReadPage(P, c[k])
      BY <2>5, <3>1, Zenon DEF ReadPage
    <3>3. At(d, Q, i) = At(c, P, i)
      BY <2>1, <3>2, Zenon DEF At
    <3>4. i \in Slots(f, r)
      <4>1. PICK w \in Nat : w = Rows(f, r) /\ w >= 1
        BY RowsAre
      <4>2. i = j
        BY <2>3, <2>5, FsConstants
      <4>3. ENTRIES <= w * ENTRIES /\ w * ENTRIES \in Nat
        BY <4>1, FsConstants
      <4> QED BY <2>3, <4>1, <4>2, <4>3, FsConstants DEF Slots
    <3> QED BY <3>3, <3>4
  <2>6. CASE k # 1
    <3>1. d[k] = add
      BY <2>3, <2>4, <2>6
    <3>2. ReadPage(Q, d[k]).ents[j] \in {NoEnt, ZeroEnt}
      BY <2>3, <3>1, BlankAt
    <3> QED BY <2>1, <2>2, <3>2, Zenon DEF At
  <2> QED BY <2>5, <2>6
<1> QED BY <1>3, <1>4, <1>5

\* A directory that is saved: the entries are what was saved, but for those of a
\* page that can not be written or read.
LEMMA SavedAll ==
    ASSUME NEW f, NEW P, NEW r, NEW ents, NEW S, Proper(f, r), Table(f),
           ents = [j \in Slots(f, r) |-> ents[j]], S = SaveDir(f, P, r, ents)
    PROVE  /\ S = [p \in Page |-> S[p]]
           /\ \A p \in Page : p \notin Pages(f, r) => S[p] = P[p]
           /\ DOMAIN LoadDir(f, S, r) = Slots(f, r)
           /\ \A i \in Slots(f, r) :
                 \/ LoadDir(f, S, r)[i] = ents[i]
                 \/ LoadDir(f, S, r)[i] = ZeroEnt /\ LoadDir(f, P, r)[i] = ZeroEnt
<1>1. PICK c : c = Chain(f, r)
  OBVIOUS
<1>2. PICK w \in Nat : w = Rows(f, r) /\ w <= Len(c) /\ Len(c) \in Nat
  BY <1>1, RowsAre
<1>3. Len(ents) \div ENTRIES = w
  <2>1. PICK m \in Nat : m = w * ENTRIES
    BY <1>2, FsConstants
  <2>2. PICK T : ents \in [1 .. m -> T]
    <3>1. ents = [j \in 1 .. m |-> ents[j]]
      BY <1>2, <2>1, Zenon DEF Slots
    <3>2. ents \in [1 .. m -> {ents[j] : j \in 1 .. m}]
      BY ONLY <3>1
    <3> QED BY <3>2
  <2>3. Len(ents) = m
    BY ONLY <2>2, m \in Nat, SeqByFun
  <2> QED BY <1>2, <2>1, <2>3, RowsIn, FsConstants
<1> DEFINE Where(p) == {k \in 1 .. w : c[k] = p}
           Out(p) == IF Where(p) = {} \/ ~Reachable(p) THEN P[p]
                     ELSE [Blank EXCEPT !.ents =
                              [j \in 1 .. ENTRIES |-> ents[(FirstOf(Where(p)) - 1) * ENTRIES + j]]]
<1>4. S = [p \in Page |-> Out(p)]
  <2>1. SaveDir(f, P, r, ents) = [p \in Page |-> Out(p)]
    BY <1>1, <1>3, Zenon DEF SaveDir
  <2> QED BY <2>1
<1>5. \A p \in Page : S[p] = Out(p)
  <2> HIDE DEF Out
  <2> QED BY <1>4
<1>6. ASSUME NEW p \in Page, p \notin Pages(f, r) PROVE S[p] = P[p]
  <2>1. Where(p) = {}
    BY <1>1, <1>2, <1>6 DEF Pages
  <2> QED BY <1>5, <2>1
<1>7. /\ LoadDir(f, S, r) = [i \in Slots(f, r) |-> At(c, S, i)]
      /\ LoadDir(f, P, r) = [i \in Slots(f, r) |-> At(c, P, i)]
  BY <1>1, DirIs, Zenon
<1>8. ASSUME NEW i \in Slots(f, r)
      PROVE  At(c, S, i) = ents[i] \/ (At(c, S, i) = ZeroEnt /\ At(c, P, i) = ZeroEnt)
  <2>1. PICK k : k = RowAt(i)
    OBVIOUS
  <2>2. PICK j : j = ColAt(i)
    OBVIOUS
  <2>3. k \in 1 .. w /\ k \in 1 .. Len(c) /\ j \in 1 .. ENTRIES /\ (k - 1) * ENTRIES + j = i
    <3>1. /\ RowAt(i) \in 1 .. Rows(f, r) /\ RowAt(i) \in 1 .. Len(Chain(f, r))
          /\ ColAt(i) \in 1 .. ENTRIES /\ (RowAt(i) - 1) * ENTRIES + ColAt(i) = i
      BY ONLY <1>8, Proper(f, r), RowsAre
    <3> QED BY <1>1, <1>2, <2>1, <2>2, <3>1
  <2>4. PICK p : p = c[k]
    OBVIOUS
  <2>5. p \in Page /\ p \in Pages(f, r)
    <3>1. p \in Pages(f, r)
      BY <1>1, <2>3, <2>4 DEF Pages
    <3> QED BY <3>1, PagesOf
  <2>6. At(c, S, i) = ReadPage(S, p).ents[j] /\ At(c, P, i) = ReadPage(P, p).ents[j]
    BY <2>1, <2>2, <2>4, Zenon DEF At
  <2>7. CASE ~Reachable(p)
    <3>1. PICK cells : ReadPage(S, p) = DataPage(cells) /\ ReadPage(P, p) = DataPage(cells)
      BY <2>7, Zenon DEF ReadPage
    <3>2. DataPage(cells).ents[j] = ZeroEnt
      BY <2>3 DEF DataPage
    <3> QED BY <2>6, <3>1, <3>2
  <2>8. CASE Reachable(p)
    <3>1. ReadPage(S, p) = Out(p)
      BY <1>5, <2>5, <2>8, Zenon DEF ReadPage
    <3>2. k \in Where(p) /\ \A q \in Where(p) : q = k
      <4>1. \A x, y \in 1 .. Len(c) : c[x] = c[y] => x = y
        BY <1>1 DEF Proper, Goes
      <4>2. \A q \in 1 .. w : q \in 1 .. Len(c)
        BY <1>2
      <4> QED BY <2>3, <2>4, <4>1, <4>2
    <3>3. FirstOf(Where(p)) = k
      <4>1. Where(p) \subseteq Nat /\ Where(p) # {}
        BY <3>2
      <4> HIDE DEF Where
      <4> QED BY <3>2, <4>1, FirstIn
    <3>4. Out(p) = [Blank EXCEPT !.ents =
                       [x \in 1 .. ENTRIES |-> ents[(k - 1) * ENTRIES + x]]]
      <4>1. Where(p) # {}
        BY <3>2
      <4> HIDE DEF Where
      <4> QED BY <2>8, <3>3, <4>1
    <3>5. Out(p).ents = [x \in 1 .. ENTRIES |-> ents[(k - 1) * ENTRIES + x]]
      <4> HIDE DEF Out
      <4> QED BY <3>4 DEF Blank
    <3>6. Out(p).ents[j] = ents[i]
      <4> HIDE DEF Out
      <4> QED BY <2>3, <3>5
    <3> HIDE DEF Out
    <3> QED BY <2>6, <3>1, <3>6
  <2> QED BY <2>7, <2>8
<1>9. S = [p \in Page |-> S[p]]
  <2> HIDE DEF Out
  <2> QED BY <1>4
<1> QED BY <1>6, <1>7, <1>8, <1>9

\* Saving a directory writes its own pages only, and only entries it was given or zeros.
LEMMA SavedDir ==
    ASSUME NEW f, NEW P, NEW r, NEW ents, NEW S, Proper(f, r), Table(f),
           ents = [j \in Slots(f, r) |-> ents[j]], S = SaveDir(f, P, r, ents)
    PROVE  /\ S = [p \in Page |-> S[p]]
           /\ \A p \in Page : p \notin Pages(f, r) => S[p] = P[p]
           /\ \A i \in DOMAIN LoadDir(f, S, r) :
                 i \in Slots(f, r) /\ LoadDir(f, S, r)[i] \in {ents[i], ZeroEnt}
  BY SavedAll

-----------------------------------------------------------------------------
(* The book: for each chain the directory and the place of its entry, its    *)
(* name, and whether it is a directory.                                      *)

EntRec(e) == e \in [name : {e.name}, size : Nat, fat : Nat, dir : BOOLEAN]
Used(e) == e.name \notin {"ff", "00"}
Row(r, i, e) == [root |-> r, index |-> i, name |-> e.name, dir |-> e.dir]

\* The entry e at the place i of the directory r is as the book says.
Noted(b, r, i, e) ==
    /\ EntRec(e)
    /\ Used(e) => e.fat \in DOMAIN b \ {ROOT} /\ b[e.fat] = Row(r, i, e) /\ (e.dir => e.size = 0)

DirOK(b, f, P, r) == \A i \in DOMAIN LoadDir(f, P, r) : Noted(b, r, i, LoadDir(f, P, r)[i])

\* The directory r is that of a path.
InDir(b, path, r) ==
    /\ r \in DOMAIN b /\ b[r].dir
    /\ (r = ROOT) = (Len(path) = 1)
    /\ r # ROOT => b[r].name = path[1]

\* The parts of an open file.
FdRec(x) ==
    /\ x = [open |-> TRUE, path |-> x.path, ent |-> x.ent, index |-> x.index, root |-> x.root,
            cur |-> x.cur, off |-> x.off, area |-> x.area, cache |-> x.cache, opt |-> x.opt]
    /\ x.path \in Files /\ x.cur \in Nat /\ x.off \in Nat /\ x.area \in Int

\* An open file whose window moves, and one whose window is loaded.
FdMoves(b, x) ==
    /\ FdRec(x) /\ x.ent.name = Name(x.path)
    /\ Noted(b, x.root, x.index, x.ent) /\ InDir(b, x.path, x.root)
FdOK(b, x) == FdMoves(b, x) /\ x.off + x.area >= 0

\* The root is in the book, and directories are entries of the root.
BookOK(b) ==
    /\ ROOT \in DOMAIN b /\ b[ROOT].dir
    /\ \A h \in DOMAIN b \ {ROOT} : b[h].dir => b[h].root = ROOT

\* The chains, the directories and the open files X are as the book says.
Booked(b, f, P, X) ==
    /\ BookOK(b) /\ Apart(f, DOMAIN b)
    /\ P = [p \in Page |-> P[p]] /\ X = [d \in Fd |-> X[d]]
    /\ \A r \in DOMAIN b : b[r].dir => DirOK(b, f, P, r)
    /\ \A d \in Fd : X[d].open => FdOK(b, X[d])

\* What is known of paths.
LEMMA Paths ==
    ASSUME NEW f \in Files
    PROVE  /\ f \in Seq(STRING) /\ Len(f) \in 1 .. 2
           /\ Name(f) \notin {"ff", "00"} /\ f[1] \notin {"ff", "00"}
<1>1. f \in Seq(STRING) /\ Len(f) \in 1 .. 2 /\ \A k \in DOMAIN f : f[k] \notin {"ff", "00"}
  BY MiniFsAssumption, Zenon
<1>2. DOMAIN f = 1 .. Len(f) /\ 1 \in DOMAIN f /\ Len(f) \in DOMAIN f
  BY <1>1
<1> QED BY <1>1, <1>2 DEF Name

\* A path is its first part, its last part and its length.
LEMMA SamePath ==
    ASSUME NEW f \in Files, NEW g \in Files, Name(f) = Name(g), f[1] = g[1], Len(f) = Len(g)
    PROVE  f = g
<1>1. f \in Seq(STRING) /\ g \in Seq(STRING) /\ Len(f) \in 1 .. 2
  BY Paths
<1>2. f[Len(f)] = g[Len(f)]
  BY DEF Name
<1>3. \A i \in 1 .. Len(f) : f[i] = g[i]
  BY <1>1, <1>2
<1> QED BY <1>1, <1>3, SeqEqual

\* Entries that are not used.
EntParts(e, s, n, k, w) == e = [name |-> s, size |-> n, fat |-> k, dir |-> w]
\* An entry that is put together from its parts.
LEMMA EntRecOf ==
    ASSUME NEW s, NEW n \in Nat, NEW k \in Nat, NEW w \in BOOLEAN, NEW e,
           EntParts(e, s, n, k, w)
    PROVE  EntRec(e) /\ e.name = s /\ e.size = n /\ e.fat = k /\ e.dir = w
  BY DEF EntRec, EntParts

\* An entry that is not used agrees with every book.
LEMMA UnusedNoted ==
    ASSUME NEW b, NEW r, NEW i, NEW e, e \in {NoEnt, ZeroEnt}
    PROVE  Noted(b, r, i, e) /\ ~Used(e)
<1>1. PICK z \in BOOLEAN : z = FALSE
  OBVIOUS
<1>2. NoEnt = [name |-> "ff", size |-> 0, fat |-> 0, dir |-> z]
  BY <1>1, Zenon DEF NoEnt
<1>3. ZeroEnt = [NoEnt EXCEPT !.name = "00"]
  BY Zenon DEF ZeroEnt
<1>4. ZeroEnt = [name |-> "00", size |-> 0, fat |-> 0, dir |-> z]
  BY <1>2, <1>3
<1>6. EntRec(NoEnt) /\ EntRec(ZeroEnt)
  <2>1. z \in BOOLEAN /\ 0 \in Nat
    BY <1>1
  <2>2. EntRec(NoEnt)
    BY ONLY <1>2, <2>1, EntRecOf DEF EntParts
  <2>3. EntRec(ZeroEnt)
    BY ONLY <1>4, <2>1, EntRecOf DEF EntParts
  <2> QED BY <2>2, <2>3
<1>7. NoEnt.name = "ff" /\ ZeroEnt.name = "00"
  BY <1>2, <1>4
<1>8. EntRec(e) /\ ~Used(e)
  BY <1>6, <1>7, Zenon DEF Used
<1> QED BY <1>8 DEF Noted

\* An open file has a chain in the book.
LEMMA OfFd ==
    ASSUME NEW b, NEW x, FdMoves(b, x)
    PROVE  /\ x.ent.fat \in DOMAIN b \ {ROOT} /\ b[x.ent.fat] = Row(x.root, x.index, x.ent)
           /\ (x.ent.dir => x.ent.size = 0) /\ EntRec(x.ent)
           /\ x.ent.size \in Nat /\ x.ent.dir \in BOOLEAN /\ b[x.ent.fat].dir = x.ent.dir
<1>1. x.path \in Files /\ x.ent.name = Name(x.path) /\ Noted(b, x.root, x.index, x.ent)
  BY DEF FdMoves, FdRec
<1>2. Used(x.ent)
  BY <1>1, Paths DEF Used
<1>3. b[x.ent.fat] = Row(x.root, x.index, x.ent)
  BY <1>1, <1>2 DEF Noted
<1>4. b[x.ent.fat].dir = x.ent.dir
  BY <1>3 DEF Row
<1> QED BY <1>1, <1>2, <1>3, <1>4 DEF Noted, EntRec

\* The parts of an open file, one by one.
FdParts(x, path, ent, index, root, cur, off, area, cache, opt) ==
    x = [open |-> TRUE, path |-> path, ent |-> ent, index |-> index, root |-> root,
         cur |-> cur, off |-> off, area |-> area, cache |-> cache, opt |-> opt]

\* The parts of an open file.
LEMMA PartsOfFd ==
    ASSUME NEW x, FdRec(x)
    PROVE  /\ FdParts(x, x.path, x.ent, x.index, x.root, x.cur, x.off, x.area, x.cache, x.opt)
           /\ x.path \in Files /\ x.cur \in Nat /\ x.off \in Nat /\ x.area \in Int
  BY Zenon DEF FdRec, FdParts

\* An open file that is put together from its parts.
LEMMA FdOfParts ==
    ASSUME NEW x, NEW path \in Files, NEW ent, NEW index, NEW root, NEW cur \in Nat,
           NEW off \in Nat, NEW area \in Int, NEW cache, NEW opt,
           FdParts(x, path, ent, index, root, cur, off, area, cache, opt)
    PROVE  /\ FdRec(x) /\ x.open /\ x.path = path /\ x.ent = ent /\ x.index = index
           /\ x.root = root /\ x.cur = cur /\ x.off = off /\ x.area = area
           /\ x.cache = cache /\ x.opt = opt
<1>1. /\ x.open = TRUE /\ x.open /\ x.path = path /\ x.ent = ent /\ x.index = index
      /\ x.root = root /\ x.cur = cur /\ x.off = off /\ x.area = area
      /\ x.cache = cache /\ x.opt = opt
  BY DEF FdParts
<1>2. x = [open |-> TRUE, path |-> x.path, ent |-> x.ent, index |-> x.index, root |-> x.root,
           cur |-> x.cur, off |-> x.off, area |-> x.area, cache |-> x.cache, opt |-> x.opt]
  BY <1>1, Zenon DEF FdParts
<1> QED BY <1>1, <1>2 DEF FdRec

\* An open file with parts that are as they were.
LEMMA FdLike ==
    ASSUME NEW b, NEW x, NEW y, FdMoves(b, x), FdRec(y), y.path = x.path, y.root = x.root,
           y.index = x.index, y.ent = x.ent
    PROVE  FdMoves(b, y)
  BY Zenon DEF FdMoves

\* Loading a window.
LEMMA LoadFd ==
    ASSUME NEW b, NEW f, NEW P, NEW x, Apart(f, DOMAIN b), FdMoves(b, x)
    PROVE  /\ FdOK(b, Load(f, P, x)) /\ Load(f, P, x).ent = x.ent
           /\ Load(f, P, x).opt = x.opt /\ Load(f, P, x).path = x.path
<1>1. PICK c : c = Chain(f, x.ent.fat)
  OBVIOUS
<1>2. Len(c) \in Nat
  BY <1>1, OfFd, GoesParts DEF Apart, Proper
<1>3. FdRec(x)
  BY DEF FdMoves
<1>4. PICK ends \in Nat : ends = (x.off + CACHE + PAGE - 1) \div PAGE
  <2>1. x.off + CACHE + PAGE - 1 \in Nat
    BY <1>3, PartsOfFd, FsConstants
  <2> QED BY <2>1, FsConstants
<1>5. PICK n \in Nat : n = IF Len(c) < ends THEN Len(c) ELSE ends
  BY <1>2, <1>4
<1>6. PICK cache : Load(f, P, x) = [x EXCEPT !.area = n * PAGE - x.off, !.cache = cache]
  BY <1>1, <1>4, <1>5, Zenon DEF Load
<1>7. PICK y : y = Load(f, P, x)
  OBVIOUS
<1>8. PICK m \in Nat : m = n * PAGE
  BY FsConstants
<1>9. y = [x EXCEPT !.area = m - x.off, !.cache = cache]
  BY <1>6, <1>7, <1>8, Zenon
<1>10. /\ FdRec(y) /\ y.path = x.path /\ y.root = x.root /\ y.index = x.index
       /\ y.ent = x.ent /\ y.off = x.off /\ y.area = m - x.off /\ y.opt = x.opt
  <2>1. PICK path, ent, index, root, cur, off, area, opt, old :
            /\ FdParts(x, path, ent, index, root, cur, off, area, old, opt)
            /\ path \in Files /\ cur \in Nat /\ off \in Nat /\ area \in Int
    BY <1>3, PartsOfFd, Zenon
  <2>2. x.path = path /\ x.root = root /\ x.index = index /\ x.ent = ent /\ x.off = off /\ x.opt = opt
    BY <2>1 DEF FdParts
  <2>3. FdParts(y, path, ent, index, root, cur, off, m - off, cache, opt)
    BY <1>9, <2>1, <2>2 DEF FdParts
  <2>4. m - off \in Int
    BY <2>1
  <2>5. /\ FdRec(y) /\ y.path = path /\ y.root = root /\ y.index = index
        /\ y.ent = ent /\ y.off = off /\ y.area = m - off /\ y.opt = opt
    <3>1. PICK q \in Int : q = m - off
      BY <2>4
    <3>2. FdParts(y, path, ent, index, root, cur, off, q, cache, opt)
      BY <2>3, <3>1, Zenon
    <3>3. /\ FdRec(y) /\ y.path = path /\ y.root = root /\ y.index = index
          /\ y.ent = ent /\ y.off = off /\ y.area = q /\ y.opt = opt
      BY ONLY <2>1, <3>1, <3>2, FdOfParts
    <3> QED BY <3>1, <3>3, Zenon
  <2> QED BY <2>2, <2>5
<1>11. y.off + y.area >= 0
  BY <1>3, <1>10, PartsOfFd
<1>12. FdMoves(b, y)
  BY <1>10, FdLike, Zenon
<1> QED BY <1>7, <1>10, <1>11, <1>12 DEF FdOK

\* An open file is set, or closed.
LEMMA SetFd ==
    ASSUME NEW b, NEW f, NEW P, NEW X, Booked(b, f, P, X), NEW d \in Fd, NEW x,
           FdOK(b, x) \/ x = Closed
    PROVE  Booked(b, f, P, [X EXCEPT ![d] = x])
<1>1. PICK Y : Y = [X EXCEPT ![d] = x]
  OBVIOUS
<1>2. X = [e \in Fd |-> X[e]]
  BY DEF Booked
<1>3. Y = [e \in Fd |-> Y[e]] /\ Y[d] = x /\ \A e \in Fd \ {d} : Y[e] = X[e]
  BY <1>1, <1>2
<1>4. ~Closed.open
  BY DEF Closed
<1>5. ASSUME NEW e \in Fd, Y[e].open PROVE FdOK(b, Y[e])
  BY <1>3, <1>4, <1>5 DEF Booked
<1> QED BY <1>1, <1>3, <1>5, Zenon DEF Booked

\* A file is written: the directories stay.
LEMMA PagesKeep ==
    ASSUME NEW b, NEW f, NEW P, NEW X, NEW g, NEW Q, NEW h, Booked(b, f, P, X),
           h \in DOMAIN b, ~b[h].dir, Apart(g, DOMAIN b),
           \A r \in DOMAIN b \ {h} : Stays(f, g, r), Q = [p \in Page |-> Q[p]],
           \A p \in Page : p \notin Pages(g, h) => Q[p] = P[p]
    PROVE  Booked(b, g, Q, X)
<1>1. ASSUME NEW r \in DOMAIN b, b[r].dir PROVE DirOK(b, g, Q, r)
  <2>1. r \in DOMAIN b \ {h} /\ Proper(f, r) /\ Stays(f, g, r) /\ Table(g) /\ Proper(g, r)
    BY <1>1 DEF Booked, Apart
  <2>2. Pages(g, r) \cap Pages(g, h) = {}
    BY <2>1 DEF Apart
  <2>3. \A p \in Pages(f, r) : Q[p] = P[p]
    BY <2>1, <2>2, PagesOf DEF Stays
  <2>4. LoadDir(g, Q, r) = LoadDir(f, P, r)
    BY <2>1, <2>3, SameDir
  <2>5. DirOK(b, f, P, r)
    BY <1>1 DEF Booked
  <2> QED BY <2>4, <2>5, Zenon DEF DirOK
<1> QED BY <1>1, Zenon DEF Booked

\* A directory is saved.
LEMMA SaveKeeps ==
    ASSUME NEW b, NEW f, NEW P, NEW X, Booked(b, f, P, X), NEW r \in DOMAIN b, b[r].dir,
           NEW ents, ents = [j \in Slots(f, r) |-> ents[j]],
           \A j \in Slots(f, r) : Noted(b, r, j, ents[j])
    PROVE  Booked(b, f, SaveDir(f, P, r, ents), X)
<1>1. PICK S : S = SaveDir(f, P, r, ents)
  OBVIOUS
<1>2. Apart(f, DOMAIN b) /\ Proper(f, r) /\ Table(f)
  BY DEF Booked, Apart
<1>3. /\ S = [p \in Page |-> S[p]]
      /\ \A p \in Page : p \notin Pages(f, r) => S[p] = P[p]
      /\ \A i \in DOMAIN LoadDir(f, S, r) :
            i \in Slots(f, r) /\ LoadDir(f, S, r)[i] \in {ents[i], ZeroEnt}
  BY <1>1, <1>2, SavedDir
<1>4. DirOK(b, f, S, r)
  <2>1. ASSUME NEW i \in DOMAIN LoadDir(f, S, r) PROVE Noted(b, r, i, LoadDir(f, S, r)[i])
    <3>1. PICK e : e = LoadDir(f, S, r)[i]
      OBVIOUS
    <3>2. i \in Slots(f, r) /\ (e = ents[i] \/ e = ZeroEnt)
      BY <1>3, <3>1
    <3>3. Noted(b, r, i, ents[i]) /\ Noted(b, r, i, ZeroEnt)
      BY <3>2, UnusedNoted
    <3> QED BY <3>1, <3>2, <3>3
  <2> QED BY <2>1 DEF DirOK
<1>5. ASSUME NEW s \in DOMAIN b, b[s].dir PROVE DirOK(b, f, S, s)
  <2>1. CASE s = r
    BY <1>4, <2>1
  <2>2. CASE s # r
    <3>1. Proper(f, s) /\ Pages(f, s) \cap Pages(f, r) = {}
      BY <1>2, <2>2 DEF Apart
    <3>2. \A p \in Pages(f, s) : S[p] = P[p]
      BY <1>2, <1>3, <3>1, PagesOf
    <3>3. Stays(f, f, s)
      BY DEF Stays
    <3>4. LoadDir(f, S, s) = LoadDir(f, P, s)
      BY <3>1, <3>2, <3>3, SameDir
    <3>5. DirOK(b, f, P, s)
      BY <1>5 DEF Booked
    <3> QED BY <3>4, <3>5, Zenon DEF DirOK
  <2> QED BY <2>1, <2>2
<1> QED BY <1>1, <1>3, <1>5, Zenon DEF Booked

-----------------------------------------------------------------------------
(* Chains that grow, cells that are written and read one after the other.    *)

Grows(f, first, n, w) ==
    w = [k \in 0 .. n |-> IF k = 0 THEN f ELSE Linked(w[k - 1], first)]

\* A chain can be made to grow by any number of pages.
LEMMA GrowsOn ==
    ASSUME NEW f, NEW first, NEW n \in Nat
    PROVE  \E w : Grows(f, first, n, w)
<1> DEFINE Step(w, k) == IF k = 0 THEN f ELSE Linked(w[k - 1], first)
           S == {i \in Nat : \E w : w = [k \in 0 .. i |-> Step(w, k)]}
<1>1. 0 \in S
  <2> DEFINE w == [k \in 0 .. 0 |-> f]
  <2>1. w = [k \in 0 .. 0 |-> Step(w, k)]
    OBVIOUS
  <2> QED BY <2>1
<1>2. ASSUME NEW i \in Nat, i \in S PROVE i + 1 \in S
  <2>1. PICK w : w = [k \in 0 .. i |-> Step(w, k)]
    BY <1>2
  <2> DEFINE x == [k \in 0 .. i + 1 |-> IF k = i + 1 THEN Step(w, i + 1) ELSE w[k]]
  <2>2. \A k \in 0 .. i : w[k] = Step(w, k)
    <3> HIDE DEF Step
    <3> QED BY <2>1, Zenon
  <2>3. \A k \in 0 .. i + 1 : x[k] = Step(x, k)
    <3> TAKE k \in 0 .. i + 1
    <3>1. k # 0 => k - 1 \in 0 .. i + 1 /\ k - 1 # i + 1
      OBVIOUS
    <3>2. k # 0 => x[k - 1] = w[k - 1]
      BY <3>1
    <3>3. x[k] = IF k = i + 1 THEN Step(w, i + 1) ELSE w[k]
      OBVIOUS
    <3> HIDE DEF x
    <3>4. Step(x, k) = Step(w, k)
      BY <3>2
    <3>5. k # i + 1 => k \in 0 .. i
      OBVIOUS
    <3> HIDE DEF Step
    <3> QED BY <2>2, <3>3, <3>4, <3>5
  <2>4. x = [k \in 0 .. i + 1 |-> Step(x, k)]
    <3> DEFINE y == [k \in 0 .. i + 1 |-> Step(x, k)]
    <3>1. \A k \in 0 .. i + 1 : x[k] = y[k]
      <4> HIDE DEF x, Step
      <4> QED BY <2>3
    <3>2. x = [k \in 0 .. i + 1 |-> x[k]] /\ y = [k \in 0 .. i + 1 |-> y[k]]
      OBVIOUS
    <3> HIDE DEF x, y
    <3>3. x = y
      BY <3>1, <3>2
    <3> QED BY <3>3 DEF y
  <2> HIDE DEF x, Step
  <2> QED BY <2>4
<1>3. n \in S
  <2> HIDE DEF S
  <2>1. \A i \in 0 .. n : i \in S
    BY <1>1, <1>2, Upwards
  <2> QED BY <2>1
<1> HIDE DEF Step
<1>4. PICK w : w = [k \in 0 .. n |-> Step(w, k)]
  BY <1>3
<1> QED BY <1>4, Zenon DEF Step, Grows

Writes(s, n, w) ==
    w = [k \in 0 .. n |-> IF k = 0 THEN s ELSE WriteCell(w[k - 1])]

\* Any number of cells can be written.
LEMMA WritesOn ==
    ASSUME NEW s, NEW n \in Nat
    PROVE  \E w : Writes(s, n, w)
<1> DEFINE Step(w, k) == IF k = 0 THEN s ELSE WriteCell(w[k - 1])
           S == {i \in Nat : \E w : w = [k \in 0 .. i |-> Step(w, k)]}
<1>1. 0 \in S
  <2> DEFINE w == [k \in 0 .. 0 |-> s]
  <2>1. w = [k \in 0 .. 0 |-> Step(w, k)]
    OBVIOUS
  <2> QED BY <2>1
<1>2. ASSUME NEW i \in Nat, i \in S PROVE i + 1 \in S
  <2>1. PICK w : w = [k \in 0 .. i |-> Step(w, k)]
    BY <1>2
  <2> DEFINE x == [k \in 0 .. i + 1 |-> IF k = i + 1 THEN Step(w, i + 1) ELSE w[k]]
  <2>2. \A k \in 0 .. i : w[k] = Step(w, k)
    <3> HIDE DEF Step
    <3> QED BY <2>1, Zenon
  <2>3. \A k \in 0 .. i + 1 : x[k] = Step(x, k)
    <3> TAKE k \in 0 .. i + 1
    <3>1. k # 0 => k - 1 \in 0 .. i + 1 /\ k - 1 # i + 1
      OBVIOUS
    <3>2. k # 0 => x[k - 1] = w[k - 1]
      BY <3>1
    <3>3. x[k] = IF k = i + 1 THEN Step(w, i + 1) ELSE w[k]
      OBVIOUS
    <3> HIDE DEF x
    <3>4. Step(x, k) = Step(w, k)
      BY <3>2
    <3>5. k # i + 1 => k \in 0 .. i
      OBVIOUS
    <3> HIDE DEF Step
    <3> QED BY <2>2, <3>3, <3>4, <3>5
  <2>4. x = [k \in 0 .. i + 1 |-> Step(x, k)]
    <3> DEFINE y == [k \in 0 .. i + 1 |-> Step(x, k)]
    <3>1. \A k \in 0 .. i + 1 : x[k] = y[k]
      <4> HIDE DEF x, Step
      <4> QED BY <2>3
    <3>2. x = [k \in 0 .. i + 1 |-> x[k]] /\ y = [k \in 0 .. i + 1 |-> y[k]]
      OBVIOUS
    <3> HIDE DEF x, y
    <3>3. x = y
      BY <3>1, <3>2
    <3> QED BY <3>3 DEF y
  <2> HIDE DEF x, Step
  <2> QED BY <2>4
<1>3. n \in S
  <2> HIDE DEF S
  <2>1. \A i \in 0 .. n : i \in S
    BY <1>1, <1>2, Upwards
  <2> QED BY <2>1
<1> HIDE DEF Step
<1>4. PICK w : w = [k \in 0 .. n |-> Step(w, k)]
  BY <1>3
<1> QED BY <1>4, Zenon DEF Step, Writes

Reads(x0, n, w) ==
    w = [k \in 0 .. n |-> IF k = 0 THEN x0 ELSE ReadCell(w[k - 1])]

\* Any number of cells can be read.
LEMMA ReadsOn ==
    ASSUME NEW x0, NEW n \in Nat
    PROVE  \E w : Reads(x0, n, w)
<1> DEFINE Step(w, k) == IF k = 0 THEN x0 ELSE ReadCell(w[k - 1])
           S == {i \in Nat : \E w : w = [k \in 0 .. i |-> Step(w, k)]}
<1>1. 0 \in S
  <2> DEFINE w == [k \in 0 .. 0 |-> x0]
  <2>1. w = [k \in 0 .. 0 |-> Step(w, k)]
    OBVIOUS
  <2> QED BY <2>1
<1>2. ASSUME NEW i \in Nat, i \in S PROVE i + 1 \in S
  <2>1. PICK w : w = [k \in 0 .. i |-> Step(w, k)]
    BY <1>2
  <2> DEFINE x == [k \in 0 .. i + 1 |-> IF k = i + 1 THEN Step(w, i + 1) ELSE w[k]]
  <2>2. \A k \in 0 .. i : w[k] = Step(w, k)
    <3> HIDE DEF Step
    <3> QED BY <2>1, Zenon
  <2>3. \A k \in 0 .. i + 1 : x[k] = Step(x, k)
    <3> TAKE k \in 0 .. i + 1
    <3>1. k # 0 => k - 1 \in 0 .. i + 1 /\ k - 1 # i + 1
      OBVIOUS
    <3>2. k # 0 => x[k - 1] = w[k - 1]
      BY <3>1
    <3>3. x[k] = IF k = i + 1 THEN Step(w, i + 1) ELSE w[k]
      OBVIOUS
    <3> HIDE DEF x
    <3>4. Step(x, k) = Step(w, k)
      BY <3>2
    <3>5. k # i + 1 => k \in 0 .. i
      OBVIOUS
    <3> HIDE DEF Step
    <3> QED BY <2>2, <3>3, <3>4, <3>5
  <2>4. x = [k \in 0 .. i + 1 |-> Step(x, k)]
    <3> DEFINE y == [k \in 0 .. i + 1 |-> Step(x, k)]
    <3>1. \A k \in 0 .. i + 1 : x[k] = y[k]
      <4> HIDE DEF x, Step
      <4> QED BY <2>3
    <3>2. x = [k \in 0 .. i + 1 |-> x[k]] /\ y = [k \in 0 .. i + 1 |-> y[k]]
      OBVIOUS
    <3> HIDE DEF x, y
    <3>3. x = y
      BY <3>1, <3>2
    <3> QED BY <3>3 DEF y
  <2> HIDE DEF x, Step
  <2> QED BY <2>4
<1>3. n \in S
  <2> HIDE DEF S
  <2>1. \A i \in 0 .. n : i \in S
    BY <1>1, <1>2, Upwards
  <2> QED BY <2>1
<1> HIDE DEF Step
<1>4. PICK w : w = [k \in 0 .. n |-> Step(w, k)]
  BY <1>3
<1> QED BY <1>4, Zenon DEF Step, Reads

\* A chain grows by any number of pages: the other chains stay.
LEMMA GrownApart ==
    ASSUME NEW f, NEW H, NEW h \in H, Apart(f, H), NEW n \in Nat
    PROVE  /\ Apart(Grown(f, h, n), H) /\ (n = 0 => Grown(f, h, n) = f)
           /\ \A r \in H \ {h} : Stays(f, Grown(f, h, n), r)
<1> DEFINE W == CHOOSE w : Grows(f, h, n, w)
<1>1. Grows(f, h, n, W)
  <2>1. \E w : Grows(f, h, n, w)
    BY GrowsOn
  <2> QED BY <2>1, Zenon
<1>2. Grown(f, h, n) = W[n]
  BY Zenon DEF Grown, Grows
<1> HIDE DEF W
<1>3. W = [k \in 0 .. n |-> IF k = 0 THEN f ELSE Linked(W[k - 1], h)]
  BY <1>1, Zenon DEF Grows
<1>4. \A k \in 0 .. n : W[k] = IF k = 0 THEN f ELSE Linked(W[k - 1], h)
  BY <1>3, Zenon
<1> DEFINE S == {k \in 0 .. n : Apart(W[k], H) /\ \A r \in H \ {h} : Stays(f, W[k], r)}
<1>5. W[0] = f
  BY <1>4
<1>6. 0 \in S
  BY <1>5 DEF Stays
<1>7. ASSUME NEW k \in Nat, k < n, k \in S PROVE k + 1 \in S
  <2>1. k + 1 \in 0 .. n /\ k + 1 # 0 /\ k + 1 - 1 = k
    BY <1>7
  <2>2. W[k + 1] = Linked(W[k], h)
    BY <1>4, <2>1
  <2>3. Apart(W[k], H) /\ \A r \in H \ {h} : Stays(f, W[k], r)
    BY <1>7
  <2>4. Apart(W[k + 1], H) /\ \A r \in H \ {h} : Stays(W[k], W[k + 1], r)
    BY <2>2, <2>3, LinkedApart, Zenon
  <2>5. \A r \in H \ {h} : Stays(f, W[k + 1], r)
    BY <2>3, <2>4, Zenon DEF Stays
  <2> QED BY <2>1, <2>4, <2>5
<1>8. n \in S
  <2> HIDE DEF S
  <2>1. \A k \in 0 .. n : k \in S
    BY <1>6, <1>7, Upwards
  <2> QED BY <2>1
<1> QED BY <1>2, <1>5, <1>8

\* What is written of an open file: only pages of its chain, and nothing of a
\* directory.
LEMMA SavedFile ==
    ASSUME NEW f, NEW P, NEW x, NEW S, S = Save(f, P, x)
    PROVE  /\ S = [p \in Page |-> S[p]]
           /\ \A p \in Page : p \notin Pages(f, x.ent.fat) \/ x.ent.dir => S[p] = P[p]
<1>1. PICK c : c = Chain(f, x.ent.fat)
  OBVIOUS
<1> DEFINE Where(p) == {k \in 1 .. Len(c) : c[k] = p /\ x.off <= (k - 1) * PAGE
                                         /\ (k - 1) * PAGE < x.off + x.area}
           Cell(pos) == IF pos - x.off < CACHE THEN x.cache[pos - x.off] ELSE NoCell
           Out(p) == IF Where(p) = {} \/ ~Reachable(p) \/ x.ent.dir THEN P[p]
                     ELSE DataPage([j \in 1 .. PAGE |-> Cell((FirstOf(Where(p)) - 1) * PAGE + j - 1)])
<1>2. S = [p \in Page |-> Out(p)]
  BY <1>1, Zenon DEF Save
<1>3. ASSUME NEW p \in Page, p \notin Pages(f, x.ent.fat) PROVE Where(p) = {}
  BY <1>1, <1>3 DEF Pages
<1>4. \A p \in Page : S[p] = Out(p)
  <2> HIDE DEF Out
  <2> QED BY <1>2
<1>5. S = [p \in Page |-> S[p]]
  <2> HIDE DEF Out
  <2> QED BY <1>2
<1>6. ASSUME NEW p \in Page, p \notin Pages(f, x.ent.fat) \/ x.ent.dir PROVE S[p] = P[p]
  <2>1. Where(p) = {} \/ x.ent.dir
    BY <1>3, <1>6
  <2> HIDE DEF Where
  <2>2. Out(p) = P[p]
    BY <2>1, Zenon
  <2> HIDE DEF Out
  <2> QED BY <1>4, <2>2
<1> QED BY <1>5, <1>6

\* The cache of an open file is written out.
FdSame(x, y) ==
    /\ y.ent = x.ent /\ y.path = x.path /\ y.index = x.index /\ y.root = x.root
    /\ y.cur = x.cur /\ y.off = x.off /\ y.opt = x.opt

\* flushfile keeps the book: what it writes belongs to the chain of the open file.
LEMMA FlushKeeps ==
    ASSUME NEW b, NEW f, NEW P, NEW X, NEW x, NEW r, Booked(b, f, P, X), FdOK(b, x),
           r = Flush(f, P, x)
    PROVE  /\ Booked(b, r.fat, r.page, X) /\ FdOK(b, r.x) /\ FdSame(x, r.x)
           /\ r.ok \/ r.page = P
<1>1. PICK missing : missing = x.ent.size - x.off - x.area
  OBVIOUS
<1>2. /\ FdMoves(b, x) /\ FdRec(x) /\ x.off \in Nat /\ x.area \in Int /\ x.off + x.area >= 0
      /\ x.ent.fat \in DOMAIN b /\ x.ent.size \in Nat /\ x.ent.dir \in BOOLEAN
      /\ b[x.ent.fat].dir = x.ent.dir /\ (x.ent.dir => x.ent.size = 0)
  BY OfFd, PartsOfFd DEF FdOK, FdMoves
<1>3. missing \in Int /\ (x.ent.dir => ~(missing > 0))
  BY <1>1, <1>2
<1>4. PICK n \in Nat : n = (IF missing > 0 THEN (missing - 1) \div PAGE + 1 ELSE 0)
  <2>1. CASE missing > 0
    <3>1. missing - 1 \in Nat
      BY <1>3, <2>1
    <3>2. (missing - 1) \div PAGE \in Nat
      BY <3>1, FsConstants
    <3> QED BY <2>1, <3>2
  <2> QED BY <2>1
<1>5. x.ent.dir => n = 0
  BY <1>3, <1>4
<1>6. PICK g : g = Grown(f, x.ent.fat, n)
  OBVIOUS
<1>7. PICK y : y = [x EXCEPT !.area = @ + n * PAGE]
  OBVIOUS
<1>8. PICK S : S = Save(g, P, y)
  OBVIOUS
<1>9. r.fat = g /\ ((r.page = P /\ r.x = x) \/ (r.page = S /\ r.x = y /\ r.ok))
  <2>1. r = IF n > Cardinality(FreeFat(f))
            THEN [fat |-> g, page |-> P, x |-> x, ok |-> FALSE, whole |-> FALSE]
            ELSE [fat |-> g, page |-> S, x |-> y, ok |-> TRUE,
                  whole |-> Holds(g, x.ent) /\ x.ent.size <= x.off + CACHE]
    BY <1>1, <1>4, <1>6, <1>7, <1>8, Zenon DEF Flush
  <2>2. CASE n > Cardinality(FreeFat(f))
    <3>1. r = [fat |-> g, page |-> P, x |-> x, ok |-> FALSE, whole |-> FALSE]
      BY <2>1, <2>2, Zenon
    <3> QED BY <3>1
  <2>3. CASE ~(n > Cardinality(FreeFat(f)))
    <3>1. PICK whole : r = [fat |-> g, page |-> S, x |-> y, ok |-> TRUE, whole |-> whole]
      BY <2>1, <2>3, Zenon
    <3>2. r.ok
      <4>1. PICK v : v = TRUE
        OBVIOUS
      <4>2. r = [fat |-> g, page |-> S, x |-> y, ok |-> v, whole |-> whole]
        BY <3>1, <4>1, Zenon
      <4>3. r.ok = v
        BY <4>2
      <4> QED BY <4>1, <4>3, Zenon
    <3> QED BY <3>1, <3>2
  <2> QED BY <2>2, <2>3, Zenon
<1>10. FdOK(b, y) /\ FdSame(x, y)
  <2>1. PICK m \in Nat : m = n * PAGE
    BY FsConstants
  <2>2. PICK path, ent, index, root, cur, off, area, opt, cache :
            /\ FdParts(x, path, ent, index, root, cur, off, area, cache, opt)
            /\ path \in Files /\ cur \in Nat /\ off \in Nat /\ area \in Int
    BY <1>2, PartsOfFd, Zenon
  <2>3. PICK a \in Int : a = area + m /\ a >= area
    BY <2>1, <2>2
  <2>4. x.area = area /\ x.off = off
    BY <2>2 DEF FdParts
  <2>5. FdParts(y, path, ent, index, root, cur, off, a, cache, opt)
    <3>1. y = [x EXCEPT !.area = a]
      BY <1>7, <2>1, <2>3, <2>4
    <3> QED BY <2>2, <3>1 DEF FdParts
  <2>6. FdRec(y) /\ FdSame(x, y) /\ y.off = off /\ y.area = a
    <3>1. /\ FdRec(y) /\ y.path = path /\ y.root = root /\ y.index = index
          /\ y.ent = ent /\ y.off = off /\ y.area = a /\ y.opt = opt /\ y.cur = cur
      BY ONLY <2>2, <2>3, <2>5, FdOfParts
    <3>2. /\ x.path = path /\ x.root = root /\ x.index = index
          /\ x.ent = ent /\ x.off = off /\ x.opt = opt /\ x.cur = cur
      BY <2>2 DEF FdParts
    <3> QED BY <3>1, <3>2, Zenon DEF FdSame
  <2>7. FdMoves(b, y)
    BY <1>2, <2>6, FdLike, Zenon DEF FdSame
  <2>8. y.off + y.area >= 0
    BY <1>2, <2>2, <2>3, <2>4, <2>6
  <2> QED BY <2>6, <2>7, <2>8 DEF FdOK
<1>11. Apart(f, DOMAIN b) /\ P = [p \in Page |-> P[p]]
  BY DEF Booked
<1>12. /\ Apart(g, DOMAIN b) /\ (n = 0 => g = f)
       /\ \A s \in DOMAIN b \ {x.ent.fat} : Stays(f, g, s)
  BY <1>2, <1>6, <1>11, GrownApart
<1>14. /\ S = [p \in Page |-> S[p]]
       /\ \A p \in Page : p \notin Pages(g, x.ent.fat) \/ x.ent.dir => S[p] = P[p]
  BY <1>10, <1>8, SavedFile DEF FdSame
<1>15. CASE x.ent.dir
  <2>1. g = f
    BY <1>5, <1>12, <1>15
  <2>2. S = P
    BY <1>11, <1>14, <1>15
  <2> QED BY <1>9, <1>10, <1>8, <2>1, <2>2 DEF FdSame
<1>16. CASE ~x.ent.dir
  <2>1. ~b[x.ent.fat].dir
    BY <1>2, <1>16
  <2>2. Booked(b, g, S, X)
    BY <1>2, <1>12, <1>14, <2>1, PagesKeep
  <2>3. Booked(b, g, P, X)
    BY <1>2, <1>11, <1>12, <2>1, PagesKeep
  <2> QED BY <1>9, <1>10, <1>8, <2>2, <2>3 DEF FdSame
<1> QED BY <1>15, <1>16

\* An open file at another place.
LEMMA FdAt ==
    ASSUME NEW b, NEW x, FdMoves(b, x), NEW y, NEW cur \in Nat, NEW off \in Nat,
           FdParts(y, x.path, x.ent, x.index, x.root, cur, off, x.area, x.cache, x.opt)
    PROVE  /\ FdMoves(b, y) /\ y.cur = cur /\ y.off = off /\ y.area = x.area
           /\ y.ent = x.ent /\ y.path = x.path /\ y.opt = x.opt
           /\ y.root = x.root /\ y.index = x.index /\ y.cache = x.cache
<1>1. x.path \in Files /\ x.area \in Int
  BY PartsOfFd DEF FdMoves
<1>2. /\ FdRec(y) /\ y.path = x.path /\ y.root = x.root /\ y.index = x.index
      /\ y.ent = x.ent /\ y.off = off /\ y.area = x.area /\ y.opt = x.opt /\ y.cur = cur
      /\ y.cache = x.cache
  BY <1>1, FdOfParts, SMTT(30)
<1>3. FdMoves(b, y)
  BY <1>2, FdLike, Zenon
<1> QED BY <1>2, <1>3

\* An open file whose cur moves agrees with the book as before.
LEMMA FdCur ==
    ASSUME NEW b, NEW x, FdMoves(b, x), NEW cur \in Nat, NEW y, y = [x EXCEPT !.cur = cur]
    PROVE  /\ FdMoves(b, y) /\ y.cur = cur /\ y.off = x.off /\ y.area = x.area
           /\ y.ent = x.ent /\ y.path = x.path /\ y.opt = x.opt
           /\ y.root = x.root /\ y.index = x.index /\ y.cache = x.cache
<1>1. /\ FdParts(x, x.path, x.ent, x.index, x.root, x.cur, x.off, x.area, x.cache, x.opt)
      /\ x.off \in Nat
  BY PartsOfFd DEF FdMoves
<1>2. FdParts(y, x.path, x.ent, x.index, x.root, cur, x.off, x.area, x.cache, x.opt)
  <2>1. PICK path, ent, index, root, old, off, area, cache, opt :
            /\ FdParts(x, path, ent, index, root, old, off, area, cache, opt)
            /\ x.path = path /\ x.ent = ent /\ x.index = index /\ x.root = root
            /\ x.off = off /\ x.area = area /\ x.cache = cache /\ x.opt = opt
    BY <1>1, Zenon
  <2>2. FdParts(y, path, ent, index, root, cur, off, area, cache, opt)
    BY <2>1 DEF FdParts
  <2> QED BY <2>1, <2>2, Zenon
<1>3. FdMoves(b, x) /\ cur \in Nat
  OBVIOUS
<1> QED BY ONLY <1>1, <1>2, <1>3, FdAt

\* An open file whose window moves agrees with the book as before.
LEMMA FdOff ==
    ASSUME NEW b, NEW x, FdMoves(b, x), NEW to \in Nat, NEW y, y = [x EXCEPT !.off = to]
    PROVE  /\ FdMoves(b, y) /\ y.cur = x.cur /\ y.off = to /\ y.area = x.area
           /\ y.ent = x.ent /\ y.path = x.path /\ y.opt = x.opt
           /\ y.root = x.root /\ y.index = x.index /\ y.cache = x.cache
<1>1. /\ FdParts(x, x.path, x.ent, x.index, x.root, x.cur, x.off, x.area, x.cache, x.opt)
      /\ x.cur \in Nat
  BY PartsOfFd DEF FdMoves
<1>2. FdParts(y, x.path, x.ent, x.index, x.root, x.cur, to, x.area, x.cache, x.opt)
  <2>1. PICK path, ent, index, root, cur, old, area, cache, opt :
            /\ FdParts(x, path, ent, index, root, cur, old, area, cache, opt)
            /\ x.path = path /\ x.ent = ent /\ x.index = index /\ x.root = root
            /\ x.cur = cur /\ x.area = area /\ x.cache = cache /\ x.opt = opt
    BY <1>1, Zenon
  <2>2. FdParts(y, path, ent, index, root, cur, to, area, cache, opt)
    BY <2>1 DEF FdParts
  <2> QED BY <2>1, <2>2, Zenon
<1>3. FdMoves(b, x) /\ to \in Nat
  OBVIOUS
<1> QED BY ONLY <1>1, <1>2, <1>3, FdAt

\* What minifs_write has after each cell.
Writing(b, X, s) ==
    /\ Booked(b, s.fat, s.page, X) /\ FdOK(b, s.x) /\ ~s.x.ent.dir
    /\ s = [fat |-> s.fat, page |-> s.page, x |-> s.x, ok |-> s.ok]

\* The cell at cur is put into the window.
LEMMA PutCellKeeps ==
    ASSUME NEW b, NEW x, FdOK(b, x), ~x.ent.dir
    PROVE  FdOK(b, PutCell(x)) /\ ~PutCell(x).ent.dir
<1>1. FdMoves(b, x) /\ FdRec(x) /\ x.off + x.area >= 0
  BY DEF FdOK, FdMoves
<1>2. PICK path, ent, index, root, cur, off, area, cache, opt :
          /\ FdParts(x, path, ent, index, root, cur, off, area, cache, opt)
          /\ path \in Files /\ cur \in Nat /\ off \in Nat /\ area \in Int
  BY <1>1, PartsOfFd, Zenon
<1>3. /\ x.path = path /\ x.ent = ent /\ x.index = index /\ x.root = root
      /\ x.cur = cur /\ x.off = off /\ x.area = area /\ x.cache = cache /\ x.opt = opt
  BY <1>2 DEF FdParts
<1>4. Noted(b, root, index, ent) /\ ent.name = Name(path) /\ InDir(b, path, root) /\ EntRec(ent)
      /\ ~ent.dir
  BY <1>1, <1>3, Zenon DEF FdMoves, Noted
<1>5. PICK new : new = [cache EXCEPT ![cur - off] = <<path, cur>>]
  OBVIOUS
<1>6. PICK q \in Nat : q = IF ent.size < cur + 1 THEN cur + 1 ELSE ent.size
  BY <1>2, <1>4 DEF EntRec
<1>7. PICK e : e = [ent EXCEPT !.size = q]
  OBVIOUS
<1>8. PICK y : y = PutCell(x)
  OBVIOUS
<1>9. FdParts(y, path, e, index, root, cur + 1, off, area, new, opt)
  <2>1. y = [x EXCEPT !.cache = [@ EXCEPT ![cur - off] = <<path, cur>>], !.cur = @ + 1,
                      !.ent.size = IF @ < cur + 1 THEN cur + 1 ELSE @]
    BY <1>3, <1>8, Zenon DEF PutCell
  <2>2. y = [x EXCEPT !.cache = new, !.cur = cur + 1, !.ent = e]
    BY <1>2, <1>3, <1>5, <1>6, <1>7, <2>1 DEF FdParts
  <2> QED BY <1>2, <2>2 DEF FdParts
<1>10. EntRec(e) /\ e.name = ent.name /\ e.fat = ent.fat /\ e.dir = ent.dir
  BY <1>4, <1>6, <1>7 DEF EntRec
<1>11. Noted(b, root, index, e)
  BY <1>4, <1>10, Zenon DEF Noted, Used, Row
<1>12. PICK next \in Nat : next = cur + 1
  BY <1>2
<1>13. /\ FdRec(y) /\ y.path = path /\ y.root = root /\ y.index = index
       /\ y.ent = e /\ y.off = off /\ y.area = area
  <2>1. FdParts(y, path, e, index, root, next, off, area, new, opt)
    BY <1>9, <1>12, Zenon
  <2>2. path \in Files /\ next \in Nat /\ off \in Nat /\ area \in Int
    BY <1>2, <1>12
  <2>3. FdRec(y)
    BY ONLY <2>1, <2>2, FdOfParts
  <2>4. y.path = path /\ y.root = root /\ y.index = index /\ y.ent = e /\ y.off = off /\ y.area = area
    BY <2>1 DEF FdParts
  <2> QED BY <2>3, <2>4
<1>14. FdMoves(b, y)
  BY <1>4, <1>10, <1>11, <1>13, Zenon DEF FdMoves
<1>15. y.off + y.area >= 0
  BY <1>1, <1>3, <1>13
<1> QED BY <1>4, <1>8, <1>10, <1>13, <1>14, <1>15 DEF FdOK

\* One cell is written.
LEMMA WriteCellKeeps ==
    ASSUME NEW b, NEW X, NEW s, Writing(b, X, s)
    PROVE  Writing(b, X, WriteCell(s))
<1>1. PICK t : t = IF s.x.cur - s.x.off < CACHE THEN s ELSE Moved(s, Flush(s.fat, s.page, s.x))
  OBVIOUS
<1>2. Writing(b, X, t)
  <2>1. CASE s.x.cur - s.x.off < CACHE
    BY <1>1, <2>1
  <2>2. CASE ~(s.x.cur - s.x.off < CACHE)
    <3>1. PICK r : r = Flush(s.fat, s.page, s.x)
      OBVIOUS
    <3>2. Booked(b, r.fat, r.page, X) /\ FdOK(b, r.x) /\ FdSame(s.x, r.x) /\ ~s.x.ent.dir
      BY <3>1, FlushKeeps DEF Writing
    <3>3. PICK y : y = [r.x EXCEPT !.off = r.x.cur]
      OBVIOUS
    <3>4. FdMoves(b, r.x) /\ r.x.cur \in Nat
      BY <3>2, PartsOfFd DEF FdOK, FdMoves
    <3>5. FdMoves(b, y) /\ y.ent = r.x.ent
      BY <3>3, <3>4, FdOff
    <3>6. Apart(r.fat, DOMAIN b)
      BY <3>2 DEF Booked
    <3>7. PICK z : z = Load(r.fat, r.page, y)
      OBVIOUS
    <3>8. FdOK(b, z) /\ z.ent = y.ent
      BY <3>5, <3>6, <3>7, LoadFd
    <3>9. ~z.ent.dir
      BY <3>2, <3>5, <3>8 DEF FdSame
    <3>10. PICK ok : t = [fat |-> r.fat, page |-> r.page, ok |-> ok, x |-> z]
      BY <1>1, <2>2, <3>1, <3>3, <3>7, Zenon DEF Moved
    <3>11. t.fat = r.fat /\ t.page = r.page /\ t.x = z /\ t.ok = ok
      BY <3>10
    <3>12. t = [fat |-> t.fat, page |-> t.page, x |-> t.x, ok |-> t.ok]
      BY <3>10
    <3> QED BY <3>2, <3>8, <3>9, <3>11, <3>12, Zenon DEF Writing
  <2> QED BY <2>1, <2>2
<1>3. PICK y : y = PutCell(t.x)
  OBVIOUS
<1>4. FdOK(b, y) /\ ~y.ent.dir
  BY <1>2, <1>3, PutCellKeeps DEF Writing
<1>5. PICK u : u = WriteCell(s)
  OBVIOUS
<1>6. u = [t EXCEPT !.x = y]
  BY <1>1, <1>3, <1>5, Zenon DEF WriteCell
<1>7. PICK f, p, x, ok : /\ t = [fat |-> f, page |-> p, x |-> x, ok |-> ok]
                         /\ t.fat = f /\ t.page = p
  BY <1>2, Zenon DEF Writing
<1>8. u = [fat |-> f, page |-> p, x |-> y, ok |-> ok]
  BY <1>6, <1>7
<1>9. u.fat = f /\ u.page = p /\ u.x = y /\ u.ok = ok
  BY <1>8
<1>10. u = [fat |-> u.fat, page |-> u.page, x |-> u.x, ok |-> u.ok]
  BY <1>8
<1>11. Booked(b, f, p, X)
  BY <1>2, <1>7, Zenon DEF Writing
<1> QED BY <1>4, <1>5, <1>9, <1>10, <1>11, Zenon DEF Writing

\* Any number of cells is written.
LEMMA WritesKeep ==
    ASSUME NEW b, NEW X, NEW s, Writing(b, X, s), NEW n \in Nat
    PROVE  Writing(b, X, WriteCells(s, n))
<1> DEFINE W == CHOOSE w : Writes(s, n, w)
<1>1. Writes(s, n, W)
  <2>1. \E w : Writes(s, n, w)
    BY WritesOn
  <2> QED BY <2>1, Zenon
<1>2. WriteCells(s, n) = W[n]
  BY Zenon DEF WriteCells, Writes
<1> HIDE DEF W
<1>3. W = [k \in 0 .. n |-> IF k = 0 THEN s ELSE WriteCell(W[k - 1])]
  BY <1>1, Zenon DEF Writes
<1>4. \A k \in 0 .. n : W[k] = IF k = 0 THEN s ELSE WriteCell(W[k - 1])
  BY <1>3, Zenon
<1> DEFINE S == {k \in 0 .. n : Writing(b, X, W[k])}
<1>5. 0 \in S
  BY <1>4
<1>6. ASSUME NEW k \in Nat, k < n, k \in S PROVE k + 1 \in S
  <2>1. k + 1 \in 0 .. n /\ k + 1 # 0 /\ k + 1 - 1 = k
    BY <1>6
  <2>2. W[k + 1] = WriteCell(W[k])
    BY <1>4, <2>1
  <2>3. Writing(b, X, W[k + 1])
    BY <1>6, <2>2, WriteCellKeeps
  <2> QED BY <2>1, <2>3
<1>7. n \in S
  <2> HIDE DEF S
  <2>1. \A k \in 0 .. n : k \in S
    BY <1>5, <1>6, Upwards
  <2> QED BY <2>1
<1> QED BY <1>2, <1>7

\* One cell is read.
LEMMA ReadCellKeeps ==
    ASSUME NEW b, NEW x, Apart(fat, DOMAIN b), FdOK(b, x)
    PROVE  FdOK(b, ReadCell(x))
<1>1. PICK y : y = IF x.cur - x.off < CACHE THEN x ELSE Load(fat, page, [x EXCEPT !.off = x.cur])
  OBVIOUS
<1>2. FdOK(b, y)
  <2>1. CASE x.cur - x.off < CACHE
    BY <1>1, <2>1
  <2>2. CASE ~(x.cur - x.off < CACHE)
    <3>1. PICK z : z = [x EXCEPT !.off = x.cur]
      OBVIOUS
    <3>2. FdMoves(b, x) /\ x.cur \in Nat
      BY PartsOfFd DEF FdOK, FdMoves
    <3>3. FdMoves(b, z)
      BY <3>1, <3>2, FdOff
    <3>4. FdOK(b, Load(fat, page, z))
      BY <3>3, LoadFd
    <3> QED BY <1>1, <2>2, <3>1, <3>4, Zenon
  <2> QED BY <2>1, <2>2
<1>3. PICK z : z = [y EXCEPT !.cur = @ + 1]
  OBVIOUS
<1>4. ReadCell(x) = IF y.cur < y.ent.size THEN z ELSE y
  BY <1>1, <1>3, Zenon DEF ReadCell
<1>5. FdOK(b, z)
  <2>1. FdMoves(b, y) /\ y.cur \in Nat /\ y.off + y.area >= 0
    BY <1>2, PartsOfFd DEF FdOK, FdMoves
  <2>2. PICK q \in Nat : q = y.cur + 1
    BY <2>1
  <2>3. z = [y EXCEPT !.cur = q]
    BY <1>3, <2>2
  <2>4. FdMoves(b, z) /\ z.off = y.off /\ z.area = y.area
    BY <2>1, <2>3, FdCur
  <2> QED BY <2>1, <2>4 DEF FdOK
<1> QED BY <1>2, <1>4, <1>5

\* Any number of cells is read.
LEMMA ReadsKeep ==
    ASSUME NEW b, NEW x, Apart(fat, DOMAIN b), FdOK(b, x), NEW n \in Nat
    PROVE  FdOK(b, ReadCells(x, n))
<1> DEFINE W == CHOOSE w : Reads(x, n, w)
<1>1. Reads(x, n, W)
  <2>1. \E w : Reads(x, n, w)
    BY ReadsOn
  <2> QED BY <2>1, Zenon
<1>2. ReadCells(x, n) = W[n]
  BY Zenon DEF ReadCells, Reads
<1> HIDE DEF W
<1>3. W = [k \in 0 .. n |-> IF k = 0 THEN x ELSE ReadCell(W[k - 1])]
  BY <1>1, Zenon DEF Reads
<1>4. \A k \in 0 .. n : W[k] = IF k = 0 THEN x ELSE ReadCell(W[k - 1])
  BY <1>3, Zenon
<1> DEFINE S == {k \in 0 .. n : FdOK(b, W[k])}
<1>5. 0 \in S
  BY <1>4
<1>6. ASSUME NEW k \in Nat, k < n, k \in S PROVE k + 1 \in S
  <2>1. k + 1 \in 0 .. n /\ k + 1 # 0 /\ k + 1 - 1 = k
    BY <1>6
  <2>2. W[k + 1] = ReadCell(W[k])
    BY <1>4, <2>1
  <2>3. FdOK(b, W[k + 1])
    BY <1>6, <2>2, ReadCellKeeps
  <2> QED BY <2>1, <2>3
<1>7. n \in S
  <2> HIDE DEF S
  <2>1. \A k \in 0 .. n : k \in S
    BY <1>5, <1>6, Upwards
  <2> QED BY <2>1
<1> QED BY <1>2, <1>7

-----------------------------------------------------------------------------
(* Names that are found, chains that begin and chains that go.               *)

\* The entry of a name.
LEMMA EntryIs ==
    ASSUME NEW f, NEW P, NEW r, NEW name, EntryOf(LoadDir(f, P, r), name) # 0
    PROVE  /\ EntryOf(LoadDir(f, P, r), name) \in DOMAIN LoadDir(f, P, r)
           /\ EntryOf(LoadDir(f, P, r), name) \in Slots(f, r)
           /\ LoadDir(f, P, r)[EntryOf(LoadDir(f, P, r), name)].name = name
<1>1. PICK ents : ents = LoadDir(f, P, r)
  OBVIOUS
<1>2. DOMAIN ents = Slots(f, r)
  BY <1>1, DirIs
<1>3. PICK found : found = {k \in DOMAIN ents : ents[k].name = name}
  OBVIOUS
<1>4. EntryOf(ents, name) = IF found = {} THEN 0 ELSE FirstOf(found)
  BY <1>3, Zenon DEF EntryOf
<1>5. found # {} /\ EntryOf(ents, name) = FirstOf(found)
  BY <1>1, <1>4
<1>6. found \subseteq Nat
  BY <1>2, <1>3 DEF Slots
<1>7. FirstOf(found) \in found
  BY <1>5, <1>6, FirstIn
<1>8. EntryOf(ents, name) \in DOMAIN ents /\ ents[EntryOf(ents, name)].name = name
  BY <1>3, <1>5, <1>7
<1> QED BY <1>1, <1>2, <1>8, Zenon

\* What get_node finds is the directory of the path.
LEMMA GetNodeIs ==
    ASSUME NEW b, NEW X, Booked(b, fat, page, X), NEW f \in Files, NEW r, r = GetNode(f), r # 0
    PROVE  InDir(b, f, r) /\ Proper(fat, r)
<1>1. BookOK(b) /\ \A s \in DOMAIN b : Proper(fat, s) /\ (b[s].dir => DirOK(b, fat, page, s))
  BY DEF Booked, Apart
<1>2. CASE Len(f) = 1
  <2>1. r = ROOT
    BY <1>2, Zenon DEF GetNode
  <2> QED BY <1>1, <1>2, <2>1, Zenon DEF InDir, BookOK
<1>3. CASE Len(f) # 1
  <2>1. PICK ents : ents = LoadDir(fat, page, ROOT)
    OBVIOUS
  <2>2. PICK k : k = EntryOf(ents, f[1])
    OBVIOUS
  <2>3. k # 0 /\ ents[k].dir /\ r = ents[k].fat
    BY <1>3, <2>1, <2>2, Zenon DEF GetNode
  <2>4. k \in DOMAIN ents /\ ents[k].name = f[1]
    <3>1. EntryOf(LoadDir(fat, page, ROOT), f[1]) # 0
      BY <2>1, <2>2, <2>3, Zenon
    <3>2. /\ EntryOf(LoadDir(fat, page, ROOT), f[1]) \in DOMAIN LoadDir(fat, page, ROOT)
          /\ LoadDir(fat, page, ROOT)[EntryOf(LoadDir(fat, page, ROOT), f[1])].name = f[1]
      BY <3>1, EntryIs
    <3> QED BY <2>1, <2>2, <3>2, Zenon
  <2>5. Noted(b, ROOT, k, ents[k])
    BY <1>1, <2>1, <2>4, Zenon DEF BookOK, DirOK
  <2>6. Used(ents[k])
    BY <2>4, Paths DEF Used
  <2>7. r \in DOMAIN b \ {ROOT} /\ b[r] = Row(ROOT, k, ents[k])
    BY <2>3, <2>5, <2>6, Zenon DEF Noted
  <2>8. b[r].name = f[1] /\ b[r].dir
    BY <2>3, <2>4, <2>7 DEF Row
  <2> QED BY <1>1, <1>3, <2>7, <2>8 DEF InDir
<1> QED BY <1>2, <1>3

\* A book with more chains.
More(b, c) == DOMAIN b \subseteq DOMAIN c /\ \A h \in DOMAIN b : c[h] = b[h]

\* An entry that agrees with a book agrees with one that has more in it.
LEMMA NotedMore ==
    ASSUME NEW b, NEW c, More(b, c), NEW r, NEW i, NEW e, Noted(b, r, i, e)
    PROVE  Noted(c, r, i, e)
  BY DEF More, Noted

\* An open file that agrees with a book agrees with one that has more in it.
LEMMA FdMore ==
    ASSUME NEW b, NEW c, More(b, c), NEW x, FdOK(b, x)
    PROVE  FdOK(c, x)
<1>1. FdMoves(b, x) /\ x.off + x.area >= 0
  BY DEF FdOK
<1>2. Noted(c, x.root, x.index, x.ent)
  BY <1>1, NotedMore DEF FdMoves
<1>3. InDir(c, x.path, x.root)
  BY <1>1, Zenon DEF FdMoves, InDir, More
<1> QED BY <1>1, <1>2, <1>3 DEF FdMoves, FdOK

\* A chain of one page begins, with a row of its own in the book; the pages
\* Q are the pages P but for one.
Begun(f, new, g, b, row, c) ==
    /\ FreeFat(f) # {} /\ new = FirstOf(FreeFat(f)) /\ g = [f EXCEPT ![new] = TAIL]
    /\ c = [h \in DOMAIN b \cup {new} |-> IF h = new THEN row ELSE b[h]]
But(P, Q, new) == Q = [p \in Page |-> Q[p]] /\ \A p \in Page \ {new} : Q[p] = P[p]

\* A chain of one new page goes to the book.
LEMMA BornKeeps ==
    ASSUME NEW b, NEW f, NEW P, NEW X, Booked(b, f, P, X), NEW new, NEW g, NEW row, NEW c,
           Begun(f, new, g, b, row, c), row.dir => row.root = ROOT,
           NEW Q, But(P, Q, new), row.dir => Q[new] = Blank \/ ~Reachable(new)
    PROVE  /\ Booked(c, g, Q, X) /\ More(b, c) /\ new \in DOMAIN c \ {ROOT} /\ c[new] = row
           /\ new \in 1 .. PAGES - 1 /\ new \notin DOMAIN b
<1>0. /\ FreeFat(f) # {} /\ new = FirstOf(FreeFat(f)) /\ g = [f EXCEPT ![new] = TAIL]
      /\ c = [h \in DOMAIN b \cup {new} |-> IF h = new THEN row ELSE b[h]]
      /\ Q = [p \in Page |-> Q[p]] /\ \A p \in Page \ {new} : Q[p] = P[p]
  BY Zenon DEF Begun, But
<1>1. Apart(f, DOMAIN b) /\ BookOK(b)
  BY DEF Booked
<1>2. /\ new \notin DOMAIN b /\ new \in 1 .. PAGES - 1
      /\ Apart(g, DOMAIN b \cup {new}) /\ Chain(g, new) = <<new>>
      /\ \A r \in DOMAIN b : Stays(f, g, r) /\ new \notin Pages(f, r)
  BY <1>0, <1>1, NewApart, Zenon
<1>3. DOMAIN c = DOMAIN b \cup {new} /\ c[new] = row /\ \A h \in DOMAIN b : c[h] = b[h]
  BY <1>0, <1>2
<1>4. More(b, c) /\ Apart(g, DOMAIN c) /\ new # ROOT
  BY <1>1, <1>2, <1>3 DEF More, BookOK
<1>5. BookOK(c)
  BY <1>1, <1>2, <1>3 DEF BookOK
<1>6. ASSUME NEW r \in DOMAIN c, c[r].dir PROVE DirOK(c, g, Q, r)
  <2>1. CASE r = new
    <3>1. Proper(g, new)
      BY <1>3, <1>4 DEF Apart
    <3>2. Q[new] = Blank \/ ~Reachable(new)
      BY <1>3, <1>6, <2>1
    <3>3. \A i \in DOMAIN LoadDir(g, Q, r) : LoadDir(g, Q, r)[i] \in {NoEnt, ZeroEnt}
      BY <1>2, <2>1, <3>1, <3>2, BlankDir
    <3> QED BY <3>3, UnusedNoted, Zenon DEF DirOK
  <2>2. CASE r # new
    <3>1. r \in DOMAIN b /\ b[r].dir
      BY <1>3, <1>6, <2>2
    <3>2. Proper(f, r) /\ Table(f) /\ Stays(f, g, r) /\ new \notin Pages(f, r)
      BY <1>1, <1>2, <3>1 DEF Apart
    <3>3. \A p \in Pages(f, r) : Q[p] = P[p]
      BY <1>0, <3>2, PagesOf
    <3>4. LoadDir(g, Q, r) = LoadDir(f, P, r)
      BY <3>2, <3>3, SameDir
    <3>5. DirOK(b, f, P, r)
      BY <3>1 DEF Booked
    <3>6. DirOK(c, f, P, r)
      <4>1. ASSUME NEW i \in DOMAIN LoadDir(f, P, r) PROVE Noted(c, r, i, LoadDir(f, P, r)[i])
        <5>1. Noted(b, r, i, LoadDir(f, P, r)[i])
          BY <3>5 DEF DirOK
        <5> QED BY <1>4, <5>1, NotedMore
      <4> QED BY <4>1 DEF DirOK
    <3> QED BY <3>4, <3>6, Zenon DEF DirOK
  <2> QED BY <2>1, <2>2
<1>7. \A d \in Fd : X[d].open => FdOK(c, X[d])
  BY <1>4, FdMore, Zenon DEF Booked
<1>8. X = [d \in Fd |-> X[d]] /\ Q = [p \in Page |-> Q[p]]
  BY <1>0 DEF Booked
<1>9. Booked(c, g, Q, X)
  BY <1>4, <1>5, <1>6, <1>7, <1>8, Zenon DEF Booked
<1> QED BY <1>2, <1>3, <1>4, <1>9

\* A directory grows.
LEMMA GrowKeeps ==
    ASSUME NEW b, NEW f, NEW P, NEW X, Booked(b, f, P, X), NEW add, NEW root \in DOMAIN b,
           b[root].dir, NEW g, GrowsTo(f, root, add, g), NEW Q, But(P, Q, add),
           Q[add] = Blank \/ ~Reachable(add)
    PROVE  Booked(b, g, Q, X)
<1>0. Q = [p \in Page |-> Q[p]] /\ \A p \in Page \ {add} : Q[p] = P[p]
  BY Zenon DEF But
<1>1. Apart(f, DOMAIN b) /\ Table(f)
  BY DEF Booked, Apart
<1>2. /\ Apart(g, DOMAIN b) /\ Chain(g, root) = <<root, add>>
      /\ \A r \in DOMAIN b : add \notin Pages(f, r)
      /\ \A r \in DOMAIN b \ {root} : Stays(f, g, r)
  <2>1. PICK H : H = DOMAIN b
    OBVIOUS
  <2>2. Apart(f, H) /\ root \in H /\ GrowsTo(f, root, add, g)
    BY <1>1, <2>1, Zenon
  <2>3. /\ Apart(g, H) /\ Chain(g, root) = <<root, add>>
        /\ \A r \in H : add \notin Pages(f, r)
        /\ \A r \in H \ {root} : Stays(f, g, r)
    BY ONLY <2>2, RootApart
  <2> QED BY <2>1, <2>3, Zenon
<1>3. ASSUME NEW r \in DOMAIN b PROVE \A p \in Pages(f, r) : Q[p] = P[p]
  <2>1. Proper(f, r) /\ add \notin Pages(f, r)
    BY <1>1, <1>2 DEF Apart
  <2> QED BY <1>0, <1>1, <2>1, PagesOf
<1>4. ASSUME NEW r \in DOMAIN b, b[r].dir PROVE DirOK(b, g, Q, r)
  <2>1. Proper(f, r) /\ Proper(g, r) /\ DirOK(b, f, P, r)
    BY <1>1, <1>2, <1>4 DEF Booked, Apart
  <2>2. CASE r = root
    <3>1. Q[r] = P[r]
      BY <1>1, <1>3, <2>1, PagesOf
    <3>2. \A i \in DOMAIN LoadDir(g, Q, r) :
              \/ i \in DOMAIN LoadDir(f, P, r) /\ LoadDir(g, Q, r)[i] = LoadDir(f, P, r)[i]
              \/ LoadDir(g, Q, r)[i] \in {NoEnt, ZeroEnt}
      BY <1>2, <2>1, <2>2, <3>1, GrownDir
    <3>3. ASSUME NEW i \in DOMAIN LoadDir(g, Q, r) PROVE Noted(b, r, i, LoadDir(g, Q, r)[i])
      <4>1. PICK e : e = LoadDir(g, Q, r)[i]
        OBVIOUS
      <4>2. CASE e \in {NoEnt, ZeroEnt}
        BY <4>1, <4>2, UnusedNoted
      <4>3. CASE e \notin {NoEnt, ZeroEnt}
        BY <2>1, <3>2, <4>1, <4>3 DEF DirOK
      <4> QED BY <4>2, <4>3
    <3> QED BY <3>3 DEF DirOK
  <2>3. CASE r # root
    <3>0. Stays(f, g, r) /\ \A p \in Pages(f, r) : Q[p] = P[p]
      BY <1>2, <1>3, <2>3
    <3>1. LoadDir(g, Q, r) = LoadDir(f, P, r)
      BY <2>1, <3>0, SameDir
    <3> QED BY <2>1, <3>1, Zenon DEF DirOK
  <2> QED BY <2>2, <2>3
<1> QED BY <1>0, <1>2, <1>4, Zenon DEF Booked

\* The chains G go, with the entry k of the directory root: the entries of
\* the others are elsewhere.
Goners(b, G, root, k) ==
    /\ root \in DOMAIN b \ G /\ b[root].dir
    /\ \A h \in G : /\ h \in DOMAIN b \ {ROOT}
                    /\ b[h].root \in G \/ (b[h].root = root /\ b[h].index = k)

\* The table g has the chains of f but for G, and the pages P1 differ from P
\* in no chain that stays; no open file is in G; the entry k is struck out.
Left(b, G, f, g) == Apart(g, DOMAIN b \ G) /\ \A r \in DOMAIN b \ G : Stays(f, g, r)
LeftPages(b, G, f, P, P1) == \A r \in DOMAIN b \ G : \A p \in Pages(f, r) : P1[p] = P[p]
Shut(G, X) == \A d \in Fd : X[d].open => X[d].root \notin G /\ X[d].ent.fat \notin G
Struck(g, P1, root, k, ents, Q) ==
    Q = SaveDir(g, P1, root, [j \in DOMAIN ents |-> IF j = k THEN NoEnt ELSE ents[j]])

\* Chains that leave the table and their entry that is struck out leave the book.
LEMMA RemoveKeeps ==
    ASSUME NEW b, NEW f, NEW P, NEW X, Booked(b, f, P, X), NEW G, NEW root, NEW k,
           Goners(b, G, root, k), NEW g, Left(b, G, f, g), NEW P1, LeftPages(b, G, f, P, P1),
           Shut(G, X), NEW Q, Struck(g, P1, root, k, LoadDir(f, P, root), Q)
    PROVE  \E c : Booked(c, g, Q, X)
<1>0. PICK ents : ents = LoadDir(f, P, root)
  OBVIOUS
<1>a. Apart(g, DOMAIN b \ G) /\ \A r \in DOMAIN b \ G : Stays(f, g, r)
  BY Zenon DEF Left
<1>b. \A r \in DOMAIN b \ G : \A p \in Pages(f, r) : P1[p] = P[p]
  BY Zenon DEF LeftPages
<1>c. \A d \in Fd : X[d].open => X[d].root \notin G /\ X[d].ent.fat \notin G
  BY Zenon DEF Shut
<1>d. Q = SaveDir(g, P1, root, [j \in DOMAIN ents |-> IF j = k THEN NoEnt ELSE ents[j]])
  BY <1>0, Zenon DEF Struck
<1> USE <1>0, <1>a, <1>b, <1>c, <1>d
<1>1. PICK c : c = [h \in DOMAIN b \ G |-> b[h]]
  OBVIOUS
<1>2. DOMAIN c = DOMAIN b \ G /\ \A h \in DOMAIN c : c[h] = b[h]
  BY <1>1
<1>3. BookOK(b) /\ Apart(f, DOMAIN b) /\ Table(f)
  BY DEF Booked, Apart
<1>4. ROOT \notin G /\ BookOK(c)
  BY <1>2, <1>3 DEF BookOK, Goners
<1>5. ASSUME NEW r, NEW i, NEW e, Noted(b, r, i, e), Used(e) => e.fat \notin G
      PROVE  Noted(c, r, i, e)
  BY <1>2, <1>5 DEF Noted
<1>6. PICK E : E = [j \in DOMAIN ents |-> IF j = k THEN NoEnt ELSE ents[j]]
  OBVIOUS
<1>7. root \in DOMAIN c /\ root \in DOMAIN b /\ root \notin G /\ b[root].dir /\ Stays(f, g, root)
  BY <1>2 DEF Goners
<1>8. Proper(f, root) /\ Proper(g, root) /\ Table(g)
  BY <1>2, <1>3, <1>7 DEF Apart
<1>9. DOMAIN ents = Slots(g, root) /\ E = [j \in Slots(g, root) |-> E[j]]
  <2>1. DOMAIN ents = Slots(f, root)
    BY DirIs
  <2>2. Slots(g, root) = Slots(f, root)
    BY <1>7, Zenon DEF Stays, Slots, Rows
  <2> QED BY <1>6, <2>1, <2>2
<1>10. /\ Q = [p \in Page |-> Q[p]]
       /\ \A p \in Page : p \notin Pages(g, root) => Q[p] = P1[p]
       /\ \A i \in DOMAIN LoadDir(g, Q, root) :
             i \in Slots(g, root) /\ LoadDir(g, Q, root)[i] \in {E[i], ZeroEnt}
  <2>1. Q = SaveDir(g, P1, root, E)
    BY <1>6
  <2> QED BY ONLY <1>8, <1>9, <2>1, SavedDir
<1>11. DirOK(c, g, Q, root)
  <2>1. ASSUME NEW i \in DOMAIN LoadDir(g, Q, root) PROVE Noted(c, root, i, LoadDir(g, Q, root)[i])
    <3>1. PICK e : e = LoadDir(g, Q, root)[i]
      OBVIOUS
    <3>2. i \in DOMAIN ents /\ (e = E[i] \/ e = ZeroEnt)
      BY <1>9, <1>10, <3>1
    <3>3. CASE e \in {NoEnt, ZeroEnt}
      BY <3>1, <3>3, UnusedNoted
    <3>4. CASE e \notin {NoEnt, ZeroEnt}
      <4>1. i # k /\ e = ents[i]
        BY <1>6, <3>2, <3>4
      <4>2. Noted(b, root, i, e)
        BY <1>7, <3>2, <4>1 DEF Booked, DirOK
      <4>3. ASSUME Used(e), e.fat \in G PROVE FALSE
        <5>1. b[e.fat] = Row(root, i, e)
          BY <4>2, <4>3 DEF Noted
        <5>2. b[e.fat].root = root /\ b[e.fat].index = i
          BY <5>1 DEF Row
        <5> QED BY <1>7, <4>1, <4>3, <5>2 DEF Goners
      <4> QED BY <1>5, <3>1, <4>2, <4>3
    <3> QED BY <3>3, <3>4
  <2> QED BY <2>1 DEF DirOK
<1>12. ASSUME NEW r \in DOMAIN c, c[r].dir PROVE DirOK(c, g, Q, r)
  <2>1. CASE r = root
    BY <1>11, <2>1
  <2>2. CASE r # root
    <3>1. /\ r \in DOMAIN b /\ r \notin G /\ b[r].dir /\ Stays(f, g, r)
          /\ Proper(f, r) /\ Proper(g, r) /\ Pages(g, r) \cap Pages(g, root) = {}
      BY <1>2, <1>3, <1>7, <1>12, <2>2 DEF Apart
    <3>2. ASSUME NEW p \in Pages(f, r) PROVE Q[p] = P[p]
      <4>1. p \in Pages(g, r) /\ p \notin Pages(g, root) /\ p \in Page
        BY <1>3, <3>1, <3>2, PagesOf DEF Stays
      <4>2. P1[p] = P[p]
        BY <3>1, <3>2
      <4> QED BY <1>10, <4>1, <4>2
    <3>3. LoadDir(g, Q, r) = LoadDir(f, P, r)
      BY <3>1, <3>2, SameDir
    <3>4. DirOK(b, f, P, r)
      BY <3>1 DEF Booked
    <3>5. ASSUME NEW i \in DOMAIN LoadDir(g, Q, r) PROVE Noted(c, r, i, LoadDir(g, Q, r)[i])
      <4>1. PICK e : e = LoadDir(g, Q, r)[i]
        OBVIOUS
      <4>2. Noted(b, r, i, e)
        BY <3>3, <3>4, <4>1 DEF DirOK
      <4>3. ASSUME Used(e), e.fat \in G PROVE FALSE
        <5>1. b[e.fat] = Row(r, i, e)
          BY <4>2, <4>3 DEF Noted
        <5>2. b[e.fat].root = r
          BY <5>1 DEF Row
        <5> QED BY <2>2, <3>1, <4>3, <5>2 DEF Goners
      <4> QED BY <1>5, <4>1, <4>2, <4>3
    <3> QED BY <3>5 DEF DirOK
  <2> QED BY <2>1, <2>2
<1>13. ASSUME NEW d \in Fd, X[d].open PROVE FdOK(c, X[d])
  <2>1. PICK x : x = X[d]
    OBVIOUS
  <2>2. FdOK(b, x) /\ x.root \notin G /\ x.ent.fat \notin G
    BY <1>13, <2>1 DEF Booked
  <2>3. FdMoves(b, x) /\ x.off + x.area >= 0
    BY <2>2 DEF FdOK
  <2>4. Noted(c, x.root, x.index, x.ent)
    BY <1>5, <2>2, <2>3 DEF FdMoves
  <2>5. InDir(c, x.path, x.root)
    BY <1>2, <2>2, <2>3 DEF FdMoves, InDir
  <2>6. FdMoves(c, x)
    BY <2>3, <2>4, <2>5, Zenon DEF FdMoves
  <2> QED BY <2>1, <2>3, <2>6, Zenon DEF FdOK
<1>14. X = [d \in Fd |-> X[d]] /\ Apart(g, DOMAIN c)
  BY <1>2 DEF Booked
<1>15. Booked(c, g, Q, X)
  BY <1>4, <1>10, <1>12, <1>13, <1>14, Zenon DEF Booked
<1> QED BY <1>15, Zenon

-----------------------------------------------------------------------------
(* Calls.                                                                    *)

\* The disk after minifs_format, while no file is open.
LEMMA FormatBooked ==
    ASSUME NEW P, NEW X, P = [p \in Page |-> P[p]], P[ROOT] = Blank,
           X = [d \in Fd |-> X[d]], \A d \in Fd : ~X[d].open
    PROVE  \E b : Booked(b, Formatted, P, X)
<1>1. PICK c : c = <<ROOT>>
  OBVIOUS
<1>2. c \in Seq(1 .. PAGES - 1) /\ Len(c) = 1 /\ c[1] = ROOT
  BY <1>1, FsConstants
<1>3. PICK f : f = Formatted
  OBVIOUS
<1>4. Table(f) /\ f[ROOT] = TAIL
  BY <1>3, FsConstants DEF Formatted, Table, Ends
<1>5. Goes(f, c)
  BY <1>2, <1>4 DEF Goes
<1>6. Chain(f, ROOT) = c /\ Proper(f, ROOT)
  BY <1>2, <1>5, ProperIs
<1>7. PICK row : row.dir /\ row.root = ROOT
  <2>1. PICK row : row = [root |-> ROOT, dir |-> TRUE]
    OBVIOUS
  <2>2. row.dir /\ row.root = ROOT
    BY <2>1, Zenon
  <2> QED BY <2>2
<1>8. PICK b : b = [h \in {ROOT} |-> row]
  OBVIOUS
<1>9. DOMAIN b = {ROOT} /\ b[ROOT] = row
  BY <1>8
<1>10. BookOK(b) /\ Apart(f, DOMAIN b)
  BY <1>4, <1>6, <1>7, <1>9 DEF BookOK, Apart
<1>11. DirOK(b, f, P, ROOT)
  <2>1. \A i \in DOMAIN LoadDir(f, P, ROOT) : LoadDir(f, P, ROOT)[i] \in {NoEnt, ZeroEnt}
    BY <1>1, <1>6, BlankDir
  <2> QED BY <2>1, UnusedNoted, Zenon DEF DirOK
<1>12. Booked(b, f, P, X)
  BY <1>9, <1>10, <1>11, Zenon DEF Booked
<1> QED BY <1>3, <1>12

\* The open file that minifs_open sets up.
LEMMA OpenedFd ==
    ASSUME NEW b, NEW t, NEW P, Apart(t, DOMAIN b), NEW f \in Files, NEW opt, NEW ent, NEW k,
           NEW root, Noted(b, root, k, ent), ent.name = Name(f), InDir(b, f, root)
    PROVE  FdOK(b, Opened(f, opt, ent, k, root, t, P))
<1>1. PICK cur \in Nat : cur = IF opt = "append" THEN ent.size ELSE 0
  BY DEF Noted, EntRec
<1>2. PICK off \in Nat : off = (cur \div CACHE) * CACHE
  <2>1. cur \div CACHE \in Nat
    BY FsConstants
  <2> QED BY <2>1, FsConstants
<1>3. PICK x : x = [open |-> TRUE, path |-> f, ent |-> ent, index |-> k, root |-> root,
                    cur |-> cur, off |-> off, area |-> 0, cache |-> <<>>, opt |-> opt]
  OBVIOUS
<1>4. Opened(f, opt, ent, k, root, t, P) = Load(t, P, x)
  BY <1>1, <1>2, <1>3, Zenon DEF Opened
<1>5. FdParts(x, f, ent, k, root, cur, off, 0, <<>>, opt)
  BY <1>3, Zenon DEF FdParts
<1>6. /\ FdRec(x) /\ x.path = f /\ x.ent = ent /\ x.index = k /\ x.root = root
  <2>1. 0 \in Int
    OBVIOUS
  <2>2. f \in Files /\ cur \in Nat /\ off \in Nat
    OBVIOUS
  <2> QED BY ONLY <1>5, <2>1, <2>2, FdOfParts
<1>7. FdMoves(b, x)
  BY <1>6, Zenon DEF FdMoves
<1> QED BY <1>4, <1>7, LoadFd, Zenon

\* minifs_open of a file that exists.
LEMMA OpenOldKeeps ==
    ASSUME NEW b, Booked(b, fat, page, filefd), NEW d \in Fd, NEW f \in Files, NEW opt,
           NEW root, root = GetNode(f), root # 0, OpenOld(d, f, opt, root)
    PROVE  Booked(b, fat', page', filefd')
<1>1. PICK ents : ents = LoadDir(fat, page, root)
  OBVIOUS
<1>2. PICK k : k = EntryOf(ents, Name(f))
  OBVIOUS
<1>3. PICK x : x = Opened(f, opt, ents[k], k, root, fat, page)
  OBVIOUS
<1>4. k # 0 /\ filefd' = [filefd EXCEPT ![d] = x] /\ fat' = fat /\ page' = page
  BY <1>1, <1>2, <1>3, Zenon DEF OpenOld
<1>5. InDir(b, f, root) /\ Apart(fat, DOMAIN b)
  BY GetNodeIs DEF Booked
<1>6. k \in DOMAIN ents /\ ents[k].name = Name(f)
  <2>1. EntryOf(LoadDir(fat, page, root), Name(f)) # 0
    BY <1>1, <1>2, <1>4, Zenon
  <2>2. /\ EntryOf(LoadDir(fat, page, root), Name(f)) \in DOMAIN LoadDir(fat, page, root)
        /\ LoadDir(fat, page, root)[EntryOf(LoadDir(fat, page, root), Name(f))].name = Name(f)
    BY <2>1, EntryIs
  <2> QED BY <1>1, <1>2, <2>2, Zenon
<1>7. Noted(b, root, k, ents[k])
  BY <1>1, <1>5, <1>6 DEF Booked, DirOK, InDir
<1>8. FdOK(b, x)
  BY <1>3, <1>5, <1>6, <1>7, OpenedFd
<1>9. Booked(b, fat, page, [filefd EXCEPT ![d] = x])
  BY <1>8, SetFd
<1> QED BY <1>4, <1>9

\* minifs_close
LEMMA CloseKeeps ==
    ASSUME NEW b, Booked(b, fat, page, filefd), NEW d \in Fd, Close(d)
    PROVE  Booked(b, fat', page', filefd')
<1>1. PICK x : x = filefd[d]
  OBVIOUS
<1>2. PICK ents : ents = LoadDir(fat, page, x.root)
  OBVIOUS
<1>3. PICK E : E = [j \in DOMAIN ents |-> IF j = x.index THEN x.ent ELSE ents[j]]
  OBVIOUS
<1>4. PICK saved : saved = SaveDir(fat, page, x.root, E)
  OBVIOUS
<1>5. PICK r : r = Flush(fat, saved, x)
  OBVIOUS
<1>6. /\ filefd[d].open /\ filefd' = [filefd EXCEPT ![d] = Closed]
      /\ IF x.opt = "read" THEN UNCHANGED <<fat, page, kept>>
         ELSE /\ fat' = IF r.ok THEN r.fat ELSE fat
              /\ page' = r.page
              /\ kept' = [kept EXCEPT ![x.path].ok = @ /\ r.whole]
  BY <1>1, <1>2, <1>3, <1>4, <1>5, Zenon DEF Close
<1>7. FdOK(b, x) /\ FdMoves(b, x)
  BY <1>1, <1>6 DEF Booked, FdOK
<1>8. x.root \in DOMAIN b /\ b[x.root].dir /\ Noted(b, x.root, x.index, x.ent)
  BY <1>7 DEF FdMoves, InDir
<1>9. DOMAIN ents = Slots(fat, x.root)
  BY <1>2, DirIs
<1>10. E = [j \in Slots(fat, x.root) |-> E[j]]
  BY <1>3, <1>9
<1>11. ASSUME NEW j \in Slots(fat, x.root) PROVE Noted(b, x.root, j, E[j])
  <2>1. CASE j = x.index
    BY <1>3, <1>8, <1>9, <2>1
  <2>2. CASE j # x.index
    <3>1. E[j] = ents[j]
      BY <1>3, <1>9, <2>2
    <3>2. DirOK(b, fat, page, x.root)
      BY <1>8 DEF Booked
    <3>3. Noted(b, x.root, j, ents[j])
      BY <1>2, <1>9, <3>2, Zenon DEF DirOK
    <3> QED BY <3>1, <3>3
  <2> QED BY <2>1, <2>2
<1>12. Booked(b, fat, saved, filefd)
  BY <1>4, <1>8, <1>10, <1>11, SaveKeeps
<1>13. Booked(b, r.fat, r.page, filefd) /\ (r.ok \/ r.page = saved)
  BY <1>5, <1>7, <1>12, FlushKeeps
<1>14. Booked(b, fat', page', filefd)
  <2>1. CASE x.opt = "read"
    BY <1>6, <2>1
  <2>2. CASE x.opt # "read" /\ r.ok
    <3>1. fat' = r.fat /\ page' = r.page
      BY <1>6, <2>2, Zenon
    <3> QED BY <1>13, <3>1
  <2>3. CASE x.opt # "read" /\ ~r.ok
    <3>1. fat' = fat /\ page' = saved
      BY <1>6, <1>13, <2>3, Zenon
    <3> QED BY <1>12, <3>1
  <2> QED BY <2>1, <2>2, <2>3
<1>15. Booked(b, fat', page', [filefd EXCEPT ![d] = Closed])
  BY <1>14, SetFd
<1> QED BY <1>6, <1>15

\* minifs_write
LEMMA WriteKeeps ==
    ASSUME NEW b, Booked(b, fat, page, filefd), NEW d \in Fd, NEW n \in Nat, Write(d, n)
    PROVE  Booked(b, fat', page', filefd')
<1>1. PICK s : s = [fat |-> fat, page |-> page, x |-> filefd[d], ok |-> TRUE]
  OBVIOUS
<1>2. PICK t : t = WriteCells(s, n)
  OBVIOUS
<1>3. /\ filefd[d].open /\ ~filefd[d].ent.dir
      /\ fat' = t.fat /\ page' = t.page /\ filefd' = [filefd EXCEPT ![d] = t.x]
  BY <1>1, <1>2, Zenon DEF Write
<1>4. FdOK(b, filefd[d])
  BY <1>3 DEF Booked
<1>5. PICK ok : s = [fat |-> fat, page |-> page, x |-> filefd[d], ok |-> ok]
  BY <1>1
<1>6. s.fat = fat /\ s.page = page /\ s.x = filefd[d] /\ s.ok = ok
  BY <1>5
<1>7. Writing(b, filefd, s)
  BY <1>3, <1>4, <1>5, <1>6, Zenon DEF Writing
<1>8. Writing(b, filefd, t)
  BY <1>2, <1>7, WritesKeep
<1>9. Booked(b, t.fat, t.page, filefd) /\ FdOK(b, t.x)
  BY <1>8 DEF Writing
<1>10. Booked(b, t.fat, t.page, [filefd EXCEPT ![d] = t.x])
  BY <1>9, SetFd
<1> QED BY <1>3, <1>10

\* minifs_read
LEMMA ReadKeeps ==
    ASSUME NEW b, Booked(b, fat, page, filefd), NEW d \in Fd, NEW n \in Nat, Read(d, n)
    PROVE  Booked(b, fat', page', filefd')
<1>1. PICK y : y = ReadCells(filefd[d], n)
  OBVIOUS
<1>2. /\ filefd[d].open /\ fat' = fat /\ page' = page
      /\ filefd' = [filefd EXCEPT ![d] = y]
  BY <1>1, Zenon DEF Read
<1>3. FdOK(b, filefd[d]) /\ Apart(fat, DOMAIN b)
  BY <1>2 DEF Booked
<1>4. FdOK(b, y)
  BY <1>1, <1>3, ReadsKeep
<1>5. Booked(b, fat, page, [filefd EXCEPT ![d] = y])
  BY <1>4, SetFd
<1> QED BY <1>2, <1>5

\* minifs_seek
LEMMA SeekKeeps ==
    ASSUME NEW b, Booked(b, fat, page, filefd), NEW d \in Fd, NEW to \in Nat, Seek(d, to)
    PROVE  Booked(b, fat', page', filefd')
<1>1. PICK x : x = filefd[d]
  OBVIOUS
<1>2. PICK pos : pos = IF to > x.ent.size THEN x.ent.size ELSE to
  OBVIOUS
<1>3. PICK r : r = IF x.opt = "read"
                   THEN [fat |-> fat, page |-> page, x |-> x, ok |-> TRUE, whole |-> TRUE]
                   ELSE Flush(fat, page, x)
  OBVIOUS
<1>4. PICK y : y = [r.x EXCEPT !.cur = pos, !.off = pos]
  OBVIOUS
<1>5. PICK z : z = Load(r.fat, r.page, y)
  OBVIOUS
<1>6. /\ filefd[d].open /\ fat' = (IF r.ok THEN r.fat ELSE fat) /\ page' = r.page
      /\ filefd' = [filefd EXCEPT ![d] = z]
  BY <1>1, <1>2, <1>3, <1>4, <1>5, Zenon DEF Seek
<1>7. FdOK(b, x) /\ FdMoves(b, x)
  BY <1>1, <1>6 DEF Booked, FdOK
<1>8. pos \in Nat
  BY <1>2, <1>7, OfFd
<1>9. Booked(b, r.fat, r.page, filefd) /\ FdOK(b, r.x) /\ (r.ok \/ r.page = page)
  <2>1. CASE x.opt = "read"
    <3>1. r = [fat |-> fat, page |-> page, x |-> x, ok |-> TRUE, whole |-> TRUE]
      BY <1>3, <2>1, Zenon
    <3>2. r.fat = fat /\ r.page = page /\ r.x = x
      BY <3>1
    <3> QED BY <1>7, <3>2
  <2>2. CASE x.opt # "read"
    BY <1>3, <1>7, <2>2, FlushKeeps
  <2> QED BY <2>1, <2>2
<1>10. FdMoves(b, y)
  <2>1. PICK u : u = r.x
    OBVIOUS
  <2>2. FdMoves(b, u)
    BY <1>9, <2>1 DEF FdOK
  <2>3. PICK v : v = [u EXCEPT !.cur = pos]
    OBVIOUS
  <2>4. FdMoves(b, v)
    BY <1>8, <2>2, <2>3, FdCur
  <2>5. y = [v EXCEPT !.off = pos]
    BY <1>4, <2>1, <2>3
  <2> QED BY <1>8, <2>4, <2>5, FdOff
<1>11. Apart(r.fat, DOMAIN b)
  BY <1>9 DEF Booked
<1>12. FdOK(b, z)
  BY <1>5, <1>10, <1>11, LoadFd
<1>13. Booked(b, fat', page', filefd)
  <2>1. CASE r.ok
    <3>1. fat' = r.fat /\ page' = r.page
      BY <1>6, <2>1, Zenon
    <3> QED BY <1>9, <3>1
  <2>2. CASE ~r.ok
    <3>1. fat' = fat /\ page' = page
      BY <1>6, <1>9, <2>2, Zenon
    <3> QED BY <3>1
  <2> QED BY <2>1, <2>2
<1>14. Booked(b, fat', page', [filefd EXCEPT ![d] = z])
  BY <1>12, <1>13, SetFd
<1> QED BY <1>6, <1>14

\* What minifs_open does for a file that does not exist, one after the other: a
\* chain of one page begins, the directory grows if it has no free entry, the
\* entry goes to the directory, the file is opened.
Born(b, c, new, row, t, P) ==
    /\ Begun(fat, new, t, b, row, c) /\ But(page, P, new) /\ Booked(c, t, P, filefd)
    /\ More(b, c) /\ new \in DOMAIN c \ {ROOT} /\ c[new] = row /\ new \notin DOMAIN b
Crowded(root) == EntryOf(LoadDir(fat, page, root), "ff") = 0
Widened(root, t, P, u, Q) ==
    \E add : GrowsTo(t, root, add, u) /\ But(P, Q, add) /\ (Q[add] = Blank \/ ~Reachable(add))
\* An entry is written to a directory.
Puts1(f, P, r, k, e, S) ==
    S = SaveDir(f, P, r, [j \in DOMAIN LoadDir(f, P, r) |-> IF j = k THEN e ELSE LoadDir(f, P, r)[j]])
Entered(c, f, opt, root, u, Q, new, k, ent, S) ==
    /\ Booked(c, u, Q, filefd) /\ Puts1(u, Q, root, k, ent, S) /\ Booked(c, u, S, filefd)
    /\ EntParts(ent, Name(f), 0, new, opt = "dir")
    /\ k = IF EntryOf(LoadDir(u, Q, root), "ff") = 0 THEN Len(LoadDir(u, Q, root)) + 1
          ELSE EntryOf(LoadDir(u, Q, root), "ff")
KeptNew(f, opt, root, k, ents) ==
    [(IF Crowded(root) THEN Unlinked(f, fat[root]) ELSE kept)
        EXCEPT ![f] = [len |-> 0, ok |-> k <= Len(ents) /\ opt # "dir" /\ ~Lost
                                          /\ (Crowded(root) => fat[root] = TAIL)]]
Created(b, c, d, f, opt, root, new, row, t, P, u, Q, k, ent, S, y) ==
    /\ Born(b, c, new, row, t, P)
    /\ IF Crowded(root) THEN Widened(root, t, P, u, Q) ELSE u = t /\ Q = P
    /\ Entered(c, f, opt, root, u, Q, new, k, ent, S)
    /\ y = Opened(f, opt, ent, k, root, u, S) /\ FdOK(c, y)
    /\ fat' = u /\ page' = S /\ filefd' = [filefd EXCEPT ![d] = y]
    /\ kept' = KeptNew(f, opt, root, k, LoadDir(u, Q, root))

\* What minifs_open makes of the book, the table and the pages, step by step.
LEMMA CreateIs ==
    ASSUME NEW b, Booked(b, fat, page, filefd), NEW d \in Fd, NEW f \in Files, NEW opt,
           (opt = "dir") = (f \in Dirs),
           NEW root, root = GetNode(f), root # 0, Create(d, f, opt, root)
    PROVE  \E c, new, row, t, P, u, Q, k, ent, S, y :
               Created(b, c, d, f, opt, root, new, row, t, P, u, Q, k, ent, S, y)
<1> DEFINE ents0 == LoadDir(fat, page, root)
           new == FirstOf(FreeFat(fat))
           fat1 == [fat EXCEPT ![new] = TAIL]
           grow == EntryOf(ents0, "ff") = 0
           add == FirstOf(FreeFat(fat1))
           fat2 == IF grow THEN [fat1 EXCEPT ![root] = add, ![add] = TAIL] ELSE fat1
           page1 == IF grow /\ Reachable(add) THEN [page EXCEPT ![add] = Blank] ELSE page
           ents == LoadDir(fat2, page1, root)
           k == IF EntryOf(ents, "ff") = 0 THEN Len(ents) + 1 ELSE EntryOf(ents, "ff")
           ent == [name |-> Name(f), size |-> 0, fat |-> new, dir |-> opt = "dir"]
           page2 == IF opt = "dir" /\ Reachable(new) THEN [page1 EXCEPT ![new] = Blank] ELSE page1
           E == [j \in DOMAIN ents |-> IF j = k THEN ent ELSE ents[j]]
           page3 == SaveDir(fat2, page2, root, E)
           x == Opened(f, opt, ent, k, root, fat2, page3)
           born == IF opt = "dir" /\ Reachable(new) THEN [page EXCEPT ![new] = Blank] ELSE page
           row == Row(root, k, ent)
           c == [h \in DOMAIN b \cup {new} |-> IF h = new THEN row ELSE b[h]]
<1>1. /\ FreeFat(fat) # {} /\ (grow => FreeFat(fat1) # {})
      /\ fat' = fat2 /\ page' = page3 /\ filefd' = [filefd EXCEPT ![d] = x]
  BY Zenon DEF Create
<1>2. kept' = [(IF grow THEN Unlinked(f, fat[root]) ELSE kept)
                 EXCEPT ![f] = [len |-> 0, ok |-> k <= Len(ents) /\ opt # "dir" /\ ~Lost
                                                   /\ (grow => fat[root] = TAIL)]]
  BY Zenon DEF Create
<1>3. new = FirstOf(FreeFat(fat)) /\ add = FirstOf(FreeFat(fat1))
  OBVIOUS
<1>4. fat1 = [fat EXCEPT ![new] = TAIL]
  OBVIOUS
<1>5. /\ grow => fat2 = [fat1 EXCEPT ![root] = add, ![add] = TAIL]
      /\ ~grow => fat2 = fat1
  BY Zenon
<1>6. page1 = IF grow /\ Reachable(add) THEN [page EXCEPT ![add] = Blank] ELSE page
  OBVIOUS
<1>7. page2 = IF opt = "dir" /\ Reachable(new) THEN [page1 EXCEPT ![new] = Blank] ELSE page1
  OBVIOUS
<1>8. born = IF opt = "dir" /\ Reachable(new) THEN [page EXCEPT ![new] = Blank] ELSE page
  OBVIOUS
<1>9. c = [h \in DOMAIN b \cup {new} |-> IF h = new THEN row ELSE b[h]]
  OBVIOUS
<1>10. ents = LoadDir(fat2, page1, root)
  OBVIOUS
<1>11. E = [j \in DOMAIN ents |-> IF j = k THEN ent ELSE ents[j]]
  OBVIOUS
<1>12. page3 = SaveDir(fat2, page2, root, E) /\ x = Opened(f, opt, ent, k, root, fat2, page3)
  OBVIOUS
<1>13. InDir(b, f, root) /\ root \in DOMAIN b /\ b[root].dir
  BY GetNodeIs DEF InDir
<1>14. new \in Nat /\ new \in Page
  BY <1>1, <1>3, FreePage
<1>15. EntRec(ent) /\ ent.name = Name(f) /\ ent.size = 0 /\ ent.fat = new /\ ent.dir = (opt = "dir")
  <2> HIDE DEF new
  <2>1. (opt = "dir") \in BOOLEAN /\ 0 \in Nat
    OBVIOUS
  <2>2. ent = [name |-> Name(f), size |-> 0, fat |-> new, dir |-> opt = "dir"]
    OBVIOUS
  <2>3. EntParts(ent, Name(f), 0, new, opt = "dir")
    BY <2>2, Zenon DEF EntParts
  <2> HIDE DEF ent
  <2> QED BY <1>14, <2>1, <2>3, EntRecOf, Zenon
<1>16. row = Row(root, k, ent)
  OBVIOUS
<1> HIDE DEF ents0, new, fat1, grow, add, fat2, page1, ents, k, ent, page2, E, page3, x, born, row, c
<1>17. row.dir = ent.dir /\ row.root = root
  BY <1>16 DEF Row
<1>18. row.dir => row.root = ROOT
  BY <1>13, <1>15, <1>17, MiniFsAssumption DEF InDir
<1>19. page = [p \in Page |-> page[p]]
  BY DEF Booked
<1>20. /\ born = [p \in Page |-> born[p]] /\ \A p \in Page \ {new} : born[p] = page[p]
       /\ row.dir => born[new] = Blank \/ ~Reachable(new)
  <2>1. CASE opt = "dir" /\ Reachable(new)
    <3>1. born = [page EXCEPT ![new] = Blank]
      BY <1>8, <2>1, Zenon
    <3> QED BY <1>14, <1>19, <3>1
  <2>2. CASE ~(opt = "dir" /\ Reachable(new))
    <3>1. born = page
      BY <1>8, <2>2, Zenon
    <3> QED BY <1>15, <1>17, <1>19, <2>2, <3>1
  <2> QED BY <2>1, <2>2
<1>21. /\ Booked(c, fat1, born, filefd) /\ More(b, c) /\ new \in DOMAIN c \ {ROOT} /\ c[new] = row
       /\ new \in 1 .. PAGES - 1 /\ new \notin DOMAIN b
  <2>1. Begun(fat, new, fat1, b, row, c)
    BY <1>1, <1>3, <1>4, <1>9, Zenon DEF Begun
  <2>2. But(page, born, new)
    BY <1>20, Zenon DEF But
  <2> QED BY <1>18, <1>20, <2>1, <2>2, BornKeeps
<1>22. root \in DOMAIN c /\ c[root].dir /\ InDir(c, f, root) /\ root # new
  BY <1>13, <1>21 DEF More, InDir
<1>23. /\ grow => add \in Page /\ add # new
  <2>1. ASSUME grow PROVE add \in Page /\ fat1[add] = FREE
    BY <1>1, <1>3, <2>1, FreePage
  <2>2. fat1[new] = TAIL
    <3>1. Table(fat)
      BY DEF Booked, Apart
    <3> QED BY <1>4, <1>14, <3>1 DEF Table
  <2> QED BY <2>1, <2>2, FsConstants
<1>24. page1 = [p \in Page |-> page1[p]] /\ page2 = [p \in Page |-> page2[p]]
  <2>1. page1 = [p \in Page |-> page1[p]]
    BY <1>6, <1>19
  <2> QED BY <1>7, <2>1
<1>25. \A p \in Page \ {new} : page2[p] = page1[p]
  BY <1>7, <1>24
<1>26. ASSUME grow
       PROVE  /\ GrowsTo(fat1, root, add, fat2) /\ But(born, page2, add)
              /\ page2[add] = Blank \/ ~Reachable(add)
  <2>1. FreeFat(fat1) # {} /\ fat2 = [fat1 EXCEPT ![root] = add, ![add] = TAIL]
    BY <1>1, <1>5, <1>26
  <2>2. \A p \in Page \ {add} : page2[p] = born[p]
    <3>1. ASSUME NEW p \in Page \ {add} PROVE page1[p] = page[p]
      BY <1>6, <1>19, <3>1
    <3>2. CASE opt = "dir" /\ Reachable(new)
      <4>1. page2 = [page1 EXCEPT ![new] = Blank] /\ born = [page EXCEPT ![new] = Blank]
        BY <1>7, <1>8, <3>2, Zenon
      <4> QED BY <1>19, <1>24, <3>1, <4>1
    <3>3. CASE ~(opt = "dir" /\ Reachable(new))
      <4>1. page2 = page1 /\ born = page
        BY <1>7, <1>8, <3>3, Zenon
      <4> QED BY <3>1, <4>1
    <3> QED BY <3>2, <3>3
  <2>3. page2[add] = Blank \/ ~Reachable(add)
    <3>1. page2[add] = page1[add]
      BY <1>23, <1>25, <1>26
    <3>2. ASSUME Reachable(add) PROVE page1[add] = Blank
      <4>1. page1 = [page EXCEPT ![add] = Blank]
        BY <1>6, <1>26, <3>2, Zenon
      <4> QED BY <1>19, <1>23, <1>26, <4>1
    <3> QED BY <3>1, <3>2
  <2>4. GrowsTo(fat1, root, add, fat2)
    BY <1>3, <2>1, Zenon DEF GrowsTo
  <2>5. But(born, page2, add)
    BY <1>24, <2>2, Zenon DEF But
  <2> QED BY <2>3, <2>4, <2>5
<1>27. ASSUME ~grow PROVE fat2 = fat1 /\ page2 = born
  <2>1. fat2 = fat1 /\ page1 = page
    BY <1>5, <1>6, <1>27, Zenon
  <2>2. page2 = born
    BY <1>7, <1>8, <2>1, Zenon
  <2> QED BY <2>1, <2>2
<1>28. Booked(c, fat2, page2, filefd)
  <2>1. CASE grow
    BY <1>21, <1>22, <1>26, <2>1, GrowKeeps
  <2>2. CASE ~grow
    BY <1>21, <1>27, <2>2
  <2> QED BY <2>1, <2>2
<1>29. Apart(fat2, DOMAIN c) /\ Table(fat2) /\ Proper(fat2, root) /\ Proper(fat2, new)
  BY <1>21, <1>22, <1>28 DEF Booked, Apart
<1>30. ents = LoadDir(fat2, page2, root)
  <2>1. ASSUME NEW p \in Pages(fat2, root) PROVE page1[p] = page2[p]
    <3>1. Pages(fat2, root) \cap Pages(fat2, new) = {}
      BY <1>21, <1>22, <1>29 DEF Apart
    <3>2. p \in Page /\ new \in Pages(fat2, new)
      BY <1>29, PagesOf
    <3> QED BY <1>25, <3>1, <3>2
  <2>2. Stays(fat2, fat2, root)
    BY DEF Stays
  <2> QED BY <1>10, <1>29, <2>1, <2>2, SameDir
<1>31. DOMAIN ents = Slots(fat2, root)
  BY <1>30, DirIs
<1>32. E = [j \in Slots(fat2, root) |-> E[j]]
  BY <1>11, <1>31
<1>33. Noted(c, root, k, ent)
  BY <1>15, <1>16, <1>21 DEF Noted
<1>34. ASSUME NEW j \in Slots(fat2, root) PROVE Noted(c, root, j, E[j])
  <2>1. CASE j = k
    BY <1>11, <1>31, <1>33, <2>1
  <2>2. CASE j # k
    <3>1. E[j] = ents[j]
      BY <1>11, <1>31, <2>2
    <3>2. DirOK(c, fat2, page2, root)
      BY <1>22, <1>28 DEF Booked
    <3>3. Noted(c, root, j, ents[j])
      BY <1>30, <1>31, <3>2, Zenon DEF DirOK
    <3> QED BY <3>1, <3>3
  <2> QED BY <2>1, <2>2
<1>35. Booked(c, fat2, page3, filefd)
  BY <1>12, <1>22, <1>28, <1>32, <1>34, SaveKeeps
<1>36. FdOK(c, x)
  BY <1>12, <1>15, <1>22, <1>29, <1>33, OpenedFd
<1>37. Born(b, c, new, row, fat1, born)
  <2>1. Begun(fat, new, fat1, b, row, c)
    BY <1>1, <1>3, <1>4, <1>9, Zenon DEF Begun
  <2>2. But(page, born, new)
    BY <1>20, Zenon DEF But
  <2> QED BY <1>21, <2>1, <2>2, Zenon DEF Born
<1>38. IF Crowded(root) THEN Widened(root, fat1, born, fat2, page2) ELSE fat2 = fat1 /\ page2 = born
  <2>1. Crowded(root) = grow
    BY Zenon DEF Crowded, grow, ents0
  <2>2. grow => Widened(root, fat1, born, fat2, page2)
    BY <1>26, Zenon DEF Widened
  <2> QED BY <1>27, <2>1, <2>2
<1>39. Entered(c, f, opt, root, fat2, page2, new, k, ent, page3)
  <2>1. Puts1(fat2, page2, root, k, ent, page3)
    BY <1>11, <1>12, <1>30, Zenon DEF Puts1
  <2>2. k = IF EntryOf(LoadDir(fat2, page2, root), "ff") = 0 THEN Len(LoadDir(fat2, page2, root)) + 1
          ELSE EntryOf(LoadDir(fat2, page2, root), "ff")
    BY <1>30 DEF k
  <2>3. EntParts(ent, Name(f), 0, new, opt = "dir")
    BY Zenon DEF EntParts, ent
  <2> QED BY <1>28, <1>35, <2>1, <2>2, <2>3, Zenon DEF Entered
<1>40. kept' = KeptNew(f, opt, root, k, LoadDir(fat2, page2, root))
  <2>1. Crowded(root) = grow
    BY Zenon DEF Crowded, grow, ents0
  <2> QED BY <1>30, <1>2, <2>1, Zenon DEF KeptNew
<1> HIDE DEF Born, Entered, KeptNew, Widened, Crowded
<1> QED BY <1>1, <1>12, <1>36, <1>37, <1>38, <1>39, <1>40, Zenon DEF Created

\* minifs_open of a file that does not exist.
LEMMA CreateKeeps ==
    ASSUME NEW b, Booked(b, fat, page, filefd), NEW d \in Fd, NEW f \in Files, NEW opt,
           (opt = "dir") = (f \in Dirs),
           NEW root, root = GetNode(f), root # 0, Create(d, f, opt, root)
    PROVE  \E c : Booked(c, fat', page', filefd')
<1>1. PICK c, new, row, t, P, u, Q, k, ent, S, y :
          Created(b, c, d, f, opt, root, new, row, t, P, u, Q, k, ent, S, y)
  BY CreateIs
<1>2. /\ Booked(c, u, S, filefd) /\ FdOK(c, y)
      /\ fat' = u /\ page' = S /\ filefd' = [filefd EXCEPT ![d] = y]
  BY <1>1, Zenon DEF Created, Entered
<1>3. Booked(c, u, S, [filefd EXCEPT ![d] = y])
  BY <1>2, SetFd
<1> QED BY <1>2, <1>3, Zenon

\* A call after which the rule of sharing has been kept did not break it.
LEMMA MayDeleteIs ==
    ASSUME NEW f \in Files, Delete(f), rule' = "kept" PROVE MayDelete(f)
<1>1. rule' = RuleAfter(MayDelete(f))
  BY Zenon DEF Delete
<1>2. rule' = IF MayDelete(f) THEN rule ELSE "broken"
  BY <1>1, Zenon DEF RuleAfter
<1> QED BY <1>2

LEMMA MayOpenIs ==
    ASSUME NEW f \in Files, NEW opt, Open(f, opt), rule' = "kept" PROVE MayOpen(f, opt)
<1>1. rule' = RuleAfter(MayOpen(f, opt))
  BY Zenon DEF Open
<1>2. rule' = IF MayOpen(f, opt) THEN rule ELSE "broken"
  BY <1>1, Zenon DEF RuleAfter
<1> QED BY <1>2

LEMMA MayFormatIs ==
    ASSUME Format, rule' = "kept" PROVE \A d \in Fd : ~filefd[d].open
<1>1. rule' = RuleAfter(MayFormat)
  BY Zenon DEF Format
<1>2. rule' = IF MayFormat THEN rule ELSE "broken"
  BY <1>1, Zenon DEF RuleAfter
<1>3. MayFormat
  BY <1>2
<1> QED BY <1>3, Zenon DEF MayFormat

\* No call mends the rule.
LEMMA RuleWas == ASSUME [Next]_vars, rule' = "kept" PROVE rule = "kept"
<1>1. ASSUME NEW f \in Files, Delete(f) PROVE rule = "kept"
  BY <1>1, Zenon DEF Delete, Followed
<1>2. ASSUME NEW f \in Files, NEW opt, Open(f, opt) PROVE rule = "kept"
  BY <1>2, Zenon DEF Open, Followed
<1>3. ASSUME NEW d \in Fd, Close(d) \/ CallClosed(d) PROVE rule = "kept"
  BY <1>3, Zenon DEF Close, CallClosed, Followed
<1>4. ASSUME NEW d \in Fd, NEW n, Write(d, n) PROVE rule = "kept"
  BY <1>4, Zenon DEF Write, Followed
<1>5. ASSUME NEW d \in Fd, NEW n, Read(d, n) PROVE rule = "kept"
  BY <1>5, Zenon DEF Read, Followed
<1>6. ASSUME NEW d \in Fd, NEW to, Seek(d, to) PROVE rule = "kept"
  BY <1>6, Zenon DEF Seek, Followed
<1>7. CASE Format
  BY <1>7, Zenon DEF Format, Followed
<1>8. CASE UNCHANGED vars
  BY <1>8 DEF vars
<1> QED BY <1>1, <1>2, <1>3, <1>4, <1>5, <1>6, <1>7, <1>8, Zenon DEF Next

\* No open file has the chain h, the one of the path f that is deleted, or is
\* in it.
LEMMA NoneOpen ==
    ASSUME NEW b, Booked(b, fat, page, filefd), NEW f \in Files, MayDelete(f), NEW root,
           InDir(b, f, root), NEW h \in DOMAIN b \ {ROOT}, b[h].root = root, b[h].name = Name(f),
           NEW d \in Fd, filefd[d].open
    PROVE  filefd[d].ent.fat # h /\ filefd[d].root # h
<1>1. PICK x : x = filefd[d]
  OBVIOUS
<1>2. FdOK(b, x) /\ BookOK(b)
  BY <1>1 DEF Booked
<1>3. FdMoves(b, x)
  BY <1>2 DEF FdOK
<1>4. x.ent.name = Name(x.path) /\ InDir(b, x.path, x.root) /\ x.path \in Files
  BY <1>3 DEF FdMoves, FdRec
<1>5. x.path # f /\ x.path \notin Under(f)
  BY <1>1, Zenon DEF MayDelete, OpenOn
<1>6. Len(f) \in 1 .. 2 /\ Len(x.path) \in 1 .. 2
  BY <1>4, Paths
<1>7. ASSUME x.ent.fat = h PROVE FALSE
  <2>1. b[h] = Row(x.root, x.index, x.ent)
    BY <1>3, <1>7, OfFd
  <2>2. x.root = root /\ Name(x.path) = Name(f)
    BY <1>4, <2>1 DEF Row
  <2>3. Len(x.path) = Len(f)
    BY <1>4, <1>6, <2>2 DEF InDir
  <2>4. x.path[1] = f[1]
    <3>1. CASE Len(f) = 1
      BY <2>2, <2>3, <3>1 DEF Name
    <3>2. CASE Len(f) # 1
      BY <1>4, <2>2, <3>2 DEF InDir
    <3> QED BY <3>1, <3>2
  <2> QED BY <1>4, <1>5, <2>2, <2>3, <2>4, SamePath
<1>8. ASSUME x.root = h PROVE FALSE
  <2>1. b[h].dir /\ b[h].name = x.path[1]
    BY <1>4, <1>8 DEF InDir
  <2>2. root = ROOT
    BY <1>2, <2>1 DEF BookOK
  <2>3. Len(f) = 1
    BY <2>2 DEF InDir
  <2>4. x.path[1] = f[1]
    BY <2>1, <2>3 DEF Name
  <2> QED BY <1>4, <1>5, <2>3, <2>4 DEF Under
<1> QED BY <1>1, <1>7, <1>8

\* What del_all leaves: the pages of the other chains, and the table but for
\* the chain of one file of the directory.
AllDeleted(b, h, tail, s) ==
    /\ \A r \in DOMAIN b \ {h} : \A p \in Pages(fat, r) : s.page[p] = page[p]
    /\ \/ s.fat = fat
       \/ \E n \in DOMAIN b \ {ROOT, h} :
             b[n].root = h /\ ~b[n].dir /\ s.fat = Released(fat, n, tail)

\* minifs_delall gives the chains below a directory back, and no others.
LEMMA DelAllIs ==
    ASSUME NEW b, Booked(b, fat, page, filefd), NEW h \in DOMAIN b, b[h].dir, h # ROOT,
           NEW tail \in BOOLEAN
    PROVE  AllDeleted(b, h, tail, DelAll(fat, page, h, tail))
<1>0. PICK s : s = DelAll(fat, page, h, tail)
  OBVIOUS
<1>1. PICK ents : ents = LoadDir(fat, page, h)
  OBVIOUS
<1>2. PICK used : used = {k \in DOMAIN ents : ents[k].name \notin {"ff", "00"}}
  OBVIOUS
<1>3. PICK E : E = [k \in DOMAIN ents |-> NoEnt]
  OBVIOUS
<1>4. /\ s.fat = IF used = {} THEN fat ELSE Released(fat, ents[FirstOf(used)].fat, tail)
      /\ s.page = SaveDir(fat, page, h, E)
  <2>1. PICK t : t = IF used = {} THEN fat ELSE Released(fat, ents[FirstOf(used)].fat, tail)
    OBVIOUS
  <2>2. s = [fat |-> t, page |-> SaveDir(fat, page, h, E)]
    BY <1>0, <1>1, <1>2, <1>3, <2>1, Zenon DEF DelAll
  <2> QED BY <2>1, <2>2
<1>5. BookOK(b) /\ Apart(fat, DOMAIN b) /\ Table(fat) /\ Proper(fat, h) /\ DirOK(b, fat, page, h)
  BY DEF Booked, Apart
<1>6. DOMAIN ents = Slots(fat, h)
  BY <1>1, DirIs
<1>7. ASSUME NEW r \in DOMAIN b \ {h}, NEW p \in Pages(fat, r) PROVE s.page[p] = page[p]
  <2>1. p \in Page /\ p \notin Pages(fat, h)
    BY <1>5, <1>7, PagesOf DEF Apart
  <2>2. E = [j \in Slots(fat, h) |-> E[j]]
    BY <1>3, <1>6
  <2>3. \A q \in Page : q \notin Pages(fat, h) => s.page[q] = page[q]
    BY <1>4, <1>5, <2>2, SavedDir
  <2> QED BY <2>1, <2>3
<1>8. ASSUME used # {}
      PROVE  \E n \in DOMAIN b \ {ROOT, h} :
                b[n].root = h /\ ~b[n].dir /\ s.fat = Released(fat, n, tail)
  <2>1. used \subseteq Nat
    BY <1>2, <1>6 DEF Slots
  <2>2. PICK m : m = FirstOf(used)
    OBVIOUS
  <2>3. m \in DOMAIN ents /\ Used(ents[m])
    BY <1>2, <1>8, <2>1, <2>2, FirstIn DEF Used
  <2>4. Noted(b, h, m, ents[m])
    BY <1>1, <1>5, <2>3, Zenon DEF DirOK
  <2>5. PICK n : n = ents[m].fat
    OBVIOUS
  <2>6. n \in DOMAIN b \ {ROOT} /\ b[n] = Row(h, m, ents[m])
    BY <2>3, <2>4, <2>5 DEF Noted
  <2>7. b[n].root = h
    BY <2>6 DEF Row
  <2>8. ~b[n].dir /\ n # h
    BY <1>5, <2>6, <2>7 DEF BookOK
  <2>9. s.fat = Released(fat, n, tail)
    BY <1>4, <1>8, <2>2, <2>5, Zenon
  <2> QED BY <2>6, <2>7, <2>8, <2>9
<1> QED BY <1>0, <1>4, <1>7, <1>8, Zenon DEF AllDeleted

\* minifs_delete gives chains back and strikes the entry out, or the node is not
\* found.
Removes(b, f, G, root, k, P1) ==
    /\ InDir(b, f, root) /\ k \in DOMAIN LoadDir(fat, page, root)
    /\ LoadDir(fat, page, root)[k].name = Name(f)
    /\ Goners(b, G, root, k) /\ Left(b, G, fat, fat') /\ LeftPages(b, G, fat, page, P1)
    /\ Shut(G, filefd) /\ Struck(fat', P1, root, k, LoadDir(fat, page, root), page')

\* What minifs_delete removes, if it removes anything.
LEMMA DeleteIs ==
    ASSUME NEW b, Booked(b, fat, page, filefd), NEW f \in Files, Delete(f), rule' = "kept"
    PROVE  \/ fat' = fat /\ page' = page
           \/ \E G, root, k, P1 : Removes(b, f, G, root, k, P1)
<1>1. PICK root : root = GetNode(f)
  OBVIOUS
<1>2. PICK ents : ents = LoadDir(fat, page, root)
  OBVIOUS
<1>3. PICK k : k = EntryOf(ents, Name(f))
  OBVIOUS
<1>4. PICK h : h = ents[k].fat
  OBVIOUS
<1>5. PICK E : E = [j \in DOMAIN ents |-> IF j = k THEN NoEnt ELSE ents[j]]
  OBVIOUS
<1>6. /\ MayDelete(f) /\ filefd' = filefd
      /\ \/ /\ root # 0 /\ k # 0
            /\ \E tail, inner \in BOOLEAN :
                  LET s == IF ents[k].dir THEN DelAll(fat, page, h, inner)
                           ELSE [fat |-> fat, page |-> page]
                  IN  /\ fat' = Released(s.fat, h, tail)
                      /\ page' = SaveDir(fat', s.page, root, E)
         \/ fat' = fat /\ page' = page
  BY <1>1, <1>2, <1>3, <1>4, <1>5, MayDeleteIs, Zenon DEF Delete
<1>7. CASE fat' = fat /\ page' = page
  BY <1>7
<1>8. ASSUME root # 0, k # 0, NEW tail \in BOOLEAN, NEW inner \in BOOLEAN, NEW s,
             s = IF ents[k].dir THEN DelAll(fat, page, h, inner) ELSE [fat |-> fat, page |-> page],
             fat' = Released(s.fat, h, tail), page' = SaveDir(fat', s.page, root, E)
      PROVE  \E G, P1 : Removes(b, f, G, root, k, P1)
  <2>1. InDir(b, f, root) /\ BookOK(b) /\ Apart(fat, DOMAIN b)
    BY <1>1, <1>8, GetNodeIs DEF Booked
  <2>2. root \in DOMAIN b /\ b[root].dir
    BY <2>1 DEF InDir
  <2>3. k \in DOMAIN ents /\ ents[k].name = Name(f)
    <3>1. EntryOf(LoadDir(fat, page, root), Name(f)) # 0
      BY <1>2, <1>3, <1>8, Zenon
    <3>2. /\ EntryOf(LoadDir(fat, page, root), Name(f)) \in DOMAIN LoadDir(fat, page, root)
          /\ LoadDir(fat, page, root)[EntryOf(LoadDir(fat, page, root), Name(f))].name = Name(f)
      BY <3>1, EntryIs
    <3> QED BY <1>2, <1>3, <3>2, Zenon
  <2>4. Noted(b, root, k, ents[k]) /\ Used(ents[k])
    <3>1. Noted(b, root, k, ents[k])
      BY <1>2, <2>2, <2>3 DEF Booked, DirOK
    <3> QED BY <2>3, <3>1, Paths DEF Used
  <2>5. h \in DOMAIN b \ {ROOT} /\ b[h] = Row(root, k, ents[k])
    BY <1>4, <2>4 DEF Noted
  <2>6. b[h].root = root /\ b[h].index = k /\ b[h].name = Name(f) /\ b[h].dir = ents[k].dir
    BY <2>3, <2>5 DEF Row
  <2>7. root # h
    BY <2>1, <2>2, <2>5, <2>6 DEF BookOK
  <2>8. ASSUME NEW d \in Fd, filefd[d].open PROVE filefd[d].ent.fat # h /\ filefd[d].root # h
    BY <1>6, <2>1, <2>5, <2>6, <2>8, NoneOpen
  <2>9. CASE s.fat = fat /\ \A r \in DOMAIN b \ {h} : \A p \in Pages(fat, r) : s.page[p] = page[p]
    <3>1. PICK G : G = {h}
      OBVIOUS
    <3>2. Goners(b, G, root, k)
      BY <2>2, <2>5, <2>6, <2>7, <3>1 DEF Goners
    <3>3. Left(b, G, fat, fat')
      BY <1>8, <2>1, <2>5, <2>9, <3>1, ReleasedApart DEF Left
    <3>4. LeftPages(b, G, fat, page, s.page)
      BY <2>9, <3>1 DEF LeftPages
    <3>5. Shut(G, filefd)
      BY <2>8, <3>1 DEF Shut
    <3>6. Struck(fat', s.page, root, k, LoadDir(fat, page, root), page')
      BY <1>2, <1>5, <1>8, Zenon DEF Struck
    <3>7. Removes(b, f, G, root, k, s.page)
      BY <1>2, <2>1, <2>3, <3>2, <3>3, <3>4, <3>5, <3>6, Zenon DEF Removes
    <3> QED BY <3>7, Zenon
  <2>10. CASE ~ents[k].dir
    <3>1. s.fat = fat /\ s.page = page
      BY <1>8, <2>10
    <3> QED BY <2>9, <3>1, Zenon
  <2>11. CASE ents[k].dir
    <3>1. s = DelAll(fat, page, h, inner) /\ root = ROOT
      BY <1>8, <2>1, <2>5, <2>6, <2>11 DEF BookOK
    <3>2. /\ \A r \in DOMAIN b \ {h} : \A p \in Pages(fat, r) : s.page[p] = page[p]
          /\ \/ s.fat = fat
             \/ \E n \in DOMAIN b \ {ROOT, h} :
                   b[n].root = h /\ ~b[n].dir /\ s.fat = Released(fat, n, inner)
      <4>1. h \in DOMAIN b /\ b[h].dir /\ h # ROOT
        BY <2>5, <2>6, <2>11
      <4>2. AllDeleted(b, h, inner, DelAll(fat, page, h, inner))
        BY <4>1, DelAllIs
      <4> QED BY <3>1, <4>2, Zenon DEF AllDeleted
    <3>3. ASSUME NEW n \in DOMAIN b \ {ROOT, h}, b[n].root = h, ~b[n].dir,
                 s.fat = Released(fat, n, inner)
          PROVE  \E G, P1 : Removes(b, f, G, root, k, P1)
      <4>1. PICK G : G = {h, n}
        OBVIOUS
      <4>2. Goners(b, G, root, k)
        BY <2>2, <2>5, <2>6, <2>7, <3>1, <3>3, <4>1 DEF Goners
      <4>3. Apart(s.fat, DOMAIN b \ {n}) /\ \A r \in DOMAIN b \ {n} : Stays(fat, s.fat, r)
        BY <2>1, <3>3, ReleasedApart
      <4>4. /\ Apart(fat', (DOMAIN b \ {n}) \ {h})
            /\ \A r \in (DOMAIN b \ {n}) \ {h} : Stays(s.fat, fat', r)
        <5>1. h \in DOMAIN b \ {n}
          BY <2>5, <3>3
        <5> QED BY <1>8, <4>3, <5>1, ReleasedApart
      <4>5. DOMAIN b \ G = (DOMAIN b \ {n}) \ {h}
        BY <4>1
      <4>6. Left(b, G, fat, fat')
        BY <4>3, <4>4, <4>5 DEF Stays, Left
      <4>7. LeftPages(b, G, fat, page, s.page)
        BY <3>2, <4>1 DEF LeftPages
      <4>8. ASSUME NEW d \in Fd, filefd[d].open
            PROVE  filefd[d].root \notin G /\ filefd[d].ent.fat \notin G
        <5>1. PICK x : x = filefd[d]
          OBVIOUS
        <5>2. FdMoves(b, x)
          BY <4>8, <5>1 DEF Booked, FdOK
        <5>3. x.ent.fat # h /\ x.root # h
          BY <2>8, <4>8, <5>1
        <5>4. b[x.root].dir
          BY <5>2 DEF FdMoves, InDir
        <5>5. x.root # n
          BY <3>3, <5>4
        <5>6. ASSUME x.ent.fat = n PROVE FALSE
          <6>1. b[n] = Row(x.root, x.index, x.ent)
            BY <5>2, <5>6, OfFd
          <6> QED BY <3>3, <5>3, <6>1 DEF Row
        <5> QED BY <4>1, <5>1, <5>3, <5>5, <5>6
      <4>9. Struck(fat', s.page, root, k, LoadDir(fat, page, root), page') /\ Shut(G, filefd)
        BY <1>2, <1>5, <1>8, <4>8, Zenon DEF Struck, Shut
      <4>10. Removes(b, f, G, root, k, s.page)
        BY <1>2, <2>1, <2>3, <4>2, <4>6, <4>7, <4>9, Zenon DEF Removes
      <4> QED BY <4>10, Zenon
    <3> QED BY <2>9, <3>2, <3>3
  <2> QED BY <2>10, <2>11
<1>9. ASSUME root # 0, k # 0, NEW tail \in BOOLEAN, NEW inner \in BOOLEAN,
             LET s == IF ents[k].dir THEN DelAll(fat, page, h, inner)
                      ELSE [fat |-> fat, page |-> page]
             IN  /\ fat' = Released(s.fat, h, tail)
                 /\ page' = SaveDir(fat', s.page, root, E)
      PROVE  \E G, P1 : Removes(b, f, G, root, k, P1)
  <2>1. PICK s : s = IF ents[k].dir THEN DelAll(fat, page, h, inner)
                     ELSE [fat |-> fat, page |-> page]
    OBVIOUS
  <2>2. fat' = Released(s.fat, h, tail) /\ page' = SaveDir(fat', s.page, root, E)
    BY <1>9, <2>1, Zenon
  <2> QED BY <1>8, <1>9, <2>1, <2>2
<1> QED BY <1>6, <1>7, <1>9, Zenon

\* minifs_delete
LEMMA DeleteKeeps ==
    ASSUME NEW b, Booked(b, fat, page, filefd), NEW f \in Files, Delete(f), rule' = "kept"
    PROVE  \E c : Booked(c, fat', page', filefd')
<1>1. filefd' = filefd
  BY DEF Delete
<1>2. CASE fat' = fat /\ page' = page
  BY <1>1, <1>2
<1>3. ASSUME NEW G, NEW root, NEW k, NEW P1, Removes(b, f, G, root, k, P1)
      PROVE  \E c : Booked(c, fat', page', filefd')
  <2>1. /\ Goners(b, G, root, k) /\ Left(b, G, fat, fat') /\ LeftPages(b, G, fat, page, P1)
        /\ Shut(G, filefd) /\ Struck(fat', P1, root, k, LoadDir(fat, page, root), page')
    BY <1>3, Zenon DEF Removes
  <2>2. \E c : Booked(c, fat', page', filefd)
    BY <2>1, RemoveKeeps
  <2> QED BY <1>1, <2>2, Zenon
<1> QED BY <1>2, <1>3, DeleteIs

-----------------------------------------------------------------------------
(* Every behaviour.                                                          *)

\* There is a book that the chains, the directories and the open files agree
\* with, while the programs keep the rule of sharing.
Ledger == rule = "kept" => \E b : Booked(b, fat, page, filefd)

\* The disk is formatted and no file is open.
LEMMA InitBooked == Init => Ledger
<1> SUFFICES ASSUME Init PROVE Ledger
  OBVIOUS
<1>1. fat = Formatted /\ page = [p \in Page |-> Blank] /\ filefd = [d \in Fd |-> Closed]
  BY Zenon DEF Init
<1>2. page = [p \in Page |-> page[p]] /\ page[ROOT] = Blank
  BY <1>1, FsConstants
<1>3. filefd = [d \in Fd |-> filefd[d]] /\ \A d \in Fd : filefd[d] = Closed
  BY <1>1
<1>4. ~Closed.open
  <2>1. PICK z : z = FALSE
    OBVIOUS
  <2>2. Closed = [open |-> z]
    BY <2>1, Zenon DEF Closed
  <2>3. Closed.open = z
    BY <2>2
  <2> QED BY <2>1, <2>3, Zenon
<1>5. \A d \in Fd : ~filefd[d].open
  BY <1>3, <1>4, Zenon
<1>6. \E b : Booked(b, Formatted, page, filefd)
  BY <1>2, <1>3, <1>5, FormatBooked
<1> QED BY <1>1, <1>6, Zenon DEF Ledger

\* minifs_open
LEMMA OpenKeeps ==
    ASSUME NEW b, Booked(b, fat, page, filefd), NEW f \in Files, NEW opt, Open(f, opt)
    PROVE  \E c : Booked(c, fat', page', filefd')
<1>1. PICK root : root = GetNode(f)
  OBVIOUS
<1>2. /\ (opt = "dir") = (f \in Dirs)
      /\ \E d \in Fd : \/ root # 0 /\ (OpenOld(d, f, opt, root) \/ Create(d, f, opt, root))
                       \/ UNCHANGED <<fat, page, filefd, kept>>
  BY <1>1, Zenon DEF Open
<1>3. PICK d \in Fd : \/ root # 0 /\ (OpenOld(d, f, opt, root) \/ Create(d, f, opt, root))
                      \/ UNCHANGED <<fat, page, filefd, kept>>
  BY <1>2
<1>4. CASE root # 0 /\ OpenOld(d, f, opt, root)
  BY <1>1, <1>4, OpenOldKeeps
<1>5. CASE root # 0 /\ Create(d, f, opt, root)
  BY <1>1, <1>2, <1>5, CreateKeeps
<1>6. CASE UNCHANGED <<fat, page, filefd, kept>>
  BY <1>6
<1> QED BY <1>3, <1>4, <1>5, <1>6

\* minifs_format
LEMMA FormatKeeps ==
    ASSUME NEW b, Booked(b, fat, page, filefd), Format, rule' = "kept"
    PROVE  \E c : Booked(c, fat', page', filefd')
<1>1. /\ \A d \in Fd : ~filefd[d].open
      /\ fat' = Formatted /\ page' = [page EXCEPT ![ROOT] = Blank] /\ filefd' = filefd
  BY MayFormatIs, Zenon DEF Format
<1>2. page = [p \in Page |-> page[p]] /\ filefd = [d \in Fd |-> filefd[d]]
  BY DEF Booked
<1>3. page' = [p \in Page |-> page'[p]] /\ page'[ROOT] = Blank
  <2>1. PICK Q : Q = [page EXCEPT ![ROOT] = Blank]
    OBVIOUS
  <2>2. Q = [p \in Page |-> Q[p]] /\ Q[ROOT] = Blank
    <3>1. DOMAIN page = Page /\ ROOT \in Page
      BY <1>2, FsConstants
    <3> QED BY ONLY <2>1, <3>1
  <2> QED BY <1>1, <2>1, <2>2, Zenon
<1>4. \E c : Booked(c, Formatted, page', filefd)
  BY <1>1, <1>2, <1>3, FormatBooked
<1> QED BY <1>1, <1>4, Zenon

\* Every call.
LEMMA StepBooked == Ledger /\ [Next]_vars => Ledger'
<1> SUFFICES ASSUME Ledger, [Next]_vars, rule' = "kept" PROVE \E c : Booked(c, fat', page', filefd')
  BY Zenon DEF Ledger
<1>1. PICK b : Booked(b, fat, page, filefd)
  BY RuleWas DEF Ledger
<1>2. ASSUME NEW d \in Fd, CallClosed(d) PROVE \E c : Booked(c, fat', page', filefd')
  BY <1>1, <1>2 DEF CallClosed
<1>3. ASSUME NEW f \in Files, Delete(f) PROVE \E c : Booked(c, fat', page', filefd')
  BY <1>1, <1>3, DeleteKeeps
<1>4. ASSUME NEW f \in Files, NEW opt, Open(f, opt) PROVE \E c : Booked(c, fat', page', filefd')
  BY <1>1, <1>4, OpenKeeps
<1>5. ASSUME NEW d \in Fd, Close(d) PROVE \E c : Booked(c, fat', page', filefd')
  BY <1>1, <1>5, CloseKeeps
<1>6. ASSUME NEW d \in Fd, NEW n \in Lengths, Write(d, n)
      PROVE  \E c : Booked(c, fat', page', filefd')
  BY <1>1, <1>6, FsConstants, WriteKeeps
<1>7. ASSUME NEW d \in Fd, NEW n \in Lengths, Read(d, n)
      PROVE  \E c : Booked(c, fat', page', filefd')
  BY <1>1, <1>7, FsConstants, ReadKeeps
<1>8. ASSUME NEW d \in Fd, NEW to \in Places, Seek(d, to)
      PROVE  \E c : Booked(c, fat', page', filefd')
  BY <1>1, <1>8, FsConstants, SeekKeeps
<1>9. CASE Format
  BY <1>1, <1>9, FormatKeeps
<1>10. CASE UNCHANGED vars
  BY <1>1, <1>10 DEF vars
<1> QED BY <1>2, <1>3, <1>4, <1>5, <1>6, <1>7, <1>8, <1>9, <1>10, Zenon DEF Next


\* What the book says of the entries of a directory.
LEMMA ListedAre ==
    ASSUME NEW b, Booked(b, fat, page, filefd), NEW r \in DOMAIN b, b[r].dir, NEW e \in Listed(r)
    PROVE  /\ e[3].fat \in DOMAIN b \ {ROOT} /\ b[e[3].fat] = Row(r, e[2], e[3])
           /\ e = <<r, e[2], LoadDir(fat, page, r)[e[2]]>>
<1>1. PICK ents : ents = LoadDir(fat, page, r)
  OBVIOUS
<1>2. PICK k \in DOMAIN ents : ents[k].name \notin {"ff", "00"} /\ e = <<r, k, ents[k]>>
  BY <1>1, Zenon DEF Listed
<1>3. e[2] = k /\ e[3] = ents[k]
  BY <1>2
<1>4. Noted(b, r, k, ents[k])
  BY <1>1, <1>2 DEF Booked, DirOK
<1>5. Used(ents[k])
  BY <1>2 DEF Used
<1> QED BY <1>1, <1>2, <1>3, <1>4, <1>5, Zenon DEF Noted

\* The chains of a book are apart, and so are those of the directories and files.
LEMMA BookedApart == Ledger => ChainsApart
<1> SUFFICES ASSUME Ledger, rule = "kept" PROVE ChainsApart
  BY Zenon DEF ChainsApart, Followed
<1>1. PICK b : Booked(b, fat, page, filefd)
  BY DEF Ledger
<1>2. BookOK(b) /\ Apart(fat, DOMAIN b)
  BY <1>1 DEF Booked
<1>3. ASSUME NEW e \in AllEnts
      PROVE  \E r : /\ r \in DOMAIN b /\ e[3].fat \in DOMAIN b \ {ROOT}
                    /\ b[e[3].fat] = Row(r, e[2], e[3])
                    /\ e = <<r, e[2], LoadDir(fat, page, r)[e[2]]>>
  <2>1. CASE e \in Listed(ROOT)
    BY <1>1, <1>2, <2>1, ListedAre DEF BookOK
  <2>2. CASE e \notin Listed(ROOT)
    <3>1. PICK o \in Listed(ROOT) : o[3].dir /\ e \in Listed(o[3].fat)
      BY <1>3, <2>2, Zenon DEF AllEnts
    <3>2. o[3].fat \in DOMAIN b /\ b[o[3].fat] = Row(ROOT, o[2], o[3])
      BY <1>1, <1>2, ListedAre DEF BookOK
    <3>3. b[o[3].fat].dir
      BY <3>1, <3>2 DEF Row
    <3> QED BY <1>1, <3>1, <3>2, <3>3, ListedAre
  <2> QED BY <2>1, <2>2
<1>4. ASSUME NEW e \in AllEnts, NEW o \in AllEnts, e[3].fat = o[3].fat PROVE e = o
  <2>1. PICK r : /\ b[e[3].fat] = Row(r, e[2], e[3])
                 /\ e = <<r, e[2], LoadDir(fat, page, r)[e[2]]>>
    BY <1>3, Zenon
  <2>2. PICK s : /\ b[o[3].fat] = Row(s, o[2], o[3])
                 /\ o = <<s, o[2], LoadDir(fat, page, s)[o[2]]>>
    BY <1>3, Zenon
  <2>3. r = s /\ e[2] = o[2]
    BY <1>4, <2>1, <2>2 DEF Row
  <2> QED BY <2>1, <2>2, <2>3, Zenon
<1>5. ASSUME NEW e \in AllEnts
      PROVE  LET c == Chain(fat, e[3].fat)
             IN  /\ Len(c) < PAGES /\ c # <<>> /\ fat[c[Len(c)]] = TAIL
                 /\ \A o \in AllEnts \ {e} : Range(c) \cap Range(Chain(fat, o[3].fat)) = {}
  <2>1. PICK h : h = e[3].fat
    OBVIOUS
  <2>2. PICK c : c = Chain(fat, h)
    OBVIOUS
  <2>3. h \in DOMAIN b
    BY <1>3, <2>1
  <2>4. Goes(fat, c)
    BY <1>2, <2>2, <2>3 DEF Apart, Proper
  <2>5. Len(c) < PAGES /\ c # <<>> /\ fat[c[Len(c)]] = TAIL
    <3>1. Len(c) >= 1 /\ fat[c[Len(c)]] = TAIL
      BY <2>4, Zenon DEF Goes
    <3>2. Len(c) <= PAGES - 1 /\ Len(c) \in Nat
      BY <2>4, ChainFits, GoesParts
    <3>3. c # <<>>
      BY <3>1
    <3>4. Len(c) < PAGES
      BY <3>2, FsConstants
    <3> QED BY <3>1, <3>3, <3>4
  <2>6. ASSUME NEW o \in AllEnts \ {e} PROVE Range(c) \cap Range(Chain(fat, o[3].fat)) = {}
    <3>1. PICK g : g = o[3].fat
      OBVIOUS
    <3>2. g # h /\ g \in DOMAIN b
      BY <1>3, <1>4, <2>1, <3>1
    <3>3. Pages(fat, h) \cap Pages(fat, g) = {}
      BY <1>2, <2>3, <3>2 DEF Apart
    <3>4. Goes(fat, Chain(fat, g))
      BY <1>2, <3>2 DEF Apart, Proper
    <3>5. Range(c) = Pages(fat, h) /\ Range(Chain(fat, g)) = Pages(fat, g)
      <4>1. ASSUME NEW u, Goes(fat, u) PROVE Range(u) = {u[i] : i \in 1 .. Len(u)}
        BY <4>1 DEF Goes, Range
      <4> QED BY <2>2, <2>4, <3>4, <4>1, Zenon DEF Pages
    <3> QED BY <3>1, <3>3, <3>5, Zenon
  <2> QED BY <2>1, <2>2, <2>5, <2>6, Zenon
<1> QED BY <1>5, Zenon DEF ChainsApart

\* No page is in the chains of two entries, and every chain ends, whatever
\* programs that keep the rule of sharing open, write, move in, close and delete,
\* also when the disk runs full in the middle of flushfile, a directory grows, or
\* minifs_delete tests a variable that was never set.  Nothing is said once a file
\* was deleted or its disk formatted while it was open.
THEOREM ChainsCorrect == Spec => []ChainsApart
<1>1. Spec => []Ledger
  BY InitBooked, StepBooked, PTL DEF Spec
<1> QED BY <1>1, BookedApart, PTL

-----------------------------------------------------------------------------
(* Positions and pages.                                                      *)

\* The page of a position, and the place in it.
LEMMA PageOf ==
    ASSUME NEW j \in Nat
    PROVE  /\ j \div PAGE \in Nat /\ j % PAGE \in 0 .. PAGE - 1
           /\ j = (j \div PAGE) * PAGE + (j % PAGE) /\ (j % PAGE) + 1 \in 1 .. PAGE
<1>1. PICK e \in Nat \ {0} : e = PAGE
  BY FsConstants
<1>2. j \div e \in Nat /\ j % e \in 0 .. e - 1 /\ j = e * (j \div e) + (j % e)
  BY <1>1
<1>3. (j % e) + 1 \in 1 .. e
  BY <1>2
<1> QED BY <1>1, <1>2, <1>3

\* A position lies before the k-th page if its page does.
LEMMA PageFrom ==
    ASSUME NEW j \in Nat, NEW k \in Nat
    PROVE  (j \div PAGE < k) <=> (j < k * PAGE)
<1>1. PICK e \in Nat \ {0} : e = PAGE
  BY FsConstants
<1>2. PICK q \in Nat, r \in 0 .. e - 1 : q = j \div PAGE /\ j = q * e + r
  BY <1>1, PageOf
<1>3. CASE q < k
  <2>1. k - q - 1 \in Nat
    BY <1>3
  <2>2. PICK m \in Nat : m = k - q - 1
    BY <2>1
  <2>3. k = q + 1 + m
    BY <2>2
  <2>4. k * e = q * e + e + m * e /\ m * e \in Nat
    BY <2>3
  <2> QED BY <1>1, <1>2, <1>3, <2>4
<1>4. CASE ~(q < k)
  <2>1. PICK m \in Nat : q = k + m
    <3>1. q - k \in Nat /\ q = k + (q - k)
      BY <1>4
    <3> QED BY <3>1
  <2>2. q * e = k * e + m * e /\ m * e \in Nat
    BY <2>1
  <2> QED BY <1>1, <1>2, <1>4, <2>2
<1> QED BY <1>3, <1>4

\* The first position of the k-th page.
LEMMA PageBegins ==
    ASSUME NEW k \in Nat
    PROVE  /\ k * PAGE \in Nat /\ (k * PAGE) % PAGE = 0
           /\ \A m \in Nat : (k * PAGE < m * PAGE <=> k < m) /\ (k * PAGE <= m * PAGE <=> k <= m)
<1>1. PICK e \in Nat \ {0} : e = PAGE
  BY FsConstants
<1>2. k * e \in Nat
  OBVIOUS
<1>3. PICK j \in Nat : j = k * e
  BY <1>2
<1>4. PICK q \in Nat, r \in 0 .. e - 1 : q = j \div PAGE /\ r = j % PAGE /\ j = q * e + r
  BY <1>1, PageOf
<1>5. ASSUME NEW m \in Nat, NEW n \in Nat, m < n PROVE m * e + e <= n * e
  <2>1. PICK i \in Nat : n = m + 1 + i
    <3>1. n - m - 1 \in Nat /\ n = m + 1 + (n - m - 1)
      BY <1>5
    <3> QED BY <3>1
  <2>2. n * e = m * e + e + i * e /\ i * e \in Nat
    BY <2>1
  <2>3. m * e \in Nat
    OBVIOUS
  <2> QED BY <2>2, <2>3
<1>6. q = k
  <2>1. ~(q < k)
    <3>1. q < k => q * e + e <= k * e
      BY <1>5
    <3>2. q * e \in Nat
      OBVIOUS
    <3> QED BY <1>3, <1>4, <3>1, <3>2
  <2>2. ~(k < q)
    <3>1. k < q => k * e + e <= q * e
      BY <1>5
    <3>2. q * e \in Nat
      OBVIOUS
    <3> QED BY <1>2, <1>3, <1>4, <3>1, <3>2
  <2> QED BY <2>1, <2>2
<1>7. r = 0
  BY <1>2, <1>3, <1>4, <1>6
<1>8. ASSUME NEW m \in Nat
      PROVE  (k * e < m * e <=> k < m) /\ (k * e <= m * e <=> k <= m)
  <2>1. (k < m => k * e + e <= m * e) /\ (m < k => m * e + e <= k * e)
    BY <1>5
  <2>2. k * e \in Nat /\ m * e \in Nat
    OBVIOUS
  <2>3. k = m => k * e = m * e
    OBVIOUS
  <2>4. PICK a \in Nat, b \in Nat : a = k * e /\ b = m * e
    BY <2>2
  <2>5. (k < m => a + e <= b) /\ (m < k => b + e <= a) /\ (k = m => a = b)
    BY <2>1, <2>3, <2>4
  <2>6. (a < b <=> k < m) /\ (a <= b <=> k <= m)
    BY <2>5
  <2> QED BY <2>4, <2>6
<1> QED BY <1>1, <1>2, <1>3, <1>4, <1>7, <1>8

\* A position that begins a page; the window holds whole pages.
LEMMA BeginsPage ==
    ASSUME NEW j \in Nat, j % PAGE = 0
    PROVE  \E k \in Nat : j = k * PAGE /\ k = j \div PAGE
<1>1. PICK e \in Nat \ {0} : e = PAGE
  BY FsConstants
<1>2. PICK q \in Nat : q = j \div PAGE /\ j = q * e + 0
  BY <1>1, PageOf
<1> QED BY <1>1, <1>2

\* The cache has room for a number of whole pages.
LEMMA CachePages ==
    \E w \in Nat \ {0} : CACHE = w * PAGE
<1>1. CACHE \in Nat /\ CACHE # 0 /\ CACHE % PAGE = 0
  BY FsConstants
<1>2. PICK w \in Nat : CACHE = w * PAGE
  BY <1>1, BeginsPage
<1>3. w # 0
  BY <1>1, <1>2, FsConstants
<1> QED BY <1>2, <1>3

-----------------------------------------------------------------------------
(* Chains that grow.                                                         *)

\* The free pages of a table can be counted.
LEMMA FreeCount ==
    ASSUME NEW f
    PROVE  IsFiniteSet(FreeFat(f)) /\ Cardinality(FreeFat(f)) \in Nat /\ FreeFat(f) \subseteq Nat
<1>1. IsFiniteSet(ROOT .. PAGES - 1)
  <2>1. ROOT \in Int /\ PAGES - 1 \in Int
    BY FsConstants
  <2> QED BY <2>1, FS_Interval, Zenon
<1>2. FreeFat(f) \subseteq ROOT .. PAGES - 1
  BY DEF FreeFat
<1>3. IsFiniteSet(FreeFat(f))
  BY <1>1, <1>2, FS_Subset, Zenon
<1>4. FreeFat(f) \subseteq Nat
  BY <1>2, FsConstants
<1> QED BY <1>3, <1>4, FS_CardinalityType, Zenon

\* A chain is longer by what it grows, as long as there are free pages.
LEMMA GrownLonger ==
    ASSUME NEW f, NEW H, NEW h \in H, Apart(f, H), NEW n \in Nat, n <= Cardinality(FreeFat(f))
    PROVE  Longer(Chain(f, h), Chain(Grown(f, h, n), h), n)
<1> DEFINE W == CHOOSE w : Grows(f, h, n, w)
<1>1. Grows(f, h, n, W)
  <2>1. \E w : Grows(f, h, n, w)
    BY GrowsOn
  <2> QED BY <2>1, Zenon
<1>2. Grown(f, h, n) = W[n]
  BY Zenon DEF Grown, Grows
<1> HIDE DEF W
<1>3. W = [k \in 0 .. n |-> IF k = 0 THEN f ELSE Linked(W[k - 1], h)]
  BY <1>1, Zenon DEF Grows
<1>4. \A k \in 0 .. n : W[k] = IF k = 0 THEN f ELSE Linked(W[k - 1], h)
  BY <1>3, Zenon
<1>5. PICK m \in Nat : m = Cardinality(FreeFat(f)) /\ n <= m
  BY FreeCount
<1>6. PICK c : c = Chain(f, h)
  OBVIOUS
<1>7. Len(c) \in Nat
  BY <1>6, GoesParts DEF Apart, Proper
<1> DEFINE S == {k \in 0 .. n : /\ Apart(W[k], H) /\ Cardinality(FreeFat(W[k])) = m - k
                                /\ Longer(c, Chain(W[k], h), k)}
<1>8. 0 \in S
  <2>1. W[0] = f /\ 0 \in 0 .. n /\ m - 0 = m /\ Len(c) + 0 = Len(c)
    BY <1>4, <1>5, <1>7
  <2>2. Longer(c, c, 0)
    BY <2>1 DEF Longer
  <2> QED BY <1>5, <1>6, <2>1, <2>2
<1>9. ASSUME NEW k \in Nat, k < n, k \in S PROVE k + 1 \in S
  <2>1. k + 1 \in 0 .. n /\ k + 1 # 0 /\ k + 1 - 1 = k
    BY <1>9
  <2>2. PICK u : u = W[k]
    OBVIOUS
  <2>3. PICK v : v = W[k + 1]
    OBVIOUS
  <2>4. v = Linked(u, h)
    BY <1>4, <2>1, <2>2, <2>3
  <2>5. Apart(u, H) /\ Cardinality(FreeFat(u)) = m - k /\ Longer(c, Chain(u, h), k)
    BY <1>9, <2>2
  <2>6. Apart(v, H) /\ Adds(u, v, h)
    BY <2>4, <2>5, LinkedApart
  <2>7. FreeFat(u) # {}
    <3>1. m - k # 0
      BY <1>5, <1>9
    <3> QED BY <2>5, <3>1, FS_EmptySet
  <2>8. Longer(Chain(u, h), Chain(v, h), 1) /\ FreeFat(v) = FreeFat(u) \ {FirstOf(FreeFat(u))}
    BY <2>6, <2>7, Zenon DEF Adds
  <2>9. Cardinality(FreeFat(v)) = m - (k + 1)
    <3>1. FirstOf(FreeFat(u)) \in FreeFat(u) /\ IsFiniteSet(FreeFat(u))
      BY <2>7, FreeCount, FirstIn
    <3>2. Cardinality(FreeFat(v)) = Cardinality(FreeFat(u)) - 1
      BY <2>8, <3>1, FS_RemoveElement
    <3> QED BY <1>5, <2>5, <3>2
  <2>10. Longer(c, Chain(v, h), k + 1)
    <3>1. PICK d : d = Chain(u, h)
      OBVIOUS
    <3>2. PICK e : e = Chain(v, h)
      OBVIOUS
    <3>3. Len(d) = Len(c) + k /\ Len(e) = Len(d) + 1
      BY <2>5, <2>8, <3>1, <3>2 DEF Longer
    <3>4. ASSUME NEW i \in 1 .. Len(c) PROVE e[i] = c[i]
      <4>1. i \in 1 .. Len(d)
        BY <1>7, <3>3
      <4> QED BY <2>5, <2>8, <3>1, <3>2, <4>1 DEF Longer
    <3>5. Len(e) = Len(c) + (k + 1)
      BY <1>7, <3>3
    <3> QED BY <3>2, <3>4, <3>5 DEF Longer
  <2> QED BY <2>1, <2>3, <2>6, <2>9, <2>10
<1>10. n \in S
  <2> HIDE DEF S
  <2>1. \A k \in 0 .. n : k \in S
    BY <1>8, <1>9, Upwards
  <2> QED BY <2>1
<1> QED BY <1>2, <1>6, <1>10

-----------------------------------------------------------------------------
(* Cells in the cache and on the disk.                                       *)

Least(a, b) == IF a < b THEN a ELSE b

\* The window of an open file ends with the chain of l pages, or before.
Reaches(l, off, area) == off + area = Least(l * PAGE, off + CACHE)

\* The cell of the file g with the number j is on the disk, in the chain that
\* begins at h.
OnDisk(f, P, h, g, j) ==
    LET c == Chain(f, h)
    IN  /\ j \div PAGE < Len(c) /\ Reachable(c[j \div PAGE + 1])
        /\ P[c[j \div PAGE + 1]].cells[(j % PAGE) + 1] = <<g, j>>

\* The number of pages up to the end of a window.
LEMMA PagesUpTo ==
    ASSUME NEW k \in Nat
    PROVE  (k * PAGE + PAGE - 1) \div PAGE = k
<1>1. PICK e \in Nat \ {0} : e = PAGE
  BY FsConstants
<1>2. PICK m \in Nat : m = k * e
  OBVIOUS
<1>3. PICK j \in Nat : j = m + e - 1
  BY <1>1
<1>4. (k + 1) * e = m + e /\ k + 1 \in Nat
  BY <1>2
<1>5. j < (k + 1) * e /\ ~(j < k * e)
  BY <1>2, <1>3, <1>4
<1>6. j \div PAGE < k + 1 /\ ~(j \div PAGE < k)
  BY <1>1, <1>4, <1>5, PageFrom
<1>7. j \div PAGE = k
  BY <1>6, PageOf
<1> QED BY <1>1, <1>2, <1>3, <1>7

\* The cache shows what is on the disk in the window.
Draws(f, P, x, cache) ==
    \A g : \A j \in Nat :
        x.off <= j /\ j < x.off + CACHE /\ OnDisk(f, P, x.ent.fat, g, j) =>
            cache[j - x.off] = <<g, j>>

\* A window that begins with a page is loaded with what is on the disk.
LEMMA LoadedIs ==
    ASSUME NEW f, NEW P, NEW x, FdRec(x), x.off % PAGE = 0, NEW c, c = Chain(f, x.ent.fat),
           Len(c) \in Nat, NEW y, y = Load(f, P, x)
    PROVE  /\ FdRec(y) /\ FdSame(x, y) /\ DOMAIN y.cache = 0 .. CACHE - 1
           /\ Reaches(Len(c), y.off, y.area)
           /\ Draws(f, P, x, y.cache)
<1>1. PICK o \in Nat : x.off = o * PAGE
  BY PartsOfFd, BeginsPage
<1>2. PICK w \in Nat : CACHE = w * PAGE
  BY CachePages
<1>3. PICK e \in Nat \ {0} : e = PAGE
  BY FsConstants
<1>4. PICK k \in Nat : k = o + w /\ x.off + CACHE = k * PAGE
  <2>1. (o + w) * e = o * e + w * e
    OBVIOUS
  <2> QED BY <1>1, <1>2, <1>3, <2>1
<1>5. (x.off + CACHE + PAGE - 1) \div PAGE = k
  BY <1>4, PagesUpTo
<1>6. PICK n \in Nat : n = (IF Len(c) < k THEN Len(c) ELSE k)
  OBVIOUS
<1> DEFINE Cell(pos) == ReadPage(P, c[pos \div PAGE + 1]).cells[(pos % PAGE) + 1]
           Whole(pos) == (pos \div PAGE) * PAGE >= x.off /\ pos \div PAGE < n
           Cache == [j \in 0 .. CACHE - 1 |-> IF Whole(x.off + j) THEN Cell(x.off + j) ELSE NoCell]
<1>7. y = [x EXCEPT !.area = n * PAGE - x.off, !.cache = Cache]
  BY <1>5, <1>6, Zenon DEF Load
<1>8. PICK new : new = Cache
  OBVIOUS
<1>9. PICK m \in Nat : m = n * PAGE
  BY FsConstants
<1>10. y = [x EXCEPT !.area = m - x.off, !.cache = new]
  BY <1>7, <1>8, <1>9, Zenon
<1>11. FdRec(y) /\ FdSame(x, y) /\ y.area = m - x.off /\ y.cache = new
  <2>1. PICK path, ent, index, root, cur, off, area, opt, old :
            /\ FdParts(x, path, ent, index, root, cur, off, area, old, opt)
            /\ path \in Files /\ cur \in Nat /\ off \in Nat /\ area \in Int
    BY PartsOfFd, Zenon
  <2>2. x.off = off
    BY <2>1 DEF FdParts
  <2>3. PICK q \in Int : q = m - off
    BY <2>1
  <2>4. FdParts(y, path, ent, index, root, cur, off, q, new, opt)
    BY <1>10, <2>1, <2>2, <2>3 DEF FdParts
  <2>5. FdRec(y)
    BY ONLY <2>1, <2>3, <2>4, FdOfParts
  <2>6. FdSame(x, y)
    BY <2>1, <2>4 DEF FdParts, FdSame
  <2>7. y.area = q /\ y.cache = new
    BY <2>4 DEF FdParts
  <2> QED BY <2>2, <2>3, <2>5, <2>6, <2>7, Zenon
<1>12. DOMAIN new = 0 .. CACHE - 1
  <2> HIDE DEF Cell, Whole
  <2> QED BY <1>8
<1>13. Reaches(Len(c), y.off, y.area)
  <2>1. y.off = x.off /\ x.off \in Nat
    BY <1>11, PartsOfFd DEF FdSame
  <2>2. y.off + y.area = m
    BY <1>11, <2>1
  <2>3. PICK a \in Nat, z \in Nat : a = Len(c) * PAGE /\ z = k * PAGE
    BY PageBegins
  <2>4. a < z <=> Len(c) < k
    BY <2>3, PageBegins
  <2>5. m = IF a < z THEN a ELSE z
    BY <1>6, <1>9, <2>3, <2>4
  <2> QED BY <1>4, <2>1, <2>2, <2>3, <2>5, Zenon DEF Least, Reaches
<1>14. ASSUME NEW g, NEW j \in Nat, x.off <= j, j < x.off + CACHE, OnDisk(f, P, x.ent.fat, g, j)
       PROVE  new[j - x.off] = <<g, j>>
  <2>1. PICK off \in Nat : off = x.off
    BY PartsOfFd
  <2>2. PICK i \in 0 .. CACHE - 1 : i = j - off /\ off + i = j
    <3>1. CACHE \in Nat
      BY FsConstants
    <3> QED BY <1>14, <2>1, <3>1
  <2>3. PICK q \in Nat : q = j \div PAGE
    BY PageOf
  <2>4. q < k /\ ~(q < o)
    <3>1. j < k * PAGE
      BY <1>4, <1>14
    <3>2. ~(j < o * PAGE)
      BY <1>1, <1>14, <2>1
    <3> QED BY <2>3, <3>1, <3>2, PageFrom
  <2>5. q * PAGE >= off
    <3>1. o <= q
      BY <2>4
    <3>2. o * PAGE <= q * PAGE /\ o * PAGE \in Nat /\ q * PAGE \in Nat
      BY <3>1, PageBegins
    <3> QED BY <1>1, <2>1, <3>2
  <2>6. q < Len(c) /\ Reachable(c[q + 1]) /\ P[c[q + 1]].cells[(j % PAGE) + 1] = <<g, j>>
    BY <1>14, <2>3 DEF OnDisk
  <2>7. q < n
    BY <1>6, <2>4, <2>6
  <2>8. Whole(j)
    BY <2>1, <2>3, <2>5, <2>7
  <2>9. ReadPage(P, c[q + 1]) = P[c[q + 1]]
    BY <2>6 DEF ReadPage
  <2>10. Cell(j) = <<g, j>>
    BY <2>3, <2>6, <2>9, Zenon
  <2> HIDE DEF Cell, Whole
  <2>11. new[i] = IF Whole(off + i) THEN Cell(off + i) ELSE NoCell
    BY <1>8, <2>1
  <2> QED BY <2>1, <2>2, <2>8, <2>10, <2>11
<1>15. y.cache = new
  BY <1>11
<1>16. Draws(f, P, x, y.cache)
  BY <1>14, <1>15, Zenon DEF Draws
<1> QED BY <1>11, <1>12, <1>13, <1>15, <1>16, Zenon

\* The window is written out: its cells are on the disk, and what was on the
\* disk before the window still is.
Saves(f, P, x, c, S) ==
    /\ FdRec(x) /\ x.off % PAGE = 0 /\ ~x.ent.dir
    /\ Proper(f, x.ent.fat) /\ c = Chain(f, x.ent.fat) /\ Reaches(Len(c), x.off, x.area)
    /\ S = Save(f, P, x)
InWindow(x, c, g, j) ==
    /\ x.off <= j /\ j < x.off + x.area /\ x.cache[j - x.off] = <<g, j>>
    /\ Reachable(c[j \div PAGE + 1])

\* What is on the disk after a window was written out.
LEMMA SavedCells ==
    ASSUME NEW f, NEW P, NEW x, NEW c, NEW S, Saves(f, P, x, c, S), NEW g, NEW j \in Nat
    PROVE  /\ j < x.off /\ OnDisk(f, P, x.ent.fat, g, j) => OnDisk(f, S, x.ent.fat, g, j)
           /\ InWindow(x, c, g, j) => OnDisk(f, S, x.ent.fat, g, j)
<1> USE DEF Saves
<1> DEFINE Where(p) == {k \in 1 .. Len(c) : c[k] = p /\ x.off <= (k - 1) * PAGE
                                         /\ (k - 1) * PAGE < x.off + x.area}
           Cell(pos) == IF pos - x.off < CACHE THEN x.cache[pos - x.off] ELSE NoCell
           Out(p) == IF Where(p) = {} \/ ~Reachable(p) \/ x.ent.dir THEN P[p]
                     ELSE DataPage([i \in 1 .. PAGE |-> Cell((FirstOf(Where(p)) - 1) * PAGE + i - 1)])
<1>1. S = [p \in Page |-> Out(p)]
  BY ZenonT(60) DEF Save
<1>2. \A p \in Page : S[p] = Out(p)
  <2> HIDE DEF Out
  <2> QED BY <1>1
<1>3. PICK o \in Nat : x.off = o * PAGE /\ x.off \in Nat
  BY PartsOfFd, BeginsPage
<1>4. PICK q \in Nat, r \in Nat :
          q = j \div PAGE /\ r = j % PAGE /\ j = q * PAGE + r /\ r + 1 \in 1 .. PAGE
  <2>1. \A i \in 0 .. PAGE - 1 : i \in Nat
    BY FsConstants
  <2> QED BY <2>1, PageOf, Zenon
<1>5. PICK b \in Nat : b = q * PAGE /\ j = b + r
  BY <1>4, PageBegins
<1>6. PICK n \in Nat : n = Len(c)
  BY GoesParts DEF Proper
<1>7. Goes(f, c) /\ \A i, k \in 1 .. n : c[i] = c[k] => i = k
  BY <1>6 DEF Proper, Goes
<1>8. q < n => q + 1 \in 1 .. n /\ c[q + 1] \in Page
  <2>1. q < n => q + 1 \in 1 .. n
    OBVIOUS
  <2> QED BY <1>6, <1>7, <2>1, GoesParts
<1>9. \A k \in 1 .. n : k \in Where(c[q + 1]) => (q < n => k = q + 1 /\ x.off <= b /\ b < x.off + x.area)
  <2> TAKE k \in 1 .. n
  <2>1. CASE q < n /\ k \in Where(c[q + 1])
    <3>1. c[k] = c[q + 1] /\ q + 1 \in 1 .. n
      BY <1>8, <2>1
    <3>2. k = q + 1
      BY <1>7, <3>1
    <3>3. k - 1 = q
      BY <3>2
    <3> QED BY <1>5, <2>1, <3>2, <3>3
  <2> QED BY <2>1
<1>10. ASSUME j < x.off, OnDisk(f, P, x.ent.fat, g, j) PROVE OnDisk(f, S, x.ent.fat, g, j)
  <2>1. q < n /\ Reachable(c[q + 1]) /\ P[c[q + 1]].cells[r + 1] = <<g, j>>
    BY <1>4, <1>6, <1>10 DEF OnDisk
  <2>2. b < x.off
    BY <1>3, <1>5, <1>10
  <2>3. Where(c[q + 1]) = {}
    <3>1. \A k \in 1 .. Len(c) : k \notin Where(c[q + 1])
      <4> HIDE DEF Where
      <4> QED BY <1>3, <1>6, <1>9, <2>1, <2>2
    <3> QED BY <3>1, Zenon
  <2>4. S[c[q + 1]] = P[c[q + 1]]
    <3>1. Out(c[q + 1]) = P[c[q + 1]]
      <4> HIDE DEF Where
      <4> QED BY <2>3, Zenon
    <3>2. c[q + 1] \in Page
      BY <1>8, <2>1
    <3> HIDE DEF Out
    <3> QED BY <1>2, <3>1, <3>2
  <2> QED BY <1>4, <1>6, <2>1, <2>4, Zenon DEF OnDisk
<1>11. ASSUME x.off <= j, j < x.off + x.area, x.cache[j - x.off] = <<g, j>>, Reachable(c[q + 1])
       PROVE  OnDisk(f, S, x.ent.fat, g, j)
  <2>1. PICK l \in Nat, z \in Nat : l = n * PAGE /\ z = x.off + CACHE
    BY <1>3, FsConstants, PageBegins
  <2>2. x.off + x.area = Least(l, z)
    BY <1>6, <2>1 DEF Reaches
  <2>3. j < l /\ j < z
    BY <1>11, <2>1, <2>2 DEF Least
  <2>4. q < n
    BY <1>4, <2>1, <2>3, PageFrom
  <2>5. x.off <= b
    <3>1. ~(j < o * PAGE)
      BY <1>3, <1>11
    <3>2. ~(q < o)
      BY <1>4, <3>1, PageFrom
    <3>3. o <= q
      BY <3>2
    <3> QED BY <1>3, <1>5, <3>3, PageBegins
  <2>6. b < x.off + x.area
    <3>1. b <= j /\ x.off + x.area \in Int
      BY <1>5, <2>1, <2>2 DEF Least
    <3> QED BY <1>11, <3>1
  <2>7. q + 1 \in 1 .. n /\ c[q + 1] \in Page
    BY <1>8, <2>4
  <2>8. Where(c[q + 1]) = {q + 1}
    <3>1. q + 1 - 1 = q
      OBVIOUS
    <3>2. q + 1 \in Where(c[q + 1])
      BY <1>5, <1>6, <2>5, <2>6, <2>7, <3>1
    <3>3. \A k \in Where(c[q + 1]) : k = q + 1
      BY <1>6, <1>9, <2>4
    <3> HIDE DEF Where
    <3> QED BY <3>2, <3>3
  <2>9. FirstOf(Where(c[q + 1])) = q + 1
    <3>1. {q + 1} \subseteq Nat /\ {q + 1} # {}
      OBVIOUS
    <3>2. FirstOf({q + 1}) \in {q + 1}
      BY <3>1, FirstIn
    <3> HIDE DEF Where
    <3> QED BY <2>8, <3>2
  <2>10. PICK w : w = [i \in 1 .. PAGE |-> Cell((FirstOf(Where(c[q + 1])) - 1) * PAGE + i - 1)]
    OBVIOUS
  <2>11. w[r + 1] = x.cache[j - x.off]
    <3>1. w[r + 1] = Cell((FirstOf(Where(c[q + 1])) - 1) * PAGE + (r + 1) - 1)
      <4> HIDE DEF Where, Cell
      <4> QED BY <1>4, <2>10
    <3>2. (FirstOf(Where(c[q + 1])) - 1) * PAGE + (r + 1) - 1 = j
      <4> HIDE DEF Where
      <4>1. q + 1 - 1 = q
        OBVIOUS
      <4>2. (FirstOf(Where(c[q + 1])) - 1) * PAGE = b
        BY <1>5, <2>9, <4>1
      <4>3. j = b + r /\ r \in Int
        BY <1>4, <1>5, FsConstants
      <4> QED BY <1>5, <4>2, <4>3
    <3>3. j - x.off < CACHE
      BY <1>3, <2>1, <2>3, FsConstants
    <3>4. w[r + 1] = Cell(j)
      <4> HIDE DEF Cell, Where
      <4> QED BY <3>1, <3>2
    <3> QED BY <3>3, <3>4, Zenon
  <2>12. S[c[q + 1]] = DataPage(w)
    <3>1. Out(c[q + 1]) = DataPage(w)
      <4>1. Where(c[q + 1]) # {}
        <5> HIDE DEF Where
        <5> QED BY <2>8
      <4> HIDE DEF Where
      <4> QED BY <1>11, <2>10, <4>1, Zenon
    <3> HIDE DEF Out, Where
    <3> QED BY <1>2, <2>7, <3>1, Zenon
  <2>13. S[c[q + 1]].cells = w
    BY <2>12 DEF DataPage
  <2> QED BY <1>4, <1>6, <1>11, <2>4, <2>11, <2>13, Zenon DEF OnDisk
<1> QED BY <1>4, <1>10, <1>11, Zenon DEF InWindow

\* The first cells of a file are on the disk.
On(f, P, h, g, len) == \A j \in 0 .. len - 1 : OnDisk(f, P, h, g, j)

\* The file g that x writes: each of its cells is in the window, or outside
\* of it on the disk; the window begins with a page and reaches to the end of
\* the chain, if it reaches that far.
Spans(f, x) ==
    /\ x.off % PAGE = 0 /\ DOMAIN x.cache = 0 .. CACHE - 1
    /\ Reaches(Len(Chain(f, x.ent.fat)), x.off, x.area)
Kept(f, P, x, g, j) ==
    IF x.off <= j /\ j < x.off + CACHE THEN x.cache[j - x.off] = <<g, j>>
    ELSE OnDisk(f, P, x.ent.fat, g, j)
Fit(f, P, x, g) ==
    /\ Spans(f, x) /\ x.off <= x.cur /\ x.cur <= x.off + CACHE /\ x.cur <= x.ent.size
    /\ \A j \in 0 .. x.ent.size - 1 : Kept(f, P, x, g, j)

\* A cell on the disk stays there when its chain gets longer.
LEMMA LongerOn ==
    ASSUME NEW f, NEW h, NEW t, NEW P, NEW m \in Nat, Len(Chain(f, h)) \in Nat,
           Longer(Chain(f, h), Chain(t, h), m), NEW g, NEW j \in Nat, OnDisk(f, P, h, g, j)
    PROVE  OnDisk(t, P, h, g, j)
<1>1. PICK q \in Nat : q = j \div PAGE
  BY PageOf
<1>2. PICK c : c = Chain(f, h)
  OBVIOUS
<1>3. PICK d : d = Chain(t, h)
  OBVIOUS
<1>4. Len(d) = Len(c) + m /\ \A i \in 1 .. Len(c) : d[i] = c[i]
  BY <1>2, <1>3 DEF Longer
<1>5. q < Len(c) /\ Reachable(c[q + 1]) /\ P[c[q + 1]].cells[(j % PAGE) + 1] = <<g, j>>
  BY <1>1, <1>2 DEF OnDisk
<1>6. q + 1 \in 1 .. Len(c) /\ q < Len(d)
  BY <1>2, <1>4, <1>5
<1>7. d[q + 1] = c[q + 1]
  BY <1>4, <1>6
<1> QED BY <1>1, <1>3, <1>5, <1>6, <1>7 DEF OnDisk

\* What flushfile makes of the size: the pages that are missing reach to the
\* end of the file and not behind the window.
Missing(size, off, area) ==
    IF size - off - area > 0 THEN (size - off - area - 1) \div PAGE + 1 ELSE 0

\* The pages that were missing bring the window to the end of the chain, and to the size.
LEMMA GrowthFits ==
    ASSUME NEW size \in Nat, NEW off \in Nat, off % PAGE = 0, NEW area \in Int, NEW l \in Nat,
           Reaches(l, off, area), size <= off + CACHE, NEW n \in Nat, n = Missing(size, off, area)
    PROVE  Reaches(l + n, off, area + n * PAGE) /\ size <= off + (area + n * PAGE)
<1> USE DEF Reaches, Missing
<1>1. PICK e \in Nat \ {0} : e = PAGE
  BY FsConstants
<1>2. PICK k \in Nat : off + CACHE = k * e
  <2>1. PICK o \in Nat, w \in Nat : off = o * PAGE /\ CACHE = w * PAGE
    BY BeginsPage, CachePages
  <2>2. (o + w) * e = o * e + w * e /\ o + w \in Nat
    OBVIOUS
  <2> QED BY <1>1, <2>1, <2>2
<1>3. PICK a \in Nat, z \in Nat : a = l * e /\ z = k * e
  BY <1>1, PageBegins
<1>4. off + area = IF a < z THEN a ELSE z
  BY <1>1, <1>2, <1>3 DEF Least
<1>5. (l + n) * e = a + n * e /\ n * e \in Nat
  BY <1>3
<1>6. PICK m \in Nat : m = n * e /\ (l + n) * e = a + m
  BY <1>5
<1>7. size <= z
  BY <1>2, <1>3
<1>8. CASE ~(size - off - area > 0)
  <2>1. n = 0
    BY <1>8
  <2>2. m = 0
    BY <1>6, <2>1
  <2>3. l + n = l
    BY <2>1
  <2> QED BY <1>1, <1>6, <1>8, <2>2, <2>3
<1>9. CASE size - off - area > 0
  <2>1. PICK i \in Nat : i = size - off - area - 1
    BY <1>9
  <2>2. a < z /\ off + area = a /\ i = size - a - 1
    BY <1>4, <1>7, <1>9, <2>1
  <2>3. PICK q \in Nat : q = i \div PAGE /\ n = q + 1
    BY <1>9, <2>1, PageOf
  <2>4. i < n * PAGE /\ ~(i < q * PAGE)
    BY <2>3, PageFrom
  <2>5. PICK u \in Nat : u = q * e /\ m = u + e /\ u <= i
    <3>1. n * e = q * e + e /\ q * e \in Nat
      BY <2>3
    <3>2. PICK u \in Nat : u = q * e
      BY <3>1
    <3> QED BY <1>1, <1>6, <2>4, <3>1, <3>2
  <2>6. size <= a + m
    BY <1>1, <1>6, <2>2, <2>4
  <2>7. (l + q) * e = a + u /\ l + q \in Nat
    BY <1>3, <2>5
  <2>8. a + u < z
    BY <1>7, <2>2, <2>5
  <2>9. l + q < k
    BY <1>1, <1>3, <2>7, <2>8, PageBegins
  <2>10. l + n <= k /\ l + n \in Nat
    BY <2>3, <2>9
  <2>11. a + m <= z
    <3>1. (l + n) * PAGE <= k * PAGE
      BY <2>10, PageBegins
    <3> QED BY <1>1, <1>3, <1>6, <3>1
  <2>12. off + (area + m) = a + m
    BY <2>2
  <2> QED BY <1>1, <1>2, <1>3, <1>6, <2>6, <2>11, <2>12 DEF Least
<1> QED BY <1>8, <1>9

\* What flushfile returns: the table with n pages more in the chain, and the
\* pages with the window y written, unless the disk was full.
Flushed(f, P, x, n, y, r) ==
    /\ n = Missing(x.ent.size, x.off, x.area)
    /\ FdRec(y) /\ FdSame(x, y) /\ y.cache = x.cache /\ y.area = x.area + n * PAGE
    /\ r.fat = Grown(f, x.ent.fat, n)
    /\ \/ r.page = P /\ r.x = x /\ ~r.ok /\ ~r.whole
       \/ /\ n <= Cardinality(FreeFat(f)) /\ r.page = Save(r.fat, P, y) /\ r.x = y /\ r.ok
          /\ r.whole => Holds(r.fat, x.ent) /\ x.ent.size <= x.off + CACHE

\* flushfile makes the chain longer and writes the window, or finds the disk full.
LEMMA FlushIs ==
    ASSUME NEW f, NEW P, NEW x, NEW r, FdRec(x), x.ent.size \in Nat, r = Flush(f, P, x)
    PROVE  \E n \in Nat : \E y : Flushed(f, P, x, n, y, r)
<1>1. PICK missing \in Int : missing = x.ent.size - x.off - x.area
  BY PartsOfFd
<1>2. PICK n \in Nat : n = (IF missing > 0 THEN (missing - 1) \div PAGE + 1 ELSE 0)
  <2>1. CASE missing > 0
    <3>1. missing - 1 \in Nat
      BY <2>1
    <3>2. (missing - 1) \div PAGE \in Nat
      BY <3>1, PageOf
    <3> QED BY <2>1, <3>2
  <2> QED BY <2>1
<1>3. PICK t : t = Grown(f, x.ent.fat, n)
  OBVIOUS
<1>4. PICK y : y = [x EXCEPT !.area = @ + n * PAGE]
  OBVIOUS
<1>5. PICK S : S = Save(t, P, y)
  OBVIOUS
<1>6. r = IF n > Cardinality(FreeFat(f))
          THEN [fat |-> t, page |-> P, x |-> x, ok |-> FALSE, whole |-> FALSE]
          ELSE [fat |-> t, page |-> S, x |-> y, ok |-> TRUE,
                whole |-> Holds(t, x.ent) /\ x.ent.size <= x.off + CACHE]
  BY <1>1, <1>2, <1>3, <1>4, <1>5, Zenon DEF Flush
<1>7. FdRec(y) /\ FdSame(x, y) /\ y.cache = x.cache /\ y.area = x.area + n * PAGE
  <2>1. PICK m \in Nat : m = n * PAGE
    BY PageBegins
  <2>2. PICK path, ent, index, root, cur, off, area, opt, cache :
            /\ FdParts(x, path, ent, index, root, cur, off, area, cache, opt)
            /\ path \in Files /\ cur \in Nat /\ off \in Nat /\ area \in Int
    BY PartsOfFd, Zenon
  <2>3. PICK a \in Int : a = area + m
    BY <2>1, <2>2
  <2>4. x.area = area
    BY <2>2 DEF FdParts
  <2>5. FdParts(y, path, ent, index, root, cur, off, a, cache, opt)
    <3>1. y = [x EXCEPT !.area = a]
      BY <1>4, <2>1, <2>3, <2>4
    <3> QED BY <2>2, <3>1 DEF FdParts
  <2>6. FdRec(y)
    BY ONLY <2>2, <2>3, <2>5, FdOfParts
  <2>7. FdSame(x, y) /\ y.cache = x.cache /\ y.area = a
    BY <2>2, <2>5 DEF FdParts, FdSame
  <2> QED BY <2>1, <2>3, <2>4, <2>6, <2>7, Zenon
<1>8. r.fat = Grown(f, x.ent.fat, n)
  BY <1>3, <1>6
<1>9. \/ r.page = P /\ r.x = x /\ ~r.ok /\ ~r.whole
      \/ /\ n <= Cardinality(FreeFat(f)) /\ r.page = Save(r.fat, P, y) /\ r.x = y /\ r.ok
         /\ r.whole => Holds(r.fat, x.ent) /\ x.ent.size <= x.off + CACHE
  <2>1. CASE n > Cardinality(FreeFat(f))
    <3>1. PICK v : v = FALSE
      OBVIOUS
    <3>2. r = [fat |-> t, page |-> P, x |-> x, ok |-> v, whole |-> v]
      BY <1>6, <2>1, <3>1, Zenon
    <3>3. r.page = P /\ r.x = x /\ r.ok = v /\ r.whole = v
      BY <3>2
    <3> QED BY <3>1, <3>3, Zenon
  <2>2. CASE ~(n > Cardinality(FreeFat(f)))
    <3>1. PICK v : v = TRUE
      OBVIOUS
    <3>2. PICK w : w = (Holds(t, x.ent) /\ x.ent.size <= x.off + CACHE)
      OBVIOUS
    <3>3. r = [fat |-> t, page |-> S, x |-> y, ok |-> v, whole |-> w]
      BY <1>6, <2>2, <3>1, <3>2, Zenon
    <3>4. r.page = S /\ r.x = y /\ r.ok = v /\ r.whole = w /\ r.fat = t
      BY <3>3
    <3>5. n <= Cardinality(FreeFat(f))
      BY <2>2, FreeCount
    <3> QED BY <1>5, <3>1, <3>2, <3>4, <3>5, Zenon
  <2> QED BY <2>1, <2>2
<1>10. n = Missing(x.ent.size, x.off, x.area)
  BY <1>1, <1>2, Zenon DEF Missing
<1>11. Flushed(f, P, x, n, y, r)
  BY <1>7, <1>8, <1>9, <1>10, Zenon DEF Flushed
<1> QED BY <1>11

\* The chains of the book but h, and their pages, are the same.
Others(b, h, f, P, t, Q) ==
    \A s \in DOMAIN b \ {h} : Stays(f, t, s) /\ \A p \in Pages(f, s) : Q[p] = P[p]

\* What two steps leave alone, both together do.
LEMMA OthersOn ==
    ASSUME NEW b, NEW h, NEW f, NEW P, NEW t, NEW Q, NEW u, NEW R,
           Others(b, h, f, P, t, Q), Others(b, h, t, Q, u, R)
    PROVE  Others(b, h, f, P, u, R)
  BY Zenon DEF Others, Stays

\* flushfile leaves the chains and pages of the other files alone.
LEMMA FlushOthers ==
    ASSUME NEW b, NEW f, NEW P, NEW X, NEW x, NEW r, Booked(b, f, P, X), FdOK(b, x),
           r = Flush(f, P, x)
    PROVE  Others(b, x.ent.fat, f, P, r.fat, r.page)
<1>1. FdRec(x) /\ x.ent.size \in Nat /\ x.ent.fat \in DOMAIN b /\ Apart(f, DOMAIN b)
  BY OfFd DEF FdOK, FdMoves, Booked
<1>2a. PICK n \in Nat : \E y : Flushed(f, P, x, n, y, r)
  BY <1>1, FlushIs
<1>2. PICK y : Flushed(f, P, x, n, y, r)
  BY <1>2a
<1>3. PICK h : h = x.ent.fat
  OBVIOUS
<1>4. PICK t : t = r.fat
  OBVIOUS
<1>5. t = Grown(f, h, n) /\ y.ent.fat = h /\ (r.page = P \/ r.page = Save(t, P, y))
  BY <1>2, <1>3, <1>4, Zenon DEF Flushed, FdSame
<1>6. Apart(t, DOMAIN b) /\ \A s \in DOMAIN b \ {h} : Stays(f, t, s)
  BY <1>1, <1>3, <1>5, GrownApart
<1>7. ASSUME NEW s \in DOMAIN b \ {h}, NEW p \in Pages(f, s) PROVE r.page[p] = P[p]
  <2>1. Pages(f, s) = Pages(t, s) /\ Pages(t, s) \cap Pages(t, h) = {} /\ Proper(t, s) /\ Table(t)
    BY <1>1, <1>3, <1>6, Zenon DEF Stays, Apart
  <2>2. p \in Page /\ p \notin Pages(t, h)
    BY <2>1, PagesOf
  <2>3. Save(t, P, y)[p] = P[p]
    BY <1>5, <2>2, SavedFile
  <2> QED BY <1>5, <2>3
<1> QED BY <1>3, <1>4, <1>6, <1>7, Zenon DEF Others

\* A file that is flushed as a whole is on the disk.
LEMMA FlushFit ==
    ASSUME NEW b, NEW f, NEW P, NEW X, NEW x, NEW r, Booked(b, f, P, X), FdOK(b, x), ~x.ent.dir,
           NEW g, Fit(f, P, x, g), r = Flush(f, P, x), r.whole
    PROVE  r.ok /\ On(r.fat, r.page, x.ent.fat, g, x.ent.size)
<1>1. /\ FdRec(x) /\ x.ent.size \in Nat /\ x.ent.fat \in DOMAIN b /\ Apart(f, DOMAIN b)
      /\ x.off \in Nat /\ x.area \in Int
  BY OfFd, PartsOfFd DEF FdOK, FdMoves, Booked
<1>2a. PICK n \in Nat : \E y : Flushed(f, P, x, n, y, r)
  BY <1>1, FlushIs
<1>2. PICK y : Flushed(f, P, x, n, y, r)
  BY <1>2a
<1>3. PICK h : h = x.ent.fat
  OBVIOUS
<1>4. PICK t, Q : t = r.fat /\ Q = r.page
  OBVIOUS
<1>5. PICK size \in Nat, off \in Nat, area \in Int : size = x.ent.size /\ off = x.off /\ area = x.area
  BY <1>1
<1>6. /\ n <= Cardinality(FreeFat(f)) /\ Q = Save(t, P, y) /\ r.ok /\ t = Grown(f, h, n)
      /\ Holds(t, x.ent) /\ size <= off + CACHE
      /\ FdRec(y) /\ FdSame(x, y) /\ y.cache = x.cache /\ y.area = area + n * PAGE
  BY <1>2, <1>3, <1>4, <1>5, Zenon DEF Flushed
<1>7. y.ent = x.ent /\ y.off = off /\ y.ent.fat = h
  BY <1>3, <1>5, <1>6 DEF FdSame
<1>8. n = Missing(size, off, area)
  BY <1>2, <1>5, Zenon DEF Flushed
<1>9. PICK c : c = Chain(f, h)
  OBVIOUS
<1>10. PICK d : d = Chain(t, h)
  OBVIOUS
<1>11. Apart(t, DOMAIN b) /\ Proper(t, h) /\ Proper(f, h)
  BY <1>1, <1>3, <1>6, GrownApart DEF Apart
<1>12. Longer(c, d, n)
  BY <1>1, <1>3, <1>6, <1>9, <1>10, GrownLonger
<1>13. PICK l \in Nat, m \in Nat : l = Len(c) /\ m = Len(d)
  BY <1>9, <1>10, <1>11, GoesParts DEF Proper
<1>14. m = l + n
  BY <1>12, <1>13 DEF Longer
<1>15. off % PAGE = 0 /\ Reaches(l, off, area)
  BY <1>3, <1>5, <1>9, <1>13, Zenon DEF Fit, Spans
<1>16. Reaches(m, off, y.area) /\ size <= off + y.area
  <2>1. size <= off + CACHE /\ y.area = area + n * PAGE
    BY <1>6
  <2>2. Reaches(l + n, off, area + n * PAGE) /\ size <= off + (area + n * PAGE)
    <3>1. size \in Nat /\ off \in Nat /\ area \in Int /\ l \in Nat /\ n \in Nat
      BY <1>5
    <3> QED BY ONLY <1>8, <1>15, <2>1, <3>1, GrowthFits
  <2> QED BY <1>14, <2>1, <2>2, Zenon
<1>17. PICK z \in Int : z = y.area /\ off + z = Least(m * PAGE, off + CACHE) /\ size <= off + z
  BY <1>5, <1>6, <1>16, PageBegins DEF Reaches
<1>18. ASSUME NEW j \in 0 .. size - 1 PROVE OnDisk(t, Q, h, g, j)
  <2>1. j \in Nat /\ j < size /\ j < off + z
    BY <1>17
  <2>2. Kept(f, P, x, g, j)
    BY <1>5 DEF Fit
  <2>3. /\ j < off /\ OnDisk(t, P, h, g, j) => OnDisk(t, Q, h, g, j)
        /\ InWindow(y, d, g, j) => OnDisk(t, Q, h, g, j)
    <3>1. Saves(t, P, y, d, Q)
      BY <1>6, <1>7, <1>10, <1>11, <1>13, <1>15, <1>16 DEF Saves
    <3> QED BY <1>7, <2>1, <3>1, SavedCells
  <2>4. CASE j < off
    <3>1. OnDisk(f, P, h, g, j)
      <4>1. ~(off <= j)
        BY <2>1, <2>4
      <4> QED BY <1>3, <1>5, <2>2, <4>1, Zenon DEF Kept
    <3>2. OnDisk(t, P, h, g, j)
      BY <1>9, <1>10, <1>12, <1>13, <2>1, <3>1, LongerOn
    <3> QED BY <2>3, <2>4, <3>2
  <2>5. CASE ~(j < off)
    <3>1. off <= j /\ j < off + CACHE
      BY <1>6, <2>1, <2>5, FsConstants
    <3>2. y.cache[j - off] = <<g, j>>
      BY <1>5, <1>6, <2>2, <3>1, Zenon DEF Kept
    <3>3. j \div PAGE < m
      <4>1. j < m * PAGE
        <5>1. PICK a \in Nat, w \in Nat : a = m * PAGE /\ w = off + CACHE
          BY FsConstants, PageBegins
        <5>2. off + z <= a
          BY <1>17, <5>1 DEF Least
        <5> QED BY <1>17, <2>1, <5>1, <5>2
      <4> QED BY <2>1, <4>1, PageFrom
    <3>4. j \div PAGE + 1 \in 1 .. m /\ DOMAIN d = 1 .. m
      <4>1. DOMAIN d = 1 .. Len(d)
        BY <1>10, <1>11 DEF Proper, Goes
      <4>2. PICK q \in Nat : q = j \div PAGE
        BY <2>1, PageOf
      <4> QED BY <1>13, <3>3, <4>1, <4>2
    <3>5. Reachable(d[j \div PAGE + 1])
      BY <1>3, <1>6, <1>10, <3>4, Zenon DEF Holds
    <3>6. InWindow(y, d, g, j)
      BY <1>7, <1>17, <2>1, <3>1, <3>2, <3>5, Zenon DEF InWindow
    <3> QED BY <2>3, <3>6, Zenon
  <2> QED BY <2>4, <2>5
<1> QED BY <1>3, <1>4, <1>5, <1>6, <1>18, Zenon DEF On

-----------------------------------------------------------------------------
(* Windows that move.                                                        *)

\* An open file keeps everything but its window.
LEMMA LoadSame ==
    ASSUME NEW f, NEW P, NEW x, FdRec(x), Len(Chain(f, x.ent.fat)) \in Nat, NEW y, y = Load(f, P, x)
    PROVE  FdRec(y) /\ FdSame(x, y)
<1>1. PICK c : c = Chain(f, x.ent.fat) /\ Len(c) \in Nat
  OBVIOUS
<1>2. PICK ends \in Nat : ends = (x.off + CACHE + PAGE - 1) \div PAGE
  <2>1. x.off + CACHE + PAGE - 1 \in Nat
    BY PartsOfFd, FsConstants
  <2> QED BY <2>1, FsConstants
<1>3. PICK n \in Nat : n = IF Len(c) < ends THEN Len(c) ELSE ends
  BY <1>1, <1>2
<1>4. PICK cache : y = [x EXCEPT !.area = n * PAGE - x.off, !.cache = cache]
  BY <1>1, <1>2, <1>3, Zenon DEF Load
<1>5. PICK path, ent, index, root, cur, off, area, opt, old :
          /\ FdParts(x, path, ent, index, root, cur, off, area, old, opt)
          /\ path \in Files /\ cur \in Nat /\ off \in Nat /\ area \in Int
  BY PartsOfFd, Zenon
<1>6. x.off = off
  BY <1>5 DEF FdParts
<1>7. PICK q \in Int : q = n * PAGE - x.off
  BY <1>5, <1>6, PageBegins
<1>8. FdParts(y, path, ent, index, root, cur, off, q, cache, opt)
  BY <1>4, <1>5, <1>7 DEF FdParts
<1>9. FdRec(y)
  BY ONLY <1>5, <1>7, <1>8, FdOfParts
<1> QED BY <1>5, <1>8, <1>9 DEF FdParts, FdSame

\* The cache shows the file, when its window begins with a page.
Shows(x, g) ==
    x.off % PAGE = 0 =>
        \A j \in 0 .. CACHE - 1 : x.off + j < x.ent.size => x.cache[j] = <<g, x.off + j>>

\* Where a file is, and where it may be written next.
Stands(x) == x.off <= x.cur /\ x.cur <= x.off + CACHE /\ x.cur <= x.ent.size

\* A file that is on the disk is shown by a window that is loaded.
LEMMA LoadShows ==
    ASSUME NEW f, NEW P, NEW x, FdRec(x), x.ent.size \in Nat, Len(Chain(f, x.ent.fat)) \in Nat,
           NEW g, On(f, P, x.ent.fat, g, x.ent.size), NEW y, y = Load(f, P, x)
    PROVE  /\ FdRec(y) /\ FdSame(x, y) /\ Shows(y, g)
           /\ x.off % PAGE = 0 /\ Stands(x) => Fit(f, P, y, g)
<1>1. FdRec(y) /\ FdSame(x, y)
  BY LoadSame
<1>2. y.off = x.off /\ y.ent = x.ent /\ y.cur = x.cur
  BY <1>1 DEF FdSame
<1>3. PICK off \in Nat, size \in Nat : off = x.off /\ size = x.ent.size
  BY PartsOfFd
<1>4. CASE off % PAGE # 0
  <2>1. Shows(y, g)
    BY <1>2, <1>3, <1>4, Zenon DEF Shows
  <2> QED BY <1>1, <1>3, <1>4, <2>1
<1>5. CASE off % PAGE = 0
  <2>1. PICK c : c = Chain(f, x.ent.fat) /\ Len(c) \in Nat
    OBVIOUS
  <2>2. /\ DOMAIN y.cache = 0 .. CACHE - 1 /\ Reaches(Len(c), y.off, y.area)
        /\ \A e : \A j \in Nat :
              off <= j /\ j < off + CACHE /\ OnDisk(f, P, x.ent.fat, e, j)
              => y.cache[j - off] = <<e, j>>
    <3>1. x.off % PAGE = 0
      BY <1>3, <1>5
    <3>2. DOMAIN y.cache = 0 .. CACHE - 1 /\ Reaches(Len(c), y.off, y.area) /\ Draws(f, P, x, y.cache)
      BY <2>1, <3>1, LoadedIs
    <3> QED BY <1>3, <3>2, Zenon DEF Draws
  <2>3. \A j \in 0 .. size - 1 : OnDisk(f, P, x.ent.fat, g, j)
    BY <1>3, Zenon DEF On
  <2>4. ASSUME NEW j \in 0 .. size - 1, off <= j, j < off + CACHE PROVE y.cache[j - off] = <<g, j>>
    <3>1. j \in Nat
      OBVIOUS
    <3> QED BY <2>2, <2>3, <2>4, <3>1, Zenon
  <2>5. Shows(y, g)
    <3>1. ASSUME NEW j \in 0 .. CACHE - 1, off + j < size PROVE y.cache[j] = <<g, off + j>>
      <4>1. PICK i \in 0 .. size - 1 : i = off + j /\ off <= i /\ i < off + CACHE /\ i - off = j
        BY <3>1, FsConstants
      <4> QED BY <2>4, <4>1, Zenon
    <3> QED BY <1>2, <1>3, <3>1, Zenon DEF Shows
  <2>6. ASSUME Stands(x) PROVE Fit(f, P, y, g)
    <3>1. Spans(f, y)
      BY <1>2, <1>3, <1>5, <2>1, <2>2, Zenon DEF Spans
    <3>2. y.off <= y.cur /\ y.cur <= y.off + CACHE /\ y.cur <= y.ent.size
      BY <1>2, <2>6, Zenon DEF Stands
    <3>3. \A j \in 0 .. y.ent.size - 1 : Kept(f, P, y, g, j)
      BY <1>2, <1>3, <2>3, <2>4, Zenon DEF Kept
    <3> QED BY <3>1, <3>2, <3>3, Zenon DEF Fit
  <2> QED BY <1>1, <2>5, <2>6
<1> QED BY <1>4, <1>5

\* The entry of an open file stays as it is, apart from the size.
Like(x, y) ==
    /\ y.path = x.path /\ y.opt = x.opt /\ y.root = x.root /\ y.index = x.index
    /\ y.ent.name = x.ent.name /\ y.ent.fat = x.ent.fat

\* The cell at cur goes to the window.
Puts(x, y, size) ==
    /\ FdRec(y) /\ Like(x, y) /\ y.off = x.off /\ y.area = x.area /\ y.cur = x.cur + 1
    /\ y.cache = [x.cache EXCEPT ![x.cur - x.off] = <<x.path, x.cur>>]
    /\ y.ent.size = size /\ size = IF x.ent.size < x.cur + 1 THEN x.cur + 1 ELSE x.ent.size

\* One cell changes the cache, cur and perhaps the size, nothing else.
LEMMA PutIs ==
    ASSUME NEW x, FdRec(x), EntRec(x.ent)
    PROVE  \E size \in Nat : Puts(x, PutCell(x), size)
<1>1. PICK path, ent, index, root, cur, off, area, cache, opt :
          /\ FdParts(x, path, ent, index, root, cur, off, area, cache, opt)
          /\ path \in Files /\ cur \in Nat /\ off \in Nat /\ area \in Int
  BY PartsOfFd, Zenon
<1>2. /\ x.path = path /\ x.ent = ent /\ x.index = index /\ x.root = root
      /\ x.cur = cur /\ x.off = off /\ x.area = area /\ x.cache = cache /\ x.opt = opt
  BY <1>1 DEF FdParts
<1>3. PICK new : new = [cache EXCEPT ![cur - off] = <<path, cur>>]
  OBVIOUS
<1>4. PICK q \in Nat : q = IF ent.size < cur + 1 THEN cur + 1 ELSE ent.size
  BY <1>1, <1>2 DEF EntRec
<1>5. PICK e : e = [ent EXCEPT !.size = q]
  OBVIOUS
<1>6. e.name = ent.name /\ e.fat = ent.fat /\ e.size = q
  BY <1>2, <1>4, <1>5 DEF EntRec
<1>7. PICK next \in Nat : next = cur + 1
  BY <1>1
<1>8. PICK y : y = PutCell(x)
  OBVIOUS
<1>9. FdParts(y, path, e, index, root, next, off, area, new, opt)
  <2>1. y = [x EXCEPT !.cache = [@ EXCEPT ![cur - off] = <<path, cur>>], !.cur = @ + 1,
                      !.ent.size = IF @ < cur + 1 THEN cur + 1 ELSE @]
    BY <1>2, <1>8, Zenon DEF PutCell
  <2>2. y = [x EXCEPT !.cache = new, !.cur = next, !.ent = e]
    BY <1>1, <1>2, <1>3, <1>4, <1>5, <1>7, <2>1 DEF FdParts
  <2> QED BY <1>1, <2>2 DEF FdParts
<1>10. FdRec(y)
  BY ONLY <1>1, <1>7, <1>9, FdOfParts
<1>11. /\ y.path = path /\ y.ent = e /\ y.index = index /\ y.root = root
       /\ y.cur = next /\ y.off = off /\ y.area = area /\ y.cache = new /\ y.opt = opt
  BY <1>9 DEF FdParts
<1>12. Puts(x, y, q)
  BY <1>2, <1>3, <1>4, <1>6, <1>7, <1>10, <1>11, Zenon DEF Puts, Like
<1> QED BY <1>8, <1>12, Zenon

\* A file that is whole still is when a cell goes to its window.
LEMMA PutFit ==
    ASSUME NEW f, NEW P, NEW x, FdRec(x), EntRec(x.ent), Fit(f, P, x, x.path), x.cur - x.off < CACHE
    PROVE  Fit(f, P, PutCell(x), x.path)
<1>1a. PICK size \in Nat : \E y : Puts(x, y, size) /\ y = PutCell(x)
  BY PutIs
<1>1. PICK y : Puts(x, y, size) /\ y = PutCell(x)
  BY <1>1a
<1>2. PICK path, cache : path = x.path /\ cache = x.cache
  OBVIOUS
<1>13. PICK cur \in Nat, off \in Nat, old \in Nat, next \in Nat :
           cur = x.cur /\ off = x.off /\ old = x.ent.size /\ next = cur + 1
  <2>1. x.cur \in Nat /\ x.off \in Nat /\ x.ent.size \in Nat /\ x.cur + 1 \in Nat
    BY PartsOfFd DEF EntRec
  <2> QED BY <2>1
<1>3. /\ y.off = off /\ y.area = x.area /\ y.cur = next /\ y.ent.fat = x.ent.fat
      /\ y.ent.size = size /\ y.cache = [cache EXCEPT ![cur - off] = <<path, cur>>]
  BY <1>1, <1>2, <1>13, Zenon DEF Puts, Like
<1>4. size = IF old < next THEN next ELSE old
  BY <1>1, <1>2, <1>13, Zenon DEF Puts
<1>5. /\ off % PAGE = 0 /\ DOMAIN cache = 0 .. CACHE - 1
      /\ Reaches(Len(Chain(f, x.ent.fat)), off, x.area)
      /\ off <= cur /\ cur <= old
  BY <1>2, <1>13, Zenon DEF Fit, Spans
<1>6. cur < off + CACHE /\ CACHE \in Nat
  BY <1>2, <1>13, FsConstants
<1>7. DOMAIN y.cache = 0 .. CACHE - 1
  BY <1>3, <1>5
<1>8. y.cache[cur - off] = <<path, cur>> /\ \A i \in 0 .. CACHE - 1 : i # cur - off => y.cache[i] = cache[i]
  <2>1. cur - off \in 0 .. CACHE - 1
    BY <1>5, <1>6
  <2> QED BY <1>3, <1>5, <2>1
<1>9. Spans(f, y)
  BY <1>3, <1>5, <1>7, Zenon DEF Spans
<1>10. off <= next /\ next <= off + CACHE /\ next <= size
  <2>1. next = cur + 1 /\ off <= cur /\ cur < off + CACHE /\ CACHE \in Nat
    BY <1>5, <1>6, <1>13
  <2>2. size = IF old < next THEN next ELSE old
    BY <1>4
  <2> QED BY ONLY <2>1, <2>2, <1>1, cur \in Nat, off \in Nat, old \in Nat, next \in Nat, size \in Nat
<1>11. ASSUME NEW j \in 0 .. size - 1 PROVE Kept(f, P, y, path, j)
  <2>1. CASE j = cur
    <3>1. off <= j /\ j < off + CACHE
      BY <1>5, <1>6, <2>1
    <3> QED BY <1>3, <1>8, <2>1, <3>1, Zenon DEF Kept
  <2>2. CASE j # cur
    <3>1. j \in 0 .. old - 1
      <4>1. next = cur + 1 /\ cur <= old /\ j # cur
        BY <1>5, <1>13, <2>2
      <4> QED BY ONLY <4>1, <1>4, j \in 0 .. size - 1, cur \in Nat, old \in Nat, next \in Nat, size \in Nat
    <3>2. Kept(f, P, x, path, j)
      BY <1>2, <1>13, <3>1, Zenon DEF Fit
    <3>3. off <= j /\ j < off + CACHE => y.cache[j - off] = cache[j - off]
      <4>1. off <= j /\ j < off + CACHE => j - off \in 0 .. CACHE - 1 /\ j - off # cur - off
        BY <1>6, <2>2
      <4> QED BY <1>8, <4>1
    <3> QED BY <1>2, <1>13, <1>3, <3>2, <3>3, Zenon DEF Kept
  <2> QED BY <2>1, <2>2
<1>12. Fit(f, P, y, path)
  BY <1>3, <1>9, <1>10, <1>11, Zenon DEF Fit
<1> QED BY <1>1, <1>2, <1>13, <1>12, Zenon

-----------------------------------------------------------------------------
(* Cells that are written and read.                                          *)

\* The window of an open file at another place.
Goto(x, cur, off) == [x EXCEPT !.cur = cur, !.off = off]
Reloads(b, f, P, x, cur, off, y, z) ==
    /\ Apart(f, DOMAIN b) /\ FdMoves(b, x) /\ cur \in Nat /\ off \in Nat
    /\ y = Goto(x, cur, off) /\ z = Load(f, P, y)

\* An open file whose window moved and was loaded again.
LEMMA MovedFd ==
    ASSUME NEW b, NEW f, NEW P, NEW x, NEW cur, NEW off, NEW y, NEW z,
           Reloads(b, f, P, x, cur, off, y, z)
    PROVE  /\ FdRec(y) /\ FdMoves(b, y) /\ y.ent = x.ent /\ y.cur = cur /\ y.off = off
           /\ FdSame(y, z) /\ FdRec(z) /\ Like(x, z) /\ Len(Chain(f, y.ent.fat)) \in Nat
<1> USE DEF Reloads
<1>1. /\ FdParts(x, x.path, x.ent, x.index, x.root, x.cur, x.off, x.area, x.cache, x.opt)
      /\ x.off \in Nat
  BY PartsOfFd DEF FdMoves
<1>2. FdParts(y, x.path, x.ent, x.index, x.root, cur, off, x.area, x.cache, x.opt)
  <2>1. PICK path, ent, index, root, old, was, area, cache, opt :
            /\ FdParts(x, path, ent, index, root, old, was, area, cache, opt)
            /\ x.path = path /\ x.ent = ent /\ x.index = index /\ x.root = root
            /\ x.area = area /\ x.cache = cache /\ x.opt = opt
    BY <1>1, Zenon
  <2>2. FdParts(y, path, ent, index, root, cur, off, area, cache, opt)
    BY <2>1 DEF FdParts, Goto
  <2> QED BY <2>1, <2>2, Zenon
<1>3. /\ FdMoves(b, y) /\ y.cur = cur /\ y.off = off /\ y.ent = x.ent /\ y.path = x.path
      /\ y.opt = x.opt /\ y.root = x.root /\ y.index = x.index
  <2>1. FdMoves(b, x) /\ cur \in Nat /\ off \in Nat
    OBVIOUS
  <2> QED BY ONLY <1>2, <2>1, FdAt
<1>4. FdRec(y)
  BY <1>3 DEF FdMoves
<1>5. Len(Chain(f, y.ent.fat)) \in Nat
  BY <1>3, OfFd, GoesParts DEF Apart, Proper
<1>6. FdRec(z) /\ FdSame(y, z)
  BY <1>4, <1>5, LoadSame
<1>7. Like(x, z)
  BY <1>3, <1>6, Zenon DEF Like, FdSame
<1> QED BY <1>3, <1>4, <1>5, <1>6, <1>7

\* What one cell of minifs_write keeps: the chains of the other files, and a
\* file that is whole.
Carries(b, s, t) ==
    /\ Others(b, s.x.ent.fat, s.fat, s.page, t.fat, t.page) /\ Like(s.x, t.x)
    /\ t.ok => s.ok
    /\ t.ok /\ Fit(s.fat, s.page, s.x, s.x.path) => Fit(t.fat, t.page, t.x, s.x.path)

\* Flushing and moving the window keeps what one cell of minifs_write must keep.
LEMMA MovedCarries ==
    ASSUME NEW b, NEW X, NEW s, Writing(b, X, s), ~(s.x.cur - s.x.off < CACHE),
           NEW t, t = Moved(s, Flush(s.fat, s.page, s.x))
    PROVE  Carries(b, s, t)
<1>1. PICK f, P, x : f = s.fat /\ P = s.page /\ x = s.x
  OBVIOUS
<1>2. PICK r : r = Flush(f, P, x)
  OBVIOUS
<1>3. Booked(b, f, P, X) /\ FdOK(b, x) /\ ~x.ent.dir
  BY <1>1, Zenon DEF Writing
<1>4. Booked(b, r.fat, r.page, X) /\ FdOK(b, r.x) /\ FdSame(x, r.x)
  BY <1>2, <1>3, FlushKeeps
<1>5. PICK y : y = [r.x EXCEPT !.off = r.x.cur]
  OBVIOUS
<1>6. PICK z : z = Load(r.fat, r.page, y)
  OBVIOUS
<1>7. FdMoves(b, r.x) /\ r.x.cur \in Nat /\ r.x.cur = x.cur /\ FdRec(r.x) /\ Apart(r.fat, DOMAIN b)
  BY <1>4, PartsOfFd DEF FdOK, FdMoves, FdSame, Booked
<1>8. PICK cur \in Nat, off \in Nat, size \in Nat : cur = x.cur /\ off = x.off /\ size = x.ent.size
  BY <1>3, OfFd, PartsOfFd DEF FdOK, FdMoves
<1>9. y = Goto(r.x, cur, cur)
  <2>1. PICK v : v = r.x /\ FdRec(v) /\ v.cur = cur
    BY <1>7, <1>8
  <2>2. FdParts(v, v.path, v.ent, v.index, v.root, v.cur, v.off, v.area, v.cache, v.opt)
    BY <2>1, PartsOfFd
  <2>3. [v EXCEPT !.off = cur] = Goto(v, cur, cur)
    BY <2>1, <2>2 DEF FdParts, Goto
  <2> QED BY <1>5, <2>1, <2>3, Zenon
<1>10. /\ FdRec(y) /\ y.ent = r.x.ent /\ y.cur = cur /\ y.off = cur
       /\ FdSame(y, z) /\ Like(r.x, z) /\ Len(Chain(r.fat, y.ent.fat)) \in Nat
  <2>1. PICK v : v = r.x
    OBVIOUS
  <2>2. PICK g, Q : g = r.fat /\ Q = r.page
    OBVIOUS
  <2>3. FdMoves(b, v) /\ Apart(g, DOMAIN b) /\ cur \in Nat
    BY <1>7, <2>1, <2>2, Zenon
  <2>4. y = Goto(v, cur, cur) /\ z = Load(g, Q, y)
    BY <1>6, <1>9, <2>1, <2>2, Zenon
  <2>5. /\ FdRec(y) /\ y.ent = v.ent /\ y.cur = cur /\ y.off = cur
        /\ FdSame(y, z) /\ Like(v, z) /\ Len(Chain(g, y.ent.fat)) \in Nat
    <3>1. Reloads(b, g, Q, v, cur, cur, y, z)
      BY ONLY <2>3, <2>4 DEF Reloads
    <3> QED BY <3>1, MovedFd
  <2> QED BY <2>1, <2>2, <2>5, Zenon
<1>11. y.ent = x.ent /\ Like(x, z)
  BY <1>4, <1>10, Zenon DEF Like, FdSame
<1>12. PICK ok : ok = (s.ok /\ r.whole)
  OBVIOUS
<1>13. t = [fat |-> r.fat, page |-> r.page, ok |-> ok, x |-> z]
  BY <1>1, <1>2, <1>5, <1>6, <1>12, Zenon DEF Moved
<1>14. t.fat = r.fat /\ t.page = r.page /\ t.x = z /\ t.ok = ok
  BY <1>13
<1>15. t.ok => s.ok /\ r.whole
  BY <1>12, <1>14, Zenon
<1>16. Others(b, x.ent.fat, f, P, r.fat, r.page)
  BY <1>2, <1>3, FlushOthers
<1>17. ASSUME t.ok, Fit(f, P, x, x.path) PROVE Fit(r.fat, r.page, z, x.path)
  <2>1. On(r.fat, r.page, x.ent.fat, x.path, x.ent.size)
    BY <1>2, <1>3, <1>15, <1>17, FlushFit
  <2>2. off % PAGE = 0 /\ off <= cur /\ cur <= off + CACHE /\ cur <= size
    BY <1>8, <1>17, Zenon DEF Fit, Spans
  <2>3. cur = off + CACHE
    <3>1. ~(cur - off < CACHE)
      BY <1>1, <1>8, Zenon
    <3> QED BY <2>2, <3>1, FsConstants
  <2>4. cur % PAGE = 0
    <3>1. PICK o \in Nat, w \in Nat : off = o * PAGE /\ CACHE = w * PAGE
      BY <2>2, BeginsPage, CachePages
    <3>2. PICK e \in Nat \ {0} : e = PAGE
      BY FsConstants
    <3>3. (o + w) * e = o * e + w * e /\ o + w \in Nat
      OBVIOUS
    <3>4. cur = (o + w) * PAGE
      BY <2>3, <3>1, <3>2, <3>3
    <3> QED BY <3>3, <3>4, PageBegins
  <2>5. Stands(y)
    <3>1. cur <= cur /\ cur <= cur + CACHE
      BY FsConstants
    <3> QED BY <1>8, <1>10, <1>11, <2>2, <3>1, Zenon DEF Stands
  <2>6. On(r.fat, r.page, y.ent.fat, x.path, y.ent.size) /\ y.ent.size \in Nat /\ y.off % PAGE = 0
    BY <1>8, <1>10, <1>11, <2>1, <2>4
  <2> QED BY <1>6, <1>10, <2>5, <2>6, LoadShows
<1> QED BY <1>1, <1>11, <1>14, <1>15, <1>16, <1>17, Zenon DEF Carries

\* After the window has moved, the cell goes to its begin.
LEMMA MovedBegins ==
    ASSUME NEW b, NEW X, NEW s, Writing(b, X, s), NEW t, t = Moved(s, Flush(s.fat, s.page, s.x))
    PROVE  /\ FdRec(t.x) /\ EntRec(t.x.ent) /\ t.x.cur - t.x.off < CACHE
           /\ t = [fat |-> t.fat, page |-> t.page, x |-> t.x, ok |-> t.ok]
<1>1. PICK r : r = Flush(s.fat, s.page, s.x)
  OBVIOUS
<1>2. PICK y : y = [r.x EXCEPT !.off = r.x.cur]
  OBVIOUS
<1>3. PICK z : z = Load(r.fat, r.page, y)
  OBVIOUS
<1>4. PICK ok : t = [fat |-> r.fat, page |-> r.page, ok |-> ok, x |-> z]
  BY <1>1, <1>2, <1>3, Zenon DEF Moved
<1>5. Booked(b, r.fat, r.page, X) /\ FdOK(b, r.x)
  BY <1>1, FlushKeeps DEF Writing
<1>6. FdMoves(b, r.x) /\ r.x.cur \in Nat /\ Apart(r.fat, DOMAIN b)
  BY <1>5, PartsOfFd DEF FdOK, FdMoves, Booked
<1>7. FdMoves(b, y) /\ y.cur = r.x.cur /\ y.off = r.x.cur
  BY <1>2, <1>6, FdOff
<1>8. FdRec(y) /\ EntRec(y.ent) /\ Len(Chain(r.fat, y.ent.fat)) \in Nat
  BY <1>6, <1>7, OfFd, GoesParts DEF FdMoves, Apart, Proper
<1>9. FdRec(z) /\ FdSame(y, z)
  BY <1>3, <1>8, LoadSame
<1>10. z.cur - z.off < CACHE
  BY <1>6, <1>7, <1>9, FsConstants DEF FdSame
<1>11. t.x = z
  BY <1>4
<1>12. t = [fat |-> t.fat, page |-> t.page, x |-> t.x, ok |-> t.ok]
  BY <1>4
<1> QED BY <1>8, <1>9, <1>10, <1>11, <1>12 DEF FdSame

\* What two steps of minifs_write keep, both together do.
LEMMA CarriesOn ==
    ASSUME NEW b, NEW s, NEW t, NEW u, Carries(b, s, t), Carries(b, t, u)
    PROVE  Carries(b, s, u)
<1>1. t.x.ent.fat = s.x.ent.fat /\ t.x.path = s.x.path /\ Like(s.x, u.x)
  BY Zenon DEF Carries, Like
<1>2. Others(b, s.x.ent.fat, s.fat, s.page, u.fat, u.page)
  <2>1. /\ Others(b, s.x.ent.fat, s.fat, s.page, t.fat, t.page)
        /\ Others(b, s.x.ent.fat, t.fat, t.page, u.fat, u.page)
    BY <1>1, Zenon DEF Carries
  <2> QED BY <2>1, OthersOn
<1> QED BY <1>1, <1>2, Zenon DEF Carries

\* Nothing was written and nothing changed.
LEMMA CarriesSame ==
    ASSUME NEW b, NEW s
    PROVE  Carries(b, s, s)
  BY Zenon DEF Carries, Others, Stays, Like

\* One cell of minifs_write.
LEMMA WriteCellCarries ==
    ASSUME NEW b, NEW X, NEW s, Writing(b, X, s)
    PROVE  Carries(b, s, WriteCell(s))
<1>1. PICK t : t = IF s.x.cur - s.x.off < CACHE THEN s ELSE Moved(s, Flush(s.fat, s.page, s.x))
  OBVIOUS
<1>2. Carries(b, s, t)
  <2>1. CASE s.x.cur - s.x.off < CACHE
    BY <1>1, <2>1, CarriesSame
  <2>2. CASE ~(s.x.cur - s.x.off < CACHE)
    BY <1>1, <2>2, MovedCarries
  <2> QED BY <2>1, <2>2
<1>3. PICK y : y = PutCell(t.x)
  OBVIOUS
<1>4. PICK u : u = WriteCell(s)
  OBVIOUS
<1>5. u = [t EXCEPT !.x = y]
  BY <1>1, <1>3, <1>4, Zenon DEF WriteCell
<1>6. FdRec(t.x) /\ EntRec(t.x.ent) /\ t.x.cur - t.x.off < CACHE
  <2>1. CASE s.x.cur - s.x.off < CACHE
    BY <1>1, <2>1, OfFd DEF Writing, FdOK, FdMoves
  <2>2. CASE ~(s.x.cur - s.x.off < CACHE)
    BY <1>1, <2>2, MovedBegins
  <2> QED BY <2>1, <2>2
<1>7. u.fat = t.fat /\ u.page = t.page /\ u.x = y /\ u.ok = t.ok
  <2>1. PICK f, p, x, ok : t = [fat |-> f, page |-> p, x |-> x, ok |-> ok]
    <3>1. CASE s.x.cur - s.x.off < CACHE
      BY <1>1, <3>1, Zenon DEF Writing
    <3>2. CASE ~(s.x.cur - s.x.off < CACHE)
      <4>1. t = Moved(s, Flush(s.fat, s.page, s.x))
        BY <1>1, <3>2, Zenon
      <4>2. t = [fat |-> t.fat, page |-> t.page, x |-> t.x, ok |-> t.ok]
        BY <4>1, MovedBegins
      <4> QED BY <4>2, Zenon
    <3> QED BY <3>1, <3>2
  <2>2. u = [fat |-> f, page |-> p, x |-> y, ok |-> ok]
    BY <1>5, <2>1
  <2> QED BY <2>1, <2>2
<1>8. Carries(b, t, u)
  <2>1. PICK size \in Nat : Puts(t.x, y, size)
    BY <1>3, <1>6, PutIs
  <2>2. Fit(t.fat, t.page, t.x, t.x.path) => Fit(t.fat, t.page, y, t.x.path)
    BY <1>3, <1>6, PutFit
  <2>3. Others(b, t.x.ent.fat, t.fat, t.page, u.fat, u.page)
    BY <1>7, Zenon DEF Others, Stays
  <2>4. Like(t.x, y)
    BY <2>1 DEF Puts
  <2> QED BY <1>7, <2>2, <2>3, <2>4, Zenon DEF Carries
<1> QED BY <1>2, <1>4, <1>8, CarriesOn

\* Any number of cells is written.
LEMMA WritesCarry ==
    ASSUME NEW b, NEW X, NEW s, Writing(b, X, s), NEW n \in Nat
    PROVE  Writing(b, X, WriteCells(s, n)) /\ Carries(b, s, WriteCells(s, n))
<1> DEFINE W == CHOOSE w : Writes(s, n, w)
<1>1. Writes(s, n, W)
  <2>1. \E w : Writes(s, n, w)
    BY WritesOn
  <2> QED BY <2>1, Zenon
<1>2. WriteCells(s, n) = W[n]
  BY Zenon DEF WriteCells, Writes
<1> HIDE DEF W
<1>3. W = [k \in 0 .. n |-> IF k = 0 THEN s ELSE WriteCell(W[k - 1])]
  BY <1>1, Zenon DEF Writes
<1>4. \A k \in 0 .. n : W[k] = IF k = 0 THEN s ELSE WriteCell(W[k - 1])
  BY <1>3, Zenon
<1> DEFINE S == {k \in 0 .. n : Writing(b, X, W[k]) /\ Carries(b, s, W[k])}
<1>5. 0 \in S
  <2>1. Carries(b, s, s)
    BY CarriesSame
  <2> QED BY <1>4, <2>1
<1>6. ASSUME NEW k \in Nat, k < n, k \in S PROVE k + 1 \in S
  <2>1. k + 1 \in 0 .. n /\ k + 1 # 0 /\ k + 1 - 1 = k
    BY <1>6
  <2>2. W[k + 1] = WriteCell(W[k])
    BY <1>4, <2>1
  <2>3. Writing(b, X, W[k + 1]) /\ Carries(b, W[k], W[k + 1])
    BY <1>6, <2>2, WriteCellKeeps, WriteCellCarries
  <2>4. Carries(b, s, W[k + 1])
    BY <1>6, <2>3, CarriesOn
  <2> QED BY <2>1, <2>3, <2>4
<1>7. n \in S
  <2> HIDE DEF S
  <2>1. \A k \in 0 .. n : k \in S
    BY <1>5, <1>6, Upwards
  <2> QED BY <2>1
<1> QED BY <1>2, <1>7

\* What minifs_read keeps of an open file: the window that is shown, and a
\* file that is whole while the window does not move.
Looks(x, y) ==
    /\ Like(x, y) /\ y.ent = x.ent /\ y.off >= x.off
    /\ \A g : On(fat, page, x.ent.fat, g, x.ent.size) /\ Shows(x, g) => Shows(y, g)
    /\ \A g : y.off = x.off /\ Fit(fat, page, x, g) => Fit(fat, page, y, g)

\* What two steps of minifs_read keep, both together do.
LEMMA LooksOn ==
    ASSUME NEW x, NEW y, NEW z, x.off \in Nat, y.off \in Nat, z.off \in Nat, Looks(x, y), Looks(y, z)
    PROVE  Looks(x, z)
<1>1. z.off >= x.off /\ (z.off = x.off => y.off = x.off /\ z.off = y.off)
  BY DEF Looks
<1>2. Like(x, z) /\ z.ent = x.ent
  BY Zenon DEF Looks, Like
<1> QED BY <1>1, <1>2, Zenon DEF Looks

\* A window that begins at cur.
LEMMA GotoOff ==
    ASSUME NEW x, FdRec(x)
    PROVE  [x EXCEPT !.off = x.cur] = Goto(x, x.cur, x.cur)
<1>1. FdParts(x, x.path, x.ent, x.index, x.root, x.cur, x.off, x.area, x.cache, x.opt)
  BY PartsOfFd
<1> QED BY <1>1 DEF FdParts, Goto

\* The window stays, or moves to cur.
LEMMA WindowLooks ==
    ASSUME NEW b, NEW x, Apart(fat, DOMAIN b), FdOK(b, x), NEW y,
           y = IF x.cur - x.off < CACHE THEN x ELSE Load(fat, page, [x EXCEPT !.off = x.cur])
    PROVE  Looks(x, y) /\ y.cur - y.off < CACHE /\ FdOK(b, y)
<1>1. FdMoves(b, x) /\ FdRec(x) /\ x.ent.size \in Nat
  BY OfFd DEF FdOK, FdMoves
<1>2. PICK cur \in Nat, off \in Nat : cur = x.cur /\ off = x.off
  BY <1>1, PartsOfFd
<1>3. CASE x.cur - x.off < CACHE
  <2>1. y = x
    BY <1>3
  <2>2. x.off >= x.off
    BY <1>2
  <2>3. Looks(x, x)
    BY <2>2, Zenon DEF Looks, Like
  <2> QED BY <1>3, <2>1, <2>3
<1>4. CASE ~(x.cur - x.off < CACHE)
  <2>1. PICK z : z = Goto(x, cur, cur)
    OBVIOUS
  <2>2. y = Load(fat, page, z)
    BY <1>1, <1>2, <1>4, <2>1, GotoOff, Zenon
  <2>3. Reloads(b, fat, page, x, cur, cur, z, y)
    BY <1>1, <2>1, <2>2 DEF Reloads
  <2>4. /\ FdRec(z) /\ FdMoves(b, z) /\ z.ent = x.ent /\ z.cur = cur /\ z.off = cur /\ FdSame(z, y)
        /\ FdRec(y) /\ Like(x, y) /\ Len(Chain(fat, z.ent.fat)) \in Nat
    BY <2>3, MovedFd
  <2>5. y.ent = x.ent /\ y.cur = cur /\ y.off = cur
    BY <2>4, Zenon DEF FdSame
  <2>6. y.off >= x.off /\ y.off # x.off /\ y.cur - y.off < CACHE
    <3>1. ~(cur - off < CACHE)
      BY <1>2, <1>4
    <3> QED BY <1>2, <2>5, <3>1, FsConstants
  <2>7. ASSUME NEW g, On(fat, page, x.ent.fat, g, x.ent.size) PROVE Shows(y, g)
    <3>1. On(fat, page, z.ent.fat, g, z.ent.size) /\ z.ent.size \in Nat
      BY <1>1, <2>4, <2>7
    <3> QED BY <2>2, <2>4, <3>1, LoadShows
  <2>8. FdOK(b, y)
    BY <2>2, <2>4, LoadFd
  <2>9. Looks(x, y)
    BY <2>4, <2>5, <2>6, <2>7, Zenon DEF Looks
  <2> QED BY <2>6, <2>8, <2>9
<1> QED BY <1>3, <1>4

\* One cell is read.
LEMMA ReadCellLooks ==
    ASSUME NEW b, NEW x, Apart(fat, DOMAIN b), FdOK(b, x)
    PROVE  Looks(x, ReadCell(x)) /\ FdOK(b, ReadCell(x))
<1>1. PICK y : y = IF x.cur - x.off < CACHE THEN x ELSE Load(fat, page, [x EXCEPT !.off = x.cur])
  OBVIOUS
<1>2. Looks(x, y) /\ y.cur - y.off < CACHE /\ FdOK(b, y)
  BY <1>1, WindowLooks
<1>3. PICK z : z = [y EXCEPT !.cur = @ + 1]
  OBVIOUS
<1>4. ReadCell(x) = IF y.cur < y.ent.size THEN z ELSE y
  BY <1>1, <1>3, Zenon DEF ReadCell
<1>5. FdMoves(b, y) /\ y.ent.size \in Nat /\ y.off + y.area >= 0
  BY <1>2, OfFd DEF FdOK
<1>6. PICK cur \in Nat, off \in Nat, size \in Nat, q \in Nat :
          cur = y.cur /\ off = y.off /\ size = y.ent.size /\ q = cur + 1
  <2>1. y.cur \in Nat /\ y.off \in Nat /\ y.cur + 1 \in Nat
    BY <1>5, PartsOfFd DEF FdMoves
  <2> QED BY <1>5, <2>1
<1>7. /\ FdMoves(b, z) /\ z.cur = q /\ z.off = off /\ z.area = y.area /\ z.ent = y.ent
      /\ z.path = y.path /\ z.opt = y.opt /\ z.root = y.root /\ z.index = y.index /\ z.cache = y.cache
  <2>1. z = [y EXCEPT !.cur = q]
    BY <1>3, <1>6
  <2> QED BY <1>5, <1>6, <2>1, FdCur
<1>8. FdOK(b, z)
  BY <1>5, <1>6, <1>7 DEF FdOK
<1>9. ASSUME y.cur < y.ent.size PROVE Looks(y, z)
  <2>1. Like(y, z) /\ z.off >= y.off
    BY <1>6, <1>7 DEF Like
  <2>2. \A g : Shows(y, g) => Shows(z, g)
    BY <1>6, <1>7, Zenon DEF Shows
  <2>3. ASSUME NEW g, Fit(fat, page, y, g) PROVE Fit(fat, page, z, g)
    <3>1. off <= cur /\ cur - off < CACHE /\ cur < size
      BY <1>2, <1>6, <1>9, <2>3, Zenon DEF Fit
    <3>2. off <= q /\ q <= off + CACHE /\ q <= size
      <4>1. q = cur + 1 /\ CACHE \in Nat
        BY <1>6, FsConstants
      <4>2. cur \in Nat /\ off \in Nat /\ size \in Nat /\ q \in Nat
        OBVIOUS
      <4> QED BY ONLY <3>1, <4>1, <4>2
    <3>3. Spans(fat, z)
      BY <1>6, <1>7, <2>3, Zenon DEF Fit, Spans
    <3>4. \A j \in 0 .. z.ent.size - 1 : Kept(fat, page, z, g, j)
      BY <1>6, <1>7, <2>3, Zenon DEF Fit, Kept
    <3> QED BY <1>6, <1>7, <3>2, <3>3, <3>4, Zenon DEF Fit
  <2> QED BY <1>7, <2>1, <2>2, <2>3, Zenon DEF Looks
<1>10. CASE y.cur < y.ent.size
  <2>1. x.off \in Nat /\ y.off \in Nat /\ z.off \in Nat
    BY <1>5, <1>7, PartsOfFd DEF FdOK, FdMoves
  <2>2. Looks(x, z)
    BY <1>2, <1>9, <1>10, <2>1, LooksOn
  <2> QED BY <1>4, <1>8, <1>10, <2>2
<1>11. CASE ~(y.cur < y.ent.size)
  BY <1>2, <1>4, <1>11
<1> QED BY <1>10, <1>11

\* Any number of cells is read.
LEMMA ReadsLook ==
    ASSUME NEW b, NEW x, Apart(fat, DOMAIN b), FdOK(b, x), NEW n \in Nat
    PROVE  Looks(x, ReadCells(x, n))
<1> DEFINE W == CHOOSE w : Reads(x, n, w)
<1>1. Reads(x, n, W)
  <2>1. \E w : Reads(x, n, w)
    BY ReadsOn
  <2> QED BY <2>1, Zenon
<1>2. ReadCells(x, n) = W[n]
  BY Zenon DEF ReadCells, Reads
<1> HIDE DEF W
<1>3. W = [k \in 0 .. n |-> IF k = 0 THEN x ELSE ReadCell(W[k - 1])]
  BY <1>1, Zenon DEF Reads
<1>4. \A k \in 0 .. n : W[k] = IF k = 0 THEN x ELSE ReadCell(W[k - 1])
  BY <1>3, Zenon
<1> DEFINE S == {k \in 0 .. n : FdOK(b, W[k]) /\ Looks(x, W[k])}
<1>5. 0 \in S
  <2>1. x.off >= x.off
    BY PartsOfFd DEF FdOK, FdMoves
  <2>2. Looks(x, x)
    BY <2>1, Zenon DEF Looks, Like
  <2> QED BY <1>4, <2>2
<1>6. ASSUME NEW k \in Nat, k < n, k \in S PROVE k + 1 \in S
  <2>1. k + 1 \in 0 .. n /\ k + 1 # 0 /\ k + 1 - 1 = k
    BY <1>6
  <2>2. PICK u, v : u = W[k] /\ v = W[k + 1]
    OBVIOUS
  <2>3. v = ReadCell(u)
    BY <1>4, <2>1, <2>2
  <2>4. FdOK(b, u) /\ Looks(x, u)
    BY <1>6, <2>2
  <2>5. FdOK(b, v) /\ Looks(u, v)
    BY <2>3, <2>4, ReadCellLooks
  <2>6. x.off \in Nat /\ u.off \in Nat /\ v.off \in Nat
    BY <2>4, <2>5, PartsOfFd DEF FdOK, FdMoves
  <2>7. Looks(x, v)
    BY <2>4, <2>5, <2>6, LooksOn
  <2> QED BY <2>1, <2>2, <2>5, <2>7
<1>7. n \in S
  <2> HIDE DEF S
  <2>1. \A k \in 0 .. n : k \in S
    BY <1>5, <1>6, Upwards
  <2> QED BY <2>1
<1> QED BY <1>2, <1>7

-----------------------------------------------------------------------------
(* What the disk and the open files say about a file that must hold its      *)
(* cells: the entries that lead to it, which no open file will write over    *)
(* when it is closed, and where its cells are.                               *)

Writer(X, d) == X[d].open /\ X[d].opt # "read"

\* The only entry of a name.
Sole(E, i, name) ==
    i \in DOMAIN E /\ E[i].name = name /\ \A j \in DOMAIN E : E[j].name = name => j = i

\* The open files of a directory that will write their entries on close leave
\* the i-th one alone, or write the same chain under the same name.
Clear(X, r, i, name, h) ==
    \A d \in Fd : Writer(X, d) /\ X[d].root = r =>
        IF X[d].ent.name = name THEN X[d].index = i /\ X[d].ent.fat = h ELSE X[d].index # i

Entry(f, P, X, r, i, name, h, w) ==
    LET E == LoadDir(f, P, r)
    IN  Sole(E, i, name) /\ E[i].fat = h /\ E[i].dir = w /\ Clear(X, r, i, name, h)

\* The directory of a path.
Home(f, P, X, g, r) ==
    IF Len(g) = 1 THEN r = ROOT ELSE \E k : Entry(f, P, X, ROOT, k, g[1], r, TRUE)

\* The open files of a path, and the file itself while none of them writes it.
Views(f, P, X, len, g, r, h) ==
    \A d \in Fd : X[d].open /\ X[d].path = g =>
        /\ X[d].ent.fat = h /\ X[d].ent.size = len /\ X[d].root = r
        /\ IF X[d].opt = "read" THEN Shows(X[d], g) ELSE Fit(f, P, X[d], g)
Rests(f, P, X, len, g, r, i, h) ==
    (\A d \in Fd : X[d].open /\ X[d].path = g => X[d].opt = "read") =>
        LoadDir(f, P, r)[i].size = len /\ On(f, P, h, g, len)

HeldAt(f, P, X, len, g, r, i, h) ==
    /\ Home(f, P, X, g, r) /\ Entry(f, P, X, r, i, Name(g), h, FALSE)
    /\ Views(f, P, X, len, g, r, h) /\ Rests(f, P, X, len, g, r, i, h)

\* What an open file that is written knows of its directory: if the entry at
\* its place has its name, it has its chain; in the root no other has the name.
Knows(E, x) ==
    \A j \in DOMAIN E : E[j].name = x.ent.name =>
        (j = x.index => E[j].fat = x.ent.fat) /\ (x.root = ROOT => j = x.index)

\* No two entries have one name.
Once(E) == \A i, j \in DOMAIN E : Used(E[i]) /\ E[i].name = E[j].name => i = j

Shared(X) ==
    \A d, e \in Fd : X[d].open /\ X[e].open /\ d # e /\ X[d].path = X[e].path => X[d].opt = "read"

Agree(f, P, X) ==
    /\ Shared(X) /\ Once(LoadDir(f, P, ROOT))
    /\ \A d \in Fd : Writer(X, d) => Knows(LoadDir(f, P, X[d].root), X[d])

KeptRec(K) ==
    /\ K = [g \in Files |-> K[g]]
    /\ \A g \in Files : K[g] = [len |-> K[g].len, ok |-> K[g].ok]

Content(f, P, X, K) ==
    /\ KeptRec(K) /\ Agree(f, P, X)
    /\ \A g \in Files : K[g].ok => \E r, i, h : HeldAt(f, P, X, K[g].len, g, r, i, h)

-----------------------------------------------------------------------------
(* Files are told apart by their directories and names.                      *)

\* There is one path for a name in a directory.
LEMMA OneFile ==
    ASSUME NEW b, NEW f \in Files, NEW g \in Files, NEW r, InDir(b, f, r), InDir(b, g, r),
           Name(f) = Name(g)
    PROVE  f = g
<1>1. Len(f) \in 1 .. 2 /\ Len(g) \in 1 .. 2
  BY Paths
<1>2. Len(f) = Len(g)
  BY <1>1 DEF InDir
<1>3. f[1] = g[1]
  <2>1. CASE r = ROOT
    <3>1. Len(f) = 1 /\ Len(g) = 1
      BY <2>1 DEF InDir
    <3> QED BY <3>1 DEF Name
  <2>2. CASE r # ROOT
    BY <2>2 DEF InDir
  <2> QED BY <2>1, <2>2
<1> QED BY <1>2, <1>3, SamePath

\* The directory of a path is in the book.
LEMMA HomeInDir ==
    ASSUME NEW b, NEW f, NEW P, NEW X, Booked(b, f, P, X), NEW g \in Files, NEW r,
           Home(f, P, X, g, r)
    PROVE  InDir(b, g, r)
<1>1. BookOK(b) /\ DirOK(b, f, P, ROOT) /\ Len(g) \in 1 .. 2 /\ g[1] \notin {"ff", "00"}
  BY Paths DEF Booked, BookOK
<1>2. CASE Len(g) = 1
  BY <1>1, <1>2 DEF Home, InDir, BookOK
<1>3. CASE Len(g) # 1
  <2>1. PICK E : E = LoadDir(f, P, ROOT)
    OBVIOUS
  <2>2. PICK k : k \in DOMAIN E /\ E[k].name = g[1] /\ E[k].fat = r /\ E[k].dir
    BY <1>3, <2>1, Zenon DEF Home, Entry, Sole
  <2>3. Noted(b, ROOT, k, E[k]) /\ Used(E[k])
    BY <1>1, <2>1, <2>2 DEF DirOK, Used
  <2>4. r \in DOMAIN b \ {ROOT} /\ b[r] = Row(ROOT, k, E[k])
    BY <2>2, <2>3, Zenon DEF Noted
  <2>5. b[r].name = g[1] /\ b[r].dir
    <3>1. PICK n, w : n = E[k].name /\ w = E[k].dir
      OBVIOUS
    <3>2. b[r] = [root |-> ROOT, index |-> k, name |-> n, dir |-> w]
      BY <2>4, <3>1, Zenon DEF Row
    <3>3. b[r].name = n /\ b[r].dir = w
      BY <3>2
    <3> QED BY <2>2, <3>1, <3>3, Zenon
  <2> QED BY <1>1, <1>3, <2>4, <2>5 DEF InDir
<1> QED BY <1>2, <1>3

\* A file that is held is in its directory, and its chain is in the book as its own.
LEMMA HeldInDir ==
    ASSUME NEW b, NEW f, NEW P, NEW X, Booked(b, f, P, X), NEW g \in Files, NEW len, NEW r,
           NEW i, NEW h, HeldAt(f, P, X, len, g, r, i, h)
    PROVE  /\ InDir(b, g, r) /\ h \in DOMAIN b \ {ROOT}
           /\ b[h].root = r /\ b[h].index = i /\ b[h].name = Name(g) /\ ~b[h].dir
<1>1. InDir(b, g, r)
  BY HomeInDir DEF HeldAt
<1>2. DirOK(b, f, P, r)
  BY <1>1 DEF Booked, InDir
<1>3. PICK E : E = LoadDir(f, P, r)
  OBVIOUS
<1>4. i \in DOMAIN E /\ E[i].name = Name(g) /\ E[i].fat = h /\ E[i].dir = FALSE
  BY <1>3, Zenon DEF HeldAt, Entry, Sole
<1>5. Noted(b, r, i, E[i]) /\ Used(E[i])
  BY <1>2, <1>3, <1>4, Paths DEF DirOK, Used
<1>6. h \in DOMAIN b \ {ROOT} /\ b[h] = Row(r, i, E[i])
  BY <1>4, <1>5, Zenon DEF Noted
<1>7. PICK n, w : n = E[i].name /\ w = E[i].dir
  OBVIOUS
<1>8. b[h] = [root |-> r, index |-> i, name |-> n, dir |-> w]
  BY <1>6, <1>7, Zenon DEF Row
<1>9. b[h].root = r /\ b[h].index = i /\ b[h].name = n /\ b[h].dir = w
  BY <1>8
<1>10. n = Name(g) /\ w = FALSE
  BY <1>4, <1>7
<1> QED BY <1>1, <1>6, <1>9, <1>10, Zenon

\* An open file of another path has another chain.
LEMMA HeldElse ==
    ASSUME NEW b, NEW f, NEW P, NEW X, Booked(b, f, P, X), NEW g \in Files, NEW len, NEW r,
           NEW i, NEW h, HeldAt(f, P, X, len, g, r, i, h), NEW x, FdMoves(b, x), x.path # g
    PROVE  x.ent.fat # h
<1>1. SUFFICES ASSUME x.ent.fat = h PROVE FALSE
  OBVIOUS
<1>2. InDir(b, g, r) /\ b[h].root = r /\ b[h].name = Name(g)
  BY HeldInDir
<1>3. b[h] = Row(x.root, x.index, x.ent) /\ InDir(b, x.path, x.root) /\ x.ent.name = Name(x.path)
  BY <1>1, OfFd DEF FdMoves
<1>4. b[h].root = x.root /\ b[h].name = x.ent.name
  BY <1>3 DEF Row
<1>5. x.path \in Files
  BY PartsOfFd DEF FdMoves
<1> QED BY <1>2, <1>3, <1>4, <1>5, OneFile

-----------------------------------------------------------------------------
(* Steps of one open file.                                                   *)

\* The directories of the book are the same.
SameDirs(b, f, P, t, Q) ==
    \A s \in DOMAIN b : b[s].dir => LoadDir(t, Q, s) = LoadDir(f, P, s)

\* A step that leaves all chains but that of a file alone leaves the directories.
LEMMA OthersDirs ==
    ASSUME NEW b, NEW h, NEW f, NEW P, NEW t, NEW Q, Apart(f, DOMAIN b),
           Others(b, h, f, P, t, Q), ~b[h].dir
    PROVE  SameDirs(b, f, P, t, Q)
<1>1. ASSUME NEW s \in DOMAIN b, b[s].dir PROVE LoadDir(t, Q, s) = LoadDir(f, P, s)
  <2>1. s \in DOMAIN b \ {h}
    BY <1>1
  <2>2. Proper(f, s) /\ Stays(f, t, s) /\ \A p \in Pages(f, s) : Q[p] = P[p]
    BY <2>1 DEF Others, Apart
  <2> QED BY <2>2, SameDir
<1> QED BY <1>1 DEF SameDirs

\* flushfile leaves every directory as it is.
LEMMA FlushDirs ==
    ASSUME NEW b, NEW f, NEW P, NEW X, NEW x, NEW r, Booked(b, f, P, X), FdOK(b, x),
           r = Flush(f, P, x), NEW t, t = IF r.ok THEN r.fat ELSE f
    PROVE  SameDirs(b, f, P, t, r.page) /\ Others(b, x.ent.fat, f, P, t, r.page)
<1>1. /\ FdRec(x) /\ x.ent.size \in Nat /\ x.ent.fat \in DOMAIN b /\ Apart(f, DOMAIN b)
      /\ x.off \in Nat /\ x.area \in Int /\ x.off + x.area >= 0 /\ b[x.ent.fat].dir = x.ent.dir
      /\ (x.ent.dir => x.ent.size = 0) /\ P = [p \in Page |-> P[p]]
  BY OfFd, PartsOfFd DEF FdOK, FdMoves, Booked
<1>2. Others(b, x.ent.fat, f, P, r.fat, r.page)
  BY FlushOthers
<1>3. r.ok \/ r.page = P
  BY FlushKeeps
<1>4. Others(b, x.ent.fat, f, P, t, r.page)
  BY <1>2, <1>3, Zenon DEF Others, Stays
<1>5. CASE ~x.ent.dir
  <2>1. ~b[x.ent.fat].dir
    BY <1>1, <1>5
  <2> QED BY <1>1, <1>4, <2>1, OthersDirs
<1>6. CASE x.ent.dir
  <2>1a. PICK n \in Nat : \E y : Flushed(f, P, x, n, y, r)
    BY <1>1, FlushIs
  <2>1. PICK y : Flushed(f, P, x, n, y, r)
    BY <2>1a
  <2>2. n = 0
    BY <1>1, <1>6, <2>1 DEF Flushed, Missing
  <2>3. r.fat = f
    BY <1>1, <2>1, <2>2, GrownApart DEF Flushed
  <2>4. r.page = P
    <3>1. CASE r.page = Save(r.fat, P, y)
      <4>1. y.ent.dir
        BY <1>6, <2>1 DEF Flushed, FdSame
      <4>2. PICK S : S = Save(r.fat, P, y)
        OBVIOUS
      <4>3. S = [p \in Page |-> S[p]] /\ \A p \in Page : S[p] = P[p]
        BY <4>1, <4>2, SavedFile
      <4>4. S = P
        BY ONLY <1>1, <4>3
      <4> QED BY <3>1, <4>2, <4>4
    <3> QED BY <2>1, <3>1 DEF Flushed
  <2>5. t = f
    BY <2>3
  <2> QED BY <1>4, <2>4, <2>5 DEF SameDirs
<1> QED BY <1>5, <1>6

\* The open files stay, or are closed.
Mild(X, Y) == \A d \in Fd : Y[d].open => X[d].open /\ Like(X[d], Y[d])

\* No open file endangers an entry that none did before, when none is opened.
LEMMA ClearMild ==
    ASSUME NEW X, NEW Y, Mild(X, Y), NEW r, NEW i, NEW name, NEW h, Clear(X, r, i, name, h)
    PROVE  Clear(Y, r, i, name, h)
  BY Zenon DEF Mild, Like, Clear, Writer

\* An entry stays when its directory does and no file is opened.
LEMMA EntrySame ==
    ASSUME NEW f, NEW P, NEW X, NEW t, NEW Q, NEW Y, NEW r, NEW i, NEW name, NEW h, NEW w,
           Entry(f, P, X, r, i, name, h, w), LoadDir(t, Q, r) = LoadDir(f, P, r), Mild(X, Y)
    PROVE  Entry(t, Q, Y, r, i, name, h, w)
  BY ClearMild, Zenon DEF Entry

\* The directory of a path stays when the root does and no file is opened.
LEMMA HomeSame ==
    ASSUME NEW f, NEW P, NEW X, NEW t, NEW Q, NEW Y, NEW g, NEW r, Home(f, P, X, g, r),
           LoadDir(t, Q, ROOT) = LoadDir(f, P, ROOT), Mild(X, Y)
    PROVE  Home(t, Q, Y, g, r)
<1>1. CASE Len(g) = 1
  BY <1>1, Zenon DEF Home
<1>2. CASE Len(g) # 1
  <2>1. PICK k : Entry(f, P, X, ROOT, k, g[1], r, TRUE)
    BY <1>2, Zenon DEF Home
  <2>2. Entry(t, Q, Y, ROOT, k, g[1], r, TRUE)
    BY <2>1, EntrySame
  <2> QED BY <1>2, <2>2, Zenon DEF Home
<1> QED BY <1>1, <1>2

\* The cells of a file are where they were, when its chain and pages are.
Untouched(f, P, t, Q, h) == Stays(f, t, h) /\ \A p \in Pages(f, h) : Q[p] = P[p]

\* A cell stays on the disk when its chain is not touched.
LEMMA OnStays ==
    ASSUME NEW f, NEW P, NEW t, NEW Q, NEW h, Untouched(f, P, t, Q, h), Proper(f, h), NEW g,
           NEW j \in Nat
    PROVE  OnDisk(t, Q, h, g, j) <=> OnDisk(f, P, h, g, j)
<1>1. PICK c : c = Chain(f, h) /\ c = Chain(t, h)
  BY DEF Untouched, Stays
<1>2. PICK q \in Nat : q = j \div PAGE
  BY PageOf
<1>3. q < Len(c) => Q[c[q + 1]] = P[c[q + 1]]
  <2>1. Len(c) \in Nat
    BY <1>1, GoesParts DEF Proper
  <2>2. q < Len(c) => q + 1 \in 1 .. Len(c)
    BY <2>1
  <2>3. q < Len(c) => c[q + 1] \in Pages(f, h)
    BY <1>1, <2>2 DEF Pages
  <2> QED BY <2>3 DEF Untouched
<1>4. /\ OnDisk(f, P, h, g, j) <=> q < Len(c) /\ Reachable(c[q + 1]) /\ P[c[q + 1]].cells[(j % PAGE) + 1] = <<g, j>>
      /\ OnDisk(t, Q, h, g, j) <=> q < Len(c) /\ Reachable(c[q + 1]) /\ Q[c[q + 1]].cells[(j % PAGE) + 1] = <<g, j>>
  BY <1>1, <1>2, Zenon DEF OnDisk
<1> QED BY <1>3, <1>4, Zenon

\* A file that is whole stays so when its chain is not touched.
LEMMA FitStays ==
    ASSUME NEW f, NEW P, NEW t, NEW Q, NEW x, Untouched(f, P, t, Q, x.ent.fat),
           Proper(f, x.ent.fat), NEW g, Fit(f, P, x, g)
    PROVE  Fit(t, Q, x, g)
<1>1. Chain(t, x.ent.fat) = Chain(f, x.ent.fat)
  BY DEF Untouched, Stays
<1>2. Spans(t, x)
  BY <1>1, Zenon DEF Fit, Spans
<1>3. ASSUME NEW j \in 0 .. x.ent.size - 1 PROVE Kept(t, Q, x, g, j)
  <2>1. Kept(f, P, x, g, j)
    BY <1>3, Zenon DEF Fit
  <2>2. OnDisk(t, Q, x.ent.fat, g, j) <=> OnDisk(f, P, x.ent.fat, g, j)
    <3>1. j \in Nat
      OBVIOUS
    <3> QED BY <3>1, OnStays
  <2> QED BY <2>1, <2>2, Zenon DEF Kept
<1> QED BY <1>2, <1>3, Zenon DEF Fit

\* The open files of a path are the same.
Quiet(X, Y, g) ==
    \A d \in Fd : /\ (Y[d].open /\ Y[d].path = g) <=> (X[d].open /\ X[d].path = g)
                  /\ X[d].open /\ X[d].path = g => Y[d] = X[d]

\* No open file writes the path.
Reading(X, g) == \A d \in Fd : X[d].open /\ X[d].path = g => X[d].opt = "read"

\* A file is held when its entry, its cells and its open files are the same.
LEMMA HeldStays ==
    ASSUME NEW b, NEW f, NEW P, NEW X, Booked(b, f, P, X), NEW g \in Files, NEW len, NEW r,
           NEW i, NEW h, HeldAt(f, P, X, len, g, r, i, h), NEW t, NEW Q, NEW Y,
           Home(t, Q, Y, g, r), Entry(t, Q, Y, r, i, Name(g), h, FALSE),
           Reading(X, g) => LoadDir(t, Q, r)[i].size = LoadDir(f, P, r)[i].size,
           Untouched(f, P, t, Q, h), Quiet(X, Y, g)
    PROVE  HeldAt(t, Q, Y, len, g, r, i, h)
<1>1. Proper(f, h)
  BY HeldInDir DEF Booked, Apart
<1>2. Views(t, Q, Y, len, g, r, h)
  <2>1. ASSUME NEW d \in Fd, Y[d].open, Y[d].path = g
        PROVE  /\ Y[d].ent.fat = h /\ Y[d].ent.size = len /\ Y[d].root = r
               /\ IF Y[d].opt = "read" THEN Shows(Y[d], g) ELSE Fit(t, Q, Y[d], g)
    <3>1. Y[d] = X[d] /\ X[d].open /\ X[d].path = g
      BY <2>1, Zenon DEF Quiet
    <3>2. /\ X[d].ent.fat = h /\ X[d].ent.size = len /\ X[d].root = r
          /\ IF X[d].opt = "read" THEN Shows(X[d], g) ELSE Fit(f, P, X[d], g)
      BY <3>1, Zenon DEF HeldAt, Views
    <3>3. Fit(f, P, X[d], g) => Fit(t, Q, X[d], g)
      BY <1>1, <3>2, FitStays
    <3> QED BY <3>1, <3>2, <3>3, Zenon
  <2> QED BY <2>1, Zenon DEF Views
<1>3. Rests(t, Q, Y, len, g, r, i, h)
  <2>1. SUFFICES ASSUME \A d \in Fd : Y[d].open /\ Y[d].path = g => Y[d].opt = "read"
                 PROVE  LoadDir(t, Q, r)[i].size = len /\ On(t, Q, h, g, len)
    BY Zenon DEF Rests
  <2>2. \A d \in Fd : X[d].open /\ X[d].path = g => X[d].opt = "read"
    BY <2>1, Zenon DEF Quiet
  <2>5. LoadDir(t, Q, r)[i].size = LoadDir(f, P, r)[i].size
    BY <2>2, Zenon DEF Reading
  <2>3. LoadDir(f, P, r)[i].size = len /\ On(f, P, h, g, len)
    BY <2>2, Zenon DEF HeldAt, Rests
  <2>4. \A j \in 0 .. len - 1 : OnDisk(t, Q, h, g, j)
    <3>1. \A j \in 0 .. len - 1 : j \in Nat
      OBVIOUS
    <3> QED BY <1>1, <2>3, <3>1, OnStays DEF On
  <2> QED BY <2>3, <2>4, <2>5, Zenon DEF On
<1> QED BY <1>2, <1>3, Zenon DEF HeldAt

\* One open file takes a step.
Moves(X, d, Y) == Y = [X EXCEPT ![d] = Y[d]] /\ X = [e \in Fd |-> X[e]] /\ d \in Fd

\* The other open files are the same.
LEMMA MovesOne ==
    ASSUME NEW X, NEW d, NEW Y, Moves(X, d, Y)
    PROVE  \A e \in Fd : e # d => Y[e] = X[e]
  BY DEF Moves

\* A step of an open file that keeps its entry opens no file.
LEMMA StepMild ==
    ASSUME NEW X, NEW d, NEW Y, Moves(X, d, Y), X[d].open, Like(X[d], Y[d])
    PROVE  Mild(X, Y)
<1>1. ASSUME NEW e \in Fd, Y[e].open PROVE X[e].open /\ Like(X[e], Y[e])
  <2>1. CASE e = d
    BY <2>1
  <2>2. CASE e # d
    <3>1. Y[e] = X[e]
      BY <2>2, MovesOne
    <3> QED BY <1>1, <3>1 DEF Like
  <2> QED BY <2>1, <2>2
<1> QED BY <1>1 DEF Mild

\* A step of an open file of another path.
LEMMA StepQuiet ==
    ASSUME NEW X, NEW d, NEW Y, Moves(X, d, Y), X[d].open, NEW g, X[d].path # g,
           Y[d].open => Y[d].path # g
    PROVE  Quiet(X, Y, g)
<1>1. \A e \in Fd : e # d => Y[e] = X[e]
  BY MovesOne
<1> QED BY <1>1, Zenon DEF Quiet

\* The chains and pages of the files that are held are not those of an open
\* file of another path.
LEMMA HeldUntouched ==
    ASSUME NEW b, NEW f, NEW P, NEW X, Booked(b, f, P, X), NEW g \in Files, NEW len, NEW r,
           NEW i, NEW h, HeldAt(f, P, X, len, g, r, i, h), NEW x, FdMoves(b, x), x.path # g,
           NEW t, NEW Q, Others(b, x.ent.fat, f, P, t, Q)
    PROVE  Untouched(f, P, t, Q, h)
<1>1. x.ent.fat # h /\ h \in DOMAIN b
  BY HeldElse, HeldInDir
<1> QED BY <1>1, Zenon DEF Others, Untouched

\* A file is held while an open file of another path takes a step.
LEMMA HeldBeside ==
    ASSUME NEW b, NEW f, NEW P, NEW X, Booked(b, f, P, X), NEW g \in Files, NEW len, NEW r,
           NEW i, NEW h, HeldAt(f, P, X, len, g, r, i, h),
           NEW d, NEW Y, Moves(X, d, Y), X[d].open, Like(X[d], Y[d]), X[d].path # g,
           NEW t, NEW Q, Others(b, X[d].ent.fat, f, P, t, Q), SameDirs(b, f, P, t, Q)
    PROVE  HeldAt(t, Q, Y, len, g, r, i, h)
<1>1. d \in Fd /\ FdMoves(b, X[d])
  BY DEF Moves, Booked, FdOK
<1>2. Untouched(f, P, t, Q, h)
  BY <1>1, HeldUntouched
<1>3. LoadDir(t, Q, r) = LoadDir(f, P, r) /\ LoadDir(t, Q, ROOT) = LoadDir(f, P, ROOT)
  <2>1. r \in DOMAIN b /\ b[r].dir /\ ROOT \in DOMAIN b /\ b[ROOT].dir
    BY HeldInDir DEF InDir, Booked, BookOK
  <2> QED BY <2>1 DEF SameDirs
<1>4. Mild(X, Y) /\ Quiet(X, Y, g)
  BY StepMild, StepQuiet DEF Like
<1>5. Home(t, Q, Y, g, r) /\ Entry(t, Q, Y, r, i, Name(g), h, FALSE)
  BY <1>3, <1>4, HomeSame, EntrySame, Zenon DEF HeldAt
<1> QED BY <1>2, <1>3, <1>4, <1>5, HeldStays

\* Directories and open files agree as before when neither gets a new entry.
LEMMA AgreeMild ==
    ASSUME NEW b, NEW f, NEW P, NEW X, Booked(b, f, P, X), Agree(f, P, X),
           NEW Y, Mild(X, Y), NEW t, NEW Q, SameDirs(b, f, P, t, Q)
    PROVE  Agree(t, Q, Y)
<1>1. Mild(X, Y)
  OBVIOUS
<1>2. Shared(Y)
  <2>1. ASSUME NEW u \in Fd, NEW v \in Fd, Y[u].open, Y[v].open, u # v, Y[u].path = Y[v].path
        PROVE  Y[u].opt = "read"
    <3>1. X[u].open /\ X[v].open /\ Like(X[u], Y[u]) /\ Like(X[v], Y[v])
      BY <1>1, <2>1, Zenon DEF Mild
    <3>2. X[u].path = X[v].path /\ Y[u].opt = X[u].opt
      BY <2>1, <3>1 DEF Like
    <3> QED BY <2>1, <3>1, <3>2, Zenon DEF Agree, Shared
  <2> QED BY <2>1, Zenon DEF Shared
<1>3. LoadDir(t, Q, ROOT) = LoadDir(f, P, ROOT)
  BY DEF SameDirs, Booked, BookOK
<1>4. ASSUME NEW e \in Fd, Writer(Y, e) PROVE Knows(LoadDir(t, Q, Y[e].root), Y[e])
  <2>1. X[e].open /\ Like(X[e], Y[e]) /\ Writer(X, e)
    BY <1>1, <1>4, Zenon DEF Mild, Writer, Like
  <2>2. X[e].root \in DOMAIN b /\ b[X[e].root].dir
    BY <2>1 DEF Booked, FdOK, FdMoves, InDir
  <2>3. LoadDir(t, Q, X[e].root) = LoadDir(f, P, X[e].root) /\ Y[e].root = X[e].root
    BY <2>1, <2>2 DEF SameDirs, Like
  <2>4. Knows(LoadDir(f, P, X[e].root), X[e])
    BY <2>1, Zenon DEF Agree
  <2> QED BY <2>1, <2>3, <2>4, Zenon DEF Knows, Like
<1> QED BY <1>2, <1>3, <1>4 DEF Agree

\* Directories and open files agree after a step of one open file.
LEMMA AgreeBeside ==
    ASSUME NEW b, NEW f, NEW P, NEW X, Booked(b, f, P, X), Agree(f, P, X),
           NEW d, NEW Y, Moves(X, d, Y), X[d].open, Like(X[d], Y[d]),
           NEW t, NEW Q, SameDirs(b, f, P, t, Q)
    PROVE  Agree(t, Q, Y)
  BY StepMild, AgreeMild

\* The ghost after a step of a file with path p.
Notes(K, L, p) == KeptRec(L) /\ (\A g \in Files : g # p => L[g] = K[g]) /\ (L[p].ok => K[p].ok)

\* A file that is written takes a step.
LEMMA WriterStep ==
    ASSUME NEW b, NEW f, NEW P, NEW X, NEW K, Booked(b, f, P, X), Content(f, P, X, K),
           NEW d, NEW Y, Moves(X, d, Y), Writer(X, d), Y[d].open, Like(X[d], Y[d]),
           NEW t, NEW Q, Others(b, X[d].ent.fat, f, P, t, Q), SameDirs(b, f, P, t, Q),
           NEW L, Notes(K, L, X[d].path),
           L[X[d].path].ok /\ X[d].ent.size = K[X[d].path].len /\ Fit(f, P, X[d], X[d].path) =>
               Y[d].ent.size = L[X[d].path].len /\ Fit(t, Q, Y[d], X[d].path)
    PROVE  Content(t, Q, Y, L)
<1>1. PICK p, x, y : p = X[d].path /\ x = X[d] /\ y = Y[d]
  OBVIOUS
<1>2. x.open /\ x.opt # "read" /\ y.open /\ Like(x, y) /\ d \in Fd /\ x.path = p /\ y.path = p
  BY <1>1, Zenon DEF Writer, Like, Moves
<1>3. Agree(t, Q, Y)
  BY <1>1, <1>2, AgreeBeside DEF Content
<1>4. ASSUME NEW g \in Files, L[g].ok PROVE \E r, i, h : HeldAt(t, Q, Y, L[g].len, g, r, i, h)
  <2>1. CASE g # p
    <3>1. L[g] = K[g]
      BY <1>1, <2>1, Zenon DEF Notes
    <3>2. PICK r, i, h : HeldAt(f, P, X, K[g].len, g, r, i, h)
      BY <1>4, <3>1, Zenon DEF Content
    <3>3. HeldAt(t, Q, Y, K[g].len, g, r, i, h)
      BY <1>1, <1>2, <2>1, <3>2, HeldBeside
    <3> QED BY <3>1, <3>3, Zenon
  <2>2. CASE g = p
    <3>1. PICK r, i, h : HeldAt(f, P, X, K[p].len, p, r, i, h)
      BY <1>1, <1>4, <2>2, Zenon DEF Content, Notes
    <3>2. x.ent.fat = h /\ x.ent.size = K[p].len /\ x.root = r /\ Fit(f, P, x, p)
      BY <1>1, <1>2, <3>1, Zenon DEF HeldAt, Views
    <3>3. y.ent.size = L[p].len /\ Fit(t, Q, y, p) /\ y.ent.fat = h /\ y.root = r
      BY <1>1, <1>2, <1>4, <2>2, <3>2, Zenon DEF Like
    <3>4. \A e \in Fd : Y[e].open /\ Y[e].path = p => e = d
      <4>1. ASSUME NEW e \in Fd, Y[e].open, Y[e].path = p, e # d PROVE FALSE
        <5>1. Y[e] = X[e]
          BY <4>1, MovesOne
        <5> QED BY <1>1, <1>2, <4>1, <5>1, Zenon DEF Content, Agree, Shared
      <4> QED BY <4>1
    <3>5. Views(t, Q, Y, L[p].len, p, r, h)
      BY <1>1, <1>2, <3>3, <3>4, Zenon DEF Views, Like
    <3>6. Rests(t, Q, Y, L[p].len, p, r, i, h)
      BY <1>1, <1>2, Zenon DEF Rests, Like
    <3>7. Mild(X, Y)
      BY <1>1, <1>2, StepMild
    <3>8. LoadDir(t, Q, r) = LoadDir(f, P, r) /\ LoadDir(t, Q, ROOT) = LoadDir(f, P, ROOT)
      <4>1. r \in DOMAIN b /\ b[r].dir /\ ROOT \in DOMAIN b /\ b[ROOT].dir
        BY <2>2, <3>1, HeldInDir DEF InDir, Booked, BookOK
      <4> QED BY <4>1 DEF SameDirs
    <3>9. Home(t, Q, Y, p, r) /\ Entry(t, Q, Y, r, i, Name(p), h, FALSE)
      BY <3>1, <3>7, <3>8, HomeSame, EntrySame, Zenon DEF HeldAt
    <3> QED BY <2>2, <3>5, <3>6, <3>9, Zenon DEF HeldAt
  <2> QED BY <2>1, <2>2
<1> QED BY <1>3, <1>4, Zenon DEF Content, Notes

\* A file that is read takes a step.
LEMMA ReaderStep ==
    ASSUME NEW b, NEW f, NEW P, NEW X, NEW K, Booked(b, f, P, X), Content(f, P, X, K),
           NEW d, NEW Y, Moves(X, d, Y), X[d].open, X[d].opt = "read", Y[d].open,
           Like(X[d], Y[d]), Y[d].ent = X[d].ent, NEW L, Notes(K, L, X[d].path),
           L[X[d].path].len = K[X[d].path].len,
           On(f, P, X[d].ent.fat, X[d].path, X[d].ent.size) /\ Shows(X[d], X[d].path) =>
               Shows(Y[d], X[d].path)
    PROVE  Content(f, P, Y, L)
<1>1. PICK p, x, y : p = X[d].path /\ x = X[d] /\ y = Y[d]
  OBVIOUS
<1>2. x.open /\ x.opt = "read" /\ y.open /\ Like(x, y) /\ d \in Fd /\ x.path = p /\ y.path = p
  BY <1>1, Zenon DEF Like, Moves
<1>3. SameDirs(b, f, P, f, P) /\ Others(b, x.ent.fat, f, P, f, P)
  BY Zenon DEF SameDirs, Others, Stays
<1>4. Agree(f, P, Y)
  BY <1>1, <1>2, <1>3, AgreeBeside DEF Content
<1>5. ASSUME NEW g \in Files, L[g].ok PROVE \E r, i, h : HeldAt(f, P, Y, L[g].len, g, r, i, h)
  <2>1. CASE g # p
    <3>1. L[g] = K[g]
      BY <1>1, <2>1, Zenon DEF Notes
    <3>2. PICK r, i, h : HeldAt(f, P, X, K[g].len, g, r, i, h)
      BY <1>5, <3>1, Zenon DEF Content
    <3>3. HeldAt(f, P, Y, K[g].len, g, r, i, h)
      BY <1>1, <1>2, <1>3, <2>1, <3>2, HeldBeside
    <3> QED BY <3>1, <3>3, Zenon
  <2>2. CASE g = p
    <3>1. PICK r, i, h : HeldAt(f, P, X, K[p].len, p, r, i, h)
      BY <1>1, <1>5, <2>2, Zenon DEF Content, Notes
    <3>2. x.ent.fat = h /\ x.ent.size = K[p].len /\ x.root = r /\ Shows(x, p)
      BY <1>1, <1>2, <3>1, Zenon DEF HeldAt, Views
    <3>3. \A e \in Fd : X[e].open /\ X[e].path = p => X[e].opt = "read"
      BY <1>1, <1>2, Zenon DEF Content, Agree, Shared
    <3>4. LoadDir(f, P, r)[i].size = K[p].len /\ On(f, P, h, p, K[p].len)
      BY <3>1, <3>3, Zenon DEF HeldAt, Rests
    <3>5. Shows(y, p) /\ y.ent = x.ent /\ y.root = r /\ y.opt = "read"
      BY <1>1, <1>2, <3>2, <3>4, Zenon DEF Like
    <3>6. L[p].len = K[p].len
      BY <1>1
    <3>7. \A e \in Fd : e # d => Y[e] = X[e]
      BY MovesOne
    <3>8. Views(f, P, Y, L[p].len, p, r, h)
      <4>1. ASSUME NEW e \in Fd, Y[e].open, Y[e].path = p
            PROVE  /\ Y[e].ent.fat = h /\ Y[e].ent.size = L[p].len /\ Y[e].root = r
                   /\ IF Y[e].opt = "read" THEN Shows(Y[e], p) ELSE Fit(f, P, Y[e], p)
        <5>1. CASE e = d
          BY <1>1, <3>2, <3>5, <3>6, <5>1
        <5>2. CASE e # d
          BY <3>1, <3>6, <3>7, <4>1, <5>2, Zenon DEF HeldAt, Views
        <5> QED BY <5>1, <5>2
      <4> QED BY <4>1, Zenon DEF Views
    <3>9. Rests(f, P, Y, L[p].len, p, r, i, h)
      BY <3>4, <3>6, Zenon DEF Rests
    <3>10. Mild(X, Y)
      BY <1>1, <1>2, StepMild
    <3>11. Home(f, P, Y, p, r) /\ Entry(f, P, Y, r, i, Name(p), h, FALSE)
      BY <3>1, <3>10, HomeSame, EntrySame, Zenon DEF HeldAt
    <3> QED BY <2>2, <3>8, <3>9, <3>11, Zenon DEF HeldAt
  <2> QED BY <2>1, <2>2
<1> QED BY <1>4, <1>5, Zenon DEF Content, Notes

-----------------------------------------------------------------------------
(* The calls on open files.                                                  *)

WithOk(K, p, w) == [K EXCEPT ![p].ok = w]
WithLen(K, p, len, w) == [K EXCEPT ![p].len = len, ![p].ok = w]

\* The ghost of one file is given up, or not.
LEMMA NoteOk ==
    ASSUME NEW K, KeptRec(K), NEW p \in Files, NEW w, w => K[p].ok, NEW L, L = WithOk(K, p, w)
    PROVE  Notes(K, L, p) /\ L[p].len = K[p].len /\ (L[p].ok => w)
<1>1. PICK k : k = K[p]
  OBVIOUS
<1>2. PICK len, ok : k = [len |-> len, ok |-> ok] /\ k.len = len /\ k.ok = ok
  BY <1>1, Zenon DEF KeptRec
<1>3. PICK v : v = w
  OBVIOUS
<1>4. PICK n : n = [k EXCEPT !.ok = v]
  OBVIOUS
<1>5. n = [len |-> len, ok |-> v] /\ n.len = len /\ n.ok = v
  BY <1>2, <1>4
<1>6. L = [K EXCEPT ![p] = n]
  BY <1>1, <1>3, <1>4, Zenon DEF WithOk
<1>7. K = [g \in Files |-> K[g]]
  BY Zenon DEF KeptRec
<1>8. L = [g \in Files |-> L[g]] /\ L[p] = n /\ \A g \in Files : g # p => L[g] = K[g]
  BY <1>6, <1>7
<1>9. \A g \in Files : L[g] = [len |-> L[g].len, ok |-> L[g].ok]
  <2>1. n = [len |-> n.len, ok |-> n.ok]
    BY <1>5
  <2> QED BY <1>8, <2>1, Zenon DEF KeptRec
<1>10. L[p].ok => w
  BY <1>3, <1>5, <1>8, Zenon
<1>11. L[p].len = K[p].len
  BY <1>1, <1>2, <1>5, <1>8, Zenon
<1> QED BY <1>8, <1>9, <1>10, <1>11, Zenon DEF Notes, KeptRec

\* The ghost of one file gets another length.
LEMMA NoteLen ==
    ASSUME NEW K, KeptRec(K), NEW p \in Files, NEW len, NEW w, w => K[p].ok,
           NEW L, L = WithLen(K, p, len, w)
    PROVE  Notes(K, L, p) /\ L[p].len = len /\ (L[p].ok => w)
<1>1. PICK k : k = K[p]
  OBVIOUS
<1>2. PICK old, ok : k = [len |-> old, ok |-> ok] /\ k.ok = ok
  BY <1>1, Zenon DEF KeptRec
<1>3. PICK n : n = [k EXCEPT !.len = len]
  OBVIOUS
<1>4. n = [len |-> len, ok |-> ok] /\ n.len = len /\ n.ok = ok
  BY <1>2, <1>3
<1>5. PICK M : M = [K EXCEPT ![p].len = len]
  OBVIOUS
<1>6. M = [K EXCEPT ![p] = n]
  BY <1>1, <1>3, <1>5, Zenon
<1>7. K = [g \in Files |-> K[g]]
  BY Zenon DEF KeptRec
<1>8. M = [g \in Files |-> M[g]] /\ M[p] = n /\ \A g \in Files : g # p => M[g] = K[g]
  BY <1>6, <1>7
<1>9. \A g \in Files : M[g] = [len |-> M[g].len, ok |-> M[g].ok]
  <2>1. n = [len |-> n.len, ok |-> n.ok]
    BY <1>4
  <2> QED BY <1>8, <2>1, Zenon DEF KeptRec
<1>10. KeptRec(M)
  BY <1>8, <1>9, Zenon DEF KeptRec
<1>11. M[p].len = len /\ M[p].ok = K[p].ok
  BY <1>1, <1>2, <1>4, <1>8, Zenon
<1>12. L = WithOk(M, p, w)
  BY <1>5, Zenon DEF WithLen, WithOk
<1>13. Notes(M, L, p) /\ L[p].len = M[p].len /\ (L[p].ok => w)
  <2>1. w => M[p].ok
    BY <1>11
  <2> QED BY <1>10, <1>12, <2>1, NoteOk
<1> QED BY <1>8, <1>11, <1>13, Zenon DEF Notes

\* The open file of a step.
Sets(X, d, y, Y) == Y = [X EXCEPT ![d] = y]

\* The open file of a step before and after it.
LEMMA StepFd ==
    ASSUME NEW b, NEW f, NEW P, NEW X, Booked(b, f, P, X), NEW d \in Fd, X[d].open, NEW y,
           NEW Y, Sets(X, d, y, Y)
    PROVE  Moves(X, d, Y) /\ Y[d] = y /\ FdOK(b, X[d]) /\ FdMoves(b, X[d]) /\ X[d].path \in Files
<1>1. X = [e \in Fd |-> X[e]]
  BY DEF Booked
<1>2. Y[d] = y /\ Y = [X EXCEPT ![d] = y]
  BY <1>1 DEF Sets
<1>3. FdOK(b, X[d])
  BY DEF Booked
<1>4. X[d].path \in Files
  BY <1>3, PartsOfFd DEF FdOK, FdMoves
<1> QED BY <1>1, <1>2, <1>3, <1>4 DEF Moves, FdOK

\* minifs_write
LEMMA WriteContent ==
    ASSUME NEW b, Booked(b, fat, page, filefd), Content(fat, page, filefd, kept),
           NEW d \in Fd, NEW n \in Nat, Write(d, n)
    PROVE  Content(fat', page', filefd', kept')
<1>1. PICK s : s = [fat |-> fat, page |-> page, x |-> filefd[d], ok |-> TRUE]
  OBVIOUS
<1>2. PICK t : t = WriteCells(s, n)
  OBVIOUS
<1>3. PICK x, p : x = filefd[d] /\ p = x.path
  OBVIOUS
<1>4. PICK Y, L : Y = filefd' /\ L = kept'
  OBVIOUS
<1>5. /\ x.open /\ x.opt # "read" /\ ~x.ent.dir
      /\ fat' = t.fat /\ page' = t.page /\ Sets(filefd, d, t.x, Y)
      /\ L = WithLen(kept, p, t.x.ent.size, kept[p].ok /\ t.ok)
  BY <1>1, <1>2, <1>3, <1>4, Zenon DEF Write, WithLen, Sets
<1>6. /\ Moves(filefd, d, Y) /\ Y[d] = t.x /\ FdOK(b, x) /\ FdMoves(b, x) /\ p \in Files
  <2>1. PICK y : y = t.x
    OBVIOUS
  <2>2. filefd[d].open /\ Sets(filefd, d, y, Y)
    BY <1>3, <1>5, <2>1, Zenon
  <2>3. /\ Moves(filefd, d, Y) /\ Y[d] = y /\ FdOK(b, filefd[d]) /\ FdMoves(b, filefd[d])
        /\ filefd[d].path \in Files
    BY <2>2, StepFd
  <2> QED BY <1>3, <2>1, <2>3, Zenon
<1>7. PICK ok : s = [fat |-> fat, page |-> page, x |-> x, ok |-> ok] /\ ok = TRUE
  BY <1>1, <1>3
<1>8. s.fat = fat /\ s.page = page /\ s.x = x /\ s.ok = ok
  BY <1>7
<1>9. Writing(b, filefd, s)
  BY <1>5, <1>6, <1>7, <1>8, Zenon DEF Writing
<1>10. Writing(b, filefd, t) /\ Carries(b, s, t)
  BY <1>2, <1>9, WritesCarry
<1>11. Others(b, x.ent.fat, fat, page, t.fat, t.page) /\ Like(x, t.x)
  BY <1>8, <1>10, Zenon DEF Carries
<1>12. t.x.open /\ SameDirs(b, fat, page, t.fat, t.page)
  <2>1. t.x.open
    <3>1. FdRec(t.x)
      BY <1>10 DEF Writing, FdOK, FdMoves
    <3> QED BY <3>1, PartsOfFd, FdOfParts
  <2>2. ~b[x.ent.fat].dir /\ Apart(fat, DOMAIN b)
    BY <1>5, <1>6, OfFd DEF Booked
  <2> QED BY <1>11, <2>1, <2>2, OthersDirs
<1>13. Notes(kept, L, p) /\ L[p].len = t.x.ent.size /\ (L[p].ok => kept[p].ok /\ t.ok)
  <2>1. PICK w : w = (kept[p].ok /\ t.ok)
    OBVIOUS
  <2>2. KeptRec(kept) /\ (w => kept[p].ok) /\ L = WithLen(kept, p, t.x.ent.size, w)
    BY <1>5, <2>1, Zenon DEF Content
  <2>3. Notes(kept, L, p) /\ L[p].len = t.x.ent.size /\ (L[p].ok => w)
    BY <1>6, <2>2, NoteLen
  <2> QED BY <2>1, <2>3, Zenon
<1>14. L[p].ok /\ Fit(fat, page, x, p) => Fit(t.fat, t.page, t.x, p)
  BY <1>3, <1>8, <1>10, <1>13, Zenon DEF Carries
<1>15. Content(t.fat, t.page, Y, L)
  <2>1. Writer(filefd, d) /\ Y[d].open /\ Like(filefd[d], Y[d])
    BY <1>3, <1>5, <1>6, <1>11, <1>12, Zenon DEF Writer
  <2>2. Others(b, filefd[d].ent.fat, fat, page, t.fat, t.page) /\ Notes(kept, L, filefd[d].path)
    BY <1>3, <1>11, <1>13, Zenon
  <2>3. L[filefd[d].path].ok /\ filefd[d].ent.size = kept[filefd[d].path].len
            /\ Fit(fat, page, filefd[d], filefd[d].path) =>
            Y[d].ent.size = L[filefd[d].path].len /\ Fit(t.fat, t.page, Y[d], filefd[d].path)
    BY <1>3, <1>6, <1>13, <1>14, Zenon
  <2> QED BY <1>6, <1>12, <2>1, <2>2, <2>3, WriterStep
<1> QED BY <1>4, <1>5, <1>15, Zenon

\* minifs_read
LEMMA ReadContent ==
    ASSUME NEW b, Booked(b, fat, page, filefd), Content(fat, page, filefd, kept),
           NEW d \in Fd, NEW n \in Nat, Read(d, n)
    PROVE  Content(fat', page', filefd', kept')
<1>1. PICK x, p, y : x = filefd[d] /\ p = x.path /\ y = ReadCells(x, n)
  OBVIOUS
<1>2. PICK Y, L : Y = filefd' /\ L = kept'
  OBVIOUS
<1>3. PICK w : w = (kept[p].ok /\ (x.opt = "read" \/ y.off = x.off))
  OBVIOUS
<1>4. /\ x.open /\ fat' = fat /\ page' = page /\ Sets(filefd, d, y, Y)
      /\ L = WithOk(kept, p, w)
  BY <1>1, <1>2, <1>3, Zenon DEF Read, WithOk, Sets
<1>5. /\ Moves(filefd, d, Y) /\ Y[d] = y /\ FdOK(b, x) /\ FdMoves(b, x) /\ p \in Files
      /\ Apart(fat, DOMAIN b)
  BY <1>1, <1>4, StepFd DEF Booked
<1>6. FdOK(b, y) /\ Looks(x, y)
  BY <1>1, <1>5, ReadsKeep, ReadsLook
<1>7. y.open /\ Like(x, y) /\ y.ent = x.ent
  <2>1. FdRec(y)
    BY <1>6 DEF FdOK, FdMoves
  <2> QED BY <1>6, <2>1, PartsOfFd, FdOfParts DEF Looks
<1>8. Notes(kept, L, p) /\ L[p].len = kept[p].len /\ (L[p].ok => w)
  <2>1. KeptRec(kept) /\ (w => kept[p].ok)
    BY <1>3, Zenon DEF Content
  <2> QED BY <1>4, <1>5, <2>1, NoteOk
<1>9. CASE x.opt = "read"
  <2>1. On(fat, page, x.ent.fat, p, x.ent.size) /\ Shows(x, p) => Shows(y, p)
    BY <1>6, Zenon DEF Looks
  <2>2. Content(fat, page, Y, L)
    BY <1>1, <1>4, <1>5, <1>7, <1>8, <1>9, <2>1, ReaderStep
  <2> QED BY <1>2, <1>4, <2>2, Zenon
<1>10. CASE x.opt # "read"
  <2>1. L[p].ok /\ Fit(fat, page, x, p) => Fit(fat, page, y, p)
    BY <1>3, <1>6, <1>8, <1>10, Zenon DEF Looks
  <2>2. SameDirs(b, fat, page, fat, page) /\ Others(b, x.ent.fat, fat, page, fat, page)
    BY Zenon DEF SameDirs, Others, Stays
  <2>3. L[p].ok /\ x.ent.size = kept[p].len /\ Fit(fat, page, x, p) =>
            y.ent.size = L[p].len /\ Fit(fat, page, y, p)
    BY <1>7, <1>8, <2>1, Zenon
  <2>4. Writer(filefd, d)
    BY <1>1, <1>4, <1>10, Zenon DEF Writer
  <2>5. Content(fat, page, Y, L)
    BY <1>1, <1>5, <1>7, <1>8, <2>2, <2>3, <2>4, WriterStep
  <2> QED BY <1>2, <1>4, <2>5, Zenon
<1> QED BY <1>9, <1>10

\* What is whole was written.
LEMMA FlushWhole ==
    ASSUME NEW b, NEW f, NEW P, NEW x, NEW r, FdOK(b, x), r = Flush(f, P, x), r.whole
    PROVE  r.ok
<1>1. FdRec(x) /\ x.ent.size \in Nat
  BY OfFd DEF FdOK, FdMoves
<1>2a. PICK n \in Nat : \E y : Flushed(f, P, x, n, y, r)
  BY <1>1, FlushIs
<1>2. PICK y : Flushed(f, P, x, n, y, r)
  BY <1>2a
<1> QED BY <1>2, Zenon DEF Flushed

\* minifs_seek
LEMMA SeekContent ==
    ASSUME NEW b, Booked(b, fat, page, filefd), Content(fat, page, filefd, kept),
           NEW d \in Fd, NEW to \in Nat, Seek(d, to)
    PROVE  Content(fat', page', filefd', kept')
<1>1. PICK x, p : x = filefd[d] /\ p = x.path
  OBVIOUS
<1>2. PICK pos : pos = IF to > x.ent.size THEN x.ent.size ELSE to
  OBVIOUS
<1>3. PICK r : r = IF x.opt = "read"
                   THEN [fat |-> fat, page |-> page, x |-> x, ok |-> TRUE, whole |-> TRUE]
                   ELSE Flush(fat, page, x)
  OBVIOUS
<1>4. PICK y : y = Goto(r.x, pos, pos)
  OBVIOUS
<1>5. PICK z : z = Load(r.fat, r.page, y)
  OBVIOUS
<1>6. PICK w : w = (kept[p].ok /\ r.whole /\ (x.opt = "read" \/ pos % PAGE = 0))
  OBVIOUS
<1>7. PICK Y, L : Y = filefd' /\ L = kept'
  OBVIOUS
<1>8. /\ x.open /\ fat' = (IF r.ok THEN r.fat ELSE fat) /\ page' = r.page
      /\ Sets(filefd, d, z, Y) /\ L = WithOk(kept, p, w)
  BY <1>1, <1>2, <1>3, <1>4, <1>5, <1>6, <1>7, Zenon DEF Seek, Goto, WithOk, Sets
<1>9. /\ Moves(filefd, d, Y) /\ Y[d] = z /\ FdOK(b, x) /\ FdMoves(b, x) /\ p \in Files
      /\ Apart(fat, DOMAIN b)
  BY <1>1, <1>8, StepFd DEF Booked
<1>10. pos \in Nat /\ x.ent.size \in Nat /\ pos <= x.ent.size
  BY <1>2, <1>9, OfFd
<1>11. Notes(kept, L, p) /\ L[p].len = kept[p].len /\ (L[p].ok => w)
  <2>1. KeptRec(kept) /\ (w => kept[p].ok)
    BY <1>6, Zenon DEF Content
  <2> QED BY <1>8, <1>9, <2>1, NoteOk
<1>12. ASSUME FdMoves(b, r.x), Apart(r.fat, DOMAIN b), r.x.ent = x.ent, Like(x, r.x)
       PROVE  /\ FdRec(y) /\ y.ent = x.ent /\ y.cur = pos /\ y.off = pos /\ z.ent = x.ent
              /\ FdRec(z) /\ z.open /\ Like(x, z) /\ Len(Chain(r.fat, y.ent.fat)) \in Nat
  <2>1. PICK v, g, Q : v = r.x /\ g = r.fat /\ Q = r.page
    OBVIOUS
  <2>2. Reloads(b, g, Q, v, pos, pos, y, z)
    BY <1>4, <1>5, <1>10, <1>12, <2>1, Zenon DEF Reloads
  <2>3. /\ FdRec(y) /\ y.ent = v.ent /\ y.cur = pos /\ y.off = pos
        /\ FdSame(y, z) /\ FdRec(z) /\ Like(v, z) /\ Len(Chain(g, y.ent.fat)) \in Nat
    BY <2>2, MovedFd
  <2>4. z.open
    BY <2>3, PartsOfFd, FdOfParts
  <2>5. Like(x, z) /\ y.ent = x.ent /\ z.ent = x.ent
    BY <1>12, <2>1, <2>3, Zenon DEF Like, FdSame
  <2> QED BY <2>1, <2>3, <2>4, <2>5, Zenon
<1>13. CASE x.opt = "read"
  <2>1. r = [fat |-> fat, page |-> page, x |-> x, ok |-> TRUE, whole |-> TRUE]
    BY <1>3, <1>13, Zenon
  <2>2. r.fat = fat /\ r.page = page /\ r.x = x
    BY <2>1
  <2>3. /\ FdRec(y) /\ y.ent = x.ent /\ z.ent = x.ent
        /\ z.open /\ Like(x, z) /\ Len(Chain(fat, y.ent.fat)) \in Nat
    BY <1>9, <1>12, <2>2, Zenon DEF Like
  <2>4. On(fat, page, x.ent.fat, p, x.ent.size) => Shows(z, p)
    BY <1>5, <1>10, <2>2, <2>3, LoadShows
  <2>5. Content(fat, page, Y, L)
    BY <1>1, <1>8, <1>9, <1>11, <1>13, <2>3, <2>4, ReaderStep
  <2>6. fat' = fat /\ page' = page
    BY <1>8, <2>2, Zenon
  <2> QED BY <1>7, <2>5, <2>6, Zenon
<1>14. CASE x.opt # "read"
  <2>1. r = Flush(fat, page, x)
    BY <1>3, <1>14, Zenon
  <2>2. PICK t : t = IF r.ok THEN r.fat ELSE fat
    OBVIOUS
  <2>3. SameDirs(b, fat, page, t, r.page) /\ Others(b, x.ent.fat, fat, page, t, r.page)
    BY <1>9, <2>1, <2>2, FlushDirs
  <2>4. Booked(b, r.fat, r.page, filefd) /\ FdOK(b, r.x) /\ FdSame(x, r.x)
    BY <1>9, <2>1, FlushKeeps
  <2>5. FdMoves(b, r.x) /\ Apart(r.fat, DOMAIN b) /\ r.x.ent = x.ent /\ Like(x, r.x)
    BY <2>4 DEF FdOK, Booked, FdSame, Like
  <2>6. /\ FdRec(y) /\ y.ent = x.ent /\ y.cur = pos /\ y.off = pos /\ z.ent = x.ent
        /\ FdRec(z) /\ z.open /\ Like(x, z) /\ Len(Chain(r.fat, y.ent.fat)) \in Nat
    BY <1>12, <2>5
  <2>7. ASSUME L[p].ok, Fit(fat, page, x, p) PROVE Fit(t, r.page, z, p)
    <3>1. r.whole /\ pos % PAGE = 0
      BY <1>6, <1>11, <1>14, <2>7, Zenon
    <3>2. r.ok /\ On(r.fat, r.page, x.ent.fat, p, x.ent.size)
      <4>1. CASE x.ent.dir
        <5>1. x.ent.size = 0
          BY <1>9, <4>1, OfFd
        <5>2. r.ok
          BY <1>9, <2>1, <3>1, FlushWhole
        <5> QED BY <5>1, <5>2 DEF On
      <4>2. CASE ~x.ent.dir
        BY <1>9, <2>1, <2>7, <3>1, <4>2, FlushFit
      <4> QED BY <4>1, <4>2
    <3>3. t = r.fat
      BY <2>2, <3>2
    <3>4. Stands(y)
      <4>1. pos <= pos /\ pos <= pos + CACHE
        BY <1>10, FsConstants
      <4> QED BY <1>10, <2>6, <4>1, Zenon DEF Stands
    <3>5. On(r.fat, r.page, y.ent.fat, p, y.ent.size) /\ y.ent.size \in Nat /\ y.off % PAGE = 0
      BY <1>10, <2>6, <3>1, <3>2
    <3>6. Fit(r.fat, r.page, z, p)
      BY <1>5, <2>6, <3>4, <3>5, LoadShows
    <3> QED BY <3>3, <3>6
  <2>8. L[p].ok /\ x.ent.size = kept[p].len /\ Fit(fat, page, x, p) =>
            z.ent.size = L[p].len /\ Fit(t, r.page, z, p)
    BY <1>11, <2>6, <2>7, Zenon
  <2>9. Writer(filefd, d)
    BY <1>1, <1>8, <1>14, Zenon DEF Writer
  <2>10. Content(t, r.page, Y, L)
    BY <1>1, <1>9, <1>11, <2>3, <2>6, <2>8, <2>9, WriterStep
  <2> QED BY <1>7, <1>8, <2>2, <2>10, Zenon
<1> QED BY <1>13, <1>14

-----------------------------------------------------------------------------
(* Directories that change at one place.                                     *)

\* What is used in F was in E, at its place, or is the entry e at the place k;
\* the used entries of E but the k-th are in F.
Gets(E, F, k, e) ==
    \A j \in DOMAIN F : Used(F[j]) => IF j = k THEN F[j] = e ELSE j \in DOMAIN E /\ F[j] = E[j]
Spares(E, F, k) == \A j \in DOMAIN E : j # k /\ Used(E[j]) => j \in DOMAIN F /\ F[j] = E[j]

\* The entry e at the place k is the i-th one as it should be, or another.
Takes(F, k, e, i, h, w) == k = i /\ e.fat = h /\ e.dir = w /\ i \in DOMAIN F /\ F[i] = e
Spells(E, F, k, e, i, name, h, w) ==
    Spares(E, F, k) /\ IF e.name = name THEN Takes(F, k, e, i, h, w) ELSE k # i

\* A directory that is saved with one entry more has turned at that place only.
LEMMA SavedTurns ==
    ASSUME NEW f, NEW P, NEW r, Proper(f, r), Table(f), NEW k, NEW e, NEW S, Puts1(f, P, r, k, e, S),
           NEW E, NEW F, E = LoadDir(f, P, r), F = LoadDir(f, S, r)
    PROVE  /\ Gets(E, F, k, e) /\ Spares(E, F, k)
           /\ k \in DOMAIN E /\ E[k].name # "00" => k \in DOMAIN F /\ F[k] = e
           /\ \A p \in Page : p \notin Pages(f, r) => S[p] = P[p]
<1>1. PICK ents : ents = [j \in DOMAIN E |-> IF j = k THEN e ELSE E[j]]
  OBVIOUS
<1>2. S = SaveDir(f, P, r, ents)
  BY <1>1, Zenon DEF Puts1
<1>3. DOMAIN E = Slots(f, r)
  BY DirIs
<1>4. ents = [j \in Slots(f, r) |-> ents[j]]
  BY <1>1, <1>3
<1>5. /\ \A p \in Page : p \notin Pages(f, r) => S[p] = P[p]
      /\ DOMAIN F = Slots(f, r)
      /\ \A i \in Slots(f, r) : F[i] = ents[i] \/ (F[i] = ZeroEnt /\ E[i] = ZeroEnt)
  BY <1>2, <1>4, SavedAll
<1>6. ZeroEnt.name = "00" /\ ~Used(ZeroEnt)
  BY DEF ZeroEnt, NoEnt, Used
<1>7. \A j \in DOMAIN E : ents[j] = IF j = k THEN e ELSE E[j]
  BY <1>1
<1>8. Gets(E, F, k, e)
  <2>1. ASSUME NEW j \in DOMAIN F, Used(F[j])
        PROVE  IF j = k THEN F[j] = e ELSE j \in DOMAIN E /\ F[j] = E[j]
    <3>1. j \in DOMAIN E /\ F[j] = ents[j]
      BY <1>3, <1>5, <1>6, <2>1
    <3> QED BY <1>7, <3>1, Zenon
  <2> QED BY <2>1, Zenon DEF Gets
<1>9. Spares(E, F, k)
  <2>1. ASSUME NEW j \in DOMAIN E, j # k, Used(E[j]) PROVE j \in DOMAIN F /\ F[j] = E[j]
    <3>1. j \in DOMAIN F /\ F[j] = ents[j]
      BY <1>3, <1>5, <1>6, <2>1
    <3> QED BY <1>7, <2>1, <3>1, Zenon
  <2> QED BY <2>1, Zenon DEF Spares
<1>10. ASSUME k \in DOMAIN E, E[k].name # "00" PROVE k \in DOMAIN F /\ F[k] = e
  <2>1. k \in DOMAIN F /\ F[k] = ents[k]
    BY <1>3, <1>5, <1>6, <1>10
  <2> QED BY <1>7, <1>10, <2>1, Zenon
<1> QED BY <1>5, <1>8, <1>9, <1>10, Zenon

\* An entry stays when its directory turns at another place, or gets it again.
LEMMA EntryTurns ==
    ASSUME NEW f, NEW P, NEW X, NEW t, NEW Q, NEW Y, NEW r, NEW i, NEW name, NEW h, NEW w,
           Entry(f, P, X, r, i, name, h, w), name \notin {"ff", "00"}, Clear(Y, r, i, name, h),
           NEW E, NEW F, NEW k, NEW e, E = LoadDir(f, P, r), F = LoadDir(t, Q, r),
           Gets(E, F, k, e), Spells(E, F, k, e, i, name, h, w)
    PROVE  Entry(t, Q, Y, r, i, name, h, w) /\ (k # i => F[i] = E[i])
<1>1. /\ i \in DOMAIN E /\ E[i].name = name /\ E[i].fat = h /\ E[i].dir = w
      /\ \A j \in DOMAIN E : E[j].name = name => j = i
  BY Zenon DEF Entry, Sole
<1>2. Used(E[i])
  BY <1>1 DEF Used
<1>3. CASE e.name = name
  <2>1. k = i /\ e.fat = h /\ e.dir = w /\ i \in DOMAIN F /\ F[i] = e
    BY <1>3, Zenon DEF Spells, Takes
  <2>2. ASSUME NEW j \in DOMAIN F, F[j].name = name, j # i PROVE FALSE
    <3>1. Used(F[j])
      BY <2>2 DEF Used
    <3>2. j \in DOMAIN E /\ F[j] = E[j]
      BY <2>1, <2>2, <3>1, Zenon DEF Gets
    <3> QED BY <1>1, <2>2, <3>2
  <2>3. Sole(F, i, name)
    BY <1>3, <2>1, <2>2 DEF Sole
  <2> QED BY <2>1, <2>3, Zenon DEF Entry
<1>4. CASE e.name # name
  <2>1. k # i /\ Spares(E, F, k)
    BY <1>4, Zenon DEF Spells
  <2>2. i \in DOMAIN F /\ F[i] = E[i]
    BY <1>1, <1>2, <2>1 DEF Spares
  <2>3. ASSUME NEW j \in DOMAIN F, F[j].name = name, j # i PROVE FALSE
    <3>1. Used(F[j])
      BY <2>3 DEF Used
    <3>2. j # k
      BY <1>4, <2>3, <3>1, Zenon DEF Gets
    <3>3. j \in DOMAIN E /\ F[j] = E[j]
      BY <3>1, <3>2, Zenon DEF Gets
    <3> QED BY <1>1, <2>3, <3>3
  <2>4. Sole(F, i, name)
    BY <1>1, <2>2, <2>3 DEF Sole
  <2> QED BY <1>1, <2>2, <2>4, Zenon DEF Entry
<1> QED BY <1>3, <1>4

\* What an open file that is written knows of its directory.
Apt(k, e, x) == e.name = x.ent.name => x.index = k /\ e.fat = x.ent.fat

\* An open file that is written still knows its entry after the directory turned.
LEMMA KnowsKeeps ==
    ASSUME NEW E, NEW F, NEW k, NEW e, NEW x, Knows(E, x), Gets(E, F, k, e), Apt(k, e, x),
           x.ent.name \notin {"ff", "00"}
    PROVE  Knows(F, x)
<1>1. ASSUME NEW j \in DOMAIN F, F[j].name = x.ent.name
      PROVE  (j = x.index => F[j].fat = x.ent.fat) /\ (x.root = ROOT => j = x.index)
  <2>1. Used(F[j])
    BY <1>1 DEF Used
  <2>2. CASE j = k
    <3>1. F[j] = e
      BY <2>1, <2>2, Zenon DEF Gets
    <3>2. x.index = k /\ e.fat = x.ent.fat
      BY <1>1, <3>1 DEF Apt
    <3> QED BY <2>2, <3>1, <3>2
  <2>3. CASE j # k
    <3>1. j \in DOMAIN E /\ F[j] = E[j]
      BY <2>1, <2>3, Zenon DEF Gets
    <3> QED BY <1>1, <3>1, Zenon DEF Knows
  <2> QED BY <2>2, <2>3
<1> QED BY <1>1, Zenon DEF Knows

\* An open file whose entry is the new one knows it.
LEMMA KnowsNew ==
    ASSUME NEW E, NEW F, NEW k, NEW e, NEW x, Gets(E, F, k, e), e.name = x.ent.name,
           x.index = k, e.fat = x.ent.fat, x.ent.name \notin {"ff", "00"},
           \A j \in DOMAIN E : E[j].name # e.name
    PROVE  Knows(F, x)
<1>1. ASSUME NEW j \in DOMAIN F, F[j].name = x.ent.name PROVE j = k /\ F[j] = e
  <2>1. Used(F[j])
    BY <1>1 DEF Used
  <2>2. j = k
    <3>1. CASE j # k
      <4>1. j \in DOMAIN E /\ F[j] = E[j]
        BY <2>1, <3>1, Zenon DEF Gets
      <4> QED BY <1>1, <4>1
    <3> QED BY <3>1
  <2> QED BY <2>1, <2>2, Zenon DEF Gets
<1> QED BY <1>1 DEF Knows

\* No two entries have one name if the new one has a name of its own.
LEMMA OnceKeeps ==
    ASSUME NEW E, NEW F, NEW k, NEW e, Once(E), Gets(E, F, k, e),
           Used(e) => \A j \in DOMAIN E : E[j].name = e.name => j = k
    PROVE  Once(F)
<1>1. ASSUME NEW i \in DOMAIN F, NEW j \in DOMAIN F, Used(F[i]), F[i].name = F[j].name PROVE i = j
  <2>1. Used(F[j])
    BY <1>1 DEF Used
  <2>2. CASE i = k
    <3>1. F[i] = e
      BY <1>1, <2>2, Zenon DEF Gets
    <3>2. j # k => j \in DOMAIN E /\ F[j] = E[j]
      BY <2>1, Zenon DEF Gets
    <3> QED BY <1>1, <2>2, <3>1, <3>2
  <2>3. CASE i # k
    <3>1. i \in DOMAIN E /\ F[i] = E[i]
      BY <1>1, <2>3, Zenon DEF Gets
    <3>2. CASE j = k
      <4>1. F[j] = e
        BY <2>1, <3>2, Zenon DEF Gets
      <4> QED BY <1>1, <2>1, <3>1, <3>2, <4>1
    <3>3. CASE j # k
      <4>1. j \in DOMAIN E /\ F[j] = E[j]
        BY <2>1, <3>3, Zenon DEF Gets
      <4> QED BY <1>1, <3>1, <4>1 DEF Once
    <3> QED BY <3>2, <3>3
  <2> QED BY <2>2, <2>3
<1> QED BY <1>1, Zenon DEF Once

\* The directory r of the book turns; those in G are gone, the others stay.
Turns(b, G, r, f, P, t, Q) ==
    /\ r \in DOMAIN b \ G /\ b[r].dir /\ ROOT \notin G
    /\ \A s \in DOMAIN b \ G : b[s].dir /\ s # r => LoadDir(t, Q, s) = LoadDir(f, P, s)
Minds(b, G, r, k, e, X) ==
    \A d \in Fd : Writer(X, d) => X[d].root \notin G /\ (X[d].root = r => Apt(k, e, X[d]))

\* Directories and open files agree when a directory turns at one place.
LEMMA AgreeTurns ==
    ASSUME NEW b, NEW f, NEW P, NEW X, Booked(b, f, P, X), Agree(f, P, X),
           NEW G, NEW r, NEW t, NEW Q, Turns(b, G, r, f, P, t, Q), NEW E, NEW F, NEW k, NEW e,
           E = LoadDir(f, P, r), F = LoadDir(t, Q, r), Gets(E, F, k, e), Minds(b, G, r, k, e, X),
           r = ROOT /\ Used(e) => \A j \in DOMAIN E : E[j].name = e.name => j = k
    PROVE  Agree(t, Q, X)
<1>1. Once(LoadDir(t, Q, ROOT))
  <2>1. CASE r = ROOT
    <3>1. Once(E)
      BY <2>1, Zenon DEF Agree
    <3>2. Once(F)
      BY <2>1, <3>1, OnceKeeps
    <3> QED BY <2>1, <3>2
  <2>2. CASE r # ROOT
    <3>1. ROOT \in DOMAIN b \ G /\ b[ROOT].dir
      BY DEF Turns, Booked, BookOK
    <3>2. LoadDir(t, Q, ROOT) = LoadDir(f, P, ROOT)
      BY <2>2, <3>1, Zenon DEF Turns
    <3> QED BY <3>2, Zenon DEF Agree
  <2> QED BY <2>1, <2>2
<1>2. ASSUME NEW d \in Fd, Writer(X, d) PROVE Knows(LoadDir(t, Q, X[d].root), X[d])
  <2>1. PICK x : x = X[d]
    OBVIOUS
  <2>2. FdMoves(b, x) /\ Knows(LoadDir(f, P, x.root), x)
    BY <1>2, <2>1 DEF Booked, FdOK, Agree, Writer
  <2>3. x.root \in DOMAIN b \ G /\ b[x.root].dir /\ (x.root = r => Apt(k, e, x))
    BY <1>2, <2>1, <2>2, Zenon DEF Minds, FdMoves, InDir
  <2>4. x.ent.name \notin {"ff", "00"}
    BY <2>2, Paths DEF FdMoves, FdRec
  <2>5. CASE x.root = r
    <3>1. Knows(F, x)
      BY <2>2, <2>3, <2>4, <2>5, KnowsKeeps
    <3> QED BY <2>1, <2>5, <3>1
  <2>6. CASE x.root # r
    <3>1. LoadDir(t, Q, x.root) = LoadDir(f, P, x.root)
      BY <2>3, <2>6, Zenon DEF Turns
    <3> QED BY <2>1, <2>2, <3>1
  <2> QED BY <2>5, <2>6
<1> QED BY <1>1, <1>2, Zenon DEF Agree

\* A file is held when its directory and the one above it turn.
Survives(b, G, r, f, P, X, t, Q, k, e, g, s, i, h) ==
    /\ s \notin G /\ Untouched(f, P, t, Q, h)
    /\ s = r => Spells(LoadDir(f, P, r), LoadDir(t, Q, r), k, e, i, Name(g), h, FALSE)
    /\ s = r /\ k = i => ~Reading(X, g)
    /\ r = ROOT /\ Len(g) # 1 =>
           \A j : Entry(f, P, X, ROOT, j, g[1], s, TRUE) =>
               Spells(LoadDir(f, P, r), LoadDir(t, Q, r), k, e, j, g[1], s, TRUE)

\* A file is held when a directory turns at one place that is not its own.
LEMMA HeldTurns ==
    ASSUME NEW b, NEW f, NEW P, NEW X, Booked(b, f, P, X), NEW g \in Files, NEW len, NEW s,
           NEW i, NEW h, HeldAt(f, P, X, len, g, s, i, h), NEW G, NEW r, NEW t, NEW Q,
           Turns(b, G, r, f, P, t, Q), NEW k, NEW e, Gets(LoadDir(f, P, r), LoadDir(t, Q, r), k, e),
           Survives(b, G, r, f, P, X, t, Q, k, e, g, s, i, h)
    PROVE  HeldAt(t, Q, X, len, g, s, i, h)
<1>1. InDir(b, g, s) /\ s \in DOMAIN b \ G /\ b[s].dir
  <2>1. InDir(b, g, s)
    BY HeldInDir
  <2>2. s \notin G
    BY Zenon DEF Survives
  <2> QED BY <2>1, <2>2, Zenon DEF InDir
<1>2. Name(g) \notin {"ff", "00"} /\ g[1] \notin {"ff", "00"}
  BY Paths
<1>3. Mild(X, X) /\ Quiet(X, X, g)
  BY Zenon DEF Mild, Like, Quiet
<1>4. Home(f, P, X, g, s) /\ Entry(f, P, X, s, i, Name(g), h, FALSE)
  BY Zenon DEF HeldAt
<1>5. /\ Entry(t, Q, X, s, i, Name(g), h, FALSE)
      /\ Reading(X, g) => LoadDir(t, Q, s)[i].size = LoadDir(f, P, s)[i].size
  <2>1. CASE s = r
    <3>1. /\ Spells(LoadDir(f, P, r), LoadDir(t, Q, r), k, e, i, Name(g), h, FALSE)
          /\ Reading(X, g) => k # i
      BY <2>1, Zenon DEF Survives
    <3>2. Clear(X, s, i, Name(g), h)
      BY <1>4, Zenon DEF Entry
    <3>3. PICK E, F : E = LoadDir(f, P, s) /\ F = LoadDir(t, Q, s)
      OBVIOUS
    <3>4. Gets(E, F, k, e) /\ Spells(E, F, k, e, i, Name(g), h, FALSE)
      BY <2>1, <3>1, <3>3, Zenon
    <3>5. Entry(t, Q, X, s, i, Name(g), h, FALSE) /\ (k # i => F[i] = E[i])
      <4>1. PICK n, w : n = Name(g) /\ w = FALSE
        OBVIOUS
      <4>2. /\ Entry(f, P, X, s, i, n, h, w) /\ n \notin {"ff", "00"} /\ Clear(X, s, i, n, h)
            /\ Spells(E, F, k, e, i, n, h, w)
        BY <1>2, <1>4, <3>2, <3>4, <4>1, Zenon
      <4>3. Entry(t, Q, X, s, i, n, h, w) /\ (k # i => F[i] = E[i])
        BY <3>3, <3>4, <4>2, EntryTurns
      <4> QED BY <4>1, <4>3, Zenon
    <3> QED BY <3>1, <3>3, <3>5, Zenon
  <2>2. CASE s # r
    <3>1. LoadDir(t, Q, s) = LoadDir(f, P, s)
      BY <1>1, <2>2, Zenon DEF Turns
    <3>2. Entry(t, Q, X, s, i, Name(g), h, FALSE)
      BY <1>3, <1>4, <3>1, EntrySame
    <3> QED BY <3>1, <3>2
  <2> QED BY <2>1, <2>2
<1>6. Home(t, Q, X, g, s)
  <2>1. CASE r = ROOT /\ Len(g) # 1
    <3>1. PICK j : Entry(f, P, X, ROOT, j, g[1], s, TRUE)
      BY <1>4, <2>1, Zenon DEF Home
    <3>2. Spells(LoadDir(f, P, r), LoadDir(t, Q, r), k, e, j, g[1], s, TRUE)
      BY <2>1, <3>1, Zenon DEF Survives
    <3>3. Clear(X, ROOT, j, g[1], s)
      BY <3>1, Zenon DEF Entry
    <3>4. Entry(t, Q, X, ROOT, j, g[1], s, TRUE)
      BY <1>2, <2>1, <3>1, <3>2, <3>3, EntryTurns
    <3> QED BY <2>1, <3>4, Zenon DEF Home
  <2>2. CASE Len(g) = 1
    BY <1>4, <2>2, Zenon DEF Home
  <2>3. CASE r # ROOT
    <3>1. ROOT \in DOMAIN b \ G /\ b[ROOT].dir
      BY DEF Turns, Booked, BookOK
    <3>2. LoadDir(t, Q, ROOT) = LoadDir(f, P, ROOT)
      BY <2>3, <3>1, Zenon DEF Turns
    <3> QED BY <1>3, <1>4, <3>2, HomeSame
  <2> QED BY <2>1, <2>2, <2>3
<1>7. Untouched(f, P, t, Q, h)
  BY Zenon DEF Survives
<1> QED BY <1>3, <1>5, <1>6, <1>7, HeldStays

\* The ghost may give files up.
Fresh(r, E, k, e) == r = ROOT /\ Used(e) => \A j \in DOMAIN E : E[j].name = e.name => j = k
AllSurvive(b, G, r, f, P, X, t, Q, k, e, K, L) ==
    \A g \in Files : L[g].ok =>
        /\ L[g] = K[g]
        /\ \A s, i, h : HeldAt(f, P, X, K[g].len, g, s, i, h) =>
               Survives(b, G, r, f, P, X, t, Q, k, e, g, s, i, h)

\* What the ghost says is true when a directory turns and the files survive.
LEMMA TurnContent ==
    ASSUME NEW b, NEW f, NEW P, NEW X, NEW K, Booked(b, f, P, X), Content(f, P, X, K),
           NEW G, NEW r, NEW t, NEW Q, Turns(b, G, r, f, P, t, Q), NEW k, NEW e,
           Gets(LoadDir(f, P, r), LoadDir(t, Q, r), k, e), Minds(b, G, r, k, e, X),
           Fresh(r, LoadDir(f, P, r), k, e), NEW L, KeptRec(L),
           AllSurvive(b, G, r, f, P, X, t, Q, k, e, K, L)
    PROVE  Content(t, Q, X, L)
<1>1. Agree(t, Q, X)
  <2>1. PICK E, F : E = LoadDir(f, P, r) /\ F = LoadDir(t, Q, r)
    OBVIOUS
  <2>2. Agree(f, P, X) /\ Gets(E, F, k, e)
    BY <2>1, Zenon DEF Content
  <2>3. r = ROOT /\ Used(e) => \A j \in DOMAIN E : E[j].name = e.name => j = k
    BY <2>1, Zenon DEF Fresh
  <2> QED BY <2>1, <2>2, <2>3, AgreeTurns
<1>2. ASSUME NEW g \in Files, L[g].ok PROVE \E s, i, h : HeldAt(t, Q, X, L[g].len, g, s, i, h)
  <2>1. L[g] = K[g]
    BY <1>2, Zenon DEF AllSurvive
  <2>2. PICK s, i, h : HeldAt(f, P, X, K[g].len, g, s, i, h)
    BY <1>2, <2>1, Zenon DEF Content
  <2>3. Survives(b, G, r, f, P, X, t, Q, k, e, g, s, i, h)
    BY <1>2, <2>2, Zenon DEF AllSurvive
  <2>4. HeldAt(t, Q, X, K[g].len, g, s, i, h)
    BY <2>2, <2>3, HeldTurns
  <2> QED BY <2>1, <2>4, Zenon
<1> QED BY <1>1, <1>2, Zenon DEF Content

-----------------------------------------------------------------------------
(* Closing.                                                                  *)

\* The entry of an open file at its place in a directory.
LEMMA SpellsOwn ==
    ASSUME NEW f, NEW P, NEW X, NEW r, NEW i, NEW name, NEW h, NEW w,
           Entry(f, P, X, r, i, name, h, w), name \notin {"ff", "00"},
           NEW d \in Fd, Writer(X, d), X[d].root = r, X[d].ent.fat = h => X[d].ent.dir = w,
           NEW E, NEW F, NEW k, NEW e, E = LoadDir(f, P, r), k = X[d].index, e = X[d].ent,
           Spares(E, F, k), k \in DOMAIN E /\ E[k].name # "00" => k \in DOMAIN F /\ F[k] = e
    PROVE  Spells(E, F, k, e, i, name, h, w)
<1>1. IF e.name = name THEN k = i /\ e.fat = h ELSE k # i
  BY Zenon DEF Entry, Clear
<1>2. i \in DOMAIN E /\ E[i].name = name
  BY Zenon DEF Entry, Sole
<1>3. CASE e.name = name
  <2>1. k = i /\ e.fat = h /\ e.dir = w
    BY <1>1, <1>3
  <2>2. E[i].name # "00"
    BY <1>2
  <2>3. i \in DOMAIN F /\ F[i] = e
    BY <1>2, <2>1, <2>2
  <2> QED BY <1>3, <2>1, <2>3, Zenon DEF Spells, Takes
<1>4. CASE e.name # name
  BY <1>1, <1>4, Zenon DEF Spells
<1> QED BY <1>3, <1>4

\* The pages of the files are apart from those of the directories.
LEMMA HeldApart ==
    ASSUME NEW b, NEW f, NEW P, NEW X, Booked(b, f, P, X), NEW g \in Files, NEW len, NEW s,
           NEW i, NEW h, HeldAt(f, P, X, len, g, s, i, h), NEW r \in DOMAIN b, b[r].dir
    PROVE  h # r /\ \A p \in Pages(f, h) : p \in Page /\ p \notin Pages(f, r)
<1>1. h \in DOMAIN b /\ ~b[h].dir
  BY HeldInDir
<1>2. h # r /\ Table(f) /\ Proper(f, h) /\ Pages(f, h) \cap Pages(f, r) = {}
  BY <1>1 DEF Booked, Apart
<1> QED BY <1>2, PagesOf

\* Saving a directory leaves the others.
LEMMA SavedOthers ==
    ASSUME NEW b, NEW f, NEW P, NEW X, Booked(b, f, P, X), NEW r \in DOMAIN b, b[r].dir, NEW S,
           \A p \in Page : p \notin Pages(f, r) => S[p] = P[p]
    PROVE  Turns(b, {}, r, f, P, f, S) /\ Others(b, r, f, P, f, S)
<1>1. ASSUME NEW s \in DOMAIN b \ {r} PROVE Stays(f, f, s) /\ \A p \in Pages(f, s) : S[p] = P[p]
  <2>1. Table(f) /\ Proper(f, s) /\ Pages(f, s) \cap Pages(f, r) = {}
    BY DEF Booked, Apart
  <2> QED BY <2>1, PagesOf DEF Stays
<1>2. ASSUME NEW s \in DOMAIN b \ {}, b[s].dir, s # r PROVE LoadDir(f, S, s) = LoadDir(f, P, s)
  <2>1. Proper(f, s)
    BY DEF Booked, Apart
  <2> QED BY <1>1, <1>2, <2>1, SameDir
<1> QED BY <1>1, <1>2 DEF Turns, Others

\* An open file that is written writes its entry.
LEMMA EntryContent ==
    ASSUME NEW b, NEW f, NEW P, NEW X, NEW K, Booked(b, f, P, X), Content(f, P, X, K),
           NEW d \in Fd, Writer(X, d), NEW x, x = X[d], NEW S,
           Puts1(f, P, x.root, x.index, x.ent, S)
    PROVE  /\ Content(f, S, X, K)
           /\ \A s, i, h : HeldAt(f, S, X, K[x.path].len, x.path, s, i, h) =>
                  LoadDir(f, S, s)[i].size = K[x.path].len
<1>1. PICK r, k, e : r = x.root /\ k = x.index /\ e = x.ent
  OBVIOUS
<1>2. FdMoves(b, x) /\ InDir(b, x.path, r) /\ r \in DOMAIN b /\ b[r].dir /\ x.path \in Files
  BY <1>1 DEF Booked, Writer, FdOK, FdMoves, InDir, FdRec
<1>3. Proper(f, r) /\ Table(f)
  BY <1>2 DEF Booked, Apart
<1>4. PICK E, F : E = LoadDir(f, P, r) /\ F = LoadDir(f, S, r)
  OBVIOUS
<1>5. /\ Gets(E, F, k, e) /\ Spares(E, F, k)
      /\ k \in DOMAIN E /\ E[k].name # "00" => k \in DOMAIN F /\ F[k] = e
      /\ \A p \in Page : p \notin Pages(f, r) => S[p] = P[p]
  BY <1>1, <1>3, <1>4, SavedTurns
<1>6. Turns(b, {}, r, f, P, f, S)
  BY <1>2, <1>5, SavedOthers
<1>7. ASSUME NEW g \in Files, InDir(b, g, r), Name(g) = e.name PROVE g = x.path
  <2>1. Name(g) = Name(x.path)
    BY <1>1, <1>2, <1>7, Zenon DEF FdMoves
  <2> QED BY <1>2, <1>7, <2>1, OneFile
<1>8. Minds(b, {}, r, k, e, X)
  <2>1. ASSUME NEW c \in Fd, Writer(X, c), X[c].root = r, e.name = X[c].ent.name PROVE c = d
    <3>1. FdMoves(b, X[c])
      BY <2>1 DEF Booked, Writer, FdOK
    <3>2. X[c].path \in Files /\ InDir(b, X[c].path, r) /\ Name(X[c].path) = e.name
      BY <2>1, <3>1 DEF FdMoves, FdRec
    <3>3. X[c].path = x.path
      BY <1>7, <3>2
    <3> QED BY <2>1, <3>3, Zenon DEF Content, Agree, Shared, Writer
  <2>2. ASSUME NEW c \in Fd, Writer(X, c), X[c].root = r PROVE Apt(k, e, X[c])
    <3>1. CASE e.name = X[c].ent.name
      <4>1. X[c] = x
        BY <2>1, <2>2, <3>1
      <4> QED BY <1>1, <4>1 DEF Apt
    <3>2. CASE e.name # X[c].ent.name
      BY <3>2 DEF Apt
    <3> QED BY <3>1, <3>2
  <2> QED BY <2>2 DEF Minds
<1>9. Fresh(r, E, k, e)
  <2>1. Knows(E, x)
    BY <1>1, <1>4, Zenon DEF Content, Agree
  <2> QED BY <1>1, <2>1, Zenon DEF Fresh, Knows
<1>10. ASSUME NEW g \in Files, NEW s, NEW i, NEW h, HeldAt(f, P, X, K[g].len, g, s, i, h)
       PROVE  Survives(b, {}, r, f, P, X, f, S, k, e, g, s, i, h)
  <2>1. /\ InDir(b, g, s) /\ h \in DOMAIN b /\ ~b[h].dir /\ Entry(f, P, X, s, i, Name(g), h, FALSE)
        /\ Name(g) \notin {"ff", "00"} /\ g[1] \notin {"ff", "00"}
    BY <1>10, HeldInDir, Paths DEF HeldAt
  <2>2. Untouched(f, P, f, S, h)
    <3>1. \A p \in Pages(f, h) : p \in Page /\ p \notin Pages(f, r)
      BY <1>2, <1>10, HeldApart
    <3> QED BY <1>5, <3>1 DEF Untouched, Stays
  <2>3. ASSUME NEW u, u \in DOMAIN b, e.fat = u PROVE e.dir = b[u].dir
    BY <1>1, <1>2, <2>3, OfFd
  <2>4. ASSUME s = r PROVE Spells(E, F, k, e, i, Name(g), h, FALSE)
    <3>1. PICK n, w : n = Name(g) /\ w = FALSE
      OBVIOUS
    <3>2. e.fat = h => e.dir = w
      <4>1. e.dir \in BOOLEAN
        BY <1>1, <1>2, OfFd
      <4>2. e.fat = h => ~e.dir
        BY <2>1, <2>3
      <4> QED BY <3>1, <4>1, <4>2
    <3>3. Entry(f, P, X, r, i, n, h, w) /\ n \notin {"ff", "00"}
      BY <2>1, <2>4, <3>1, Zenon
    <3>4. X[d].root = r /\ (X[d].ent.fat = h => X[d].ent.dir = w) /\ k = X[d].index /\ e = X[d].ent
      BY <1>1, <3>2, Zenon
    <3>5. Spells(E, F, k, e, i, n, h, w)
      BY <1>4, <1>5, <3>3, <3>4, SpellsOwn
    <3> QED BY <3>1, <3>5, Zenon
  <2>5. ASSUME s = r, k = i PROVE ~Reading(X, g)
    <3>1. e.name = Name(g)
      BY <1>1, <2>1, <2>5, Zenon DEF Entry, Clear
    <3>2. x.path = g
      BY <1>7, <2>1, <2>5, <3>1
    <3> QED BY <3>2, Zenon DEF Reading, Writer
  <2>6. ASSUME r = ROOT, Len(g) # 1, NEW j, Entry(f, P, X, ROOT, j, g[1], s, TRUE)
        PROVE  Spells(E, F, k, e, j, g[1], s, TRUE)
    <3>1. PICK n, w : n = g[1] /\ w = TRUE
      OBVIOUS
    <3>2. e.fat = s => e.dir = w
      <4>1. e.dir \in BOOLEAN
        BY <1>1, <1>2, OfFd
      <4>2. e.fat = s => e.dir
        BY <2>1, <2>3 DEF InDir
      <4> QED BY <3>1, <4>1, <4>2
    <3>3. Entry(f, P, X, r, j, n, s, w) /\ n \notin {"ff", "00"}
      BY <2>1, <2>6, <3>1, Zenon
    <3>4. X[d].root = r /\ (X[d].ent.fat = s => X[d].ent.dir = w) /\ k = X[d].index /\ e = X[d].ent
      BY <1>1, <3>2, Zenon
    <3>5. Spells(E, F, k, e, j, n, s, w)
      BY <1>4, <1>5, <3>3, <3>4, SpellsOwn
    <3> QED BY <3>1, <3>5, Zenon
  <2>7. s \notin {}
    OBVIOUS
  <2> QED BY <1>4, <2>2, <2>4, <2>5, <2>6, <2>7, Zenon DEF Survives
<1>11. Content(f, S, X, K)
  <2>1. KeptRec(K)
    BY Zenon DEF Content
  <2>2. AllSurvive(b, {}, r, f, P, X, f, S, k, e, K, K)
    BY <1>10, Zenon DEF AllSurvive
  <2>3. Gets(LoadDir(f, P, r), LoadDir(f, S, r), k, e) /\ Fresh(r, LoadDir(f, P, r), k, e)
    BY <1>4, <1>5, <1>9, Zenon
  <2> QED BY <1>6, <1>8, <2>1, <2>2, <2>3, TurnContent
<1>12. ASSUME NEW s, NEW i, NEW h, HeldAt(f, S, X, K[x.path].len, x.path, s, i, h)
       PROVE  LoadDir(f, S, s)[i].size = K[x.path].len
  <2>1. x.open /\ x.root = s /\ x.ent.size = K[x.path].len
    BY <1>12, Zenon DEF HeldAt, Views, Writer
  <2>2. i \in DOMAIN F /\ F[i].name = Name(x.path) /\ Clear(X, s, i, Name(x.path), h)
    BY <1>1, <1>4, <1>12, <2>1, Zenon DEF HeldAt, Entry, Sole
  <2>3. e.name = Name(x.path) /\ Used(F[i])
    BY <1>1, <1>2, <2>2, Paths DEF FdMoves, Used
  <2>4. k = i
    BY <1>1, <2>1, <2>2, <2>3, Zenon DEF Clear
  <2>5. F[i] = e
    BY <1>5, <2>2, <2>3, <2>4, Zenon DEF Gets
  <2> QED BY <1>1, <1>4, <2>1, <2>5, Zenon
<1> QED BY <1>11, <1>12

\* The book is the same when an open file writes its entry.
LEMMA EntryKeeps ==
    ASSUME NEW b, NEW f, NEW P, NEW X, Booked(b, f, P, X), NEW x, FdMoves(b, x), NEW S,
           Puts1(f, P, x.root, x.index, x.ent, S)
    PROVE  Booked(b, f, S, X)
<1>1. PICK r, E : r = x.root /\ E = LoadDir(f, P, r)
  OBVIOUS
<1>2. PICK ents : ents = [j \in DOMAIN E |-> IF j = x.index THEN x.ent ELSE E[j]]
  OBVIOUS
<1>3. S = SaveDir(f, P, r, ents)
  BY <1>1, <1>2, Zenon DEF Puts1
<1>4. r \in DOMAIN b /\ b[r].dir /\ Noted(b, r, x.index, x.ent)
  BY <1>1 DEF FdMoves, InDir
<1>5. DOMAIN E = Slots(f, r)
  BY <1>1, DirIs
<1>6. ents = [j \in Slots(f, r) |-> ents[j]]
  BY <1>2, <1>5
<1>7. ASSUME NEW j \in Slots(f, r) PROVE Noted(b, r, j, ents[j])
  <2>1. CASE j = x.index
    BY <1>2, <1>4, <1>5, <2>1
  <2>2. CASE j # x.index
    <3>1. ents[j] = E[j]
      BY <1>2, <1>5, <2>2
    <3>2. Noted(b, r, j, E[j])
      BY <1>1, <1>4, <1>5 DEF Booked, DirOK
    <3> QED BY <3>1, <3>2
  <2> QED BY <2>1, <2>2
<1> QED BY <1>3, <1>4, <1>6, <1>7, SaveKeeps

\* An open file goes.
Shuts(X, d, Y) == d \in Fd /\ Y = [X EXCEPT ![d] = Closed]

\* A file that is closed, for the other open files.
LEMMA ShutIs ==
    ASSUME NEW X, X = [c \in Fd |-> X[c]], NEW d, NEW Y, Shuts(X, d, Y)
    PROVE  /\ ~Y[d].open /\ (\A c \in Fd : c # d => Y[c] = X[c]) /\ Mild(X, Y)
           /\ \A g : X[d].path # g => Quiet(X, Y, g)
<1>1. ~Y[d].open /\ \A c \in Fd : c # d => Y[c] = X[c]
  BY DEF Shuts, Closed
<1>2. d \in Fd
  BY DEF Shuts
<1>3. Mild(X, Y)
  BY <1>1, Zenon DEF Mild, Like
<1>4. \A g : X[d].path # g => Quiet(X, Y, g)
  BY <1>1, Zenon DEF Quiet
<1> QED BY <1>1, <1>3, <1>4

\* An open file that was read is closed.
LEMMA ReaderShut ==
    ASSUME NEW b, NEW f, NEW P, NEW X, NEW K, Booked(b, f, P, X), Content(f, P, X, K),
           NEW d, NEW Y, Shuts(X, d, Y), X[d].opt = "read"
    PROVE  Content(f, P, Y, K)
<1>1. /\ ~Y[d].open /\ (\A c \in Fd : c # d => Y[c] = X[c]) /\ Mild(X, Y)
      /\ \A g : X[d].path # g => Quiet(X, Y, g)
  BY ShutIs DEF Booked
<1>2. Agree(f, P, Y)
  <2>1. SameDirs(b, f, P, f, P)
    BY DEF SameDirs
  <2> QED BY <1>1, <2>1, AgreeMild DEF Content
<1>3. ASSUME NEW g \in Files, NEW len, NEW r, NEW i, NEW h, HeldAt(f, P, X, len, g, r, i, h)
      PROVE  HeldAt(f, P, Y, len, g, r, i, h)
  <2>1. Home(f, P, Y, g, r) /\ Entry(f, P, Y, r, i, Name(g), h, FALSE)
    BY <1>1, <1>3, HomeSame, EntrySame, Zenon DEF HeldAt
  <2>2. \A c \in Fd : Y[c].open => c # d /\ Y[c] = X[c]
    BY <1>1
  <2>3. Views(f, P, Y, len, g, r, h)
    BY <1>3, <2>2, Zenon DEF HeldAt, Views
  <2>4. Rests(f, P, Y, len, g, r, i, h)
    <3>1. SUFFICES ASSUME \A c \in Fd : Y[c].open /\ Y[c].path = g => Y[c].opt = "read"
                   PROVE  LoadDir(f, P, r)[i].size = len /\ On(f, P, h, g, len)
      BY Zenon DEF Rests
    <3>2. \A c \in Fd : X[c].open /\ X[c].path = g => X[c].opt = "read"
      <4>1. ASSUME NEW c \in Fd, X[c].open, X[c].path = g PROVE X[c].opt = "read"
        <5>1. CASE c = d
          BY <5>1
        <5>2. CASE c # d
          <6>1. Y[c] = X[c]
            BY <1>1, <5>2
          <6> QED BY <3>1, <4>1, <6>1
        <5> QED BY <5>1, <5>2
      <4> QED BY <4>1
    <3> QED BY <1>3, <3>2, Zenon DEF HeldAt, Rests
  <2> QED BY <2>1, <2>3, <2>4, Zenon DEF HeldAt
<1> QED BY <1>2, <1>3, Zenon DEF Content

\* An open file that was written writes its cache and is closed.
LEMMA WriterShut ==
    ASSUME NEW b, NEW f, NEW P, NEW X, NEW K, Booked(b, f, P, X), Content(f, P, X, K),
           NEW d, NEW Y, Shuts(X, d, Y), Writer(X, d), NEW x, x = X[d],
           \A s, i, h : HeldAt(f, P, X, K[x.path].len, x.path, s, i, h) =>
               LoadDir(f, P, s)[i].size = K[x.path].len,
           NEW r, r = Flush(f, P, x), NEW t, t = IF r.ok THEN r.fat ELSE f,
           NEW L, Notes(K, L, x.path), L[x.path].len = K[x.path].len, L[x.path].ok => r.whole
    PROVE  Content(t, r.page, Y, L)
<1>1. /\ ~Y[d].open /\ (\A c \in Fd : c # d => Y[c] = X[c]) /\ Mild(X, Y)
      /\ \A g : X[d].path # g => Quiet(X, Y, g)
  BY ShutIs DEF Booked
<1>2. FdOK(b, x) /\ FdMoves(b, x) /\ x.path \in Files
  BY PartsOfFd DEF Shuts, Writer, Booked, FdOK, FdMoves
<1>3. PICK Q : Q = r.page
  OBVIOUS
<1>4. SameDirs(b, f, P, t, Q) /\ Others(b, x.ent.fat, f, P, t, Q)
  BY <1>2, <1>3, FlushDirs
<1>5. Agree(t, Q, Y)
  BY <1>1, <1>4, AgreeMild DEF Content
<1>6. ASSUME NEW g \in Files, NEW len, NEW s, NEW i, NEW h, HeldAt(f, P, X, len, g, s, i, h)
      PROVE  /\ Home(t, Q, Y, g, s) /\ Entry(t, Q, Y, s, i, Name(g), h, FALSE)
             /\ LoadDir(t, Q, s) = LoadDir(f, P, s)
  <2>1. LoadDir(t, Q, s) = LoadDir(f, P, s) /\ LoadDir(t, Q, ROOT) = LoadDir(f, P, ROOT)
    <3>1. s \in DOMAIN b /\ b[s].dir /\ ROOT \in DOMAIN b /\ b[ROOT].dir
      BY <1>6, HeldInDir DEF InDir, Booked, BookOK
    <3> QED BY <1>4, <3>1 DEF SameDirs
  <2> QED BY <1>1, <1>6, <2>1, HomeSame, EntrySame, Zenon DEF HeldAt
<1>7. ASSUME NEW g \in Files, L[g].ok, g # x.path
      PROVE  \E s, i, h : HeldAt(t, Q, Y, L[g].len, g, s, i, h)
  <2>1. L[g] = K[g]
    BY <1>7, Zenon DEF Notes
  <2>2. PICK s, i, h : HeldAt(f, P, X, K[g].len, g, s, i, h)
    BY <1>7, <2>1, Zenon DEF Content
  <2>3. Untouched(f, P, t, Q, h)
    BY <1>2, <1>4, <1>7, <2>2, HeldUntouched
  <2>4. Quiet(X, Y, g)
    BY <1>1, <1>7
  <2>5. /\ Home(t, Q, Y, g, s) /\ Entry(t, Q, Y, s, i, Name(g), h, FALSE)
        /\ LoadDir(t, Q, s)[i].size = LoadDir(f, P, s)[i].size
    BY <1>6, <2>2, Zenon
  <2>6. HeldAt(t, Q, Y, K[g].len, g, s, i, h)
    BY <2>2, <2>3, <2>4, <2>5, HeldStays
  <2> QED BY <2>1, <2>6, Zenon
<1>8. ASSUME NEW g \in Files, L[g].ok, g = x.path
      PROVE  \E s, i, h : HeldAt(t, Q, Y, L[g].len, g, s, i, h)
  <2>1. PICK len : len = K[g].len /\ len = L[g].len
    BY <1>8
  <2>2. PICK s, i, h : HeldAt(f, P, X, len, g, s, i, h)
    <3>1. K[g].ok
      BY <1>8 DEF Notes
    <3> QED BY <2>1, <3>1, Zenon DEF Content
  <2>3. x.ent.fat = h /\ x.ent.size = len /\ Fit(f, P, x, g)
    BY <1>8, <2>2, Zenon DEF HeldAt, Views, Writer, Shuts
  <2>4. ~x.ent.dir
    <3>1. ~b[h].dir /\ b[x.ent.fat].dir = x.ent.dir
      BY <1>2, <2>2, HeldInDir, OfFd
    <3> QED BY <2>3, <3>1
  <2>5. r.ok /\ On(r.fat, r.page, x.ent.fat, g, x.ent.size)
    BY <1>2, <1>8, <2>3, <2>4, FlushFit
  <2>6. On(t, Q, h, g, len)
    BY <1>3, <2>3, <2>5
  <2>7. LoadDir(f, P, s)[i].size = len
    BY <1>8, <2>1, <2>2
  <2>8. /\ Home(t, Q, Y, g, s) /\ Entry(t, Q, Y, s, i, Name(g), h, FALSE)
        /\ LoadDir(t, Q, s)[i].size = len
    BY <1>6, <2>2, <2>7
  <2>9. \A c \in Fd : Y[c].open => Y[c].path # g
    <3>1. ASSUME NEW c \in Fd, Y[c].open, Y[c].path = g PROVE FALSE
      <4>1. c # d /\ X[c] = Y[c]
        BY <1>1, <3>1
      <4> QED BY <1>8, <3>1, <4>1, Zenon DEF Content, Agree, Shared, Writer, Shuts
    <3> QED BY <3>1
  <2>10. Views(t, Q, Y, len, g, s, h)
    BY <2>9, Zenon DEF Views
  <2>11. HeldAt(t, Q, Y, len, g, s, i, h)
    BY <2>6, <2>8, <2>10, Zenon DEF HeldAt, Rests
  <2> QED BY <2>1, <2>11, Zenon
<1> QED BY <1>3, <1>5, <1>7, <1>8, Zenon DEF Content, Notes

\* minifs_close
LEMMA CloseContent ==
    ASSUME NEW b, Booked(b, fat, page, filefd), Content(fat, page, filefd, kept),
           NEW d \in Fd, Close(d)
    PROVE  Content(fat', page', filefd', kept')
<1>1. PICK x : x = filefd[d]
  OBVIOUS
<1>2. PICK S : Puts1(fat, page, x.root, x.index, x.ent, S)
  BY DEF Puts1
<1>3. PICK r : r = Flush(fat, S, x)
  OBVIOUS
<1>4. PICK p, w, t : p = x.path /\ w = (kept[p].ok /\ r.whole) /\ t = IF r.ok THEN r.fat ELSE fat
  OBVIOUS
<1>5. PICK Y, L : Y = filefd' /\ L = kept'
  OBVIOUS
<1>6. /\ filefd[d].open /\ Y = [filefd EXCEPT ![d] = Closed]
      /\ IF x.opt = "read" THEN fat' = fat /\ page' = page /\ L = kept
         ELSE fat' = t /\ page' = r.page /\ L = WithOk(kept, p, w)
  BY <1>1, <1>2, <1>3, <1>4, <1>5, Zenon DEF Close, Puts1, WithOk
<1>7. Shuts(filefd, d, Y)
  BY <1>6, Zenon DEF Shuts
<1>8. CASE x.opt = "read"
  <2>1. Content(fat, page, Y, kept)
    BY <1>1, <1>7, <1>8, ReaderShut
  <2> QED BY <1>5, <1>6, <1>8, <2>1, Zenon
<1>9. CASE x.opt # "read"
  <2>1. Writer(filefd, d) /\ FdMoves(b, x)
    BY <1>1, <1>6, <1>9 DEF Writer, Booked, FdOK
  <2>2. /\ Content(fat, S, filefd, kept)
        /\ \A s, i, h : HeldAt(fat, S, filefd, kept[x.path].len, x.path, s, i, h) =>
               LoadDir(fat, S, s)[i].size = kept[x.path].len
    BY <1>1, <1>2, <2>1, EntryContent
  <2>3. Booked(b, fat, S, filefd)
    BY <1>1, <1>2, <2>1, EntryKeeps
  <2>4. p \in Files
    BY <1>4, <2>1 DEF FdMoves, FdRec
  <2>5. Notes(kept, L, p) /\ L[p].len = kept[p].len /\ (L[p].ok => w)
    <3>1. KeptRec(kept) /\ (w => kept[p].ok) /\ L = WithOk(kept, p, w)
      BY <1>4, <1>6, <1>9, Zenon DEF Content
    <3> QED BY <2>4, <3>1, NoteOk
  <2>6. Notes(kept, L, x.path) /\ L[x.path].len = kept[x.path].len /\ (L[x.path].ok => r.whole)
    BY <1>4, <2>5, Zenon
  <2>7. Content(t, r.page, Y, L)
    BY <1>1, <1>3, <1>4, <1>7, <2>1, <2>2, <2>3, <2>6, WriterShut
  <2> QED BY <1>5, <1>6, <1>9, <2>7, Zenon
<1> QED BY <1>8, <1>9

-----------------------------------------------------------------------------
(* Opening.                                                                  *)

\* The only entry of a name is the one that is found.
LEMMA SoleIs ==
    ASSUME NEW f, NEW P, NEW r, NEW i, NEW name, Sole(LoadDir(f, P, r), i, name)
    PROVE  EntryOf(LoadDir(f, P, r), name) = i /\ i # 0 /\ i \in Nat
<1>1. PICK E : E = LoadDir(f, P, r)
  OBVIOUS
<1>2. PICK found : found = {k \in DOMAIN E : E[k].name = name}
  OBVIOUS
<1>3. i \in DOMAIN E /\ E[i].name = name /\ \A j \in DOMAIN E : E[j].name = name => j = i
  BY <1>1, Zenon DEF Sole
<1>4. DOMAIN E \subseteq Nat /\ i \in Nat /\ i # 0
  <2>1. DOMAIN E = Slots(f, r)
    BY <1>1, DirIs
  <2>2. PICK m : DOMAIN E = 1 .. m
    BY <2>1 DEF Slots
  <2>3. \A k \in 1 .. m : k \in Nat /\ k # 0
    OBVIOUS
  <2> QED BY ONLY <1>3, <2>2, <2>3
<1>5. found # {} /\ found \subseteq Nat /\ i \in found
  BY <1>2, <1>3, <1>4
<1>6. FirstOf(found) \in found
  BY <1>5, FirstIn
<1>7. FirstOf(found) = i
  BY <1>2, <1>3, <1>6
<1>8. EntryOf(E, name) = FirstOf(found)
  BY <1>2, <1>5, Zenon DEF EntryOf
<1> QED BY <1>1, <1>4, <1>7, <1>8

\* get_node finds the directory of a path.
LEMMA HomeNode ==
    ASSUME NEW b, NEW X, Booked(b, fat, page, X), NEW g \in Files, NEW r, Home(fat, page, X, g, r)
    PROVE  GetNode(g) = r /\ r # 0
<1>1. r # 0
  <2>1. r \in DOMAIN b
    BY HomeInDir DEF InDir
  <2>2. r \in 1 .. PAGES - 1
    BY <2>1, PagesOf DEF Booked, Apart
  <2> QED BY <2>2
<1>2. CASE Len(g) = 1
  BY <1>1, <1>2, Zenon DEF Home, GetNode
<1>3. CASE Len(g) # 1
  <2>1. PICK E : E = LoadDir(fat, page, ROOT)
    OBVIOUS
  <2>2. PICK k : Sole(E, k, g[1]) /\ E[k].fat = r /\ E[k].dir = TRUE
    BY <1>3, <2>1, Zenon DEF Home, Entry
  <2>3. EntryOf(E, g[1]) = k /\ k # 0
    BY <2>1, <2>2, SoleIs
  <2> QED BY <1>1, <1>3, <2>1, <2>2, <2>3 DEF GetNode
<1> QED BY <1>2, <1>3

\* What minifs_open sets up shows the file.
LEMMA OpenedIs ==
    ASSUME NEW t, NEW P, NEW f \in Files, NEW opt, NEW ent, NEW k, NEW root, ent.size \in Nat,
           Len(Chain(t, ent.fat)) \in Nat, NEW y, y = Opened(f, opt, ent, k, root, t, P)
    PROVE  /\ y.open /\ y.path = f /\ y.ent = ent /\ y.index = k /\ y.root = root /\ y.opt = opt
           /\ On(t, P, ent.fat, f, ent.size) => Shows(y, f) /\ Fit(t, P, y, f)
<1>1. PICK size \in Nat : size = ent.size
  OBVIOUS
<1>2. PICK cur \in Nat : cur = (IF opt = "append" THEN size ELSE 0) /\ cur <= size
  BY <1>1
<1>3. PICK q \in Nat : q = cur \div CACHE /\ q * CACHE <= cur /\ cur < q * CACHE + CACHE
  <2>1. PICK c \in Nat \ {0} : c = CACHE
    BY FsConstants
  <2>2. cur \div c \in Nat /\ cur % c \in 0 .. c - 1 /\ cur = c * (cur \div c) + (cur % c)
    BY <2>1
  <2>3. PICK m \in Nat, n \in 0 .. c - 1 : m = cur \div c /\ cur = c * m + n
    BY <2>2
  <2>4. PICK j \in Nat : j = m * c /\ j = c * m
    BY <2>1
  <2>5. j <= cur /\ cur < j + c
    BY <2>3, <2>4
  <2> QED BY <2>1, <2>3, <2>4, <2>5
<1>4. PICK off \in Nat : off = q * CACHE /\ off % PAGE = 0
  <2>1. PICK w \in Nat \ {0} : CACHE = w * PAGE
    BY CachePages
  <2>2. PICK e \in Nat \ {0} : e = PAGE
    BY FsConstants
  <2>3. q * (w * e) = (q * w) * e /\ q * w \in Nat
    BY <2>2
  <2>4. q * CACHE = (q * w) * PAGE
    BY <2>1, <2>2, <2>3
  <2> QED BY <2>3, <2>4, PageBegins
<1>5. PICK x : x = [open |-> TRUE, path |-> f, ent |-> ent, index |-> k, root |-> root,
                    cur |-> cur, off |-> off, area |-> 0, cache |-> <<>>, opt |-> opt]
  OBVIOUS
<1>6. y = Load(t, P, x)
  BY <1>1, <1>2, <1>3, <1>4, <1>5, Zenon DEF Opened
<1>7. FdParts(x, f, ent, k, root, cur, off, 0, <<>>, opt)
  BY <1>5, Zenon DEF FdParts
<1>8. /\ FdRec(x) /\ x.path = f /\ x.ent = ent /\ x.index = k /\ x.root = root
      /\ x.cur = cur /\ x.off = off /\ x.opt = opt
  <2>1. 0 \in Int
    OBVIOUS
  <2>2. f \in Files /\ cur \in Nat /\ off \in Nat
    OBVIOUS
  <2> QED BY ONLY <1>7, <2>1, <2>2, FdOfParts
<1>9. Len(Chain(t, x.ent.fat)) \in Nat /\ x.ent.size \in Nat
  BY <1>8
<1>10. FdRec(y) /\ FdSame(x, y)
  BY <1>6, <1>8, <1>9, LoadSame
<1>11. y.open
  BY <1>10, PartsOfFd, FdOfParts
<1>12. y.path = f /\ y.ent = ent /\ y.index = k /\ y.root = root /\ y.opt = opt
  BY <1>8, <1>10, Zenon DEF FdSame
<1>13. ASSUME On(t, P, ent.fat, f, ent.size) PROVE Shows(y, f) /\ Fit(t, P, y, f)
  <2>1. On(t, P, x.ent.fat, f, x.ent.size)
    BY <1>8, <1>13
  <2>2. x.off % PAGE = 0 /\ Stands(x)
    <3>1. off <= cur /\ cur <= off + CACHE /\ cur <= size
      BY <1>2, <1>3, <1>4, FsConstants
    <3> QED BY <1>1, <1>4, <1>8, <3>1, Zenon DEF Stands
  <2> QED BY <1>6, <1>8, <1>9, <2>1, <2>2, LoadShows
<1> QED BY <1>11, <1>12, <1>13

\* An open file comes.
Comes(X, d, y, Y) == d \in Fd /\ ~X[d].open /\ Y = [X EXCEPT ![d] = y]
Added(X, d, y, Y) == Y[d] = y /\ \A c \in Fd : c # d => Y[c] = X[c]

\* A file that is opened, for the other open files.
LEMMA ComesIs ==
    ASSUME NEW X, X = [c \in Fd |-> X[c]], NEW d, NEW y, NEW Y, Comes(X, d, y, Y)
    PROVE  Added(X, d, y, Y) /\ \A g : y.path # g => Quiet(X, Y, g)
<1>1. Y[d] = y /\ ~X[d].open /\ d \in Fd /\ \A c \in Fd : c # d => Y[c] = X[c]
  BY DEF Comes
<1>2. ASSUME NEW g, y.path # g PROVE Quiet(X, Y, g)
  <2>1. ASSUME NEW c \in Fd
        PROVE  /\ (Y[c].open /\ Y[c].path = g) <=> (X[c].open /\ X[c].path = g)
               /\ X[c].open /\ X[c].path = g => Y[c] = X[c]
    <3>1. CASE c = d
      <4>1. ~X[c].open /\ Y[c].path # g
        BY <1>1, <1>2, <3>1
      <4> QED BY <4>1
    <3>2. CASE c # d
      <4>1. Y[c] = X[c]
        BY <1>1, <3>2
      <4> QED BY <4>1
    <3> QED BY <3>1, <3>2
  <2> QED BY <2>1, Zenon DEF Quiet
<1> QED BY <1>1, <1>2, Zenon DEF Added

\* The file that is opened does not endanger an entry.
LEMMA ClearNew ==
    ASSUME NEW X, NEW d, NEW y, NEW Y, Added(X, d, y, Y), NEW r, NEW i, NEW name, NEW h,
           Clear(X, r, i, name, h),
           y.root = r => IF y.ent.name = name THEN y.index = i /\ y.ent.fat = h ELSE y.index # i
    PROVE  Clear(Y, r, i, name, h)
<1>1. ASSUME NEW c \in Fd, Writer(Y, c), Y[c].root = r
      PROVE  IF Y[c].ent.name = name THEN Y[c].index = i /\ Y[c].ent.fat = h ELSE Y[c].index # i
  <2>1. CASE c = d
    <3>1. Y[c] = y
      BY <2>1, Zenon DEF Added
    <3> QED BY <1>1, <3>1, Zenon
  <2>2. CASE c # d
    <3>1. Y[c] = X[c]
      BY <2>2, Zenon DEF Added
    <3> QED BY <1>1, <3>1, Zenon DEF Clear, Writer
  <2> QED BY <2>1, <2>2
<1> QED BY <1>1, Zenon DEF Clear

\* A file may be open for writing once or for reading.
Sharing(X, y) ==
    \A c \in Fd : X[c].open /\ X[c].path = y.path => X[c].opt = "read" /\ y.opt = "read"

\* Directories and open files agree with the file that is opened.
LEMMA AgreeAdded ==
    ASSUME NEW f, NEW P, NEW X, NEW d, NEW y, NEW Y, Added(X, d, y, Y), Agree(f, P, X),
           Sharing(X, y), y.opt # "read" => Knows(LoadDir(f, P, y.root), y)
    PROVE  Agree(f, P, Y)
<1>1. Shared(Y)
  <2>1. ASSUME NEW u \in Fd, NEW v \in Fd, Y[u].open, Y[v].open, u # v, Y[u].path = Y[v].path
        PROVE  Y[u].opt = "read"
    <3>1. CASE u = d
      <4>1. Y[u] = y /\ Y[v] = X[v]
        BY <2>1, <3>1, Zenon DEF Added
      <4> QED BY <2>1, <4>1, Zenon DEF Sharing
    <3>2. CASE v = d
      <4>1. Y[v] = y /\ Y[u] = X[u]
        BY <2>1, <3>2, Zenon DEF Added
      <4> QED BY <2>1, <4>1, Zenon DEF Sharing
    <3>3. CASE u # d /\ v # d
      <4>1. Y[v] = X[v] /\ Y[u] = X[u]
        BY <3>3, Zenon DEF Added
      <4> QED BY <2>1, <4>1, Zenon DEF Agree, Shared
    <3> QED BY <3>1, <3>2, <3>3
  <2> QED BY <2>1, Zenon DEF Shared
<1>2. ASSUME NEW c \in Fd, Writer(Y, c) PROVE Knows(LoadDir(f, P, Y[c].root), Y[c])
  <2>1. CASE c = d
    <3>1. Y[c] = y
      BY <2>1, Zenon DEF Added
    <3> QED BY <1>2, <3>1, Zenon DEF Writer
  <2>2. CASE c # d
    <3>1. Y[c] = X[c]
      BY <2>2, Zenon DEF Added
    <3> QED BY <1>2, <3>1, Zenon DEF Writer, Agree
  <2> QED BY <2>1, <2>2
<1> QED BY <1>1, <1>2, Zenon DEF Agree

\* What is opened leaves the entries alone that files are held by.
Yields(f, P, X, y) ==
    \A r, i, name, h, w :
        Entry(f, P, X, r, i, name, h, w) /\ name \notin {"ff", "00"} /\ y.root = r =>
            IF y.ent.name = name THEN y.index = i /\ y.ent.fat = h ELSE y.index # i

\* An entry stays when a file is opened.
LEMMA EntryAdded ==
    ASSUME NEW f, NEW P, NEW X, NEW d, NEW y, NEW Y, Added(X, d, y, Y), Yields(f, P, X, y),
           NEW r, NEW i, NEW name, NEW h, NEW w, Entry(f, P, X, r, i, name, h, w),
           name \notin {"ff", "00"}
    PROVE  Entry(f, P, Y, r, i, name, h, w)
<1>1. Clear(X, r, i, name, h)
  BY Zenon DEF Entry
<1>2. y.root = r => IF y.ent.name = name THEN y.index = i /\ y.ent.fat = h ELSE y.index # i
  BY DEF Yields
<1>3. Clear(Y, r, i, name, h)
  BY <1>1, <1>2, ClearNew
<1> QED BY <1>3, Zenon DEF Entry

\* The directory of a path stays when a file is opened.
LEMMA HomeAdded ==
    ASSUME NEW f, NEW P, NEW X, NEW d, NEW y, NEW Y, Added(X, d, y, Y), Yields(f, P, X, y),
           NEW g \in Files, NEW r, Home(f, P, X, g, r)
    PROVE  Home(f, P, Y, g, r)
<1>1. CASE Len(g) = 1
  BY <1>1, Zenon DEF Home
<1>2. CASE Len(g) # 1
  <2>1. PICK k : Entry(f, P, X, ROOT, k, g[1], r, TRUE)
    BY <1>2, Zenon DEF Home
  <2>2. PICK w : w = TRUE
    OBVIOUS
  <2>3. Entry(f, P, X, ROOT, k, g[1], r, w) /\ g[1] \notin {"ff", "00"}
    BY <2>1, <2>2, Paths
  <2>4. Entry(f, P, Y, ROOT, k, g[1], r, w)
    BY <2>3, EntryAdded
  <2> QED BY <1>2, <2>2, <2>4, Zenon DEF Home
<1> QED BY <1>1, <1>2

\* The other files are held.
LEMMA HeldAdded ==
    ASSUME NEW b, NEW f, NEW P, NEW X, Booked(b, f, P, X), NEW g \in Files, NEW len, NEW r,
           NEW i, NEW h, HeldAt(f, P, X, len, g, r, i, h), NEW d, NEW y, NEW Y, Comes(X, d, y, Y),
           y.path # g, Yields(f, P, X, y)
    PROVE  HeldAt(f, P, Y, len, g, r, i, h)
<1>1. Added(X, d, y, Y) /\ Quiet(X, Y, g)
  <2>1. X = [c \in Fd |-> X[c]]
    BY Zenon DEF Booked
  <2> QED BY <2>1, ComesIs
<1>2. Home(f, P, Y, g, r)
  <2>1. Home(f, P, X, g, r)
    BY Zenon DEF HeldAt
  <2> QED BY <1>1, <2>1, HomeAdded
<1>3. Entry(f, P, Y, r, i, Name(g), h, FALSE)
  <2>1. PICK w : w = FALSE
    OBVIOUS
  <2>2. Entry(f, P, X, r, i, Name(g), h, w) /\ Name(g) \notin {"ff", "00"}
    <3>1. Entry(f, P, X, r, i, Name(g), h, FALSE)
      BY Zenon DEF HeldAt
    <3> QED BY <2>1, <3>1, Paths
  <2>3. Entry(f, P, Y, r, i, Name(g), h, w)
    BY <1>1, <2>2, EntryAdded
  <2> QED BY <2>1, <2>3
<1>4. Untouched(f, P, f, P, h)
  BY Zenon DEF Untouched, Stays
<1> QED BY <1>1, <1>2, <1>3, <1>4, HeldStays

\* A file is opened that was there, or is new.
LEMMA AddContent ==
    ASSUME NEW b, NEW f, NEW P, NEW X, NEW K, Booked(b, f, P, X), Content(f, P, X, K),
           NEW d, NEW y, NEW Y, Comes(X, d, y, Y), Yields(f, P, X, y), Sharing(X, y),
           y.opt # "read" => Knows(LoadDir(f, P, y.root), y),
           NEW L, KeptRec(L), \A g \in Files : g # y.path => L[g] = K[g],
           y.path \in Files /\ L[y.path].ok =>
               \E r, i, h : HeldAt(f, P, Y, L[y.path].len, y.path, r, i, h)
    PROVE  Content(f, P, Y, L)
<1>1. Added(X, d, y, Y)
  <2>1. X = [c \in Fd |-> X[c]]
    BY Zenon DEF Booked
  <2> QED BY <2>1, ComesIs
<1>2. Agree(f, P, Y)
  <2>1. Agree(f, P, X)
    BY Zenon DEF Content
  <2> QED BY <1>1, <2>1, AgreeAdded
<1>3. ASSUME NEW g \in Files, L[g].ok PROVE \E r, i, h : HeldAt(f, P, Y, L[g].len, g, r, i, h)
  <2>1. CASE g = y.path
    BY <1>3, <2>1
  <2>2. CASE g # y.path
    <3>1. L[g] = K[g]
      BY <2>2
    <3>2. PICK r, i, h : HeldAt(f, P, X, K[g].len, g, r, i, h)
      BY <1>3, <3>1, Zenon DEF Content
    <3>3. PICK len : len = K[g].len
      OBVIOUS
    <3>4. HeldAt(f, P, Y, len, g, r, i, h)
      <4>1. HeldAt(f, P, X, len, g, r, i, h)
        BY <3>2, <3>3, Zenon
      <4> QED BY <2>2, <4>1, HeldAdded
    <3> QED BY <3>1, <3>3, <3>4, Zenon
  <2> QED BY <2>1, <2>2
<1> QED BY <1>2, <1>3, Zenon DEF Content

\* The file that is opened is held.
LEMMA HeldOpened ==
    ASSUME NEW b, Booked(b, fat, page, filefd), NEW f \in Files, NEW len, NEW r, NEW i, NEW h,
           HeldAt(fat, page, filefd, len, f, r, i, h), NEW d, NEW y, NEW Y,
           Comes(filefd, d, y, Y), Yields(fat, page, filefd, y), Reading(filefd, f),
           NEW k, NEW root, NEW opt, NEW ent, root = GetNode(f),
           k = EntryOf(LoadDir(fat, page, root), Name(f)), ent = LoadDir(fat, page, root)[k],
           y = Opened(f, opt, ent, k, root, fat, page)
    PROVE  HeldAt(fat, page, Y, len, f, r, i, h)
<1>1. Added(filefd, d, y, Y)
  <2>1. filefd = [c \in Fd |-> filefd[c]]
    BY Zenon DEF Booked
  <2> QED BY <2>1, ComesIs
<1>2. /\ Home(fat, page, filefd, f, r) /\ Entry(fat, page, filefd, r, i, Name(f), h, FALSE)
      /\ Views(fat, page, filefd, len, f, r, h) /\ Rests(fat, page, filefd, len, f, r, i, h)
  BY Zenon DEF HeldAt
<1>3. root = r
  BY <1>2, HomeNode
<1>4. k = i /\ k # 0 /\ LoadDir(fat, page, r)[i].fat = h /\ k \in DOMAIN LoadDir(fat, page, r)
  <2>1. Sole(LoadDir(fat, page, r), i, Name(f)) /\ LoadDir(fat, page, r)[i].fat = h
    BY <1>2, Zenon DEF Entry
  <2>2. PICK name : name = Name(f)
    OBVIOUS
  <2>3. EntryOf(LoadDir(fat, page, r), name) = i /\ i # 0
    BY <2>1, <2>2, SoleIs
  <2>4. i \in DOMAIN LoadDir(fat, page, r)
    BY <2>1, Zenon DEF Sole
  <2> QED BY <1>3, <2>1, <2>2, <2>3, <2>4
<1>5. ent.fat = h /\ ent.size = len /\ On(fat, page, h, f, len)
  <2>1. LoadDir(fat, page, r)[i].size = len /\ On(fat, page, h, f, len)
    BY <1>2, Zenon DEF Rests, Reading
  <2> QED BY <1>3, <1>4, <2>1
<1>6. ent.size \in Nat /\ Len(Chain(fat, ent.fat)) \in Nat
  <2>1. InDir(b, f, r)
    BY <1>2, HomeInDir
  <2>2. Noted(b, r, i, ent)
    <3>1. DirOK(b, fat, page, r)
      BY <2>1, Zenon DEF Booked, InDir
    <3> QED BY <1>3, <1>4, <3>1, Zenon DEF DirOK
  <2>3. h \in DOMAIN b
    BY <1>2, HeldInDir
  <2>4. Proper(fat, h)
    BY <2>3, Zenon DEF Booked, Apart
  <2>5. Len(Chain(fat, h)) \in Nat
    BY <2>4, GoesParts DEF Proper
  <2> QED BY <1>5, <2>2, <2>5 DEF Noted, EntRec
<1>7. /\ y.open /\ y.path = f /\ y.ent = ent /\ y.root = root /\ y.opt = opt
      /\ Shows(y, f) /\ Fit(fat, page, y, f)
  <2>1. On(fat, page, ent.fat, f, ent.size)
    BY <1>5
  <2> QED BY <1>6, <2>1, OpenedIs
<1>8. Home(fat, page, Y, f, r)
  BY <1>1, <1>2, HomeAdded
<1>9. Entry(fat, page, Y, r, i, Name(f), h, FALSE)
  <2>1. PICK w : w = FALSE
    OBVIOUS
  <2>2. Entry(fat, page, filefd, r, i, Name(f), h, w) /\ Name(f) \notin {"ff", "00"}
    BY <1>2, <2>1, Paths
  <2>3. Entry(fat, page, Y, r, i, Name(f), h, w)
    BY <1>1, <2>2, EntryAdded
  <2> QED BY <2>1, <2>3
<1>10. Views(fat, page, Y, len, f, r, h)
  <2>1. ASSUME NEW c \in Fd, Y[c].open, Y[c].path = f
        PROVE  /\ Y[c].ent.fat = h /\ Y[c].ent.size = len /\ Y[c].root = r
               /\ IF Y[c].opt = "read" THEN Shows(Y[c], f) ELSE Fit(fat, page, Y[c], f)
    <3>1. CASE c = d
      <4>1. Y[c] = y
        BY <1>1, <3>1, Zenon DEF Added
      <4>2. y.ent.fat = h /\ y.ent.size = len /\ y.root = r
        BY <1>3, <1>5, <1>7
      <4> QED BY <1>7, <4>1, <4>2
    <3>2. CASE c # d
      <4>1. Y[c] = filefd[c]
        BY <1>1, <3>2, Zenon DEF Added
      <4> QED BY <1>2, <2>1, <4>1, Zenon DEF Views
    <3> QED BY <3>1, <3>2
  <2> QED BY <2>1, Zenon DEF Views
<1>11. Rests(fat, page, Y, len, f, r, i, h)
  BY <1>2, Zenon DEF Rests, Reading
<1> QED BY <1>8, <1>9, <1>10, <1>11, Zenon DEF HeldAt

\* minifs_open of a file that exists.
LEMMA OpenOldContent ==
    ASSUME NEW b, Booked(b, fat, page, filefd), Content(fat, page, filefd, kept),
           NEW d \in Fd, ~filefd[d].open, NEW f \in Files, NEW opt, MayOpen(f, opt),
           NEW root, root = GetNode(f), root # 0, OpenOld(d, f, opt, root)
    PROVE  Content(fat', page', filefd', kept')
<1>1. PICK E : E = LoadDir(fat, page, root)
  OBVIOUS
<1>2. PICK k : k = EntryOf(E, Name(f))
  OBVIOUS
<1>3. PICK y, Y : /\ y = Opened(f, opt, E[k], k, root, fat, page)
                  /\ Y = [filefd EXCEPT ![d] = y]
  OBVIOUS
<1>4. k # 0 /\ filefd' = Y /\ fat' = fat /\ page' = page /\ kept' = kept
  BY <1>1, <1>2, <1>3, Zenon DEF OpenOld
<1>5. k \in DOMAIN E /\ E[k].name = Name(f)
  <2>1. EntryOf(LoadDir(fat, page, root), Name(f)) # 0
    BY <1>1, <1>2, <1>4, Zenon
  <2>2. /\ EntryOf(LoadDir(fat, page, root), Name(f)) \in DOMAIN LoadDir(fat, page, root)
        /\ LoadDir(fat, page, root)[EntryOf(LoadDir(fat, page, root), Name(f))].name = Name(f)
    BY <2>1, EntryIs
  <2> QED BY <1>1, <1>2, <2>2, Zenon
<1>6. /\ InDir(b, f, root) /\ Name(f) \notin {"ff", "00"} /\ Used(E[k])
      /\ E[k].size \in Nat /\ Len(Chain(fat, E[k].fat)) \in Nat
  <2>1. InDir(b, f, root)
    BY GetNodeIs
  <2>2. Name(f) \notin {"ff", "00"} /\ Used(E[k])
    BY <1>5, Paths DEF Used
  <2>3. Noted(b, root, k, E[k])
    <3>1. DirOK(b, fat, page, root)
      BY <2>1, Zenon DEF Booked, InDir
    <3> QED BY <1>1, <1>5, <3>1, Zenon DEF DirOK
  <2>4. Proper(fat, E[k].fat)
    BY <2>2, <2>3 DEF Booked, Apart, Noted
  <2>5. Len(Chain(fat, E[k].fat)) \in Nat
    BY <2>4, GoesParts DEF Proper
  <2> QED BY <2>1, <2>2, <2>3, <2>5 DEF Noted, EntRec
<1>7. /\ y.open /\ y.path = f /\ y.ent = E[k] /\ y.index = k /\ y.root = root /\ y.opt = opt
  <2>1. PICK ent : ent = E[k]
    OBVIOUS
  <2> QED BY <1>3, <1>6, <2>1, OpenedIs
<1>8. Comes(filefd, d, y, Y)
  BY <1>3, Zenon DEF Comes
<1>9. Yields(fat, page, filefd, y)
  <2>1. ASSUME NEW r, NEW i, NEW name, NEW h, NEW w, Entry(fat, page, filefd, r, i, name, h, w),
               y.root = r
        PROVE  IF y.ent.name = name THEN y.index = i /\ y.ent.fat = h ELSE y.index # i
    <3>1. r = root
      BY <1>7, <2>1
    <3>2. Sole(E, i, name) /\ E[i].fat = h
      BY <1>1, <2>1, <3>1, Zenon DEF Entry
    <3>3. i \in DOMAIN E /\ E[i].name = name /\ \A j \in DOMAIN E : E[j].name = name => j = i
      BY <3>2, Zenon DEF Sole
    <3>4. y.ent.name = E[k].name /\ y.ent.fat = E[k].fat
      BY <1>7
    <3> QED BY <1>5, <1>7, <3>2, <3>3, <3>4
  <2> QED BY <2>1, Zenon DEF Yields
<1>10. Reading(filefd, f) /\ Sharing(filefd, y)
  <2>1. CASE opt = "read"
    <3>1. \A c \in Fd : filefd[c].open /\ filefd[c].path = f => filefd[c].opt = "read"
      BY <2>1 DEF MayOpen, Written, OpenOn
    <3> QED BY <1>7, <2>1, <3>1 DEF Reading, Sharing
  <2>2. CASE opt # "read"
    <3>1. \A c \in Fd : ~(filefd[c].open /\ filefd[c].path = f)
      BY <2>2 DEF MayOpen, OpenOn
    <3> QED BY <1>7, <3>1 DEF Reading, Sharing
  <2> QED BY <2>1, <2>2
<1>11. Knows(LoadDir(fat, page, y.root), y)
  <2>1. ASSUME NEW j \in DOMAIN E, E[j].name = y.ent.name
        PROVE  (j = y.index => E[j].fat = y.ent.fat) /\ (y.root = ROOT => j = y.index)
    <3>1. j = y.index => E[j].fat = y.ent.fat
      BY <1>7
    <3>2. ASSUME y.root = ROOT PROVE j = y.index
      <4>1. Once(E)
        BY <1>1, <1>7, <3>2, Zenon DEF Content, Agree
      <4>2. E[k].name = E[j].name
        BY <1>7, <2>1
      <4> QED BY <1>5, <1>6, <1>7, <4>1, <4>2, Zenon DEF Once
    <3> QED BY <3>1, <3>2
  <2>2. Knows(E, y)
    BY <2>1, Zenon DEF Knows
  <2> QED BY <1>1, <1>7, <2>2
<1>12. ASSUME kept[f].ok PROVE \E r, i, h : HeldAt(fat, page, Y, kept[f].len, f, r, i, h)
  <2>1. PICK len : len = kept[f].len
    OBVIOUS
  <2>2. PICK r, i, h : HeldAt(fat, page, filefd, len, f, r, i, h)
    BY <1>12, <2>1, Zenon DEF Content
  <2>3. PICK ent : ent = LoadDir(fat, page, root)[k]
    OBVIOUS
  <2>4. y = Opened(f, opt, ent, k, root, fat, page)
    BY <1>1, <1>3, <2>3, Zenon
  <2>5. k = EntryOf(LoadDir(fat, page, root), Name(f))
    BY <1>1, <1>2, Zenon
  <2>6. HeldAt(fat, page, Y, len, f, r, i, h)
    BY <1>8, <1>9, <1>10, <2>2, <2>3, <2>4, <2>5, HeldOpened
  <2> QED BY <2>1, <2>6, Zenon
<1>13. KeptRec(kept)
  BY Zenon DEF Content
<1>14. Content(fat, page, Y, kept)
  BY <1>7, <1>8, <1>9, <1>10, <1>11, <1>12, <1>13, AddContent
<1> QED BY <1>4, <1>14

-----------------------------------------------------------------------------
(* Files that are made.                                                      *)

\* Nothing of the book is touched.
LEMMA SameContent ==
    ASSUME NEW b, NEW f, NEW P, NEW X, NEW K, Booked(b, f, P, X), Content(f, P, X, K),
           NEW t, NEW Q, \A s \in DOMAIN b : Untouched(f, P, t, Q, s)
    PROVE  Content(t, Q, X, K) /\ SameDirs(b, f, P, t, Q)
<1>1. SameDirs(b, f, P, t, Q)
  <2>1. ASSUME NEW s \in DOMAIN b PROVE LoadDir(t, Q, s) = LoadDir(f, P, s)
    <3>1. Proper(f, s) /\ Stays(f, t, s) /\ \A p \in Pages(f, s) : Q[p] = P[p]
      BY DEF Booked, Apart, Untouched
    <3> QED BY <3>1, SameDir
  <2> QED BY <2>1, Zenon DEF SameDirs
<1>2. Mild(X, X)
  BY Zenon DEF Mild, Like
<1>3. Agree(t, Q, X)
  <2>1. Agree(f, P, X)
    BY Zenon DEF Content
  <2> QED BY <1>1, <1>2, <2>1, AgreeMild
<1>4. ASSUME NEW g \in Files, K[g].ok PROVE \E r, i, h : HeldAt(t, Q, X, K[g].len, g, r, i, h)
  <2>1. PICK len : len = K[g].len
    OBVIOUS
  <2>2. PICK r, i, h : HeldAt(f, P, X, len, g, r, i, h)
    BY <1>4, <2>1, Zenon DEF Content
  <2>3. LoadDir(t, Q, r) = LoadDir(f, P, r) /\ LoadDir(t, Q, ROOT) = LoadDir(f, P, ROOT)
    <3>1. r \in DOMAIN b /\ b[r].dir /\ ROOT \in DOMAIN b /\ b[ROOT].dir
      BY <2>2, HeldInDir DEF InDir, Booked, BookOK
    <3> QED BY <1>1, <3>1 DEF SameDirs
  <2>4. Home(t, Q, X, g, r) /\ Entry(t, Q, X, r, i, Name(g), h, FALSE)
    BY <1>2, <2>2, <2>3, HomeSame, EntrySame, Zenon DEF HeldAt
  <2>5. Untouched(f, P, t, Q, h)
    <3>1. h \in DOMAIN b
      BY <2>2, HeldInDir
    <3> QED BY <3>1
  <2>6. Quiet(X, X, g)
    BY Zenon DEF Quiet
  <2>7. HeldAt(t, Q, X, len, g, r, i, h)
    BY <2>2, <2>3, <2>4, <2>5, <2>6, HeldStays
  <2> QED BY <2>1, <2>7, Zenon
<1> QED BY <1>1, <1>3, <1>4, Zenon DEF Content

\* A chain of one page begins.
LEMMA BornContent ==
    ASSUME NEW b, NEW c, NEW new, NEW row, NEW t, NEW P, Born(b, c, new, row, t, P),
           Booked(b, fat, page, filefd), Content(fat, page, filefd, kept)
    PROVE  Content(t, P, filefd, kept) /\ SameDirs(b, fat, page, t, P)
<1>1. /\ FreeFat(fat) # {} /\ new = FirstOf(FreeFat(fat)) /\ t = [fat EXCEPT ![new] = TAIL]
      /\ \A p \in Page \ {new} : P[p] = page[p]
  BY Zenon DEF Born, Begun, But
<1>2. Apart(fat, DOMAIN b)
  BY DEF Booked
<1>3. \A r \in DOMAIN b : Stays(fat, t, r) /\ new \notin Pages(fat, r)
  BY <1>1, <1>2, NewApart, Zenon
<1>4. ASSUME NEW s \in DOMAIN b PROVE Untouched(fat, page, t, P, s)
  <2>1. Table(fat) /\ Proper(fat, s)
    BY <1>2 DEF Apart
  <2> QED BY <1>1, <1>3, <2>1, PagesOf DEF Untouched
<1> QED BY <1>4, SameContent

\* A directory of one page that grows keeps its entries.
LEMMA GrownAll ==
    ASSUME NEW f, NEW g, NEW P, NEW Q, NEW r, NEW add, Proper(f, r), f[r] = TAIL, Proper(g, r),
           Chain(g, r) = <<r, add>>, Q[r] = P[r]
    PROVE  \A i \in DOMAIN LoadDir(f, P, r) :
               i \in DOMAIN LoadDir(g, Q, r) /\ LoadDir(g, Q, r)[i] = LoadDir(f, P, r)[i]
<1>1. PICK c : c = Chain(f, r)
  OBVIOUS
<1>2. PICK d : d = Chain(g, r)
  OBVIOUS
<1>3. LoadDir(f, P, r) = [i \in Slots(f, r) |-> At(c, P, i)]
  BY <1>1, DirIs, Zenon
<1>4. LoadDir(g, Q, r) = [i \in Slots(g, r) |-> At(d, Q, i)]
  BY <1>2, DirIs, Zenon
<1>5. Len(c) = 1 /\ c[1] = r
  <2>1. Goes(f, c) /\ c[1] = r
    BY <1>1 DEF Proper
  <2>2. PICK m \in Nat : m = Len(c) /\ m >= 1
    BY <2>1, GoesParts DEF Goes
  <2>3. \A i \in 1 .. m - 1 : f[c[i]] = c[i + 1]
    BY <2>1, <2>2 DEF Goes
  <2>4. \A i \in 1 .. m : c[i] \in 1 .. PAGES - 1
    BY <2>1, <2>2, GoesParts
  <2>5. ~(m > 1)
    <3>1. SUFFICES ASSUME m > 1 PROVE FALSE
      OBVIOUS
    <3>2. f[c[1]] = c[2]
      BY <2>3, <3>1
    <3>3. c[2] \in 1 .. PAGES - 1
      BY <2>4, <3>1
    <3>4. f[c[1]] = TAIL
      BY <2>1
    <3> QED BY <3>2, <3>3, <3>4, FsConstants
  <2> QED BY <2>1, <2>2, <2>5
<1>6. ASSUME NEW i \in Slots(f, r) PROVE i \in Slots(g, r) /\ At(d, Q, i) = At(c, P, i)
  <2>1. PICK w \in Nat : w = CACHE \div PAGE /\ w >= 1
    <3>1. PICK v \in Nat \ {0} : CACHE = v * PAGE
      BY CachePages
    <3>2. CACHE \div PAGE = v
      BY <3>1, FsConstants, RowsIn
    <3> QED BY <3>1, <3>2
  <2>2. Rows(f, r) = 1
    BY <1>1, <1>5, <2>1 DEF Rows
  <2>3. PICK m \in Nat : m = Rows(g, r) /\ m >= 1
    BY RowsAre
  <2>4. i \in 1 .. ENTRIES
    BY <2>2, FsConstants DEF Slots
  <2>5. ENTRIES <= m * ENTRIES /\ m * ENTRIES \in Nat
    BY <2>3, FsConstants
  <2>6. i \in Slots(g, r)
    BY <2>3, <2>4, <2>5, FsConstants DEF Slots
  <2>7. RowAt(i) = 1
    <3>1. RowAt(i) \in 1 .. Rows(f, r)
      BY ONLY <1>6, Proper(f, r), RowsAre
    <3> QED BY <2>2, <3>1
  <2>8. d[1] = r
    BY <1>2
  <2>9. ReadPage(Q, d[RowAt(i)]) = ReadPage(P, c[RowAt(i)])
    BY <1>5, <2>7, <2>8, Zenon DEF ReadPage
  <2> QED BY <2>6, <2>9, Zenon DEF At
<1> QED BY <1>3, <1>4, <1>6

\* What a directory that grows leaves.
Widens(b, r, f, P, X, t, Q) ==
    /\ Booked(b, f, P, X) /\ r \in DOMAIN b /\ b[r].dir
    /\ \E add : GrowsTo(f, r, add, t) /\ But(P, Q, add) /\ (Q[add] = Blank \/ ~Reachable(add))

\* A directory that grows turns at no place: it gets no entry, and may lose some.
LEMMA WidensIs ==
    ASSUME NEW b, NEW r, NEW f, NEW P, NEW X, NEW t, NEW Q, Widens(b, r, f, P, X, t, Q)
    PROVE  /\ Turns(b, {}, r, f, P, t, Q)
           /\ \A s \in DOMAIN b \ {r} : Untouched(f, P, t, Q, s)
           /\ Gets(LoadDir(f, P, r), LoadDir(t, Q, r), 0, NoEnt)
           /\ f[r] = TAIL => Spares(LoadDir(f, P, r), LoadDir(t, Q, r), 0)
<1>1. PICK add : GrowsTo(f, r, add, t) /\ But(P, Q, add) /\ (Q[add] = Blank \/ ~Reachable(add))
  BY DEF Widens
<1>2. Booked(b, f, P, X) /\ r \in DOMAIN b /\ b[r].dir
  BY DEF Widens
<1>3. Apart(f, DOMAIN b) /\ Table(f)
  BY <1>2 DEF Booked, Apart
<1>4. /\ Apart(t, DOMAIN b) /\ Chain(t, r) = <<r, add>>
      /\ \A s \in DOMAIN b : add \notin Pages(f, s)
      /\ \A s \in DOMAIN b \ {r} : Stays(f, t, s)
  <2>1. PICK H : H = DOMAIN b
    OBVIOUS
  <2>2. Apart(f, H) /\ r \in H /\ GrowsTo(f, r, add, t)
    BY <1>1, <1>2, <1>3, <2>1, Zenon
  <2>3. /\ Apart(t, H) /\ Chain(t, r) = <<r, add>>
        /\ \A s \in H : add \notin Pages(f, s)
        /\ \A s \in H \ {r} : Stays(f, t, s)
    BY ONLY <2>2, RootApart
  <2> QED BY <2>1, <2>3, Zenon
<1>5. ASSUME NEW s \in DOMAIN b PROVE Proper(f, s) /\ Proper(t, s) /\ \A p \in Pages(f, s) : Q[p] = P[p]
  <2>1. Proper(f, s) /\ Proper(t, s) /\ add \notin Pages(f, s)
    BY <1>3, <1>4 DEF Apart
  <2>2. \A p \in Page \ {add} : Q[p] = P[p]
    BY <1>1, Zenon DEF But
  <2> QED BY <1>3, <2>1, <2>2, PagesOf
<1>6. ASSUME NEW s \in DOMAIN b \ {r} PROVE Untouched(f, P, t, Q, s)
  BY <1>4, <1>5 DEF Untouched
<1>7. Turns(b, {}, r, f, P, t, Q)
  <2>1. ASSUME NEW s \in DOMAIN b, s # r PROVE LoadDir(t, Q, s) = LoadDir(f, P, s)
    <3>1. Stays(f, t, s)
      BY <1>4, <2>1
    <3> QED BY <1>5, <3>1, SameDir
  <2> QED BY <1>2, <2>1 DEF Turns
<1>8. Q[r] = P[r]
  BY <1>2, <1>3, <1>5, PagesOf
<1>9. Gets(LoadDir(f, P, r), LoadDir(t, Q, r), 0, NoEnt)
  <2>1. PICK E : E = LoadDir(f, P, r)
    OBVIOUS
  <2>2. PICK F : F = LoadDir(t, Q, r)
    OBVIOUS
  <2>3. \A i \in DOMAIN LoadDir(t, Q, r) :
            \/ i \in DOMAIN LoadDir(f, P, r) /\ LoadDir(t, Q, r)[i] = LoadDir(f, P, r)[i]
            \/ LoadDir(t, Q, r)[i] \in {NoEnt, ZeroEnt}
    BY <1>1, <1>2, <1>4, <1>5, <1>8, GrownDir
  <2>4. ASSUME NEW j \in DOMAIN F, Used(F[j])
        PROVE  j # 0 /\ j \in DOMAIN E /\ F[j] = E[j]
    <3>1. F[j] \notin {NoEnt, ZeroEnt}
      <4>1. PICK bb : bb = b
        OBVIOUS
      <4> QED BY <2>4, UnusedNoted
    <3>2. j \in DOMAIN E /\ F[j] = E[j]
      BY <2>1, <2>2, <2>3, <3>1
    <3>3. j # 0
      <4>1. DOMAIN F = Slots(t, r)
        BY <2>2, DirIs
      <4>2. PICK m : DOMAIN F = 1 .. m
        BY <4>1 DEF Slots
      <4> QED BY <4>2
    <3> QED BY <3>2, <3>3
  <2> QED BY <2>1, <2>2, <2>4 DEF Gets
<1>10. ASSUME f[r] = TAIL PROVE Spares(LoadDir(f, P, r), LoadDir(t, Q, r), 0)
  <2>1. \A i \in DOMAIN LoadDir(f, P, r) :
            i \in DOMAIN LoadDir(t, Q, r) /\ LoadDir(t, Q, r)[i] = LoadDir(f, P, r)[i]
    BY <1>2, <1>4, <1>5, <1>8, <1>10, GrownAll
  <2> QED BY <2>1, Zenon DEF Spares
<1> QED BY <1>6, <1>7, <1>9, <1>10

\* A directory grows: what it loses is given up.
LEMMA GrowContent ==
    ASSUME NEW b, NEW r, NEW f, NEW P, NEW X, NEW t, NEW Q, Widens(b, r, f, P, X, t, Q),
           NEW K, Content(f, P, X, K), NEW L, KeptRec(L),
           \A g \in Files : L[g].ok =>
               L[g] = K[g] /\ (f[r] = TAIL \/ (r # ROOT /\ ~InDir(b, g, r)))
    PROVE  Content(t, Q, X, L)
<1>1. Booked(b, f, P, X) /\ r \in DOMAIN b /\ b[r].dir
  BY DEF Widens
<1>2. PICK E : E = LoadDir(f, P, r)
  OBVIOUS
<1>3. PICK F : F = LoadDir(t, Q, r)
  OBVIOUS
<1>4. PICK k, e : k = 0 /\ e = NoEnt
  OBVIOUS
<1>5. PICK G : G = {}
  OBVIOUS
<1>6. /\ Turns(b, G, r, f, P, t, Q) /\ Gets(E, F, k, e) /\ (f[r] = TAIL => Spares(E, F, k))
      /\ \A s \in DOMAIN b \ {r} : Untouched(f, P, t, Q, s)
  BY <1>2, <1>3, <1>4, <1>5, WidensIs
<1>7. e.name = "ff" /\ ~Used(e)
  BY <1>4 DEF NoEnt, Used
<1>8. Minds(b, G, r, k, e, X)
  <2>1. ASSUME NEW d \in Fd, Writer(X, d) PROVE X[d].root \notin G /\ Apt(k, e, X[d])
    <3>1. FdMoves(b, X[d])
      BY <1>1, <2>1 DEF Booked, FdOK, Writer
    <3>2. X[d].ent.name # "ff"
      BY <3>1, Paths DEF FdMoves, FdRec
    <3> QED BY <1>5, <1>7, <3>2 DEF Apt
  <2> QED BY <2>1, Zenon DEF Minds
<1>9. Fresh(r, E, k, e)
  BY <1>7, Zenon DEF Fresh
<1>10. AllSurvive(b, G, r, f, P, X, t, Q, k, e, K, L)
  <2>1. ASSUME NEW g \in Files, L[g].ok, NEW s, NEW i, NEW h, HeldAt(f, P, X, K[g].len, g, s, i, h)
        PROVE  Survives(b, G, r, f, P, X, t, Q, k, e, g, s, i, h)
    <3>1. PICK len : len = K[g].len
      OBVIOUS
    <3>2. HeldAt(f, P, X, len, g, s, i, h)
      BY <2>1, <3>1
    <3>3. InDir(b, g, s) /\ h \in DOMAIN b \ {ROOT} /\ ~b[h].dir
      BY <1>1, <3>2, HeldInDir
    <3>4. Untouched(f, P, t, Q, h)
      BY <1>1, <1>6, <3>3
    <3>5. Name(g) # "ff" /\ g[1] # "ff"
      BY Paths
    <3>6. ASSUME NEW name, name # "ff", NEW j, NEW w, NEW v, Sole(E, j, name), Spares(E, F, k)
          PROVE  Spells(E, F, k, e, j, name, v, w) /\ j # k
      <4>1. j \in DOMAIN E
        BY <3>6, Zenon DEF Sole
      <4>2. DOMAIN E = Slots(f, r)
        BY <1>2, DirIs
      <4>3. PICK m : DOMAIN E = 1 .. m
        BY <4>2 DEF Slots
      <4>4. j # 0
        BY <4>1, <4>3
      <4> QED BY <1>4, <1>7, <3>6, <4>4 DEF Spells
    <3>7. ASSUME s = r PROVE Spells(E, F, k, e, i, Name(g), h, FALSE) /\ k # i
      <4>1. Spares(E, F, k)
        BY <1>6, <2>1, <3>3, <3>7
      <4>2. Sole(E, i, Name(g))
        BY <1>2, <3>2, <3>7, Zenon DEF HeldAt, Entry
      <4>3. PICK w : w = FALSE
        OBVIOUS
      <4>4. Spells(E, F, k, e, i, Name(g), h, w) /\ i # k
        BY <3>5, <3>6, <4>1, <4>2
      <4> QED BY <4>3, <4>4
    <3>8. ASSUME r = ROOT, NEW j, Entry(f, P, X, ROOT, j, g[1], s, TRUE)
          PROVE  Spells(E, F, k, e, j, g[1], s, TRUE)
      <4>1. Spares(E, F, k)
        BY <1>6, <2>1, <3>8
      <4>2. Sole(E, j, g[1])
        BY <1>2, <3>8, Zenon DEF Entry
      <4>3. PICK w : w = TRUE
        OBVIOUS
      <4>4. Spells(E, F, k, e, j, g[1], s, w) /\ j # k
        BY <3>5, <3>6, <4>1, <4>2
      <4> QED BY <4>3, <4>4
    <3>9. s \notin G
      BY <1>5
    <3> QED BY <1>2, <1>3, <3>4, <3>7, <3>8, <3>9, Zenon DEF Survives
  <2>2. \A g \in Files : L[g].ok => L[g] = K[g]
    OBVIOUS
  <2> QED BY <2>1, <2>2, Zenon DEF AllSurvive
<1>11. Gets(LoadDir(f, P, r), LoadDir(t, Q, r), k, e) /\ Fresh(r, LoadDir(f, P, r), k, e)
  BY <1>2, <1>3, <1>6, <1>9
<1> QED BY <1>1, <1>6, <1>8, <1>10, <1>11, TurnContent

\* The place that a new entry gets.
LEMMA FreePlace ==
    ASSUME NEW f, NEW P, NEW r, Proper(f, r), NEW E, E = LoadDir(f, P, r), NEW k,
           k = IF EntryOf(E, "ff") = 0 THEN Len(E) + 1 ELSE EntryOf(E, "ff")
    PROVE  /\ k # 0 /\ (k \in DOMAIN E => E[k].name = "ff") /\ (k <= Len(E) => k \in DOMAIN E)
<1>1. PICK m \in Nat : DOMAIN E = 1 .. m /\ Len(E) = m
  <2>1. E = [i \in Slots(f, r) |-> E[i]]
    <3>1. E = [i \in Slots(f, r) |-> At(Chain(f, r), P, i)]
      BY DirIs
    <3> QED BY <3>1
  <2>2. PICK w \in Nat : w = Rows(f, r)
    BY RowsAre
  <2>3. PICK m \in Nat : m = w * ENTRIES
    BY FsConstants
  <2>4. Slots(f, r) = 1 .. m
    BY <2>2, <2>3 DEF Slots
  <2>5. E \in [1 .. m -> {E[i] : i \in 1 .. m}]
    BY <2>1, <2>4
  <2>6. Len(E) = m /\ DOMAIN E = 1 .. m
    BY ONLY <2>5, m \in Nat, SeqByFun
  <2> QED BY <2>6
<1>2. CASE EntryOf(E, "ff") = 0
  <2>1. k = m + 1
    BY <1>1, <1>2
  <2> QED BY <1>1, <2>1
<1>3. CASE EntryOf(E, "ff") # 0
  <2>1. k = EntryOf(E, "ff")
    BY <1>3
  <2>2. PICK name : name = "ff"
    OBVIOUS
  <2>3. EntryOf(LoadDir(f, P, r), name) # 0
    BY <1>3, <2>2
  <2>4. /\ EntryOf(LoadDir(f, P, r), name) \in DOMAIN LoadDir(f, P, r)
        /\ LoadDir(f, P, r)[EntryOf(LoadDir(f, P, r), name)].name = name
    BY <2>3, EntryIs
  <2>5. k \in DOMAIN E /\ E[k].name = "ff"
    BY <2>1, <2>2, <2>4, Zenon
  <2> QED BY <1>1, <2>5
<1> QED BY <1>2, <1>3

\* The entry goes to the directory.
Placed(f, E, F, k, ent) ==
    /\ Gets(E, F, k, ent) /\ k # 0 /\ (k \in DOMAIN E => E[k].name = "ff")
    /\ k <= Len(E) => k \in DOMAIN E /\ k \in DOMAIN F /\ F[k] = ent
Unnamed(E, name) == \A j \in DOMAIN E : E[j].name # name

\* The new entry goes to its directory, and the other files are held as before.
LEMMA PlaceContent ==
    ASSUME NEW c, NEW f \in Files, NEW opt, NEW root, NEW u, NEW Q, NEW new, NEW k, NEW ent, NEW S,
           Entered(c, f, opt, root, u, Q, new, k, ent, S), InDir(c, f, root),
           NEW K, Content(u, Q, filefd, K), NEW E, NEW F, E = LoadDir(u, Q, root),
           F = LoadDir(u, S, root), Unnamed(E, Name(f)), OpenOn(f) = {}, NEW L, KeptRec(L),
           \A g \in Files : L[g].ok => g # f /\ L[g] = K[g]
    PROVE  /\ Content(u, S, filefd, L) /\ Turns(c, {}, root, u, Q, u, S)
           /\ Placed(f, E, F, k, ent)
<1>1. /\ Booked(c, u, Q, filefd) /\ Puts1(u, Q, root, k, ent, S)
      /\ EntParts(ent, Name(f), 0, new, opt = "dir")
      /\ k = IF EntryOf(E, "ff") = 0 THEN Len(E) + 1 ELSE EntryOf(E, "ff")
  BY Zenon DEF Entered
<1>2. root \in DOMAIN c /\ c[root].dir /\ Table(u) /\ Proper(u, root)
  BY <1>1 DEF InDir, Booked, Apart
<1>3. /\ Gets(E, F, k, ent) /\ Spares(E, F, k)
      /\ k \in DOMAIN E /\ E[k].name # "00" => k \in DOMAIN F /\ F[k] = ent
      /\ \A p \in Page : p \notin Pages(u, root) => S[p] = Q[p]
  BY <1>1, <1>2, SavedTurns
<1>4. k # 0 /\ (k \in DOMAIN E => E[k].name = "ff") /\ (k <= Len(E) => k \in DOMAIN E)
  BY <1>1, <1>2, FreePlace
<1>5. Placed(f, E, F, k, ent)
  BY <1>3, <1>4 DEF Placed
<1>6. PICK G : G = {}
  OBVIOUS
<1>7. Turns(c, G, root, u, Q, u, S) /\ Others(c, root, u, Q, u, S)
  BY <1>1, <1>2, <1>3, <1>6, SavedOthers
<1>8. ent.name = Name(f) /\ Name(f) \notin {"ff", "00"}
  BY <1>1, Paths DEF EntParts
<1>9. Minds(c, G, root, k, ent, filefd)
  <2>1. ASSUME NEW d \in Fd, Writer(filefd, d), filefd[d].root = root PROVE Apt(k, ent, filefd[d])
    <3>1. FdMoves(c, filefd[d]) /\ filefd[d].path \in Files
      BY <1>1, <2>1 DEF Booked, FdOK, Writer, FdMoves, FdRec
    <3>2. filefd[d].path # f
      BY <2>1 DEF OpenOn, Writer
    <3>3. InDir(c, filefd[d].path, root) /\ filefd[d].ent.name = Name(filefd[d].path)
      BY <2>1, <3>1, Zenon DEF FdMoves
    <3>4. Name(filefd[d].path) # Name(f)
      BY <3>1, <3>2, <3>3, OneFile
    <3> QED BY <1>8, <3>3, <3>4 DEF Apt
  <2> QED BY <1>6, <2>1 DEF Minds
<1>10. Fresh(root, E, k, ent)
  BY <1>8, Zenon DEF Fresh, Unnamed
<1>11. AllSurvive(c, G, root, u, Q, filefd, u, S, k, ent, K, L)
  <2>1. ASSUME NEW g \in Files, L[g].ok, NEW s, NEW i, NEW h, HeldAt(u, Q, filefd, K[g].len, g, s, i, h)
        PROVE  Survives(c, G, root, u, Q, filefd, u, S, k, ent, g, s, i, h)
    <3>1. PICK len : len = K[g].len
      OBVIOUS
    <3>2. HeldAt(u, Q, filefd, len, g, s, i, h)
      BY <2>1, <3>1
    <3>3. InDir(c, g, s)
      BY <1>1, <3>2, HeldInDir
    <3>4. Untouched(u, Q, u, S, h)
      <4>1. \A p \in Pages(u, h) : p \in Page /\ p \notin Pages(u, root)
        BY <1>1, <1>2, <3>2, HeldApart
      <4> QED BY <1>3, <4>1 DEF Untouched, Stays
    <3>5. ASSUME NEW name, name \notin {"ff", "00"}, name # Name(f), NEW j, NEW w, NEW v, Sole(E, j, name)
          PROVE  Spells(E, F, k, ent, j, name, v, w) /\ k # j
      <4>1. j \in DOMAIN E /\ E[j].name = name
        BY <3>5, Zenon DEF Sole
      <4>2. k # j
        BY <1>4, <3>5, <4>1
      <4> QED BY <1>3, <1>8, <3>5, <4>2 DEF Spells
    <3>6. ASSUME s = root PROVE Spells(E, F, k, ent, i, Name(g), h, FALSE) /\ k # i
      <4>1. Sole(E, i, Name(g))
        BY <3>2, <3>6, Zenon DEF HeldAt, Entry
      <4>2. Name(g) \notin {"ff", "00"}
        BY Paths
      <4>3. Name(g) # Name(f)
        BY <2>1, <3>3, <3>6, OneFile
      <4>4. PICK w : w = FALSE
        OBVIOUS
      <4>5. Spells(E, F, k, ent, i, Name(g), h, w) /\ k # i
        BY <3>5, <4>1, <4>2, <4>3
      <4> QED BY <4>4, <4>5
    <3>7. ASSUME root = ROOT, NEW j, Entry(u, Q, filefd, ROOT, j, g[1], s, TRUE)
          PROVE  Spells(E, F, k, ent, j, g[1], s, TRUE)
      <4>1. Sole(E, j, g[1])
        BY <3>7, Zenon DEF Entry
      <4>2. g[1] \notin {"ff", "00"}
        BY Paths
      <4>3. g[1] # Name(f)
        BY <4>1, Zenon DEF Sole, Unnamed
      <4>4. PICK w : w = TRUE
        OBVIOUS
      <4>5. Spells(E, F, k, ent, j, g[1], s, w) /\ k # j
        BY <3>5, <4>1, <4>2, <4>3
      <4> QED BY <4>4, <4>5
    <3>8. s \notin G
      BY <1>6
    <3> QED BY <3>4, <3>6, <3>7, <3>8, Zenon DEF Survives
  <2>2. \A g \in Files : L[g].ok => L[g] = K[g]
    OBVIOUS
  <2> QED BY <2>1, <2>2, Zenon DEF AllSurvive
<1>12. Gets(LoadDir(u, Q, root), LoadDir(u, S, root), k, ent) /\ Fresh(root, LoadDir(u, Q, root), k, ent)
  BY <1>3, <1>10
<1>13. Content(u, S, filefd, L)
  BY <1>1, <1>7, <1>9, <1>11, <1>12, TurnContent
<1> QED BY <1>5, <1>6, <1>7, <1>13

\* A name that is not found.
LEMMA NoneOf ==
    ASSUME NEW f, NEW P, NEW r, NEW E, E = LoadDir(f, P, r), NEW name, EntryOf(E, name) = 0
    PROVE  Unnamed(E, name)
<1>1. PICK found : found = {k \in DOMAIN E : E[k].name = name}
  OBVIOUS
<1>2. found \subseteq Nat /\ 0 \notin found
  <2>1. DOMAIN E = Slots(f, r)
    BY DirIs
  <2>2. PICK m : DOMAIN E = 1 .. m
    BY <2>1 DEF Slots
  <2>3. \A k \in 1 .. m : k \in Nat /\ k # 0
    OBVIOUS
  <2> QED BY ONLY <1>1, <2>2, <2>3
<1>3. found = {}
  <2>1. SUFFICES ASSUME found # {} PROVE FALSE
    OBVIOUS
  <2>2. FirstOf(found) \in found
    BY <1>2, <2>1, FirstIn
  <2>3. EntryOf(E, name) = FirstOf(found)
    BY <1>1, <2>1, Zenon DEF EntryOf
  <2> QED BY <1>2, <2>2, <2>3
<1> QED BY <1>1, <1>3 DEF Unnamed

\* The entry of an open file that was not lost is at its place.
LEMMA NotLost ==
    ASSUME NEW b, Booked(b, fat, page, filefd), ~Lost, NEW d \in Fd, Writer(filefd, d),
           NEW r, r = filefd[d].root, NEW j \in DOMAIN LoadDir(fat, page, r), filefd[d].index = j
    PROVE  LoadDir(fat, page, r)[j].name = filefd[d].ent.name
<1>1. FdMoves(b, filefd[d])
  BY DEF Booked, FdOK, Writer
<1>2. GetNode(filefd[d].path) = r /\ EntryOf(LoadDir(fat, page, r), Name(filefd[d].path)) = j
  BY Zenon DEF Lost, Writer
<1>3. PICK name : name = Name(filefd[d].path)
  OBVIOUS
<1>4. j # 0
  <2>1. DOMAIN LoadDir(fat, page, r) = Slots(fat, r)
    BY DirIs
  <2>2. PICK m : DOMAIN LoadDir(fat, page, r) = 1 .. m
    BY <2>1 DEF Slots
  <2> QED BY <2>2
<1>5. LoadDir(fat, page, r)[EntryOf(LoadDir(fat, page, r), name)].name = name
  BY <1>2, <1>3, <1>4, EntryIs
<1>6. filefd[d].ent.name = name
  BY <1>1, <1>3 DEF FdMoves
<1> QED BY <1>2, <1>3, <1>5, <1>6

\* The directory that get_node finds.
LEMMA NodeEntry ==
    ASSUME NEW b, Booked(b, fat, page, filefd), Agree(fat, page, filefd), ~Lost, NEW f \in Files,
           NEW root, root = GetNode(f), root # 0, NEW w, w = TRUE, Len(f) # 1
    PROVE  \E j : Entry(fat, page, filefd, ROOT, j, f[1], root, w)
<1>1. PICK E : E = LoadDir(fat, page, ROOT)
  OBVIOUS
<1>2. PICK name : name = f[1]
  OBVIOUS
<1>3. PICK j : j = EntryOf(E, name)
  OBVIOUS
<1>4. j # 0 /\ E[j].dir /\ E[j].fat = root
  <2>1. root = IF j # 0 /\ E[j].dir THEN E[j].fat ELSE 0
    BY <1>1, <1>2, <1>3, Zenon DEF GetNode
  <2> QED BY <2>1
<1>5. j \in DOMAIN E /\ E[j].name = name
  <2>1. EntryOf(LoadDir(fat, page, ROOT), name) # 0
    BY <1>1, <1>3, <1>4
  <2>2. /\ EntryOf(LoadDir(fat, page, ROOT), name) \in DOMAIN LoadDir(fat, page, ROOT)
        /\ LoadDir(fat, page, ROOT)[EntryOf(LoadDir(fat, page, ROOT), name)].name = name
    BY <2>1, EntryIs
  <2> QED BY <1>1, <1>3, <2>2, Zenon
<1>6. name \notin {"ff", "00"} /\ Used(E[j])
  BY <1>2, <1>5, Paths DEF Used
<1>7. E[j].dir = w
  <2>1. DirOK(b, fat, page, ROOT)
    BY DEF Booked, BookOK
  <2>2. EntRec(E[j])
    BY <1>1, <1>5, <2>1 DEF DirOK, Noted
  <2>3. E[j].dir \in BOOLEAN
    BY <2>2 DEF EntRec
  <2> QED BY <1>4, <2>3
<1>8. Sole(E, j, name)
  <2>1. Once(E)
    BY <1>1, Zenon DEF Agree
  <2>2. ASSUME NEW i \in DOMAIN E, E[i].name = name PROVE i = j
    BY <1>5, <1>6, <2>1, <2>2, Zenon DEF Once
  <2> QED BY <1>5, <2>2, Zenon DEF Sole
<1>9. Clear(filefd, ROOT, j, name, root)
  <2>1. ASSUME NEW d \in Fd, Writer(filefd, d), filefd[d].root = ROOT
        PROVE  IF filefd[d].ent.name = name THEN filefd[d].index = j /\ filefd[d].ent.fat = root
               ELSE filefd[d].index # j
    <3>1. CASE filefd[d].ent.name = name
      <4>1. Knows(LoadDir(fat, page, filefd[d].root), filefd[d])
        BY <2>1, Zenon DEF Agree
      <4>2. Knows(E, filefd[d])
        BY <1>1, <2>1, <4>1
      <4> QED BY <1>4, <1>5, <2>1, <3>1, <4>2 DEF Knows
    <3>2. CASE filefd[d].ent.name # name
      <4>1. ASSUME filefd[d].index = j PROVE FALSE
        <5>1. LoadDir(fat, page, filefd[d].root)[j].name = filefd[d].ent.name
          <6>1. j \in DOMAIN LoadDir(fat, page, filefd[d].root)
            BY <1>1, <1>5, <2>1
          <6> QED BY <2>1, <4>1, <6>1, NotLost
        <5> QED BY <1>1, <1>5, <2>1, <3>2, <5>1
      <4> QED BY <3>2, <4>1
    <3> QED BY <3>1, <3>2
  <2> QED BY <2>1, Zenon DEF Clear
<1> QED BY <1>1, <1>2, <1>4, <1>7, <1>8, <1>9, Zenon DEF Entry

\* The used entries of F are in E, at their places.
Grew(E, F) == \A j \in DOMAIN F : Used(F[j]) => j \in DOMAIN E /\ F[j] = E[j]

\* Before the new entry goes to the directory.
LEMMA CreateGrown ==
    ASSUME NEW b, Booked(b, fat, page, filefd), Content(fat, page, filefd, kept),
           NEW c, NEW d, NEW f \in Files, NEW opt, NEW root, InDir(b, f, root), NEW new, NEW row,
           NEW t, NEW P, NEW u, NEW Q, NEW k, NEW ent, NEW S, NEW y,
           Created(b, c, d, f, opt, root, new, row, t, P, u, Q, k, ent, S, y),
           NEW L, L = IF Crowded(root) THEN Unlinked(f, fat[root]) ELSE kept
    PROVE  /\ Content(u, Q, filefd, L) /\ KeptRec(L)
           /\ \A s \in DOMAIN b : b[s].dir /\ s # root => LoadDir(u, Q, s) = LoadDir(fat, page, s)
           /\ Grew(LoadDir(fat, page, root), LoadDir(u, Q, root))
           /\ (Crowded(root) => fat[root] = TAIL) =>
                  Grew(LoadDir(u, Q, root), LoadDir(fat, page, root))
<1>1. /\ Born(b, c, new, row, t, P)
      /\ IF Crowded(root) THEN Widened(root, t, P, u, Q) ELSE u = t /\ Q = P
  BY Zenon DEF Created
<1>2. /\ Booked(c, t, P, filefd) /\ More(b, c) /\ new \notin DOMAIN b
      /\ t = [fat EXCEPT ![new] = TAIL]
  BY <1>1, Zenon DEF Born, Begun
<1>3. Content(t, P, filefd, kept) /\ SameDirs(b, fat, page, t, P)
  BY <1>1, BornContent
<1>4. /\ root \in DOMAIN b /\ b[root].dir /\ root \in DOMAIN c /\ c[root].dir /\ root # new
      /\ LoadDir(t, P, root) = LoadDir(fat, page, root)
  BY <1>2, <1>3 DEF InDir, More, SameDirs
<1>5. KeptRec(kept)
  BY Zenon DEF Content
<1>6. CASE Crowded(root)
  <2>1. Widens(c, root, t, P, filefd, u, Q)
    BY <1>1, <1>2, <1>4, <1>6, Zenon DEF Widens, Widened
  <2>2. /\ Turns(c, {}, root, t, P, u, Q)
        /\ Gets(LoadDir(t, P, root), LoadDir(u, Q, root), 0, NoEnt)
        /\ t[root] = TAIL => Spares(LoadDir(t, P, root), LoadDir(u, Q, root), 0)
    BY <2>1, WidensIs
  <2>3. \A m : \A j \in 1 .. m : j # 0
    OBVIOUS
  <2>4. \A j \in DOMAIN LoadDir(u, Q, root) : j # 0
    BY <2>3, DirIs DEF Slots
  <2>5. \A j \in DOMAIN LoadDir(t, P, root) : j # 0
    BY <2>3, DirIs DEF Slots
  <2>6. Grew(LoadDir(t, P, root), LoadDir(u, Q, root))
    BY <2>2, <2>4, Zenon DEF Gets, Grew
  <2>7. t[root] = fat[root]
    BY <1>2, <1>4
  <2>8. fat[root] = TAIL => Grew(LoadDir(u, Q, root), LoadDir(t, P, root))
    <3>1. ASSUME fat[root] = TAIL PROVE Grew(LoadDir(u, Q, root), LoadDir(t, P, root))
      <4>1. Spares(LoadDir(t, P, root), LoadDir(u, Q, root), 0)
        BY <2>2, <2>7, <3>1
      <4>2. ASSUME NEW j \in DOMAIN LoadDir(t, P, root), Used(LoadDir(t, P, root)[j])
            PROVE  /\ j \in DOMAIN LoadDir(u, Q, root)
                   /\ LoadDir(t, P, root)[j] = LoadDir(u, Q, root)[j]
        BY <2>5, <4>1, <4>2, Zenon DEF Spares
      <4> QED BY <4>2, Zenon DEF Grew
    <3> QED BY <3>1
  <2>9. L = [g \in Files |-> IF fat[root] # TAIL /\ (Len(f) = 1 \/ (Len(g) = 2 /\ g[1] = f[1]))
                             THEN [kept[g] EXCEPT !.ok = FALSE] ELSE kept[g]]
    BY <1>6, Zenon DEF Unlinked
  <2>10. KeptRec(L)
    <3>1. ASSUME NEW g \in Files PROVE L[g] = [len |-> L[g].len, ok |-> L[g].ok]
      <4>1. kept[g] = [len |-> kept[g].len, ok |-> kept[g].ok]
        BY <1>5 DEF KeptRec
      <4>2. L[g] = kept[g] \/ L[g] = [kept[g] EXCEPT !.ok = FALSE]
        BY <2>9
      <4> QED BY <4>1, <4>2
    <3> QED BY <2>9, <3>1 DEF KeptRec
  <2>11. ASSUME NEW g \in Files, L[g].ok
         PROVE  L[g] = kept[g] /\ (t[root] = TAIL \/ (root # ROOT /\ ~InDir(c, g, root)))
    <3>1. kept[g] = [len |-> kept[g].len, ok |-> kept[g].ok]
      BY <1>5 DEF KeptRec
    <3>2. /\ ~(fat[root] # TAIL /\ (Len(f) = 1 \/ (Len(g) = 2 /\ g[1] = f[1])))
          /\ L[g] = kept[g]
      BY <2>9, <2>11, <3>1
    <3>3. ASSUME t[root] # TAIL PROVE root # ROOT /\ ~InDir(c, g, root)
      <4>1. Len(f) # 1 /\ ~(Len(g) = 2 /\ g[1] = f[1])
        BY <2>7, <3>2, <3>3
      <4>2. root # ROOT /\ b[root].name = f[1]
        BY <4>1 DEF InDir
      <4>3. c[root].name = f[1]
        BY <1>2, <1>4, <4>2 DEF More
      <4>4. ASSUME InDir(c, g, root) PROVE FALSE
        <5>1. Len(g) # 1 /\ g[1] = f[1]
          BY <4>2, <4>3, <4>4 DEF InDir
        <5>2. Len(g) = 2
          <6>1. Len(g) \in 1 .. 2
            BY Paths
          <6> QED BY <5>1, <6>1
        <5> QED BY <4>1, <5>1, <5>2
      <4> QED BY <4>2, <4>4
    <3> QED BY <3>2, <3>3
  <2>12. Content(u, Q, filefd, L)
    BY <1>3, <2>1, <2>10, <2>11, GrowContent
  <2>13. ASSUME NEW s \in DOMAIN b, b[s].dir, s # root
         PROVE  LoadDir(u, Q, s) = LoadDir(fat, page, s)
    <3>1. s \in DOMAIN c /\ c[s].dir
      BY <1>2, <2>13 DEF More
    <3>2. LoadDir(u, Q, s) = LoadDir(t, P, s)
      BY <2>2, <2>13, <3>1 DEF Turns
    <3> QED BY <1>3, <2>13, <3>2 DEF SameDirs
  <2> QED BY <1>4, <1>6, <2>6, <2>8, <2>10, <2>12, <2>13
<1>7. CASE ~Crowded(root)
  <2>1. u = t /\ Q = P /\ L = kept
    BY <1>1, <1>7
  <2>2. Grew(LoadDir(u, Q, root), LoadDir(fat, page, root))
    BY <1>4, <2>1, Zenon DEF Grew
  <2>3. Grew(LoadDir(fat, page, root), LoadDir(u, Q, root))
    BY <1>4, <2>1, Zenon DEF Grew
  <2> QED BY <1>3, <1>5, <2>1, <2>2, <2>3 DEF SameDirs
<1> QED BY <1>6, <1>7

\* The new file is held.
NewFile(c, f, opt, root, u, S, k, ent, new, y, Y, d, F) ==
    /\ Booked(c, u, S, filefd) /\ InDir(c, f, root) /\ new \in DOMAIN c
    /\ ent.name = Name(f) /\ ent.fat = new /\ ent.dir = FALSE /\ ent.size = 0
    /\ y = Opened(f, opt, ent, k, root, u, S) /\ opt # "read" /\ OpenOn(f) = {}
    /\ Comes(filefd, d, y, Y) /\ F = LoadDir(u, S, root)

\* A file that was made is held, with no cells.
LEMMA HeldNew ==
    ASSUME NEW c, NEW f \in Files, NEW opt, NEW root, NEW u, NEW S, NEW k, NEW ent, NEW new,
           NEW y, NEW Y, NEW d, NEW F, NewFile(c, f, opt, root, u, S, k, ent, new, y, Y, d, F),
           Sole(F, k, Name(f)), F[k] = ent, Home(u, S, Y, f, root),
           \A e \in Fd : Writer(filefd, e) /\ filefd[e].root = root => filefd[e].index # k
    PROVE  HeldAt(u, S, Y, 0, f, root, k, new)
<1>1. /\ Booked(c, u, S, filefd) /\ InDir(c, f, root) /\ new \in DOMAIN c
      /\ ent.name = Name(f) /\ ent.fat = new /\ ent.dir = FALSE /\ ent.size = 0
      /\ y = Opened(f, opt, ent, k, root, u, S) /\ opt # "read" /\ OpenOn(f) = {}
      /\ Comes(filefd, d, y, Y) /\ F = LoadDir(u, S, root)
  BY Zenon DEF NewFile
<1>2. Added(filefd, d, y, Y)
  <2>1. filefd = [e \in Fd |-> filefd[e]]
    BY <1>1, Zenon DEF Booked
  <2> QED BY <1>1, <2>1, ComesIs
<1>3. Len(Chain(u, ent.fat)) \in Nat /\ ent.size \in Nat
  <2>1. Proper(u, new)
    BY <1>1 DEF Booked, Apart
  <2>2. Len(Chain(u, new)) \in Nat
    BY <2>1, GoesParts DEF Proper
  <2> QED BY <1>1, <2>2
<1>4. /\ y.open /\ y.path = f /\ y.ent = ent /\ y.index = k /\ y.root = root /\ y.opt = opt
      /\ Fit(u, S, y, f)
  <2>1. On(u, S, ent.fat, f, ent.size)
    BY <1>1 DEF On
  <2> QED BY <1>1, <1>3, <2>1, OpenedIs
<1>5. \A e \in Fd : ~(filefd[e].open /\ filefd[e].path = f)
  BY <1>1 DEF OpenOn
<1>6. Clear(Y, root, k, Name(f), new)
  <2>1. ASSUME NEW e \in Fd, Writer(Y, e), Y[e].root = root
        PROVE  IF Y[e].ent.name = Name(f) THEN Y[e].index = k /\ Y[e].ent.fat = new
               ELSE Y[e].index # k
    <3>1. CASE e = d
      <4>1. Y[e] = y
        BY <1>2, <3>1, Zenon DEF Added
      <4> QED BY <1>1, <1>4, <4>1
    <3>2. CASE e # d
      <4>1. Y[e] = filefd[e] /\ Writer(filefd, e)
        BY <1>2, <2>1, <3>2, Zenon DEF Added, Writer
      <4>2. FdMoves(c, filefd[e]) /\ filefd[e].path \in Files
        BY <1>1, <4>1 DEF Booked, FdOK, Writer, FdMoves, FdRec
      <4>3. filefd[e].path # f
        BY <1>5, <4>1 DEF Writer
      <4>4. InDir(c, filefd[e].path, root) /\ filefd[e].ent.name = Name(filefd[e].path)
        BY <2>1, <4>1, <4>2, Zenon DEF FdMoves
      <4>5. Name(filefd[e].path) # Name(f)
        BY <1>1, <4>2, <4>3, <4>4, OneFile
      <4>6. filefd[e].index # k
        BY <2>1, <4>1
      <4> QED BY <4>1, <4>4, <4>5, <4>6
    <3> QED BY <3>1, <3>2
  <2> QED BY <2>1, Zenon DEF Clear
<1>7. Entry(u, S, Y, root, k, Name(f), new, FALSE)
  BY <1>1, <1>6, Zenon DEF Entry
<1>8. Views(u, S, Y, 0, f, root, new)
  <2>1. ASSUME NEW e \in Fd, Y[e].open, Y[e].path = f PROVE Y[e] = y
    <3>1. CASE e = d
      BY <1>2, <3>1, Zenon DEF Added
    <3>2. CASE e # d
      <4>1. Y[e] = filefd[e]
        BY <1>2, <3>2, Zenon DEF Added
      <4> QED BY <1>5, <2>1, <4>1
    <3> QED BY <3>1, <3>2
  <2>2. y.ent.fat = new /\ y.ent.size = 0 /\ y.root = root /\ y.opt # "read"
    BY <1>1, <1>4
  <2> QED BY <1>4, <2>1, <2>2, Zenon DEF Views
<1>9. Rests(u, S, Y, 0, f, root, k, new)
  <2>1. d \in Fd /\ Y[d] = y
    BY <1>1, <1>2 DEF Comes, Added
  <2> QED BY <1>1, <1>4, <2>1, Zenon DEF Rests
<1> QED BY <1>7, <1>8, <1>9, Zenon DEF HeldAt

\* minifs_open of a file that does not exist.
LEMMA CreateContent ==
    ASSUME NEW b, Booked(b, fat, page, filefd), Content(fat, page, filefd, kept),
           NEW d \in Fd, ~filefd[d].open, NEW f \in Files, NEW opt, MayOpen(f, opt),
           (opt = "dir") = (f \in Dirs),
           NEW root, root = GetNode(f), root # 0, Create(d, f, opt, root)
    PROVE  Content(fat', page', filefd', kept')
<1>1. PICK c, new, row, t, P, u, Q, k, ent, S, y :
          Created(b, c, d, f, opt, root, new, row, t, P, u, Q, k, ent, S, y)
  BY CreateIs
<1>2. PICK E0 : E0 = LoadDir(fat, page, root)
  OBVIOUS
<1>3. PICK E, F : E = LoadDir(u, Q, root) /\ F = LoadDir(u, S, root)
  OBVIOUS
<1>4. PICK L1 : L1 = IF Crowded(root) THEN Unlinked(f, fat[root]) ELSE kept
  OBVIOUS
<1>5. PICK L : L = kept'
  OBVIOUS
<1>6. PICK Y : Y = [filefd EXCEPT ![d] = y]
  OBVIOUS
<1>7. /\ Born(b, c, new, row, t, P) /\ Entered(c, f, opt, root, u, Q, new, k, ent, S)
      /\ y = Opened(f, opt, ent, k, root, u, S)
      /\ fat' = u /\ page' = S /\ filefd' = Y /\ kept' = KeptNew(f, opt, root, k, E)
  BY <1>1, <1>3, <1>6, Zenon DEF Created
<1>8. EntryOf(E0, Name(f)) = 0 /\ opt # "read"
  BY <1>2, Zenon DEF Create
<1>9. Unnamed(E0, Name(f)) /\ OpenOn(f) = {} /\ Name(f) \notin {"ff", "00"}
  <2>1. PICK name : name = Name(f)
    OBVIOUS
  <2>2. Unnamed(E0, name)
    BY <1>2, <1>8, <2>1, NoneOf
  <2>3. OpenOn(f) = {}
    BY <1>8, Zenon DEF MayOpen
  <2> QED BY <2>1, <2>2, <2>3, Paths
<1>10. InDir(b, f, root) /\ More(b, c) /\ new \in DOMAIN c
  BY <1>7, GetNodeIs DEF Born
<1>11. InDir(c, f, root)
  BY <1>10 DEF InDir, More
<1>12. /\ Content(u, Q, filefd, L1) /\ KeptRec(L1)
       /\ \A s \in DOMAIN b : b[s].dir /\ s # root => LoadDir(u, Q, s) = LoadDir(fat, page, s)
       /\ Grew(E0, E)
       /\ (Crowded(root) => fat[root] = TAIL) => Grew(E, E0)
  BY <1>1, <1>2, <1>3, <1>4, <1>10, CreateGrown
<1>13. Unnamed(E, Name(f))
  BY <1>9, <1>12 DEF Grew, Unnamed, Used
<1>14. PICK L2 : L2 = [L1 EXCEPT ![f] = Gone]
  OBVIOUS
<1>15. KeptRec(L2) /\ \A g \in Files : L2[g].ok => g # f /\ L2[g] = L1[g]
  <2>1. L1 = [g \in Files |-> L1[g]] /\ \A g \in Files : L1[g] = [len |-> L1[g].len, ok |-> L1[g].ok]
    BY <1>12, Zenon DEF KeptRec
  <2>2. L2 = [g \in Files |-> L2[g]] /\ \A g \in Files : L2[g] = IF g = f THEN Gone ELSE L1[g]
    BY <1>14, <2>1
  <2>3. Gone = [len |-> Gone.len, ok |-> Gone.ok] /\ ~Gone.ok
    BY DEF Gone
  <2>4. \A g \in Files : L2[g] = [len |-> L2[g].len, ok |-> L2[g].ok]
    BY <2>1, <2>2, <2>3
  <2> QED BY <2>2, <2>3, <2>4, Zenon DEF KeptRec
<1>16. Content(u, S, filefd, L2) /\ Turns(c, {}, root, u, Q, u, S) /\ Placed(f, E, F, k, ent)
  BY <1>3, <1>7, <1>9, <1>11, <1>12, <1>13, <1>15, PlaceContent
<1>17. /\ Booked(c, u, S, filefd) /\ Booked(c, u, Q, filefd)
       /\ EntParts(ent, Name(f), 0, new, opt = "dir")
  BY <1>7, Zenon DEF Entered
<1>18. ent.name = Name(f) /\ ent.fat = new /\ ent.dir = (opt = "dir") /\ ent.size = 0
  BY <1>17 DEF EntParts
<1>19. /\ y.open /\ y.path = f /\ y.ent = ent /\ y.index = k /\ y.root = root /\ y.opt = opt
  <2>1. Proper(u, new)
    BY <1>10, <1>17 DEF Booked, Apart
  <2>2. Len(Chain(u, ent.fat)) \in Nat /\ ent.size \in Nat
    BY <1>18, <2>1, GoesParts DEF Proper
  <2> QED BY <1>7, <2>2, OpenedIs
<1>20. Comes(filefd, d, y, Y)
  BY <1>6, Zenon DEF Comes
<1>21. \A j \in DOMAIN F : Used(F[j]) =>
           IF j = k THEN F[j] = ent ELSE j \in DOMAIN E /\ F[j] = E[j]
  BY <1>16, Zenon DEF Placed, Gets
<1>22. Yields(u, S, filefd, y)
  <2>1. ASSUME NEW r, NEW i, NEW name, NEW h, NEW w, Entry(u, S, filefd, r, i, name, h, w),
               name \notin {"ff", "00"}, y.root = r
        PROVE  IF y.ent.name = name THEN y.index = i /\ y.ent.fat = h ELSE y.index # i
    <3>1. r = root
      BY <1>19, <2>1
    <3>2. Sole(F, i, name) /\ F[i].fat = h
      BY <1>3, <2>1, <3>1, Zenon DEF Entry
    <3>3. i \in DOMAIN F /\ F[i].name = name /\ Used(F[i])
      BY <2>1, <3>2 DEF Sole, Used
    <3>4. i # k => E[i].name # Name(f) /\ F[i] = E[i]
      BY <1>13, <1>21, <3>3 DEF Unnamed
    <3> QED BY <1>18, <1>19, <1>21, <3>2, <3>3, <3>4
  <2> QED BY <2>1, Zenon DEF Yields
<1>23. Sharing(filefd, y)
  BY <1>9, <1>19 DEF Sharing, OpenOn
<1>24. Knows(LoadDir(u, S, y.root), y)
  <2>1. Gets(E, F, k, ent)
    BY <1>16, Zenon DEF Placed
  <2>2. Knows(F, y)
    BY <1>9, <1>13, <1>18, <1>19, <2>1, KnowsNew DEF Unnamed
  <2> QED BY <1>3, <1>19, <2>2
<1>25. /\ KeptRec(L) /\ \A g \in Files : g # f => L[g] = L2[g]
       /\ L[f].len = 0
       /\ L[f].ok => /\ k <= Len(E) /\ opt # "dir" /\ ~Lost
                     /\ Crowded(root) => fat[root] = TAIL
  <2>1. PICK w : w = (k <= Len(E) /\ opt # "dir" /\ ~Lost /\ (Crowded(root) => fat[root] = TAIL))
    OBVIOUS
  <2>2. L = [L1 EXCEPT ![f] = [len |-> 0, ok |-> w]]
    BY <1>4, <1>5, <1>7, <2>1, Zenon DEF KeptNew
  <2>3. L1 = [g \in Files |-> L1[g]] /\ \A g \in Files : L1[g] = [len |-> L1[g].len, ok |-> L1[g].ok]
    BY <1>12, Zenon DEF KeptRec
  <2>4. PICK e : e = [len |-> 0, ok |-> w]
    OBVIOUS
  <2>9. e = [len |-> e.len, ok |-> e.ok] /\ e.len = 0 /\ e.ok = w
    BY ONLY <2>4
  <2>5. L = [g \in Files |-> L[g]] /\ \A g \in Files : L[g] = IF g = f THEN e ELSE L1[g]
    BY <2>2, <2>3, <2>4
  <2>6. \A g \in Files : L[g] = [len |-> L[g].len, ok |-> L[g].ok]
    BY <2>3, <2>5, <2>9
  <2>7. KeptRec(L)
    BY <2>5, <2>6, Zenon DEF KeptRec
  <2>8. \A g \in Files : g # f => L[g] = L2[g]
    BY <1>14, <2>3, <2>5
  <2> QED BY <2>1, <2>5, <2>7, <2>8, <2>9
<1>26. ASSUME L[f].ok PROVE HeldAt(u, S, Y, 0, f, root, k, new)
  <2>1. k \in DOMAIN F /\ F[k] = ent /\ k \in DOMAIN E /\ E[k].name = "ff" /\ k # 0
    BY <1>16, <1>25, <1>26 DEF Placed
  <2>2. Sole(F, k, Name(f))
    <3>1. ASSUME NEW j \in DOMAIN F, F[j].name = Name(f) PROVE j = k
      <4>1. Used(F[j])
        BY <1>9, <3>1 DEF Used
      <4> QED BY <1>13, <1>21, <3>1, <4>1 DEF Unnamed
    <3> QED BY <1>18, <2>1, <3>1 DEF Sole
  <2>3. Grew(E, E0) /\ ~Lost
    BY <1>12, <1>25, <1>26
  <2>4. ASSUME NEW e \in Fd, Writer(filefd, e), filefd[e].root = root PROVE filefd[e].index # k
    <3>1. SUFFICES ASSUME filefd[e].index = k PROVE FALSE
      OBVIOUS
    <3>2. FdMoves(b, filefd[e])
      BY <2>4 DEF Booked, FdOK, Writer
    <3>3. filefd[e].ent.name \notin {"ff", "00"}
      BY <3>2, Paths DEF FdMoves, FdRec
    <3>4. GetNode(filefd[e].path) = root /\ EntryOf(E0, Name(filefd[e].path)) = k
      BY <1>2, <2>3, <2>4, <3>1, Zenon DEF Lost, Writer
    <3>5. PICK name : name = Name(filefd[e].path)
      OBVIOUS
    <3>6. name \notin {"ff", "00"}
      BY <3>2, <3>3, <3>5 DEF FdMoves
    <3>7. EntryOf(LoadDir(fat, page, root), name) = k
      BY <1>2, <3>4, <3>5
    <3>8. k \in DOMAIN E0 /\ E0[k].name = name
      BY <1>2, <2>1, <3>7, EntryIs
    <3>9. E[k] = E0[k]
      BY <2>3, <3>6, <3>8 DEF Grew, Used
    <3> QED BY <2>1, <3>6, <3>8, <3>9
  <2>5. Home(u, S, Y, f, root)
    <3>1. CASE Len(f) = 1
      BY <1>10, <3>1 DEF Home, InDir
    <3>2. CASE Len(f) # 1
      <4>1. PICK w : w = TRUE
        OBVIOUS
      <4>2. Agree(fat, page, filefd)
        BY Zenon DEF Content
      <4>3. PICK j : Entry(fat, page, filefd, ROOT, j, f[1], root, w)
        BY <2>3, <3>2, <4>1, <4>2, NodeEntry
      <4>4. LoadDir(u, S, ROOT) = LoadDir(fat, page, ROOT)
        <5>1. root # ROOT /\ ROOT \in DOMAIN b /\ b[ROOT].dir
          BY <1>10, <3>2 DEF InDir, Booked, BookOK
        <5>2. ROOT \in DOMAIN c /\ c[ROOT].dir
          BY <1>10, <5>1 DEF More
        <5>3. LoadDir(u, S, ROOT) = LoadDir(u, Q, ROOT)
          BY <1>16, <5>1, <5>2 DEF Turns
        <5> QED BY <1>12, <5>1, <5>3
      <4>5. Mild(filefd, filefd)
        BY Zenon DEF Mild, Like
      <4>6. PICK name : name = f[1] /\ name \notin {"ff", "00"}
        BY Paths
      <4>7. Entry(u, S, filefd, ROOT, j, name, root, w)
        BY <4>3, <4>4, <4>5, <4>6, EntrySame
      <4>8. Added(filefd, d, y, Y)
        <5>1. filefd = [e \in Fd |-> filefd[e]]
          BY Zenon DEF Booked
        <5> QED BY <1>20, <5>1, ComesIs
      <4>9. Entry(u, S, Y, ROOT, j, name, root, w)
        BY <1>22, <4>6, <4>7, <4>8, EntryAdded
      <4> QED BY <3>2, <4>1, <4>6, <4>9, Zenon DEF Home
    <3> QED BY <3>1, <3>2
  <2>6. NewFile(c, f, opt, root, u, S, k, ent, new, y, Y, d, F)
    <3>1. ent.dir = FALSE
      BY <1>18, <1>25, <1>26
    <3> QED BY <1>3, <1>7, <1>8, <1>9, <1>10, <1>11, <1>17, <1>18, <1>20, <3>1, Zenon DEF NewFile
  <2> QED BY <2>1, <2>2, <2>4, <2>5, <2>6, HeldNew
<1>27. Content(u, S, Y, L)
  <2>1. \A g \in Files : g # y.path => L[g] = L2[g]
    BY <1>19, <1>25
  <2>2. y.path \in Files /\ L[y.path].ok =>
            \E r, i, h : HeldAt(u, S, Y, L[y.path].len, y.path, r, i, h)
    <3>1. L[f].ok => HeldAt(u, S, Y, L[f].len, f, root, k, new)
      BY <1>25, <1>26
    <3>2. L[f].ok => \E r, i, h : HeldAt(u, S, Y, L[f].len, f, r, i, h)
      BY <3>1, Zenon
    <3> QED BY <1>19, <3>2
  <2> QED BY <1>16, <1>17, <1>20, <1>22, <1>23, <1>24, <1>25, <2>1, <2>2, AddContent
<1> QED BY <1>5, <1>7, <1>27

-----------------------------------------------------------------------------
(* Files that are deleted.                                                   *)

\* What removing a directory's entry and some chains leaves.
LEMMA RemoveTurns ==
    ASSUME NEW b, NEW f, NEW P, NEW X, Booked(b, f, P, X), NEW G, NEW root, NEW k,
           Goners(b, G, root, k), NEW g, Left(b, G, f, g), NEW P1, LeftPages(b, G, f, P, P1),
           NEW Q, Struck(g, P1, root, k, LoadDir(f, P, root), Q)
    PROVE  /\ Turns(b, G, root, f, P, g, Q)
           /\ Gets(LoadDir(f, P, root), LoadDir(g, Q, root), k, NoEnt)
           /\ Spares(LoadDir(f, P, root), LoadDir(g, Q, root), k)
           /\ \A h \in DOMAIN b \ G : h # root => Untouched(f, P, g, Q, h)
<1>1. /\ Apart(g, DOMAIN b \ G) /\ \A r \in DOMAIN b \ G : Stays(f, g, r)
      /\ \A r \in DOMAIN b \ G : \A p \in Pages(f, r) : P1[p] = P[p]
  BY Zenon DEF Left, LeftPages
<1>2. /\ root \in DOMAIN b \ G /\ b[root].dir /\ ROOT \notin G
      /\ Apart(f, DOMAIN b) /\ Table(f) /\ Table(g)
  BY <1>1 DEF Goners, Booked, Apart
<1>3. ASSUME NEW r \in DOMAIN b \ G
      PROVE  /\ Proper(f, r) /\ Proper(g, r) /\ Stays(f, g, r)
             /\ \A p \in Pages(f, r) : P1[p] = P[p]
  BY <1>1, <1>2 DEF Apart
<1>4. LoadDir(g, P1, root) = LoadDir(f, P, root)
  BY <1>2, <1>3, SameDir
<1>5. PICK e : e = NoEnt
  OBVIOUS
<1>6. Puts1(g, P1, root, k, e, Q)
  BY <1>4, <1>5, Zenon DEF Puts1, Struck
<1>7. PICK E, F : E = LoadDir(g, P1, root) /\ F = LoadDir(g, Q, root)
  OBVIOUS
<1>8. /\ Gets(E, F, k, e) /\ Spares(E, F, k)
      /\ \A p \in Page : p \notin Pages(g, root) => Q[p] = P1[p]
  <2>1. Proper(g, root) /\ Table(g)
    BY <1>2, <1>3
  <2> QED BY <1>6, <1>7, <2>1, SavedTurns
<1>9. ASSUME NEW h \in DOMAIN b \ G, h # root
      PROVE  Stays(f, g, h) /\ \A p \in Pages(f, h) : Q[p] = P[p]
  <2>1. Pages(g, h) \cap Pages(g, root) = {} /\ Pages(g, h) = Pages(f, h)
    BY <1>1, <1>2, <1>3, <1>9 DEF Apart, Stays
  <2>2. \A p \in Pages(f, h) : p \in Page
    BY <1>2, <1>3, PagesOf
  <2> QED BY <1>3, <1>8, <2>1, <2>2
<1>10. Turns(b, G, root, f, P, g, Q)
  <2>1. ASSUME NEW s \in DOMAIN b \ G, s # root PROVE LoadDir(g, Q, s) = LoadDir(f, P, s)
    BY <1>3, <1>9, <2>1, SameDir
  <2> QED BY <1>2, <2>1, Zenon DEF Turns
<1>11. \A h \in DOMAIN b \ G : h # root => Untouched(f, P, g, Q, h)
  BY <1>9, Zenon DEF Untouched
<1> QED BY <1>4, <1>5, <1>7, <1>8, <1>10, <1>11

\* The file or directory q is deleted: a file g that is no part of it stays.
Strikes(b, f, P, X, G, root, k, q) ==
    /\ Booked(b, f, P, X) /\ Goners(b, G, root, k) /\ q \in Files /\ InDir(b, q, root)
    /\ k \in DOMAIN LoadDir(f, P, root) /\ LoadDir(f, P, root)[k].name = Name(q)
Remains(f, P, X, G, root, k, g, s, i, h) ==
    /\ s \notin G /\ h \notin G /\ ~(s = root /\ i = k)
    /\ root = ROOT /\ Len(g) # 1 => \A j : Entry(f, P, X, ROOT, j, g[1], s, TRUE) => j # k

\* What is deleted leaves the entry, the chain and the directory of another file.
LEMMA NotGone ==
    ASSUME NEW b, NEW f, NEW P, NEW X, NEW G, NEW root, NEW k, NEW q,
           Strikes(b, f, P, X, G, root, k, q),
           NEW g \in Files, g # q, g \notin Under(q), NEW len, NEW s, NEW i, NEW h,
           HeldAt(f, P, X, len, g, s, i, h)
    PROVE  Remains(f, P, X, G, root, k, g, s, i, h)
<1> USE DEF Strikes
<1>0. PICK E : E = LoadDir(f, P, root) /\ k \in DOMAIN E /\ E[k].name = Name(q)
  OBVIOUS
<1>1. /\ InDir(b, g, s) /\ h \in DOMAIN b \ {ROOT} /\ b[h].root = s /\ b[h].index = i
  BY HeldInDir
<1>2. BookOK(b)
  BY DEF Booked
<1>3. ~(s = root /\ i = k)
  <2>1. SUFFICES ASSUME s = root, i = k PROVE FALSE
    OBVIOUS
  <2>2. Sole(E, i, Name(g))
    BY <1>0, <2>1, Zenon DEF HeldAt, Entry
  <2>3. Name(g) = Name(q)
    BY <1>0, <2>1, <2>2 DEF Sole
  <2> QED BY <1>1, <2>1, <2>3, OneFile
<1>4. ASSUME root = ROOT, Len(g) # 1, NEW j, Entry(f, P, X, ROOT, j, g[1], s, TRUE), j = k
      PROVE  FALSE
  <2>1. Sole(E, j, g[1])
    BY <1>0, <1>4, Zenon DEF Entry
  <2>2. g[1] = Name(q) /\ Len(q) = 1
    BY <1>0, <1>4, <2>1 DEF Sole, InDir
  <2>3. g[1] = q[1]
    BY <2>2 DEF Name
  <2> QED BY <2>2, <2>3 DEF Under
<1>5. s \notin G
  <2>1. SUFFICES ASSUME s \in G PROVE FALSE
    OBVIOUS
  <2>2. s \in DOMAIN b \ {ROOT} /\ (b[s].root \in G \/ (b[s].root = root /\ b[s].index = k)) /\ ROOT \notin G
    BY <2>1 DEF Goners
  <2>3. b[s].root = ROOT
    BY <1>1, <1>2, <2>2 DEF BookOK, InDir
  <2>4. root = ROOT /\ b[s].index = k
    BY <2>2, <2>3
  <2>5. Len(g) # 1
    BY <1>1, <2>2 DEF InDir
  <2>6. PICK j : Entry(f, P, X, ROOT, j, g[1], s, TRUE)
    BY <2>5, Zenon DEF HeldAt, Home
  <2>7. Sole(E, j, g[1]) /\ E[j].fat = s
    BY <1>0, <2>4, <2>6, Zenon DEF Entry
  <2>8. j \in DOMAIN E /\ Used(E[j])
    BY <2>7, Paths DEF Sole, Used
  <2>9. Noted(b, ROOT, j, E[j])
    BY <1>0, <1>2, <2>4, <2>8 DEF Booked, BookOK, DirOK
  <2>10. b[s] = Row(ROOT, j, E[j])
    BY <2>7, <2>8, <2>9 DEF Noted
  <2>11. j = k
    BY <2>4, <2>10 DEF Row
  <2> QED BY <1>4, <2>4, <2>5, <2>6, <2>11
<1>6. h \notin G
  BY <1>1, <1>3, <1>5 DEF Goners
<1> QED BY <1>3, <1>4, <1>5, <1>6, Zenon DEF Remains

\* Chains are given back and an entry is struck out.
LEMMA RemoveContent ==
    ASSUME NEW b, NEW f, NEW P, NEW X, NEW K, Booked(b, f, P, X), Content(f, P, X, K),
           NEW G, NEW root, NEW k, Goners(b, G, root, k), NEW g, Left(b, G, f, g),
           NEW P1, LeftPages(b, G, f, P, P1), Shut(G, X),
           NEW Q, Struck(g, P1, root, k, LoadDir(f, P, root), Q),
           NEW q \in Files, InDir(b, q, root), k \in DOMAIN LoadDir(f, P, root),
           LoadDir(f, P, root)[k].name = Name(q), NEW L, KeptRec(L),
           \A p \in Files : L[p].ok => p # q /\ p \notin Under(q) /\ L[p] = K[p]
    PROVE  Content(g, Q, X, L)
<1>1. PICK E, F : E = LoadDir(f, P, root) /\ F = LoadDir(g, Q, root)
  OBVIOUS
<1>2. PICK e : e = NoEnt
  OBVIOUS
<1>3. /\ Turns(b, G, root, f, P, g, Q) /\ Gets(E, F, k, e) /\ Spares(E, F, k)
      /\ \A h \in DOMAIN b \ G : h # root => Untouched(f, P, g, Q, h)
  BY <1>1, <1>2, RemoveTurns
<1>4. e.name = "ff" /\ ~Used(e)
  BY <1>2 DEF NoEnt, Used
<1>5. Minds(b, G, root, k, e, X)
  <2>1. ASSUME NEW d \in Fd, Writer(X, d) PROVE X[d].root \notin G /\ Apt(k, e, X[d])
    <3>1. FdMoves(b, X[d]) /\ X[d].root \notin G
      BY <2>1 DEF Booked, FdOK, Writer, Shut
    <3>2. X[d].ent.name # "ff"
      BY <3>1, Paths DEF FdMoves, FdRec
    <3> QED BY <1>4, <3>1, <3>2 DEF Apt
  <2> QED BY <2>1, Zenon DEF Minds
<1>6. Fresh(root, E, k, e)
  BY <1>4, Zenon DEF Fresh
<1>7. AllSurvive(b, G, root, f, P, X, g, Q, k, e, K, L)
  <2>1. ASSUME NEW p \in Files, L[p].ok, NEW s, NEW i, NEW h, HeldAt(f, P, X, K[p].len, p, s, i, h)
        PROVE  Survives(b, G, root, f, P, X, g, Q, k, e, p, s, i, h)
    <3>1. PICK len : len = K[p].len
      OBVIOUS
    <3>2. HeldAt(f, P, X, len, p, s, i, h) /\ p # q /\ p \notin Under(q)
      BY <2>1, <3>1
    <3>3. /\ s \notin G /\ h \notin G /\ ~(s = root /\ i = k)
          /\ root = ROOT /\ Len(p) # 1 =>
                 \A j : Entry(f, P, X, ROOT, j, p[1], s, TRUE) => j # k
      <4>1. Strikes(b, f, P, X, G, root, k, q)
        BY Zenon DEF Strikes
      <4>2. Remains(f, P, X, G, root, k, p, s, i, h)
        BY <3>2, <4>1, NotGone
      <4> QED BY <4>2, Zenon DEF Remains
    <3>4. h \in DOMAIN b /\ ~b[h].dir
      BY <3>2, HeldInDir
    <3>5. Untouched(f, P, g, Q, h)
      BY <1>3, <3>3, <3>4 DEF Turns
    <3>6. Name(p) # "ff" /\ p[1] # "ff"
      BY Paths
    <3>7. ASSUME NEW name, name # "ff", NEW j, j # k, NEW w, NEW v
          PROVE  Spells(E, F, k, e, j, name, v, w)
      BY <1>3, <1>4, <3>7 DEF Spells
    <3>8. s = root => Spells(E, F, k, e, i, Name(p), h, FALSE)
      <4>1. PICK w : w = FALSE
        OBVIOUS
      <4>2. i # k => Spells(E, F, k, e, i, Name(p), h, w)
        BY <3>6, <3>7
      <4> QED BY <3>3, <4>1, <4>2
    <3>9. ASSUME root = ROOT, Len(p) # 1, NEW j, Entry(f, P, X, ROOT, j, p[1], s, TRUE)
          PROVE  Spells(E, F, k, e, j, p[1], s, TRUE)
      <4>1. PICK w : w = TRUE
        OBVIOUS
      <4>2. j # k
        BY <3>3, <3>9
      <4>3. Spells(E, F, k, e, j, p[1], s, w)
        BY <3>6, <3>7, <4>2
      <4> QED BY <4>1, <4>3
    <3> QED BY <1>1, <3>3, <3>5, <3>8, <3>9, Zenon DEF Survives
  <2>2. \A p \in Files : L[p].ok => L[p] = K[p]
    OBVIOUS
  <2> QED BY <2>1, <2>2, Zenon DEF AllSurvive
<1>8. Gets(LoadDir(f, P, root), LoadDir(g, Q, root), k, e) /\ Fresh(root, LoadDir(f, P, root), k, e)
  BY <1>1, <1>3, <1>6
<1> QED BY <1>3, <1>5, <1>7, <1>8, TurnContent

\* minifs_delete
LEMMA DeleteContent ==
    ASSUME NEW b, Booked(b, fat, page, filefd), Content(fat, page, filefd, kept),
           NEW f \in Files, Delete(f), rule' = "kept"
    PROVE  Content(fat', page', filefd', kept')
<1>1. PICK L : L = kept'
  OBVIOUS
<1>2. /\ filefd' = filefd
      /\ L = [g \in Files |-> IF g \in Under(f) \cup {f} THEN Gone ELSE kept[g]]
  BY <1>1, Zenon DEF Delete
<1>3. KeptRec(L) /\ \A p \in Files : L[p].ok => p # f /\ p \notin Under(f) /\ L[p] = kept[p]
  <2>1. \A g \in Files : kept[g] = [len |-> kept[g].len, ok |-> kept[g].ok]
    BY Zenon DEF Content, KeptRec
  <2>2. Gone = [len |-> Gone.len, ok |-> Gone.ok] /\ ~Gone.ok
    BY DEF Gone
  <2>3. L = [g \in Files |-> L[g]]
    BY <1>2
  <2>4. ASSUME NEW g \in Files
        PROVE  L[g] = [len |-> L[g].len, ok |-> L[g].ok] /\ (L[g].ok => g # f /\ g \notin Under(f) /\ L[g] = kept[g])
    <3>1. L[g] = IF g \in Under(f) \cup {f} THEN Gone ELSE kept[g]
      BY <1>2
    <3>2. CASE g \in Under(f) \cup {f}
      <4>1. L[g] = Gone
        BY <3>1, <3>2
      <4> QED BY <2>2, <4>1
    <3>3. CASE g \notin Under(f) \cup {f}
      <4>1. L[g] = kept[g]
        BY <3>1, <3>3
      <4> QED BY <2>1, <3>3, <4>1
    <3> QED BY <3>2, <3>3
  <2> QED BY <2>3, <2>4, Zenon DEF KeptRec
<1>4. CASE fat' = fat /\ page' = page
  <2>1. \A s \in DOMAIN b : Untouched(fat, page, fat, page, s)
    BY Zenon DEF Untouched, Stays
  <2>2. Agree(fat, page, filefd)
    BY Zenon DEF Content
  <2>3. \A g \in Files : L[g].ok => \E r, i, h : HeldAt(fat, page, filefd, L[g].len, g, r, i, h)
    BY <1>3, Zenon DEF Content
  <2>4. Content(fat, page, filefd, L)
    BY <1>3, <2>2, <2>3, Zenon DEF Content
  <2> QED BY <1>1, <1>2, <1>4, <2>4
<1>5. ASSUME NEW G, NEW root, NEW k, NEW P1, Removes(b, f, G, root, k, P1)
      PROVE  Content(fat', page', filefd', kept')
  <2>1. /\ InDir(b, f, root) /\ k \in DOMAIN LoadDir(fat, page, root)
        /\ LoadDir(fat, page, root)[k].name = Name(f)
        /\ Goners(b, G, root, k) /\ Left(b, G, fat, fat') /\ LeftPages(b, G, fat, page, P1)
        /\ Shut(G, filefd) /\ Struck(fat', P1, root, k, LoadDir(fat, page, root), page')
    BY <1>5, Zenon DEF Removes
  <2>2. Content(fat', page', filefd, L)
    BY <1>3, <2>1, RemoveContent
  <2> QED BY <1>1, <1>2, <2>2
<1> QED BY <1>4, <1>5, DeleteIs

-----------------------------------------------------------------------------
(* Every behaviour, with what the files hold.                                *)

\* A disk that was formatted, while no file is open.
LEMMA FormatContent ==
    ASSUME NEW P, NEW X, P[ROOT] = Blank, \A d \in Fd : ~X[d].open, NEW K,
           K = [g \in Files |-> Gone]
    PROVE  Content(Formatted, P, X, K)
<1>1. PICK c : c = <<ROOT>>
  OBVIOUS
<1>2. c \in Seq(1 .. PAGES - 1) /\ Len(c) = 1 /\ c[1] = ROOT
  BY <1>1, FsConstants
<1>3. PICK f : f = Formatted
  OBVIOUS
<1>4. f[ROOT] = TAIL
  BY <1>3, FsConstants DEF Formatted
<1>5. Goes(f, c)
  BY <1>2, <1>4 DEF Goes
<1>6. Chain(f, ROOT) = c /\ Proper(f, ROOT)
  BY <1>2, <1>5, ProperIs
<1>7. \A i \in DOMAIN LoadDir(f, P, ROOT) : LoadDir(f, P, ROOT)[i] \in {NoEnt, ZeroEnt}
  BY <1>1, <1>6, BlankDir
<1>8. ~Used(NoEnt) /\ ~Used(ZeroEnt)
  BY DEF Used, NoEnt, ZeroEnt
<1>9. Once(LoadDir(f, P, ROOT))
  BY <1>7, <1>8 DEF Once
<1>10. Shared(X) /\ \A d \in Fd : ~Writer(X, d)
  BY DEF Shared, Writer
<1>11. Gone = [len |-> Gone.len, ok |-> Gone.ok] /\ ~Gone.ok
  BY DEF Gone
<1>12. KeptRec(K) /\ \A g \in Files : ~K[g].ok
  BY <1>11 DEF KeptRec
<1> QED BY <1>3, <1>9, <1>10, <1>12, Zenon DEF Content, Agree

\* The disk and the open files hold every file that must hold its cells, while
\* the programs keep the rule of sharing.
Held == rule = "kept" => Content(fat, page, filefd, kept)

\* A disk that was formatted holds no file that must hold cells.
LEMMA InitHeld == Init => Held
<1> SUFFICES ASSUME Init PROVE Held
  OBVIOUS
<1>1. /\ fat = Formatted /\ page = [p \in Page |-> Blank] /\ filefd = [d \in Fd |-> Closed]
      /\ kept = [g \in Files |-> Gone]
  BY Zenon DEF Init
<1>2. page[ROOT] = Blank
  BY <1>1, FsConstants
<1>3. ~Closed.open
  <2>1. PICK z : z = FALSE
    OBVIOUS
  <2>2. Closed = [open |-> z]
    BY <2>1, Zenon DEF Closed
  <2>3. Closed.open = z
    BY <2>2
  <2> QED BY <2>1, <2>3, Zenon
<1>4. \A d \in Fd : ~filefd[d].open
  <2>1. \A d \in Fd : filefd[d] = Closed
    BY <1>1
  <2> QED BY <1>3, <2>1, Zenon
<1>5. Content(Formatted, page, filefd, kept)
  BY <1>1, <1>2, <1>4, FormatContent
<1> QED BY <1>1, <1>5, Zenon DEF Held

\* minifs_open
LEMMA OpenContent ==
    ASSUME NEW b, Booked(b, fat, page, filefd), Content(fat, page, filefd, kept),
           NEW f \in Files, NEW opt, Open(f, opt), rule' = "kept"
    PROVE  Content(fat', page', filefd', kept')
<1>1. PICK root : root = GetNode(f)
  OBVIOUS
<1>2. /\ MayOpen(f, opt) /\ (opt = "dir") = (f \in Dirs)
      /\ \E d \in Fd :
            /\ ~filefd[d].open
            /\ \/ root # 0 /\ (OpenOld(d, f, opt, root) \/ Create(d, f, opt, root))
               \/ UNCHANGED <<fat, page, filefd, kept>>
  BY <1>1, MayOpenIs, Zenon DEF Open
<1>3. PICK d \in Fd : /\ ~filefd[d].open
                      /\ \/ root # 0 /\ (OpenOld(d, f, opt, root) \/ Create(d, f, opt, root))
                         \/ UNCHANGED <<fat, page, filefd, kept>>
  BY <1>2
<1>4. CASE root # 0 /\ OpenOld(d, f, opt, root)
  BY <1>1, <1>2, <1>3, <1>4, OpenOldContent
<1>5. CASE root # 0 /\ Create(d, f, opt, root)
  BY <1>1, <1>2, <1>3, <1>5, CreateContent
<1>6. CASE UNCHANGED <<fat, page, filefd, kept>>
  BY <1>6
<1> QED BY <1>3, <1>4, <1>5, <1>6

\* minifs_format
LEMMA FormatHolds ==
    ASSUME NEW b, Booked(b, fat, page, filefd), Format, rule' = "kept"
    PROVE  Content(fat', page', filefd', kept')
<1>1. /\ \A d \in Fd : ~filefd[d].open
      /\ fat' = Formatted /\ page' = [page EXCEPT ![ROOT] = Blank] /\ filefd' = filefd
      /\ kept' = [g \in Files |-> Gone]
  BY MayFormatIs, Zenon DEF Format
<1>2. page'[ROOT] = Blank
  <2>1. page = [p \in Page |-> page[p]]
    BY DEF Booked
  <2> QED BY <1>1, <2>1, FsConstants
<1>3. PICK Q, L : Q = page' /\ L = kept'
  OBVIOUS
<1>4. Content(Formatted, Q, filefd, L)
  <2>1. Q[ROOT] = Blank /\ L = [g \in Files |-> Gone]
    BY <1>1, <1>2, <1>3
  <2> QED BY <1>1, <2>1, FormatContent
<1> QED BY <1>1, <1>3, <1>4, Zenon

\* Every call.
LEMMA StepHeld == Ledger /\ Held /\ [Next]_vars => Held'
<1> SUFFICES ASSUME Ledger, Held, [Next]_vars, rule' = "kept"
             PROVE  Content(fat', page', filefd', kept')
  BY Zenon DEF Held
<1>1. PICK b : Booked(b, fat, page, filefd)
  BY RuleWas DEF Ledger
<1>2. Content(fat, page, filefd, kept)
  BY RuleWas, Zenon DEF Held
<1>3. ASSUME NEW d \in Fd, CallClosed(d) PROVE Content(fat', page', filefd', kept')
  BY <1>2, <1>3 DEF CallClosed
<1>4. ASSUME NEW f \in Files, Delete(f) PROVE Content(fat', page', filefd', kept')
  BY <1>1, <1>2, <1>4, DeleteContent
<1>5. ASSUME NEW f \in Files, NEW opt, Open(f, opt) PROVE Content(fat', page', filefd', kept')
  BY <1>1, <1>2, <1>5, OpenContent
<1>6. ASSUME NEW d \in Fd, Close(d) PROVE Content(fat', page', filefd', kept')
  BY <1>1, <1>2, <1>6, CloseContent
<1>7. ASSUME NEW d \in Fd, NEW n \in Lengths, Write(d, n) PROVE Content(fat', page', filefd', kept')
  BY <1>1, <1>2, <1>7, FsConstants, WriteContent
<1>8. ASSUME NEW d \in Fd, NEW n \in Lengths, Read(d, n) PROVE Content(fat', page', filefd', kept')
  BY <1>1, <1>2, <1>8, FsConstants, ReadContent
<1>9. ASSUME NEW d \in Fd, NEW to \in Places, Seek(d, to) PROVE Content(fat', page', filefd', kept')
  BY <1>1, <1>2, <1>9, FsConstants, SeekContent
<1>10. CASE Format
  BY <1>1, <1>10, FormatHolds
<1>11. CASE UNCHANGED vars
  BY <1>2, <1>11 DEF vars
<1> QED BY <1>3, <1>4, <1>5, <1>6, <1>7, <1>8, <1>9, <1>10, <1>11, Zenon DEF Next

\* A file that is held is read back.
LEMMA HeldBack == Ledger /\ Held => ReadBack
<1> SUFFICES ASSUME Ledger, Held, rule = "kept" PROVE ReadBack
  BY Zenon DEF ReadBack, Followed
<1>1. PICK b : Booked(b, fat, page, filefd)
  BY DEF Ledger
<1>2. ASSUME NEW f \in Files, kept[f].ok, ~Written(f)
      PROVE  LET root == GetNode(f)
                 ents == LoadDir(fat, page, root)
                 k == EntryOf(ents, Name(f))
                 c == Chain(fat, ents[k].fat)
             IN  /\ root # 0 /\ k # 0 /\ ents[k].size = kept[f].len
                 /\ \A j \in 0 .. kept[f].len - 1 :
                       /\ j \div PAGE < Len(c)
                       /\ page[c[j \div PAGE + 1]].cells[(j % PAGE) + 1] = <<f, j>>
  <2>1. PICK len : len = kept[f].len
    OBVIOUS
  <2>2. PICK r, i, h : HeldAt(fat, page, filefd, len, f, r, i, h)
    BY <1>2, <2>1, Zenon DEF Held, Content
  <2>3. /\ Home(fat, page, filefd, f, r) /\ Entry(fat, page, filefd, r, i, Name(f), h, FALSE)
        /\ Rests(fat, page, filefd, len, f, r, i, h)
    BY <2>2, Zenon DEF HeldAt
  <2>4. GetNode(f) = r /\ r # 0
    BY <1>1, <2>3, HomeNode
  <2>5. PICK E : E = LoadDir(fat, page, r)
    OBVIOUS
  <2>6. EntryOf(E, Name(f)) = i /\ i # 0 /\ E[i].fat = h
    <3>1. Sole(E, i, Name(f)) /\ E[i].fat = h
      BY <2>3, <2>5, Zenon DEF Entry
    <3>2. PICK name : name = Name(f)
      OBVIOUS
    <3>3. Sole(LoadDir(fat, page, r), i, name)
      BY <2>5, <3>1, <3>2
    <3>4. EntryOf(LoadDir(fat, page, r), name) = i /\ i # 0
      BY <3>3, SoleIs
    <3> QED BY <2>5, <3>1, <3>2, <3>4
  <2>7. E[i].size = len /\ On(fat, page, h, f, len)
    <3>1. \A d \in Fd : filefd[d].open /\ filefd[d].path = f => filefd[d].opt = "read"
      BY <1>2 DEF Written, OpenOn
    <3> QED BY <2>3, <2>5, <3>1, Zenon DEF Rests
  <2>8. PICK c : c = Chain(fat, h)
    OBVIOUS
  <2>9. \A j \in 0 .. len - 1 :
            /\ j \div PAGE < Len(c)
            /\ page[c[j \div PAGE + 1]].cells[(j % PAGE) + 1] = <<f, j>>
    BY <2>7, <2>8, Zenon DEF On, OnDisk
  <2> QED BY <2>1, <2>4, <2>5, <2>6, <2>7, <2>8, <2>9, Zenon
<1> QED BY <1>2, Zenon DEF ReadBack

\* An open file of a path that is held shows it.
LEMMA HeldTrue == Ledger /\ Held => CacheTrue
<1> SUFFICES ASSUME Ledger, Held, rule = "kept" PROVE CacheTrue
  BY Zenon DEF CacheTrue, Followed
<1>1. PICK b : Booked(b, fat, page, filefd)
  BY DEF Ledger
<1>2. ASSUME NEW d \in Fd, NEW x, x = filefd[d], x.open, kept[x.path].ok, x.off % PAGE = 0
      PROVE  \A j \in 0 .. CACHE - 1 : x.off + j < x.ent.size => x.cache[j] = <<x.path, x.off + j>>
  <2>1. FdMoves(b, x)
    BY <1>1, <1>2 DEF Booked, FdOK
  <2>2. PICK g \in Files : g = x.path
    BY <2>1 DEF FdMoves, FdRec
  <2>3. PICK len : len = kept[g].len
    OBVIOUS
  <2>4. PICK r, i, h : HeldAt(fat, page, filefd, len, g, r, i, h)
    BY <1>2, <2>2, <2>3, Zenon DEF Held, Content
  <2>5. IF x.opt = "read" THEN Shows(x, g) ELSE Fit(fat, page, x, g)
    BY <1>2, <2>2, <2>4, Zenon DEF HeldAt, Views
  <2>6. CASE x.opt = "read"
    BY <1>2, <2>2, <2>5, <2>6 DEF Shows
  <2>7. CASE x.opt # "read"
    <3>1. PICK off \in Nat : off = x.off
      BY <2>1 DEF FdMoves, FdRec
    <3>2. PICK size \in Nat : size = x.ent.size
      BY <2>1, OfFd
    <3>3. \A j \in 0 .. size - 1 : Kept(fat, page, x, g, j)
      BY <2>5, <2>7, <3>2 DEF Fit
    <3>4. ASSUME NEW j \in 0 .. CACHE - 1, off + j < size PROVE x.cache[j] = <<g, off + j>>
      <4>1. off + j \in 0 .. size - 1 /\ off <= off + j /\ off + j < off + CACHE /\ (off + j) - off = j
        BY <3>4, FsConstants
      <4>2. Kept(fat, page, x, g, off + j)
        BY <3>3, <4>1
      <4>3. x.cache[(off + j) - off] = <<g, off + j>>
        BY <3>1, <4>1, <4>2 DEF Kept
      <4> QED BY <4>1, <4>3
    <3> QED BY <2>2, <3>1, <3>2, <3>4
  <2> QED BY <2>6, <2>7
<1> QED BY <1>2, Zenon DEF CacheTrue

\* What was written is read back: a file that must hold its cells, and that no
\* open file writes, is found by get_node and getfat under its path, has its
\* length, and each cell is in the page of its chain where minifs_read will look
\* for it, after any calls of minifs_open, _write, _read, _seek, _close, _delete
\* and minifs_format by programs that keep the rule of sharing.
THEOREM ContentsCorrect == Spec => []ReadBack
<1>1. Spec => [](Ledger /\ Held)
  BY InitBooked, InitHeld, StepBooked, StepHeld, PTL DEF Spec
<1> QED BY <1>1, HeldBack, PTL

\* An open file shows its own cells: the cache of every open file of a path that
\* must hold its cells, while its window begins with a page, has the cells of
\* that file at the places from off on, up to the size of its entry, while the
\* programs keep the rule of sharing.
THEOREM CacheCorrect == Spec => []CacheTrue
<1>1. Spec => [](Ledger /\ Held)
  BY InitBooked, InitHeld, StepBooked, StepHeld, PTL DEF Spec
<1> QED BY <1>1, HeldTrue, PTL

=============================================================================
