--------------------------- MODULE ProcMemProofs ---------------------------
(***************************************************************************)
(* Who owns which memory of MES, for any memory, any number of tasks and   *)
(* segments and all sizes.                                                 *)
(***************************************************************************)
EXTENDS ProcMem, TLAPS

Ids == PIDS \cup {SuperPID}
FREE == H!FREE
CONT == H!CONT
Sec == H!Sec

-----------------------------------------------------------------------------
(* A table m and the lines of a ledger L that say the same of it. *)

Table(m) ==
    /\ m \in [Sec -> {FREE, CONT} \cup Ids]
    /\ \A i \in Sec : m[i] = CONT => i - 1 \in Sec /\ m[i - 1] # FREE

\* A line is true of a table.
Tells(m, l) ==
    /\ l.at \in Sec /\ l.len \in Nat \ {0} /\ l.id \in Ids
    /\ m[l.at] = l.id
    /\ H!Run(m, l.at) = l.at .. l.at + l.len - 1

Told(m, L) ==
    /\ Table(m)
    /\ \A l \in L : Tells(m, l)
    /\ H!Heads(m) = {l.at : l \in L}
    /\ \A l, k \in L : l.at = k.at => l = k

LEMMA DivNat == ASSUME NEW a \in Nat, NEW b \in Nat \ {0} PROVE a \div b \in Nat /\ a % b \in Nat
  OBVIOUS

\* The pids of user tasks are neither the kernel's nor the marks of the table.
LEMMA PidsApart ==
    \A pid \in PIDS : pid \in Ids /\ pid # SuperPID /\ pid # 0 /\ pid # 65535
<1>1. MAX_PID \in Nat /\ MAX_TASK \in Nat /\ MAX_PID + MAX_TASK < 65535
  BY PidAssumption, ProcMemAssumption
<1>2. \A pid \in PIDS : pid # 1 /\ pid # 0 /\ pid # 65535
  BY ONLY <1>1 DEF PIDS
<1> QED BY ONLY <1>2 DEF Ids, SuperPID

LEMMA MemoryConstants ==
    /\ FREE # CONT /\ H!FREE = FREE /\ H!CONT = CONT
    /\ H!SecEnd \in Nat /\ H!SecStart \in Nat /\ H!SecStart > 0
    /\ Sec = H!SecStart .. H!SecEnd - 1 /\ Sec \subseteq Nat /\ H!Sec = Sec
    /\ FREE \notin Ids /\ CONT \notin Ids
<1>1. MEMSIZE \in Nat /\ SECSIZE \in Nat \ {0} /\ SECSIZE * SECSIZE \in Nat \ {0} /\ 2 * MEMSIZE \in Nat
  BY ProcMemAssumption
<1>2. H!SecEnd \in Nat
  BY <1>1, DivNat DEF H!SecEnd
<1>3. (2 * MEMSIZE) \div (SECSIZE * SECSIZE) \in Nat
  BY <1>1, DivNat
<1>4. H!SecStart \in Nat /\ H!SecStart > 0
  BY <1>3 DEF H!SecStart
<1>5. 0 \notin Ids /\ 65535 \notin Ids
  BY ONLY PidsApart DEF Ids, SuperPID
<1> QED BY <1>2, <1>4, <1>5 DEF FREE, CONT, H!FREE, H!CONT, Sec, H!Sec

LEMMA SizeConstants ==
    /\ Keys \subseteq Nat /\ ShmSizes \subseteq Nat /\ KernelSize \in Nat \ {0}
    /\ ProgSizes \subseteq Nat \ {0} /\ StackSizes \subseteq Nat \ {0} /\ DataSizes \subseteq Nat
    /\ SuperPID \in Ids /\ PIDS \subseteq Ids
<1>1. ProgSizes \cup StackSizes \cup {KernelSize} \subseteq Nat \ {0} /\ DataSizes \subseteq Nat
  BY ProcMemAssumption
<1>2. Keys \subseteq Nat /\ ShmSizes \subseteq Nat
  BY ProcMemAssumption
<1>3. SuperPID \in Ids /\ PIDS \subseteq Ids
  BY DEF Ids
<1> QED BY <1>1, <1>2, <1>3, Zenon

\* Memory for at least one byte takes a section.
LEMMA CountPositive == ASSUME NEW n \in Nat \ {0} PROVE H!Count(n) \in Nat \ {0}
<1> DEFINE q == n \div SECSIZE
           r == n % SECSIZE
<1>1. SECSIZE \in Nat \ {0}
  BY ProcMemAssumption
<1>2. q \in Nat /\ r \in Nat /\ n = q * SECSIZE + r
  BY <1>1
<1>3. H!Count(n) = q + IF r > 0 THEN 1 ELSE 0
  BY DEF H!Count
<1> HIDE DEF q, r
<1>4. q = 0 => r > 0
  BY <1>1, <1>2
<1> QED BY <1>2, <1>3, <1>4

LEMMA Apart ==
    ASSUME NEW m, NEW i \in H!Heads(m), NEW d \in H!Heads(m), i # d
    PROVE  H!Run(m, i) \cap H!Run(m, d) = {}
<1>1. i \in Sec /\ d \in Sec /\ m[i] # CONT /\ m[d] # CONT
  BY MemoryConstants DEF H!Heads
<1>2. \A k \in H!Run(m, i) \cap H!Run(m, d) : FALSE
  BY <1>1, MemoryConstants DEF H!Run
<1> QED BY <1>2

LEMMA InRun == ASSUME NEW m, NEW i \in Sec PROVE i \in H!Run(m, i)
  BY MemoryConstants DEF H!Run

\* A block keeps its sections when its CONT entries stay and no new one comes
\* behind it.
LEMMA RunStays ==
    ASSUME NEW m, NEW n, NEW i \in Sec,
           \A j \in H!Run(m, i) : j # i => n[j] = CONT,
           \A j \in H!Run(n, i) : j # i => m[j] = CONT
    PROVE  H!Run(n, i) = H!Run(m, i)
<1>1. ASSUME NEW x, NEW y, \A j \in H!Run(x, i) : j # i => y[j] = CONT, NEW j \in H!Run(x, i)
      PROVE  j \in H!Run(y, i)
  <2>1. j \in Sec /\ i <= j /\ \A k \in i + 1 .. j : x[k] = CONT
    BY MemoryConstants DEF H!Run
  <2>2. ASSUME NEW k \in i + 1 .. j PROVE y[k] = CONT
    <3>1. k \in Sec /\ i <= k /\ k # i
      BY <2>1, MemoryConstants
    <3>2. k \in H!Run(x, i)
      BY <2>1, <3>1, MemoryConstants DEF H!Run
    <3> QED BY <1>1, <3>1, <3>2
  <2> QED BY <2>1, <2>2, MemoryConstants DEF H!Run
<1> QED BY <1>1

\* alloc_mem: one more block, of free sections.
LEMMA TakenTable ==
    ASSUME NEW m, Table(m), NEW a \in Sec, NEW c \in Nat \ {0}, NEW id \in Ids, H!Fits(m, a, c),
           NEW t, t = H!Taken(m, id, a, c)
    PROVE  /\ Table(t) /\ H!Heads(t) = H!Heads(m) \cup {a}
           /\ \A i \in H!Heads(m) : t[i] = m[i] /\ H!Run(t, i) = H!Run(m, i) /\ i # a
           /\ t[a] = id /\ H!Run(t, a) = a .. a + c - 1
<1> USE MemoryConstants
<1>1. a + c - 1 \in Sec /\ \A i \in a .. a + c - 1 : m[i] = FREE
  BY DEF H!Fits
<1>2. /\ t = [i \in Sec |-> t[i]]
      /\ \A i \in Sec : t[i] = IF i = a THEN id ELSE IF i > a /\ i < a + c THEN CONT ELSE m[i]
  BY DEF H!Taken
<1>3. a \in Nat /\ c \in Nat \ {0} /\ a .. a + c - 1 \subseteq Sec
  BY <1>1
<1>4. /\ \A i \in Sec : m[i] = CONT => i - 1 \in Sec /\ m[i - 1] # FREE
      /\ \A i \in Sec : m[i] \in {FREE, CONT} \cup Ids
  BY DEF Table
<1>5. H!Heads(t) = H!Heads(m) \cup {a}
  <2>1. \A i \in Sec : t[i] \notin {FREE, CONT} <=> m[i] \notin {FREE, CONT} \/ i = a
    BY <1>1, <1>2, <1>3
  <2> QED BY <2>1 DEF H!Heads
<1>6. ASSUME NEW i \in H!Heads(m) PROVE t[i] = m[i] /\ H!Run(t, i) = H!Run(m, i) /\ i # a
  <2>1. i \in Sec /\ m[i] # FREE /\ m[i] # CONT /\ i \in Nat
    BY DEF H!Heads
  <2>2. i \notin a .. a + c - 1 /\ t[i] = m[i] /\ i # a
    BY <1>1, <1>2, <1>3, <2>1
  <2>3. ASSUME NEW j \in H!Run(m, i), j # i PROVE t[j] = CONT
    <3>1. j \in Sec /\ j \in i + 1 .. j /\ m[j] = CONT
      BY <2>1, <2>3 DEF H!Run
    <3> QED BY <1>1, <1>2, <1>3, <3>1
  <2>4. ASSUME NEW j \in H!Run(t, i), j # i PROVE m[j] = CONT
    <3>1. j \in Sec /\ i < j /\ \A k \in i + 1 .. j : t[k] = CONT
      BY <2>1, <2>4 DEF H!Run
    <3>2. t[a] # CONT
      BY <1>1, <1>2, <1>3
    <3>3. ~ (i < a /\ a <= j)
      BY <3>1, <3>2, <1>3, <2>1
    <3>4. t[j] = CONT
      BY <3>1, <2>1
    <3> QED BY <1>2, <2>1, <2>2, <3>1, <3>3, <3>4, <1>3
  <2>5. H!Run(t, i) = H!Run(m, i)
    BY <2>1, <2>3, <2>4, RunStays
  <2> QED BY <2>2, <2>5
<1>7. H!Run(t, a) = a .. a + c - 1
  <2>1. ASSUME NEW j \in a .. a + c - 1 PROVE j \in H!Run(t, a)
    BY <1>2, <1>3 DEF H!Run
  <2>2. ASSUME NEW j \in H!Run(t, a), j \notin a .. a + c - 1 PROVE FALSE
    <3>1. j \in Sec /\ a <= j /\ \A k \in a + 1 .. j : t[k] = CONT
      BY <2>2 DEF H!Run
    <3>2. a + c \in a + 1 .. j /\ a + c \in Sec
      BY <1>1, <1>3, <2>2, <3>1
    <3>3. m[a + c] = CONT
      <4>1. a + c # a /\ ~ (a + c < a + c) /\ a + c \in Nat
        BY <1>3
      <4>2. t[a + c] = m[a + c] /\ t[a + c] = CONT
        BY <1>2, <3>1, <3>2, <4>1
      <4> QED BY <4>2
    <3>4. m[a + c - 1] # FREE
      <4>1. a + c - 1 = (a + c) - 1
        BY <1>3
      <4> QED BY <1>4, <3>2, <3>3, <4>1
    <3> QED BY <1>1, <1>3, <3>4
  <2>3. a .. a + c - 1 \subseteq H!Run(t, a)
    BY <2>1
  <2>4. H!Run(t, a) \subseteq a .. a + c - 1
    BY ONLY <2>2
  <2> QED BY ONLY <2>3, <2>4
<1>8. Table(t)
  <2>1. \A i \in Sec : t[i] \in {FREE, CONT} \cup Ids
    BY <1>2, <1>4
  <2>2. ASSUME NEW i \in Sec, t[i] = CONT PROVE i - 1 \in Sec /\ t[i - 1] # FREE
    <3>1. CASE i > a /\ i < a + c
      BY <1>1, <1>2, <1>3, <3>1
    <3>2. CASE ~ (i > a /\ i < a + c)
      <4>1. i # a /\ m[i] = CONT
        BY <1>2, <1>3, <2>2, <3>2
      <4>2. i - 1 \in Sec /\ m[i - 1] # FREE
        BY <1>4, <4>1
      <4>3. t[i - 1] = m[i - 1] \/ t[i - 1] = id \/ t[i - 1] = CONT
        BY <1>2, <4>2
      <4> QED BY <1>3, <4>2, <4>3
    <3> QED BY <3>1, <3>2
  <2> QED BY <1>2, <2>1, <2>2 DEF Table
<1> QED BY <1>2, <1>5, <1>6, <1>7, <1>8

\* alloc_mem: one more line.
LEMMA TakenTold ==
    ASSUME NEW m, NEW L, Told(m, L), NEW a \in Sec, NEW c \in Nat \ {0}, NEW id \in Ids,
           H!Fits(m, a, c), NEW new, new.at = a, new.len = c, new.id = id
    PROVE  Told(H!Taken(m, id, a, c), L \cup {new})
<1> DEFINE t == H!Taken(m, id, a, c)
<1>1. /\ Table(t) /\ H!Heads(t) = H!Heads(m) \cup {a}
      /\ \A i \in H!Heads(m) : t[i] = m[i] /\ H!Run(t, i) = H!Run(m, i) /\ i # a
      /\ t[a] = id /\ H!Run(t, a) = a .. a + c - 1
  BY TakenTable DEF Told
<1> HIDE DEF t
<1>2. /\ \A l \in L : Tells(m, l) /\ l.at \in H!Heads(m)
      /\ H!Heads(m) = {l.at : l \in L}
      /\ \A l, k \in L : l.at = k.at => l = k
  BY DEF Told
<1>3. ASSUME NEW l \in L PROVE Tells(t, l) /\ l.at # a
  BY <1>1, <1>2 DEF Tells
<1>4. Tells(t, new)
  BY <1>1 DEF Tells
<1>5. H!Heads(t) = {l.at : l \in L \cup {new}}
  BY <1>1, <1>2
<1>6. \A l, k \in L \cup {new} : l.at = k.at => l = k
  BY <1>2, <1>3
<1>7. \A l \in L \cup {new} : Tells(t, l)
  BY <1>3, <1>4
<1> QED BY <1>1, <1>5, <1>6, <1>7 DEF Told, t

\* A block of the table is a line of the ledger.
LEMMA LineAt ==
    ASSUME NEW m, NEW L, Told(m, L), NEW d \in Sec, m[d] \in Ids
    PROVE  d \in H!Heads(m) /\ \E l \in L : l.at = d /\ l.id = m[d]
<1>1. d \in H!Heads(m)
  BY MemoryConstants DEF H!Heads
<1>2. \A l \in L : m[l.at] = l.id
  BY DEF Told, Tells
<1> QED BY <1>1, <1>2 DEF Told

\* When some blocks are freed, the table of the others stays: D are the
\* sections where the freed blocks begin.
LEMMA ReleasedTold ==
    ASSUME NEW m, NEW L, Told(m, L), NEW D \in SUBSET H!Heads(m),
           NEW t, t = [j \in Sec |-> IF \E d \in D : j \in H!Run(m, d) THEN FREE ELSE m[j]]
    PROVE  Told(t, {l \in L : l.at \notin D})
<1> USE MemoryConstants
<1>1. \A j \in Sec : t[j] = IF \E d \in D : j \in H!Run(m, d) THEN FREE ELSE m[j]
  OBVIOUS
<1>2. /\ t = [j \in Sec |-> t[j]]
      /\ \A i \in Sec : m[i] = CONT => i - 1 \in Sec /\ m[i - 1] # FREE
      /\ \A i \in Sec : m[i] \in {FREE, CONT} \cup Ids
  BY <1>1 DEF Told, Table
<1>3. \A i \in H!Heads(m) : i \in Sec /\ i \in H!Run(m, i) /\ m[i] # FREE /\ m[i] # CONT
  BY InRun DEF H!Heads
<1>4. ASSUME NEW i \in H!Heads(m) \ D, NEW j \in H!Run(m, i) PROVE j \in Sec /\ t[j] = m[j]
  <2>1. j \in Sec
    BY DEF H!Run
  <2>2. \A d \in D : j \notin H!Run(m, d)
    BY <1>4, Apart
  <2> QED BY <1>1, <2>1, <2>2
<1>5. \A i \in D : t[i] = FREE
  BY <1>1, <1>3
<1>6. H!Heads(t) = H!Heads(m) \ D
  <2>1. ASSUME NEW i \in Sec PROVE t[i] \notin {FREE, CONT} <=> i \in H!Heads(m) \ D
    <3>1. CASE i \in H!Heads(m) \ D
      BY <1>3, <1>4, <3>1
    <3>2. CASE i \in D
      BY <1>5, <3>2
    <3>3. CASE i \notin H!Heads(m)
      <4>1. m[i] \in {FREE, CONT}
        BY <3>3 DEF H!Heads
      <4> QED BY <1>1, <3>3, <4>1
    <3> QED BY <3>1, <3>2, <3>3
  <2>2. H!Heads(t) = {i \in Sec : t[i] \notin {FREE, CONT}}
    BY DEF H!Heads
  <2> QED BY <1>3, <2>1, <2>2
<1>7. ASSUME NEW i \in H!Heads(m) \ D PROVE t[i] = m[i] /\ H!Run(t, i) = H!Run(m, i)
  <2>1. t[i] = m[i] /\ i \in Sec
    BY <1>3, <1>4
  <2>2. ASSUME NEW j \in H!Run(m, i), j # i PROVE t[j] = CONT
    <3>1. j \in Sec /\ i <= j /\ m[j] = CONT
      BY <2>1, <2>2 DEF H!Run
    <3> QED BY <1>4, <3>1
  <2>3. ASSUME NEW j \in H!Run(t, i), j # i PROVE m[j] = CONT
    <3>1. j \in Sec /\ i <= j /\ t[j] = CONT
      BY <2>1, <2>3 DEF H!Run
    <3> QED BY <1>1, <3>1
  <2> QED BY ONLY <2>1, <2>2, <2>3, RunStays
<1>8. Table(t)
  <2>1. \A i \in Sec : t[i] \in {FREE, CONT} \cup Ids
    BY <1>1, <1>2
  <2>2. ASSUME NEW i \in Sec, t[i] = CONT PROVE i - 1 \in Sec /\ t[i - 1] # FREE
    <3>1. m[i] = CONT /\ \A d \in D : i \notin H!Run(m, d)
      BY <1>1, <2>2
    <3>2. i - 1 \in Sec /\ m[i - 1] # FREE
      BY <1>2, <3>1
    <3>3. \A d \in D : i - 1 \notin H!Run(m, d)
      <4> SUFFICES ASSUME NEW d \in D, i - 1 \in H!Run(m, d) PROVE FALSE
        OBVIOUS
      <4>1. d \in Sec /\ d <= i - 1 /\ \A k \in d + 1 .. i - 1 : m[k] = CONT
        BY <1>3 DEF H!Run
      <4>2. \A k \in d + 1 .. i : k \in d + 1 .. i - 1 \/ k = i
        BY <4>1
      <4>3. i \in H!Run(m, d)
        BY <3>1, <4>1, <4>2 DEF H!Run
      <4> QED BY <3>1, <4>3
    <3> QED BY <1>1, <3>2, <3>3
  <2> QED BY <1>2, <2>1, <2>2 DEF Table
<1> DEFINE K == {l \in L : l.at \notin D}
<1>9. /\ \A l \in L : Tells(m, l) /\ l.at \in H!Heads(m)
      /\ H!Heads(m) = {l.at : l \in L}
      /\ \A l, k \in L : l.at = k.at => l = k
  BY DEF Told
<1>10. ASSUME NEW l \in K PROVE Tells(t, l)
  BY <1>7, <1>9 DEF Tells
<1>11. H!Heads(t) = {l.at : l \in K}
  BY <1>6, <1>9
<1> QED BY <1>8, <1>9, <1>10, <1>11 DEF Told

\* free_mem: the line of the block goes.
LEMMA FreedTold ==
    ASSUME NEW m, NEW L, Told(m, L), NEW d \in Sec, m[d] \in Ids
    PROVE  Told(H!Freed(m, d), {l \in L : l.at # d})
<1> DEFINE D == {d}
<1>1. D \in SUBSET H!Heads(m)
  BY LineAt
<1>2. H!Freed(m, d) = [j \in Sec |-> IF \E x \in D : j \in H!Run(m, x) THEN FREE ELSE m[j]]
  BY MemoryConstants DEF H!Freed
<1>3. {l \in L : l.at # d} = {l \in L : l.at \notin D}
  OBVIOUS
<1> HIDE DEF D
<1> QED BY <1>1, <1>2, <1>3, ReleasedTold

\* free_idmem: all lines of the id go.
LEMMA FreedIdTold ==
    ASSUME NEW m, NEW L, Told(m, L), NEW id \in Ids
    PROVE  Told(H!FreedId(m, id), {l \in L : l.id # id})
<1> DEFINE D == {i \in Sec : m[i] = id}
<1>1. D \in SUBSET H!Heads(m)
  BY LineAt
<1>2. H!FreedId(m, id) = [j \in Sec |-> IF \E x \in D : j \in H!Run(m, x) THEN FREE ELSE m[j]]
  BY MemoryConstants DEF H!FreedId
<1>3. \A l \in L : m[l.at] = l.id /\ l.at \in Sec
  BY DEF Told, Tells
<1>4. {l \in L : l.id # id} = {l \in L : l.at \notin D}
  BY <1>3
<1> HIDE DEF D
<1> QED BY <1>1, <1>2, <1>4, ReleasedTold

\* change_id_mem: the line gets another id.
LEMMA HandedTold ==
    ASSUME NEW m, NEW L, NEW l, Told(m, L \cup {l}), \A k \in L : k.at # l.at,
           NEW new, new.at = l.at, new.len = l.len, new.id \in Ids
    PROVE  Told([m EXCEPT ![l.at] = new.id], L \cup {new})
<1> DEFINE d == l.at
           id == new.id
           t == [m EXCEPT ![d] = id]
<1> USE MemoryConstants
<1>1. /\ Table(m) /\ H!Heads(m) = {k.at : k \in L} \cup {d}
      /\ \A k \in L \cup {l} : Tells(m, k)
      /\ \A k, j \in L : k.at = j.at => k = j
  BY DEF Told
<1>2. d \in Sec /\ d \in H!Heads(m) /\ id \in Ids
  BY <1>1 DEF Tells
<1> HIDE DEF id
<1>3. /\ \A i \in Sec : t[i] = IF i = d THEN id ELSE m[i]
      /\ t = [i \in Sec |-> t[i]]
  BY <1>1, <1>2 DEF Table
<1> HIDE DEF t, d
<1>4. \A i \in Sec : t[i] = CONT <=> m[i] = CONT
  BY <1>2, <1>3 DEF H!Heads
<1>5. \A i \in Sec : t[i] = FREE <=> m[i] = FREE
  BY <1>2, <1>3 DEF H!Heads
<1>6. H!Heads(t) = H!Heads(m)
  BY <1>4, <1>5 DEF H!Heads
<1>7. Table(t)
  BY <1>1, <1>2, <1>3, <1>4, <1>5 DEF Table
<1>8. ASSUME NEW i \in Sec PROVE H!Run(t, i) = H!Run(m, i)
  <2>1. \A j \in H!Run(m, i) : j # i => t[j] = CONT
    <3> SUFFICES ASSUME NEW j \in H!Run(m, i), j # i PROVE t[j] = CONT
      OBVIOUS
    <3>1. j \in Sec /\ m[j] = CONT
      BY DEF H!Run
    <3> QED BY <1>4, <3>1
  <2>2. \A j \in H!Run(t, i) : j # i => m[j] = CONT
    <3> SUFFICES ASSUME NEW j \in H!Run(t, i), j # i PROVE m[j] = CONT
      OBVIOUS
    <3>1. j \in Sec /\ t[j] = CONT
      BY DEF H!Run
    <3> QED BY <1>4, <3>1
  <2> QED BY <2>1, <2>2, RunStays
<1>9. ASSUME NEW k \in L PROVE Tells(t, k) /\ k.at # d
  BY <1>1, <1>3, <1>8 DEF Tells, d
<1>10. Tells(t, new)
  BY <1>1, <1>2, <1>3, <1>8 DEF Tells, d, id
<1>11. H!Heads(t) = {k.at : k \in L \cup {new}}
  BY <1>1, <1>6 DEF d
<1>12. \A k, j \in L \cup {new} : k.at = j.at => k = j
  BY <1>1, <1>9 DEF d
<1>13. \A k \in L \cup {new} : Tells(t, k)
  BY <1>9, <1>10
<1> QED BY <1>7, <1>11, <1>12, <1>13 DEF Told, t, d, id

-----------------------------------------------------------------------------
(* The requests. *)

\* The segments and the lines of their memory.
Shares(sh, L) ==
    /\ sh \in [Entry -> [key : Nat, size : Nat, ptr : Nat]]
    /\ \A i \in Entry : sh[i].ptr # 0 =>
          sh[i].size # 0 /\ Line(SuperPID, sh[i].ptr, sh[i].size, "shm") \in L
    /\ \A i, j \in Entry : i # j /\ sh[i].ptr # 0 => sh[i].ptr # sh[j].ptr
    /\ \A l \in L : l.use = "shm" => l.id = SuperPID /\ \E i \in Entry : sh[i].ptr = l.at
    /\ \A i, j \in Entry : i # j /\ sh[i].key = sh[j].key => sh[i].key = 0

MInv == Told(mat, ledger) /\ Shares(sharemem, ledger)

\* Nothing is claimed any more once two tasks got the same pid or one asked
\* for 0 bytes.
Unspoilt == ~ spoilt => MInv

\* Where alloc_mem finds room all sections are free.
LEMMA WhereFits ==
    ASSUME NEW m, NEW n \in Nat \ {0}, Where(m, n) # 0
    PROVE  /\ Where(m, n) \in Sec /\ H!Count(n) \in Nat \ {0}
           /\ H!Fits(m, Where(m, n), H!Count(n)) /\ m[Where(m, n)] = FREE
<1> DEFINE c == H!Count(n)
           a == Where(m, n)
<1>1. c \in Nat \ {0}
  BY CountPositive
<1> HIDE DEF c
<1>2. a \in H!Sec /\ H!Place(m, a, c)
  BY DEF Where, c
<1> HIDE DEF a
<1>3. H!Fits(m, a, c)
  BY <1>2 DEF H!Place
<1>4. a \in a .. a + c - 1
  BY <1>1, <1>2, MemoryConstants
<1>5. m[a] = FREE
  BY <1>3, <1>4, MemoryConstants DEF H!Fits
<1> QED BY <1>1, <1>2, <1>3, <1>5, MemoryConstants DEF a, c

\* The memory that alloc_mem hands out.
LEMMA WithTold ==
    ASSUME NEW m, NEW L, Told(m, L), NEW n \in Nat \ {0}, Where(m, n) # 0, NEW id \in Ids, NEW use
    PROVE  /\ Told(With(m, id, Where(m, n), n), L \cup {Line(id, Where(m, n), n, use)})
           /\ \A l \in L : l.at # Where(m, n)
<1> DEFINE a == Where(m, n)
           c == H!Count(n)
           new == Line(id, a, n, use)
<1>1. a \in Sec /\ c \in Nat \ {0} /\ H!Fits(m, a, c) /\ m[a] = FREE
  BY WhereFits
<1>2. new.at = a /\ new.len = c /\ new.id = id
  BY DEF Line
<1> HIDE DEF a, c, new
<1>3. Told(H!Taken(m, id, a, c), L \cup {new})
  BY <1>1, <1>2, TakenTold
<1>4. \A l \in L : l.at # a
  BY <1>1, MemoryConstants DEF Told, Tells
<1> QED BY <1>3, <1>4 DEF With, a, c, new

\* Requests that leave the segments and their lines alone.
LEMMA SharesKept ==
    ASSUME NEW sh, NEW L, NEW K, Shares(sh, L),
           \A l \in L : l.use = "shm" => l \in K, \A l \in K : l.use = "shm" => l \in L
    PROVE  Shares(sh, K)
<1>1. \A i, a, n : Line(i, a, n, "shm").use = "shm"
  BY DEF Line
<1> QED BY <1>1 DEF Shares

LEMMA ExecKeeps == ASSUME MInv, NEW n \in ProgSizes, NEW k \in StackSizes, Exec(n, k) PROVE MInv'
<1> DEFINE a == Where(mat, n)
           m == With(mat, SuperPID, a, n)
<1>1. n \in Nat \ {0} /\ k \in Nat \ {0} /\ SuperPID \in Ids /\ PIDS \subseteq Ids
  BY ONLY SizeConstants, n \in ProgSizes, k \in StackSizes
<1>2. a # 0 /\ sharemem' = sharemem /\ (AttachFails(m, a, n, k) \/ AttachRuns(m, a, n, k))
  BY DEF Exec
<1>3. \A use : Told(m, ledger \cup {Line(SuperPID, a, n, use)}) /\ \A l \in ledger : l.at # a
  BY <1>1, <1>2, WithTold DEF MInv
<1>4. \A i, x, y, use : Line(i, x, y, use).use = use
  BY DEF Line
<1> HIDE DEF a, m
<1>5. CASE AttachFails(m, a, n, k)
  <2> DEFINE new == Line(SuperPID, a, n, "lost")
  <2>1. mat' = m /\ ledger' = ledger \cup {new}
    BY <1>5 DEF AttachFails
  <2>2. new.use # "shm"
    BY <1>4
  <2>3. Told(mat', ledger')
    BY <1>3, <2>1
  <2> HIDE DEF new
  <2>4. Shares(sharemem', ledger')
    BY <1>2, <2>1, <2>2, SharesKept DEF MInv
  <2> QED BY <2>3, <2>4 DEF MInv
<1>6. CASE AttachRuns(m, a, n, k)
  <2> DEFINE s == Where(m, k)
  <2>1. s # 0
    BY <1>6 DEF AttachRuns
  <2>2. PICK pid \in PIDS :
          /\ mat' = Handed(With(m, pid, s, k), pid, a)
          /\ ledger' = ledger \cup {Line(pid, a, n, "program"), Line(pid, s, k, "stack")}
    BY <1>6 DEF AttachRuns
  <2> DEFINE old == Line(SuperPID, a, n, "lost")
             prog == Line(pid, a, n, "program")
             stack == Line(pid, s, k, "stack")
             t == With(m, pid, s, k)
  <2>3. Told(t, (ledger \cup {old}) \cup {stack}) /\ \A l \in ledger \cup {old} : l.at # s
    BY <1>1, <1>3, <2>1, WithTold
  <2>4. /\ old.at = a /\ old.id = SuperPID /\ prog.at = old.at /\ prog.len = old.len /\ prog.id = pid
        /\ stack.at = s /\ prog.use # "shm" /\ stack.use # "shm"
    BY DEF Line
  <2> HIDE DEF old, prog, stack, t, s
  <2>5. t[a] = SuperPID
    BY <2>3, <2>4 DEF Told, Tells
  <2>6. mat' = [t EXCEPT ![old.at] = prog.id]
    BY <2>2, <2>4, <2>5 DEF Handed, t, s
  <2>7. ledger' = (ledger \cup {stack}) \cup {prog}
    BY <2>2 DEF prog, stack, s
  <2>8. \A l \in ledger \cup {stack} : l.at # old.at
    BY <1>3, <2>3, <2>4
  <2>9. (ledger \cup {old}) \cup {stack} = (ledger \cup {stack}) \cup {old}
    OBVIOUS
  <2>10. prog.id \in Ids
    BY <1>1, <2>4
  <2>11. Told(mat', ledger')
    BY <2>3, <2>4, <2>6, <2>7, <2>8, <2>9, <2>10, HandedTold
  <2>12. Shares(sharemem', ledger')
    BY <1>2, <2>4, <2>7, SharesKept DEF MInv
  <2> QED BY <2>11, <2>12 DEF MInv
<1> QED BY <1>2, <1>5, <1>6

\* The end of a task frees what has its pid; no segment has.
LEMMA ExitKeeps == ASSUME MInv, NEW pid \in PIDS, Exit(pid) PROVE MInv'
<1>1. /\ sharemem' = sharemem
      /\ mat' = H!FreedId(mat, pid) /\ ledger' = {l \in ledger : l.id # pid}
  BY DEF Exit
<1>2. pid \in Ids /\ pid # SuperPID
  BY PidsApart, SMT
<1>3. Told(mat', ledger')
  BY <1>1, <1>2, FreedIdTold DEF MInv
<1>4. \A l \in ledger : l.use = "shm" => l.id # pid
  BY <1>2 DEF MInv, Shares
<1>5. Shares(sharemem', ledger')
  BY <1>1, <1>4, SharesKept DEF MInv
<1> QED BY <1>1, <1>3, <1>5 DEF MInv

LEMMA AllocKeeps ==
    ASSUME MInv, NEW pid \in PIDS, NEW n \in DataSizes, Alloc(pid, n), ~ spoilt'
    PROVE  MInv'
<1> DEFINE a == Where(mat, n)
           new == Line(pid, a, n, "data")
<1>0. n \in Nat /\ pid \in Ids
  BY ONLY SizeConstants, n \in DataSizes, pid \in PIDS
<1>1. n \in Nat \ {0}
  BY <1>0 DEF Alloc
<1>2. /\ a # 0 /\ mat' = With(mat, pid, a, n) /\ ledger' = ledger \cup {new}
      /\ sharemem' = sharemem
  BY DEF Alloc
<1>3. Told(mat', ledger')
  BY <1>0, <1>1, <1>2, WithTold DEF MInv
<1>4. new.use # "shm"
  BY DEF Line
<1> HIDE DEF new
<1>5. Shares(sharemem', ledger')
  BY <1>2, <1>4, SharesKept DEF MInv
<1> QED BY <1>2, <1>3, <1>5 DEF MInv

\* free_mem of any address frees data of the task or nothing.
LEMMA FreeKeeps == ASSUME MInv, NEW pid \in PIDS, NEW a \in H!Sec, Free(pid, a) PROVE MInv'
<1>1. sharemem' = sharemem
  BY DEF Free
<1>2. pid \in Ids /\ pid # SuperPID /\ a \in Sec
  BY PidsApart, SMT DEF Sec
<1>3. CASE /\ mat[a] = pid /\ mat' = H!Freed(mat, a)
           /\ ledger' = {l \in ledger : ~ (l.id = pid /\ l.at = a)}
  <2>1. \A l \in ledger : l.at = a => l.id = pid
    BY <1>3 DEF MInv, Told, Tells
  <2>2. ledger' = {l \in ledger : l.at # a}
    BY <1>3, <2>1
  <2>3. Told(mat', ledger')
    BY <1>2, <1>3, <2>2, FreedTold DEF MInv
  <2>4. \A l \in ledger : l.use = "shm" => l.id # pid
    BY <1>2 DEF MInv, Shares
  <2>5. Shares(sharemem', ledger')
    BY <1>1, <1>3, <2>4, SharesKept DEF MInv
  <2> QED BY <1>1, <2>3, <2>5 DEF MInv
<1>4. CASE mat' = mat /\ ledger' = ledger
  BY <1>1, <1>4 DEF MInv
<1> QED BY <1>3, <1>4 DEF Free, Allowed

\* shm_get gives an unused entry a key that no other entry has.
LEMMA ShmGetKeeps ==
    ASSUME MInv, NEW key \in Keys, NEW size \in ShmSizes, ShmGet(key, size)
    PROVE  MInv'
<1>1. PICK i \in Entry :
        /\ sharemem[i].size = 0
        /\ sharemem' = [sharemem EXCEPT ![i].key = key, ![i].size = size]
  BY DEF ShmGet
<1>2. mat' = mat /\ ledger' = ledger /\ \A j \in Entry : sharemem[j].key # key
  BY DEF ShmGet, Known
<1>3. key \in Nat /\ size \in Nat
  BY ONLY SizeConstants, key \in Keys, size \in ShmSizes
<1>4. /\ sharemem \in [Entry -> [key : Nat, size : Nat, ptr : Nat]]
      /\ sharemem[i].ptr = 0 /\ sharemem[i] \in [key : Nat, size : Nat, ptr : Nat]
  BY <1>1 DEF MInv, Shares
<1>5. sharemem'[i] = [key |-> key, size |-> size, ptr |-> 0] /\ \A j \in Entry : j # i => sharemem'[j] = sharemem[j]
  BY <1>1, <1>4
<1>6. sharemem' \in [Entry -> [key : Nat, size : Nat, ptr : Nat]]
  BY <1>1, <1>3, <1>4
<1>7. \A j \in Entry : sharemem'[j].ptr = sharemem[j].ptr
  BY <1>4, <1>5
<1>8. \A j \in Entry : sharemem'[j].ptr # 0 => sharemem'[j] = sharemem[j]
  BY <1>5
<1>9. \A x, y \in Entry : x # y /\ sharemem'[x].key = sharemem'[y].key => sharemem'[x].key = 0
  BY <1>2, <1>5 DEF MInv, Shares
<1>10. Shares(sharemem', ledger')
  BY <1>2, <1>6, <1>7, <1>8, <1>9 DEF MInv, Shares
<1> QED BY <1>2, <1>10 DEF MInv

\* shm_at allocates for a segment that has no memory yet.
LEMMA ShmAtKeeps == ASSUME MInv, NEW i \in Entry, ShmAt(i) PROVE MInv'
<1> DEFINE n == sharemem[i].size
           a == Where(mat, n)
           new == Line(SuperPID, a, n, "shm")
<1>1. /\ sharemem \in [Entry -> [key : Nat, size : Nat, ptr : Nat]]
      /\ sharemem[i] \in [key : Nat, size : Nat, ptr : Nat]
      /\ n \in Nat \ {0} /\ sharemem[i].ptr = 0 /\ SuperPID \in Ids
  BY DEF ShmAt, InUse, Unbacked, MInv, Shares, Ids
<1>2. /\ a # 0 /\ mat' = With(mat, SuperPID, a, n) /\ ledger' = ledger \cup {new}
      /\ sharemem' = [sharemem EXCEPT ![i].ptr = a]
  BY DEF ShmAt
<1>3. Told(mat', ledger') /\ \A l \in ledger : l.at # a
  BY <1>1, <1>2, WithTold DEF MInv
<1>4. new.use = "shm" /\ new.id = SuperPID /\ new.at = a
  BY DEF Line
<1>5. a \in Nat
  BY <1>1, <1>2, WhereFits, MemoryConstants
<1>6. /\ sharemem'[i].ptr = a /\ sharemem'[i].size = n /\ sharemem'[i].key = sharemem[i].key
      /\ \A j \in Entry : j # i => sharemem'[j] = sharemem[j]
      /\ sharemem' \in [Entry -> [key : Nat, size : Nat, ptr : Nat]]
  BY <1>1, <1>2, <1>5
<1>7. \A j \in Entry : sharemem'[j].key = sharemem[j].key
  BY <1>6
<1>8. ASSUME NEW j \in Entry, j # i, sharemem[j].ptr # 0 PROVE sharemem[j].ptr # a
  <2>1. Line(SuperPID, sharemem[j].ptr, sharemem[j].size, "shm") \in ledger
    BY <1>8 DEF MInv, Shares
  <2>2. Line(SuperPID, sharemem[j].ptr, sharemem[j].size, "shm").at = sharemem[j].ptr
    BY DEF Line
  <2> QED BY <1>3, <2>1, <2>2
<1>9. new = Line(SuperPID, sharemem'[i].ptr, sharemem'[i].size, "shm")
  BY <1>6
<1> HIDE DEF new, a, n
<1>10. \A j \in Entry : sharemem'[j].ptr # 0 =>
          /\ sharemem'[j].size # 0
          /\ Line(SuperPID, sharemem'[j].ptr, sharemem'[j].size, "shm") \in ledger'
  BY <1>1, <1>2, <1>6, <1>9 DEF MInv, Shares
<1>11. \A x, y \in Entry : x # y /\ sharemem'[x].ptr # 0 => sharemem'[x].ptr # sharemem'[y].ptr
  BY <1>2, <1>6, <1>8 DEF MInv, Shares
<1>12. ASSUME NEW l \in ledger', l.use = "shm"
       PROVE  l.id = SuperPID /\ \E j \in Entry : sharemem'[j].ptr = l.at
  <2>1. CASE l = new
    BY <1>4, <1>6, <2>1
  <2>2. CASE l \in ledger
    <3>1. l.id = SuperPID /\ \E j \in Entry : sharemem[j].ptr = l.at
      BY <1>12, <2>2 DEF MInv, Shares
    <3>2. PICK j \in Entry : sharemem[j].ptr = l.at
      BY <3>1
    <3>3. l.at \in Sec
      BY <2>2 DEF MInv, Told, Tells
    <3>4. l.at # 0
      BY <3>3, MemoryConstants
    <3>5. j # i
      BY <1>1, <3>2, <3>4
    <3> QED BY <1>6, <3>1, <3>2, <3>5
  <2> QED BY <1>2, <2>1, <2>2
<1>13. Shares(sharemem', ledger')
  BY <1>6, <1>7, <1>10, <1>11, <1>12 DEF MInv, Shares
<1> QED BY <1>2, <1>3, <1>13 DEF MInv

\* shm_dt frees the memory of its segment only.
LEMMA ShmDtKeeps == ASSUME MInv, NEW i \in Entry, ShmDt(i) PROVE MInv'
<1> DEFINE a == sharemem[i].ptr
           own == Line(SuperPID, a, sharemem[i].size, "shm")
<1>1. /\ a # 0 /\ sharemem' = [sharemem EXCEPT ![i] = Dropped(i)]
      /\ mat' = IF mat[a] = SuperPID THEN H!Freed(mat, a) ELSE mat
      /\ ledger' = {l \in ledger : ~ (l.use = "shm" /\ l.at = a)}
  BY DEF ShmDt
<1>2. own \in ledger /\ own.at = a /\ own.id = SuperPID /\ own.use = "shm"
  BY <1>1 DEF MInv, Shares, Line
<1> HIDE DEF own
<1>3. a \in Sec /\ mat[a] = SuperPID /\ SuperPID \in Ids
  BY <1>2 DEF MInv, Told, Tells, Ids
<1>4. \A l \in ledger : l.at = a => l = own
  BY <1>2 DEF MInv, Told
<1>5. ledger' = {l \in ledger : l.at # a}
  BY <1>1, <1>2, <1>4
<1>6. Told(mat', ledger')
  BY <1>1, <1>3, <1>5, FreedTold DEF MInv
<1>7. /\ sharemem' \in [Entry -> [key : Nat, size : Nat, ptr : Nat]]
      /\ sharemem'[i] = [key |-> 0, size |-> 0, ptr |-> 0]
      /\ \A j \in Entry : j # i => sharemem'[j] = sharemem[j] /\ sharemem[j].ptr # a
  BY <1>1 DEF MInv, Shares, Dropped
<1>8. ASSUME NEW j \in Entry, sharemem'[j].ptr # 0
      PROVE  /\ sharemem'[j].size # 0
             /\ Line(SuperPID, sharemem'[j].ptr, sharemem'[j].size, "shm") \in ledger'
  <2>1. j # i
    BY <1>7, <1>8
  <2>2. sharemem'[j] = sharemem[j] /\ sharemem[j].ptr # a
    BY <1>7, <2>1
  <2> DEFINE l == Line(SuperPID, sharemem[j].ptr, sharemem[j].size, "shm")
  <2>3. l \in ledger /\ sharemem[j].size # 0
    BY <1>8, <2>2 DEF MInv, Shares
  <2>4. l.at = sharemem[j].ptr
    BY DEF Line
  <2> QED BY <1>5, <2>2, <2>3, <2>4
<1>9. ASSUME NEW l \in ledger', l.use = "shm"
      PROVE  l.id = SuperPID /\ \E j \in Entry : sharemem'[j].ptr = l.at
  <2>1. l \in ledger /\ l.at # a
    BY <1>5
  <2>2. l.id = SuperPID /\ \E j \in Entry : sharemem[j].ptr = l.at
    BY <1>9, <2>1 DEF MInv, Shares
  <2> QED BY <1>7, <2>1, <2>2
<1>10. \A x, y \in Entry : x # y /\ sharemem'[x].ptr # 0 => sharemem'[x].ptr # sharemem'[y].ptr
  BY <1>7 DEF MInv, Shares
<1>11. \A x, y \in Entry : x # y /\ sharemem'[x].key = sharemem'[y].key => sharemem'[x].key = 0
  BY <1>7 DEF MInv, Shares
<1>12. Shares(sharemem', ledger')
  BY <1>7, <1>8, <1>9, <1>10, <1>11 DEF Shares
<1> QED BY <1>1, <1>6, <1>12 DEF MInv

LEMMA MInvInit == ASSUME Init PROVE MInv
<1> DEFINE a == H!SecStart
           c == H!Count(KernelSize)
           kernel == Line(SuperPID, a, KernelSize, "kernel")
<1>1. /\ mat = H!Taken(Empty, SuperPID, a, c) /\ ledger = {} \cup {kernel}
      /\ sharemem = [i \in Entry |-> [key |-> 0, size |-> 0, ptr |-> 0]]
  BY DEF Init, With
<1>2. kernel.at = a /\ kernel.len = c /\ kernel.id = SuperPID /\ kernel.use # "shm"
  BY DEF Line
<1>3. c \in Nat \ {0} /\ SuperPID \in Ids
  BY ONLY CountPositive, SizeConstants
<1> HIDE DEF kernel, c
<1>4. a \in Sec /\ a + c - 1 \in Sec /\ a .. a + c - 1 \subseteq Sec
  BY <1>3, KernelFits, MemoryConstants DEF c
<1>5. H!Fits(Empty, a, c)
  BY <1>4, MemoryConstants DEF H!Fits, Empty
<1>6. Told(Empty, {})
  <2>1. \A i \in Sec : Empty[i] = FREE
    BY MemoryConstants DEF Empty
  <2>2. Table(Empty)
    BY <2>1, MemoryConstants DEF Empty, Table
  <2>3. H!Heads(Empty) = {}
    BY <2>1, MemoryConstants DEF H!Heads
  <2> QED BY <2>2, <2>3 DEF Told
<1> DEFINE L == {}
<1>7. Told(mat, L \cup {kernel})
  <2>1. Told(Empty, L)
    BY <1>6
  <2> HIDE DEF L
  <2>2. Told(H!Taken(Empty, SuperPID, a, c), L \cup {kernel})
    BY <1>2, <1>3, <1>4, <1>5, <2>1, TakenTold
  <2> QED BY <1>1, <2>2
<1>8. Shares(sharemem, ledger)
  BY <1>1, <1>2 DEF Shares
<1> QED BY <1>1, <1>7, <1>8 DEF MInv

LEMMA MInvStep == ASSUME Unspoilt, [Next]_vars PROVE Unspoilt'
<1>1. CASE UNCHANGED vars
  BY <1>1 DEF Unspoilt, MInv, vars
<1> SUFFICES ASSUME ~ spoilt', Next PROVE MInv'
  BY <1>1 DEF Unspoilt
<1>2. ~ spoilt
  BY DEF Next, Exec, AttachFails, AttachRuns, Exit, Alloc, Free, ShmGet, ShmAt, ShmDt
<1>3. MInv
  BY <1>2 DEF Unspoilt
<1> QED BY <1>3, ExecKeeps, ExitKeeps, AllocKeeps, FreeKeeps, ShmGetKeeps, ShmAtKeeps, ShmDtKeeps DEF Next

LEMMA UnspoiltInit == Init => Unspoilt
  BY MInvInit DEF Unspoilt

\* For any memory, number of tasks and sizes, as long as every task has a pid
\* of its own and none has asked for 0 bytes: the table of sections says of
\* every block what it was handed out for, so no request of one task takes
\* memory of another, of the kernel or of a segment, and what was given back
\* is free.
THEOREM LedgerCorrect == Spec => []LedgerTrue
<1>1. Unspoilt => LedgerTrue
  BY DEF Unspoilt, MInv, Told, Tells, LedgerTrue
<1> QED BY <1>1, UnspoiltInit, MInvStep, PTL DEF Spec

\* For any number of segments, keys and tasks, as long as that is so: an attached segment has memory
\* of its own that the kernel owns, no memory of a segment is without its
\* entry, and no key has two entries.
THEOREM SegmentsCorrect == Spec => []ShmBacked
<1>1. ASSUME ~ spoilt, MInv PROVE ShmBacked
  <2>1. \A i, a, n, use : Line(i, a, n, use).at = a /\ Line(i, a, n, use).id = i
    BY DEF Line
  <2>2. /\ \A l \in ledger : mat[l.at] = l.id
        /\ \A i \in Entry : sharemem[i].ptr # 0 =>
              Line(SuperPID, sharemem[i].ptr, sharemem[i].size, "shm") \in ledger
    BY <1>1 DEF MInv, Shares, Told, Tells
  <2>3. ASSUME NEW i \in Entry, sharemem[i].ptr # 0 PROVE mat[sharemem[i].ptr] = SuperPID
    <3> DEFINE l == Line(SuperPID, sharemem[i].ptr, sharemem[i].size, "shm")
    <3>1. l \in ledger /\ l.at = sharemem[i].ptr /\ l.id = SuperPID
      BY <2>1, <2>2, <2>3
    <3> HIDE DEF l
    <3> QED BY <2>2, <3>1
  <2>4. /\ \A i, j \in Entry : i # j /\ sharemem[i].ptr # 0 => sharemem[i].ptr # sharemem[j].ptr
        /\ \A l \in ledger : l.use = "shm" => \E i \in Entry : sharemem[i].ptr = l.at
        /\ \A i, j \in Entry : i # j /\ sharemem[i].key = sharemem[j].key => sharemem[i].key = 0
    BY <1>1 DEF MInv, Shares
  <2> QED BY <2>2, <2>3, <2>4 DEF ShmBacked
<1>2. Unspoilt => ShmBacked
  BY <1>1 DEF Unspoilt, ShmBacked
<1> QED BY <1>2, UnspoiltInit, MInvStep, PTL DEF Spec
=============================================================================
