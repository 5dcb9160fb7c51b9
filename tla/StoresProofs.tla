--------------------------- MODULE StoresProofs ---------------------------
(***************************************************************************)
(* The stores below the files and the processes.  The page allocator, for  *)
(* every size of the memory and of a section, all ids, sizes and addresses;*)
(* the EEPROM disk, for any size of its blocks and pages and any time that *)
(* the EEPROM needs to write; the flash disk as the boot monitor keeps it, *)
(* for any number of pages, files and programs.                            *)
(***************************************************************************)
EXTENDS Heap, Seeprom, Put, FiniteSetTheorems, SequenceTheorems, WellFoundedInduction, TLAPS

-----------------------------------------------------------------------------
(* The page allocator.                                                       *)

\* Division with a remainder.
LEMMA DivMod ==
    ASSUME NEW a \in Nat, NEW b \in Nat \ {0}
    PROVE  /\ a \div b \in Nat /\ a % b \in Nat
           /\ (a \div b) * b <= a /\ a < (a \div b + 1) * b
           /\ a = (a \div b) * b + (a % b) /\ a % b < b
  OBVIOUS

\* alloc_init: the table of two bytes per section ends before the first
\* section that is handed out, so no block ever covers the table.
THEOREM TableFits == 2 * SecEnd <= SecStart * SECSIZE
<1> DEFINE q == (2 * MEMSIZE) \div (SECSIZE * SECSIZE)
           e == MEMSIZE \div SECSIZE
<1>1. MEMSIZE \in Nat /\ SECSIZE \in Nat /\ SECSIZE > 0
  BY HeapAssumption
<1>2. SECSIZE * SECSIZE \in Nat \ {0} /\ 2 * MEMSIZE \in Nat
  BY <1>1
<1>3. q \in Nat /\ 2 * MEMSIZE < (q + 1) * (SECSIZE * SECSIZE)
  BY <1>2, DivMod DEF q
<1>4. e \in Nat /\ e * SECSIZE <= MEMSIZE
  BY <1>1, DivMod DEF e
<1> HIDE DEF q, e
<1>5. 2 * e < (q + 1) * SECSIZE
  <2>1. (2 * e) * SECSIZE < ((q + 1) * SECSIZE) * SECSIZE
    BY <1>1, <1>3, <1>4
  <2>2. (q + 1) * SECSIZE \in Nat /\ 2 * e \in Nat
    BY <1>1, <1>3, <1>4
  <2> DEFINE x == (q + 1) * SECSIZE
  <2>3. ASSUME x <= 2 * e PROVE x * SECSIZE <= (2 * e) * SECSIZE
    BY <2>2, <2>3, <1>1
  <2> QED BY <2>1, <2>2, <2>3, <1>1
<1>6. SecEnd = e
  BY DEF SecEnd, e
<1>7. SecStart = IF e * 2 > (q + 1) * SECSIZE THEN q + 1 + 1 ELSE q + 1
  BY <1>6 DEF SecStart, q
<1> QED BY <1>1, <1>3, <1>4, <1>5, <1>6, <1>7

\* The sections that alloc_mem counts hold the bytes that were asked for, and
\* none is counted in vain.
LEMMA CountEnough ==
    ASSUME NEW n \in Nat
    PROVE  /\ Count(n) \in Nat
           /\ n <= Count(n) * SECSIZE
           /\ n > 0 => Count(n) > 0 /\ (Count(n) - 1) * SECSIZE < n
<1>1. SECSIZE \in Nat \ {0}
  BY HeapAssumption
<1> DEFINE q == n \div SECSIZE
           r == n % SECSIZE
<1>2. q \in Nat /\ r \in Nat /\ n = q * SECSIZE + r /\ r < SECSIZE
  BY <1>1, DivMod DEF q, r
<1>3. Count(n) = q + IF r > 0 THEN 1 ELSE 0
  BY DEF Count, q, r
<1> HIDE DEF q, r
<1>4. CASE r = 0
  <2>1. Count(n) = q /\ n = q * SECSIZE
    BY <1>2, <1>3, <1>4, <1>1
  <2>2. q = 0 => n = 0
    BY <2>1, <1>1
  <2>3. (q - 1) * SECSIZE = q * SECSIZE - SECSIZE
    BY <1>1, <1>2
  <2> QED BY <1>1, <1>2, <2>1, <2>2, <2>3
<1>5. CASE r > 0
  <2>1. Count(n) = q + 1
    BY <1>2, <1>3, <1>5
  <2>2. (q + 1) * SECSIZE = q * SECSIZE + SECSIZE /\ q * SECSIZE \in Nat
    BY <1>1, <1>2
  <2> QED BY <1>1, <1>2, <2>1, <2>2, <1>5
<1> QED BY <1>2, <1>4, <1>5

-----------------------------------------------------------------------------
\* The constants, as the provers need them.
LEMMA Constants ==
    /\ FREE = 0 /\ CONT = 65535
    /\ SecEnd \in Nat /\ SecStart \in Nat
    /\ IDS \subseteq Nat /\ FREE \notin IDS /\ CONT \notin IDS
    /\ BYTES \subseteq Nat /\ PTRS \subseteq Nat
    /\ Sec \subseteq Nat
<1>1. MEMSIZE \in Nat /\ SECSIZE \in Nat \ {0}
  BY HeapAssumption
<1>2. SecEnd \in Nat
  BY <1>1, DivMod DEF SecEnd
<1>3. SECSIZE * SECSIZE \in Nat \ {0} /\ 2 * MEMSIZE \in Nat
  BY <1>1
<1>4. (2 * MEMSIZE) \div (SECSIZE * SECSIZE) \in Nat
  BY <1>3, DivMod
<1>5. SecStart \in Nat
  BY <1>4 DEF SecStart
<1>6. Sec \subseteq Nat
  BY <1>2, <1>5 DEF Sec
<1> QED BY <1>2, <1>5, <1>6, HeapAssumption DEF FREE, CONT

\* A call keeps the types.
LEMMA TypeStep ==
    ASSUME TypeOK, [Next]_vars
    PROVE  TypeOK'
<1>1. CASE UNCHANGED vars
  BY <1>1 DEF TypeOK, vars
<1>2. ASSUME NEW id \in IDS, caller' = id, NEW n \in BYTES, Alloc(id, n)
      PROVE  TypeOK'
  BY <1>2 DEF Alloc, Taken, TypeOK
<1>3. ASSUME NEW id \in IDS, caller' = id, NEW n \in BYTES, AllocZero(id, n)
      PROVE  TypeOK'
  BY <1>3 DEF AllocZero, TypeOK
<1>4. ASSUME NEW id \in IDS, caller' = id, NEW ptr \in PTRS, FreeMem(id, ptr)
      PROVE  TypeOK'
  BY <1>4 DEF FreeMem, Freed, TypeOK
<1>5. ASSUME NEW id \in IDS, caller' = id, FreeIdMem(id)
      PROVE  TypeOK'
  BY <1>5 DEF FreeIdMem, FreedId, TypeOK
<1>6. ASSUME NEW id \in IDS, caller' = id, NEW new \in IDS, NEW ptr \in PTRS,
             ChangeId(id, new, ptr)
      PROVE  TypeOK'
  BY <1>6 DEF ChangeId, TypeOK
<1> QED BY <1>1, <1>2, <1>3, <1>4, <1>5, <1>6 DEF Next, NextOf

\* Every entry of the table is FREE, CONT or the id of a caller.
THEOREM TypeCorrect == Spec => []TypeOK
<1>1. Init => TypeOK
  BY DEF Init, TypeOK
<1> QED BY <1>1, TypeStep, PTL DEF Spec

-----------------------------------------------------------------------------
(* Runs of CONT.  j belongs to the block that begins at i iff all between   *)
(* them is CONT. *)

\* A pointer that free_mem accepts lies in a section of the table.
LEMMA OwnsSec ==
    ASSUME NEW ptr \in Nat, InArea(ptr)
    PROVE  ptr \div SECSIZE \in Sec
<1>1. SECSIZE \in Nat /\ SECSIZE > 0 /\ SecStart \in Nat /\ SecEnd \in Nat
  BY HeapAssumption, Constants
<1> DEFINE d == ptr \div SECSIZE
<1>2. d \in Nat /\ d * SECSIZE <= ptr /\ ptr < (d + 1) * SECSIZE
  BY <1>1, DivMod
<1>3. ptr >= SecStart * SECSIZE /\ ptr < SecEnd * SECSIZE
  BY DEF InArea
<1> HIDE DEF d
<1>4. d >= SecStart
  <2> SUFFICES ASSUME d + 1 <= SecStart PROVE FALSE
    BY <1>1, <1>2
  <2>1. (d + 1) * SECSIZE <= SecStart * SECSIZE
    BY <1>1, <1>2
  <2> QED BY <2>1, <1>1, <1>2, <1>3
<1>5. d < SecEnd
  <2> SUFFICES ASSUME SecEnd <= d PROVE FALSE
    BY <1>1, <1>2
  <2>1. SecEnd * SECSIZE <= d * SECSIZE
    BY <1>1, <1>2
  <2> QED BY <2>1, <1>1, <1>2, <1>3
<1> QED BY <1>1, <1>2, <1>4, <1>5 DEF d, Sec

Inv == TypeOK /\ NoOrphan

LEMMA InvStep ==
    ASSUME Inv, [Next]_vars
    PROVE  Inv'
<1> SUFFICES NoOrphan'
  BY TypeStep DEF Inv
<1> USE Constants
<1>1. CASE UNCHANGED vars
  BY <1>1 DEF Inv, NoOrphan, vars
<1>2. ASSUME NEW id \in IDS, NEW n \in BYTES, Alloc(id, n)
      PROVE  NoOrphan'
  <2>1. CASE UNCHANGED mat
    BY <2>1 DEF Inv, NoOrphan
  <2>2. ASSUME NEW a \in Sec, Place(mat, a, Count(n)), mat' = Taken(mat, id, a, Count(n))
        PROVE  NoOrphan'
    <3> DEFINE c == Count(n)
    <3>1. c \in Nat /\ c > 0
      BY CountEnough, <1>2 DEF Alloc
    <3>2. a + c - 1 \in Sec /\ \A i \in a .. a + c - 1 : mat[i] = FREE
      BY <2>2 DEF Place, Fits
    <3>3. \A i \in Sec : mat'[i] = IF i = a THEN id ELSE IF i > a /\ i < a + c THEN CONT ELSE mat[i]
      BY <2>2 DEF Taken
    <3> HIDE DEF c
    <3> SUFFICES ASSUME NEW i \in Sec, mat'[i] = CONT
                 PROVE  i - 1 \in Sec /\ mat'[i - 1] # FREE
      BY DEF NoOrphan
    <3>4. CASE i > a /\ i < a + c
      BY <3>1, <3>2, <3>3, <3>4 DEF Sec
    <3>5. CASE ~ (i > a /\ i < a + c)
      <4>1. i # a /\ mat[i] = CONT
        BY <3>3, <3>5
      <4>2. i - 1 \in Sec /\ mat[i - 1] # FREE
        BY <4>1 DEF NoOrphan, Inv
      <4>3. mat'[i - 1] = mat[i - 1] \/ mat'[i - 1] = id \/ mat'[i - 1] = CONT
        BY <3>3, <4>2
      <4> QED BY <4>2, <4>3
    <3> QED BY <3>4, <3>5
  <2> QED BY <1>2, <2>1, <2>2 DEF Alloc
<1>3. ASSUME NEW id \in IDS, NEW n \in BYTES, AllocZero(id, n)
      PROVE  NoOrphan'
  BY <1>3 DEF AllocZero, NoOrphan, Inv, TypeOK
<1>4. ASSUME NEW id \in IDS, NEW ptr \in PTRS, FreeMem(id, ptr)
      PROVE  NoOrphan'
  <2>1. CASE UNCHANGED mat
    BY <2>1 DEF Inv, NoOrphan
  <2>2. CASE Owns(mat, id, ptr) /\ mat' = Freed(mat, ptr \div SECSIZE)
    <3> DEFINE d == ptr \div SECSIZE
    <3>1. d \in Sec
      BY <2>2, OwnsSec DEF Owns
    <3>2. \A j \in Sec : mat'[j] = IF j \in Run(mat, d) THEN FREE ELSE mat[j]
      BY <2>2 DEF Freed
    <3> HIDE DEF d
    <3> SUFFICES ASSUME NEW i \in Sec, mat'[i] = CONT
                 PROVE  i - 1 \in Sec /\ mat'[i - 1] # FREE
      BY DEF NoOrphan
    <3>3. mat[i] = CONT /\ i \notin Run(mat, d)
      BY <3>2
    <3>4. i - 1 \in Sec /\ mat[i - 1] # FREE
      BY <3>3 DEF NoOrphan, Inv
    <3>5. i - 1 \notin Run(mat, d)
      BY <3>1, <3>3, <3>4 DEF Run
    <3> QED BY <3>2, <3>4, <3>5
  <2> QED BY <1>4, <2>1, <2>2 DEF FreeMem
<1>5. ASSUME NEW id \in IDS, FreeIdMem(id)
      PROVE  NoOrphan'
  <2>1. \A j \in Sec : mat'[j] = IF \E i \in Sec : mat[i] = id /\ j \in Run(mat, i)
                                 THEN FREE ELSE mat[j]
    BY <1>5 DEF FreeIdMem, FreedId
  <2> SUFFICES ASSUME NEW i \in Sec, mat'[i] = CONT
               PROVE  i - 1 \in Sec /\ mat'[i - 1] # FREE
    BY DEF NoOrphan
  <2>2. mat[i] = CONT /\ \A h \in Sec : mat[h] = id => i \notin Run(mat, h)
    BY <2>1
  <2>3. i - 1 \in Sec /\ mat[i - 1] # FREE
    BY <2>2 DEF NoOrphan, Inv
  <2>4. ASSUME NEW h \in Sec, mat[h] = id, i - 1 \in Run(mat, h)
        PROVE  i \in Run(mat, h)
    BY <2>2, <2>3, <2>4 DEF Run
  <2> QED BY <2>1, <2>2, <2>3, <2>4
<1>6. ASSUME NEW id \in IDS, NEW new \in IDS, NEW ptr \in PTRS, ChangeId(id, new, ptr)
      PROVE  NoOrphan'
  <2>1. CASE UNCHANGED mat
    BY <2>1 DEF Inv, NoOrphan
  <2>2. CASE Owns(mat, id, ptr) /\ mat' = [mat EXCEPT ![ptr \div SECSIZE] = new]
    BY <2>2, OwnsSec DEF Owns, NoOrphan, Inv, TypeOK
  <2> QED BY <1>6, <2>1, <2>2 DEF ChangeId
<1> QED BY <1>1, <1>2, <1>3, <1>4, <1>5, <1>6 DEF Next, NextOf

\* A CONT entry always continues a block, whatever the callers ask for: no
\* section is lost.
THEOREM NoOrphanCorrect == Spec => []NoOrphan
<1>1. Init => Inv
  BY Constants DEF Init, Inv, TypeOK, NoOrphan
<1>2. Inv => NoOrphan
  BY DEF Inv
<1> QED BY <1>1, <1>2, InvStep, PTL DEF Spec

-----------------------------------------------------------------------------
\* Two blocks never share a section.
LEMMA RunsDisjoint ==
    ASSUME NEW m, NEW i \in Heads(m), NEW d \in Heads(m), i # d
    PROVE  Run(m, i) \cap Run(m, d) = {}
<1>1. i \in Sec /\ d \in Sec /\ m[i] # CONT /\ m[d] # CONT
  BY DEF Heads
<1>2. \A k \in Run(m, i) \cap Run(m, d) : FALSE
  BY <1>1, Constants DEF Run
<1> QED BY <1>2

LEMMA RunSelf ==
    ASSUME NEW m, NEW i \in Sec
    PROVE  i \in Run(m, i)
  BY Constants DEF Run

\* A run keeps its sections when its head and its CONT entries stay and the
\* table gets no new CONT entry behind it.
LEMMA RunKept ==
    ASSUME NEW m, NEW n, NEW i \in Sec,
           \A j \in Run(m, i) : j # i => n[j] = CONT,
           \A j \in Run(n, i) : j # i => m[j] = CONT
    PROVE  Run(n, i) = Run(m, i)
<1>1. \A j \in Run(m, i) : j \in Run(n, i)
  <2> SUFFICES ASSUME NEW j \in Run(m, i) PROVE j \in Run(n, i)
    OBVIOUS
  <2>1. j \in Sec /\ i <= j /\ \A k \in i + 1 .. j : m[k] = CONT
    BY DEF Run
  <2>2. ASSUME NEW k \in i + 1 .. j PROVE n[k] = CONT
    <3>1. k \in Sec /\ i <= k /\ k # i
      BY <2>1, Constants DEF Sec
    <3>2. k \in Run(m, i)
      BY <2>1, <3>1, Constants DEF Run
    <3> QED BY <3>1, <3>2
  <2> QED BY <2>1, <2>2 DEF Run
<1>2. \A j \in Run(n, i) : j \in Run(m, i)
  <2> SUFFICES ASSUME NEW j \in Run(n, i) PROVE j \in Run(m, i)
    OBVIOUS
  <2>1. j \in Sec /\ i <= j /\ \A k \in i + 1 .. j : n[k] = CONT
    BY DEF Run
  <2>2. ASSUME NEW k \in i + 1 .. j PROVE m[k] = CONT
    <3>1. k \in Sec /\ i <= k /\ k # i
      BY <2>1, Constants DEF Sec
    <3>2. k \in Run(n, i)
      BY <2>1, <3>1, Constants DEF Run
    <3> QED BY <3>1, <3>2
  <2> QED BY <2>1, <2>2 DEF Run
<1> QED BY <1>1, <1>2

\* alloc_mem adds one block, of free sections.
LEMMA AllocGrants ==
    ASSUME Inv, NEW id \in IDS, NEW a \in Sec, NEW c \in Nat \ {0},
           Fits(mat, a, c), mat' = Taken(mat, id, a, c)
    PROVE  Abs!Grant(id)
<1> USE Constants
<1>1. a + c - 1 \in Sec /\ \A i \in a .. a + c - 1 : mat[i] = FREE
  BY DEF Fits
<1>2. \A i \in Sec : mat'[i] = IF i = a THEN id ELSE IF i > a /\ i < a + c THEN CONT ELSE mat[i]
  BY DEF Taken
<1>3. a \in Nat /\ a .. a + c - 1 \subseteq Sec
  BY <1>1 DEF Sec
<1>4. \A i \in Sec : mat[i] = CONT => i - 1 \in Sec /\ mat[i - 1] # FREE
  BY DEF Inv, NoOrphan
<1>5. Heads(mat') = Heads(mat) \cup {a}
  <2>1. \A i \in Sec : mat'[i] \notin {FREE, CONT} <=> mat[i] \notin {FREE, CONT} \/ i = a
    BY <1>1, <1>2, <1>3
  <2> QED BY ONLY <2>1, a \in Sec DEF Heads
<1>6. ASSUME NEW i \in Heads(mat) PROVE BlockAt(mat', i) = BlockAt(mat, i)
  <2>1. i \in Sec /\ mat[i] # FREE /\ mat[i] # CONT /\ i \in Nat
    BY DEF Heads
  <2>2. i \notin a .. a + c - 1 /\ mat'[i] = mat[i]
    BY <1>1, <1>2, <1>3, <2>1
  <2>3. ASSUME NEW j \in Run(mat, i), j # i PROVE mat'[j] = CONT
    <3>1. j \in Sec /\ j \in i + 1 .. j /\ mat[j] = CONT
      BY <2>1, <2>3 DEF Run
    <3> QED BY <1>1, <1>2, <1>3, <3>1
  <2>4. ASSUME NEW j \in Run(mat', i), j # i PROVE mat[j] = CONT
    <3>1. j \in Sec /\ i < j /\ \A k \in i + 1 .. j : mat'[k] = CONT
      BY <2>1, <2>4 DEF Run
    <3>2. mat'[a] # CONT
      BY <1>2
    <3>3. ~ (i < a /\ a <= j)
      BY <3>1, <3>2, <1>3, <2>1
    <3>4. mat'[j] = CONT
      BY <3>1, <2>1
    <3> QED BY <1>2, <2>1, <2>2, <3>1, <3>3, <3>4, <1>3
  <2>5. Run(mat', i) = Run(mat, i)
    BY <2>1, <2>3, <2>4, RunKept
  <2> QED BY <2>2, <2>5 DEF BlockAt
<1>7. Run(mat', a) = a .. a + c - 1
  <2>1. ASSUME NEW j \in a .. a + c - 1 PROVE j \in Run(mat', a)
    BY <1>2, <1>3 DEF Run
  <2>2. ASSUME NEW j \in Run(mat', a), j \notin a .. a + c - 1 PROVE FALSE
    <3>1. j \in Sec /\ a <= j /\ \A k \in a + 1 .. j : mat'[k] = CONT
      BY <2>2 DEF Run
    <3>2. a + c \in a + 1 .. j /\ a + c \in Sec
      BY <1>3, <2>2, <3>1 DEF Sec
    <3>3. mat[a + c] = CONT
      BY <1>2, <1>3, <3>1, <3>2
    <3>4. mat[a + c - 1] # FREE
      BY <1>4, <3>2, <3>3
    <3> QED BY <1>1, <1>3, <3>4
  <2>3. a .. a + c - 1 \subseteq Run(mat', a)
    BY <2>1
  <2>4. Run(mat', a) \subseteq a .. a + c - 1
    BY ONLY <2>2
  <2> QED BY ONLY <2>3, <2>4
<1>8. BlockAt(mat', a) = [id |-> id, secs |-> a .. a + c - 1]
  BY <1>2, <1>7 DEF BlockAt
<1>9. Blocks' = Blocks \cup {[id |-> id, secs |-> a .. a + c - 1]}
  BY <1>5, <1>6, <1>8 DEF Blocks
<1>10. \A b \in Blocks : b.secs \cap (a .. a + c - 1) = {}
  <2> SUFFICES ASSUME NEW i \in Heads(mat), NEW j \in Run(mat, i) PROVE j \notin a .. a + c - 1
    BY DEF Blocks, BlockAt
  <2>1. j \in Sec /\ (j = i \/ mat[j] = CONT)
    BY DEF Run, Heads
  <2>2. mat[j] # FREE
    BY <2>1 DEF Heads
  <2> QED BY <2>2, <1>1
<1> QED BY <1>1, <1>3, <1>9, <1>10 DEF Abs!Grant

\* free_mem removes the block of the caller that begins there.
LEMMA FreeReleases ==
    ASSUME Inv, NEW id \in IDS, NEW d \in Sec, mat[d] = id, mat' = Freed(mat, d)
    PROVE  Abs!Release(id)
<1> USE Constants
<1>1. \A j \in Sec : mat'[j] = IF j \in Run(mat, d) THEN FREE ELSE mat[j]
  BY DEF Freed
<1>2. d \in Heads(mat)
  BY DEF Heads
<1>3. Heads(mat') = Heads(mat) \ {d}
  <2>1. ASSUME NEW i \in Heads(mat), i # d PROVE i \notin Run(mat, d)
    BY <1>2, <2>1, RunsDisjoint, RunSelf DEF Heads
  <2>2. d \in Run(mat, d)
    BY RunSelf
  <2>3. \A i \in Sec : mat'[i] \notin {FREE, CONT} <=> mat[i] \notin {FREE, CONT} /\ i # d
    <3> SUFFICES ASSUME NEW i \in Sec
                 PROVE  mat'[i] \notin {FREE, CONT} <=> mat[i] \notin {FREE, CONT} /\ i # d
      OBVIOUS
    <3>1. CASE i = d
      BY <1>1, <2>2, <3>1
    <3>2. CASE i # d /\ mat[i] \notin {FREE, CONT}
      BY <1>1, <2>1, <3>2 DEF Heads
    <3>3. CASE mat[i] \in {FREE, CONT}
      BY <1>1, <3>3
    <3> QED BY <3>1, <3>2, <3>3
  <2> QED BY ONLY <2>3 DEF Heads
<1>4. ASSUME NEW i \in Heads(mat), i # d PROVE BlockAt(mat', i) = BlockAt(mat, i)
  <2>1. i \in Sec /\ i \in Nat /\ Run(mat, i) \cap Run(mat, d) = {} /\ i \in Run(mat, i)
    BY <1>2, <1>4, RunsDisjoint, RunSelf DEF Heads
  <2>2. ASSUME NEW j \in Run(mat, i), j # i PROVE mat'[j] = CONT
    BY <1>1, <2>1, <2>2 DEF Run
  <2>3. ASSUME NEW j \in Run(mat', i), j # i PROVE mat[j] = CONT
    <3>1. j \in Sec /\ mat'[j] = CONT
      BY <2>1, <2>3 DEF Run
    <3> QED BY <1>1, <3>1
  <2>4. Run(mat', i) = Run(mat, i)
    BY <2>1, <2>2, <2>3, RunKept
  <2> QED BY <1>1, <2>1, <2>4 DEF BlockAt
<1>5. ASSUME NEW i \in Heads(mat), i # d PROVE BlockAt(mat, i) # BlockAt(mat, d)
  <2>1. i \in Run(mat, i) /\ i \notin Run(mat, d)
    BY <1>2, <1>5, RunsDisjoint, RunSelf DEF Heads
  <2>2. BlockAt(mat, i).secs = Run(mat, i) /\ BlockAt(mat, d).secs = Run(mat, d)
    BY DEF BlockAt
  <2> QED BY <2>1, <2>2
<1>6. Blocks' = Blocks \ {BlockAt(mat, d)}
  BY <1>2, <1>3, <1>4, <1>5 DEF Blocks
<1>7. BlockAt(mat, d) \in Blocks /\ BlockAt(mat, d).id = id
  BY <1>2 DEF Blocks, BlockAt
<1> QED BY <1>6, <1>7 DEF Abs!Release

\* free_idmem removes exactly the blocks of the id.
LEMMA FreeIdReleases ==
    ASSUME Inv, NEW id \in IDS, FreeIdMem(id)
    PROVE  Abs!ReleaseAll(id)
<1> USE Constants
<1>1. \A j \in Sec : mat'[j] = IF \E i \in Sec : mat[i] = id /\ j \in Run(mat, i)
                               THEN FREE ELSE mat[j]
  BY DEF FreeIdMem, FreedId
<1>2. \A d \in Sec : mat[d] = id => d \in Heads(mat)
  BY DEF Heads
<1>3. ASSUME NEW i \in Heads(mat), mat[i] # id, NEW d \in Sec, mat[d] = id
      PROVE  Run(mat, i) \cap Run(mat, d) = {}
  BY <1>2, <1>3, RunsDisjoint
<1>4. Heads(mat') = {i \in Heads(mat) : mat[i] # id}
  <2>1. ASSUME NEW i \in Heads(mat), mat[i] # id PROVE mat'[i] = mat[i]
    BY <1>1, <1>3, <2>1, RunSelf DEF Heads
  <2>2. ASSUME NEW i \in Heads(mat), mat[i] = id PROVE mat'[i] = FREE
    BY <1>1, <2>2, RunSelf DEF Heads
  <2>3. \A i \in Sec : mat'[i] \in {FREE, mat[i]}
    BY <1>1
  <2>4. \A i \in Sec : mat'[i] \notin {FREE, CONT} <=> mat[i] \notin {FREE, CONT} /\ mat[i] # id
    <3> SUFFICES ASSUME NEW i \in Sec
                 PROVE  mat'[i] \notin {FREE, CONT} <=> mat[i] \notin {FREE, CONT} /\ mat[i] # id
      OBVIOUS
    <3>1. CASE i \in Heads(mat)
      BY <2>1, <2>2, <3>1 DEF Heads
    <3>2. CASE mat[i] \in {FREE, CONT}
      BY <2>3, <3>2
    <3> QED BY <3>1, <3>2 DEF Heads
  <2> QED BY ONLY <2>4 DEF Heads
<1>5. ASSUME NEW i \in Heads(mat), mat[i] # id PROVE BlockAt(mat', i) = BlockAt(mat, i)
  <2>1. i \in Sec /\ i \in Nat /\ i \in Run(mat, i)
    BY RunSelf DEF Heads
  <2>2. ASSUME NEW j \in Run(mat, i) PROVE mat'[j] = mat[j]
    <3>1. j \in Sec
      BY DEF Run
    <3>2. \A d \in Sec : mat[d] = id => j \notin Run(mat, d)
      BY <1>3, <1>5, <2>2
    <3> QED BY <1>1, <3>1, <3>2
  <2>3. ASSUME NEW j \in Run(mat, i), j # i PROVE mat'[j] = CONT
    <3>1. mat[j] = CONT
      BY <2>1, <2>3 DEF Run
    <3> QED BY <2>2, <3>1
  <2>4. ASSUME NEW j \in Run(mat', i), j # i PROVE mat[j] = CONT
    <3>1. j \in Sec /\ mat'[j] = CONT
      BY <2>1, <2>4 DEF Run
    <3> QED BY <1>1, <3>1
  <2>5. Run(mat', i) = Run(mat, i)
    BY <2>1, <2>3, <2>4, RunKept
  <2> QED BY <2>1, <2>2, <2>5 DEF BlockAt
<1>6. \A i : BlockAt(mat, i).id = mat[i]
  BY DEF BlockAt
<1>7. Blocks' = {b \in Blocks : b.id # id}
  BY <1>4, <1>5, <1>6 DEF Blocks
<1> QED BY <1>7 DEF Abs!ReleaseAll

\* change_id_mem renames one block of the caller.
LEMMA ChangeHandsOver ==
    ASSUME Inv, NEW id \in IDS, NEW new \in IDS, NEW d \in Sec, mat[d] = id,
           mat' = [mat EXCEPT ![d] = new]
    PROVE  Abs!HandOver(id, new)
<1> USE Constants
<1>1. mat'[d] = new /\ \A j \in Sec : j # d => mat'[j] = mat[j]
  BY DEF Inv, TypeOK
<1>2. d \in Heads(mat)
  BY DEF Heads
<1>3. Heads(mat') = Heads(mat)
  BY <1>1, <1>2 DEF Heads
<1>4. ASSUME NEW i \in Sec PROVE Run(mat', i) = Run(mat, i)
  <2>1. \A j \in Sec : mat'[j] = CONT <=> mat[j] = CONT
    BY <1>1, <1>2 DEF Heads
  <2>2. ASSUME NEW j \in Run(mat, i), j # i PROVE mat'[j] = CONT
    <3>1. j \in Sec /\ mat[j] = CONT
      BY <2>2 DEF Run
    <3> QED BY <2>1, <3>1
  <2>3. ASSUME NEW j \in Run(mat', i), j # i PROVE mat[j] = CONT
    <3>1. j \in Sec /\ mat'[j] = CONT
      BY <2>3 DEF Run
    <3> QED BY <2>1, <3>1
  <2> QED BY ONLY i \in Sec, <2>2, <2>3, RunKept
<1>5. ASSUME NEW i \in Heads(mat), i # d PROVE BlockAt(mat', i) = BlockAt(mat, i)
  BY <1>1, <1>4, <1>5 DEF BlockAt, Heads
<1>6. ASSUME NEW i \in Heads(mat), i # d PROVE BlockAt(mat, i) # BlockAt(mat, d)
  <2>1. i \in Run(mat, i) /\ i \notin Run(mat, d)
    BY <1>2, <1>6, RunsDisjoint, RunSelf DEF Heads
  <2>2. BlockAt(mat, i).secs = Run(mat, i) /\ BlockAt(mat, d).secs = Run(mat, d)
    BY DEF BlockAt
  <2> QED BY <2>1, <2>2
<1>7. BlockAt(mat', d) = [BlockAt(mat, d) EXCEPT !.id = new]
  BY <1>1, <1>4 DEF BlockAt
<1>8. Blocks' = (Blocks \ {BlockAt(mat, d)}) \cup {[BlockAt(mat, d) EXCEPT !.id = new]}
  <2>1. Blocks' = {BlockAt(mat', i) : i \in Heads(mat)}
    BY ONLY <1>3 DEF Blocks
  <2>2. Blocks' = {BlockAt(mat, i) : i \in Heads(mat) \ {d}} \cup {BlockAt(mat', d)}
    BY ONLY <1>2, <1>5, <2>1
  <2>3. Blocks \ {BlockAt(mat, d)} = {BlockAt(mat, i) : i \in Heads(mat) \ {d}}
    BY <1>2, <1>6 DEF Blocks
  <2> QED BY <1>7, <2>2, <2>3
<1>9. BlockAt(mat, d) \in Blocks /\ BlockAt(mat, d).id = id
  BY <1>2 DEF Blocks, BlockAt
<1> QED BY <1>8, <1>9 DEF Abs!HandOver

\* Every call but one for 0 bytes is a call of HeapAbs.
LEMMA PromiseStep ==
    ASSUME Inv, [Next]_vars
    PROVE  [Abs!Next \/ ForNothing]_<<Blocks, caller>>
<1> USE Constants
<1>1. UNCHANGED mat => UNCHANGED Blocks
  BY DEF Blocks
<1>2. CASE UNCHANGED vars
  BY <1>1, <1>2 DEF vars
<1>3. CASE Next
  <2> PICK id \in IDS : NextOf(id)
    BY <1>3 DEF Next
  <2>1. caller' = id
    BY DEF NextOf
  <2>2. CASE UNCHANGED mat
    BY <1>1, <2>1, <2>2 DEF Abs!Next, Abs!Refuse
  <2>3. ASSUME NEW n \in BYTES, Alloc(id, n) PROVE Abs!Grant(id) \/ UNCHANGED mat
    <3>1. n \in Nat /\ Count(n) \in Nat \ {0}
      BY <2>3, CountEnough DEF Alloc
    <3> QED BY <2>3, <3>1, AllocGrants DEF Alloc, Place
  <2>4. ASSUME NEW n \in BYTES, AllocZero(id, n) PROVE ForNothing
    BY <2>1, <2>4 DEF ForNothing
  <2>5. ASSUME NEW ptr \in PTRS, FreeMem(id, ptr) PROVE Abs!Release(id) \/ UNCHANGED mat
    <3>1. CASE Owns(mat, id, ptr) /\ mat' = Freed(mat, ptr \div SECSIZE)
      <4>1. ptr \in Nat /\ InArea(ptr)
        BY <3>1 DEF Owns
      <4>2. ptr \div SECSIZE \in Sec
        BY ONLY <4>1, OwnsSec
      <4>3. PICK d \in Sec : d = ptr \div SECSIZE
        BY ONLY <4>2
      <4>4. mat[d] = id /\ mat' = Freed(mat, d)
        BY <3>1, <4>3 DEF Owns
      <4> QED BY <4>4, FreeReleases
    <3> QED BY <2>5, <3>1 DEF FreeMem
  <2>6. ASSUME FreeIdMem(id) PROVE Abs!ReleaseAll(id)
    BY <2>6, FreeIdReleases
  <2>7. ASSUME NEW new \in IDS, NEW ptr \in PTRS, ChangeId(id, new, ptr)
        PROVE  Abs!HandOver(id, new) \/ UNCHANGED mat
    <3>1. CASE Owns(mat, id, ptr) /\ mat' = [mat EXCEPT ![ptr \div SECSIZE] = new]
      <4>1. ptr \in Nat /\ InArea(ptr)
        BY <3>1 DEF Owns
      <4>2. ptr \div SECSIZE \in Sec
        BY ONLY <4>1, OwnsSec
      <4>3. PICK d \in Sec : d = ptr \div SECSIZE
        BY ONLY <4>2
      <4>4. mat[d] = id /\ mat' = [mat EXCEPT ![d] = new]
        BY <3>1, <4>3 DEF Owns
      <4> QED BY ONLY Inv, id \in IDS, new \in IDS, d \in Sec, <4>4, ChangeHandsOver
    <3> QED BY <2>7, <3>1 DEF ChangeId
  <2> QED BY <2>1, <2>2, <2>3, <2>4, <2>5, <2>6, <2>7 DEF NextOf, Abs!Next
<1> QED BY <1>2, <1>3

\* The allocator keeps the promise of HeapAbs in every call for at least one
\* byte: blocks of different callers never overlap, a block changes only by a
\* call of its owner, and no block is lost.
THEOREM HeapKeepsPromise == Spec => KeepsPromise
<1>1. Init => Inv
  BY Constants DEF Init, Inv, TypeOK, NoOrphan
<1>2. Init => Abs!Init
  BY DEF Init, Abs!Init, Blocks, Heads
<1> QED BY <1>1, <1>2, PromiseStep, InvStep, PTL DEF Spec, KeepsPromise

\* When no caller asks for 0 bytes the allocator implements HeapAbs.
THEOREM HeapImplementsAbs ==
    ASSUME 0 \notin BYTES
    PROVE  Spec => AbsSpec
<1>1. ~ ForNothing
  <2>1. ASSUME NEW id \in IDS, NEW n \in BYTES, AllocZero(id, n) PROVE FALSE
    <3>1. Count(n) > 0
      BY Constants, CountEnough
    <3> QED BY <2>1, <3>1 DEF AllocZero
  <2> QED BY <2>1 DEF ForNothing
<1>2. Spec => KeepsPromise
  BY HeapKeepsPromise
<1> QED BY <1>1, <1>2, PTL DEF KeepsPromise, AbsSpec, Abs!Spec

-----------------------------------------------------------------------------
(* The EEPROM disk.                                                          *)

SeSpec == SeInit /\ [][SeNext]_seVars

\* A page of the disk lies in one block: no transfer of a page wraps around.
PageAddr == {a \in Cell : a % PAGE_SE = 0}

\* A call of minifs that has sought its page: the EEPROM was called, counts
\* from that page on, and has collected the bytes that were sent.
Called ==
    /\ chip.mode = "write" /\ se.addr \in PageAddr
    /\ chip.block = BlockOf(se.addr) /\ chip.low = se.addr % BLOCK

SeInv ==
    /\ se \in [open : BOOLEAN, addr : Cell \cup {0}] /\ (call.do # "none" => se.open)
    /\ chip = [mode |-> chip.mode, block |-> chip.block, low |-> chip.low, buf |-> chip.buf,
               busy |-> chip.busy, mem |-> chip.mem]
    /\ chip.low \in Nat /\ chip.buf \in Seq(Nat) /\ chip.busy \in 0 .. CYCLE
    /\ disk = [a \in Cell |-> disk[a]] /\ chip.mem = disk
    /\ call.do \in {"none", "sought", "write"}
    /\ call.do # "none" => Called /\ got = NoRead
    /\ call.do = "sought" => chip.buf = <<>>
    /\ call.do = "write" =>
          /\ call = [do |-> "write", data |-> call.data, n |-> call.n]
          /\ call.data \in Data /\ call.n \in 0 .. PAGE_SE
          /\ chip.buf = [j \in 1 .. call.n |-> call.data[j]]
    /\ PageRead

LEMMA SeConstants ==
    /\ BLOCK \in Nat \ {0} /\ PAGE_SE \in Nat \ {0} /\ BLOCKS \in Nat \ {0} /\ BLOCK % PAGE_SE = 0
    /\ CYCLE \in Nat /\ TIMEOVER \in Nat /\ CYCLE <= TIMEOVER
    /\ Cell \subseteq Nat
    /\ \A d \in Data : d \in [1 .. PAGE_SE -> Nat] /\ d \in Seq(Nat) /\ Len(d) = PAGE_SE
<1>1. \A d \in [1 .. PAGE_SE -> Nat] : d \in Seq(Nat) /\ Len(d) = PAGE_SE
  BY SeepromAssumption
<1> QED BY <1>1, SeepromAssumption DEF Cell

\* Cell i of a page is in the block of the page, behind its place there.
LEMMA PageInBlock ==
    ASSUME NEW a \in PageAddr, NEW i \in 0 .. PAGE_SE - 1
    PROVE  /\ a % BLOCK \in Nat /\ BlockOf(a) \in Nat
           /\ At(BlockOf(a), (a % BLOCK) + i) = a + i /\ a + i \in Cell
<1> DEFINE q == a \div BLOCK
           r == a % BLOCK
<1>1. a \in Nat /\ a % PAGE_SE = 0 /\ i \in Nat /\ i < PAGE_SE /\ a < BLOCKS * BLOCK
  BY SeConstants DEF PageAddr, Cell
<1>2. q \in Nat /\ r \in 0 .. BLOCK - 1 /\ a = q * BLOCK + r
  BY <1>1, SeConstants
<1> DEFINE m == BLOCK \div PAGE_SE
           k == a \div PAGE_SE
<1>3. m \in Nat /\ BLOCK = m * PAGE_SE /\ k \in Nat /\ a = k * PAGE_SE
  BY <1>1, SeConstants
<1> HIDE DEF q, r, m, k
<1>4. q * BLOCK = (q * m) * PAGE_SE /\ q * m \in Nat
  BY <1>2, <1>3, SeConstants
<1>5. r = (k - q * m) * PAGE_SE
  BY <1>2, <1>3, <1>4, SeConstants
<1> DEFINE s == k - q * m
<1>6. s \in Int /\ r = s * PAGE_SE /\ s * PAGE_SE < m * PAGE_SE
  BY <1>2, <1>3, <1>4, <1>5
<1> HIDE DEF s
<1>7. s < m
  BY <1>3, <1>6, SeConstants
<1>8. (s + 1) * PAGE_SE <= m * PAGE_SE
  BY <1>3, <1>6, <1>7, SeConstants
<1>9. r + PAGE_SE <= BLOCK
  BY <1>3, <1>6, <1>8, SeConstants
<1>10. r + i \in 0 .. BLOCK - 1
  BY <1>1, <1>2, <1>9, SeConstants
<1>11. (r + i) % BLOCK = r + i
  BY <1>10, SeConstants
<1>12. q < BLOCKS
  BY <1>1, <1>2, SeConstants
<1>13. (q + 1) * BLOCK <= BLOCKS * BLOCK
  BY <1>2, <1>12, SeConstants
<1>14. a + i < BLOCKS * BLOCK
  BY <1>2, <1>10, <1>13, SeConstants
<1> QED BY <1>1, <1>2, <1>11, <1>14, SeConstants DEF At, BlockOf, Cell, q, r

\* The control byte is answered, since the driver waits longer than the EEPROM
\* writes.
LEMMA Reached ==
    ASSUME SeInv, NEW rw, NEW b
    PROVE  SendCtrl(chip, rw, b) =
               [mode |-> rw, block |-> b, low |-> chip.low, buf |-> <<>>, busy |-> 0,
                mem |-> chip.mem]
<1>1. Answered(chip)
  BY SeConstants DEF SeInv, Answered
<1>2. chip = [mode |-> chip.mode, block |-> chip.block, low |-> chip.low, buf |-> chip.buf,
              busy |-> chip.busy, mem |-> chip.mem]
  BY DEF SeInv
<1> QED BY <1>1, <1>2 DEF SendCtrl, StartI2c

\* What stop leaves of the fields other than the content.
LEMMA Stopped ==
    ASSUME NEW c, c = [mode |-> c.mode, block |-> c.block, low |-> c.low, buf |-> c.buf,
                       busy |-> c.busy, mem |-> c.mem],
           c.mem = [a \in Cell |-> c.mem[a]]
    PROVE  /\ StopI2c(c) =
                  [mode |-> "off", block |-> c.block, low |-> c.low + Len(c.buf), buf |-> <<>>,
                   busy |-> IF c.buf = <<>> THEN c.busy ELSE CYCLE, mem |-> StopI2c(c).mem]
           /\ StopI2c(c).mem = [a \in Cell |-> StopI2c(c).mem[a]]
<1> DEFINE Cells(f) == [a \in Cell |->
               LET i == {j \in DOMAIN c.buf : At(c.block, c.low + j - 1) = a}
               IN  IF i = {} THEN f[a] ELSE c.buf[CHOOSE j \in i : TRUE]]
           M == Cells(c.mem)
<1>1. M = [a \in Cell |-> M[a]]
  OBVIOUS
<1>2. StopI2c(c) = [c EXCEPT !.mode = "off", !.buf = <<>>, !.low = @ + Len(c.buf),
                             !.busy = IF c.buf = <<>> THEN @ ELSE CYCLE, !.mem = Cells(@)]
  BY DEF StopI2c
<1> HIDE DEF Cells
<1>3. StopI2c(c) =
          [mode |-> "off", block |-> c.block, low |-> c.low + Len(c.buf), buf |-> <<>>,
           busy |-> IF c.buf = <<>> THEN c.busy ELSE CYCLE, mem |-> M]
  BY <1>2
<1> QED BY <1>1, <1>3

LEMMA SeekKeeps == ASSUME SeInv, NEW addr \in PageAddr, SeekSe(addr) PROVE SeInv'
<1>1. chip' = [mode |-> "write", block |-> BlockOf(addr), low |-> addr % BLOCK, buf |-> <<>>,
               busy |-> 0, mem |-> chip.mem]
  BY Reached DEF SeekSe, SeekI2c
<1>2. addr % BLOCK \in Nat
  BY SeConstants DEF PageAddr
<1>3. se' = [open |-> TRUE, addr |-> addr] /\ call' = [do |-> "sought"] /\ got' = NoRead
      /\ disk' = disk
  BY DEF SeekSe, SeReady, SeInv
<1>4. PageRead'
  BY <1>3 DEF PageRead, NoRead
<1>5. Called'
  BY <1>1, <1>3 DEF Called
<1>6. addr \in Cell
  BY DEF PageAddr
<1>7. chip'.mem = disk' /\ disk' = [a \in Cell |-> disk'[a]]
  BY <1>1, <1>3 DEF SeInv
<1> QED BY <1>1, <1>2, <1>3, <1>4, <1>5, <1>6, <1>7, SeConstants DEF SeInv

LEMMA NextByteKeeps == ASSUME SeInv, NextByte PROVE SeInv'
<1>1. /\ call.do = "write" /\ call.data \in Data /\ call.n \in Nat /\ call.n < PAGE_SE
      /\ call.data \in [1 .. PAGE_SE -> Nat] /\ call.data[call.n + 1] \in Nat
  BY SeConstants DEF NextByte, SeInv
<1>2. call' = [do |-> "write", data |-> call.data, n |-> call.n + 1]
  BY <1>1 DEF NextByte, SeInv
<1>3. chip' = [mode |-> "write", block |-> chip.block, low |-> chip.low,
               buf |-> Append(chip.buf, call.data[call.n + 1]), busy |-> chip.busy,
               mem |-> chip.mem]
  BY <1>1 DEF NextByte, WriteByte, SeInv, Called
<1>4. Append(chip.buf, call.data[call.n + 1]) = [j \in 1 .. call.n + 1 |-> call.data[j]]
  BY <1>1 DEF SeInv
<1>5. chip'.buf \in Seq(Nat)
  BY <1>1, <1>3 DEF SeInv
<1>6. se' = se /\ disk' = disk /\ got' = got
  BY DEF NextByte
<1>7. Called' /\ PageRead'
  BY <1>1, <1>3, <1>6 DEF SeInv, Called, PageRead
<1>8. /\ chip' = [mode |-> chip'.mode, block |-> chip'.block, low |-> chip'.low, buf |-> chip'.buf,
                   busy |-> chip'.busy, mem |-> chip'.mem]
      /\ chip'.low \in Nat /\ chip'.busy \in 0 .. CYCLE /\ chip'.mem = disk'
      /\ disk' = [a \in Cell |-> disk'[a]]
  BY <1>3, <1>6 DEF SeInv
<1>9. call'.n \in 0 .. PAGE_SE /\ chip'.buf = [j \in 1 .. call'.n |-> call'.data[j]]
  BY <1>1, <1>2, <1>3, <1>4, SeConstants
<1>10. se' \in [open : BOOLEAN, addr : Cell \cup {0}] /\ se'.open /\ got' = NoRead
  BY <1>1, <1>6 DEF SeInv
<1> QED BY <1>1, <1>2, <1>5, <1>7, <1>8, <1>9, <1>10 DEF SeInv

\* The bytes that were collected become the cells of the page.
LEMMA LastByteKeeps == ASSUME SeInv, LastByte PROVE SeInv'
<1>1. /\ call.do = "write" /\ call.data \in Data /\ call.n = PAGE_SE
      /\ call.data \in [1 .. PAGE_SE -> Nat]
      /\ chip.buf = [j \in 1 .. PAGE_SE |-> call.data[j]] /\ Called
  BY SeConstants DEF LastByte, SeInv
<1>2. DOMAIN chip.buf = 1 .. PAGE_SE /\ Len(chip.buf) = PAGE_SE
      /\ \A j \in 1 .. PAGE_SE : chip.buf[j] = call.data[j]
  BY <1>1, SeConstants DEF SeInv
<1>3. \A j \in 1 .. PAGE_SE : At(chip.block, chip.low + j - 1) = se.addr + j - 1
  <2> SUFFICES ASSUME NEW j \in 1 .. PAGE_SE
               PROVE  At(chip.block, chip.low + j - 1) = se.addr + j - 1
    OBVIOUS
  <2>1. j - 1 \in 0 .. PAGE_SE - 1 /\ chip.low + j - 1 = chip.low + (j - 1)
        /\ se.addr + j - 1 = se.addr + (j - 1)
    <3>1. PAGE_SE \in Nat /\ chip.low \in Nat /\ se.addr \in Nat
      BY SeConstants, <1>1 DEF SeInv, Called, PageAddr
    <3> QED BY ONLY <3>1, j \in 1 .. PAGE_SE
  <2> QED BY <2>1, <1>1, PageInBlock DEF Called
<1>4. se.addr \in Nat
  BY <1>1, SeConstants DEF Called, PageAddr
<1>5. ASSUME NEW a \in Cell
      PROVE  StopI2c(chip).mem[a] =
                 IF a - se.addr \in 0 .. PAGE_SE - 1 THEN call.data[a - se.addr + 1] ELSE disk[a]
  <2> DEFINE i == {j \in DOMAIN chip.buf : At(chip.block, chip.low + j - 1) = a}
  <2>1. StopI2c(chip).mem[a] = IF i = {} THEN chip.mem[a] ELSE chip.buf[CHOOSE j \in i : TRUE]
    BY <1>5 DEF StopI2c, SeInv
  <2>2. i = {j \in 1 .. PAGE_SE : se.addr + j - 1 = a}
    BY <1>2, <1>3
  <2> HIDE DEF i
  <2>3. a \in Nat
    BY SeConstants
  <2>4. CASE a - se.addr \in 0 .. PAGE_SE - 1
    <3>1. i = {a - se.addr + 1}
      BY <1>4, <2>2, <2>3, <2>4, SeConstants
    <3>2. (CHOOSE j \in i : TRUE) = a - se.addr + 1
      BY <3>1
    <3>3. a - se.addr + 1 \in 1 .. PAGE_SE
      BY <1>4, <2>3, <2>4, SeConstants
    <3> QED BY <1>2, <2>1, <2>4, <3>1, <3>2, <3>3
  <2>5. CASE a - se.addr \notin 0 .. PAGE_SE - 1
    <3>1. i = {}
      BY <1>4, <2>2, <2>3, <2>5, SeConstants
    <3> QED BY <2>1, <2>5, <3>1 DEF SeInv
  <2> QED BY <2>4, <2>5
<1>6. /\ chip' = StopI2c(chip) /\ call' = NoCall /\ se' = se /\ got' = got /\ got = NoRead
      /\ disk' = [a \in Cell |-> IF a - se.addr \in 0 .. PAGE_SE - 1
                                 THEN call.data[a - se.addr + 1] ELSE disk[a]]
  BY <1>1 DEF LastByte, SeInv
<1>7. StopI2c(chip) = [mode |-> "off", block |-> chip.block, low |-> chip.low + PAGE_SE,
                       buf |-> <<>>, busy |-> StopI2c(chip).busy, mem |-> StopI2c(chip).mem]
      /\ StopI2c(chip).busy \in {chip.busy, CYCLE}
      /\ StopI2c(chip).mem = [a \in Cell |-> StopI2c(chip).mem[a]]
  BY <1>2, Stopped DEF SeInv
<1>8. chip'.mem = disk'
  BY <1>5, <1>6, <1>7
<1>9. PageRead'
  BY <1>6 DEF PageRead, NoRead
<1>10. chip'.low \in Nat /\ chip'.buf = <<>> /\ chip'.busy \in 0 .. CYCLE
  BY <1>6, <1>7, SeConstants DEF SeInv
<1>11. /\ chip' = [mode |-> chip'.mode, block |-> chip'.block, low |-> chip'.low, buf |-> chip'.buf,
                    busy |-> chip'.busy, mem |-> chip'.mem]
       /\ disk' = [a \in Cell |-> disk'[a]]
  <2>1. \E f : disk' = [a \in Cell |-> f[a]]
    <3> DEFINE f == [a \in Cell |-> IF a - se.addr \in 0 .. PAGE_SE - 1
                                   THEN call.data[a - se.addr + 1] ELSE disk[a]]
    <3>1. disk' = f /\ f = [a \in Cell |-> f[a]]
      BY <1>6
    <3> QED BY <3>1
  <2>2. disk' = [a \in Cell |-> disk'[a]]
    BY <2>1
  <2>3. chip' = [mode |-> chip'.mode, block |-> chip'.block, low |-> chip'.low, buf |-> chip'.buf,
                 busy |-> chip'.busy, mem |-> chip'.mem]
    BY <1>6, <1>7
  <2> QED BY <2>2, <2>3
<1>12. se' \in [open : BOOLEAN, addr : Cell \cup {0}] /\ call'.do = "none"
  BY <1>6 DEF SeInv, NoCall
<1> QED BY <1>8, <1>9, <1>10, <1>11, <1>12 DEF SeInv

\* What is read are the cells of the page that was sought.
LEMMA ReadPageKeeps == ASSUME SeInv, ReadSe PROVE SeInv'
<1> DEFINE c == ReadCtrl
<1>1. Called /\ call.do = "sought" /\ se.addr \in PageAddr /\ se.addr \in Nat
  BY SeConstants DEF ReadSe, SeInv, Called, PageAddr
<1>2. c = [mode |-> "read", block |-> chip.block, low |-> chip.low, buf |-> <<>>, busy |-> 0,
           mem |-> chip.mem]
  BY <1>1, Reached DEF ReadCtrl, Called
<1> HIDE DEF c
<1>3. StopI2c(c).mem = chip.mem
  <2>1. DOMAIN c.buf = {} /\ c.mem = [a \in Cell |-> c.mem[a]]
    BY <1>2 DEF SeInv
  <2> DEFINE i(a) == {j \in DOMAIN c.buf : At(c.block, c.low + j - 1) = a}
  <2>2. StopI2c(c).mem = [a \in Cell |-> IF i(a) = {} THEN c.mem[a]
                                        ELSE c.buf[CHOOSE j \in i(a) : TRUE]]
    BY <1>2 DEF StopI2c
  <2>3. \A a : i(a) = {}
    BY <2>1
  <2> HIDE DEF i
  <2>4. StopI2c(c).mem = [a \in Cell |-> c.mem[a]]
    BY <2>2, <2>3
  <2> QED BY <1>2, <2>1, <2>4
<1>4. StopI2c(c) = [mode |-> "off", block |-> chip.block, low |-> chip.low, buf |-> <<>>,
                    busy |-> 0, mem |-> chip.mem]
  <2>1. c.mem = [a \in Cell |-> c.mem[a]] /\ Len(<<>>) = 0 /\ chip.low + 0 = chip.low
    BY <1>2 DEF SeInv
  <2>2. StopI2c(c) = [mode |-> "off", block |-> c.block, low |-> c.low + Len(c.buf), buf |-> <<>>,
                      busy |-> IF c.buf = <<>> THEN c.busy ELSE CYCLE, mem |-> StopI2c(c).mem]
    <3>1. c = [mode |-> c.mode, block |-> c.block, low |-> c.low, buf |-> c.buf,
               busy |-> c.busy, mem |-> c.mem]
      BY <1>2
    <3> QED BY <2>1, <3>1, Stopped, Zenon
  <2> QED BY <1>2, <1>3, <2>1, <2>2
<1>5. chip' = [mode |-> "off", block |-> chip.block, low |-> (chip.low + PAGE_SE) % BLOCK,
               buf |-> <<>>, busy |-> 0, mem |-> chip.mem]
  BY <1>4 DEF ReadSe, c
<1>6. (chip.low + PAGE_SE) % BLOCK \in Nat
  BY SeConstants DEF SeInv
<1>7. got' = [at |-> se.addr, data |-> ReadI2c(c)] /\ se' = se /\ disk' = disk /\ call' = NoCall
  BY DEF ReadSe, c
<1>8. PageRead'
  <2> SUFFICES ASSUME NEW i \in 1 .. PAGE_SE PROVE ReadI2c(c)[i] = disk[se.addr + i - 1]
    BY <1>7 DEF PageRead, ReadI2c
  <2>1. ReadI2c(c)[i] = disk[At(chip.block, chip.low + i - 1)]
    BY <1>2 DEF ReadI2c, SeInv
  <2>2. i - 1 \in 0 .. PAGE_SE - 1 /\ chip.low + i - 1 = chip.low + (i - 1)
        /\ se.addr + i - 1 = se.addr + (i - 1)
    BY <1>1, SeConstants DEF SeInv
  <2> QED BY <1>1, <2>1, <2>2, PageInBlock DEF Called
<1> QED BY <1>5, <1>6, <1>7, <1>8, SeConstants DEF SeInv, NoCall

LEMMA SeStep == ASSUME SeInv, [SeNext]_seVars PROVE SeInv'
<1>1. CASE UNCHANGED seVars
  BY <1>1 DEF SeInv, Called, PageRead, seVars
<1>2. ASSUME OpenSe PROVE SeInv'
  <2>1. call.do = "none"
    BY <1>2 DEF OpenSe, SeInv
  <2> QED BY <1>2, <2>1 DEF OpenSe, SeInv, PageRead
<1>3. ASSUME ResetSe PROVE SeInv'
  BY <1>3 DEF ResetSe, SeInv, NoCall, NoRead, PageRead
<1>4. ASSUME Elapse PROVE SeInv'
  <2>1. chip' = [mode |-> chip.mode, block |-> chip.block, low |-> chip.low, buf |-> chip.buf,
                 busy |-> chip.busy - 1, mem |-> chip.mem]
    BY <1>4 DEF Elapse, SeInv
  <2>2. chip.busy - 1 \in 0 .. CYCLE
    BY <1>4, SeConstants DEF Elapse, SeInv
  <2> QED BY <1>4, <2>1, <2>2 DEF Elapse, SeInv, Called, PageRead
<1>5. ASSUME NEW data \in Data, WriteSe(data) PROVE SeInv'
  <2>1. chip.buf = [j \in 1 .. 0 |-> data[j]] /\ 0 \in 0 .. PAGE_SE
    BY <1>5, SeConstants DEF WriteSe, SeInv
  <2> QED BY <1>5, <2>1 DEF WriteSe, SeInv, Called, PageRead
<1> QED BY <1>1, <1>2, <1>3, <1>4, <1>5, SeekKeeps, NextByteKeeps, LastByteKeeps, ReadPageKeeps
        DEF SeNext, PageAddr

\* What is read from a page of the EEPROM is what was written there last, for
\* any size of blocks and pages, also when the EEPROM is still writing and when
\* the machine was reset in the middle of a later transfer.
THEOREM PageCorrect == SeSpec => []PageRead
<1>1. SeInit => SeInv
  BY SeConstants DEF SeInit, SeInv, NoCall, NoRead, PageRead
<1>2. SeInv => PageRead
  BY DEF SeInv
<1> QED BY <1>1, <1>2, SeStep, PTL DEF SeSpec

-----------------------------------------------------------------------------
(* The flash disk.                                                           *)

\* A set of numbers has a least one.
LEMMA LeastIn ==
    ASSUME NEW S, S \subseteq Nat, S # {}
    PROVE  Least(S) \in S /\ \A y \in S : Least(S) <= y
<1> DEFINE R == OpToRel(<, Nat)
<1>1. PICK x \in S : \A y \in S : ~ (<<y, x>> \in R)
  BY NatLessThanWellFounded, WFMin
<1>2. \A y \in S : <<y, x>> \in R <=> y < x
  BY DEF OpToRel
<1> HIDE DEF R
<1>3. \A y \in S : ~ (y < x)
  BY <1>1, <1>2
<1>4. \A y \in S : x <= y
  BY <1>3
<1> QED BY <1>4 DEF Least

\* What is known of the constants.
LEMMA RomConstants ==
    /\ ROM_PAGES \in Nat /\ ROM_PAGE \in Nat \ {0} /\ SLOTS \in Nat \ {0} /\ MAX_DATA \in Nat \ {0}
    /\ RomPage = 1 .. ROM_PAGES /\ Slot = 1 .. SLOTS
    /\ "ff" \notin Names /\ "00" \notin Names
    /\ RomFree = -1 /\ RomTail = -2
  BY CoreComAssumption DEF RomPage, Slot, RomFree, RomTail

\* A file of `size' cells whose first page is `first' lies on the pages in
\* front of that one, each of which goes on with the page in front of it.
PagesAt(first, size) == first - PagesFor(size) + 1 .. first
Lies(tab, first, size) ==
    /\ tab.root /\ first \in RomPage /\ PagesFor(size) \in 1 .. first
    /\ \A p \in PagesAt(first, size) :
          tab.fat[p] = IF p = first - PagesFor(size) + 1 THEN RomTail ELSE p - 1

\* A walk along the chains.
Link == RomPage \cup {0, RomFree, RomTail}
RomWalk(f, m, w) ==
    w = [k \in 0 .. m |->
            [p \in Link |->
                IF k = 0 \/ p \notin RomPage THEN <<>> ELSE <<p>> \o w[k - 1][f[p]]]]

\* There is one.
LEMMA RomWalks ==
    ASSUME NEW f, NEW m \in Nat
    PROVE  \E w : RomWalk(f, m, w)
<1> DEFINE S == {i \in Nat : ~ \E w : RomWalk(f, i, w)}
<1> SUFFICES ASSUME S # {} PROVE FALSE
  OBVIOUS
<1>1. PICK i \in S : \A y \in S : i <= y
  <2>1. S \subseteq Nat
    OBVIOUS
  <2> HIDE DEF S
  <2> QED BY <2>1, LeastIn
<1>2. i \in Nat /\ ~ \E w : RomWalk(f, i, w)
  BY <1>1
<1>3. i # 0
  <2> DEFINE w == [k \in 0 .. 0 |-> [p \in Link |-> <<>>]]
  <2>1. w = [k \in 0 .. 0 |->
                [p \in Link |->
                    IF k = 0 \/ p \notin RomPage THEN <<>> ELSE <<p>> \o w[k - 1][f[p]]]]
    OBVIOUS
  <2> HIDE DEF w
  <2>2. RomWalk(f, 0, w)
    BY <2>1, Zenon DEF RomWalk
  <2> QED BY <1>2, <2>2
<1>4. PICK w : RomWalk(f, i - 1, w)
  <2>1. i - 1 \in Nat /\ ~(i <= i - 1)
    BY <1>2, <1>3
  <2>2. i - 1 \notin S
    BY <1>1, <2>1
  <2> QED BY <2>1, <2>2
<1> DEFINE Row(v, k) == [p \in Link |->
                            IF k = 0 \/ p \notin RomPage THEN <<>> ELSE <<p>> \o v[k - 1][f[p]]]
           x == [k \in 0 .. i |-> IF k = i THEN Row(w, i) ELSE w[k]]
<1>5. \A k \in 0 .. i - 1 : w[k] = Row(w, k)
  BY <1>4, Zenon DEF RomWalk
<1>6. \A k \in 0 .. i : x[k] = Row(x, k)
  <2> TAKE k \in 0 .. i
  <2>1. k # 0 => k - 1 \in 0 .. i /\ k - 1 # i
    BY <1>2
  <2>2. k # 0 => x[k - 1] = w[k - 1]
    BY <2>1
  <2> HIDE DEF x
  <2>3. Row(x, k) = Row(w, k)
    <3>1. CASE k = 0
      BY <3>1
    <3>2. CASE k # 0
      BY <2>2, <3>2
    <3> QED BY <3>1, <3>2
  <2>4. x[k] = IF k = i THEN Row(w, i) ELSE w[k]
    BY DEF x
  <2>5. k # i => k \in 0 .. i - 1
    BY <1>2
  <2> HIDE DEF Row
  <2> QED BY <1>5, <2>3, <2>4, <2>5
<1>7. x = [k \in 0 .. i |-> Row(x, k)]
  <2> DEFINE y == [k \in 0 .. i |-> Row(x, k)]
  <2>1. \A k \in 0 .. i : x[k] = y[k]
    <3> HIDE DEF x, Row
    <3> QED BY <1>6
  <2>2. x = [k \in 0 .. i |-> x[k]] /\ y = [k \in 0 .. i |-> y[k]]
    OBVIOUS
  <2> HIDE DEF x, y
  <2>3. x = y
    BY <2>1, <2>2
  <2> QED BY <2>3 DEF y
<1>8. RomWalk(f, i, x)
  <2> HIDE DEF x
  <2> QED BY <1>7, Zenon DEF RomWalk
<1> QED BY <1>2, <1>8

\* The pages of a file as the kernel finds them are counted down from the
\* first.
LEMMA ChainOf ==
    ASSUME NEW first, NEW size, Lies(rom.tab, first, size)
    PROVE  RomChain(first) = [j \in 1 .. PagesFor(size) |-> first - j + 1]
<1> DEFINE f == rom.tab.fat
           W == CHOOSE w : RomWalk(f, ROM_PAGES, w)
           n == PagesFor(size)
           lo == first - n + 1
<1>1. RomWalk(f, ROM_PAGES, W)
  <2>1. \E w : RomWalk(f, ROM_PAGES, w)
    BY RomWalks, RomConstants
  <2> QED BY <2>1, Zenon
<1>2. RomChain(first) = W[ROM_PAGES][first]
  BY Zenon DEF RomChain, RomWalk, Link
<1> HIDE DEF W
<1>3. \A k \in 0 .. ROM_PAGES, p \in Link :
          W[k][p] = IF k = 0 \/ p \notin RomPage THEN <<>> ELSE <<p>> \o W[k - 1][f[p]]
  <2> TAKE k \in 0 .. ROM_PAGES, p \in Link
  <2>1. W[k] = [x \in Link |-> IF k = 0 \/ x \notin RomPage THEN <<>> ELSE <<x>> \o W[k - 1][f[x]]]
    BY <1>1, Zenon DEF RomWalk
  <2> QED BY <2>1, Zenon
<1>4. /\ first \in Nat /\ n \in Nat /\ lo \in Nat /\ lo >= 1 /\ lo <= first /\ first <= ROM_PAGES
      /\ \A p \in lo .. first : p \in RomPage /\ p \in Link /\ f[p] = IF p = lo THEN RomTail ELSE p - 1
  <2>1. first \in 1 .. ROM_PAGES /\ n \in 1 .. first /\ PagesAt(first, size) = lo .. first
    BY RomConstants DEF Lies, PagesAt
  <2>2. \A p \in lo .. first : f[p] = IF p = lo THEN RomTail ELSE p - 1
    BY <2>1 DEF Lies
  <2> HIDE DEF n
  <2>3. first \in Nat /\ n \in Nat /\ lo \in Nat /\ lo >= 1 /\ lo <= first /\ first <= ROM_PAGES
    BY <2>1, RomConstants
  <2>4. \A p \in lo .. first : p \in RomPage
    BY <2>3, RomConstants
  <2> HIDE DEF lo
  <2> QED BY <2>2, <2>3, <2>4 DEF Link
<1> HIDE DEF f, n, lo
<1> DEFINE Down(p) == [j \in 1 .. p - lo + 1 |-> p - j + 1]
           S == {p \in lo .. first : \E k \in 0 .. ROM_PAGES : k >= p - lo + 1 /\ W[k][p] # Down(p)}
<1>5. S = {}
  <2> SUFFICES ASSUME S # {} PROVE FALSE
    OBVIOUS
  <2>1. PICK p \in S : \A y \in S : p <= y
    <3>1. S \subseteq Nat
      BY <1>4
    <3> HIDE DEF S
    <3> QED BY <3>1, LeastIn
  <2>2. PICK k \in 0 .. ROM_PAGES : k >= p - lo + 1 /\ W[k][p] # Down(p)
    OBVIOUS
  <2>3. /\ p \in lo .. first /\ p \in Nat /\ k \in Nat /\ k # 0 /\ k - 1 \in 0 .. ROM_PAGES
        /\ p \in RomPage /\ p \in Link
    BY <1>4, <2>2, RomConstants
  <2>4. W[k][p] = <<p>> \o W[k - 1][f[p]]
    BY <1>3, <2>3
  <2> HIDE DEF S
  <2>5. CASE p = lo
    <3>1. f[p] = RomTail /\ RomTail \in Link /\ RomTail \notin RomPage
      BY <1>4, <2>3, <2>5, RomConstants DEF Link
    <3>2. W[k - 1][f[p]] = <<>>
      BY <1>3, <2>3, <3>1
    <3>3. W[k][p] = <<p>>
      BY <2>4, <3>2
    <3>4. Down(p) = [j \in 1 .. 1 |-> p - j + 1]
      BY <1>4, <2>5
    <3>5. \A j \in 1 .. 1 : p - j + 1 = p
      BY <2>3
    <3>6. Down(p) = <<p>>
      <4> HIDE DEF Down
      <4> QED BY <3>4, <3>5
    <3> QED BY <2>2, <3>3, <3>6
  <2>6. CASE p # lo
    <3>1. /\ f[p] = p - 1 /\ p - 1 \in lo .. first /\ p - 1 \in Nat /\ ~(p <= p - 1)
          /\ k - 1 >= (p - 1) - lo + 1
      BY <1>4, <2>2, <2>3, <2>6
    <3>2. p - 1 \notin S
      BY <2>1, <3>1
    <3>3. W[k - 1][p - 1] = Down(p - 1)
      BY <2>3, <3>1, <3>2 DEF S
    <3>4. W[k][p] = <<p>> \o Down(p - 1)
      BY <2>4, <3>1, <3>3
    <3>5. <<p>> \o Down(p - 1) = Down(p)
      <4> DEFINE l == p - lo
      <4>1. l \in Nat /\ (p - 1) - lo + 1 = l /\ p - lo + 1 = l + 1
        BY <1>4, <2>3, <3>1
      <4>2. Down(p - 1) = [j \in 1 .. l |-> (p - 1) - j + 1] /\ Down(p) = [j \in 1 .. l + 1 |-> p - j + 1]
        BY <4>1
      <4> HIDE DEF Down, l
      <4>3. \A j \in 1 .. l : (p - 1) - j + 1 \in Int
        BY <2>3, <4>1
      <4>4. \A j \in 1 .. l + 1 : p - j + 1 \in Int
        BY <2>3, <4>1
      <4>5. Down(p - 1) \in Seq(Int) /\ Len(Down(p - 1)) = l
        BY <4>1, <4>2, <4>3
      <4>6. Down(p) \in Seq(Int) /\ Len(Down(p)) = l + 1
        BY <4>1, <4>2, <4>4
      <4>7. p \in Int /\ <<p>> \in Seq(Int) /\ Len(<<p>>) = 1 /\ <<p>>[1] = p
        BY ONLY <2>3
      <4> DEFINE u == <<p>>
                 v == Down(p - 1)
                 w == Down(p)
      <4>8. v \in Seq(Int) /\ Len(v) = l /\ \A j \in 1 .. l : v[j] = p - j
        BY ONLY <4>2, <4>5, <4>7, <4>1
      <4>9. w \in Seq(Int) /\ Len(w) = l + 1 /\ \A j \in 1 .. l + 1 : w[j] = p - j + 1
        BY ONLY <4>2, <4>6
      <4>10. u \in Seq(Int) /\ Len(u) = 1 /\ u[1] = p
        BY ONLY <4>7
      <4> HIDE DEF u, v, w
      <4>11. /\ u \o v \in Seq(Int) /\ Len(u \o v) = 1 + l
              /\ \A j \in 1 .. 1 + l : (u \o v)[j] = IF j <= 1 THEN u[j] ELSE v[j - 1]
        <5>1. /\ u \o v \in Seq(Int) /\ Len(u \o v) = Len(u) + Len(v)
              /\ \A j \in 1 .. Len(u) + Len(v) :
                    (u \o v)[j] = IF j <= Len(u) THEN u[j] ELSE v[j - Len(u)]
          BY ONLY <4>8, <4>10, ConcatProperties, Zenon
        <5> QED BY ONLY <4>8, <4>10, <5>1
      <4>12. ASSUME NEW j \in 1 .. 1 + l PROVE (u \o v)[j] = w[j]
        <5>1. (u \o v)[j] = IF j <= 1 THEN u[j] ELSE v[j - 1]
          BY ONLY <4>11, <4>12
        <5>2. w[j] = p - j + 1
          BY ONLY <4>1, <4>9, <4>12
        <5>3. CASE j = 1
          BY ONLY <4>7, <4>10, <5>1, <5>2, <5>3
        <5>4. CASE j # 1
          <6>1. j - 1 \in 1 .. l /\ j \in Int /\ ~ (j <= 1)
            BY ONLY <4>1, <4>12, <5>4
          <6>2. v[j - 1] = p - (j - 1)
            BY ONLY <4>8, <6>1
          <6> QED BY ONLY <4>7, <5>1, <5>2, <6>1, <6>2
        <5> QED BY ONLY <5>3, <5>4
      <4>13. u \o v = w
        <5>1. Len(w) = 1 + l
          BY ONLY <4>1, <4>9
        <5>2. w \in Seq(Int)
          BY ONLY <4>9
        <5> QED BY ONLY <4>11, <4>12, <5>1, <5>2, SeqEqual, Zenon
      <4> QED BY ONLY <4>13 DEF u, v, w
    <3> QED BY <2>2, <3>4, <3>5
  <2> QED BY <2>5, <2>6
<1>6. W[ROM_PAGES][first] = Down(first)
  <2>1. first \in lo .. first /\ ROM_PAGES \in 0 .. ROM_PAGES /\ ROM_PAGES >= first - lo + 1
    BY <1>4, RomConstants
  <2>2. first \notin S
    BY <1>5
  <2> QED BY <2>1, <2>2
<1>7. Down(first) = [j \in 1 .. n |-> first - j + 1]
  BY <1>4 DEF lo
<1> QED BY <1>2, <1>6, <1>7 DEF n

\* A chain that begins nowhere.
LEMMA NoChain ==
    ASSUME NEW first \in {0, RomFree, RomTail}
    PROVE  RomChain(first) = <<>>
<1> DEFINE f == rom.tab.fat
           W == CHOOSE w : RomWalk(f, ROM_PAGES, w)
<1>1. RomWalk(f, ROM_PAGES, W)
  <2>1. \E w : RomWalk(f, ROM_PAGES, w)
    BY RomWalks, RomConstants
  <2> QED BY <2>1, Zenon
<1>2. RomChain(first) = W[ROM_PAGES][first]
  BY Zenon DEF RomChain, RomWalk, Link
<1> HIDE DEF W
<1>3. first \in Link /\ first \notin RomPage /\ ROM_PAGES \in 0 .. ROM_PAGES
  BY RomConstants DEF Link
<1>4. W[ROM_PAGES] = [x \in Link |-> IF ROM_PAGES = 0 \/ x \notin RomPage THEN <<>>
                                     ELSE <<x>> \o W[ROM_PAGES - 1][f[x]]]
  BY <1>1, <1>3, Zenon DEF RomWalk
<1> QED BY <1>2, <1>3, <1>4, Zenon

\* The table of the chains and the directory.
Ent == [name : Names \cup {"ff", "00"}, size : Int, fat : Int]
Tab == [root : BOOLEAN, fat : [RomPage -> Int], ents : [Slot -> Ent]]

\* The files of a table, and whether two of them share no page.
FilesIn(tab) == {i \in Slot : tab.ents[i].name \notin {"ff", "00"}}
NoShare(a, b) ==
    a.fat # RomFree /\ b.fat # RomFree => PagesAt(a.fat, a.size) \cap PagesAt(b.fat, b.size) = {}

\* The pages that are free lie behind all others, since none is ever given back.
FreeBehind(tab) ==
    \E m \in 1 .. ROM_PAGES + 1 : \A p \in RomPage : tab.fat[p] = RomFree <=> p >= m

\* An entry that was never used, one that was deleted, and those of files.
EntsOK(tab) ==
    \A i \in Slot :
        LET e == tab.ents[i]
        IN  /\ e.name = "ff" => e = Erased
            /\ e.name = "00" => e = Zeroed
            /\ e.name \in Names => e.size \in Nat /\ (e.fat # RomFree => Lies(tab, e.fat, e.size))
DirApart(tab) ==
    \A i, o \in FilesIn(tab) :
        i # o => tab.ents[i].name # tab.ents[o].name /\ NoShare(tab.ents[i], tab.ents[o])

TabOK(tab) == tab \in Tab /\ FreeBehind(tab) /\ EntsOK(tab) /\ DirApart(tab)

\* A file that newfile is making.
Making(tab, c, s) ==
    /\ c = [do |-> c.do, name |-> c.name, size |-> c.size, fat |-> c.fat]
    /\ c.name \in Names /\ c.size \in Nat
    /\ c.fat = RomFree => s
    /\ c.fat # RomFree => Lies(tab, c.fat, c.size)
    /\ \A i \in FilesIn(tab) : NoShare(tab.ents[i], c)
CmdOK ==
    \/ cmd = Idle
    \/ cmd = [do |-> "erase"] /\ rom.tab = Blank0
    \/ cmd.do = "del" /\ Making(rom.tab, cmd, short)
    \/ /\ cmd.do = "add" /\ Making(rom.tab, cmd, short)
       /\ \A i \in Slot : rom.tab.ents[i].name # cmd.name
       /\ sent[cmd.name] = {}

\* What was sent to a file is in its pages.
CellsOK(tab, cells, s) ==
    \A i \in FilesIn(tab) : \A pos \in s[tab.ents[i].name] :
        LET e == tab.ents[i]
        IN  /\ e.fat # RomFree /\ pos < e.size
            /\ cells[e.fat - (pos \div ROM_PAGE)][pos % ROM_PAGE] = <<e.name, pos>>

\* The cells are the content of all pages.
CellTable(cells) == cells = [p \in RomPage |-> [j \in 0 .. ROM_PAGE - 1 |-> cells[p][j]]]

\* The flash between any two writes of the monitor.
RomInv ==
    /\ rom = [tab |-> rom.tab, cells |-> rom.cells] /\ CellTable(rom.cells)
    /\ filed \in Slot \cup {-1} /\ stray \in BOOLEAN /\ short \in BOOLEAN
    /\ sent \in [Names -> SUBSET Nat]
    /\ TabOK(rom.tab) /\ CmdOK /\ CellsOK(rom.tab, rom.cells, sent)
    /\ \A i \in FilesIn(rom.tab) : rom.tab.ents[i].fat = RomFree => short
    /\ filed = -1 => short
    /\ stray => short

\* What new_fat takes are the first free pages, m to t.
LEMMA NewFatTakes ==
    ASSUME NEW tab, TabOK(tab), NEW n \in Nat \ {0}
    PROVE  \E m \in 1 .. ROM_PAGES + 1 : \E t \in m - 1 .. ROM_PAGES :
              /\ \A p \in RomPage : tab.fat[p] = RomFree <=> p >= m
              /\ NewFat(tab, n) =
                    [root |-> tab.root \/ m <= t,
                     fat |-> [p \in RomPage |-> IF p \in m .. t THEN IF p = m THEN RomTail ELSE p - 1
                                                ELSE tab.fat[p]],
                     ents |-> tab.ents]
              /\ FirstFat(tab.fat, n) = IF t - m + 1 = n THEN t ELSE RomFree
<1>1. PICK m \in 1 .. ROM_PAGES + 1 : \A p \in RomPage : tab.fat[p] = RomFree <=> p >= m
  BY DEF TabOK, FreeBehind
<1> DEFINE free == {p \in RomPage : tab.fat[p] = RomFree}
           t == IF m + n - 1 <= ROM_PAGES THEN m + n - 1 ELSE ROM_PAGES
           taken == Taking(tab.fat, n)
<1>2. m \in Nat /\ m >= 1 /\ m <= ROM_PAGES + 1 /\ n \in Nat /\ n >= 1 /\ ROM_PAGES \in Nat
  BY RomConstants
<1>3. t \in m - 1 .. ROM_PAGES /\ t \in Int
  BY <1>2
<1>4. free = m .. ROM_PAGES
  BY <1>1, <1>2, RomConstants
<1>5. \A p \in free : {q \in free : q < p} = m .. p - 1 /\ Cardinality(m .. p - 1) = p - m
  <2> HIDE DEF free
  <2> TAKE p \in free
  <2>1. p \in Int /\ p - 1 \in Int /\ m \in Int /\ p >= m /\ p <= ROM_PAGES
    BY <1>2, <1>4
  <2>2. {q \in free : q < p} = m .. p - 1
    BY <1>2, <1>4, <2>1
  <2>3. Cardinality(m .. p - 1) = IF m > p - 1 THEN 0 ELSE (p - 1) - m + 1
    BY <2>1, FS_Interval, Zenon
  <2> QED BY <2>1, <2>2, <2>3
<1>6. taken = m .. t
  <2>1. taken = {p \in free : Cardinality({q \in free : q < p}) < n}
    BY Zenon DEF Taking
  <2>2. taken = {p \in free : p - m < n}
    <3> HIDE DEF free, taken
    <3> QED BY <1>5, <2>1
  <2> HIDE DEF free, taken
  <2> QED BY <1>2, <1>4, <2>2
<1>7. Cardinality(taken) = t - m + 1
  <2> HIDE DEF t, taken
  <2>1. m \in Int
    BY <1>2
  <2>2. Cardinality(m .. t) = IF m > t THEN 0 ELSE t - m + 1
    BY <1>3, <2>1, FS_Interval, Zenon
  <2> QED BY <1>2, <1>3, <1>6, <2>2
<1>8. \A p \in m .. t : Greatest({q \in m .. t : q < p}) = p - 1 \/ p = m
  <2> TAKE p \in m .. t
  <2> HIDE DEF t
  <2>1. CASE p # m
    <3> DEFINE S == {q \in m .. t : q < p}
    <3>1. p - 1 \in S /\ \A q \in S : q <= p - 1 /\ (p - 1 <= q => q = p - 1)
      BY <1>2, <1>3, <2>1
    <3> HIDE DEF S
    <3>2. Greatest(S) = p - 1
      BY <3>1 DEF Greatest
    <3> QED BY <3>2 DEF S
  <2> QED BY <2>1
<1>9. \A p \in m .. t : {q \in m .. t : q < p} = {} <=> p = m
  BY <1>2, <1>3
<1>10. Chained(tab.fat, taken) =
          [p \in RomPage |-> IF p \in m .. t THEN IF p = m THEN RomTail ELSE p - 1 ELSE tab.fat[p]]
  <2>1. Chained(tab.fat, taken) =
           [p \in RomPage |-> IF p \notin taken THEN tab.fat[p]
                              ELSE IF {q \in taken : q < p} = {} THEN RomTail
                                   ELSE Greatest({q \in taken : q < p})]
    BY Zenon DEF Chained
  <2> HIDE DEF t, taken
  <2>2. ASSUME NEW p \in RomPage
        PROVE  (IF p \notin taken THEN tab.fat[p]
                ELSE IF {q \in taken : q < p} = {} THEN RomTail ELSE Greatest({q \in taken : q < p}))
                   = IF p \in m .. t THEN IF p = m THEN RomTail ELSE p - 1 ELSE tab.fat[p]
    BY <1>6, <1>8, <1>9
  <2> QED BY <2>1, <2>2
<1>11. FirstFat(tab.fat, n) = IF t - m + 1 = n THEN t ELSE RomFree
  <2>1. FirstFat(tab.fat, n) = IF Cardinality(taken) = n THEN Greatest(taken) ELSE RomFree
    BY Zenon DEF FirstFat
  <2> HIDE DEF t, taken
  <2>2. CASE t - m + 1 = n
    <3>1. t \in taken /\ \A q \in taken : q <= t /\ (t <= q => q = t)
      BY <1>2, <1>3, <1>6, <2>2
    <3>2. Greatest(taken) = t
      BY <3>1 DEF Greatest
    <3> QED BY <1>7, <2>1, <2>2, <3>2
  <2> QED BY <1>7, <2>1, <2>2
<1>12. taken # {} <=> m <= t
  <2> HIDE DEF t, taken
  <2> QED BY <1>2, <1>3, <1>6
<1>13. NewFat(tab, n) =
          [root |-> tab.root \/ m <= t,
           fat |-> [p \in RomPage |-> IF p \in m .. t THEN IF p = m THEN RomTail ELSE p - 1
                                      ELSE tab.fat[p]],
           ents |-> tab.ents]
  <2> DEFINE F == Chained(tab.fat, taken)
             b == tab.root \/ taken # {}
  <2>1. NewFat(tab, n) = [tab EXCEPT !.fat = F, !.root = b]
    BY DEF NewFat
  <2>2. tab = [root |-> tab.root, fat |-> tab.fat, ents |-> tab.ents]
    BY DEF TabOK, Tab
  <2> HIDE DEF F, b
  <2>3. NewFat(tab, n) = [root |-> b, fat |-> F, ents |-> tab.ents]
    BY <2>1, <2>2
  <2>4. b = (tab.root \/ m <= t)
    BY <1>12 DEF b
  <2> QED BY <1>10, <2>3, <2>4, Zenon DEF F
<1> HIDE DEF t
<1> QED BY <1>1, <1>3, <1>11, <1>13

\* The pages of a file hold all its cells.
LEMMA SizeInPages ==
    ASSUME NEW size \in Nat
    PROVE  /\ PagesFor(size) \in Nat \ {0}
           /\ PagesFor(size) <= ROM_PAGES =>
                 \A pos \in Nat : pos < size => /\ pos \div ROM_PAGE \in 0 .. PagesFor(size) - 1
                                                /\ pos % ROM_PAGE \in 0 .. ROM_PAGE - 1
<1>1. CASE size = 0
  BY <1>1, RomConstants DEF PagesFor
<1>2. CASE size # 0
  <2> DEFINE d == (size - 1) \div ROM_PAGE
             r == (size - 1) % ROM_PAGE
  <2>1. d \in Nat /\ r \in 0 .. ROM_PAGE - 1 /\ size - 1 = ROM_PAGE * d + r
    BY <1>2, RomConstants
  <2>2. PagesFor(size) = d + 1
    BY <1>2 DEF PagesFor
  <2> HIDE DEF d, r
  <2>3. ASSUME NEW pos \in Nat, pos < size
        PROVE  pos \div ROM_PAGE \in 0 .. d /\ pos % ROM_PAGE \in 0 .. ROM_PAGE - 1
    <3> DEFINE k == pos \div ROM_PAGE
               j == pos % ROM_PAGE
    <3>1. k \in Nat /\ j \in 0 .. ROM_PAGE - 1 /\ pos = ROM_PAGE * k + j
      BY RomConstants
    <3> HIDE DEF k, j
    <3>2. ROM_PAGE * k <= ROM_PAGE * d + r
      BY <2>1, <2>3, <3>1, RomConstants
    <3>3. ROM_PAGE * k < ROM_PAGE * (d + 1)
      BY <2>1, <3>1, <3>2, RomConstants
    <3>4. k < d + 1
      BY <2>1, <3>1, <3>3, RomConstants
    <3>5. k \in 0 .. d
      BY <2>1, <3>1, <3>4
    <3> QED BY <3>1, <3>5 DEF k, j
  <2> QED BY <2>1, <2>2, <2>3
<1> QED BY <1>1, <1>2

\* The pages of a file are in use, and the file stays where it is while other
\* pages are taken.
LEMMA LiesStays ==
    ASSUME NEW tab, NEW first, NEW size, Lies(tab, first, size), NEW tab2,
           tab.root => tab2.root,
           \A p \in RomPage : tab.fat[p] # RomFree => tab2.fat[p] = tab.fat[p]
    PROVE  /\ \A p \in PagesAt(first, size) : p \in RomPage /\ tab.fat[p] # RomFree
           /\ Lies(tab2, first, size)
<1> DEFINE n == PagesFor(size)
           lo == first - n + 1
<1>1. /\ tab.root /\ first \in 1 .. ROM_PAGES /\ n \in 1 .. first
      /\ PagesAt(first, size) = lo .. first
      /\ \A p \in lo .. first : tab.fat[p] = IF p = lo THEN RomTail ELSE p - 1
  BY RomConstants DEF Lies, PagesAt
<1> HIDE DEF n
<1>2. lo \in Nat /\ lo >= 1 /\ first \in Nat /\ first <= ROM_PAGES
  BY <1>1, RomConstants
<1>3. \A p \in lo .. first : p \in RomPage /\ tab.fat[p] # RomFree
  <2> HIDE DEF lo
  <2> QED BY <1>1, <1>2, RomConstants
<1>4. \A p \in lo .. first : tab2.fat[p] = IF p = lo THEN RomTail ELSE p - 1
  <2> HIDE DEF lo
  <2> QED BY <1>1, <1>3
<1>5. first \in RomPage
  BY <1>1, RomConstants
<1> QED BY <1>1, <1>3, <1>4, <1>5 DEF Lies, n

\* An entry is written.
LEMMA EntryWritten ==
    ASSUME NEW tab, TabOK(tab), NEW i \in Slot, NEW e,
           \/ e = Zeroed
           \/ /\ e \in [name : Names, size : Nat, fat : Int]
              /\ e.fat # RomFree => Lies(tab, e.fat, e.size)
              /\ \A k \in FilesIn(tab) \ {i} : tab.ents[k].name # e.name /\ NoShare(tab.ents[k], e),
           NEW tab2,
           tab2 = [root |-> tab.root, fat |-> tab.fat, ents |-> [tab.ents EXCEPT ![i] = e]]
    PROVE  /\ TabOK(tab2)
           /\ tab2.ents[i] = e /\ \A k \in Slot \ {i} : tab2.ents[k] = tab.ents[k]
           /\ FilesIn(tab2) = IF e = Zeroed THEN FilesIn(tab) \ {i} ELSE FilesIn(tab) \cup {i}
           /\ \A f, s : Lies(tab2, f, s) <=> Lies(tab, f, s)
<1>1. /\ tab = [root |-> tab.root, fat |-> tab.fat, ents |-> tab.ents]
      /\ tab.root \in BOOLEAN /\ tab.fat \in [RomPage -> Int] /\ tab.ents \in [Slot -> Ent]
  BY DEF TabOK, Tab
<1>2. e \in Ent
  BY DEF Ent, Zeroed
<1>3. /\ tab2.root = tab.root /\ tab2.fat = tab.fat /\ tab2.ents[i] = e
      /\ \A k \in Slot \ {i} : tab2.ents[k] = tab.ents[k]
      /\ tab2 \in Tab
  <2>1. tab2.root = tab.root /\ tab2.fat = tab.fat /\ tab2.ents = [tab.ents EXCEPT ![i] = e]
    OBVIOUS
  <2>2. tab2.ents \in [Slot -> Ent]
    BY <1>1, <1>2, <2>1
  <2>3. tab2.ents[i] = e /\ \A k \in Slot \ {i} : tab2.ents[k] = tab.ents[k]
    BY <1>1, <2>1
  <2>4. tab2 = [root |-> tab2.root, fat |-> tab2.fat, ents |-> tab2.ents]
    OBVIOUS
  <2> QED BY <1>1, <2>1, <2>2, <2>3, <2>4 DEF Tab
<1>4. \A f, s : Lies(tab2, f, s) <=> Lies(tab, f, s)
  BY <1>3 DEF Lies
<1>5. FilesIn(tab2) = IF e = Zeroed THEN FilesIn(tab) \ {i} ELSE FilesIn(tab) \cup {i}
  <2>1. e # Zeroed => e.name \notin {"ff", "00"}
    BY RomConstants
  <2>2. Zeroed.name = "00"
    BY DEF Zeroed
  <2> QED BY <1>3, <2>1, <2>2 DEF FilesIn
<1>6. EntsOK(tab2)
  <2> SUFFICES ASSUME NEW k \in Slot
               PROVE  /\ tab2.ents[k].name = "ff" => tab2.ents[k] = Erased
                      /\ tab2.ents[k].name = "00" => tab2.ents[k] = Zeroed
                      /\ tab2.ents[k].name \in Names =>
                            /\ tab2.ents[k].size \in Nat
                            /\ tab2.ents[k].fat # RomFree =>
                                  Lies(tab2, tab2.ents[k].fat, tab2.ents[k].size)
    BY Zenon DEF EntsOK
  <2>1. CASE k = i
    <3>1. CASE e = Zeroed
      <4>1. Zeroed.name = "00" /\ "00" # "ff" /\ "00" \notin Names
        BY RomConstants DEF Zeroed
      <4> QED BY <1>3, <2>1, <3>1, <4>1
    <3>2. CASE e # Zeroed
      <4>1. e.name \in Names /\ e.size \in Nat /\ e.name # "ff" /\ e.name # "00"
            /\ (e.fat # RomFree => Lies(tab, e.fat, e.size))
        BY <3>2, RomConstants
      <4> QED BY <1>3, <1>4, <2>1, <4>1
    <3> QED BY <3>1, <3>2
  <2>2. CASE k # i
    <3>1. tab2.ents[k] = tab.ents[k]
      BY <1>3, <2>2
    <3>2. /\ tab.ents[k].name = "ff" => tab.ents[k] = Erased
          /\ tab.ents[k].name = "00" => tab.ents[k] = Zeroed
          /\ tab.ents[k].name \in Names =>
                /\ tab.ents[k].size \in Nat
                /\ tab.ents[k].fat # RomFree => Lies(tab, tab.ents[k].fat, tab.ents[k].size)
      BY Zenon DEF TabOK, EntsOK
    <3> QED BY <1>4, <3>1, <3>2
  <2> QED BY <2>1, <2>2
<1>7. DirApart(tab2)
  <2>1. \A a, b : NoShare(a, b) <=> NoShare(b, a)
    BY DEF NoShare
  <2> SUFFICES ASSUME NEW k \in FilesIn(tab2), NEW o \in FilesIn(tab2), k # o
               PROVE  /\ tab2.ents[k].name # tab2.ents[o].name
                      /\ NoShare(tab2.ents[k], tab2.ents[o])
    BY DEF DirApart
  <2>2. FilesIn(tab) \subseteq Slot
    BY DEF FilesIn
  <2>3. k = i => e # Zeroed
    BY <1>5
  <2>4. o = i => e # Zeroed
    BY <1>5
  <2>5. CASE k = i
    <3>1. o \in FilesIn(tab) \ {i} /\ tab2.ents[o] = tab.ents[o]
      BY <1>3, <1>5, <2>2, <2>5
    <3> QED BY <1>3, <2>1, <2>3, <2>5, <3>1
  <2>6. CASE o = i
    <3>1. k \in FilesIn(tab) \ {i} /\ tab2.ents[k] = tab.ents[k]
      BY <1>3, <1>5, <2>2, <2>6
    <3> QED BY <1>3, <2>1, <2>4, <2>6, <3>1
  <2>7. CASE k # i /\ o # i
    <3>1. /\ k \in FilesIn(tab) /\ o \in FilesIn(tab)
          /\ tab2.ents[k] = tab.ents[k] /\ tab2.ents[o] = tab.ents[o]
      BY <1>3, <1>5, <2>2, <2>7
    <3> QED BY <3>1 DEF TabOK, DirApart
  <2> QED BY <2>5, <2>6, <2>7
<1>8. FreeBehind(tab2)
  BY <1>3 DEF FreeBehind, TabOK
<1>9. TabOK(tab2)
  BY <1>3, <1>6, <1>7, <1>8 DEF TabOK
<1> QED BY <1>3, <1>4, <1>5, <1>9

\* newfile takes pages.
LEMMA NewFileKeeps ==
    ASSUME RomInv, NEW name \in Names, NEW size \in Nat, NewFile(name, size)
    PROVE  RomInv'
<1> DEFINE tab == rom.tab
           n == PagesFor(size)
           T == NewFat(tab, n)
           first == FirstFat(tab.fat, n)
<1>1. n \in Nat \ {0}
  BY SizeInPages
<1>2. /\ rom = [tab |-> rom.tab, cells |-> rom.cells] /\ TabOK(tab) /\ short \in BOOLEAN
      /\ tab = [root |-> tab.root, fat |-> tab.fat, ents |-> tab.ents]
      /\ tab.root \in BOOLEAN /\ tab.fat \in [RomPage -> Int] /\ tab.ents \in [Slot -> Ent]
  BY DEF RomInv, TabOK, Tab
<1>3. /\ rom' = [tab |-> T, cells |-> rom.cells]
      /\ cmd' = [do |-> "del", name |-> name, size |-> size, fat |-> first]
      /\ short' = (short \/ first = RomFree)
      /\ UNCHANGED <<filed, stray, sent>>
  <2>1. rom' = [rom EXCEPT !.tab = NewFat(@, n)]
    BY DEF NewFile
  <2> HIDE DEF n, T
  <2>2. rom' = [tab |-> NewFat(rom.tab, n), cells |-> rom.cells]
    BY <1>2, <2>1
  <2> QED BY <2>2 DEF NewFile, n, T
<1>4. PICK m \in 1 .. ROM_PAGES + 1 : \E t \in m - 1 .. ROM_PAGES :
         /\ \A p \in RomPage : tab.fat[p] = RomFree <=> p >= m
         /\ T = [root |-> tab.root \/ m <= t,
                 fat |-> [p \in RomPage |-> IF p \in m .. t THEN IF p = m THEN RomTail ELSE p - 1
                                            ELSE tab.fat[p]],
                 ents |-> tab.ents]
         /\ first = IF t - m + 1 = n THEN t ELSE RomFree
  <2> HIDE DEF n
  <2> QED BY <1>1, <1>2, NewFatTakes
<1>5. PICK t \in m - 1 .. ROM_PAGES :
         /\ \A p \in RomPage : tab.fat[p] = RomFree <=> p >= m
         /\ T = [root |-> tab.root \/ m <= t,
                 fat |-> [p \in RomPage |-> IF p \in m .. t THEN IF p = m THEN RomTail ELSE p - 1
                                            ELSE tab.fat[p]],
                 ents |-> tab.ents]
         /\ first = IF t - m + 1 = n THEN t ELSE RomFree
  <2> HIDE DEF T, first, n
  <2> QED BY <1>4
<1> HIDE DEF T, first, n
<1>6. /\ T.root = (tab.root \/ m <= t) /\ T.ents = tab.ents
      /\ \A p \in RomPage : T.fat[p] = IF p \in m .. t THEN IF p = m THEN RomTail ELSE p - 1
                                       ELSE tab.fat[p]
      /\ m \in Nat /\ m >= 1 /\ t \in Nat /\ t <= ROM_PAGES /\ t >= m - 1 /\ m <= ROM_PAGES + 1
  <2>1. m \in Nat /\ m >= 1 /\ t \in Nat /\ t <= ROM_PAGES /\ t >= m - 1 /\ m <= ROM_PAGES + 1
    BY RomConstants
  <2>2. T = [root |-> tab.root \/ m <= t,
             fat |-> [p \in RomPage |-> IF p \in m .. t THEN IF p = m THEN RomTail ELSE p - 1
                                        ELSE tab.fat[p]],
             ents |-> tab.ents]
    BY <1>5
  <2> HIDE DEF tab
  <2> QED BY <2>1, <2>2
<1>7. T \in Tab
  <2>1. ASSUME NEW p \in RomPage PROVE T.fat[p] \in Int
    <3>1. tab.fat[p] \in Int
      BY <1>2
    <3>2. p - 1 \in Int /\ RomTail \in Int
      BY RomConstants
    <3> HIDE DEF tab
    <3> QED BY <1>6, <3>1, <3>2
  <2>2. T.fat = [p \in RomPage |-> T.fat[p]] /\ T = [root |-> T.root, fat |-> T.fat, ents |-> T.ents]
    BY <1>5
  <2> QED BY <1>2, <1>6, <2>1, <2>2 DEF Tab
<1>8. FreeBehind(T)
  <2>1. t + 1 \in 1 .. ROM_PAGES + 1
    BY <1>6, RomConstants
  <2>2. \A p \in RomPage : T.fat[p] = RomFree <=> p >= t + 1
    BY <1>5, <1>6, RomConstants
  <2> QED BY <2>1, <2>2 DEF FreeBehind
<1>9. \A f, s : Lies(tab, f, s) => Lies(T, f, s) /\ \A p \in PagesAt(f, s) : p < m /\ p \in Nat
  <2> SUFFICES ASSUME NEW f, NEW s, Lies(tab, f, s)
               PROVE  Lies(T, f, s) /\ \A p \in PagesAt(f, s) : p < m /\ p \in Nat
    OBVIOUS
  <2>1. \A p \in RomPage : tab.fat[p] # RomFree => T.fat[p] = tab.fat[p]
    BY <1>5, <1>6, RomConstants
  <2>2. /\ \A p \in PagesAt(f, s) : p \in RomPage /\ tab.fat[p] # RomFree
        /\ Lies(T, f, s)
    BY <1>6, <2>1, LiesStays
  <2>3. \A p \in RomPage : ~(p >= m) => p < m /\ p \in Nat
    BY <1>6, RomConstants
  <2> QED BY <1>5, <2>2, <2>3
<1>10. FilesIn(T) = FilesIn(tab)
  BY <1>6 DEF FilesIn
<1>11. EntsOK(T)
  BY <1>2, <1>6, <1>9 DEF EntsOK, TabOK
<1>12. DirApart(T)
  BY <1>2, <1>6, <1>10 DEF DirApart, TabOK
<1>13. TabOK(T)
  BY <1>7, <1>8, <1>11, <1>12 DEF TabOK
<1>14. rom'.tab = T /\ rom'.cells = rom.cells /\ rom' = [tab |-> T, cells |-> rom.cells]
  BY <1>3
<1>15. CellsOK(rom'.tab, rom'.cells, sent')
  <2>1. CellsOK(tab, rom.cells, sent)
    BY DEF RomInv
  <2>2. T.ents = tab.ents /\ FilesIn(T) = FilesIn(tab)
    BY <1>6, <1>10
  <2> HIDE DEF tab
  <2>3. CellsOK(T, rom.cells, sent)
    BY <2>1, <2>2 DEF CellsOK
  <2>4. sent' = sent
    BY <1>3
  <2> QED BY <1>14, <2>3, <2>4
<1>16. ASSUME Making(T, cmd', short') PROVE RomInv'
  <2>1. CmdOK'
    BY <1>3, <1>14, <1>16 DEF CmdOK
  <2>2. /\ filed' \in Slot \cup {-1} /\ stray' \in BOOLEAN /\ short' \in BOOLEAN
        /\ sent' \in [Names -> SUBSET Nat] /\ CellTable(rom'.cells)
        /\ \A i \in FilesIn(rom'.tab) : rom'.tab.ents[i].fat = RomFree => short'
        /\ (filed' = -1 => short') /\ (stray' => short')
    BY <1>3, <1>6, <1>10, <1>14 DEF RomInv
  <2> QED BY <1>13, <1>14, <1>15, <2>1, <2>2 DEF RomInv
<1>17. CASE first = RomFree
  <2>1. Making(T, cmd', short')
    BY <1>3, <1>17 DEF Making, NoShare
  <2> QED BY <1>16, <2>1
<1>18. CASE first # RomFree
  <2>1. first = t /\ t - m + 1 = n /\ m <= t
    BY <1>1, <1>5, <1>6, <1>18
  <2>2. t - n + 1 = m /\ t \in RomPage /\ n \in 1 .. t
    BY <1>1, <1>6, <2>1, RomConstants
  <2>3. PagesAt(t, size) = m .. t
    BY <2>2 DEF PagesAt, n
  <2>4. Lies(T, t, size)
    <3>1. T.root
      BY <1>6, <2>1
    <3>2. \A p \in m .. t : T.fat[p] = IF p = m THEN RomTail ELSE p - 1
      BY <1>6, RomConstants
    <3> QED BY <2>2, <2>3, <3>1, <3>2 DEF Lies, n
  <2>5. \A i \in FilesIn(T) : NoShare(T.ents[i], cmd')
    <3> TAKE i \in FilesIn(T)
    <3>1. CASE tab.ents[i].fat = RomFree
      BY <1>6, <3>1 DEF NoShare
    <3>2. CASE tab.ents[i].fat # RomFree
      <4>1. Lies(tab, tab.ents[i].fat, tab.ents[i].size)
        <5>1. i \in Slot /\ tab.ents[i].name \in Names
          BY <1>2, <1>10 DEF FilesIn, Ent
        <5> QED BY <1>2, <3>2, <5>1 DEF TabOK, EntsOK
      <4>2. \A p \in PagesAt(tab.ents[i].fat, tab.ents[i].size) : p \notin m .. t
        BY <1>6, <1>9, <4>1
      <4>3. cmd'.fat = t /\ cmd'.size = size
        BY <1>3, <2>1
      <4> QED BY <1>6, <2>3, <4>2, <4>3 DEF NoShare
    <3> QED BY <3>1, <3>2
  <2>6. Making(T, cmd', short')
    BY <1>3, <2>1, <2>4, <2>5 DEF Making
  <2> QED BY <1>16, <2>6
<1> QED BY <1>17, <1>18

\* del_entry: what is left is in order, and nothing has the name.
LEMMA RemovedLeaves ==
    ASSUME TabOK(rom.tab), rom = [tab |-> rom.tab, cells |-> rom.cells], NEW name \in Names
    PROVE  LET T == Removed(name).tab
           IN  /\ Removed(name) = [tab |-> T, cells |-> rom.cells]
               /\ TabOK(T) /\ FilesIn(T) \subseteq FilesIn(rom.tab)
               /\ \A i \in FilesIn(T) : T.ents[i] = rom.tab.ents[i]
               /\ \A i \in Slot : T.ents[i].name # name
               /\ \A f, s : Lies(T, f, s) <=> Lies(rom.tab, f, s)
<1>1. CASE SlotOf(name) = {}
  <2>1. Removed(name) = rom
    BY <1>1 DEF Removed
  <2>2. \A i \in Slot : rom.tab.ents[i].name # name
    BY <1>1 DEF SlotOf
  <2> QED BY <2>1, <2>2
<1>2. CASE SlotOf(name) # {}
  <2> DEFINE i == Least(SlotOf(name))
             T == [rom.tab EXCEPT !.ents[i] = Zeroed]
  <2>1. i \in Slot /\ rom.tab.ents[i].name = name
    <3>1. SlotOf(name) \subseteq Nat
      BY RomConstants DEF SlotOf
    <3>2. i \in SlotOf(name)
      BY <1>2, <3>1, LeastIn
    <3> QED BY <3>2 DEF SlotOf
  <2>2. Removed(name) = [tab |-> T, cells |-> rom.cells]
    <3>1. Removed(name) = [rom EXCEPT !.tab.ents[i] = Zeroed]
      BY <1>2 DEF Removed
    <3> HIDE DEF i
    <3> QED BY <3>1
  <2> HIDE DEF i
  <2>3. /\ TabOK(T) /\ T.ents[i] = Zeroed /\ \A k \in Slot \ {i} : T.ents[k] = rom.tab.ents[k]
        /\ FilesIn(T) = FilesIn(rom.tab) \ {i}
        /\ \A f, s : Lies(T, f, s) <=> Lies(rom.tab, f, s)
    <3>1. T = [root |-> rom.tab.root, fat |-> rom.tab.fat, ents |-> [rom.tab.ents EXCEPT ![i] = Zeroed]]
      <4>1. rom.tab = [root |-> rom.tab.root, fat |-> rom.tab.fat, ents |-> rom.tab.ents]
        BY DEF TabOK, Tab
      <4> QED BY <4>1
    <3>2. T.ents[i] = Zeroed /\ \A k \in Slot \ {i} : T.ents[k] = rom.tab.ents[k]
      BY <2>1 DEF TabOK, Tab
    <3> HIDE DEF T
    <3>3. TabOK(T)
      BY <2>1, <3>1, EntryWritten
    <3>4. FilesIn(T) = FilesIn(rom.tab) \ {i}
      BY <2>1, <3>1, EntryWritten
    <3>5. \A f, s : Lies(T, f, s) <=> Lies(rom.tab, f, s)
      BY <2>1, <3>1, EntryWritten
    <3> QED BY <3>2, <3>3, <3>4, <3>5
  <2> HIDE DEF T
  <2>4. FilesIn(rom.tab) \subseteq Slot /\ Zeroed.name = "00" /\ name # "00" /\ name # "ff"
    BY RomConstants DEF FilesIn, Zeroed
  <2>5. \A k \in Slot : T.ents[k].name # name
    <3> TAKE k \in Slot
    <3>1. CASE k = i
      BY <2>3, <2>4, <3>1
    <3>2. CASE k # i
      <4>1. T.ents[k] = rom.tab.ents[k]
        BY <2>3, <3>2
      <4>2. ASSUME rom.tab.ents[k].name = name PROVE FALSE
        <5>1. k \in FilesIn(rom.tab) /\ i \in FilesIn(rom.tab)
          BY <2>1, <2>4, <4>2 DEF FilesIn
        <5> QED BY <2>1, <3>2, <4>2, <5>1 DEF TabOK, DirApart
      <4> QED BY <4>1, <4>2
    <3> QED BY <3>1, <3>2
  <2>6. Removed(name).tab = T
    BY <2>2
  <2> QED BY <2>2, <2>3, <2>4, <2>5, <2>6
<1> QED BY <1>1, <1>2

\* A file is deleted.
LEMMA RemovedKeeps ==
    ASSUME RomInv, NEW name \in Names, rom' = Removed(name), sent' = [sent EXCEPT ![name] = {}],
           UNCHANGED <<filed, stray, short>>,
           cmd' = Idle \/ (cmd.do = "del" /\ cmd.name = name /\ cmd' = [cmd EXCEPT !.do = "add"])
    PROVE  RomInv'
<1> DEFINE T == Removed(name).tab
<1>1. /\ rom' = [tab |-> T, cells |-> rom.cells]
      /\ TabOK(T) /\ FilesIn(T) \subseteq FilesIn(rom.tab)
      /\ \A i \in FilesIn(T) : T.ents[i] = rom.tab.ents[i]
      /\ \A i \in Slot : T.ents[i].name # name
      /\ \A f, s : Lies(T, f, s) <=> Lies(rom.tab, f, s)
  BY RemovedLeaves DEF RomInv
<1> HIDE DEF T
<1>2. rom'.tab = T /\ rom'.cells = rom.cells
  BY <1>1
<1>3. /\ sent' \in [Names -> SUBSET Nat] /\ sent'[name] = {}
      /\ \A x \in Names \ {name} : sent'[x] = sent[x]
  BY DEF RomInv
<1>4. CellsOK(T, rom.cells, sent')
  <2> SUFFICES ASSUME NEW i \in FilesIn(T), NEW pos \in sent'[T.ents[i].name]
               PROVE  /\ T.ents[i].fat # RomFree /\ pos < T.ents[i].size
                      /\ rom.cells[T.ents[i].fat - (pos \div ROM_PAGE)][pos % ROM_PAGE]
                             = <<T.ents[i].name, pos>>
    BY DEF CellsOK
  <2>1. T.ents[i].name \in Names \ {name} /\ T.ents[i] = rom.tab.ents[i] /\ i \in FilesIn(rom.tab)
    <3>1. i \in Slot /\ T.ents[i].name \in Names
      BY <1>1 DEF FilesIn, TabOK, Tab, Ent
    <3> QED BY <1>1, <3>1
  <2>2. pos \in sent[rom.tab.ents[i].name]
    BY <1>3, <2>1
  <2> QED BY <2>1, <2>2 DEF RomInv, CellsOK
<1>5. CmdOK'
  <2>1. CASE cmd' = Idle
    BY <2>1 DEF CmdOK
  <2>2. CASE cmd.do = "del" /\ cmd.name = name /\ cmd' = [cmd EXCEPT !.do = "add"]
    <3>1. Making(rom.tab, cmd, short)
      BY <2>2 DEF RomInv, CmdOK, Idle
    <3>2. cmd' = [do |-> "add", name |-> name, size |-> cmd.size, fat |-> cmd.fat]
      BY <2>2, <3>1 DEF Making
    <3>3. \A i \in FilesIn(T) : NoShare(T.ents[i], cmd')
      BY <1>1, <3>1, <3>2 DEF Making, NoShare
    <3>4. Making(T, cmd', short')
      <4>1. /\ cmd.size \in Nat /\ (cmd.fat = RomFree => short)
            /\ (cmd.fat # RomFree => Lies(rom.tab, cmd.fat, cmd.size))
        BY <3>1 DEF Making
      <4> QED BY <1>1, <3>2, <3>3, <4>1 DEF Making
    <3> QED BY <1>1, <1>2, <1>3, <3>2, <3>4 DEF CmdOK
  <2> QED BY <2>1, <2>2
<1>6. /\ filed' \in Slot \cup {-1} /\ stray' \in BOOLEAN /\ short' \in BOOLEAN
      /\ \A i \in FilesIn(T) : T.ents[i].fat = RomFree => short'
      /\ (filed' = -1 => short') /\ (stray' => short') /\ CellTable(rom.cells)
  BY <1>1 DEF RomInv
<1> QED BY <1>1, <1>2, <1>3, <1>4, <1>5, <1>6 DEF RomInv

\* new_entry
LEMMA NewFileAddKeeps ==
    ASSUME RomInv, NewFileAdd
    PROVE  RomInv'
<1> DEFINE e == [name |-> cmd.name, size |-> cmd.size, fat |-> cmd.fat]
           i == Least(SlotOf("ff"))
           T == [rom.tab EXCEPT !.ents[i] = e]
<1>1. /\ Making(rom.tab, cmd, short) /\ sent[cmd.name] = {}
      /\ \A k \in Slot : rom.tab.ents[k].name # cmd.name
  BY DEF NewFileAdd, RomInv, CmdOK, Idle
<1>2. /\ e \in [name : Names, size : Nat, fat : Int]
      /\ e.name = cmd.name /\ e.size = cmd.size /\ e.fat = cmd.fat
      /\ (e.fat # RomFree => Lies(rom.tab, e.fat, e.size)) /\ (e.fat = RomFree => short)
      /\ \A k \in FilesIn(rom.tab) : NoShare(rom.tab.ents[k], e) /\ rom.tab.ents[k].name # e.name
  <2>1. /\ cmd.name \in Names /\ cmd.size \in Nat /\ (cmd.fat = RomFree => short)
        /\ (cmd.fat # RomFree => Lies(rom.tab, cmd.fat, cmd.size))
        /\ \A k \in FilesIn(rom.tab) : NoShare(rom.tab.ents[k], cmd)
    BY <1>1 DEF Making
  <2>2. cmd.fat \in Int
    <3>1. cmd.fat = RomFree \/ cmd.fat \in RomPage
      BY <2>1 DEF Lies
    <3> QED BY <3>1, RomConstants
  <2>3. \A k \in FilesIn(rom.tab) : NoShare(rom.tab.ents[k], e)
    BY <2>1 DEF NoShare
  <2>4. FilesIn(rom.tab) \subseteq Slot
    BY DEF FilesIn
  <2> QED BY <1>1, <2>1, <2>2, <2>3, <2>4
<1> HIDE DEF e
<1>3. cmd' = Idle /\ UNCHANGED <<stray, sent>> /\ CmdOK'
  BY DEF NewFileAdd, CmdOK
<1>4. rom = [tab |-> rom.tab, cells |-> rom.cells]
  BY DEF RomInv
<1>5. CASE SlotOf("ff") = {}
  <2>1. filed' = -1 /\ short' = TRUE /\ rom' = rom
    BY <1>5 DEF NewFileAdd
  <2> QED BY <1>3, <2>1 DEF RomInv
<1>6. CASE SlotOf("ff") # {}
  <2>1. i \in Slot /\ rom.tab.ents[i].name = "ff"
    <3>1. SlotOf("ff") \subseteq Nat
      BY RomConstants DEF SlotOf
    <3>2. i \in SlotOf("ff")
      BY <1>6, <3>1, LeastIn
    <3> QED BY <3>2 DEF SlotOf
  <2>2. rom' = [tab |-> T, cells |-> rom.cells] /\ filed' = i /\ short' = short
    <3>1. rom' = [rom EXCEPT !.tab.ents[i] = e] /\ filed' = i /\ short' = short
      BY <1>6 DEF NewFileAdd, e
    <3> HIDE DEF i
    <3> QED BY <1>4, <3>1
  <2> HIDE DEF i
  <2>3. e # Zeroed
    BY <1>2, RomConstants DEF Zeroed
  <2>4. /\ TabOK(T) /\ T.ents[i] = e /\ \A k \in Slot \ {i} : T.ents[k] = rom.tab.ents[k]
        /\ FilesIn(T) = FilesIn(rom.tab) \cup {i}
    <3>1. TabOK(rom.tab)
      BY DEF RomInv
    <3>2. /\ e \in [name : Names, size : Nat, fat : Int]
          /\ e.fat # RomFree => Lies(rom.tab, e.fat, e.size)
          /\ \A k \in FilesIn(rom.tab) \ {i} : /\ rom.tab.ents[k].name # e.name
                                             /\ NoShare(rom.tab.ents[k], e)
      BY <1>2
    <3>3. T = [root |-> rom.tab.root, fat |-> rom.tab.fat, ents |-> [rom.tab.ents EXCEPT ![i] = e]]
      <4>1. rom.tab = [root |-> rom.tab.root, fat |-> rom.tab.fat, ents |-> rom.tab.ents]
        BY <3>1 DEF TabOK, Tab
      <4> QED BY <4>1
    <3>4. T.ents[i] = e /\ \A k \in Slot \ {i} : T.ents[k] = rom.tab.ents[k]
      BY <2>1, <3>1 DEF TabOK, Tab
    <3> HIDE DEF T
    <3>5. TabOK(T)
      BY <2>1, <3>1, <3>2, <3>3, EntryWritten
    <3>6. FilesIn(T) = FilesIn(rom.tab) \cup {i}
      BY <2>1, <2>3, <3>1, <3>2, <3>3, EntryWritten
    <3> QED BY <3>4, <3>5, <3>6
  <2> HIDE DEF T
  <2>5. rom'.tab = T /\ rom'.cells = rom.cells
    BY <2>2
  <2>6. \A k \in FilesIn(T) : k = i \/ (k \in FilesIn(rom.tab) /\ T.ents[k] = rom.tab.ents[k])
    BY <2>3, <2>4 DEF FilesIn
  <2>7. CellsOK(T, rom.cells, sent)
    <3>1. CellsOK(rom.tab, rom.cells, sent)
      BY DEF RomInv
    <3>2. sent[T.ents[i].name] = {}
      BY <1>1, <1>2, <2>4
    <3>3. ASSUME NEW k \in FilesIn(T), NEW pos \in sent[T.ents[k].name]
          PROVE  k \in FilesIn(rom.tab) /\ T.ents[k] = rom.tab.ents[k]
      BY <2>6, <3>2, <3>3
    <3> QED BY <3>1, <3>3 DEF CellsOK
  <2>8. \A k \in FilesIn(T) : T.ents[k].fat = RomFree => short
    BY <1>2, <2>4, <2>6 DEF RomInv
  <2>9. i # -1
    BY <2>1, RomConstants
  <2> QED BY <1>3, <2>1, <2>2, <2>4, <2>5, <2>7, <2>8, <2>9 DEF RomInv
<1> QED BY <1>5, <1>6

\* An erased disk.
LEMMA Blank ==
    TabOK(Blank0) /\ FilesIn(Blank0) = {} /\ CellTable(Unwritten)
<1>1. Erased = [name |-> "ff", size |-> -1, fat |-> -1] /\ "ff" \notin Names
  BY RomConstants DEF Erased
<1>2. /\ Blank0.root = FALSE /\ \A p \in RomPage : Blank0.fat[p] = RomFree
      /\ \A i \in Slot : Blank0.ents[i] = Erased
  BY DEF Blank0
<1>3. Blank0 \in Tab
  <2>1. Erased \in Ent /\ RomFree \in Int
    BY <1>1, RomConstants DEF Ent
  <2> QED BY <2>1 DEF Blank0, Tab
<1>4. FilesIn(Blank0) = {}
  BY <1>1, <1>2 DEF FilesIn
<1>5. FreeBehind(Blank0)
  <2>1. 1 \in 1 .. ROM_PAGES + 1 /\ \A p \in RomPage : p >= 1
    BY RomConstants
  <2> QED BY <1>2, <2>1 DEF FreeBehind
<1>6. EntsOK(Blank0) /\ DirApart(Blank0)
  BY <1>1, <1>2, <1>4 DEF EntsOK, DirApart
<1>7. CellTable(Unwritten)
  BY DEF CellTable, Unwritten
<1> QED BY <1>3, <1>4, <1>5, <1>6, <1>7 DEF TabOK

\* init
LEMMA EraseKeeps ==
    ASSUME RomInv, EraseFirst \/ EraseRest
    PROVE  RomInv'
<1>1. CASE EraseFirst
  <2>1. /\ rom' = [tab |-> Blank0, cells |-> rom.cells] /\ cmd' = [do |-> "erase"]
        /\ sent' = [n \in Names |-> {}] /\ short' = (filed = -1) /\ filed' = filed
        /\ stray' = stray /\ ~stray
    BY <1>1 DEF EraseFirst, Ready, RomInv
  <2>2. rom'.tab = Blank0 /\ rom'.cells = rom.cells
    BY <2>1
  <2>3. CmdOK'
    BY <2>1, <2>2 DEF CmdOK
  <2>4. CellsOK(Blank0, rom.cells, sent')
    BY Blank DEF CellsOK
  <2> QED BY <2>1, <2>2, <2>3, <2>4, Blank DEF RomInv
<1>2. CASE EraseRest
  <2>1. rom.tab = Blank0
    BY <1>2 DEF EraseRest, RomInv, CmdOK, Idle
  <2>2. /\ rom' = [tab |-> Blank0, cells |-> Unwritten] /\ cmd' = Idle
        /\ UNCHANGED <<filed, stray, short, sent>>
    BY <1>2, <2>1 DEF EraseRest, RomInv
  <2>3. rom'.tab = Blank0 /\ rom'.cells = Unwritten
    BY <2>2
  <2>4. CmdOK'
    BY <2>2 DEF CmdOK
  <2>5. CellsOK(Blank0, Unwritten, sent')
    BY Blank DEF CellsOK
  <2> QED BY <2>2, <2>3, <2>4, <2>5, Blank DEF RomInv
<1> QED BY <1>1, <1>2

\* Positions that follow one another are on the same page or on later ones.
LEMMA PagesInOrder ==
    ASSUME NEW x \in Nat, NEW y \in Nat, x <= y
    PROVE  x \div ROM_PAGE <= y \div ROM_PAGE /\ x \div ROM_PAGE \in Nat
<1> DEFINE a == x \div ROM_PAGE
           b == y \div ROM_PAGE
           r == x % ROM_PAGE
           s == y % ROM_PAGE
<1>1. a \in Nat /\ r \in 0 .. ROM_PAGE - 1 /\ x = ROM_PAGE * a + r
  BY RomConstants
<1>2. b \in Nat /\ s \in 0 .. ROM_PAGE - 1 /\ y = ROM_PAGE * b + s
  BY RomConstants
<1> HIDE DEF a, b, r, s
<1>3. ROM_PAGE * a < ROM_PAGE * (b + 1)
  BY <1>1, <1>2, RomConstants
<1>4. a < b + 1
  BY <1>1, <1>2, <1>3, RomConstants
<1>5. a <= b
  BY <1>1, <1>2, <1>4
<1> QED BY <1>1, <1>5 DEF a, b

\* The place of a position of a file.
LEMMA PlaceOf ==
    ASSUME NEW tab, NEW first, NEW size \in Nat, Lies(tab, first, size), NEW pos \in Nat, pos < size
    PROVE  /\ pos \div ROM_PAGE \in Nat /\ pos % ROM_PAGE \in 0 .. ROM_PAGE - 1
           /\ pos = (pos \div ROM_PAGE) * ROM_PAGE + (pos % ROM_PAGE)
           /\ first \in Nat /\ first - (pos \div ROM_PAGE) \in PagesAt(first, size)
           /\ first - (pos \div ROM_PAGE) \in RomPage
<1> DEFINE d == pos \div ROM_PAGE
           j == pos % ROM_PAGE
           n == PagesFor(size)
<1>1. d \in Nat /\ j \in 0 .. ROM_PAGE - 1 /\ pos = ROM_PAGE * d + j
  BY RomConstants
<1>2. first \in 1 .. ROM_PAGES /\ n \in 1 .. first
  BY RomConstants DEF Lies
<1>3. d \in 0 .. n - 1
  <2>1. n <= ROM_PAGES
    BY <1>2, RomConstants
  <2> QED BY <2>1, SizeInPages
<1> HIDE DEF d, j, n
<1>4. pos = d * ROM_PAGE + j
  BY <1>1, RomConstants
<1>5. first - d \in first - n + 1 .. first /\ first - d \in 1 .. ROM_PAGES
  BY <1>2, <1>3, RomConstants
<1> QED BY <1>1, <1>2, <1>4, <1>5, RomConstants DEF PagesAt, d, j, n

\* writedata of cells that lie inside the entry: this is a file, and the cells
\* are on its pages unless it has none.
LEMMA WriteInside ==
    ASSUME RomInv, filed # -1, NEW at \in Nat, NEW len \in Nat \ {0},
           Inside(rom.tab.ents[filed], at, len)
    PROVE  LET e == rom.tab.ents[filed]
           IN  /\ filed \in FilesIn(rom.tab) /\ e.name \in Names /\ e.fat \in Int /\ e.size \in Nat
               /\ at + len <= e.size
               /\ e.fat # RomFree =>
                     /\ Lies(rom.tab, e.fat, e.size)
                     /\ \A k \in at \div ROM_PAGE .. (at + len - 1) \div ROM_PAGE :
                           NodeOf(e, k) \in PagesAt(e.fat, e.size) /\ NodeOf(e, k) \in RomPage
               /\ e.fat = RomFree =>
                     /\ short
                     /\ \E k \in at \div ROM_PAGE .. (at + len - 1) \div ROM_PAGE :
                           NodeOf(e, k) \notin RomPage
<1> DEFINE e == rom.tab.ents[filed]
           a == at \div ROM_PAGE
           b == (at + len - 1) \div ROM_PAGE
<1>1. filed \in Slot /\ TabOK(rom.tab)
  BY DEF RomInv
<1>2. e \in Ent /\ e.name \in Names \cup {"ff", "00"} /\ e.fat \in Int
  BY <1>1 DEF TabOK, Tab, Ent
<1>3. e.size >= at + len
  BY DEF Inside
<1>4. /\ e.name = "ff" => e = Erased
      /\ e.name = "00" => e = Zeroed
      /\ e.name \in Names => e.size \in Nat /\ (e.fat # RomFree => Lies(rom.tab, e.fat, e.size))
  BY <1>1 DEF TabOK, EntsOK
<1>5. e.name \in Names /\ filed \in FilesIn(rom.tab)
  <2>1. Erased.size = -1 /\ Zeroed.size = 0 /\ at + len >= 1
    BY DEF Erased, Zeroed
  <2>2. e.name # "ff" /\ e.name # "00"
    <3> HIDE DEF e
    <3> QED BY <1>3, <1>4, <2>1
  <2> QED BY <1>1, <1>2, <2>2 DEF FilesIn
<1>6. e.size \in Nat /\ at + len <= e.size
  BY <1>3, <1>4, <1>5
<1>7. a \in Nat /\ b \in Nat /\ a <= b
  <2>1. at + len - 1 \in Nat /\ at <= at + len - 1
    OBVIOUS
  <2> QED BY <2>1, PagesInOrder
<1>8. a \in a .. b
  <2> HIDE DEF a, b
  <2> QED BY <1>7
<1>9. ASSUME e.fat # RomFree, NEW k \in a .. b
      PROVE  NodeOf(e, k) \in PagesAt(e.fat, e.size) /\ NodeOf(e, k) \in RomPage
  <2> DEFINE lo == e.fat - PagesFor(e.size) + 1
  <2>1. Lies(rom.tab, e.fat, e.size)
    BY <1>4, <1>5, <1>9
  <2>2. at + len - 1 \in Nat /\ at + len - 1 < e.size
    BY <1>6
  <2>3. e.fat - b \in lo .. e.fat
    <3>1. e.fat - b \in PagesAt(e.fat, e.size)
      BY <1>6, <2>1, <2>2, PlaceOf
    <3> QED BY <3>1 DEF PagesAt
  <2>4. e.fat \in 1 .. ROM_PAGES /\ lo \in 1 .. ROM_PAGES
    <3> DEFINE f == e.fat
               n == PagesFor(e.size)
    <3>1. f \in 1 .. ROM_PAGES /\ n \in 1 .. f
      BY <2>1, RomConstants DEF Lies
    <3> HIDE DEF f, n
    <3>2. f \in 1 .. ROM_PAGES /\ f - n + 1 \in 1 .. ROM_PAGES
      BY <3>1, RomConstants
    <3> QED BY <3>2 DEF f, n
  <2> HIDE DEF e, a, b, lo
  <2>5. k \in Nat /\ k <= b
    BY <1>7, <1>9
  <2>6. e.fat - k \in lo .. e.fat /\ e.fat - k \in 1 .. ROM_PAGES
    BY <1>7, <2>3, <2>4, <2>5, RomConstants
  <2> QED BY <2>6, RomConstants DEF NodeOf, PagesAt, lo
<1>10. ASSUME e.fat = RomFree
       PROVE  short /\ NodeOf(e, a) \notin RomPage
  <2>1. short
    BY <1>5, <1>10 DEF RomInv
  <2> HIDE DEF a
  <2>2. e.fat - a \notin RomPage
    BY <1>7, <1>10, RomConstants
  <2> QED BY <2>1, <2>2 DEF NodeOf
<1> HIDE DEF a, b
<1>11. /\ filed \in FilesIn(rom.tab) /\ e.name \in Names /\ e.fat \in Int /\ e.size \in Nat
       /\ at + len <= e.size
       /\ e.fat # RomFree => /\ Lies(rom.tab, e.fat, e.size)
                             /\ \A k \in a .. b :
                                   /\ NodeOf(e, k) \in PagesAt(e.fat, e.size)
                                   /\ NodeOf(e, k) \in RomPage
       /\ e.fat = RomFree => short /\ \E k \in a .. b : NodeOf(e, k) \notin RomPage
  BY <1>2, <1>4, <1>5, <1>6, <1>8, <1>9, <1>10
<1> QED BY <1>11, Zenon DEF a, b

\* The page numbers whose cell j is written on page p.
Hit(e, at, len, p, j) ==
    {k \in at \div ROM_PAGE .. (at + len - 1) \div ROM_PAGE :
        NodeOf(e, k) = p /\ k * ROM_PAGE + j \in at .. at + len - 1}

\* The cells are written: those of other files stay.
LEMMA WriteCells ==
    ASSUME RomInv, filed # -1, NEW o, NEW at \in Nat, NEW len \in Nat \ {0},
           Inside(rom.tab.ents[filed], at, len), rom.tab.ents[filed].fat # RomFree,
           \A p \in RomPage, j \in 0 .. ROM_PAGE - 1 :
               rom'.cells[p][j] = IF Hit(rom.tab.ents[filed], at, len, p, j) = {} THEN rom.cells[p][j]
                                  ELSE <<o, Least(Hit(rom.tab.ents[filed], at, len, p, j)) * ROM_PAGE + j>>,
           sent' = [sent EXCEPT ![rom.tab.ents[filed].name] =
                    IF o = rom.tab.ents[filed].name THEN @ \cup (at .. at + len - 1)
                    ELSE @ \ (at .. at + len - 1)]
    PROVE  CellsOK(rom.tab, rom'.cells, sent') /\ sent' \in [Names -> SUBSET Nat]
<1> DEFINE tab == rom.tab
           e == tab.ents[filed]
           D == at \div ROM_PAGE .. (at + len - 1) \div ROM_PAGE
           R == at .. at + len - 1
           cells == rom'.cells
           s == sent'
<1>1. /\ filed \in FilesIn(tab) /\ e.name \in Names /\ e.fat \in Int /\ e.size \in Nat
      /\ at + len <= e.size /\ Lies(tab, e.fat, e.size)
      /\ \A k \in D : NodeOf(e, k) \in PagesAt(e.fat, e.size) /\ NodeOf(e, k) \in RomPage
  BY WriteInside, Zenon
<1>2. /\ sent \in [Names -> SUBSET Nat] /\ R \subseteq Nat /\ TabOK(tab)
      /\ CellsOK(tab, rom.cells, sent)
  BY DEF RomInv
<1>3. s \in [Names -> SUBSET Nat]
  <2> HIDE DEF e, R
  <2> QED BY <1>1, <1>2 DEF e, R
<1>4. /\ s[e.name] = IF o = e.name THEN sent[e.name] \cup R ELSE sent[e.name] \ R
      /\ \A x \in Names \ {e.name} : s[x] = sent[x]
  <2> HIDE DEF tab
  <2> QED BY <1>1, <1>2 DEF tab
<1>5. \A p \in RomPage, j \in 0 .. ROM_PAGE - 1 :
         cells[p][j] = IF Hit(e, at, len, p, j) = {} THEN rom.cells[p][j]
                       ELSE <<o, Least(Hit(e, at, len, p, j)) * ROM_PAGE + j>>
  OBVIOUS
<1>6. \A p, j : Hit(e, at, len, p, j) = {k \in D : e.fat - k = p /\ k * ROM_PAGE + j \in R}
  BY Zenon DEF Hit, NodeOf
<1>7. D \subseteq Nat /\ \A x \in R : x \div ROM_PAGE \in D
  <2>1. \A x \in R : /\ x \in Nat /\ at <= x /\ x <= at + len - 1
                     /\ x \div ROM_PAGE >= at \div ROM_PAGE
                     /\ x \div ROM_PAGE <= (at + len - 1) \div ROM_PAGE
                     /\ x \div ROM_PAGE \in Nat
    BY PagesInOrder
  <2>2. at \div ROM_PAGE \in Nat /\ (at + len - 1) \div ROM_PAGE \in Nat
    BY PagesInOrder
  <2> QED BY <2>1, <2>2
<1>9. \A y \in R : y < e.size
  <2>1. e.size \in Nat /\ at + len <= e.size
    BY <1>1
  <2> HIDE DEF e
  <2> QED BY ONLY <2>1, at \in Nat, len \in Nat
<1>10. \A y \in s[e.name] : y \in R \/ y \in sent[e.name]
  <2> HIDE DEF e, s, R
  <2> QED BY ONLY <1>4
<1>11. \A y \in s[e.name] : (y \in R => o = e.name) /\ (y \notin R => y \in sent[e.name])
  <2> HIDE DEF e, s, R
  <2> QED BY ONLY <1>4
<1>8. ASSUME NEW i \in FilesIn(tab), NEW pos \in s[tab.ents[i].name]
      PROVE  /\ tab.ents[i].fat # RomFree /\ pos < tab.ents[i].size
             /\ cells[tab.ents[i].fat - (pos \div ROM_PAGE)][pos % ROM_PAGE] = <<tab.ents[i].name, pos>>
  <2> DEFINE x == tab.ents[i]
             d == pos \div ROM_PAGE
             j == pos % ROM_PAGE
  <2>1. i \in Slot /\ x.name \in Names /\ x.size \in Nat /\ (x.fat # RomFree => Lies(tab, x.fat, x.size))
    BY <1>2 DEF FilesIn, TabOK, Tab, Ent, EntsOK
  <2>2. pos \in Nat
    BY <1>3, <2>1
  <2>3. pos \in sent[x.name] =>
            x.fat # RomFree /\ pos < x.size /\ rom.cells[x.fat - d][j] = <<x.name, pos>>
    BY <1>2 DEF CellsOK
  <2>4. CASE i # filed
    <3>1. x.name # e.name /\ NoShare(x, e)
      BY <1>1, <1>2, <2>4 DEF TabOK, DirApart
    <3>2. x.fat # RomFree /\ pos < x.size /\ rom.cells[x.fat - d][j] = <<x.name, pos>>
      BY <1>4, <2>1, <2>3, <3>1
    <3>3. x.fat - d \in PagesAt(x.fat, x.size) /\ x.fat - d \in RomPage /\ j \in 0 .. ROM_PAGE - 1
      BY <2>1, <2>2, <3>2, PlaceOf
    <3>4. ASSUME NEW k \in D, e.fat - k = x.fat - d PROVE FALSE
      <4>1. e.fat - k \in PagesAt(e.fat, e.size)
        BY <1>1 DEF NodeOf
      <4>2. e.fat # RomFree
        BY <1>1, RomConstants DEF Lies
      <4> HIDE DEF e, x
      <4> QED BY <3>1, <3>2, <3>3, <3>4, <4>1, <4>2 DEF NoShare
    <3>5. Hit(e, at, len, x.fat - d, j) = {}
      <4> HIDE DEF D, e, x, d, j
      <4> QED BY <1>6, <3>4
    <3> QED BY <1>5, <3>2, <3>3, <3>5
  <2>5. CASE i = filed
    <3>1. e.fat # RomFree /\ pos < e.size
      <4>1. pos \in s[e.name] /\ e.fat # RomFree
        BY <1>1, <1>8, <2>5, RomConstants DEF Lies
      <4>2. x = e
        BY ONLY <2>5
      <4> HIDE DEF e, x, R, s
      <4>3. pos \in R => pos < e.size
        BY ONLY <1>9
      <4>4. pos \in R \/ pos \in sent[e.name]
        BY ONLY <1>10, <4>1
      <4>5. CASE pos \in R
        BY ONLY <4>1, <4>3, <4>5
      <4>6. CASE pos \in sent[e.name]
        BY ONLY <2>3, <4>2, <4>6
      <4> QED BY ONLY <4>4, <4>5, <4>6
    <3>2. /\ d \in Nat /\ j \in 0 .. ROM_PAGE - 1 /\ pos = d * ROM_PAGE + j
          /\ e.fat - d \in RomPage /\ e.fat \in Nat
      BY <1>1, <2>2, <3>1, PlaceOf, Zenon
    <3>3. Hit(e, at, len, e.fat - d, j) = IF pos \in R THEN {d} ELSE {}
      <4>1. \A k \in D : e.fat - k = e.fat - d <=> k = d
        <5> DEFINE f == e.fat
        <5>1. f \in Nat
          BY <3>2
        <5> HIDE DEF f, D, d
        <5>2. \A k \in D : f - k = f - d <=> k = d
          BY <1>7, <3>2, <5>1
        <5> QED BY <5>2 DEF f
      <4>2. pos \in R => d \in D
        BY <1>7
      <4>3. Hit(e, at, len, e.fat - d, j) = {k \in D : e.fat - k = e.fat - d /\ k * ROM_PAGE + j \in R}
        BY <1>6
      <4> HIDE DEF e, R, D, d, j
      <4>4. \A k \in D : (e.fat - k = e.fat - d /\ k * ROM_PAGE + j \in R) <=> (k = d /\ pos \in R)
        <5> TAKE k \in D
        <5>1. CASE k = d
          BY <3>2, <5>1
        <5>2. CASE k # d
          BY <4>1, <5>2
        <5> QED BY <5>1, <5>2
      <4>5. Hit(e, at, len, e.fat - d, j) = {k \in D : k = d /\ pos \in R}
        BY <4>3, <4>4
      <4> QED BY <4>2, <4>5
    <3>4. CASE pos \in R
      <4>1. Least({d}) = d
        <5> HIDE DEF d
        <5> QED BY <3>2 DEF Least
      <4>2. o = e.name
        <5>1. pos \in s[e.name]
          BY <2>5
        <5> HIDE DEF e, s, R
        <5> QED BY ONLY <1>11, <3>4, <5>1
      <4>3. cells[e.fat - d][j] = <<o, d * ROM_PAGE + j>>
        <5> HIDE DEF e, d, j
        <5> QED BY <1>5, <3>2, <3>3, <3>4, <4>1
      <4> QED BY <2>5, <3>1, <3>2, <4>2, <4>3
    <3>5. CASE pos \notin R
      <4>1. pos \in sent[e.name]
        <5>1. pos \in s[e.name]
          BY <2>5
        <5> HIDE DEF e, s, R
        <5> QED BY ONLY <1>11, <3>5, <5>1
      <4>2. cells[e.fat - d][j] = rom.cells[e.fat - d][j]
        <5> HIDE DEF e, d, j
        <5> QED BY <1>5, <3>2, <3>3, <3>5
      <4> QED BY <2>3, <2>5, <3>1, <4>1, <4>2
    <3> QED BY <3>4, <3>5
  <2> QED BY <2>4, <2>5
<1> QED BY <1>3, <1>8 DEF CellsOK

\* eepdata
LEMMA WriteKeeps ==
    ASSUME RomInv, NEW o, NEW at \in Nat, NEW len \in Nat \ {0}, NEW answer,
           EepData(o, at, len, answer)
    PROVE  RomInv'
<1> DEFINE e == rom.tab.ents[filed]
           D == at \div ROM_PAGE .. (at + len - 1) \div ROM_PAGE
           R == at .. at + len - 1
           node == [k \in D |-> NodeOf(e, k)]
           pos(k, j) == k * ROM_PAGE + j
           hit(p, j) == {i \in DOMAIN node : node[i] = p /\ pos(i, j) \in R}
           cell(p, j) == IF hit(p, j) = {} THEN rom.cells[p][j] ELSE <<o, pos(Least(hit(p, j)), j)>>
           cells == [p \in RomPage |-> [j \in 0 .. ROM_PAGE - 1 |-> cell(p, j)]]
<1>1. UNCHANGED <<filed, cmd, short>> /\ ~stray
  BY DEF EepData, Ready
<1>2. ASSUME UNCHANGED <<rom, sent>>, stray' \in BOOLEAN, stray' => short PROVE RomInv'
  <2>1. CmdOK'
    BY <1>1, <1>2 DEF RomInv, CmdOK
  <2> QED BY <1>1, <1>2, <2>1 DEF RomInv
<1>3. CASE UNCHANGED <<rom, sent, stray>>
  BY <1>1, <1>2, <1>3 DEF RomInv
<1>4. CASE filed = -1 /\ stray' = TRUE /\ UNCHANGED <<rom, sent>>
  BY <1>2, <1>4 DEF RomInv
<1>5. CASE /\ filed # -1 /\ Inside(e, at, len) /\ \E k \in DOMAIN node : ~Seekable(node[k])
           /\ stray' = TRUE /\ UNCHANGED <<rom, sent>>
  <2>1. PICK k \in D : NodeOf(e, k) \notin RomPage
    BY <1>5 DEF Seekable
  <2>2. short
    BY <1>5, <2>1, WriteInside
  <2> QED BY <1>2, <1>5, <2>2
<1>6. CASE /\ filed # -1 /\ Inside(e, at, len) /\ \A k \in DOMAIN node : Seekable(node[k])
           /\ rom' = [rom EXCEPT !.cells = cells]
           /\ sent' = [sent EXCEPT ![e.name] = IF o = e.name THEN @ \cup R ELSE @ \ R]
           /\ UNCHANGED stray
  <2>1. DOMAIN node = D /\ \A k \in D : node[k] = NodeOf(e, k)
    OBVIOUS
  <2>2. e.fat # RomFree
    <3>1. \A k \in D : NodeOf(e, k) \in RomPage
      BY <1>6, <2>1 DEF Seekable
    <3> HIDE DEF node, cells
    <3> QED BY <1>6, <3>1, WriteInside
  <2>3. \A p, j : hit(p, j) = Hit(e, at, len, p, j)
    <3> HIDE DEF node
    <3> QED BY <2>1 DEF Hit
  <2>4. \A p \in RomPage, j \in 0 .. ROM_PAGE - 1 :
           cells[p][j] = IF Hit(e, at, len, p, j) = {} THEN rom.cells[p][j]
                         ELSE <<o, Least(Hit(e, at, len, p, j)) * ROM_PAGE + j>>
    <3> HIDE DEF hit
    <3> QED BY <2>3
  <2>5. CellTable(cells)
    <3> HIDE DEF cell
    <3> QED BY DEF CellTable
  <2> HIDE DEF cells
  <2>6. rom'.tab = rom.tab /\ rom'.cells = cells /\ rom' = [tab |-> rom.tab, cells |-> cells]
    BY <1>6 DEF RomInv
  <2>7. CellsOK(rom.tab, rom'.cells, sent') /\ sent' \in [Names -> SUBSET Nat]
    <3>1. \A p \in RomPage, j \in 0 .. ROM_PAGE - 1 :
             rom'.cells[p][j] = IF Hit(e, at, len, p, j) = {} THEN rom.cells[p][j]
                                ELSE <<o, Least(Hit(e, at, len, p, j)) * ROM_PAGE + j>>
      BY <2>4, <2>6
    <3> HIDE DEF node
    <3> QED BY <1>6, <2>2, <3>1, WriteCells
  <2>8. CmdOK'
    BY <1>1 DEF RomInv, CmdOK, EepData, Ready
  <2> QED BY <1>1, <1>6, <2>5, <2>6, <2>7, <2>8 DEF RomInv
<1>7. UNCHANGED <<rom, sent, stray>> \/ WriteData(o, at, len)
  BY DEF EepData
<1> QED BY <1>1, <1>2, <1>3, <1>4, <1>5, <1>6, <1>7, Zenon DEF WriteData

\* A set of numbers with a bound has a greatest one.
LEMMA GreatestIn ==
    ASSUME NEW S, S \subseteq Nat, S # {}, NEW b \in Nat, \A x \in S : x <= b
    PROVE  Greatest(S) \in S /\ \A y \in S : y <= Greatest(S)
<1> DEFINE T == {b - x : x \in S}
<1>1. T \subseteq Nat /\ T # {}
  <2>1. \A x \in S : b - x \in Nat
    <3> TAKE x \in S
    <3>1. x \in Nat /\ x <= b
      OBVIOUS
    <3> QED BY <3>1
  <2> QED BY <2>1
<1> HIDE DEF T
<1>2. Least(T) \in T /\ \A y \in T : Least(T) <= y
  BY <1>1, LeastIn
<1>3. PICK x \in S : Least(T) = b - x
  BY <1>2 DEF T
<1>4. \A y \in S : b - y \in T /\ b - x <= b - y
  BY <1>2, <1>3 DEF T
<1>5. \A y \in S : y <= x
  BY <1>4
<1> QED BY <1>5 DEF Greatest

\* Finitely many numbers have a bound.
LEMMA Bounded ==
    ASSUME NEW n \in Nat, NEW f, \A k \in 1 .. n : f[k] \in Nat
    PROVE  \E b \in Nat : \A k \in 1 .. n : f[k] <= b
<1> DEFINE S == {l \in 0 .. n : ~ \E b \in Nat : \A k \in 1 .. l : f[k] <= b}
<1>1. ASSUME S # {} PROVE FALSE
  <2>1. PICK l \in S : \A y \in S : l <= y
    <3>1. S \subseteq Nat
      OBVIOUS
    <3> HIDE DEF S
    <3> QED BY <1>1, <3>1, LeastIn
  <2>2. l \in 0 .. n /\ l \in Nat
    OBVIOUS
  <2>3. l # 0
    <3>1. \A k \in 1 .. 0 : f[k] <= 0
      OBVIOUS
    <3> QED BY <3>1
  <2>4. l - 1 \in 0 .. n /\ l \in 1 .. n /\ ~(l <= l - 1)
    BY <2>2, <2>3
  <2>5. l - 1 \notin S
    BY <2>1, <2>4
  <2>6. PICK b \in Nat : \A k \in 1 .. l - 1 : f[k] <= b
    BY <2>4, <2>5
  <2> HIDE DEF S
  <2>7. f[l] \in Nat
    BY <2>4
  <2>8. b + f[l] \in Nat
    BY <2>7
  <2>9. ASSUME NEW k \in 1 .. l PROVE f[k] <= b + f[l]
    <3>1. f[k] \in Nat
      BY <2>2, <2>4
    <3>2. k = l \/ k \in 1 .. l - 1
      BY <2>2
    <3>3. k = l \/ f[k] <= b
      BY <2>6, <3>2
    <3> QED BY <2>7, <3>1, <3>3
  <2>10. l \notin S
    BY <2>8, <2>9 DEF S
  <2> QED BY <2>10
<1>2. n \notin S
  BY <1>1
<1> QED BY <1>2

\* The records of a program end somewhere.
LEMMA LinesEnd ==
    ASSUME NEW q \in Seq(Nat \X Nat)
    PROVE  \E b \in Nat : \A k \in DOMAIN q : q[k][1] + q[k][2] <= b
<1> DEFINE n == Len(q)
           to == [k \in 1 .. n |-> q[k][1] + q[k][2]]
<1>1. n \in Nat /\ \A k \in 1 .. n : to[k] \in Nat
  <2>1. n \in Nat /\ DOMAIN q = 1 .. n /\ \A k \in 1 .. n : q[k] \in Nat \X Nat
    OBVIOUS
  <2>2. \A x \in Nat \X Nat : x[1] + x[2] \in Nat
    OBVIOUS
  <2> HIDE DEF n
  <2> QED BY <2>1, <2>2
<1>2. DOMAIN q = 1 .. n /\ \A k \in 1 .. n : to[k] = q[k][1] + q[k][2]
  OBVIOUS
<1> HIDE DEF n, to
<1>3. PICK b \in Nat : \A k \in 1 .. n : to[k] <= b
  BY <1>1, Bounded
<1> QED BY <1>2, <1>3

\* What the host asks for.
LEMMA Asked ==
    ASSUME NEW n \in Names
    PROVE  /\ \A k \in Records(n) : Lines[n][k][1] \in Nat /\ Lines[n][k][2] \in Nat \ {0}
           /\ MemSize(n) \in Nat
<1> DEFINE q == Lines[n]
           from == {q[k][1] : k \in Records(n)}
           to == {q[k][1] + q[k][2] : k \in Records(n)}
<1>1. q \in Seq(Nat \X Nat) /\ \E k \in DOMAIN q : q[k][2] > 0
  BY PutAssumption
<1>2. Records(n) = {k \in DOMAIN q : q[k][2] > 0}
  BY DEF Records
<1>3. MemSize(n) = Greatest(to) - Least(from)
  BY Zenon DEF MemSize
<1> HIDE DEF q
<1>4. \A k \in DOMAIN q : q[k] \in Nat \X Nat /\ q[k][1] \in Nat /\ q[k][2] \in Nat
  <2>1. \A k \in DOMAIN q : q[k] \in Nat \X Nat
    BY <1>1
  <2>2. \A x \in Nat \X Nat : x[1] \in Nat /\ x[2] \in Nat
    OBVIOUS
  <2> QED BY <2>1, <2>2
<1>5. \A k \in Records(n) : q[k][1] \in Nat /\ q[k][2] \in Nat \ {0}
  BY <1>2, <1>4
<1>6. PICK k \in Records(n) : TRUE
  BY <1>1, <1>2
<1>7. Least(from) \in Nat /\ Least(from) <= q[k][1]
  <2>1. from \subseteq Nat /\ q[k][1] \in from
    BY <1>5, <1>6
  <2> HIDE DEF from
  <2> QED BY <2>1, LeastIn
<1>8. Greatest(to) \in Nat /\ q[k][1] + q[k][2] <= Greatest(to)
  <2>1. to \subseteq Nat /\ q[k][1] + q[k][2] \in to
    BY <1>5, <1>6
  <2>2. PICK b \in Nat : \A l \in DOMAIN q : q[l][1] + q[l][2] <= b
    BY <1>1, LinesEnd
  <2>3. \A x \in to : x <= b
    BY <1>2, <2>2
  <2> HIDE DEF to
  <2> QED BY <2>1, <2>3, GreatestIn
<1>9. Greatest(to) - Least(from) \in Nat
  <2> HIDE DEF from, to
  <2> QED BY <1>5, <1>6, <1>7, <1>8
<1> QED BY <1>3, <1>5, <1>9 DEF q

\* The program that the host sends.
HostOK ==
    /\ host = [pc |-> host.pc, name |-> host.name, line |-> host.line]
    /\ host.pc = "send" => host.name \in Names

\* The erased disk is in order.
LEMMA DiskBegins ==
    ASSUME PutInit
    PROVE  RomInv /\ HostOK
<1>1. HostOK
  BY DEF PutInit, HostOK
<1>2. rom.tab = Blank0 /\ rom.cells = Unwritten /\ rom = [tab |-> rom.tab, cells |-> rom.cells]
  BY DEF PutInit, MonInit
<1>3. /\ filed = 1 /\ 1 \in Slot /\ cmd = Idle /\ stray = FALSE /\ short = FALSE
      /\ sent = [n \in Names |-> {}]
  BY RomConstants DEF PutInit, MonInit
<1>4. CmdOK
  BY <1>3 DEF CmdOK
<1>5. CellsOK(Blank0, Unwritten, sent)
  BY Blank DEF CellsOK
<1>6. /\ filed \in Slot \cup {-1} /\ filed # -1 /\ stray \in BOOLEAN /\ ~stray /\ short \in BOOLEAN
      /\ sent \in [Names -> SUBSET Nat]
  <2>1. filed \in Slot \cup {-1} /\ filed # -1
    BY <1>3
  <2>2. sent \in [Names -> SUBSET Nat]
    BY <1>3
  <2> QED BY <1>3, <2>1, <2>2
<1>7. \A i \in FilesIn(rom.tab) : rom.tab.ents[i].fat = RomFree => short
  BY <1>2, Blank
<1>8. TabOK(rom.tab) /\ CellTable(rom.cells) /\ CellsOK(rom.tab, rom.cells, sent)
  BY <1>2, <1>5, Blank
<1> QED BY <1>1, <1>2, <1>4, <1>6, <1>7, <1>8 DEF RomInv

\* A line of which characters are missing does no harm to the disk.
LEMMA MissedKeeps ==
    ASSUME RomInv, Missed
    PROVE  RomInv'
<1>1. CASE UNCHANGED monVars
  <2>1. UNCHANGED <<rom, filed, cmd, stray, short, sent>>
    BY <1>1 DEF monVars
  <2>2. CmdOK'
    BY <2>1 DEF RomInv, CmdOK
  <2> QED BY <2>1, <2>2 DEF RomInv
<1>2. ASSUME NEW n \in Names, NEW k \in Records(n), NEW answer \in {"@", "."},
             EepData("junk", Lines[n][k][1], Lines[n][k][2], answer)
      PROVE  RomInv'
  BY <1>2, Asked, WriteKeeps
<1> QED BY <1>1, <1>2 DEF Missed

\* Each step of the host and of the monitor keeps the disk in order.
LEMMA DiskStep ==
    ASSUME RomInv, HostOK, [PutNext]_putVars
    PROVE  RomInv' /\ HostOK'
<1>1. CASE UNCHANGED putVars
  <2>1. UNCHANGED <<rom, filed, cmd, stray, short, sent, host>>
    BY <1>1 DEF putVars
  <2>2. CmdOK'
    BY <2>1 DEF RomInv, CmdOK
  <2> QED BY <2>1, <2>2 DEF RomInv, HostOK
<1>2. ASSUME NEW n \in Names, Begin(n) PROVE RomInv' /\ HostOK'
  <2>1. HostOK'
    BY <1>2 DEF Begin, HostOK
  <2>2. CASE Missed
    BY <2>1, <2>2, MissedKeeps
  <2>3. CASE NewFile(n, MemSize(n))
    BY <2>1, <2>3, Asked, NewFileKeeps
  <2>4. ASSUME NEW size \in 0 .. MemSize(n), NewFile(n, size) PROVE RomInv'
    <3>1. size \in Nat
      BY Asked
    <3> QED BY <2>4, <3>1, NewFileKeeps
  <2> QED BY <1>2, <2>1, <2>2, <2>3, <2>4 DEF Begin
<1>3. CASE Send
  <2>1. host.name \in Names /\ host.line \in Records(host.name)
    BY <1>3 DEF Send, HostOK
  <2>2. CASE Missed /\ UNCHANGED host
    BY <2>2, MissedKeeps DEF HostOK
  <2>3. ASSUME NEW answer, NEW heard,
               EepData(host.name, Lines[host.name][host.line][1], Lines[host.name][host.line][2], answer),
               host' = [host EXCEPT !.line = IF Accepted(heard, answer) THEN @ + 1 ELSE @]
        PROVE  RomInv' /\ HostOK'
    <3>1. RomInv'
      BY <2>1, <2>3, Asked, WriteKeeps
    <3>2. HostOK'
      BY <2>3 DEF HostOK
    <3> QED BY <3>1, <3>2
  <2> QED BY <1>3, <2>2, <2>3 DEF Send
<1>4. CASE PassOver
  <2>1. UNCHANGED <<rom, filed, cmd, stray, short, sent>>
    BY <1>4 DEF PassOver, monVars
  <2>2. CmdOK'
    BY <2>1 DEF RomInv, CmdOK
  <2>3. RomInv'
    BY <2>1, <2>2 DEF RomInv
  <2>4. HostOK'
    BY <1>4 DEF PassOver, HostOK
  <2> QED BY <2>3, <2>4
<1>5. CASE Operator
  <2>1. HostOK'
    BY <1>5 DEF Operator, HostOK
  <2>2. ASSUME NEW n \in Names, DelFile(n) PROVE RomInv'
    <3>1. /\ rom' = Removed(n) /\ sent' = [sent EXCEPT ![n] = {}]
          /\ UNCHANGED <<filed, stray, short>> /\ cmd' = Idle
      BY <2>2 DEF DelFile, Ready
    <3> QED BY <3>1, RemovedKeeps
  <2> QED BY <1>5, <2>1, <2>2, EraseKeeps DEF Operator
<1>6. CASE Monitor
  <2>1. HostOK'
    BY <1>6 DEF Monitor, HostOK
  <2>2. CASE NewFileDel
    <3>1. /\ cmd.do = "del" /\ rom' = Removed(cmd.name) /\ sent' = [sent EXCEPT ![cmd.name] = {}]
          /\ UNCHANGED <<filed, stray, short>> /\ cmd' = [cmd EXCEPT !.do = "add"]
      BY <2>2 DEF NewFileDel
    <3>2. cmd.name \in Names
      BY <3>1 DEF RomInv, CmdOK, Making, Idle
    <3> QED BY <2>1, <3>1, <3>2, RemovedKeeps
  <2>3. CASE Reset
    <3>1. cmd' = Idle /\ filed' = 1 /\ 1 \in Slot /\ UNCHANGED <<rom, stray, short, sent>>
      BY <2>3, RomConstants DEF Reset
    <3>2. CmdOK'
      BY <3>1 DEF CmdOK
    <3> QED BY <2>1, <3>1, <3>2 DEF RomInv
  <2> QED BY <1>6, <2>1, <2>2, <2>3, NewFileAddKeeps, EraseKeeps DEF Monitor
<1> QED BY <1>1, <1>2, <1>3, <1>4, <1>5, <1>6 DEF PutNext

\* The disk stays in order.
LEMMA DiskStays == PutSpec => [](RomInv /\ HostOK)
<1>1. PutInit => RomInv /\ HostOK
  BY DiskBegins
<1>2. (RomInv /\ HostOK) /\ [PutNext]_putVars => (RomInv /\ HostOK)'
  BY DiskStep
<1> QED BY <1>1, <1>2, PTL DEF PutSpec

\* The files that the directory lists have chains of their own.
LEMMA ChainsOfFiles ==
    ASSUME RomInv, NEW i \in Dir, rom.tab.ents[i].fat # RomFree
    PROVE  LET e == rom.tab.ents[i]
               n == PagesFor(e.size)
           IN  /\ Lies(rom.tab, e.fat, e.size) /\ e.size \in Nat /\ e.fat \in Nat
               /\ n \in Nat \ {0} /\ n <= ROM_PAGES
               /\ RomChain(e.fat) = [j \in 1 .. n |-> e.fat - j + 1]
               /\ Len(RomChain(e.fat)) = n /\ DOMAIN RomChain(e.fat) = 1 .. n
               /\ \A j \in 1 .. n : RomChain(e.fat)[j] \in PagesAt(e.fat, e.size)
<1> DEFINE e == rom.tab.ents[i]
           n == PagesFor(e.size)
           c == RomChain(e.fat)
<1>1. Lies(rom.tab, e.fat, e.size) /\ e.size \in Nat
  <2>1. i \in Slot /\ e.name \in Names
    BY DEF Dir, RomInv, TabOK, Tab, Ent
  <2> QED BY <2>1 DEF RomInv, TabOK, EntsOK
<1>2. e.fat \in 1 .. ROM_PAGES /\ n \in 1 .. e.fat
  BY <1>1, RomConstants DEF Lies
<1>3. c = [j \in 1 .. n |-> e.fat - j + 1]
  BY <1>1, ChainOf
<1> HIDE DEF c, n
<1>4. e.fat \in Nat /\ n \in Nat \ {0} /\ n <= ROM_PAGES
  BY <1>2, RomConstants
<1>5. Len(c) = n /\ DOMAIN c = 1 .. n
  <2> DEFINE f == e.fat
  <2>1. f \in Nat
    BY <1>4
  <2>2. c = [j \in 1 .. n |-> f - j + 1]
    BY <1>3
  <2> HIDE DEF f
  <2>3. c \in Seq(Int)
    BY <1>4, <2>1, <2>2
  <2> QED BY <1>4, <2>2, <2>3
<1>6. \A j \in 1 .. n : c[j] \in e.fat - n + 1 .. e.fat
  <2> DEFINE f == e.fat
  <2>1. f \in Nat
    BY <1>4
  <2>2. c = [j \in 1 .. n |-> f - j + 1]
    BY <1>3
  <2> HIDE DEF f
  <2>3. \A j \in 1 .. n : c[j] \in f - n + 1 .. f
    BY <1>4, <2>1, <2>2
  <2> QED BY <2>3 DEF f
<1>7. \A j \in 1 .. n : c[j] \in PagesAt(e.fat, e.size)
  BY <1>6 DEF PagesAt, n
<1> QED BY <1>1, <1>3, <1>4, <1>5, <1>7 DEF c, n

\* The files of a disk that is in order share nothing.
LEMMA DiskApart ==
    ASSUME RomInv
    PROVE  RomApart
<1> SUFFICES ASSUME ~stray, NEW i \in Dir
             PROVE  /\ \A o \in Dir \ {i} : rom.tab.ents[o].name # rom.tab.ents[i].name
                    /\ InRom(i) =>
                          LET e == rom.tab.ents[i]
                              c == RomChain(e.fat)
                          IN  /\ rom.tab.root /\ Len(c) = PagesFor(e.size)
                              /\ rom.tab.fat[c[Len(c)]] = RomTail
                              /\ \A o \in Dir \ {i}, k \in DOMAIN c :
                                    \A m \in DOMAIN RomChain(rom.tab.ents[o].fat) :
                                        RomChain(rom.tab.ents[o].fat)[m] # c[k]
  BY Zenon DEF RomApart
<1> DEFINE e == rom.tab.ents[i]
           c == RomChain(e.fat)
           n == PagesFor(e.size)
<1>1. Dir = FilesIn(rom.tab) /\ DirApart(rom.tab)
  BY DEF Dir, FilesIn, RomInv, TabOK
<1>2. \A o \in Dir \ {i} : rom.tab.ents[o].name # e.name /\ NoShare(e, rom.tab.ents[o])
  BY <1>1 DEF DirApart
<1>3. ASSUME InRom(i)
      PROVE  /\ rom.tab.root /\ Len(c) = n
             /\ rom.tab.fat[c[Len(c)]] = RomTail
             /\ \A o \in Dir \ {i}, k \in DOMAIN c :
                   \A m \in DOMAIN RomChain(rom.tab.ents[o].fat) :
                       RomChain(rom.tab.ents[o].fat)[m] # c[k]
  <2>1. e.fat # RomFree
    BY <1>3 DEF InRom
  <2>2. /\ Lies(rom.tab, e.fat, e.size) /\ e.size \in Nat /\ e.fat \in Nat
        /\ n \in Nat \ {0} /\ n <= ROM_PAGES
        /\ c = [j \in 1 .. n |-> e.fat - j + 1]
        /\ Len(c) = n /\ DOMAIN c = 1 .. n
        /\ \A j \in 1 .. n : c[j] \in PagesAt(e.fat, e.size)
    BY <2>1, ChainsOfFiles
  <2>3. rom.tab.fat[c[n]] = RomTail
    <3>1. c[n] = e.fat - n + 1
      <4> HIDE DEF c, n
      <4> QED BY <2>2
    <3>2. e.fat - n + 1 \in PagesAt(e.fat, e.size)
      <4>1. n \in 1 .. n
        <5> HIDE DEF n
        <5> QED BY <2>2
      <4> HIDE DEF c, n, e
      <4>2. c[n] \in PagesAt(e.fat, e.size)
        BY <2>2, <4>1, Zenon
      <4> QED BY <3>1, <4>2
    <3> QED BY <2>2, <3>1, <3>2 DEF Lies
  <2>4. ASSUME NEW o \in Dir \ {i}, NEW k \in DOMAIN c, NEW m \in DOMAIN RomChain(rom.tab.ents[o].fat),
               RomChain(rom.tab.ents[o].fat)[m] = c[k]
        PROVE  FALSE
    <3>1. CASE rom.tab.ents[o].fat = RomFree
      <4>1. RomChain(rom.tab.ents[o].fat) = <<>>
        BY <3>1, NoChain
      <4> QED BY <4>1
    <3>2. CASE rom.tab.ents[o].fat # RomFree
      <4>1. RomChain(rom.tab.ents[o].fat)[m] \in PagesAt(rom.tab.ents[o].fat, rom.tab.ents[o].size)
        BY <3>2, ChainsOfFiles
      <4>2. c[k] \in PagesAt(e.fat, e.size)
        <5> HIDE DEF c
        <5> QED BY <2>2
      <4> HIDE DEF c, e
      <4> QED BY <1>2, <2>1, <2>4, <3>2, <4>1, <4>2 DEF NoShare
    <3> QED BY <3>1, <3>2
  <2>5. rom.tab.root /\ Len(c) = n
    BY <2>2 DEF Lies
  <2> HIDE DEF c, n
  <2> QED BY <2>3, <2>4, <2>5
<1> QED BY <1>2, <1>3

\* The cells of a disk that is in order are where the kernel looks for them.
LEMMA DiskReads ==
    ASSUME RomInv
    PROVE  KernelReads
<1>1. CASE stray
  BY <1>1 DEF KernelReads, RomInv
<1>2. CASE ~stray
  <2> SUFFICES ASSUME NEW i \in Dir, NEW pos \in sent[rom.tab.ents[i].name]
               PROVE  LET e == rom.tab.ents[i]
                          c == RomChain(e.fat)
                      IN  /\ pos \div ROM_PAGE < Len(c)
                          /\ rom.cells[c[pos \div ROM_PAGE + 1]][pos % ROM_PAGE] = <<e.name, pos>>
    BY <1>2, Zenon DEF KernelReads
  <2> DEFINE e == rom.tab.ents[i]
             c == RomChain(e.fat)
             n == PagesFor(e.size)
             d == pos \div ROM_PAGE
  <2>1. /\ e.fat # RomFree /\ pos < e.size
        /\ rom.cells[e.fat - d][pos % ROM_PAGE] = <<e.name, pos>>
    BY DEF RomInv, CellsOK, Dir, FilesIn
  <2>2. pos \in Nat
    <3>1. e.name \in Names
      BY DEF Dir, RomInv, TabOK, Tab, Ent
    <3> QED BY <3>1 DEF RomInv
  <2>3. /\ e.size \in Nat /\ e.fat \in Nat /\ n \in Nat \ {0} /\ n <= ROM_PAGES
        /\ c = [j \in 1 .. n |-> e.fat - j + 1] /\ Len(c) = n
    BY <2>1, ChainsOfFiles
  <2>4. d \in 0 .. n - 1
    BY <2>1, <2>2, <2>3, SizeInPages
  <2>5. d < Len(c) /\ c[d + 1] = e.fat - d
    <3> DEFINE f == e.fat
    <3>1. f \in Nat /\ c = [j \in 1 .. n |-> f - j + 1]
      BY <2>3
    <3>2. Len(c) = n /\ n \in Nat
      BY <2>3
    <3> HIDE DEF c, d, n, f
    <3>3. d < Len(c) /\ c[d + 1] = f - (d + 1) + 1
      BY <2>4, <3>1, <3>2
    <3>4. f - (d + 1) + 1 = f - d
      BY <2>4, <3>1, <3>2
    <3> QED BY <3>3, <3>4 DEF f
  <2> HIDE DEF c, d
  <2> QED BY <2>1, <2>5 DEF c, d
<1> QED BY <1>1, <1>2

\* The files that the directory of the flash lists share no page and no name,
\* and each has a chain as long as it is, in whatever order newfile, del, init
\* and resets came and however large the disk and the programs are.
THEOREM RomCorrect == PutSpec => []RomApart
<1>1. RomInv /\ HostOK => RomApart
  BY DiskApart
<1> QED BY <1>1, DiskStays, PTL

\* What eepdata wrote by counting pages down from the first is what the kernel
\* reads by following the chain of the file, and data goes astray only after
\* newfile found no room.
THEOREM KernelCorrect == PutSpec => []KernelReads
<1>1. RomInv /\ HostOK => KernelReads
  BY DiskReads
<1> QED BY <1>1, DiskStays, PTL
=============================================================================
