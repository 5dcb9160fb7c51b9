------------------------------- MODULE Heap -------------------------------
(***************************************************************************)
(* The page allocator of CoreOS, src/alloc.c.  The memory is cut into      *)
(* sections; a table `mat' at its start holds one entry per section: FREE, *)
(* the id of the owner at the first section of a block, CONT at the other  *)
(* sections of the block.  The kernel calls it with interrupts off, so one *)
(* call is one step.  The calls are operators on the table, so that a      *)
(* module about a caller can chain them.                                   *)
(***************************************************************************)
EXTENDS Integers

CONSTANTS
    MEMSIZE,   \* bytes of memory that alloc_init was given
    SECSIZE,   \* bytes of a section (256 in MES/main.c)
    IDS,       \* the ids that the callers use
    BYTES,     \* the sizes that the callers ask for
    PTRS       \* the addresses, from the start of the area, that they pass

FREE == 0
CONT == 65535      \* (uint16_t)-1

ASSUME HeapAssumption ==
    /\ MEMSIZE \in Nat /\ SECSIZE \in Nat \ {0}
    /\ IDS \subseteq Nat \ {FREE, CONT}
    /\ BYTES \subseteq Nat
    /\ PTRS \subseteq Nat

\* alloc_init: the first section behind the table, and the end.
SecEnd == MEMSIZE \div SECSIZE
SecStart ==
    LET s == (2 * MEMSIZE) \div (SECSIZE * SECSIZE) + 1
    IN  IF SecEnd * 2 > s * SECSIZE THEN s + 1 ELSE s
Sec == SecStart .. SecEnd - 1

VARIABLES
    mat,       \* the table: one entry per section
    caller     \* ghost: who made the last call

vars == <<mat, caller>>

Init == mat = [i \in Sec |-> FREE] /\ caller = 0

-----------------------------------------------------------------------------
(* alloc_mem. *)

\* The sections that n bytes take.
Count(n) == n \div SECSIZE + IF n % SECSIZE > 0 THEN 1 ELSE 0

\* c sections from a on are free.
Fits(m, a, c) == a \in Sec /\ a + c - 1 \in Sec /\ \A i \in a .. a + c - 1 : m[i] = FREE

\* a is where alloc_mem places c sections: the first place that fits.
Place(m, a, c) == Fits(m, a, c) /\ \A b \in Sec : b < a => ~ Fits(m, b, c)

\* The table with c sections from a on given to id.
Taken(m, id, a, c) ==
    [i \in Sec |-> IF i = a THEN id ELSE IF i > a /\ i < a + c THEN CONT ELSE m[i]]

\* alloc_mem(id, n) when n is not 0.
Alloc(id, n) ==
    /\ Count(n) > 0
    /\ \/ \E a \in Sec : Place(mat, a, Count(n)) /\ mat' = Taken(mat, id, a, Count(n))
       \/ (\A a \in Sec : ~ Fits(mat, a, Count(n))) /\ UNCHANGED mat

\* alloc_mem(id, 0): the search stops at the first section in use and the
\* section behind it gets the id, whoever owns it.  (Behind the last section
\* the write is outside of the table.)  With no section in use it fails.
AllocZero(id, n) ==
    /\ Count(n) = 0
    /\ \/ \E i \in Sec :
             /\ mat[i] # FREE /\ \A j \in Sec : j < i => mat[j] = FREE
             /\ mat' = IF i + 1 \in Sec THEN [mat EXCEPT ![i + 1] = id] ELSE mat
       \/ (\A i \in Sec : mat[i] = FREE) /\ UNCHANGED mat

-----------------------------------------------------------------------------
(* free_mem, free_idmem, change_id_mem. *)

\* The sections that hold the bytes of the block that begins at i.
Run(m, i) == {j \in Sec : i <= j /\ \A k \in i + 1 .. j : m[k] = CONT}

InArea(ptr) == ptr >= SecStart * SECSIZE /\ ptr < SecEnd * SECSIZE

\* (mutant of Freed) Only the first section of the block is freed.
FreedHead(m, i) == [m EXCEPT ![i] = FREE]
\* The table without the block at i.
Freed(m, i) == [j \in Sec |-> IF j \in Run(m, i) THEN FREE ELSE m[j]]

\* The test of free_mem and change_id_mem.
Owns(m, id, ptr) == InArea(ptr) /\ m[ptr \div SECSIZE] = id

FreeMem(id, ptr) ==
    \/ Owns(mat, id, ptr) /\ mat' = Freed(mat, ptr \div SECSIZE)
    \/ ~ Owns(mat, id, ptr) /\ UNCHANGED mat

\* (mutant of FreedId) The flag is not cleared at the head of another block.
FreedIdOn(m, id) ==
    [j \in Sec |-> IF m[j] = id \/ (m[j] = CONT /\ \E i \in Sec : i < j /\ m[i] = id)
                   THEN FREE ELSE m[j]]
\* free_idmem: the table without the blocks of id.
FreedId(m, id) ==
    [j \in Sec |-> IF \E i \in Sec : m[i] = id /\ j \in Run(m, i) THEN FREE ELSE m[j]]

FreeIdMem(id) == mat' = FreedId(mat, id)

ChangeId(old, new, ptr) ==
    \/ Owns(mat, old, ptr) /\ mat' = [mat EXCEPT ![ptr \div SECSIZE] = new]
    \/ ~ Owns(mat, old, ptr) /\ UNCHANGED mat

\* One call of the caller id.
NextOf(id) ==
    /\ caller' = id
    /\ \/ \E n \in BYTES : Alloc(id, n) \/ AllocZero(id, n)
       \/ \E ptr \in PTRS : FreeMem(id, ptr)
       \/ FreeIdMem(id)
       \/ \E new \in IDS, ptr \in PTRS : ChangeId(id, new, ptr)

Next == \E id \in IDS : NextOf(id)

Spec == Init /\ [][Next]_vars

-----------------------------------------------------------------------------
(* Properties. *)

\* Every entry of the table is FREE, CONT or an id that a caller uses.
TypeOK == mat \in [Sec -> {FREE, CONT} \cup IDS] /\ caller \in IDS \cup {0}

\* A CONT entry always continues a block: it is never first, and it never
\* follows a free section.  (An orphan would be lost for ever: no call frees
\* it.)  It holds even for alloc_mem(id, 0).
NoOrphan ==
    \A i \in Sec : mat[i] = CONT => i - 1 \in Sec /\ mat[i - 1] # FREE

\* The blocks that the table describes.
Heads(m) == {i \in Sec : m[i] \notin {FREE, CONT}}
BlockAt(m, i) == [id |-> m[i], secs |-> Run(m, i)]
Blocks == {BlockAt(mat, i) : i \in Heads(mat)}

\* The promise of HeapAbs, which the allocator keeps if no caller asks for 0
\* bytes.
Abs == INSTANCE HeapAbs WITH Sections <- Sec, Owners <- IDS, blocks <- Blocks
AbsSpec == Abs!Spec

\* A call for 0 bytes.
ForNothing == \E id \in IDS, n \in BYTES : caller' = id /\ AllocZero(id, n)

\* The allocator keeps the promise of HeapAbs in every call for at least one
\* byte, whatever calls for 0 bytes came before: blocks of different callers
\* never overlap, none changes but by the call of its owner, none is lost.
KeepsPromise == Abs!Init /\ [][Abs!Next \/ ForNothing]_<<Blocks, caller>>
=============================================================================
