------------------------------- MODULE Ring -------------------------------
(***************************************************************************)
(* The byte ring of CoreOS, src/ring.c: an area of maxsize bytes, the      *)
(* index of the oldest byte and the number of bytes in use.  The serial    *)
(* driver keeps two of them per line and calls them with interrupts off.   *)
(***************************************************************************)
EXTENDS Integers, Sequences

CONSTANTS
    maxsize,   \* bytes of the area
    Bytes,     \* the values of a byte
    Zero       \* the value that ring_init stores

ASSUME RingAssumption == maxsize \in Nat \ {0} /\ Zero \in Bytes

VARIABLES
    area, start, datasize,
    got,       \* the bytes that the last call copied to its caller
    call       \* ghost: the last call and its argument

vars == <<area, start, datasize, got, call>>

Index == 0 .. maxsize - 1

\* ring_init
Init ==
    /\ area = [k \in Index |-> Zero]
    /\ start = 0 /\ datasize = 0
    /\ got = <<>>
    /\ call = <<"none">>

\* One turn of the ring back, when an index ran past the end.
Wrap(i) == IF i >= maxsize THEN i - maxsize ELSE i

\* The area after the two memcpy of write_ring: d from index i on, the rest
\* of d from index 0 on.
Copied(i, d) ==
    [k \in Index |->
        IF i <= k /\ k < i + Len(d) THEN d[k - i + 1]
        ELSE IF k + maxsize < i + Len(d) THEN d[k + maxsize - i + 1]
        ELSE area[k]]

\* (mutant of Advanced) The oldest bytes are overwritten but stay the start.
AdvancedNot(n) == start
\* The start after n bytes were written: it moves over the overwritten ones.
Advanced(n) == IF n > maxsize THEN Wrap(start + n - maxsize) ELSE start

\* The bytes in use after n bytes were written.
Held(n) == IF n > maxsize THEN maxsize ELSE n

\* write_ring.  Data that is longer than the ring is refused.
Write(d) ==
    /\ call' = <<"write", d>>
    /\ got' = <<>>
    /\ IF Len(d) > maxsize
       THEN UNCHANGED <<area, start, datasize>>
       ELSE LET n == datasize + Len(d)
            IN  /\ area' = Copied(Wrap(start + datasize), d)
                /\ datasize' = Held(n)
                /\ start' = Advanced(n)

\* read_ring: at most n bytes; more than the ring can hold is refused.
Read(n) ==
    /\ call' = <<"read", n>>
    /\ LET count == IF n > maxsize THEN 0 ELSE IF n > datasize THEN datasize ELSE n
       IN  /\ got' = [j \in 1 .. count |-> area[Wrap(start + j - 1)]]
           /\ datasize' = datasize - count
           /\ start' = Wrap(start + count)
    /\ UNCHANGED area

Next ==
    \E n \in 0 .. maxsize + 1 : Read(n) \/ \E d \in [1 .. n -> Bytes] : Write(d)

Spec == Init /\ [][Next]_vars

\* The indices stay inside the area.
TypeOK ==
    /\ area \in [Index -> Bytes]
    /\ start \in Index
    /\ datasize \in 0 .. maxsize
    /\ got \in Seq(Bytes)

\* The bytes in use, the oldest first.
Content == [j \in 1 .. datasize |-> area[Wrap(start + j - 1)]]

\* The ring is a queue that forgets its oldest bytes, wherever the indices
\* stand when the area wraps around.
Queue == INSTANCE Fifo WITH Size <- maxsize, q <- Content
FifoSpec == Queue!Spec
=============================================================================
