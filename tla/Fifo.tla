------------------------------- MODULE Fifo -------------------------------
(***************************************************************************)
(* What a byte ring of src/ring.c promises: a bounded queue that forgets   *)
(* its oldest bytes when more is written than it can hold.                 *)
(***************************************************************************)
EXTENDS Integers, Sequences

CONSTANTS Size,   \* bytes that the queue holds
          Bytes   \* the values of a byte

VARIABLES q,      \* the bytes in the queue, the oldest first
          call,   \* the last call and its argument
          got     \* the bytes that it returned

Init == q = <<>> /\ call = <<"none">> /\ got = <<>>

\* The last n bytes of s.
Newest(s, n) ==
    IF Len(s) <= n THEN s ELSE [j \in 1 .. n |-> s[Len(s) - n + j]]

Write(d) ==
    /\ call' = <<"write", d>>
    /\ q' = IF Len(d) <= Size THEN Newest(q \o d, Size) ELSE q
    /\ got' = <<>>

\* As many of n bytes as there are leave at the front.
Read(n) ==
    /\ call' = <<"read", n>>
    /\ LET c == IF n > Size THEN 0 ELSE IF n > Len(q) THEN Len(q) ELSE n
       IN  /\ got' = [j \in 1 .. c |-> q[j]]
           /\ q' = [j \in 1 .. Len(q) - c |-> q[c + j]]

Next ==
    \E n \in 0 .. Size + 1 : Read(n) \/ \E d \in [1 .. n -> Bytes] : Write(d)

Spec == Init /\ [][Next]_<<q, call, got>>
=============================================================================
