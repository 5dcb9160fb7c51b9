------------------------------ MODULE MCHeap ------------------------------
(* Values of the constants of Heap for model checking. *)
EXTENDS Heap

\* Nothing, one section, one section exactly, two and three sections.
Sizes == {0, 1, 8, 9, 20}
\* The first byte of every section, one in the middle of a section, the last
\* byte before the first section.
Pointers == {8 * i : i \in 0 .. 10} \cup {23, 30}
=============================================================================
