------------------------------ MODULE HeapAbs ------------------------------
(***************************************************************************)
(* What the page allocator of src/alloc.c promises its callers: it hands   *)
(* out blocks of sections that belong to nobody else, a block stays whole  *)
(* with its owner until the owner gives it back, and all that an owner has *)
(* can be given back at once.  Which free place is taken is left open.     *)
(***************************************************************************)
EXTENDS Integers

CONSTANTS Sections,   \* the sections that can be handed out
          Owners      \* the ids that can own a block

VARIABLES blocks,     \* the blocks that are handed out
          caller      \* who made the last call (0: nobody yet)

Init == blocks = {} /\ caller = 0

\* Consecutive sections that nobody owns go to p.
Grant(p) ==
    \E lo, hi \in Sections :
        LET new == lo .. hi
        IN  /\ lo <= hi /\ new \subseteq Sections
            /\ \A b \in blocks : b.secs \cap new = {}
            /\ blocks' = blocks \cup {[id |-> p, secs |-> new]}

\* The owner gives one block back.
Release(p) == \E b \in blocks : b.id = p /\ blocks' = blocks \ {b}

\* All blocks of an owner come back.
ReleaseAll(p) == blocks' = {b \in blocks : b.id # p}

\* A block changes its owner.
HandOver(p, q) ==
    \E b \in blocks :
        b.id = p /\ blocks' = (blocks \ {b}) \cup {[b EXCEPT !.id = q]}

\* A call that changes nothing: no room, or not the caller's block.
Refuse == UNCHANGED blocks

Next ==
    \E p \in Owners :
        /\ caller' = p
        /\ \/ Grant(p)
           \/ Release(p)
           \/ ReleaseAll(p)
           \/ \E q \in Owners : HandOver(p, q)
           \/ Refuse

Spec == Init /\ [][Next]_<<blocks, caller>>
=============================================================================
