--------------------------------- MODULE Ne ---------------------------------
(***************************************************************************)
(* The network card driver src/ne.c on its receive ring, with the          *)
(* interrupt entry of src/irq.c and the reading loop of receive in         *)
(* src/MES/ip.c.  The card is external: it stores what arrives in the      *)
(* pages behind CURR up to BNRY and raises a line whose falling edge is    *)
(* the interrupt.  Page 0 is rx_start.  Device calls run with interrupts   *)
(* off; the card goes on between any two steps of the handler.             *)
(***************************************************************************)
EXTENDS Integers, Sequences, FiniteSets

CONSTANTS
    RX_PAGES,     \* pages of the ring
    MAX_PAGES,    \* pages of the longest packet
    MAX_FRAMES    \* bound: packets that arrive

ASSUME NeAssumption ==
    /\ RX_PAGES \in Nat /\ RX_PAGES > 2
    /\ MAX_PAGES \in 1 .. RX_PAGES /\ MAX_FRAMES \in Nat

VARIABLES
    ne,        \* the driver: is it open, is there a handle
    chip,      \* the card: does it run, CURR, BNRY, ISR, RSR
    pages,     \* the memory of the ring
    edge,      \* an interrupt is latched
    handler,   \* where int_ne stands
    frames,    \* ghost: the packets that were stored, and whether they are dropped
    got        \* ghost: what read_ne returned

neVars == <<ne, chip, pages, edge, handler, frames, got>>

RxPage == 0 .. RX_PAGES - 1
RxNext(p, n) == (p + n) % RX_PAGES

\* ne_setup, ne_ring_init and ne_start
Running == [on |-> TRUE, curr |-> 1, bnry |-> 0, isr |-> {}, good |-> FALSE]
Stopped == [Running EXCEPT !.on = FALSE]
Nothing == [frame |-> 0, part |-> 0, len |-> 0, next |-> 0, odd |-> FALSE]

NeInit ==
    /\ ne = [open |-> FALSE, handle |-> FALSE]
    /\ chip = Stopped
    /\ pages = [p \in RxPage |-> Nothing]
    /\ edge = FALSE /\ handler = "idle"
    /\ frames = <<>> /\ got = <<>>

\* The packets that were not read before a reset are gone.
Dropped ==
    [n \in DOMAIN frames |->
        [frames[n] EXCEPT !.dropped = @ \/ \A k \in DOMAIN got : got[k][1].frame # n]]

\* ne_stop, ne_reset, ne_setup and ne_start
Reset == chip' = Running /\ frames' = Dropped

\* open_ne
NeOpen ==
    /\ handler = "idle" /\ ~ne.open
    /\ ne' = [open |-> TRUE, handle |-> FALSE]
    /\ edge' = FALSE
    /\ Reset
    /\ UNCHANGED <<pages, handler, got>>

\* ioctl_ne, SET_HANDLE
SetHandle ==
    /\ handler = "idle" /\ ne.open /\ ~ne.handle
    /\ ne' = [ne EXCEPT !.handle = TRUE]
    /\ UNCHANGED <<chip, pages, edge, handler, frames, got>>

\* close_ne.  An edge that is latched meanwhile is assumed to be forgotten.
NeClose ==
    /\ handler = "idle" /\ ne.open
    /\ ne' = [open |-> FALSE, handle |-> FALSE]
    /\ chip' = [chip EXCEPT !.on = FALSE]
    /\ edge' = FALSE
    /\ UNCHANGED <<pages, handler, frames, got>>

-----------------------------------------------------------------------------
(* External: the card.                                                      *)

Raise(flag, c) ==
    /\ chip' = [c EXCEPT !.isr = @ \cup {flag}]
    /\ edge' = (edge \/ chip.isr = {})

\* A packet of n pages fits before BNRY.  An odd one has a length that the
\* driver refuses.
Store(n, odd) ==
    /\ chip.on /\ Len(frames) < MAX_FRAMES
    /\ n <= (chip.bnry - chip.curr) % RX_PAGES
    /\ frames' = Append(frames, [len |-> n, odd |-> odd, dropped |-> FALSE])
    /\ pages' = [p \in RxPage |->
          LET k == (p - chip.curr) % RX_PAGES
          IN  IF k < n THEN [frame |-> Len(frames'), part |-> k + 1, len |-> n,
                             next |-> RxNext(chip.curr, n), odd |-> odd]
              ELSE pages[p]]
    /\ Raise("prx", [chip EXCEPT !.curr = RxNext(@, n), !.good = TRUE])
    /\ UNCHANGED <<ne, handler, got>>

\* A packet finds no room, or has an error and is not stored.
Refuse ==
    /\ chip.on
    /\ \/ "ovw" \notin chip.isr /\ MAX_PAGES > (chip.bnry - chip.curr) % RX_PAGES
          /\ Raise("ovw", [chip EXCEPT !.good = FALSE])
       \/ "rxe" \notin chip.isr /\ Raise("rxe", [chip EXCEPT !.good = FALSE])
    /\ UNCHANGED <<ne, pages, handler, frames, got>>

-----------------------------------------------------------------------------
(* The interrupt.                                                           *)

\* int_ne up to the handle: the status is read once.
Enter ==
    /\ ne.open /\ edge /\ handler = "idle"
    /\ edge' = FALSE
    /\ IF chip.isr \cap {"ovw", "rxe"} # {}
       THEN Reset /\ handler' = "clear"
       ELSE /\ handler' \in IF ne.handle /\ "prx" \in chip.isr THEN {"read", "clear"} ELSE {"clear"}
            /\ UNCHANGED <<chip, frames>>
    /\ UNCHANGED <<ne, pages, got>>

\* The page behind the boundary, where the ring begins anew at its end.
Following(p) == IF p + 1 >= RX_PAGES THEN 0 ELSE p + 1

\* (mutant of Before) The boundary is the next packet itself.
BeforeNot(next) == next
\* The boundary is the page before the next packet.
Before(next) == (IF next = 0 THEN RX_PAGES ELSE next) - 1

\* (mutant of Parts) The second part is read from where the packet begins.
PartsStay(bound) ==
    [k \in 1 .. pages[bound].len |->
        LET p == IF bound + k - 1 >= RX_PAGES THEN bound ELSE bound + k - 1
        IN  [frame |-> pages[p].frame, part |-> pages[p].part]]
\* read_ne copies up to the end of the ring and goes on at its begin.
Parts(bound) ==
    [k \in 1 .. pages[bound].len |->
        LET p == RxNext(bound, k - 1) IN [frame |-> pages[p].frame, part |-> pages[p].part]]

\* read_ne, called by the loop of receive: a reset, nothing, or a packet.  One
\* of odd length is passed over, and ends the loop.
ReadNe ==
    /\ handler = "read"
    /\ LET bound == Following(chip.bnry)
       IN  \/ /\ "ovw" \in chip.isr
              /\ Reset /\ handler' = "clear" /\ UNCHANGED got
           \/ /\ "ovw" \notin chip.isr /\ (~chip.good \/ chip.curr = bound)
              /\ handler' = "clear" /\ UNCHANGED <<chip, frames, got>>
           \/ /\ "ovw" \notin chip.isr /\ chip.good /\ chip.curr # bound
              /\ chip' = [chip EXCEPT !.bnry = Before(pages[bound].next)]
              /\ IF pages[bound].odd
                 THEN /\ frames' = [frames EXCEPT ![pages[bound].frame].dropped = TRUE]
                      /\ handler' = "clear" /\ UNCHANGED got
                 ELSE got' = Append(got, Parts(bound)) /\ UNCHANGED <<frames, handler>>
    /\ UNCHANGED <<ne, pages, edge>>

\* The end of int_ne: whatever came meanwhile is cleared too.
Clear ==
    /\ handler = "clear"
    /\ handler' = "idle"
    /\ chip' = [chip EXCEPT !.isr = {}]
    /\ UNCHANGED <<ne, pages, edge, frames, got>>

NeNext ==
    \/ NeOpen \/ SetHandle \/ NeClose
    \/ \E n \in 1 .. MAX_PAGES, odd \in BOOLEAN : Store(n, odd)
    \/ Refuse
    \/ Enter \/ ReadNe \/ Clear

-----------------------------------------------------------------------------
\* What read_ne returns is a packet that arrived, with all its parts in order,
\* and later packets come later, wherever the ring wraps around.
ReadWhole ==
    \A k \in DOMAIN got :
        LET n == got[k][1].frame
        IN  /\ n \in DOMAIN frames
            /\ got[k] = [j \in 1 .. frames[n].len |-> [frame |-> n, part |-> j]]
            /\ k > 1 => got[k - 1][1].frame < n

\* The packets that the pages behind BNRY hold.
Held(first) ==
    LET walk[k \in 0 .. RX_PAGES] ==
            [p \in RxPage |->
                IF k = 0 \/ p = chip.curr THEN <<>>
                ELSE <<pages[p].frame>> \o walk[k - 1][pages[p].next]]
    IN  walk[RX_PAGES][first]

\* The packets that were neither read nor dropped.
Waiting == {n \in DOMAIN frames : ~frames[n].dropped /\ \A k \in DOMAIN got : got[k][1].frame # n}

\* A packet that was stored is read once, waits in the ring in the order of
\* arrival, or went with a reset: neither the boundary nor a full ring hides one.
NoneHidden ==
    ne.open =>
        LET held == Held(Following(chip.bnry))
        IN  /\ {held[i] : i \in DOMAIN held} = Waiting
            /\ \A i \in 2 .. Len(held) : held[i - 1] < held[i]
=============================================================================
