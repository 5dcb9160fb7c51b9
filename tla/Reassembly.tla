---------------------------- MODULE Reassembly ----------------------------
(***************************************************************************)
(* The fragments of IP packets: ip_flag_save and check_flag of MES/ip.c,   *)
(* which ip_request calls for every fragment with interrupts off, and the  *)
(* timeout that `initial' runs once a second.  A list of flaginfo blocks   *)
(* is a sequence.  The fragments that come in are those of well-formed     *)
(* packets: fragment k of a packet is its k-th piece of equal size, the    *)
(* last one has no more bit; each may come late, twice or never.           *)
(***************************************************************************)
EXTENDS Integers, Sequences, FiniteSets, FiniteSetsExt

CONSTANTS
    Packets,      \* the packets on the way; the identifer of each is its own
    Pieces,       \* fragments of a packet
    FLAGNUM,      \* lists (6)
    MAX_FLAG,     \* fragments in all lists (128)
    TIMEOUT,      \* seconds that a list lives (12)
    None

ASSUME ReassemblyAssumption ==
    /\ Pieces \in Nat /\ Pieces > 1
    /\ FLAGNUM \in Nat \ {0} /\ MAX_FLAG \in Nat \ {0}
    /\ TIMEOUT \in Nat /\ None \notin Packets

VARIABLES
    flagroot,    \* the lists: identifer, seconds since it was begun, fragments
    whole    \* ghost: the last packet handed to tcpip, as its fragments

flagVars == <<flagroot, whole>>

Root == 0 .. FLAGNUM - 1
Piece == 0 .. Pieces - 1
NoList == [identifer |-> None, age |-> 0, data |-> <<>>]

\* ip_init
FlagInit ==
    /\ flagroot = [i \in Root |-> NoList]
    /\ whole = <<>>

-----------------------------------------------------------------------------
(* The lists.  They are operators on (an image of) flagroot, so that the    *)
(* handler can chain them.                                                  *)

Unused(r) == {i \in Root : r[i].data = <<>>}

\* The flaginfo blocks in use.
Blocks(r) == {x \in Root \X (1 .. MAX_FLAG) : x[2] <= Len(r[x[1]].data)}

\* free_flag_data of the lists S.
FreeLists(r, S) == [i \in Root |-> IF i \in S THEN NoList ELSE r[i]]

\* (mutant of Old) No list ever gets too old.
OldNever(r) == {}
\* The lists that are over their time.
Old(r) == {i \in Root : r[i].data # <<>> /\ r[i].age > TIMEOUT}

\* The list that get_flagroot_index gives up when none is free or too old:
\* the first of the oldest, and list 0 when all are of this second.
Oldest(r) ==
    LET aged == {i \in Root : r[i].age > 0}
    IN  IF aged = {} THEN 0
        ELSE Min({i \in aged : \A j \in aged : r[j].age <= r[i].age})

\* get_flagroot_index: the lists that it frees, and the list it returns.
Cleared(r) ==
    IF Unused(r) # {} THEN r
    ELSE IF Old(r) # {} THEN FreeLists(r, Old(r)) ELSE FreeLists(r, {Oldest(r)})
Fresh(r) == Min(Unused(Cleared(r)))

\* How many fragments of a list come before the new one.  The walk stops at
\* the first that lies behind it, or at the last, and inserts behind that.
Position(list, off) ==
    IF off < list[1].off THEN 0
    ELSE Min({Len(list)} \cup {k \in 1 .. Len(list) : off < list[k].off})

Inserted(list, f) ==
    LET k == Position(list, f.off)
    IN  SubSeq(list, 1, k) \o <<f>> \o SubSeq(list, k + 1, Len(list))

\* The list of an identifer.
Of(r, id) == {i \in Root : r[i].identifer = id}

\* ip_flag_save: flagroot with the fragment f, when there is a flaginfo block.
Saved(r, id, f) ==
    IF Of(r, id) # {}
    THEN [i \in Root |-> IF i \in Of(r, id) THEN [r[i] EXCEPT !.data = Inserted(@, f)] ELSE r[i]]
    ELSE [Cleared(r) EXCEPT ![Fresh(r)] = [identifer |-> id, age |-> 0, data |-> <<f>>]]

\* (mutant of Complete) The more bit is not looked at.
CompleteAny(list) == \A k \in 1 .. Len(list) : list[k].off = k - 1
\* The first pass of check_flag: every fragment begins where the one before
\* it ends, and the last one is the end of the packet.
Complete(list) ==
    /\ \A k \in 1 .. Len(list) : list[k].off = k - 1
    /\ ~ list[Len(list)].more

-----------------------------------------------------------------------------
(* The handler and the timeout.                                             *)

\* The second pass of check_flag: the packet is put together in tmpmem and
\* handed on; the list is freed, without memory in tmpmem too.
Check(r, id) ==
    IF \E i \in Of(r, id) : Complete(r[i].data)
    THEN \E i \in Of(r, id) :
           /\ flagroot' = FreeLists(r, {i})
           /\ whole' \in {whole, r[i].data}
    ELSE flagroot' = r /\ UNCHANGED whole

\* ip_request for fragment k of packet id.  With every flaginfo block in use
\* its memory is freed, and check_flag is called all the same.
Fragment(id, k) ==
    LET f == [pkt |-> id, off |-> k, more |-> k < Pieces - 1]
    IN  IF Cardinality(Blocks(flagroot)) < MAX_FLAG
        THEN Check(Saved(flagroot, id, f), id)
        ELSE Check(flagroot, id)

\* An age counts up to one more than TIMEOUT: then the list is freed.
Older(age) == IF age > TIMEOUT THEN age ELSE age + 1

\* A second passes: check_flagroot_index looks at the time before sys_count
\* goes on.
Second ==
    /\ LET r == FreeLists(flagroot, Old(flagroot))
       IN  flagroot' = [i \in Root |-> IF r[i].data = <<>> THEN r[i] ELSE [r[i] EXCEPT !.age = Older(@)]]
    /\ UNCHANGED whole

FlagNext == Second \/ \E id \in Packets, k \in Piece : Fragment(id, k)

-----------------------------------------------------------------------------
(* Properties.                                                              *)

\* What goes on to tcpip is one whole packet, all its fragments once and in
\* their order, whatever came late, twice or never.
WholePackets ==
    whole # <<>> =>
        /\ Len(whole) = Pieces
        /\ \A k \in 1 .. Pieces : whole[k].off = k - 1 /\ whole[k].pkt = whole[1].pkt

\* No list lives for ever, even when its packet never becomes whole: the
\* fragments of lost packets do not use up the flaginfo blocks.
ListsEnd == \A id \in Packets : Of(flagroot, id) # {} ~> Of(flagroot, id) = {}
=============================================================================
