------------------------------ MODULE TcpList ------------------------------
(***************************************************************************)
(* The receive list of a TCP connection, src/MES/tcp.c: a fixed array of   *)
(* items that are linked in the order of their data.  An item of the array *)
(* is a number.  A list in which one item is linked twice is followed no   *)
(* further: its links lead round or past items.                            *)
(***************************************************************************)
EXTENDS Integers, Sequences, FiniteSets, SequencesExt

CONSTANTS MAX_ITEM,   \* items of the array, MAX_TCPDATA_ITEM
          MAX_MEM     \* limit of the bytes that are held, MAX_TCPDATA_MEM

ASSUME TcpListAssumption == MAX_ITEM \in Nat \ {0} /\ MAX_MEM \in Nat

\* InitTCPSock: an empty list that waits for the byte n.
NewList(n) ==
    [items |-> <<>>, count |-> 0, complete |-> n, readpos |-> 0, total |-> 0]

\* The array entry that FindUnuseTCPDataListItem returns: a linked item whose
\* data could not be allocated is still unused.  0 when all are used.
FindUnuse(L) ==
    LET used == {L.items[k].slot : k \in {j \in DOMAIN L.items : L.items[j].used}}
        left == (1 .. MAX_ITEM) \ used
    IN  IF left = {} THEN 0 ELSE CHOOSE k \in left : \A j \in left : k <= j

\* ulTotalSize of items.
Size(items) == FoldLeft(LAMBDA n, it : n + Len(it.data), 0, items)

\* ReleaseTCPDataListItem for the items from a to b, which hold data.
Release(L, a, b) ==
    [L EXCEPT !.items = SubSeq(L.items, 1, a - 1) \o SubSeq(L.items, b + 1, Len(L.items)),
              !.count = @ - (b - a + 1),
              !.total = @ - Size(SubSeq(L.items, a, b))]

\* GCTCPDataList: the items in front that are read are given back.
GC(L) ==
    LET front == {k \in 0 .. Len(L.items) : \A j \in 1 .. k : L.items[j].read}
        n == CHOOSE k \in front : \A j \in front : j <= k
    IN  IF n = 0 THEN L ELSE Release(L, 1, n)

\* The full list gives up a last item that lies behind what arrives.
DropLast(L, rnext) ==
    IF L.items # <<>> /\ L.count >= MAX_ITEM
       /\ Last(L.items).next > rnext /\ L.complete < rnext
    THEN Release(L, Len(L.items), Len(L.items)) ELSE L

\* The items with it linked where data up to rnext belongs.  Data that is not
\* behind, before or between the items finds no place.
LinkedIn(items, it, rnext) ==
    IF items = <<>> THEN <<[it EXCEPT !.next = rnext]>>
    ELSE IF rnext > Last(items).next THEN Append(items, it)
    ELSE IF rnext < Head(items).next THEN <<it>> \o items
    ELSE LET after == {k \in 1 .. Len(items) - 1 :
                          items[k].next < rnext /\ rnext < items[k + 1].next}
         IN  IF after = {} THEN items
             ELSE InsertAt(items, (CHOOSE k \in after : \A j \in after : k <= j) + 1, it)

\* The item that is linked last holds its data: the items that continue what
\* is complete are complete too.
Completed(L, slot, rnext, data) ==
    LET items == [k \in DOMAIN L.items |->
                    IF L.items[k].slot = slot
                    THEN [L.items[k] EXCEPT !.used = TRUE, !.next = rnext, !.data = data]
                    ELSE L.items[k]]
        from(k) == IF k = 1 THEN L.complete ELSE items[k - 1].next
        goes(k) == items[k].complete \/ from(k) = items[k].next - Len(items[k].data)
        reach == {k \in 0 .. Len(items) : \A j \in 1 .. k : goes(j)}
        n == CHOOSE k \in reach : \A j \in reach : j <= k
    IN  [L EXCEPT !.items = [k \in DOMAIN items |->
                                [items[k] EXCEPT !.complete = @ \/ k <= n]],
                  !.complete = IF n = 0 THEN @ ELSE items[n].next,
                  !.count = @ + 1,
                  !.total = @ + Len(data)]

\* AddTCPDataListItem: data up to rnext; memory says whether alloc_mem gives
\* the block.  An item whose block is refused stays linked without data, and
\* may be taken and linked once more: twice.
Add(L0, rnext, data, memory) ==
    LET L == DropLast(L0, rnext)
        slot == FindUnuse(L)
        it == [slot |-> slot, next |-> 0, data |-> <<>>,
               used |-> FALSE, complete |-> FALSE, read |-> FALSE]
        items == LinkedIn(L.items, it, rnext)
    IN  IF L.count >= MAX_ITEM \/ L.total + Len(data) >= MAX_MEM
           \/ L.complete >= rnext \/ slot = 0 \/ items = L.items
        THEN [list |-> L, twice |-> FALSE]
        ELSE IF \E k \in DOMAIN L.items : L.items[k].slot = slot
        THEN [list |-> L, twice |-> TRUE]
        ELSE [list |-> IF memory
                       THEN Completed([L EXCEPT !.items = items], slot, rnext, data)
                       ELSE [L EXCEPT !.items = items],
              twice |-> FALSE]

\* SetTCPRData
SetRData(L, receive_next, data, memory) ==
    Add(GC(L), receive_next + Len(data), data, memory)

\* The items that ReadTCPRData takes data from.
New(it) == it.complete /\ ~it.read

\* Their bytes, up to each item.
Bytes(L) ==
    LET b[k \in 0 .. Len(L.items)] ==
            IF k = 0 THEN <<>>
            ELSE IF New(L.items[k]) THEN b[k - 1] \o L.items[k].data ELSE b[k - 1]
    IN  b

\* The bytes that are complete and not read.
Unread(L) ==
    LET all == Bytes(L)[Len(L.items)] IN SubSeq(all, L.readpos + 1, Len(all))

\* ReadTCPRData: the list after size bytes were read; the items whose last
\* byte was taken are read, the place in the next one is kept.
Read(L, size) ==
    LET n == IF size < Len(Unread(L)) THEN size ELSE Len(Unread(L))
        b == Bytes(L)
        done == {k \in DOMAIN L.items : New(L.items[k]) /\ Len(b[k]) <= L.readpos + n}
        passed == IF done = {} THEN 0
                  ELSE Len(b[CHOOSE k \in done : \A j \in done : j <= k])
    IN  [L EXCEPT !.items = [k \in DOMAIN L.items |->
                               [L.items[k] EXCEPT !.read = @ \/ k \in done]],
                  !.readpos = @ + n - passed]

\* What a connection has of the stream, when got was read from it before.
Stream(L, got) == got \o Unread(L)
============================================================================
