-------------------------------- MODULE Sci --------------------------------
(***************************************************************************)
(* One serial line of CoreOS: the driver src/sci.c, its transmit and       *)
(* receive interrupts, and the registers of the line.  The byte rings are  *)
(* the queues of Fifo (SciProofs shows that they are).  device.c calls     *)
(* the driver with interrupts off, so a call of the driver is one step;    *)
(* the hardware (Shift, Arrive) moves between any two steps.               *)
(***************************************************************************)
EXTENDS Integers, Sequences

CONSTANTS
    WBUFSIZ, RBUFSIZ,   \* bytes of the two rings
    Ids,                \* the pids that call the driver
    NL, CR,             \* '\n' and '\r'
    Chars,              \* the bytes that the callers write, CR among them
    MaxWrite,           \* bound: bytes of one write
    MaxAccepted,        \* bound: bytes accepted in a behaviour
    MaxArrived,         \* bound: bytes received in a behaviour
    None

\* The id of the kernel's own line: MES/main.c opens the console with it.
SuperPID == 1

ASSUME SciAssumption ==
    /\ WBUFSIZ \in Nat \ {0} /\ RBUFSIZ \in Nat \ {0}
    /\ MaxWrite \in Nat /\ MaxAccepted \in Nat /\ MaxArrived \in Nat
    /\ Ids \subseteq Nat \ {0}
    /\ NL \in Chars /\ NL # CR /\ None \notin Chars \cup {CR}

VARIABLES
    winfo, rinfo,      \* the bytes in the two rings
    current,           \* the byte that was sent last
    id,                \* who opened the line, 0 when nobody
    TIE, RIE,          \* interrupt enables
    TDRE, TDR,         \* transmit register: is it empty, its byte
    RDRF, RDR, ORER,   \* receive register: is it full, its byte; overrun
    accepted,          \* ghost: the bytes that write_sci took, in order
    added,             \* ghost: is the byte of TDR a CR of int_txi
    sent,              \* ghost: the bytes on the wire, in order, but for those CRs
    arrived,           \* ghost: how many bytes came in; they are numbered
    lost,              \* ghost: the bytes that met a full RDR
    gotLast            \* ghost: the last byte that a reader got

txVars == <<winfo, current, TIE, TDRE, TDR, added, accepted, sent>>
rxVars == <<rinfo, RDRF, RDR, ORER, arrived, lost, gotLast>>
sciVars == <<txVars, rxVars, id, RIE>>

\* init_sci
SciInit ==
    /\ winfo = <<>> /\ rinfo = <<>>
    /\ current = None /\ id = 0
    /\ TIE = FALSE /\ RIE = FALSE
    /\ TDRE = TRUE /\ TDR = None /\ added = FALSE
    /\ RDRF = FALSE /\ RDR = 0 /\ ORER = FALSE
    /\ accepted = <<>> /\ sent = <<>>
    /\ arrived = 0 /\ lost = {} /\ gotLast = 0

Smaller(a, b) == IF a < b THEN a ELSE b

-----------------------------------------------------------------------------
(* Transmitting. *)

\* The byte c goes to TDR.
Transmit(c) == TDR' = c /\ TDRE' = FALSE /\ current' = c

\* (mutant of Rest) The ring is not advanced.
RestAll(s) == s
\* What read_ring of one byte leaves.
Rest(s) == Tail(s)

\* (mutant of Enable) It is not enabled when the first byte was sent here.
EnableIfBusy == TIE' = (TIE \/ ~ TDRE)
\* The end of write_sci.
Enable == TIE' = TRUE

\* write_sci: as many bytes as there is room for are taken; with the
\* transmitter empty the oldest byte is sent at once, even when a CR is due.
WriteSci(d) ==
    /\ id # 0 /\ d # <<>>
    /\ LET size == Smaller(Len(d), WBUFSIZ - Len(winfo))
           taken == SubSeq(d, 1, size)
           w == winfo \o taken
       IN  /\ accepted' = accepted \o taken
           /\ \/ TDRE /\ Transmit(Head(w)) /\ winfo' = Rest(w) /\ added' = FALSE
              \/ ~ TDRE /\ winfo' = w /\ UNCHANGED <<TDR, TDRE, current, added>>
           /\ Enable
    /\ UNCHANGED <<rxVars, id, RIE, sent>>

\* The test of int_txi.
CrDue == current = NL

\* int_txi
Txi ==
    /\ TIE /\ TDRE
    /\ \/ /\ CrDue
          /\ Transmit(CR) /\ added' = TRUE /\ UNCHANGED <<winfo, TIE>>
       \/ /\ ~ CrDue /\ winfo # <<>>
          /\ Transmit(Head(winfo)) /\ winfo' = Rest(winfo) /\ added' = FALSE /\ UNCHANGED TIE
       \/ /\ ~ CrDue /\ winfo = <<>>
          /\ TIE' = FALSE /\ UNCHANGED <<winfo, current, TDR, TDRE, added>>
    /\ UNCHANGED <<rxVars, id, RIE, accepted, sent>>

\* The line takes the byte of the transmit register.
Shift ==
    /\ ~ TDRE
    /\ TDRE' = TRUE
    /\ sent' = IF added THEN sent ELSE Append(sent, TDR)
    /\ UNCHANGED <<rxVars, id, RIE, winfo, current, TIE, TDR, added, accepted>>

-----------------------------------------------------------------------------
(* Receiving. *)

\* A byte comes in.  With the register full it is lost and ORER is set;
\* nothing is received while ORER is set.
Arrive ==
    /\ arrived < MaxArrived
    /\ arrived' = arrived + 1
    /\ \/ /\ ~ (RDRF \/ ORER)
          /\ RDRF' = TRUE /\ RDR' = arrived' /\ UNCHANGED <<ORER, lost>>
       \/ /\ RDRF \/ ORER
          /\ ORER' = TRUE /\ lost' = lost \cup {arrived'} /\ UNCHANGED <<RDRF, RDR>>
    /\ UNCHANGED <<txVars, id, RIE, rinfo, gotLast>>

\* (mutant of Stored) The ring refuses the byte when it is full.
StoredIfRoom(s, c) == IF Len(s) < RBUFSIZ THEN Append(s, c) ELSE s
\* write_ring of one byte: a full ring forgets its oldest byte.
Stored(s, c) == IF Len(s) < RBUFSIZ THEN Append(s, c) ELSE Append(Tail(s), c)

\* int_rxi
Rxi ==
    /\ RIE /\ RDRF
    /\ rinfo' = Stored(rinfo, RDR)
    /\ RDRF' = FALSE
    /\ UNCHANGED <<txVars, id, RIE, RDR, ORER, arrived, lost, gotLast>>

\* int_eri
Eri ==
    /\ RIE /\ ORER
    /\ ORER' = FALSE
    /\ UNCHANGED <<txVars, id, RIE, rinfo, RDRF, RDR, arrived, lost, gotLast>>

\* What read_ring of c bytes leaves.
Left(s, c) == SubSeq(s, c + 1, Len(s))

\* read_sci of n bytes; more than the ring can hold is refused.
ReadSci(n) ==
    /\ id # 0 /\ n > 0 /\ n <= RBUFSIZ
    /\ LET c == Smaller(n, Len(rinfo))
       IN  /\ c > 0
           /\ gotLast' = rinfo[c]
           /\ rinfo' = Left(rinfo, c)
    /\ UNCHANGED <<txVars, id, RIE, RDRF, RDR, ORER, arrived, lost>>

-----------------------------------------------------------------------------
(* Opening and closing. *)

\* open_sci.  What the rings and the registers hold stays.
Open(pid) ==
    /\ id = 0
    /\ id' = pid /\ RIE' = TRUE
    /\ UNCHANGED <<txVars, rxVars>>

Closed == id' = 0 /\ RIE' = FALSE

\* close_sci.  Anyone may close the line that SuperPID has open.
Close(pid) ==
    /\ id # 0 /\ (id = pid \/ id = SuperPID)
    /\ Closed
    /\ UNCHANGED <<txVars, rxVars>>

SciNext ==
    \/ \E n \in 1 .. Smaller(MaxWrite, MaxAccepted - Len(accepted)) : \E d \in [1 .. n -> Chars] : WriteSci(d)
    \/ Txi \/ Shift \/ Arrive \/ Rxi \/ Eri
    \/ \E n \in 1 .. RBUFSIZ : ReadSci(n)
    \/ \E pid \in Ids : Open(pid) \/ Close(pid)

-----------------------------------------------------------------------------
(* Properties. *)

\* The bytes on the way from write_sci to the line: the transmit register
\* (unless int_txi put a CR there), then the ring.
OnTheWay == (IF TDRE \/ added THEN <<>> ELSE <<TDR>>) \o winfo

\* But for the CRs that int_txi adds, the line carries exactly the bytes that
\* write_sci took, CRs of the callers among them, in their order, whether
\* write_sci or the interrupt sent them.
NoneLostInOrder == sent \o OnTheWay = accepted

\* The bytes that were received and not read yet.
Pending == rinfo \o IF RDRF THEN <<RDR>> ELSE <<>>
Kept == {Pending[i] : i \in 1 .. Len(Pending)}

\* What was received comes to the readers in its order: the byte read last,
\* the ring and the register are in the order of arrival.  A byte is missing
\* only because it met a full register or was the oldest of a full ring: from
\* the oldest byte in the ring on all are there.
ReadInOrder ==
    /\ \A i \in 1 .. Len(Pending) :
        Pending[i] > IF i = 1 THEN gotLast ELSE Pending[i - 1]
    /\ \A n \in 1 .. arrived :
        n \in Kept \cup lost \/ n <= gotLast \/ (\E m \in 1 .. Len(rinfo) : n < rinfo[m])

\* Every byte that write_sci took is sent, even when nobody writes again and
\* the line is closed in the meantime: the transmit interrupt stays enabled
\* as long as the ring holds a byte.
WritesDrain ==
    \A n \in 1 .. MaxAccepted : Len(accepted) >= n ~> Len(sent) >= n

=============================================================================
