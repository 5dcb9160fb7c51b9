------------------------------ MODULE Seeprom ------------------------------
(***************************************************************************)
(* The EEPROM disk `se0', src/seeprom.c on the two-wire bus of src/i2c.c.  *)
(* minifs.c seeks before each transfer of a page and looks at no result.   *)
(* A byte on the bus is a step of its own, because the machine may be      *)
(* reset between two; the EEPROM then keeps its content and finishes the   *)
(* write cycle it has begun.  A page of the disk is no larger than what    *)
(* the EEPROM can take at once.                                            *)
(***************************************************************************)
EXTENDS Integers, Sequences

CONSTANTS
    BLOCKS, BLOCK, \* blocks of the EEPROM, 64 Kbytes of cells each
    PAGE_SE,       \* cells of a page of the disk
    TIMEOVER,      \* NAKs after which the driver gives up
    CYCLE,         \* NAKs that the EEPROM gives while it writes
    Data           \* the pages that are written

ASSUME SeepromAssumption ==
    /\ BLOCKS \in 1 .. 4 /\ BLOCK \in Nat \ {0} /\ PAGE_SE \in Nat \ {0} /\ BLOCK % PAGE_SE = 0
    /\ CYCLE \in Nat /\ TIMEOVER \in Nat /\ CYCLE <= TIMEOVER
    /\ Data \subseteq [1 .. PAGE_SE -> Nat]

VARIABLES
    se,    \* se[0]: is it open, its addr
    call,  \* what minifs is at: nothing, after a seek, in a write
    chip,  \* external: the EEPROM
    disk,  \* ghost: the cells that were written, at their positions
    got    \* ghost: what was read, and where

seVars == <<se, call, chip, disk, got>>

NoCall == [do |-> "none"]
NoRead == [at |-> 0, data |-> <<>>]
Cell == 0 .. BLOCKS * BLOCK - 1
At(block, low) == block * BLOCK + (low % BLOCK)

\* mode: what the EEPROM takes a byte for, "off" when it was not called.
SeInit ==
    /\ se = [open |-> FALSE, addr |-> 0] /\ call = NoCall
    /\ disk = [a \in Cell |-> 0] /\ got = NoRead
    /\ chip = [mode |-> "off", block |-> 0, low |-> 0, buf |-> <<>>, busy |-> 0, mem |-> disk]

-----------------------------------------------------------------------------
(* i2c.c, and what the EEPROM makes of it.                                   *)

\* start: the EEPROM forgets a transfer that did not end.
StartI2c(c) == [c EXCEPT !.mode = "off", !.buf = <<>>]

\* (mutant of Answered) The control byte is sent once.
AnsweredAtOnce(c) == c.busy = 0
\* send_ctrl repeats the control byte until it is acknowledged or the count is
\* over.
Answered(c) == c.busy <= TIMEOVER

\* send_ctrl: the control byte names the direction and the block.
SendCtrl(c, rw, block) ==
    IF Answered(c) THEN [StartI2c(c) EXCEPT !.mode = rw, !.block = block, !.busy = 0]
    ELSE StartI2c(c)

\* seek_i2c: the bytes of the address inside the block.
SeekI2c(c, addr) == IF c.mode = "write" THEN [c EXCEPT !.low = addr % BLOCK] ELSE c

\* writebyte: the EEPROM collects the bytes when it was called.
WriteByte(c, data) == IF c.mode = "write" THEN [c EXCEPT !.buf = Append(@, data)] ELSE c

\* stop: the EEPROM begins to write what it has collected.
StopI2c(c) ==
    [c EXCEPT !.mode = "off", !.buf = <<>>,
              !.low = @ + Len(c.buf),
              !.busy = IF c.buf = <<>> THEN @ ELSE CYCLE,
              !.mem = [a \in Cell |->
                  LET i == {j \in DOMAIN c.buf : At(c.block, c.low + j - 1) = a}
                  IN  IF i = {} THEN @[a] ELSE c.buf[CHOOSE j \in i : TRUE]]]

\* read_i2c: the cells from the counter of the EEPROM on.
ReadI2c(c) == [i \in 1 .. PAGE_SE |-> c.mem[At(c.block, c.low + i - 1)]]

-----------------------------------------------------------------------------
(* seeprom.c                                                                 *)

SeReady == se.open /\ call.do # "write"

\* The bits of the control byte that choose the block.
BlockOf(addr) == addr \div BLOCK

\* open_se; minifs_disk_regist keeps the disk open.
OpenSe ==
    /\ ~se.open
    /\ se' = [open |-> TRUE, addr |-> 0]
    /\ UNCHANGED <<call, chip, disk, got>>

\* seek_se: control byte and address bytes; a read or a write goes on there.
SeekSe(addr) ==
    /\ SeReady
    /\ se' = [se EXCEPT !.addr = addr]
    /\ chip' = SeekI2c(SendCtrl(chip, "write", BlockOf(addr)), addr)
    /\ call' = [do |-> "sought"] /\ got' = NoRead
    /\ UNCHANGED disk

\* write_se, write_i2c: the bytes, then the end.
WriteSe(data) ==
    /\ SeReady /\ call.do = "sought"
    /\ call' = [do |-> "write", data |-> data, n |-> 0]
    /\ UNCHANGED <<se, chip, disk, got>>
NextByte ==
    /\ call.do = "write" /\ call.n < Len(call.data)
    /\ chip' = WriteByte(chip, call.data[call.n + 1])
    /\ call' = [call EXCEPT !.n = @ + 1]
    /\ UNCHANGED <<se, disk, got>>
LastByte ==
    /\ call.do = "write" /\ call.n = Len(call.data)
    /\ chip' = StopI2c(chip)
    /\ call' = NoCall
    /\ disk' = [a \in Cell |-> IF a - se.addr \in 0 .. call.n - 1 THEN call.data[a - se.addr + 1]
                               ELSE disk[a]]
    /\ UNCHANGED <<se, got>>

\* read_se calls the EEPROM again, with the block of the last seek.
ReadCtrl == SendCtrl(chip, "read", BlockOf(se.addr))

\* read_se
ReadSe ==
    /\ SeReady /\ call.do = "sought"
    /\ LET c == ReadCtrl
       IN  /\ chip' = [StopI2c(c) EXCEPT !.low = (@ + PAGE_SE) % BLOCK]
           /\ got' = [at |-> se.addr, data |-> ReadI2c(c)]
    /\ call' = NoCall
    /\ UNCHANGED <<se, disk>>

\* The machine is reset, perhaps in the middle of a transfer: init_se.
ResetSe ==
    /\ se.open
    /\ se' = [open |-> FALSE, addr |-> 0] /\ call' = NoCall /\ got' = NoRead
    /\ UNCHANGED <<chip, disk>>

\* Time passes for the EEPROM.
Elapse ==
    /\ chip.busy > 0
    /\ chip' = [chip EXCEPT !.busy = @ - 1]
    /\ UNCHANGED <<se, call, disk, got>>

SeNext ==
    \/ OpenSe \/ NextByte \/ LastByte \/ ReadSe \/ ResetSe \/ Elapse
    \/ \E addr \in {a \in Cell : a % PAGE_SE = 0} : SeekSe(addr)
    \/ \E data \in Data : WriteSe(data)

-----------------------------------------------------------------------------
\* A page that is read is the page that was written there last, also while the
\* EEPROM is still writing and when the machine was reset in the middle of a
\* later write.
PageRead == \A i \in DOMAIN got.data : got.data[i] = disk[got.at + i - 1]
=============================================================================
