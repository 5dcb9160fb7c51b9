------------------------------ MODULE CoreCom ------------------------------
(***************************************************************************)
(* The boot monitor, src/MES/core_com.c, on the flash disk, src/romdisk.c. *)
(* It keeps the files of the disk `rom0' that the kernel's MiniFS reads,   *)
(* with code of its own: a file is taken from pages that are free, and its *)
(* data is written by counting page numbers down from the first.           *)
(*                                                                         *)
(* Pages are numbered from the first one behind the directory on.  The     *)
(* flash keeps its content when the machine is reset.                      *)
(***************************************************************************)
EXTENDS Integers, Sequences, FiniteSets

CONSTANTS
    ROM_PAGES, \* pages for data
    ROM_PAGE,  \* cells of a page
    SLOTS,     \* entries of the directory
    MAX_DATA,  \* cells that one command may write, 32
    Names,     \* names of files
    Passes     \* results of the comparison with a variable that is never set

ASSUME CoreComAssumption ==
    /\ ROM_PAGES \in Nat /\ ROM_PAGE \in Nat \ {0} /\ SLOTS \in Nat \ {0}
    /\ MAX_DATA \in Nat \ {0} /\ Passes \subseteq BOOLEAN
    /\ Names \cap {"ff", "00"} = {}

VARIABLES
    rom,   \* the flash: the table of the chains, the directory, the pages
    filed, \* filefd: the entry that eepdata writes to, -1 for none
    cmd,   \* the rest of the command that is carried out
    stray, \* data went to a place that belongs to no file
    short, \* ghost: newfile found no room for a file that it is still believed to have
    sent   \* ghost: the cells that were written to the file of each name

monVars == <<rom, filed, cmd, stray, short, sent>>

RomFree == -1
RomTail == -2
RomPage == 1 .. ROM_PAGES
Slot == 1 .. SLOTS

Erased == [name |-> "ff", size |-> -1, fat |-> RomFree]
Zeroed == [name |-> "00", size |-> 0, fat |-> 0]
NoByte == <<>>
Idle == [do |-> "read"]

\* erase_program of all blocks: the first one holds the table and the directory.
Blank0 == [root |-> FALSE,
           fat |-> [p \in RomPage |-> RomFree],
           ents |-> [i \in Slot |-> Erased]]
Unwritten == [p \in RomPage |-> [j \in 0 .. ROM_PAGE - 1 |-> NoByte]]

\* A machine with an erased flash; fsinit opens the disk.
MonInit ==
    /\ rom = [tab |-> Blank0, cells |-> Unwritten]
    /\ filed = 1 /\ cmd = Idle
    /\ stray = FALSE /\ short = FALSE
    /\ sent = [n \in Names |-> {}]

Least(S) == CHOOSE x \in S : \A y \in S : x <= y
Greatest(S) == CHOOSE x \in S : \A y \in S : y <= x

-----------------------------------------------------------------------------
(* Helpers of the commands.                                                 *)

\* The number of pages; a size of 0 wraps around.
PagesFor(size) == IF size = 0 THEN ROM_PAGES + 1 ELSE (size - 1) \div ROM_PAGE + 1

\* (mutant of Taking) A page that ends a chain is taken too.
TakingTails(f, n) ==
    LET free == {p \in RomPage : f[p] \in {RomFree, RomTail}}
    IN  {p \in free : Cardinality({q \in free : q < p}) < n}
\* new_fat takes the first n pages that are free, or all if there are less.
Taking(f, n) ==
    LET free == {p \in RomPage : f[p] = RomFree}
    IN  {p \in free : Cardinality({q \in free : q < p}) < n}

\* Each page that is taken goes on with the one that was taken before it, so
\* the chain begins with the last.
Chained(f, taken) ==
    LET before(p) == {q \in taken : q < p}
    IN  [p \in RomPage |-> IF p \notin taken THEN f[p]
                           ELSE IF before(p) = {} THEN RomTail ELSE Greatest(before(p))]

\* new_fat writes the table, with the chain of the directory in a blank one,
\* also when it finds too little.
NewFat(tab, n) ==
    [tab EXCEPT !.fat = Chained(@, Taking(@, n)), !.root = @ \/ Taking(tab.fat, n) # {}]
FirstFat(f, n) ==
    IF Cardinality(Taking(f, n)) = n THEN Greatest(Taking(f, n)) ELSE RomFree

SlotOf(name) == {i \in Slot : rom.tab.ents[i].name = name}

\* del_entry: the entry is zeroed; its pages stay in use.
Removed(name) ==
    IF SlotOf(name) = {} THEN rom
    ELSE [rom EXCEPT !.tab.ents[Least(SlotOf(name))] = Zeroed]

\* (mutant of NodeOf) The pages of a file are counted up.
NodeOfUp(e, k) == e.fat + k
\* writedata: page number k of a file.
NodeOf(e, k) == e.fat - k

\* writedata refuses what ends behind the file.
Inside(e, at, len) == e.size >= at + len

\* seek_rom refuses a page behind the disk, which RomFree is; in front of the
\* pages for data are those of the directory.
Seekable(p) == p \in RomPage

\* writedata of len cells from position `at' of file o.  Without room newfile
\* leaves no entry or an entry without pages: seek_rom then refuses, and the
\* page it stood on, one of the directory, is written over.
WriteData(o, at, len) ==
    IF filed = -1 THEN stray' = TRUE /\ UNCHANGED <<rom, sent>>
    ELSE LET e == rom.tab.ents[filed]
             pos(k, j) == k * ROM_PAGE + j
             node == [k \in at \div ROM_PAGE .. (at + len - 1) \div ROM_PAGE |-> NodeOf(e, k)]
             cell(p, j) ==
                 LET k == {i \in DOMAIN node : node[i] = p /\ pos(i, j) \in at .. at + len - 1}
                 IN  IF k = {} THEN rom.cells[p][j] ELSE <<o, pos(Least(k), j)>>
         IN  \/ ~Inside(e, at, len) /\ UNCHANGED <<rom, sent, stray>>
             \/ /\ Inside(e, at, len)
                /\ \E k \in DOMAIN node : ~Seekable(node[k])
                /\ stray' = TRUE /\ UNCHANGED <<rom, sent>>
             \/ /\ Inside(e, at, len)
                /\ \A k \in DOMAIN node : Seekable(node[k])
                /\ rom' = [rom EXCEPT !.cells =
                             [p \in RomPage |-> [j \in 0 .. ROM_PAGE - 1 |-> cell(p, j)]]]
                /\ sent' = [sent EXCEPT ![e.name] =
                              IF o = e.name THEN @ \cup (at .. at + len - 1)
                              ELSE @ \ (at .. at + len - 1)]
                /\ UNCHANGED stray

-----------------------------------------------------------------------------
(* The commands.  A reset may come between two writes of one.               *)

Ready == cmd = Idle /\ ~stray

\* newfile: the pages are taken before those of an old file of the name are
\* looked at.
NewFile(name, size) ==
    /\ Ready
    /\ LET n == PagesFor(size)
           first == FirstFat(rom.tab.fat, n)
       IN  /\ rom' = [rom EXCEPT !.tab = NewFat(@, n)]
           /\ cmd' = [do |-> "del", name |-> name, size |-> size, fat |-> first]
           /\ short' = (short \/ first = RomFree)
    /\ UNCHANGED <<filed, stray, sent>>

\* newfile, del_entry of an old file; that no pages were found is not noticed,
\* the comparison with -1 never holds.
NewFileDel ==
    /\ cmd.do = "del"
    /\ rom' = Removed(cmd.name)
    /\ cmd' = [cmd EXCEPT !.do = "add"]
    /\ sent' = [sent EXCEPT ![cmd.name] = {}]
    /\ UNCHANGED <<filed, stray, short>>

\* newfile, new_entry: the first entry that was never used.  That there is
\* none is not noticed either.
NewFileAdd ==
    /\ cmd.do = "add"
    /\ LET entry == [name |-> cmd.name, size |-> cmd.size, fat |-> cmd.fat]
           i == Least(SlotOf("ff"))
       IN  \/ /\ SlotOf("ff") # {}
              /\ rom' = [rom EXCEPT !.tab.ents[i] = entry]
              /\ filed' = i /\ UNCHANGED short
           \/ SlotOf("ff") = {} /\ filed' = -1 /\ short' = TRUE /\ UNCHANGED rom
    /\ cmd' = Idle
    /\ UNCHANGED <<stray, sent>>

\* del
DelFile(name) ==
    /\ Ready
    /\ rom' = Removed(name)
    /\ sent' = [sent EXCEPT ![name] = {}]
    /\ UNCHANGED <<filed, cmd, stray, short>>

\* init: the first block is erased, then the others; filefd stays, and so does
\* -1 in it.
EraseFirst ==
    /\ Ready
    /\ rom' = [rom EXCEPT !.tab = Blank0]
    /\ cmd' = [do |-> "erase"]
    /\ sent' = [n \in Names |-> {}] /\ short' = (filed = -1)
    /\ UNCHANGED <<filed, stray>>
EraseRest ==
    /\ cmd.do = "erase"
    /\ rom' = [rom EXCEPT !.cells = Unwritten]
    /\ cmd' = Idle
    /\ UNCHANGED <<filed, stray, short, sent>>

\* eepdata: too many cells, or the comparison with `size', which is never set,
\* ends it with an error; "@" says nothing of what writedata did.
EepData(o, at, len, answer) ==
    /\ Ready
    /\ \/ /\ answer = "." /\ (len > MAX_DATA \/ FALSE \in Passes)
          /\ UNCHANGED <<rom, sent, stray>>
       \/ /\ answer = "@" /\ len <= MAX_DATA /\ TRUE \in Passes
          /\ WriteData(o, at, len)
    /\ UNCHANGED <<filed, cmd, short>>

\* The machine is reset: the variables of the monitor begin anew, filefd with
\* the first entry.
Reset ==
    /\ ~stray
    /\ cmd' = Idle /\ filed' = 1
    /\ UNCHANGED <<rom, stray, short, sent>>

-----------------------------------------------------------------------------
(* What the monitor promises.                                               *)

\* dir, get_entry: the files of the disk.
Dir == {i \in Slot : rom.tab.ents[i].name \notin {"ff", "00"}}
InRom(i) == rom.tab.ents[i].fat # RomFree

\* The pages of a file as the kernel finds them.
RomChain(first) ==
    LET walk[k \in 0 .. ROM_PAGES] ==
            [p \in RomPage \cup {0, RomFree, RomTail} |->
                IF k = 0 \/ p \notin RomPage THEN <<>> ELSE <<p>> \o walk[k - 1][rom.tab.fat[p]]]
    IN  walk[ROM_PAGES][first]

\* Whenever the machine was reset, each file that the directory lists has a
\* chain as long as the file that no other file shares, and no name is listed
\* twice; the files that newfile found no room for have none.
RomApart ==
    ~stray => \A i \in Dir :
        LET e == rom.tab.ents[i]
            c == RomChain(e.fat)
        IN  /\ \A o \in Dir \ {i} : rom.tab.ents[o].name # e.name
            /\ InRom(i) =>
                  /\ rom.tab.root /\ Len(c) = PagesFor(e.size)
                  /\ rom.tab.fat[c[Len(c)]] = RomTail
                  /\ \A o \in Dir \ {i}, k \in DOMAIN c :
                        \A m \in DOMAIN RomChain(rom.tab.ents[o].fat) :
                            RomChain(rom.tab.ents[o].fat)[m] # c[k]

\* What eepdata wrote by counting pages down the kernel reads by following the
\* chain, whatever happened to other files since; data goes astray only after
\* newfile found no room for a file.
KernelReads ==
    IF stray THEN short
    ELSE \A i \in Dir :
        LET e == rom.tab.ents[i]
            c == RomChain(e.fat)
        IN  \A pos \in sent[e.name] :
                /\ pos \div ROM_PAGE < Len(c)
                /\ rom.cells[c[pos \div ROM_PAGE + 1]][pos % ROM_PAGE] = <<e.name, pos>>
=============================================================================
